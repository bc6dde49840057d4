SPECIFICATION Spec
CONSTANTS
    me = me
    peer = peer
    A = A
    B = B
    X = X
    NoBlock = NoBlock
    None = None
    Nodes = {me, peer}
    Self = me
    Quorum = 2
    MaxRound = 2
    Proposer <- Alternate
    Blocks = {A, B, X}
    ValidBlocks = {A, B}
    Built = {A, B, NoBlock}
    ChannelSize = 1
    MaxRuns = 2
    MaxReceived = 3
INVARIANTS
    Inv
    NeverPanics
    SealsMatchBlock
    VotesOnce
    CertificatesEarned
    VerdictsTrue
    ProposalNoticed
