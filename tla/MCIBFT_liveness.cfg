SPECIFICATION FairSpec
CONSTANTS
    n1 = n1
    n2 = n2
    n3 = n3
    n4 = n4
    A = A
    B = B
    X = X
    NoBlock = NoBlock
    NoPC = NoPC
    NoRoundChange = NoRoundChange
    Blocks = {A, B, X}
    ValidBlocks = {A, B}
    Proposer <- RoundRobin
    Nodes <- Four
    Quorum = 3
    MaxRound = 1
    Built <- BuiltLate
    ExpiringRounds <- FirstExpires
    Cancellable = {n4}
    Lingering = {}
PROPERTY
    EveryNodeFinalizes
CHECK_DEADLOCK FALSE
