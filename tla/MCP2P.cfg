SPECIFICATION FairSpec
CONSTANTS
    validator = validator
    other = other
    c1 = c1
    c2 = c2
    vote = vote
    block = block
    block2 = block2
    Nodes = {validator, other}
    Validators = {validator}
    Callers = {c1, c2}
    Data = {vote, block, block2}
    Kind <- KindOf
    Size <- SizeOf
    MaxMessageSize = 2
    MaxTransmitSize = 1
    ChannelSize = 1
    Read <- ConsensusRead
    Kept <- RoleKept
    Made <- RoleMade
    Strange <- StrangeData
    None = None
    Panicked = Panicked
INVARIANTS
    TypeOK
    RelayedOnce
PROPERTIES
    NoEcho
    BroadcastReturns
