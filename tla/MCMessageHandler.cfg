SPECIFICATION Spec
CONSTANTS
    self = self
    peer = peer
    stranger = stranger
    None = None
    Self = self
    Validators = {self, peer}
    Addresses = {self, peer, stranger}
    MaxRound = 1
    MaxHeight = 3
    MaxStored = 3
    Proposer <- Turns
INVARIANTS
    TypeOK
    StaleAtMostOne
PROPERTY
    FutureKept
CHECK_DEADLOCK FALSE
