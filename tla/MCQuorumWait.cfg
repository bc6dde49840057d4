SPECIFICATION FairSpec
CONSTANTS
    v1 = v1
    v2 = v2
    v3 = v3
    v4 = v4
    Validators <- Four
    Target = 3
    ChannelSize = 6
    MaxOther = 1
INVARIANTS
    NoLostWakeup
    EndsWithQuorum
PROPERTIES
    ImplementsGuard
    QuorumEndsWait
CHECK_DEADLOCK FALSE
