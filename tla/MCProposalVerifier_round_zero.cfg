SPECIFICATION Spec
CONSTANTS
    n1 = n1
    n2 = n2
    n3 = n3
    A = A
    B = B
    X = X
    Nobody = Nobody
    NoPC = NoPC
    NoRCC = NoRCC
    Nodes = {n1, n2, n3}
    Quorum = 2
    Views <- SomeViews
    Proposer <- RoundRobin
    Blocks = {A, B, X}
    ValidBlocks = {A, B}
    Inputs <- SomeInputs
INVARIANT
    AcceptedIsJustified
