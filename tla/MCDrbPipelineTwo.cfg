CONSTANTS
    N = 2
    MaxCands = 2
    IntBits = 32
    Nodes <- TwoNodes
    Root = 1
    Kids <- TwoKids
    Kind <- TwoKind
    ExpOf <- TwoExpOf
    Strat <- TwoStrat
    DynOmega = FALSE
    Switching = {}
SPECIFICATION Spec
INVARIANT PassCorrect
