CONSTANTS
    N = 2
    MaxCands = 8
    IntBits = 32
    Nodes <- MixNodes
    Root = 1
    Kids <- MixKids
    Kind <- MixKind
    ExpOf <- MixExpOf
    Strat <- MixStrat
    DynOmega = TRUE
    Switching = {1}
SPECIFICATION Spec
INVARIANT PassCorrect
