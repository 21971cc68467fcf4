CONSTANTS
    N = 3
    MaxCands = 4
    IntBits = 32
    Nodes <- DefNodes
    Root = 1
    Kids <- DefKids
    Kind <- DefKind
    ExpOf <- DefExpOf
    Strat <- DefStrat
    DynOmega = FALSE
    Switching = {}
SPECIFICATION Spec
INVARIANT PipeTypeOK
INVARIANT PassCorrect
INVARIANT ChgCoversChangedOps
