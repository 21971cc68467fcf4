CONSTANTS
    N = 4
    MaxCands = 3
    IntBits = 32
SPECIFICATION TopFairSpec
INVARIANT TypeOK
INVARIANT PassesWithinBudget
PROPERTY EnumerationRefined
