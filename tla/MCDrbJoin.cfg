CONSTANTS
    k1 = k1
    k2 = k2
    knull = knull
    Keys <- MCKeysNonNull
    Null = knull
    MaxCands = 2
    CandCounts = {2}
    MaxRows = 2
    MaxScans = 3
    HasExpand = TRUE
    Preselect = TRUE
    Reopt = TRUE
    NonVars = {3}
    OldTl = {1, 2}
    NewTls = {{1}, {1, 3}, {2, 4}}
SPECIFICATION JoinSpec
INVARIANT JoinTypeOK
INVARIANT LookupResolved
