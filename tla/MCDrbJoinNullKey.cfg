CONSTANTS
    k1 = k1
    k2 = k2
    knull = knull
    Keys <- MCKeysWithNull
    Null = knull
    MaxCands = 2
    CandCounts = {2}
    MaxRows = 2
    MaxScans = 3
    HasExpand = TRUE
    Preselect = FALSE
    Reopt = FALSE
    NonVars = {}
    OldTl = {1, 2}
    NewTls = {{1, 2}}
SPECIFICATION JoinSpec
INVARIANT LookupResolved
