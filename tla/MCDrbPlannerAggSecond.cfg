CONSTANTS
    NE = 2
    Inputs <- MCInputsAggSecond
    TopLevel = TRUE
    BigOmega = TRUE
    DynOmega = TRUE
    AddCache = TRUE
    PullUpSel = FALSE
    ForceAgg = FALSE
    MaxCands = 2
SPECIFICATION PlannerSpec
INVARIANT ExpandCoversOp
