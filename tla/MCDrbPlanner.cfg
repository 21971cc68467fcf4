CONSTANTS
    NE = 2
    Inputs <- MCInputs
    TopLevel = TRUE
    BigOmega = TRUE
    DynOmega = TRUE
    AddCache = TRUE
    PullUpSel = FALSE
    ForceAgg = FALSE
    MaxCands = 2
SPECIFICATION PlannerSpec
INVARIANT PlannerTypeOK
INVARIANT RewriteKeepsPlan
INVARIANT ExpandCoversOp
INVARIANT MatsInvariant
