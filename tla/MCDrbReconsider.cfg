CONSTANTS
    Costs = {100}
    EstSels = {33}
    SelVals = {10, 20, 30, 50}
    CandNums = {1, 2, 3}
    MaxCands = 3
    Models = {1, 2, 3, 4}
SPECIFICATION RSpec
INVARIANT SwitchAgreesWithSpec
