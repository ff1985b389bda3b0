SPECIFICATION Spec
CONSTANTS
    MaxBits = 60
    MaxResults = 40
    Widths = {4, 18}
    Chains <- MCChains
    CJtagArgs <- MCCJtagArgs
    MaxOps = 3
INVARIANTS JTypeOK StateTracked ScansAsAsked ResultsInPlace
