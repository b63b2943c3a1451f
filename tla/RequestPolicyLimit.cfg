SPECIFICATION Spec
CONSTANTS
    T = 3
    Policies = {"aggressive"}
    Limits <- Two
    PredictCount = 1
    Given = 1
    MaxUnits = 1
    MaxRequests = 2
INVARIANTS
    LimitKept
