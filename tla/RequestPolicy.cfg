SPECIFICATION FairSpec
CONSTANTS
    T = 3
    Policies = {"multiple", "predictive", "aggressive"}
    Limits <- TwoForMultiple
    PredictCount = 3
    Given = 1
    MaxUnits = 3
    MaxRequests = 1
INVARIANTS
    TypeOK
    LimitKept
    DealtToBlocked
    BlockedHasAsker
    UnitsConserved
PROPERTIES
    BlockedIsReleased
    AllDone
