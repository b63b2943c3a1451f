SPECIFICATION Spec
CONSTANTS
    NProcs = 3
    MaxImbalance = 20
    Programs <- MCPrograms
    ByCosts <- redistribute
    Buffered = {TRUE, FALSE}
INVARIANTS
    SharesSettled
    CallsDoNotMix
    OwnResults
    NeverStuck
