SPECIFICATION Spec
CONSTANTS
    NProcs = 3
    MaxImbalance = 20
    Programs <- EmptyRankFirst
    ByCosts <- redistribute
    Buffered = {TRUE}
INVARIANTS
    CallsDoNotMix
