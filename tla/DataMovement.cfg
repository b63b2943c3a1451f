SPECIFICATION Spec
CONSTANTS
    Cases <- MCCases
    MaxImbalance = 20
    MaxElemsPerRank = 2
INVARIANTS
    SendersFirst
    PlansAgree
    ProblemsPartitioned
    ResultsFit
    RootResultRight
    InputsComeHome
    NoDeadlock
