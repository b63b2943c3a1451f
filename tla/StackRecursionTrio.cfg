SPECIFICATION FairSpec
CONSTANTS
    N = 3
    Chunk = 2
    InitialStackSize = 2
    Node <- WideNode
    Root = 1
    Children <- WideChildren
    Subtree <- WideSubtree
    Parallel <- WideParallel
    Throwing = {}
    Testing = FALSE
    TestSize = 0
    NoNode = NoNode
INVARIANTS
    TypeOK
    StackShape
    SlotsInUse
    ThiefIsEmpty
    DoneMeansEmpty
PROPERTIES
    Termination
    ImplementsPool
CHECK_DEADLOCK FALSE
