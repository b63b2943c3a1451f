SPECIFICATION FairSpec
CONSTANTS
    N = 3
    Chunk = 1
    InitialStackSize = 2
    Node <- DeepNode
    Root = 1
    Children <- DeepChildren
    Subtree <- DeepSubtree
    Parallel <- DeepNode
    Throwing <- DeepThrowing
    Testing = TRUE
    TestSize = 2
    NoNode = NoNode
INVARIANTS
    SlotsInUse
    ExitNormallyIsExact
    ThrowIsRethrown
PROPERTIES
    Termination
CHECK_DEADLOCK FALSE
