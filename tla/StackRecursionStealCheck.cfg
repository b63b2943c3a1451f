SPECIFICATION Spec
CONSTANTS
    N = 2
    Chunk = 1
    InitialStackSize = 2
    Node <- DeepNode
    Root = 1
    Children <- DeepChildren
    Subtree <- DeepSubtree
    Parallel <- DeepNode
    Throwing = {}
    Testing = FALSE
    TestSize = 0
    NoNode = NoNode
INVARIANT
    LocalIsStable
CHECK_DEADLOCK FALSE
