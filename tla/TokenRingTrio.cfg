SPECIFICATION Spec
CONSTANTS
    N = 3
    T <- OneThread
    ChunkSize = 1
    ChunksToSteal = 1
    First <- RootOnly
    Fanout = {3}
    MaxProblems = 4
    MaxRequests <- NoneAndOne
INVARIANTS
    TypeOK
    OneAnswerEach
    MoppedUp
PROPERTIES
    ImplementsPool
