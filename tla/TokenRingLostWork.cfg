SPECIFICATION Spec
CONSTANTS
    N = 2
    T <- TwoAndOne
    ChunkSize = 1
    ChunksToSteal = 1
    First <- RootOnly
    Fanout = {3}
    MaxProblems = 4
    MaxRequests <- NoneAndOne
INVARIANTS
    AllProcessed
