SPECIFICATION FairSpec
CONSTANTS
    N = 2
    T <- TwoAndOne
    ChunkSize = 1
    ChunksToSteal = 1
    First <- Distributed
    Fanout = {3}
    MaxProblems = 5
    MaxRequests <- NoneAndTwice
INVARIANTS
    ChunkAccounting
    WorkConserved
PROPERTIES
    Termination
