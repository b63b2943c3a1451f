SPECIFICATION Spec
CONSTANTS
    Options <- MCOptions
    initial_mandatory_chunks <- Mandatory
    maxNumChunksTestAllowed = 3
    initTolerance = 30
    finalTolerance = 10
    Speeds = {8, 10}
INVARIANTS
    QueueSound
    TestsEven
    RoundsPromised
    BestSurvives
