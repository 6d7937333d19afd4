SPECIFICATION FairSpec
CONSTANTS
    N = 3
    MaxConcurrent = 2
    Lenient = {2}
    MaxRuns = 2
    Kinds = {"pipeline", "workflow"}
CHECK_DEADLOCK FALSE
INVARIANTS JournalTruth OkMeansComplete
PROPERTY EndsWhenCancelled
