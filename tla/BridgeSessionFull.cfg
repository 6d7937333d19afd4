SPECIFICATION FairSpec
CONSTANTS
    MaxOut = 1
    MaxIn = 2
    MaxSignals = 1
    PipeCap = 1
    NetCap = 2
CHECK_DEADLOCK FALSE
PROPERTY LostCommandEnds
