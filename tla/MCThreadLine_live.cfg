CONSTANTS
    Jobs = {1, 2, 3}
    Depth <- Flat
    LineId <- Flat
    Priority <- Flat
    MsgRank <- Crossed
    Detachable = {}
    Consumers = {c1}
    Delays = {0}
    LateSession = FALSE
    MaxRetries = 1
    MaxPauses = 1
    MaxFaults = 1
SPECIFICATION FairSpec
PROPERTY EveryTurnEnds
CHECK_DEADLOCK FALSE
