CONSTANTS
    Jobs = {1, 2, 3}
    Depth <- Flat
    LineId <- Flat
    Priority <- Flat
    MsgRank <- Flat
    Detachable = {}
    Consumers = {c1, c2}
    Delays = {0}
    LateSession = TRUE
    MaxRetries = 0
    MaxPauses = 1
    MaxFaults = 0
SPECIFICATION Spec
INVARIANT SessionNeverForks
CHECK_DEADLOCK FALSE
