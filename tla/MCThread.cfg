CONSTANTS
    Jobs = {1, 2, 3}
    Depth <- Flat
    LineId <- Flat
    Priority <- Flat
    MsgRank <- Crossed
    Detachable = {3}
    Consumers = {c1, c2}
    Delays = {0, 60000}
    LateSession = FALSE
    MaxRetries = 1
    MaxPauses = 1
    MaxFaults = 0
    Rows = {1, 2, 3, 4}
    MaxDepth = 2
    WakeOn = {1, 2, 3, 4}
    MayDetach = {3}
    OutRows = {1, 2, 3}
    Ours = {1, 3}
    Appends = {11, 12, 13}
    Partials = {12}
    Backdated = {13}
    LogBudgets <- LogLimits
    Execs = {1, 2}
    MaxQueue = 1
    Batch = 2
    MaxGaps = 1
    DeltaBudgets <- DeltaLimits
    Chats = {1, 2}
    Channels = {2}
    Messages = {1, 2}
    Posts = {"p1", "p2"}
    Targets <- SentTo
    MaxPinned = 1
    ChatBudgets <- ChatFaults
    Mods = {1, 2, 3}
    HarnessOf <- OneHarness
    Recorder = 1
    Tasks = {"t1", "t2"}
    ChannelOf <- ChannelUsed
    MaxWorkers = 2
    ReloadBudgets <- ReloadLimits
SPECIFICATION FairThreadSpec
INVARIANT OneStartedTurn
INVARIANT SessionNeverForks
INVARIANT NoLostWake
INVARIANT NoEventSkipped
 
INVARIANT JobKeepsItsLoad
PROPERTY PostsSurviveRetention
PROPERTY MessageSettles
CHECK_DEADLOCK FALSE
