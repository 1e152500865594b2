CONSTANTS
    Mods = {1, 2}
    HarnessOf <- NoHarness
    Recorder = 1
    Tasks = {"t1"}
    ChannelOf <- ChannelUsed
    MaxWorkers = 1
    ReloadBudgets <- OneEdit
SPECIFICATION ReloadSpec
INVARIANT FailedReloadKeeps
CHECK_DEADLOCK FALSE
