CONSTANTS
    Creds = {1, 2}
    Rotating = {1}
    Runs = {r1, r2}
    PoolBudgets <- PoolFaults
    Harnesses = {"claude", "codex", "pi"}
    Lines <- Announced
    PipeSize = 1
    MaxRetained = 2
    RunLimits <- Behind
    Views = {"v1", "v2"}
    i1 = i1
    i2 = i2
    Issues = {i1, i2}
    Misfits = {i2}
    Mods = {sync}
    SyncMod = sync
    Renderers = {n1, n2}
    Syncers = {s1, s2}
    MaxResults = 2
    CronBudgets <- CronFaults
SPECIFICATION FairPoolSpec
INVARIANT RotationSafe
PROPERTY LeaseEnds
PROPERTY RunEnds
INVARIANT SteadyTaskStays
PROPERTY CrontabFollows
CHECK_DEADLOCK FALSE
