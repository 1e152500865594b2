CONSTANTS
    Ops = {1, 2, 3}
    TagOf <- OwnTags
    Uids = {1, 2}
    MaxProcs = 2
    MaxControl = 1
    RunnerBudgets <- RunnerFaults
    Builders = {b1, b2}
    Forcing = {b2}
    MaxBuilds = 1
    BuildBudgets <- BuildFaults
    Turns = {1, 2}
    DirBudgets <- DirFaults
    Operators = {1, 2}
    Mods = {1, 2}
    Sequences <- Requirements
    Version <- Versions
    Onboarded = {1}
    SetupBudgets <- SetupFaults
    Writers = {1, 2}
    Harnesses = {"claude", "pi"}
    Providers = {"anthropic", "openai"}
    Offers <- OffersOf
    Environments = {"unset"}
    SavedScopes <- NoWorkspace
    Shipped <- Ship
    Unset = "unset"
    Agents = {a1, a2}
    Drafts = {1, 2}
    KeepVersions = 1
    StoreBudgets <- StoreFaults
    Calls = {k1, k2}
    Caps = {"j", "u", "a"}
    Kind <- Kinds
    ToolChain = {"tool", "master"}
    OnByDefault = {}
    Rows <- Written
    FirstFlags <- Master
    CallBudgets <- CallFaults
    Uses = {1, 2, 3, 4}
    Checks = {4}
    HandleOf <- Sessions4
    Retiring = {1, 2}
    KeyOf <- OneKey
    BudgetOf <- Slots
    QueueLimit = 1
    MaxCloseAttempts = 2
    PoolBudgets <- SqlFaults
SPECIFICATION HostSpec
INVARIANT UidIsolation
PROPERTY SignalHitsItsRun
 
INVARIANT RunKeepsItsDirs
 
PROPERTY SavedPairRuns
INVARIANT LaunchIsServed
INVARIANT OneIdPerCommit
PROPERTY RefusalHolds
PROPERTY DependenciesFirst
INVARIANT PoolsAccounted
CHECK_DEADLOCK FALSE
