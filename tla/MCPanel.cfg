CONSTANTS
    Logins = {1, 2}
    LoginWorkers = {1, 2}
    LoginBudgets <- LoginLimits
    Users = {1, 2}
    CustomRoles = {"ops"}
    MaxLaunches = 1
    AccessBudgets <- AccessLimits
    Panelists = {1, 2}
    AppBudgets <- AppLimits
    Calls = {1, 2}
    Window = 2
    Hold = 3
    Retention = 1
    Ceiling = 1
    Threshold = 2
    LastTime = 6
    MaxRequests = 4
    Sources = {1, 2}
    KindOfSource <- Kinds
    Callers = {"c1", "c2"}
    CapTtl = 2
    BlockTtl = 2
    MintTtl = 3
    SseTtl = 2
    LastSecond = 3
    CapBudgets <- CapLimits
    Pollers = {1, 2}
    Views = {1, 2}
    Mails = {1, 2}
    SenderOf <- OneSender
    KindOf <- MailKinds
    StartConfigs <- Answering
    MailBudgets <- MailLimits
    Hosts = {"github", "bitbucket", "jira"}
    Reviewers = {"r1"}
    MaxTalk = 3
    MaxTime = 2
    LaneBudgets <- LaneLimits
    Fields <- FieldList
    Tester <- Declared
    Commands <- Asked
    Cooldown = 2
    MaxEntries = 1
    LastTick = 3
    TestBudgets <- TestLimits
SPECIFICATION PanelSpec
INVARIANT HomeKept
INVARIANT AccessFollowsUser
 
PROPERTY HoldLasts
INVARIANT QuietEndRevokes
 
INVARIANT FeedbackQueued
INVARIANT ProbesSpaced
CHECK_DEADLOCK FALSE
