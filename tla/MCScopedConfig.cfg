CONSTANTS
    Writers = {1}
    Harnesses = {"claude", "pi"}
    Providers = {"anthropic", "openai"}
    Offers <- OffersOf
    Environments = {"unset"}
    SavedScopes = {"default", "workspace", "agent_view"}
    Shipped <- Ship
    Unset = "unset"
SPECIFICATION ConfigSpec
PROPERTY SavedPairRuns
CHECK_DEADLOCK FALSE
