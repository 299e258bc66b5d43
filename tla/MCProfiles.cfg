SPECIFICATION Spec
CONSTANTS
    short = short
    long = long
    Secrets <- TwoSecrets
    ChunkCount <- TwoCounts
    MaxCount = 2
    ProfileIds = {p, q}
    Kinds = {"gemini", "router", "codex_cli"}
    SignInKind = "codex_cli"
    DefaultKind = "gemini"
    EnvironmentKinds = {"gemini"}
    Refreshers = {r}
    NoProfile = none
    MaxCommands = 3
    MaxFaults = 2
    MaxCrashes = 1
SYMMETRY ProfileSymmetry
CHECK_DEADLOCK FALSE
INVARIANTS
    CredentialsFollowLinks
    AdapterFollowsActiveProfile
    CatalogIsTheAdapters
