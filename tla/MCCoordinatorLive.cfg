CONSTANTS
    Inputs = {i1}
    Attempts = {a1}
    Calls = {c1, c2}
    ContextTurns = {t1, t2}
    Models = {m1}
    TurnLimits = {2}
    MaxSequence = 60
    None = None
    ProposalCalls = {}
    Outcomes = {"Allow", "Ask", "Deny"}
    RestartModes = {"current", "opened"}
    ProviderAtStart = {TRUE}
    CredentialMayLapse = TRUE
    MaxConcurrency = 1
    MaxOutputs = 0
    MaxEdits = 0
    MaxRestarts = 1

CHECK_DEADLOCK FALSE
SPECIFICATION FairSpec

PROPERTIES
    CancellationReachesEffects
    RunsDoNotHang
