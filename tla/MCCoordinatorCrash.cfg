CONSTANTS
    Inputs = {i1}
    Attempts = {a1}
    Calls = {c1, c2}
    ContextTurns = {t1, t2}
    Models = {m1}
    TurnLimits = {2}
    MaxSequence = 60
    None = None
    ProposalCalls = {c2}
    Outcomes = {"Allow", "Ask", "Deny"}
    RestartModes = {"current", "opened"}
    ProviderAtStart = {TRUE, FALSE}
    CredentialMayLapse = TRUE
    MaxConcurrency = 1
    MaxOutputs = 1
    MaxEdits = 1
    MaxRestarts = 2

CHECK_DEADLOCK FALSE
SPECIFICATION CoordSpec
SYMMETRY TurnSymmetry
INVARIANTS
    ProviderRequestsAccounted
    ToolEffectsAccounted
