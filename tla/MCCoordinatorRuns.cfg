CONSTANTS
    Inputs = {i1, i2}
    Attempts = {a1, a2}
    Calls = {c1, c2}
    ContextTurns = {t1, t2}
    Models = {m1}
    TurnLimits = {2}
    MaxSequence = 60
    None = None
    ProposalCalls = {}
    Outcomes = {"Allow", "Ask"}
    RestartModes = {"current", "opened"}
    ProviderAtStart = {TRUE}
    CredentialMayLapse = FALSE
    MaxConcurrency = 2
    MaxOutputs = 0
    MaxEdits = 0
    MaxRestarts = 2

CHECK_DEADLOCK FALSE
SPECIFICATION CoordSpec
SYMMETRY RunSymmetry
INVARIANTS
    NothingIsOrphaned
    EveryRunHasAnOwner
    SlotsCountRunningCalls
PROPERTIES
    OnlyAnswersStopIt
