CONSTANTS
    k1 = k1
    k2 = k2
    Calls <- TwoCalls
    Kinds <- TwoKinds
    MaxPending = 1
    MaxIntents = 1
    MaxUiNotices = 2
    Unrepresentable = {2}
    MaxSettlements = 3
    Publishing = {"session", "catalog"}
    MaxPublished = 4
    MaxDisturbances = 1

SPECIFICATION Spec
CHECK_DEADLOCK FALSE
INVARIANTS
    ClientMirrorsHost
    PendingAnswersFit
    NothingIsLost
