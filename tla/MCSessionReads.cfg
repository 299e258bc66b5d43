CONSTANTS
    Inputs = {i1}
    Attempts = {a1, a2}
    Calls = {c1}
    ContextTurns = {t1, t2}
    Models = {m1}
    TurnLimits = {2}
    MaxSequence = 16
    None = None

SPECIFICATION ReadsSpec
SYMMETRY Symmetry
CHECK_DEADLOCK FALSE
INVARIANTS
    AggregateIsConsistent
    ReplayAcceptsDecisions
    ProjectionMatchesAggregate
    StoreAcceptsDecisions
    EveryRowIsReadable
    PendingFactsAreUnsettledWork
PROPERTIES
    DeletionLosesNoWork
