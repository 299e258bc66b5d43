SPECIFICATION Spec
CONSTANTS
    Authored = u
    Proposal = p
    Compaction = c
    Memories = {u, p, c}
    Session = s
    Workspace = w
    NoSession = none
    MaxRevisions = 2
    Excerpts = {TRUE}
    MaxAttempts = 3
    MaxTurns = 3
    MaxMutations = 4
    MaxAdmitted = 2
CHECK_DEADLOCK FALSE
INVARIANTS
    RebuildIsIdentity
    LedgerIsSound
    EpochIsFrozen
    ToolOutcomeMatchesLedger
PROPERTIES
    DispatchesRetainedContext
