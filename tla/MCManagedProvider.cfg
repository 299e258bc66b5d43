SPECIFICATION Spec
CONSTANTS
    Requests = {r1, r2}
    AdapterKinds = {"gemini"}
    MaxConcurrency = 1
    CatalogAttempts = 2
    DispatchAttempts = 2
    RateLimit = 1
    Window = 2
    RefreshAfter = 0
    MaxStale = 1
CHECK_DEADLOCK FALSE
INVARIANTS
    DispatchIsMetered

    
