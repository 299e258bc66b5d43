SPECIFICATION Spec
CONSTANTS
    Queries <- MCQueries
    Limits = {5, 7}
    ExchangeSizes = {3}
    AgentsSizes = {1, 2}
    GroupsFitting = 1
    Framing = 1
    MaxExchanges = 4
    MaxTurns = 5
    MaxEdits = 3
INVARIANTS
    EveryExchangeIsPresented
    RequestsFit
    InstructionsOutliveFailedReads
CHECK_DEADLOCK FALSE
