SPECIFICATION Spec
CONSTANTS
    Streams <- MCStreams
    Indexes = {0, 1}
    CallIds = {"c"}
    Texts <- MCTexts
    Fragments <- MCFragments
    Arguments <- MCArguments
    Secret <- MCSecret
    MaxSteps = 2
    MaxArguments = 3
    MaxFrame = 7
    MaxEvents = 3
    MaxMessages = 4
INVARIANTS
    MessagesArriveOnce
    CredentialStaysInside
PROPERTY CallsAreAsSent
CHECK_DEADLOCK FALSE
