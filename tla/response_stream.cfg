SPECIFICATION FairSpec
CONSTANTS
    None = None
    Identities <- Identities_
    ChatName <- ChatName_
    CallIds = {"c0", "c1", "c2"}
    Requests <- Requests_
    Answers <- Answers_
    ToolFrames <- ToolFrames_
    MaxText = 3
    MaxSessions = 2
    Capacity = 2
    MaxBytes = 2
    ConnectRetries = 1
    FirstByteRetries = 1
    MaxFrames = 5
    MaxRead = 2
    MaxOthers = 2
INVARIANTS EndsAreWhole TurnsAreComplete ResultsAreServed
PROPERTIES StreamEnds
