CONSTANTS
    RunParts = {"turn"}
    IDs = {}
    MaxLen = 0
    Budgets = {}
    NoID = NoID
    NoTurn = NoTurn
    Turns = {"t1", "t2"}
    Wirings <- Shipped
    MaxIterations = 3
    MaxAttempts = 2
    MaxMessages = 2
    GuardLimit = 5
    Threshold = 4
    KeepRecent = 3
    CallCounts = {1, 2}
SPECIFICATION Spec
PROPERTIES
    CompressionLosesNothing
