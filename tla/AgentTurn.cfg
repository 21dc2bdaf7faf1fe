CONSTANTS
    RunParts = {"turn", "history"}
    NoID = NoID
    NoTurn = NoTurn
    Turns = {"t1", "t2"}
    Wirings <- Locked
    MaxIterations = 3
    MaxAttempts = 2
    MaxMessages = 2
    GuardLimit = 5
    Threshold = 4
    KeepRecent = 3
    CallCounts = {1, 2}
    IDs = {1, 2}
    MaxLen = 5
    Budgets = {2}
SPECIFICATION FairSpec
INVARIANTS
    RepairIsExact
    BuildIsWellFormed
    NewestInputIsSent
PROPERTIES
    CompressionLosesNothing
    EveryTurnReturns
CHECK_DEADLOCK FALSE
