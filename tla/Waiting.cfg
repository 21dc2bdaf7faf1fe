SPECIFICATION FairSpec
CONSTANTS
    RunParts = {"cron", "delivery", "spawns"}
    Jobs = {j1}
    Firings = {f1, f2}
    AtTimes = {t1}
    NoJob = NoJob
    maxRunsPerJob = 1
    MaxCalls = 1
    MaxFires = 2
    MaxCrashes = 0
    MaxFailures = 0
    Events = {e1}
    Clients = {k1}
    Subscribers = {"gateway", "typed"}
    QueueSize = 1
    Spawns = {x1, x2, x3, x4}
    NoParent = NoParent
    MaxSubAgents = 2
INVARIANTS
    CloseDrains
PROPERTIES
    EveryoneReturns
    CloseReturns
    SpawnsReturn
CHECK_DEADLOCK FALSE
