SPECIFICATION FilesSpec
CONSTANTS
    RunParts = {"requests", "cron"}
    r1 = r1
    r2 = r2
    r3 = r3
    s1 = s1
    Sessions = {s1}
    Requests = {r1, r2, r3}
    SessionOf <- OneSession
    NoRequest = NoRequest
    GatewayRequests = {r1, r2}
    Workloads <- Loads
    Jobs = {j1}
    Firings = {f1, f2}
    AtTimes = {t1}
    NoJob = NoJob
    maxRunsPerJob = 1
    MaxCalls = 2
    MaxFires = 2
    MaxCrashes = 1
    MaxFailures = 1
INVARIANTS
    Remembered
    AbortHitsRunning
    DeletedStaysGone
    StoreIsTrue
    ScheduleIsTrue
PROPERTY OneShotOnce
CHECK_DEADLOCK FALSE
