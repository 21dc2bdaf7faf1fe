SPECIFICATION FairCronSpec
CONSTANTS
    Jobs = {j1}
    Firings = {f1}
    AtTimes = {t1}
    NoJob = NoJob
    maxRunsPerJob = 1
    MaxCalls = 1
    MaxFires = 1
    MaxCrashes = 0
    MaxFailures = 0
PROPERTY StopReturns
CHECK_DEADLOCK FALSE
