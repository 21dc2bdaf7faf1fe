SPECIFICATION Spec
CONSTANTS
    Procs = {p1, p2}
    Agents = {a1, a2}
    Pollers = {q1}
    Killers = {k1, k2}
    NoProc = NoProc
    NoAgent = NoAgent
    MaxSessions = 1
    OutputBufferMax = 2
    Chunks = {1, 3}
    p1 = p1
    k1 = k1
    Workloads <- Loads
INVARIANT PollIsComplete
CHECK_DEADLOCK FALSE
