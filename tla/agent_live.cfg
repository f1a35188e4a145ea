SPECIFICATION FairSpec
CONSTANTS
    w1 = w1  w2 = w2  q1 = q1  q2 = q2  agent = agent  sysctl = sysctl  none = none
    Param = {"ip_forward", "rp_filter"}
    Path = {"ip_forward", "rp_filter", "sysvipc", "passwd"}
    Target <- MCTarget
    Name <- MCName
    NoParam <- MCNoParam
    Traced <- MCTraced
    ProcPath <- MCProcPath
    Value = {"good", "bad"}
    InitialValue <- MCInitialValue
    Process = {q1, q2}
    Agent = agent
    Child = sysctl
    CPU = {"c0"}
    RingSize = 2
    TracedAccess = {"READ", "WRITE"}
    MaxOpens = 1
    MaxTime = 0
    Worker = {w1, w2}
    Sysctl <- TwoParams
    TrustedProcesses = {}
    Global <- MCGlobal
    Intelligence <- CalmOrWild
    QueueSize = 1
    ConflictWindow = 1
    ConflictThreshold = 3
    Failures = {"read", "exec", "write"}
    Signals = TRUE
CHECK_DEADLOCK FALSE
INVARIANTS
    ExitDrained
PROPERTIES
    BufferedWritesAreExamined
    SignalledAgentExits
    EventuallyRests
