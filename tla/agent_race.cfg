SPECIFICATION Spec
CONSTANTS
    w1 = w1  w2 = w2  q1 = q1  q2 = q2  agent = agent  sysctl = sysctl  none = none
    Param = {"ip_forward"}
    Path = {"ip_forward"}
    Target <- MCTarget
    Name <- MCName
    NoParam <- MCNoParam
    Traced <- MCTraced
    ProcPath <- MCProcPath
    Value = {"good", "bad"}
    InitialValue <- MCInitialValue
    Process = {q1}
    Agent = agent
    Child = sysctl
    CPU = {"c0"}
    RingSize = 2
    TracedAccess = {"WRITE"}
    MaxOpens = 2
    MaxTime = 2
    Worker = {w1, w2}
    Sysctl <- OneCritical
    TrustedProcesses = {}
    Global <- MCGlobal
    Intelligence <- CalmOnly
    QueueSize = 1
    ConflictWindow = 1
    ConflictThreshold = 3
    Failures = {}
    Signals = FALSE
CHECK_DEADLOCK FALSE
INVARIANT
    SecondRemediationBlocked
