SPECIFICATION FairSpec
CONSTANTS
    Instance = {"service", "manual"}
    Absent = Absent
    Blank = Blank
    Unreadable = Unreadable
    Param = {"ip_forward"}
    Unspecified = {}
    Failures = {"file", "param"}
    Configured = {"service"}
    Plane = "silent"
    Brief = {"manual"}
    MaxStarts <- MCMaxStarts
    MaxOpens = 1
CHECK_DEADLOCK FALSE
INVARIANTS
    TypeOK
    OneIdentity
    MissedOnlyUnheardOrOutrun
PROPERTIES
    SilentPlaneBlocksNoStart
    HeartbeatsGoOn
