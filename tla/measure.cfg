SPECIFICATION Spec
CONSTANTS
    Window = 2
    Threshold = 1
    MaxSamples = 3
    Thread = {"w1", "w2"}
    MinInterval = 1
    MaxCalls = 5
    MaxTime = 3
CHECK_DEADLOCK FALSE
INVARIANTS
    TypeOK
    InOrderCountIsExact
    NewestTimeMissesNone
    MeasuredOnce
    InOrderTimeIsExact
    BaselineIsFresh
PROPERTY
    RingIsQueue
