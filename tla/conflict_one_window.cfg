SPECIFICATION Spec
CONSTANTS
    p1 = p1
    p2 = p2
    Param <- MCParam
    Windows = {2}
    Threshold = 3
    MaxTime = 3
    MaxRecords = 4
CHECK_DEADLOCK FALSE
INVARIANTS
    TypeOK
PROPERTY
    AnswersAsIfNothingForgotten
