SPECIFICATION FairSpec
CONSTANTS
    Worker = {"w1", "w2"}
    Size = 2
    MaxTraces = 5
CHECK_DEADLOCK FALSE
INVARIANTS
    TypeOK
    OnceAndInOrder
    NothingVanishes
PROPERTIES
    WorkersNeverWait
    AcceptedAreTried
