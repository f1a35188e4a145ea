SPECIFICATION Spec
CONSTANTS
    Categories = {"security", "performance"}
    Criticalities = {"low", "high"}
    Measurements <- MCMeasurements
    Reputations <- MCReputations
    Files <- MCFiles
INVARIANTS
    OnlyHighReputationSoftens
    HardRule2FloorHolds
PROPERTY
    WorseBehaviourNeverSoftens
