SPECIFICATION Spec
CONSTANTS
    none = none  p1 = p1  p2 = p2  t1 = t1  t2 = t2
    NoProcess = none
    Process = {p1, p2}
    Thread = {t1, t2}
    RawConfigs <- MCConfigs
    Half = 1
    One = 2
    Weight <- MCWeight
    Updates <- MCUpdates
    EntryTTL = 1
    CleanupInterval = 1
    MaxEntries = 1
    MaxTime = 3
SYMMETRY Symmetry
INVARIANTS
    TypeOK
    InOrderDecayIsExact
    NoTimeIsSkipped
    UpdateLostOnlyByCleanup
