SPECIFICATION Spec
CONSTANTS
    none = none  k1 = k1  k2 = k2  t1 = t1  t2 = t2
    NoKey = none
    Key = {k1, k2}
    Thread = {t1, t2}
    EntryTTL = 1
    CleanupInterval = 1
    MaxEntries = 1
    MaxTime = 3
SYMMETRY Symmetry
INVARIANTS
    TypeOK
    CountNeverOverstates
    LoneCleanupsCountExactly
PROPERTIES
    CleanupsAreSpaced
    LoneCleanupCaps
