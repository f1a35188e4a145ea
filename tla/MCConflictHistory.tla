-------------------------- MODULE MCConflictHistory --------------------------
EXTENDS ConflictHistory
CONSTANTS p1, p2
MCParam == {p1, p2}
=============================================================================
