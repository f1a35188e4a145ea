-------------------------- MODULE ConflictManager --------------------------
(***************************************************************************)
(* agent/conflict.go: for each parameter, the times of its recorded        *)
(* drifts.  The code keeps a slice; its order never matters (every reader  *)
(* counts or filters), so the model keeps a set of stamps, the nth record  *)
(* of a tick carrying the number nth to keep equal times apart.  Every     *)
(* method runs under the manager's lock, so each is one step.              *)
(***************************************************************************)
EXTENDS Clock, FiniteSets

VARIABLE events             \* a partial function: parameter -> set of stamps

NewConflictManager == events = [p \in {} |-> {}]

Events(param) == IF param \in DOMAIN events THEN events[param] ELSE {}

\* The stamps of S that are after the cutoff of this window.
Recent(S, window) == {s \in S : s.at > clock - window}

NextStamp(param) ==
    [at |-> clock, nth |-> Cardinality({s \in Events(param) : s.at = clock})]

\* Mutant: the slice replaced, not appended to.
OverwritingRecord(param) ==
    events' = [p \in DOMAIN events \cup {param} |->
                 IF p = param THEN {NextStamp(param)} ELSE events[p]]

ConflictRecord(param) ==
    events' = [p \in DOMAIN events \cup {param} |->
                 IF p = param THEN Events(param) \cup {NextStamp(param)}
                              ELSE events[p]]

\* Mutant: an entry that has become empty stays in the map.
KeepingPruned(param, window) ==
    [p \in DOMAIN events |-> IF p = param THEN Recent(events[p], window)
                                          ELSE events[p]]

\* What IsConflicting leaves behind: only the stamps inside the window, and
\* no entry for a parameter that has none.
Pruned(param, window) ==
    LET valid == Recent(Events(param), window)
    IN  [p \in IF valid = {} THEN DOMAIN events \ {param} ELSE DOMAIN events |->
           IF p = param THEN valid ELSE events[p]]

\* Mutant: a conflict only once the threshold is exceeded.
LateConflicting(param, window, threshold) ==
    Cardinality(Recent(Events(param), window)) > threshold

IsConflicting(param, window, threshold) ==
    Cardinality(Recent(Events(param), window)) >= threshold

ConflictClear(param) ==
    events' = [p \in DOMAIN events \ {param} |-> events[p]]

ConflictClearAll == events' = [p \in {} |-> {}]
=============================================================================
