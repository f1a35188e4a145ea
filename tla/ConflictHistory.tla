--------------------------- MODULE ConflictHistory ---------------------------
(***************************************************************************)
(* The conflict manager on its own, called in every order its methods      *)
(* allow, with the log of ConflictWindow kept beside it as a history.      *)
(* Pruning inside IsConflicting is the interesting part: it forgets, and   *)
(* must never forget what a later question counts.                         *)
(***************************************************************************)
EXTENDS ConflictManager, Sequences

CONSTANTS Param,
          Windows,          \* the windows IsConflicting is called with
          Threshold,
          MaxRecords        \* bound on the drifts recorded per parameter

ASSUME ConflictHistoryAssumption == /\ Windows \subseteq Nat \ {0}
                                    /\ Threshold \in Nat \ {0}
                                    /\ MaxRecords \in Nat

VARIABLES log,              \* history: every drift since the last clear
          answer            \* what the last IsConflicting returned
vars == <<clock, events, log, answer>>

Init == /\ clock = 0
        /\ NewConflictManager
        /\ log = [p \in Param |-> << >>]
        /\ answer = FALSE

Advance == /\ Tick
           /\ UNCHANGED <<events, log, answer>>

Record(p) == /\ Len(log[p]) < MaxRecords
             /\ ConflictRecord(p)
             /\ log' = [log EXCEPT ![p] = Append(@, clock)]
             /\ UNCHANGED <<clock, answer>>

Ask(p, window) == /\ answer' = IsConflicting(p, window, Threshold)
                  /\ events' = Pruned(p, window)
                  /\ UNCHANGED <<clock, log>>

Clear(p) == /\ ConflictClear(p)
            /\ log' = [log EXCEPT ![p] = << >>]
            /\ UNCHANGED <<clock, answer>>

ClearAll == /\ ConflictClearAll
            /\ log' = [p \in Param |-> << >>]
            /\ UNCHANGED <<clock, answer>>

Next == \/ Advance \/ ClearAll
        \/ \E p \in Param : \/ Record(p) \/ Clear(p)
                            \/ \E w \in Windows : Ask(p, w)

Spec == Init /\ [][Next]_vars

-----------------------------------------------------------------------------
\* No entry is empty: the map does not grow with the parameters that drifted
\* once and were asked about when their drifts were over.
TypeOK == /\ clock \in 0..MaxTime
          /\ DOMAIN events \subseteq Param
          /\ \A p \in DOMAIN events :
                /\ events[p] \subseteq [at : 0..MaxTime, nth : 0..MaxRecords - 1]
                /\ events[p] # {}
          /\ answer \in BOOLEAN

\* IsConflicting answers as if it had never pruned anything: the manager
\* implements the log that forgets nothing.
Window == INSTANCE ConflictWindow
AnswersAsIfNothingForgotten == Window!Spec
=============================================================================
