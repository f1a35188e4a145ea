--------------------------- MODULE ConflictWindow ---------------------------
(***************************************************************************)
(* What agent/conflict.go promises, with nothing ever forgotten: a log of  *)
(* every recorded drift of each parameter, and questions answered by       *)
(* counting the log over the window asked for.                             *)
(***************************************************************************)
EXTENDS Clock, Sequences, FiniteSets

CONSTANTS Param,
          Windows,          \* the windows callers ask about
          Threshold

VARIABLES log,              \* parameter -> times of its drifts, in order
          answer            \* what the last question returned
vars == <<clock, log, answer>>

Count(param, window) ==
    Cardinality({i \in DOMAIN log[param] : log[param][i] > clock - window})

Init == /\ clock = 0
        /\ log = [p \in Param |-> << >>]
        /\ answer = FALSE

Advance == Tick /\ UNCHANGED <<log, answer>>

Record(p) == /\ log' = [log EXCEPT ![p] = Append(@, clock)]
             /\ UNCHANGED <<clock, answer>>

Ask(p, window) == /\ answer' = (Count(p, window) >= Threshold)
                  /\ UNCHANGED <<clock, log>>

Forget(P) == /\ log' = [p \in Param |-> IF p \in P THEN << >> ELSE log[p]]
             /\ UNCHANGED <<clock, answer>>

Next == \/ Advance
        \/ \E p \in Param : Record(p) \/ (\E w \in Windows : Ask(p, w))
        \/ \E P \in SUBSET Param : Forget(P)

Spec == Init /\ [][Next]_vars
=============================================================================
