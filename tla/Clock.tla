------------------------------- MODULE Clock -------------------------------
(***************************************************************************)
(* time.Now() as the agent sees it: a clock that never goes back (Go       *)
(* compares the monotonic readings), counted in ticks.  MaxTime bounds the *)
(* model-checked behaviours; a theorem holds for every bound, or for every *)
(* bound but zero where its module assumes that.                           *)
(***************************************************************************)
EXTENDS Integers

CONSTANT MaxTime
ASSUME MaxTimeAssumption == MaxTime \in Nat

VARIABLE clock

Tick == clock < MaxTime /\ clock' = clock + 1
=============================================================================
