------------------------- MODULE RemediationPacing -------------------------
(***************************************************************************)
(* What the cooldown of the agent amounts to, said without queues, checks  *)
(* or locks: a worker never completes two remediations of one parameter    *)
(* closer together than the cooldown of that parameter.  Nothing is        *)
(* promised between two different workers.                                 *)
(***************************************************************************)
EXTENDS Clock, FiniteSets

CONSTANTS Worker, Param,
          Cooldown          \* parameter -> its cooldown

VARIABLE remediations       \* the successful remediations so far
vars == <<clock, remediations>>

Remediation == [worker : Worker, param : Param, at : Nat]

Init == clock = 0 /\ remediations = {}

Advance == Tick /\ UNCHANGED remediations

Remediate(w, p) ==
    /\ \A r \in remediations :
          r.worker = w /\ r.param = p => clock - r.at >= Cooldown[p]
    /\ remediations' = remediations
                         \cup {[worker |-> w, param |-> p, at |-> clock]}
    /\ UNCHANGED clock

Next == Advance \/ \E w \in Worker, p \in Param : Remediate(w, p)

Spec == Init /\ [][Next]_vars
=============================================================================
