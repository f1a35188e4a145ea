-------------------------- MODULE CooldownManager --------------------------
(***************************************************************************)
(* agent/cooldown.go: the time of the last successful remediation of each  *)
(* parameter.  Every method runs under the manager's lock, so each is one  *)
(* step; two calls of a worker are two steps.                              *)
(***************************************************************************)
EXTENDS Clock

VARIABLE lastRemediated     \* a partial function: parameter -> time

NewCooldownManager == lastRemediated = [p \in {} |-> 0]

\* Mutant: the comparison the wrong way round.
OutOfCooldown(param, cooldown) ==
    /\ param \in DOMAIN lastRemediated
    /\ clock - lastRemediated[param] >= cooldown

InCooldown(param, cooldown) ==
    /\ param \in DOMAIN lastRemediated
    /\ clock - lastRemediated[param] < cooldown

\* Mutant: only the first remediation of a parameter is recorded.
FirstRecord(param) ==
    lastRemediated' = [p \in DOMAIN lastRemediated \cup {param} |->
                         IF p \in DOMAIN lastRemediated
                         THEN lastRemediated[p] ELSE clock]

CooldownRecord(param) ==
    lastRemediated' = [p \in DOMAIN lastRemediated \cup {param} |->
                         IF p = param THEN clock ELSE lastRemediated[p]]
=============================================================================
