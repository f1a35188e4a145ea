---------------------------- MODULE MCDriftAgent ----------------------------
(***************************************************************************)
(* Small machines for DriftAgent.  A path is the name of a parameter when  *)
(* it is the spelling the agent uses; "sysvipc" stands for the files that  *)
(* pass the filter of the eBPF program and are no parameter, "passwd" for  *)
(* those that do not pass it.                                              *)
(***************************************************************************)
EXTENDS DriftAgent, TLC

CONSTANTS w1, w2, q1, q2, agent, sysctl, none

MCNoParam == none
MCName == [f \in Path |-> IF f \in Param THEN f ELSE none]
MCTarget == MCName
MCTraced == Path \ {"passwd"}
MCProcPath == [p \in Param |-> p]
MCInitialValue == [p \in Param |-> "good"]

Calm == [anomaly |-> "low", burst |-> 0, reputation |-> 50]
Wild == [anomaly |-> "high", burst |-> 10, reputation |-> 0]
CalmOnly == {Calm}
CalmOrWild == {Calm, Wild}

\* config/baseline.yaml: decision thresholds 5 and 8.
MCGlobal == [defaultCooldown |-> 2, remediateThreshold |-> 8, alertThreshold |-> 5]

Security(cooldown, remediation, allowed) ==
    [expected |-> "good", category |-> "security", criticality |-> "high",
     remediation |-> remediation, cooldown |-> cooldown,
     allowProcesses |-> allowed]
Minor(cooldown, remediation, allowed) ==
    [expected |-> "good", category |-> "security", criticality |-> "low",
     remediation |-> remediation, cooldown |-> cooldown,
     allowProcesses |-> allowed]

OneCritical == [p \in {"ip_forward"} |-> Security(0, "auto", {})]
\* A critical entry that is only to be reported, and a minor one, which q2 may
\* change and which is remediated only when the process behaves badly.
TwoParams == [p \in {"ip_forward", "rp_filter"} |->
                IF p = "ip_forward" THEN Security(1, "alert", {})
                                    ELSE Minor(0, "auto", {q2})]

Workers == Permutations({w1, w2})
=============================================================================
