----------------------------- MODULE Evaluation -----------------------------
(***************************************************************************)
(* The decision engine under changing inputs: one process keeps drifting   *)
(* one parameter, and from one drift to the next its measurements change,  *)
(* or another process, which the policy allows, is the one.  Each state    *)
(* holds the inputs of one call of EvaluateDecision and what it returned,  *)
(* so that properties can compare a decision with the one before it.       *)
(***************************************************************************)
EXTENDS Evaluator, Anomaly

CONSTANTS Categories,       \* categories a policy entry may name
          Criticalities,
          Measurements,     \* of a series: [z, samples, burst]
          Reputations,      \* process reputations, in hundredths: the policy
                            \* file sets their bounds, and may set max_score
                            \* above one (policy.go:45, reputation.go:40)
          Files             \* the global section of policy files

ASSUME EvaluationAssumption ==
    /\ Measurements \subseteq [z : Int, samples : Nat, burst : 0..10]
    /\ Reputations \subseteq Nat
    /\ \A f \in Files : /\ f.alert \in Int /\ f.remediate \in Int
                        /\ f.decision.alert \in Int
                        /\ f.decision.remediate \in Int
                        /\ f.anomaly \in [minSamples : Int, mediumZ : Int, highZ : Int]

VARIABLES ctx, entry, file, decision
vars == <<ctx, entry, file, decision>>

Intelligence ==
    [processWrite : Measurements, paramDrift : Measurements,
     reputation : Reputations]
Context ==
    [category : Categories, criticality : Criticalities,
     isTrustedProcess : BOOLEAN, isAllowedProcess : BOOLEAN,
     hasIntel : BOOLEAN, intel : Intelligence]
Entry == [remediation : {"auto", "alert"}]

-----------------------------------------------------------------------------
\* A field of the former layout counts, unless it is zero or not there.
Stated(former, current) == IF former = 0 THEN current ELSE former

\* LoadPolicy: the thresholds of either layout of a file.
LoadPolicy(f) ==
    [alertThreshold     |-> Stated(f.alert, f.decision.alert),
     remediateThreshold |-> Stated(f.remediate, f.decision.remediate)]

\* What processEvent hands to the engine: the two measurements fused.
Fused(c, f) ==
    LET both == FuseBehavioralSignals(c.intel.processWrite, c.intel.paramDrift,
                                      f.anomaly)
    IN  [c EXCEPT !.intel = [anomaly    |-> both.anomaly,
                             burst      |-> both.burst,
                             reputation |-> c.intel.reputation]]

Decision(c, e, f) == EvaluateDecision(Fused(c, f), e, LoadPolicy(f))

-----------------------------------------------------------------------------
Init == /\ ctx \in {c \in Context : ~c.isAllowedProcess}
        /\ entry \in Entry
        /\ file \in Files
        /\ decision = Decision(ctx, entry, file)

\* The next drift comes with another measurement of the same process.
Behave == /\ \/ \E m \in Measurements :
                   \/ ctx' = [ctx EXCEPT !.intel.processWrite = m]
                   \/ ctx' = [ctx EXCEPT !.intel.paramDrift = m]
             \/ \E r \in Reputations : ctx' = [ctx EXCEPT !.intel.reputation = r]
          /\ UNCHANGED <<entry, file>>
          /\ decision' = Decision(ctx', entry, file)

\* The next drift is by a process that the policy allows, or by one it does not.
Alternate == /\ ctx' = [ctx EXCEPT !.isAllowedProcess = ~ctx.isAllowedProcess]
             /\ UNCHANGED <<entry, file>>
             /\ decision' = Decision(ctx', entry, file)

Next == Behave \/ Alternate

Spec == Init /\ [][Next]_vars

-----------------------------------------------------------------------------
\* What the rules alone make of the same drift, without streaming intelligence.
RulesAlone == Decision([ctx EXCEPT !.hasIntel = FALSE], entry, file)

\* Streaming intelligence may soften what the rules alone decide in one case
\* only: the reputation is above 1.125, which takes a max_score above one in
\* the policy file, and the base score is the eight of an untrusted process and
\* a highly critical parameter that is not a security one; then one point is
\* lost.  Everywhere else a good reputation discounts the multiplier below one,
\* but rounding gives the point back.
OnlyHighReputationSoftens ==
    ctx.hasIntel /\ Rank(decision.action) < Rank(RulesAlone.action) =>
       /\ ctx.intel.reputation > 112
       /\ ~ctx.isTrustedProcess /\ ctx.criticality = "high" /\ ~HardRule2(ctx)
       /\ RulesAlone.score = 8 /\ decision.score = 7

\* m describes a rate at least as suspicious as n.
WorseRate(m, n) == Abs(m.z) >= Abs(n.z) /\ m.samples >= n.samples /\ m.burst >= n.burst

\* i describes behaviour at least as suspicious as j.
Worse(i, j) == /\ WorseRate(i.processWrite, j.processWrite)
               /\ WorseRate(i.paramDrift, j.paramDrift)
               /\ i.reputation <= j.reputation

\* A process that behaves worse (further from its usual rate or better known,
\* burstier, less reputable) is never treated more mildly on its next drift:
\* neither signal hides the other, and no anomaly makes up for a reputation.
WorseBehaviourNeverSoftens ==
    [][ /\ Worse(ctx'.intel, ctx.intel)
        /\ ctx'.isAllowedProcess = ctx.isAllowedProcess
        => /\ decision'.score >= decision.score
           /\ Rank(decision'.action) >= Rank(decision.action) ]_vars

\* Hard rule 2 as evaluator.go:30 and IMPLEMENTATION_COMPLETE.md:140 state it: a
\* change of a highly critical security parameter by an untrusted process that
\* the policy does not allow, on an entry that does not forbid it, is always
\* remediated.
HardRule2Remediates ==
    /\ HardRule2(ctx)
    /\ ~ctx.isAllowedProcess
    /\ entry.remediation # "alert"
    => decision.action = "remediate"

\* What the code keeps of HardRule2Remediates, which fails once the threshold is
\* above the ten points of hard rule 2 (evaluator.go:181): up to there, in
\* whichever layout of the policy file counts, no reputation, burst or anomaly
\* can talk the engine out of it.
HardRule2FloorHolds ==
    (IF file.remediate = 0 THEN file.decision.remediate ELSE file.remediate) <= 10
      => HardRule2Remediates

=============================================================================
