----------------------------- MODULE Evaluator -----------------------------
(***************************************************************************)
(* The decision engine, agent/evaluator.go: a pure function from the       *)
(* context of a drift, the policy entry of its parameter and the global    *)
(* thresholds to an action.                                                *)
(*                                                                         *)
(* The code multiplies floats and rounds; the model computes the same      *)
(* rationals exactly, in integers: a burst score is counted in tenths, a   *)
(* reputation in hundredths, and the product of the three multipliers in   *)
(* units of 1/Scale.  The wording of Reasons is left out.                  *)
(***************************************************************************)
EXTENDS Integers

Actions == {"allow", "alert", "remediate"}

\* How drastic an action is, to compare two decisions.
Rank(action) == CASE action = "allow" -> 0
                  [] action = "alert" -> 1
                  [] action = "remediate" -> 2

Max2(a, b) == IF a >= b THEN a ELSE b
Min2(a, b) == IF a <= b THEN a ELSE b

-----------------------------------------------------------------------------
(* Risk scoring. *)

HardRule2(ctx) == /\ ctx.category = "security"
                  /\ ctx.criticality = "high"
                  /\ ~ctx.isTrustedProcess

RuleScore(ctx) == (IF ctx.isTrustedProcess THEN -2 ELSE 3)
                + (IF ctx.criticality = "high" THEN 5 ELSE 0)
                + (IF ctx.category = "security" THEN 2 ELSE 0)

BaseScore(ctx) == IF HardRule2(ctx) THEN 10 ELSE Max2(RuleScore(ctx), 0)

-----------------------------------------------------------------------------
(* Streaming intelligence: three multipliers and their product. *)

AnomalyMultiplier(severity) == CASE severity = "high" -> 26     \* in 1/20
                                 [] severity = "medium" -> 23
                                 [] OTHER -> 20

BurstMultiplier(score) == 40 + score                            \* in 1/40

\* Mutant: the reputation discount as steep as the penalty.
SteepReputationMultiplier(rep) == Min2(Max2(1000 + 3 * (50 - rep), 900), 1200)

ReputationMultiplier(rep) ==                                    \* in 1/1000
    LET raw == IF rep < 50 THEN 1000 + 3 * (50 - rep) ELSE 1000 - (rep - 50)
    IN  Min2(Max2(raw, 900), 1200)

Scale == 20 * 40 * 1000

TotalMultiplier(ctx) ==
    LET product == AnomalyMultiplier(ctx.intel.anomaly)
                 * BurstMultiplier(ctx.intel.burst)
                 * ReputationMultiplier(ctx.intel.reputation)
    IN  IF HardRule2(ctx) THEN Max2(product, Scale) ELSE product

\* math.Round of num / den for a nonnegative num: halves go up.
RoundDiv(num, den) == (2 * num + den) \div (2 * den)

FinalScore(ctx) ==
    LET base   == BaseScore(ctx)
        scaled == RoundDiv(base * TotalMultiplier(ctx), Scale)
    IN  IF ~ctx.hasIntel THEN base
        ELSE IF HardRule2(ctx) THEN Max2(scaled, base) ELSE scaled

-----------------------------------------------------------------------------
(* Thresholds, the remediation mode of the policy, and the decision. *)

RemediateThreshold(global) ==
    IF global.remediateThreshold <= 0 THEN 8 ELSE global.remediateThreshold
AlertThreshold(global) ==
    IF global.alertThreshold <= 0 THEN 4 ELSE global.alertThreshold

\* Mutant: thresholds that must be exceeded, not reached.
StrictThresholdAction(score, global) ==
    IF score > RemediateThreshold(global) THEN "remediate"
    ELSE IF score > AlertThreshold(global) THEN "alert" ELSE "allow"

ThresholdAction(score, global) ==
    IF score >= RemediateThreshold(global) THEN "remediate"
    ELSE IF score >= AlertThreshold(global) THEN "alert" ELSE "allow"

EvaluateDecision(ctx, entry, global) ==
    LET score  == FinalScore(ctx)
        action == ThresholdAction(score, global)
    IN  IF ctx.isAllowedProcess THEN [action |-> "allow", score |-> 0]
        ELSE IF action = "remediate" /\ entry.remediation = "alert"
             THEN [action |-> "alert", score |-> score]
             ELSE [action |-> action, score |-> score]
=============================================================================
