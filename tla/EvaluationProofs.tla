-------------------------- MODULE EvaluationProofs --------------------------
EXTENDS Evaluation, TLAPS

\* What the decision depends on, and where it comes from.
Inv == /\ ctx \in Context
       /\ file \in Files
       /\ decision = Decision(ctx, entry, file)

LEMMA InvHolds == Spec => []Inv
<1>1. Init => Inv
  BY DEF Init, Inv
<1>2. Inv /\ [Next]_vars => Inv'
  <2> SUFFICES ASSUME Inv, [Next]_vars PROVE Inv'
    OBVIOUS
  <2>1. CASE Behave
    <3>1. ctx' \in Context
      BY <2>1 DEF Behave, Inv, Context, Intelligence
    <3> QED
      BY <2>1, <3>1 DEF Behave, Inv
  <2>2. CASE Alternate
    <3>1. ctx' \in Context
      BY <2>2 DEF Alternate, Inv, Context
    <3> QED
      BY <2>2, <3>1 DEF Alternate, Inv
  <2>3. CASE UNCHANGED vars
    BY <2>3 DEF vars, Inv
  <2> QED
    BY <2>1, <2>2, <2>3 DEF Next
<1> QED
  BY <1>1, <1>2, PTL DEF Spec

-----------------------------------------------------------------------------
(* The arithmetic. *)

\* A context as the engine gets it, with the signals fused.
IsFused(c) == c.intel.burst \in 0..10 /\ c.intel.reputation \in Nat

LEMMA FusedContext ==
  ASSUME NEW c \in Context, NEW f \in Files
  PROVE  /\ IsFused(Fused(c, f))
         /\ Fused(c, f).hasIntel = c.hasIntel
         /\ Fused(c, f).category = c.category
         /\ Fused(c, f).criticality = c.criticality
         /\ Fused(c, f).isTrustedProcess = c.isTrustedProcess
         /\ Fused(c, f).isAllowedProcess = c.isAllowedProcess
<1> DEFINE both == FuseBehavioralSignals(c.intel.processWrite,
                                         c.intel.paramDrift, f.anomaly)
<1>1. /\ c.intel.processWrite.burst \in 0..10
      /\ c.intel.paramDrift.burst \in 0..10
      /\ c.intel.reputation \in Nat
  BY EvaluationAssumption DEF Context, Intelligence
<1>2. both.burst \in 0..10
  BY <1>1 DEF FuseBehavioralSignals, LargerBurst
<1> HIDE DEF both
<1>3. Fused(c, f) = [c EXCEPT !.intel = [anomaly    |-> both.anomaly,
                                         burst      |-> both.burst,
                                         reputation |-> c.intel.reputation]]
  BY DEF Fused, both
<1> QED
  BY <1>1, <1>2, <1>3 DEF Context, IsFused

LEMMA Times ==
  ASSUME NEW k \in Nat, NEW x \in Nat, NEW y \in Nat, x >= y
  PROVE  k * x >= k * y /\ k * x \in Nat /\ k * y \in Nat
OBVIOUS

LEMMA ReputationBound ==
  ASSUME NEW r \in Nat
  PROVE  /\ ReputationMultiplier(r) \in 900..1200
         /\ r <= 112 => ReputationMultiplier(r) >= 938
BY DEF ReputationMultiplier, Min2, Max2

LEMMA ProductBound ==
  ASSUME NEW a \in {20, 23, 26}, NEW b \in 40..50, NEW c \in 900..1200
  PROVE  a * b * c \in Nat /\ a * b * c >= 800 * c
<1>1. b * c \in Nat /\ b * c >= 40 * c
  OBVIOUS
<1>2. a * b * c = a * (b * c)
  OBVIOUS
<1> QED
  BY <1>1, <1>2

\* No measurement brings the product of the multipliers below 0.9, and with a
\* reputation of at most 1.12 none brings it below 0.938.
LEMMA TotalBound ==
  ASSUME NEW c, IsFused(c)
  PROVE  /\ TotalMultiplier(c) \in Nat
         /\ TotalMultiplier(c) >= 720000
         /\ c.intel.reputation <= 112 => TotalMultiplier(c) >= 750400
<1> DEFINE anomaly    == AnomalyMultiplier(c.intel.anomaly)
           burst      == BurstMultiplier(c.intel.burst)
           reputation == ReputationMultiplier(c.intel.reputation)
           product    == anomaly * burst * reputation
<1>1. anomaly \in {20, 23, 26}
  BY DEF AnomalyMultiplier
<1>2. burst \in 40..50
  BY DEF BurstMultiplier, IsFused
<1>3. /\ reputation \in 900..1200
      /\ c.intel.reputation <= 112 => reputation >= 938
  BY ReputationBound DEF IsFused
<1>4. TotalMultiplier(c) = IF HardRule2(c) THEN Max2(product, Scale) ELSE product
  BY DEF TotalMultiplier
<1> HIDE DEF anomaly, burst, reputation
<1>5. product \in Nat /\ product >= 800 * reputation
  BY <1>1, <1>2, <1>3, ProductBound
<1> HIDE DEF product
<1>6. Scale = 800000
  BY SMT DEF Scale
<1> QED
  BY <1>3, <1>4, <1>5, <1>6, SMT DEF Max2

LEMMA BaseBound ==
  ASSUME NEW c, IsFused(c)
  PROVE  /\ HardRule2(c) => BaseScore(c) = 10
         /\ ~HardRule2(c) => BaseScore(c) \in {0, 3, 5, 8}
         /\ BaseScore(c) = 8 => ~c.isTrustedProcess /\ c.criticality = "high"
<1>1. /\ ~HardRule2(c) => RuleScore(c) \in {-2, 0, 3, 5, 8}
      /\ RuleScore(c) = 8 => ~c.isTrustedProcess /\ c.criticality = "high"
  BY DEF RuleScore, HardRule2
<1> QED
  BY <1>1 DEF BaseScore, Max2

\* Rounding gives back what a discount of a tenth takes, up to five points, and
\* of eight points what one of 0.062 takes.
LEMMA RoundingGivesBack ==
  ASSUME NEW base \in {0, 3, 5, 8, 10}, NEW total \in Nat, total >= 720000
  PROVE  LET scaled == RoundDiv(base * total, Scale)
         IN  /\ scaled \in Int
             /\ base \in {0, 3, 5} => scaled >= base
             /\ base = 8 => scaled >= 7
             /\ base = 8 /\ total >= 750400 => scaled >= 8
<1> DEFINE num == base * total
           x == 2 * num + 800000
<1>1. Scale = 800000
  BY SMT DEF Scale
<1>2. /\ num \in Nat /\ num >= base * 720000
      /\ total >= 750400 => num >= base * 750400
  BY SMT
<1>3. RoundDiv(num, Scale) = x \div 1600000
  BY <1>1, SMT DEF RoundDiv
<1> HIDE DEF num
<1>4. /\ x \in Nat
      /\ base \in {0, 3, 5} => x >= 1600000 * base
      /\ base = 8 => x >= 1600000 * 7
      /\ base = 8 /\ total >= 750400 => x >= 1600000 * 8
  BY <1>2, SMT
<1> HIDE DEF x
<1>5. /\ x \div 1600000 \in Int
      /\ base \in {0, 3, 5} => x \div 1600000 >= base
      /\ base = 8 => x \div 1600000 >= 7
      /\ base = 8 /\ total >= 750400 => x \div 1600000 >= 8
  BY <1>4, SMT
<1> QED
  BY <1>3, <1>5, SMT DEF num

\* The final score stays below the base score only in one case, and by a point.
LEMMA FinalAgainstBase ==
  ASSUME NEW c, IsFused(c)
  PROVE  /\ FinalScore(c) \in Int
         /\ \/ FinalScore(c) >= BaseScore(c)
            \/ /\ BaseScore(c) = 8 /\ FinalScore(c) = 7
               /\ c.intel.reputation > 112
<1> DEFINE base   == BaseScore(c)
           total  == TotalMultiplier(c)
           scaled == RoundDiv(base * total, Scale)
<1>1. /\ HardRule2(c) => base = 10
      /\ ~HardRule2(c) => base \in {0, 3, 5, 8}
      /\ base \in {0, 3, 5, 8, 10}
  BY BaseBound
<1>2. /\ total \in Nat /\ total >= 720000
      /\ c.intel.reputation <= 112 => total >= 750400
  BY TotalBound, SMT
<1>3. FinalScore(c) = IF ~c.hasIntel THEN base
                      ELSE IF HardRule2(c) THEN Max2(scaled, base)
                                           ELSE scaled
  BY DEF FinalScore
<1> HIDE DEF base, total
<1>4. /\ scaled \in Int
      /\ base \in {0, 3, 5} => scaled >= base
      /\ base = 8 => scaled >= 7
      /\ base = 8 /\ c.intel.reputation <= 112 => scaled >= 8
  BY <1>1, <1>2, RoundingGivesBack, SMT
<1> HIDE DEF scaled
<1>5. c.intel.reputation \in Nat
  BY DEF IsFused
<1> QED
  BY <1>1, <1>3, <1>4, <1>5, SMT DEF Max2, base

LEMMA Thresholds ==
  ASSUME NEW f \in Files
  PROVE  /\ RemediateThreshold(LoadPolicy(f)) \in Int
         /\ AlertThreshold(LoadPolicy(f)) \in Int
BY EvaluationAssumption
DEF LoadPolicy, Stated, RemediateThreshold, AlertThreshold

LEMMA HigherScoreIsNoMilder ==
  ASSUME NEW c, NEW d, NEW e, NEW g,
         RemediateThreshold(g) \in Int, AlertThreshold(g) \in Int,
         FinalScore(c) \in Int, FinalScore(d) \in Int,
         FinalScore(c) >= FinalScore(d),
         c.isAllowedProcess = d.isAllowedProcess
  PROVE  /\ EvaluateDecision(c, e, g).score >= EvaluateDecision(d, e, g).score
         /\ Rank(EvaluateDecision(c, e, g).action)
              >= Rank(EvaluateDecision(d, e, g).action)
<1>1. /\ ThresholdAction(FinalScore(d), g) = "remediate" =>
           ThresholdAction(FinalScore(c), g) = "remediate"
      /\ ThresholdAction(FinalScore(d), g) = "alert" =>
           ThresholdAction(FinalScore(c), g) \in {"alert", "remediate"}
      /\ ThresholdAction(FinalScore(c), g) \in {"allow", "alert", "remediate"}
      /\ ThresholdAction(FinalScore(d), g) \in {"allow", "alert", "remediate"}
  BY DEF ThresholdAction
<1>2. Rank("allow") = 0 /\ Rank("alert") = 1 /\ Rank("remediate") = 2
  BY DEF Rank
<1> QED
  BY <1>1, <1>2 DEF EvaluateDecision

-----------------------------------------------------------------------------
\* Whatever is measured, and however high the reputation of a process, the
\* decision is milder than that of the rules alone for a reputation above 1.125
\* and a base score of eight only, and then by one point.
THEOREM SofteningNeedsHighReputation == Spec => []OnlyHighReputationSoftens
<1>1. Inv => OnlyHighReputationSoftens
  <2> SUFFICES ASSUME Inv, ctx.hasIntel,
                      Rank(decision.action) < Rank(RulesAlone.action)
               PROVE  /\ ctx.intel.reputation > 112
                      /\ ~ctx.isTrustedProcess /\ ctx.criticality = "high"
                      /\ ~HardRule2(ctx)
                      /\ RulesAlone.score = 8 /\ decision.score = 7
    BY DEF OnlyHighReputationSoftens
  <2> DEFINE c == Fused(ctx, file)
             rules == [ctx EXCEPT !.hasIntel = FALSE]
             d == Fused(rules, file)
             g == LoadPolicy(file)
  <2>1. rules \in Context
    BY DEF Inv, Context
  <2>2. /\ IsFused(c) /\ c.intel.reputation = ctx.intel.reputation
        /\ c.criticality = ctx.criticality
        /\ c.isTrustedProcess = ctx.isTrustedProcess
        /\ HardRule2(c) <=> HardRule2(ctx)
    <3>1. /\ IsFused(c) /\ c.category = ctx.category
          /\ c.criticality = ctx.criticality
          /\ c.isTrustedProcess = ctx.isTrustedProcess
      BY FusedContext DEF Inv
    <3>2. c.intel.reputation = ctx.intel.reputation
      BY DEF Inv, Context, Fused
    <3> HIDE DEF c
    <3> QED
      BY <3>1, <3>2 DEF HardRule2
  <2>3. /\ ~d.hasIntel
        /\ d.category = c.category /\ d.criticality = c.criticality
        /\ d.isTrustedProcess = c.isTrustedProcess
        /\ d.isAllowedProcess = c.isAllowedProcess
    <3>1. /\ rules.category = ctx.category /\ rules.criticality = ctx.criticality
          /\ rules.isTrustedProcess = ctx.isTrustedProcess
          /\ rules.isAllowedProcess = ctx.isAllowedProcess
          /\ rules.hasIntel = FALSE
      BY DEF Inv, Context
    <3> HIDE DEF rules
    <3> QED
      BY <2>1, <3>1, FusedContext DEF Inv
  <2>4. /\ decision = EvaluateDecision(c, entry, g)
        /\ RulesAlone = EvaluateDecision(d, entry, g)
    BY DEF Inv, RulesAlone, Decision
  <2>5. RemediateThreshold(g) \in Int /\ AlertThreshold(g) \in Int
    BY Thresholds DEF Inv
  <2> HIDE DEF c, d, g, rules
  <2>6. FinalScore(d) = BaseScore(c)
    <3>1. BaseScore(d) = BaseScore(c)
      BY <2>3 DEF BaseScore, RuleScore, HardRule2
    <3> QED
      BY <2>3, <3>1 DEF FinalScore
  <2>7. FinalScore(c) \in Int /\ FinalScore(d) \in Int
    BY <2>2, <2>6, FinalAgainstBase, BaseBound
  <2>8. /\ Rank(EvaluateDecision(c, entry, g).action) \in Int
        /\ Rank(EvaluateDecision(d, entry, g).action) \in Int
    BY DEF EvaluateDecision, ThresholdAction, Rank
  <2>9. ~(FinalScore(c) >= FinalScore(d))
    BY <2>3, <2>4, <2>5, <2>7, <2>8, HigherScoreIsNoMilder
  <2>10. /\ BaseScore(c) = 8 /\ FinalScore(c) = 7 /\ FinalScore(d) = 8
         /\ c.intel.reputation > 112
    BY <2>2, <2>6, <2>9, FinalAgainstBase
  <2>11. ~c.isAllowedProcess /\ ~d.isAllowedProcess
    <3>1. CASE c.isAllowedProcess
      BY <2>3, <2>4, <2>8, <3>1 DEF EvaluateDecision
    <3> QED
      BY <2>3, <3>1
  <2>12. decision.score = FinalScore(c) /\ RulesAlone.score = FinalScore(d)
    BY <2>4, <2>11 DEF EvaluateDecision
  <2>13. ~HardRule2(c)
    BY <2>2, <2>10, BaseBound
  <2> QED
    BY <2>2, <2>10, <2>12, <2>13, BaseBound
<1> QED
  BY <1>1, InvHolds, PTL

\* Hard rule 2 is a floor for every policy file that does not put the threshold
\* above its ten points, in whichever layout.
THEOREM HardRule2IsAFloor == Spec => []HardRule2FloorHolds
<1>1. Inv => HardRule2FloorHolds
  <2> SUFFICES ASSUME Inv, HardRule2(ctx), ~ctx.isAllowedProcess,
                      entry.remediation # "alert",
                      (IF file.remediate = 0 THEN file.decision.remediate
                                             ELSE file.remediate) <= 10
               PROVE  decision.action = "remediate"
    BY DEF HardRule2FloorHolds, HardRule2Remediates
  <2> DEFINE c == Fused(ctx, file)
             g == LoadPolicy(file)
  <2>1. IsFused(c) /\ HardRule2(c) /\ ~c.isAllowedProcess
    BY FusedContext DEF Inv, HardRule2
  <2>2. RemediateThreshold(g) \in Int /\ RemediateThreshold(g) <= 10
    BY EvaluationAssumption DEF Inv, LoadPolicy, Stated, RemediateThreshold
  <2>3. decision = EvaluateDecision(c, entry, g)
    BY DEF Inv, Decision
  <2> HIDE DEF c, g
  <2>4. FinalScore(c) \in Int /\ FinalScore(c) >= 10
    BY <2>1, FinalAgainstBase, BaseBound
  <2>5. ThresholdAction(FinalScore(c), g) = "remediate"
    BY <2>2, <2>4 DEF ThresholdAction
  <2> QED
    BY <2>1, <2>3, <2>5 DEF EvaluateDecision
<1> QED
  BY <1>1, InvHolds, PTL

-----------------------------------------------------------------------------
(* The other direction: what is worse is rated worse, at every stage. *)

Rate == [z : Int, samples : Nat, burst : 0..10]
Severity(m, cfg) == Counted(ClassifyZScore(m.z, cfg, m.samples))

LEMMA SeverityIs ==
  ASSUME NEW m \in Rate, NEW f \in Files
  PROVE  LET cfg == AnomalyDefaults(f.anomaly)
         IN  /\ cfg.minSamples \in Int /\ cfg.mediumZ \in Int /\ cfg.highZ \in Int
             /\ Severity(m, f.anomaly) =
                  IF m.samples < cfg.minSamples THEN "none"
                  ELSE IF Abs(m.z) >= cfg.highZ THEN "high"
                  ELSE IF Abs(m.z) >= cfg.mediumZ THEN "medium" ELSE "none"
<1> DEFINE cfg == AnomalyDefaults(f.anomaly)
<1>1. /\ cfg.minSamples \in Int /\ cfg.mediumZ \in Int /\ cfg.highZ \in Int
      /\ cfg.mediumZ >= 1 /\ cfg.highZ >= cfg.mediumZ
  BY EvaluationAssumption DEF AnomalyDefaults, Positive
<1>2. ClassifyZScore(m.z, f.anomaly, m.samples) =
        IF m.samples < cfg.minSamples THEN "unknown"
        ELSE CASE Abs(m.z) >= cfg.highZ -> "high"
               [] Abs(m.z) \in cfg.mediumZ .. cfg.highZ - 1 -> "medium"
               [] Abs(m.z) \in 1 .. cfg.mediumZ - 1 -> "low"
               [] m.z = 0 -> "none"
  BY DEF ClassifyZScore
<1>3. Abs(m.z) \in Nat /\ (m.z = 0 <=> Abs(m.z) = 0) /\ m.samples \in Nat
  BY DEF Abs, Rate
<1> HIDE DEF cfg
<1>4. CASE m.samples < cfg.minSamples
  BY <1>1, <1>2, <1>4 DEF Severity, Counted, IsAnomalous, cfg
<1>5. CASE ~(m.samples < cfg.minSamples) /\ Abs(m.z) >= cfg.highZ
  <2>1. ClassifyZScore(m.z, f.anomaly, m.samples) = "high"
    BY <1>1, <1>2, <1>3, <1>5
  <2> QED
    BY <1>1, <1>5, <2>1 DEF Severity, Counted, IsAnomalous, cfg
<1>6. CASE /\ ~(m.samples < cfg.minSamples)
           /\ Abs(m.z) >= cfg.mediumZ /\ ~(Abs(m.z) >= cfg.highZ)
  <2>1. ClassifyZScore(m.z, f.anomaly, m.samples) = "medium"
    BY <1>1, <1>2, <1>3, <1>6
  <2> QED
    BY <1>1, <1>6, <2>1 DEF Severity, Counted, IsAnomalous, cfg
<1>7. CASE ~(m.samples < cfg.minSamples) /\ ~(Abs(m.z) >= cfg.mediumZ)
  <2>1. ~(Abs(m.z) >= cfg.highZ)
    BY <1>1, <1>3, <1>7
  <2>2. ClassifyZScore(m.z, f.anomaly, m.samples) \in {"low", "none"}
    BY <1>1, <1>2, <1>3, <1>7
  <2> QED
    BY <1>1, <1>7, <2>1, <2>2 DEF Severity, Counted, IsAnomalous, cfg
<1> QED
  BY <1>1, <1>3, <1>4, <1>5, <1>6, <1>7

LEMMA WorseSeverity ==
  ASSUME NEW m \in Rate, NEW n \in Rate, NEW f \in Files, WorseRate(m, n)
  PROVE  /\ Severity(m, f.anomaly) \in {"none", "medium", "high"}
         /\ Severity(n, f.anomaly) \in {"none", "medium", "high"}
         /\ AnomalyMultiplier(Severity(m, f.anomaly))
              >= AnomalyMultiplier(Severity(n, f.anomaly))
<1> DEFINE cfg == AnomalyDefaults(f.anomaly)
           min == cfg.minSamples
           medium == cfg.mediumZ
           high == cfg.highZ
<1>1. /\ Severity(m, f.anomaly) =
           IF m.samples < min THEN "none"
           ELSE IF Abs(m.z) >= high THEN "high"
           ELSE IF Abs(m.z) >= medium THEN "medium" ELSE "none"
      /\ Severity(n, f.anomaly) =
           IF n.samples < min THEN "none"
           ELSE IF Abs(n.z) >= high THEN "high"
           ELSE IF Abs(n.z) >= medium THEN "medium" ELSE "none"
      /\ min \in Int /\ medium \in Int /\ high \in Int
  BY SeverityIs
<1>2. /\ Abs(m.z) \in Int /\ Abs(n.z) \in Int /\ Abs(m.z) >= Abs(n.z)
      /\ m.samples \in Int /\ n.samples \in Int /\ m.samples >= n.samples
  BY DEF WorseRate, Rate, Abs
<1> HIDE DEF min, medium, high
<1>3. /\ AnomalyMultiplier("none") = 20 /\ AnomalyMultiplier("medium") = 23
      /\ AnomalyMultiplier("high") = 26
  BY DEF AnomalyMultiplier
<1> QED
  BY <1>1, <1>2, <1>3

LEMMA MaxSeverityMultiplies ==
  ASSUME NEW s \in {"none", "medium", "high"}, NEW t \in {"none", "medium", "high"}
  PROVE  AnomalyMultiplier(MaxSeverity(s, t)) =
           Max2(AnomalyMultiplier(s), AnomalyMultiplier(t))
<1>1. /\ SeverityRank("none") = 2 /\ SeverityRank("medium") = 4
      /\ SeverityRank("high") = 5
  BY DEF SeverityRank, SeveritySeq
<1>2. /\ AnomalyMultiplier("none") = 20 /\ AnomalyMultiplier("medium") = 23
      /\ AnomalyMultiplier("high") = 26
  BY DEF AnomalyMultiplier
<1> QED
  BY <1>1, <1>2 DEF MaxSeverity, Max2

LEMMA WorseTotal ==
  ASSUME NEW c \in Context, NEW d \in Context, NEW f \in Files,
         Worse(c.intel, d.intel),
         HardRule2(Fused(c, f)) = HardRule2(Fused(d, f))
  PROVE  TotalMultiplier(Fused(c, f)) >= TotalMultiplier(Fused(d, f))
<1> DEFINE fc == Fused(c, f)
           fd == Fused(d, f)
           a1 == AnomalyMultiplier(fc.intel.anomaly)
           b1 == BurstMultiplier(fc.intel.burst)
           r1 == ReputationMultiplier(fc.intel.reputation)
           a2 == AnomalyMultiplier(fd.intel.anomaly)
           b2 == BurstMultiplier(fd.intel.burst)
           r2 == ReputationMultiplier(fd.intel.reputation)
<1>1. /\ c.intel.processWrite \in Rate /\ c.intel.paramDrift \in Rate
      /\ d.intel.processWrite \in Rate /\ d.intel.paramDrift \in Rate
      /\ c.intel.reputation \in Nat /\ d.intel.reputation \in Nat
  BY EvaluationAssumption DEF Context, Intelligence, Rate
<1>2. \A x \in {c, d} :
         /\ Fused(x, f).intel.anomaly =
              MaxSeverity(Severity(x.intel.processWrite, f.anomaly),
                          Severity(x.intel.paramDrift, f.anomaly))
         /\ Fused(x, f).intel.burst =
              LargerBurst(x.intel.processWrite, x.intel.paramDrift)
         /\ Fused(x, f).intel.reputation = x.intel.reputation
  <2> TAKE x \in {c, d}
  <2> DEFINE both == FuseBehavioralSignals(x.intel.processWrite,
                                           x.intel.paramDrift, f.anomaly)
  <2>1. Fused(x, f) = [x EXCEPT !.intel = [anomaly    |-> both.anomaly,
                                           burst      |-> both.burst,
                                           reputation |-> x.intel.reputation]]
    BY DEF Fused
  <2>2. /\ both.anomaly = MaxSeverity(Severity(x.intel.processWrite, f.anomaly),
                                      Severity(x.intel.paramDrift, f.anomaly))
        /\ both.burst = LargerBurst(x.intel.processWrite, x.intel.paramDrift)
    BY DEF FuseBehavioralSignals, Severity
  <2> HIDE DEF both
  <2> QED
    BY <2>1, <2>2 DEF Context
<1>3. a1 \in {20, 23, 26} /\ a2 \in {20, 23, 26} /\ a1 >= a2
  <2> DEFINE pc == Severity(c.intel.processWrite, f.anomaly)
             qc == Severity(c.intel.paramDrift, f.anomaly)
             pd == Severity(d.intel.processWrite, f.anomaly)
             qd == Severity(d.intel.paramDrift, f.anomaly)
  <2>1. /\ {pc, qc, pd, qd} \subseteq {"none", "medium", "high"}
        /\ AnomalyMultiplier(pc) >= AnomalyMultiplier(pd)
        /\ AnomalyMultiplier(qc) >= AnomalyMultiplier(qd)
    BY <1>1, WorseSeverity DEF Worse
  <2>2. a1 = AnomalyMultiplier(MaxSeverity(pc, qc))
        /\ a2 = AnomalyMultiplier(MaxSeverity(pd, qd))
    BY <1>2
  <2> HIDE DEF pc, qc, pd, qd, a1, a2
  <2>3. /\ a1 = Max2(AnomalyMultiplier(pc), AnomalyMultiplier(qc))
        /\ a2 = Max2(AnomalyMultiplier(pd), AnomalyMultiplier(qd))
    BY <2>1, <2>2, MaxSeverityMultiplies
  <2>4. \A s \in {"none", "medium", "high"} : AnomalyMultiplier(s) \in {20, 23, 26}
    BY DEF AnomalyMultiplier
  <2> QED
    BY <2>1, <2>3, <2>4 DEF Max2
<1>4. b1 \in 40..50 /\ b2 \in 40..50 /\ b1 >= b2
  BY <1>1, <1>2 DEF BurstMultiplier, LargerBurst, Worse, WorseRate, Rate
<1>5. r1 \in 900..1200 /\ r2 \in 900..1200 /\ r1 >= r2
  <2>1. /\ r1 = ReputationMultiplier(c.intel.reputation)
        /\ r2 = ReputationMultiplier(d.intel.reputation)
    BY <1>2
  <2>2. c.intel.reputation <= d.intel.reputation
    BY DEF Worse
  <2>3. PICK x \in Nat : x = c.intel.reputation
    BY <1>1
  <2>4. PICK y \in Nat : y = d.intel.reputation
    BY <1>1
  <2>5. x <= y
    BY <2>2, <2>3, <2>4
  <2>6. /\ ReputationMultiplier(x) \in 900..1200
        /\ ReputationMultiplier(y) \in 900..1200
        /\ ReputationMultiplier(x) >= ReputationMultiplier(y)
    BY <2>5 DEF ReputationMultiplier, Min2, Max2
  <2>7. r1 = ReputationMultiplier(x) /\ r2 = ReputationMultiplier(y)
    BY <2>1, <2>3, <2>4
  <2> HIDE DEF r1, r2
  <2> QED
    BY <2>6, <2>7
<1>6. /\ TotalMultiplier(fc) = IF HardRule2(fc) THEN Max2(a1 * b1 * r1, Scale)
                                                ELSE a1 * b1 * r1
      /\ TotalMultiplier(fd) = IF HardRule2(fd) THEN Max2(a2 * b2 * r2, Scale)
                                                ELSE a2 * b2 * r2
  BY DEF TotalMultiplier
<1> HIDE DEF a1, a2, b1, b2, r1, r2, fc, fd
<1>7. a1 * b1 * r1 \in Nat /\ a2 * b2 * r2 \in Nat /\ a1 * b1 * r1 >= a2 * b2 * r2
  <2>1. a1 * b1 >= a2 * b2 /\ a1 * b1 \in Nat /\ a2 * b2 \in Nat
    BY <1>3, <1>4
  <2>2. r1 * (a1 * b1) >= r1 * (a2 * b2) /\ (a2 * b2) * r1 >= (a2 * b2) * r2
    BY <1>5, <2>1, Times
  <2>3. /\ a1 * b1 * r1 = r1 * (a1 * b1) /\ a2 * b2 * r2 = (a2 * b2) * r2
        /\ r1 * (a2 * b2) = (a2 * b2) * r1
    BY <1>3, <1>4, <1>5
  <2>4. a1 * b1 * r1 \in Nat /\ a2 * b2 * r2 \in Nat /\ (a2 * b2) * r1 \in Nat
    BY <1>5, <2>1, <2>3, Times
  <2> QED
    BY <2>2, <2>3, <2>4
<1>8. Scale \in Nat
  BY SMT DEF Scale
<1> DEFINE p1 == a1 * b1 * r1
           p2 == a2 * b2 * r2
<1>9. TotalMultiplier(fc) >= TotalMultiplier(fd)
  <2>1. /\ p1 \in Nat /\ p2 \in Nat /\ p1 >= p2
        /\ TotalMultiplier(fc) = IF HardRule2(fc) THEN Max2(p1, Scale) ELSE p1
        /\ TotalMultiplier(fd) = IF HardRule2(fd) THEN Max2(p2, Scale) ELSE p2
        /\ HardRule2(fc) = HardRule2(fd)
    BY <1>6, <1>7 DEF fc, fd
  <2> HIDE DEF p1, p2
  <2> QED
    BY <1>8, <2>1 DEF Max2
<1> QED
  BY <1>9 DEF fc, fd

LEMMA RoundingIsMonotone ==
  ASSUME NEW x \in Nat, NEW y \in Nat, x >= y
  PROVE  /\ RoundDiv(x, Scale) \in Int /\ RoundDiv(y, Scale) \in Int
         /\ RoundDiv(x, Scale) >= RoundDiv(y, Scale)
<1> DEFINE u == 2 * x + 800000
           v == 2 * y + 800000
<1>1. Scale = 800000
  BY SMT DEF Scale
<1>2. /\ RoundDiv(x, Scale) = u \div 1600000
      /\ RoundDiv(y, Scale) = v \div 1600000
  BY <1>1, SMT DEF RoundDiv
<1>3. u \in Nat /\ v \in Nat /\ u >= v
  BY SMT
<1> HIDE DEF u, v
<1>4. /\ u \div 1600000 \in Int /\ v \div 1600000 \in Int
      /\ u \div 1600000 >= v \div 1600000
  BY <1>3, SMT
<1> QED
  BY <1>2, <1>4

LEMMA LargerTotalScoresHigher ==
  ASSUME NEW c, NEW d, IsFused(c), IsFused(d),
         BaseScore(c) = BaseScore(d),
         HardRule2(c) = HardRule2(d),
         c.hasIntel = d.hasIntel,
         TotalMultiplier(c) >= TotalMultiplier(d)
  PROVE  /\ FinalScore(c) \in Int /\ FinalScore(d) \in Int
         /\ FinalScore(c) >= FinalScore(d)
<1> DEFINE base == BaseScore(d)
           total1 == TotalMultiplier(c)
           total2 == TotalMultiplier(d)
           scaled1 == RoundDiv(base * total1, Scale)
           scaled2 == RoundDiv(base * total2, Scale)
<1>1. base \in Nat /\ total1 \in Nat /\ total2 \in Nat /\ total1 >= total2
  <2>1. base \in {0, 3, 5, 8, 10}
    BY BaseBound
  <2> QED
    BY <2>1, TotalBound, SMT
<1>2. /\ FinalScore(c) = IF ~c.hasIntel THEN base
                        ELSE IF HardRule2(c) THEN Max2(scaled1, base) ELSE scaled1
      /\ FinalScore(d) = IF ~d.hasIntel THEN base
                        ELSE IF HardRule2(d) THEN Max2(scaled2, base) ELSE scaled2
  BY DEF FinalScore
<1> HIDE DEF base, total1, total2
<1>3. scaled1 \in Int /\ scaled2 \in Int /\ scaled1 >= scaled2
  <2>1. base * total1 >= base * total2
        /\ base * total1 \in Nat /\ base * total2 \in Nat
    BY <1>1, Times
  <2> QED
    BY <2>1, RoundingIsMonotone
<1> HIDE DEF scaled1, scaled2
<1> QED
  BY <1>1, <1>2, <1>3 DEF Max2

\* For all measurements, reputations and policy files: from one drift of an
\* entry to the next, worse behaviour is not scored lower nor treated milder.
THEOREM WorseIsNeverMilder == Spec => WorseBehaviourNeverSoftens
<1> DEFINE NotSofter ==
             Worse(ctx'.intel, ctx.intel)
             /\ ctx'.isAllowedProcess = ctx.isAllowedProcess
             => /\ decision'.score >= decision.score
                /\ Rank(decision'.action) >= Rank(decision.action)
<1>1. Inv /\ Inv' /\ [Next]_vars => [NotSofter]_vars
  <2> SUFFICES ASSUME Inv, Inv', Next,
                      Worse(ctx'.intel, ctx.intel),
                      ctx'.isAllowedProcess = ctx.isAllowedProcess
               PROVE  /\ decision'.score >= decision.score
                      /\ Rank(decision'.action) >= Rank(decision.action)
    OBVIOUS
  <2> DEFINE c == Fused(ctx', file)
             d == Fused(ctx, file)
             g == LoadPolicy(file)
  <2>1. Behave
    <3>1. ~Alternate
      BY DEF Alternate, Inv, Context
    <3> QED
      BY <3>1 DEF Next
  <2>2. /\ ctx' \in Context /\ ctx \in Context /\ file \in Files
        /\ entry' = entry /\ file' = file
    BY <2>1 DEF Inv, Behave
  <2>3. /\ ctx'.category = ctx.category /\ ctx'.criticality = ctx.criticality
        /\ ctx'.isTrustedProcess = ctx.isTrustedProcess
        /\ ctx'.hasIntel = ctx.hasIntel
    BY <2>1, <2>2 DEF Behave, Context
  <2>4. /\ decision' = EvaluateDecision(c, entry, g)
        /\ decision = EvaluateDecision(d, entry, g)
    BY <2>2 DEF Inv, Decision
  <2>5. /\ IsFused(c) /\ IsFused(d)
        /\ c.category = d.category /\ c.criticality = d.criticality
        /\ c.isTrustedProcess = d.isTrustedProcess
        /\ c.isAllowedProcess = d.isAllowedProcess /\ c.hasIntel = d.hasIntel
    BY <2>2, <2>3, FusedContext
  <2>6. RemediateThreshold(g) \in Int /\ AlertThreshold(g) \in Int
    BY <2>2, Thresholds
  <2>7. HardRule2(c) = HardRule2(d)
    BY <2>5 DEF HardRule2
  <2>8. TotalMultiplier(c) >= TotalMultiplier(d)
    BY <2>2, <2>7, WorseTotal
  <2> HIDE DEF c, d, g
  <2>9. BaseScore(c) = BaseScore(d)
    BY <2>5 DEF BaseScore, RuleScore, HardRule2
  <2>10. /\ FinalScore(c) \in Int /\ FinalScore(d) \in Int
         /\ FinalScore(c) >= FinalScore(d)
    BY <2>5, <2>7, <2>8, <2>9, LargerTotalScoresHigher
  <2> QED
    BY <2>4, <2>5, <2>6, <2>10, HigherScoreIsNoMilder
<1> QED
  BY <1>1, InvHolds, PTL DEF Spec, WorseBehaviourNeverSoftens

=============================================================================
