------------------------------ MODULE Anomaly ------------------------------
(***************************************************************************)
(* From the measurements of two series to the anomaly and the burst that   *)
(* the decision engine looks at: stats/anomaly.go and the fusion of        *)
(* stats/engine.go.  A measurement is a record of the z-score of a rate,   *)
(* in whole standard deviations, the samples the baseline of the rate has, *)
(* and the burst score in tenths.  The decision reads nothing else of a    *)
(* burst: its count goes into the trace, and its severity there and into   *)
(* the update of the reputation (worker.go:199).                           *)
(***************************************************************************)
EXTENDS Integers

SeveritySeq == <<"unknown", "none", "low", "medium", "high">>
SeverityRank(s) == CHOOSE i \in DOMAIN SeveritySeq : SeveritySeq[i] = s

IsAnomalous(severity) == severity \in {"medium", "high"}

\* Mutant: the second anomaly replaces the first.
LatestSeverity(a, b) == IF IsAnomalous(b) THEN b ELSE a

MaxSeverity(a, b) == IF SeverityRank(a) >= SeverityRank(b) THEN a ELSE b

Abs(z) == IF z < 0 THEN -z ELSE z

Positive(value, default) == IF value <= 0 THEN default ELSE value

\* AnomalyConfig.withDefaults.
AnomalyDefaults(cfg) ==
    LET medium == Positive(cfg.mediumZ, 2)
        high   == Positive(cfg.highZ, 3)
    IN  [minSamples |-> Positive(cfg.minSamples, 10),
         mediumZ    |-> medium,
         highZ      |-> IF high < medium THEN medium ELSE high]

ClassifyZScore(z, given, samples) ==
    LET cfg == AnomalyDefaults(given)
    IN  IF samples < cfg.minSamples THEN "unknown"
        ELSE CASE Abs(z) >= cfg.highZ -> "high"
               [] Abs(z) \in cfg.mediumZ .. cfg.highZ - 1 -> "medium"
               [] Abs(z) \in 1 .. cfg.mediumZ - 1 -> "low"
               [] z = 0 -> "none"

\* Only what is anomalous enters the severity of both.
Counted(severity) == IF IsAnomalous(severity) THEN severity ELSE "none"

LargerBurst(processWrite, paramDrift) ==
    IF paramDrift.burst > processWrite.burst THEN paramDrift.burst
                                             ELSE processWrite.burst

FuseBehavioralSignals(processWrite, paramDrift, cfg) ==
    LET severity(m) == Counted(ClassifyZScore(m.z, cfg, m.samples))
    IN  [anomaly |-> MaxSeverity(severity(processWrite), severity(paramDrift)),
         burst   |-> LargerBurst(processWrite, paramDrift)]
=============================================================================
