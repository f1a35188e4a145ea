---------------------------- MODULE MCEvaluation ----------------------------
EXTENDS Evaluation

\* Either side of each boundary of the z-score, of the samples and of a burst.
MCMeasurements ==
    { [z |->  0, samples |->  0, burst |->  0],
      [z |->  1, samples |-> 10, burst |->  1],
      [z |->  2, samples |-> 10, burst |->  0],
      [z |-> -3, samples |->  9, burst |->  5],
      [z |-> -3, samples |-> 10, burst |->  5],
      [z |->  3, samples |-> 12, burst |-> 10] }
\* Either side of one half, where the discount begins; the highest score of the
\* shipped configuration; either side of 1.125, where the discount first costs
\* a point; and one far beyond it, for a max_score of two.
MCReputations == {0, 49, 50, 75, 100, 112, 113, 200}

NoThresholds == [alert |-> 0, remediate |-> 0]
NoAnomaly == [minSamples |-> 0, mediumZ |-> 0, highZ |-> 0]

\* Nothing configured; the shipped baseline; the former layout at the highest
\* threshold that hard rule 2 reaches, with misordered z-scores; both layouts,
\* the former one out of reach; a threshold below zero; misordered thresholds.
MCFiles ==
    { [alert |-> 0, remediate |-> 0, decision |-> NoThresholds,
       anomaly |-> NoAnomaly],
      [alert |-> 0, remediate |-> 0,
       decision |-> [alert |-> 5, remediate |-> 8], anomaly |-> NoAnomaly],
      [alert |-> 5, remediate |-> 10, decision |-> NoThresholds,
       anomaly |-> [minSamples |-> 1, mediumZ |-> 3, highZ |-> 1]],
      [alert |-> 0, remediate |-> 12,
       decision |-> [alert |-> 3, remediate |-> 5], anomaly |-> NoAnomaly],
      [alert |-> -1, remediate |-> 0,
       decision |-> [alert |-> 3, remediate |-> 5], anomaly |-> NoAnomaly],
      [alert |-> 8, remediate |-> 4, decision |-> NoThresholds,
       anomaly |-> NoAnomaly] }
=============================================================================
