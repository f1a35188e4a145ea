---------------------------- MODULE MCReputation ----------------------------
EXTENDS Reputation, TLC
CONSTANTS none, p1, p2, t1, t2

\* The initial and the neutral score lie above the bounds.
MCConfigs == {[initial |-> 3, min |-> 1, max |-> 2, neutral |-> 3]}
MCWeight == [reward |-> 1, drift |-> 1, alert |-> 1, remediate |-> 2,
             cooldown |-> 1, conflict |-> 1, medium |-> 1, high |-> 2]
Quiet == [drift |-> FALSE, action |-> "allow", cooldown |-> FALSE,
          conflict |-> FALSE, anomaly |-> "none", burst |-> "none"]
\* Stable enough for the reward, but not free of penalties.
Alerted == [Quiet EXCEPT !.action = "alert", !.anomaly = "medium"]
MCUpdates == {Alerted}
Symmetry == Permutations({p1, p2}) \cup Permutations({t1, t2})
=============================================================================
