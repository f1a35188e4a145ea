---------------------------- MODULE MCRateSeries ----------------------------
EXTENDS RateSeries, TLC
CONSTANTS none, k1, k2, t1, t2
Symmetry == Permutations({k1, k2}) \cup Permutations({t1, t2})
=============================================================================
