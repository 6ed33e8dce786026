----------------------------- MODULE MCApiClient -----------------------------
EXTENDS ApiClient, TLC

\* Two threads that share a DaemonClient or have one each.
CONSTANTS t1, t2, k1, k2
Symmetry == Permutations({t1, t2}) \cup Permutations({k1, k2})
=============================================================================
