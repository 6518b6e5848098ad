----------------------------- MODULE MCPidLock -----------------------------
\* Instances of PidLock for TLC.
EXTENDS PidLock, TLC

Symmetry == Permutations(Desktop) \cup Permutations(Procs \ Desktop)
=============================================================================
