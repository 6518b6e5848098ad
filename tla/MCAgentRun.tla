---------------------------- MODULE MCAgentRun ----------------------------
\* Instances of AgentRun for TLC.  Turn ids are interchangeable, callers too.
EXTENDS AgentRun, TLC

Symmetry == Permutations(Turns) \cup Permutations(Callers)
=============================================================================
