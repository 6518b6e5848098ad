----------------------------- MODULE MCAgentRecord -----------------------------
(* Small instances of AgentRecord for TLC. *)
EXTENDS AgentRecord, TLC

Symmetry == Permutations(Titles)
=============================================================================
