----------------------------- MODULE MCAutoResume -----------------------------
(* Small instances of AutoResume for TLC. *)
EXTENDS AutoResume, TLC

Symmetry == Permutations(Resumes)
=============================================================================
