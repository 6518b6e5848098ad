--------------------------- MODULE MCDirectorySync ---------------------------
(* Small instance of DirectorySync for TLC. *)
EXTENDS DirectorySync, TLC

Symmetry == Permutations(Ids) \cup Permutations(Values)
=============================================================================
