--------------------------- MODULE MCDirectoryLive ---------------------------
(* Small instances of DirectoryLive for TLC. *)
EXTENDS DirectoryLive, TLC

Symmetry == Permutations(Agents)
=============================================================================
