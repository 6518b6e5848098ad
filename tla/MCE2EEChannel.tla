---------------------------- MODULE MCE2EEChannel ----------------------------
(* Small instances of E2EEChannel for TLC. *)
EXTENDS E2EEChannel
=============================================================================
