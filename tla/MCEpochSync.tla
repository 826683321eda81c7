---------------------------- MODULE MCEpochSync ----------------------------
(* Small instances of EpochSync for TLC. *)
EXTENDS EpochSync

CONSTANTS r1, r2

============================================================================
