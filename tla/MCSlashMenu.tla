---------------------------- MODULE MCSlashMenu ----------------------------
(* Instances of SlashMenu for TLC. *)
EXTENDS SlashMenu, TLC
=============================================================================
