---------------------------- MODULE MCDocPreview ----------------------------
(* Instances of DocPreview for TLC. *)
EXTENDS DocPreview, TLC
=============================================================================
