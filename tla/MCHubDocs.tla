----------------------------- MODULE MCHubDocs -----------------------------
(* Instances of HubDocs for TLC. *)
EXTENDS HubDocs, TLC

Symmetry == Permutations(Clients) \cup Permutations(Sessions)
=============================================================================
