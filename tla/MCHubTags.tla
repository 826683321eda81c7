----------------------------- MODULE MCHubTags -----------------------------
(* Small instances of HubTags for TLC. *)
EXTENDS HubTags, TLC

CONSTANTS c1, c2, c3, t1, t2

ClientSymmetry == Permutations(Clients)

============================================================================
