--------------------------- MODULE MCHubSessions ---------------------------
(* Small instances of HubSessions for TLC. *)
EXTENDS HubSessions, TLC

CONSTANTS a1, a2, d1, d2, s1, s2, s3, c1, c2

\* the first agent has one device, or two
SoloOwner == d1 :> a1
OneOwner  == d1 :> a1 @@ d2 :> a1

============================================================================
