---------------------------- MODULE MCRetention ----------------------------
(* Retention on a small instance: logs whose digests are all near each other. *)
EXTENDS Retention

MCDigest == [l \in Logs |-> l]
=============================================================================
