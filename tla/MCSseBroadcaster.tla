-------------------------- MODULE MCSseBroadcaster --------------------------
(* Instances of SseBroadcaster for TLC. *)
EXTENDS SseBroadcaster
=============================================================================
