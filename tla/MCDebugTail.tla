---------------------------- MODULE MCDebugTail ----------------------------
(* Instances of DebugTail for TLC. *)
EXTENDS DebugTail
=============================================================================
