---------------------------- MODULE MCToolCalls ----------------------------
(* Instances of ToolCalls for TLC. *)
EXTENDS ToolCalls, TLC

CONSTANTS r1, w1, w2, s1
=============================================================================
