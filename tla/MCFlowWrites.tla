---------------------------- MODULE MCFlowWrites ----------------------------
(* Instances of FlowWrites for TLC. *)
EXTENDS FlowWrites, TLC

CONSTANTS c1, c2, c3, t1, t2, s1, e1, e2

(* One tab with nothing on it. *)
OneTab == { <<t1, TabEntry>> }

Identical == Permutations(Calls) \cup Permutations(Editors)
=============================================================================
