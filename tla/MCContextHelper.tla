-------------------------- MODULE MCContextHelper --------------------------
(* Instances of ContextHelper for TLC. *)
EXTENDS ContextHelper, TLC

CONSTANTS s1, s2, w1, b1, e1

(* Two set_context calls meet another tool, or one meets a restore and an *)
(* editor: all of them together are too many.                             *)
OneCast ==
  \/ pc[b1] = "idle" /\ acted = {}
  \/ pc[w1] = "idle" /\ \E c \in Sets : pc[c] = "idle"

Identical == Permutations(Sets)
=============================================================================
