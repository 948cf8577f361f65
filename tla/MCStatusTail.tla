---------------------------- MODULE MCStatusTail ----------------------------
(* Two nodes that report an error or that they work; a deployment clears a
   status.                                                                 *)
EXTENDS StatusTail

MCPayloads == {[fill |-> "red", shape |-> "ring", text |-> "refused"],
               [fill |-> "green", shape |-> "dot", text |-> ""]}
=============================================================================
