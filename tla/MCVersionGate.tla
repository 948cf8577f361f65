---------------------------- MODULE MCVersionGate ----------------------------
(* Node-REDs below and above the minimum, one that shortens its version, one *)
(* that reports nothing, one whose version begins with no number.            *)
EXTENDS VersionGate

CONSTANTS i1, i2, p1, p2

MCTool == [p \in Payloads |-> IF p = p1 THEN "inject_node" ELSE "set_context"]
MCRuntimes ==
  {[real |-> Triple(4, 1, 2), says |-> <<4, 1, 2>>],
   [real |-> Triple(5, 0, 0), says |-> <<5>>],
   [real |-> Triple(5, 1, 0), says |-> <<5, Junk>>],
   [real |-> Triple(4, 0, 9), says |-> <<>>],
   [real |-> Triple(5, 0, 1), says |-> <<Junk, 0, 1>>]}
=============================================================================
