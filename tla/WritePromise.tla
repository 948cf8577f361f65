---------------------------- MODULE WritePromise ----------------------------
(***************************************************************************)
(* What a mutating method promises to the tool that calls it, whatever     *)
(* happens to the process, the network and Node-RED:                       *)
(*                                                                         *)
(*   - its effect happens at most once;                                    *)
(*   - success is reported after the effect;                               *)
(*   - an error that is not a transport error is reported only if the      *)
(*     effect has not happened, and then it never happens;                 *)
(*   - a transport error says nothing: the effect may still happen later.  *)
(*                                                                         *)
(* withTimeoutAttempts of internal/mcp depends on every clause of this: it *)
(* words a transport error of a write as an indeterminate outcome, every   *)
(* other error as a plain failure, and never repeats the call.             *)
(***************************************************************************)
CONSTANT Calls

VARIABLES
  effect,   \* "none" or "done": what a call did to Node-RED
  answer    \* "none" until it returns: "ok", "error" or "transport"

vars == <<effect, answer>>

Init ==
  /\ effect = [c \in Calls |-> "none"]
  /\ answer = [c \in Calls |-> "none"]

(* Node-RED carries the write out. *)
Happen(c) ==
  /\ effect[c] = "none"
  /\ answer[c] \in {"none", "transport"}
  /\ effect' = [effect EXCEPT ![c] = "done"]
  /\ UNCHANGED answer

(* The method returns. *)
Answer(c, result) ==
  /\ answer[c] = "none"
  /\ result = "ok" => effect[c] = "done"
  /\ result = "error" => effect[c] = "none"
  /\ answer' = [answer EXCEPT ![c] = result]
  /\ UNCHANGED effect

Next ==
  \E c \in Calls : Happen(c) \/ \E result \in {"ok", "error", "transport"} : Answer(c, result)

Spec == Init /\ [][Next]_vars
=============================================================================
