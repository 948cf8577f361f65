----------------------------- MODULE ToolCalls -----------------------------
(***************************************************************************)
(* The registration wrapper of every MCP tool (internal/mcp/server.go) and *)
(* the mutex that serializes the write tools (context_helper_mutex.go).    *)
(*                                                                         *)
(*    attempt with a deadline -> [ctxHelperMu -> writeMu] -> the method    *)
(*       -> classify the error -> answer, or another attempt               *)
(*                                                                         *)
(* A read tool is tried up to three times.  A write tool is tried once and *)
(* holds ctxHelperMu while its handler runs; restore_backup and            *)
(* set_context take the mutex in the handler, after a prelude of their     *)
(* own.  Inside, every method that changes the configuration or the        *)
(* palette takes Client.writeMu.                                           *)
(*                                                                         *)
(* What a method of the client does and returns is what WritePromise says  *)
(* of it, no more: FlowWrites shows that the client keeps that promise,    *)
(* this module that the tools pass it on.                                  *)
(***************************************************************************)
EXTENDS Integers

CONSTANTS
  Calls,       \* one per tool call
  Reads,       \* the calls of tools registered by addReadTool
  Self,        \* the calls of restore_backup and set_context
  Guarded,     \* the calls whose method takes Client.writeMu
  Nobody       \* writeMu is free

ASSUME CallsAssumption ==
  /\ Reads \subseteq Calls
  /\ Self \subseteq Calls \ Reads
  /\ Guarded \subseteq Calls \ Reads
  /\ Nobody \notin Calls

Writes == Calls \ Reads

maxRetries == 2

VARIABLES
  pc,        \* how far each call is
  attempt,   \* the attempt it is at, 0 before the first one
  expired,   \* the context of this attempt is done
  outer,     \* the context of the whole call is done: the MCP client hung up
  token,     \* the token is in the channel of ctxHelperMu
  writeMu,   \* who holds Client.writeMu
  open,      \* its attempts that Node-RED may still carry out
  effects,   \* how often Node-RED has carried it out
  result,    \* what the handler returned in this attempt
  answer     \* what the MCP client was told

vars == <<pc, attempt, expired, outer, token, writeMu, open, effects, result, answer>>

toNodeRED == <<open, effects>>
(* A write tool is inside ctxHelperMu. *)
InLock == {"granted", "handler", "guard", "method"}
Holds(c) == c \in Writes /\ pc[c] \in InLock
(* The handler runs. *)
Running == {"entry", "wait"} \cup InLock
Results == {"ok", "error", "transport", "notstarted"}

-----------------------------------------------------------------------------
(* WithTimeout derives the context of an attempt from the one of the call. *)
NewAttempt(c) ==
  /\ attempt' = [attempt EXCEPT ![c] = @ + 1]
  /\ expired' = [expired EXCEPT ![c] = outer[c]]
  /\ result' = [result EXCEPT ![c] = "none"]
  /\ pc' = [pc EXCEPT ![c] = IF c \in Reads THEN "handler" ELSE "entry"]
  /\ UNCHANGED <<outer, token, writeMu, toNodeRED, answer>>

(* The MCP client calls a tool. *)
Call(c) == pc[c] = "idle" /\ NewAttempt(c)

(* The MCP client cancels the request. *)
HangUp(c) ==
  /\ pc[c] \in Running \cup {"returned"}
  /\ ~outer[c]
  /\ outer' = [outer EXCEPT ![c] = TRUE]
  /\ expired' = [expired EXCEPT ![c] = TRUE]
  /\ UNCHANGED <<pc, attempt, token, writeMu, toNodeRED, result, answer>>

(* toolTimeout has passed since the attempt began, waiting included. *)
Deadline(c) ==
  /\ pc[c] \in Running
  /\ ~expired[c]
  /\ expired' = [expired EXCEPT ![c] = TRUE]
  /\ UNCHANGED <<pc, attempt, outer, token, writeMu, toNodeRED, result, answer>>

HandlerReturns(c, r) ==
  /\ pc' = [pc EXCEPT ![c] = "returned"]
  /\ result' = [result EXCEPT ![c] = r]

-----------------------------------------------------------------------------
(* helperMutex. *)

(* The prelude of restore_backup and set_context: arguments, version gate,
   reading the backup file.  A failure is answered without the mutex. *)
PreludeFails(c) ==
  /\ pc[c] = "entry"
  /\ c \in Self
  /\ HandlerReturns(c, "error")
  /\ UNCHANGED <<attempt, expired, outer, token, writeMu, toNodeRED, answer>>

(* LockContext looks at the context before it queues. *)
EnterLock(c) ==
  /\ pc[c] = "entry"
  /\ IF expired[c]
     THEN HandlerReturns(c, "notstarted")
     ELSE pc' = [pc EXCEPT ![c] = "wait"] /\ UNCHANGED result
  /\ UNCHANGED <<attempt, expired, outer, token, writeMu, toNodeRED, answer>>

(* The two arms of its select: either may win when both are ready. *)
TakeToken(c) ==
  /\ pc[c] = "wait"
  /\ token
  /\ token' = FALSE
  /\ pc' = [pc EXCEPT ![c] = "granted"]
  /\ UNCHANGED <<attempt, expired, outer, writeMu, toNodeRED, result, answer>>

Abandon(c) ==
  /\ pc[c] = "wait"
  /\ expired[c]
  /\ HandlerReturns(c, "notstarted")
  /\ UNCHANGED <<attempt, expired, outer, token, writeMu, toNodeRED, answer>>

(* Mutant: the token of a lock granted too late is not given back. *)
RecheckKeepingToken(c) ==
  /\ pc[c] = "granted"
  /\ IF expired[c]
     THEN HandlerReturns(c, "notstarted") /\ UNCHANGED token
     ELSE pc' = [pc EXCEPT ![c] = "handler"] /\ UNCHANGED <<token, result>>
  /\ UNCHANGED <<attempt, expired, outer, writeMu, toNodeRED, answer>>

(* LockContext looks again once it has the token, and gives it back if the
   context is done by then.  The channel has room for one token: a second
   Unlock would block. *)
Recheck(c) ==
  /\ pc[c] = "granted"
  /\ IF expired[c]
     THEN ~token /\ token' = TRUE /\ HandlerReturns(c, "notstarted")
     ELSE pc' = [pc EXCEPT ![c] = "handler"] /\ UNCHANGED <<token, result>>
  /\ UNCHANGED <<attempt, expired, outer, writeMu, toNodeRED, answer>>

-----------------------------------------------------------------------------
(* The handler, and the method of the client it calls. *)

(* Mutant: a return path of the client forgets writeMu. *)
LeaveGuarded(c, r) ==
  /\ HandlerReturns(c, r)
  /\ IF c \in Reads THEN UNCHANGED token ELSE ~token /\ token' = TRUE
  /\ UNCHANGED <<writeMu, attempt, expired, outer, answer>>

(* The deferred unlocks, innermost first. *)
Leave(c, r) ==
  /\ HandlerReturns(c, r)
  /\ IF c \in Reads THEN UNCHANGED token ELSE ~token /\ token' = TRUE
  /\ writeMu' = IF writeMu = c THEN Nobody ELSE writeMu
  /\ UNCHANGED <<attempt, expired, outer, answer>>

(* From here on Node-RED may carry the attempt of a write out. *)
StartMethod(c) ==
  /\ pc' = [pc EXCEPT ![c] = "method"]
  /\ open' = IF c \in Writes THEN [open EXCEPT ![c] = @ \cup {attempt[c]}] ELSE open

(* The handler refuses an argument. *)
HandlerRefuses(c) ==
  /\ pc[c] = "handler"
  /\ Leave(c, "error")
  /\ UNCHANGED toNodeRED

(* The handler calls the method.  A read and an injection need no writeMu; a
   configuration write and a change of the palette enter writeGuard. *)
CallMethod(c) ==
  /\ pc[c] = "handler"
  /\ IF c \in Guarded
     THEN pc' = [pc EXCEPT ![c] = "guard"] /\ UNCHANGED open
     ELSE StartMethod(c)
  /\ UNCHANGED <<attempt, expired, outer, token, writeMu, effects, result, answer>>

(* The method enters writeGuard, which no deadline interrupts. *)
EnterGuard(c) ==
  /\ pc[c] = "guard"
  /\ writeMu = Nobody
  /\ writeMu' = c
  /\ StartMethod(c)
  /\ UNCHANGED <<attempt, expired, outer, token, effects, result, answer>>

(* Node-RED carries an attempt out: while the method waits for it, or any
   time after the method has given up on it. *)
Happen(c) ==
  /\ \E a \in open[c] :
       /\ open' = [open EXCEPT ![c] = @ \ {a}]
       /\ effects' = [effects EXCEPT ![c] = @ + 1]
  /\ UNCHANGED <<pc, attempt, expired, outer, token, writeMu, result, answer>>

(* The method returns: see WritePromise.  A transport error is possible at
   any time, and every exchange is bound to the context of the attempt. *)
MethodReturns(c) ==
  /\ pc[c] = "method"
  /\ \/ /\ attempt[c] \notin open[c]
        /\ Leave(c, "ok")
        /\ UNCHANGED open
     \/ /\ c \in Writes => attempt[c] \in open[c]
        /\ Leave(c, "error")
        /\ open' = [open EXCEPT ![c] = @ \ {attempt[c]}]
     \/ /\ Leave(c, "transport")
        /\ UNCHANGED open
  /\ UNCHANGED effects

-----------------------------------------------------------------------------
(* withTimeoutAttempts. *)

(* Mutant: write tools are registered like read tools. *)
AttemptsForAll(c) == maxRetries + 1

(* maxRetries additional attempts, for reads only. *)
Attempts(c) == IF c \in Reads THEN maxRetries + 1 ELSE 1

Answer(c, a) ==
  /\ pc' = [pc EXCEPT ![c] = "done"]
  /\ answer' = [answer EXCEPT ![c] = a]
  /\ UNCHANGED <<attempt, expired, outer, token, writeMu, toNodeRED, result>>

(* Mutant: isTransportError does not see through the handler's wrapping. *)
PassOnEverything(c) ==
  /\ pc[c] = "returned"
  /\ Answer(c, IF result[c] = "transport" THEN "error" ELSE result[c])

(* Every result, and every error but a transport error, is the answer. *)
PassOn(c) ==
  /\ pc[c] = "returned"
  /\ result[c] # "transport"
  /\ Answer(c, result[c])

(* "outcome is indeterminate" for a write, "failed after n attempts" for a
   read that is out of attempts or whose client hung up. *)
GiveUp(c) ==
  /\ pc[c] = "returned"
  /\ result[c] = "transport"
  /\ Attempts(c) = 1 \/ attempt[c] = Attempts(c) \/ outer[c]
  /\ Answer(c, "transport")

Retry(c) ==
  /\ pc[c] = "returned"
  /\ result[c] = "transport"
  /\ attempt[c] < Attempts(c)
  /\ ~outer[c]
  /\ NewAttempt(c)

-----------------------------------------------------------------------------
Init ==
  /\ pc = [c \in Calls |-> "idle"]
  /\ attempt = [c \in Calls |-> 0]
  /\ expired = [c \in Calls |-> FALSE]
  /\ outer = [c \in Calls |-> FALSE]
  /\ token = TRUE
  /\ writeMu = Nobody
  /\ open = [c \in Calls |-> {}]
  /\ effects = [c \in Calls |-> 0]
  /\ result = [c \in Calls |-> "none"]
  /\ answer = [c \in Calls |-> "none"]

(* What the goroutine of a call does by itself. *)
Proceed(c) ==
  \/ PreludeFails(c) \/ EnterLock(c) \/ TakeToken(c) \/ Abandon(c) \/ Recheck(c)
  \/ HandlerRefuses(c) \/ CallMethod(c) \/ EnterGuard(c) \/ MethodReturns(c)
  \/ PassOn(c) \/ GiveUp(c) \/ Retry(c)

Next ==
  \E c \in Calls : Call(c) \/ HangUp(c) \/ Deadline(c) \/ Happen(c) \/ Proceed(c)

(* Goroutines run and timers fire. *)
Fairness == \A c \in Calls : WF_vars(Proceed(c)) /\ WF_vars(Deadline(c))

Spec == Init /\ [][Next]_vars /\ Fairness

-----------------------------------------------------------------------------
TypeOK ==
  /\ pc \in [Calls -> {"idle", "returned", "done"} \cup Running]
  /\ attempt \in [Calls -> 0..(maxRetries + 1)]
  /\ expired \in [Calls -> BOOLEAN]
  /\ outer \in [Calls -> BOOLEAN]
  /\ token \in BOOLEAN
  /\ writeMu \in Calls \cup {Nobody}
  /\ open \in [Calls -> SUBSET (1..(maxRetries + 1))]
  /\ effects \in [Calls -> Nat]
  /\ result \in [Calls -> Results \cup {"none"}]
  /\ answer \in [Calls -> Results \cup {"none"}]

(* The token of ctxHelperMu is in the channel exactly when no write tool is
   between TakeToken and its unlock, and never two are: no cancellation, no
   deadline that passes while the select runs, loses or duplicates it. *)
TokenIsConserved ==
  /\ token <=> \A c \in Calls : ~Holds(c)
  /\ \A c, d \in Calls : Holds(c) /\ Holds(d) => c = d

(* A handler inside ctxHelperMu never waits for writeMu, which it could not
   stop waiting for: the lock order of setcontext.go leaves nobody else to
   hold it. *)
WriteMuIsFree ==
  \A c \in Calls : pc[c] = "guard" => writeMu = Nobody

(* "no action was started" is true, and stays true. *)
NotStartedIsTrue ==
  \A c \in Writes : answer[c] = "notstarted" => effects[c] = 0 /\ open[c] = {}

(* A write tool acts at most once, however its call ends. *)
WritesActAtMostOnce == \A c \in Writes : effects[c] <= 1

(* Every tool call is answered, although a method may hold writeMu and no
   client has to hang up. *)
EveryCallIsAnswered == \A c \in Calls : pc[c] \in {"entry", "handler"} ~> pc[c] = "done"

(* What the MCP client is told of a write has the meaning it has one level
   below: "no action was started" is one more definite error. *)
Promise == INSTANCE WritePromise WITH
  Calls <- Writes,
  effect <- [c \in Writes |-> IF effects[c] = 0 THEN "none" ELSE "done"],
  answer <- [c \in Writes |-> IF answer[c] = "notstarted" THEN "error" ELSE answer[c]]

KeepsPromise == Promise!Spec

-----------------------------------------------------------------------------
(* The inductive invariant. *)

GuardInv ==
  \A c \in Calls :
    /\ writeMu = c => Holds(c) /\ pc[c] = "method"
    /\ pc[c] \in {"entry", "wait", "granted", "guard"} => c \in Writes

(* Only the one attempt of a write can be open, and only where it may. *)
OpenInv ==
  \A c \in Writes :
    /\ open[c] \subseteq {attempt[c]}
    /\ open[c] # {} => \/ pc[c] = "method"
                       \/ pc[c] = "returned" /\ result[c] = "transport"
                       \/ pc[c] = "done" /\ answer[c] = "transport"

AttemptInv ==
  \A c \in Calls :
    /\ pc[c] = "idle" => attempt[c] = 0
    /\ c \in Writes /\ pc[c] # "idle" => attempt[c] = 1

(* No attempt of a write acts before its method runs, or twice. *)
EffectInv ==
  \A c \in Writes :
    /\ effects[c] + (IF open[c] = {} THEN 0 ELSE 1) <= 1
    /\ pc[c] \in {"idle", "entry", "wait", "granted", "handler", "guard"}
         => effects[c] = 0 /\ open[c] = {}
    /\ pc[c] = "method" /\ open[c] = {} => effects[c] = 1

ResultInv ==
  \A c \in Writes :
    /\ answer[c] # "none" <=> pc[c] = "done"
    /\ pc[c] = "returned" => result[c] # "none"
    /\ pc[c] = "returned" /\ result[c] = "ok" => effects[c] = 1
    /\ pc[c] = "returned" /\ result[c] \in {"error", "notstarted"} => effects[c] = 0
    /\ answer[c] = "ok" => effects[c] = 1
    /\ answer[c] \in {"error", "notstarted"} => effects[c] = 0

IInv ==
  /\ TypeOK
  /\ TokenIsConserved
  /\ GuardInv
  /\ OpenInv
  /\ AttemptInv
  /\ EffectInv
  /\ ResultInv
=============================================================================
