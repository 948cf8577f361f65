-------------------------- MODULE ToolCallsProofs --------------------------
(***************************************************************************)
(* Proofs, for any number of tool calls, of the invariants of ToolCalls    *)
(* and of its refinement: what the MCP client is told has the meaning of   *)
(* WritePromise.                                                           *)
(***************************************************************************)
EXTENDS ToolCalls, TLAPS

(* The steps of one call, the idle ones included. *)
Step(c) == Call(c) \/ HangUp(c) \/ Deadline(c) \/ Happen(c) \/ Proceed(c)

LEMMA NextIsStep == [Next]_vars => (\E c \in Calls : Step(c)) \/ UNCHANGED vars
  BY DEF Next, Step

(* A call changes nothing of another call. *)
LEMMA OthersUnchanged ==
  ASSUME TypeOK, NEW c \in Calls, Step(c), NEW d \in Calls \ {c}
  PROVE  /\ pc'[d] = pc[d] /\ attempt'[d] = attempt[d] /\ open'[d] = open[d]
         /\ effects'[d] = effects[d] /\ result'[d] = result[d] /\ answer'[d] = answer[d]
<1>1. CASE Call(c) \/ Retry(c)
  BY <1>1 DEF TypeOK, Call, Retry, NewAttempt, toNodeRED
<1>2. CASE HangUp(c) \/ Deadline(c) \/ Happen(c)
  BY <1>2 DEF TypeOK, HangUp, Deadline, Happen, toNodeRED
<1>3. CASE PreludeFails(c) \/ EnterLock(c) \/ TakeToken(c) \/ Abandon(c) \/ Recheck(c)
  BY <1>3 DEF TypeOK, PreludeFails, EnterLock, TakeToken, Abandon, Recheck, HandlerReturns, toNodeRED
<1>4. CASE HandlerRefuses(c) \/ MethodReturns(c)
  BY <1>4 DEF TypeOK, HandlerRefuses, MethodReturns, Leave, HandlerReturns, toNodeRED
<1>5. CASE CallMethod(c) \/ EnterGuard(c)
  BY <1>5 DEF TypeOK, CallMethod, EnterGuard, StartMethod
<1>6. CASE PassOn(c) \/ GiveUp(c)
  BY <1>6 DEF TypeOK, PassOn, GiveUp, Answer, toNodeRED
<1> QED BY <1>1, <1>2, <1>3, <1>4, <1>5, <1>6 DEF Step, Proceed

LEMMA TypeInit == Init => TypeOK
  BY DEF Init, TypeOK, maxRetries

LEMMA TypeStep == TypeOK /\ AttemptInv /\ [Next]_vars => TypeOK'
<1> SUFFICES ASSUME TypeOK, AttemptInv, [Next]_vars PROVE TypeOK'
  OBVIOUS
<1> USE DEF TypeOK, Running, InLock, Results, maxRetries
<1>1. ASSUME NEW c \in Calls, Step(c) PROVE TypeOK'
  <2>1. CASE Call(c)
    <3>1. attempt[c] + 1 \in 0..3
      BY <2>1 DEF Call, AttemptInv
    <3> QED BY <2>1, <3>1 DEF Call, NewAttempt, toNodeRED
  <2>2. CASE Retry(c)
    <3>1. attempt[c] + 1 \in 0..3
      BY <2>2 DEF Retry, Attempts
    <3> QED BY <2>2, <3>1 DEF Retry, NewAttempt, toNodeRED
  <2>3. CASE HangUp(c) \/ Deadline(c)
    BY <2>3 DEF HangUp, Deadline, toNodeRED
  <2>8. CASE Happen(c)
    <3>1. PICK a \in open[c] : /\ open' = [open EXCEPT ![c] = @ \ {a}]
                               /\ effects' = [effects EXCEPT ![c] = @ + 1]
      BY <2>8 DEF Happen
    <3>2. open[c] \ {a} \in SUBSET (1..3) /\ effects[c] + 1 \in Nat
      OBVIOUS
    <3> QED BY <2>8, <3>1, <3>2 DEF Happen
  <2>4. CASE PreludeFails(c) \/ EnterLock(c) \/ TakeToken(c) \/ Abandon(c) \/ Recheck(c)
    BY <2>4 DEF PreludeFails, EnterLock, TakeToken, Abandon, Recheck, HandlerReturns, toNodeRED
  <2>5. ASSUME NEW r \in Results, Leave(c, r), effects' = effects,
               open' = open \/ open' = [open EXCEPT ![c] = @ \ {attempt[c]}]
        PROVE  TypeOK'
    <3>1. open' \in [Calls -> SUBSET (1..3)]
      BY <2>5
    <3> QED BY <2>5, <3>1 DEF Leave, HandlerReturns
  <2>9. CASE HandlerRefuses(c) \/ MethodReturns(c)
    BY <2>5, <2>9 DEF HandlerRefuses, MethodReturns, toNodeRED
  <2>6. CASE CallMethod(c) \/ EnterGuard(c)
    <3>1. c \in Writes => attempt[c] \in 1..3
      BY <2>6 DEF AttemptInv, CallMethod, EnterGuard
    <3> QED BY <2>6, <3>1 DEF CallMethod, EnterGuard, StartMethod
  <2>7. CASE PassOn(c) \/ GiveUp(c)
    BY <2>7 DEF PassOn, GiveUp, Answer, toNodeRED
  <2> QED BY <1>1, <2>1, <2>2, <2>3, <2>4, <2>6, <2>7, <2>8, <2>9 DEF Step, Proceed
<1>2. CASE UNCHANGED vars
  BY <1>2 DEF vars
<1> QED BY <1>1, <1>2, NextIsStep

(* Every step takes the token, gives it back, or changes no holder. *)
LEMMA TokenStep ==
  TypeOK /\ TokenIsConserved /\ GuardInv /\ [Next]_vars => TokenIsConserved'
<1> SUFFICES ASSUME TypeOK, TokenIsConserved, GuardInv, [Next]_vars PROVE TokenIsConserved'
  OBVIOUS
<1> USE DEF TokenIsConserved, Holds, InLock
<1>1. ASSUME NEW c \in Calls, Step(c) PROVE TokenIsConserved'
  <2>1. ASSUME NEW d \in Calls \ {c} PROVE pc'[d] = pc[d]
    BY <1>1, <2>1, OthersUnchanged
  <2>2. CASE token' = token /\ (Holds(c) <=> Holds(c)')
    BY <2>1, <2>2
  <2>3. CASE TakeToken(c)
    <3>1. \A d \in Calls : ~Holds(d)
      BY <2>3 DEF TakeToken
    <3>2. token' = FALSE /\ pc'[c] = "granted"
      BY <2>3 DEF TakeToken, TypeOK
    <3>3. c \in Writes
      BY <2>3 DEF TakeToken, GuardInv
    <3> QED BY <2>1, <3>1, <3>2, <3>3
  <2>4. CASE ~token /\ token' = TRUE /\ pc[c] \in InLock /\ c \in Writes /\ pc'[c] = "returned"
    BY <2>1, <2>4
  <2>5. CASE Call(c) \/ Retry(c) \/ HangUp(c) \/ Deadline(c) \/ Happen(c)
    <3>1. token' = token
      BY <2>5 DEF Call, Retry, NewAttempt, HangUp, Deadline, Happen
    <3>2. Holds(c) <=> Holds(c)'
      BY <2>5 DEF Call, Retry, NewAttempt, HangUp, Deadline, Happen, TypeOK, Writes
    <3> QED BY <2>2, <3>1, <3>2
  <2>6. CASE PreludeFails(c) \/ EnterLock(c) \/ Abandon(c)
    <3>1. token' = token /\ pc[c] \in {"entry", "wait"}
      BY <2>6 DEF PreludeFails, EnterLock, Abandon
    <3>2. pc'[c] \in {"wait", "returned"}
      BY <2>6 DEF PreludeFails, EnterLock, Abandon, HandlerReturns, TypeOK
    <3> QED BY <2>2, <3>1, <3>2
  <2>7. CASE Recheck(c)
    <3>1. pc[c] = "granted" /\ c \in Writes
      BY <2>7 DEF Recheck, GuardInv
    <3>2. CASE expired[c]
      <4>1. ~token /\ token' = TRUE /\ pc'[c] = "returned"
        BY <2>7, <3>2 DEF Recheck, HandlerReturns, TypeOK
      <4> QED BY <2>4, <3>1, <4>1
    <3>3. CASE ~expired[c]
      <4>1. token' = token /\ pc'[c] = "handler"
        BY <2>7, <3>3 DEF Recheck, TypeOK
      <4> QED BY <2>2, <3>1, <4>1
    <3> QED BY <3>2, <3>3
  <2>8. CASE HandlerRefuses(c) \/ MethodReturns(c)
    <3>1. pc[c] \in {"handler", "method"} /\ \E r \in Results : Leave(c, r)
      BY <2>8 DEF HandlerRefuses, MethodReturns, Results
    <3>2. /\ pc'[c] = "returned"
          /\ IF c \in Reads THEN token' = token ELSE ~token /\ token' = TRUE
      BY <3>1 DEF Leave, HandlerReturns, TypeOK
    <3> QED BY <2>2, <2>4, <3>1, <3>2 DEF Writes
  <2>9. CASE CallMethod(c) \/ EnterGuard(c)
    BY <2>2, <2>9 DEF CallMethod, EnterGuard, StartMethod, TypeOK
  <2>10. CASE PassOn(c) \/ GiveUp(c)
    BY <2>2, <2>10 DEF PassOn, GiveUp, Answer, TypeOK
  <2> QED
    BY <1>1, <2>3, <2>5, <2>6, <2>7, <2>8, <2>9, <2>10 DEF Step, Proceed
<1>2. CASE UNCHANGED vars
  BY <1>2 DEF vars
<1> QED BY <1>1, <1>2, NextIsStep

LEMMA GuardStep == TypeOK /\ GuardInv /\ [Next]_vars => GuardInv'
<1> SUFFICES ASSUME TypeOK, GuardInv, [Next]_vars PROVE GuardInv'
  OBVIOUS
<1> USE DEF GuardInv, Holds, InLock
<1>1. ASSUME NEW c \in Calls, Step(c) PROVE GuardInv'
  <2>1. ASSUME NEW d \in Calls \ {c} PROVE pc'[d] = pc[d]
    BY <1>1, <2>1, OthersUnchanged
  <2>2. ASSUME writeMu' = writeMu \/ writeMu' = Nobody,
               writeMu' = c => Holds(c)' /\ pc'[c] = "method",
               pc'[c] \in {"entry", "wait", "granted", "guard"} => c \in Writes
        PROVE  GuardInv'
    BY <2>1, <2>2, CallsAssumption
  <2>3. CASE Call(c) \/ Retry(c)
    <3>1. writeMu' = writeMu /\ pc[c] \in {"idle", "returned"}
      BY <2>3 DEF Call, Retry, NewAttempt
    <3>2. pc'[c] = (IF c \in Reads THEN "handler" ELSE "entry")
      BY <2>3 DEF Call, Retry, NewAttempt, TypeOK
    <3> QED BY <2>2, <3>1, <3>2 DEF Writes
  <2>4. CASE HangUp(c) \/ Deadline(c) \/ Happen(c)
    BY <2>2, <2>4 DEF HangUp, Deadline, Happen
  <2>5. CASE PreludeFails(c) \/ EnterLock(c) \/ TakeToken(c) \/ Abandon(c) \/ Recheck(c)
    <3>1. writeMu' = writeMu /\ pc[c] \in {"entry", "wait", "granted"}
      BY <2>5 DEF PreludeFails, EnterLock, TakeToken, Abandon, Recheck
    <3> QED BY <2>2, <3>1
  <2>6. CASE HandlerRefuses(c) \/ MethodReturns(c)
    <3>1. \E r \in Results : Leave(c, r)
      BY <2>6 DEF HandlerRefuses, MethodReturns, Results
    <3>2. pc'[c] = "returned" /\ writeMu' = IF writeMu = c THEN Nobody ELSE writeMu
      BY <3>1 DEF Leave, HandlerReturns, TypeOK
    <3> QED BY <2>2, <3>2, CallsAssumption
  <2>7. CASE CallMethod(c)
    <3>1. writeMu' = writeMu /\ pc[c] = "handler"
      BY <2>7 DEF CallMethod
    <3>2. pc'[c] \in {"guard", "method"} /\ (pc'[c] = "guard" => c \in Guarded)
      BY <2>7 DEF CallMethod, StartMethod, TypeOK
    <3> QED BY <2>2, <3>1, <3>2, CallsAssumption DEF Writes
  <2>8. CASE EnterGuard(c)
    <3>1. writeMu = Nobody /\ writeMu' = c /\ pc'[c] = "method" /\ c \in Writes
      BY <2>8 DEF EnterGuard, StartMethod, TypeOK
    <3> QED BY <2>1, <3>1
  <2>9. CASE PassOn(c) \/ GiveUp(c)
    <3>1. writeMu' = writeMu /\ pc[c] = "returned" /\ pc'[c] = "done"
      BY <2>9 DEF PassOn, GiveUp, Answer, TypeOK
    <3> QED BY <2>2, <3>1
  <2> QED
    BY <1>1, <2>3, <2>4, <2>5, <2>6, <2>7, <2>8, <2>9 DEF Step, Proceed
<1>2. CASE UNCHANGED vars
  BY <1>2 DEF vars
<1> QED BY <1>1, <1>2, NextIsStep

(* A write begins at most one attempt: GiveUp, not Retry, follows its
   transport error. *)
LEMMA AttemptStep == TypeOK /\ AttemptInv /\ [Next]_vars => AttemptInv'
<1> SUFFICES ASSUME TypeOK, AttemptInv, [Next]_vars PROVE AttemptInv'
  OBVIOUS
<1>1. ASSUME NEW c \in Calls, Step(c) PROVE AttemptInv'
  <2>1. ASSUME NEW d \in Calls \ {c} PROVE pc'[d] = pc[d] /\ attempt'[d] = attempt[d]
    BY <1>1, <2>1, OthersUnchanged
  <2>2. ASSUME attempt' = attempt, pc[c] # "idle", pc'[c] # "idle" PROVE AttemptInv'
    BY <2>1, <2>2 DEF AttemptInv
  <2>3. CASE Call(c)
    <3>1. attempt'[c] = 1 /\ pc'[c] # "idle"
      BY <2>3 DEF Call, NewAttempt, AttemptInv, TypeOK
    <3> QED BY <2>1, <3>1 DEF AttemptInv
  <2>4. CASE Retry(c)
    <3>1. c \in Reads /\ pc'[c] # "idle"
      BY <2>4 DEF Retry, NewAttempt, AttemptInv, Attempts, Writes, TypeOK
    <3> QED BY <2>1, <3>1 DEF AttemptInv, Writes
  <2>5. CASE HangUp(c) \/ Deadline(c)
    BY <2>2, <2>5 DEF HangUp, Deadline, Running, InLock
  <2>6. CASE Happen(c)
    BY <2>6 DEF Happen, AttemptInv
  <2>7. CASE PreludeFails(c) \/ EnterLock(c) \/ TakeToken(c) \/ Abandon(c) \/ Recheck(c)
    BY <2>2, <2>7 DEF PreludeFails, EnterLock, TakeToken, Abandon, Recheck, HandlerReturns, TypeOK
  <2>8. CASE HandlerRefuses(c) \/ MethodReturns(c)
    <3>1. pc[c] # "idle" /\ \E r \in Results : Leave(c, r)
      BY <2>8 DEF HandlerRefuses, MethodReturns, Results
    <3> QED BY <2>2, <3>1 DEF Leave, HandlerReturns, TypeOK
  <2>9. CASE CallMethod(c) \/ EnterGuard(c)
    BY <2>2, <2>9 DEF CallMethod, EnterGuard, StartMethod, TypeOK
  <2>10. CASE PassOn(c) \/ GiveUp(c)
    BY <2>2, <2>10 DEF PassOn, GiveUp, Answer, TypeOK
  <2> QED
    BY <1>1, <2>3, <2>4, <2>5, <2>6, <2>7, <2>8, <2>9, <2>10 DEF Step, Proceed
<1>2. CASE UNCHANGED vars
  BY <1>2 DEF vars, AttemptInv
<1> QED BY <1>1, <1>2, NextIsStep

(* What the proofs below need to know of a step: where the call was, what it
   did to Node-RED, and what its handler returned. *)
LEMMA WriteSteps ==
  ASSUME TypeOK, AttemptInv, NEW c \in Writes, Step(c)
  PROVE  \/ /\ pc[c] = "idle" /\ pc'[c] = "entry"
            /\ open' = open /\ effects' = effects /\ answer' = answer
         \/ /\ HangUp(c) \/ Deadline(c)
            /\ pc' = pc /\ open' = open /\ effects' = effects /\ result' = result /\ answer' = answer
         \/ Happen(c)
         \/ /\ pc[c] \in {"entry", "wait", "granted", "handler"}
            /\ \/ pc'[c] \in {"wait", "granted", "handler", "guard"}
               \/ pc'[c] = "returned" /\ result'[c] \in {"error", "notstarted"}
            /\ open' = open /\ effects' = effects /\ answer' = answer
         \/ /\ pc[c] \in {"handler", "guard"} /\ pc'[c] = "method"
            /\ open'[c] = open[c] \cup {attempt[c]} /\ attempt'[c] = attempt[c]
            /\ effects' = effects /\ answer' = answer
         \/ MethodReturns(c)
         \/ PassOn(c) \/ GiveUp(c)
<1> USE DEF TypeOK, Writes
<1>1. CASE Call(c)
  BY <1>1 DEF Call, NewAttempt, toNodeRED
<1>2. CASE HangUp(c) \/ Deadline(c)
  BY <1>2 DEF HangUp, Deadline, toNodeRED
<1>3. CASE PreludeFails(c) \/ EnterLock(c) \/ TakeToken(c) \/ Abandon(c) \/ Recheck(c)
  BY <1>3 DEF PreludeFails, EnterLock, TakeToken, Abandon, Recheck, HandlerReturns, toNodeRED
<1>4. CASE HandlerRefuses(c)
  BY <1>4 DEF HandlerRefuses, Leave, HandlerReturns, toNodeRED
<1>5. CASE CallMethod(c) \/ EnterGuard(c)
  BY <1>5 DEF CallMethod, EnterGuard, StartMethod
<1>6. CASE Retry(c)
  BY <1>6 DEF Retry, Attempts, AttemptInv
<1> QED
  BY <1>1, <1>2, <1>3, <1>4, <1>5, <1>6 DEF Step, Proceed

(* The three ways a method of a write returns. *)
LEMMA MethodResults ==
  ASSUME TypeOK, NEW c \in Writes, MethodReturns(c)
  PROVE  /\ pc[c] = "method" /\ pc'[c] = "returned"
         /\ effects' = effects /\ answer' = answer /\ attempt' = attempt
         /\ \/ result'[c] = "ok" /\ attempt[c] \notin open[c] /\ open' = open
            \/ /\ result'[c] = "error" /\ attempt[c] \in open[c]
               /\ open' = [open EXCEPT ![c] = @ \ {attempt[c]}]
            \/ result'[c] = "transport" /\ open' = open
  BY DEF TypeOK, Writes, MethodReturns, Leave, HandlerReturns

LEMMA OpenStep ==
  TypeOK /\ AttemptInv /\ EffectInv /\ OpenInv /\ ResultInv /\ [Next]_vars => OpenInv' /\ EffectInv'
<1> SUFFICES ASSUME TypeOK, AttemptInv, EffectInv, OpenInv, ResultInv, [Next]_vars
             PROVE  OpenInv' /\ EffectInv'
  OBVIOUS
<1>0. AttemptInv' /\ TypeOK'
  BY AttemptStep, TypeStep
<1> DEFINE Local(c) ==
      /\ open[c] \subseteq {attempt[c]}
      /\ open[c] # {} => \/ pc[c] = "method"
                         \/ pc[c] = "returned" /\ result[c] = "transport"
                         \/ pc[c] = "done" /\ answer[c] = "transport"
      /\ effects[c] + (IF open[c] = {} THEN 0 ELSE 1) <= 1
      /\ pc[c] \in {"idle", "entry", "wait", "granted", "handler", "guard"}
           => effects[c] = 0 /\ open[c] = {}
      /\ pc[c] = "method" /\ open[c] = {} => effects[c] = 1
<1>1. (\A c \in Writes : Local(c)) /\ ((\A c \in Writes : Local(c)') => OpenInv' /\ EffectInv')
  BY DEF OpenInv, EffectInv
<1>2. ASSUME NEW c \in Calls, Step(c) PROVE \A d \in Writes : Local(d)'
  <2>1. ASSUME NEW d \in Writes, d # c PROVE Local(d)'
    BY <1>1, <1>2, <2>1, OthersUnchanged DEF Writes
  <2>2. ASSUME c \in Writes PROVE Local(c)'
    <3>1. Local(c) /\ effects[c] \in Nat /\ attempt[c] \in 0..3
      BY <1>1, <2>2 DEF TypeOK, maxRetries
    <3>2. CASE Happen(c)
      <4>1. /\ open'[c] = {} /\ open[c] # {} /\ effects'[c] = effects[c] + 1 /\ effects[c] = 0
        BY <3>1, <3>2 DEF Happen, TypeOK
      <4>2. pc' = pc
        BY <3>2 DEF Happen
      <4> QED BY <3>1, <4>1, <4>2
    <3>3. CASE MethodReturns(c)
      <4>1. /\ pc[c] = "method" /\ pc'[c] = "returned"
            /\ effects' = effects /\ attempt' = attempt
            /\ \/ attempt[c] \notin open[c] /\ open'[c] = open[c]
               \/ attempt[c] \in open[c] /\ open'[c] = open[c] \ {attempt[c]}
               \/ result'[c] = "transport" /\ open'[c] = open[c]
        BY <2>2, <3>3, MethodResults DEF TypeOK
      <4> QED BY <3>1, <4>1
    <3>4. CASE PassOn(c)
      <4>1. /\ pc[c] = "returned" /\ result[c] # "transport" /\ pc'[c] = "done"
            /\ open' = open /\ effects' = effects /\ attempt' = attempt
        BY <3>4 DEF PassOn, Answer, TypeOK, toNodeRED
      <4> QED BY <3>1, <4>1
    <3>5. CASE GiveUp(c)
      <4>1. /\ pc'[c] = "done" /\ answer'[c] = "transport"
            /\ open' = open /\ effects' = effects /\ attempt' = attempt
        BY <3>5 DEF GiveUp, Answer, TypeOK, toNodeRED
      <4> QED BY <3>1, <4>1
    <3>6. CASE HangUp(c) \/ Deadline(c)
      <4>1. pc' = pc /\ open' = open /\ effects' = effects /\ result' = result /\ answer' = answer
            /\ attempt' = attempt
        BY <3>6 DEF HangUp, Deadline, toNodeRED
      <4> QED BY <3>1, <4>1
    <3>7. CASE /\ pc[c] \in {"idle", "entry", "wait", "granted", "handler"}
               /\ pc'[c] \in {"entry", "wait", "granted", "handler", "guard", "returned"}
               /\ open' = open /\ effects' = effects
      <4>1. open[c] = {} /\ effects[c] = 0 /\ open'[c] = {} /\ effects'[c] = 0
        BY <3>1, <3>7
      <4> QED BY <3>7, <4>1
    <3>8. CASE /\ pc[c] \in {"handler", "guard"} /\ pc'[c] = "method"
               /\ open'[c] = open[c] \cup {attempt[c]} /\ attempt'[c] = attempt[c]
               /\ effects' = effects
      <4>1. open'[c] = {attempt[c]} /\ effects'[c] = 0
        BY <3>1, <3>8
      <4> QED BY <3>8, <4>1
    <3> QED
      BY <1>2, <2>2, <3>2, <3>3, <3>4, <3>5, <3>6, <3>7, <3>8, WriteSteps
  <2> QED BY <2>1, <2>2
<1>3. CASE UNCHANGED vars
  BY <1>1, <1>3 DEF vars
<1> QED BY <1>1, <1>2, <1>3, NextIsStep

LEMMA ResultStep ==
  TypeOK /\ AttemptInv /\ EffectInv /\ OpenInv /\ ResultInv /\ [Next]_vars => ResultInv'
<1> SUFFICES ASSUME TypeOK, AttemptInv, EffectInv, OpenInv, ResultInv, [Next]_vars
             PROVE  ResultInv'
  OBVIOUS
<1> DEFINE Local(c) ==
      /\ answer[c] # "none" <=> pc[c] = "done"
      /\ pc[c] = "returned" => result[c] # "none"
      /\ pc[c] = "returned" /\ result[c] = "ok" => effects[c] = 1
      /\ pc[c] = "returned" /\ result[c] \in {"error", "notstarted"} => effects[c] = 0
      /\ answer[c] = "ok" => effects[c] = 1
      /\ answer[c] \in {"error", "notstarted"} => effects[c] = 0
<1>1. (\A c \in Writes : Local(c)) /\ ((\A c \in Writes : Local(c)') => ResultInv')
  BY DEF ResultInv
<1>2. ASSUME NEW c \in Calls, Step(c) PROVE \A d \in Writes : Local(d)'
  <2>1. ASSUME NEW d \in Writes, d # c PROVE Local(d)'
    BY <1>1, <1>2, <2>1, OthersUnchanged DEF Writes
  <2>2. ASSUME c \in Writes PROVE Local(c)'
    <3>1. /\ Local(c) /\ effects[c] \in Nat /\ open[c] \subseteq {attempt[c]}
          /\ open[c] # {} => \/ pc[c] = "method"
                             \/ pc[c] = "returned" /\ result[c] = "transport"
                             \/ pc[c] = "done" /\ answer[c] = "transport"
          /\ effects[c] + (IF open[c] = {} THEN 0 ELSE 1) <= 1
          /\ pc[c] \in {"idle", "entry", "wait", "granted", "handler", "guard"} => effects[c] = 0
          /\ pc[c] = "method" /\ open[c] = {} => effects[c] = 1
      BY <1>1, <2>2 DEF TypeOK, OpenInv, EffectInv
    <3>2. CASE Happen(c)
      <4>1. /\ open[c] # {} /\ effects[c] = 0
            /\ pc' = pc /\ result' = result /\ answer' = answer
        BY <3>1, <3>2 DEF Happen
      <4> QED BY <3>1, <4>1
    <3>3. CASE MethodReturns(c)
      <4>1. /\ pc[c] = "method" /\ pc'[c] = "returned" /\ effects' = effects /\ answer' = answer
            /\ \/ result'[c] = "ok" /\ attempt[c] \notin open[c]
               \/ result'[c] = "error" /\ attempt[c] \in open[c]
               \/ result'[c] = "transport"
        BY <2>2, <3>3, MethodResults
      <4> QED BY <3>1, <4>1
    <3>4. CASE PassOn(c)
      <4>1. /\ pc[c] = "returned" /\ result[c] # "transport" /\ pc'[c] = "done"
            /\ answer'[c] = result[c] /\ effects' = effects
        BY <3>4 DEF PassOn, Answer, TypeOK, toNodeRED
      <4> QED BY <3>1, <4>1
    <3>5. CASE GiveUp(c)
      <4>1. pc'[c] = "done" /\ answer'[c] = "transport"
        BY <3>5 DEF GiveUp, Answer, TypeOK
      <4> QED BY <4>1
    <3>6. CASE HangUp(c) \/ Deadline(c)
      <4>1. pc' = pc /\ effects' = effects /\ result' = result /\ answer' = answer
        BY <3>6 DEF HangUp, Deadline, toNodeRED
      <4> QED BY <3>1, <4>1
    <3>7. CASE /\ pc[c] \in {"idle", "entry", "wait", "granted", "handler", "guard"}
               /\ \/ pc'[c] \in {"entry", "wait", "granted", "handler", "guard", "method"}
                  \/ pc'[c] = "returned" /\ result'[c] \in {"error", "notstarted"}
               /\ effects' = effects /\ answer' = answer
      <4>1. answer'[c] = "none" /\ effects'[c] = 0
        BY <3>1, <3>7
      <4> QED BY <3>7, <4>1
    <3> QED
      BY <1>2, <2>2, <3>2, <3>3, <3>4, <3>5, <3>6, <3>7, WriteSteps
  <2> QED BY <2>1, <2>2
<1>3. CASE UNCHANGED vars
  BY <1>1, <1>3 DEF vars
<1> QED BY <1>1, <1>2, <1>3, NextIsStep

LEMMA InvInit == Init => IInv
<1> SUFFICES ASSUME Init PROVE IInv
  OBVIOUS
<1> USE DEF Init
<1>1. TokenIsConserved /\ GuardInv
  BY CallsAssumption DEF TokenIsConserved, GuardInv, Holds, InLock
<1>2. OpenInv /\ AttemptInv /\ EffectInv /\ ResultInv
  BY DEF OpenInv, AttemptInv, EffectInv, ResultInv, Writes
<1> QED BY <1>1, <1>2, TypeInit DEF IInv

LEMMA InvStep == IInv /\ [Next]_vars => IInv'
  BY TypeStep, TokenStep, GuardStep, AttemptStep, OpenStep, ResultStep DEF IInv

(* The inductive invariant of the tool layer. *)
THEOREM Inductive == Spec => []IInv
  BY InvInit, InvStep, PTL DEF Spec

(* Neither a cancellation nor a deadline loses or duplicates the token of
   helperMutex, and no two write tools run at once. *)
THEOREM TokenConserved == Spec => []TokenIsConserved
  BY Inductive, PTL DEF IInv

(* No call that holds ctxHelperMu finds writeMu taken. *)
THEOREM WriteMuUncontended == Spec => []WriteMuIsFree
<1>1. IInv => WriteMuIsFree
  BY DEF IInv, TypeOK, GuardInv, TokenIsConserved, WriteMuIsFree, Holds, InLock
<1> QED BY <1>1, Inductive, PTL

(* "no action was started" is said only of calls that do and will do
   nothing. *)
THEOREM NotStartedTrue == Spec => []NotStartedIsTrue
<1>1. IInv => NotStartedIsTrue
  BY DEF IInv, OpenInv, ResultInv, NotStartedIsTrue
<1> QED BY <1>1, Inductive, PTL

(* The one attempt of a write acts at most once. *)
THEOREM WritesAtMostOnce == Spec => []WritesActAtMostOnce
<1>1. ASSUME IInv, NEW c \in Writes PROVE effects[c] <= 1
  <2>1. effects[c] \in Nat /\ effects[c] + (IF open[c] = {} THEN 0 ELSE 1) <= 1
    BY <1>1 DEF IInv, TypeOK, EffectInv, Writes
  <2> QED BY <2>1
<1>2. IInv => WritesActAtMostOnce
  BY <1>1 DEF WritesActAtMostOnce
<1> QED BY <1>2, Inductive, PTL

(* One step of the tool layer is one step of the promise: Happen is the
   effect, the wrapper's answer is the answer, the rest is invisible. *)
LEMMA PromiseStep ==
  ASSUME IInv, IInv', [Next]_vars
  PROVE  [Promise!Next]_(Promise!vars)
<1> DEFINE effect == [c \in Writes |-> IF effects[c] = 0 THEN "none" ELSE "done"]
           told == [c \in Writes |-> IF answer[c] = "notstarted" THEN "error" ELSE answer[c]]
<1>0. effects \in [Calls -> Nat] /\ answer \in [Calls -> Results \cup {"none"}] /\ Writes \subseteq Calls
  BY DEF IInv, TypeOK, Writes
<1>1. ASSUME \A c \in Writes : effects'[c] = effects[c] /\ answer'[c] = answer[c]
      PROVE  UNCHANGED Promise!vars
  <2>1. effect' = effect /\ told' = told
    BY <1>1
  <2> QED BY <2>1 DEF Promise!vars
<1>2. ASSUME NEW c \in Calls, Step(c) PROVE [Promise!Next]_(Promise!vars)
  <2>1. \A d \in Calls \ {c} : effects'[d] = effects[d] /\ answer'[d] = answer[d]
    BY <1>2, OthersUnchanged DEF IInv
  <2>2. CASE c \in Reads
    BY <1>1, <2>1, <2>2 DEF Writes
  <2>3. CASE c \in Writes /\ Happen(c)
    <3>1. effects[c] = 0 /\ effects'[c] = 1 /\ answer' = answer
      BY <1>0, <2>3 DEF Happen, IInv, EffectInv
    <3>2. answer[c] \in {"none", "transport"}
      BY <2>3 DEF Happen, IInv, OpenInv, ResultInv
    <3>3. effect[c] = "none" /\ told[c] \in {"none", "transport"}
      BY <2>3, <3>1, <3>2
    <3>4. effect' = [effect EXCEPT ![c] = "done"] /\ told' = told
      <4>1. \A d \in Writes : effect'[d] = IF d = c THEN "done" ELSE effect[d]
        BY <1>0, <2>1, <3>1
      <4>2. effect' = [effect EXCEPT ![c] = "done"]
        BY <4>1
      <4>3. told' = told
        BY <3>1
      <4> QED BY <4>2, <4>3
    <3>5. Promise!Happen(c)
      BY <3>3, <3>4 DEF Promise!Happen
    <3> QED BY <2>3, <3>5 DEF Promise!Next
  <2>4. CASE c \in Writes /\ (PassOn(c) \/ GiveUp(c))
    <3>1. /\ pc[c] = "returned" /\ pc'[c] = "done" /\ effects' = effects
          /\ answer'[c] = result[c] \/ answer'[c] = "transport"
      BY <2>4 DEF PassOn, GiveUp, Answer, toNodeRED, IInv, TypeOK
    <3>2. answer[c] = "none" /\ answer'[c] \in Results
      BY <2>4, <3>1 DEF IInv, TypeOK, ResultInv, Results, Writes
    <3> DEFINE r == IF answer'[c] = "notstarted" THEN "error" ELSE answer'[c]
    <3>3. r \in {"ok", "error", "transport"}
      BY <3>2 DEF Results
    <3>4. (r = "ok" => effects'[c] = 1) /\ (r = "error" => effects'[c] = 0)
      BY <2>4, <3>2 DEF IInv, ResultInv, Results
    <3>5. told' = [told EXCEPT ![c] = r] /\ effect' = effect /\ told[c] = "none"
      BY <2>1, <2>4, <3>1, <3>2 DEF Writes
    <3>6. (r = "ok" => effect[c] = "done") /\ (r = "error" => effect[c] = "none")
      BY <2>4, <3>1, <3>4
    <3>7. Promise!Answer(c, r)
      BY <3>5, <3>6 DEF Promise!Answer
    <3> HIDE DEF r
    <3>8. \E x \in {"ok", "error", "transport"} : Promise!Answer(c, x)
      BY <3>3, <3>7 DEF Promise!Answer
    <3> QED BY <2>4, <3>8 DEF Promise!Next
  <2>5. CASE c \in Writes /\ ~Happen(c) /\ ~PassOn(c) /\ ~GiveUp(c)
    <3>1. effects' = effects /\ answer' = answer
      BY <1>2, <2>5, WriteSteps, MethodResults DEF IInv
    <3> QED BY <1>1, <3>1
  <2> QED BY <2>2, <2>3, <2>4, <2>5 DEF Writes
<1>3. CASE UNCHANGED vars
  BY <1>1, <1>3 DEF vars
<1> QED BY <1>2, <1>3, NextIsStep

(* The tools pass the promise of the client on to the MCP client. *)
THEOREM ToolsKeepPromise == Spec => KeepsPromise
<1>1. Init => Promise!Init
  BY DEF Init, Promise!Init, Writes
<1>2. IInv /\ IInv' /\ [Next]_vars => [Promise!Next]_(Promise!vars)
  BY PromiseStep
<1> QED BY <1>1, <1>2, Inductive, PTL DEF Spec, KeepsPromise, Promise!Spec
=============================================================================
