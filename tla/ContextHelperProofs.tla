------------------------ MODULE ContextHelperProofs ------------------------
(***************************************************************************)
(* Proofs, for any number of calls and editors, of the invariants of       *)
(* ContextHelper and of its refinement of WritePromise.                    *)
(***************************************************************************)
EXTENDS ContextHelper, TLAPS

LEMMA EditsAreConfigs ==
  ASSUME NEW cfg \in Config, NEW d \in Edits(cfg)
  PROVE  d \in Config
  BY DEF Edits, Config, Shapes, Ids

LEMMA OutcomesAreConfigs ==
  ASSUME TypeOK, NEW c \in Calls, NEW cfg \in Outcomes(c)
  PROVE  cfg \in Config
<1>1. CASE c \in Sets
  <2>1. cfg = [node EXCEPT ![target[c]] = "helper"]
    <3>1. Outcomes(c) = IF node[target[c]] = "absent"
                        THEN { [node EXCEPT ![target[c]] = "helper"] } ELSE {}
      BY <1>1, CallsAssumption DEF Outcomes
    <3> QED BY <3>1
  <2>2. node \in [Ids -> Shapes] /\ "helper" \in Shapes
    BY DEF TypeOK, Config, Shapes
  <2> QED BY <2>1, <2>2 DEF Config
<1>2. CASE c \in Restores
  BY <1>2, CallsAssumption DEF Outcomes, TypeOK
<1>3. CASE c \in Writes
  <2>1. cfg \in Edits(node)
    BY <1>3, CallsAssumption DEF Outcomes
  <2> QED BY <2>1, EditsAreConfigs DEF TypeOK
<1> QED BY <1>1, <1>2, <1>3 DEF Calls

(* The steps that change what Node-RED runs, and the others. *)
LEMMA RuntimeSteps ==
  ASSUME [Next]_vars
  PROVE  \/ UNCHANGED runtime
         \/ \E c \in Calls : Serve(c)
         \/ \E e \in Editors : EditorDeploys(e)
<1> USE DEF runtime
<1>1. ASSUME NEW c \in Calls, Handler(c) PROVE UNCHANGED runtime
  BY <1>1 DEF Handler, Begin, Lock, NotStarted, Refuse, Timeout, Discover, PostTab, TabAnswered,
       PostInject, InjectAnswered, PostWrite, WriteAnswered, Return
<1>2. ASSUME NEW c \in Calls, Reject(c) PROVE UNCHANGED runtime
  BY <1>2 DEF Reject
<1>3. ASSUME NEW c \in Sets, Fire(c) \/ Miss(c) \/ RefuseInject(c) PROVE UNCHANGED runtime
  BY <1>3 DEF Fire, Miss, RefuseInject
<1>4. CASE Crash \/ UNCHANGED vars
  BY <1>4 DEF Crash, vars
<1> QED BY <1>1, <1>2, <1>3, <1>4 DEF Next

LEMMA TypeInit == Init => TypeOK
<1> SUFFICES ASSUME Init PROVE TypeOK
  OBVIOUS
<1>1. node \in Config
  BY DEF Init, Config, Shapes
<1>2. Canonical \in Ids
  BY DEF Ids
<1>3. past \subseteq Config /\ want \in [Restores -> Config]
  BY <1>1 DEF Init
<1>4. got \in [Sets -> Seq([by : Shapes, late : BOOLEAN])]
  BY DEF Init
<1>5. /\ pc \in [Calls -> PCs]
      /\ target \in [Sets -> Ids]
      /\ tries \in [Sets -> 0..2]
  BY <1>2 DEF Init, PCs
<1> QED BY <1>1, <1>3, <1>4, <1>5 DEF Init, TypeOK

LEMMA TypeStep == TypeOK /\ StepInv /\ [Next]_vars => TypeOK'
<1> SUFFICES ASSUME TypeOK, StepInv, [Next]_vars PROVE TypeOK'
  OBVIOUS
<1> USE DEF TypeOK, PCs, Holding, call, runtime
<1>1. ASSUME NEW c \in Calls, Begin(c) PROVE TypeOK'
  BY <1>1 DEF Begin
<1>2. ASSUME NEW c \in Calls, Lock(c) \/ NotStarted(c) PROVE TypeOK'
  BY <1>2 DEF Lock, NotStarted
<1>3. ASSUME NEW c \in Calls, NEW r \in {"ok", "error", "transport"}, Return(c, r),
             ctxHelper' = ctxHelper \/ ctxHelper' = None
      PROVE  TypeOK'
  BY <1>3 DEF Return
<1>4. ASSUME NEW c \in Calls, Refuse(c) \/ Timeout(c) \/ WriteAnswered(c) PROVE TypeOK'
  BY <1>3, <1>4 DEF Refuse, Timeout, WriteAnswered
<1>5. ASSUME NEW c \in Calls, Discover(c) PROVE TypeOK'
  <2>1. c \in Sets /\ NewIds(c, node) \in Ids /\ Helpers(node) \subseteq Ids
    BY <1>5 DEF Discover, NewIds, Ids, Helpers
  <2>2. /\ target' \in [Sets -> Ids]
        /\ ctxHelper' \in Ids \cup {None}
        /\ pc' \in [Calls -> PCs]
    BY <1>5, <2>1 DEF Discover
  <2> QED BY <1>5, <2>2 DEF Discover
<1>6. ASSUME NEW c \in Calls, PostTab(c) \/ PostWrite(c) PROVE TypeOK'
  BY <1>6 DEF PostTab, PostWrite
<1>7. ASSUME NEW c \in Calls, TabAnswered(c) PROVE TypeOK'
  <2>1. c \in Sets
    BY <1>7 DEF TabAnswered, StepInv, SetStep, OtherStep, Window
  <2>2. CASE Return(c, "error") /\ UNCHANGED ctxHelper
    BY <1>3, <2>2
  <2>3. CASE ~(Return(c, "error") /\ UNCHANGED ctxHelper)
    <3>1. /\ ctxHelper' = target[c]
          /\ pc' = [pc EXCEPT ![c] = "inject"]
          /\ UNCHANGED <<target, tries, want, outcome, mu, req, shot, got, runtime, acted, crashed>>
      BY <1>7, <2>3 DEF TabAnswered
    <3>2. target[c] \in Ids
      BY <2>1
    <3> QED BY <3>1, <3>2
  <2> QED BY <2>2, <2>3
<1>8. ASSUME NEW c \in Calls, PostInject(c) PROVE TypeOK'
  <2>1. c \in Sets /\ tries[c] \in 0..2 /\ tries[c] <= 1
    BY <1>8 DEF PostInject, StepInv, SetStep, OtherStep, Window
  <2>2. tries[c] + 1 \in 0..2
    BY <2>1
  <2> QED BY <1>8, <2>1, <2>2 DEF PostInject
<1>9. ASSUME NEW c \in Calls, InjectAnswered(c) PROVE TypeOK'
  <2>1. ASSUME Return(c, "ok") \/ Return(c, "error") PROVE TypeOK'
    BY <1>3, <1>9, <2>1 DEF InjectAnswered
  <2>2. ASSUME pc' = [pc EXCEPT ![c] = "inject"],
               UNCHANGED <<target, tries, want, outcome, mu, req, shot, got, runtime, acted, crashed>>
        PROVE  TypeOK'
    BY <1>9, <2>2 DEF InjectAnswered
  <2> QED BY <1>9, <2>1, <2>2 DEF InjectAnswered
<1>10. ASSUME NEW c \in Calls, Serve(c) PROVE TypeOK'
  <2>1. PICK cfg \in Outcomes(c) : Run(cfg) /\ touched' \in {touched, touched \cup Surprised(cfg)}
    BY <1>10 DEF Serve
  <2>2. cfg \in Config
    BY OutcomesAreConfigs
  <2>3. node' \in Config /\ past' \subseteq Config /\ touched' \subseteq Sets
    BY <2>1, <2>2 DEF Run, Surprised
  <2> QED BY <1>10, <2>3 DEF Serve
<1>11. ASSUME NEW c \in Calls, Reject(c) PROVE TypeOK'
  BY <1>11 DEF Reject
<1>12. ASSUME NEW c \in Sets, Fire(c) PROVE TypeOK'
  <2> DEFINE d == [by |-> node[target[c]], late |-> pc[c] # "injecting"]
  <2>1. d \in [by : Shapes, late : BOOLEAN]
    BY DEF Config
  <2>2. got[c] \in Seq([by : Shapes, late : BOOLEAN])
    OBVIOUS
  <2> HIDE DEF d
  <2>3. Append(got[c], d) \in Seq([by : Shapes, late : BOOLEAN])
    BY <2>1, <2>2
  <2>4. got' = [got EXCEPT ![c] = Append(got[c], d)]
    BY <1>12 DEF Fire, d
  <2>5. got' \in [Sets -> Seq([by : Shapes, late : BOOLEAN])]
    BY <2>3, <2>4
  <2> QED BY <1>12, <2>5 DEF Fire
<1>13. ASSUME NEW c \in Sets, Miss(c) \/ RefuseInject(c) PROVE TypeOK'
  BY <1>13 DEF Miss, RefuseInject
<1>14. ASSUME NEW e \in Editors, EditorDeploys(e) PROVE TypeOK'
  <2>1. PICK cfg \in Edits(node) : Run(cfg) /\ touched' = touched \cup Surprised(cfg)
    BY <1>14 DEF EditorDeploys
  <2>2. node' \in Config /\ past' \subseteq Config /\ touched' \subseteq Sets
    BY <2>1, EditsAreConfigs DEF Run, Surprised
  <2> QED BY <1>14, <2>2 DEF EditorDeploys
<1>15. CASE Crash
  BY <1>15 DEF Crash
<1>16. CASE UNCHANGED vars
  BY <1>16 DEF vars
<1> QED
  BY <1>1, <1>2, <1>4, <1>5, <1>6, <1>7, <1>8, <1>9, <1>10, <1>11, <1>12, <1>13, <1>14,
     <1>15, <1>16 DEF Next, Handler

(* ctxHelperMu admits one call at a time to everything between Lock and
   Return. *)
LEMMA MutexStep == TypeOK /\ MutexInv /\ StepInv /\ [Next]_vars => MutexInv'
<1> SUFFICES ASSUME TypeOK, MutexInv, StepInv, [Next]_vars PROVE MutexInv'
  OBVIOUS
<1> USE DEF MutexInv, Holding
<1>0. pc \in [Calls -> PCs]
  BY DEF TypeOK
<1>1. ASSUME NEW c \in Calls, mu' = mu, pc' = [pc EXCEPT ![c] = pc'[c]],
             pc[c] \in Holding <=> pc'[c] \in Holding
      PROVE  MutexInv'
  BY <1>0, <1>1
<1>2. ASSUME NEW c \in Calls, NEW r, pc[c] \in Holding, Return(c, r) PROVE MutexInv'
  BY <1>0, <1>2, CallsAssumption DEF Return
<1>3. ASSUME NEW c \in Calls, Handler(c) PROVE MutexInv'
  <2>1. CASE Lock(c)
    BY <1>0, <2>1, CallsAssumption DEF Lock
  <2>2. CASE Begin(c) \/ NotStarted(c) \/ PostTab(c) \/ PostInject(c) \/ PostWrite(c) \/ Discover(c)
    <3>1. mu' = mu /\ pc' = [pc EXCEPT ![c] = pc'[c]] /\ (pc[c] \in Holding <=> pc'[c] \in Holding)
      BY <1>0, <2>2 DEF Begin, NotStarted, PostTab, PostInject, PostWrite, Discover
    <3> QED BY <1>1, <3>1
  <2>3. CASE Refuse(c) \/ Timeout(c) \/ WriteAnswered(c)
    BY <1>2, <2>3 DEF Refuse, Timeout, WriteAnswered
  <2>4. CASE TabAnswered(c)
    BY <1>0, <1>1, <1>2, <2>4 DEF TabAnswered
  <2>5. CASE InjectAnswered(c)
    <3>1. pc[c] = "injecting"
      BY <2>5 DEF InjectAnswered
    <3>2. CASE \E r \in {"ok", "error"} : Return(c, r)
      BY <1>2, <3>1, <3>2
    <3>3. CASE ~\E r \in {"ok", "error"} : Return(c, r)
      <4>1. mu' = mu /\ pc' = [pc EXCEPT ![c] = "inject"]
        BY <2>5, <3>3 DEF InjectAnswered
      <4> QED BY <1>0, <1>1, <3>1, <4>1
    <3> QED BY <3>2, <3>3
  <2> QED BY <1>3, <2>1, <2>2, <2>3, <2>4, <2>5 DEF Handler
<1>4. CASE Crash
  BY <1>0, <1>4, CallsAssumption DEF Crash
<1>5. CASE UNCHANGED <<pc, mu>>
  BY <1>5
<1>6. ASSUME NEW c \in Calls, Serve(c) \/ Reject(c) PROVE UNCHANGED <<pc, mu>>
  BY <1>6 DEF Serve, Reject, call
<1>7. ASSUME NEW c \in Sets, Fire(c) \/ Miss(c) \/ RefuseInject(c) PROVE UNCHANGED <<pc, mu>>
  BY <1>7 DEF Fire, Miss, RefuseInject, call
<1>8. ASSUME NEW e \in Editors, EditorDeploys(e) PROVE UNCHANGED <<pc, mu>>
  BY <1>8 DEF EditorDeploys, call
<1>9. CASE UNCHANGED vars
  BY <1>5, <1>9 DEF vars, call
<1> QED BY <1>3, <1>4, <1>5, <1>6, <1>7, <1>8, <1>9 DEF Next

(* What a step of a call leaves of the others. *)
LEMMA OthersUnchanged ==
  ASSUME TypeOK, NEW c \in Calls, Handler(c) \/ Serve(c) \/ Reject(c)
  PROVE  /\ \A d \in Calls \ {c} : pc'[d] = pc[d] /\ req'[d] = req[d] /\ outcome'[d] = outcome[d]
         /\ \A d \in Sets \ {c} : target'[d] = target[d] /\ tries'[d] = tries[d] /\ shot'[d] = shot[d]
         /\ got' = got
<1> USE DEF call
<1>0. /\ pc \in [Calls -> PCs] /\ outcome \in [Calls -> {"none", "ok", "error", "transport"}]
      /\ req \in [Calls -> {"none", "inflight", "applied", "refused"}]
      /\ target \in [Sets -> Ids] /\ tries \in [Sets -> 0..2]
      /\ shot \in [Sets -> {"none", "inflight", "delivered", "missing", "refused"}]
  BY DEF TypeOK
<1>1. CASE Begin(c) \/ Lock(c) \/ NotStarted(c)
  BY <1>0, <1>1 DEF Begin, Lock, NotStarted
<1>2. CASE Refuse(c) \/ Timeout(c) \/ WriteAnswered(c)
  BY <1>0, <1>2 DEF Refuse, Timeout, WriteAnswered, Return
<1>3. CASE Discover(c) \/ PostTab(c) \/ PostInject(c) \/ PostWrite(c)
  BY <1>0, <1>3 DEF Discover, PostTab, PostInject, PostWrite
<1>4. CASE TabAnswered(c)
  BY <1>0, <1>4 DEF TabAnswered, Return
<1>5. CASE InjectAnswered(c)
  BY <1>0, <1>5 DEF InjectAnswered, Return
<1>6. CASE Serve(c) \/ Reject(c)
  BY <1>0, <1>6 DEF Serve, Reject
<1> QED BY <1>1, <1>2, <1>3, <1>4, <1>5, <1>6 DEF Handler

(* The steps of the injection of one call. *)
LEMMA ShotSteps ==
  ASSUME TypeOK, NEW c \in Sets, Fire(c) \/ Miss(c) \/ RefuseInject(c)
  PROVE  /\ pc' = pc /\ target' = target /\ tries' = tries /\ outcome' = outcome /\ req' = req
         /\ shot[c] = "inflight" /\ shot'[c] \in {"delivered", "missing", "refused"}
         /\ \A d \in Sets \ {c} : shot'[d] = shot[d] /\ got'[d] = got[d]
         /\ Fire(c) <=> shot'[c] = "delivered"
         /\ ~Fire(c) => got' = got
         /\ UNCHANGED runtime /\ mu' = mu /\ ctxHelper' = ctxHelper
<1>0. /\ shot \in [Sets -> {"none", "inflight", "delivered", "missing", "refused"}]
      /\ got \in [Sets -> Seq([by : Shapes, late : BOOLEAN])]
  BY DEF TypeOK
<1>1. CASE Fire(c)
  BY <1>0, <1>1 DEF Fire, call
<1>2. CASE Miss(c) /\ ~Fire(c)
  BY <1>0, <1>2 DEF Miss, call
<1>3. CASE RefuseInject(c) /\ ~Fire(c)
  BY <1>0, <1>3 DEF RefuseInject, call
<1> QED BY <1>1, <1>2, <1>3

(* Editors, and steps that change nothing, leave the calls alone. *)
LEMMA EditorSteps ==
  ASSUME TypeOK, NEW e \in Editors, EditorDeploys(e)
  PROVE  /\ pc' = pc /\ target' = target /\ tries' = tries /\ outcome' = outcome /\ req' = req
         /\ shot' = shot /\ got' = got /\ mu' = mu /\ ctxHelper' = ctxHelper /\ want' = want
  BY DEF EditorDeploys, call

LEMMA StepStep == TypeOK /\ StepInv /\ [Next]_vars => StepInv'
<1> SUFFICES ASSUME TypeOK, StepInv, [Next]_vars PROVE StepInv'
  OBVIOUS
<1> DEFINE Good(d) == (d \in Sets => SetStep(d)) /\ (d \in Calls \ Sets => OtherStep(d))
<1> USE DEF SetStep, OtherStep, Window
<1>0. /\ pc \in [Calls -> PCs] /\ tries \in [Sets -> 0..2]
      /\ req \in [Calls -> {"none", "inflight", "applied", "refused"}]
      /\ shot \in [Sets -> {"none", "inflight", "delivered", "missing", "refused"}]
      /\ Sets \subseteq Calls
  BY DEF TypeOK, Calls
<1>1. ASSUME NEW c \in Calls, Handler(c) \/ Serve(c) \/ Reject(c) PROVE StepInv'
  <2>0. /\ \A d \in Calls \ {c} : pc'[d] = pc[d] /\ req'[d] = req[d]
        /\ \A d \in Sets \ {c} : tries'[d] = tries[d] /\ shot'[d] = shot[d]
    BY <1>1, OthersUnchanged
  <2>00. ASSUME Good(c)' PROVE StepInv'
    <3>1. \A d \in Sets \ {c} : SetStep(d)'
      BY <1>0, <2>0 DEF StepInv
    <3>2. \A d \in (Calls \ Sets) \ {c} : OtherStep(d)'
      BY <2>0 DEF StepInv
    <3> QED BY <2>00, <3>1, <3>2 DEF StepInv
  <2>01. Good(c)
    BY DEF StepInv
  <2>1. CASE pc'[c] \in {"done", "lock", "gone"} /\ (pc'[c] = "lock" => pc[c] = "idle" /\ UNCHANGED <<req, shot, tries>>)
    <3>1. Good(c)'
      BY <2>01, <2>1
    <3> QED BY <2>00, <3>1
  <2>2. CASE Begin(c)
    BY <1>0, <2>1, <2>2 DEF Begin
  <2>3. CASE Lock(c)
    <3>1. pc[c] = "lock" /\ pc'[c] = "open" /\ req' = req /\ shot' = shot /\ tries' = tries
      BY <1>0, <2>3 DEF Lock
    <3>9. Good(c)'
      BY <1>0, <2>01, <3>1
    <3> QED BY <2>00, <3>9
  <2>4. CASE NotStarted(c) \/ Refuse(c) \/ Timeout(c) \/ WriteAnswered(c)
    <3>1. pc'[c] = "done"
      BY <1>0, <2>4 DEF NotStarted, Refuse, Timeout, WriteAnswered, Return
    <3> QED BY <2>1, <3>1
  <2>5. CASE Discover(c)
    <3>1. c \in Sets /\ pc[c] = "open" /\ pc'[c] \in {"inject", "create"}
          /\ req' = req /\ shot' = shot /\ tries' = tries
      BY <1>0, <2>5 DEF Discover
    <3>9. Good(c)'
      BY <1>0, <2>01, <3>1
    <3> QED BY <2>00, <3>9
  <2>6. CASE PostTab(c)
    <3>1. pc[c] = "create" /\ pc'[c] = "creating" /\ shot' = shot /\ tries' = tries
      BY <1>0, <2>6 DEF PostTab
    <3>9. Good(c)'
      BY <1>0, <2>01, <3>1
    <3> QED BY <2>00, <3>9
  <2>7. CASE TabAnswered(c)
    <3>1. CASE Return(c, "error")
      <4>1. pc'[c] = "done"
        BY <1>0, <3>1 DEF Return
      <4> QED BY <2>1, <4>1
    <3>2. CASE ~Return(c, "error")
      <4>1. /\ pc[c] = "creating" /\ pc'[c] = "inject" /\ req[c] = "applied"
            /\ req' = req /\ shot' = shot /\ tries' = tries
        BY <1>0, <2>7, <3>2 DEF TabAnswered
      <4>9. Good(c)'
        BY <1>0, <2>01, <4>1
      <4> QED BY <2>00, <4>9
    <3> QED BY <3>1, <3>2
  <2>8. CASE PostInject(c)
    <3>1. pc[c] = "inject" /\ pc'[c] = "injecting" /\ req' = req
      BY <1>0, <2>8 DEF PostInject
    <3>9. Good(c)'
      BY <1>0, <2>01, <3>1
    <3> QED BY <2>00, <3>9
  <2>9. CASE InjectAnswered(c)
    <3>1. CASE Return(c, "error") \/ Return(c, "ok")
      <4>1. pc'[c] = "done"
        BY <1>0, <3>1 DEF Return
      <4> QED BY <2>1, <4>1
    <3>2. CASE ~(Return(c, "error") \/ Return(c, "ok"))
      <4>1. /\ pc[c] = "injecting" /\ pc'[c] = "inject" /\ shot[c] = "missing" /\ tries[c] = 1
            /\ req' = req /\ shot' = shot /\ tries' = tries
        BY <1>0, <2>9, <3>2 DEF InjectAnswered
      <4>9. Good(c)'
        BY <1>0, <2>01, <4>1
      <4> QED BY <2>00, <4>9
    <3> QED BY <3>1, <3>2
  <2>10. CASE PostWrite(c)
    <3>1. c \notin Sets /\ pc'[c] = "writing"
      BY <1>0, <2>10, CallsAssumption DEF PostWrite
    <3>9. Good(c)'
      BY <1>0, <2>01, <3>1
    <3> QED BY <2>00, <3>9
  <2>11. CASE Serve(c) \/ Reject(c)
    <3>1. /\ pc' = pc /\ shot' = shot /\ tries' = tries /\ req[c] = "inflight"
          /\ req'[c] \in {"applied", "refused"}
      BY <1>0, <2>11 DEF Serve, Reject, call
    <3>9. Good(c)'
      BY <1>0, <2>01, <3>1
    <3> QED BY <2>00, <3>9
  <2> QED
    BY <1>1, <2>2, <2>3, <2>4, <2>5, <2>6, <2>7, <2>8, <2>9, <2>10, <2>11 DEF Handler
<1>2. ASSUME NEW c \in Sets, Fire(c) \/ Miss(c) \/ RefuseInject(c) PROVE StepInv'
  <2>1. /\ pc' = pc /\ tries' = tries /\ req' = req /\ shot[c] = "inflight"
        /\ \A d \in Sets \ {c} : shot'[d] = shot[d]
    BY <1>2, ShotSteps
  <2>2. \A d \in Calls \ Sets : OtherStep(d)'
    BY <2>1 DEF StepInv
  <2>3. \A d \in Sets \ {c} : SetStep(d)'
    BY <2>1 DEF StepInv
  <2>4. SetStep(c)'
    BY <1>0, <2>1 DEF StepInv
  <2> QED BY <2>2, <2>3, <2>4 DEF StepInv
<1>3. CASE Crash
  BY <1>0, <1>3 DEF Crash, StepInv
<1>4. CASE UNCHANGED <<pc, req, shot, tries>>
  BY <1>4 DEF StepInv
<1>5. ASSUME NEW e \in Editors, EditorDeploys(e) PROVE UNCHANGED <<pc, req, shot, tries>>
  BY <1>5, EditorSteps
<1>6. UNCHANGED vars => UNCHANGED <<pc, req, shot, tries>>
  BY DEF vars, call
<1> QED BY <1>1, <1>2, <1>3, <1>4, <1>5, <1>6 DEF Next

(* The steps of a handler send at most one thing, and deliver nothing. *)
LEMMA HandlerSends ==
  ASSUME TypeOK, StepInv, NEW c \in Calls, Handler(c)
  PROVE  /\ UNCHANGED runtime
         /\ \/ shot' = shot
            \/ /\ c \in Sets /\ pc[c] = "inject" /\ pc'[c] = "injecting"
               /\ shot[c] \in {"none", "missing"} /\ shot'[c] = "inflight"
               /\ outcome' = outcome /\ target' = target /\ req' = req /\ ctxHelper' = ctxHelper
         /\ outcome'[c] # outcome[c] => pc'[c] = "done"
         /\ pc'[c] # "done" => outcome'[c] = outcome[c]
<1>0. /\ pc \in [Calls -> PCs] /\ outcome \in [Calls -> {"none", "ok", "error", "transport"}]
      /\ shot \in [Sets -> {"none", "inflight", "delivered", "missing", "refused"}]
  BY DEF TypeOK
<1>1. CASE PostInject(c)
  <2>1. c \in Sets /\ pc[c] = "inject" /\ shot[c] \in {"none", "missing"}
    BY <1>1 DEF PostInject, StepInv, SetStep, OtherStep, Window
  <2> QED BY <1>0, <1>1, <2>1 DEF PostInject, runtime
<1>2. ASSUME NEW r, Return(c, r)
      PROVE  UNCHANGED runtime /\ shot' = shot /\ pc'[c] = "done"
  BY <1>0, <1>2 DEF Return, runtime
<1>3. CASE Refuse(c) \/ Timeout(c) \/ WriteAnswered(c)
  BY <1>2, <1>3 DEF Refuse, Timeout, WriteAnswered
<1>4. CASE Begin(c) \/ Lock(c) \/ NotStarted(c) \/ Discover(c) \/ PostTab(c) \/ PostWrite(c)
  BY <1>0, <1>4 DEF Begin, Lock, NotStarted, Discover, PostTab, PostWrite, runtime
<1>5. CASE TabAnswered(c)
  BY <1>0, <1>2, <1>5 DEF TabAnswered, runtime
<1>6. CASE InjectAnswered(c)
  BY <1>0, <1>2, <1>6 DEF InjectAnswered, runtime
<1> QED BY <1>1, <1>3, <1>4, <1>5, <1>6 DEF Handler

(* Only Fire delivers, and it ends the one injection request that is out. *)
LEMMA DeliveryStep == TypeOK /\ StepInv /\ DeliveryInv /\ [Next]_vars => DeliveryInv'
<1> SUFFICES ASSUME TypeOK, StepInv, DeliveryInv, [Next]_vars PROVE DeliveryInv'
  OBVIOUS
<1> USE DEF DeliveryInv
<1>0. /\ shot \in [Sets -> {"none", "inflight", "delivered", "missing", "refused"}]
      /\ got \in [Sets -> Seq([by : Shapes, late : BOOLEAN])]
  BY DEF TypeOK
<1>1. ASSUME NEW c \in Calls, Handler(c) PROVE DeliveryInv'
  <2>1. got' = got /\ \A d \in Sets \ {c} : shot'[d] = shot[d]
    BY <1>1, OthersUnchanged
  <2>2. CASE shot' = shot
    BY <2>1, <2>2
  <2>3. CASE c \in Sets /\ shot[c] \in {"none", "missing"} /\ shot'[c] = "inflight"
    BY <2>1, <2>3
  <2> QED BY <1>1, <2>2, <2>3, HandlerSends
<1>2. ASSUME NEW c \in Calls, Serve(c) \/ Reject(c) PROVE UNCHANGED <<shot, got>>
  BY <1>2 DEF Serve, Reject
<1>3. ASSUME NEW c \in Sets, Fire(c) PROVE DeliveryInv'
  <2>1. shot[c] = "inflight" /\ got[c] = <<>> /\ shot'[c] = "delivered"
    BY <1>0, <1>3 DEF Fire
  <2>2. Len(got'[c]) = 1
    BY <1>0, <1>3, <2>1 DEF Fire
  <2>3. \A d \in Sets \ {c} : shot'[d] = shot[d] /\ got'[d] = got[d]
    BY <1>3, ShotSteps
  <2> QED BY <2>1, <2>2, <2>3
<1>4. ASSUME NEW c \in Sets, Miss(c) \/ RefuseInject(c), ~Fire(c) PROVE DeliveryInv'
  <2>1. /\ got' = got /\ shot[c] = "inflight" /\ shot'[c] # "delivered"
        /\ \A d \in Sets \ {c} : shot'[d] = shot[d]
    BY <1>4, ShotSteps
  <2> QED BY <2>1
<1>5. CASE UNCHANGED <<shot, got>>
  BY <1>5
<1>6. (Crash \/ UNCHANGED vars \/ \E e \in Editors : EditorDeploys(e)) => UNCHANGED <<shot, got>>
  BY EditorSteps DEF Crash, vars
<1> QED BY <1>1, <1>2, <1>3, <1>4, <1>5, <1>6 DEF Next

(* What is said of an injection is decided before it is said, except by a
   transport error. *)
LEMMA OutcomeStep == TypeOK /\ StepInv /\ OutcomeInv /\ [Next]_vars => OutcomeInv'
<1> SUFFICES ASSUME TypeOK, StepInv, OutcomeInv, [Next]_vars PROVE OutcomeInv'
  OBVIOUS
<1> DEFINE Said(d) ==
      /\ outcome[d] # "none" => pc[d] = "done"
      /\ outcome[d] = "ok" => shot[d] = "delivered"
      /\ outcome[d] = "error" => shot[d] \in {"none", "missing", "refused"}
<1>0. /\ pc \in [Calls -> PCs] /\ outcome \in [Calls -> {"none", "ok", "error", "transport"}]
      /\ shot \in [Sets -> {"none", "inflight", "delivered", "missing", "refused"}]
      /\ Sets \subseteq Calls
  BY DEF TypeOK, Calls
<1>1. \A d \in Sets : Said(d)
  BY DEF OutcomeInv
<1>2. ASSUME NEW c \in Calls, Handler(c) PROVE OutcomeInv'
  <2>1. /\ \A d \in Calls \ {c} : pc'[d] = pc[d] /\ outcome'[d] = outcome[d]
        /\ \A d \in Sets \ {c} : shot'[d] = shot[d]
    BY <1>2, OthersUnchanged
  <2>2. ASSUME c \in Sets => Said(c)' PROVE OutcomeInv'
    BY <1>0, <1>1, <2>1, <2>2 DEF OutcomeInv
  <2>3. ASSUME c \in Sets PROVE Said(c)'
    <3>0. Said(c)
      BY <1>1, <2>3
    <3>1. ASSUME NEW r, Return(c, r), r = "ok" => shot[c] = "delivered",
                 r = "error" => shot[c] \in {"none", "missing", "refused"}
          PROVE  Said(c)'
      <4>1. pc'[c] = "done" /\ outcome'[c] = r /\ shot' = shot
        BY <1>0, <3>1 DEF Return
      <4> QED BY <3>1, <4>1
    <3>2. CASE Timeout(c)
      BY <3>1, <3>2 DEF Timeout
    <3>3. CASE Refuse(c)
      <4>1. shot[c] = "none"
        BY <2>3, <3>3 DEF Refuse, StepInv, SetStep
      <4> QED BY <3>1, <3>3, <4>1 DEF Refuse
    <3>4. CASE NotStarted(c)
      <4>1. shot[c] = "none" /\ shot' = shot /\ pc'[c] = "done" /\ outcome'[c] = "error"
        BY <1>0, <2>3, <3>4 DEF NotStarted, StepInv, SetStep
      <4> QED BY <4>1
    <3>5. CASE TabAnswered(c) /\ Return(c, "error")
      <4>1. shot[c] = "none"
        BY <2>3, <3>5 DEF TabAnswered, StepInv, SetStep
      <4> QED BY <3>1, <3>5, <4>1
    <3>6. CASE InjectAnswered(c) /\ \E r \in {"ok", "error"} : Return(c, r)
      <4>1. PICK r \in {"ok", "error"} : Return(c, r)
        BY <3>6
      <4>2. \/ shot[c] = "delivered" /\ Return(c, "ok")
            \/ shot[c] \in {"refused", "missing"} /\ Return(c, "error")
        BY <1>0, <3>6, <4>1 DEF InjectAnswered, Return
      <4> QED BY <3>1, <4>2
    <3>7. CASE WriteAnswered(c)
      BY <2>3, <3>7 DEF WriteAnswered, StepInv, SetStep
    <3>8. CASE outcome' = outcome /\ pc[c] # "done" /\ shot' = shot
      BY <3>0, <3>8
    <3>9. CASE Begin(c) \/ Lock(c) \/ Discover(c) \/ PostTab(c) \/ PostWrite(c)
      BY <3>8, <3>9 DEF Begin, Lock, Discover, PostTab, PostWrite
    <3>10. CASE TabAnswered(c) /\ ~Return(c, "error")
      BY <3>8, <3>10 DEF TabAnswered
    <3>11. CASE InjectAnswered(c) /\ ~\E r \in {"ok", "error"} : Return(c, r)
      BY <3>8, <3>11 DEF InjectAnswered
    <3>12. CASE PostInject(c)
      <4>1. outcome' = outcome /\ pc[c] = "inject"
        BY <3>12 DEF PostInject
      <4> QED BY <3>0, <4>1
    <3> QED
      BY <1>2, <3>2, <3>3, <3>4, <3>5, <3>6, <3>7, <3>9, <3>10, <3>11, <3>12 DEF Handler
  <2> QED BY <2>2, <2>3
<1>3. ASSUME NEW c \in Sets, Fire(c) \/ Miss(c) \/ RefuseInject(c) PROVE OutcomeInv'
  <2>1. /\ pc' = pc /\ outcome' = outcome /\ shot[c] = "inflight"
        /\ \A d \in Sets \ {c} : shot'[d] = shot[d]
    BY <1>3, ShotSteps
  <2>2. outcome[c] \in {"none", "transport"}
    BY <1>0, <1>1, <2>1
  <2> QED BY <1>1, <2>1, <2>2 DEF OutcomeInv
<1>4. CASE Crash
  <2>1. outcome' = outcome /\ shot' = shot /\ \A d \in Calls : pc[d] = "done" => pc'[d] = "done"
    BY <1>4 DEF Crash
  <2> QED BY <1>0, <1>1, <2>1 DEF OutcomeInv
<1>5. CASE UNCHANGED <<pc, outcome, shot>>
  BY <1>1, <1>5 DEF OutcomeInv
<1>6. ASSUME NEW c \in Calls, Serve(c) \/ Reject(c) PROVE UNCHANGED <<pc, outcome, shot>>
  BY <1>6 DEF Serve, Reject, call
<1>7. (UNCHANGED vars \/ \E e \in Editors : EditorDeploys(e)) => UNCHANGED <<pc, outcome, shot>>
  BY EditorSteps DEF vars, call
<1> QED BY <1>2, <1>3, <1>4, <1>5, <1>6, <1>7 DEF Next

(* What a handler has found or created is there when it goes on. *)
LEMMA HandlerVerifies ==
  ASSUME TypeOK, StepInv, VerifiedInv, NEW c \in Sets, Handler(c), c \notin touched
  PROVE  \/ pc'[c] \notin {"creating", "inject", "injecting"}
         \/ pc'[c] = "creating" /\ req'[c] # "applied"
         \/ node[target'[c]] = "helper"
<1>0. /\ pc \in [Calls -> PCs] /\ req \in [Calls -> {"none", "inflight", "applied", "refused"}]
      /\ target \in [Sets -> Ids] /\ c \in Calls
  BY DEF TypeOK, Calls
<1>1. CASE Discover(c)
  BY <1>0, <1>1 DEF Discover, Helpers
<1>2. CASE PostTab(c)
  BY <1>0, <1>2 DEF PostTab
<1>3. ASSUME NEW r, Return(c, r) PROVE pc'[c] = "done"
  BY <1>0, <1>3 DEF Return
<1>4. CASE TabAnswered(c) /\ ~Return(c, "error")
  <2>1. pc[c] = "creating" /\ req[c] = "applied" /\ target' = target
    BY <1>4 DEF TabAnswered
  <2> QED BY <2>1 DEF VerifiedInv
<1>5. CASE PostInject(c)
  <2>1. pc[c] = "inject" /\ target' = target
    BY <1>5 DEF PostInject
  <2> QED BY <2>1 DEF VerifiedInv
<1>6. CASE InjectAnswered(c) /\ ~\E r \in {"ok", "error"} : Return(c, r)
  <2>1. pc[c] = "injecting" /\ target' = target
    BY <1>6 DEF InjectAnswered
  <2> QED BY <2>1 DEF VerifiedInv
<1>7. CASE Begin(c) \/ Lock(c) \/ NotStarted(c) \/ PostWrite(c)
  BY <1>0, <1>7 DEF Begin, Lock, NotStarted, PostWrite
<1>8. CASE Refuse(c) \/ Timeout(c) \/ WriteAnswered(c)
  BY <1>3, <1>8 DEF Refuse, Timeout, WriteAnswered
<1> QED BY <1>1, <1>2, <1>3, <1>4, <1>5, <1>6, <1>7, <1>8 DEF Handler

LEMMA VerifiedStep ==
  TypeOK /\ MutexInv /\ StepInv /\ VerifiedInv /\ [Next]_vars => VerifiedInv'
<1> SUFFICES ASSUME TypeOK, MutexInv, StepInv, VerifiedInv, [Next]_vars PROVE VerifiedInv'
  OBVIOUS
<1>0. /\ pc \in [Calls -> PCs] /\ req \in [Calls -> {"none", "inflight", "applied", "refused"}]
      /\ target \in [Sets -> Ids] /\ node \in [Ids -> Shapes] /\ Sets \subseteq Calls
  BY DEF TypeOK, Calls, Config
<1>1. ASSUME NEW c \in Calls, Handler(c) PROVE VerifiedInv'
  <2>1. /\ \A d \in Calls \ {c} : pc'[d] = pc[d] /\ req'[d] = req[d]
        /\ \A d \in Sets \ {c} : target'[d] = target[d]
    BY <1>1, OthersUnchanged
  <2>2. node' = node /\ touched' = touched
    BY <1>1, HandlerSends DEF runtime
  <2>3. ASSUME NEW d \in Sets \ touched, d # c
        PROVE  \/ pc'[d] \notin {"creating", "inject", "injecting"}
               \/ pc'[d] = "creating" /\ req'[d] # "applied"
               \/ node[target'[d]] = "helper"
    BY <1>0, <2>1, <2>3 DEF VerifiedInv
  <2> QED BY <1>1, <2>2, <2>3, HandlerVerifies DEF VerifiedInv
(* An outsider either leaves the helper of a call alone or touches it. *)
<1>2. ASSUME NEW cfg, node' = cfg, touched' = touched \cup Surprised(cfg),
             NEW d \in Sets \ touched', pc'[d] = pc[d], req'[d] = req[d], target'[d] = target[d]
      PROVE  \/ pc'[d] \notin {"creating", "inject", "injecting"}
             \/ pc'[d] = "creating" /\ req'[d] # "applied"
             \/ node'[target'[d]] = "helper"
  BY <1>0, <1>2 DEF VerifiedInv, Surprised, Window
<1>3. ASSUME NEW c \in Calls, Serve(c) PROVE VerifiedInv'
  <2>1. PICK cfg \in Outcomes(c) :
          Run(cfg) /\ touched' = IF GaveUp(c) THEN touched \cup Surprised(cfg) ELSE touched
    BY <1>3 DEF Serve
  <2>2. /\ pc' = pc /\ target' = target /\ node' = cfg
        /\ \A d \in Calls \ {c} : req'[d] = req[d]
    BY <1>0, <1>3, <2>1 DEF Serve, call, Run
  <2>3. ASSUME c \in Sets PROVE cfg[target[c]] = "helper"
    <3>1. Outcomes(c) = IF node[target[c]] = "absent"
                        THEN { [node EXCEPT ![target[c]] = "helper"] } ELSE {}
      BY <2>3, CallsAssumption DEF Outcomes
    <3>2. cfg = [node EXCEPT ![target[c]] = "helper"]
      BY <3>1
    <3> QED BY <1>0, <2>3, <3>2
  <2>4. ASSUME NEW d \in Sets \ touched', d # c
        PROVE  \/ pc'[d] \notin {"creating", "inject", "injecting"}
               \/ pc'[d] = "creating" /\ req'[d] # "applied"
               \/ node'[target'[d]] = "helper"
    <3>1. CASE GaveUp(c)
      BY <1>0, <1>2, <2>1, <2>2, <2>4, <3>1
    <3>2. CASE ~GaveUp(c)
      <4>1. mu = c
        BY <3>2 DEF GaveUp, MutexInv, Holding
      <4>2. pc[d] \notin Holding
        BY <1>0, <2>4, <4>1 DEF MutexInv
      <4> QED BY <2>2, <4>2 DEF Holding
    <3> QED BY <3>1, <3>2
  <2> QED BY <2>2, <2>3, <2>4 DEF VerifiedInv
<1>4. ASSUME NEW e \in Editors, EditorDeploys(e) PROVE VerifiedInv'
  <2>1. PICK cfg \in Edits(node) : Run(cfg) /\ touched' = touched \cup Surprised(cfg)
    BY <1>4 DEF EditorDeploys
  <2> QED BY <1>2, <1>4, <2>1, EditorSteps DEF Run, VerifiedInv
<1>5. ASSUME NEW c \in Calls, Reject(c) PROVE VerifiedInv'
  <2>1. /\ pc' = pc /\ target' = target /\ node' = node /\ touched' = touched
        /\ req'[c] = "refused" /\ \A d \in Calls \ {c} : req'[d] = req[d]
    BY <1>0, <1>5 DEF Reject, call, runtime
  <2> QED BY <1>0, <2>1 DEF VerifiedInv
<1>6. CASE UNCHANGED <<pc, req, target, node, touched>>
  BY <1>6 DEF VerifiedInv
<1>7. ASSUME NEW c \in Sets, Fire(c) \/ Miss(c) \/ RefuseInject(c)
      PROVE  UNCHANGED <<pc, req, target, node, touched>>
  BY <1>7, ShotSteps DEF runtime
<1>8. CASE Crash
  <2>1. \A d \in Sets : pc'[d] \notin {"creating", "inject", "injecting"}
    BY <1>0, <1>8 DEF Crash
  <2> QED BY <2>1 DEF VerifiedInv
<1>9. UNCHANGED vars => UNCHANGED <<pc, req, target, node, touched>>
  BY DEF vars, call, runtime
<1> QED BY <1>1, <1>3, <1>4, <1>5, <1>6, <1>7, <1>8, <1>9 DEF Next

(* Backups are configurations that ran. *)
LEMMA PastStep == TypeOK /\ PastInv /\ [Next]_vars => PastInv' /\ past \subseteq past'
<1> SUFFICES ASSUME TypeOK, PastInv, [Next]_vars PROVE PastInv' /\ past \subseteq past'
  OBVIOUS
<1>0. want \in [Restores -> Config]
  BY DEF TypeOK
<1>1. ASSUME NEW c \in Calls, Begin(c) PROVE PastInv' /\ past \subseteq past'
  BY <1>0, <1>1 DEF Begin, PastInv, runtime
<1>2. CASE UNCHANGED <<want, runtime>>
  BY <1>2 DEF PastInv, runtime
<1>3. ASSUME NEW cfg, Run(cfg), want' = want PROVE PastInv' /\ past \subseteq past'
  BY <1>3 DEF Run, PastInv
<1>4. ASSUME NEW c \in Calls, Serve(c) PROVE PastInv' /\ past \subseteq past'
  BY <1>3, <1>4 DEF Serve, call
<1>5. ASSUME NEW e \in Editors, EditorDeploys(e) PROVE PastInv' /\ past \subseteq past'
  BY <1>3, <1>5 DEF EditorDeploys, call
<1>6. ASSUME NEW c \in Calls, Handler(c), ~Begin(c) PROVE UNCHANGED <<want, runtime>>
  BY <1>6 DEF Handler, Lock, NotStarted, Refuse, Timeout, Discover, PostTab, TabAnswered,
       PostInject, InjectAnswered, PostWrite, WriteAnswered, Return
<1>7. ASSUME NEW c \in Calls, Reject(c) PROVE UNCHANGED <<want, runtime>>
  BY <1>7 DEF Reject, call
<1>8. ASSUME NEW c \in Sets, Fire(c) \/ Miss(c) \/ RefuseInject(c) PROVE UNCHANGED <<want, runtime>>
  BY <1>8 DEF Fire, Miss, RefuseInject, call
<1>9. (Crash \/ UNCHANGED vars) => UNCHANGED <<want, runtime>>
  BY DEF Crash, vars, call
<1> QED BY <1>1, <1>2, <1>4, <1>5, <1>6, <1>7, <1>8, <1>9 DEF Next

(* Under the fixed ids stands nothing but the helper, ever. *)
Undisturbed(configs) == \A cfg \in configs : cfg[Canonical] \in {"absent", "helper"}

LEMMA IdsStep == TypeOK /\ PastInv /\ IdsInv /\ [Next]_vars => IdsInv'
<1> SUFFICES ASSUME TypeOK, PastInv, IdsInv, [Next]_vars, Undisturbed(past')
             PROVE  /\ \A c \in Sets : target'[c] = Canonical
                    /\ \A cfg \in past' : \A i \in Ids \ {Canonical} : cfg[i] = "absent"
  BY DEF IdsInv, Undisturbed
<1>0. past \subseteq past' /\ node \in past /\ Canonical \in Ids /\ target \in [Sets -> Ids]
  BY PastStep DEF PastInv, Ids, TypeOK
<1>1. /\ \A c \in Sets : target[c] = Canonical
      /\ \A cfg \in past : \A i \in Ids \ {Canonical} : cfg[i] = "absent"
      /\ \A cfg \in past : cfg[Canonical] \in {"absent", "helper"}
  BY <1>0 DEF IdsInv, Undisturbed
<1>2. \A c \in Sets : target'[c] = Canonical
  <2>1. ASSUME NEW c \in Calls, Handler(c) PROVE \A d \in Sets : target'[d] = Canonical
    <3>1. CASE Discover(c)
      <4>1. Helpers(node) \subseteq {Canonical}
        BY <1>0, <1>1 DEF Helpers
      <4>2. Helpers(node) = {} => NewIds(c, node) = Canonical
        BY <1>0, <1>1 DEF Helpers, NewIds
      <4> QED BY <1>0, <1>1, <3>1, <4>1, <4>2 DEF Discover
    <3>2. CASE ~Discover(c)
      <4>1. target' = target
        BY <2>1, <3>2 DEF Handler, Begin, Lock, NotStarted, Refuse, Timeout, PostTab, TabAnswered,
             PostInject, InjectAnswered, PostWrite, WriteAnswered, Return
      <4> QED BY <1>1, <4>1
    <3> QED BY <3>1, <3>2
  <2>2. ASSUME NEW c \in Calls, Serve(c) \/ Reject(c) PROVE target' = target
    BY <2>2 DEF Serve, Reject, call
  <2>3. ASSUME NEW c \in Sets, Fire(c) \/ Miss(c) \/ RefuseInject(c) PROVE target' = target
    BY <2>3 DEF Fire, Miss, RefuseInject, call
  <2>4. (Crash \/ UNCHANGED vars \/ \E e \in Editors : EditorDeploys(e)) => target' = target
    BY DEF Crash, EditorDeploys, vars, call
  <2> QED BY <1>1, <2>1, <2>2, <2>3, <2>4 DEF Next
<1>3. ASSUME NEW cfg \in Edits(node), NEW i \in Ids \ {Canonical} PROVE cfg[i] = "absent"
  <2>1. node \in [Ids -> Shapes] /\ node[i] = "absent"
    BY <1>0, <1>1 DEF TypeOK, Config
  <2>2. PICK j \in Ids, s \in Shapes :
          cfg = [node EXCEPT ![j] = s] /\ (node[j] # "absent" \/ j = Canonical)
    BY <1>0 DEF Edits, Shapes
  <2> QED BY <2>1, <2>2
<1>4. ASSUME NEW c \in Calls, Serve(c), NEW cfg \in past', NEW i \in Ids \ {Canonical}
      PROVE  cfg[i] = "absent"
  <2>1. PICK new \in Outcomes(c) : past' = past \cup {new}
    BY <1>4 DEF Serve, Run
  <2>2. new[i] = "absent"
    <3>1. CASE c \in Sets
      <4>1. Outcomes(c) = IF node[target[c]] = "absent"
                          THEN { [node EXCEPT ![target[c]] = "helper"] } ELSE {}
        BY <3>1, CallsAssumption DEF Outcomes
      <4>2. new = [node EXCEPT ![Canonical] = "helper"]
        BY <1>1, <3>1, <4>1
      <4>3. node \in [Ids -> Shapes] /\ node[i] = "absent"
        BY <1>0, <1>1 DEF TypeOK, Config
      <4> QED BY <4>2, <4>3
    <3>2. CASE c \in Restores
      <4>1. new = want[c]
        BY <3>2, CallsAssumption DEF Outcomes
      <4> QED BY <1>1, <3>2, <4>1 DEF PastInv
    <3>3. CASE c \in Writes
      <4>1. new \in Edits(node)
        BY <3>3, CallsAssumption DEF Outcomes
      <4> QED BY <1>3, <4>1
    <3> QED BY <3>1, <3>2, <3>3 DEF Calls
  <2> QED BY <1>1, <2>1, <2>2
<1>5. ASSUME NEW e \in Editors, EditorDeploys(e), NEW cfg \in past', NEW i \in Ids \ {Canonical}
      PROVE  cfg[i] = "absent"
  <2>1. PICK new \in Edits(node) : past' = past \cup {new}
    BY <1>5 DEF EditorDeploys, Run
  <2> QED BY <1>1, <1>3, <2>1
<1> QED BY <1>1, <1>2, <1>4, <1>5, RuntimeSteps DEF runtime

(* Only the holder of ctxHelperMu publishes or forgets the helper. *)
LEMMA PublishedStep ==
  TypeOK /\ MutexInv /\ StepInv /\ HelperIsPublished /\ [Next]_vars => HelperIsPublished'
<1> SUFFICES ASSUME TypeOK, MutexInv, StepInv, HelperIsPublished, [Next]_vars
             PROVE  HelperIsPublished'
  OBVIOUS
<1>0. pc \in [Calls -> PCs] /\ target \in [Sets -> Ids] /\ Sets \subseteq Calls
  BY DEF TypeOK, Calls
<1>1. ASSUME NEW c \in Calls, Handler(c) PROVE HelperIsPublished'
  <2>1. /\ \A d \in Calls \ {c} : pc'[d] = pc[d]
        /\ \A d \in Sets \ {c} : target'[d] = target[d]
    BY <1>1, OthersUnchanged
  <2>2. ASSUME NEW d \in Sets, d # c, pc'[d] \in {"inject", "injecting"}
        PROVE  ctxHelper' = target'[d]
    <3>1. pc[d] \in {"inject", "injecting"} /\ pc[c] \notin Holding
      BY <1>0, <2>1, <2>2 DEF MutexInv, Holding
    <3>2. ctxHelper' = ctxHelper
      BY <1>1, <3>1 DEF Handler, Begin, Lock, NotStarted, Refuse, Timeout, Discover, PostTab,
           TabAnswered, PostInject, InjectAnswered, PostWrite, WriteAnswered, Holding
    <3> QED BY <1>0, <2>1, <2>2, <3>1, <3>2 DEF HelperIsPublished
  <2>3. ASSUME c \in Sets, pc'[c] \in {"inject", "injecting"} PROVE ctxHelper' = target'[c]
    <3>1. ASSUME NEW r PROVE ~Return(c, r)
      BY <1>0, <2>3 DEF Return
    <3>2. CASE Discover(c)
      BY <1>0, <2>3, <3>2 DEF Discover
    <3>3. CASE TabAnswered(c)
      <4>1. ctxHelper' = target[c] /\ target' = target
        BY <3>1, <3>3 DEF TabAnswered
      <4> QED BY <4>1
    <3>4. CASE PostInject(c) \/ InjectAnswered(c)
      <4>1. ctxHelper' = ctxHelper /\ target' = target /\ pc[c] \in {"inject", "injecting"}
        BY <3>1, <3>4 DEF PostInject, InjectAnswered
      <4> QED BY <2>3, <4>1 DEF HelperIsPublished
    <3>5. CASE Begin(c) \/ Lock(c) \/ NotStarted(c) \/ PostTab(c) \/ PostWrite(c)
      BY <1>0, <2>3, <3>5 DEF Begin, Lock, NotStarted, PostTab, PostWrite
    <3>6. CASE Refuse(c) \/ Timeout(c) \/ WriteAnswered(c)
      BY <3>1, <3>6 DEF Refuse, Timeout, WriteAnswered
    <3> QED BY <1>1, <3>2, <3>3, <3>4, <3>5, <3>6 DEF Handler
  <2> QED BY <2>2, <2>3 DEF HelperIsPublished
<1>2. CASE UNCHANGED <<pc, target, ctxHelper>>
  BY <1>2 DEF HelperIsPublished
<1>3. ASSUME NEW c \in Calls, Serve(c) \/ Reject(c) PROVE UNCHANGED <<pc, target, ctxHelper>>
  BY <1>3 DEF Serve, Reject, call
<1>4. ASSUME NEW c \in Sets, Fire(c) \/ Miss(c) \/ RefuseInject(c)
      PROVE  UNCHANGED <<pc, target, ctxHelper>>
  BY <1>4 DEF Fire, Miss, RefuseInject, call
<1>5. (UNCHANGED vars \/ \E e \in Editors : EditorDeploys(e)) => UNCHANGED <<pc, target, ctxHelper>>
  BY DEF EditorDeploys, vars, call
<1>6. CASE Crash
  <2>1. \A d \in Sets : pc'[d] \notin {"inject", "injecting"}
    BY <1>0, <1>6 DEF Crash
  <2> QED BY <2>1 DEF HelperIsPublished
<1> QED BY <1>1, <1>2, <1>3, <1>4, <1>5, <1>6 DEF Next

(* A delivery in time finds what VerifiedInv says is there. *)
LEMMA DivertStep ==
  TypeOK /\ StepInv /\ DeliveryInv /\ VerifiedInv /\ OnlyOutsidersDivert /\ [Next]_vars
    => OnlyOutsidersDivert'
<1> SUFFICES ASSUME TypeOK, StepInv, DeliveryInv, VerifiedInv, OnlyOutsidersDivert, [Next]_vars
             PROVE  OnlyOutsidersDivert'
  OBVIOUS
<1>1. touched \subseteq touched'
  BY RuntimeSteps DEF Serve, EditorDeploys, runtime
<1>2. CASE got' = got
  BY <1>1, <1>2 DEF OnlyOutsidersDivert
<1>3. ASSUME NEW c \in Sets, Fire(c) PROVE OnlyOutsidersDivert'
  <2> DEFINE d == [by |-> node[target[c]], late |-> pc[c] # "injecting"]
  <2>1. got[c] = <<>> /\ got \in [Sets -> Seq([by : Shapes, late : BOOLEAN])]
    BY <1>3 DEF Fire, DeliveryInv, TypeOK
  <2>2. d.by = "helper" \/ d.late \/ c \in touched
    BY DEF VerifiedInv
  <2>3. got' = [got EXCEPT ![c] = Append(<<>>, d)]
    BY <1>3, <2>1 DEF Fire
  <2> HIDE DEF d
  <2>4. got'[c] = <<d>>
    BY <2>1, <2>3
  <2>5. \A e \in Sets \ {c} : got'[e] = got[e]
    BY <2>1, <2>3
  <2>6. \A k \in 1..Len(got'[c]) : got'[c][k] = d
    BY <2>4
  <2> QED BY <1>1, <2>2, <2>5, <2>6 DEF OnlyOutsidersDivert
<1>4. ASSUME NEW c \in Calls, Handler(c) \/ Serve(c) \/ Reject(c) PROVE got' = got
  BY <1>4, OthersUnchanged
<1>5. ASSUME NEW c \in Sets, Miss(c) \/ RefuseInject(c) PROVE got' = got
  BY <1>5 DEF Miss, RefuseInject
<1>6. (Crash \/ UNCHANGED vars \/ \E e \in Editors : EditorDeploys(e)) => got' = got
  BY DEF Crash, EditorDeploys, vars
<1> QED BY <1>2, <1>3, <1>4, <1>5, <1>6 DEF Next

LEMMA InvInit == Init => IInv
<1> SUFFICES ASSUME Init PROVE IInv
  OBVIOUS
<1> USE DEF Init
<1>1. MutexInv
  BY CallsAssumption DEF MutexInv, Holding
<1>2. StepInv /\ DeliveryInv /\ OutcomeInv
  BY DEF StepInv, SetStep, OtherStep, Window, DeliveryInv, OutcomeInv, Calls
<1>3. VerifiedInv /\ HelperIsPublished
  BY DEF VerifiedInv, HelperIsPublished, Calls
<1>4. IdsInv /\ PastInv
  BY DEF IdsInv, PastInv
<1>5. OnlyOutsidersDivert
  BY DEF OnlyOutsidersDivert
<1> QED BY <1>1, <1>2, <1>3, <1>4, <1>5, TypeInit DEF IInv

LEMMA InvStep == IInv /\ [Next]_vars => IInv'
  BY TypeStep, MutexStep, StepStep, DeliveryStep, OutcomeStep, VerifiedStep, IdsStep, PastStep,
     PublishedStep, DivertStep DEF IInv

(* The inductive invariant of set_context. *)
THEOREM Inductive == Spec => []IInv
  BY InvInit, InvStep, PTL DEF Spec

(* No payload is delivered twice, whatever is retried or served late. *)
THEOREM AtMostOnce == Spec => []DeliveredAtMostOnce
<1>1. ASSUME IInv, NEW c \in Sets PROVE Len(got[c]) <= 1
  <2>1. Len(got[c]) = 1 \/ got[c] = <<>>
    BY <1>1 DEF IInv, DeliveryInv
  <2>2. CASE got[c] = <<>>
    <3>1. Len(<<>>) = 0
      OBVIOUS
    <3>2. Len(got[c]) = 0
      BY <2>2, <3>1, Zenon
    <3> QED BY <3>2
  <2>3. CASE Len(got[c]) = 1
    BY <2>3
  <2> QED BY <2>1, <2>2, <2>3
<1>2. IInv => DeliveredAtMostOnce
  BY <1>1 DEF DeliveredAtMostOnce
<1> QED BY <1>2, Inductive, PTL

(* Of what a payload may reach besides the verified helper. *)
THEOREM OnlyOutsiders == Spec => []OnlyOutsidersDivert
  BY Inductive, PTL DEF IInv

(* A restore never forgets a helper under the hands of a set_context. *)
THEOREM Published == Spec => []HelperIsPublished
  BY Inductive, PTL DEF IInv

(* There is one helper at most while nothing else takes the fixed ids. *)
THEOREM AtMostOneHelper == Spec => []OneHelper
<1>1. IInv => OneHelper
  BY DEF IInv, IdsInv, PastInv, OneHelper, Helpers
<1> QED BY <1>1, Inductive, PTL

(* Fire is the effect, a return of set_context the answer. *)
LEMMA PromiseStep ==
  ASSUME IInv, IInv', [Next]_vars
  PROVE  [Promise!Next]_(Promise!vars)
<1> DEFINE effect == [c \in Sets |-> IF got[c] = <<>> THEN "none" ELSE "done"]
           told == [c \in Sets |-> outcome[c]]
<1>0. /\ outcome \in [Calls -> {"none", "ok", "error", "transport"}] /\ Sets \subseteq Calls
      /\ outcome' \in [Calls -> {"none", "ok", "error", "transport"}]
      /\ got \in [Sets -> Seq([by : Shapes, late : BOOLEAN])]
  BY DEF IInv, TypeOK, Calls
<1>1. ASSUME got' = got, \A c \in Sets : outcome'[c] = outcome[c]
      PROVE  UNCHANGED Promise!vars
  <2>1. effect' = effect /\ told' = told
    BY <1>1
  <2> QED BY <2>1 DEF Promise!vars
<1>2. ASSUME NEW c \in Sets, Fire(c) PROVE Promise!Happen(c)
  <2>1. /\ got[c] = <<>> /\ outcome' = outcome /\ shot[c] = "inflight" /\ shot'[c] = "delivered"
        /\ \A d \in Sets \ {c} : got'[d] = got[d]
    BY <1>2, ShotSteps DEF IInv, DeliveryInv
  <2>2. got'[c] # <<>>
    BY <2>1 DEF IInv, DeliveryInv
  <2>3. effect[c] = "none" /\ told[c] \in {"none", "transport"}
    BY <1>0, <2>1 DEF IInv, OutcomeInv
  <2>4. \A d \in Sets : effect'[d] = IF d = c THEN "done" ELSE effect[d]
    BY <2>1, <2>2
  <2>5. effect' = [effect EXCEPT ![c] = "done"] /\ told' = told
    BY <2>1, <2>4
  <2> QED BY <2>3, <2>5 DEF Promise!Happen
<1>3. ASSUME NEW c \in Sets, Handler(c), outcome'[c] # outcome[c]
      PROVE  \E r \in {"ok", "error", "transport"} : Promise!Answer(c, r)
  <2> DEFINE r == outcome'[c]
  <2>1. /\ got' = got /\ pc'[c] = "done"
        /\ \A d \in Calls \ {c} : outcome'[d] = outcome[d]
    BY <1>0, <1>3, OthersUnchanged, HandlerSends DEF IInv
  <2>2. pc[c] # "done"
    BY <1>3 DEF Handler, Begin, Lock, NotStarted, Refuse, Timeout, Discover, PostTab, TabAnswered,
         PostInject, InjectAnswered, PostWrite, WriteAnswered, Holding
  <2>3. outcome[c] = "none" /\ r \in {"ok", "error", "transport"}
    BY <1>0, <1>3, <2>2 DEF IInv, OutcomeInv
  <2>4. (r = "ok" => got[c] # <<>>) /\ (r = "error" => got[c] = <<>>)
    BY <2>1 DEF IInv, OutcomeInv, DeliveryInv
  <2>5. told' = [told EXCEPT ![c] = r] /\ effect' = effect
    BY <1>0, <2>1
  <2>6. Promise!Answer(c, r)
    BY <2>3, <2>4, <2>5 DEF Promise!Answer
  <2> HIDE DEF r
  <2> QED BY <2>3, <2>6 DEF Promise!Answer
<1>4. ASSUME NEW c \in Calls, Handler(c), c \notin Sets \/ outcome'[c] = outcome[c]
      PROVE  UNCHANGED Promise!vars
  <2>1. got' = got /\ \A d \in Calls \ {c} : outcome'[d] = outcome[d]
    BY <1>4, OthersUnchanged DEF IInv
  <2> QED BY <1>0, <1>1, <1>4, <2>1
<1>5. ASSUME NEW c \in Calls, Serve(c) \/ Reject(c) PROVE UNCHANGED Promise!vars
  BY <1>1, <1>5 DEF Serve, Reject, call
<1>6. ASSUME NEW c \in Sets, Miss(c) \/ RefuseInject(c) PROVE UNCHANGED Promise!vars
  BY <1>1, <1>6 DEF Miss, RefuseInject, call
<1>7. (Crash \/ UNCHANGED vars \/ \E e \in Editors : EditorDeploys(e)) => UNCHANGED Promise!vars
  BY <1>1 DEF Crash, EditorDeploys, vars, call
<1> QED BY <1>2, <1>3, <1>4, <1>5, <1>6, <1>7 DEF Next, Promise!Next

(* set_context keeps the promise ToolCalls assumes of a single write. *)
THEOREM SetContextKeepsPromise == Spec => KeepsPromise
<1>1. Init => Promise!Init
  BY DEF Init, Promise!Init, Calls
<1>2. IInv /\ IInv' /\ [Next]_vars => [Promise!Next]_(Promise!vars)
  BY PromiseStep
<1> QED BY <1>1, <1>2, Inductive, PTL DEF Spec, KeepsPromise, Promise!Spec
=============================================================================
