-------------------------- MODULE FlowWritesProofs --------------------------
(***************************************************************************)
(* Proofs, for any number of calls, editors and owners, of the invariants  *)
(* FlowWrites states.  IInv is inductive; its parts are preserved by the   *)
(* lemmas below, each under the parts it needs.                            *)
(***************************************************************************)
EXTENDS FlowWrites, TLAPS

OpType ==
  [kind : AllKinds \cup {"none"}, owner : Tabs \cup {Global}, parts : SUBSET Owners]
Deployment == [cfg : Config, by : Calls \cup Editors \cup {Boot}, late : BOOLEAN]

(* The log as a function: the form the other proofs use. *)
LEMMA LogType ==
  ASSUME TypeOK
  PROVE  /\ Len(log) \in Nat \ {0}
         /\ \A i \in 1..Len(log) : log[i] \in Deployment
         /\ Current \in Config
<1>1. log \in Seq(Deployment) /\ Len(log) > 0
  BY DEF TypeOK, Deployment
<1>2. Len(log) \in Nat \ {0} /\ \A i \in 1..Len(log) : log[i] \in Deployment
  BY <1>1
<1>3. Current \in Config
  BY <1>2 DEF Current, Deployment
<1> QED BY <1>2, <1>3

(* What a configuration is built from. *)
LEMMA ReplaceEntriesType ==
  ASSUME NEW cfg \in Config, NEW parts, NEW entries \in Config
  PROVE  ReplaceEntries(cfg, parts, entries) \in Config /\ Entries(cfg, parts) \in Config
  BY DEF Config, ReplaceEntries, Entries

(* Everything Node-RED may run after serving a request is a configuration. *)
LEMMA ResultsType ==
  ASSUME TypeOK, NEW c \in Calls, NEW cfg \in Results(c)
  PROVE  cfg \in Config
<1>1. Current \in Config /\ base[c].cfg \in Config /\ doc[c] \in Config
  BY LogType DEF TypeOK
<1>2. CASE op[c].kind \in Revisioned
  BY <1>1, <1>2, ReplaceEntriesType DEF Results, DeployBody, Revisioned
<1>3. CASE op[c].kind = "create"
  <2>1. PICK t \in Tabs : cfg = Current \cup {<<t, TabEntry>>, <<t, c>>}
    BY <1>3 DEF Results, Revisioned
  <2>2. {<<t, TabEntry>>, <<t, c>>} \subseteq Owners \X Items
    BY DEF Owners, Items
  <2> QED BY <1>1, <2>1, <2>2 DEF Config
<1>4. CASE op[c].kind = "delete"
  <2>1. {} \in Config
    BY DEF Config
  <2>2. cfg = ReplaceEntries(Current, op[c].parts, {})
    BY <1>4 DEF Results, Revisioned
  <2> QED BY <1>1, <2>1, <2>2, ReplaceEntriesType
<1>5. CASE op[c].kind = "replace"
  BY <1>1, <1>5 DEF Results, Revisioned
<1>6. CASE op[c].kind \notin Revisioned \cup {"create", "delete", "replace"}
  BY <1>1, <1>6, ReplaceEntriesType DEF Results, Revisioned
<1> QED BY <1>2, <1>3, <1>4, <1>5, <1>6

(* One more deployment: what was run before stays where it is. *)
LEMMA AppendFacts ==
  ASSUME TypeOK, NEW cfg, NEW who, NEW late, Append1(cfg, who, late)
  PROVE  /\ Len(log') = Len(log) + 1
         /\ \A i \in 1..Len(log) : log'[i] = log[i]
         /\ log'[Len(log) + 1] = [cfg |-> cfg, by |-> who, late |-> late]
  BY DEF TypeOK, Append1

(* An editor appends a configuration of its own making. *)
LEMMA EditorAppends ==
  ASSUME TypeOK, NEW e \in Editors, EditorDeploys(e)
  PROVE  \E cfg \in Config : Append1(cfg, e, FALSE)
<1>1. Current \in Config
  BY LogType
<1>2. PICK o \in Owners :
        \/ Append1(Current \cup {<<o, e>>}, e, FALSE)
        \/ Append1(ReplaceEntries(Current, {o}, {}), e, FALSE)
  BY DEF EditorDeploys, Owners
<1>3. Current \cup {<<o, e>>} \in Config
  BY <1>1 DEF Config, Items
<1>4. ReplaceEntries(Current, {o}, {}) \in Config
  BY <1>1 DEF Config, ReplaceEntries
<1> QED BY <1>2, <1>3, <1>4

(* Every step leaves the log alone or is the deployment of a call or of an
   editor. *)
LEMMA LogSteps ==
  ASSUME [Next]_vars
  PROVE  \/ log' = log
         \/ \E c \in Calls : Apply(c)
         \/ \E e \in Editors : EditorDeploys(e)
  BY DEF Next, vars, Proceed, Serve, Begin, Acquire, ReadPart, Fetch, Save, Send, Refuse,
     Receive, Timeout, Return, Reject, Drop, Crash

(* The initial states are well typed: no call is on its way. *)
THEOREM TypeInit == Init => TypeOK
<1> SUFFICES ASSUME Init PROVE TypeOK
  OBVIOUS
<1> DEFINE first == [cfg |-> Initial, by |-> Boot, late |-> FALSE]
<1>1. {} \in Config
  BY DEF Config
<1>2. first \in Deployment
  BY InitialAssumption DEF Deployment
<1>3. <<first>> \in Seq(Deployment) /\ Len(<<first>>) = 1
  BY <1>2
<1>4. log \in Seq([cfg : Config, by : Calls \cup Editors \cup {Boot}, late : BOOLEAN])
      /\ Len(log) > 0
  BY <1>3 DEF Init, Deployment
<1>5. pc \in [Calls -> PCs] /\ op \in [Calls -> OpType]
  BY DEF Init, PCs, OpType
<1>6. /\ doc \in [Calls -> Config]
      /\ seen \in [Calls -> [rev : Nat, part : Config]]
      /\ base \in [Calls -> [rev : Nat, cfg : Config]]
  BY <1>1 DEF Init
<1> QED BY <1>4, <1>5, <1>6 DEF Init, TypeOK, OpType

(* What a call is about. *)
LEMMA OperationsType ==
  ASSUME NEW o \in Operations
  PROVE  o \in OpType /\ (o.kind \in {"create", "replace", "subflow"} \/ o.owner \in Tabs)
<1>1. PICK kind \in Kinds : \E owner \in OwnersOf(kind) : \E parts \in PartsOf(kind, owner) :
        o = [kind |-> kind, owner |-> owner, parts |-> parts]
  BY DEF Operations
<1>2. PICK owner \in OwnersOf(kind) : \E parts \in PartsOf(kind, owner) :
        o = [kind |-> kind, owner |-> owner, parts |-> parts]
  BY <1>1
<1>3. PICK parts \in PartsOf(kind, owner) :
        o = [kind |-> kind, owner |-> owner, parts |-> parts]
  BY <1>2
<1>4. owner \in Tabs \cup {Global} /\ kind \in AllKinds
  BY KindsAssumption DEF OwnersOf
<1>5. kind \in {"create", "replace", "subflow"} \/ owner \in Tabs
  BY DEF OwnersOf
<1>6. parts \subseteq Owners
  <2>1. CASE kind = "update"
    <3>1. PICK nested \in SUBSET Subflows : parts = {owner} \cup nested
      BY <2>1 DEF PartsOf
    <3> QED BY <1>5, <2>1, <3>1 DEF Owners
  <2>2. CASE kind = "subflow"
    BY <2>2 DEF PartsOf, Owners
  <2>3. CASE kind \in {"create", "replace"}
    BY <2>3 DEF PartsOf
  <2>4. CASE kind \notin {"update", "subflow", "create", "replace"}
    BY <1>5, <2>4 DEF PartsOf, Owners
  <2> QED BY <2>1, <2>2, <2>3, <2>4
<1> QED BY <1>3, <1>4, <1>5, <1>6 DEF OpType

(* What a caller submits is made of entries. *)
LEMMA DocumentsType ==
  ASSUME TypeOK, NEW c \in Calls, NEW o \in Operations, NEW d \in Documents(c, o)
  PROVE  d \in Config
<1>1. CASE o.kind = "update"
  <2>1. PICK stray \in Strays(c, o) : d = {<<o.owner, TabEntry>>} \cup (o.parts \X {c}) \cup stray
    BY <1>1 DEF Documents
  <2>2. stray = {} \/ \E p \in Owners : stray = {<<p, c>>}
    BY DEF Strays
  <2>3. stray \subseteq Owners \X Items
    BY <2>2 DEF Items
  <2>4. o.parts \subseteq Owners /\ o.owner \in Tabs
    BY <1>1, OperationsType DEF OpType
  <2>5. o.parts \X {c} \subseteq Owners \X Items
    BY <2>4 DEF Items
  <2>6. {<<o.owner, TabEntry>>} \subseteq Owners \X Items
    BY <2>4 DEF Owners, Items
  <2> QED BY <2>1, <2>3, <2>5, <2>6 DEF Config
<1>2. CASE o.kind = "replace"
  <2>1. d = (Tabs \X {TabEntry}) \cup (Owners \X {c}) \/ \E b \in backups : d = b.cfg
    BY <1>2 DEF Documents
  <2>2. (Tabs \X {TabEntry}) \cup (Owners \X {c}) \in Config
    BY DEF Config, Items, Owners
  <2>3. ASSUME NEW b \in backups PROVE b.cfg \in Config
    BY DEF TypeOK
  <2> QED BY <2>1, <2>2, <2>3
<1>3. CASE o.kind \notin {"update", "replace"}
  BY <1>3 DEF Documents, Config
<1> QED BY <1>1, <1>2, <1>3

(* The type invariant is inductive: one step per action. *)
LEMMA TypeStep == TypeOK /\ [Next]_vars => TypeOK'
<1> SUFFICES ASSUME TypeOK, [Next]_vars PROVE TypeOK'
  OBVIOUS
<1>1. ASSUME NEW c \in Calls, Begin(c) PROVE TypeOK'
  <2>1. PICK o \in Operations : \E d \in Documents(c, o) :
          op' = [op EXCEPT ![c] = o] /\ doc' = [doc EXCEPT ![c] = d]
    BY <1>1 DEF Begin
  <2>2. PICK d \in Documents(c, o) :
          op' = [op EXCEPT ![c] = o] /\ doc' = [doc EXCEPT ![c] = d]
    BY <2>1
  <2>3. o \in OpType
    BY OperationsType
  <2>4. d \in Config
    BY DocumentsType
  <2>5. op' \in [Calls -> OpType]
    BY <2>2, <2>3 DEF TypeOK, OpType
  <2>6. doc' \in [Calls -> Config]
    BY <2>2, <2>4 DEF TypeOK
  <2>7. pc' \in [Calls -> PCs]
    BY <1>1 DEF Begin, TypeOK, PCs
  <2> QED BY <1>1, <2>5, <2>6, <2>7 DEF Begin, TypeOK, OpType
<1>2. ASSUME NEW c \in Calls, Acquire(c) PROVE TypeOK'
  BY <1>2 DEF Acquire, TypeOK, PCs, Holding
<1>3. ASSUME NEW c \in Calls, ReadPart(c) PROVE TypeOK'
  <2> DEFINE part == Entries(Current, op[c].parts)
  <2>1. Current \in Config /\ part \in Config /\ op[c].parts \subseteq Owners /\ Rev \in Nat
    BY LogType, ReplaceEntriesType DEF TypeOK, Rev, Config
  <2>2. ASSUME NEW d \in EditResults(c, op[c].parts, part) PROVE d \in Config
    BY <2>1 DEF EditResults, Config, Items
  <2>3. doc' \in [Calls -> Config]
    BY <1>3, <2>2 DEF ReadPart, TypeOK
  <2>4. seen' \in [Calls -> [rev : Nat, part : Config]]
    BY <1>3, <2>1 DEF ReadPart, TypeOK
  <2>5. pc' \in [Calls -> PCs]
    BY <1>3 DEF ReadPart, TypeOK, PCs, Holding
  <2> QED BY <1>3, <2>3, <2>4, <2>5 DEF ReadPart, TypeOK
<1>4. ASSUME NEW c \in Calls, Fetch(c) PROVE TypeOK'
  <2>1. Current \in Config /\ Rev \in Nat
    BY LogType DEF Rev
  <2>2. base' \in [Calls -> [rev : Nat, cfg : Config]]
    BY <1>4, <2>1 DEF Fetch, TypeOK
  <2>3. pc' \in [Calls -> PCs]
    BY <1>4 DEF Fetch, TypeOK, PCs, Holding
  <2> QED BY <1>4, <2>2, <2>3 DEF Fetch, TypeOK
<1>5. ASSUME NEW c \in Calls, Save(c) PROVE TypeOK'
  BY <1>5 DEF Save, TypeOK, PCs, Holding
<1>6. ASSUME NEW c \in Calls, Send(c) PROVE TypeOK'
  BY <1>6 DEF Send, TypeOK, PCs, Holding
<1>7. ASSUME NEW c \in Calls, NEW result \in {"ok", "error", "transport"}, Return(c, result)
      PROVE TypeOK'
  BY <1>7 DEF Return, TypeOK, PCs, Holding
<1>8. ASSUME NEW c \in Calls, Apply(c) PROVE TypeOK'
  <2>1. PICK cfg \in Config : Append1(cfg, c, GaveUp(c))
    BY <1>8, ResultsType DEF Apply
  <2>2. log' \in Seq(Deployment) /\ Len(log') > 0
    BY <2>1, LogType DEF Append1, TypeOK, Deployment, GaveUp
  <2>3. req' \in [Calls -> {"none", "inflight", "applied", "refused", "dropped"}]
    BY <1>8 DEF Apply, TypeOK
  <2> QED BY <1>8, <2>2, <2>3 DEF Apply, clientVars, TypeOK, Deployment
<1>9. ASSUME NEW c \in Calls, Reject(c) \/ Drop(c) PROVE TypeOK'
  BY <1>9 DEF Reject, Drop, clientVars, TypeOK
<1>10. ASSUME NEW e \in Editors, EditorDeploys(e) PROVE TypeOK'
  <2>1. PICK cfg \in Config : Append1(cfg, e, FALSE)
    BY <1>10, EditorAppends
  <2>2. log' \in Seq(Deployment) /\ Len(log') > 0
    BY <2>1, LogType DEF Append1, TypeOK, Deployment
  <2> QED BY <1>10, <2>2 DEF EditorDeploys, clientVars, TypeOK, Deployment
<1>11. ASSUME Crash PROVE TypeOK'
  BY <1>11 DEF Crash, TypeOK, PCs
<1>12. ASSUME UNCHANGED vars PROVE TypeOK'
  BY <1>12 DEF vars, TypeOK
<1> QED
  BY <1>1, <1>2, <1>3, <1>4, <1>5, <1>6, <1>7, <1>8, <1>9, <1>10, <1>11, <1>12
  DEF Next, Proceed, Serve, Refuse, Receive, Timeout

(* Type correctness of the write path. *)
THEOREM TypeCorrect == Spec => []TypeOK
<1>1. Init => TypeOK
  BY TypeInit
<1>2. TypeOK /\ [Next]_vars => TypeOK'
  BY TypeStep
<1> QED BY <1>1, <1>2, PTL DEF Spec

-----------------------------------------------------------------------------
(* writeMu: whoever is between writeGuard and its release is the holder. *)
LEMMA MutexStep == TypeOK /\ MutexInv /\ [Next]_vars => MutexInv'
<1> SUFFICES ASSUME TypeOK, MutexInv, [Next]_vars PROVE MutexInv'
  OBVIOUS
<1> USE CallsAssumption DEF TypeOK, MutexInv, Holding, PCs
<1>1. ASSUME NEW c \in Calls, Begin(c) PROVE MutexInv'
  BY <1>1 DEF Begin
<1>2. ASSUME NEW c \in Calls, Acquire(c) PROVE MutexInv'
  BY <1>2 DEF Acquire
<1>3. ASSUME NEW c \in Calls, ReadPart(c) PROVE MutexInv'
  BY <1>3 DEF ReadPart
<1>4. ASSUME NEW c \in Calls, Fetch(c) PROVE MutexInv'
  BY <1>4 DEF Fetch
<1>5. ASSUME NEW c \in Calls, Save(c) PROVE MutexInv'
  BY <1>5 DEF Save
<1>6. ASSUME NEW c \in Calls, Send(c) PROVE MutexInv'
  BY <1>6 DEF Send
<1>7. ASSUME NEW c \in Calls, Refuse(c) \/ Receive(c) \/ Timeout(c) PROVE MutexInv'
  <2>1. pc[c] \in Holding
    BY <1>7 DEF Refuse, Receive, Timeout, Exchanging
  <2>2. mu = c /\ mu' = Free /\ pc' = [pc EXCEPT ![c] = "done"]
    BY <1>7, <2>1 DEF Refuse, Receive, Timeout, Return
  <2> QED BY <2>2
<1>8. ASSUME NEW c \in Calls, Serve(c) PROVE MutexInv'
  BY <1>8 DEF Serve, Apply, Reject, Drop, clientVars
<1>9. ASSUME NEW e \in Editors, EditorDeploys(e) PROVE MutexInv'
  BY <1>9 DEF EditorDeploys, clientVars
<1>10. ASSUME Crash PROVE MutexInv'
  BY <1>10 DEF Crash
<1>11. ASSUME UNCHANGED vars PROVE MutexInv'
  BY <1>11 DEF vars
<1> QED
  BY <1>1, <1>2, <1>3, <1>4, <1>5, <1>6, <1>7, <1>8, <1>9, <1>10, <1>11 DEF Next, Proceed

(* The request of a call leaves after everything else the call does, and
   what the call returned agrees with it. *)
LEMMA RequestStep == TypeOK /\ RequestInv /\ [Next]_vars => RequestInv'
<1> SUFFICES ASSUME TypeOK, RequestInv, [Next]_vars PROVE RequestInv'
  OBVIOUS
<1> USE DEF TypeOK, RequestInv, Holding, PCs
<1>1. ASSUME NEW c \in Calls, Begin(c) PROVE RequestInv'
  BY <1>1 DEF Begin
<1>2. ASSUME NEW c \in Calls, Acquire(c) PROVE RequestInv'
  BY <1>2 DEF Acquire
<1>3. ASSUME NEW c \in Calls, ReadPart(c) PROVE RequestInv'
  BY <1>3 DEF ReadPart
<1>4. ASSUME NEW c \in Calls, Fetch(c) PROVE RequestInv'
  BY <1>4 DEF Fetch
<1>5. ASSUME NEW c \in Calls, Save(c) PROVE RequestInv'
  BY <1>5 DEF Save
<1>6. ASSUME NEW c \in Calls, Send(c) PROVE RequestInv'
  BY <1>6 DEF Send
<1>7. ASSUME NEW c \in Calls, Refuse(c) PROVE RequestInv'
  BY <1>7 DEF Refuse, Return
<1>8. ASSUME NEW c \in Calls, Receive(c) PROVE RequestInv'
  BY <1>8 DEF Receive, Return
<1>9. ASSUME NEW c \in Calls, Timeout(c) PROVE RequestInv'
  BY <1>9 DEF Timeout, Return, Exchanging
<1>10. ASSUME NEW c \in Calls, Serve(c) PROVE RequestInv'
  BY <1>10 DEF Serve, Apply, Reject, Drop, clientVars
<1>11. ASSUME NEW e \in Editors, EditorDeploys(e) PROVE RequestInv'
  BY <1>11 DEF EditorDeploys, clientVars
<1>12. ASSUME Crash PROVE RequestInv'
  BY <1>12 DEF Crash
<1>13. ASSUME UNCHANGED vars PROVE RequestInv'
  BY <1>13 DEF vars
<1> QED
  BY <1>1, <1>2, <1>3, <1>4, <1>5, <1>6, <1>7, <1>8, <1>9, <1>10, <1>11, <1>12, <1>13
  DEF Next, Proceed

-----------------------------------------------------------------------------
(* How a step may change the state of one call, and the log. *)

(* After its request was sent nothing a call has computed changes. *)
LEMMA Frozen ==
  ASSUME TypeOK, RequestInv, [Next]_vars, NEW c \in Calls, req[c] # "none"
  PROVE  /\ op'[c] = op[c] /\ doc'[c] = doc[c] /\ seen'[c] = seen[c] /\ base'[c] = base[c]
         /\ req'[c] # "none"
         /\ req[c] = "applied" => req'[c] = "applied"
<1> USE DEF TypeOK, RequestInv, Holding, PCs
<1>1. ASSUME NEW d \in Calls, Begin(d) PROVE d # c
  BY <1>1 DEF Begin
<1>2. ASSUME NEW d \in Calls, ReadPart(d) PROVE d # c
  BY <1>2 DEF ReadPart
<1>3. ASSUME NEW d \in Calls, Fetch(d) PROVE d # c
  BY <1>3 DEF Fetch
<1>4. ASSUME NEW d \in Calls, Send(d) PROVE d # c
  BY <1>4 DEF Send
<1>5. CASE \E d \in Calls : Begin(d)
  BY <1>1, <1>5 DEF Begin
<1>6. CASE \E d \in Calls : ReadPart(d)
  BY <1>2, <1>6 DEF ReadPart
<1>7. CASE \E d \in Calls : Fetch(d)
  BY <1>3, <1>7 DEF Fetch
<1>8. CASE \E d \in Calls : Send(d)
  BY <1>4, <1>8 DEF Send
<1>9. CASE \E d \in Calls : Acquire(d) \/ Save(d) \/ Refuse(d) \/ Receive(d) \/ Timeout(d)
  BY <1>9 DEF Acquire, Save, Refuse, Receive, Timeout, Return
<1>10. CASE \E d \in Calls : Serve(d)
  BY <1>10 DEF Serve, Apply, Reject, Drop, clientVars
<1>11. CASE (\E e \in Editors : EditorDeploys(e)) \/ Crash \/ UNCHANGED vars
  BY <1>11 DEF EditorDeploys, Crash, clientVars, vars
<1> QED BY <1>5, <1>6, <1>7, <1>8, <1>9, <1>10, <1>11 DEF Next, Proceed

(* The log keeps its entries, and what is said of each. *)
LEMMA LogKeeps ==
  ASSUME TypeOK, [Next]_vars
  PROVE  /\ Len(log) \in Nat \ {0}
         /\ Len(log') = Len(log) \/ Len(log') = Len(log) + 1
         /\ log' # log => Len(log') = Len(log) + 1
         /\ \A i \in 1..Len(log) : log'[i] = log[i] /\ (Outsider(i)' <=> Outsider(i))
<1>1. Len(log) \in Nat \ {0}
  BY LogType
<1>2. CASE log' = log
  BY <1>1, <1>2 DEF Outsider
<1>3. CASE \E c \in Calls : Apply(c)
  <2>1. PICK c \in Calls : Apply(c)
    BY <1>3
  <2>2. PICK cfg : Append1(cfg, c, GaveUp(c))
    BY <2>1 DEF Apply
  <2>3. Len(log') = Len(log) + 1 /\ \A i \in 1..Len(log) : log'[i] = log[i]
    BY <2>2, AppendFacts
  <2> QED BY <1>1, <2>3 DEF Outsider
<1>4. CASE \E e \in Editors : EditorDeploys(e)
  <2>1. PICK e \in Editors : EditorDeploys(e)
    BY <1>4
  <2>2. PICK cfg : Append1(cfg, e, FALSE)
    BY <2>1, EditorAppends
  <2>3. Len(log') = Len(log) + 1 /\ \A i \in 1..Len(log) : log'[i] = log[i]
    BY <2>2, AppendFacts
  <2> QED BY <1>1, <2>3 DEF Outsider
<1> QED BY <1>2, <1>3, <1>4, LogSteps

(* The entry a step adds: a call that was waiting to be served, or an editor. *)
LEMMA NewEntry ==
  ASSUME TypeOK, [Next]_vars, NEW i \in 1..Len(log'), i \notin 1..Len(log)
  PROVE  /\ i = Len(log) + 1 /\ Len(log') = i
         /\ \/ \E c \in Calls : /\ Apply(c)
                               /\ log'[i].by = c /\ log'[i].late = GaveUp(c)
                               /\ log'[i].cfg \in Results(c)
            \/ \E e \in Editors : EditorDeploys(e) /\ log'[i].by = e
<1>1. i = Len(log) + 1 /\ Len(log') = i /\ log' # log
  BY LogKeeps
<1>2. CASE \E c \in Calls : Apply(c)
  <2>1. PICK c \in Calls : Apply(c)
    BY <1>2
  <2>2. PICK cfg \in Results(c) : Append1(cfg, c, GaveUp(c))
    BY <2>1 DEF Apply
  <2>3. log'[i] = [cfg |-> cfg, by |-> c, late |-> GaveUp(c)]
    BY <1>1, <2>2, AppendFacts
  <2> QED BY <1>1, <2>1, <2>3
<1>3. CASE \E e \in Editors : EditorDeploys(e)
  <2>1. PICK e \in Editors : EditorDeploys(e)
    BY <1>3
  <2>2. PICK cfg : Append1(cfg, e, FALSE)
    BY <2>1, EditorAppends
  <2>3. log'[i].by = e
    BY <1>1, <2>2 DEF Append1, TypeOK
  <2> QED BY <1>1, <2>1, <2>3
<1> QED BY <1>1, <1>2, <1>3, LogSteps

-----------------------------------------------------------------------------
(* A request is in the log exactly when it was served, and once. *)
LEMMA AuthorStep == TypeOK /\ RequestInv /\ AuthorInv /\ [Next]_vars => AuthorInv'
<1> SUFFICES ASSUME TypeOK, RequestInv, AuthorInv, [Next]_vars PROVE AuthorInv'
  OBVIOUS
<1> USE CallsAssumption
<1>1. /\ Len(log) \in Nat \ {0}
      /\ Len(log') = Len(log) \/ Len(log') = Len(log) + 1
      /\ \A i \in 1..Len(log) : log'[i] = log[i]
  BY LogKeeps
<1>2. \A c \in Calls : req[c] = "applied" => req'[c] = "applied"
  BY Frozen
<1>3. ASSUME NEW i \in 1..Len(log'), i \notin 1..Len(log), log'[i].by \in Calls
      PROVE  Apply(log'[i].by)
  BY <1>3, NewEntry
<1>4. ASSUME NEW c \in Calls, Apply(c)
      PROVE  /\ req[c] # "applied" /\ req'[c] = "applied"
             /\ \A i \in 1..Len(log) : log[i].by # c
  BY <1>4 DEF Apply, AuthorInv, TypeOK
<1>5. ASSUME NEW c \in Calls, req[c] # "applied", req'[c] = "applied"
      PROVE  \E i \in 1..Len(log') : log'[i].by = c
  <2>1. \E d \in Calls : Apply(d)
    BY <1>5 DEF Next, vars, Proceed, Serve, Begin, Acquire, ReadPart, Fetch, Save, Send,
       Refuse, Receive, Timeout, Return, Reject, Drop, EditorDeploys, Crash, clientVars, TypeOK
  <2>2. PICK d \in Calls : Apply(d)
    BY <2>1
  <2>3. d = c
    BY <2>2, <1>5 DEF Apply, TypeOK
  <2>4. PICK cfg : Append1(cfg, c, GaveUp(c))
    BY <2>2, <2>3 DEF Apply
  <2>5. Len(log') = Len(log) + 1 /\ log'[Len(log) + 1].by = c
    BY <2>4 DEF Append1, TypeOK
  <2> QED BY <1>1, <2>5
<1>6. log'[1].by = Boot
  BY <1>1 DEF AuthorInv
<1>7. ASSUME NEW i \in 1..Len(log'), log'[i].by \in Calls
      PROVE  req'[log'[i].by] = "applied"
  <2>1. CASE i \in 1..Len(log)
    BY <1>1, <1>2, <1>7, <2>1 DEF AuthorInv
  <2>2. CASE i \notin 1..Len(log)
    BY <1>3, <1>4, <1>7, <2>2
  <2> QED BY <2>1, <2>2
<1>8. ASSUME NEW c \in Calls, req'[c] = "applied"
      PROVE  \E i \in 1..Len(log') : log'[i].by = c
  <2>1. CASE req[c] = "applied"
    BY <1>1, <2>1 DEF AuthorInv
  <2> QED BY <1>5, <1>8, <2>1
<1>9. ASSUME NEW i \in 1..Len(log'), NEW j \in 1..Len(log'),
             log'[i].by = log'[j].by, log'[i].by \in Calls
      PROVE  i = j
  <2>1. CASE i \in 1..Len(log) /\ j \in 1..Len(log)
    BY <1>1, <1>9, <2>1 DEF AuthorInv, DeployedAtMostOnce
  <2>2. CASE i \notin 1..Len(log) /\ j \notin 1..Len(log)
    BY <1>1, <2>2
  <2>3. CASE i \notin 1..Len(log) /\ j \in 1..Len(log)
    BY <1>1, <1>3, <1>4, <1>9, <2>3
  <2>4. CASE i \in 1..Len(log) /\ j \notin 1..Len(log)
    BY <1>1, <1>3, <1>4, <1>9, <2>4
  <2> QED BY <2>1, <2>2, <2>3, <2>4
<1> QED BY <1>6, <1>7, <1>8, <1>9 DEF AuthorInv, DeployedAtMostOnce

(* base[c] changes in Fetch only, which also is the only way to have one. *)
LEMMA BaseChanges ==
  ASSUME TypeOK, [Next]_vars, NEW c \in Calls
  PROVE  /\ Fetched(c)' => Fetched(c) \/ Fetch(c)
         /\ base'[c] # base[c] => Fetch(c)
<1> USE DEF TypeOK, Fetched
<1>1. CASE \E d \in Calls : Begin(d) \/ Acquire(d) \/ ReadPart(d)
  BY <1>1 DEF Begin, Acquire, ReadPart
<1>2. CASE \E d \in Calls : Fetch(d)
  BY <1>2 DEF Fetch
<1>3. CASE \E d \in Calls : Save(d) \/ Send(d)
  BY <1>3 DEF Save, Send
<1>4. CASE \E d \in Calls : Refuse(d) \/ Receive(d) \/ Timeout(d)
  BY <1>4 DEF Refuse, Receive, Timeout, Return
<1>5. CASE \E d \in Calls : Serve(d)
  BY <1>5 DEF Serve, Apply, Reject, Drop, clientVars
<1>6. CASE (\E e \in Editors : EditorDeploys(e)) \/ Crash \/ UNCHANGED vars
  BY <1>6 DEF EditorDeploys, Crash, clientVars, vars
<1> QED BY <1>1, <1>2, <1>3, <1>4, <1>5, <1>6 DEF Next, Proceed

LEMMA BaseStep == TypeOK /\ BaseInv /\ [Next]_vars => BaseInv'
<1> SUFFICES ASSUME TypeOK, BaseInv, [Next]_vars, NEW c \in Calls, Fetched(c)'
             PROVE  base'[c].rev \in 1..Len(log') /\ log'[base'[c].rev].cfg = base'[c].cfg
  BY DEF BaseInv
<1>1. /\ Len(log) \in Nat \ {0} /\ Len(log') >= Len(log) /\ Len(log') \in Nat
      /\ \A i \in 1..Len(log) : log'[i] = log[i]
  BY LogKeeps
<1>2. CASE Fetch(c)
  <2>1. base'[c] = [rev |-> Len(log), cfg |-> log[Len(log)].cfg] /\ log' = log
    BY <1>2 DEF Fetch, TypeOK, Rev, Current
  <2> QED BY <1>1, <2>1
<1>3. CASE ~Fetch(c)
  <2>1. Fetched(c) /\ base'[c] = base[c]
    BY <1>3, BaseChanges
  <2> QED BY <1>1, <2>1 DEF BaseInv
<1> QED BY <1>2, <1>3

(* No request leaves before the configuration it was computed from is saved. *)
LEMMA BackupStep == TypeOK /\ RequestInv /\ BackupInv /\ [Next]_vars => BackupInv'
<1> SUFFICES ASSUME TypeOK, RequestInv, BackupInv, [Next]_vars, NEW c \in Calls, BackedUp(c)'
             PROVE  [by |-> c, cfg |-> base'[c].cfg] \in backups'
  BY DEF BackupInv
<1>1. backups \subseteq backups'
  BY DEF Next, vars, Proceed, Serve, Begin, Acquire, ReadPart, Fetch, Save, Send, Refuse,
     Receive, Timeout, Return, Apply, Reject, Drop, EditorDeploys, Crash, clientVars
<1>2. CASE Save(c)
  BY <1>2 DEF Save
<1>3. CASE Fetch(c)
  BY <1>3 DEF Fetch, BackedUp, RequestInv, TypeOK, Holding, PCs
<1>4. CASE ~Save(c) /\ ~Fetch(c)
  <2>1. base'[c] = base[c]
    BY <1>4, BaseChanges
  <2>2. BackedUp(c)
    <3> USE DEF TypeOK, BackedUp
    <3>1. CASE \E d \in Calls : Begin(d) \/ Acquire(d) \/ ReadPart(d) \/ Fetch(d) \/ Save(d)
      BY <1>4, <3>1 DEF Begin, Acquire, ReadPart, Fetch, Save
    <3>2. CASE \E d \in Calls : Send(d)
      BY <3>2 DEF Send
    <3>3. CASE \E d \in Calls : Refuse(d) \/ Receive(d) \/ Timeout(d)
      BY <3>3 DEF Refuse, Receive, Timeout, Return
    <3>4. CASE \E d \in Calls : Serve(d)
      BY <3>4 DEF Serve, Apply, Reject, Drop, clientVars
    <3>5. CASE (\E e \in Editors : EditorDeploys(e)) \/ Crash \/ UNCHANGED vars
      BY <3>5 DEF EditorDeploys, Crash, clientVars, vars
    <3> QED BY <3>1, <3>2, <3>3, <3>4, <3>5 DEF Next, Proceed
  <2> QED BY <1>1, <2>1, <2>2 DEF BackupInv
<1> QED BY <1>2, <1>3, <1>4

(* op[c] is set in Begin, doc[c] in Begin and ReadPart, of c itself. *)
LEMMA OthersKeepDoc ==
  ASSUME TypeOK, NEW c \in Calls, NEW d \in Calls, d # c, Begin(d) \/ ReadPart(d)
  PROVE  op'[c] = op[c] /\ doc'[c] = doc[c]
<1>1. CASE Begin(d)
  BY <1>1 DEF Begin, TypeOK
<1>2. CASE ReadPart(d)
  BY <1>2 DEF ReadPart, TypeOK
<1> QED BY <1>1, <1>2

LEMMA DocChanges ==
  ASSUME TypeOK, [Next]_vars, NEW c \in Calls, ~Begin(c), ~ReadPart(c)
  PROVE  op'[c] = op[c] /\ doc'[c] = doc[c]
<1> USE DEF TypeOK
<1>1. CASE \E d \in Calls : Begin(d) \/ ReadPart(d)
  BY <1>1, OthersKeepDoc
<1>2. CASE \E d \in Calls : Acquire(d) \/ Fetch(d) \/ Save(d) \/ Send(d)
  BY <1>2 DEF Acquire, Fetch, Save, Send
<1>3. CASE \E d \in Calls : Refuse(d) \/ Receive(d) \/ Timeout(d)
  BY <1>3 DEF Refuse, Receive, Timeout, Return
<1>4. CASE \E d \in Calls : Serve(d)
  BY <1>4 DEF Serve, Apply, Reject, Drop, clientVars
<1>5. CASE (\E e \in Editors : EditorDeploys(e)) \/ Crash \/ UNCHANGED vars
  BY <1>5 DEF EditorDeploys, Crash, clientVars, vars
<1> QED BY <1>1, <1>2, <1>3, <1>4, <1>5 DEF Next, Proceed

(* What a call submits without nested definitions belongs to its tab. *)
LEMMA DocStep == TypeOK /\ DocInv /\ [Next]_vars => DocInv'
<1> SUFFICES ASSUME TypeOK, DocInv, [Next]_vars, NEW c \in Calls,
                    op'[c].kind \in Revisioned, NEW e \in doc'[c],
                    op'[c].parts = {op'[c].owner}
             PROVE  e[1] \in op'[c].parts
  BY DEF DocInv
<1>1. CASE Begin(c)
  <2>1. PICK o \in Operations : \E d \in Documents(c, o) :
          op' = [op EXCEPT ![c] = o] /\ doc' = [doc EXCEPT ![c] = d]
    BY <1>1 DEF Begin
  <2>2. op'[c] = o /\ doc'[c] \in Documents(c, o)
    BY <2>1 DEF TypeOK
  <2>3. CASE o.kind = "update"
    <3>1. PICK stray \in Strays(c, o) :
            doc'[c] = {<<o.owner, TabEntry>>} \cup (o.parts \X {c}) \cup stray
      BY <2>2, <2>3 DEF Documents
    <3>2. stray = {}
      BY <2>2 DEF Strays
    <3> QED BY <2>2, <3>1, <3>2
  <2>4. CASE o.kind = "edit"
    BY <2>2, <2>4 DEF Documents
  <2> QED BY <2>2, <2>3, <2>4 DEF Revisioned
<1>2. CASE ReadPart(c)
  <2>1. /\ op' = op
        /\ doc'[c] \in EditResults(c, op[c].parts, Entries(Current, op[c].parts))
    BY <1>2 DEF ReadPart, TypeOK
  <2>2. \A x \in Entries(Current, op[c].parts) : x[1] \in op[c].parts
    BY DEF Entries
  <2> QED BY <2>1, <2>2 DEF EditResults
<1>3. CASE ~Begin(c) /\ ~ReadPart(c)
  <2>1. op'[c] = op[c] /\ doc'[c] = doc[c]
    BY <1>3, DocChanges
  <2> QED BY <2>1 DEF DocInv
<1> QED BY <1>1, <1>2, <1>3

-----------------------------------------------------------------------------
(* A deployment with a revision replaces exactly that revision: Node-RED
   refuses it otherwise, and the call changes nothing after sending it. *)
LEMMA DeployStep ==
  TypeOK /\ RequestInv /\ AuthorInv /\ BaseInv /\ DeployInv /\ [Next]_vars => DeployInv'
<1> SUFFICES ASSUME TypeOK, RequestInv, AuthorInv, BaseInv, DeployInv, [Next]_vars,
                    NEW c \in Calls, NEW i \in 1..Len(log'), DeployedBy(i, c)'
             PROVE  /\ base'[c].rev < i
                    /\ op'[c].kind \in Revisioned =>
                         base'[c].rev = i - 1 /\ log'[i].cfg = DeployBody(c)'
  BY DEF DeployInv
<1> USE CallsAssumption
<1>1. /\ Len(log) \in Nat \ {0}
      /\ Len(log') = Len(log) \/ Len(log') = Len(log) + 1
      /\ \A j \in 1..Len(log) : log'[j] = log[j]
  BY LogKeeps
<1>2. i # 1 /\ log'[i].by = c
  BY DEF DeployedBy
<1>3. CASE i \in 1..Len(log)
  <2>1. DeployedBy(i, c) /\ req[c] = "applied"
    BY <1>1, <1>2, <1>3 DEF DeployedBy, AuthorInv
  <2>2. op'[c] = op[c] /\ base'[c] = base[c] /\ doc'[c] = doc[c]
    BY <2>1, Frozen
  <2>3. DeployBody(c)' = DeployBody(c)
    BY <2>2 DEF DeployBody, ReplaceEntries, Entries
  <2> QED BY <1>1, <1>3, <2>1, <2>2, <2>3 DEF DeployInv
<1>4. CASE i \notin 1..Len(log)
  <2>1. i = Len(log) + 1 /\ Apply(c) /\ log'[i].cfg \in Results(c)
    BY <1>2, <1>4, NewEntry
  <2>2. req[c] = "inflight" /\ Accepts(c)
    BY <2>1 DEF Apply
  <2>3. base[c].rev \in 1..Len(log)
    BY <2>2 DEF BaseInv, Fetched
  <2>4. op'[c] = op[c] /\ base'[c] = base[c] /\ doc'[c] = doc[c]
    BY <2>2, Frozen
  <2>5. DeployBody(c)' = DeployBody(c)
    BY <2>4 DEF DeployBody, ReplaceEntries, Entries
  <2>6. ASSUME op[c].kind \in Revisioned
        PROVE  base[c].rev = Len(log) /\ log'[i].cfg = DeployBody(c)
    <3>1. base[c].rev = Len(log)
      BY <2>2, <2>3, <2>6 DEF Accepts, RequestRev, Rev
    <3>2. Results(c) = {DeployBody(c)}
      BY <2>6 DEF Results, Revisioned
    <3> QED BY <2>1, <3>1, <3>2
  <2> QED BY <1>1, <2>1, <2>3, <2>4, <2>5, <2>6
<1> QED BY <1>3, <1>4

-----------------------------------------------------------------------------
(* The new entry is an outsider's for every call that is still to deploy: the
   only other deployment possible is that of the holder of writeMu. *)
LEMMA NewEntryIsOutsider ==
  ASSUME TypeOK, MutexInv, [Next]_vars, NEW c \in Calls, pc[c] \in Holding,
         NEW i \in 1..Len(log'), i \notin 1..Len(log), ~Apply(c)
  PROVE  Outsider(i)'
<1>1. CASE \E d \in Calls : Apply(d) /\ log'[i].by = d /\ log'[i].late = GaveUp(d)
  <2>1. PICK d \in Calls : Apply(d) /\ log'[i].by = d /\ log'[i].late = GaveUp(d)
    BY <1>1
  <2>2. pc[d] # "sent"
    BY <2>1 DEF MutexInv, Holding
  <2> QED BY <2>1, <2>2 DEF Outsider, GaveUp
<1>2. CASE \E e \in Editors : log'[i].by = e
  BY <1>2 DEF Outsider
<1> QED BY <1>1, <1>2, NewEntry

(* Between the read a backup is made of and the write, only outsiders. *)
LEMMA PendingChanges ==
  ASSUME TypeOK, RequestInv, [Next]_vars, NEW c \in Calls
  PROVE  /\ Pending(c, {"fetched", "saved", "sent"})' =>
              Pending(c, {"fetched", "saved", "sent"}) \/ Fetch(c)
         /\ Pending(c, {"edited", "fetched", "saved", "sent"})' =>
              \/ Pending(c, {"edited", "fetched", "saved", "sent"}) \/ ReadPart(c)
              \/ Fetch(c) /\ op[c].kind \notin ReadModifyWrite
<1> USE DEF TypeOK, Pending
<1>1. CASE \E d \in Calls : Begin(d) \/ Acquire(d)
  BY <1>1 DEF Begin, Acquire
<1>2. CASE \E d \in Calls : ReadPart(d)
  BY <1>2 DEF ReadPart
<1>3. CASE \E d \in Calls : Fetch(d)
  <2>1. PICK d \in Calls : Fetch(d)
    BY <1>3
  <2>2. CASE d = c
    BY <2>1, <2>2 DEF Fetch
  <2>3. CASE d # c
    <3>1. pc'[c] = pc[c] /\ req'[c] = req[c]
      BY <2>1, <2>3 DEF Fetch
    <3> QED BY <3>1
  <2> QED BY <2>2, <2>3
<1>4. CASE \E d \in Calls : Save(d)
  BY <1>4 DEF Save
<1>4a. CASE \E d \in Calls : Send(d)
  BY <1>4a DEF Send, RequestInv, Holding
<1>5. CASE \E d \in Calls : Refuse(d) \/ Receive(d) \/ Timeout(d)
  BY <1>5 DEF Refuse, Receive, Timeout, Return
<1>6. CASE \E d \in Calls : Serve(d)
  BY <1>6 DEF Serve, Apply, Reject, Drop, clientVars
<1>7. CASE (\E e \in Editors : EditorDeploys(e)) \/ Crash \/ UNCHANGED vars
  BY <1>7 DEF EditorDeploys, Crash, clientVars, vars
<1> QED BY <1>1, <1>2, <1>3, <1>4, <1>4a, <1>5, <1>6, <1>7 DEF Next, Proceed

(* seen[c] changes in ReadPart only. *)
LEMMA SeenChanges ==
  ASSUME TypeOK, [Next]_vars, NEW c \in Calls, ~ReadPart(c)
  PROVE  seen'[c] = seen[c]
<1> USE DEF TypeOK
<1>1. CASE \E d \in Calls : Begin(d) \/ ReadPart(d)
  BY <1>1 DEF Begin, ReadPart
<1>2. CASE \E d \in Calls : Acquire(d) \/ Fetch(d) \/ Save(d) \/ Send(d)
  BY <1>2 DEF Acquire, Fetch, Save, Send
<1>3. CASE \E d \in Calls : Refuse(d) \/ Receive(d) \/ Timeout(d)
  BY <1>3 DEF Refuse, Receive, Timeout, Return
<1>4. CASE \E d \in Calls : Serve(d)
  BY <1>4 DEF Serve, Apply, Reject, Drop, clientVars
<1>5. CASE (\E e \in Editors : EditorDeploys(e)) \/ Crash \/ UNCHANGED vars
  BY <1>5 DEF EditorDeploys, Crash, clientVars, vars
<1> QED BY <1>1, <1>2, <1>3, <1>4, <1>5 DEF Next, Proceed

(* Nobody but outsiders deploys between the read a backup is made of and the
   write it is for. *)
LEMMA BaseQuietStep ==
  /\ TypeOK /\ MutexInv /\ RequestInv /\ AuthorInv /\ BaseInv /\ DeployInv /\ BaseQuietInv
  /\ [Next]_vars
  => BaseQuietInv'
<1> SUFFICES ASSUME TypeOK, MutexInv, RequestInv, AuthorInv, BaseInv, DeployInv, BaseQuietInv,
                    [Next]_vars, NEW c \in Calls
             PROVE  /\ Pending(c, {"fetched", "saved", "sent"})' =>
                         OnlyOutsiders(base[c].rev, Len(log))'
                    /\ \A i \in 1..Len(log') :
                         DeployedBy(i, c)' /\ ~log'[i].late =>
                           OnlyOutsiders(base[c].rev, i - 1)'
  BY DEF BaseQuietInv
<1>0. Len(log) \in Nat /\ base[c].rev \in Nat
  BY LogKeeps DEF TypeOK
<1>1. ASSUME Pending(c, {"fetched", "saved", "sent"})'
      PROVE  OnlyOutsiders(base[c].rev, Len(log))'
  <2>1. CASE Fetch(c)
    <3>1. base'[c].rev = Len(log') /\ Len(log') \in Nat
      BY <2>1, <1>0 DEF Fetch, Rev, TypeOK
    <3> QED BY <3>1 DEF OnlyOutsiders
  <2>2. CASE ~Fetch(c)
    <3>1. base'[c] = base[c] /\ Pending(c, {"fetched", "saved", "sent"})
      BY <1>1, <2>2, BaseChanges, PendingChanges
    <3>2. OnlyOutsiders(base[c].rev, Len(log)) /\ pc[c] \in Holding
      BY <3>1 DEF BaseQuietInv, Pending, Holding
    <3>3. ~Apply(c)
      BY <1>1 DEF Apply, Pending, TypeOK
    <3> DEFINE from == base[c].rev
    <3>4. from \in Nat /\ OnlyOutsiders(from, Len(log))
      BY <1>0, <3>2
    <3> HIDE DEF from
    <3>5. \A j \in 1..Len(log') : from < j /\ j <= Len(log') => Outsider(j)'
      BY <3>2, <3>3, <3>4, LogKeeps, NewEntryIsOutsider DEF OnlyOutsiders
    <3> QED BY <3>1, <3>5 DEF OnlyOutsiders, from
  <2> QED BY <2>1, <2>2
<1>2. ASSUME NEW i \in 1..Len(log'), DeployedBy(i, c)', ~log'[i].late
      PROVE  OnlyOutsiders(base[c].rev, i - 1)'
  <2>1. CASE i \in 1..Len(log)
    <3>1. DeployedBy(i, c) /\ ~log[i].late /\ req[c] = "applied"
      BY <1>2, <2>1, LogKeeps, CallsAssumption DEF DeployedBy, AuthorInv
    <3>2. base'[c] = base[c] /\ OnlyOutsiders(base[c].rev, i - 1)
      BY <2>1, <3>1, Frozen DEF BaseQuietInv
    <3> QED BY <2>1, <3>2, LogKeeps DEF OnlyOutsiders
  <2>2. CASE i \notin 1..Len(log)
    <3>1. i = Len(log) + 1 /\ Apply(c) /\ log'[i].late = GaveUp(c)
      BY <1>2, <2>2, NewEntry, CallsAssumption DEF DeployedBy
    <3>2. pc[c] = "sent" /\ req[c] = "inflight"
      BY <1>2, <3>1 DEF GaveUp, Apply
    <3>3. OnlyOutsiders(base[c].rev, Len(log)) /\ base'[c] = base[c]
      BY <3>2, Frozen DEF BaseQuietInv, Pending
    <3> QED BY <1>0, <3>1, <3>3, LogKeeps DEF OnlyOutsiders
  <2> QED BY <2>1, <2>2
<1> QED BY <1>1, <1>2

(* The same, from the read an edit is computed from. *)
LEMMA SeenQuietStep ==
  /\ TypeOK /\ MutexInv /\ RequestInv /\ AuthorInv /\ SeenQuietInv
  /\ [Next]_vars
  => SeenQuietInv'
<1> SUFFICES ASSUME TypeOK, MutexInv, RequestInv, AuthorInv, SeenQuietInv, [Next]_vars,
                    NEW c \in Calls, op'[c].kind \in ReadModifyWrite
             PROVE  /\ Pending(c, {"edited", "fetched", "saved", "sent"})' =>
                         SeenPart(c, Len(log))'
                    /\ \A i \in 1..Len(log') :
                         DeployedBy(i, c)' /\ ~log'[i].late => SeenPart(c, i - 1)'
  BY DEF SeenQuietInv
<1>0. Len(log) \in Nat \ {0}
  BY LogKeeps
<1>1. ASSUME Pending(c, {"edited", "fetched", "saved", "sent"})'
      PROVE  SeenPart(c, Len(log))'
  <2>1. CASE ReadPart(c)
    <3>1. /\ seen'[c] = [rev |-> Len(log), part |-> Entries(log[Len(log)].cfg, op[c].parts)]
          /\ op' = op /\ log' = log
      BY <2>1 DEF ReadPart, Rev, Current, TypeOK
    <3> QED BY <1>0, <3>1 DEF SeenPart, OnlyOutsiders, Entries
  <2>2. CASE ~ReadPart(c)
    <3>1. ~Begin(c)
      BY <1>1 DEF Begin, Pending, TypeOK
    <3>2. op'[c] = op[c] /\ seen'[c] = seen[c]
      BY <2>2, <3>1, DocChanges, SeenChanges
    <3>3. Pending(c, {"edited", "fetched", "saved", "sent"})
      BY <1>1, <2>2, <3>2, PendingChanges
    <3>4. SeenPart(c, Len(log)) /\ pc[c] \in Holding
      BY <3>2, <3>3 DEF SeenQuietInv, Pending, Holding
    <3>5. ~Apply(c)
      BY <1>1 DEF Apply, Pending, TypeOK
    <3>6. seen[c].rev \in 1..Len(log') /\ log'[seen[c].rev] = log[seen[c].rev]
      BY <1>0, <3>4, LogKeeps DEF SeenPart
    <3>7. \A j \in 1..Len(log') : seen[c].rev < j /\ j <= Len(log') => Outsider(j)'
      <4>1. ASSUME NEW j \in 1..Len(log), seen[c].rev < j PROVE Outsider(j)'
        BY <1>0, <4>1, <3>4, LogKeeps DEF SeenPart, OnlyOutsiders
      <4>2. ASSUME NEW j \in 1..Len(log'), j \notin 1..Len(log) PROVE Outsider(j)'
        BY <3>4, <3>5, <4>2, NewEntryIsOutsider
      <4> QED BY <4>1, <4>2
    <3>8. Entries(log'[seen'[c].rev].cfg, op'[c].parts) = seen'[c].part
      BY <3>2, <3>4, <3>6 DEF SeenPart, Entries
    <3> QED BY <3>2, <3>6, <3>7, <3>8 DEF SeenPart, OnlyOutsiders, Entries
  <2> QED BY <2>1, <2>2
<1>2. ASSUME NEW i \in 1..Len(log'), DeployedBy(i, c)', ~log'[i].late
      PROVE  SeenPart(c, i - 1)'
  <2>1. req[c] # "none" /\ SeenPart(c, i - 1) /\ i - 1 <= Len(log)
    <3>1. CASE i \in 1..Len(log)
      <4>1. DeployedBy(i, c) /\ ~log[i].late /\ req[c] = "applied"
        BY <1>2, <3>1, LogKeeps, CallsAssumption DEF DeployedBy, AuthorInv
      <4>2. op'[c] = op[c]
        BY <4>1, Frozen
      <4> QED BY <1>0, <3>1, <4>1, <4>2 DEF SeenQuietInv
    <3>2. CASE i \notin 1..Len(log)
      <4>1. i = Len(log) + 1 /\ Apply(c) /\ log'[i].late = GaveUp(c)
        BY <1>2, <3>2, NewEntry, CallsAssumption DEF DeployedBy
      <4>2. pc[c] = "sent" /\ req[c] = "inflight"
        BY <1>2, <4>1 DEF GaveUp, Apply
      <4>3. op'[c] = op[c] /\ i - 1 = Len(log)
        BY <1>0, <4>1, <4>2, Frozen
      <4> QED BY <1>0, <4>2, <4>3 DEF SeenQuietInv, Pending
    <3> QED BY <3>1, <3>2
  <2>2. op'[c] = op[c] /\ seen'[c] = seen[c]
    BY <2>1, Frozen
  <2>3. seen[c].rev \in 1..(i - 1) /\ log'[seen[c].rev] = log[seen[c].rev]
    BY <1>0, <2>1, LogKeeps DEF SeenPart
  <2>4. \A j \in 1..Len(log') : seen[c].rev < j /\ j <= i - 1 => Outsider(j)'
    BY <1>0, <2>1, LogKeeps DEF SeenPart, OnlyOutsiders
  <2>5. Entries(log'[seen'[c].rev].cfg, op'[c].parts) = seen'[c].part
    BY <2>1, <2>2, <2>3 DEF SeenPart, Entries
  <2> QED BY <2>2, <2>3, <2>4, <2>5 DEF SeenPart, OnlyOutsiders, Entries
<1> QED BY <1>1, <1>2

-----------------------------------------------------------------------------
LEMMA InvInit == Init => IInv
<1> SUFFICES ASSUME Init PROVE IInv
  OBVIOUS
<1>1. TypeOK
  BY TypeInit
<1>2. Len(log) = 1 /\ log[1] = [cfg |-> Initial, by |-> Boot, late |-> FALSE]
  BY DEF Init
<1>3. MutexInv /\ RequestInv
  BY CallsAssumption DEF Init, MutexInv, RequestInv, Holding
<1>4. AuthorInv
  BY <1>2, CallsAssumption DEF Init, AuthorInv, DeployedAtMostOnce
<1>5. BaseInv /\ BackupInv /\ DocInv
  BY DEF Init, BaseInv, BackupInv, DocInv, Fetched, BackedUp
<1>6. ~ \E c \in Calls : \E i \in 1..Len(log) : DeployedBy(i, c)
  BY <1>2 DEF DeployedBy
<1>7. DeployInv /\ BaseQuietInv /\ SeenQuietInv
  BY <1>6 DEF Init, DeployInv, BaseQuietInv, SeenQuietInv, Pending
<1> QED BY <1>1, <1>3, <1>4, <1>5, <1>7 DEF IInv

LEMMA InvStep == IInv /\ [Next]_vars => IInv'
  BY TypeStep, MutexStep, RequestStep, AuthorStep, BaseStep, BackupStep, DocStep, DeployStep,
     BaseQuietStep, SeenQuietStep DEF IInv

(* The invariant that carries the theorems below. *)
THEOREM Inductive == Spec => []IInv
  BY InvInit, InvStep, PTL DEF Spec

-----------------------------------------------------------------------------
(* A tab update never destroys a configuration that is not in its backup:
   deployFlowUpdate deploys with the revision of the read it saved. *)
THEOREM UpdateBackupExact == Spec => []UpdateBackupIsExact
<1>1. IInv => UpdateBackupIsExact
  <2> SUFFICES ASSUME IInv, NEW c \in Calls, NEW i \in 1..Len(log), DeployedBy(i, c),
                      op[c].kind \in Revisioned
               PROVE  [by |-> c, cfg |-> log[i - 1].cfg] \in backups
    BY DEF UpdateBackupIsExact
  <2>1. req[c] = "applied"
    BY DEF IInv, AuthorInv, DeployedBy
  <2>2. [by |-> c, cfg |-> base[c].cfg] \in backups /\ log[base[c].rev].cfg = base[c].cfg
    BY <2>1 DEF IInv, BackupInv, BackedUp, BaseInv, Fetched
  <2>3. base[c].rev = i - 1
    BY DEF IInv, DeployInv
  <2> QED BY <2>2, <2>3
<1> QED BY <1>1, Inductive, PTL

(* A tab update undoes nothing outside of its tab and of the definitions nested
   in it, although deployFlowUpdate posts the whole configuration, and what it
   brings in there are members of those definitions. *)
THEOREM UpdateKeepsOthers == Spec => []UpdateKeepsOtherOwners
<1>1. IInv => UpdateKeepsOtherOwners
  <2> SUFFICES ASSUME IInv, NEW c \in Calls, NEW i \in 1..Len(log), DeployedBy(i, c),
                      op[c].kind \in Revisioned, NEW o \in Owners \ op[c].parts
               PROVE  /\ Entries(log[i - 1].cfg, {o}) \subseteq Entries(log[i].cfg, {o})
                      /\ Entries(log[i].cfg, {o})
                           \subseteq Entries(log[i - 1].cfg, {o}) \cup Filed(c)
    BY DEF UpdateKeepsOtherOwners
  <2>1. req[c] = "applied"
    BY DEF IInv, AuthorInv, DeployedBy
  <2>2. base[c].rev = i - 1 /\ log[i].cfg = DeployBody(c)
    BY DEF IInv, DeployInv
  <2>3. log[i - 1].cfg = base[c].cfg
    BY <2>1, <2>2 DEF IInv, BaseInv, Fetched
  <2>4. \A e \in doc[c] : e[1] = o => e \in Filed(c)
    BY DEF IInv, DocInv, Filed
  <2> QED BY <2>2, <2>3, <2>4 DEF DeployBody, ReplaceEntries, Entries
<1> QED BY <1>1, Inductive, PTL

(* Without a revision: the backup of a write that is served in time is the
   configuration it replaced, or an outsider deployed in between.  writeMu
   keeps every other call of the client out. *)
THEOREM SnapshotExact == Spec => []SnapshotExactUnlessRaced
<1>1. IInv => SnapshotExactUnlessRaced
  <2> SUFFICES ASSUME IInv, NEW c \in Calls, NEW i \in 1..Len(log), DeployedBy(i, c),
                      ~log[i].late, [by |-> c, cfg |-> log[i - 1].cfg] \notin backups
               PROVE  \E j \in (base[c].rev + 1)..(i - 1) : Outsider(j)
    BY DEF SnapshotExactUnlessRaced
  <2>1. req[c] = "applied" /\ Len(log) \in Nat /\ i # 1
    BY LogType DEF IInv, AuthorInv, DeployedBy
  <2>2. [by |-> c, cfg |-> base[c].cfg] \in backups /\ log[base[c].rev].cfg = base[c].cfg
    BY <2>1 DEF IInv, BackupInv, BackedUp, BaseInv, Fetched
  <2>3. base[c].rev < i /\ base[c].rev # i - 1 /\ base[c].rev \in Nat
    BY <2>2 DEF IInv, DeployInv, TypeOK
  <2>4. OnlyOutsiders(base[c].rev, i - 1)
    BY DEF IInv, BaseQuietInv
  <2>5. i - 1 \in 1..Len(log) /\ i - 1 \in (base[c].rev + 1)..(i - 1)
    BY <2>1, <2>3
  <2>6. Outsider(i - 1)
    BY <2>3, <2>4, <2>5 DEF OnlyOutsiders
  <2> QED BY <2>5, <2>6
<1> QED BY <1>1, Inductive, PTL

(* A read-modify-write replaces what it read, or an outsider deployed since:
   no call of the client loses what another one wrote. *)
THEOREM EditLosesNothing == Spec => []EditLosesOnlyToOutsiders
<1>1. IInv => EditLosesOnlyToOutsiders
  <2> SUFFICES ASSUME IInv, NEW c \in Calls, NEW i \in 1..Len(log), DeployedBy(i, c),
                      ~log[i].late, op[c].kind \in ReadModifyWrite,
                      Entries(log[i - 1].cfg, op[c].parts) # seen[c].part
               PROVE  \E j \in (seen[c].rev + 1)..(i - 1) : Outsider(j)
    BY DEF EditLosesOnlyToOutsiders
  <2>1. Len(log) \in Nat /\ i # 1
    BY LogType DEF IInv, DeployedBy
  <2>2. SeenPart(c, i - 1)
    BY DEF IInv, SeenQuietInv
  <2>3. seen[c].rev \in 1..(i - 1) /\ seen[c].rev # i - 1
    BY <2>2 DEF SeenPart
  <2>4. i - 1 \in 1..Len(log) /\ i - 1 \in (seen[c].rev + 1)..(i - 1)
    BY <2>1, <2>3
  <2>5. Outsider(i - 1)
    BY <2>2, <2>3, <2>4 DEF SeenPart, OnlyOutsiders
  <2> QED BY <2>4, <2>5
<1> QED BY <1>1, Inductive, PTL

(* An error that is no transport error means that the write did not happen
   and will not; success means that it did. *)
THEOREM ErrorsAreFinal == Spec => []DefiniteErrorIsFinal
<1>1. IInv => DefiniteErrorIsFinal
  BY DEF IInv, RequestInv, AuthorInv, DefiniteErrorIsFinal
<1> QED BY <1>1, Inductive, PTL

(* No call is deployed twice. *)
THEOREM AtMostOnce == Spec => []DeployedAtMostOnce
<1>1. IInv => DeployedAtMostOnce
  BY DEF IInv, AuthorInv
<1> QED BY <1>1, Inductive, PTL

(* Every write, however late it is served, has a backup that Node-RED ran
   before it. *)
THEOREM WritesHaveBackups == Spec => []NoWriteWithoutBackup
<1>1. IInv => NoWriteWithoutBackup
  <2> SUFFICES ASSUME IInv, NEW c \in Calls, NEW i \in 1..Len(log), DeployedBy(i, c)
               PROVE  \E b \in backups : b.by = c /\ \E j \in 1..(i - 1) : log[j].cfg = b.cfg
    BY DEF NoWriteWithoutBackup
  <2>1. req[c] = "applied" /\ Len(log) \in Nat
    BY LogType DEF IInv, AuthorInv, DeployedBy
  <2>2. /\ [by |-> c, cfg |-> base[c].cfg] \in backups
        /\ base[c].rev \in 1..Len(log) /\ log[base[c].rev].cfg = base[c].cfg
    BY <2>1 DEF IInv, BackupInv, BackedUp, BaseInv, Fetched
  <2>3. base[c].rev \in 1..(i - 1)
    BY <2>1, <2>2 DEF IInv, DeployInv
  <2> DEFINE b == [by |-> c, cfg |-> base[c].cfg]
  <2>4. b \in backups /\ b.by = c /\ log[base[c].rev].cfg = b.cfg
    BY <2>2
  <2> QED BY <2>3, <2>4
<1> QED BY <1>1, Inductive, PTL

-----------------------------------------------------------------------------
(* The effect of a call as a fact about its request. *)
LEMMA EffectIsApplied ==
  ASSUME IInv
  PROVE  Effect = [c \in Calls |-> IF req[c] = "applied" THEN "done" ELSE "none"]
<1>1. ASSUME NEW c \in Calls
      PROVE  (\E i \in 1..Len(log) : log[i].by = c) <=> req[c] = "applied"
  BY DEF IInv, AuthorInv
<1> QED BY <1>1 DEF Effect

(* Every step of the client and of Node-RED is a step of the promise: serving
   a request is the effect, a return is the answer, the rest is invisible. *)
LEMMA PromiseStep ==
  ASSUME IInv, IInv', [Next]_vars
  PROVE  [Promise!Next]_(Promise!vars)
<1> DEFINE done(r) == [c \in Calls |-> IF r[c] = "applied" THEN "done" ELSE "none"]
<1>1. Effect = done(req) /\ Effect' = done(req')
  <2>1. ASSUME NEW c \in Calls
        PROVE  (\E i \in 1..Len(log') : log'[i].by = c) <=> req'[c] = "applied"
    BY DEF IInv, AuthorInv
  <2> QED BY <2>1, EffectIsApplied DEF Effect
<1>2. req \in [Calls -> {"none", "inflight", "applied", "refused", "dropped"}]
      /\ outcome \in [Calls -> {"none", "ok", "error", "transport"}]
  BY DEF IInv, TypeOK
<1>3. ASSUME NEW c \in Calls, Apply(c) PROVE Promise!Happen(c)
  <2>1. req[c] = "inflight" /\ req' = [req EXCEPT ![c] = "applied"] /\ outcome' = outcome
    BY <1>3 DEF Apply, clientVars
  <2>2. Effect[c] = "none" /\ Effect' = [Effect EXCEPT ![c] = "done"]
    BY <1>1, <1>2, <2>1
  <2>3. outcome[c] \in {"none", "transport"}
    BY <1>2, <2>1 DEF IInv, RequestInv
  <2> QED BY <2>1, <2>2, <2>3 DEF Promise!Happen
<1>4. ASSUME NEW c \in Calls, NEW result \in {"ok", "error", "transport"}, Return(c, result),
             outcome[c] = "none",
             result = "ok" => req[c] = "applied", result = "error" => req[c] # "applied"
      PROVE  Promise!Answer(c, result)
  <2>1. outcome' = [outcome EXCEPT ![c] = result] /\ req' = req
    BY <1>4 DEF Return
  <2>2. Effect' = Effect /\ Effect[c] = (IF req[c] = "applied" THEN "done" ELSE "none")
    BY <1>1, <2>1
  <2> QED BY <1>4, <2>1, <2>2 DEF Promise!Answer
<1>5. ASSUME NEW c \in Calls, Refuse(c) \/ Receive(c) \/ Timeout(c)
      PROVE  \E result \in {"ok", "error", "transport"} : Promise!Answer(c, result)
  <2>1. outcome[c] = "none"
    BY <1>5, <1>2 DEF IInv, RequestInv, Refuse, Receive, Timeout, Exchanging, Holding
  <2>2. CASE Refuse(c)
    <3>1. req[c] = "none" /\ Return(c, "error")
      BY <2>2 DEF IInv, RequestInv, Refuse, Holding
    <3> QED BY <1>4, <2>1, <3>1
  <2>3. CASE Receive(c)
    <3>1. \/ req[c] = "applied" /\ Return(c, "ok")
          \/ req[c] = "refused" /\ Return(c, "error")
      BY <2>3 DEF Receive
    <3> QED BY <1>4, <2>1, <3>1
  <2>4. CASE Timeout(c)
    <3>1. Return(c, "transport")
      BY <2>4 DEF Timeout
    <3> QED BY <1>4, <2>1, <3>1
  <2> QED BY <1>5, <2>2, <2>3, <2>4
<1>6. ASSUME outcome' = outcome, done(req') = done(req) PROVE UNCHANGED Promise!vars
  BY <1>1, <1>6 DEF Promise!vars
<1>7. ASSUME NEW c \in Calls,
             \/ Begin(c) \/ Acquire(c) \/ ReadPart(c) \/ Fetch(c) \/ Save(c)
      PROVE  UNCHANGED Promise!vars
  BY <1>6, <1>7 DEF Begin, Acquire, ReadPart, Fetch, Save
<1>8. ASSUME NEW c \in Calls, Send(c) \/ Reject(c) \/ Drop(c) PROVE UNCHANGED Promise!vars
  <2>1. req[c] # "applied" /\ outcome' = outcome
    BY <1>8 DEF IInv, RequestInv, Holding, Send, Reject, Drop, clientVars
  <2>2. \E r \in {"inflight", "refused", "dropped"} : req' = [req EXCEPT ![c] = r]
    BY <1>8 DEF Send, Reject, Drop
  <2>3. done(req') = done(req)
    BY <1>2, <2>1, <2>2
  <2> QED BY <1>6, <2>1, <2>3
<1>9. ASSUME (\E e \in Editors : EditorDeploys(e)) \/ Crash \/ UNCHANGED vars
      PROVE  UNCHANGED Promise!vars
  BY <1>6, <1>9 DEF EditorDeploys, Crash, clientVars, vars
<1> QED
  BY <1>3, <1>5, <1>7, <1>8, <1>9 DEF Next, Proceed, Serve, Promise!Next

(* The client implements WritePromise. *)
THEOREM ClientKeepsPromise == Spec => KeepsPromise
<1>1. Init => Promise!Init
  <2> SUFFICES ASSUME Init PROVE Promise!Init
    OBVIOUS
  <2>1. Effect = [c \in Calls |-> "none"]
    BY InvInit, EffectIsApplied DEF Init
  <2> QED BY <2>1 DEF Init, Promise!Init
<1>2. IInv /\ IInv' /\ [Next]_vars => [Promise!Next]_(Promise!vars)
  BY PromiseStep
<1> QED BY <1>1, <1>2, Inductive, PTL DEF Spec, KeepsPromise, Promise!Spec
=============================================================================
