----------------------------- MODULE FlowWrites -----------------------------
(***************************************************************************)
(* The write path of nodered.Client: goroutines of one MCP process that    *)
(* change the flow configuration of a live Node-RED, while an editor that  *)
(* knows nothing of them deploys as well.                                  *)
(*                                                                         *)
(* Every mutating method has the same skeleton (internal/nodered):         *)
(*                                                                         *)
(*    writeMu  ->  [read the part to edit]  ->  read the configuration     *)
(*             ->  validate, save the backup  ->  send  ->  answer         *)
(*                                                                         *)
(* but they differ in what protects the last arrow.  A tab update carries  *)
(* the revision it was computed from and Node-RED answers 409 when that is *)
(* stale; create, delete, restore, set_flows and the subflow PUT carry no  *)
(* revision at all.                                                        *)
(*                                                                         *)
(* A request that was sent is not withdrawn by the deadline of the call    *)
(* that sent it: the call unlocks and answers, and Node-RED may still      *)
(* serve the request later.  That is what "late" means below.              *)
(***************************************************************************)
EXTENDS Integers, Sequences, FiniteSets

CONSTANTS
  Calls,       \* one per call of a mutating method: it runs at most once
  Editors,     \* deployments of the Node-RED editor: each happens at most once
  Tabs,        \* identifiers a flow tab can have
  Subflows,    \* identifiers a subflow definition can have
  Global,      \* the subject of a call that is about no tab
  TabEntry,    \* the entry of a configuration that is the tab itself
  Boot,        \* the author of the first configuration
  Free,        \* nobody holds writeMu
  Kinds,       \* the mutating methods of this instance
  Initial      \* the configuration Node-RED runs at first

(* updateFlowLocked is the only path that deploys with a revision. *)
Revisioned == {"edit", "update"}
(* These read the part they are about to change, and change that copy. *)
ReadModifyWrite == {"edit", "subflow"}
AllKinds == Revisioned \cup {"create", "delete", "replace", "subflow"}

Owners == Tabs \cup Subflows
Items == Calls \cup Editors \cup {TabEntry}
(* The flat array of GET /flows: an entry is its owner (z) and its content,
   named by who wrote it. *)
Config == SUBSET (Owners \X Items)

ASSUME CallsAssumption ==
  /\ Free \notin Calls
  /\ Calls \cap Editors = {}
  /\ Boot \notin Calls
  /\ TabEntry \notin Calls
ASSUME OwnersAssumption == Global \notin Tabs /\ Tabs \cap Subflows = {}
ASSUME KindsAssumption == Kinds \subseteq AllKinds
ASSUME InitialAssumption == Initial \in Config

VARIABLES
  pc,        \* how far each call is
  op,        \* what it does: [kind, owner, parts], the parts are the owners
             \* whose entries it replaces
  doc,       \* the entries it wants them (or the configuration) to have
  seen,      \* the first read of an edit: the revision it happened at, the part
  base,      \* the read of the whole configuration: its revision and content
  req,       \* the state of its one mutating request
  outcome,   \* what the method returned
  mu,        \* Client.writeMu: its holder, or Free
  log,       \* every configuration Node-RED has run, the last one is current
  backups,   \* the snapshots saved, and by whom
  crashed    \* the MCP process was restarted

clientVars == <<pc, op, doc, seen, base, outcome, mu, backups>>
vars == <<pc, op, doc, seen, base, req, outcome, mu, log, backups, crashed>>

Rev == Len(log)
Current == log[Len(log)].cfg
Entries(cfg, parts) == {e \in cfg : e[1] \in parts}
HasTab(cfg, t) == <<t, TabEntry>> \in cfg

(* Swap the entries of some owners, leave every other entry where it is. *)
ReplaceEntries(cfg, parts, entries) == (cfg \ Entries(cfg, parts)) \cup entries

(* The states in which a call is inside writeGuard. *)
Holding == {"open", "edited", "fetched", "saved", "sent"}
(* ... and those of them that wait for Node-RED, or are about to. *)
Exchanging == Holding \ {"fetched"}

-----------------------------------------------------------------------------
(* What a caller may ask for. *)

OwnersOf(kind) == IF kind \in {"create", "replace", "subflow"} THEN {Global} ELSE Tabs

(* A submitted tab brings along the definitions nested in it; the definitions
   are read and put as a whole. *)
PartsOf(kind, owner) ==
  CASE kind = "update"  -> { {owner} \cup nested : nested \in SUBSET Subflows }
    [] kind = "subflow" -> { Subflows }
    [] kind \in {"create", "replace"} -> { {} }
    [] OTHER -> { {owner} }

Operations ==
  UNION { UNION { {[kind |-> kind, owner |-> owner, parts |-> parts] :
                     parts \in PartsOf(kind, owner)} : owner \in OwnersOf(kind) } :
            kind \in Kinds }

(* A member of a nested definition whose z names another owner is filed there;
   a node of the tab itself may not do that. *)
Strays(c, o) ==
  {{}} \cup IF o.parts = {o.owner} THEN {} ELSE { {<<p, c>>} : p \in Owners \ o.parts }

(* The documents a caller may submit.  set_flows submits a configuration of the
   caller's making, a restore what some backup holds; it was read before the
   lock was taken. *)
Documents(c, o) ==
  CASE o.kind = "update"  -> { {<<o.owner, TabEntry>>} \cup (o.parts \X {c}) \cup stray :
                                 stray \in Strays(c, o) }
    [] o.kind = "replace" -> { (Tabs \X {TabEntry}) \cup (Owners \X {c}) }
                               \cup { b.cfg : b \in backups }
    [] OTHER -> { {} }

(* What an edit may make of the part it read: add an item, or drop one. *)
EditResults(c, parts, read) ==
  { read \cup {<<p, c>>} : p \in parts }
    \cup { read \ {e} : e \in {x \in read : x[2] # TabEntry} }

(* A method is called. *)
Begin(c) ==
  /\ pc[c] = "idle"
  /\ \E o \in Operations : \E d \in Documents(c, o) :
       /\ op' = [op EXCEPT ![c] = o]
       /\ doc' = [doc EXCEPT ![c] = d]
  /\ pc' = [pc EXCEPT ![c] = "lock"]
  /\ UNCHANGED <<seen, base, req, outcome, mu, log, backups, crashed>>

(* Mutant: the method does not take writeMu. *)
AcquireNothing(c) ==
  /\ pc[c] = "lock"
  /\ mu' = c
  /\ pc' = [pc EXCEPT ![c] = "open"]
  /\ UNCHANGED <<op, doc, seen, base, req, outcome, log, backups, crashed>>

(* writeGuard: a plain mutex, waited for whatever the deadline says. *)
Acquire(c) ==
  /\ pc[c] = "lock"
  /\ mu = Free
  /\ mu' = c
  /\ pc' = [pc EXCEPT ![c] = "open"]
  /\ UNCHANGED <<op, doc, seen, base, req, outcome, log, backups, crashed>>

(* Mutant: a return that forgets the unlock. *)
ReturnLocked(c, result) ==
  /\ pc' = [pc EXCEPT ![c] = "done"]
  /\ outcome' = [outcome EXCEPT ![c] = result]
  /\ UNCHANGED <<op, doc, seen, base, req, mu, log, backups, crashed>>

(* Every return runs the deferred unlock. *)
Return(c, result) ==
  /\ pc' = [pc EXCEPT ![c] = "done"]
  /\ outcome' = [outcome EXCEPT ![c] = result]
  /\ mu' = Free
  /\ UNCHANGED <<op, doc, seen, base, req, log, backups, crashed>>

(* Mutant: the read of the part is its own critical section. *)
ReadPartUnlocking(c) ==
  /\ pc[c] = "open"
  /\ op[c].kind \in ReadModifyWrite
  /\ op[c].owner \in Tabs => HasTab(Current, op[c].owner)
  /\ LET part == Entries(Current, op[c].parts) IN
       /\ seen' = [seen EXCEPT ![c] = [rev |-> Rev, part |-> part]]
       /\ \E d \in EditResults(c, op[c].parts, part) : doc' = [doc EXCEPT ![c] = d]
  /\ pc' = [pc EXCEPT ![c] = "edited"]
  /\ mu' = Free
  /\ UNCHANGED <<op, base, req, outcome, log, backups, crashed>>

(* editFlow and the subflow methods read the part they change and compute
   the new one.  GET /flow/:id of a tab that is gone is a 404. *)
ReadPart(c) ==
  /\ pc[c] = "open"
  /\ op[c].kind \in ReadModifyWrite
  /\ op[c].owner \in Tabs => HasTab(Current, op[c].owner)
  /\ LET part == Entries(Current, op[c].parts) IN
       /\ seen' = [seen EXCEPT ![c] = [rev |-> Rev, part |-> part]]
       /\ \E d \in EditResults(c, op[c].parts, part) : doc' = [doc EXCEPT ![c] = d]
  /\ pc' = [pc EXCEPT ![c] = "edited"]
  /\ UNCHANGED <<op, base, req, outcome, mu, log, backups, crashed>>

(* GET /flows: with a revision in deployFlowUpdate, without one in
   snapshotFlows.  The backup will be these very bytes. *)
Fetch(c) ==
  /\ IF op[c].kind \in ReadModifyWrite THEN pc[c] = "edited" ELSE pc[c] = "open"
  /\ base' = [base EXCEPT ![c] = [rev |-> Rev, cfg |-> Current]]
  /\ pc' = [pc EXCEPT ![c] = "fetched"]
  /\ UNCHANGED <<op, doc, seen, req, outcome, mu, log, backups, crashed>>

(* Mutant: the write goes on without its backup. *)
SaveNothing(c) ==
  /\ pc[c] = "fetched"
  /\ op[c].kind \in Revisioned => HasTab(base[c].cfg, op[c].owner)
  /\ pc' = [pc EXCEPT ![c] = "saved"]
  /\ UNCHANGED <<op, doc, seen, base, req, outcome, mu, log, backups, crashed>>

(* saveFlowSnapshot, after the merge and the validations of a tab update. *)
Save(c) ==
  /\ pc[c] = "fetched"
  /\ op[c].kind \in Revisioned => HasTab(base[c].cfg, op[c].owner)
  /\ backups' = backups \cup {[by |-> c, cfg |-> base[c].cfg]}
  /\ pc' = [pc EXCEPT ![c] = "saved"]
  /\ UNCHANGED <<op, doc, seen, base, req, outcome, mu, log, crashed>>

(* Mutant: the deployment omits the revision it was computed from. *)
RequestRevOmitted(c) == 0

(* The revision the request carries; 0 is none. *)
RequestRev(c) == IF op[c].kind \in Revisioned THEN base[c].rev ELSE 0

(* Mutant: the deployment posts the tab alone. *)
DeployBodyTabOnly(c) == doc[c]

(* The body deployFlowUpdate posts: the whole array, with the entries of the
   tab, and of the definitions nested in it, replaced. *)
DeployBody(c) == ReplaceEntries(base[c].cfg, op[c].parts, doc[c])

(* The one mutating request of the call leaves the process. *)
Send(c) ==
  /\ pc[c] = "saved"
  /\ req' = [req EXCEPT ![c] = "inflight"]
  /\ pc' = [pc EXCEPT ![c] = "sent"]
  /\ UNCHANGED <<op, doc, seen, base, outcome, mu, log, backups, crashed>>

(* A validation, the node policy, an APIError of a read, a directory that
   cannot be written: the method returns before anything was sent. *)
Refuse(c) ==
  /\ pc[c] \in {"open", "edited", "fetched"}
  /\ Return(c, "error")

(* The answer arrives in time. *)
Receive(c) ==
  /\ pc[c] = "sent"
  /\ \/ req[c] = "applied" /\ Return(c, "ok")
     \/ req[c] = "refused" /\ Return(c, "error")

(* Mutant: a broken exchange is reported as a plain failure. *)
TimeoutAsError(c) ==
  /\ pc[c] \in Exchanging
  /\ Return(c, "error")

(* The deadline passes, or the connection breaks, at a point where the
   method talks to Node-RED: a TransportError, and the locks are released.
   A request already sent stays where it is. *)
Timeout(c) ==
  /\ pc[c] \in Exchanging
  /\ Return(c, "transport")

-----------------------------------------------------------------------------
(* Node-RED, as the client uses it. *)

Append1(cfg, who, late) == log' = Append(log, [cfg |-> cfg, by |-> who, late |-> late])

(* The client is gone, or has answered its caller already. *)
GaveUp(c) == pc[c] # "sent"

(* A request with a revision is refused (409) unless that is the revision
   Node-RED runs; a DELETE of a tab that is gone is a 404. *)
Accepts(c) ==
  /\ RequestRev(c) # 0 => RequestRev(c) = Rev
  /\ op[c].kind = "delete" => HasTab(Current, op[c].owner)

(* What Node-RED runs once it has served the request. *)
Results(c) ==
  CASE op[c].kind \in Revisioned -> {DeployBody(c)}
    [] op[c].kind = "create"  ->
         { Current \cup {<<t, TabEntry>>, <<t, c>>} :
             t \in {t \in Tabs : Entries(Current, {t}) = {}} }
    [] op[c].kind = "delete"  -> {ReplaceEntries(Current, op[c].parts, {})}
    [] op[c].kind = "replace" -> {doc[c]}
    [] OTHER -> {ReplaceEntries(Current, op[c].parts, doc[c])}

Apply(c) ==
  /\ req[c] = "inflight"
  /\ Accepts(c)
  /\ \E cfg \in Results(c) : Append1(cfg, c, GaveUp(c))
  /\ req' = [req EXCEPT ![c] = "applied"]
  /\ UNCHANGED <<clientVars, crashed>>

(* A conflict, or any other non-2xx answer: nothing changes. *)
Reject(c) ==
  /\ req[c] = "inflight"
  /\ req' = [req EXCEPT ![c] = "refused"]
  /\ UNCHANGED <<clientVars, log, crashed>>

(* The request never reaches Node-RED. *)
Drop(c) ==
  /\ req[c] = "inflight"
  /\ req' = [req EXCEPT ![c] = "dropped"]
  /\ UNCHANGED <<clientVars, log, crashed>>

(* Somebody deploys from the Node-RED editor: adds to a part, drops a tab. *)
EditorDeploys(e) ==
  /\ \A i \in 1..Len(log) : log[i].by # e
  /\ \E o \in Subflows \cup {t \in Tabs : HasTab(Current, t)} :
       \/ Append1(Current \cup {<<o, e>>}, e, FALSE)
       \/ o \in Tabs /\ Append1(ReplaceEntries(Current, {o}, {}), e, FALSE)
  /\ UNCHANGED <<clientVars, req, crashed>>

(* The MCP process dies and is started again: its calls and its mutex are
   gone, its backups and what it had sent are not. *)
Crash ==
  /\ ~crashed
  /\ crashed' = TRUE
  /\ pc' = [c \in Calls |-> IF pc[c] \in {"idle", "done"} THEN pc[c] ELSE "gone"]
  /\ mu' = Free
  /\ UNCHANGED <<op, doc, seen, base, req, outcome, log, backups>>

-----------------------------------------------------------------------------
Init ==
  /\ pc = [c \in Calls |-> "idle"]
  /\ op = [c \in Calls |-> [kind |-> "none", owner |-> Global, parts |-> {}]]
  /\ doc = [c \in Calls |-> {}]
  /\ seen = [c \in Calls |-> [rev |-> 0, part |-> {}]]
  /\ base = [c \in Calls |-> [rev |-> 0, cfg |-> {}]]
  /\ req = [c \in Calls |-> "none"]
  /\ outcome = [c \in Calls |-> "none"]
  /\ mu = Free
  /\ log = <<[cfg |-> Initial, by |-> Boot, late |-> FALSE]>>
  /\ backups = {}
  /\ crashed = FALSE

(* What the goroutine of a call does by itself. *)
Proceed(c) ==
  \/ Acquire(c) \/ ReadPart(c) \/ Fetch(c) \/ Save(c) \/ Send(c)
  \/ Refuse(c) \/ Receive(c) \/ Timeout(c)

Serve(c) == Apply(c) \/ Reject(c) \/ Drop(c)

Next ==
  \/ \E c \in Calls : Begin(c) \/ Proceed(c) \/ Serve(c)
  \/ \E e \in Editors : EditorDeploys(e)
  \/ Crash

(* The Go scheduler runs every goroutine, an expired context ends every
   exchange, and sync.Mutex does not starve a waiter.  Nothing is assumed of
   Node-RED, of the network, or of callers. *)
Fairness == \A c \in Calls : WF_vars(Proceed(c))

Spec == Init /\ [][Next]_vars /\ Fairness

-----------------------------------------------------------------------------
PCs == {"idle", "lock", "done", "gone"} \cup Holding

TypeOK ==
  /\ pc \in [Calls -> PCs]
  /\ op \in [Calls -> [kind : AllKinds \cup {"none"}, owner : Tabs \cup {Global},
                    parts : SUBSET Owners]]
  /\ doc \in [Calls -> Config]
  /\ seen \in [Calls -> [rev : Nat, part : Config]]
  /\ base \in [Calls -> [rev : Nat, cfg : Config]]
  /\ req \in [Calls -> {"none", "inflight", "applied", "refused", "dropped"}]
  /\ outcome \in [Calls -> {"none", "ok", "error", "transport"}]
  /\ mu \in Calls \cup {Free}
  /\ log \in Seq([cfg : Config, by : Calls \cup Editors \cup {Boot}, late : BOOLEAN])
  /\ Len(log) > 0
  /\ backups \subseteq [by : Calls, cfg : Config]
  /\ crashed \in BOOLEAN

(* Deployment i was made by somebody who did not hold writeMu then: an
   editor, or a request whose call had given up on it. *)
Outsider(i) == log[i].by \in Editors \/ log[i].late

(* i is the deployment of call c. *)
DeployedBy(i, c) == i \in 2..Len(log) /\ log[i].by = c

(* A tab update never destroys a configuration that is not in its backup,
   whatever the editor does and however late Node-RED serves the request:
   deployFlowUpdate saves the very read whose revision it deploys with. *)
UpdateBackupIsExact ==
  \A c \in Calls : \A i \in 1..Len(log) :
    DeployedBy(i, c) /\ op[c].kind \in Revisioned
      => [by |-> c, cfg |-> log[i - 1].cfg] \in backups

(* What a tab update may bring into parts that are not its own: members of
   the definitions nested in it. *)
Filed(c) == IF op[c].parts = {op[c].owner} THEN {} ELSE doc[c]

(* A tab update changes nothing but its tab and the definitions submitted with
   it, although it posts the whole configuration: what others deployed
   elsewhere is never undone, and what is new there came with a definition
   (flows_update.go:94-129, 157-161). *)
UpdateKeepsOtherOwners ==
  \A c \in Calls : \A i \in 1..Len(log) :
    DeployedBy(i, c) /\ op[c].kind \in Revisioned
      => \A o \in Owners \ op[c].parts :
           /\ Entries(log[i - 1].cfg, {o}) \subseteq Entries(log[i].cfg, {o})
           /\ Entries(log[i].cfg, {o}) \subseteq Entries(log[i - 1].cfg, {o}) \cup Filed(c)

(* Writes without a revision rely on writeMu alone.  A write served while
   its call still waits has the replaced configuration in its backup, unless
   an outsider deployed after the snapshot was read. *)
SnapshotExactUnlessRaced ==
  \A c \in Calls : \A i \in 1..Len(log) :
    DeployedBy(i, c) /\ ~log[i].late
      => \/ [by |-> c, cfg |-> log[i - 1].cfg] \in backups
         \/ \E j \in (base[c].rev + 1)..(i - 1) : Outsider(j)

(* editFlow and the subflow methods never lose what another call of this
   client wrote: the part a read-modify-write replaces is the part it read,
   unless an outsider deployed since. *)
EditLosesOnlyToOutsiders ==
  \A c \in Calls : \A i \in 1..Len(log) :
    DeployedBy(i, c) /\ ~log[i].late /\ op[c].kind \in ReadModifyWrite
      => \/ Entries(log[i - 1].cfg, op[c].parts) = seen[c].part
         \/ \E j \in (seen[c].rev + 1)..(i - 1) : Outsider(j)

(* An error that is not a transport error is final: the write did not
   happen and cannot happen any more.  isTransportError relies on it when it
   reports every other error as a plain failure. *)
DefiniteErrorIsFinal ==
  \A c \in Calls :
    /\ outcome[c] = "error" => /\ req[c] \notin {"inflight", "applied"}
                               /\ \A i \in 1..Len(log) : log[i].by # c
    /\ outcome[c] = "ok" => \E i \in 1..Len(log) : log[i].by = c

(* No call is deployed twice. *)
DeployedAtMostOnce ==
  \A i, j \in 1..Len(log) : log[i].by = log[j].by /\ log[i].by \in Calls => i = j

(* Whatever a write replaced, a configuration Node-RED ran earlier was saved
   for it before: also by a write that is served after the call gave up, and
   after a restart. *)
NoWriteWithoutBackup ==
  \A c \in Calls : \A i \in 1..Len(log) :
    DeployedBy(i, c) =>
      \E b \in backups : b.by = c /\ \E j \in 1..(i - 1) : log[j].cfg = b.cfg

(* Every call that was made returns, unless the process dies first. *)
EveryCallReturns ==
  \A c \in Calls : pc[c] = "lock" ~> pc[c] \in {"done", "gone"}

(* The effect of each call, as the log shows it. *)
Effect == [c \in Calls |-> IF \E i \in 1..Len(log) : log[i].by = c THEN "done" ELSE "none"]

Promise == INSTANCE WritePromise WITH effect <- Effect, answer <- outcome

(* The client keeps the promise the tools rely on. *)
KeepsPromise == Promise!Spec

(* flows.go, RestoreFlowsUnchecked: "the deployment still carries the usual
   snapshot, so the state being replaced can be recovered". *)
ReplacedStateIsRecoverable ==
  \A c \in Calls : \A i \in 1..Len(log) :
    DeployedBy(i, c) /\ op[c].kind = "replace"
      => \E b \in backups : b.cfg = log[i - 1].cfg

-----------------------------------------------------------------------------
(* Why all of this holds: the inductive invariant, part by part. *)

(* base[c] has been read and is not changed any more. *)
Fetched(c) == pc[c] \in {"fetched", "saved", "sent"} \/ req[c] # "none"
(* ... and its backup has been written. *)
BackedUp(c) == pc[c] \in {"saved", "sent"} \/ req[c] # "none"
(* The request of c can still be served, or will be sent. *)
Pending(c, pcs) == pc[c] \in pcs /\ req[c] # "applied"

MutexInv == \A c \in Calls : pc[c] \in Holding <=> mu = c

RequestInv ==
  \A c \in Calls :
    /\ pc[c] \in {"idle", "lock"} \cup (Holding \ {"sent"}) => req[c] = "none"
    /\ outcome[c] # "none" => pc[c] = "done"
    /\ outcome[c] = "error" => req[c] \in {"none", "refused"}
    /\ outcome[c] = "ok" => req[c] = "applied"

AuthorInv ==
  /\ log[1].by = Boot
  /\ \A i \in 1..Len(log) : log[i].by \in Calls => req[log[i].by] = "applied"
  /\ \A c \in Calls : req[c] = "applied" => \E i \in 1..Len(log) : log[i].by = c
  /\ DeployedAtMostOnce

BaseInv ==
  \A c \in Calls : Fetched(c) =>
    base[c].rev \in 1..Len(log) /\ log[base[c].rev].cfg = base[c].cfg

BackupInv ==
  \A c \in Calls : BackedUp(c) => [by |-> c, cfg |-> base[c].cfg] \in backups

DocInv ==
  \A c \in Calls : op[c].kind \in Revisioned =>
    \A e \in doc[c] : e[1] \in op[c].parts \/ op[c].parts # {op[c].owner}

(* A revisioned deployment replaces the revision it was computed from. *)
DeployInv ==
  \A c \in Calls : \A i \in 1..Len(log) : DeployedBy(i, c) =>
    /\ base[c].rev < i
    /\ op[c].kind \in Revisioned => base[c].rev = i - 1 /\ log[i].cfg = DeployBody(c)

(* Nobody but outsiders deploys between a read and the write it is for. *)
OnlyOutsiders(from, to) == \A j \in 1..Len(log) : from < j /\ j <= to => Outsider(j)

BaseQuietInv ==
  \A c \in Calls :
    /\ Pending(c, {"fetched", "saved", "sent"}) => OnlyOutsiders(base[c].rev, Len(log))
    /\ \A i \in 1..Len(log) :
         DeployedBy(i, c) /\ ~log[i].late => OnlyOutsiders(base[c].rev, i - 1)

SeenPart(c, limit) ==
  /\ seen[c].rev \in 1..limit
  /\ Entries(log[seen[c].rev].cfg, op[c].parts) = seen[c].part
  /\ OnlyOutsiders(seen[c].rev, limit)

SeenQuietInv ==
  \A c \in Calls : op[c].kind \in ReadModifyWrite =>
    /\ Pending(c, {"edited", "fetched", "saved", "sent"}) => SeenPart(c, Len(log))
    /\ \A i \in 1..Len(log) : DeployedBy(i, c) /\ ~log[i].late => SeenPart(c, i - 1)

IInv ==
  /\ TypeOK
  /\ MutexInv
  /\ RequestInv
  /\ AuthorInv
  /\ BaseInv
  /\ BackupInv
  /\ DocInv
  /\ DeployInv
  /\ BaseQuietInv
  /\ SeenQuietInv
=============================================================================
