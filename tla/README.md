# nodered-mcp in TLA+

A verification development for `nodered-mcp`, the Go server that lets an MCP
client (an LLM agent) read and change a *live* Node-RED through its Admin API.
The modules model what is concurrent, fallible and hard to test in it; TLC
checks small instances, TLAPS proves the important results for every instance.

All source paths below are relative to the repository's root.

## 1. The system

```
 MCP client --stdio/HTTP--> tool wrapper --> handlers --> nodered.Client --HTTP--> Node-RED
                            (deadline,       (ctxHelperMu)   (writeMu)              ^   ^
                             retries)                          |                    |   |
                                                        backup directory      editor   other
                                                                                       processes
                            comms tail, status tail  <----- websocket /comms -----------'
```

The process keeps very little state; the configuration it changes belongs to
Node-RED, where others change it too. So the hard questions are about *what a
write replaces*: between every read and the write computed from it, something
else may have happened, and an answer that did not arrive says nothing.

| part | state | operations | model |
|---|---|---|---|
| client write path (`internal/nodered/{client,edit,flows,flows_update,settings,subflows}.go`) | `writeMu`; per call: what it read, its one request | create, update, delete, set, restore a configuration; add, update, delete, connect nodes; create, update a subflow | `FlowWrites`, `WritePromise` |
| tool wrapper and locks (`internal/mcp/server.go`, `context_helper_mutex.go`) | `ctxHelperMu` (a channel with one token), the context of an attempt | read tools (three attempts), write tools (one), `restore_backup` and `set_context` (lock inside the handler) | `ToolCalls` |
| backup store (`internal/nodered/backup.go`) | the directory, the counter of the process, the clock | save, prune, list, read | `Backups` |
| context helper (`internal/mcp/setcontext*.go`, `tools_context.go`) | `ctxHelper`; the helper tab lives in Node-RED | set_context: discover, create, inject; restore_backup forgets the helper | `ContextHelper` |
| debug tail (`internal/nodered/comms.go`) | the ring, its counters, the connection state | connect, authenticate, subscribe, read, back off; snapshot | `CommsTail`, `DebugTail` |
| status tail (`internal/nodered/status.go`) | the last status of every node, the connection state | the loop of the debug tail; record; get_node_status | `CommsTail`, `StatusTail` |
| flow documents (`internal/nodered/{edit,flows_update,subflows,validate,validate_deploy,policy}.go`) | none; the configuration is Node-RED's | edits of a tab, flattening and overlay, subflow definitions, rules and policy | `FlowRules`, `FlowEdits`, `Subflows`, `Documents` |
| version cache and gate (`internal/nodered/version.go`, `internal/mcp/version_gate.go`, `capability.go`) | `versionCache` (the Once, the value, probed) | the probe at start, get_runtime_info, the gate and the notice of payload tools | `VersionGate` |
| HTTP transport (`internal/mcp/server.go`, `http_ratelimit.go`, `httpauth.go`, `http_observe.go`) | the buckets of the clients | start, body cap, limiter, authentication, shutdown | `FrontDoor` |
| OAuth keys (`internal/oauth`) | the cached keys and when they were fetched | look up, fetch, install, look again | `Keyset` |
| `init` (`cmd/nodered-mcp/init.go`) | the configuration file of an MCP client and its `.bak` | detect, merge, back up, replace | `ClientConfig` |
`PROJECT.json` lists every component with its sources and its status, and under
`hazards` every place in the code where something can go wrong that a test
would hardly reach, with the properties that watch it.

### How the parts interact

* A write tool runs under `ctxHelperMu`; inside it, a method that changes the
  configuration, the palette (`nodes.go:54`, `76`, `90`) or the state of the
  flows (`settings.go:106`) takes `writeMu`. `restore_backup` and `set_context`
  take `ctxHelperMu` in their handlers, after a prelude. Reads and injections take
  no `writeMu`.
* `nodered.Client` answers with one of three things: a value, a definite error,
  or a `TransportError`. The wrapper repeats reads after a `TransportError` and
  never writes; it words the transport error of a write as indeterminate.
  `WritePromise` is that contract: `FlowWrites` implements it, `ToolCalls`
  assumes it of the method and implements it towards the MCP client.
* Every mutating method saves a snapshot before it sends (`FlowWrites` abstracts
  the directory to a set that only grows; `Backups` is the directory).
* A request that was sent is not withdrawn when its call gives up. Node-RED may
  serve it later, beside other writes, after a restart of this process even.

### What is hard, and the property it must have

* *Lost update*: a node edit reads, changes, and deploys. Nobody but an outsider
  may come between (`EditLosesOnlyToOutsiders`); a tab update posts the whole
  configuration and must change nothing but its tab and the definitions
  submitted with it (`UpdateKeepsOtherOwners`).
* *Unrecoverable replacement*: the backup must hold what was replaced
  (`UpdateBackupIsExact`, `SnapshotExactUnlessRaced`, `NoWriteWithoutBackup`),
  and must still be there (`BackupOutlivesWrite`, `PruneKeepsNewest`).
* *Wrong answers*: a definite error must mean that nothing happens any more
  (`KeepsPromise`; `DefiniteErrorIsFinal` is proved), "not started" must be true
  (`NotStartedIsTrue`), and nothing may happen twice (`DeliveredAtMostOnce`;
  `DeployedAtMostOnce` and `WritesActAtMostOnce` are proved).
* *Locks and cancellation*: a deadline passing while a lock is granted must
  neither lose nor double it (`TokenIsConserved`), a handler must not sit in a
  wait that no deadline interrupts (`WriteMuIsFree`, proved), a restore must not
  take the helper from under a `set_context` (`HelperIsPublished`), every call
  must be answered (`EveryCallReturns`, `EveryCallIsAnswered`).
* *Documents*: a write goes through a nested view, a flattening and an overlay;
  it must do what its tool says and no more (`EditIsExact`), stay within its tab
  (`TabsAreApart`), and leave neither a wire nor an instance without its end,
  whatever came between its reads and its deployment (`TabIsSound`,
  `InstancesResolve`), nor bring in what the operator forbids (`PolicyHolds`).
* *Caches*: a key, a bucket, a status, the version are read while others replace
  them, and after what they describe has changed (`WithdrawnKeyExpires`,
  `PublishedKeyIsFound`, `RateHolds`, `AnswersAreCurrent`, `AnswersAgree`).

* *Tails*: over every failure of the socket, a snapshot must show the newest
  messages in their order (`SnapshotIsTail`, `RecordedInOrder`) beside a
  connection state and a reason that belong together (`StateIsHonest`), and the
  loop must go on until the server stops it (`Reconnects`, `Stops`, `StatusArrives`).

## 2. The modules

| module | what it is |
|---|---|
| `WritePromise` | abstract specification: what a mutating method promises its caller |
| `FlowWrites` | the client's write path beside an editor, late requests and a restart |
| `FlowWritesProofs` | its theorems |
| `ToolCalls` | deadlines, retries, the two mutexes and the classification of errors |
| `ToolCallsProofs` | its theorems |
| `Backups` | the backup directory shared by processes, with a wall clock |
| `BackupsProofs` | its theorems |
| `MCFlowWrites`, `MCToolCalls`, `MCBackups` | instances for TLC |
| `ContextHelper` | set_context beside other writes, restores, editors and late requests |
| `ContextHelperProofs` | its theorems |
| `MCContextHelper` | its instances |
| `CommsTail` | the connection loop both tails of `/comms` have |
| `DebugTail` | the ring of the debug tail on that loop |
| `MCDebugTail` | its instances |
| `StatusTail` | the status cache on the loop of `CommsTail`, and a query during deployments |
| `TailProofs` | theorems of `DebugTail` and of `StatusTail`, whose names differ for its sake |
| `MCStatusTail` | its instance |
| `FlowRules` | entries, documents, the structural rules and the node policy, as predicates |
| `FlowEdits` | edits of a tab, flattening, owners, overlay, as functions |
| `Subflows` | definitions, references to them, instances |
| `Documents` | the tools over them: two calls and an editor in every interleaving |
| `RuntimeProofs` | theorems of `Documents` and of `VersionGate` |
| `MCDocuments` | its instance |
| `VersionGate` | the one probe, the reads that never probe, a Node-RED that is replaced |
| `MCVersionGate` | its instance |
| `Keyset` | the key cache with overlapping fetches and a provider that rotates |
| `FrontDoor` | the HTTP transport around it: start, buckets, authentication, shutdown |
| `FrontDoorProofs` | theorems of both |
| `MCFrontDoor` | its instance |
| `ClientConfig` | init beside an editor and a second init |
| `ClientConfigProofs` | its theorems |
| `MCClientConfig` | its instance |

### FlowWrites

One *call* of a mutating method is `pc`, `op` (the kind of method, the owner it is
about, and the owners whose entries it replaces), `doc` (the entries it wants), `seen` and `base` (its two reads), `req`
(its one mutating request) and `outcome`. Node-RED is `log`, every configuration
it has run with who deployed it; its revision is the length of the log (Node-RED
uses a hash of the content; like a counter, it changes whenever the content
does, and a return to an older content would only make the check of a revision
weaker in a case where there is nothing to lose). A configuration is the flat
array of `GET /flows` as a set of pairs of owner (`z`) and author: that is what
"whose entry was overwritten" needs, the rest of an entry is abstracted. An owner
is a tab or a subflow definition: a document submitted with `update_flow` may nest
definitions, whose entries are replaced with those of the tab
(`flows_update.go:94-129`, `157-161`), and a member of a nested definition may name
a `z` of its own (`Strays`).

| kind | methods | reads | deployment |
|---|---|---|---|
| `edit` | AddNode, UpdateNode, DeleteNode, ConnectNodes (`editFlow`) | the tab, then everything with its revision | POST /flows with the revision |
| `update` | UpdateFlow | everything with its revision | POST /flows with the revision |
| `create` | CreateFlow | everything | POST /flow |
| `delete` | DeleteFlow | everything | DELETE /flow/:id |
| `replace` | SetFlows, RestoreFlows, RestoreFlowsUnchecked | everything | POST /flows without a revision |
| `subflow` | CreateSubflow, UpdateSubflow | the global flow, then everything | PUT /flow/global |

`Refuse` stands for every early return before the request; `Timeout` for every
`TransportError`; `Apply`, `Reject` and `Drop` for what becomes of a request,
at any time after `Send`, whatever became of its call; `EditorDeploys` for
everybody else; `Crash` for a restart of the MCP process.

### ToolCalls

One tool call is a sequence of attempts of `withTimeoutAttempts`. `EnterLock`,
`TakeToken`, `Abandon` and `Recheck` are the four steps of `LockContext`: the
check before the select, its two arms (either may win when both are ready), and
the check after the token was received. `MethodReturns` is `WritePromise` seen
from outside. `Deadline` and `HangUp` end the context of the attempt and of the
call.

### Backups

A snapshot is the pair of clock tick and counter its name is made of. `Stamp`
creates (or truncates) the file, `Written` completes it, `List` and `Remove` are
`pruneBackups` with a list that another process may make stale, `Resolve` and
`Read` are `restore_backup latest`, whose lookup happens before it waits for the
lock. `Crash` leaves what was there and starts the counter again. Inside one
process `writeMu` admits one save at a time, so a process is one actor.

### ContextHelper

Node-RED is `node`, what stands under the fixed ids of the helper and under the
random ids each call would draw: nothing, the exact helper, something else that
fires, or something that does not. `Discover` is the whole of
`ensureContextHelperTarget` up to the creation; `PostTab` and `TabAnswered` are
`CreateFlow`; `PostInject` and `InjectAnswered` are
`injectWithProvisioningRetry`. The other write tools and restores hold the same
mutex around one request. `Serve` carries out a configuration request at any
time after it was sent, `Fire`, `Miss` and `RefuseInject` an injection. Random ids do not
collide. Node-RED refuses a tab whose node ids are in use.

### CommsTail and DebugTail

`pc` is where the goroutine of `Run` stands: `Dial`, `Authenticate`, `Subscribe`
and `Receive` are the steps of `session`, `Fail` its early returns,
`Report`, `Wake` and `Stop` the rest of the loop. Between `EndSession` (the
deferred `setState(false, nil)`) and `Report` (`setState(false, err)`) a
snapshot can see the tail disconnected with no reason. `wire` holds the frames
Node-RED has sent and the tail has not read; they are lost with the socket, and
what is published while nobody is subscribed is lost at once. The subscription
is served some time after the tail reports connected. `DebugTail` adds the ring:
`record` and `Snapshot` hold `mu`, so each is one step, and a frame carries one
message. Frames that are no JSON, and those of other topics, change nothing.

### StatusTail

`retained` is what Node-RED keeps per node and replays to a subscriber
(`Replay`); `entries` is the cache. `ReportStatus` and `Deploy` change the
former and publish, or not; `consumeStatus` and `recordStatus` (`consume` and
`record` of `status.go`) change the latter, one
envelope at a time. `ReadFlow` and `Answer` are get_node_status of a flow: the
ids come from Node-RED, the statuses from one later look at the cache. `AskNode`
is the same tool asked for one node: it looks into the cache alone, and the answer
says nothing of the connection.

### FlowRules, FlowEdits, Subflows and Documents

A configuration is a set of entries (`configEntry`): id, type, owner, wires,
ports, credentials, whether it is disabled, and `tag` for everything else. `inst` is the
definition a type refers to after the coercion the runtime applies, so that a
type that is an array refers to a definition without being a string. A document
is the nested view of a tab or a definition; `synthesizeFlowFromFlat` and
`Nest` build it, `flattenFlowUpdate` and `PutGlobal` take it apart. An edit
returns the set of its results, `{}` being its error.

In `Documents` a call steps from request to request: `ReadTab`, `DeployTab` are
`editFlow`; `SendDocument` the tools with one write; `FetchDefinitions`,
`ScanReferences`, `PutDefinitions` the subflow writes; `LookupTarget`,
`VerifyType`, `FireInject` are inject_node. `mu` is `writeMu`. A deployment with
a revision reads and installs in one step: `FlowWrites` shows that this is what
the revision makes of it. `seen` remembers what a call read last.

### VersionGate

`once` is the `sync.Once`: free, the caller inside, or done. `Detect` is
`GET /settings` (which may fail), `LeaveOnce` stores `probed` after `value`;
`Gate`, `Act` and `Answer` are a call that delivers a payload, which reads
`CachedNodeRedVersion` twice. `Replace` is a restart of Node-RED with another
version. A version is what `ParseVersion` makes of the components of a string.

### Keyset and FrontDoor

A request is `pc`: it gets its bucket under the mutex of the map (`GetBucket`)
and spends from it after the mutex was released (`Allow`); with OAuth it looks
for its key (`KeyByID`), fetches outside the mutex (`Fetch`), installs what it
got over whatever is there (`Install`) and looks again (`Reread`), at most twice.
`Tick` is time: it waits for nobody longer than `Pause`, or `FetchMax` in a
fetch. `due` is what a bucket would hold that is kept while its client comes and
is new when the client was away (`Away`); `tokens` and `due` count parts of a
token, so that a token may take several ticks.

### ClientConfig

One run of `init` is `pc`: `Read` merges the file it finds, `ReadAgain` reads it a
second time for the backup, `Stage` writes a temporary file, `RenameBak` and
`Rename` put it in place. A content is its shape (can it be merged?), the other
settings and whose entry it holds. `Save` is an editor, `Killed` a process that dies and
leaves its temporary file.

## 3. The runs

| run | instance | what it shows |
|---|---|---|
| `flow_writes` | 2 calls of any kind, an editor, 2 tabs, a subflow definition, a restart | which configuration a write replaces, what its backup holds, what its answer means; every call returns; the client implements `WritePromise` |
| `restore_recoverable` | 2 calls (replace), an editor | **violation**: a restore replaces a configuration that is in no backup |
| `tool_calls` | a read with three attempts, a write tool, and one that locks itself | the token, what the answers mean; `WritePromise` is passed on; every call is answered |
| `backups` | 2 processes with three saves and a restore, retention 2, clock to 3, one fault, one step back | what pruning removes, how many files stay, what `latest` means while others save |
| `context_helper` | 2 set_context and a write of the same server, or set_context, restore_backup and an editor; a restart | deliveries, diverted payloads, the number of helpers, who may forget one; `WritePromise` is kept by two writes |
| `debug_tail` | ring of 2, 5 messages, 2 faults, a shutdown | the reported connection state, snapshots, what may be missing, reconnection and shutdown |
| `debug_tail_quick` | 2 faults | **violation**: the backoff survives a session that worked |
| `status_tail` | 2 nodes, 2 payloads, 3 reports or deployments, 2 faults, a shutdown | an answer without a warning is current but for what is on its way, except one about a single node during an outage; a status that stays arrives |
| `documents` | every pair out of 34 calls, with and without an instance in the way, one deployment by an editor | what a write leaves in the configuration and what it leaves alone |
| `version_gate` | the goroutine at start, 2 get_runtime_info, 2 payload calls, 5 Node-REDs, one replacement | what an answer without the notice means; the matrix and the gate agree for ever |
| `front_door` | 3 requests of 2 clients at the limiter, or 2 at the key cache; 2 keys, clock to 3, one failed fetch | what passes is due, withdrawn keys expire, published keys are found |
| `client_config` | 2 runs of init on one file, 2 saves by an editor, one fault | what is replaced is in `.bak`; no setting is lost unless the file changed under the run |

**Why the bounds are enough.** The hazards of the write path are races of two
parties over one owner, with a third party (an editor, or a late request of a
call that gave up) in between: two calls and an editor are exactly that. Two tabs
suffice because a call concerns one owner and "the others" are symmetric; `Tabs`
also bounds how many tabs can be created. An editor deploys once and the process
restarts once; each is one step between others, and a second adds no new order
within a call. In `Backups` retention 2 with one save more than is kept is
the boundary at which pruning acts; two ticks of the clock make "same tick",
"later" and "set back" possible. The theorems have no such bounds.

**Fairness.** `FlowWrites` and `ToolCalls` assume weak fairness of each
goroutine's own next step: the Go scheduler runs every runnable goroutine,
`sync.Mutex` in Go does not starve a waiter, and an exchange with Node-RED ends
because every request carries a context with a deadline (`ToolCalls`: the timer
of that context fires). Nothing is assumed of Node-RED, the network, the editor,
or MCP clients. Weak fairness on the disjunction does not force a choice between
the token and an expired context, so liveness does not depend on luck.

`DebugTail` assumes that the goroutine of `Run` goes on (an exchange with
Node-RED ends, a timer fires) and that Node-RED reads the subscription. Faults
are finitely many, otherwise no tail ever stays connected. The dial carries no
timeout of its own in the code: that it ends is the network's part.
`StatusTail` assumes the same, with the replay of Node-RED for its reading of the
subscription.

### What the violations mean

* `restore_recoverable`: `flows.go:276-278` says of a restore that "the
  deployment still carries the usual snapshot, so the state being replaced can be
  recovered". The snapshot and the `POST /flows` are two requests and the second
  carries no revision; a deployment between them is replaced and in no backup.
  A tab update does not have this problem, which `UpdateBackupIsExact` shows.
* `debug_tail_quick`: `comms.go:153-154` wants a quick redeploy to be picked up
  quickly. The delay starts at one second and doubles after every session, also
  after one that worked for days, and nothing sets it back.

## 4. The proofs

Every theorem holds for any number of calls, editors, tabs, processes, readers,
clients, requests and keys, for any retention, any length of the ring and any
limits. Assumptions are the named `ASSUME`s of the modules: most only say that
special values differ from calls, that constants have their types and that nodes
are finitely many. Three
have content: `RuntimesAssumption` (a Node-RED claims no version above its own),
`LimiterAssumption` and `PauseAssumption` (a request is not left alone between two
statements for the ten minutes that make a bucket idle, nor for as long as keys
are cached; the rate and the burst are any positive numbers). Two theorems have a
hypothesis of their own: `Ordinary`, about the calls and the start of `Documents`,
and `Fills`, about the rate and the burst.
Each proof has the same shape: `IInv` is inductive (initially true, kept by each
action, one lemma or step per action and part), the property follows from it,
`PTL` concludes.

* **FlowWrites.** The properties compare entries of the log, so the invariant
  has to say what was true *when* a request was sent: `MutexInv` (one call is
  between lock and unlock), `BaseInv`/`SeenQuietInv` (a read is an entry of the
  log, and everything deployed since was deployed by outsiders), `BackupInv`
  (the backup is that very read), `DeployInv` (a revisioned deployment follows
  its read immediately). The step that carries the weight is `Apply`: a request
  served in time belongs to the holder of `writeMu`, a late one is an outsider by
  definition; either way the reads of the others stay quiet.
  `ClientKeepsPromise` is the refinement of `WritePromise`: `Apply` is `Happen`,
  the returns are `Answer`, everything else stutters.
* **ToolCalls.** `TokenIsConserved` is nearly inductive; `WriteMuIsFree` follows
  since the holder of `writeMu` holds `ctxHelperMu`. `EffectInv` and `OpenInv`
  count what an attempt may still do. `ToolsKeepPromise` is the refinement.
* **Backups.** What was true of a stale list when it was made stays true of it:
  the set of names ever taken only grows, so a name with `Keep` newer ones keeps
  them (`DoomedInv`). `ClockInv` says that without a step back the names are in
  the order they were taken; `BackupOutlives` and `LatestNewest` rest on it.
  `RetentionBounded` keeps accounts: a save under way answers for one file more
  than `Keep`, a failed operation for another, and whatever set of processes is
  left to finish its removals, the rest of the directory is accounted for by the
  others (`RetentionInv`, a bound for every such set).
* **ContextHelper.** `VerifiedInv` carries `OnlyOutsidersDivert`: as long as no
  outsider touched it, the target of a call in its window is the helper, since
  whoever serves a request in time holds the mutex. `IdsInv` carries `OneHelper`:
  while every configuration so far has nothing but the helper under the fixed
  ids, no random id was ever drawn. `SetContextKeepsPromise` closes the circle:
  `ToolCalls` takes set_context for one method that keeps `WritePromise`.
* **DebugTail.** `RingInv` says without remainders where the newest `Capacity`
  messages are: the older part from `next` up, the newer part below it.
  `AdvanceWraps` turns the remainder of `record` into a case distinction,
  `PutKeepsRing` is the step, `OrderedIsWindow` puts the two parts together.
  `OrderInv` adds what `RecordedInOrder` needs: nothing is on the wire of a socket
  that has not subscribed, and what is lost was emitted. `RecordedInOrder` speaks of the messages as
  a set with an order on the indices; filtering the log
  would need a recursive operator, out of reach of the prover.
* **StatusTail.** A cached status goes wrong when something came between it and
  what Node-RED retains, so the invariant relates three things (`NothingIsMissed`):
  of a subscribed tail, the last frame on the way about a node has what is
  retained of it, or there is none and the entry has it. The step that carries the
  weight is the replay (`ReplayKeepsCurrent`): it has exactly one frame for every
  retained status, whatever its order (`ReplayIsComplete`). `Subscribing` joins it to the connection
  an answer depends on: a tail that says connected is subscribed or about to be, since the
  deferred `setState` comes with the end of the socket.
* **Documents.** `IInv` is one conjunction per session: a call is one its tool
  admits, at a request of its own (`CallInv`), and what it carries to the next
  request is whole and was judged when it was read (`DocInv`, `DefsInv`,
  `InstanceInv`, `InjectInv`). So a step of one session needs nothing of the
  others, which are idle (`OthersIdle`). Around it are lemmas about the operators:
  what reading a tab, each edit, flattening, replacing and putting back keep of an
  entry (`ReplacedEntries`, `ApartStays`, `DeployedMembers`, `PutDefinitionsBack`).
  `TabsStayApart` and `TabStaysSound` follow from them for every document and
  every configuration, whatever an editor did between the read and the write.
* **Documents, exactly.** `EditIsExact` compares two ways of making a
  configuration: through the nested document, with its owners left out and its
  credentials hidden, and on the flat entries (`Intended`). `EditsInv` says that
  a session writes what its call makes of what it read. `Shows` relates a member
  of the document to the entry it stands for, and one lemma says that the overlay
  of the member *is* that entry (`ShownExact`). So a replaced tab is described by what
  becomes of its entries (`Reshapes`, `ReplacedExact`), once for all edits, and each edit
  (`AddExact`, `PatchExact`, `DeleteExact`, `ConnectExact`, `SwitchExact`) says
  what that is; the definitions go through `PutExact`. The proof needs what
  `WellFormed` says: ids of their own, tabs and definitions that stand nowhere,
  an owner for every node, as in any configuration Node-RED itself writes.
* **Documents, while only tools write.** `InstancesResolve` needs more, `ToolsInv`:
  a session holds the lock from its read to its write, so what it read is still
  there (`HolderInv`); tabs and definitions stand nowhere and refer to nothing
  (`Rooted`); and two nodes share an id only after a write that does not look
  (`IdsAreApart`). The last was found by the proof: `delete_subflow` excludes the
  members of the definition from its search *by node id*, so an instance elsewhere
  with the id of a member would be passed by. Only calls
  that `Unchecked` names anyway can make one. The hypothesis `Ordinary` says that the runtime starts with a configuration
  it can run, and that no call submits a tab or a definition as a node of another;
  `MCDocuments` assumes it of its instance, so TLC evaluates it. The theorem covers every way
  to change a configuration: `DeployedInstances` (a tab), `CreatedFlow`,
  `DeletedTabs`, `JudgedArray`, `PutOneMore` and `PutOneLess` (the definitions).
* **VersionGate.** (Its theorems are in `RuntimeProofs` as well, so its names carry the
  prefix `Gate` where those of `Documents` would clash.) `OnceInv` says who is inside the Once and that whoever passed
  it has `probed`; the lemma `ValueStays` follows: the value does not change
  afterwards, so a matrix that was reported stays the matrix of `value`
  (`MatrixInv`), and a call that passed the gate and was not raced still passes
  it (`GateInv`). `ValueInv` ties the value to the Node-RED that was probed.
  `AtLeastIsRank` shows `AtLeast` to be the order of versions whose components
  are below a hundred; with `RuntimesAssumption` (a Node-RED claims no version
  higher than its own) `SilenceMeansSupport` follows.
* **FrontDoor and Keyset.** For the buckets: who is about to spend holds the
  bucket that is in the map (`HolderInv`), since a bucket is only swept when
  nobody can still hold it (`IdleIsFree`); a bucket has no more than is due, and
  only a client that has all or was away is without one (`BucketInv`). What is due
  grows by `Refill` for each tick, which is why forgetting is free if a bucket
  fills within the TTL. For the keys: `TimeInv`
  bounds how long ago a fetch began, so a withdrawn key that is in the cache was
  installed at most `FetchMax` after its withdrawal (`KeysInv`).
* **ClientConfig.** `RootInv` and `CopyInv` relate what a run holds in memory to
  what is in the file now: as long as nobody replaced it (`stale`, `overtaken`),
  the merge is the merge of the file, and what was read again is in the file and
  from `RenameBak` on in the copy. `FileStays` is the one fact about the others:
  whoever replaces a file marks the runs that have read it.

Only model-checked: liveness (`EveryCallReturns`, `EveryCallIsAnswered`,
`Reconnects`, `Stops`, `StatusArrives`), since the prover has no rules for
fairness here. Every other property of a passing run is a theorem.

## 5. What is abstracted

* A non-2xx answer means that Node-RED changed nothing, and the body of a 2xx is
  well-formed. (`doURL` turns an undecodable 2xx into a plain error, and
  `CreateFlow` a 201 without an id; against a Node-RED that did that,
  `DefiniteErrorIsFinal` would fail.)
* The palette and `SetFlowsState` do not change the configuration: they are not
  in `FlowWrites`. `ToolCalls` has them as guarded writes, and `set_context` as one
  method; `ContextHelper` is its inside.
* In `FlowWrites`, validation and node policy are a nondeterministic `Refuse`;
  `Documents` has them. `Documents` in turn leaves revisions, lost requests and
  snapshots to `FlowWrites`.
* `FlowWrites` never loses a backup; `Backups` says when one is lost. A
  directory listing is atomic, a restart takes at least one tick of the clock, and
  the six digits of the counter do not overflow. Two processes whose counters
  agree in one tick do take the same name; the properties name that case.

* `StatusTail`: an envelope is a frame; a payload is one of two, or cleared; the fill colour
  and shape decide the class as in `classify`.
* `Documents`: entries form a set, so two identical entries are one, and order
  (the canvas order of the editor) is not kept track of. No tab holds a group;
  definitions nest one level. A node whose owner is missing is dropped by
  `PUT /flow/global`, as the runtime does; `EditIsExact` speaks of
  configurations without such nodes, without repeated ids and with tabs and
  definitions at the top (`WellFormed`).
* `VersionGate`: the matrix has the three tools with a minimum version; what
  depends on settings is left out. Versions are triples of small numbers.
* `FrontDoor`: the instance has the settings where eviction matters: a bucket takes
  three ticks to fill and may be forgotten after two. A client that stayed away
  for longer than the TTL then finds a new bucket, fuller than what had come back
  to it; `RateHolds` allows that once for each absence, and nothing more. With
  settings of which `Fills` is true (the defaults: 1 per second, 10, ten minutes)
  such a client had a full bucket due anyway (`ForgettingCostsNothing`). The
  term `Pause` in `Fills` is a request that got its bucket, waited, and spent from
  it later. Requests meet either the limiter or the key cache in the instance, which
  share nothing. A signature and the claims hold or do not.

## 6. Where the code and its words part

The two violations above are runs. These were met while modelling and have no
run of their own; each is a condition in a property or a part of the model.

* `server.go:395-401` and `setcontext_discovery.go:11-12` keep writes from coming
  between discovery and dispatch with a mutex. A write that timed out has
  released it and may be served all the same: it can divert a payload.
  `OnlyOutsidersDivert` (proved) says that nothing else of this server does.
* `setcontext.go:222-238` relies on the next call finding the helper whose
  creation was not answered. With the fixed ids Node-RED refuses the duplicate
  (`OneHelper`, proved); with random ids two helpers can appear.
* `tools_runtime.go:58` explains an empty snapshot by "nothing has been captured"
  while the tail is connected; messages may have been emitted during an outage.
  `get_runtime_logs` asks for as many lines as its limit where its comment says
  slightly more.
* `backup.go:30-32` calls a save fail-closed. Retention keeps the names that sort
  last and a name starts with the wall clock (`backup.go:57`, `94`): once the clock
  is behind `NODERED_BACKUP_KEEP` existing names, pruning removes the snapshot
  just written and the write goes out. Without a step back the backup stays
  (`BackupOutlivesWrite`, proved).
* `tools.go:760-761` says of `get_node_status` that "the response carries the most
  recent status". Asked for one node it renders the cache and nothing else
  (`tools_runtime.go:382-386`, `414-429`): while the tail is disconnected the answer is
  the status before the outage, with the time it came and without the warning that an
  answer about a flow carries. `SilentOutage` in `AnswersAreCurrent` is that case.
* `subflows.go:262-264` says that "a subflow cannot be written with a topology the
  tab path would refuse". `create_subflow` and `update_subflow` check wires, `z`
  and ports, but not that the definitions their members are instances of exist,
  which `validateTabEntries` refuses for a tab: `Unchecked` in `Documents`.
* `validate.go:20-21`: `create_flow` accepts nodes without coordinates, with an
  unknown `z` or with a repeated id, which `validate_flow` reports.
* `validate_deploy.go:26-34`: a wire of a link out node into another tab is
  accepted by `set_flows` and then refused by every later edit of its tab.
* `add_node` accepts the id of a sibling node as `z`; the rule on the effective
  configuration calls such a node an orphan.
* The members of a definition nested in `update_flow` have their wires and ports
  checked by nothing.
* `PUT /flow/global` has no revision: a definition an editor changed after the
  read is reverted. `InstancesResolve` is stated for what the tools alone do.
* `flows_update.go:18` says that an update replaces only the entries of its own
  tab. A member of a definition submitted with `update_flow` whose `z` names another tab
  is filed in that tab: the last disjunct of `TabsAreApart`.
* `validateZRefsInFlow` (`flows.go:576`) accepts a `z` that names a member of the document,
  whatever that member stands in: `TabIsSound` says no more of `z` than that.
* The policy (`policy.go:125`) does not enter the `groups` of a submitted
  definition: `Unjudged` in `PolicyHolds`.
* `create_subflow` accepts the id of a tab. Deleting that tab deletes the
  definition with it, and nobody looks for its instances: the last disjunct of `Unchecked`.
* `version_gate.go:80-86` has a call that no check backed say so. The gate and the
  notice read the cache separately (`tools_flows.go:493`, `538`;
  `tools_context.go:117`, `205`): when the probe ends in between with a version that is too
  low, the payload went out unverified and the answer is silent. `raced` in
  `SilentMeansSupported` is that case.
* `version.go:72-73` would rather treat a value as unparseable than zero a field;
  `ParseVersion` zeroes a minor or patch that is no number (`Component`).
* `init.go:426-429` never overwrites a configuration whose backup could not be
  taken. A second read that fails for another reason than a missing file is
  taken for one (`init.go:438`): `unread` in `ReplacedIsBackedUp`.
* `init.go:322-323` leaves every other key untouched; numbers pass through
  `float64` (`Wide` and `Narrowed`).

## 7. Not modelled, and what is left

* `SetFlowsState`, the palette and the runtime log tools by themselves: one
  mutating request at most and no state of the process. Their order with
  everything else is that of `ctxHelperMu` and `writeMu`, which `ToolCalls` has.
* `diff`, `inspect`, `logs`, prompts, resources and the clipboard format what the
  client returned; nothing they do outlives a call.
* `config` beyond `validate`, `main`, the npm shim and the release scripts:
  parsing, wiring and packaging.
* `nodered-mcp update` asks the registry for a version, asks the user, and runs
  `npm install -g` of whatever is latest by then; it keeps no state. (Read, and
  not modelled: `update.go:291-293` says that a `package.json` neighbour "wins over
  the docker check"; the function tests `/.dockerenv` first.)
* The verification of a token and the JSON-RPC transport belong to libraries.

Left to do, of the code: the requests of `tools_shared.go` and the installation
of a palette module as calls with a timeout of their own.
