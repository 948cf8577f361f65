----------------------------- MODULE StatusTail -----------------------------
(***************************************************************************)
(* The status tail (internal/nodered/status.go): the last known status of  *)
(* every node, filled by the loop of CommsTail and read by get_node_status *)
(* (internal/mcp/tools_runtime.go) while it is being filled.               *)
(*                                                                         *)
(* Node-RED retains the latest status of a node and replays it to whoever  *)
(* subscribes.  record takes the mutex once for each envelope of a frame,  *)
(* so an envelope is a frame of its own here.                              *)
(***************************************************************************)
EXTENDS CommsTail, FiniteSets, SequencesExt

CONSTANTS
  Nodes,       \* the ids of nodes that report a status
  Payloads,    \* the statuses they report: [fill, shape, text]
  Never,       \* no status
  MaxChanges   \* bound: what nodes report and what is deployed

VARIABLES
  nodes,       \* the nodes of the flow, as deployed
  retained,    \* node -> the status Node-RED retains, or Never
  changes,     \* reports and deployments so far
  entries,     \* node -> StatusEntry, or Never
  query        \* the call of get_node_status: the argument it was made with
               \* (by) and the ids it asks for, or Never

cache == entries
runtime == <<nodes, retained, changes>>
statusVars == <<tailVars, runtime, cache, query>>

Cleared == [fill |-> "", shape |-> "", text |-> ""]
Unreadable == [fill |-> "?", shape |-> "?", text |-> "?"]
status(n, p) == [topic |-> "status", id |-> n, data |-> p]
other == [topic |-> "other", id |-> "", data |-> Cleared]

-----------------------------------------------------------------------------
(* The colours of the editor; a status without a known one is no status. *)
classify(p) ==
  CASE p.fill = "green" /\ p.shape = "ring" -> "connecting"
    [] p.fill = "green" /\ p.shape # "ring" -> "connected"
    [] p.fill = "yellow" -> "reconnecting"
    [] p.fill = "red" -> "errored"
    [] p.fill = "blue" -> "info"
    [] OTHER -> "disconnected"

(* What a node can have reported, and the entries that come of it. *)
Reports == Payloads \cup {Cleared}
StatusFrames == {other} \cup {status(n, p) : n \in Nodes, p \in Reports \cup {Unreadable}}
Entries ==
  [data : Reports, status : {classify(p) : p \in Reports},
   lastError : {p.text : p \in Reports} \cup {""}]

ASSUME StatusAssumption ==
  IsFiniteSet(Nodes) /\ Unreadable \notin Payloads /\ Never \notin Payloads \cup Entries

LastError(n) == IF entries[n] = Never THEN "" ELSE entries[n].lastError

(* A node that has an entry keeps it: a mutant. *)
recordOnce(n, p) ==
  IF entries[n] = Never
    THEN entries' = [entries EXCEPT ![n] =
           [data |-> p, status |-> classify(p), lastError |-> ""]]
    ELSE UNCHANGED entries

(* The entry is replaced; the text of the last error outlives a recovery. *)
recordStatus(n, p) ==
  entries' = [entries EXCEPT ![n] =
    [data |-> p, status |-> classify(p),
     lastError |-> IF classify(p) = "errored" THEN p.text ELSE LastError(n)]]

(* Other topics and what cannot be decoded are skipped. *)
consumeStatus(frame) ==
  IF frame.topic = "status" /\ frame.data # Unreadable
    THEN recordStatus(frame.id, frame.data) ELSE UNCHANGED entries

-----------------------------------------------------------------------------
ReadStatus == Receive /\ consumeStatus(Head(wire)) /\ UNCHANGED <<runtime, query>>

StatusStep ==
  Dial \/ Authenticate \/ Subscribe \/ FailedSession \/ Report \/ Wake \/ Stop

(* The goroutine of Run. *)
StatusProceed == ReadStatus \/ (StatusStep /\ UNCHANGED <<runtime, cache, query>>)

(* Node-RED (external) replays what it has retained, in any order. *)
Replay ==
  /\ \E s \in SetToSeqs({n \in Nodes : retained[n] # Never}) :
        ServeSubscription([i \in DOMAIN s |-> status(s[i], retained[s[i]])])
  /\ UNCHANGED <<runtime, cache, query>>

Change == changes < MaxChanges /\ changes' = changes + 1

(* A node of the flow reports a status. *)
ReportStatus(n, p) ==
  /\ Change
  /\ n \in nodes /\ retained[n] # p
  /\ retained' = [retained EXCEPT ![n] = p]
  /\ Publish(status(n, p))
  /\ UNCHANGED <<nodes, cache, query>>

(* A deployment adds a node, or removes it: Node-RED forgets its status,
   and tells the subscribers that it is cleared, or does not. *)
Deploy(n) ==
  /\ Change
  /\ \/ n \notin nodes /\ nodes' = nodes \cup {n} /\ UNCHANGED <<tailVars, retained>>
     \/ /\ n \in nodes
        /\ nodes' = nodes \ {n}
        /\ retained' = [retained EXCEPT ![n] = Never]
        /\ UNCHANGED tailVars \/ Publish(status(n, Cleared))
  /\ UNCHANGED <<cache, query>>

(* What else arrives: another topic, a payload that is no status. *)
Noise ==
  /\ subscribed
  /\ \E f \in {other} \cup {status(n, Unreadable) : n \in nodes} : Publish(f)
  /\ UNCHANGED <<runtime, cache, query>>

StatusShutdown == Cancel /\ UNCHANGED <<runtime, cache, query>>

-----------------------------------------------------------------------------
(* get_node_status: of a flow, GET /flow/:id and then one look at the cache
   (Snapshot); of one node, the look alone (Lookup).                       *)

ReadFlow ==
  /\ query = Never /\ nodes # {}
  /\ query' = [by |-> "flow", ids |-> nodes]
  /\ UNCHANGED <<tailVars, runtime, cache>>

(* Any id may be asked for: deployed, gone, or never seen. *)
AskNode(n) ==
  /\ query = Never
  /\ query' = [by |-> "node", ids |-> {n}]
  /\ UNCHANGED <<tailVars, runtime, cache>>

(* Every node has a line.  Only the answer about a flow reports the
   connection, with a warning while there is none. *)
Lines(ids) == [n \in ids |-> IF entries[n] = Never THEN "unknown" ELSE entries[n].status]
Warned == query.by = "flow" /\ ~connected

Answer ==
  /\ query # Never
  /\ query' = Never
  /\ UNCHANGED <<tailVars, runtime, cache>>

StatusInit ==
  /\ TailInit
  /\ nodes = Nodes
  /\ retained = [n \in Nodes |-> Never]
  /\ changes = 0
  /\ entries = [n \in Nodes |-> Never]
  /\ query = Never

StatusNext ==
  \/ StatusProceed \/ Replay \/ Noise \/ StatusShutdown
  \/ \E n \in Nodes : Deploy(n) \/ AskNode(n) \/ \E p \in Payloads : ReportStatus(n, p)
  \/ ReadFlow \/ Answer

(* As for the debug tail; the handler of a query has a deadline. *)
StatusSpec ==
  StatusInit /\ [][StatusNext]_statusVars
    /\ WF_statusVars(StatusProceed) /\ WF_statusVars(Replay)

-----------------------------------------------------------------------------
OnItsWay(n) == asked \/ \E i \in DOMAIN wire : wire[i] \in {status(n, p) : p \in Payloads}

Current(n) == entries[n] # Never /\ entries[n].data = retained[n]

StatusTypeOK ==
  /\ wire \in Seq(StatusFrames)
  /\ retained \in [Nodes -> Payloads \cup {Never}]
  /\ entries \in [Nodes -> Entries \cup {Never}]
  /\ nodes \subseteq Nodes
  /\ query # Never => query \in [by : {"flow", "node"}, ids : SUBSET Nodes]

(* An entry says what the last report in it said. *)
EntriesAgree ==
  \A n \in Nodes : entries[n] # Never =>
    /\ entries[n].status = classify(entries[n].data)
    /\ entries[n].status = "errored" => entries[n].lastError = entries[n].data.text

(* A tail that says connected has a subscription, or has one on its way. *)
Subscribing == connected => asked \/ subscribed

(* The frames on the wire that will replace the entry of a node. *)
Arriving(n) ==
  {i \in DOMAIN wire :
     wire[i].topic = "status" /\ wire[i].id = n /\ wire[i].data # Unreadable}

(* Of a subscribed tail, the last of them, or else the entry, is what
   Node-RED retains. *)
NothingIsMissed ==
  \A n \in Nodes : subscribed /\ retained[n] # Never =>
    \/ Arriving(n) = {} /\ Current(n)
    \/ \E i \in Arriving(n) :
         wire[i].data = retained[n] /\ \A j \in Arriving(n) : j <= i

StatusIInv == StatusTypeOK /\ EntriesAgree /\ Subscribing /\ NothingIsMissed

(* What a caller who asked for one node is not told: that nothing has come
   in since an outage began, however long it lasts. *)
SilentOutage == query.by = "node" /\ ~connected

(* An answer about a flow that carries no warning, and one about a node given
   while the tail is connected, are up to date but for what is on its way: a
   node that has a status is shown with it, an error with its text, across
   all outages, reports and deployments meanwhile.  Only nodes Node-RED has
   no status of may be shown with an old one.  An answer about one node is
   worth nothing during an outage, and does not say so: renderNodeStatus,
   unlike renderFlowStatus, knows nothing of the connection
   (status.go:398-443, 462-467, 474-495; tools_runtime.go:382-429). *)
AnswersAreCurrent ==
  [][Answer /\ ~Warned /\ ~SilentOutage =>
       \A n \in query.ids :
          retained[n] # Never /\ ~OnItsWay(n) =>
            /\ Lines(query.ids)[n] = classify(retained[n])
            /\ classify(retained[n]) = "errored" => LastError(n) = retained[n].text]_statusVars

(* A status that stays is known in the end, whatever failed meanwhile,
   unless the server shuts down (status.go:40-43, 233-261). *)
StatusArrives ==
  \A n \in Nodes, p \in Payloads :
     retained[n] = p ~> (retained[n] # p \/ Current(n) \/ cancelled)
=============================================================================
