------------------------------ MODULE Documents ------------------------------
(***************************************************************************)
(* The tool calls that read and write the flow configuration of one        *)
(* Node-RED instance, by what they do to its contents: internal/mcp/       *)
(* tools_flows.go, tools_subflows.go, tools_runtime.go (set_flows) over    *)
(* internal/nodered's client.                                              *)
(*                                                                         *)
(* Calls of several sessions interleave at every request they make; the    *)
(* client's writeMu is held from the first read of a write to its answer.  *)
(* The runtime's own editor deploys in between (external).  Revisions,     *)
(* lost requests and snapshots are FlowWrites' subject: here a deployment  *)
(* reads and installs in one step, which is what the revision makes of it. *)
(***************************************************************************)
EXTENDS Subflows

CONSTANTS Sessions,       \* concurrent tool calls
          Calls,          \* the calls a session may make, as records
          Starts,         \* initial configurations
          EditorAdds,     \* entries the editor may add
          MaxEditorDeploys,
          None

VARIABLES config,   \* the flat configuration of the runtime
          call,     \* session -> its call
          pc,       \* session -> the request it makes next
          mu,       \* the holder of writeMu, or None
          doc,      \* session -> the document it will deploy
          defs,     \* session -> definitions to put
          configs,  \* session -> global configuration nodes to put
          seen,     \* session -> the configuration it last read (history)
          edits     \* deployments by the editor
vars == <<config, call, pc, mu, doc, defs, configs, seen, edits>>

-----------------------------------------------------------------------------
(* Before the lock is taken.                                                *)

EditOps == {"add_node", "update_node", "delete_node", "connect_nodes", "set_disabled"}
ArrayOps == {"set_flows", "restore_backup"}
DocumentOps == {"update_flow", "create_flow", "delete_flow"} \cup ArrayOps
SubflowOps == {"create_subflow", "update_subflow", "delete_subflow"}

\* What the JSON of a call holds, once it is decoded.
IsEntry(e) == e = [f \in DOMAIN configEntry |-> e[f]]
Entries(S) == \A e \in S : IsEntry(e)
IsHeaded(d) ==
  /\ DOMAIN d = DOMAIN flowDoc
  /\ Entries({d.top} \cup Members(d) \cup d.groups)
IsDocument(d) == IsHeaded(d) /\ \A sf \in d.subflows : IsHeaded(sf)

IsCall(k) ==
  /\ k.op \in EditOps \cup DocumentOps \cup SubflowOps \cup {"instantiate_subflow", "inject_node"}
  /\ k.op \in {"add_node", "instantiate_subflow"} => Entries({k.node})
  /\ k.op = "update_node" /\ "cred" \in DOMAIN k.patch => k.patch.cred # ""
  /\ k.op = "set_disabled" => k.off \in {"true", "false"}
  /\ k.op = "instantiate_subflow" => {"op", "flow", "node", "sub", "new"} \subseteq DOMAIN k
  /\ k.op \in {"create_flow", "update_flow", "create_subflow", "update_subflow"} =>
       IsDocument(k.doc)
  /\ k.op \in ArrayOps => Entries(k.entries)

ASSUME DocumentsAssumption ==
  /\ None \notin Sessions
  /\ \A C \in Starts : Entries(C)
  /\ Entries(EditorAdds)
  /\ \A k \in Calls : IsCall(k)

hasTabEntry(C) == \E e \in C : e.type = "tab"

\* setFlows and RestoreFlows: the policy and the tab rule are never skipped.
CanInstall(k) ==
  /\ k.entries # {}
  /\ ~deniedNodeTypeInFlows(k.entries)
  /\ hasTabEntry(k.entries)
  /\ k.force \/ ValidateEffectiveConfig(k.entries) = {}

\* The checks a call makes on its arguments alone.  A payload is kept from
\* a runtime too old for it by the version gate, which is modelled apart.
Admitted(k) ==
  /\ k.op = "add_node" => ~DeniedEntry(k.node)
  /\ k.op = "update_node" /\ "type" \in DOMAIN k.patch =>
       ~DeniedEntry(Patched(configEntry, k.patch))
  /\ k.op \in {"create_flow", "update_flow"} => ~deniedTypeInValue(k.doc)
  /\ k.op = "instantiate_subflow" =>
       /\ k.flow # "" /\ k.sub # ""
       /\ ~DeniedEntry(InstanceOf(k.node, k.sub, k.flow, k.new))
  /\ k.op \in {"create_subflow", "update_subflow"} => SubflowGuard(k.doc, k.id)
  /\ k.op \in ArrayOps => CanInstall(k)

FirstStep(k) ==
  CASE k.op \in EditOps -> "read"
    [] k.op \in SubflowOps -> "fetch"
    [] k.op = "instantiate_subflow" -> "check"
    [] k.op = "inject_node" -> "lookup"
    [] OTHER -> "send"

Init ==
  /\ config \in Starts
  /\ call \in [Sessions -> Calls]
  /\ pc = [s \in Sessions |->
             IF Admitted(call[s]) THEN FirstStep(call[s]) ELSE "refused"]
  /\ mu = None
  /\ doc = [s \in Sessions |-> flowDoc]
  /\ defs = [s \in Sessions |-> {}]
  /\ configs = [s \in Sessions |-> {}]
  /\ seen = [s \in Sessions |-> {}]
  /\ edits = 0

-----------------------------------------------------------------------------
(* Edits of a tab: editFlow.                                                *)

Finish(s, how) == pc' = [pc EXCEPT ![s] = how]
Refuse(s) == Finish(s, "refused")

\* What the edit makes of the document; the policy judges the nodes touched.
Edited(k, d) ==
  CASE k.op \in {"add_node", "instantiate_subflow"} -> AddNodeToFlow(d, k.node)
    [] k.op = "update_node" ->
         {e \in UpdateNodeInFlow(d, k.id, k.patch) : ~deniedNodeTypeOfNode(e, k.id)}
    [] k.op = "delete_node" -> DeleteNodeFromFlow(d, k.id)
    [] k.op = "connect_nodes" ->
         {e \in ConnectNodesInFlow(d, k.id, k.port, k.to) :
            ~deniedNodeTypeOfNode(e, k.id) /\ ~deniedNodeTypeOfNode(e, k.to)}
    [] k.op = "set_disabled" -> SetDisabledInFlow(d, k.off)

Results(k) ==
  {e \in UNION {Edited(k, d) : d \in GetFlow(config, k.flow)} : CanSend(e, k.flow)}

ReadTab(s) ==
  /\ pc[s] = "read" /\ mu = None
  /\ \/ \E d \in Results(call[s]) :
           /\ doc' = [doc EXCEPT ![s] = d]
           /\ seen' = [seen EXCEPT ![s] = config]
           /\ mu' = s
           /\ pc' = [pc EXCEPT ![s] = "deploy"]
     \/ Results(call[s]) = {} /\ Refuse(s) /\ UNCHANGED <<doc, seen, mu>>
  /\ UNCHANGED <<config, call, defs, configs, edits>>

\* deployFlowUpdate, or its refusal: the runtime is left as it was.
Install(s, next) ==
  \/ /\ config' \in next /\ Finish(s, "done")
  \/ /\ next = {} /\ Refuse(s) /\ UNCHANGED config

DeployTab(s) ==
  /\ pc[s] = "deploy" /\ mu = s
  /\ Install(s, deployFlowUpdate(config, call[s].flow, doc[s]))
  /\ mu' = None
  /\ UNCHANGED <<call, doc, defs, configs, seen, edits>>

\* InstantiateSubflow looks the definition up without the lock.
CheckDefinition(s) ==
  LET k == call[s] IN
  /\ pc[s] = "check"
  /\ IF k.sub \in Definitions(config)
     THEN /\ pc' = [pc EXCEPT ![s] = "read"]
          /\ call' = [call EXCEPT ![s].node = InstanceOf(@, k.sub, k.flow, k.new)]
     ELSE Refuse(s) /\ UNCHANGED call
  /\ UNCHANGED <<config, mu, doc, defs, configs, seen, edits>>

-----------------------------------------------------------------------------
(* Writes of a whole document, in one request under the lock.               *)

UpdateFlow(k) ==
  IF CanSend(k.doc, k.flow) THEN deployFlowUpdate(config, k.flow, k.doc) ELSE {}

\* POST /flow gives the tab a new id and files every member in it; an id
\* that is taken is refused by the runtime (external).
CreateFlow(k) ==
  LET tab == [k.doc EXCEPT !.top.id = k.flow]
      new == Flat(tab, k.flow, "tab")
      filed == {IF e.id = k.flow THEN e ELSE [e EXCEPT !.z = k.flow] : e \in new}
  IN IF validateFlowWires(k.doc) /\ IdsOf(new) \cap IdsOf(config) = {}
     THEN {config \cup filed} ELSE {}

\* DELETE /flow/:id removes the tab with its nodes (external).
DeleteFlow(k) ==
  IF k.flow \in TabIds(config)
  THEN {{e \in config : e.id # k.flow /\ e.z # k.flow}} ELSE {}

SendDocument(s) ==
  LET k == call[s] IN
  /\ pc[s] = "send" /\ mu = None
  /\ Install(s, CASE k.op = "update_flow" -> UpdateFlow(k)
                  [] k.op = "create_flow" -> CreateFlow(k)
                  [] k.op = "delete_flow" -> DeleteFlow(k)
                  [] k.op \in ArrayOps -> {k.entries})
  /\ UNCHANGED <<call, mu, doc, defs, configs, seen, edits>>

-----------------------------------------------------------------------------
(* Writes of the definitions: fetch, modify, put, without a revision.       *)

Rewritten(k, old) ==
  CASE k.op = "create_subflow" -> CreateSubflow(old, k.doc)
    [] k.op = "update_subflow" -> UpdateSubflow(old, k.id, k.doc)
    [] k.op = "delete_subflow" -> DeleteSubflow(old, k.id)

FetchDefinitions(s) ==
  LET k == call[s]
      results == Rewritten(k, GlobalDefinitions(config)) IN
  /\ pc[s] = "fetch" /\ mu = None
  /\ \/ \E d \in results :
           /\ defs' = [defs EXCEPT ![s] = d]
           /\ configs' = [configs EXCEPT ![s] = GlobalConfigs(config)]
           /\ seen' = [seen EXCEPT ![s] = config]
           /\ mu' = s
           /\ pc' = [pc EXCEPT ![s] = IF k.op = "delete_subflow" THEN "scan" ELSE "put"]
     \/ results = {} /\ Refuse(s) /\ UNCHANGED <<defs, configs, seen, mu>>
  /\ UNCHANGED <<config, call, doc, edits>>

\* The references are searched in the definitions that were fetched and in
\* the flat configuration as it is now.
ScanReferences(s) ==
  LET used == subflowReferences(config, GlobalDefinitions(seen[s]), call[s].id) IN
  /\ pc[s] = "scan" /\ mu = s
  /\ IF used = {} THEN Finish(s, "put") /\ UNCHANGED mu ELSE Refuse(s) /\ mu' = None
  /\ UNCHANGED <<config, call, doc, defs, configs, seen, edits>>

PutDefinitions(s) ==
  /\ pc[s] = "put" /\ mu = s
  /\ config' = PutGlobal(config, defs[s], configs[s])
  /\ Finish(s, "done")
  /\ mu' = None
  /\ UNCHANGED <<call, doc, defs, configs, seen, edits>>

-----------------------------------------------------------------------------
(* inject_node: two lookups and a request, without the lock.                *)

Target(C, id) == {e \in C : e.id = id /\ e.type \notin {"tab", "subflow"}}
TabOff(C, e) == \E o \in Owners(C) : o.id = e.z /\ o.off = "true"
\* The tab may be disabled: a mutant.
EnabledAlone(C, id) == \E e \in Target(C, id) : e.off # "true"
Enabled(C, id) == \E e \in Target(C, id) : e.off # "true" /\ ~TabOff(C, e)

LookupTarget(s) ==
  LET k == call[s] IN
  /\ pc[s] = "lookup"
  /\ IF k.id # "" /\ Enabled(config, k.id)
     THEN /\ pc' = [pc EXCEPT ![s] = IF k.payload THEN "fire" ELSE "verify"]
          /\ seen' = [seen EXCEPT ![s] = config]
     ELSE Refuse(s) /\ UNCHANGED seen
  /\ UNCHANGED <<config, call, mu, doc, defs, configs, edits>>

\* A node that is gone by now is fired all the same: the runtime says 404.
VerifyType(s) ==
  LET found == Target(config, call[s].id) IN
  /\ pc[s] = "verify"
  /\ IF \A e \in found : e.type = "inject" THEN Finish(s, "fire") ELSE Refuse(s)
  /\ UNCHANGED <<config, call, mu, doc, defs, configs, seen, edits>>

\* POST /inject/:id (external): a node of another type, or none, is an
\* error; a disabled one answers 200 and nothing happens.
FireInject(s) ==
  LET found == Target(config, call[s].id) IN
  /\ pc[s] = "fire"
  /\ IF \E e \in found : e.type = "inject" THEN Finish(s, "done") ELSE Refuse(s)
  /\ UNCHANGED <<config, call, mu, doc, defs, configs, seen, edits>>

-----------------------------------------------------------------------------
(* The editor (external) deploys what its user did: a whole configuration   *)
(* with one entry more, one less, or one changed.                           *)

\* Removing an owner removes its members, removing a definition its
\* instances, removing a node the wires to it.
Removed(e) ==
  LET gone == {e} \cup (IF e.id = "" THEN {} ELSE Owned(config, e.id))
                \cup (IF e.type = "subflow" THEN {f \in config : f.inst = e.id} ELSE {})
  IN {[f EXCEPT !.wires = {w \in @ : w[2] \notin IdsOf(gone)}] : f \in config \ gone}

Added(e) ==
  IF /\ e.id \notin IdsOf(config)
     /\ e.z = "" \/ \E o \in Owners(config) : o.id = e.z
     /\ Missing({e}, Definitions(config)) = {}
  THEN {config \cup {e}} ELSE {}

Changed(e) ==
  (config \ {e}) \cup
    {IF e.type \in {"tab", "inject"}
     THEN [e EXCEPT !.off = IF @ = "true" THEN "" ELSE "true"] ELSE [e EXCEPT !.tag = "edited"]}

EditorDeploy ==
  /\ edits < MaxEditorDeploys
  /\ edits' = edits + 1
  /\ config' \in (UNION {Added(e) : e \in EditorAdds})
                   \cup {Removed(e) : e \in config} \cup {Changed(e) : e \in config}
  /\ UNCHANGED <<call, pc, mu, doc, defs, configs, seen>>

-----------------------------------------------------------------------------
Step(s) ==
  \/ ReadTab(s) \/ DeployTab(s) \/ CheckDefinition(s)
  \/ SendDocument(s)
  \/ FetchDefinitions(s) \/ ScanReferences(s) \/ PutDefinitions(s)
  \/ LookupTarget(s) \/ VerifyType(s) \/ FireInject(s)

Next == EditorDeploy \/ \E s \in Sessions : Step(s)

Spec == Init /\ [][Next]_vars

-----------------------------------------------------------------------------
(* Properties.                                                              *)

FlatDefinition(d, id) ==
  Flat(d, id, "subflow") \cup {Own(g, id) : g \in d.groups}

\* An edit as its tool describes it, on the flat configuration.
Intended(k, C) ==
  CASE k.op \in {"add_node", "instantiate_subflow"} -> C \cup {Own(k.node, k.flow)}
    [] k.op = "update_node" ->
         {IF e.id = k.id THEN Own(Patched(e, k.patch), k.flow) ELSE e : e \in C}
    [] k.op = "delete_node" ->
         {IF e.z = k.flow THEN Sweep(e, k.id) ELSE e : e \in {f \in C : f.id # k.id}}
    [] k.op = "connect_nodes" ->
         {IF e.id = k.id THEN [e EXCEPT !.wires = @ \cup {<<k.port, k.to>>}] ELSE e :
            e \in C}
    [] k.op = "set_disabled" ->
         {IF e.id = k.flow THEN [e EXCEPT !.off = k.off] ELSE e : e \in C}
    [] k.op = "delete_subflow" -> {e \in C : k.id \notin {e.id, e.z}}
    [] k.op = "create_subflow" -> C \cup FlatDefinition(k.doc, k.id)
    [] k.op = "update_subflow" ->
         {e \in C : k.id \notin {e.id, e.z}} \cup FlatDefinition(k.doc, k.id)

Rooted(C) == \A e \in Owners(C) : e.z = "" /\ e.inst = ""

\* What the runtime keeps of a configuration: the entries have ids of their
\* own, tabs and definitions stand by themselves, every node has its owner.
WellFormed(C) ==
  /\ \A e \in C : e.id # "" /\ \A f \in C : e.id = f.id => e = f
  /\ Rooted(C)
  /\ \A e \in C \ Owners(C) : ~ownerlessNodeIssue(C, e)

\* In such a configuration a write that nothing overtook does what its tool
\* says and no more: the way through the nested document, the flattening and
\* the overlay loses no field, no credential, no group and no entry of
\* anybody (edit.go:77-108, flows_update.go:124-152, subflows.go:24-40).
EditIsExact ==
  [][\A s \in Sessions :
         /\ (DeployTab(s) \/ PutDefinitions(s)) /\ pc'[s] = "done"
         /\ config = seen[s] /\ WellFormed(config)
       => config' = Intended(call[s], config)]_vars

TabWrite(s) == DeployTab(s) \/ (SendDocument(s) /\ call[s].op = "update_flow")
Submitted(s) == IF call[s].op = "update_flow" THEN call[s].doc ELSE doc[s]
DefinitionMembers(d) == UNION {Members(sf) : sf \in d.subflows}

\* A write of one tab leaves what stands outside of it as it is and brings
\* nothing in there, even when the editor moved entries between its read and
\* its deployment (validateReplacementOwners).  Only a member of a definition
\* that is submitted with the tab is filed where its z says.
TabsAreApart ==
  [][\A s \in Sessions : TabWrite(s) =>
       LET own == flattenOwners(Submitted(s), call[s].flow)
           apart == {e \in config : e.id \notin own /\ e.z \notin own} IN
       /\ apart \subseteq config'
       /\ \A e \in config' \ config :
            \/ e.id \in own \/ e.z \in own
            \/ e.z \notin {""} \cup IdsOf(apart)
            \/ e.id \in IdsOf(DefinitionMembers(Submitted(s)))]_vars

\* What a tab write leaves behind runs: the tab holds what was submitted and
\* nothing else, every instance in it has its definition, and every wire and
\* every z of what was submitted ends there, whatever happened meanwhile.
TabIsSound ==
  [][\A s \in Sessions : TabWrite(s) /\ pc'[s] = "done" =>
       LET t == call[s].flow
           d == Submitted(s)
           mine == {e \in config' : e.id \in IdsOf(Members(d))} IN
       /\ Missing(Owned(config', t), Definitions(config')) = {}
       /\ \A e \in Owned(config', t) \ mine :
            e.id \in flattenOwners(d, t) \cup IdsOf(DefinitionMembers(d))
       /\ \A e \in mine :
            /\ e.z \in {t} \cup IdsOf(mine)
            /\ \A w \in e.wires : w[2] \in IdsOf(mine)]_vars

\* The ids of what a call submits.
Brings(k, id) ==
  \/ k.op = "add_node" /\ id = k.node.id
  \/ k.op = "update_node" /\ id = k.id
  \/ /\ k.op \in {"create_flow", "update_flow", "create_subflow", "update_subflow"}
     /\ \E e \in Members(k.doc) \cup k.doc.groups \cup DefinitionMembers(k.doc) : e.id = id
  \/ k.op \in ArrayOps /\ \E e \in k.entries : e.id = id

\* Instances nobody compares with the definitions: of a new tab, of a
\* definition, of a forced array, of a tab's write what stands elsewhere; and
\* a tab that is deleted takes a definition of its id along.
Unchecked(k, e) ==
  \/ /\ Brings(k, e.id)
     /\ k.op \in {"add_node", "update_node", "update_flow"} => e.z # k.flow
     /\ k.op \in ArrayOps => k.force
  \/ k.op = "delete_flow" /\ k.flow = e.inst

Resolved(C) ==
  \A e \in Missing(C, Definitions(C)) :
     \E s \in Sessions : pc[s] = "done" /\ Unchecked(call[s], e)

\* Deleting a definition and adding an instance of it, in any interleaving
\* of sessions, leaves no instance without its definition: the scan and the
\* check of the deployment see each other (subflows.go:716-790,
\* validate_deploy.go:186-206).
InstancesResolve == edits = 0 => Resolved(config)

\* Nodes of a forbidden type; tabs and definitions are no nodes.
DeniedIn(C) == {e.id : e \in {f \in C \ Owners(C) : DeniedEntry(f)}}

\* The walk of the policy passes by the groups of a definition.
Unjudged(k) == IF k.op \in {"create_subflow", "update_subflow"} THEN {g.id : g \in k.doc.groups} ELSE {}
Allowed(s) == DeniedIn(seen[s]) \cup Unjudged(call[s])

\* No write of the client brings in a node of a forbidden type: what it
\* deploys was there, or was in the definitions it read before the editor
\* removed it, or stands in a collection the policy does not enter.
PolicyHolds ==
  [][\A s \in Sessions :
       Step(s) => DeniedIn(config') \subseteq DeniedIn(config) \cup Allowed(s)]_vars

\* The runtime starts what is enabled and stands in an enabled tab.
Runs(C, id) ==
  \E e \in C : /\ e.id = id /\ e.off # "true"
           /\ \A o \in C : o.type = "tab" /\ o.id = e.z => o.off # "true"

\* inject_node answers "fired" for a node that could not run only when the
\* configuration changed after its lookup (tools_flows.go:506-532).
LostOnlyWhenOvertaken ==
  [][\A s \in Sessions :
       FireInject(s) /\ pc'[s] = "done" /\ ~Runs(config, call[s].id)
         => config # seen[s]]_vars

-----------------------------------------------------------------------------
(* What the sessions carry from one request to the next.                    *)

TypeOK ==
  /\ Entries(config)
  /\ DOMAIN call = Sessions
  /\ pc \in [Sessions -> {"read", "deploy", "check", "send", "fetch", "scan", "put",
                           "lookup", "verify", "fire", "done", "refused"}]
  /\ DOMAIN doc = Sessions /\ DOMAIN defs = Sessions
  /\ DOMAIN configs = Sessions /\ DOMAIN seen = Sessions

\* A call is what its tool makes of it, admitted, and at a request of its own.
CallInv(s) ==
  pc[s] # "refused" =>
    /\ IsCall(call[s])
    /\ Admitted(call[s])
    /\ pc[s] \in {"read", "deploy"} => call[s].op \in EditOps \cup {"instantiate_subflow"}
    /\ pc[s] = "check" => call[s].op = "instantiate_subflow"
    /\ pc[s] = "send" => call[s].op \in DocumentOps
    /\ pc[s] \in {"fetch", "scan", "put"} => call[s].op \in SubflowOps
    /\ pc[s] \in {"lookup", "verify", "fire"} => call[s].op = "inject_node"

\* Forbidden nodes in what is carried were there when it was read.
JudgedBy(nodes, ids) ==
  \A n \in nodes : DeniedEntry(n) /\ n.type \notin {"tab", "subflow"} => n.id \in ids
Sound(C, ids) == Entries(C) /\ JudgedBy(C, ids)
SoundDefinition(d, ids) == IsHeaded(d) /\ JudgedBy(Members(d) \cup d.groups, ids)
OneTab(d, ids) == IsDocument(d) /\ d.subflows = {} /\ JudgedBy(Members(d), ids)

\* What an edit will deploy is a document of one tab.
DocInv(s) == pc[s] = "deploy" => OneTab(doc[s], Allowed(s))

\* An instance that will be added is the one that was judged.
InstanceInv(s) ==
  pc[s] = "read" /\ call[s].op = "instantiate_subflow" => ~DeniedEntry(call[s].node)

DefsInv(s) ==
  pc[s] \in {"scan", "put"} =>
    /\ \A d \in defs[s] : SoundDefinition(d, Allowed(s))
    /\ Sound(configs[s], Allowed(s))

InjectInv(s) == pc[s] \in {"verify", "fire"} => Enabled(seen[s], call[s].id)

SessionInv(s) == CallInv(s) /\ DocInv(s) /\ InstanceInv(s) /\ DefsInv(s) /\ InjectInv(s)

IInv == TypeOK /\ \A s \in Sessions : SessionInv(s)

\* What will be deployed or put is what the call makes of what it read.
EditedInv(s) ==
  pc[s] = "deploy" =>
    \E d \in GetFlow(seen[s], call[s].flow) : doc[s] \in Edited(call[s], d)
RewriteInv(s) ==
  pc[s] \in {"scan", "put"} =>
    /\ defs[s] \in Rewritten(call[s], GlobalDefinitions(seen[s]))
    /\ configs[s] = GlobalConfigs(seen[s])

EditsInv == \A s \in Sessions : EditedInv(s) /\ RewriteInv(s)

-----------------------------------------------------------------------------
(* What keeps the instances and the definitions together while only tools   *)
(* write.                                                                   *)

Plain(S) == \A e \in S : e.type \notin {"tab", "subflow"}
PlainDoc(d) == d.top.z = "" /\ Plain(Members(d) \cup d.groups)

PlainCall(k) ==
  /\ k.op = "add_node" => Plain({k.node})
  /\ k.op = "update_node" /\ "type" \in DOMAIN k.patch =>
       k.patch.type \notin {"tab", "subflow"}
  /\ k.op \in {"create_flow", "update_flow", "create_subflow", "update_subflow"} =>
       PlainDoc(k.doc) /\ \A sf \in k.doc.subflows : PlainDoc(sf)
  /\ k.op \in ArrayOps => Rooted(k.entries)

\* The runtime starts with a configuration it can run, and no call submits a
\* tab or a definition as a node of another.
Ordinary ==
  /\ \A C \in Starts :
       /\ Rooted(C) /\ Missing(C, Definitions(C)) = {}
       /\ \A e, f \in C \ Owners(C) : e.id = f.id /\ e.id # "" => e = f
  /\ \A k \in Calls : PlainCall(k)

\* Two nodes of one id come from a write that does not look for the id.
Repeats(k, id) ==
  /\ Brings(k, id)
  /\ k.op \in {"create_flow", "create_subflow", "update_subflow"} \cup ArrayOps
  /\ k.op \in ArrayOps => k.force

IdsAreApart(C) ==
  \A e, f \in C \ Owners(C) :
    e.id = f.id /\ e.id # "" /\ e # f =>
      \E s \in Sessions : pc[s] = "done" /\ Repeats(call[s], e.id)

ConfigInv(C) == Rooted(C) /\ IdsAreApart(C) /\ Resolved(C)

\* What an edit will deploy: the nodes of the tab, and the one it touched.
TabOf(k, d) ==
  /\ d.top.z = "" /\ Plain(Members(d))
  /\ \A n \in Members(d) : n.z = k.flow \/ (Brings(k, n.id) /\ k.op \in {"add_node", "update_node"})

HolderInv(s) == pc[s] \in {"deploy", "scan", "put"} => mu = s /\ seen[s] = config
TabInv(s) == pc[s] = "deploy" => TabOf(call[s], doc[s])
NewInstanceInv(s) ==
  pc[s] = "read" /\ call[s].op = "instantiate_subflow" =>
    call[s].node.z = call[s].flow /\ call[s].node.type = "instance"
FetchedInv(s) ==
  /\ RewriteInv(s)
  /\ pc[s] = "put" /\ call[s].op = "delete_subflow" =>
       subflowReferences(seen[s], GlobalDefinitions(seen[s]), call[s].id) = {}

CarriedInv(s) ==
  PlainCall(call[s]) /\ HolderInv(s) /\ TabInv(s) /\ NewInstanceInv(s) /\ FetchedInv(s)

ToolsInv ==
  /\ edits \in Nat
  /\ edits = 0 => ConfigInv(config) /\ \A s \in Sessions : CarriedInv(s)
=============================================================================
