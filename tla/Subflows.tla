------------------------------ MODULE Subflows -------------------------------
(***************************************************************************)
(* Subflow definitions (internal/nodered/subflows.go): the nested view the *)
(* runtime serves at /flow/global, the guard of a definition, the search   *)
(* for what still uses one, and the instance that is added to a tab.       *)
(***************************************************************************)
EXTENDS FlowEdits

-----------------------------------------------------------------------------
(* The runtime's two nested views (external).  GET /flow/global serves the  *)
(* definitions with their members and the configuration nodes without an    *)
(* owner; PUT replaces both and leaves the tabs and their nodes.  The owner *)
(* of a node is looked for among the tabs first, so a tab shadows a         *)
(* definition of the same id.                                               *)

Nest(C, o) ==
  LET mine == IF o.id \in TabIds(C) THEN {} ELSE MembersOf(C, o.id)
  IN [flowDoc EXCEPT !.top = o,
                     !.nodes = {e \in mine : e.xy /\ e.type # "group"},
                     !.configs = {e \in mine : ~e.xy},
                     !.groups = {e \in mine : e.xy /\ e.type = "group"}]

GlobalDefinitions(C) == {Nest(C, d) : d \in {e \in C : e.type = "subflow"}}
GlobalConfigs(C) == {e \in Owned(C, "") \ Owners(C) : ~e.xy}

PutGlobal(C, defs, configs) ==
  {e \in C : e.type = "tab" \/ e.z \in TabIds(C)}
    \cup (UNION {{[d.top EXCEPT !.type = "subflow", !.inst = ""]}
                   \cup {Own(n, d.top.id) : n \in Members(d) \cup d.groups} :
                 d \in defs})
    \cup configs

\* GET /flow/:id leaves out the credentials of the nodes.
Hidden(S) == {[n EXCEPT !.cred = ""] : n \in S}
RuntimeFlow(C, id) ==
  LET doc == synthesizeFlowFromFlat(C, id)
  IN [doc EXCEPT !.nodes = Hidden(@), !.configs = Hidden(@)]

\* A runtime without the route answers 404: the flat array is read instead.
GetFlow(C, id) ==
  IF id # "" /\ id \in TabIds(C)
  THEN {RuntimeFlow(C, id), synthesizeFlowFromFlat(C, id)} ELSE {}

-----------------------------------------------------------------------------

\* CreateSubflow and UpdateSubflow, before the runtime is read: the policy,
\* then the guards of a tab document, then the ports.
SubflowGuard(doc, id) ==
  /\ prepareSubflowForWrite(doc)
  /\ ~deniedTypeInValue(doc)
  /\ doc.top.id = id
  /\ validateFlowWires(doc) /\ validateZRefsInFlow(doc, id)
  /\ validateSubflowPorts(doc)

Holds(defs, id) == \E d \in defs : d.top.id = id
Others(defs, id) == {d \in defs : d.top.id # id}

\* What the write puts in the place of the definitions that were read.
CreateSubflow(defs, doc) ==
  IF Holds(defs, doc.top.id) THEN {} ELSE {defs \cup {doc}}

UpdateSubflow(defs, id, doc) ==
  IF Holds(defs, id) THEN {Others(defs, id) \cup {doc}} ELSE {}

DeleteSubflow(defs, id) ==
  IF id # "" /\ Holds(defs, id) THEN {Others(defs, id)} ELSE {}

\* Both scans compare the type as the runtime coerces it: an array with the
\* one element "subflow:s" refers to s as well.
memberIsInstance(n, id) == n.inst = id

Reference(owner, kind, node) == [owner |-> owner, kind |-> kind, node |-> node]

\* A tab shadows a definition of the same id.
OwnerKind(C, z) ==
  CASE z = "" -> "global"
    [] z # "" /\ z \in TabIds(C) -> "tab"
    [] z # "" /\ z \in Definitions(C) \ TabIds(C) -> "subflow"
    [] OTHER -> "unknown"

\* Only the definitions are searched: a mutant.
nestedReferences(C, defs, id) ==
  UNION {{Reference(d.top.id, "subflow", n.id) :
            n \in {m \in Members(d) : memberIsInstance(m, id)}} : d \in Others(defs, id)}

\* The members of the definition itself go away with it: they are excluded
\* by node id, since a tab may carry the id of the definition.
subflowReferences(C, defs, id) ==
  LET self == UNION {IdsOf(Members(d)) : d \in {e \in defs : e.top.id = id}}
      nested == UNION {{Reference(d.top.id, "subflow", n.id) :
                          n \in {m \in Members(d) : memberIsInstance(m, id)}} :
                       d \in Others(defs, id)}
      flat == {Reference(e.z, OwnerKind(C, e.z), e.id) :
                 e \in {f \in C : memberIsInstance(f, id) /\ f.id \notin self}}
  IN nested \cup {r \in flat : \A s \in nested : s.owner # r.owner \/ s.node # r.node}

\* The caller's fields with the type and the owner of an instance; without
\* an id it gets a new one, without coordinates the default ones.
InstanceOf(node, sub, flow, new) ==
  [node EXCEPT !.type = "instance", !.inst = sub, !.z = flow, !.xy = TRUE,
               !.id = IF @ = "" THEN new ELSE @]
=============================================================================
