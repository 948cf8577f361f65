------------------------------ MODULE FlowRules ------------------------------
(***************************************************************************)
(* What a Node-RED configuration is to the client, and the structural      *)
(* rules it judges one by: internal/nodered/validate.go (one nested        *)
(* document), validate_deploy.go (the whole flat configuration) and        *)
(* policy.go (forbidden node types).                                       *)
(*                                                                         *)
(* A configuration is the set of its flat entries, a nested document is a  *)
(* header with its member collections.  Order is abstracted: an issue is   *)
(* its kind with the ids it names, and the write path only asks whether    *)
(* there is one.  A value the code cannot read is a mark: `readable' for   *)
(* wires, links = "bad", ok for a whole document.                          *)
(***************************************************************************)
EXTENDS FiniteSets

CONSTANT Denied   \* the node types (and definitions) the operator forbids

(***************************************************************************)
(* One entry.  `inst' is the definition a type refers to once it has been  *)
(* coerced as the runtime does; `type' is the type as a string, so a type  *)
(* of ["subflow:s"] has type "" and inst s, and an ordinary instance has   *)
(* type "instance".  `wires' are pairs of an output port and a target,     *)
(* `ports' the wires of a definition's "in" and "out".  Every other field  *)
(* of an entry is `tag'; "" in `tag', `off', `cred' or `z' is a field left *)
(* out, and `off' is "true" for what the runtime does not start.           *)
(***************************************************************************)
configEntry == [id |-> "", type |-> "function", inst |-> "", z |-> "",
                xy |-> TRUE, wires |-> {}, readable |-> TRUE,
                links |-> "none", ports |-> {}, off |-> "", cred |-> "",
                tag |-> ""]

Owned(C, o) == {e \in C : e.z = o}

\* The nested document of a tab or a definition.  `groups' are the entries
\* a document carries in a collection of its own, next to its members.
flowDoc == [ok |-> TRUE, top |-> configEntry, nodes |-> {}, configs |-> {},
            groups |-> {}, subflows |-> {}]

Members(doc) == doc.nodes \cup doc.configs
IdsOf(S) == {e.id : e \in S} \ {""}
Issue(kind, id, target) == [kind |-> kind, id |-> id, target |-> target]

-----------------------------------------------------------------------------
(* validate.go: one document.                                               *)

\* Two members share an id: two records, or one filed in both collections.
Repeated(doc, n) ==
  \/ \E m \in Members(doc) \ {n} : m.id = n.id
  \/ n \in doc.nodes /\ n \in doc.configs

checkNode(doc) ==
  {Issue("missing_id", "", "") : n \in {m \in Members(doc) : m.id = ""}}
    \cup {Issue("duplicate_id", n.id, "") :
            n \in {m \in Members(doc) : m.id # "" /\ Repeated(doc, m)}}
    \cup {Issue("missing_xy", n.id, "") :
            n \in {m \in doc.nodes : m.id # "" /\ ~m.xy}}

\* A wire is judged against the ids of both collections; a node whose wires
\* cannot be read is reported instead of being skipped.
validateWires(S, ids) ==
  {Issue("invalid_wires", n.id, "") : n \in {m \in S : ~m.readable}}
    \cup UNION {{Issue("dangling_wire", n.id, w[2]) :
                   w \in {v \in n.wires : v[2] \notin ids}} :
                n \in {m \in S : m.readable}}

LinkNode(n) == n.type \in {"link in", "link out"}

validateLinkShapes(S) ==
  {Issue("invalid_links", n.id, "") :
     n \in {m \in S : LinkNode(m) /\ m.links = "bad"}}

\* z names neither the owner of the document nor a member of it.
BadZ(doc, owner) ==
  {n \in Members(doc) : n.z \notin {"", owner} \cup IdsOf(Members(doc))}

checkZRef(doc) ==
  {Issue("bad_z", n.id, n.z) : n \in BadZ(doc, doc.top.id)}

ValidateFlow(doc) ==
  IF ~doc.ok THEN {Issue("invalid_document", "", "")}
  ELSE checkNode(doc) \cup checkZRef(doc)
         \cup validateWires(Members(doc), IdsOf(Members(doc)))
         \cup validateLinkShapes(Members(doc))

\* Wires that end nowhere pass: a mutant.
validateFlowShapes(doc) ==
  \A i \in ValidateFlow(doc) :
     i.kind \notin {"invalid_document", "invalid_wires", "invalid_links"}

\* The part of ValidateFlow that the write path refuses.
validateFlowWires(doc) ==
  \A i \in ValidateFlow(doc) :
     i.kind \notin {"dangling_wire", "invalid_document", "invalid_wires",
                    "invalid_links"}

validateZRefsInFlow(doc, owner) == BadZ(doc, owner) = {}

\* GET /flow/:id rebuilt from the flat array.
synthesizeFlowFromFlat(C, id) ==
  LET mine == {e \in Owned(C, id) : e.type # "subflow"}
  IN [flowDoc EXCEPT
        !.top = CHOOSE e \in C : e.type = "tab" /\ e.id = id,
        !.nodes = {e \in mine : e.xy}, !.configs = {e \in mine : ~e.xy}]

TabIds(C) == IdsOf({e \in C : e.type = "tab"})

-----------------------------------------------------------------------------
(* validate_deploy.go: the whole configuration.                             *)

Owners(C) == {e \in C : e.type \in {"tab", "subflow"}}
Definitions(C) == {e.id : e \in {d \in C : d.type = "subflow"}}

\* newConfigIndex: an entry is a member of the owner its z names, unless it
\* is an owner itself.
MembersOf(C, o) == IF o = "" THEN {} ELSE Owned(C, o) \ Owners(C)

\* The runtime recomputes the wires of a link out that has links.
withoutLinkOutWires(e) ==
  IF e.type = "link out" /\ e.links # "none"
  THEN [e EXCEPT !.wires = {}, !.readable = TRUE] ELSE e

ownerDocument(C, o) ==
  LET items == {withoutLinkOutWires(e) : e \in MembersOf(C, o)}
  IN [flowDoc EXCEPT !.top = [configEntry EXCEPT !.id = o],
                     !.nodes = {e \in items : e.xy},
                     !.configs = {e \in items : ~e.xy}]

ownerIssues(doc) ==
  {i \in ValidateFlow(doc) : i.kind \notin {"duplicate_id", "invalid_links"}}

\* An out may name the definition itself: input wired straight to output.
portTargetIssues(def, ids) ==
  {Issue("dangling_subflow_port", def.id, p[2]) :
     p \in {q \in def.ports : /\ q[2] \notin ids
                              /\ q # <<"out", def.id>>}}

subflowPortIssues(C, def) ==
  portTargetIssues(def, IdsOf(MembersOf(C, def.id)))

\* The groups of a nested definition are members for its ports.
subflowDefinitionPortIssues(doc) ==
  portTargetIssues(doc.top, IdsOf(Members(doc) \cup doc.groups))

validateSubflowPorts(doc) == subflowDefinitionPortIssues(doc) = {}

duplicateIDIssues(C) ==
  {Issue("duplicate_id", e.id, "") :
     e \in {d \in C : d.id # "" /\ \E f \in C \ {d} : f.id = d.id}}

ownerRuleIssues(C) ==
  UNION {ownerIssues(ownerDocument(C, o.id))
           \cup (IF o.type = "subflow" THEN subflowPortIssues(C, o) ELSE {}) :
         o \in Owners(C)}

\* A node that names an owner which is not there, and a canvas node that
\* names none: a configuration node without a z is global, and legal.
ownerlessNodeIssue(C, e) ==
  IF e.z # "" THEN e.z \notin {o.id : o \in Owners(C)} ELSE e.xy

orphanNodeIssues(C) ==
  {Issue("orphan_node", e.id, e.z) :
     e \in {d \in C : /\ d.type \notin {"tab", "subflow", "group"}
                      /\ ownerlessNodeIssue(C, d)}}

Missing(S, defs) == {e \in S : e.inst # "" /\ e.inst \notin defs}

missingSubflowIssues(C) ==
  {Issue("missing_subflow", e.id, e.inst) : e \in Missing(C, Definitions(C))}

ValidateEffectiveConfig(C) ==
  duplicateIDIssues(C) \cup ownerRuleIssues(C) \cup orphanNodeIssues(C)
    \cup missingSubflowIssues(C) \cup validateLinkShapes(C)

\* What a write of one tab answers for in the whole configuration.
validateTabEntries(C, t) ==
  /\ validateLinkShapes(Owned(C, t)) = {}
  /\ Missing(Owned(C, t), Definitions(C)) = {}

-----------------------------------------------------------------------------
(* policy.go: a type is judged as a string; a coerced one names no type.    *)

DeniedEntry(e) == e.type \in Denied \/ (e.type = "instance" /\ e.inst \in Denied)

\* The members of the definitions are forgotten: a mutant.
deniedTypeInMembers(doc) ==
  \E e \in {doc.top} \cup Members(doc) \cup {s.top : s \in doc.subflows} : DeniedEntry(e)

\* The walk enters nodes, configs and subflows, and no other collection.
deniedTypeInValue(doc) ==
  \E e \in {doc.top} \cup Members(doc)
             \cup UNION {{s.top} \cup Members(s) : s \in doc.subflows} :
     DeniedEntry(e)

deniedNodeTypeInFlows(C) == \E e \in C : DeniedEntry(e)
=============================================================================
