------------------------------ MODULE FlowEdits ------------------------------
(***************************************************************************)
(* The edits of one tab as functions of a document (internal/nodered/      *)
(* edit.go, flows.go), and the replacement of the tab's entries in the     *)
(* flat configuration (flows_update.go).                                   *)
(*                                                                         *)
(* An operator that may refuse returns the set of its results: {} is the   *)
(* error path.  A document with two members of one id is located at either *)
(* of them; the deployment refuses it whichever it is.                     *)
(***************************************************************************)
EXTENDS FlowRules, Naturals

-----------------------------------------------------------------------------
(* edit.go *)

exists(doc, id) == \E n \in Members(doc) : n.id = id

\* The nodes collection is searched before the configs collection.
locate(doc, id) ==
  LET canvas == {n \in doc.nodes : n.id = id}
  IN IF canvas # {} THEN canvas ELSE {n \in doc.configs : n.id = id}

Swap(doc, old, new) ==
  LET In(ns) == IF old \in ns THEN (ns \ {old}) \cup {new} ELSE ns
  IN [doc EXCEPT !.nodes = In(@), !.configs = In(@)]

validateZRef(doc, z) == z = "" \/ z = doc.top.id \/ exists(doc, z)

\* The id may not be taken in either collection; a node without canvas
\* coordinates would be filed where it never runs.
AddNodeToFlow(doc, node) ==
  IF /\ doc.ok
     /\ node.id # "" /\ node.type # ""
     /\ ~exists(doc, node.id)
     /\ node.xy
     /\ validateZRef(doc, node.z)
  THEN {[doc EXCEPT !.nodes = @ \cup {node}]}
  ELSE {}

Patched(n, patch) ==
  [f \in DOMAIN n |-> IF f \in DOMAIN patch THEN patch[f] ELSE n[f]]

\* The patch replaces the fields it names; it cannot rename the node.
UpdateNodeInFlow(doc, id, patch) ==
  IF /\ id # ""
     /\ DOMAIN patch # {} /\ "id" \notin DOMAIN patch
     /\ "type" \in DOMAIN patch => patch.type # ""
     /\ doc.ok
  THEN {next \in {Swap(doc, n, Patched(n, patch)) : n \in locate(doc, id)} :
          \A n \in locate(next, id) : validateZRef(next, n.z)}
  ELSE {}

\* Unreadable wires are left as they are.
Sweep(n, id) ==
  IF n.readable THEN [n EXCEPT !.wires = {w \in @ : w[2] # id}] ELSE n

Swept(doc, id) == [doc EXCEPT !.nodes = {Sweep(n, id) : n \in @},
                              !.configs = {Sweep(n, id) : n \in @}]

Without(doc, n) == [doc EXCEPT !.nodes = @ \ {n},
                               !.configs = IF n \in doc.nodes THEN @ ELSE @ \ {n}]

\* The node and every wire that led to it.
DeleteNodeFromFlow(doc, id) ==
  IF id # "" /\ doc.ok
  THEN {Swept(Without(doc, n), id) : n \in locate(doc, id)}
  ELSE {}

MaxPort == 999

\* Connecting twice is connecting once.
ConnectNodesInFlow(doc, fromID, port, toID) ==
  IF /\ fromID # "" /\ toID # "" /\ fromID # toID
     /\ port \in 0..MaxPort
     /\ doc.ok /\ exists(doc, toID)
  THEN {Swap(doc, n, [n EXCEPT !.wires = @ \cup {<<port, toID>>}]) :
          n \in {m \in locate(doc, fromID) : m.readable}}
  ELSE {}

SetDisabledInFlow(doc, disabled) ==
  IF doc.ok THEN {[doc EXCEPT !.top.off = disabled]} ELSE {}

\* The policy judges the node as it will be deployed.
deniedNodeTypeOfNode(doc, id) == \E n \in locate(doc, id) : DeniedEntry(n)

-----------------------------------------------------------------------------
(* flows_update.go *)

\* Every entry has an id and a type that are strings, and no id is shared.
indexFlowEntries(S) ==
  \A e \in S : e.id # "" /\ e.type # "" /\ \A f \in S : f.id = e.id => f = e

Own(n, o) == IF n.z = "" THEN [n EXCEPT !.z = o] ELSE n

\* An array that is not there is no array; the runtime's own type wins.
prepareSubflowForWrite(sf) ==
  sf.ok /\ sf.top.id # "" /\ sf.top.type \in {"", "subflow"}

Flat(doc, id, kind) ==
  {[doc.top EXCEPT !.id = id, !.type = kind, !.inst = ""]}
    \cup {Own(n, id) : n \in Members(doc)}

Flattens(doc, id) ==
  doc.ok /\ doc.top.id \in {"", id} /\ doc.nodes \cap doc.configs = {}

\* Members without a z inherit their owner, in the tab and in the
\* definitions submitted with it.
flattenFlowUpdate(doc, id) ==
  Flat(doc, id, "tab")
    \cup UNION {Flat(sf, sf.top.id, "subflow") : sf \in doc.subflows}

flattenOwners(doc, id) == {id} \cup {sf.top.id : sf \in doc.subflows}

Flattened(doc, id) ==
  /\ Flattens(doc, id)
  /\ \A sf \in doc.subflows :
        prepareSubflowForWrite(sf) /\ Flattens(sf, sf.top.id)

\* What is left out is lost: a mutant.
overlayNothing(old, new) == new

\* What the submitted tab leaves out of its header is kept, and so are the
\* credentials of a node; every other field is the submitted one.
overlayFlowEntry(old, new) ==
  IF old.type = "tab"
  THEN [new EXCEPT !.tag = IF @ = "" THEN old.tag ELSE @,
                   !.off = IF @ = "" THEN old.off ELSE @,
                   !.cred = IF @ = "" THEN old.cred ELSE @]
  ELSE IF new.cred = "" THEN [new EXCEPT !.cred = old.cred] ELSE new

\* Whoever owns an entry, it is replaced: a mutant.
validateReplacementKinds(C, new, owners) ==
  \A r \in new, e \in C : r.id = e.id => e.type \notin {"tab", "subflow"} \/ e.type = r.type

\* An entry that is there already is replaced only by its own owner, or as
\* the owner it is.
validateReplacementOwners(C, new, owners) ==
  \A r \in new, e \in C :
     r.id = e.id => \/ e.z \in owners
                    \/ e.id \in owners /\ e.type = r.type

replaceFlowEntries(C, id, doc) ==
  LET new == flattenFlowUpdate(doc, id)
      owners == flattenOwners(doc, id)
      taken == IdsOf(new)
  IN IF /\ indexFlowEntries(C)
        /\ \E e \in C : e.id = id /\ e.type = "tab"
        /\ Flattened(doc, id) /\ indexFlowEntries(new)
        /\ validateReplacementOwners(C, new, owners)
     THEN {{overlayFlowEntry(p[1], p[2]) :
              p \in {q \in C \X new : q[1].id = q[2].id}}
             \cup {e \in C : e.id \notin taken /\ e.z \notin owners}
             \cup {e \in new : e.id \notin IdsOf(C)}}
     ELSE {}

\* The members as they will be deployed, whatever their z.
validateDeployedTab(C, id, doc) ==
  LET deployed(S) == {e \in C : e.id \in IdsOf(S)}
      tab == [doc EXCEPT !.nodes = deployed(@), !.configs = deployed(@)]
  IN validateFlowWires(tab) /\ validateZRefsInFlow(tab, id)

\* updateFlowLocked: the document is judged before the configuration is read.
CanSend(doc, id) ==
  id # "" /\ validateFlowWires(doc) /\ validateZRefsInFlow(doc, id)

\* deployFlowUpdate: what POST /flows installs when its revision still holds.
deployFlowUpdate(C, id, doc) ==
  {next \in replaceFlowEntries(C, id, doc) :
     validateDeployedTab(next, id, doc) /\ validateTabEntries(next, id)}
=============================================================================
