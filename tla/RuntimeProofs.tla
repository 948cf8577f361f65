----------------------------- MODULE RuntimeProofs -----------------------------
(***************************************************************************)
(* Proofs about one Node-RED as the server reads and writes it: Documents, *)
(* what the tool calls make of its configuration, for any sessions, any    *)
(* calls and any configurations; and VersionGate, what the server says of  *)
(* its version, for any number of callers and any Node-REDs.               *)
(***************************************************************************)
EXTENDS Documents, VersionGate, TLAPS

-----------------------------------------------------------------------------
(* Entries and documents: what the operators keep of a record.              *)

Fields == {"id", "type", "inst", "z", "xy", "wires", "readable", "links", "ports", "off", "cred", "tag"}
Parts == {"ok", "top", "nodes", "configs", "groups", "subflows"}

LEMMA FieldsOf ==
  /\ DOMAIN configEntry = Fields
  /\ DOMAIN flowDoc = Parts
  /\ \A e : IsEntry(e) => DOMAIN e = Fields
<1>1. DOMAIN configEntry = Fields /\ DOMAIN flowDoc = Parts
  BY DEF configEntry, flowDoc, Fields, Parts
<1>2. ASSUME NEW e, IsEntry(e) PROVE DOMAIN e = Fields
  BY <1>1, <1>2 DEF IsEntry
<1> QED BY <1>1, <1>2

(* A field of an entry is replaced. *)
LEMMA EntryExcept ==
  ASSUME NEW e, IsEntry(e), NEW f, NEW v
  PROVE IsEntry([e EXCEPT ![f] = v])
<1> DEFINE x == [e EXCEPT ![f] = v]
<1>1. x = [g \in DOMAIN e |-> x[g]]
  OBVIOUS
<1>2. DOMAIN e = DOMAIN configEntry
  BY FieldsOf
<1> QED BY <1>1, <1>2 DEF IsEntry

(* e and r are one entry but for the owner, the credentials, the label and
   the switch. *)
Alike(e, r) ==
  /\ IsEntry(e) /\ IsEntry(r)
  /\ e.id = r.id /\ e.type = r.type /\ e.inst = r.inst
  /\ e.wires = r.wires /\ e.readable = r.readable /\ e.links = r.links
SameEntry(e, r) == Alike(e, r) /\ e.z = r.z

LEMMA OwnFields ==
  ASSUME NEW n, NEW o, IsEntry(n)
  PROVE /\ Alike(Own(n, o), n)
        /\ Own(n, o).z = IF n.z = "" THEN o ELSE n.z
<1>1. DOMAIN n = Fields /\ IsEntry([n EXCEPT !.z = o])
  BY EntryExcept, FieldsOf
<1> QED BY <1>1 DEF Own, Fields, Alike

LEMMA OverlayFields ==
  ASSUME NEW old, NEW new, IsEntry(new)
  PROVE SameEntry(overlayFlowEntry(old, new), new)
<1>1. IsEntry(overlayFlowEntry(old, new))
  <2>1. \A c : IsEntry([new EXCEPT !.cred = c])
    BY EntryExcept
  <2>2. \A t : IsEntry([new EXCEPT !.tag = t])
    BY EntryExcept
  <2>3. \A t, f : IsEntry([[new EXCEPT !.tag = t] EXCEPT !.off = f])
    BY <2>2, EntryExcept
  <2>4. \A t, f, c : IsEntry([[[new EXCEPT !.tag = t] EXCEPT !.off = f] EXCEPT !.cred = c])
    BY <2>3, EntryExcept
  <2> QED BY <2>1, <2>4 DEF overlayFlowEntry
<1>2. DOMAIN new = Fields
  BY FieldsOf
<1> QED BY <1>1, <1>2 DEF overlayFlowEntry, Fields, SameEntry, Alike

LEMMA DeniedAlike ==
  ASSUME NEW e, NEW r, Alike(e, r)
  PROVE DeniedEntry(e) <=> DeniedEntry(r)
  BY DEF DeniedEntry, Alike

(* The header of a document, filed under an id and a type. *)
Header(d, id, kind) == [d.top EXCEPT !.id = id, !.type = kind, !.inst = ""]

LEMMA HeaderFields ==
  ASSUME NEW d, IsHeaded(d), NEW id, NEW kind
  PROVE /\ IsEntry(Header(d, id, kind))
        /\ Header(d, id, kind).id = id
        /\ Header(d, id, kind).type = kind
<1>1. IsEntry(d.top) /\ DOMAIN d.top = Fields
  BY FieldsOf DEF IsHeaded, Entries
<1>2. IsEntry([d.top EXCEPT !.id = id])
  BY <1>1, EntryExcept
<1>3. IsEntry([[d.top EXCEPT !.id = id] EXCEPT !.type = kind])
  BY <1>2, EntryExcept
<1>4. IsEntry(Header(d, id, kind))
  BY <1>3, EntryExcept DEF Header
<1> QED BY <1>1, <1>4 DEF Header, Fields

LEMMA HeaderRoot ==
  ASSUME NEW d, IsHeaded(d), NEW id, NEW kind
  PROVE /\ Header(d, id, kind).inst = ""
        /\ Header(d, id, kind).z = d.top.z
<1>1. DOMAIN d.top = Fields
  BY FieldsOf DEF IsHeaded, Entries
<1> QED BY <1>1 DEF Header, Fields

(* The entries of a nested document, one by one. *)
LEMMA FlatEntries ==
  ASSUME NEW d, NEW id, NEW kind, NEW r
  PROVE r \in Flat(d, id, kind) <=>
          \/ r = Header(d, id, kind)
          \/ \E n \in Members(d) : r = Own(n, id)
  BY DEF Flat, Header

LEMMA FlattenedEntries ==
  ASSUME NEW d, NEW id, NEW r \in flattenFlowUpdate(d, id)
  PROVE \/ r = Header(d, id, "tab")
        \/ \E n \in Members(d) : r = Own(n, id)
        \/ \E sf \in d.subflows :
             \/ r = Header(sf, sf.top.id, "subflow")
             \/ \E n \in Members(sf) : r = Own(n, sf.top.id)
<1>1. CASE r \in Flat(d, id, "tab")
  BY <1>1, FlatEntries
<1>2. ASSUME NEW sf \in d.subflows, r \in Flat(sf, sf.top.id, "subflow")
      PROVE \/ r = Header(sf, sf.top.id, "subflow")
            \/ \E n \in Members(sf) : r = Own(n, sf.top.id)
  BY <1>2, FlatEntries
<1> QED BY <1>1, <1>2 DEF flattenFlowUpdate

LEMMA FlattenedFields ==
  ASSUME NEW d, IsDocument(d), NEW id, NEW r \in flattenFlowUpdate(d, id)
  PROVE IsEntry(r)
<1>1. \A n \in Members(d) : IsEntry(n)
  BY FieldsOf DEF IsDocument, IsHeaded, Entries
<1>2. \A sf \in d.subflows : IsHeaded(sf) /\ \A n \in Members(sf) : IsEntry(n)
  BY FieldsOf DEF IsDocument, IsHeaded, Entries
<1>3. CASE r = Header(d, id, "tab")
  BY <1>3, HeaderFields DEF IsDocument
<1>4. ASSUME NEW n \in Members(d), r = Own(n, id) PROVE IsEntry(r)
  BY <1>1, <1>4, OwnFields DEF Alike
<1>5. ASSUME NEW sf \in d.subflows, r = Header(sf, sf.top.id, "subflow") PROVE IsEntry(r)
  BY <1>2, <1>5, HeaderFields
<1>6. ASSUME NEW sf \in d.subflows, NEW n \in Members(sf), r = Own(n, sf.top.id)
      PROVE IsEntry(r)
  BY <1>2, <1>6, OwnFields DEF Alike
<1> QED BY <1>3, <1>4, <1>5, <1>6, FlattenedEntries

-----------------------------------------------------------------------------
(* The replacement of a tab's entries, entry by entry. *)

(* Whatever is there afterwards was there and is nobody's business, or is
   what was submitted, but for what the overlay keeps. *)
LEMMA ReplacedEntries ==
  ASSUME NEW C, NEW d, IsDocument(d), NEW id, NEW next \in replaceFlowEntries(C, id, d), NEW e \in next
  PROVE \/ /\ e \in C
           /\ e.id \notin IdsOf(flattenFlowUpdate(d, id))
           /\ e.z \notin flattenOwners(d, id)
        \/ \E r \in flattenFlowUpdate(d, id) : SameEntry(e, r)
<1> DEFINE new == flattenFlowUpdate(d, id)
           owners == flattenOwners(d, id)
<1>1. next = {overlayFlowEntry(p[1], p[2]) : p \in {q \in C \X new : q[1].id = q[2].id}}
               \cup {c \in C : c.id \notin IdsOf(new) /\ c.z \notin owners}
               \cup {r \in new : r.id \notin IdsOf(C)}
  BY DEF replaceFlowEntries
<1> HIDE DEF new, owners
<1>2. ASSUME NEW p \in C \X new, e = overlayFlowEntry(p[1], p[2])
      PROVE \E r \in new : SameEntry(e, r)
  <2>1. p[2] \in new /\ IsEntry(p[2])
    BY <1>2, FlattenedFields DEF new
  <2> QED BY <1>2, <2>1, OverlayFields
<1>3. ASSUME e \in new PROVE SameEntry(e, e)
  BY <1>3, FlattenedFields DEF new, SameEntry, Alike
<1> QED BY <1>1, <1>2, <1>3 DEF new, owners

(* What stands outside of the owners that are written is left as it is, and
   nothing that is written has its id. *)
LEMMA ApartStays ==
  ASSUME NEW C, NEW d, NEW id, NEW next \in replaceFlowEntries(C, id, d),
         NEW c \in C, c.id \notin flattenOwners(d, id), c.z \notin flattenOwners(d, id)
  PROVE /\ c \in next
        /\ c.id \notin IdsOf(flattenFlowUpdate(d, id))
<1> DEFINE new == flattenFlowUpdate(d, id)
           owners == flattenOwners(d, id)
<1>1. next = {overlayFlowEntry(p[1], p[2]) : p \in {q \in C \X new : q[1].id = q[2].id}}
               \cup {x \in C : x.id \notin IdsOf(new) /\ x.z \notin owners}
               \cup {r \in new : r.id \notin IdsOf(C)}
      /\ validateReplacementOwners(C, new, owners)
  BY DEF replaceFlowEntries
<1> HIDE DEF new, owners
<1>2. c.id \notin owners /\ c.z \notin owners
  BY DEF owners
<1>3. \A r \in new : r.id # c.id
  BY <1>1, <1>2 DEF validateReplacementOwners
<1>4. c.id \notin IdsOf(new)
  BY <1>3 DEF IdsOf
<1> QED BY <1>1, <1>2, <1>4 DEF new

-----------------------------------------------------------------------------
(* What a deployment was checked for. *)

(* validate.go: every wire of a document that may be sent can be read and
   ends in the document. *)
LEMMA WiresEnd ==
  ASSUME NEW d, validateFlowWires(d)
  PROVE \A n \in Members(d) : \A w \in n.wires : w[2] \in IdsOf(Members(d))
<1> DEFINE ids == IdsOf(Members(d))
<1> SUFFICES ASSUME NEW n \in Members(d), NEW w \in n.wires, w[2] \notin ids
             PROVE FALSE
  OBVIOUS
<1>1. \A i \in ValidateFlow(d) : i.kind \notin {"dangling_wire", "invalid_document", "invalid_wires"}
  BY DEF validateFlowWires
<1>2. d.ok
  <2>1. SUFFICES ASSUME ~d.ok PROVE FALSE
    OBVIOUS
  <2>2. Issue("invalid_document", "", "") \in ValidateFlow(d)
    BY <2>1 DEF ValidateFlow
  <2> QED BY <1>1, <2>2 DEF Issue
<1>3. validateWires(Members(d), ids) \subseteq ValidateFlow(d)
  BY <1>2 DEF ValidateFlow
<1>4. n.readable
  <2>1. SUFFICES ASSUME ~n.readable PROVE FALSE
    OBVIOUS
  <2>2. Issue("invalid_wires", n.id, "") \in validateWires(Members(d), ids)
    BY <2>1 DEF validateWires
  <2> QED BY <1>1, <1>3, <2>2 DEF Issue
<1>5. Issue("dangling_wire", n.id, w[2]) \in validateWires(Members(d), ids)
  <2> HIDE DEF ids
  <2>1. n \in {m \in Members(d) : m.readable} /\ w \in {v \in n.wires : v[2] \notin ids}
    BY <1>4
  <2>2. Issue("dangling_wire", n.id, w[2]) \in
          {Issue("dangling_wire", n.id, v[2]) : v \in {v \in n.wires : v[2] \notin ids}}
    BY <2>1
  <2>3. Issue("dangling_wire", n.id, w[2]) \in
          UNION {{Issue("dangling_wire", x.id, v[2]) : v \in {v \in x.wires : v[2] \notin ids}} :
                 x \in {m \in Members(d) : m.readable}}
    BY <2>1, <2>2
  <2> QED BY <2>3 DEF validateWires
<1> QED BY <1>1, <1>3, <1>5 DEF Issue

(* The entries of a configuration that have the id of a member. *)
Mine(C, d) == {e \in C : e.id \in IdsOf(Members(d))}

(* flows_update.go, validateDeployedTab: the z and the wires of the members
   as they stand afterwards. *)
LEMMA DeployedMembers ==
  ASSUME NEW d, IsDocument(d), NEW id, NEW next, validateDeployedTab(next, id, d),
         NEW e \in Mine(next, d)
  PROVE /\ e.z \in {"", id} \cup IdsOf(Mine(next, d))
        /\ \A w \in e.wires : w[2] \in IdsOf(Mine(next, d))
<1> DEFINE deployed(S) == {x \in next : x.id \in IdsOf(S)}
           tab == [d EXCEPT !.nodes = deployed(@), !.configs = deployed(@)]
<1>1. validateFlowWires(tab) /\ BadZ(tab, id) = {}
  BY DEF validateDeployedTab, validateZRefsInFlow
<1>2. tab.nodes = deployed(d.nodes) /\ tab.configs = deployed(d.configs)
  BY FieldsOf DEF IsDocument, IsHeaded, Parts
<1> HIDE DEF tab
<1>3. Members(tab) = Mine(next, d)
  BY <1>2 DEF Members, Mine, IdsOf
<1>4. e \in Members(tab)
  BY <1>3
<1>5. e.z \in {"", id} \cup IdsOf(Members(tab))
  BY <1>1, <1>4 DEF BadZ
<1>6. \A w \in e.wires : w[2] \in IdsOf(Members(tab))
  BY <1>1, <1>4, WiresEnd
<1> QED BY <1>3, <1>5, <1>6

(* flows_update.go, replaceFlowEntries: what is refused before anything is
   replaced. *)
LEMMA ReplaceGuard ==
  ASSUME NEW C, NEW d, NEW id, NEW next \in replaceFlowEntries(C, id, d)
  PROVE /\ id # ""
        /\ \A r \in flattenFlowUpdate(d, id) : r.id # ""
        /\ \A r, q \in flattenFlowUpdate(d, id) : r.id = q.id => r = q
<1>1. /\ indexFlowEntries(C) /\ indexFlowEntries(flattenFlowUpdate(d, id))
      /\ \E e \in C : e.id = id
  BY DEF replaceFlowEntries
<1> QED BY <1>1 DEF indexFlowEntries

(* A member is submitted under its own id, with an owner. *)
LEMMA MemberIsSubmitted ==
  ASSUME NEW d, IsDocument(d), NEW id, NEW m \in Members(d)
  PROVE /\ Own(m, id) \in flattenFlowUpdate(d, id)
        /\ Own(m, id).id = m.id
        /\ id # "" => Own(m, id).z # ""
<1>1. IsEntry(m)
  BY FieldsOf DEF IsDocument, IsHeaded, Entries
<1>2. Own(m, id) \in Flat(d, id, "tab")
  BY FlatEntries
<1>3. Own(m, id).id = m.id /\ Own(m, id).z = IF m.z = "" THEN id ELSE m.z
  BY <1>1, OwnFields DEF Alike
<1>4. Own(m, id) \in flattenFlowUpdate(d, id)
  BY <1>2 DEF flattenFlowUpdate
<1> QED BY <1>3, <1>4

-----------------------------------------------------------------------------
(* The calls by their tools. *)

LEMMA EditedCases ==
  ASSUME NEW k, k.op \in EditOps \cup {"instantiate_subflow"}, NEW d, NEW e \in Edited(k, d)
  PROVE \/ /\ k.op \in {"add_node", "instantiate_subflow"}
           /\ e \in AddNodeToFlow(d, k.node)
        \/ /\ k.op = "update_node"
           /\ e \in UpdateNodeInFlow(d, k.id, k.patch)
           /\ ~deniedNodeTypeOfNode(e, k.id)
        \/ k.op = "delete_node" /\ e \in DeleteNodeFromFlow(d, k.id)
        \/ k.op = "connect_nodes" /\ e \in ConnectNodesInFlow(d, k.id, k.port, k.to)
        \/ k.op = "set_disabled" /\ e \in SetDisabledInFlow(d, k.off)
<1>1. k.op \in {"add_node", "update_node", "delete_node", "connect_nodes", "set_disabled",
                "instantiate_subflow"}
  BY DEF EditOps
<1>2. CASE k.op \in {"add_node", "instantiate_subflow"}
  BY <1>2, Zenon DEF Edited
<1>3. CASE k.op = "update_node"
  BY <1>3, Zenon DEF Edited
<1>4. CASE k.op = "delete_node"
  BY <1>4, Zenon DEF Edited
<1>5. CASE k.op = "connect_nodes"
  BY <1>5, Zenon DEF Edited
<1>6. CASE k.op = "set_disabled"
  BY <1>6, Zenon DEF Edited
<1> QED BY <1>1, <1>2, <1>3, <1>4, <1>5, <1>6

LEMMA FirstStepCases ==
  ASSUME NEW k, IsCall(k)
  PROVE /\ FirstStep(k) \in {"read", "fetch", "check", "lookup", "send"}
        /\ FirstStep(k) = "read" => k.op \in EditOps
        /\ FirstStep(k) = "fetch" => k.op \in SubflowOps
        /\ FirstStep(k) = "check" => k.op = "instantiate_subflow"
        /\ FirstStep(k) = "lookup" => k.op = "inject_node"
        /\ FirstStep(k) = "send" => k.op \in DocumentOps
<1>1. k.op \in EditOps \cup DocumentOps \cup SubflowOps \cup {"instantiate_subflow", "inject_node"}
  BY DEF IsCall
<1>2. CASE k.op \in EditOps
  <2>1. FirstStep(k) = "read"
    BY <1>2, Zenon DEF FirstStep, EditOps, SubflowOps
  <2> QED BY <2>1, <1>2
<1>3. CASE k.op \in DocumentOps
  <2>1. FirstStep(k) = "send"
    BY <1>3, Zenon DEF FirstStep, EditOps, SubflowOps, DocumentOps, ArrayOps
  <2> QED BY <2>1, <1>3
<1>4. CASE k.op \in SubflowOps
  <2>1. FirstStep(k) = "fetch"
    BY <1>4, Zenon DEF FirstStep, EditOps, SubflowOps
  <2> QED BY <2>1, <1>4
<1>5. CASE k.op = "instantiate_subflow"
  <2>1. FirstStep(k) = "check"
    BY <1>5, Zenon DEF FirstStep, EditOps, SubflowOps
  <2> QED BY <2>1, <1>5
<1>6. CASE k.op = "inject_node"
  <2>1. FirstStep(k) = "lookup"
    BY <1>6, Zenon DEF FirstStep, EditOps, SubflowOps
  <2> QED BY <2>1, <1>6
<1> QED BY <1>1, <1>2, <1>3, <1>4, <1>5, <1>6

-----------------------------------------------------------------------------
(* What is read, and what an edit makes of it. *)

LEMMA DeniedIsIn ==
  ASSUME NEW C, NEW c \in C, c.type \notin {"tab", "subflow"}, DeniedEntry(c)
  PROVE c.id \in DeniedIn(C)
  BY DEF DeniedIn, Owners

(* The tab as the runtime serves it, or as the client rebuilds it. *)
LEMMA SynthesizedFlow ==
  ASSUME NEW C, Entries(C), NEW id, id \in TabIds(C)
  PROVE LET d == synthesizeFlowFromFlat(C, id) IN
        /\ OneTab(d, DeniedIn(C)) /\ DOMAIN d = Parts
        /\ Members(d) \subseteq {e \in Owned(C, id) : e.type # "subflow"}
        /\ d.top \in Owners(C)
<1> DEFINE d == synthesizeFlowFromFlat(C, id)
           top == CHOOSE e \in C : e.type = "tab" /\ e.id = id
<1>1. \E e \in C : e.type = "tab" /\ e.id = id
  BY DEF TabIds, IdsOf
<1>2. top \in C /\ top.type = "tab"
  BY <1>1
<1> HIDE DEF top
<1>3. /\ d.top = top /\ d.groups = {} /\ d.subflows = {}
      /\ d.nodes = {e \in {f \in Owned(C, id) : f.type # "subflow"} : e.xy}
      /\ d.configs = {e \in {f \in Owned(C, id) : f.type # "subflow"} : ~e.xy}
      /\ DOMAIN d = Parts
  BY FieldsOf DEF synthesizeFlowFromFlat, Parts, flowDoc, top
<1> HIDE DEF d
<1>4. Members(d) \subseteq {e \in Owned(C, id) : e.type # "subflow"} /\ Members(d) \subseteq C
  BY <1>3 DEF Members, Owned
<1>5. IsDocument(d)
  BY <1>2, <1>3, <1>4, FieldsOf DEF IsDocument, IsHeaded, Entries
<1>6. JudgedBy(Members(d), DeniedIn(C))
  BY <1>4, DeniedIsIn DEF JudgedBy
<1>7. d.top \in Owners(C)
  BY <1>2, <1>3 DEF Owners
<1> QED BY <1>3, <1>4, <1>5, <1>6, <1>7 DEF OneTab, d

LEMMA ReadFlow ==
  ASSUME NEW C, Entries(C), NEW id, NEW d \in GetFlow(C, id)
  PROVE OneTab(d, DeniedIn(C))
<1> DEFINE flow == synthesizeFlowFromFlat(C, id)
<1>1. id \in TabIds(C) /\ d \in {RuntimeFlow(C, id), flow}
  BY DEF GetFlow
<1>2. OneTab(flow, DeniedIn(C)) /\ DOMAIN flow = Parts
  BY <1>1, SynthesizedFlow
<1>3. RuntimeFlow(C, id) = [flow EXCEPT !.nodes = Hidden(@), !.configs = Hidden(@)]
  BY DEF RuntimeFlow
<1> HIDE DEF flow
<1>4. CASE d = RuntimeFlow(C, id)
  <2>1. /\ d.nodes = Hidden(flow.nodes) /\ d.configs = Hidden(flow.configs)
        /\ d.top = flow.top /\ d.groups = flow.groups /\ d.subflows = flow.subflows
        /\ DOMAIN d = Parts
    BY <1>2, <1>3, <1>4 DEF Parts
  <2>2. \A n \in Members(d) : \E m \in Members(flow) : n = [m EXCEPT !.cred = ""]
    BY <2>1 DEF Members, Hidden
  <2>3. ASSUME NEW m \in Members(flow)
        PROVE /\ Alike([m EXCEPT !.cred = ""], m)
              /\ IsEntry([m EXCEPT !.cred = ""])
    <3>1. IsEntry(m) /\ DOMAIN m = Fields
      BY <1>2, FieldsOf DEF OneTab, IsDocument, IsHeaded, Entries
    <3> QED BY <3>1, EntryExcept DEF Alike, Fields
  <2>4. \A n \in Members(d) : \E m \in Members(flow) : Alike(n, m) /\ IsEntry(n)
    BY <2>2, <2>3
  <2>5. IsDocument(d)
    BY <1>2, <2>1, <2>4, FieldsOf DEF OneTab, IsDocument, IsHeaded, Entries
  <2>6. JudgedBy(Members(d), DeniedIn(C))
    <3>1. SUFFICES ASSUME NEW n \in Members(d), DeniedEntry(n), n.type \notin {"tab", "subflow"}
                   PROVE n.id \in DeniedIn(C)
      BY DEF JudgedBy
    <3>2. PICK m \in Members(flow) : Alike(n, m)
      BY <2>4
    <3>3. DeniedEntry(m)
      BY <3>1, <3>2, DeniedAlike
    <3> QED BY <1>2, <3>1, <3>2, <3>3 DEF OneTab, JudgedBy, Alike
  <2> QED BY <1>2, <2>1, <2>5, <2>6 DEF OneTab
<1> QED BY <1>1, <1>2, <1>4

(* Putting one member in the place of another. *)
LEMMA SwappedMembers ==
  ASSUME NEW d, IsDocument(d), NEW old, NEW new
  PROVE LET e == Swap(d, old, new) IN
        /\ DOMAIN e = Parts /\ e.top = d.top /\ e.groups = d.groups /\ e.subflows = d.subflows
        /\ Members(e) \subseteq Members(d) \cup {new}
        /\ old \in d.nodes => new \in e.nodes
        /\ old \notin d.nodes => e.nodes = d.nodes
        /\ old \in d.configs => new \in e.configs
<1> DEFINE In(ns) == IF old \in ns THEN (ns \ {old}) \cup {new} ELSE ns
           e == Swap(d, old, new)
<1>1. /\ DOMAIN e = Parts /\ e.top = d.top /\ e.groups = d.groups /\ e.subflows = d.subflows
      /\ e.nodes = In(d.nodes) /\ e.configs = In(d.configs)
  BY FieldsOf DEF Swap, IsDocument, IsHeaded, Parts
<1> HIDE DEF e
<1>2. Members(e) \subseteq Members(d) \cup {new}
  BY <1>1 DEF Members
<1>3. /\ old \in d.nodes => new \in e.nodes
      /\ old \notin d.nodes => e.nodes = d.nodes
      /\ old \in d.configs => new \in e.configs
  BY <1>1
<1> QED BY <1>1, <1>2, <1>3 DEF e

LEMMA SwappedTab ==
  ASSUME NEW d, NEW ids, OneTab(d, ids), NEW old, NEW new, IsEntry(new),
         DeniedEntry(new) /\ new.type \notin {"tab", "subflow"} => new.id \in ids
  PROVE OneTab(Swap(d, old, new), ids)
<1> DEFINE e == Swap(d, old, new)
<1>1. /\ DOMAIN e = Parts /\ e.top = d.top /\ e.groups = d.groups /\ e.subflows = d.subflows
      /\ Members(e) \subseteq Members(d) \cup {new}
  BY SwappedMembers DEF OneTab
<1> HIDE DEF e
<1>2. IsDocument(e)
  BY <1>1, FieldsOf DEF OneTab, IsDocument, IsHeaded, Entries
<1>3. JudgedBy(Members(e), ids)
  BY <1>1 DEF OneTab, JudgedBy
<1> QED BY <1>1, <1>2, <1>3 DEF OneTab, e

LEMMA Located ==
  ASSUME NEW d, NEW id, NEW n \in locate(d, id)
  PROVE n.id = id /\ n \in Members(d)
  BY DEF locate, Members

LEMMA AddedTab ==
  ASSUME NEW d, NEW ids, OneTab(d, ids), NEW node, Entries({node}), ~DeniedEntry(node),
         NEW e \in AddNodeToFlow(d, node)
  PROVE OneTab(e, ids)
<1>1. e = [d EXCEPT !.nodes = @ \cup {node}]
  BY DEF AddNodeToFlow
<1>2. /\ DOMAIN e = Parts /\ e.top = d.top /\ e.groups = d.groups /\ e.subflows = d.subflows
      /\ Members(e) = Members(d) \cup {node}
  BY <1>1, FieldsOf DEF OneTab, IsDocument, IsHeaded, Parts, Members
<1>3. IsDocument(e)
  BY <1>2, FieldsOf DEF OneTab, IsDocument, IsHeaded, Entries
<1>4. JudgedBy(Members(e), ids)
  BY <1>2 DEF OneTab, JudgedBy
<1> QED BY <1>2, <1>3, <1>4 DEF OneTab

(* The policy is asked about the node by its id: it sees the patched one. *)
LEMMA PatchedTab ==
  ASSUME NEW d, NEW ids, OneTab(d, ids), NEW id, NEW patch,
         NEW e \in UpdateNodeInFlow(d, id, patch), ~deniedNodeTypeOfNode(e, id)
  PROVE OneTab(e, ids)
<1>1. "id" \notin DOMAIN patch /\ \E n \in locate(d, id) : e = Swap(d, n, Patched(n, patch))
  BY DEF UpdateNodeInFlow
<1>2. PICK n \in locate(d, id) : e = Swap(d, n, Patched(n, patch))
  BY <1>1
<1> DEFINE p == Patched(n, patch)
<1>3. n.id = id /\ n \in Members(d) /\ IsEntry(n)
  BY Located, FieldsOf DEF OneTab, IsDocument, IsHeaded, Entries
<1>4. IsEntry(p) /\ p.id = id
  <2>1. DOMAIN n = Fields /\ DOMAIN configEntry = Fields
    BY <1>3, FieldsOf
  <2>2. IsEntry(p)
    BY <2>1 DEF IsEntry, Patched
  <2> QED BY <1>1, <1>3, <2>1, <2>2 DEF Patched, Fields
<1> HIDE DEF p
<1>5. p \in locate(e, id)
  <2>1. /\ n \in d.nodes => p \in e.nodes
        /\ n \notin d.nodes => e.nodes = d.nodes
        /\ n \in d.configs => p \in e.configs
    BY <1>2, SwappedMembers DEF OneTab, p
  <2>2. CASE n \in d.nodes
    BY <1>4, <2>1, <2>2 DEF locate
  <2>3. CASE n \notin d.nodes
    <3>1. {m \in d.nodes : m.id = id} = {} /\ n \in d.configs
      BY <2>3 DEF locate
    <3>2. {m \in e.nodes : m.id = id} = {} /\ p \in e.configs
      BY <2>1, <2>3, <3>1
    <3> QED BY <1>4, <3>2 DEF locate
  <2> QED BY <2>2, <2>3
<1>6. ~DeniedEntry(p)
  BY <1>5 DEF deniedNodeTypeOfNode
<1> QED BY <1>2, <1>4, <1>6, SwappedTab DEF p

LEMMA ConnectedTab ==
  ASSUME NEW d, NEW ids, OneTab(d, ids), NEW id, NEW port, NEW to,
         NEW e \in ConnectNodesInFlow(d, id, port, to)
  PROVE OneTab(e, ids)
<1>1. PICK n \in locate(d, id) : e = Swap(d, n, [n EXCEPT !.wires = @ \cup {<<port, to>>}])
  BY DEF ConnectNodesInFlow
<1> DEFINE p == [n EXCEPT !.wires = @ \cup {<<port, to>>}]
<1>2. n \in Members(d) /\ IsEntry(n)
  BY Located, FieldsOf DEF OneTab, IsDocument, IsHeaded, Entries
<1>3. IsEntry(p) /\ p.id = n.id /\ p.type = n.type /\ p.inst = n.inst
  BY <1>2, EntryExcept, FieldsOf DEF Fields
<1> HIDE DEF p
<1>4. DeniedEntry(p) /\ p.type \notin {"tab", "subflow"} => p.id \in ids
  BY <1>2, <1>3 DEF DeniedEntry, OneTab, JudgedBy
<1> QED BY <1>1, <1>3, <1>4, SwappedTab DEF p

LEMMA DeletedTab ==
  ASSUME NEW d, NEW ids, OneTab(d, ids), NEW id, NEW e \in DeleteNodeFromFlow(d, id)
  PROVE OneTab(e, ids)
<1>1. PICK n : e = Swept(Without(d, n), id)
  BY DEF DeleteNodeFromFlow
<1> DEFINE w == Without(d, n)
<1>2. /\ DOMAIN w = Parts /\ w.top = d.top /\ w.groups = d.groups /\ w.subflows = d.subflows
      /\ Members(w) \subseteq Members(d)
  BY FieldsOf DEF OneTab, IsDocument, IsHeaded, Parts, Members, Without
<1> HIDE DEF w
<1>3. e = Swept(w, id)
  BY <1>1 DEF w
<1>4. /\ DOMAIN e = Parts /\ e.top = w.top /\ e.groups = w.groups /\ e.subflows = w.subflows
      /\ e.nodes = {Sweep(m, id) : m \in w.nodes} /\ e.configs = {Sweep(m, id) : m \in w.configs}
  BY <1>2, <1>3 DEF Parts, Swept
<1>5. \A m \in Members(e) : \E o \in Members(d) : m = Sweep(o, id)
  BY <1>2, <1>4 DEF Members
<1>6. ASSUME NEW o \in Members(d)
      PROVE LET m == Sweep(o, id) IN
            IsEntry(m) /\ m.id = o.id /\ m.type = o.type /\ m.inst = o.inst
  <2>1. IsEntry(o) /\ DOMAIN o = Fields
    BY FieldsOf DEF OneTab, IsDocument, IsHeaded, Entries
  <2> QED BY <2>1, EntryExcept DEF Sweep, Fields
<1>7. \A m \in Members(e) : \E o \in Members(d) :
        IsEntry(m) /\ m.id = o.id /\ m.type = o.type /\ m.inst = o.inst
  BY <1>5, <1>6
<1>8. IsDocument(e)
  BY <1>2, <1>4, <1>7, FieldsOf DEF OneTab, IsDocument, IsHeaded, Entries
<1>9. JudgedBy(Members(e), ids)
  BY <1>7 DEF OneTab, JudgedBy, DeniedEntry
<1> QED BY <1>2, <1>4, <1>8, <1>9 DEF OneTab

LEMMA DisabledTab ==
  ASSUME NEW d, NEW ids, OneTab(d, ids), NEW off, NEW e \in SetDisabledInFlow(d, off)
  PROVE OneTab(e, ids)
<1>1. e = [d EXCEPT !.top.off = off]
  BY DEF SetDisabledInFlow
<1>2. /\ DOMAIN e = Parts /\ e.groups = d.groups /\ e.subflows = d.subflows
      /\ Members(e) = Members(d) /\ e.top = [d.top EXCEPT !.off = off]
  BY <1>1, FieldsOf DEF OneTab, IsDocument, IsHeaded, Parts, Members
<1>3. IsDocument(e)
  <2>1. IsEntry(e.top)
    BY <1>2, EntryExcept DEF OneTab, IsDocument, IsHeaded, Entries
  <2> QED BY <1>2, <2>1, FieldsOf DEF OneTab, IsDocument, IsHeaded, Entries
<1> QED BY <1>2, <1>3 DEF OneTab

(* An edit of a tab brings in no forbidden node. *)
LEMMA EditedTab ==
  ASSUME NEW d, NEW ids, OneTab(d, ids), NEW k, IsCall(k),
         k.op \in EditOps \cup {"instantiate_subflow"},
         k.op \in {"add_node", "instantiate_subflow"} => ~DeniedEntry(k.node),
         NEW e \in Edited(k, d)
  PROVE OneTab(e, ids)
<1>1. k.op \in {"add_node", "instantiate_subflow"} => Entries({k.node})
  BY DEF IsCall
<1> QED BY <1>1, EditedCases, AddedTab, PatchedTab, ConnectedTab, DeletedTab, DisabledTab

-----------------------------------------------------------------------------
(* What the writes install: its entries are whole, and a forbidden node in
   it was there, or stood in what was written. *)

LEMMA SoundIsJudged ==
  ASSUME NEW C, NEW ids, Sound(C, ids)
  PROVE DeniedIn(C) \subseteq ids
  BY DEF Sound, JudgedBy, DeniedIn, Owners

LEMMA SoundAsItIs ==
  ASSUME NEW C, Entries(C)
  PROVE Sound(C, DeniedIn(C))
  BY DeniedIsIn DEF Sound, JudgedBy

LEMMA ReplacedTab ==
  ASSUME NEW C, Entries(C), NEW d, IsDocument(d), NEW ids,
         JudgedBy(Members(d) \cup DefinitionMembers(d), ids),
         NEW id, NEW next \in deployFlowUpdate(C, id, d)
  PROVE Sound(next, DeniedIn(C) \cup ids)
<1>1. next \in replaceFlowEntries(C, id, d)
  BY DEF deployFlowUpdate
<1>2. ASSUME NEW e \in next
      PROVE /\ IsEntry(e)
            /\ DeniedEntry(e) /\ e.type \notin {"tab", "subflow"} => e.id \in DeniedIn(C) \cup ids
  <2>1. CASE e \in C
    BY <2>1, FieldsOf, DeniedIsIn DEF Entries
  <2>2. CASE \E r \in flattenFlowUpdate(d, id) : SameEntry(e, r)
    <3>1. PICK r \in flattenFlowUpdate(d, id) : SameEntry(e, r)
      BY <2>2
    <3>2. IsEntry(r)
      BY FlattenedFields
    <3>3. IsEntry(e) /\ e.id = r.id /\ e.type = r.type /\ (DeniedEntry(e) <=> DeniedEntry(r))
      BY <3>1, <3>2, DeniedAlike DEF SameEntry, Alike
    <3>4. ASSUME NEW n \in Members(d) \cup DefinitionMembers(d), NEW o, r = Own(n, o),
                 DeniedEntry(r), r.type \notin {"tab", "subflow"}
          PROVE r.id \in ids
      <4>1. IsEntry(n)
        BY FieldsOf DEF IsDocument, IsHeaded, Entries, DefinitionMembers
      <4>2. Alike(r, n)
        BY <3>4, <4>1, OwnFields
      <4>3. DeniedEntry(n)
        BY <3>4, <4>2, DeniedAlike
      <4> QED BY <3>4, <4>2, <4>3 DEF JudgedBy, Alike
    <3>5. CASE r = Header(d, id, "tab")
      <4>1. IsHeaded(d)
        BY DEF IsDocument
      <4>2. r.type = "tab"
        BY <3>5, <4>1, HeaderFields
      <4> QED BY <3>3, <4>2
    <3>6. CASE \E n \in Members(d) : r = Own(n, id)
      BY <3>3, <3>4, <3>6
    <3>7. ASSUME NEW sf \in d.subflows, r = Header(sf, sf.top.id, "subflow") PROVE r.type = "subflow"
      <4>1. IsHeaded(sf)
        BY DEF IsDocument
      <4> QED BY <3>7, <4>1, HeaderFields
    <3>8. ASSUME NEW sf \in d.subflows, NEW n \in Members(sf), r = Own(n, sf.top.id),
                 DeniedEntry(r), r.type \notin {"tab", "subflow"}
          PROVE r.id \in ids
      <4>1. n \in Members(d) \cup DefinitionMembers(d)
        BY DEF DefinitionMembers
      <4> QED BY <3>4, <3>8, <4>1
    <3> QED BY <3>3, <3>5, <3>6, <3>7, <3>8, FlattenedEntries
  <2> QED BY <1>1, <2>1, <2>2, ReplacedEntries
<1> QED BY <1>2, FieldsOf DEF Sound, Entries, JudgedBy

LEMMA DeployedTab ==
  ASSUME NEW C, Entries(C), NEW d, NEW ids, OneTab(d, ids),
         NEW id, NEW next \in deployFlowUpdate(C, id, d)
  PROVE Sound(next, DeniedIn(C) \cup ids)
<1>1. DefinitionMembers(d) = {}
  BY DEF DefinitionMembers, OneTab
<1> QED BY <1>1, ReplacedTab DEF OneTab

LEMMA SubmittedTab ==
  ASSUME NEW C, Entries(C), NEW d, IsDocument(d), ~deniedTypeInValue(d),
         NEW id, NEW next \in deployFlowUpdate(C, id, d)
  PROVE Sound(next, DeniedIn(C))
<1>1. JudgedBy(Members(d) \cup DefinitionMembers(d), {})
  BY DEF deniedTypeInValue, JudgedBy, DefinitionMembers
<1> QED BY <1>1, ReplacedTab

LEMMA CreatedTab ==
  ASSUME Entries(config), NEW k, IsDocument(k.doc), ~deniedTypeInValue(k.doc),
         NEW next \in CreateFlow(k)
  PROVE Sound(next, DeniedIn(config))
<1> DEFINE tab == [k.doc EXCEPT !.top.id = k.flow]
           new == Flat(tab, k.flow, "tab")
           filed == {IF e.id = k.flow THEN e ELSE [e EXCEPT !.z = k.flow] : e \in new}
<1>1. next = config \cup filed
  BY DEF CreateFlow
<1>2. /\ Members(tab) = Members(k.doc) /\ tab.top = [k.doc.top EXCEPT !.id = k.flow]
      /\ DOMAIN tab = Parts /\ tab.groups = k.doc.groups
  BY FieldsOf DEF IsDocument, IsHeaded, Parts, Members
<1> HIDE DEF tab
<1>3. IsHeaded(tab)
  <2>1. IsEntry(k.doc.top)
    BY DEF IsDocument, IsHeaded, Entries
  <2>2. IsEntry(tab.top)
    BY <1>2, <2>1, EntryExcept
  <2> QED BY <1>2, <2>2, FieldsOf DEF IsDocument, IsHeaded, Entries
<1>4. ASSUME NEW r \in new
      PROVE IsEntry(r) /\ (~DeniedEntry(r) \/ r.type = "tab")
  <2>1. CASE r = Header(tab, k.flow, "tab")
    BY <1>3, <2>1, HeaderFields
  <2>2. CASE \E n \in Members(k.doc) : r = Own(n, k.flow)
    <3>1. PICK n \in Members(k.doc) : r = Own(n, k.flow)
      BY <2>2
    <3>2. IsEntry(n) /\ ~DeniedEntry(n)
      BY FieldsOf DEF IsDocument, IsHeaded, Entries, deniedTypeInValue
    <3>3. Alike(r, n)
      BY <3>1, <3>2, OwnFields
    <3>4. ~DeniedEntry(r)
      BY <3>2, <3>3, DeniedAlike
    <3> QED BY <3>2, <3>3, <3>4 DEF Alike
  <2> QED BY <1>2, <2>1, <2>2, FlatEntries
<1> HIDE DEF new
<1>5. ASSUME NEW e \in filed
      PROVE IsEntry(e) /\ (~DeniedEntry(e) \/ e.type = "tab")
  <2>1. PICK r \in new : e = IF r.id = k.flow THEN r ELSE [r EXCEPT !.z = k.flow]
    OBVIOUS
  <2>2. IsEntry(e) /\ e.type = r.type /\ e.inst = r.inst
    BY <1>4, <2>1, EntryExcept, FieldsOf DEF Fields
  <2> QED BY <1>4, <2>2 DEF DeniedEntry
<1>6. ASSUME NEW e \in config
      PROVE IsEntry(e) /\
            (DeniedEntry(e) /\ e.type \notin {"tab", "subflow"} => e.id \in DeniedIn(config))
  BY FieldsOf, DeniedIsIn DEF Entries
<1> HIDE DEF filed
<1> QED BY <1>1, <1>5, <1>6, FieldsOf DEF Sound, Entries, JudgedBy

LEMMA DeletedFlow ==
  ASSUME Entries(config), NEW k, NEW next \in DeleteFlow(k)
  PROVE Sound(next, DeniedIn(config))
<1>1. next \subseteq config
  BY DEF DeleteFlow
<1> QED BY <1>1, DeniedIsIn DEF Sound, Entries, JudgedBy

(* The definitions as the runtime serves them, and as they are put back. *)
LEMMA ReadDefinitions ==
  ASSUME NEW C, Entries(C), NEW d \in GlobalDefinitions(C)
  PROVE SoundDefinition(d, DeniedIn(C))
<1>1. PICK o \in C : d = Nest(C, o)
  BY DEF GlobalDefinitions
<1> DEFINE mine == IF o.id \in TabIds(C) THEN {} ELSE MembersOf(C, o.id)
<1>2. mine \subseteq C
  BY DEF MembersOf, Owned
<1>3. /\ DOMAIN d = Parts /\ d.top = o
      /\ d.nodes = {e \in mine : e.xy /\ e.type # "group"}
      /\ d.configs = {e \in mine : ~e.xy}
      /\ d.groups = {e \in mine : e.xy /\ e.type = "group"}
  BY <1>1, FieldsOf DEF Nest, flowDoc, Parts
<1> HIDE DEF mine
<1>4. Members(d) \cup d.groups \subseteq C
  BY <1>2, <1>3 DEF Members
<1>5. IsHeaded(d)
  BY <1>3, <1>4, FieldsOf DEF IsHeaded, Entries
<1>6. JudgedBy(Members(d) \cup d.groups, DeniedIn(C))
  BY <1>4, DeniedIsIn DEF JudgedBy
<1> QED BY <1>5, <1>6 DEF SoundDefinition

LEMMA ReadConfigs ==
  ASSUME NEW C, Entries(C)
  PROVE Sound(GlobalConfigs(C), DeniedIn(C))
<1>1. GlobalConfigs(C) \subseteq C
  BY DEF GlobalConfigs, Owned
<1> QED BY <1>1, DeniedIsIn DEF Sound, Entries, JudgedBy

(* subflows.go: what a write of the definitions puts in their place. *)
LEMMA RewrittenDefinitions ==
  ASSUME Entries(config), NEW k, IsCall(k), Admitted(k), k.op \in SubflowOps,
         NEW new \in Rewritten(k, GlobalDefinitions(config)), NEW d \in new
  PROVE SoundDefinition(d, DeniedIn(config) \cup Unjudged(k))
<1> DEFINE old == GlobalDefinitions(config)
           ids == DeniedIn(config) \cup Unjudged(k)
<1>1. ASSUME NEW o \in old PROVE SoundDefinition(o, ids)
  BY ReadDefinitions DEF SoundDefinition, JudgedBy
<1>2. ASSUME k.op \in {"create_subflow", "update_subflow"} PROVE SoundDefinition(k.doc, ids)
  <2>1. IsHeaded(k.doc) /\ ~deniedTypeInValue(k.doc) /\ Unjudged(k) = {g.id : g \in k.doc.groups}
    BY <1>2 DEF IsCall, IsDocument, Admitted, SubflowGuard, Unjudged
  <2>2. \A n \in Members(k.doc) : ~DeniedEntry(n)
    BY <2>1 DEF deniedTypeInValue
  <2>3. \A g \in k.doc.groups : g.id \in ids
    BY <2>1
  <2> QED BY <2>1, <2>2, <2>3 DEF SoundDefinition, JudgedBy
<1>3. k.op \in {"create_subflow", "update_subflow", "delete_subflow"}
  BY DEF SubflowOps
<1> HIDE DEF ids
<1>4. CASE k.op = "create_subflow"
  <2>1. Rewritten(k, old) = CreateSubflow(old, k.doc)
    BY <1>4, Zenon DEF Rewritten
  <2>2. d \in old \cup {k.doc}
    BY <2>1 DEF CreateSubflow
  <2> QED BY <1>1, <1>2, <1>4, <2>2 DEF ids
<1>5. CASE k.op = "update_subflow"
  <2>1. Rewritten(k, old) = UpdateSubflow(old, k.id, k.doc)
    BY <1>5, Zenon DEF Rewritten
  <2>2. d \in old \cup {k.doc}
    BY <2>1 DEF UpdateSubflow, Others
  <2> QED BY <1>1, <1>2, <1>5, <2>2 DEF ids
<1>6. CASE k.op = "delete_subflow"
  <2>1. Rewritten(k, old) = DeleteSubflow(old, k.id)
    BY <1>6, Zenon DEF Rewritten
  <2>2. d \in old
    BY <2>1 DEF DeleteSubflow, Others
  <2> QED BY <1>1, <2>2 DEF ids
<1> QED BY <1>3, <1>4, <1>5, <1>6

LEMMA PutDefinitionsBack ==
  ASSUME NEW C, Entries(C), NEW ids, NEW D, \A d \in D : SoundDefinition(d, ids),
         NEW G, Sound(G, ids)
  PROVE Sound(PutGlobal(C, D, G), DeniedIn(C) \cup ids)
<1> DEFINE put(d) == {[d.top EXCEPT !.type = "subflow", !.inst = ""]}
                       \cup {Own(n, d.top.id) : n \in Members(d) \cup d.groups}
<1> SUFFICES ASSUME NEW e \in PutGlobal(C, D, G)
             PROVE /\ IsEntry(e)
                   /\ DeniedEntry(e) /\ e.type \notin {"tab", "subflow"}
                        => e.id \in DeniedIn(C) \cup ids
  BY FieldsOf DEF Sound, Entries, JudgedBy
<1>1. e \in C \/ e \in G \/ \E d \in D : e \in put(d)
  BY DEF PutGlobal
<1>2. CASE e \in C
  BY <1>2, FieldsOf, DeniedIsIn DEF Entries
<1>3. CASE e \in G
  BY <1>3, FieldsOf DEF Sound, Entries, JudgedBy
<1>4. ASSUME NEW d \in D, e \in put(d)
      PROVE /\ IsEntry(e)
            /\ DeniedEntry(e) /\ e.type \notin {"tab", "subflow"} => e.id \in ids
  <2>1. IsHeaded(d) /\ JudgedBy(Members(d) \cup d.groups, ids)
    BY DEF SoundDefinition
  <2>2. CASE e = [d.top EXCEPT !.type = "subflow", !.inst = ""]
    <3>1. IsEntry(d.top) /\ DOMAIN d.top = Fields
      BY <2>1, FieldsOf DEF IsHeaded, Entries
    <3>2. IsEntry([d.top EXCEPT !.type = "subflow"])
      BY <3>1, EntryExcept
    <3>3. IsEntry(e)
      BY <2>2, <3>2, EntryExcept
    <3> QED BY <2>2, <3>1, <3>3 DEF Fields
  <2>3. CASE \E n \in Members(d) \cup d.groups : e = Own(n, d.top.id)
    <3>1. PICK n \in Members(d) \cup d.groups : e = Own(n, d.top.id)
      BY <2>3
    <3>2. IsEntry(n)
      BY <2>1, FieldsOf DEF IsHeaded, Entries
    <3>3. Alike(e, n)
      BY <3>1, <3>2, OwnFields
    <3>4. DeniedEntry(e) <=> DeniedEntry(n)
      BY <3>3, DeniedAlike
    <3> QED BY <2>1, <3>2, <3>3, <3>4 DEF JudgedBy, Alike
  <2> QED BY <1>4, <2>2, <2>3
<1> QED BY <1>1, <1>2, <1>3, <1>4

-----------------------------------------------------------------------------
(* The invariant. *)

LEMMA InitInv == Init => IInv
<1> SUFFICES ASSUME Init PROVE IInv
  OBVIOUS
<1>1. ASSUME NEW s \in Sessions
      PROVE /\ IsCall(call[s])
            /\ pc[s] = IF Admitted(call[s]) THEN FirstStep(call[s]) ELSE "refused"
  BY DocumentsAssumption DEF Init
<1>2. TypeOK
  <2>1. pc \in [Sessions -> {"read", "fetch", "check", "lookup", "send", "refused"}]
    BY <1>1, FirstStepCases DEF Init
  <2>2. Entries(config)
    BY DocumentsAssumption DEF Init
  <2> QED BY <2>1, <2>2 DEF Init, TypeOK
<1>3. ASSUME NEW s \in Sessions PROVE SessionInv(s)
  <2>1. CASE pc[s] = "refused"
    BY <2>1 DEF SessionInv, CallInv, DocInv, InstanceInv, DefsInv, InjectInv
  <2>2. CASE Admitted(call[s]) /\ pc[s] = FirstStep(call[s])
    <3>1. CallInv(s)
      BY <1>1, <2>2, FirstStepCases DEF CallInv
    <3>2. InstanceInv(s)
      BY <1>1, <2>2, FirstStepCases DEF InstanceInv, EditOps
    <3>3. DocInv(s) /\ DefsInv(s) /\ InjectInv(s)
      BY <1>1, <2>2, FirstStepCases DEF DocInv, DefsInv, InjectInv
    <3> QED BY <3>1, <3>2, <3>3 DEF SessionInv
  <2> QED BY <1>1, <2>1, <2>2
<1> QED BY <1>2, <1>3 DEF IInv

(* A session that takes no step is as it was. *)
Idle(t) ==
  /\ pc'[t] = pc[t] /\ call'[t] = call[t] /\ doc'[t] = doc[t]
  /\ defs'[t] = defs[t] /\ configs'[t] = configs[t] /\ seen'[t] = seen[t]

LEMMA IdleKeeps ==
  ASSUME NEW t \in Sessions, SessionInv(t), Idle(t)
  PROVE SessionInv(t)'
<1> USE DEF Idle
<1>1. Allowed(t)' = Allowed(t)
  BY DEF Allowed
<1>2. CallInv(t)'
  BY DEF SessionInv, CallInv
<1>3. DocInv(t)' /\ DefsInv(t)'
  BY <1>1 DEF SessionInv, DocInv, DefsInv
<1>4. InstanceInv(t)' /\ InjectInv(t)'
  BY DEF SessionInv, InstanceInv, InjectInv
<1> QED BY <1>2, <1>3, <1>4 DEF SessionInv

(* Nor is one disturbed that ends. *)
LEMMA EndKeeps ==
  ASSUME NEW s \in Sessions, SessionInv(s), pc[s] # "refused",
         call'[s] = call[s], pc'[s] \in {"done", "refused"}
  PROVE SessionInv(s)'
  BY DEF SessionInv, CallInv, DocInv, InstanceInv, DefsInv, InjectInv

(* What a session installs, if it installs anything. *)
LEMMA Installed ==
  ASSUME NEW s \in Sessions, NEW next, DOMAIN pc = Sessions, Install(s, next)
  PROVE \/ config' \in next /\ pc' = [pc EXCEPT ![s] = "done"] /\ pc'[s] = "done"
        \/ config' = config /\ pc' = [pc EXCEPT ![s] = "refused"] /\ pc'[s] = "refused"
  BY DEF Install, Finish, Refuse

(* The document of a request, by its tool. *)
LEMMA SendCases ==
  ASSUME NEW s \in Sessions, SendDocument(s), call[s].op \in DocumentOps
  PROVE \/ call[s].op = "update_flow" /\ Install(s, UpdateFlow(call[s]))
        \/ call[s].op = "create_flow" /\ Install(s, CreateFlow(call[s]))
        \/ call[s].op = "delete_flow" /\ Install(s, DeleteFlow(call[s]))
        \/ call[s].op \in ArrayOps /\ Install(s, {call[s].entries})
<1> DEFINE k == call[s]
           next == CASE k.op = "update_flow" -> UpdateFlow(k)
                     [] k.op = "create_flow" -> CreateFlow(k)
                     [] k.op = "delete_flow" -> DeleteFlow(k)
                     [] k.op \in ArrayOps -> {k.entries}
<1>1. Install(s, next)
  BY DEF SendDocument
<1>2. CASE k.op = "update_flow"
  <2>1. next = UpdateFlow(k)
    BY <1>2, Zenon DEF ArrayOps
  <2> QED BY <1>1, <1>2, <2>1
<1>3. CASE k.op = "create_flow"
  <2>1. next = CreateFlow(k)
    BY <1>3, Zenon DEF ArrayOps
  <2> QED BY <1>1, <1>3, <2>1
<1>4. CASE k.op = "delete_flow"
  <2>1. next = DeleteFlow(k)
    BY <1>4, Zenon DEF ArrayOps
  <2> QED BY <1>1, <1>4, <2>1
<1>5. CASE k.op \in ArrayOps
  <2>1. next = {k.entries}
    BY <1>5, Zenon DEF ArrayOps
  <2> QED BY <1>1, <1>5, <2>1
<1> QED BY <1>2, <1>3, <1>4, <1>5 DEF DocumentOps

(* A write leaves whole entries, and no forbidden node that was not there. *)
LEMMA WriteIsSound ==
  ASSUME IInv, NEW s \in Sessions, Step(s)
  PROVE Sound(config', DeniedIn(config) \cup Allowed(s))
<1>1. Entries(config) /\ SessionInv(s) /\ DOMAIN pc = Sessions
  BY DEF IInv, TypeOK
<1>2. Sound(config, DeniedIn(config) \cup Allowed(s))
  BY <1>1, SoundAsItIs DEF Sound, JudgedBy
<1>3. CASE config' = config
  BY <1>2, <1>3
<1>4. CASE DeployTab(s)
  <2>1. pc[s] = "deploy" /\ Install(s, deployFlowUpdate(config, call[s].flow, doc[s]))
    BY <1>4 DEF DeployTab
  <2>2. OneTab(doc[s], Allowed(s))
    BY <1>1, <2>1 DEF SessionInv, DocInv
  <2>3. CASE config' \in deployFlowUpdate(config, call[s].flow, doc[s])
    BY <1>1, <2>2, <2>3, DeployedTab
  <2> QED BY <1>1, <1>3, <2>1, <2>3, Installed
<1>5. CASE SendDocument(s)
  <2> DEFINE k == call[s]
  <2>1. pc[s] = "send"
    BY <1>5 DEF SendDocument
  <2>2. IsCall(k) /\ Admitted(k) /\ k.op \in DocumentOps
    BY <1>1, <2>1 DEF SessionInv, CallInv
  <2>3. ASSUME NEW ids, ids \subseteq DeniedIn(config) \cup Allowed(s), Sound(config', ids)
        PROVE Sound(config', DeniedIn(config) \cup Allowed(s))
    BY <2>3 DEF Sound, JudgedBy
  <2>4. CASE k.op = "update_flow" /\ config' \in UpdateFlow(k)
    <3>1. config' \in deployFlowUpdate(config, k.flow, k.doc)
      BY <2>4 DEF UpdateFlow
    <3>2. IsDocument(k.doc) /\ ~deniedTypeInValue(k.doc)
      BY <2>2, <2>4 DEF IsCall, Admitted
    <3>3. Sound(config', DeniedIn(config))
      BY <1>1, <3>1, <3>2, SubmittedTab
    <3> QED BY <2>3, <3>3
  <2>5. CASE k.op = "create_flow" /\ config' \in CreateFlow(k)
    <3>1. IsDocument(k.doc) /\ ~deniedTypeInValue(k.doc)
      BY <2>2, <2>5 DEF IsCall, Admitted
    <3>2. Sound(config', DeniedIn(config))
      BY <1>1, <2>5, <3>1, CreatedTab
    <3> QED BY <2>3, <3>2
  <2>6. CASE config' \in DeleteFlow(k)
    <3>1. Sound(config', DeniedIn(config))
      BY <1>1, <2>6, DeletedFlow
    <3> QED BY <2>3, <3>1
  <2>7. CASE k.op \in ArrayOps /\ config' \in {k.entries}
    <3>1. Entries(k.entries) /\ ~deniedNodeTypeInFlows(k.entries)
      BY <2>2, <2>7 DEF IsCall, Admitted, CanInstall
    <3> QED BY <2>7, <3>1 DEF Sound, JudgedBy, deniedNodeTypeInFlows
  <2> QED BY <1>1, <1>3, <1>5, <2>2, <2>4, <2>5, <2>6, <2>7, SendCases, Installed
<1>6. CASE PutDefinitions(s)
  <2>1. pc[s] = "put" /\ config' = PutGlobal(config, defs[s], configs[s])
    BY <1>6 DEF PutDefinitions
  <2>2. (\A d \in defs[s] : SoundDefinition(d, Allowed(s))) /\ Sound(configs[s], Allowed(s))
    BY <1>1, <2>1 DEF SessionInv, DefsInv
  <2> QED BY <1>1, <2>1, <2>2, PutDefinitionsBack
<1>7. CASE \/ ReadTab(s) \/ CheckDefinition(s) \/ FetchDefinitions(s) \/ ScanReferences(s)
           \/ LookupTarget(s) \/ VerifyType(s) \/ FireInject(s)
  <2>1. config' = config
    BY <1>7 DEF ReadTab, CheckDefinition, FetchDefinitions, ScanReferences,
                LookupTarget, VerifyType, FireInject
  <2> QED BY <1>3, <2>1
<1> QED BY <1>4, <1>5, <1>6, <1>7 DEF Step

LEMMA EditorIsSound ==
  ASSUME IInv, EditorDeploy
  PROVE Entries(config')
<1>1. Entries(config)
  BY DEF IInv, TypeOK
<1>2. \/ \E e \in EditorAdds : config' \in Added(e)
      \/ \E e \in config : config' = Removed(e)
      \/ \E e \in config : config' = Changed(e)
  BY DEF EditorDeploy
<1>3. ASSUME NEW e \in EditorAdds, config' \in Added(e) PROVE Entries(config')
  <2>1. config' = config \cup {e}
    BY <1>3 DEF Added
  <2> QED BY <1>1, <2>1, DocumentsAssumption DEF Entries
<1>4. ASSUME NEW e \in config, config' = Removed(e) PROVE Entries(config')
  <2> DEFINE gone == {e} \cup (IF e.id = "" THEN {} ELSE Owned(config, e.id))
                         \cup (IF e.type = "subflow" THEN {f \in config : f.inst = e.id} ELSE {})
  <2>1. config' = {[f EXCEPT !.wires = {w \in @ : w[2] \notin IdsOf(gone)}] : f \in config \ gone}
    BY <1>4 DEF Removed
  <2> HIDE DEF gone
  <2>2. \A f \in config : IsEntry([f EXCEPT !.wires = {w \in @ : w[2] \notin IdsOf(gone)}])
    BY <1>1, EntryExcept DEF Entries
  <2> QED BY <2>1, <2>2 DEF Entries
<1>5. ASSUME NEW e \in config, config' = Changed(e) PROVE Entries(config')
  <2>1. \A f \in config' :
          \/ f \in config
          \/ f = [e EXCEPT !.off = IF @ = "true" THEN "" ELSE "true"]
          \/ f = [e EXCEPT !.tag = "edited"]
    BY <1>5 DEF Changed
  <2>2. /\ IsEntry([e EXCEPT !.off = IF @ = "true" THEN "" ELSE "true"])
        /\ IsEntry([e EXCEPT !.tag = "edited"])
    BY <1>1, EntryExcept DEF Entries
  <2> QED BY <1>1, <2>1, <2>2 DEF Entries
<1> QED BY <1>2, <1>3, <1>4, <1>5

LEMMA TypeStep ==
  ASSUME IInv, NEW s \in Sessions, Step(s)
  PROVE TypeOK'
<1>1. TypeOK
  BY DEF IInv
<1>2. Entries(config')
  BY WriteIsSound DEF Sound
<1>3. /\ DOMAIN call' = Sessions
      /\ pc' \in [Sessions -> {"read", "deploy", "check", "send", "fetch", "scan", "put",
                               "lookup", "verify", "fire", "done", "refused"}]
      /\ DOMAIN doc' = Sessions /\ DOMAIN defs' = Sessions
      /\ DOMAIN configs' = Sessions /\ DOMAIN seen' = Sessions
  <2> USE DEF TypeOK, Finish, Refuse
  <2>1. CASE ReadTab(s)
    BY <1>1, <2>1 DEF ReadTab
  <2>2. CASE DeployTab(s)
    BY <1>1, <2>2 DEF DeployTab, Install
  <2>3. CASE CheckDefinition(s)
    BY <1>1, <2>3 DEF CheckDefinition
  <2>4. CASE SendDocument(s)
    <3>1. PICK next : Install(s, next)
      BY <2>4 DEF SendDocument
    <3>2. UNCHANGED <<call, doc, defs, configs, seen>>
      BY <2>4 DEF SendDocument
    <3> QED BY <1>1, <3>1, <3>2 DEF Install
  <2>5. CASE FetchDefinitions(s)
    BY <1>1, <2>5 DEF FetchDefinitions
  <2>6. CASE ScanReferences(s)
    BY <1>1, <2>6 DEF ScanReferences
  <2>7. CASE PutDefinitions(s)
    BY <1>1, <2>7 DEF PutDefinitions
  <2>8. CASE LookupTarget(s)
    BY <1>1, <2>8 DEF LookupTarget
  <2>9. CASE VerifyType(s)
    BY <1>1, <2>9 DEF VerifyType
  <2>10. CASE FireInject(s)
    BY <1>1, <2>10 DEF FireInject
  <2> QED BY <2>1, <2>2, <2>3, <2>4, <2>5, <2>6, <2>7, <2>8, <2>9, <2>10 DEF Step
<1> QED BY <1>2, <1>3 DEF TypeOK

(* A step of one session leaves what the others carry. *)
LEMMA OthersIdle ==
  ASSUME IInv, NEW s \in Sessions, Step(s), NEW t \in Sessions, t # s
  PROVE Idle(t)
<1>1. TypeOK
  BY DEF IInv
<1> USE DEF TypeOK, Finish, Refuse, Idle
<1>2. CASE ReadTab(s)
  BY <1>1, <1>2 DEF ReadTab
<1>3. CASE DeployTab(s)
  BY <1>1, <1>3 DEF DeployTab, Install
<1>4. CASE CheckDefinition(s)
  BY <1>1, <1>4 DEF CheckDefinition
<1>5. CASE SendDocument(s)
  <2>1. PICK next : Install(s, next)
    BY <1>5 DEF SendDocument
  <2>2. UNCHANGED <<call, doc, defs, configs, seen>>
    BY <1>5 DEF SendDocument
  <2> QED BY <1>1, <2>1, <2>2 DEF Install
<1>6. CASE FetchDefinitions(s)
  BY <1>1, <1>6 DEF FetchDefinitions
<1>7. CASE ScanReferences(s)
  BY <1>1, <1>7 DEF ScanReferences
<1>8. CASE PutDefinitions(s)
  BY <1>1, <1>8 DEF PutDefinitions
<1>9. CASE LookupTarget(s)
  BY <1>1, <1>9 DEF LookupTarget
<1>10. CASE VerifyType(s)
  BY <1>1, <1>10 DEF VerifyType
<1>11. CASE FireInject(s)
  BY <1>1, <1>11 DEF FireInject
<1> QED BY <1>2, <1>3, <1>4, <1>5, <1>6, <1>7, <1>8, <1>9, <1>10, <1>11 DEF Step

(* What an instance is judged by does not depend on the caller's node. *)
LEMMA InstanceJudged ==
  ASSUME NEW node, Entries({node}), NEW sub, NEW flow, NEW new
  PROVE LET e == InstanceOf(node, sub, flow, new) IN
        /\ Entries({e})
        /\ DeniedEntry(e) <=> "instance" \in Denied \/ sub \in Denied
<1> DEFINE e == InstanceOf(node, sub, flow, new)
<1>1. IsEntry(node) /\ DOMAIN node = Fields
  BY FieldsOf DEF Entries
<1>2. IsEntry(e)
  <2>1. IsEntry([node EXCEPT !.type = "instance"])
    BY <1>1, EntryExcept
  <2>2. IsEntry([node EXCEPT !.type = "instance", !.inst = sub])
    BY <2>1, EntryExcept
  <2>3. IsEntry([node EXCEPT !.type = "instance", !.inst = sub, !.z = flow])
    BY <2>2, EntryExcept
  <2>4. IsEntry([node EXCEPT !.type = "instance", !.inst = sub, !.z = flow, !.xy = TRUE])
    BY <2>3, EntryExcept
  <2> QED BY <2>4, EntryExcept DEF InstanceOf
<1>3. e.type = "instance" /\ e.inst = sub
  BY <1>1 DEF InstanceOf, Fields
<1> HIDE DEF e
<1>4. Entries({e})
  BY <1>2 DEF Entries
<1>5. DeniedEntry(e) <=> "instance" \in Denied \/ sub \in Denied
  BY <1>3 DEF DeniedEntry
<1> QED BY <1>4, <1>5 DEF e

LEMMA ReadTabKeeps ==
  ASSUME IInv, NEW s \in Sessions, ReadTab(s)
  PROVE SessionInv(s)'
<1>1. TypeOK /\ SessionInv(s) /\ pc[s] = "read"
  BY DEF IInv, ReadTab
<1>2. CASE Refuse(s)
  <2>1. pc'[s] = "refused" /\ call' = call
    BY <1>1, <1>2 DEF Refuse, Finish, ReadTab, TypeOK
  <2> QED BY <1>1, <2>1, EndKeeps
<1>3. ASSUME NEW d \in Results(call[s]), doc' = [doc EXCEPT ![s] = d],
             seen' = [seen EXCEPT ![s] = config], pc' = [pc EXCEPT ![s] = "deploy"]
      PROVE SessionInv(s)'
  <2> DEFINE k == call[s]
  <2>1. pc'[s] = "deploy" /\ doc'[s] = d /\ seen'[s] = config /\ call'[s] = k
    BY <1>1, <1>3 DEF TypeOK, ReadTab
  <2>2. /\ IsCall(k) /\ Admitted(k) /\ k.op \in EditOps \cup {"instantiate_subflow"}
    BY <1>1 DEF SessionInv, CallInv
  <2>3. k.op \in {"add_node", "instantiate_subflow"} => ~DeniedEntry(k.node)
    BY <1>1, <2>2 DEF SessionInv, InstanceInv, Admitted
  <2>4. PICK f \in GetFlow(config, k.flow) : d \in Edited(k, f)
    BY DEF Results
  <2>5. OneTab(f, DeniedIn(config))
    BY <1>1, <2>4, ReadFlow DEF TypeOK
  <2>6. OneTab(d, DeniedIn(config))
    BY <2>2, <2>3, <2>4, <2>5, EditedTab
  <2>7. DeniedIn(config) \subseteq Allowed(s)'
    BY <2>1 DEF Allowed
  <2>8. DocInv(s)'
    BY <2>1, <2>6, <2>7 DEF DocInv, OneTab, JudgedBy
  <2>9. CallInv(s)' /\ InstanceInv(s)' /\ DefsInv(s)' /\ InjectInv(s)'
    BY <2>1, <2>2 DEF CallInv, InstanceInv, DefsInv, InjectInv
  <2> QED BY <2>8, <2>9 DEF SessionInv
<1> QED BY <1>2, <1>3 DEF ReadTab

LEMMA CheckKeeps ==
  ASSUME IInv, NEW s \in Sessions, CheckDefinition(s)
  PROVE SessionInv(s)'
<1> DEFINE k == call[s]
           e == InstanceOf(k.node, k.sub, k.flow, k.new)
           next == [k EXCEPT !.node = e]
<1>1. TypeOK /\ SessionInv(s) /\ pc[s] = "check"
  BY DEF IInv, CheckDefinition
<1>2. CASE Refuse(s) /\ UNCHANGED call
  <2>1. pc'[s] = "refused" /\ call' = call
    BY <1>1, <1>2 DEF Refuse, Finish, TypeOK
  <2> QED BY <1>1, <2>1, EndKeeps
<1>3. CASE pc' = [pc EXCEPT ![s] = "read"] /\ call' = [call EXCEPT ![s].node = InstanceOf(@, k.sub, k.flow, k.new)]
  <2>1. pc'[s] = "read" /\ call'[s] = next
    BY <1>1, <1>3 DEF TypeOK
  <2>2. IsCall(k) /\ Admitted(k) /\ k.op = "instantiate_subflow"
    BY <1>1 DEF SessionInv, CallInv
  <2>3. {"op", "flow", "node", "sub", "new"} \subseteq DOMAIN k /\ Entries({k.node})
    BY <2>2 DEF IsCall
  <2>4. Entries({e}) /\ (DeniedEntry(e) <=> "instance" \in Denied \/ k.sub \in Denied)
    BY <2>3, InstanceJudged
  <2>5. k.flow # "" /\ k.sub # "" /\ ~DeniedEntry(e)
    BY <2>2 DEF Admitted
  <2> HIDE DEF e
  <2>6. /\ next.op = k.op /\ next.flow = k.flow /\ next.sub = k.sub /\ next.new = k.new
        /\ next.node = e /\ DOMAIN next = DOMAIN k
    BY <2>3
  <2> HIDE DEF next
  <2>7. ~DeniedEntry(InstanceOf(next.node, next.sub, next.flow, next.new))
    BY <2>4, <2>5, <2>6, InstanceJudged
  <2>8. IsCall(next)
    BY <2>2, <2>3, <2>4, <2>6 DEF IsCall, ArrayOps
  <2>9. Admitted(next)
    BY <2>2, <2>5, <2>6, <2>7 DEF Admitted, ArrayOps
  <2>10. CallInv(s)'
    BY <2>1, <2>2, <2>6, <2>8, <2>9 DEF CallInv
  <2>11. InstanceInv(s)'
    BY <2>1, <2>5, <2>6 DEF InstanceInv
  <2>12. DocInv(s)' /\ DefsInv(s)' /\ InjectInv(s)'
    BY <2>1 DEF DocInv, DefsInv, InjectInv
  <2> QED BY <2>10, <2>11, <2>12 DEF SessionInv
<1> QED BY <1>2, <1>3 DEF CheckDefinition

LEMMA FetchKeeps ==
  ASSUME IInv, NEW s \in Sessions, FetchDefinitions(s)
  PROVE SessionInv(s)'
<1> DEFINE k == call[s]
<1>1. TypeOK /\ SessionInv(s) /\ pc[s] = "fetch" /\ call' = call
  BY DEF IInv, FetchDefinitions
<1>2. CASE Refuse(s)
  <2>1. pc'[s] = "refused"
    BY <1>1, <1>2 DEF Refuse, Finish, TypeOK
  <2> QED BY <1>1, <2>1, EndKeeps
<1>3. ASSUME NEW d \in Rewritten(k, GlobalDefinitions(config)), defs' = [defs EXCEPT ![s] = d],
             configs' = [configs EXCEPT ![s] = GlobalConfigs(config)],
             seen' = [seen EXCEPT ![s] = config],
             pc' = [pc EXCEPT ![s] = IF k.op = "delete_subflow" THEN "scan" ELSE "put"]
      PROVE SessionInv(s)'
  <2>1. /\ pc'[s] \in {"scan", "put"} /\ defs'[s] = d /\ configs'[s] = GlobalConfigs(config)
        /\ seen'[s] = config /\ call'[s] = k
    BY <1>1, <1>3 DEF TypeOK
  <2>2. IsCall(k) /\ Admitted(k) /\ k.op \in SubflowOps
    BY <1>1 DEF SessionInv, CallInv
  <2>3. Allowed(s)' = DeniedIn(config) \cup Unjudged(k)
    BY <2>1 DEF Allowed
  <2>4. \A x \in d : SoundDefinition(x, Allowed(s)')
    BY <1>1, <2>2, <2>3, RewrittenDefinitions DEF TypeOK
  <2>5. Sound(GlobalConfigs(config), Allowed(s)')
    BY <1>1, <2>3, ReadConfigs DEF TypeOK, Sound, JudgedBy
  <2>6. DefsInv(s)'
    BY <2>1, <2>4, <2>5 DEF DefsInv
  <2>7. CallInv(s)' /\ DocInv(s)' /\ InstanceInv(s)' /\ InjectInv(s)'
    BY <2>1, <2>2 DEF CallInv, DocInv, InstanceInv, InjectInv
  <2> QED BY <2>6, <2>7 DEF SessionInv
<1> QED BY <1>2, <1>3 DEF FetchDefinitions

LEMMA ScanKeeps ==
  ASSUME IInv, NEW s \in Sessions, ScanReferences(s)
  PROVE SessionInv(s)'
<1>1. /\ TypeOK /\ SessionInv(s) /\ pc[s] = "scan"
      /\ UNCHANGED <<call, defs, configs, seen>>
  BY DEF IInv, ScanReferences
<1>2. pc'[s] \in {"put", "refused"}
  BY <1>1 DEF ScanReferences, Finish, Refuse, TypeOK
<1>3. CASE pc'[s] = "refused"
  BY <1>1, <1>3, EndKeeps
<1>4. CASE pc'[s] = "put"
  <2>1. Allowed(s)' = Allowed(s)
    BY <1>1 DEF Allowed
  <2>2. DefsInv(s)'
    BY <1>1, <1>4, <2>1 DEF SessionInv, DefsInv
  <2>3. CallInv(s)' /\ DocInv(s)' /\ InstanceInv(s)' /\ InjectInv(s)'
    BY <1>1, <1>4 DEF SessionInv, CallInv, DocInv, InstanceInv, InjectInv
  <2> QED BY <2>2, <2>3 DEF SessionInv
<1> QED BY <1>2, <1>3, <1>4

LEMMA LookupKeeps ==
  ASSUME IInv, NEW s \in Sessions, LookupTarget(s)
  PROVE SessionInv(s)'
<1>1. TypeOK /\ SessionInv(s) /\ pc[s] = "lookup" /\ call' = call
  BY DEF IInv, LookupTarget
<1>2. CASE Refuse(s)
  <2>1. pc'[s] = "refused"
    BY <1>1, <1>2 DEF Refuse, Finish, TypeOK
  <2> QED BY <1>1, <2>1, EndKeeps
<1>3. CASE /\ Enabled(config, call[s].id)
           /\ pc' = [pc EXCEPT ![s] = IF call[s].payload THEN "fire" ELSE "verify"]
           /\ seen' = [seen EXCEPT ![s] = config]
  <2>1. pc'[s] \in {"fire", "verify"} /\ seen'[s] = config
    BY <1>1, <1>3 DEF TypeOK
  <2>2. InjectInv(s)'
    BY <1>1, <1>3, <2>1 DEF InjectInv
  <2>3. CallInv(s)' /\ DocInv(s)' /\ InstanceInv(s)' /\ DefsInv(s)'
    BY <1>1, <2>1 DEF SessionInv, CallInv, DocInv, InstanceInv, DefsInv
  <2> QED BY <2>2, <2>3 DEF SessionInv
<1> QED BY <1>2, <1>3 DEF LookupTarget

LEMMA VerifyKeeps ==
  ASSUME IInv, NEW s \in Sessions, VerifyType(s)
  PROVE SessionInv(s)'
<1>1. TypeOK /\ SessionInv(s) /\ pc[s] = "verify" /\ UNCHANGED <<call, seen>>
  BY DEF IInv, VerifyType
<1>2. pc'[s] \in {"fire", "refused"}
  BY <1>1 DEF VerifyType, Finish, Refuse, TypeOK
<1>3. CASE pc'[s] = "refused"
  BY <1>1, <1>3, EndKeeps
<1>4. CASE pc'[s] = "fire"
  BY <1>1, <1>4 DEF SessionInv, CallInv, DocInv, InstanceInv, DefsInv, InjectInv
<1> QED BY <1>2, <1>3, <1>4

(* The steps that end a call. *)
LEMMA EndingKeeps ==
  ASSUME IInv, NEW s \in Sessions,
         DeployTab(s) \/ SendDocument(s) \/ PutDefinitions(s) \/ FireInject(s)
  PROVE SessionInv(s)'
<1>1. TypeOK /\ SessionInv(s)
  BY DEF IInv
<1>2. CASE DeployTab(s)
  <2>1. pc[s] = "deploy" /\ call' = call /\ pc'[s] \in {"done", "refused"}
    BY <1>1, <1>2 DEF DeployTab, Install, Finish, Refuse, TypeOK
  <2> QED BY <1>1, <2>1, EndKeeps
<1>3. CASE SendDocument(s)
  <2>1. pc[s] = "send" /\ call' = call
    BY <1>3 DEF SendDocument
  <2>2. PICK next : Install(s, next)
    BY <1>3 DEF SendDocument
  <2>3. pc'[s] \in {"done", "refused"}
    BY <1>1, <2>2, Installed DEF TypeOK
  <2> QED BY <1>1, <2>1, <2>3, EndKeeps
<1>4. CASE PutDefinitions(s)
  <2>1. pc[s] = "put" /\ call' = call /\ pc'[s] = "done"
    BY <1>1, <1>4 DEF PutDefinitions, Finish, TypeOK
  <2> QED BY <1>1, <2>1, EndKeeps
<1>5. CASE FireInject(s)
  <2>1. pc[s] = "fire" /\ call' = call /\ pc'[s] \in {"done", "refused"}
    BY <1>1, <1>5 DEF FireInject, Finish, Refuse, TypeOK
  <2> QED BY <1>1, <2>1, EndKeeps
<1> QED BY <1>2, <1>3, <1>4, <1>5

LEMMA InvStep == IInv /\ [Next]_vars => IInv'
<1> SUFFICES ASSUME IInv, [Next]_vars PROVE IInv'
  OBVIOUS
<1>1. CASE UNCHANGED vars
  <2>1. TypeOK'
    BY <1>1 DEF vars, IInv, TypeOK
  <2>2. \A t \in Sessions : SessionInv(t)'
    BY <1>1, IdleKeeps DEF vars, IInv, Idle
  <2> QED BY <2>1, <2>2 DEF IInv
<1>2. CASE EditorDeploy
  <2>1. TypeOK'
    BY <1>2, EditorIsSound DEF EditorDeploy, IInv, TypeOK
  <2>2. \A t \in Sessions : SessionInv(t)'
    BY <1>2, IdleKeeps DEF EditorDeploy, IInv, Idle
  <2> QED BY <2>1, <2>2 DEF IInv
<1>3. ASSUME NEW s \in Sessions, Step(s) PROVE IInv'
  <2>1. TypeOK'
    BY <1>3, TypeStep
  <2>2. SessionInv(s)'
    BY <1>3, ReadTabKeeps, CheckKeeps, FetchKeeps, ScanKeeps, LookupKeeps, VerifyKeeps, EndingKeeps
    DEF Step
  <2>3. ASSUME NEW t \in Sessions, t # s PROVE SessionInv(t)'
    BY <1>3, <2>3, OthersIdle, IdleKeeps DEF IInv
  <2> QED BY <2>1, <2>2, <2>3 DEF IInv
<1> QED BY <1>1, <1>2, <1>3 DEF Next

(* What the sessions carry is what their tools made of it. *)
THEOREM Inductive == Spec => []IInv
<1> QED BY InitInv, InvStep, PTL DEF Spec

-----------------------------------------------------------------------------
(* No write of the client brings in a node of a forbidden type, whatever is
   submitted and whatever the sessions and the editor do in between
   (policy.go). *)
THEOREM PolicyIsKept == Spec => PolicyHolds
<1>1. ASSUME IInv, NEW s \in Sessions, Step(s)
      PROVE DeniedIn(config') \subseteq DeniedIn(config) \cup Allowed(s)
  BY <1>1, WriteIsSound, SoundIsJudged
<1>2. IInv /\ [Next]_vars =>
        [\A s \in Sessions :
           Step(s) => DeniedIn(config') \subseteq DeniedIn(config) \cup Allowed(s)]_vars
  BY <1>1
<1> QED BY <1>2, Inductive, PTL DEF Spec, PolicyHolds

(* inject_node answers "fired" for a node that could not run only when the
   configuration changed after its lookup (tools_flows.go). *)
THEOREM FiredMeansRuns == Spec => LostOnlyWhenOvertaken
<1>1. ASSUME IInv, NEW s \in Sessions, FireInject(s), ~Runs(config, call[s].id)
      PROVE config # seen[s]
  <2>1. Enabled(seen[s], call[s].id)
    BY <1>1 DEF IInv, SessionInv, InjectInv, FireInject
  <2>2. ~Enabled(config, call[s].id)
    BY <1>1 DEF Runs, Enabled, Target, TabOff, Owners
  <2> QED BY <2>1, <2>2
<1>2. IInv /\ [Next]_vars =>
        [\A s \in Sessions :
           FireInject(s) /\ pc'[s] = "done" /\ ~Runs(config, call[s].id) => config # seen[s]]_vars
  BY <1>1
<1> QED BY <1>2, Inductive, PTL DEF Spec, LostOnlyWhenOvertaken

-----------------------------------------------------------------------------
(* Writes of one tab. *)

(* What a tab write deploys is a document, and it deploys it or nothing. *)
LEMMA TabWriteInstalls ==
  ASSUME IInv, NEW s \in Sessions, TabWrite(s)
  PROVE /\ IsDocument(Submitted(s))
        /\ \/ config' \in deployFlowUpdate(config, call[s].flow, Submitted(s)) /\ pc'[s] = "done"
           \/ config' = config /\ pc'[s] = "refused"
<1>1. SessionInv(s) /\ DOMAIN pc = Sessions
  BY DEF IInv, TypeOK
<1>2. CASE DeployTab(s)
  <2>1. /\ pc[s] = "deploy" /\ Install(s, deployFlowUpdate(config, call[s].flow, doc[s]))
    BY <1>2 DEF DeployTab
  <2>2. IsDocument(doc[s]) /\ call[s].op \in EditOps \cup {"instantiate_subflow"}
    BY <1>1, <2>1 DEF SessionInv, DocInv, OneTab, CallInv
  <2>3. Submitted(s) = doc[s]
    BY <2>2 DEF Submitted, EditOps
  <2> QED BY <1>1, <2>1, <2>2, <2>3, Installed
<1>3. CASE SendDocument(s) /\ call[s].op = "update_flow"
  <2>1. pc[s] = "send"
    BY <1>3 DEF SendDocument
  <2>2. IsCall(call[s]) /\ call[s].op \in DocumentOps
    BY <1>1, <2>1 DEF SessionInv, CallInv
  <2>3. Install(s, UpdateFlow(call[s]))
    BY <1>3, <2>2, SendCases DEF ArrayOps
  <2>4. IsDocument(call[s].doc) /\ Submitted(s) = call[s].doc
    BY <1>3, <2>2 DEF IsCall, Submitted
  <2>5. UpdateFlow(call[s]) \subseteq deployFlowUpdate(config, call[s].flow, call[s].doc)
    BY DEF UpdateFlow
  <2> QED BY <1>1, <2>3, <2>4, <2>5, Installed
<1> QED BY <1>2, <1>3 DEF TabWrite

(* Where an entry that was submitted stands. *)
LEMMA WhereSubmitted ==
  ASSUME NEW d, IsDocument(d), NEW id, NEW r \in flattenFlowUpdate(d, id), r.id # ""
  PROVE \/ r.id \in flattenOwners(d, id)
        \/ \E n \in Members(d) : r = Own(n, id) /\ r.id = n.id
        \/ r.id \in IdsOf(DefinitionMembers(d))
<1>1. CASE r = Header(d, id, "tab")
  <2>1. IsHeaded(d)
    BY DEF IsDocument
  <2>2. Header(d, id, "tab").id = id
    BY <2>1, FieldsOf DEF Header, IsHeaded, Entries, Fields
  <2> QED BY <1>1, <2>2 DEF flattenOwners
<1>2. CASE \E n \in Members(d) : r = Own(n, id)
  <2>1. PICK n \in Members(d) : r = Own(n, id)
    BY <1>2
  <2>2. Own(n, id).id = n.id
    BY MemberIsSubmitted
  <2> QED BY <2>1, <2>2
<1>3. ASSUME NEW sf \in d.subflows, r = Header(sf, sf.top.id, "subflow")
      PROVE r.id \in flattenOwners(d, id)
  <2>1. IsHeaded(sf)
    BY DEF IsDocument
  <2>2. Header(sf, sf.top.id, "subflow").id = sf.top.id
    BY <2>1, FieldsOf DEF Header, IsHeaded, Entries, Fields
  <2> QED BY <1>3, <2>2 DEF flattenOwners
<1>4. ASSUME NEW sf \in d.subflows, NEW n \in Members(sf), r = Own(n, sf.top.id)
      PROVE r.id \in IdsOf(DefinitionMembers(d))
  <2>1. IsEntry(n)
    BY FieldsOf DEF IsDocument, IsHeaded, Entries
  <2>2. r.id = n.id
    BY <1>4, <2>1, OwnFields DEF Alike
  <2>3. n \in DefinitionMembers(d)
    BY DEF DefinitionMembers
  <2> QED BY <2>2, <2>3 DEF IdsOf
<1> QED BY <1>1, <1>2, <1>3, <1>4, FlattenedEntries

(* A member of the tab as it is deployed has an owner, and its z and its
   wires end among the members. *)
LEMMA MineIsOwned ==
  ASSUME NEW C, NEW d, IsDocument(d), NEW id, NEW next \in deployFlowUpdate(C, id, d),
         NEW e \in Mine(next, d)
  PROVE /\ e.z \in {id} \cup IdsOf(Mine(next, d))
        /\ \A w \in e.wires : w[2] \in IdsOf(Mine(next, d))
<1>1. next \in replaceFlowEntries(C, id, d) /\ validateDeployedTab(next, id, d)
  BY DEF deployFlowUpdate
<1>2. /\ e.z \in {"", id} \cup IdsOf(Mine(next, d))
      /\ \A w \in e.wires : w[2] \in IdsOf(Mine(next, d))
  BY <1>1, DeployedMembers
<1>3. PICK m \in Members(d) : m.id = e.id
  BY DEF Mine, IdsOf
<1>4. Own(m, id) \in flattenFlowUpdate(d, id) /\ Own(m, id).id = e.id /\ Own(m, id).z # ""
  <2>1. id # ""
    BY <1>1, ReplaceGuard
  <2>2. /\ Own(m, id) \in flattenFlowUpdate(d, id) /\ Own(m, id).id = m.id
        /\ id # "" => Own(m, id).z # ""
    BY MemberIsSubmitted
  <2> QED BY <1>3, <2>1, <2>2
<1>5. e.id \in IdsOf(flattenFlowUpdate(d, id))
  BY <1>4 DEF Mine, IdsOf
<1>6. PICK r \in flattenFlowUpdate(d, id) : SameEntry(e, r)
  BY <1>1, <1>5, ReplacedEntries DEF Mine
<1>7. r = Own(m, id)
  BY <1>1, <1>4, <1>6, ReplaceGuard DEF SameEntry, Alike
<1> QED BY <1>2, <1>4, <1>6, <1>7 DEF SameEntry

(* A write of one tab leaves what stands outside of it as it is and brings
   nothing in there, whatever it submits and whatever moved meanwhile
   (flows_update.go, validateReplacementOwners). *)
THEOREM TabsStayApart == Spec => TabsAreApart
<1>1. ASSUME IInv, NEW s \in Sessions, TabWrite(s)
      PROVE LET own == flattenOwners(Submitted(s), call[s].flow)
                apart == {e \in config : e.id \notin own /\ e.z \notin own} IN
            /\ apart \subseteq config'
            /\ \A e \in config' \ config :
                 \/ e.id \in own \/ e.z \in own
                 \/ e.z \notin {""} \cup IdsOf(apart)
                 \/ e.id \in IdsOf(DefinitionMembers(Submitted(s)))
  <2> DEFINE t == call[s].flow
             d == Submitted(s)
             own == flattenOwners(d, t)
             apart == {e \in config : e.id \notin own /\ e.z \notin own}
  <2>1. CASE config' = config
    BY <2>1
  <2>2. CASE config' \in deployFlowUpdate(config, t, d)
    <3>1. IsDocument(d) /\ config' \in replaceFlowEntries(config, t, d)
      BY <1>1, <2>2, TabWriteInstalls DEF deployFlowUpdate
    <3> HIDE DEF d, t
    <3>2. \A c \in apart : c \in config' /\ c.id \notin IdsOf(flattenFlowUpdate(d, t))
      BY <3>1, ApartStays
    <3>3. ASSUME NEW e \in config' \ config, e.id \notin own, e.z \notin own,
                 e.id \notin IdsOf(DefinitionMembers(d))
          PROVE e.z \notin {""} \cup IdsOf(apart)
      <4>1. PICK r \in flattenFlowUpdate(d, t) : SameEntry(e, r)
        BY <3>1, <3>3, ReplacedEntries
      <4>2. r.id = e.id /\ r.z = e.z /\ r.id # ""
        <5>1. \A q \in flattenFlowUpdate(d, t) : q.id # ""
          BY <3>1, ReplaceGuard
        <5> QED BY <4>1, <5>1 DEF SameEntry, Alike
      <4>3. PICK n \in Members(d) : n.id = e.id
        BY <3>1, <3>3, <4>2, WhereSubmitted
      <4>4. e \in Mine(config', d)
        BY <4>2, <4>3 DEF Mine, IdsOf
      <4>5. e.z \in {t} \cup IdsOf(Mine(config', d))
        BY <2>2, <3>1, <4>4, MineIsOwned
      <4>6. t \in own
        BY DEF flattenOwners
      <4>7. e.z \in IdsOf(Mine(config', d))
        BY <3>3, <4>5, <4>6
      <4>8. e.z # "" /\ \E m \in Members(d) : m.id = e.z
        BY <4>7 DEF IdsOf, Mine
      <4>9. e.z \in IdsOf(flattenFlowUpdate(d, t))
        <5>1. PICK m \in Members(d) : m.id = e.z
          BY <4>8
        <5>2. Own(m, t) \in flattenFlowUpdate(d, t) /\ Own(m, t).id = m.id
          BY <3>1, MemberIsSubmitted
        <5> QED BY <4>8, <5>1, <5>2 DEF IdsOf
      <4>10. e.z \notin IdsOf(apart)
        <5> HIDE DEF apart
        <5>1. \A c \in apart : c.id # e.z
          BY <3>2, <4>9
        <5> QED BY <5>1 DEF IdsOf
      <4> QED BY <4>8, <4>10
    <3> HIDE DEF apart, own
    <3> QED BY <3>2, <3>3 DEF own, d, t, apart
  <2> QED BY <1>1, <2>1, <2>2, TabWriteInstalls
<1>2. IInv /\ [Next]_vars =>
        [\A s \in Sessions : TabWrite(s) =>
           LET own == flattenOwners(Submitted(s), call[s].flow)
               apart == {e \in config : e.id \notin own /\ e.z \notin own} IN
           /\ apart \subseteq config'
           /\ \A e \in config' \ config :
                \/ e.id \in own \/ e.z \in own
                \/ e.z \notin {""} \cup IdsOf(apart)
                \/ e.id \in IdsOf(DefinitionMembers(Submitted(s)))]_vars
  BY <1>1
<1> QED BY <1>2, Inductive, PTL DEF Spec, TabsAreApart

(* What a tab write leaves behind runs: every instance has its definition,
   every z and every wire ends in the tab (flows_update.go,
   validateDeployedTab; validate_deploy.go, validateTabEntries). *)
THEOREM TabStaysSound == Spec => TabIsSound
<1>1. ASSUME IInv, NEW s \in Sessions, TabWrite(s), pc'[s] = "done"
      PROVE LET t == call[s].flow
                d == Submitted(s)
                mine == {e \in config' : e.id \in IdsOf(Members(d))} IN
            /\ Missing(Owned(config', t), Definitions(config')) = {}
            /\ \A e \in Owned(config', t) \ mine :
                 e.id \in flattenOwners(d, t) \cup IdsOf(DefinitionMembers(d))
            /\ \A e \in mine :
                 /\ e.z \in {t} \cup IdsOf(mine)
                 /\ \A w \in e.wires : w[2] \in IdsOf(mine)
  <2> DEFINE t == call[s].flow
             d == Submitted(s)
             mine == {e \in config' : e.id \in IdsOf(Members(d))}
  <2>1. IsDocument(d) /\ config' \in deployFlowUpdate(config, t, d)
    BY <1>1, TabWriteInstalls
  <2> HIDE DEF d, t
  <2>2. config' \in replaceFlowEntries(config, t, d) /\ validateTabEntries(config', t)
    BY <2>1 DEF deployFlowUpdate
  <2>3. Missing(Owned(config', t), Definitions(config')) = {}
    BY <2>2 DEF validateTabEntries
  <2>4. mine = Mine(config', d)
    BY DEF Mine
  <2>5. ASSUME NEW e \in Owned(config', t) \ mine
        PROVE e.id \in flattenOwners(d, t) \cup IdsOf(DefinitionMembers(d))
    <3>1. e \in config' /\ e.z = t /\ t \in flattenOwners(d, t)
      BY DEF Owned, flattenOwners
    <3>2. PICK r \in flattenFlowUpdate(d, t) : SameEntry(e, r)
      BY <2>1, <2>2, <3>1, ReplacedEntries
    <3>3. r.id = e.id /\ r.id # ""
      <4>1. \A q \in flattenFlowUpdate(d, t) : q.id # ""
        BY <2>2, ReplaceGuard
      <4> QED BY <3>2, <4>1 DEF SameEntry, Alike
    <3>4. e.id \notin IdsOf(Members(d))
      BY <3>1
    <3>5. ~\E n \in Members(d) : r.id = n.id
      BY <3>3, <3>4 DEF IdsOf
    <3> QED BY <2>1, <3>3, <3>5, WhereSubmitted
  <2>6. ASSUME NEW e \in mine
        PROVE /\ e.z \in {t} \cup IdsOf(mine)
              /\ \A w \in e.wires : w[2] \in IdsOf(mine)
    BY <2>1, <2>4, MineIsOwned
  <2> QED BY <2>3, <2>5, <2>6 DEF d, t
<1>2. IInv /\ [Next]_vars =>
        [\A s \in Sessions : TabWrite(s) /\ pc'[s] = "done" =>
           LET t == call[s].flow
               d == Submitted(s)
               mine == {e \in config' : e.id \in IdsOf(Members(d))} IN
           /\ Missing(Owned(config', t), Definitions(config')) = {}
           /\ \A e \in Owned(config', t) \ mine :
                e.id \in flattenOwners(d, t) \cup IdsOf(DefinitionMembers(d))
           /\ \A e \in mine :
                /\ e.z \in {t} \cup IdsOf(mine)
                /\ \A w \in e.wires : w[2] \in IdsOf(mine)]_vars
  BY <1>1
<1> QED BY <1>2, Inductive, PTL DEF Spec, TabIsSound

-----------------------------------------------------------------------------
(* Instances and their definitions: what a tab is read and edited to. *)

(* m is n with the owner it had. *)
Stands(m, n) == m.id = n.id /\ m.type = n.type /\ m.z = n.z
StandIn(S, o) == \A n \in S : n.z = o

(* What is read of a tab stands in it, and is no owner itself. *)
LEMMA ReadStands ==
  ASSUME NEW C, Entries(C), Rooted(C), NEW id, NEW d \in GetFlow(C, id)
  PROVE d.top.z = "" /\ Plain(Members(d)) /\ StandIn(Members(d), id)
<1> DEFINE flow == synthesizeFlowFromFlat(C, id)
<1>1. id # "" /\ id \in TabIds(C) /\ d \in {RuntimeFlow(C, id), flow}
  BY DEF GetFlow
<1>2. /\ DOMAIN flow = Parts
      /\ Members(flow) \subseteq {e \in Owned(C, id) : e.type # "subflow"}
      /\ flow.top \in Owners(C)
  BY <1>1, SynthesizedFlow
<1>3. RuntimeFlow(C, id) = [flow EXCEPT !.nodes = Hidden(@), !.configs = Hidden(@)]
  BY DEF RuntimeFlow
<1> HIDE DEF flow
<1>4. \A m \in Members(flow) : m.type \notin {"tab", "subflow"} /\ m.z = id /\ IsEntry(m)
  BY <1>1, <1>2, FieldsOf DEF Owned, Owners, Rooted, Entries
<1>5. CASE d = flow
  BY <1>2, <1>4, <1>5 DEF Plain, Rooted, StandIn
<1>6. CASE d = RuntimeFlow(C, id)
  <2>1. d.nodes = Hidden(flow.nodes) /\ d.configs = Hidden(flow.configs) /\ d.top = flow.top
    BY <1>2, <1>3, <1>6 DEF Parts
  <2>2. \A n \in Members(d) : \E m \in Members(flow) : n = [m EXCEPT !.cred = ""]
    BY <2>1 DEF Members, Hidden
  <2>3. \A m \in Members(flow) : Stands([m EXCEPT !.cred = ""], m)
    BY <1>4 DEF Stands, Fields
  <2>4. \A n \in Members(d) : \E m \in Members(flow) : Stands(n, m)
    BY <2>2, <2>3
  <2>5. \A n \in Members(d) : n.type \notin {"tab", "subflow"} /\ n.z = id
    BY <1>4, <2>4 DEF Stands
  <2> QED BY <1>2, <2>1, <2>5 DEF Plain, Rooted, StandIn
<1> QED BY <1>1, <1>5, <1>6

(* An edit leaves the members as they stand, but for the one it is about. *)
LEMMA EditStands ==
  ASSUME NEW d, IsDocument(d), NEW k, k.op \in EditOps \cup {"instantiate_subflow"},
         NEW e \in Edited(k, d)
  PROVE /\ e.top.z = d.top.z
        /\ \A m \in Members(e) :
             \/ \E n \in Members(d) : Stands(m, n)
             \/ k.op \in {"add_node", "instantiate_subflow"} /\ m = k.node
             \/ /\ k.op = "update_node" /\ m.id = k.id
                /\ \E n \in Members(d) : m = Patched(n, k.patch)
<1>1. /\ DOMAIN d = Parts /\ IsEntry(d.top)
      /\ \A n \in Members(d) : IsEntry(n)
  BY FieldsOf DEF IsDocument, IsHeaded, Entries
<1>2. \A n \in Members(d) : Stands(n, n)
  BY DEF Stands
<1>3. CASE k.op \in {"add_node", "instantiate_subflow"} /\ e \in AddNodeToFlow(d, k.node)
  <2>1. e = [d EXCEPT !.nodes = @ \cup {k.node}]
    BY <1>3 DEF AddNodeToFlow
  <2>2. e.top = d.top /\ Members(e) = Members(d) \cup {k.node}
    BY <1>1, <2>1 DEF Parts, Members
  <2> QED BY <1>2, <1>3, <2>2
<1>4. CASE k.op = "update_node" /\ e \in UpdateNodeInFlow(d, k.id, k.patch)
  <2>1. /\ "id" \notin DOMAIN k.patch
        /\ \E n \in locate(d, k.id) : e = Swap(d, n, Patched(n, k.patch))
    BY <1>4 DEF UpdateNodeInFlow
  <2>2. PICK n \in locate(d, k.id) : e = Swap(d, n, Patched(n, k.patch))
    BY <2>1
  <2>3. n.id = k.id /\ n \in Members(d)
    BY Located
  <2>4. Patched(n, k.patch).id = k.id
    BY <1>1, <2>1, <2>3, FieldsOf DEF Patched, Fields
  <2>5. e.top = d.top /\ Members(e) \subseteq Members(d) \cup {Patched(n, k.patch)}
    BY <2>2, SwappedMembers
  <2> QED BY <1>2, <1>4, <2>3, <2>4, <2>5
<1>5. CASE e \in DeleteNodeFromFlow(d, k.id)
  <2>1. PICK n : e = Swept(Without(d, n), k.id)
    BY <1>5 DEF DeleteNodeFromFlow
  <2> DEFINE w == Without(d, n)
  <2>2. DOMAIN w = Parts /\ w.top = d.top /\ Members(w) \subseteq Members(d)
    BY <1>1 DEF Parts, Members, Without
  <2> HIDE DEF w
  <2>3. e = Swept(w, k.id)
    BY <2>1 DEF w
  <2>4. /\ e.top = w.top
        /\ e.nodes = {Sweep(m, k.id) : m \in w.nodes} /\ e.configs = {Sweep(m, k.id) : m \in w.configs}
    BY <2>2, <2>3 DEF Parts, Swept
  <2>5. \A m \in Members(e) : \E o \in Members(d) : m = Sweep(o, k.id)
    BY <2>2, <2>4 DEF Members
  <2>6. \A o \in Members(d) : Stands(Sweep(o, k.id), o)
    BY <1>1 DEF Sweep, Stands, Fields
  <2> QED BY <2>2, <2>4, <2>5, <2>6
<1>6. CASE e \in ConnectNodesInFlow(d, k.id, k.port, k.to)
  <2>1. PICK n \in locate(d, k.id) : e = Swap(d, n, [n EXCEPT !.wires = @ \cup {<<k.port, k.to>>}])
    BY <1>6 DEF ConnectNodesInFlow
  <2> DEFINE p == [n EXCEPT !.wires = @ \cup {<<k.port, k.to>>}]
  <2>2. n \in Members(d)
    BY Located
  <2>3. Stands(p, n)
    BY <1>1, <2>2 DEF Stands, Fields
  <2> HIDE DEF p
  <2>4. e = Swap(d, n, p)
    BY <2>1 DEF p
  <2>5. e.top = d.top /\ Members(e) \subseteq Members(d) \cup {p}
    BY <2>4, SwappedMembers
  <2> QED BY <1>2, <2>2, <2>3, <2>5
<1>7. CASE e \in SetDisabledInFlow(d, k.off)
  <2>1. e = [d EXCEPT !.top.off = k.off]
    BY <1>7 DEF SetDisabledInFlow
  <2>2. Members(e) = Members(d) /\ e.top = [d.top EXCEPT !.off = k.off]
    BY <1>1, <2>1 DEF Parts, Members
  <2>3. e.top.z = d.top.z
    BY <1>1, <2>2 DEF Fields
  <2> QED BY <1>2, <2>2, <2>3
<1> QED BY <1>3, <1>4, <1>5, <1>6, <1>7, EditedCases

(* What ReadTab will deploy. *)
LEMMA EditedTabOf ==
  ASSUME NEW C, Entries(C), Rooted(C), NEW k, IsCall(k), PlainCall(k),
         k.op \in EditOps \cup {"instantiate_subflow"},
         k.op = "instantiate_subflow" => k.node.z = k.flow /\ k.node.type = "instance",
         NEW f \in GetFlow(C, k.flow), NEW d \in Edited(k, f)
  PROVE TabOf(k, d)
<1>1. f.top.z = "" /\ Plain(Members(f)) /\ StandIn(Members(f), k.flow)
  BY ReadStands
<1>2. IsDocument(f)
  <2>1. OneTab(f, DeniedIn(C))
    BY ReadFlow, Zenon
  <2> QED BY <2>1 DEF OneTab
<1>3. /\ d.top.z = f.top.z
      /\ \A m \in Members(d) :
             \/ \E n \in Members(f) : Stands(m, n)
             \/ k.op \in {"add_node", "instantiate_subflow"} /\ m = k.node
             \/ /\ k.op = "update_node" /\ m.id = k.id
                /\ \E n \in Members(f) : m = Patched(n, k.patch)
  BY <1>2, EditStands
<1>4. ASSUME NEW m \in Members(d)
      PROVE /\ m.type \notin {"tab", "subflow"}
            /\ m.z = k.flow \/ (Brings(k, m.id) /\ k.op \in {"add_node", "update_node"})
  <2>1. CASE \E n \in Members(f) : Stands(m, n)
    BY <1>1, <2>1 DEF Stands, Plain, StandIn
  <2>2. CASE k.op = "add_node" /\ m = k.node
    BY <2>2 DEF Brings, PlainCall, Plain
  <2>3. CASE k.op = "instantiate_subflow" /\ m = k.node
    BY <2>3
  <2>4. CASE k.op = "update_node" /\ m.id = k.id /\ \E n \in Members(f) : m = Patched(n, k.patch)
    <3>1. PICK n \in Members(f) : m = Patched(n, k.patch)
      BY <2>4
    <3>2. IsEntry(n) /\ n.type \notin {"tab", "subflow"}
      BY <1>1, <1>2, FieldsOf DEF IsDocument, IsHeaded, Entries, Plain
    <3>3. m.type = IF "type" \in DOMAIN k.patch THEN k.patch.type ELSE n.type
      BY <3>1, <3>2, FieldsOf DEF Patched, Fields
    <3>4. m.type \notin {"tab", "subflow"}
      BY <2>4, <3>2, <3>3 DEF PlainCall
    <3> QED BY <2>4, <3>4 DEF Brings
  <2> QED BY <1>3, <2>1, <2>2, <2>3, <2>4
<1> QED BY <1>1, <1>3, <1>4 DEF TabOf, Plain

-----------------------------------------------------------------------------
(* Instances and their definitions: what a write of a tab makes of them. *)

(* What is submitted is there afterwards. *)
LEMMA SubmittedStays ==
  ASSUME NEW C, NEW d, IsDocument(d), NEW id, NEW next \in replaceFlowEntries(C, id, d),
         NEW r \in flattenFlowUpdate(d, id)
  PROVE \E e \in next : SameEntry(e, r)
<1> DEFINE new == flattenFlowUpdate(d, id)
<1>1. /\ \A p \in C \X new : p[1].id = p[2].id => overlayFlowEntry(p[1], p[2]) \in next
      /\ \A q \in new : q.id \notin IdsOf(C) => q \in next
  BY DEF replaceFlowEntries
<1>2. IsEntry(r)
  BY FlattenedFields
<1> HIDE DEF new
<1>3. r \in new
  BY DEF new
<1>4. CASE r.id \in IdsOf(C)
  <2>1. PICK c \in C : c.id = r.id
    BY <1>4 DEF IdsOf
  <2>2. overlayFlowEntry(c, r) \in next
    <3>1. <<c, r>> \in C \X new
      BY <1>3
    <3> QED BY <1>1, <2>1, <3>1
  <2>3. SameEntry(overlayFlowEntry(c, r), r)
    BY <1>2, OverlayFields
  <2> QED BY <2>2, <2>3
<1>5. CASE r.id \notin IdsOf(C)
  <2>1. r \in next
    BY <1>1, <1>3, <1>5
  <2> QED BY <1>2, <2>1 DEF SameEntry, Alike
<1> QED BY <1>4, <1>5

(* A write of a tab leaves no id twice (flows_update.go, indexFlowEntries). *)
LEMMA NoIdTwice ==
  ASSUME NEW C, NEW d, IsDocument(d), NEW id, NEW next \in replaceFlowEntries(C, id, d),
         NEW e \in next, NEW f \in next, e.id = f.id
  PROVE e = f
<1> DEFINE new == flattenFlowUpdate(d, id)
           owners == flattenOwners(d, id)
<1>1. /\ next = {overlayFlowEntry(p[1], p[2]) : p \in {q \in C \X new : q[1].id = q[2].id}}
                  \cup {x \in C : x.id \notin IdsOf(new) /\ x.z \notin owners}
                  \cup {r \in new : r.id \notin IdsOf(C)}
      /\ indexFlowEntries(C) /\ indexFlowEntries(new)
  BY DEF replaceFlowEntries
<1>2. \A r \in new : IsEntry(r)
  BY FlattenedFields
<1> HIDE DEF new, owners
<1>3. /\ \A c \in C : c.id \in IdsOf(C) /\ \A b \in C : b.id = c.id => b = c
      /\ \A r \in new : r.id \in IdsOf(new) /\ \A q \in new : q.id = r.id => q = r
  BY <1>1 DEF indexFlowEntries, IdsOf
<1> DEFINE From(x, c, r) == c \in C /\ r \in new /\ c.id = r.id /\ x = overlayFlowEntry(c, r) /\ x.id = r.id
           Kept(x) == x \in C /\ x.id \notin IdsOf(new)
           Fresh(x) == x \in new /\ x.id \notin IdsOf(C)
<1>4. ASSUME NEW x \in next
      PROVE (\E c, r : From(x, c, r)) \/ Kept(x) \/ Fresh(x)
  <2>1. ASSUME NEW p \in C \X new, p[1].id = p[2].id, x = overlayFlowEntry(p[1], p[2])
        PROVE From(x, p[1], p[2])
    <3>1. p[1] \in C /\ p[2] \in new /\ IsEntry(p[2])
      BY <1>2
    <3>2. overlayFlowEntry(p[1], p[2]).id = p[2].id
      BY <3>1, OverlayFields DEF SameEntry, Alike
    <3> QED BY <2>1, <3>1, <3>2
  <2> HIDE DEF From
  <2>2. \/ \E p \in C \X new : p[1].id = p[2].id /\ x = overlayFlowEntry(p[1], p[2])
        \/ Kept(x) \/ Fresh(x)
    BY <1>1
  <2> QED BY <2>1, <2>2
<1>5. CASE \E c, r : From(e, c, r)
  <2>1. PICK c, r : From(e, c, r)
    BY <1>5
  <2>2. e.id \in IdsOf(C) /\ e.id \in IdsOf(new)
    BY <1>3, <2>1
  <2>3. PICK b, q : From(f, b, q)
    BY <1>4, <2>2
  <2>4. c = b /\ r = q
    BY <1>3, <2>1, <2>3
  <2> QED BY <2>1, <2>3, <2>4
<1>6. CASE Kept(e)
  <2>1. ~(\E c, r : From(f, c, r)) /\ ~Fresh(f)
    BY <1>3, <1>6
  <2> QED BY <1>3, <1>4, <1>6, <2>1
<1>7. CASE Fresh(e)
  <2>1. ~(\E c, r : From(f, c, r)) /\ ~Kept(f)
    BY <1>3, <1>7
  <2> QED BY <1>3, <1>4, <1>7, <2>1
<1> QED BY <1>4, <1>5, <1>6, <1>7

(* What may be submitted: no tab or definition as a node. *)
PlainSubmission(d) ==
  /\ d.top.z = "" /\ Plain(Members(d))
  /\ \A sf \in d.subflows : sf.top.z = "" /\ Plain(Members(sf))

(* An entry that was submitted is a header or a node of somebody. *)
LEMMA SubmittedNode ==
  ASSUME NEW d, IsDocument(d), NEW id, NEW r \in flattenFlowUpdate(d, id)
  PROVE \/ r = Header(d, id, "tab") \/ \E sf \in d.subflows : r = Header(sf, sf.top.id, "subflow")
        \/ \E n \in Members(d) : Alike(r, n) /\ r.z = IF n.z = "" THEN id ELSE n.z
        \/ \E n \in DefinitionMembers(d) : Alike(r, n)
<1>1. ASSUME NEW n \in Members(d), r = Own(n, id)
      PROVE Alike(r, n) /\ r.z = IF n.z = "" THEN id ELSE n.z
  <2>1. IsEntry(n)
    BY FieldsOf DEF IsDocument, IsHeaded, Entries
  <2> QED BY <1>1, <2>1, OwnFields
<1>2. ASSUME NEW sf \in d.subflows, NEW n \in Members(sf), r = Own(n, sf.top.id)
      PROVE n \in DefinitionMembers(d) /\ Alike(r, n)
  <2>1. IsEntry(n)
    BY FieldsOf DEF IsDocument, IsHeaded, Entries
  <2> QED BY <1>2, <2>1, OwnFields DEF DefinitionMembers
<1> QED BY <1>1, <1>2, FlattenedEntries

(* The headers that are submitted stand nowhere and refer to nothing. *)
LEMMA SubmittedHeaders ==
  ASSUME NEW d, IsDocument(d), NEW id, PlainSubmission(d), NEW r,
         r = Header(d, id, "tab") \/ \E sf \in d.subflows : r = Header(sf, sf.top.id, "subflow")
  PROVE r.z = "" /\ r.inst = ""
<1>1. IsHeaded(d) /\ d.top.z = ""
  BY DEF IsDocument, PlainSubmission
<1>2. \A sf \in d.subflows : IsHeaded(sf) /\ sf.top.z = ""
  BY DEF IsDocument, PlainSubmission
<1>3. CASE r = Header(d, id, "tab")
  BY <1>1, <1>3, HeaderRoot
<1>4. ASSUME NEW sf \in d.subflows, r = Header(sf, sf.top.id, "subflow") PROVE r.z = "" /\ r.inst = ""
  BY <1>2, <1>4, HeaderRoot
<1> QED BY <1>3, <1>4

LEMMA RootedStays ==
  ASSUME NEW C, Rooted(C), NEW d, IsDocument(d), NEW id, PlainSubmission(d),
         NEW next \in replaceFlowEntries(C, id, d)
  PROVE Rooted(next)
<1> SUFFICES ASSUME NEW e \in next, e.type \in {"tab", "subflow"}
             PROVE e.z = "" /\ e.inst = ""
  BY DEF Rooted, Owners
<1>1. CASE e \in C
  BY <1>1 DEF Rooted, Owners
<1>2. CASE \E r \in flattenFlowUpdate(d, id) : SameEntry(e, r)
  <2>1. PICK r \in flattenFlowUpdate(d, id) : SameEntry(e, r)
    BY <1>2
  <2>2. r.type \in {"tab", "subflow"} /\ e.z = r.z /\ e.inst = r.inst
    BY <2>1 DEF SameEntry, Alike
  <2>3. \A n \in Members(d) \cup DefinitionMembers(d) : n.type \notin {"tab", "subflow"}
    BY DEF PlainSubmission, Plain, DefinitionMembers
  <2>4. ~\E n \in Members(d) \cup DefinitionMembers(d) : Alike(r, n)
    BY <2>2, <2>3 DEF Alike
  <2>5. r = Header(d, id, "tab") \/ \E sf \in d.subflows : r = Header(sf, sf.top.id, "subflow")
    BY <2>4, SubmittedNode
  <2> QED BY <2>2, <2>5, SubmittedHeaders
<1> QED BY <1>1, <1>2, ReplacedEntries

(* A write of a tab removes no definition. *)
LEMMA DefinitionsStay ==
  ASSUME NEW C, Rooted(C), NEW d, IsDocument(d), NEW id, NEW next \in replaceFlowEntries(C, id, d)
  PROVE Definitions(C) \subseteq Definitions(next)
<1> SUFFICES ASSUME NEW c \in C, c.type = "subflow"
             PROVE \E e \in next : e.type = "subflow" /\ e.id = c.id
  BY DEF Definitions
<1>1. c.z = ""
  BY DEF Rooted, Owners
<1>2. IsHeaded(d) /\ \A sf \in d.subflows : IsHeaded(sf)
  BY DEF IsDocument
<1>3. ASSUME NEW sf \in d.subflows
      PROVE LET h == Header(sf, sf.top.id, "subflow") IN
            h \in flattenFlowUpdate(d, id) /\ h.id = sf.top.id /\ h.type = "subflow"
  <2>1. Header(sf, sf.top.id, "subflow") \in flattenFlowUpdate(d, id)
    BY FlatEntries DEF flattenFlowUpdate
  <2> QED BY <1>2, <2>1, HeaderFields
<1>4. "" \notin flattenOwners(d, id)
  BY <1>3, ReplaceGuard DEF flattenOwners
<1>5. CASE c.id \notin flattenOwners(d, id)
  <2>1. c \in next
    BY <1>1, <1>4, <1>5, ApartStays
  <2> QED BY <2>1
<1>6. CASE c.id = id
  <2>1. PICK t \in C : t.id = id /\ t.type = "tab"
    BY DEF replaceFlowEntries
  <2>2. indexFlowEntries(C)
    BY DEF replaceFlowEntries
  <2> QED BY <1>6, <2>1, <2>2 DEF indexFlowEntries
<1>7. CASE \E sf \in d.subflows : c.id = sf.top.id
  <2>1. PICK sf \in d.subflows : c.id = sf.top.id
    BY <1>7
  <2> DEFINE h == Header(sf, sf.top.id, "subflow")
  <2>2. h \in flattenFlowUpdate(d, id) /\ h.id = sf.top.id /\ h.type = "subflow"
    BY <1>3
  <2> HIDE DEF h
  <2>3. PICK e \in next : SameEntry(e, h)
    BY <2>2, SubmittedStays
  <2> QED BY <2>1, <2>2, <2>3 DEF SameEntry, Alike
<1> QED BY <1>5, <1>6, <1>7 DEF flattenOwners

(* An instance without a definition after a write of a tab was one before,
   or was submitted and stands elsewhere. *)
LEMMA DeployedInstances ==
  ASSUME NEW C, Rooted(C), NEW d, IsDocument(d), NEW id, PlainSubmission(d),
         NEW next \in deployFlowUpdate(C, id, d), NEW e \in Missing(next, Definitions(next))
  PROVE \/ e \in Missing(C, Definitions(C))
        \/ /\ e.z # id
           /\ \/ \E n \in Members(d) : e.id = n.id /\ n.z # id
              \/ \E n \in DefinitionMembers(d) : e.id = n.id
<1>1. /\ next \in replaceFlowEntries(C, id, d)
      /\ Missing(Owned(next, id), Definitions(next)) = {}
  BY DEF deployFlowUpdate, validateTabEntries
<1>2. e \in next /\ e.inst # "" /\ e.inst \notin Definitions(next)
  BY DEF Missing
<1>3. e.z # id
  BY <1>1, <1>2 DEF Missing, Owned
<1>4. CASE e \in C
  <2>1. e.inst \notin Definitions(C)
    BY <1>1, <1>2, DefinitionsStay
  <2> QED BY <1>2, <1>4, <2>1 DEF Missing
<1>5. CASE \E r \in flattenFlowUpdate(d, id) : SameEntry(e, r)
  <2>1. PICK r \in flattenFlowUpdate(d, id) : SameEntry(e, r)
    BY <1>5
  <2>2. e.id = r.id /\ e.inst = r.inst /\ e.z = r.z
    BY <2>1 DEF SameEntry, Alike
  <2>3. ~(r = Header(d, id, "tab") \/ \E sf \in d.subflows : r = Header(sf, sf.top.id, "subflow"))
    BY <1>2, <2>2, SubmittedHeaders
  <2>4. ASSUME NEW n \in Members(d), Alike(r, n), r.z = IF n.z = "" THEN id ELSE n.z
        PROVE e.id = n.id /\ n.z # id
    BY <1>3, <2>2, <2>4 DEF Alike
  <2>5. ASSUME NEW n \in DefinitionMembers(d), Alike(r, n)
        PROVE e.id = n.id
    BY <2>2, <2>5 DEF Alike
  <2> QED BY <1>3, <2>3, <2>4, <2>5, SubmittedNode
<1> QED BY <1>1, <1>2, <1>4, <1>5, ReplacedEntries

-----------------------------------------------------------------------------
(* Instances and their definitions: what the other writes make of them. *)

LEMMA CreatedFlow ==
  ASSUME Entries(config), Rooted(config), NEW k, k.op = "create_flow",
         IsDocument(k.doc), PlainSubmission(k.doc), NEW next \in CreateFlow(k)
  PROVE /\ config \subseteq next /\ Rooted(next)
        /\ \A e \in next : e \in config \/ e \in Owners(next) \/ Brings(k, e.id)
<1> DEFINE tab == [k.doc EXCEPT !.top.id = k.flow]
           new == Flat(tab, k.flow, "tab")
           filed == {IF e.id = k.flow THEN e ELSE [e EXCEPT !.z = k.flow] : e \in new}
<1>1. next = config \cup filed
  BY DEF CreateFlow
<1>2. Members(tab) = Members(k.doc) /\ tab.top = [k.doc.top EXCEPT !.id = k.flow] /\ DOMAIN tab = Parts
      /\ tab.groups = k.doc.groups
  BY FieldsOf DEF IsDocument, IsHeaded, Parts, Members
<1> HIDE DEF tab
<1>3. IsHeaded(tab)
  <2>1. IsEntry(k.doc.top)
    BY DEF IsDocument, IsHeaded, Entries
  <2>2. IsEntry(tab.top)
    BY <1>2, <2>1, EntryExcept
  <2> QED BY <1>2, <2>2, FieldsOf DEF IsDocument, IsHeaded, Entries
<1>8. tab.top.z = ""
  BY <1>2, FieldsOf DEF IsDocument, IsHeaded, Entries, PlainSubmission, Fields
<1>4. ASSUME NEW r \in new
      PROVE \/ r.id = k.flow /\ r.type = "tab" /\ r.z = "" /\ r.inst = ""
            \/ \E n \in Members(k.doc) : Alike(r, n) /\ IsEntry(n)
  <2>3. r = Header(tab, k.flow, "tab") \/ \E n \in Members(k.doc) : r = Own(n, k.flow)
    BY <1>2, FlatEntries DEF new
  <2>1. CASE r = Header(tab, k.flow, "tab")
    <3>1. Header(tab, k.flow, "tab").id = k.flow /\ Header(tab, k.flow, "tab").type = "tab"
      BY <1>3, HeaderFields
    <3>2. Header(tab, k.flow, "tab").z = "" /\ Header(tab, k.flow, "tab").inst = ""
      BY <1>3, <1>8, HeaderRoot
    <3> QED BY <2>1, <3>1, <3>2
  <2>2. CASE \E n \in Members(k.doc) : r = Own(n, k.flow)
    <3>1. PICK n \in Members(k.doc) : r = Own(n, k.flow)
      BY <2>2
    <3>2. IsEntry(n)
      BY FieldsOf DEF IsDocument, IsHeaded, Entries
    <3> QED BY <3>1, <3>2, OwnFields
  <2> QED BY <2>1, <2>2, <2>3
<1> HIDE DEF new
<1>5. ASSUME NEW e \in filed
      PROVE \/ e.type = "tab" /\ e.z = "" /\ e.inst = ""
            \/ e.type \notin {"tab", "subflow"} /\ \E n \in Members(k.doc) : e.id = n.id
  <2>1. PICK r \in new : e = IF r.id = k.flow THEN r ELSE [r EXCEPT !.z = k.flow]
    OBVIOUS
  <2>2. CASE r.id = k.flow /\ r.type = "tab" /\ r.z = "" /\ r.inst = ""
    BY <2>1, <2>2
  <2>3. CASE \E n \in Members(k.doc) : Alike(r, n) /\ IsEntry(n)
    <3>1. PICK n \in Members(k.doc) : Alike(r, n) /\ IsEntry(n)
      BY <2>3
    <3>2. IsEntry(r) /\ r.id = n.id /\ r.type = n.type /\ n.type \notin {"tab", "subflow"}
      BY <3>1 DEF Alike, PlainSubmission, Plain
    <3>3. e.id = r.id /\ e.type = r.type
      BY <2>1, <3>2 DEF Fields
    <3> QED BY <3>2, <3>3
  <2> QED BY <1>4, <2>2, <2>3
<1> HIDE DEF filed
<1>6. Rooted(next)
  BY <1>1, <1>5 DEF Rooted, Owners
<1>7. ASSUME NEW e \in filed PROVE e \in Owners(next) \/ Brings(k, e.id)
  BY <1>1, <1>5, <1>7 DEF Owners, Brings
<1> QED BY <1>1, <1>6, <1>7

LEMMA DeletedTabs ==
  ASSUME Rooted(config), NEW k, NEW next \in DeleteFlow(k)
  PROVE /\ next \subseteq config
        /\ Definitions(config) \subseteq Definitions(next) \cup {k.flow}
<1>1. next = {e \in config : e.id # k.flow /\ e.z # k.flow} /\ k.flow # ""
  BY DEF DeleteFlow, TabIds, IdsOf
<1> QED BY <1>1 DEF Definitions, Rooted, Owners

(* A configuration that was judged has no id twice and no instance without
   its definition (validate_deploy.go). *)
LEMMA JudgedArray ==
  ASSUME NEW C, ValidateEffectiveConfig(C) = {}
  PROVE /\ Missing(C, Definitions(C)) = {}
        /\ \A e, f \in C : e.id = f.id /\ e.id # "" => e = f
<1>1. missingSubflowIssues(C) = {} /\ duplicateIDIssues(C) = {}
  BY DEF ValidateEffectiveConfig
<1>2. Missing(C, Definitions(C)) = {}
  BY <1>1 DEF missingSubflowIssues
<1>3. {d \in C : d.id # "" /\ \E f \in C \ {d} : f.id = d.id} = {}
  BY <1>1 DEF duplicateIDIssues
<1> QED BY <1>2, <1>3

(* The entries of a definition that is put. *)
PutBy(d) == {[d.top EXCEPT !.type = "subflow", !.inst = ""]}
              \cup {Own(n, d.top.id) : n \in Members(d) \cup d.groups}

(* A definition that is put back as it was read brings nothing. *)
LEMMA NestedBack ==
  ASSUME NEW C, Entries(C), Rooted(C), NEW o \in C, o.type = "subflow",
         NEW e \in PutBy(Nest(C, o))
  PROVE \/ e.type = "subflow" /\ e.z = "" /\ e.inst = ""
        \/ e \in C /\ e.z = o.id /\ o.id \notin TabIds(C) /\ e \notin Owners(C)
<1> DEFINE d == Nest(C, o)
           mine == IF o.id \in TabIds(C) THEN {} ELSE MembersOf(C, o.id)
<1>1. /\ d.top = o
      /\ d.nodes = {x \in mine : x.xy /\ x.type # "group"}
      /\ d.configs = {x \in mine : ~x.xy}
      /\ d.groups = {x \in mine : x.xy /\ x.type = "group"}
  BY FieldsOf DEF Nest, flowDoc, Parts
<1>2. \A n \in mine : n \in C /\ n.z = o.id /\ o.id # "" /\ o.id \notin TabIds(C) /\ n \notin Owners(C)
  BY DEF MembersOf, Owned
<1> HIDE DEF mine
<1>3. Members(d) \cup d.groups \subseteq mine
  BY <1>1 DEF Members
<1> HIDE DEF d
<1>4. CASE e = [d.top EXCEPT !.type = "subflow", !.inst = ""]
  <2>1. o.z = "" /\ IsEntry(o)
    BY FieldsOf DEF Rooted, Owners, Entries
  <2> QED BY <1>1, <1>4, <2>1, FieldsOf DEF Fields
<1>5. CASE \E n \in Members(d) \cup d.groups : e = Own(n, d.top.id)
  <2>1. PICK n \in mine : e = Own(n, o.id)
    BY <1>1, <1>3, <1>5
  <2>2. e = n
    BY <1>2, <2>1 DEF Own
  <2> QED BY <1>2, <2>2
<1> QED BY <1>4, <1>5 DEF d, PutBy

(* Where an entry stands that PUT /flow/global leaves or puts there. *)
LEMMA PutEntries ==
  ASSUME NEW C, NEW D, NEW e \in PutGlobal(C, D, GlobalConfigs(C))
  PROVE \/ e \in C /\ (e.type = "tab" \/ e.z \in TabIds(C))
        \/ e \in C /\ e.z = "" /\ e \notin Owners(C)
        \/ \E d \in D : e \in PutBy(d)
<1> DEFINE G == GlobalConfigs(C)
           left == {c \in C : c.type = "tab" \/ c.z \in TabIds(C)}
<1>1. e \in left \/ e \in G \/ \E d \in D : e \in PutBy(d)
  <2>1. e \in PutGlobal(C, D, G)
    OBVIOUS
  <2> HIDE DEF G
  <2>2. PutGlobal(C, D, G) = left \cup (UNION {PutBy(d) : d \in D}) \cup G
    BY DEF PutGlobal, PutBy
  <2> HIDE DEF left
  <2> QED BY <2>1, <2>2
<1>2. CASE e \in GlobalConfigs(C)
  BY <1>2 DEF GlobalConfigs, Owned
<1> QED BY <1>1, <1>2

LEMMA PutHeaders ==
  ASSUME NEW C, NEW D, NEW G, NEW d \in D, IsHeaded(d)
  PROVE d.top.id \in Definitions(PutGlobal(C, D, G))
<1> DEFINE h == [d.top EXCEPT !.type = "subflow", !.inst = ""]
<1>1. h \in PutGlobal(C, D, G)
  <2>1. PutGlobal(C, D, G) = {e \in C : e.type = "tab" \/ e.z \in TabIds(C)}
                               \cup (UNION {PutBy(x) : x \in D}) \cup G
    BY DEF PutGlobal, PutBy
  <2>2. h \in PutBy(d)
    BY DEF PutBy
  <2> QED BY <2>1, <2>2
<1>2. h.id = d.top.id /\ h.type = "subflow"
  BY FieldsOf DEF IsHeaded, Entries, Fields
<1> QED BY <1>1, <1>2 DEF Definitions

(* Creating or updating a definition: nothing but it is new. *)
LEMMA PutOneMore ==
  ASSUME NEW C, Entries(C), Rooted(C), NEW x, IsHeaded(x), PlainDoc(x),
         NEW D, D \subseteq GlobalDefinitions(C) \cup {x}, x \in D,
         \A d \in GlobalDefinitions(C) : d \in D \/ d.top.id = x.top.id
  PROVE LET next == PutGlobal(C, D, GlobalConfigs(C)) IN
        /\ Rooted(next) /\ Definitions(C) \subseteq Definitions(next)
        /\ \A e \in next :
             e \in C \/ e \in Owners(next) \/ \E n \in Members(x) \cup x.groups : e.id = n.id
<1> DEFINE next == PutGlobal(C, D, GlobalConfigs(C))
<1>1. ASSUME NEW e \in next
      PROVE \/ e \in C
            \/ e.type = "subflow" /\ e.z = "" /\ e.inst = ""
            \/ e.type \notin {"tab", "subflow"} /\ \E n \in Members(x) \cup x.groups : e.id = n.id
  <2>5. e \in PutBy(x) <=>
          \/ e = [x.top EXCEPT !.type = "subflow", !.inst = ""]
          \/ \E n \in Members(x) \cup x.groups : e = Own(n, x.top.id)
    BY DEF PutBy
  <2>1. CASE e = [x.top EXCEPT !.type = "subflow", !.inst = ""]
    <3>1. IsEntry(x.top) /\ x.top.z = ""
      BY FieldsOf DEF IsHeaded, Entries, PlainDoc
    <3> QED BY <2>1, <3>1, FieldsOf DEF Fields
  <2>2. CASE \E n \in Members(x) \cup x.groups : e = Own(n, x.top.id)
    <3>1. PICK n \in Members(x) \cup x.groups : e = Own(n, x.top.id)
      BY <2>2
    <3>2. IsEntry(n) /\ n.type \notin {"tab", "subflow"}
      BY FieldsOf DEF IsHeaded, Entries, PlainDoc, Plain
    <3>3. e.id = n.id /\ e.type = n.type
      BY <3>1, <3>2, OwnFields DEF Alike
    <3> QED BY <3>2, <3>3
  <2>3. ASSUME NEW d \in GlobalDefinitions(C), e \in PutBy(d)
        PROVE e \in C \/ (e.type = "subflow" /\ e.z = "" /\ e.inst = "")
    <3>1. PICK o \in C : o.type = "subflow" /\ d = Nest(C, o)
      BY DEF GlobalDefinitions
    <3> QED BY <2>3, <3>1, NestedBack
  <2>4. e \in C \/ \E d \in D : e \in PutBy(d)
    BY PutEntries
  <2> HIDE DEF next
  <2> QED BY <2>1, <2>2, <2>3, <2>4, <2>5
<1>2. ASSUME NEW c \in C, c.type = "subflow" PROVE c.id \in Definitions(next)
  <2>1. Nest(C, c) \in GlobalDefinitions(C)
    BY <1>2 DEF GlobalDefinitions
  <2>2. Nest(C, c).top = c
    BY FieldsOf DEF Nest, flowDoc, Parts
  <2>3. IsHeaded(Nest(C, c))
    BY <2>1, ReadDefinitions DEF SoundDefinition
  <2>4. CASE Nest(C, c) \in D
    BY <2>2, <2>3, <2>4, PutHeaders
  <2>5. CASE c.id = x.top.id
    BY <2>5, PutHeaders
  <2> QED BY <2>1, <2>2, <2>4, <2>5
<1> HIDE DEF next
<1>3. Definitions(C) \subseteq Definitions(next)
  BY <1>2 DEF Definitions
<1>4. Rooted(next)
  BY <1>1 DEF Rooted, Owners
<1>5. \A e \in next : e \in C \/ e \in Owners(next) \/ \E n \in Members(x) \cup x.groups : e.id = n.id
  BY <1>1 DEF Owners
<1> QED BY <1>3, <1>4, <1>5 DEF next

(* Deleting a definition that the scan found unused: nothing is new, no
   other definition goes, and what refers to it after all is a node whose id
   was there twice (subflows.go, subflowReferences). *)
LEMMA PutOneLess ==
  ASSUME NEW C, Entries(C), Rooted(C), NEW id, id # "",
         subflowReferences(C, GlobalDefinitions(C), id) = {}
  PROVE LET next == PutGlobal(C, Others(GlobalDefinitions(C), id), GlobalConfigs(C)) IN
        /\ Rooted(next)
        /\ Definitions(C) \subseteq Definitions(next) \cup {id}
        /\ \A e \in next : e \in C \/ e \in Owners(next)
        /\ \A e \in next : e.inst = id =>
             \E m \in C : m \notin Owners(C) /\ m.id = e.id /\ e.id # "" /\ m # e
<1> DEFINE old == GlobalDefinitions(C)
           D == Others(old, id)
           next == PutGlobal(C, D, GlobalConfigs(C))
<1>1. \A e \in C : e.inst = id => \E d \in old : d.top.id = id /\ e.id \in IdsOf(Members(d))
  <2> DEFINE self == UNION {IdsOf(Members(d)) : d \in {x \in old : x.top.id = id}}
             nested == UNION {{Reference(d.top.id, "subflow", n.id) :
                                 n \in {m \in Members(d) : memberIsInstance(m, id)}} : d \in D}
             flat == {Reference(e.z, OwnerKind(C, e.z), e.id) :
                        e \in {f \in C : memberIsInstance(f, id) /\ f.id \notin self}}
  <2>1. nested \cup {r \in flat : \A s \in nested : s.owner # r.owner \/ s.node # r.node} = {}
    BY DEF subflowReferences
  <2>2. flat = {}
    <3> HIDE DEF nested, flat
    <3> QED BY <2>1
  <2>3. ASSUME NEW e \in C, e.inst = id PROVE e.id \in self
    <3> HIDE DEF self
    <3>1. memberIsInstance(e, id)
      BY <2>3 DEF memberIsInstance
    <3> QED BY <2>2, <3>1
  <2> QED BY <2>3
<1>2. ASSUME NEW d \in old
      PROVE \E o \in C : o.type = "subflow" /\ d = Nest(C, o) /\ d.top = o
  <2>1. PICK o \in C : o.type = "subflow" /\ d = Nest(C, o)
    BY DEF GlobalDefinitions
  <2>2. Nest(C, o).top = o
    BY FieldsOf DEF Nest, flowDoc, Parts
  <2> QED BY <2>1, <2>2
<1>3. ASSUME NEW o \in C, NEW m \in Members(Nest(C, o))
      PROVE m \in C /\ m.z = o.id /\ o.id \notin TabIds(C) /\ m \notin Owners(C)
  <2> DEFINE mine == IF o.id \in TabIds(C) THEN {} ELSE MembersOf(C, o.id)
  <2>1. /\ Nest(C, o).nodes = {x \in mine : x.xy /\ x.type # "group"}
        /\ Nest(C, o).configs = {x \in mine : ~x.xy}
    BY FieldsOf DEF Nest, flowDoc, Parts
  <2>2. \A n \in mine : n \in C /\ n.z = o.id /\ o.id \notin TabIds(C) /\ n \notin Owners(C)
    BY DEF MembersOf, Owned
  <2> HIDE DEF mine
  <2> QED BY <1>3, <2>1, <2>2 DEF Members
<1> HIDE DEF old
<1>4. ASSUME NEW e \in next
      PROVE \/ e.type = "subflow" /\ e.z = "" /\ e.inst = ""
            \/ /\ e \in C
               /\ \/ e.type = "tab" \/ e.z \in TabIds(C) \/ e.z = ""
                  \/ e.z # id
  <2>1. ASSUME NEW d \in D, e \in PutBy(d)
        PROVE \/ e.type = "subflow" /\ e.z = "" /\ e.inst = ""
              \/ e \in C /\ e.z # id
    <3>1. d \in old /\ d.top.id # id
      BY DEF Others
    <3>2. PICK o \in C : o.type = "subflow" /\ d = Nest(C, o) /\ d.top = o
      BY <1>2, <3>1
    <3>3. e \in PutBy(Nest(C, o))
      BY <2>1, <3>2
    <3>4. \/ e.type = "subflow" /\ e.z = "" /\ e.inst = ""
          \/ e \in C /\ e.z = o.id /\ o.id \notin TabIds(C) /\ e \notin Owners(C)
      BY <3>2, <3>3, NestedBack, Zenon
    <3> QED BY <3>1, <3>2, <3>4
  <2>2. \/ e \in C /\ (e.type = "tab" \/ e.z \in TabIds(C))
        \/ e \in C /\ e.z = "" /\ e \notin Owners(C)
        \/ \E d \in D : e \in PutBy(d)
    BY PutEntries
  <2> HIDE DEF next, D
  <2> QED BY <2>1, <2>2
<1>5. ASSUME NEW c \in C, c.type = "subflow", c.id # id PROVE c.id \in Definitions(next)
  <2>1. Nest(C, c) \in GlobalDefinitions(C)
    BY <1>5 DEF GlobalDefinitions
  <2>2. Nest(C, c).top = c
    BY FieldsOf DEF Nest, flowDoc, Parts
  <2>3. IsHeaded(Nest(C, c))
    BY <2>1, ReadDefinitions DEF SoundDefinition
  <2>4. Nest(C, c) \in D
    BY <1>5, <2>1, <2>2 DEF Others, old
  <2> QED BY <2>2, <2>3, <2>4, PutHeaders
<1> HIDE DEF next, D
<1>6. ASSUME NEW e \in next, e.inst = id
      PROVE \E m \in C : m \notin Owners(C) /\ m.id = e.id /\ e.id # "" /\ m # e
  <2>1. e \in C /\ (e.type = "tab" \/ e.z \in TabIds(C) \/ e.z = "" \/ e.z # id)
    BY <1>4, <1>6
  <2>2. PICK d \in old : d.top.id = id /\ e.id \in IdsOf(Members(d))
    BY <1>1, <1>6, <2>1
  <2>3. PICK o \in C : o.type = "subflow" /\ d = Nest(C, o) /\ d.top = o
    BY <1>2
  <2>4. PICK m \in Members(d) : m.id = e.id /\ e.id # ""
    BY <2>2 DEF IdsOf
  <2>5. m \in C /\ m.z = id /\ id \notin TabIds(C) /\ m \notin Owners(C)
    BY <1>3, <2>2, <2>3
  <2>6. m.type # "tab"
    BY <2>5 DEF Owners
  <2> QED BY <2>1, <2>4, <2>5, <2>6
<1>7. Rooted(next)
  BY <1>4 DEF Rooted, Owners
<1>8. Definitions(C) \subseteq Definitions(next) \cup {id}
  BY <1>5 DEF Definitions
<1>9. \A e \in next : e \in C \/ e \in Owners(next)
  BY <1>4 DEF Owners
<1> QED BY <1>6, <1>7, <1>8, <1>9 DEF next, D, old

-----------------------------------------------------------------------------
(* Instances and their definitions: the invariant. *)

LEMMA ToolsInit == Ordinary => (Init => ToolsInv)
<1> SUFFICES ASSUME Ordinary, Init PROVE ToolsInv
  OBVIOUS
<1>1. config \in Starts /\ edits = 0
  BY DEF Init
<1>2. ConfigInv(config)
  BY <1>1 DEF Ordinary, ConfigInv, IdsAreApart, Resolved
<1>3. ASSUME NEW s \in Sessions PROVE CarriedInv(s)
  <2>1. call[s] \in Calls
    BY DEF Init
  <2>2. IsCall(call[s])
    BY <2>1, DocumentsAssumption
  <2>3. pc[s] = FirstStep(call[s]) \/ pc[s] = "refused"
    BY DEF Init
  <2>4. pc[s] \in {"read", "fetch", "check", "lookup", "send", "refused"}
    BY <2>2, <2>3, FirstStepCases
  <2>5. pc[s] = "read" => call[s].op \in EditOps
    BY <2>2, <2>3, FirstStepCases
  <2>6. PlainCall(call[s])
    BY <2>1 DEF Ordinary
  <2>7. HolderInv(s) /\ TabInv(s) /\ FetchedInv(s)
    BY <2>4 DEF HolderInv, TabInv, FetchedInv, RewriteInv
  <2>8. NewInstanceInv(s)
    BY <2>5 DEF NewInstanceInv, EditOps
  <2> QED BY <2>6, <2>7, <2>8 DEF CarriedInv
<1> QED BY <1>1, <1>2, <1>3 DEF ToolsInv

(* A session that has ended stays as it is. *)
LEMMA DoneStays ==
  ASSUME IInv, NEW s \in Sessions, Step(s), NEW t \in Sessions, pc[t] = "done"
  PROVE pc'[t] = "done" /\ call'[t] = call[t]
<1>1. pc[s] # "done"
  BY DEF Step, ReadTab, DeployTab, CheckDefinition, SendDocument, FetchDefinitions,
         ScanReferences, PutDefinitions, LookupTarget, VerifyType, FireInject
<1>2. t # s
  BY <1>1
<1> QED BY <1>2, OthersIdle DEF Idle

(* What a step leaves in the configuration may be explained by what was
   there, or by the call that made it. *)
LEMMA ConfigKeeps ==
  ASSUME IInv, NEW s \in Sessions, Step(s), ConfigInv(config), Rooted(config'),
         \/ \A e \in config' : \/ e \in config \/ e \in Owners(config')
                               \/ pc'[s] = "done" /\ Repeats(call'[s], e.id)
         \/ \A e, f \in config' \ Owners(config') : e.id = f.id /\ e.id # "" => e = f,
         \A e \in Missing(config', Definitions(config')) :
             \/ e \in Missing(config, Definitions(config))
             \/ \E t \in Sessions : pc[t] = "done" /\ Unchecked(call[t], e)
             \/ pc'[s] = "done" /\ Unchecked(call'[s], e)
  PROVE ConfigInv(config)'
<1>1. ASSUME NEW e \in config' \ Owners(config'), NEW f \in config' \ Owners(config'),
             e.id = f.id, e.id # "", e # f
      PROVE \E t \in Sessions : pc'[t] = "done" /\ Repeats(call'[t], e.id)
  <2>1. CASE e \in config /\ f \in config
    <3>1. e \in config \ Owners(config) /\ f \in config \ Owners(config)
      BY <2>1 DEF Owners
    <3>2. PICK t \in Sessions : pc[t] = "done" /\ Repeats(call[t], e.id)
      BY <1>1, <3>1 DEF ConfigInv, IdsAreApart
    <3> QED BY <3>2, DoneStays
  <2>2. CASE pc'[s] = "done" /\ Repeats(call'[s], e.id)
    BY <2>2
  <2>3. CASE pc'[s] = "done" /\ Repeats(call'[s], f.id)
    BY <1>1, <2>3
  <2> QED BY <1>1, <2>1, <2>2, <2>3
<1>2. ASSUME NEW e \in Missing(config', Definitions(config'))
      PROVE \E t \in Sessions : pc'[t] = "done" /\ Unchecked(call'[t], e)
  <2>1. CASE \E t \in Sessions : pc[t] = "done" /\ Unchecked(call[t], e)
    BY <2>1, DoneStays
  <2>2. CASE e \in Missing(config, Definitions(config))
    BY <2>1, <2>2 DEF ConfigInv, Resolved
  <2> QED BY <2>1, <2>2
<1>3. IdsAreApart(config)'
  BY <1>1 DEF IdsAreApart
<1>4. Resolved(config)'
  BY <1>2 DEF Resolved
<1> QED BY <1>3, <1>4 DEF ConfigInv

LEMMA SameConfigKeeps ==
  ASSUME IInv, NEW s \in Sessions, Step(s), ConfigInv(config), config' = config
  PROVE ConfigInv(config)'
<1>1. Rooted(config')
  BY DEF ConfigInv
<1> QED BY <1>1, ConfigKeeps

(* Tabs. *)
LEMMA TabWriteResolves ==
  ASSUME IInv, NEW s \in Sessions, TabWrite(s), ConfigInv(config), CarriedInv(s)
  PROVE ConfigInv(config)'
<1> DEFINE k == call[s]
           d == Submitted(s)
<1>1. Step(s) /\ call'[s] = k
  BY DEF TabWrite, Step, DeployTab, SendDocument
<1>2. IsDocument(d)
  BY TabWriteInstalls
<1>3. CASE config' = config
  BY <1>1, <1>3, SameConfigKeeps
<1>4. CASE config' \in deployFlowUpdate(config, k.flow, d) /\ pc'[s] = "done"
  <2>1. config' \in replaceFlowEntries(config, k.flow, d)
    BY <1>4 DEF deployFlowUpdate
  <2>2. /\ PlainSubmission(d)
        /\ \A n \in Members(d) : n.z # k.flow =>
             Brings(k, n.id) /\ k.op \in {"add_node", "update_node", "update_flow"}
        /\ \A n \in DefinitionMembers(d) : Brings(k, n.id) /\ k.op = "update_flow"
    <3>1. CASE DeployTab(s)
      <4>1. pc[s] = "deploy"
        BY <3>1 DEF DeployTab
      <4>2. k.op \in EditOps \cup {"instantiate_subflow"} /\ OneTab(doc[s], Allowed(s))
        BY <4>1 DEF IInv, SessionInv, CallInv, DocInv
      <4>3. d = doc[s] /\ d.subflows = {}
        BY <4>2 DEF Submitted, EditOps, OneTab
      <4>4. TabOf(k, d)
        BY <4>1, <4>3 DEF CarriedInv, TabInv
      <4>5. DefinitionMembers(d) = {}
        BY <4>3 DEF DefinitionMembers
      <4> HIDE DEF d
      <4> QED BY <4>3, <4>4, <4>5 DEF TabOf, PlainSubmission
    <3>2. CASE SendDocument(s) /\ k.op = "update_flow"
      <4>1. d = k.doc
        BY <3>2 DEF Submitted
      <4>2. PlainDoc(d) /\ \A sf \in d.subflows : PlainDoc(sf)
        BY <3>2, <4>1 DEF CarriedInv, PlainCall
      <4>3. \A n \in Members(d) \cup DefinitionMembers(d) : Brings(k, n.id)
        BY <3>2, <4>1 DEF Brings
      <4>4. PlainSubmission(d)
        BY <4>2 DEF PlainDoc, PlainSubmission, Plain
      <4> HIDE DEF d
      <4> QED BY <3>2, <4>3, <4>4
    <3> QED BY <3>1, <3>2 DEF TabWrite
  <2>3. Rooted(config')
    BY <1>2, <2>1, <2>2, RootedStays DEF ConfigInv
  <2>4. \A e, f \in config' : e.id = f.id => e = f
    BY <1>2, <2>1, NoIdTwice
  <2>5. ASSUME NEW e \in Missing(config', Definitions(config')),
               e \notin Missing(config, Definitions(config))
        PROVE Unchecked(k, e)
    <3>1. /\ e.z # k.flow
          /\ \/ \E n \in Members(d) : e.id = n.id /\ n.z # k.flow
             \/ \E n \in DefinitionMembers(d) : e.id = n.id
      <4>1. Rooted(config)
        BY DEF ConfigInv
      <4> HIDE DEF d, k
      <4> QED BY <1>2, <1>4, <2>2, <2>5, <4>1, DeployedInstances
    <3>2. Brings(k, e.id) /\ k.op \in {"add_node", "update_node", "update_flow"}
      BY <2>2, <3>1
    <3>3. k.op \notin ArrayOps
      BY <3>2 DEF ArrayOps
    <3> QED BY <3>1, <3>2, <3>3 DEF Unchecked
  <2> QED BY <1>1, <1>4, <2>3, <2>4, <2>5, ConfigKeeps
<1> QED BY <1>3, <1>4, TabWriteInstalls

(* Whole documents. *)
LEMMA SendResolves ==
  ASSUME IInv, NEW s \in Sessions, SendDocument(s), ConfigInv(config), CarriedInv(s)
  PROVE ConfigInv(config)'
<1> DEFINE k == call[s]
<1>1. /\ Step(s) /\ call'[s] = k /\ pc[s] = "send"
      /\ Entries(config) /\ DOMAIN pc = Sessions /\ SessionInv(s)
      /\ Rooted(config) /\ PlainCall(k)
  BY DEF SendDocument, Step, IInv, TypeOK, ConfigInv, CarriedInv
<1>2. IsCall(k) /\ Admitted(k) /\ k.op \in DocumentOps
  BY <1>1 DEF SessionInv, CallInv
<1>3. CASE config' = config
  BY <1>1, <1>3, SameConfigKeeps
<1>4. CASE k.op = "update_flow"
  BY <1>4, TabWriteResolves DEF TabWrite
<1>5. CASE k.op = "create_flow" /\ config' \in CreateFlow(k) /\ pc'[s] = "done"
  <2>1. IsDocument(k.doc) /\ PlainDoc(k.doc) /\ \A sf \in k.doc.subflows : PlainDoc(sf)
    BY <1>1, <1>2, <1>5 DEF IsCall, PlainCall
  <2>2. PlainSubmission(k.doc)
    BY <2>1 DEF PlainDoc, PlainSubmission, Plain
  <2>3. /\ config \subseteq config' /\ Rooted(config')
        /\ \A e \in config' : e \in config \/ e \in Owners(config') \/ Brings(k, e.id)
    <3> HIDE DEF k
    <3> QED BY <1>1, <1>5, <2>1, <2>2, CreatedFlow
  <2>4. \A id : Brings(k, id) => Repeats(k, id)
    BY <1>5 DEF Repeats, ArrayOps
  <2>5. ASSUME NEW e \in Missing(config', Definitions(config')),
               e \notin Missing(config, Definitions(config))
        PROVE Unchecked(k, e)
    <3>1. e \in config' /\ e.inst # "" /\ e.inst \notin Definitions(config')
      BY DEF Missing
    <3>2. Definitions(config) \subseteq Definitions(config')
      BY <2>3 DEF Definitions
    <3>3. e \notin config
      BY <2>5, <3>1, <3>2 DEF Missing
    <3>4. e \notin Owners(config')
      BY <2>3, <3>1 DEF Rooted
    <3> QED BY <1>5, <2>3, <3>1, <3>3, <3>4 DEF Unchecked, ArrayOps
  <2> QED BY <1>1, <1>5, <2>3, <2>4, <2>5, ConfigKeeps
<1>6. CASE k.op = "delete_flow" /\ config' \in DeleteFlow(k) /\ pc'[s] = "done"
  <2>1. config' \subseteq config /\ Definitions(config) \subseteq Definitions(config') \cup {k.flow}
    BY <1>1, <1>6, DeletedTabs
  <2>2. Rooted(config')
    BY <1>1, <2>1 DEF Rooted, Owners
  <2>3. ASSUME NEW e \in Missing(config', Definitions(config')),
               e \notin Missing(config, Definitions(config))
        PROVE Unchecked(k, e)
    BY <1>6, <2>1, <2>3 DEF Missing, Unchecked
  <2> QED BY <1>1, <1>6, <2>1, <2>2, <2>3, ConfigKeeps
<1>7. CASE k.op \in ArrayOps /\ config' \in {k.entries} /\ pc'[s] = "done"
  <2>1. Rooted(config') /\ CanInstall(k)
    BY <1>1, <1>2, <1>7 DEF PlainCall, Admitted
  <2>2. CASE k.force
    <3>1. \A e \in config' : Brings(k, e.id)
      BY <1>7 DEF Brings
    <3>2. \A e \in config' : Repeats(k, e.id) /\ Unchecked(k, e)
      BY <1>7, <2>2, <3>1 DEF Repeats, Unchecked, ArrayOps
    <3>3. Missing(config', Definitions(config')) \subseteq config'
      BY DEF Missing
    <3> QED BY <1>1, <1>7, <2>1, <3>2, <3>3, ConfigKeeps
  <2>3. CASE ~k.force
    <3>1. ValidateEffectiveConfig(config') = {}
      BY <1>7, <2>1, <2>3 DEF CanInstall
    <3>2. /\ Missing(config', Definitions(config')) = {}
          /\ \A e, f \in config' : e.id = f.id /\ e.id # "" => e = f
      BY <3>1, JudgedArray
    <3> QED BY <1>1, <2>1, <3>2, ConfigKeeps
  <2> QED BY <2>2, <2>3
<1> QED BY <1>1, <1>2, <1>3, <1>4, <1>5, <1>6, <1>7, SendCases, Installed

(* The definitions. *)
LEMMA RewrittenCases ==
  ASSUME NEW k, k.op \in SubflowOps, NEW old, NEW new \in Rewritten(k, old)
  PROVE \/ k.op = "create_subflow" /\ new \in CreateSubflow(old, k.doc)
        \/ k.op = "update_subflow" /\ new \in UpdateSubflow(old, k.id, k.doc)
        \/ k.op = "delete_subflow" /\ new \in DeleteSubflow(old, k.id)
<1>1. CASE k.op = "create_subflow"
  BY <1>1, Zenon DEF Rewritten
<1>2. CASE k.op = "update_subflow"
  BY <1>2, Zenon DEF Rewritten
<1>3. CASE k.op = "delete_subflow"
  BY <1>3, Zenon DEF Rewritten
<1> QED BY <1>1, <1>2, <1>3 DEF SubflowOps

LEMMA PutResolves ==
  ASSUME IInv, NEW s \in Sessions, PutDefinitions(s), ConfigInv(config), CarriedInv(s)
  PROVE ConfigInv(config)'
<1> DEFINE k == call[s]
           old == GlobalDefinitions(config)
           D == defs[s]
<1>1. /\ Step(s) /\ call'[s] = k /\ pc[s] = "put" /\ pc'[s] = "done"
      /\ Entries(config) /\ SessionInv(s)
      /\ Rooted(config) /\ PlainCall(k)
  BY DEF PutDefinitions, Finish, Step, IInv, TypeOK, ConfigInv, CarriedInv
<1>2. IsCall(k) /\ Admitted(k) /\ k.op \in SubflowOps
  BY <1>1 DEF SessionInv, CallInv
<1>3. /\ D \in Rewritten(k, old)
      /\ config' = PutGlobal(config, D, GlobalConfigs(config))
      /\ k.op = "delete_subflow" => subflowReferences(config, old, k.id) = {}
  BY <1>1 DEF CarriedInv, HolderInv, FetchedInv, RewriteInv, PutDefinitions
<1>4. CASE /\ k.op \in {"create_subflow", "update_subflow"}
           /\ k.doc \in D /\ D \subseteq old \cup {k.doc}
           /\ \A d \in old : d \in D \/ d.top.id = k.doc.top.id
  <2>1. IsHeaded(k.doc) /\ PlainDoc(k.doc)
    BY <1>1, <1>2, <1>4 DEF IsCall, IsDocument, PlainCall
  <2>2. /\ Rooted(config') /\ Definitions(config) \subseteq Definitions(config')
        /\ \A e \in config' : \/ e \in config \/ e \in Owners(config')
                              \/ \E n \in Members(k.doc) \cup k.doc.groups : e.id = n.id
    <3> DEFINE x == k.doc
    <3>1. /\ IsHeaded(x) /\ PlainDoc(x) /\ x \in D /\ D \subseteq GlobalDefinitions(config) \cup {x}
          /\ \A d \in GlobalDefinitions(config) : d \in D \/ d.top.id = x.top.id
          /\ config' = PutGlobal(config, D, GlobalConfigs(config))
      BY <1>3, <1>4, <2>1
    <3> HIDE DEF x, D
    <3>2. LET next == PutGlobal(config, D, GlobalConfigs(config)) IN
          /\ Rooted(next) /\ Definitions(config) \subseteq Definitions(next)
          /\ \A e \in next :
               e \in config \/ e \in Owners(next) \/ \E n \in Members(x) \cup x.groups : e.id = n.id
      BY <1>1, <3>1, PutOneMore
    <3> QED BY <3>1, <3>2 DEF x
  <2>3. \A e \in config' : e \in config \/ e \in Owners(config') \/ Brings(k, e.id)
    BY <1>4, <2>2 DEF Brings
  <2>4. \A id : Brings(k, id) => Repeats(k, id)
    BY <1>4 DEF Repeats, ArrayOps
  <2>5. ASSUME NEW e \in Missing(config', Definitions(config')),
               e \notin Missing(config, Definitions(config))
        PROVE Unchecked(k, e)
    <3>1. e \in config' /\ e.inst # "" /\ e.inst \notin Definitions(config')
      BY DEF Missing
    <3>2. e \notin config
      BY <2>2, <2>5, <3>1 DEF Missing
    <3>3. e \notin Owners(config')
      BY <2>2, <3>1 DEF Rooted
    <3> QED BY <1>4, <2>3, <3>1, <3>2, <3>3 DEF Unchecked, ArrayOps
  <2> QED BY <1>1, <2>2, <2>3, <2>4, <2>5, ConfigKeeps
<1>5. CASE k.op = "delete_subflow" /\ k.id # "" /\ D = Others(old, k.id)
  <2>1. /\ Rooted(config')
        /\ Definitions(config) \subseteq Definitions(config') \cup {k.id}
        /\ \A e \in config' : e \in config \/ e \in Owners(config')
        /\ \A e \in config' : e.inst = k.id =>
             \E m \in config : m \notin Owners(config) /\ m.id = e.id /\ e.id # "" /\ m # e
    <3> DEFINE id == k.id
    <3>1. /\ id # "" /\ subflowReferences(config, GlobalDefinitions(config), id) = {}
          /\ config' = PutGlobal(config, Others(GlobalDefinitions(config), id), GlobalConfigs(config))
      BY <1>3, <1>5
    <3> HIDE DEF id
    <3>2. LET next == PutGlobal(config, Others(GlobalDefinitions(config), id), GlobalConfigs(config)) IN
          /\ Rooted(next)
          /\ Definitions(config) \subseteq Definitions(next) \cup {id}
          /\ \A e \in next : e \in config \/ e \in Owners(next)
          /\ \A e \in next : e.inst = id =>
               \E m \in config : m \notin Owners(config) /\ m.id = e.id /\ e.id # "" /\ m # e
      BY <1>1, <3>1, PutOneLess
    <3> QED BY <3>1, <3>2 DEF id
  <2>2. ASSUME NEW e \in Missing(config', Definitions(config')),
               e \notin Missing(config, Definitions(config))
        PROVE \E t \in Sessions : pc[t] = "done" /\ Unchecked(call[t], e)
    <3>1. e \in config' /\ e.inst # "" /\ e.inst \notin Definitions(config')
      BY DEF Missing
    <3>2. e \notin Owners(config')
      BY <2>1, <3>1 DEF Rooted
    <3>3. e \in config
      BY <2>1, <3>1, <3>2
    <3>4. e.inst = k.id
      BY <2>1, <2>2, <3>1, <3>3 DEF Missing
    <3>5. PICK m \in config : m \notin Owners(config) /\ m.id = e.id /\ e.id # "" /\ m # e
      BY <2>1, <3>1, <3>4
    <3>6. e \notin Owners(config)
      BY <1>1, <3>1 DEF Rooted
    <3>7. PICK t \in Sessions : pc[t] = "done" /\ Repeats(call[t], e.id)
      BY <3>3, <3>5, <3>6 DEF ConfigInv, IdsAreApart
    <3>8. Unchecked(call[t], e)
      BY <3>7 DEF Repeats, Unchecked, ArrayOps
    <3> QED BY <3>7, <3>8
  <2> QED BY <1>1, <2>1, <2>2, ConfigKeeps
<1>6. \/ /\ k.op \in {"create_subflow", "update_subflow"}
         /\ k.doc \in D /\ D \subseteq old \cup {k.doc}
         /\ \A d \in old : d \in D \/ d.top.id = k.doc.top.id
      \/ k.op = "delete_subflow" /\ k.id # "" /\ D = Others(old, k.id)
  <2>1. \/ k.op = "create_subflow" /\ D \in CreateSubflow(old, k.doc)
        \/ k.op = "update_subflow" /\ D \in UpdateSubflow(old, k.id, k.doc)
        \/ k.op = "delete_subflow" /\ D \in DeleteSubflow(old, k.id)
    <3> HIDE DEF k, old, D
    <3> QED BY <1>2, <1>3, RewrittenCases
  <2>2. k.op = "update_subflow" => k.doc.top.id = k.id
    BY <1>2 DEF Admitted, SubflowGuard
  <2> HIDE DEF k, old, D
  <2> QED BY <2>1, <2>2 DEF CreateSubflow, UpdateSubflow, DeleteSubflow, Others
<1> QED BY <1>4, <1>5, <1>6

-----------------------------------------------------------------------------
(* Instances and their definitions: what the sessions carry. *)

(* A session that takes no step still holds what it read: while it holds the
   lock no other session writes. *)
LEMMA IdleCarries ==
  ASSUME NEW t \in Sessions, CarriedInv(t), Idle(t),
         pc[t] \in {"deploy", "scan", "put"} => mu' = mu /\ config' = config
  PROVE CarriedInv(t)'
<1> USE DEF Idle
<1>1. PlainCall(call[t])' /\ HolderInv(t)'
  BY DEF CarriedInv, HolderInv
<1>2. TabInv(t)' /\ NewInstanceInv(t)' /\ FetchedInv(t)'
  BY DEF CarriedInv, TabInv, NewInstanceInv, FetchedInv, RewriteInv
<1> QED BY <1>1, <1>2 DEF CarriedInv

(* A session that carries nothing to the runtime. *)
LEMMA LightCarries ==
  ASSUME NEW s \in Sessions, PlainCall(call'[s]),
         pc'[s] \notin {"deploy", "scan", "put", "read"}
  PROVE CarriedInv(s)'
<1>1. HolderInv(s)' /\ TabInv(s)'
  BY DEF HolderInv, TabInv
<1>2. NewInstanceInv(s)' /\ FetchedInv(s)'
  BY DEF NewInstanceInv, FetchedInv, RewriteInv
<1> QED BY <1>1, <1>2 DEF CarriedInv

(* The lock is free, or kept by a session that only reads. *)
LEMMA LockKeeps ==
  ASSUME IInv, NEW s \in Sessions, Step(s), CarriedInv(s), NEW t \in Sessions, t # s,
         CarriedInv(t), pc[t] \in {"deploy", "scan", "put"}
  PROVE mu' = mu /\ config' = config
<1>1. mu = t /\ mu # None /\ mu # s
  BY DocumentsAssumption DEF CarriedInv, HolderInv
<1>2. ~ReadTab(s) /\ ~SendDocument(s) /\ ~FetchDefinitions(s)
  BY <1>1 DEF ReadTab, SendDocument, FetchDefinitions
<1>3. ~DeployTab(s) /\ ~ScanReferences(s) /\ ~PutDefinitions(s)
  BY <1>1 DEF DeployTab, ScanReferences, PutDefinitions
<1>4. CheckDefinition(s) \/ LookupTarget(s) \/ VerifyType(s) \/ FireInject(s)
  BY <1>2, <1>3 DEF Step
<1> QED BY <1>4 DEF CheckDefinition, LookupTarget, VerifyType, FireInject

LEMMA ReadTabCarries ==
  ASSUME IInv, NEW s \in Sessions, ReadTab(s), CarriedInv(s), Rooted(config)
  PROVE CarriedInv(s)'
<1> DEFINE k == call[s]
<1>1. TypeOK /\ SessionInv(s) /\ pc[s] = "read" /\ call' = call /\ config' = config /\ PlainCall(k)
  BY DEF IInv, ReadTab, CarriedInv
<1>2. CASE Refuse(s)
  <2>1. pc'[s] = "refused"
    BY <1>1, <1>2 DEF Refuse, Finish, TypeOK
  <2> QED BY <1>1, <2>1, LightCarries
<1>3. ASSUME NEW d \in Results(k), doc' = [doc EXCEPT ![s] = d], mu' = s,
             seen' = [seen EXCEPT ![s] = config], pc' = [pc EXCEPT ![s] = "deploy"]
      PROVE CarriedInv(s)'
  <2>1. pc'[s] = "deploy" /\ doc'[s] = d /\ seen'[s] = config /\ call'[s] = k
    BY <1>1, <1>3 DEF TypeOK
  <2>2. IsCall(k) /\ k.op \in EditOps \cup {"instantiate_subflow"}
    BY <1>1 DEF SessionInv, CallInv
  <2>3. k.op = "instantiate_subflow" => k.node.z = k.flow /\ k.node.type = "instance"
    BY <1>1 DEF CarriedInv, NewInstanceInv
  <2>4. PICK f \in GetFlow(config, k.flow) : d \in Edited(k, f)
    BY DEF Results
  <2>5. TabOf(k, d)
    <3> HIDE DEF k
    <3> QED BY <1>1, <2>2, <2>3, <2>4, EditedTabOf DEF TypeOK
  <2>6. TabInv(s)'
    BY <2>1, <2>5 DEF TabInv, TabOf, Brings
  <2>7. HolderInv(s)' /\ NewInstanceInv(s)' /\ FetchedInv(s)'
    BY <1>1, <1>3, <2>1 DEF HolderInv, NewInstanceInv, FetchedInv, RewriteInv
  <2>8. PlainCall(call[s])'
    BY <1>1
  <2> QED BY <2>6, <2>7, <2>8 DEF CarriedInv
<1> QED BY <1>2, <1>3 DEF ReadTab

LEMMA CheckCarries ==
  ASSUME IInv, NEW s \in Sessions, CheckDefinition(s), CarriedInv(s)
  PROVE CarriedInv(s)'
<1> DEFINE k == call[s]
           e == InstanceOf(k.node, k.sub, k.flow, k.new)
           next == [k EXCEPT !.node = e]
<1>1. TypeOK /\ SessionInv(s) /\ pc[s] = "check" /\ PlainCall(k)
  BY DEF IInv, CheckDefinition, CarriedInv
<1>2. CASE Refuse(s) /\ UNCHANGED call
  <2>1. pc'[s] = "refused" /\ call' = call
    BY <1>1, <1>2 DEF Refuse, Finish, TypeOK
  <2> QED BY <1>1, <2>1, LightCarries
<1>3. CASE pc' = [pc EXCEPT ![s] = "read"] /\ call' = [call EXCEPT ![s].node = InstanceOf(@, k.sub, k.flow, k.new)]
  <2>1. pc'[s] = "read" /\ call'[s] = next
    BY <1>1, <1>3 DEF TypeOK
  <2>2. IsCall(k) /\ k.op = "instantiate_subflow"
    BY <1>1 DEF SessionInv, CallInv
  <2>3. {"op", "flow", "node", "sub", "new"} \subseteq DOMAIN k /\ IsEntry(k.node)
    BY <2>2, FieldsOf DEF IsCall, Entries
  <2>4. e.type = "instance" /\ e.z = k.flow
    BY <2>3 DEF InstanceOf, Fields
  <2> HIDE DEF e
  <2>5. next.op = k.op /\ next.flow = k.flow /\ next.node = e
    BY <2>3
  <2> HIDE DEF next
  <2>6. PlainCall(next)
    BY <2>2, <2>5 DEF PlainCall, ArrayOps
  <2>7. NewInstanceInv(s)'
    BY <2>1, <2>4, <2>5 DEF NewInstanceInv
  <2>8. HolderInv(s)' /\ TabInv(s)' /\ FetchedInv(s)'
    BY <2>1 DEF HolderInv, TabInv, FetchedInv, RewriteInv
  <2>9. PlainCall(call[s])'
    BY <2>1, <2>6
  <2> QED BY <2>7, <2>8, <2>9 DEF CarriedInv
<1> QED BY <1>2, <1>3 DEF CheckDefinition

LEMMA FetchCarries ==
  ASSUME IInv, NEW s \in Sessions, FetchDefinitions(s), CarriedInv(s)
  PROVE CarriedInv(s)'
<1> DEFINE k == call[s]
<1>1. TypeOK /\ pc[s] = "fetch" /\ call' = call /\ config' = config /\ PlainCall(k)
  BY DEF IInv, FetchDefinitions, CarriedInv
<1>2. CASE Refuse(s)
  <2>1. pc'[s] = "refused"
    BY <1>1, <1>2 DEF Refuse, Finish, TypeOK
  <2> QED BY <1>1, <2>1, LightCarries
<1>3. ASSUME NEW d \in Rewritten(k, GlobalDefinitions(config)), defs' = [defs EXCEPT ![s] = d],
             configs' = [configs EXCEPT ![s] = GlobalConfigs(config)], mu' = s,
             seen' = [seen EXCEPT ![s] = config],
             pc' = [pc EXCEPT ![s] = IF k.op = "delete_subflow" THEN "scan" ELSE "put"]
      PROVE CarriedInv(s)'
  <2>1. /\ pc'[s] = IF k.op = "delete_subflow" THEN "scan" ELSE "put"
        /\ defs'[s] = d /\ configs'[s] = GlobalConfigs(config)
        /\ seen'[s] = config /\ call'[s] = k
    BY <1>1, <1>3 DEF TypeOK
  <2>2. FetchedInv(s)'
    BY <1>3, <2>1 DEF FetchedInv, RewriteInv
  <2>3. HolderInv(s)' /\ TabInv(s)' /\ NewInstanceInv(s)'
    BY <1>1, <1>3, <2>1 DEF HolderInv, TabInv, NewInstanceInv
  <2>4. PlainCall(call[s])'
    BY <1>1
  <2> QED BY <2>2, <2>3, <2>4 DEF CarriedInv
<1> QED BY <1>2, <1>3 DEF FetchDefinitions

LEMMA ScanCarries ==
  ASSUME IInv, NEW s \in Sessions, ScanReferences(s), CarriedInv(s)
  PROVE CarriedInv(s)'
<1>1. /\ TypeOK /\ pc[s] = "scan" /\ mu = s /\ config' = config /\ PlainCall(call[s])
      /\ UNCHANGED <<call, defs, configs, seen>>
      /\ HolderInv(s) /\ FetchedInv(s)
  BY DEF IInv, ScanReferences, CarriedInv
<1>2. CASE Refuse(s)
  <2>1. pc'[s] = "refused"
    BY <1>1, <1>2 DEF Refuse, Finish, TypeOK
  <2> QED BY <1>1, <2>1, LightCarries
<1>3. CASE /\ subflowReferences(config, GlobalDefinitions(seen[s]), call[s].id) = {}
           /\ Finish(s, "put") /\ UNCHANGED mu
  <2>1. pc'[s] = "put"
    BY <1>1, <1>3 DEF Finish, TypeOK
  <2>2. seen[s] = config
    BY <1>1 DEF HolderInv
  <2>3. FetchedInv(s)'
    BY <1>1, <1>3, <2>1, <2>2 DEF FetchedInv, RewriteInv
  <2>4. HolderInv(s)' /\ TabInv(s)' /\ NewInstanceInv(s)'
    BY <1>1, <1>3, <2>1, <2>2 DEF HolderInv, TabInv, NewInstanceInv
  <2>5. PlainCall(call[s])'
    BY <1>1
  <2> QED BY <2>3, <2>4, <2>5 DEF CarriedInv
<1> QED BY <1>1, <1>2, <1>3 DEF ScanReferences

LEMMA OthersCarry ==
  ASSUME IInv, NEW s \in Sessions, CarriedInv(s),
         \/ DeployTab(s) \/ SendDocument(s) \/ PutDefinitions(s)
         \/ LookupTarget(s) \/ VerifyType(s) \/ FireInject(s)
  PROVE CarriedInv(s)'
<1>1. TypeOK
  BY DEF IInv
<1>2. call' = call /\ pc'[s] \in {"done", "refused", "fire", "verify"}
  <2>1. CASE DeployTab(s)
    BY <1>1, <2>1 DEF DeployTab, Install, Finish, Refuse, TypeOK
  <2>2. CASE SendDocument(s)
    <3>1. PICK next : Install(s, next)
      BY <2>2 DEF SendDocument
    <3>2. pc'[s] \in {"done", "refused"}
      BY <1>1, <3>1, Installed DEF TypeOK
    <3> QED BY <2>2, <3>2 DEF SendDocument
  <2>3. CASE PutDefinitions(s)
    BY <1>1, <2>3 DEF PutDefinitions, Finish, TypeOK
  <2>4. CASE LookupTarget(s)
    BY <1>1, <2>4 DEF LookupTarget, Refuse, Finish, TypeOK
  <2>5. CASE VerifyType(s) \/ FireInject(s)
    BY <1>1, <2>5 DEF VerifyType, FireInject, Refuse, Finish, TypeOK
  <2> QED BY <2>1, <2>2, <2>3, <2>4, <2>5
<1>3. PlainCall(call'[s])
  BY <1>2 DEF CarriedInv
<1> QED BY <1>2, <1>3, LightCarries

(* A tool's step, while only tools wrote. *)
LEMMA ConfigStep ==
  ASSUME IInv, NEW s \in Sessions, Step(s), ConfigInv(config), CarriedInv(s)
  PROVE ConfigInv(config)'
<1>1. CASE DeployTab(s)
  BY <1>1, TabWriteResolves DEF TabWrite
<1>2. CASE SendDocument(s)
  BY <1>2, SendResolves
<1>3. CASE PutDefinitions(s)
  BY <1>3, PutResolves
<1>4. CASE \/ ReadTab(s) \/ CheckDefinition(s) \/ FetchDefinitions(s) \/ ScanReferences(s)
           \/ LookupTarget(s) \/ VerifyType(s) \/ FireInject(s)
  <2>1. config' = config
    BY <1>4 DEF ReadTab, CheckDefinition, FetchDefinitions, ScanReferences,
                LookupTarget, VerifyType, FireInject
  <2> QED BY <2>1, SameConfigKeeps
<1> QED BY <1>1, <1>2, <1>3, <1>4 DEF Step

LEMMA ToolsStep == IInv /\ ToolsInv /\ [Next]_vars => ToolsInv'
<1> SUFFICES ASSUME IInv, ToolsInv, [Next]_vars PROVE ToolsInv'
  OBVIOUS
<1>1. edits \in Nat
  BY DEF ToolsInv
<1>2. CASE EditorDeploy
  <2>1. edits' = edits + 1
    BY <1>2 DEF EditorDeploy
  <2>2. edits' \in Nat /\ edits' # 0
    BY <1>1, <2>1
  <2> QED BY <2>2 DEF ToolsInv
<1>3. CASE UNCHANGED vars
  <2>1. \A t \in Sessions : CarriedInv(t) => CarriedInv(t)'
    BY <1>3, IdleCarries DEF vars, Idle
  <2>2. ConfigInv(config) => ConfigInv(config)'
    BY <1>3 DEF vars, ConfigInv, IdsAreApart, Resolved
  <2> QED BY <1>3, <2>1, <2>2 DEF vars, ToolsInv
<1>4. ASSUME NEW s \in Sessions, Step(s) PROVE ToolsInv'
  <2>1. edits' = edits
    BY <1>4 DEF Step, ReadTab, DeployTab, CheckDefinition, SendDocument, FetchDefinitions,
                ScanReferences, PutDefinitions, LookupTarget, VerifyType, FireInject
  <2>2. SUFFICES ASSUME edits = 0 PROVE ConfigInv(config)' /\ \A t \in Sessions : CarriedInv(t)'
    BY <1>1, <2>1 DEF ToolsInv
  <2>3. ConfigInv(config) /\ \A t \in Sessions : CarriedInv(t)
    BY <2>2 DEF ToolsInv
  <2>4. ConfigInv(config)'
    BY <1>4, <2>3, ConfigStep
  <2>5. CarriedInv(s)'
    BY <1>4, <2>3, ReadTabCarries, CheckCarries, FetchCarries, ScanCarries, OthersCarry
    DEF Step, ConfigInv
  <2>6. ASSUME NEW t \in Sessions, t # s PROVE CarriedInv(t)'
    <3>1. Idle(t)
      BY <1>4, <2>6, OthersIdle
    <3>2. pc[t] \in {"deploy", "scan", "put"} => mu' = mu /\ config' = config
      BY <1>4, <2>3, <2>6, LockKeeps
    <3> QED BY <2>3, <3>1, <3>2, IdleCarries
  <2> QED BY <2>4, <2>5, <2>6
<1> QED BY <1>2, <1>3, <1>4 DEF Next

(* While only tools write, a session holds the lock from its read to its
   write and carries what its tool made of it, owners stand nowhere, and two
   nodes share an id only after a write that does not look for it. *)
THEOREM ToolsInductive == Ordinary => (Spec => [](IInv /\ ToolsInv))
<1>1. Ordinary /\ Init => IInv /\ ToolsInv
  BY InitInv, ToolsInit
<1>2. IInv /\ ToolsInv /\ [Next]_vars => (IInv /\ ToolsInv)'
  BY InvStep, ToolsStep
<1> QED BY <1>1, <1>2, PTL DEF Spec

(* Deleting a definition and adding an instance of it, in any interleaving
   of any sessions, leaves no instance without its definition but one that
   was submitted where nobody looks (subflows.go:716-790,
   validate_deploy.go:186-206). *)
THEOREM InstancesKeepDefinitions == Ordinary => (Spec => []InstancesResolve)
<1>1. ToolsInv => InstancesResolve
  BY DEF ToolsInv, ConfigInv, InstancesResolve
<1> QED BY <1>1, ToolsInductive, PTL

-----------------------------------------------------------------------------
(* What the sessions carry is what their calls make of what they read. *)

LEMMA EditsInit == Init => EditsInv
<1> SUFFICES ASSUME Init, NEW s \in Sessions PROVE EditedInv(s) /\ RewriteInv(s)
  BY DEF EditsInv
<1>1. IsCall(call[s])
  BY DocumentsAssumption DEF Init
<1>2. pc[s] \in {"read", "fetch", "check", "lookup", "send", "refused"}
  BY <1>1, FirstStepCases DEF Init
<1> QED BY <1>2 DEF EditedInv, RewriteInv

LEMMA IdleEdits ==
  ASSUME NEW t \in Sessions, Idle(t), EditedInv(t), RewriteInv(t)
  PROVE EditedInv(t)' /\ RewriteInv(t)'
<1> USE DEF Idle
<1>1. EditedInv(t)'
  BY DEF EditedInv
<1>2. RewriteInv(t)'
  BY DEF RewriteInv
<1> QED BY <1>1, <1>2

LEMMA EditsOwnStep ==
  ASSUME IInv, NEW s \in Sessions, Step(s), EditedInv(s), RewriteInv(s)
  PROVE EditedInv(s)' /\ RewriteInv(s)'
<1>1. TypeOK
  BY DEF IInv
<1>2. ASSUME pc'[s] \notin {"deploy", "scan", "put"} PROVE EditedInv(s)' /\ RewriteInv(s)'
  BY <1>2 DEF EditedInv, RewriteInv
<1>3. CASE ReadTab(s)
  <2>1. CASE Refuse(s)
    BY <1>1, <1>2, <2>1 DEF Refuse, Finish, TypeOK
  <2>2. ASSUME NEW d \in Results(call[s]), doc' = [doc EXCEPT ![s] = d],
               seen' = [seen EXCEPT ![s] = config], pc' = [pc EXCEPT ![s] = "deploy"]
        PROVE EditedInv(s)' /\ RewriteInv(s)'
    <3>1. /\ pc'[s] = "deploy" /\ doc'[s] = d /\ seen'[s] = config
          /\ call'[s] = call[s]
      BY <1>1, <1>3, <2>2 DEF ReadTab, TypeOK
    <3>2. \E f \in GetFlow(config, call[s].flow) : d \in Edited(call[s], f)
      BY DEF Results
    <3> QED BY <3>1, <3>2 DEF EditedInv, RewriteInv
  <2> QED BY <1>3, <2>1, <2>2 DEF ReadTab
<1>4. CASE FetchDefinitions(s)
  <2>1. CASE Refuse(s)
    BY <1>1, <1>2, <2>1 DEF Refuse, Finish, TypeOK
  <2>2. ASSUME NEW d \in Rewritten(call[s], GlobalDefinitions(config)),
               defs' = [defs EXCEPT ![s] = d],
               configs' = [configs EXCEPT ![s] = GlobalConfigs(config)],
               seen' = [seen EXCEPT ![s] = config],
               pc' = [pc EXCEPT ![s] = IF call[s].op = "delete_subflow" THEN "scan" ELSE "put"]
        PROVE EditedInv(s)' /\ RewriteInv(s)'
    <3>1. /\ pc'[s] \in {"scan", "put"} /\ defs'[s] = d /\ seen'[s] = config
          /\ configs'[s] = GlobalConfigs(config) /\ call'[s] = call[s]
      BY <1>1, <1>4, <2>2 DEF FetchDefinitions, TypeOK
    <3> QED BY <3>1 DEF EditedInv, RewriteInv
  <2> QED BY <1>4, <2>1, <2>2 DEF FetchDefinitions
<1>5. CASE ScanReferences(s)
  <2>1. /\ pc[s] = "scan" /\ UNCHANGED <<call, doc, defs, configs, seen>>
        /\ pc'[s] \in {"put", "refused"}
    BY <1>1, <1>5 DEF ScanReferences, Finish, Refuse, TypeOK
  <2> QED BY <2>1 DEF EditedInv, RewriteInv
<1>6. CASE DeployTab(s) \/ SendDocument(s)
  <2>1. PICK next : Install(s, next)
    BY <1>6 DEF DeployTab, SendDocument
  <2> QED BY <1>1, <1>2, <2>1, Installed DEF TypeOK
<1>7. CASE PutDefinitions(s) \/ CheckDefinition(s)
  BY <1>1, <1>2, <1>7 DEF PutDefinitions, CheckDefinition, Finish, Refuse, TypeOK
<1>8. CASE LookupTarget(s) \/ VerifyType(s) \/ FireInject(s)
  BY <1>1, <1>2, <1>8 DEF LookupTarget, VerifyType, FireInject, Finish, Refuse, TypeOK
<1> QED BY <1>3, <1>4, <1>5, <1>6, <1>7, <1>8 DEF Step

LEMMA EditsStep == IInv /\ EditsInv /\ [Next]_vars => EditsInv'
<1> SUFFICES ASSUME IInv, EditsInv, [Next]_vars, NEW t \in Sessions
             PROVE EditedInv(t)' /\ RewriteInv(t)'
  BY DEF EditsInv
<1>1. EditedInv(t) /\ RewriteInv(t)
  BY DEF EditsInv
<1>2. CASE EditorDeploy \/ UNCHANGED vars
  <2>1. Idle(t)
    BY <1>2 DEF EditorDeploy, vars, Idle
  <2> QED BY <1>1, <2>1, IdleEdits
<1>3. ASSUME NEW s \in Sessions, Step(s) PROVE EditedInv(t)' /\ RewriteInv(t)'
  <2>1. CASE t = s
    BY <1>1, <1>3, <2>1, EditsOwnStep
  <2>2. CASE t # s
    <3>1. Idle(t)
      BY <1>3, <2>2, OthersIdle
    <3> QED BY <1>1, <3>1, IdleEdits
  <2> QED BY <2>1, <2>2
<1> QED BY <1>2, <1>3 DEF Next

(* What a session is about to write is what its call makes of the tab or of
   the definitions it read (edit.go:77-108, subflows.go:237). *)
THEOREM EditsInductive == Spec => [](IInv /\ EditsInv)
<1>1. Init => IInv /\ EditsInv
  BY InitInv, EditsInit
<1>2. IInv /\ EditsInv /\ [Next]_vars => (IInv /\ EditsInv)'
  BY InvStep, EditsStep
<1> QED BY <1>1, <1>2, PTL DEF Spec

-----------------------------------------------------------------------------
(* The definitions, written exactly. *)

(* A definition of a well-formed configuration has its own id, and every
   entry is a tab's, a definition's, or a global configuration node. *)
LEMMA WellFormedEntries ==
  ASSUME NEW C, WellFormed(C)
  PROVE /\ \A o \in C : o.type = "subflow" => o.id \notin TabIds(C) /\ o.id # ""
        /\ \A e \in C : e.z # "" =>
             \/ e.z \in TabIds(C)
             \/ \E o \in C : o.type = "subflow" /\ o.id = e.z
        /\ \A e \in C : e \in Owners(C) => e.z = "" /\ e.inst = ""
        /\ \A e \in C : e.z = "" => e \in Owners(C) \/ e \in GlobalConfigs(C)
<1>1. \A e, f \in C : e.id = f.id => e = f
  BY DEF WellFormed
<1>2. \A e \in C : e.id # ""
  BY DEF WellFormed
<1>3. \A e \in C : e \in Owners(C) => e.z = "" /\ e.inst = ""
  BY DEF WellFormed, Rooted
<1>4. ASSUME NEW o \in C, o.type = "subflow" PROVE o.id \notin TabIds(C)
  BY <1>1, <1>4 DEF TabIds, IdsOf
<1>5. ASSUME NEW e \in C, e.z # ""
      PROVE \/ e.z \in TabIds(C)
            \/ \E o \in C : o.type = "subflow" /\ o.id = e.z
  <2>1. ~ownerlessNodeIssue(C, e)
    BY <1>3, <1>5 DEF WellFormed
  <2>2. PICK o \in Owners(C) : o.id = e.z
    BY <1>5, <2>1 DEF ownerlessNodeIssue
  <2> QED BY <1>5, <2>2 DEF Owners, TabIds, IdsOf
<1>6. ASSUME NEW e \in C, e.z = "" PROVE e \in Owners(C) \/ e \in GlobalConfigs(C)
  BY <1>6 DEF WellFormed, ownerlessNodeIssue, GlobalConfigs, Owned
<1> QED BY <1>2, <1>3, <1>4, <1>5, <1>6

(* What a definition is put back as: itself, with what it owns. *)
LEMMA NestExact ==
  ASSUME NEW C, Entries(C), WellFormed(C), NEW o \in C, o.type = "subflow"
  PROVE Nest(C, o).top = o /\ PutBy(Nest(C, o)) = {o} \cup Owned(C, o.id)
<1> DEFINE d == Nest(C, o)
<1>1. o.id \notin TabIds(C) /\ o.id # "" /\ o.inst = "" /\ IsEntry(o)
  BY WellFormedEntries DEF Owners, Entries
<1>2. MembersOf(C, o.id) = Owned(C, o.id)
  <2>1. \A e \in C : e \in Owners(C) => e.z = ""
    BY WellFormedEntries
  <2> QED BY <1>1, <2>1 DEF MembersOf, Owned
<1>3. /\ d.top = o
      /\ d.nodes = {e \in Owned(C, o.id) : e.xy /\ e.type # "group"}
      /\ d.configs = {e \in Owned(C, o.id) : ~e.xy}
      /\ d.groups = {e \in Owned(C, o.id) : e.xy /\ e.type = "group"}
  BY <1>1, <1>2, FieldsOf DEF Nest, flowDoc, Parts
<1> HIDE DEF d
<1>4. Members(d) \cup d.groups = Owned(C, o.id)
  BY <1>3 DEF Members
<1>5. \A n \in Owned(C, o.id) : Own(n, o.id) = n
  BY <1>1 DEF Owned, Own
<1>6. [o EXCEPT !.type = "subflow", !.inst = ""] = o
  <2>1. o = [f \in Fields |-> o[f]]
    BY <1>1, FieldsOf DEF IsEntry
  <2> QED BY <1>1, <2>1 DEF Fields
<1>7. {Own(n, o.id) : n \in Owned(C, o.id)} = Owned(C, o.id)
  BY <1>5
<1> QED BY <1>3, <1>4, <1>6, <1>7 DEF PutBy, d

(* Of the definitions that were read, those of K are put back, with x: what
   the others held goes, and nothing else. *)
LEMMA PutExact ==
  ASSUME NEW C, Entries(C), WellFormed(C), NEW id, NEW X
  PROVE \A e : e \in PutGlobal(C, Others(GlobalDefinitions(C), id) \cup X, GlobalConfigs(C)) <=>
               \/ e \in C /\ (id \notin {e.id, e.z} \/ id \notin Definitions(C))
               \/ \E x \in X : e \in PutBy(x)
<1> DEFINE D == Others(GlobalDefinitions(C), id)
           G == GlobalConfigs(C)
           left == {e \in C : e.type = "tab" \/ e.z \in TabIds(C)}
           kept == {e \in C : id \notin {e.id, e.z} \/ id \notin Definitions(C)}
           more == UNION {PutBy(x) : x \in X}
           back == UNION {PutBy(d) : d \in D}
<1>1. PutGlobal(C, D \cup X, G) = left \cup back \cup more \cup G
  <2> HIDE DEF G
  <2>1. PutGlobal(C, D \cup X, G) = left \cup (UNION {PutBy(x) : x \in D \cup X}) \cup G
    BY DEF PutGlobal, PutBy
  <2>2. UNION {PutBy(x) : x \in D \cup X} = back \cup more
    OBVIOUS
  <2> HIDE DEF left, back, more
  <2> QED BY <2>1, <2>2
<1>2. \A e : e \in back <=>
        \E o \in C : /\ o.type = "subflow" /\ o.id # id
                     /\ e = o \/ e \in Owned(C, o.id)
  <2>1. \A d : d \in D <=> \E o \in C : o.type = "subflow" /\ o.id # id /\ d = Nest(C, o)
    <3>1. \A o \in C : o.type = "subflow" => Nest(C, o).top = o
      BY NestExact
    <3> QED BY <3>1 DEF Others, GlobalDefinitions
  <2>2. \A o \in C : o.type = "subflow" => PutBy(Nest(C, o)) = {o} \cup Owned(C, o.id)
    BY NestExact
  <2> HIDE DEF D
  <2>3. \A e : e \in back <=> \E d \in D : e \in PutBy(d)
    OBVIOUS
  <2> HIDE DEF back
  <2> SUFFICES ASSUME NEW e
               PROVE e \in back <=>
                       \E o \in C : o.type = "subflow" /\ o.id # id /\ (e = o \/ e \in Owned(C, o.id))
    OBVIOUS
  <2>4. ASSUME NEW d \in D, e \in PutBy(d)
        PROVE \E o \in C : o.type = "subflow" /\ o.id # id /\ (e = o \/ e \in Owned(C, o.id))
    <3>1. PICK o \in C : o.type = "subflow" /\ o.id # id /\ d = Nest(C, o)
      BY <2>1
    <3>2. e \in {o} \cup Owned(C, o.id)
      BY <2>2, <2>4, <3>1
    <3> QED BY <3>1, <3>2
  <2>5. ASSUME NEW o \in C, o.type = "subflow", o.id # id, e = o \/ e \in Owned(C, o.id)
        PROVE \E d \in D : e \in PutBy(d)
    <3>1. Nest(C, o) \in D
      BY <2>1, <2>5
    <3>2. e \in PutBy(Nest(C, o))
      BY <2>2, <2>5
    <3> QED BY <3>1, <3>2
  <2> QED BY <2>3, <2>4, <2>5
<1> HIDE DEF D, back, more
<1>3. \A e \in C : e \in kept <=> e \in left \cup back \cup G
  <2>9. "" \notin Definitions(C)
    BY DEF WellFormed, Definitions
  <2> SUFFICES ASSUME NEW e \in C PROVE e \in kept <=> e \in left \cup back \cup G
    OBVIOUS
  <2>1. \A f \in C : e.id = f.id => e = f
    BY DEF WellFormed
  <2>2. e.id # ""
    BY DEF WellFormed
  <2>3. CASE e.type = "tab"
    <3>1. e.z = ""
      BY <2>3, WellFormedEntries DEF Owners
    <3>2. e.id = id => id \notin Definitions(C)
      BY <2>1, <2>3 DEF Definitions
    <3> QED BY <2>3, <2>9, <3>1, <3>2
  <2>4. CASE e.type = "subflow"
    <3>1. e.z = "" /\ e \notin G /\ e.z \notin TabIds(C)
      BY <2>4, WellFormedEntries DEF Owners, G, GlobalConfigs, TabIds, IdsOf
    <3>2. e \in back <=> e.id # id
      <4>1. \A o \in C : o.type = "subflow" => o.id # ""
        BY DEF WellFormed
      <4> QED BY <2>1, <2>4, <3>1, <4>1, <1>2 DEF Owned
    <3>3. e.id = id => id \in Definitions(C)
      BY <2>4 DEF Definitions
    <3> QED BY <2>4, <2>9, <3>1, <3>2, <3>3
  <2>5. CASE e.type \notin {"tab", "subflow"} /\ e.z = ""
    <3>1. e \in G
      BY <2>5, WellFormedEntries DEF Owners
    <3>2. e.id = id => id \notin Definitions(C)
      BY <2>1, <2>5 DEF Definitions
    <3> QED BY <2>5, <2>9, <3>1, <3>2
  <2>6. CASE e.type \notin {"tab", "subflow"} /\ e.z # ""
    <3>1. e \notin G
      BY <2>6 DEF G, GlobalConfigs, Owned
    <3>2. e \in back <=> \E o \in C : o.type = "subflow" /\ o.id # id /\ e.z = o.id
      BY <2>6, <1>2 DEF Owned
    <3>3. e.z \in TabIds(C) \/ \E o \in C : o.type = "subflow" /\ o.id = e.z
      BY <2>6, WellFormedEntries
    <3>4. e.z \in TabIds(C) => e.z \notin Definitions(C)
      <4>1. \A o \in C : o.type = "subflow" => o.id \notin TabIds(C)
        BY WellFormedEntries
      <4> QED BY <4>1 DEF Definitions
    <3>5. e.id = id => id \notin Definitions(C)
      BY <2>1, <2>6 DEF Definitions
    <3>6. \A z : z \in Definitions(C) <=> \E o \in C : o.type = "subflow" /\ o.id = z
      BY DEF Definitions
    <3> HIDE DEF G
    <3> QED BY <2>6, <3>1, <3>2, <3>3, <3>4, <3>5, <3>6
  <2> QED BY <2>3, <2>4, <2>5, <2>6
<1>4. left \subseteq C /\ back \subseteq C /\ G \subseteq C
  BY <1>2 DEF GlobalConfigs, Owned
<1> HIDE DEF left, G
<1>5. left \cup back \cup G = kept
  BY <1>3, <1>4
<1> HIDE DEF kept
<1>6. PutGlobal(C, D \cup X, G) = kept \cup more
  BY <1>1, <1>5
<1>7. \A e : e \in kept \cup more <=>
               \/ e \in C /\ (id \notin {e.id, e.z} \/ id \notin Definitions(C))
               \/ \E x \in X : e \in PutBy(x)
  BY DEF kept, more
<1> QED BY <1>6, <1>7 DEF G, D

(* What is intended of each call on a definition. *)
LEMMA SubflowIntended ==
  ASSUME NEW k, NEW C
  PROVE /\ k.op = "create_subflow" => Intended(k, C) = C \cup FlatDefinition(k.doc, k.id)
        /\ k.op = "update_subflow" =>
             Intended(k, C) = {e \in C : k.id \notin {e.id, e.z}} \cup FlatDefinition(k.doc, k.id)
        /\ k.op = "delete_subflow" => Intended(k, C) = {e \in C : k.id \notin {e.id, e.z}}
<1>1. CASE k.op = "create_subflow"
  <2>1. Intended(k, C) = C \cup FlatDefinition(k.doc, k.id)
    BY <1>1, Zenon DEF Intended
  <2> QED BY <1>1, <2>1
<1>2. CASE k.op = "update_subflow"
  <2>1. Intended(k, C) = {e \in C : k.id \notin {e.id, e.z}} \cup FlatDefinition(k.doc, k.id)
    BY <1>2, Zenon DEF Intended
  <2> QED BY <1>2, <2>1
<1>3. CASE k.op = "delete_subflow"
  <2>1. Intended(k, C) = {e \in C : k.id \notin {e.id, e.z}}
    BY <1>3, Zenon DEF Intended
  <2> QED BY <1>3, <2>1
<1> QED BY <1>1, <1>2, <1>3

(* A definition is put as its header, its members and its groups. *)
LEMMA PutBySubmitted ==
  ASSUME NEW x, IsHeaded(x)
  PROVE PutBy(x) = FlatDefinition(x, x.top.id)
<1>1. IsEntry(x.top) /\ DOMAIN x.top = Fields
  BY FieldsOf DEF IsHeaded, Entries
<1>2. [x.top EXCEPT !.type = "subflow", !.inst = ""]
        = [x.top EXCEPT !.id = x.top.id, !.type = "subflow", !.inst = ""]
  BY <1>1 DEF Fields
<1> QED BY <1>2 DEF PutBy, FlatDefinition, Flat

(* A write of the definitions that nothing overtook. *)
LEMMA PutIsExact ==
  ASSUME IInv, EditsInv, NEW s \in Sessions, PutDefinitions(s),
         config = seen[s], WellFormed(config)
  PROVE config' = Intended(call[s], config)
<1> DEFINE k == call[s]
           old == GlobalDefinitions(config)
           D == defs[s]
<1>1. TypeOK /\ SessionInv(s) /\ pc[s] = "put"
  BY DEF IInv, PutDefinitions
<1>2. IsCall(k) /\ Admitted(k) /\ k.op \in SubflowOps /\ Entries(config)
  BY <1>1 DEF SessionInv, CallInv, TypeOK
<1>3. D \in Rewritten(k, old) /\ config' = PutGlobal(config, D, GlobalConfigs(config))
  BY <1>1 DEF EditsInv, RewriteInv, PutDefinitions
<1>4. \/ k.op = "create_subflow" /\ D \in CreateSubflow(old, k.doc)
      \/ k.op = "update_subflow" /\ D \in UpdateSubflow(old, k.id, k.doc)
      \/ k.op = "delete_subflow" /\ D \in DeleteSubflow(old, k.id)
  <2> HIDE DEF k, old, D
  <2> QED BY <1>2, <1>3, RewrittenCases
<1>5. Holds(old, k.id) <=> k.id \in Definitions(config)
  <2>1. \A o \in config : o.type = "subflow" => Nest(config, o).top = o
    BY <1>2, NestExact
  <2> HIDE DEF k
  <2> QED BY <2>1 DEF Holds, GlobalDefinitions, Definitions
<1>6. ASSUME NEW X, D = Others(old, k.id) \cup X
      PROVE \A e : e \in config' <=>
               \/ e \in config /\ (k.id \notin {e.id, e.z} \/ k.id \notin Definitions(config))
               \/ \E x \in X : e \in PutBy(x)
  <2> HIDE DEF k, D
  <2>1. \A e : e \in PutGlobal(config, Others(GlobalDefinitions(config), k.id) \cup X,
                              GlobalConfigs(config)) <=>
               \/ e \in config /\ (k.id \notin {e.id, e.z} \/ k.id \notin Definitions(config))
               \/ \E x \in X : e \in PutBy(x)
    BY <1>2, <1>6, PutExact
  <2> QED BY <1>3, <1>6, <2>1
<1> HIDE DEF D, old, k
<1>7. CASE k.op = "delete_subflow"
  <2>1. k.id # "" /\ k.id \in Definitions(config) /\ D = Others(old, k.id) \cup {}
    BY <1>4, <1>5, <1>7 DEF DeleteSubflow
  <2>2. config' = {e \in config : k.id \notin {e.id, e.z}}
    <3>1. \A e : e \in config' <=>
            e \in config /\ (k.id \notin {e.id, e.z} \/ k.id \notin Definitions(config))
      <4> DEFINE X == {}
      <4>1. D = Others(old, k.id) \cup X
        BY <2>1
      <4>2. \A x : x \notin X
        OBVIOUS
      <4> HIDE DEF X
      <4> QED BY <1>6, <4>1, <4>2
    <3> QED BY <2>1, <3>1
  <2> QED BY <1>7, <2>2, SubflowIntended DEF k
<1>8. CASE k.op \in {"create_subflow", "update_subflow"}
  <2>1. IsHeaded(k.doc) /\ k.doc.top.id = k.id /\ k.id # ""
    BY <1>2, <1>8 DEF IsCall, IsDocument, Admitted, SubflowGuard, prepareSubflowForWrite
  <2>2. PutBy(k.doc) = FlatDefinition(k.doc, k.id)
    BY <2>1, PutBySubmitted
  <2>3. D = Others(old, k.id) \cup {k.doc}
    BY <1>4, <1>8, <2>1 DEF CreateSubflow, UpdateSubflow, Holds, Others
  <2>4. \A e : e \in config' <=>
               \/ e \in config /\ (k.id \notin {e.id, e.z} \/ k.id \notin Definitions(config))
               \/ e \in FlatDefinition(k.doc, k.id)
    <3> DEFINE X == {k.doc}
    <3>1. D = Others(old, k.id) \cup X /\ \A x : x \in X <=> x = k.doc
      BY <2>3
    <3> HIDE DEF X
    <3> QED BY <1>6, <2>2, <3>1
  <2>5. CASE k.op = "create_subflow"
    <3>1. k.id \notin Definitions(config)
      BY <1>4, <1>5, <2>1, <2>5 DEF CreateSubflow
    <3>2. config' = config \cup FlatDefinition(k.doc, k.id)
      BY <2>4, <3>1
    <3> QED BY <2>5, <3>2, SubflowIntended DEF k
  <2>6. CASE k.op = "update_subflow"
    <3>1. k.id \in Definitions(config)
      BY <1>4, <1>5, <2>6 DEF UpdateSubflow
    <3>2. config' = {e \in config : k.id \notin {e.id, e.z}} \cup FlatDefinition(k.doc, k.id)
      BY <2>4, <3>1
    <3> QED BY <2>6, <3>2, SubflowIntended DEF k
  <2> QED BY <1>8, <2>5, <2>6
<1> QED BY <1>4, <1>7, <1>8



-----------------------------------------------------------------------------
(* The edits of a tab, written exactly. *)

(* Two entries of the same fields are one. *)
LEMMA SameFields ==
  ASSUME NEW a, NEW b, IsEntry(a), IsEntry(b), \A f \in Fields : a[f] = b[f]
  PROVE a = b
<1>1. a = [f \in Fields |-> a[f]] /\ b = [f \in Fields |-> b[f]]
  BY FieldsOf DEF IsEntry
<1> QED BY <1>1

(* n is m as GET /flow/:id shows it: its credentials may be left out. *)
Shows(n, m) == n = m \/ n = [m EXCEPT !.cred = ""]

(* A member of a document has the fields of the entry it shows, but for the
   credentials, which may be hidden. *)
LEMMA ShowsFields ==
  ASSUME NEW m, IsEntry(m), NEW n, Shows(n, m)
  PROVE /\ IsEntry(n) /\ \A f \in Fields : f # "cred" => n[f] = m[f]
        /\ n.cred \in {"", m.cred}
<1>1. DOMAIN m = Fields
  BY FieldsOf
<1>2. IsEntry([m EXCEPT !.cred = ""])
  BY EntryExcept
<1>3. CASE n = m
  BY <1>3 DEF Fields
<1>4. CASE n = [m EXCEPT !.cred = ""]
  BY <1>1, <1>2, <1>4 DEF Fields
<1> QED BY <1>3, <1>4 DEF Shows

(* A tab that was read shows its header, and each node and configuration node
   of it once. *)
LEMMA ReadExact ==
  ASSUME NEW C, Entries(C), WellFormed(C), NEW t, NEW d \in GetFlow(C, t)
  PROVE /\ t \in TabIds(C) /\ d.top \in C /\ d.top.type = "tab" /\ d.top.id = t
        /\ d.nodes \cap d.configs = {}
        /\ \A n \in Members(d) : \E m \in Owned(C, t) : Shows(n, m)
        /\ \A m \in Owned(C, t) : \E n \in Members(d) : Shows(n, m)
        /\ \A n, o \in Members(d) : n.id = o.id => n = o
<1> DEFINE flow == synthesizeFlowFromFlat(C, t)
           top == CHOOSE e \in C : e.type = "tab" /\ e.id = t
           mine == {e \in Owned(C, t) : e.type # "subflow"}
<1>1. t \in TabIds(C) /\ d \in {RuntimeFlow(C, t), flow}
  BY DEF GetFlow
<1>2. top \in C /\ top.type = "tab" /\ top.id = t
  <2>1. \E e \in C : e.type = "tab" /\ e.id = t
    BY <1>1 DEF TabIds, IdsOf
  <2> QED BY <2>1
<1>3. mine = Owned(C, t)
  <2>1. \A e \in C : e \in Owners(C) => e.z = ""
    BY WellFormedEntries
  <2>2. t # ""
    BY <1>1 DEF TabIds, IdsOf
  <2> QED BY <2>1, <2>2 DEF Owned, Owners
<1> HIDE DEF top
<1>4. /\ flow.top = top
      /\ flow.nodes = {e \in mine : e.xy}
      /\ flow.configs = {e \in mine : ~e.xy}
      /\ DOMAIN flow = Parts
  BY FieldsOf DEF synthesizeFlowFromFlat, Parts, flowDoc, top
<1>5. RuntimeFlow(C, t) = [flow EXCEPT !.nodes = Hidden(@), !.configs = Hidden(@)]
  BY DEF RuntimeFlow
<1> HIDE DEF flow, mine
<1>6. \A m \in Owned(C, t) : m \in C /\ IsEntry(m)
  BY DEF Owned, Entries
<1>7. \A m, o \in Owned(C, t) : m.id = o.id => m = o
  BY <1>6 DEF WellFormed
<1>8. Members(flow) = Owned(C, t) /\ flow.nodes \cap flow.configs = {}
  BY <1>3, <1>4 DEF Members
<1>9. CASE d = flow
  <2>1. d.top = top /\ Members(d) = Owned(C, t) /\ d.nodes \cap d.configs = {}
    BY <1>4, <1>8, <1>9
  <2>2. \A m \in Owned(C, t) : Shows(m, m)
    BY DEF Shows
  <2> QED BY <1>1, <1>2, <1>7, <2>1, <2>2
<1>10. CASE d = RuntimeFlow(C, t)
  <2>1. d.top = top /\ d.nodes = Hidden(flow.nodes) /\ d.configs = Hidden(flow.configs)
    BY <1>4, <1>5, <1>10 DEF Parts
  <2>2. \A n : n \in Members(d) <=> \E m \in Owned(C, t) : n = [m EXCEPT !.cred = ""]
    BY <1>8, <2>1 DEF Members, Hidden
  <2>3. \A m \in Owned(C, t) : /\ [m EXCEPT !.cred = ""].id = m.id
                               /\ [m EXCEPT !.cred = ""].xy = m.xy
    BY <1>6, FieldsOf DEF Fields
  <2>4. d.nodes \cap d.configs = {}
    <3>1. \A n \in d.nodes : n.xy
      BY <1>3, <1>4, <2>1, <2>3 DEF Hidden
    <3>2. \A n \in d.configs : ~n.xy
      BY <1>3, <1>4, <2>1, <2>3 DEF Hidden
    <3> QED BY <3>1, <3>2
  <2>5. \A n, o \in Members(d) : n.id = o.id => n = o
    <3> SUFFICES ASSUME NEW n \in Members(d), NEW o \in Members(d), n.id = o.id PROVE n = o
      OBVIOUS
    <3>1. PICK m \in Owned(C, t) : n = [m EXCEPT !.cred = ""]
      BY <2>2
    <3>2. PICK l \in Owned(C, t) : o = [l EXCEPT !.cred = ""]
      BY <2>2
    <3>3. m.id = l.id
      BY <2>3, <3>1, <3>2
    <3> QED BY <1>7, <3>1, <3>2, <3>3
  <2> QED BY <1>1, <1>2, <2>1, <2>2, <2>4, <2>5 DEF Shows
<1> QED BY <1>1, <1>9, <1>10

(* What the submitted document e makes of the tab t of C: F of the entries
   that are kept, K, and the new ones, X. *)
Reshapes(C, t, e, K, F, X) ==
  /\ K \subseteq C
  /\ \A c \in C : c.id # t /\ c.z # t => c \in K /\ F[c] = c
  /\ \A c \in C : c.id = t => c \in K /\ F[c] = overlayFlowEntry(c, Header(e, t, "tab"))
  /\ \A c \in K : c.z = t =>
       \E n \in Members(e) : n.id = c.id /\ overlayFlowEntry(c, Own(n, t)) = F[c]
  /\ \A n \in Members(e) :
       \/ \E c \in K : c.id = n.id /\ overlayFlowEntry(c, Own(n, t)) = F[c]
       \/ Own(n, t) \in X
  /\ \A x \in X : x.id \notin IdsOf(C) /\ \E n \in Members(e) : x = Own(n, t)

(* The replacement of a tab's entries does no more than that. *)
LEMMA ReplacedExact ==
  ASSUME NEW C, WellFormed(C), NEW t, t \in TabIds(C),
         NEW e, IsHeaded(e), e.subflows = {}, NEW next \in replaceFlowEntries(C, t, e),
         NEW K, NEW F, NEW X, Reshapes(C, t, e, K, F, X)
  PROVE \A x : x \in next <=> x \in X \/ \E c \in K : x = F[c]
<1>tab. PICK T \in C : T.id = t
  BY DEF TabIds, IdsOf
<1>given. /\ K \subseteq C
          /\ \A c \in C : c.id # t /\ c.z # t => c \in K /\ F[c] = c
          /\ T \in K /\ F[T] = overlayFlowEntry(T, Header(e, t, "tab"))
          /\ \A c \in K : c.z = t =>
               \E n \in Members(e) : n.id = c.id /\ overlayFlowEntry(c, Own(n, t)) = F[c]
          /\ \A n \in Members(e) :
               \/ \E c \in K : c.id = n.id /\ overlayFlowEntry(c, Own(n, t)) = F[c]
               \/ Own(n, t) \in X
          /\ \A x \in X : x.id \notin IdsOf(C) /\ \E n \in Members(e) : x = Own(n, t)
  BY <1>tab DEF Reshapes
<1> USE <1>tab, <1>given
<1> DEFINE new == flattenFlowUpdate(e, t)
           owners == flattenOwners(e, t)
           h == Header(e, t, "tab")
<1>1. /\ next = {overlayFlowEntry(p[1], p[2]) : p \in {q \in C \X new : q[1].id = q[2].id}}
               \cup {c \in C : c.id \notin IdsOf(new) /\ c.z \notin owners}
               \cup {r \in new : r.id \notin IdsOf(C)}
      /\ validateReplacementOwners(C, new, owners) /\ indexFlowEntries(new)
  BY DEF replaceFlowEntries
<1>2. owners = {t}
  BY DEF flattenOwners
<1>3. \A r : r \in new <=> r = h \/ \E n \in Members(e) : r = Own(n, t)
  <2>1. new = Flat(e, t, "tab")
    BY DEF flattenFlowUpdate
  <2> HIDE DEF new
  <2> QED BY <2>1, FlatEntries
<1>4. h.id = t
  BY HeaderFields
<1>5. \A n \in Members(e) : Own(n, t).id = n.id
  BY OwnFields DEF IsHeaded, Entries, Alike
<1>6. \A b, c \in C : b.id = c.id => b = c
  BY DEF WellFormed
<1>7. (\A c \in C : c.id \in IdsOf(C)) /\ \A r \in new : r.id \in IdsOf(new)
  BY <1>1 DEF WellFormed, indexFlowEntries, IdsOf
<1> HIDE DEF new, owners, h
<1>8. ASSUME NEW x, x \in X \/ \E c \in K : x = F[c] PROVE x \in next
  <2>1. ASSUME NEW c \in C, NEW r \in new, c.id = r.id PROVE overlayFlowEntry(c, r) \in next
    <3>1. <<c, r>> \in {q \in C \X new : q[1].id = q[2].id}
      BY <2>1
    <3>2. overlayFlowEntry(<<c, r>>[1], <<c, r>>[2]) \in next
      BY <1>1, <3>1
    <3> QED BY <3>2
  <2>2. CASE x \in X
    <3>1. x \in new /\ x.id \notin IdsOf(C)
      BY <1>3, <2>2
    <3> QED BY <1>1, <3>1
  <2>3. ASSUME NEW c \in K, x = F[c], c.z = t PROVE x \in next
    <3>1. PICK n \in Members(e) : n.id = c.id /\ overlayFlowEntry(c, Own(n, t)) = F[c]
      BY <2>3
    <3>2. Own(n, t) \in new /\ Own(n, t).id = c.id
      BY <1>3, <1>5, <3>1
    <3> QED BY <2>1, <2>3, <3>1, <3>2
  <2>4. CASE x = F[T]
    BY <1>3, <1>4, <2>1, <2>4 DEF h
  <2>5. ASSUME NEW c \in K, x = F[c], c.z # t, c # T PROVE x \in next
    <3>1. x = c /\ c \in C
      BY <1>6, <2>5
    <3>2. ASSUME NEW r \in new, r.id = c.id PROVE FALSE
      <4>1. c.z = t \/ c.id = t
        BY <1>1, <1>2, <3>2 DEF validateReplacementOwners
      <4> QED BY <1>6, <2>5, <4>1
    <3>3. c.id \notin IdsOf(new)
      BY <3>2 DEF IdsOf
    <3> QED BY <1>1, <1>2, <2>5, <3>1, <3>3
  <2> QED BY <1>8, <2>2, <2>3, <2>4, <2>5
<1>9. ASSUME NEW x \in next PROVE x \in X \/ \E c \in K : x = F[c]
  <2>1. ASSUME NEW c \in C, NEW r \in new, c.id = r.id, x = overlayFlowEntry(c, r)
        PROVE x \in X \/ \E b \in K : x = F[b]
    <3>1. CASE r = h
      <4>1. c = T
        BY <1>4, <1>6, <2>1, <3>1
      <4> QED BY <2>1, <3>1, <4>1 DEF h
    <3>2. ASSUME NEW n \in Members(e), r = Own(n, t) PROVE \E b \in K : x = F[b]
      <4>1. n.id = c.id /\ c.id \in IdsOf(C)
        BY <1>5, <1>7, <2>1, <3>2
      <4>2. r \notin X
        BY <2>1, <4>1
      <4>3. PICK b \in K : b.id = n.id /\ overlayFlowEntry(b, Own(n, t)) = F[b]
        BY <3>2, <4>2
      <4>4. b = c
        BY <1>6, <4>1, <4>3
      <4> QED BY <2>1, <3>2, <4>3, <4>4
    <3> QED BY <1>3, <3>1, <3>2
  <2>2. CASE x \in {overlayFlowEntry(p[1], p[2]) : p \in {q \in C \X new : q[1].id = q[2].id}}
    <3>1. PICK p \in C \X new : p[1].id = p[2].id /\ x = overlayFlowEntry(p[1], p[2])
      BY <2>2
    <3>2. p[1] \in C /\ p[2] \in new
      OBVIOUS
    <3> QED BY <2>1, <3>1, <3>2
  <2>3. CASE x \in C /\ x.id \notin IdsOf(new) /\ x.z \notin owners
    <3>1. x # T
      <4>1. h \in new /\ h.id = T.id
        BY <1>3, <1>4
      <4> QED BY <1>7, <2>3, <4>1
    <3> QED BY <1>2, <1>6, <2>3, <3>1
  <2>4. CASE x \in new /\ x.id \notin IdsOf(C)
    <3>1. x # h
      BY <1>4, <1>7, <2>4
    <3>2. PICK n \in Members(e) : x = Own(n, t)
      BY <1>3, <2>4, <3>1
    <3>3. \A c \in K : c.id # n.id
      BY <1>5, <1>7, <2>4, <3>2
    <3> QED BY <3>2, <3>3
  <2> QED BY <1>1, <2>2, <2>3, <2>4
<1> QED BY <1>8, <1>9

(* The overlay of a node restores its credentials. *)
LEMMA OverlayNode ==
  ASSUME NEW m, m.type # "tab", NEW p, IsEntry(p), NEW q, IsEntry(q),
         \A f \in Fields : f # "cred" => p[f] = q[f],
         q.cred = IF p.cred = "" THEN m.cred ELSE p.cred
  PROVE overlayFlowEntry(m, p) = q
<1> DEFINE x == overlayFlowEntry(m, p)
<1>1. x = IF p.cred = "" THEN [p EXCEPT !.cred = m.cred] ELSE p
  BY DEF overlayFlowEntry
<1>2. IsEntry(x)
  <2>1. IsEntry([p EXCEPT !.cred = m.cred])
    BY EntryExcept
  <2> QED BY <1>1, <2>1
<1>3. DOMAIN p = Fields
  BY FieldsOf
<1>4. ASSUME NEW f \in Fields PROVE x[f] = q[f]
  <2>1. CASE f = "cred"
    BY <1>1, <1>3, <2>1
  <2>2. CASE f # "cred"
    BY <1>1, <1>3, <2>2
  <2> QED BY <2>1, <2>2
<1> HIDE DEF x
<1>5. x = q
  BY <1>2, <1>4, SameFields
<1> QED BY <1>5 DEF x

(* The owner a member left out is put back, and nothing else is changed. *)
LEMMA OwnExact ==
  ASSUME NEW n, IsEntry(n), NEW o
  PROVE /\ IsEntry(Own(n, o)) /\ \A f \in Fields : f # "z" => Own(n, o)[f] = n[f]
        /\ Own(n, o).z = IF n.z = "" THEN o ELSE n.z
<1>1. DOMAIN n = Fields
  BY FieldsOf
<1>2. IsEntry([n EXCEPT !.z = o])
  BY EntryExcept
<1> QED BY <1>1, <1>2 DEF Own, Fields

(* Who stands in a tab of a well-formed configuration. *)
LEMMA OwnedExact ==
  ASSUME NEW C, Entries(C), WellFormed(C), NEW t, t \in TabIds(C), NEW m \in Owned(C, t)
  PROVE /\ m \in C /\ m.z = t /\ IsEntry(m) /\ m.type \notin {"tab", "subflow"} /\ m.id # t
        /\ \A o : Own(m, o) = m
        /\ \A c \in C : c.id = m.id => c = m
<1>1. m \in C /\ m.z = t /\ IsEntry(m) /\ t # ""
  BY DEF Owned, TabIds, IdsOf, Entries
<1>2. m.type \notin {"tab", "subflow"}
  BY <1>1 DEF WellFormed, Rooted, Owners
<1>3. \A c \in C : c.id = m.id => c = m
  BY <1>1 DEF WellFormed
<1>4. m.id # t
  BY <1>2, <1>3 DEF TabIds, IdsOf
<1> QED BY <1>1, <1>2, <1>3, <1>4 DEF Own

(* A member that was not touched is replaced by itself. *)
LEMMA ShownExact ==
  ASSUME NEW C, Entries(C), WellFormed(C), NEW t, t \in TabIds(C), NEW m \in Owned(C, t),
         NEW n, Shows(n, m)
  PROVE n.id = m.id /\ overlayFlowEntry(m, Own(n, t)) = m
<1>1. IsEntry(m) /\ m.type \notin {"tab", "subflow"} /\ \A o : Own(m, o) = m
  BY OwnedExact
<1>2. IsEntry(n) /\ (\A f \in Fields : f # "cred" => n[f] = m[f]) /\ n.cred \in {"", m.cred}
  BY <1>1, ShowsFields
<1>3. n.id = m.id /\ n.z = m.z /\ m.z # ""
  BY <1>2 DEF Fields, Owned, TabIds, IdsOf
<1>4. Own(n, t) = n
  BY <1>3 DEF Own
<1>5. overlayFlowEntry(m, n) = m
  BY <1>1, <1>2, OverlayNode
<1> QED BY <1>3, <1>4, <1>5

(* So is the header. *)
LEMMA HeaderExact ==
  ASSUME NEW e, IsEntry(e.top), e.top.type = "tab", e.top.inst = ""
  PROVE Header(e, e.top.id, "tab") = e.top
<1> DEFINE h == Header(e, e.top.id, "tab")
<1>1. DOMAIN e.top = Fields
  BY FieldsOf
<1>2. h = [[[e.top EXCEPT !.id = e.top.id] EXCEPT !.type = "tab"] EXCEPT !.inst = ""]
  BY DEF Header
<1>3. IsEntry(h)
  <2>1. IsEntry([e.top EXCEPT !.id = e.top.id])
    BY EntryExcept
  <2>2. IsEntry([[e.top EXCEPT !.id = e.top.id] EXCEPT !.type = "tab"])
    BY <2>1, EntryExcept
  <2> QED BY <1>2, <2>2, EntryExcept
<1>4. \A f \in Fields : h[f] = e.top[f]
  BY <1>1, <1>2 DEF Fields
<1> HIDE DEF h
<1>5. h = e.top
  BY <1>3, <1>4, SameFields
<1> QED BY <1>5 DEF h

(* The overlay of a tab keeps what the header leaves out. *)
LEMMA OverlayTab ==
  ASSUME NEW T, T.type = "tab", NEW h, IsEntry(h), h.tag = T.tag, h.cred = T.cred,
         h.off = T.off \/ h.off # ""
  PROVE overlayFlowEntry(T, h) = h
<1> DEFINE x == overlayFlowEntry(T, h)
<1>1. DOMAIN h = Fields
  BY FieldsOf
<1>2. x = [[[h EXCEPT !.tag = IF h.tag = "" THEN T.tag ELSE h.tag]
             EXCEPT !.off = IF h.off = "" THEN T.off ELSE h.off]
             EXCEPT !.cred = IF h.cred = "" THEN T.cred ELSE h.cred]
  BY <1>1 DEF overlayFlowEntry, Fields
<1>3. IsEntry(x)
  <2>1. \A v : IsEntry([h EXCEPT !.tag = v])
    BY EntryExcept
  <2>2. \A v, w : IsEntry([[h EXCEPT !.tag = v] EXCEPT !.off = w])
    BY <2>1, EntryExcept
  <2>3. \A v, w, u : IsEntry([[[h EXCEPT !.tag = v] EXCEPT !.off = w] EXCEPT !.cred = u])
    BY <2>2, EntryExcept
  <2>4. IsEntry([[[h EXCEPT !.tag = IF h.tag = "" THEN T.tag ELSE h.tag]
                    EXCEPT !.off = IF h.off = "" THEN T.off ELSE h.off]
                    EXCEPT !.cred = IF h.cred = "" THEN T.cred ELSE h.cred])
    BY <2>3, Zenon
  <2> HIDE DEF x
  <2> QED BY <1>2, <2>4, Zenon
<1>4. \A f \in Fields : x[f] = h[f]
  BY <1>1, <1>2 DEF Fields
<1> HIDE DEF x
<1>5. x = h
  BY <1>3, <1>4, SameFields
<1> QED BY <1>5 DEF x

(* T is the tab t of C. *)
TabEntry(C, t, T) ==
  T \in C /\ T.id = t /\ T.type = "tab" /\ T.z = "" /\ T.inst = "" /\ IsEntry(T)

(* The header of a tab that was read is the entry of the tab. *)
LEMMA TopExact ==
  ASSUME NEW C, Entries(C), WellFormed(C), NEW t, NEW d \in GetFlow(C, t)
  PROVE TabEntry(C, t, d.top)
<1>1. d.top \in C /\ d.top.id = t /\ d.top.type = "tab"
  BY ReadExact
<1> QED BY <1>1 DEF Entries, WellFormed, Rooted, Owners, TabEntry

(* An edit that leaves the header alone leaves the entry of the tab alone. *)
LEMMA TopStays ==
  ASSUME NEW C, Entries(C), WellFormed(C), NEW t, NEW d \in GetFlow(C, t),
         NEW e, e.top = d.top
  PROVE overlayFlowEntry(d.top, Header(e, t, "tab")) = d.top
<1>1. /\ d.top.id = t /\ d.top.type = "tab" /\ d.top.inst = "" /\ IsEntry(d.top)
  <2>1. TabEntry(C, t, d.top)
    BY TopExact
  <2> QED BY <2>1 DEF TabEntry
<1>2. overlayFlowEntry(d.top, d.top) = d.top
  BY <1>1, OverlayTab
<1>3. Header(e, t, "tab") = d.top
  BY <1>1, HeaderExact
<1> QED BY <1>2, <1>3

(* One member of a document is replaced by another. *)
LEMMA SwappedExactly ==
  ASSUME NEW d, IsHeaded(d), NEW n \in Members(d), NEW p
  PROVE /\ Swap(d, n, p).top = d.top
        /\ Members(Swap(d, n, p)) = (Members(d) \ {n}) \cup {p}
<1> DEFINE In(ns) == IF n \in ns THEN (ns \ {n}) \cup {p} ELSE ns
           e == Swap(d, n, p)
<1>1. e.top = d.top /\ e.nodes = In(d.nodes) /\ e.configs = In(d.configs)
  BY FieldsOf DEF Swap, IsHeaded, Parts
<1> HIDE DEF e
<1>2. Members(e) = (Members(d) \ {n}) \cup {p}
  BY <1>1 DEF Members
<1> QED BY <1>1, <1>2 DEF e

(* One member in the place of another: p for n, which shows m; q is what the
   overlay makes of it. *)
LEMMA TouchedExact ==
  ASSUME NEW C, Entries(C), WellFormed(C), NEW t, NEW d \in GetFlow(C, t), IsHeaded(d),
         NEW n \in Members(d), NEW m \in Owned(C, t), Shows(n, m),
         NEW p, p.id = n.id, NEW q, overlayFlowEntry(m, Own(p, t)) = q,
         NEW e, e = Swap(d, n, p), IsHeaded(e), e.subflows = {},
         NEW next \in replaceFlowEntries(C, t, e)
  PROVE \A x : x \in next <=> x = q \/ (x \in C /\ x # m)
<1> DEFINE T == d.top
           F == [c \in C |-> IF c = m THEN q ELSE c]
<1>1. e.top = T /\ Members(e) = (Members(d) \ {n}) \cup {p}
  BY SwappedExactly
<1>2. T \in C /\ T.id = t /\ overlayFlowEntry(T, Header(e, t, "tab")) = T
  <2>1. TabEntry(C, t, d.top)
    BY TopExact
  <2>2. overlayFlowEntry(d.top, Header(e, t, "tab")) = d.top
    BY <1>1, TopStays
  <2> QED BY <2>1, <2>2 DEF TabEntry
<1>3. t \in TabIds(C)
  BY ReadExact
<1>4. m \in C /\ m.z = t /\ m.id # t /\ m.id = n.id
  <2>1. m \in C /\ m.z = t /\ m.id # t
    BY <1>3, OwnedExact
  <2>2. m.id = n.id
    BY <1>3, ShownExact
  <2> QED BY <2>1, <2>2
<1>5. (\A o \in Members(d) : \E c \in Owned(C, t) : Shows(o, c))
      /\ (\A c \in Owned(C, t) : \E o \in Members(d) : Shows(o, c))
      /\ (\A o, r \in Members(d) : o.id = r.id => o = r)
  BY ReadExact
<1>6. \A c \in Owned(C, t) : \A o : Shows(o, c) => o.id = c.id /\ overlayFlowEntry(c, Own(o, t)) = c
  BY <1>3, ShownExact
<1>7. \A b, c \in C : b.id = c.id => b = c
  BY DEF WellFormed
<1> HIDE DEF T
<1>8. \A c \in C : c.id # t /\ c.z # t => c \in C /\ F[c] = c
  BY <1>4
<1>9. \A c \in C : c.id = t => c \in C /\ F[c] = overlayFlowEntry(c, Header(e, t, "tab"))
  BY <1>2, <1>4, <1>7
<1>10. ASSUME NEW c \in C, c.z = t
       PROVE \E o \in Members(e) : o.id = c.id /\ overlayFlowEntry(c, Own(o, t)) = F[c]
  <2>1. CASE c = m
    BY <1>1, <1>4, <2>1
  <2>2. CASE c # m
    <3>1. c \in Owned(C, t)
      BY <1>10 DEF Owned
    <3>2. PICK o \in Members(d) : Shows(o, c)
      BY <1>5, <3>1
    <3>3. o.id = c.id /\ overlayFlowEntry(c, Own(o, t)) = c
      BY <1>6, <3>1, <3>2
    <3>4. o # n
      BY <1>4, <1>7, <2>2, <3>3
    <3> QED BY <1>1, <2>2, <3>2, <3>3, <3>4
  <2> QED BY <2>1, <2>2
<1>11. ASSUME NEW o \in Members(e)
       PROVE \E c \in C : c.id = o.id /\ overlayFlowEntry(c, Own(o, t)) = F[c]
  <2>1. CASE o = p
    BY <1>4, <2>1
  <2>2. CASE o \in Members(d) /\ o # n
    <3>1. PICK c \in Owned(C, t) : Shows(o, c)
      BY <1>5, <2>2
    <3>2. o.id = c.id /\ overlayFlowEntry(c, Own(o, t)) = c /\ c \in C
      BY <1>6, <3>1 DEF Owned
    <3>3. c # m
      BY <1>4, <1>5, <2>2, <3>2
    <3> QED BY <3>2, <3>3
  <2> QED BY <1>1, <2>1, <2>2
<1> HIDE DEF F
<1>12. Reshapes(C, t, e, C, F, {})
  BY <1>8, <1>9, <1>10, <1>11 DEF Reshapes
<1>13. \A x : x \in next <=> x \in {} \/ \E c \in C : x = F[c]
  BY <1>3, <1>12, ReplacedExact
<1>14. \A x : (\E c \in C : x = F[c]) <=> x = q \/ (x \in C /\ x # m)
  BY <1>4 DEF F
<1> QED BY <1>13, <1>14

(* What a tab shows and what stands in it are the same. *)
Mirrors(C, t, d) ==
  /\ \A n \in Members(d) : \E m \in Owned(C, t) : Shows(n, m)
  /\ \A m \in Owned(C, t) : \E n \in Members(d) : Shows(n, m)
  /\ \A n, o \in Members(d) : n.id = o.id => n = o
  /\ \A m \in Owned(C, t) : \A n : Shows(n, m) =>
       n.id = m.id /\ overlayFlowEntry(m, Own(n, t)) = m

LEMMA ReadMirrors ==
  ASSUME NEW C, Entries(C), WellFormed(C), NEW t, NEW d \in GetFlow(C, t)
  PROVE t \in TabIds(C) /\ Mirrors(C, t, d)
<1>1. /\ t \in TabIds(C)
      /\ \A n \in Members(d) : \E m \in Owned(C, t) : Shows(n, m)
      /\ \A m \in Owned(C, t) : \E n \in Members(d) : Shows(n, m)
      /\ \A n, o \in Members(d) : n.id = o.id => n = o
  BY ReadExact
<1>2. \A m \in Owned(C, t) : \A n : Shows(n, m) =>
        n.id = m.id /\ overlayFlowEntry(m, Own(n, t)) = m
  BY <1>1, ShownExact
<1> QED BY <1>1, <1>2 DEF Mirrors

(* add_node and instantiate_subflow add an entry. *)
LEMMA AddExact ==
  ASSUME NEW C, Entries(C), WellFormed(C), NEW t, NEW d \in GetFlow(C, t), IsHeaded(d),
         NEW node, IsEntry(node), NEW e \in AddNodeToFlow(d, node),
         IsHeaded(e), e.subflows = {}, NEW next \in replaceFlowEntries(C, t, e)
  PROVE \A x : x \in next <=> x \in C \/ x = Own(node, t)
<1> DEFINE own == Own(node, t)
           F == [c \in C |-> c]
<1>1. e = [d EXCEPT !.nodes = @ \cup {node}] /\ ~exists(d, node.id) /\ node.id # ""
  BY DEF AddNodeToFlow
<1>2. e.top = d.top /\ Members(e) = Members(d) \cup {node}
  BY <1>1, FieldsOf DEF IsHeaded, Parts, Members
<1>3. t \in TabIds(C) /\ Mirrors(C, t, d) /\ TabEntry(C, t, d.top)
  BY ReadMirrors, TopExact
<1>4. overlayFlowEntry(d.top, Header(e, t, "tab")) = d.top
  BY <1>2, TopStays
<1>5. IsEntry(own) /\ own.id = node.id /\ own.z # ""
  <2>1. /\ IsEntry(own) /\ \A f \in Fields : f # "z" => own[f] = node[f]
        /\ own.z = IF node.z = "" THEN t ELSE node.z
    BY OwnExact
  <2>2. t # ""
    BY <1>3 DEF TabIds, IdsOf
  <2> QED BY <2>1, <2>2 DEF Fields
<1>6. own.id \notin IdsOf(C)
  <2> SUFFICES ASSUME NEW c \in C, c.id = own.id PROVE FALSE
    BY DEF IdsOf
  <2>1. /\ validateReplacementOwners(C, flattenFlowUpdate(e, t), flattenOwners(e, t))
        /\ indexFlowEntries(flattenFlowUpdate(e, t))
    BY DEF replaceFlowEntries
  <2>2. own \in flattenFlowUpdate(e, t) /\ Header(e, t, "tab") \in flattenFlowUpdate(e, t)
    <3>1. own \in Flat(e, t, "tab") /\ Header(e, t, "tab") \in Flat(e, t, "tab")
      BY <1>2, FlatEntries
    <3> QED BY <3>1 DEF flattenFlowUpdate
  <2>3. flattenOwners(e, t) = {t}
    BY DEF flattenOwners
  <2>4. c.z = t \/ c.id = t
    BY <2>1, <2>2, <2>3 DEF validateReplacementOwners
  <2>5. CASE c.z = t
    <3>1. PICK n \in Members(d) : Shows(n, c)
      BY <1>3, <2>5 DEF Mirrors, Owned
    <3>2. n.id = node.id
      BY <1>3, <1>5, <2>5, <3>1 DEF Mirrors, Owned
    <3> QED BY <1>1, <3>2 DEF exists
  <2>6. CASE c.id = t
    <3>1. Header(e, t, "tab").id = t /\ Header(e, t, "tab").z = d.top.z
      <4>1. Header(e, t, "tab").id = t
        BY HeaderFields
      <4>2. Header(e, t, "tab").z = e.top.z
        BY HeaderRoot
      <4> QED BY <1>2, <4>1, <4>2
    <3>2. own = Header(e, t, "tab")
      BY <2>1, <2>2, <2>6, <3>1 DEF indexFlowEntries
    <3> QED BY <1>3, <1>5, <3>1, <3>2 DEF TabEntry
  <2> QED BY <2>4, <2>5, <2>6
<1> HIDE DEF own
<1>7. Reshapes(C, t, e, C, F, {own})
  <2>1. \A c \in C : c.id # t /\ c.z # t => c \in C /\ F[c] = c
    OBVIOUS
  <2>2. \A c \in C : c.id = t => c \in C /\ F[c] = overlayFlowEntry(c, Header(e, t, "tab"))
    BY <1>3, <1>4 DEF TabEntry, WellFormed
  <2>3. ASSUME NEW c \in C, c.z = t
        PROVE \E n \in Members(e) : n.id = c.id /\ overlayFlowEntry(c, Own(n, t)) = F[c]
    <3>1. PICK n \in Members(d) : Shows(n, c)
      BY <1>3, <2>3 DEF Mirrors, Owned
    <3> QED BY <1>2, <1>3, <2>3, <3>1 DEF Mirrors, Owned
  <2>4. ASSUME NEW n \in Members(e)
        PROVE \/ \E c \in C : c.id = n.id /\ overlayFlowEntry(c, Own(n, t)) = F[c]
              \/ Own(n, t) \in {own}
    <3>1. CASE n = node
      BY <3>1 DEF own
    <3>2. CASE n \in Members(d)
      <4>1. PICK c \in Owned(C, t) : Shows(n, c)
        BY <1>3, <3>2 DEF Mirrors
      <4>2. c \in C /\ c.id = n.id /\ overlayFlowEntry(c, Own(n, t)) = c
        BY <1>3, <4>1 DEF Mirrors, Owned
      <4> QED BY <4>2
    <3> QED BY <1>2, <3>1, <3>2
  <2>5. \A x \in {own} : x.id \notin IdsOf(C) /\ \E n \in Members(e) : x = Own(n, t)
    BY <1>2, <1>6 DEF own
  <2> HIDE DEF F
  <2> QED BY <2>1, <2>2, <2>3, <2>4, <2>5 DEF Reshapes
<1>8. \A x : x \in next <=> x \in {own} \/ \E c \in C : x = F[c]
  BY <1>3, <1>7, ReplacedExact
<1> QED BY <1>8 DEF own

(* SetFlowDisabled changes one field of the entry of the tab. *)
LEMMA SwitchExact ==
  ASSUME NEW C, Entries(C), WellFormed(C), NEW t, NEW d \in GetFlow(C, t), IsHeaded(d),
         NEW off, off \in {"true", "false"}, NEW e \in SetDisabledInFlow(d, off),
         IsHeaded(e), e.subflows = {}, NEW next \in replaceFlowEntries(C, t, e)
  PROVE \A x : x \in next <=> \E c \in C : x = IF c.id = t THEN [c EXCEPT !.off = off] ELSE c
<1> DEFINE T == d.top
           h == [d.top EXCEPT !.off = off]
           F == [c \in C |-> IF c.id = t THEN [c EXCEPT !.off = off] ELSE c]
<1>1. e = [d EXCEPT !.top.off = off]
  BY DEF SetDisabledInFlow
<1>2. e.top = h /\ Members(e) = Members(d)
  BY <1>1, FieldsOf DEF IsHeaded, Parts, Members
<1>3. t \in TabIds(C) /\ Mirrors(C, t, d) /\ TabEntry(C, t, T)
  BY ReadMirrors, TopExact
<1>4. /\ IsEntry(h) /\ h.type = "tab" /\ h.inst = "" /\ h.id = t /\ h.tag = T.tag
      /\ h.cred = T.cred /\ h.off = off
  <2>1. IsEntry(T) /\ DOMAIN T = Fields
    BY <1>3, FieldsOf DEF TabEntry
  <2>2. IsEntry(h)
    BY <2>1, EntryExcept
  <2> QED BY <1>3, <2>1, <2>2 DEF TabEntry, Fields
<1> HIDE DEF h
<1>5. overlayFlowEntry(T, Header(e, t, "tab")) = h
  <2>1. Header(e, t, "tab") = h
    BY <1>2, <1>4, HeaderExact
  <2>2. h.off # "" /\ T.type = "tab"
    BY <1>3, <1>4 DEF TabEntry
  <2>3. overlayFlowEntry(T, h) = h
    BY <1>4, <2>2, OverlayTab
  <2> QED BY <2>1, <2>3
<1>6. \A c \in C : c.id = t => c = T
  BY <1>3 DEF WellFormed, TabEntry
<1>7. \A c \in C : c.z = t => c \in Owned(C, t) /\ c.id # t
  <2> SUFFICES ASSUME NEW c \in C, c.z = t PROVE c.id # t
    BY DEF Owned
  <2>1. t # ""
    BY <1>3 DEF TabIds, IdsOf
  <2> QED BY <1>3, <1>6, <2>1 DEF TabEntry
<1>8. Reshapes(C, t, e, C, F, {})
  <2>1. \A c \in C : c.id # t /\ c.z # t => c \in C /\ F[c] = c
    OBVIOUS
  <2>2. \A c \in C : c.id = t => c \in C /\ F[c] = overlayFlowEntry(c, Header(e, t, "tab"))
    BY <1>5, <1>6 DEF h
  <2>3. ASSUME NEW c \in C, c.z = t
        PROVE \E n \in Members(e) : n.id = c.id /\ overlayFlowEntry(c, Own(n, t)) = F[c]
    <3>1. PICK n \in Members(d) : Shows(n, c)
      BY <1>3, <1>7, <2>3 DEF Mirrors
    <3> QED BY <1>2, <1>3, <1>7, <2>3, <3>1 DEF Mirrors
  <2>4. ASSUME NEW n \in Members(e)
        PROVE \E c \in C : c.id = n.id /\ overlayFlowEntry(c, Own(n, t)) = F[c]
    <3>1. PICK c \in Owned(C, t) : Shows(n, c)
      BY <1>2, <1>3 DEF Mirrors
    <3>2. c \in C /\ c.z = t /\ c.id = n.id /\ overlayFlowEntry(c, Own(n, t)) = c
      BY <1>3, <3>1 DEF Mirrors, Owned
    <3> QED BY <1>7, <3>2
  <2> HIDE DEF F
  <2> QED BY <2>1, <2>2, <2>3, <2>4 DEF Reshapes
<1>9. \A x : x \in next <=> x \in {} \/ \E c \in C : x = F[c]
  BY <1>3, <1>8, ReplacedExact
<1> QED BY <1>9

(* The node an edit is about, and the member that shows it. *)
LEMMA LocatedExact ==
  ASSUME NEW C, Entries(C), WellFormed(C), NEW t, NEW d \in GetFlow(C, t), IsHeaded(d),
         NEW id, NEW n \in locate(d, id)
  PROVE /\ n \in Members(d) /\ n.id = id
        /\ \E m \in Owned(C, t) : m.id = id /\ Shows(n, m) /\ IsEntry(m)
<1>1. n \in Members(d) /\ n.id = id
  BY Located
<1>2. t \in TabIds(C) /\ Mirrors(C, t, d)
  BY ReadMirrors
<1>3. PICK m \in Owned(C, t) : Shows(n, m)
  BY <1>1, <1>2 DEF Mirrors
<1>4. m.id = id
  BY <1>1, <1>2, <1>3 DEF Mirrors
<1>5. IsEntry(m)
  BY DEF Owned, Entries
<1> QED BY <1>1, <1>3, <1>4, <1>5

(* A patch names credentials in order to set them. *)
SetsCred(patch) == "cred" \in DOMAIN patch => patch.cred # ""

(* update_node changes the fields it names and leaves the node in its tab. *)
LEMMA PatchExact ==
  ASSUME NEW C, Entries(C), WellFormed(C), NEW t, NEW d \in GetFlow(C, t), IsHeaded(d),
         NEW id, NEW patch, SetsCred(patch),
         NEW e \in UpdateNodeInFlow(d, id, patch),
         IsHeaded(e), e.subflows = {}, NEW next \in replaceFlowEntries(C, t, e)
  PROVE \A x : x \in next <=> \E c \in C : x = IF c.id = id THEN Own(Patched(c, patch), t) ELSE c
<1>1. "id" \notin DOMAIN patch /\ \E n \in locate(d, id) : e = Swap(d, n, Patched(n, patch))
  BY DEF UpdateNodeInFlow
<1>2. PICK n \in locate(d, id) : e = Swap(d, n, Patched(n, patch))
  BY <1>1
<1>3. PICK m \in Owned(C, t) : m.id = id /\ Shows(n, m) /\ IsEntry(m)
  BY LocatedExact
<1>4. n \in Members(d) /\ n.id = id
  BY LocatedExact
<1>5. /\ IsEntry(n) /\ (\A f \in Fields : f # "cred" => n[f] = m[f])
      /\ n.cred \in {"", m.cred}
  BY <1>3, ShowsFields
<1> DEFINE p == Patched(n, patch)
           q == Patched(m, patch)
<1>6. /\ IsEntry(p) /\ \A f \in Fields : p[f] = IF f \in DOMAIN patch THEN patch[f] ELSE n[f]
      /\ IsEntry(q) /\ \A f \in Fields : q[f] = IF f \in DOMAIN patch THEN patch[f] ELSE m[f]
  <2>1. DOMAIN n = Fields /\ DOMAIN m = Fields /\ DOMAIN configEntry = Fields
    BY <1>3, <1>5, FieldsOf
  <2> QED BY <2>1 DEF Patched, IsEntry
<1> HIDE DEF p, q
<1>7. p.id = n.id
  BY <1>1, <1>6 DEF Fields
<1>8. overlayFlowEntry(m, Own(p, t)) = Own(q, t)
  <2> DEFINE a == Own(p, t)
             b == Own(q, t)
  <2>1. /\ IsEntry(a) /\ (\A f \in Fields : f # "z" => a[f] = p[f])
        /\ a.z = IF p.z = "" THEN t ELSE p.z
    BY <1>6, OwnExact
  <2>2. /\ IsEntry(b) /\ (\A f \in Fields : f # "z" => b[f] = q[f])
        /\ b.z = IF q.z = "" THEN t ELSE q.z
    BY <1>6, OwnExact
  <2> HIDE DEF a, b
  <2>3. \A f \in Fields : f # "cred" => p[f] = q[f]
    BY <1>5, <1>6
  <2>4. \A f \in Fields : f # "cred" => a[f] = b[f]
    <3>1. a.z = b.z
      BY <2>1, <2>2, <2>3 DEF Fields
    <3> QED BY <2>1, <2>2, <2>3, <3>1
  <2>5. b.cred = IF a.cred = "" THEN m.cred ELSE a.cred
    <3>1. a.cred = p.cred /\ b.cred = q.cred
      BY <2>1, <2>2 DEF Fields
    <3>2. CASE "cred" \in DOMAIN patch
      <4>1. p.cred = patch.cred /\ q.cred = patch.cred /\ patch.cred # ""
        BY <1>6, <3>2 DEF Fields, SetsCred
      <4> QED BY <3>1, <4>1
    <3>3. CASE "cred" \notin DOMAIN patch
      <4>1. p.cred = n.cred /\ q.cred = m.cred
        BY <1>6, <3>3 DEF Fields
      <4> QED BY <1>5, <3>1, <4>1
    <3> QED BY <3>2, <3>3
  <2>6. m.type # "tab"
    <3>1. t \in TabIds(C)
      BY ReadMirrors
    <3>2. m.type \notin {"tab", "subflow"}
      BY <3>1, OwnedExact
    <3> QED BY <3>2
  <2>7. overlayFlowEntry(m, a) = b
    BY <2>1, <2>2, <2>4, <2>5, <2>6, OverlayNode
  <2> QED BY <2>7 DEF a, b
<1>9. e = Swap(d, n, p)
  BY <1>2 DEF p
<1>10. \A x : x \in next <=> x = Own(q, t) \/ (x \in C /\ x # m)
  BY <1>3, <1>4, <1>7, <1>8, <1>9, TouchedExact
<1>11. m \in C /\ \A c \in C : c.id = id <=> c = m
  BY <1>3 DEF Owned, WellFormed
<1> QED BY <1>10, <1>11 DEF q

(* connect_nodes adds a wire to one entry. *)
LEMMA ConnectExact ==
  ASSUME NEW C, Entries(C), WellFormed(C), NEW t, NEW d \in GetFlow(C, t), IsHeaded(d),
         NEW id, NEW port, NEW to, NEW e \in ConnectNodesInFlow(d, id, port, to),
         IsHeaded(e), e.subflows = {}, NEW next \in replaceFlowEntries(C, t, e)
  PROVE \A x : x \in next <=>
          \E c \in C : x = IF c.id = id THEN [c EXCEPT !.wires = @ \cup {<<port, to>>}] ELSE c
<1>1. PICK n \in locate(d, id) : e = Swap(d, n, [n EXCEPT !.wires = @ \cup {<<port, to>>}])
  BY DEF ConnectNodesInFlow
<1>2. PICK m \in Owned(C, t) : m.id = id /\ Shows(n, m) /\ IsEntry(m)
  BY LocatedExact
<1>3. n \in Members(d) /\ n.id = id
  BY LocatedExact
<1>4. /\ IsEntry(n) /\ (\A f \in Fields : f # "cred" => n[f] = m[f])
      /\ n.cred \in {"", m.cred}
  BY <1>2, ShowsFields
<1>5. t \in TabIds(C) /\ t # ""
  <2>1. t \in TabIds(C)
    BY ReadMirrors
  <2> QED BY <2>1 DEF TabIds, IdsOf
<1> DEFINE p == [n EXCEPT !.wires = @ \cup {<<port, to>>}]
           q == [m EXCEPT !.wires = @ \cup {<<port, to>>}]
<1>6. /\ IsEntry(p)
      /\ \A f \in Fields : p[f] = IF f = "wires" THEN n.wires \cup {<<port, to>>} ELSE n[f]
      /\ IsEntry(q)
      /\ \A f \in Fields : q[f] = IF f = "wires" THEN m.wires \cup {<<port, to>>} ELSE m[f]
  BY <1>2, <1>4, FieldsOf, EntryExcept
<1> HIDE DEF p, q
<1>7. p.id = n.id /\ p.z = t
  <2>1. m.z = t
    BY DEF Owned
  <2> QED BY <1>4, <1>6, <2>1 DEF Fields
<1>8. overlayFlowEntry(m, Own(p, t)) = q
  <2>1. Own(p, t) = p
    BY <1>5, <1>7 DEF Own
  <2>2. m.type \notin {"tab", "subflow"}
    BY <1>5, OwnedExact
  <2>3. \A f \in Fields : f # "cred" => p[f] = q[f]
    BY <1>4, <1>6 DEF Fields
  <2>4. q.cred = IF p.cred = "" THEN m.cred ELSE p.cred
    BY <1>4, <1>6 DEF Fields
  <2>5. overlayFlowEntry(m, p) = q
    BY <1>6, <2>2, <2>3, <2>4, OverlayNode
  <2> QED BY <2>1, <2>5
<1>9. e = Swap(d, n, p)
  BY <1>1 DEF p
<1>10. \A x : x \in next <=> x = q \/ (x \in C /\ x # m)
  BY <1>2, <1>3, <1>7, <1>8, <1>9, TouchedExact
<1>11. m \in C /\ \A c \in C : c.id = id <=> c = m
  BY <1>2 DEF Owned, WellFormed
<1> QED BY <1>10, <1>11 DEF q

(* Removing the wires to a node changes the wires and nothing else. *)
LEMMA SweepFields ==
  ASSUME NEW n, IsEntry(n), NEW id
  PROVE /\ IsEntry(Sweep(n, id)) /\ \A f \in Fields : f # "wires" => Sweep(n, id)[f] = n[f]
        /\ Sweep(n, id).wires = IF n.readable THEN {w \in n.wires : w[2] # id} ELSE n.wires
<1>1. DOMAIN n = Fields
  BY FieldsOf
<1>2. IsEntry([n EXCEPT !.wires = {w \in @ : w[2] # id}])
  BY EntryExcept
<1> QED BY <1>1, <1>2 DEF Sweep, Fields

(* A member without its wires to a node shows its entry without them. *)
LEMMA SweptExact ==
  ASSUME NEW C, Entries(C), WellFormed(C), NEW t, t \in TabIds(C), NEW m \in Owned(C, t),
         NEW n, Shows(n, m), NEW id
  PROVE Sweep(n, id).id = m.id /\ overlayFlowEntry(m, Own(Sweep(n, id), t)) = Sweep(m, id)
<1>1. IsEntry(m) /\ m.type \notin {"tab", "subflow"} /\ m.z = t
  BY OwnedExact
<1>2. /\ IsEntry(n) /\ (\A f \in Fields : f # "cred" => n[f] = m[f])
      /\ n.cred \in {"", m.cred}
  BY <1>1, ShowsFields
<1> DEFINE p == Sweep(n, id)
           q == Sweep(m, id)
<1>3. /\ IsEntry(p) /\ (\A f \in Fields : f # "wires" => p[f] = n[f])
      /\ p.wires = IF n.readable THEN {w \in n.wires : w[2] # id} ELSE n.wires
  BY <1>2, SweepFields
<1>4. /\ IsEntry(q) /\ (\A f \in Fields : f # "wires" => q[f] = m[f])
      /\ q.wires = IF m.readable THEN {w \in m.wires : w[2] # id} ELSE m.wires
  BY <1>1, SweepFields
<1> HIDE DEF p, q
<1>5. p.wires = q.wires
  <2>1. n.readable = m.readable /\ n.wires = m.wires
    BY <1>2 DEF Fields
  <2> QED BY <1>3, <1>4, <2>1
<1>6. \A f \in Fields : f # "cred" => p[f] = q[f]
  BY <1>2, <1>3, <1>4, <1>5
<1>7. q.cred = IF p.cred = "" THEN m.cred ELSE p.cred
  BY <1>2, <1>3, <1>4 DEF Fields
<1>8. overlayFlowEntry(m, p) = q
  BY <1>1, <1>3, <1>4, <1>6, <1>7, OverlayNode
<1>9. Own(p, t) = p /\ p.id = m.id
  <2>1. p.z = t /\ p.id = m.id /\ t # ""
    BY <1>1, <1>2, <1>3 DEF Fields, TabIds, IdsOf
  <2> QED BY <2>1 DEF Own
<1> QED BY <1>8, <1>9 DEF p, q

(* delete_node removes an entry and the wires to it in its tab. *)
LEMMA DeleteExact ==
  ASSUME NEW C, Entries(C), WellFormed(C), NEW t, NEW d \in GetFlow(C, t), IsHeaded(d),
         NEW id, NEW e \in DeleteNodeFromFlow(d, id),
         IsHeaded(e), e.subflows = {}, NEW next \in replaceFlowEntries(C, t, e)
  PROVE \A x : x \in next <=>
          \E c \in C : c.id # id /\ x = IF c.z = t THEN Sweep(c, id) ELSE c
<1>1. PICK n \in locate(d, id) : e = Swept(Without(d, n), id)
  BY DEF DeleteNodeFromFlow
<1>2. PICK m \in Owned(C, t) : m.id = id /\ Shows(n, m) /\ IsEntry(m)
  BY LocatedExact
<1>3. n \in Members(d) /\ n.id = id
  BY LocatedExact
<1>4. t \in TabIds(C) /\ Mirrors(C, t, d) /\ TabEntry(C, t, d.top)
  BY ReadMirrors, TopExact
<1>5. e.top = d.top /\ Members(e) = {Sweep(o, id) : o \in Members(d) \ {n}}
  <2> DEFINE w == Without(d, n)
  <2>1. d.nodes \cap d.configs = {}
    BY ReadExact
  <2>2. DOMAIN w = Parts /\ w.top = d.top /\ Members(w) = Members(d) \ {n}
    BY <1>3, <2>1, FieldsOf DEF IsHeaded, Parts, Members, Without
  <2> HIDE DEF w
  <2>3. e = Swept(w, id)
    BY <1>1 DEF w
  <2>4. /\ e.top = w.top
        /\ e.nodes = {Sweep(o, id) : o \in w.nodes} /\ e.configs = {Sweep(o, id) : o \in w.configs}
    BY <2>2, <2>3 DEF Parts, Swept
  <2>5. Members(e) = {Sweep(o, id) : o \in Members(w)}
    BY <2>4 DEF Members
  <2> QED BY <2>2, <2>4, <2>5
<1>6. overlayFlowEntry(d.top, Header(e, t, "tab")) = d.top
  BY <1>5, TopStays
<1>7. \A c \in Owned(C, t) : \A o : Shows(o, c) =>
        Sweep(o, id).id = c.id /\ overlayFlowEntry(c, Own(Sweep(o, id), t)) = Sweep(c, id)
  BY <1>4, SweptExact
<1>8. m \in C /\ m.z = t /\ \A c \in C : c.id = id <=> c = m
  BY <1>2 DEF Owned, WellFormed
<1>9. d.top \in C /\ d.top.z # t /\ d.top # m /\ \A c \in C : c.id = t <=> c = d.top
  <2>1. t # ""
    BY <1>4 DEF TabIds, IdsOf
  <2> QED BY <1>4, <1>8, <2>1 DEF TabEntry, WellFormed
<1> DEFINE K == C \ {m}
           F == [c \in C |-> IF c.z = t THEN Sweep(c, id) ELSE c]
<1>10. Reshapes(C, t, e, K, F, {})
  <2>1. \A c \in C : c.id # t /\ c.z # t => c \in K /\ F[c] = c
    BY <1>8
  <2>2. \A c \in C : c.id = t => c \in K /\ F[c] = overlayFlowEntry(c, Header(e, t, "tab"))
    BY <1>6, <1>9
  <2>3. ASSUME NEW c \in K, c.z = t
        PROVE \E o \in Members(e) : o.id = c.id /\ overlayFlowEntry(c, Own(o, t)) = F[c]
    <3>1. c \in Owned(C, t)
      BY <2>3 DEF Owned
    <3>2. PICK o \in Members(d) : Shows(o, c)
      BY <1>4, <3>1 DEF Mirrors
    <3>3. o # n
      <4>1. o.id = c.id
        BY <1>4, <3>1, <3>2 DEF Mirrors
      <4> QED BY <1>3, <1>8, <4>1
    <3>4. Sweep(o, id) \in Members(e)
      BY <1>5, <3>2, <3>3
    <3> QED BY <1>7, <2>3, <3>1, <3>2, <3>4
  <2>4. ASSUME NEW o \in Members(e)
        PROVE \E c \in K : c.id = o.id /\ overlayFlowEntry(c, Own(o, t)) = F[c]
    <3>1. PICK r \in Members(d) : r # n /\ o = Sweep(r, id)
      BY <1>5
    <3>2. PICK c \in Owned(C, t) : Shows(r, c)
      BY <1>4, <3>1 DEF Mirrors
    <3>3. c \in C /\ c.z = t /\ r.id = c.id
      BY <1>4, <3>2 DEF Mirrors, Owned
    <3>4. c # m
      BY <1>2, <1>3, <1>4, <3>1, <3>3 DEF Mirrors
    <3> QED BY <1>7, <3>1, <3>2, <3>3, <3>4
  <2> HIDE DEF F
  <2> QED BY <2>1, <2>2, <2>3, <2>4 DEF Reshapes
<1>11. \A x : x \in next <=> x \in {} \/ \E c \in K : x = F[c]
  <2> HIDE DEF K, F
  <2> QED BY <1>4, <1>10, ReplacedExact
<1> QED BY <1>8, <1>11

(* What is intended of each call on a tab. *)
LEMMA TabIntended ==
  ASSUME NEW k, NEW C
  PROVE /\ k.op \in {"add_node", "instantiate_subflow"} =>
             Intended(k, C) = C \cup {Own(k.node, k.flow)}
        /\ k.op = "update_node" =>
             Intended(k, C) =
               {IF e.id = k.id THEN Own(Patched(e, k.patch), k.flow) ELSE e : e \in C}
        /\ k.op = "delete_node" =>
             Intended(k, C) =
               {IF e.z = k.flow THEN Sweep(e, k.id) ELSE e : e \in {f \in C : f.id # k.id}}
        /\ k.op = "connect_nodes" =>
             Intended(k, C) =
               {IF e.id = k.id THEN [e EXCEPT !.wires = @ \cup {<<k.port, k.to>>}] ELSE e : e \in C}
        /\ k.op = "set_disabled" =>
             Intended(k, C) = {IF e.id = k.flow THEN [e EXCEPT !.off = k.off] ELSE e : e \in C}
<1>1. CASE k.op \in {"add_node", "instantiate_subflow"}
  <2>1. Intended(k, C) = C \cup {Own(k.node, k.flow)}
    BY <1>1, Zenon DEF Intended
  <2> QED BY <1>1, <2>1
<1>2. CASE k.op = "update_node"
  <2>1. Intended(k, C) = {IF e.id = k.id THEN Own(Patched(e, k.patch), k.flow) ELSE e : e \in C}
    BY <1>2, Zenon DEF Intended
  <2> QED BY <1>2, <2>1
<1>3. CASE k.op = "delete_node"
  <2>1. Intended(k, C) =
          {IF e.z = k.flow THEN Sweep(e, k.id) ELSE e : e \in {f \in C : f.id # k.id}}
    BY <1>3, Zenon DEF Intended
  <2> QED BY <1>3, <2>1
<1>4. CASE k.op = "connect_nodes"
  <2>1. Intended(k, C) =
          {IF e.id = k.id THEN [e EXCEPT !.wires = @ \cup {<<k.port, k.to>>}] ELSE e : e \in C}
    BY <1>4, Zenon DEF Intended
  <2> QED BY <1>4, <2>1
<1>5. CASE k.op = "set_disabled"
  <2>1. Intended(k, C) = {IF e.id = k.flow THEN [e EXCEPT !.off = k.off] ELSE e : e \in C}
    BY <1>5, Zenon DEF Intended
  <2> QED BY <1>5, <2>1
<1> QED BY <1>1, <1>2, <1>3, <1>4, <1>5

(* A deployment of a tab that nothing overtook. *)
LEMMA DeployIsExact ==
  ASSUME IInv, EditsInv, NEW s \in Sessions, DeployTab(s), pc'[s] = "done",
         config = seen[s], WellFormed(config)
  PROVE config' = Intended(call[s], config)
<1> DEFINE k == call[s]
           t == call[s].flow
           e == doc[s]
<1>1. TypeOK /\ SessionInv(s) /\ pc[s] = "deploy"
  BY DEF IInv, DeployTab
<1>2. Entries(config) /\ IsCall(k) /\ k.op \in EditOps \cup {"instantiate_subflow"}
  BY <1>1 DEF TypeOK, SessionInv, CallInv
<1>3. IsHeaded(e) /\ e.subflows = {}
  BY <1>1 DEF SessionInv, DocInv, OneTab, IsDocument
<1>4. config' \in replaceFlowEntries(config, t, e)
  <2>1. config' \in deployFlowUpdate(config, t, e)
    BY <1>1, Installed DEF DeployTab, TypeOK
  <2> QED BY <2>1 DEF deployFlowUpdate
<1>5. PICK d \in GetFlow(config, t) : e \in Edited(k, d)
  BY <1>1 DEF EditsInv, EditedInv
<1>6. IsHeaded(d)
  <2> HIDE DEF t
  <2>1. OneTab(d, DeniedIn(config))
    BY <1>2, ReadFlow, Zenon
  <2> QED BY <2>1 DEF OneTab, IsDocument
<1> HIDE DEF k, t, e
<1>7. CASE k.op \in {"add_node", "instantiate_subflow"} /\ e \in AddNodeToFlow(d, k.node)
  <2>1. IsEntry(k.node)
    BY <1>2, <1>7 DEF IsCall, Entries
  <2>2. \A x : x \in config' <=> x \in config \/ x = Own(k.node, t)
    BY <1>2, <1>3, <1>4, <1>6, <1>7, <2>1, AddExact
  <2>3. Intended(k, config) = config \cup {Own(k.node, t)}
    BY <1>7, TabIntended DEF k, t
  <2>4. config' = Intended(k, config)
    BY <2>2, <2>3
  <2> QED BY <2>4 DEF k
<1>8. CASE k.op = "update_node" /\ e \in UpdateNodeInFlow(d, k.id, k.patch)
  <2>1. SetsCred(k.patch)
    BY <1>2, <1>8 DEF IsCall, SetsCred
  <2>2. \A x : x \in config' <=>
          \E c \in config : x = IF c.id = k.id THEN Own(Patched(c, k.patch), t) ELSE c
    BY <1>2, <1>3, <1>4, <1>6, <1>8, <2>1, PatchExact
  <2>3. Intended(k, config) =
          {IF c.id = k.id THEN Own(Patched(c, k.patch), t) ELSE c : c \in config}
    BY <1>8, TabIntended, Zenon DEF k, t
  <2>4. config' = Intended(k, config)
    BY <2>2, <2>3
  <2> QED BY <2>4 DEF k
<1>9. CASE k.op = "delete_node" /\ e \in DeleteNodeFromFlow(d, k.id)
  <2>1. \A x : x \in config' <=>
          \E c \in config : c.id # k.id /\ x = IF c.z = t THEN Sweep(c, k.id) ELSE c
    BY <1>2, <1>3, <1>4, <1>6, <1>9, DeleteExact
  <2>2. Intended(k, config) =
          {IF c.z = t THEN Sweep(c, k.id) ELSE c : c \in {f \in config : f.id # k.id}}
    BY <1>9, TabIntended, Zenon DEF k, t
  <2>3. config' = Intended(k, config)
    BY <2>1, <2>2
  <2> QED BY <2>3 DEF k
<1>10. CASE k.op = "connect_nodes" /\ e \in ConnectNodesInFlow(d, k.id, k.port, k.to)
  <2>1. \A x : x \in config' <=>
          \E c \in config :
            x = IF c.id = k.id THEN [c EXCEPT !.wires = @ \cup {<<k.port, k.to>>}] ELSE c
    BY <1>2, <1>3, <1>4, <1>6, <1>10, ConnectExact
  <2>2. Intended(k, config) =
          {IF c.id = k.id THEN [c EXCEPT !.wires = @ \cup {<<k.port, k.to>>}] ELSE c : c \in config}
    BY <1>10, TabIntended, Zenon DEF k, t
  <2>3. config' = Intended(k, config)
    BY <2>1, <2>2
  <2> QED BY <2>3 DEF k
<1>11. CASE k.op = "set_disabled" /\ e \in SetDisabledInFlow(d, k.off)
  <2>1. k.off \in {"true", "false"}
    BY <1>2, <1>11 DEF IsCall
  <2>2. \A x : x \in config' <=>
          \E c \in config : x = IF c.id = t THEN [c EXCEPT !.off = k.off] ELSE c
    BY <1>2, <1>3, <1>4, <1>6, <1>11, <2>1, SwitchExact
  <2>3. Intended(k, config) =
          {IF c.id = t THEN [c EXCEPT !.off = k.off] ELSE c : c \in config}
    BY <1>11, TabIntended, Zenon DEF k, t
  <2>4. config' = Intended(k, config)
    BY <2>2, <2>3
  <2> QED BY <2>4 DEF k
<1> QED BY <1>2, <1>5, <1>7, <1>8, <1>9, <1>10, <1>11, EditedCases

(* In a well-formed configuration a write that nothing overtook does what
   its tool says, and nothing else (edit.go:77-108, flows_update.go:124-152,
   subflows.go:24-40). *)
THEOREM EditsAreExact == Spec => EditIsExact
<1>1. ASSUME IInv, EditsInv, NEW s \in Sessions, DeployTab(s) \/ PutDefinitions(s),
             pc'[s] = "done", config = seen[s], WellFormed(config)
      PROVE config' = Intended(call[s], config)
  BY <1>1, DeployIsExact, PutIsExact
<1>2. IInv /\ EditsInv /\ [Next]_vars =>
        [\A s \in Sessions :
             /\ (DeployTab(s) \/ PutDefinitions(s)) /\ pc'[s] = "done"
             /\ config = seen[s] /\ WellFormed(config)
           => config' = Intended(call[s], config)]_vars
  BY <1>1
<1> QED BY <1>2, EditsInductive, PTL DEF Spec, EditIsExact

-----------------------------------------------------------------------------
(* The version of the runtime (VersionGate): the answers about it do not    *)
(* contradict each other, and what an answer without the notice means.      *)

USE DEF Callers

Tools == DOMAIN nodered_min_version_for

(* The minima are versions. *)
LEMMA MinimaTyped ==
  ASSUME NEW t \in Tools
  PROVE  nodered_min_version_for[t] \in Versions /\ nodered_min_version_for[t].known
<1>1. t \in {"set_context", "inject_node", "get_diagnostics"}
  BY DEF Tools, nodered_min_version_for
<1>2. CASE t = "set_context"
  BY <1>2 DEF nodered_min_version_for, Versions, Triple
<1>3. CASE t = "inject_node"
  BY <1>3 DEF nodered_min_version_for, Versions, Triple
<1>4. CASE t = "get_diagnostics"
  BY <1>4 DEF nodered_min_version_for, Versions, Triple
<1> QED BY <1>1, <1>2, <1>3, <1>4

(* version.go, AtLeast: it is the order of versions. *)
LEMMA AtLeastIsRank ==
  ASSUME NEW v \in Versions, NEW m \in Versions, v.known
  PROVE  /\ AtLeast(v, m) <=> Rank(v) >= Rank(m)
         /\ Rank(v) \in Nat
<1>1. /\ v.major \in 0..99 /\ v.minor \in 0..99 /\ v.patch \in 0..99
      /\ m.major \in 0..99 /\ m.minor \in 0..99 /\ m.patch \in 0..99
  BY DEF Versions
<1>2. PICK a \in 0..99, b \in 0..99, c \in 0..99 :
        a = v.major /\ b = v.minor /\ c = v.patch
  BY <1>1
<1>3. PICK x \in 0..99, y \in 0..99, z \in 0..99 :
        x = m.major /\ y = m.minor /\ z = m.patch
  BY <1>1
<1>4. AtLeast(v, m) <=> a > x \/ (a = x /\ b > y) \/ (a = x /\ b = y /\ c >= z)
  BY <1>2, <1>3, Zenon DEF AtLeast
<1>5. Rank(v) = 10000 * a + 100 * b + c
  <2>1. Rank(v) = 10000 * v.major + 100 * v.minor + v.patch
    BY DEF Rank
  <2> QED BY <2>1, <1>2
<1>6. Rank(m) = 10000 * x + 100 * y + z
  <2>1. Rank(m) = 10000 * m.major + 100 * m.minor + m.patch
    BY DEF Rank
  <2> QED BY <2>1, <1>3
<1> DEFINE P == 10000 * a + 100 * b + c
           Q == 10000 * x + 100 * y + z
<1>7. P \in Nat
  OBVIOUS
<1>8. a > x \/ (a = x /\ b > y) \/ (a = x /\ b = y /\ c >= z) <=> P >= Q
  OBVIOUS
<1>9. Rank(v) = P /\ Rank(m) = Q
  BY <1>5, <1>6
<1> HIDE DEF P, Q
<1> QED BY <1>4, <1>7, <1>8, <1>9, Zenon

(* What get_runtime_info says of a tool is what the gate does with it. *)
LEMMA MatrixIsGate ==
  ASSUME NEW v \in Versions, NEW t \in Tools
  PROVE  /\ noderedCapabilityMatrix(v)[t] = "version_too_low" <=> RefuseForVersion(t, v)
         /\ noderedCapabilityMatrix(v)[t] = "unknown" <=> ~v.known
<1>1. noderedCapabilityMatrix(v)[t] = classifyVersionedTool(t, v)
  BY DEF noderedCapabilityMatrix, Tools
<1>2. v.known \in BOOLEAN
  BY DEF Versions
<1> QED BY <1>1, <1>2 DEF classifyVersionedTool, RefuseForVersion, AtLeast

-----------------------------------------------------------------------------
LEMMA GateInitInv == GateInit => GateIInv
<1> SUFFICES ASSUME GateInit PROVE GateIInv
  OBVIOUS
<1>1. Unknown \in Versions /\ ~Unknown.known
  BY DEF Unknown, Versions
<1>2. GateTypeOK
  BY <1>1, CallersAssumption DEF GateInit, GateTypeOK, Points, Probers
<1>3. OnceInv
  BY CallersAssumption DEF GateInit, OnceInv, Probers
<1>4. MatrixInv /\ GateInv
  BY CallersAssumption DEF GateInit, MatrixInv, GateInv, Probers
<1>5. ValueInv
  BY <1>1 DEF GateInit, ValueInv
<1> QED BY <1>2, <1>3, <1>4, <1>5 DEF GateIInv

LEMMA GateTypeStep == GateIInv /\ [GateNext]_gateVars => GateTypeOK'
<1> SUFFICES ASSUME GateIInv, [GateNext]_gateVars PROVE GateTypeOK'
  OBVIOUS
<1> USE DEF GateIInv, GateTypeOK, Points
<1>1. CASE UNCHANGED gateVars
  BY <1>1 DEF gateVars, world, cache, history
<1>2. ASSUME NEW r \in Runtimes, Replace(r) PROVE GateTypeOK'
  BY <1>2 DEF Replace, cache, history
<1>3. ASSUME NEW c \in Callers, CallerStep(c) PROVE GateTypeOK'
  <2>1. CASE EnterOnce(c)
    BY <2>1 DEF EnterOnce, GoTo, world, history
  <2>2. CASE Detect(c)
    <3>1. Unknown \in Versions /\ ParseVersion(runtime.says) \in Versions
      BY RuntimesAssumption DEF Unknown, Versions
    <3>2. value' \in Versions /\ answered' \in Runtimes \cup {Nobody}
      BY <2>2, <3>1 DEF Detect
    <3> QED BY <2>2, <3>2 DEF Detect, GoTo, world
  <2>3. CASE LeaveOnce(c)
    <3>1. c \in Probers /\ once' \in Probers \cup {"free", "done"}
      BY <2>3 DEF LeaveOnce
    <3> QED BY <2>3, <3>1 DEF LeaveOnce, GoTo, world
  <2>4. CASE Report(c)
    <3>1. noderedCapabilityMatrix(value) \in Matrices
      BY DEF noderedCapabilityMatrix, Matrices, classifyVersionedTool
    <3> QED BY <2>4, <3>1 DEF Report, GoTo, world, cache, history
  <2>5. CASE Gate(c)
    BY <2>5 DEF Gate, GoTo, world, cache, history
  <2>6. CASE Act(c)
    BY <2>6 DEF Act, GoTo, world, cache, history
  <2>7. CASE Answer(c)
    BY <2>7 DEF Answer, GoTo, world, cache, history
  <2> QED BY <1>3, <2>1, <2>2, <2>3, <2>4, <2>5, <2>6, <2>7 DEF CallerStep
<1> QED BY <1>1, <1>2, <1>3 DEF GateNext

-----------------------------------------------------------------------------
LEMMA OnceStep == GateIInv /\ [GateNext]_gateVars => OnceInv'
<1> SUFFICES ASSUME GateIInv, [GateNext]_gateVars PROVE OnceInv'
  OBVIOUS
<1> USE DEF GateIInv, GateTypeOK, Points, OnceInv
<1>1. CASE UNCHANGED gateVars
  BY <1>1 DEF gateVars, cache
<1>2. ASSUME NEW r \in Runtimes, Replace(r) PROVE OnceInv'
  BY <1>2 DEF Replace, cache
<1>3. ASSUME NEW c \in Callers, CallerStep(c) PROVE OnceInv'
  <2>0. Probers \subseteq Callers /\ \A d \in Probers : d \notin {"free", "done"} /\ d \notin Payloads
    BY CallersAssumption
  <2>1. CASE EnterOnce(c)
    BY <2>0, <2>1 DEF EnterOnce, GoTo
  <2>2. CASE Detect(c)
    BY <2>0, <2>2 DEF Detect, GoTo
  <2>3. CASE LeaveOnce(c)
    BY <2>0, <2>3 DEF LeaveOnce, GoTo
  <2>4. CASE Report(c)
    BY <2>0, <2>4 DEF Report, GoTo, cache
  <2>5. CASE Gate(c)
    BY <2>0, <2>5 DEF Gate, GoTo, cache
  <2>6. CASE Act(c)
    BY <2>0, <2>6 DEF Act, GoTo, cache
  <2>7. CASE Answer(c)
    BY <2>0, <2>7 DEF Answer, GoTo, cache
  <2> QED BY <1>3, <2>1, <2>2, <2>3, <2>4, <2>5, <2>6, <2>7 DEF CallerStep
<1> QED BY <1>1, <1>2, <1>3 DEF GateNext

(* What is known once the Once is done does not change any more. *)
LEMMA ValueStays == GateIInv /\ [GateNext]_gateVars /\ probed => value' = value /\ probed'
<1> SUFFICES ASSUME GateIInv, [GateNext]_gateVars, probed PROVE value' = value /\ probed'
  OBVIOUS
<1> USE DEF cache
<1>1. CASE UNCHANGED gateVars
  BY <1>1 DEF gateVars
<1>2. ASSUME NEW r \in Runtimes, Replace(r) PROVE value' = value /\ probed'
  BY <1>2 DEF Replace
<1>3. ASSUME NEW c \in Callers, CallerStep(c) PROVE value' = value /\ probed'
  <2>1. ~Detect(c)
    BY CallersAssumption DEF GateIInv, OnceInv, Detect
  <2>2. CASE EnterOnce(c) \/ LeaveOnce(c) \/ Report(c)
    BY <2>2 DEF EnterOnce, LeaveOnce, Report
  <2>3. CASE Gate(c) \/ Act(c) \/ Answer(c)
    BY <2>3 DEF Gate, Act, Answer
  <2> QED BY <1>3, <2>1, <2>2, <2>3 DEF CallerStep
<1> QED BY <1>1, <1>2, <1>3 DEF GateNext

LEMMA MatrixStep == GateIInv /\ [GateNext]_gateVars => MatrixInv'
<1> SUFFICES ASSUME GateIInv, [GateNext]_gateVars, NEW i \in Infos, at'[i] = "answered"
             PROVE  matrix'[i] = noderedCapabilityMatrix(value')
  BY DEF MatrixInv
<1> USE DEF GateIInv, GateTypeOK, Points
<1>0. i \in Probers /\ i \in Callers /\ i \notin Payloads
  BY CallersAssumption DEF Probers
<1>1. CASE at[i] = "answered"
  <2>1. value' = value /\ matrix[i] = noderedCapabilityMatrix(value)
    BY <1>0, <1>1, ValueStays DEF OnceInv, MatrixInv
  <2>2. matrix'[i] = matrix[i]
    <3>1. CASE UNCHANGED gateVars
      BY <3>1 DEF gateVars
    <3>2. ASSUME NEW r \in Runtimes, Replace(r) PROVE matrix'[i] = matrix[i]
      BY <3>2 DEF Replace
    <3>3. ASSUME NEW c \in Callers, CallerStep(c) PROVE matrix'[i] = matrix[i]
      <4>1. CASE EnterOnce(c) \/ Detect(c) \/ LeaveOnce(c)
        BY <4>1 DEF EnterOnce, Detect, LeaveOnce
      <4>2. CASE Report(c)
        BY <1>1, <4>2 DEF Report
      <4>3. CASE Gate(c) \/ Act(c) \/ Answer(c)
        BY <4>3 DEF Gate, Act, Answer
      <4> QED BY <3>3, <4>1, <4>2, <4>3 DEF CallerStep
    <3> QED BY <3>1, <3>2, <3>3 DEF GateNext
  <2> QED BY <2>1, <2>2
<1>2. CASE at[i] # "answered"
  <2>1. CASE UNCHANGED gateVars
    BY <1>2, <2>1 DEF gateVars
  <2>2. ASSUME NEW r \in Runtimes, Replace(r) PROVE FALSE
    BY <1>2, <2>2 DEF Replace
  <2>3. ASSUME NEW c \in Callers, CallerStep(c)
        PROVE  matrix'[i] = noderedCapabilityMatrix(value')
    <3>1. CASE EnterOnce(c) \/ Detect(c) \/ LeaveOnce(c)
      BY <1>0, <1>2, <3>1 DEF EnterOnce, Detect, LeaveOnce, GoTo
    <3>2. CASE Report(c)
      BY <1>0, <1>2, <3>2 DEF Report, GoTo, cache
    <3>3. CASE Gate(c) \/ Act(c) \/ Answer(c)
      BY <1>0, <1>2, <3>3 DEF Gate, Act, Answer, GoTo
    <3> QED BY <2>3, <3>1, <3>2, <3>3 DEF CallerStep
  <2> QED BY <2>1, <2>2, <2>3 DEF GateNext
<1> QED BY <1>1, <1>2

LEMMA ValueStep == GateIInv /\ [GateNext]_gateVars => ValueInv'
<1> SUFFICES ASSUME GateIInv, [GateNext]_gateVars PROVE ValueInv'
  OBVIOUS
<1> USE DEF GateIInv, GateTypeOK, ValueInv, cache, history
<1>1. CASE UNCHANGED gateVars
  BY <1>1 DEF gateVars
<1>2. ASSUME NEW r \in Runtimes, Replace(r) PROVE ValueInv'
  BY <1>2 DEF Replace
<1>3. ASSUME NEW c \in Callers, CallerStep(c) PROVE ValueInv'
  <2>1. CASE Detect(c)
    <3>1. ~Unknown.known
      BY DEF Unknown
    <3> QED BY <2>1, <3>1 DEF Detect
  <2>2. CASE EnterOnce(c) \/ LeaveOnce(c) \/ Report(c)
    BY <2>2 DEF EnterOnce, LeaveOnce, Report
  <2>3. CASE Gate(c) \/ Act(c) \/ Answer(c)
    BY <2>3 DEF Gate, Act, Answer
  <2> QED BY <1>3, <2>1, <2>2, <2>3 DEF CallerStep
<1> QED BY <1>1, <1>2, <1>3 DEF GateNext

LEMMA GateStep == GateIInv /\ [GateNext]_gateVars => GateInv'
<1> SUFFICES ASSUME GateIInv, [GateNext]_gateVars, NEW d \in Payloads
             PROVE  /\ at'[d] \in {"act", "word"} /\ d \notin raced' /\ probed'
                         => ~RefuseForVersion(Tool[d], value')
                    /\ at'[d] = "word" => acted'[d] \in Runtimes
  BY DEF GateInv
<1> USE DEF GateIInv, GateTypeOK, Points, cache, history, world
<1>0. d \in Callers /\ d \notin Probers
  BY CallersAssumption
<1>1. /\ at[d] \in {"act", "word"} /\ d \notin raced /\ probed
           => ~RefuseForVersion(Tool[d], value)
      /\ at[d] = "word" => acted[d] \in Runtimes
  BY DEF GateInv
<1>2. CASE UNCHANGED gateVars
  BY <1>1, <1>2 DEF gateVars
<1>3. ASSUME NEW r \in Runtimes, Replace(r) PROVE UNCHANGED <<at, raced, cache, acted>>
  BY <1>3 DEF Replace
<1>4. ASSUME NEW c \in Probers, at' = [at EXCEPT ![c] = at'[c]] PROVE at'[d] = at[d]
  BY <1>0, <1>4
<1>5. ASSUME NEW c \in Callers, CallerStep(c)
      PROVE  /\ at'[d] \in {"act", "word"} /\ d \notin raced' /\ probed'
                  => ~RefuseForVersion(Tool[d], value')
             /\ at'[d] = "word" => acted'[d] \in Runtimes
  <2>1. CASE EnterOnce(c)
    BY <1>0, <1>1, <2>1 DEF EnterOnce, GoTo
  <2>2. CASE Detect(c)
    <3>1. ~probed' /\ at'[d] = at[d] /\ acted' = acted
      BY <1>0, <2>2, CallersAssumption DEF Detect, GoTo, OnceInv
    <3> QED BY <1>1, <3>1
  <2>3. CASE LeaveOnce(c)
    <3>1. at'[d] = at[d] /\ acted' = acted /\ (at[d] \in {"act", "word"} => d \in raced')
      BY <1>0, <2>3 DEF LeaveOnce, GoTo
    <3> QED BY <1>1, <3>1
  <2>4. CASE Report(c)
    BY <1>0, <1>1, <2>4 DEF Report, GoTo
  <2>5. CASE Gate(c)
    <3>1. CASE c = d
      <4>1. probed => CachedNodeRedVersion = value
        BY DEF CachedNodeRedVersion
      <4>2. at'[d] = IF RefuseForVersion(Tool[d], CachedNodeRedVersion) THEN "refused" ELSE "act"
        BY <1>0, <2>5, <3>1 DEF Gate, GoTo
      <4> QED BY <2>5, <4>1, <4>2 DEF Gate
    <3>2. CASE c # d
      BY <1>0, <1>1, <2>5, <3>2 DEF Gate, GoTo
    <3> QED BY <3>1, <3>2
  <2>6. CASE Act(c)
    BY <1>0, <1>1, <2>6 DEF Act, GoTo
  <2>7. CASE Answer(c)
    BY <1>0, <1>1, <2>7 DEF Answer, GoTo
  <2> QED BY <1>5, <2>1, <2>2, <2>3, <2>4, <2>5, <2>6, <2>7 DEF CallerStep
<1> QED BY <1>1, <1>2, <1>3, <1>5 DEF GateNext

LEMMA GateInvStep == GateIInv /\ [GateNext]_gateVars => GateIInv'
  BY GateTypeStep, OnceStep, MatrixStep, ValueStep, GateStep DEF GateIInv

(* The invariant of the version cache and of the calls that read it. *)
THEOREM GateInductive == GateSpec => []GateIInv
  BY GateInitInv, GateInvStep, PTL DEF GateSpec

-----------------------------------------------------------------------------
(* What get_runtime_info once said of a tool is what the gate and the notice
   do ever after (capability.go, version_gate.go). *)
THEOREM AnswersNeverDisagree == GateSpec => AnswersAgree
<1>1. ASSUME GateIInv, [GateNext]_gateVars, NEW c \in Payloads, NEW i \in Infos, at[i] = "answered"
      PROVE  /\ Gate(c) => (at'[c] = "refused" <=> matrix[i][Tool[c]] = "version_too_low")
             /\ Answer(c) => (at'[c] = "noticed" <=> matrix[i][Tool[c]] = "unknown")
  <2>1. c \in Callers /\ i \in Probers
    BY DEF Probers
  <2>2. CachedNodeRedVersion = value
    BY <1>1, <2>1 DEF GateIInv, OnceInv, CachedNodeRedVersion
  <2>3. matrix[i] = noderedCapabilityMatrix(value) /\ value \in Versions /\ Tool[c] \in Tools
    BY <1>1, ToolAssumption DEF GateIInv, GateTypeOK, MatrixInv, Tools
  <2>4. /\ matrix[i][Tool[c]] = "version_too_low" <=> RefuseForVersion(Tool[c], value)
        /\ matrix[i][Tool[c]] = "unknown" <=> ~value.known
    BY <2>3, MatrixIsGate
  <2>5. ASSUME Gate(c) PROVE at'[c] = "refused" <=> RefuseForVersion(Tool[c], value)
    BY <1>1, <2>1, <2>2, <2>5 DEF Gate, GoTo, GateIInv, GateTypeOK
  <2>6. ASSUME Answer(c) PROVE at'[c] = "noticed" <=> ~value.known
    BY <1>1, <2>1, <2>2, <2>6 DEF Answer, Noticed, GoTo, GateIInv, GateTypeOK
  <2> QED BY <2>4, <2>5, <2>6
<1>2. GateIInv /\ [GateNext]_gateVars =>
        [\A c \in Payloads, i \in Infos : at[i] = "answered" =>
           LET said == matrix[i][Tool[c]] IN
           /\ Gate(c) => (at'[c] = "refused" <=> said = "version_too_low")
           /\ Answer(c) => (at'[c] = "noticed" <=> said = "unknown")]_gateVars
  BY <1>1
<1> QED BY <1>2, GateInductive, PTL DEF GateSpec, AnswersAgree

(* An answer without the notice was delivered to a Node-RED that honours the
   payload, unless the one that was probed was replaced or the probe ended
   between the two reads (version_gate.go). *)
THEOREM SilenceMeansSupport == GateSpec => SilentMeansSupported
<1>1. ASSUME GateIInv, [GateNext]_gateVars, NEW c \in Payloads, Answer(c), at'[c] = "silent",
             acted[c] = answered, c \notin raced
      PROVE  Supports(acted[c], Tool[c])
  <2> DEFINE min == nodered_min_version_for[Tool[c]]
  <2>1. c \in Callers
    OBVIOUS
  <2>2. CachedNodeRedVersion.known
    BY <1>1, <2>1 DEF Answer, Noticed, GoTo, GateIInv, GateTypeOK
  <2>3. probed /\ value.known
    BY <2>2 DEF CachedNodeRedVersion, Unknown
  <2>4. ~RefuseForVersion(Tool[c], value) /\ acted[c] \in Runtimes
    BY <1>1, <2>3 DEF GateIInv, GateInv, Answer
  <2>5. min \in Versions /\ value \in Versions
    BY <1>1, ToolAssumption, MinimaTyped DEF GateIInv, GateTypeOK, Tools
  <2>6. AtLeast(value, min)
    BY <2>3, <2>4 DEF RefuseForVersion
  <2>7. Rank(value) >= Rank(min)
    BY <2>3, <2>5, <2>6, AtLeastIsRank
  <2>8. value = ParseVersion(acted[c].says)
    BY <1>1, <2>3 DEF GateIInv, ValueInv
  <2>9. Rank(value) <= Rank(acted[c].real)
    BY <2>3, <2>4, <2>8, RuntimesAssumption
  <2>10. Rank(value) \in Nat /\ Rank(min) \in Nat /\ Rank(acted[c].real) \in Nat
    BY <2>3, <2>4, <2>5, AtLeastIsRank, MinimaTyped, ToolAssumption, RuntimesAssumption DEF Tools
  <2> QED BY <2>7, <2>9, <2>10 DEF Supports
<1>2. GateIInv /\ [GateNext]_gateVars =>
        [\A c \in Payloads : Answer(c) /\ at'[c] = "silent" =>
           \/ Supports(acted[c], Tool[c])
           \/ acted[c] # answered
           \/ c \in raced]_gateVars
  BY <1>1
<1> QED BY <1>2, GateInductive, PTL DEF GateSpec, SilentMeansSupported
===============================================================================
