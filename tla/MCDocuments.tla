----------------------------- MODULE MCDocuments -----------------------------
(***************************************************************************)
(* A tab t1 with an inject wired to a function that holds credentials, a   *)
(* tab t2 with an instance of the definition s1 (or without), the          *)
(* definition s1 with a member, a group and ports, and a global            *)
(* configuration node; calls of every kind over them, legal and not.       *)
(***************************************************************************)
EXTENDS Documents, TLC

CONSTANTS a, b

E(id, z) == [configEntry EXCEPT !.id = id, !.z = z]
Tab(id) == [configEntry EXCEPT !.id = id, !.type = "tab", !.tag = "label"]
Sub(id, ports) == [configEntry EXCEPT !.id = id, !.type = "subflow", !.ports = ports]
Inst(id, z, def) == [E(id, z) EXCEPT !.type = "instance", !.inst = def]
To(e, id) == [e EXCEPT !.wires = {<<0, id>>}]

N1 == [To(E("n1", "t1"), "n2") EXCEPT !.type = "inject"]
N2 == [E("n2", "t1") EXCEPT !.cred = "key"]
C1 == [E("c1", "t1") EXCEPT !.xy = FALSE]
I1 == Inst("i1", "t2", "s1")
P1 == E("p1", "s1")
R1 == [E("r1", "s1") EXCEPT !.type = "group"]
G1 == [E("g1", "") EXCEPT !.xy = FALSE]
Base == {Tab("t1"), Tab("t2"), N1, N2, C1, G1, P1, R1,
         Sub("s1", {<<"in", "p1">>, <<"out", "s1">>})}
MCStarts == {Base, Base \cup {I1}}
MCEditorAdds == {Inst("i2", "t1", "s1"), To(E("x1", "t1"), "n2")}

Doc(top, nodes) == [flowDoc EXCEPT !.top = top, !.nodes = nodes]
Header(id) == [configEntry EXCEPT !.id = id]
Def(id, ports, nodes) == Doc(Sub(id, ports), nodes)

Edit(op, id, more) == [op |-> op, flow |-> "t1", id |-> id] @@ more
NoArgs == [k \in {} |-> ""]
Add(n) == Edit("add_node", n.id, [node |-> n])
Update(id, patch) == Edit("update_node", id, [patch |-> patch])
Connect(id, port, to) == Edit("connect_nodes", id, [port |-> port, to |-> to])

MCEdits == {
  Add(To(E("n3", ""), "n2")),            Add(E("n2", "t1")),
  Add(E("n3", "t2")),                    Add(E("n3", "n1")),
  Add([E("n3", "t1") EXCEPT !.type = "exec"]),
  Update("n2", [tag |-> "new"]),         Update("n1", [wires |-> {<<0, "i1">>}]),
  Update("n2", [type |-> "instance", inst |-> "s1"]),
  Update("n2", [type |-> "exec", inst |-> ""]),
  Edit("delete_node", "n2", NoArgs),     Edit("delete_node", "i1", NoArgs),
  Connect("n2", 1, "n1"),                Connect("n2", 1000, "n1"),
  Edit("set_disabled", "t1", [off |-> "true"])}

\* A tab resubmitted without n1, with an entry of another tab, with a wire
\* out of the tab, with a new definition and its instance, with a forbidden
\* type in a new definition.
MCDocs == {
  Doc(Header("t1"), {N2}),
  Doc(Header("t1"), {N1, N2, E("i1", "")}),
  Doc(Header("t1"), {To(E("n1", ""), "g1")}),
  [Doc(Header("t1"), {Inst("i2", "", "s2")})
     EXCEPT !.subflows = {Def("s2", {}, {E("q1", ""), To(E("q2", ""), "q1")})}],
  [Doc(Header("t1"), {Inst("i2", "", "s2")})
     EXCEPT !.subflows = {Def("s2", {}, {[E("q1", "") EXCEPT !.type = "exec"]})}],
  [Doc(Header("t1"), {}) EXCEPT !.subflows = {Def("s2", {}, {E("q1", "t2")})}]}

MCWrites ==
  {[op |-> "update_flow", flow |-> "t1", doc |-> d] : d \in MCDocs}
    \cup {[op |-> "create_flow", flow |-> "t3", doc |-> Doc(Header(""), {n})] :
            n \in {E("m1", ""), To(E("m1", ""), "n1")}}
    \cup {[op |-> "delete_flow", flow |-> "t2"]}
    \cup {[op |-> "set_flows", entries |-> x, force |-> f] :
            x \in {{Tab("t1"), N1, N2}, {Tab("t1"), Inst("i1", "t1", "s1")}},
            f \in BOOLEAN}

MCSubflows ==
  {[op |-> "create_subflow", id |-> "s2", doc |-> Def("s2", {}, {n})] :
     n \in {Inst("q1", "", "s1"), To(E("q1", "s2"), "p1"), Inst("q1", "s2", "s3")}}
    \cup {[op |-> "update_subflow", id |-> "s1", doc |-> d] :
            d \in {[Def("s1", {<<"in", "p2">>}, {E("p2", "")}) EXCEPT !.groups = {R1}],
                   Def("s1", {<<"in", "p1">>}, {E("p2", "")})}}
    \cup {[op |-> "delete_subflow", id |-> "s1"],
          [op |-> "instantiate_subflow", flow |-> "t1", sub |-> "s1",
           node |-> E("", ""), new |-> "i3"]}

MCInjects == {[op |-> "inject_node", id |-> i, payload |-> p] :
                i \in {"n1", "n2"}, p \in BOOLEAN}

MCCalls == MCEdits \cup MCWrites \cup MCSubflows \cup MCInjects

ASSUME Ordinary

Perms == Permutations(Sessions)
=============================================================================
