--------------------------- MODULE ContextHelper ---------------------------
(***************************************************************************)
(* set_context (internal/mcp/setcontext*.go, tools_context.go): a payload  *)
(* reaches a context of Node-RED through a helper tab, an inject node      *)
(* wired to a function node, that the server keeps there.                  *)
(*                                                                         *)
(*    ctxHelperMu -> discover the helper -> [create the tab] -> inject     *)
(*                                                                         *)
(* Nothing but ctxHelperMu keeps the tab from changing between discovery   *)
(* and injection: editors and other processes do not take it, and a        *)
(* request of this server that was given up on is served without it.       *)
(***************************************************************************)
EXTENDS Naturals, Sequences, FiniteSets

CONSTANTS
  Sets,        \* calls of set_context
  Writes,      \* calls of the other tools that change the configuration
  Restores,    \* calls of restore_backup
  Editors,     \* deployments of somebody else: each happens at most once
  Canonical,   \* the fixed node ids of the helper
  None

Calls == Sets \cup Writes \cup Restores
(* A helper that does not get the fixed ids gets random ones: a call names
   the ids it would draw. *)
Ids == {Canonical} \cup Sets

ASSUME CallsAssumption ==
  /\ Sets \cap Writes = {}
  /\ Sets \cap Restores = {}
  /\ Writes \cap Restores = {}
  /\ None \notin Calls
  /\ Canonical \notin Sets
  /\ None # Canonical

(* What stands under some ids:
     "absent"   nothing
     "helper"   the unmodified helper
     "changed"  something else that an injection fires
     "inert"    something that no injection reaches: a disabled tab, or
                only the function node *)
Shapes == {"absent", "helper", "changed", "inert"}
Config == [Ids -> Shapes]

VARIABLES
  pc,         \* how far each call is
  target,     \* the helper a set_context found or chose
  tries,      \* its injections
  req,        \* the configuration request of each call
  shot,       \* the injection request of each set_context
  got,        \* what its payload was delivered to, and how
  want,       \* the backup a restore installs
  outcome,    \* what each handler returned
  mu,         \* Server.ctxHelperMu
  ctxHelper,  \* Server.ctxHelper, the published helper
  node,       \* the configuration Node-RED runs
  past,       \* all it has run
  touched,    \* the calls whose helper an outsider changed under their hands
  acted,      \* the editors that have deployed
  crashed

call == <<pc, target, tries, want, outcome, mu, ctxHelper>>
runtime == <<node, past, touched>>
vars == <<call, req, shot, got, runtime, acted, crashed>>

Holding == {"open", "create", "creating", "inject", "injecting", "writing"}
(* Between discovery and the answer to the injection. *)
Window == {"create", "creating", "inject", "injecting"}
Helpers(cfg) == {i \in Ids : cfg[i] = "helper"}

-----------------------------------------------------------------------------
(* A restore reads its backup before it waits for the lock. *)
Begin(c) ==
  /\ pc[c] = "idle"
  /\ pc' = [pc EXCEPT ![c] = "lock"]
  /\ IF c \in Restores
     THEN \E cfg \in past : want' = [want EXCEPT ![c] = cfg]
     ELSE UNCHANGED want
  /\ UNCHANGED <<target, tries, outcome, mu, ctxHelper, req, shot, got, runtime, acted, crashed>>

(* Mutant: a restore does not wait for ctxHelperMu. *)
LockUnlessRestore(c) ==
  /\ pc[c] = "lock"
  /\ IF c \in Restores THEN UNCHANGED mu ELSE mu = None /\ mu' = c
  /\ pc' = [pc EXCEPT ![c] = "open"]
  /\ UNCHANGED <<target, tries, want, outcome, ctxHelper, req, shot, got, runtime, acted, crashed>>

(* LockContext; ToolCalls has its steps. *)
Lock(c) ==
  /\ pc[c] = "lock"
  /\ mu = None
  /\ mu' = c
  /\ pc' = [pc EXCEPT ![c] = "open"]
  /\ UNCHANGED <<target, tries, want, outcome, ctxHelper, req, shot, got, runtime, acted, crashed>>

(* "no action was started" *)
NotStarted(c) ==
  /\ pc[c] = "lock"
  /\ pc' = [pc EXCEPT ![c] = "done"]
  /\ outcome' = [outcome EXCEPT ![c] = "error"]
  /\ UNCHANGED <<target, tries, want, mu, ctxHelper, req, shot, got, runtime, acted, crashed>>

Return(c, result) ==
  /\ pc' = [pc EXCEPT ![c] = "done"]
  /\ outcome' = [outcome EXCEPT ![c] = result]
  /\ mu' = None
  /\ UNCHANGED <<target, tries, want, req, shot, got, runtime, acted, crashed>>

(* Before a request is sent: the node policy, a target that is not the
   helper's, a configuration that cannot be read or backed up. *)
Refuse(c) ==
  /\ pc[c] \in {"open", "create"}
  /\ Return(c, "error")
  /\ UNCHANGED ctxHelper

(* Mutant: what was not answered in time is reported as a plain failure. *)
TimeoutAsError(c) ==
  /\ pc[c] \in Holding
  /\ Return(c, "error")
  /\ UNCHANGED ctxHelper

(* Mutant: the injection is repeated after any failure. *)
TimeoutInjectsAgain(c) ==
  /\ pc[c] \in Holding
  /\ IF pc[c] = "injecting" /\ tries[c] = 1
     THEN /\ pc' = [pc EXCEPT ![c] = "inject"]
          /\ UNCHANGED <<target, tries, want, outcome, mu, req, shot, got, runtime, acted, crashed>>
     ELSE Return(c, "transport")
  /\ UNCHANGED ctxHelper

(* An exchange breaks or the deadline passes.  What was sent stays sent. *)
Timeout(c) ==
  /\ pc[c] \in Holding
  /\ Return(c, "transport")
  /\ UNCHANGED ctxHelper

-----------------------------------------------------------------------------
(* set_context. *)

(* Mutant: every tab gets ids of its own. *)
NewIdsRandom(c, cfg) == c

(* The fixed ids, unless something else has them. *)
NewIds(c, cfg) == IF cfg[Canonical] = "absent" THEN Canonical ELSE c

(* Mutant: whatever has the label and the ids is the helper. *)
DiscoverByName(c) ==
  /\ c \in Sets
  /\ pc[c] = "open"
  /\ \/ \E i \in {j \in Ids : node[j] # "absent"} :
          /\ target' = [target EXCEPT ![c] = i]
          /\ ctxHelper' = i
          /\ pc' = [pc EXCEPT ![c] = "inject"]
     \/ /\ \A j \in Ids : node[j] = "absent"
        /\ target' = [target EXCEPT ![c] = NewIds(c, node)]
        /\ ctxHelper' = None
        /\ pc' = [pc EXCEPT ![c] = "create"]
  /\ UNCHANGED <<tries, want, outcome, mu, req, shot, got, runtime, acted, crashed>>

(* ensureContextHelperTarget reads the whole configuration each time and
   takes the first tab that is exactly the helper. *)
Discover(c) ==
  /\ c \in Sets
  /\ pc[c] = "open"
  /\ \/ \E i \in Helpers(node) :
          /\ target' = [target EXCEPT ![c] = i]
          /\ ctxHelper' = i
          /\ pc' = [pc EXCEPT ![c] = "inject"]
     \/ /\ Helpers(node) = {}
        /\ target' = [target EXCEPT ![c] = NewIds(c, node)]
        /\ ctxHelper' = None
        /\ pc' = [pc EXCEPT ![c] = "create"]
  /\ UNCHANGED <<tries, want, outcome, mu, req, shot, got, runtime, acted, crashed>>

(* CreateFlow of the complete tab: FlowWrites has its backup. *)
PostTab(c) ==
  /\ pc[c] = "create"
  /\ req' = [req EXCEPT ![c] = "inflight"]
  /\ pc' = [pc EXCEPT ![c] = "creating"]
  /\ UNCHANGED <<target, tries, want, outcome, mu, ctxHelper, shot, got, runtime, acted, crashed>>

TabAnswered(c) ==
  /\ pc[c] = "creating"
  /\ \/ /\ req[c] = "applied"
        /\ ctxHelper' = target[c]
        /\ pc' = [pc EXCEPT ![c] = "inject"]
        /\ UNCHANGED <<target, tries, want, outcome, mu, req, shot, got, runtime, acted, crashed>>
     \/ /\ req[c] = "refused"
        /\ Return(c, "error")
        /\ UNCHANGED ctxHelper

PostInject(c) ==
  /\ pc[c] = "inject"
  /\ shot' = [shot EXCEPT ![c] = "inflight"]
  /\ tries' = [tries EXCEPT ![c] = @ + 1]
  /\ pc' = [pc EXCEPT ![c] = "injecting"]
  /\ UNCHANGED <<target, want, outcome, mu, ctxHelper, req, got, runtime, acted, crashed>>

justProvisioned(c) == req[c] = "applied"

(* injectWithProvisioningRetry: a 404 of a helper this call has just created
   is answered with one more injection. *)
InjectAnswered(c) ==
  /\ pc[c] = "injecting"
  /\ UNCHANGED ctxHelper
  /\ \/ shot[c] = "delivered" /\ Return(c, "ok")
     \/ shot[c] = "refused" /\ Return(c, "error")
     \/ /\ shot[c] = "missing"
        /\ IF justProvisioned(c) /\ tries[c] = 1
           THEN /\ pc' = [pc EXCEPT ![c] = "inject"]
                /\ UNCHANGED <<target, tries, want, outcome, mu, req, shot, got, runtime, acted, crashed>>
           ELSE Return(c, "error")

-----------------------------------------------------------------------------
(* The other tools. *)

PostWrite(c) ==
  /\ c \in Writes \cup Restores
  /\ pc[c] = "open"
  /\ req' = [req EXCEPT ![c] = "inflight"]
  /\ pc' = [pc EXCEPT ![c] = "writing"]
  /\ UNCHANGED <<target, tries, want, outcome, mu, ctxHelper, shot, got, runtime, acted, crashed>>

(* A restore that succeeded forgets the helper. *)
WriteAnswered(c) ==
  /\ pc[c] = "writing"
  /\ \/ /\ req[c] = "applied"
        /\ Return(c, "ok")
        /\ ctxHelper' = IF c \in Restores THEN None ELSE ctxHelper
     \/ /\ req[c] = "refused"
        /\ Return(c, "error")
        /\ UNCHANGED ctxHelper

-----------------------------------------------------------------------------
(* Node-RED, and those who change it. *)

Run(cfg) == node' = cfg /\ past' = past \cup {cfg}

(* The calls whose helper cfg would change between discovery and answer. *)
Surprised(cfg) ==
  {c \in Sets : pc[c] \in Window /\ node[target[c]] # "absent" /\ cfg[target[c]] # node[target[c]]}

GaveUp(c) == pc[c] \notin {"creating", "writing"}

(* Somebody edits, disables, removes or mends one tab, or puts something of
   their own under the fixed ids. *)
Edits(cfg) ==
  LET there == {i \in Ids : cfg[i] # "absent"} IN
    { [cfg EXCEPT ![i] = s] : i \in there, s \in Shapes }
      \cup { [cfg EXCEPT ![Canonical] = s] : s \in {"changed", "inert"} }

(* What a request may turn the configuration into.  Node-RED refuses a tab
   whose node ids are in use. *)
Outcomes(c) ==
  CASE c \in Sets -> IF node[target[c]] = "absent"
                     THEN { [node EXCEPT ![target[c]] = "helper"] } ELSE {}
    [] c \in Restores -> { want[c] }
    [] OTHER -> Edits(node)

Serve(c) ==
  /\ req[c] = "inflight"
  /\ \E cfg \in Outcomes(c) :
       /\ Run(cfg)
       /\ touched' = IF GaveUp(c) THEN touched \cup Surprised(cfg) ELSE touched
  /\ req' = [req EXCEPT ![c] = "applied"]
  /\ UNCHANGED <<call, shot, got, acted, crashed>>

Reject(c) ==
  /\ req[c] = "inflight"
  /\ req' = [req EXCEPT ![c] = "refused"]
  /\ UNCHANGED <<call, shot, got, runtime, acted, crashed>>

(* An inject node under those ids fires. *)
Fire(c) ==
  /\ shot[c] = "inflight"
  /\ node[target[c]] \in {"helper", "changed"}
  /\ got' = [got EXCEPT ![c] = Append(@, [by |-> node[target[c]], late |-> pc[c] # "injecting"])]
  /\ shot' = [shot EXCEPT ![c] = "delivered"]
  /\ UNCHANGED <<call, req, runtime, acted, crashed>>

(* 404: there is none, or the router does not know it yet. *)
Miss(c) ==
  /\ shot[c] = "inflight"
  /\ shot' = [shot EXCEPT ![c] = "missing"]
  /\ UNCHANGED <<call, req, got, runtime, acted, crashed>>

RefuseInject(c) ==
  /\ shot[c] = "inflight"
  /\ shot' = [shot EXCEPT ![c] = "refused"]
  /\ UNCHANGED <<call, req, got, runtime, acted, crashed>>

EditorDeploys(e) ==
  /\ e \notin acted
  /\ acted' = acted \cup {e}
  /\ \E cfg \in Edits(node) : Run(cfg) /\ touched' = touched \cup Surprised(cfg)
  /\ UNCHANGED <<call, req, shot, got, crashed>>

(* The server is restarted: what it knew is gone, what it sent is not. *)
Crash ==
  /\ ~crashed
  /\ crashed' = TRUE
  /\ pc' = [c \in Calls |-> IF pc[c] \in {"idle", "done"} THEN pc[c] ELSE "gone"]
  /\ mu' = None
  /\ ctxHelper' = None
  /\ UNCHANGED <<target, tries, want, outcome, req, shot, got, runtime, acted>>

-----------------------------------------------------------------------------
Init ==
  /\ pc = [c \in Calls |-> "idle"]
  /\ target = [c \in Sets |-> Canonical]
  /\ tries = [c \in Sets |-> 0]
  /\ req = [c \in Calls |-> "none"]
  /\ shot = [c \in Sets |-> "none"]
  /\ got = [c \in Sets |-> <<>>]
  /\ outcome = [c \in Calls |-> "none"]
  /\ mu = None
  /\ ctxHelper = None
  /\ \E s \in Shapes : node = [i \in Ids |-> IF i = Canonical THEN s ELSE "absent"]
  /\ past = {node}
  /\ want = [c \in Restores |-> node]
  /\ touched = {}
  /\ acted = {}
  /\ crashed = FALSE

Handler(c) ==
  \/ Begin(c) \/ Lock(c) \/ NotStarted(c) \/ Refuse(c) \/ Timeout(c)
  \/ Discover(c) \/ PostTab(c) \/ TabAnswered(c) \/ PostInject(c) \/ InjectAnswered(c)
  \/ PostWrite(c) \/ WriteAnswered(c)

Next ==
  \/ \E c \in Calls : Handler(c) \/ Serve(c) \/ Reject(c)
  \/ \E c \in Sets : Fire(c) \/ Miss(c) \/ RefuseInject(c)
  \/ \E e \in Editors : EditorDeploys(e)
  \/ Crash

Spec == Init /\ [][Next]_vars

-----------------------------------------------------------------------------
PCs == {"idle", "lock", "done", "gone"} \cup Holding

TypeOK ==
  /\ pc \in [Calls -> PCs]
  /\ target \in [Sets -> Ids]
  /\ tries \in [Sets -> 0..2]
  /\ req \in [Calls -> {"none", "inflight", "applied", "refused"}]
  /\ shot \in [Sets -> {"none", "inflight", "delivered", "missing", "refused"}]
  /\ got \in [Sets -> Seq([by : Shapes, late : BOOLEAN])]
  /\ want \in [Restores -> Config]
  /\ outcome \in [Calls -> {"none", "ok", "error", "transport"}]
  /\ mu \in Calls \cup {None}
  /\ ctxHelper \in Ids \cup {None}
  /\ node \in Config
  /\ past \subseteq Config
  /\ touched \subseteq Sets
  /\ acted \subseteq Editors
  /\ crashed \in BOOLEAN

(* A payload is delivered at most once, although a 404 is answered with a
   second injection and nobody withdraws an injection given up on. *)
DeliveredAtMostOnce == \A c \in Sets : Len(got[c]) <= 1

(* A payload that reaches something other than the verified helper was
   served after its call gave up, or somebody outside ctxHelperMu changed
   the helper after its discovery. *)
OnlyOutsidersDivert ==
  \A c \in Sets : \A k \in 1..Len(got[c]) :
    got[c][k].by = "helper" \/ got[c][k].late \/ c \in touched

(* Nobody replaces or forgets the published helper of a set_context that is
   about to use it. *)
HelperIsPublished ==
  \A c \in Sets : pc[c] \in {"inject", "injecting"} => ctxHelper = target[c]

(* The fixed ids are an idempotency key: as long as nothing else ever stood
   under them there is one helper at most, however late a creation is
   served and whatever was restored. *)
OneHelper ==
  (\A cfg \in past : cfg[Canonical] \in {"absent", "helper"})
    => \A i, j \in Helpers(node) : i = j

(* What set_context answers means what it means for a single write, although
   it makes two of them. *)
Promise == INSTANCE WritePromise WITH
  Calls <- Sets,
  effect <- [c \in Sets |-> IF got[c] = <<>> THEN "none" ELSE "done"],
  answer <- [c \in Sets |-> outcome[c]]

KeepsPromise == Promise!Spec

-----------------------------------------------------------------------------
(* The inductive invariant. *)

MutexInv == \A c \in Calls : pc[c] \in Holding <=> mu = c

(* Which requests are out at which step of a set_context ... *)
SetStep(c) ==
  /\ pc[c] # "writing"
  /\ pc[c] \in {"idle", "lock", "open", "create"} => req[c] = "none"
  /\ pc[c] \in {"idle", "lock", "open", "create", "creating"} => shot[c] = "none" /\ tries[c] = 0
  /\ pc[c] = "inject" => tries[c] <= 1 /\ shot[c] \in {"none", "missing"}
  /\ pc[c] \in {"inject", "injecting"} => req[c] \in {"none", "applied"}

(* ... and of another tool. *)
OtherStep(c) ==
  /\ pc[c] \notin Window
  /\ pc[c] \in {"idle", "lock", "open"} => req[c] = "none"

StepInv ==
  /\ \A c \in Sets : SetStep(c)
  /\ \A c \in Calls \ Sets : OtherStep(c)

DeliveryInv ==
  \A c \in Sets :
    /\ shot[c] = "delivered" => Len(got[c]) = 1
    /\ shot[c] # "delivered" => got[c] = <<>>

OutcomeInv ==
  \A c \in Sets :
    /\ outcome[c] # "none" => pc[c] = "done"
    /\ outcome[c] = "ok" => shot[c] = "delivered"
    /\ outcome[c] = "error" => shot[c] \in {"none", "missing", "refused"}

(* While nobody outside interferes, what was found or created is there. *)
VerifiedInv ==
  \A c \in Sets \ touched :
    \/ pc[c] \notin {"creating", "inject", "injecting"}
    \/ pc[c] = "creating" /\ req[c] # "applied"
    \/ node[target[c]] = "helper"

(* Random ids are drawn only beside something else under the fixed ones. *)
IdsInv ==
  (\A cfg \in past : cfg[Canonical] \in {"absent", "helper"}) =>
    /\ \A c \in Sets : target[c] = Canonical
    /\ \A cfg \in past : \A i \in Ids \ {Canonical} : cfg[i] = "absent"

PastInv == node \in past /\ \A c \in Restores : want[c] \in past

IInv ==
  /\ TypeOK
  /\ MutexInv
  /\ StepInv
  /\ DeliveryInv
  /\ OutcomeInv
  /\ VerifiedInv
  /\ IdsInv
  /\ PastInv
  /\ HelperIsPublished
  /\ OnlyOutsidersDivert
=============================================================================
