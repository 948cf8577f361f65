------------------------------ MODULE VersionGate ------------------------------
(***************************************************************************)
(* The version of Node-RED as the server knows it (internal/nodered/       *)
(* version.go): probed once per process, read by get_runtime_info          *)
(* (internal/mcp/tools_runtime_info.go, capability.go) and by the gate of  *)
(* the tools that deliver a payload (version_gate.go, tools_flows.go,      *)
(* tools_context.go).                                                      *)
(*                                                                         *)
(* The probe is made under a sync.Once, by the goroutine that server.New   *)
(* starts or by the first get_runtime_info; the gate never probes and      *)
(* never waits.  A payload call reads the version twice: before it acts,   *)
(* and when it words its answer.                                           *)
(***************************************************************************)
EXTENDS Naturals, Sequences

CONSTANTS
  Banner,       \* the goroutine of server.New
  Infos,        \* get_runtime_info calls
  Payloads,     \* inject_node (with a payload) and set_context calls
  Tool,         \* payload call -> its tool
  Runtimes,     \* Node-REDs: [real |-> version, says |-> components of its
                \* "version" setting]
  Junk,         \* a component that is no number
  Nobody,
  MaxReplaced   \* bound: how often Node-RED is replaced

VARIABLES
  loopback,     \* the URL looks like a test fixture: no probe at start
  runtime,      \* the Node-RED that runs
  replaced,     \* how often it was replaced
  once,         \* the Once: "free", the caller inside, or "done"
  value,        \* versionCache.value
  probed,       \* versionCache.probed
  at,           \* call -> where it is
  matrix,       \* get_runtime_info -> the capabilities it reported
  acted,        \* payload call -> the Node-RED that took its payload
  answered,     \* the Node-RED that answered the probe, or Nobody (history)
  raced         \* payload calls the probe ended under (history)

world == <<loopback, runtime, replaced>>
cache == <<once, value, probed>>
history == <<answered, raced>>
gateVars == <<world, cache, at, matrix, acted, history>>

Probers == {Banner} \cup Infos
Callers == Probers \cup Payloads

ASSUME CallersAssumption ==
  Probers \cap Payloads = {} /\ Probers \cap {"free", "done"} = {}

-----------------------------------------------------------------------------
(* Versions. *)

Triple(a, b, c) == [known |-> TRUE, major |-> a, minor |-> b, patch |-> c]
Unknown == [known |-> FALSE, major |-> 0, minor |-> 0, patch |-> 0]

(* A component that is missing, no number, or behind one that is no number
   counts as zero. *)
Component(s, i) ==
  IF i \in DOMAIN s /\ \A j \in 1..i : s[j] # Junk THEN s[i] ELSE 0

ParseVersion(s) ==
  IF s = <<>> \/ s[1] = Junk THEN Unknown
  ELSE Triple(s[1], Component(s, 2), Component(s, 3))

(* Any component that is larger will do: a mutant. *)
AtLeastSomewhere(v, min) ==
  v.known /\ (v.major >= min.major \/ v.minor > min.minor \/ v.patch > min.patch)

AtLeast(v, min) ==
  /\ v.known
  /\ \/ v.major > min.major
     \/ v.major = min.major /\ v.minor > min.minor
     \/ v.major = min.major /\ v.minor = min.minor /\ v.patch >= min.patch

nodered_min_version_for ==
  [set_context |-> Triple(5, 0, 0), inject_node |-> Triple(5, 0, 0),
   get_diagnostics |-> Triple(3, 1, 0)]

(* The order of versions, for components below a hundred. *)
Rank(v) == 10000 * v.major + 100 * v.minor + v.patch
Versions == [known : BOOLEAN, major : 0..99, minor : 0..99, patch : 0..99]

(* What a Node-RED says of its version is true, or less than the truth. *)
ASSUME RuntimesAssumption ==
  \A r \in Runtimes : /\ Rank(r.real) \in Nat
                      /\ ParseVersion(r.says) \in Versions
                      /\ ParseVersion(r.says).known => Rank(ParseVersion(r.says)) <= Rank(r.real)

ASSUME ToolAssumption == \A c \in Payloads : Tool[c] \in DOMAIN nodered_min_version_for

(* Not knowing the version is no reason to refuse. *)
RefuseForVersion(tool, running) ==
  running.known /\ ~AtLeast(running, nodered_min_version_for[tool])

classifyVersionedTool(tool, running) ==
  IF ~running.known THEN "unknown"
  ELSE IF AtLeast(running, nodered_min_version_for[tool]) THEN "ok" ELSE "version_too_low"

noderedCapabilityMatrix(running) ==
  [tool \in DOMAIN nodered_min_version_for |-> classifyVersionedTool(tool, running)]

-----------------------------------------------------------------------------
GateInit ==
  /\ loopback \in BOOLEAN
  /\ runtime \in Runtimes
  /\ replaced = 0
  /\ once = "free" /\ value = Unknown /\ probed = FALSE
  /\ at = [c \in Callers |-> IF c = Banner /\ loopback THEN "absent" ELSE "start"]
  /\ matrix = [c \in Infos |-> Nobody]
  /\ acted = [c \in Payloads |-> Nobody]
  /\ answered = Nobody /\ raced = {}

GoTo(c, where) == at' = [at EXCEPT ![c] = where]

(* NodeRedVersion: the first caller probes, the others wait for it without
   regard to their own deadlines. *)
EnterOnce(c) ==
  /\ c \in Probers /\ at[c] = "start"
  /\ \/ once = "free" /\ once' = c /\ GoTo(c, "probing")
     \/ once = "done" /\ GoTo(c, "known") /\ UNCHANGED once
  /\ UNCHANGED <<world, value, probed, matrix, acted, history>>

(* GET /settings answers, or fails, or takes too long. *)
Detect(c) ==
  /\ c \in Probers /\ at[c] = "probing"
  /\ \/ value' = ParseVersion(runtime.says) /\ answered' = runtime
     \/ value' = Unknown /\ UNCHANGED answered
  /\ GoTo(c, "store")
  /\ UNCHANGED <<world, once, probed, matrix, acted, raced>>

(* A probe that failed is made again: a mutant. *)
LeaveOnceIfKnown(c) ==
  /\ c \in Probers /\ at[c] = "store"
  /\ probed' = value.known
  /\ once' = IF value.known THEN "done" ELSE "free"
  /\ raced' = raced \cup {d \in Payloads : at[d] \in {"act", "word"}}
  /\ GoTo(c, "known")
  /\ UNCHANGED <<world, value, matrix, acted, answered>>

(* The value is stored before probed. *)
LeaveOnce(c) ==
  /\ c \in Probers /\ at[c] = "store"
  /\ probed' = TRUE
  /\ once' = "done"
  /\ raced' = raced \cup {d \in Payloads : at[d] \in {"act", "word"}}
  /\ GoTo(c, "known")
  /\ UNCHANGED <<world, value, matrix, acted, answered>>

(* The log line of the banner, or the answer of get_runtime_info. *)
Report(c) ==
  /\ c \in Probers /\ at[c] = "known"
  /\ matrix' = IF c \in Infos THEN [matrix EXCEPT ![c] = noderedCapabilityMatrix(value)]
               ELSE matrix
  /\ GoTo(c, "answered")
  /\ UNCHANGED <<world, cache, acted, history>>

-----------------------------------------------------------------------------
CachedNodeRedVersion == IF probed THEN value ELSE Unknown

Gate(c) ==
  /\ c \in Payloads /\ at[c] = "start"
  /\ GoTo(c, IF RefuseForVersion(Tool[c], CachedNodeRedVersion) THEN "refused" ELSE "act")
  /\ UNCHANGED <<world, cache, matrix, acted, history>>

(* The lookups, the lock and the requests of the tool. *)
Act(c) ==
  /\ c \in Payloads /\ at[c] = "act"
  /\ \/ acted' = [acted EXCEPT ![c] = runtime] /\ GoTo(c, "word")
     \/ GoTo(c, "failed") /\ UNCHANGED acted
  /\ UNCHANGED <<world, cache, matrix, history>>

(* UnknownVersionNotice depends on what is known by now. *)
Noticed == ~CachedNodeRedVersion.known

Answer(c) ==
  /\ c \in Payloads /\ at[c] = "word"
  /\ GoTo(c, IF Noticed THEN "noticed" ELSE "silent")
  /\ UNCHANGED <<world, cache, matrix, acted, history>>

(* Node-RED (external) is stopped and another version started. *)
Replace(r) ==
  /\ replaced < MaxReplaced /\ r # runtime
  /\ runtime' = r /\ replaced' = replaced + 1
  /\ UNCHANGED <<loopback, cache, at, matrix, acted, history>>

CallerStep(c) ==
  \/ EnterOnce(c) \/ Detect(c) \/ LeaveOnce(c) \/ Report(c)
  \/ Gate(c) \/ Act(c) \/ Answer(c)

GateNext == (\E c \in Callers : CallerStep(c)) \/ \E r \in Runtimes : Replace(r)

GateSpec == GateInit /\ [][GateNext]_gateVars

-----------------------------------------------------------------------------
Matrices == [DOMAIN nodered_min_version_for -> {"ok", "unknown", "version_too_low"}]

Points == {"absent", "start", "probing", "store", "known", "answered",
           "act", "word", "refused", "failed", "noticed", "silent"}

GateTypeOK ==
  /\ once \in Probers \cup {"free", "done"}
  /\ value \in Versions /\ probed \in BOOLEAN
  /\ at \in [Callers -> Points]
  /\ matrix \in [Infos -> Matrices \cup {Nobody}]
  /\ acted \in [Payloads -> Runtimes \cup {Nobody}]
  /\ runtime \in Runtimes
  /\ answered \in Runtimes \cup {Nobody} /\ raced \subseteq Payloads

(* One caller at most is inside the Once, and what it found is final. *)
OnceInv ==
  /\ probed <=> once = "done"
  /\ \A c \in Probers : /\ at[c] \in {"probing", "store"} => once = c
                        /\ at[c] \in {"known", "answered"} => probed

(* What was reported is what is known. *)
MatrixInv ==
  \A i \in Infos : at[i] = "answered" => matrix[i] = noderedCapabilityMatrix(value)

(* What is known is what the one that was probed said. *)
ValueInv ==
  value.known => answered \in Runtimes /\ value = ParseVersion(answered.says)

(* A call that the probe did not end under has passed the gate. *)
GateInv ==
  \A c \in Payloads :
     /\ at[c] \in {"act", "word"} /\ c \notin raced /\ probed
          => ~RefuseForVersion(Tool[c], value)
     /\ at[c] = "word" => acted[c] \in Runtimes

GateIInv == GateTypeOK /\ OnceInv /\ MatrixInv /\ ValueInv /\ GateInv

Supports(r, tool) == Rank(r.real) >= Rank(nodered_min_version_for[tool])

(* A payload that was delivered without the notice reached a Node-RED that
   honours it, unless the one that was probed was replaced, or the probe ended
   between the two reads of the call (version_gate.go:78-84 promises the
   notice; tools_flows.go:493 and 538, tools_context.go:117 and 205). *)
SilentMeansSupported ==
  [][\A c \in Payloads : Answer(c) /\ at'[c] = "silent" =>
       \/ Supports(acted[c], Tool[c])
       \/ acted[c] # answered
       \/ c \in raced]_gateVars

(* What get_runtime_info reported stays what the gate does, in spite of slow
   probes, failures and restarts of Node-RED: too low is refused, ok and
   unknown are not, and
   only unknown is noticed (capability.go:119-133, version_gate.go:60-104). *)
AnswersAgree ==
  [][\A c \in Payloads, i \in Infos : at[i] = "answered" =>
       LET said == matrix[i][Tool[c]] IN
       /\ Gate(c) => (at'[c] = "refused" <=> said = "version_too_low")
       /\ Answer(c) => (at'[c] = "noticed" <=> said = "unknown")]_gateVars
=============================================================================
