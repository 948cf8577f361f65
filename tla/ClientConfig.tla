------------------------------ MODULE ClientConfig ------------------------------
(***************************************************************************)
(* nodered-mcp init (cmd/nodered-mcp/init.go): writes the server into the  *)
(* configuration file of an MCP client, beside what the user and the       *)
(* client itself keep there.                                               *)
(*                                                                         *)
(* Nothing locks the file: an editor, the client or a second init may save *)
(* it between any two steps.  The file is read twice, once to be merged    *)
(* and once to be copied to .bak; both files are replaced by a rename.     *)
(***************************************************************************)
EXTENDS Naturals

CONSTANTS
  Inits,        \* runs of nodered-mcp init
  Catalog,      \* the MCP clients it knows
  Writable,     \* those with a write path
  Wide,         \* a setting with a number that float64 cannot hold
  Narrowed,     \* what is left of it
  Contents,     \* the contents an editor saves
  Missing,      \* no file
  MaxSaves,     \* bound: how often an editor saves
  MaxFaults     \* bound: how many calls of the file system fail, runs are killed

Shapes == {"object", "blank", "invalid", "wrong"}
Settings == {Wide, Narrowed} \cup UNION {d.settings : d \in Contents}
Documents == [shape : Shapes, settings : SUBSET Settings, nodered : Inits \cup {Missing}]

ASSUME WritableAssumption == Writable \subseteq Catalog

ASSUME ContentsAssumption ==
  Contents \subseteq Documents /\ Missing \notin Documents \cup Inits

VARIABLES
  installed,    \* the clients with evidence of an installation
  file,         \* client -> content of its file
  bak,          \* client -> content of its .bak file
  temps,        \* init -> the temporary file it staged
  saves, faults,
  pc,           \* init -> where it is
  job,          \* init -> [mode, target]
  root,         \* init -> the merged content
  prev,         \* init -> what it read to be copied
  stale,        \* inits whose file was saved since they read it (history)
  overtaken,    \* inits whose file or .bak was since they read it again (history)
  unread        \* inits whose second read failed (history)

disk == <<file, bak, temps>>
history == <<stale, overtaken, unread>>
vars == <<installed, disk, saves, faults, pc, job, root, prev, history>>

-----------------------------------------------------------------------------
(* A content is [shape, settings, nodered]: an "object", a "blank" (also null), "invalid"
   JSON, or one whose root key is no object ("wrong"); nodered is the run that
   wrote the entry. *)
Blank == [shape |-> "blank", settings |-> {}, nodered |-> Missing]

(* What cannot be parsed is as good as empty: a mutant. *)
readAnything(data) == IF data = Missing \/ data.shape = "invalid" THEN Blank ELSE data

(* A missing file reads as a blank one. *)
parseJSONObject(data) == IF data = Missing THEN Blank ELSE data

Refused(data) == parseJSONObject(data).shape \in {"invalid", "wrong"}

(* JSON numbers pass through float64. *)
Decoded(settings) == {IF s = Wide THEN Narrowed ELSE s : s \in settings}

mergeServer(data, i) ==
  [shape |-> "object", settings |-> Decoded(parseJSONObject(data).settings), nodered |-> i]

detectClients(all) == IF all THEN Catalog ELSE installed

-----------------------------------------------------------------------------
Init ==
  /\ installed \in SUBSET Catalog
  /\ file \in [Catalog -> Contents \cup {Missing}]
  /\ \A c \in Catalog \ Writable : file[c] = Missing
  /\ bak = [c \in Catalog |-> Missing]
  /\ temps = [i \in Inits |-> Missing]
  /\ saves = 0 /\ faults = 0
  /\ pc = [i \in Inits |-> "start"]
  /\ job = [i \in Inits |-> Missing]
  /\ root = [i \in Inits |-> Missing]
  /\ prev = [i \in Inits |-> Missing]
  /\ stale = {} /\ overtaken = {} /\ unread = {}

GoTo(i, where) == pc' = [pc EXCEPT ![i] = where]

Fault == faults < MaxFaults /\ faults' = faults + 1

(* The flags, and the client that is picked. *)
runInit(i) ==
  /\ pc[i] = "start"
  /\ \E all, write, dry \in BOOLEAN :
       LET detected == detectClients(all) IN
       \/ /\ (write /\ dry) \/ detected = {}
          /\ GoTo(i, "refused") /\ UNCHANGED job
       \/ /\ ~(write /\ dry)
          /\ \E target \in detected :
               /\ job' = [job EXCEPT ![i] = [write |-> write, target |-> target]]
               /\ GoTo(i, IF ~write /\ ~dry THEN "printed"
                          ELSE IF target \in Writable THEN "read" ELSE "refused")
  /\ UNCHANGED <<installed, disk, saves, faults, root, prev, history>>

Target(i) == job[i].target

(* The first read, and the merge; a dry run stops here. *)
Read(i) ==
  /\ pc[i] = "read"
  /\ \/ /\ Refused(file[Target(i)])
        /\ GoTo(i, "refused") /\ UNCHANGED <<root, faults>>
     \/ /\ ~Refused(file[Target(i)])
        /\ root' = [root EXCEPT ![i] = mergeServer(file[Target(i)], i)]
        /\ GoTo(i, IF job[i].write THEN "mkdir" ELSE "previewed")
        /\ UNCHANGED faults
     \/ Fault /\ GoTo(i, "failed") /\ UNCHANGED root
  /\ UNCHANGED <<installed, disk, saves, job, prev, history>>

MkdirAll(i) ==
  /\ pc[i] = "mkdir"
  /\ \/ GoTo(i, "again") /\ UNCHANGED faults
     \/ Fault /\ GoTo(i, "failed")
  /\ UNCHANGED <<installed, disk, saves, job, root, prev, history>>

(* A .bak file that is there already is kept: a mutant. *)
ReadUnlessCopied(i) ==
  /\ pc[i] = "again"
  /\ LET c == Target(i) IN
     \/ /\ file[c] # Missing /\ bak[c] = Missing
        /\ prev' = [prev EXCEPT ![i] = file[c]]
        /\ GoTo(i, "stage bak")
     \/ /\ file[c] = Missing \/ bak[c] # Missing
        /\ GoTo(i, "stage") /\ UNCHANGED prev
  /\ UNCHANGED <<installed, disk, saves, faults, job, root, history>>

(* The second read; no file and no answer are the same to it. *)
ReadAgain(i) ==
  /\ pc[i] = "again"
  /\ \/ /\ file[Target(i)] # Missing
        /\ prev' = [prev EXCEPT ![i] = file[Target(i)]]
        /\ GoTo(i, "stage bak") /\ UNCHANGED <<faults, unread>>
     \/ /\ file[Target(i)] = Missing
        /\ GoTo(i, "stage") /\ UNCHANGED <<prev, faults, unread>>
     \/ /\ Fault /\ unread' = unread \cup {i}
        /\ GoTo(i, "stage") /\ UNCHANGED prev
  /\ UNCHANGED <<installed, disk, saves, job, root, stale, overtaken>>

(* atomicWriteFile: the temporary file is complete before it is renamed; a
   step that fails removes it. *)
Stage(i) ==
  /\ pc[i] \in {"stage bak", "stage"}
  /\ \/ /\ temps' = [temps EXCEPT ![i] = IF pc[i] = "stage" THEN root[i] ELSE prev[i]]
        /\ GoTo(i, IF pc[i] = "stage" THEN "rename" ELSE "rename bak")
        /\ UNCHANGED faults
     \/ Fault /\ GoTo(i, "failed") /\ UNCHANGED temps
  /\ UNCHANGED <<installed, file, bak, saves, job, root, prev, history>>

(* The runs that work on a client and have passed the points. *)
Passed(c, i, points) ==
  {j \in Inits \ {i} : pc[j] \in points /\ job[j].target = c}
Copying == {"stage bak", "rename bak", "stage", "rename"}

RenameBak(i) ==
  /\ pc[i] = "rename bak"
  /\ bak' = [bak EXCEPT ![Target(i)] = temps[i]]
  /\ temps' = [temps EXCEPT ![i] = Missing]
  /\ overtaken' = overtaken \cup Passed(Target(i), i, Copying)
  /\ GoTo(i, "stage")
  /\ UNCHANGED <<installed, file, saves, faults, job, root, prev, stale, unread>>

(* Somebody replaces the file of a client. *)
Replaced(c, i, content) ==
  /\ file' = [file EXCEPT ![c] = content]
  /\ overtaken' = overtaken \cup Passed(c, i, Copying)
  /\ stale' = stale \cup Passed(c, i, Copying \cup {"mkdir", "again"})

Rename(i) ==
  /\ pc[i] = "rename"
  /\ Replaced(Target(i), i, temps[i])
  /\ temps' = [temps EXCEPT ![i] = Missing]
  /\ GoTo(i, "written")
  /\ UNCHANGED <<installed, bak, saves, faults, job, root, prev, unread>>

RenameFails(i) ==
  /\ pc[i] \in {"rename bak", "rename"}
  /\ Fault
  /\ temps' = [temps EXCEPT ![i] = Missing]
  /\ GoTo(i, "failed")
  /\ UNCHANGED <<installed, file, bak, saves, job, root, prev, history>>

(* The process is killed: a temporary file stays behind. *)
Killed(i) ==
  /\ pc[i] \in Copying \cup {"mkdir", "again"}
  /\ Fault
  /\ GoTo(i, "killed")
  /\ UNCHANGED <<installed, disk, saves, job, root, prev, history>>

(* The user or the client (external) saves the file. *)
Save(c, content) ==
  /\ saves < MaxSaves /\ content # file[c]
  /\ saves' = saves + 1
  /\ Replaced(c, Missing, content)
  /\ UNCHANGED <<installed, bak, temps, faults, pc, job, root, prev, unread>>

Step(i) ==
  \/ runInit(i) \/ Read(i) \/ MkdirAll(i) \/ ReadAgain(i) \/ Stage(i)
  \/ RenameBak(i) \/ Rename(i) \/ RenameFails(i) \/ Killed(i)

Next ==
  \/ \E i \in Inits : Step(i)
  \/ \E c \in Writable, content \in Contents : Save(c, content)

Spec == Init /\ [][Next]_vars

-----------------------------------------------------------------------------
Points == {"start", "refused", "printed", "read", "previewed", "failed", "mkdir",
           "again", "stage bak", "rename bak", "stage", "rename", "written", "killed"}
Working == Copying \cup {"mkdir", "again"}

TypeOK ==
  /\ installed \subseteq Catalog
  /\ file \in [Catalog -> Documents \cup {Missing}]
  /\ bak \in [Catalog -> Documents \cup {Missing}]
  /\ temps \in [Inits -> Documents \cup {Missing}]
  /\ pc \in [Inits -> Points]
  /\ job \in [Inits -> [write : BOOLEAN, target : Catalog] \cup {Missing}]
  /\ root \in [Inits -> Documents \cup {Missing}]
  /\ prev \in [Inits -> Documents \cup {Missing}]
  /\ stale \subseteq Inits /\ overtaken \subseteq Inits /\ unread \subseteq Inits

JobInv ==
  \A i \in Inits : pc[i] \in Working \cup {"read"} =>
     job[i] \in [write : BOOLEAN, target : Writable] /\ Target(i) \in Writable

(* What a run will write is the merge of what is in the file. *)
RootInv ==
  \A i \in Inits : pc[i] \in Working =>
     /\ root[i] \in Documents
     /\ i \notin stale => /\ ~Refused(file[Target(i)])
                          /\ root[i] = mergeServer(file[Target(i)], i)

(* What a run read again is in the file, and then in the copy. *)
CopyInv ==
  \A i \in Inits :
     /\ pc[i] \in {"stage bak", "rename bak"} /\ i \notin overtaken
          => prev[i] = file[Target(i)]
     /\ pc[i] \in {"stage", "rename"} /\ i \notin overtaken \cup unread
          => file[Target(i)] \in {Missing, bak[Target(i)]}
     /\ pc[i] = "rename bak" => temps[i] = prev[i]
     /\ pc[i] = "rename" => temps[i] = root[i]

IInv == TypeOK /\ JobInv /\ RootInv /\ CopyInv

(* The content that a run replaces is in .bak, byte for byte, unless somebody
   replaced one of the two files after the run took its copy, or the copy
   could not be read (init.go:425-433: "we never silently overwrite"). *)
ReplacedIsBackedUp ==
  [][\A i \in Inits : Rename(i) =>
       LET c == Target(i) IN
       file[c] \in {Missing, bak[c]} \/ i \in overtaken \cup unread]_vars

(* A run leaves every setting of the file it replaces as it was, but for
   numbers that are too wide, unless the file was saved while it worked; and
   what it could not understand it does not replace (init.go:322-324). *)
SettingsSurvive ==
  [][\A i \in Inits : Rename(i) =>
       LET old == file[Target(i)] IN
       \/ old = Missing
       \/ /\ old.shape \in {"object", "blank"}
          /\ old.settings \ {Wide} \subseteq file'[Target(i)].settings
          /\ file'[Target(i)].settings \subseteq old.settings \cup {Narrowed}
       \/ i \in stale]_vars
=============================================================================
