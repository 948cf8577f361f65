--------------------------- MODULE ClientConfigProofs ---------------------------
(***************************************************************************)
(* Proofs, for any number of runs of init, editors and failures, that the  *)
(* content a run replaces is kept in the .bak file, and that its settings  *)
(* survive in the file.                                                    *)
(***************************************************************************)
EXTENDS ClientConfig, TLAPS

LEMMA BlankTyped == Blank \in Documents
  BY DEF Blank, Documents, Shapes

LEMMA MergeTyped ==
  ASSUME NEW data \in Documents \cup {Missing}, NEW i \in Inits
  PROVE  /\ parseJSONObject(data) \in Documents
         /\ mergeServer(data, i) \in Documents
<1>1. parseJSONObject(data) \in Documents
  BY BlankTyped DEF parseJSONObject
<1>2. parseJSONObject(data).settings \subseteq Settings
  BY <1>1 DEF Documents
<1>3. Decoded(parseJSONObject(data).settings) \subseteq Settings
  BY <1>2 DEF Decoded, Settings
<1> QED BY <1>1, <1>3 DEF mergeServer, Documents, Shapes

(* Where a step may be, and what it may not touch. *)
LEMMA PointsApart ==
  /\ Copying \subseteq Working /\ Working \subseteq Points
  /\ Working \cap {"start", "refused", "printed", "read", "previewed", "failed",
                   "written", "killed"} = {}
  BY DEF Copying, Working, Points

-----------------------------------------------------------------------------
LEMMA InitInv == Init => IInv
<1> SUFFICES ASSUME Init PROVE IInv
  OBVIOUS
<1>1. file \in [Catalog -> Documents \cup {Missing}]
  BY ContentsAssumption DEF Init
<1>2. TypeOK
  BY <1>1 DEF Init, TypeOK, Points
<1>3. JobInv /\ RootInv /\ CopyInv
  BY DEF Init, JobInv, RootInv, CopyInv, Working, Copying
<1> QED BY <1>2, <1>3 DEF IInv

LEMMA TypeStep == IInv /\ [Next]_vars => TypeOK'
<1> SUFFICES ASSUME IInv, [Next]_vars PROVE TypeOK'
  OBVIOUS
<1> USE DEF IInv, TypeOK, disk, history
<1>1. CASE UNCHANGED vars
  BY <1>1 DEF vars
<1>2. ASSUME NEW c \in Writable, NEW content \in Contents, Save(c, content) PROVE TypeOK'
  <2>1. content \in Documents
    BY ContentsAssumption
  <2> QED BY <1>2, <2>1 DEF Save, Replaced, Passed
<1>3. ASSUME NEW i \in Inits, Step(i) PROVE TypeOK'
  <2>1. CASE runInit(i)
    <3>1. job' \in [Inits -> [write : BOOLEAN, target : Catalog] \cup {Missing}]
      BY <2>1 DEF runInit, detectClients
    <3>2. pc' \in [Inits -> Points]
      BY <2>1 DEF runInit, GoTo, Points
    <3> QED BY <2>1, <3>1, <3>2 DEF runInit
  <2>2. CASE Read(i)
    <3>1. Target(i) \in Catalog
      BY <2>2, WritableAssumption DEF Read, JobInv
    <3>2. mergeServer(file[Target(i)], i) \in Documents
      BY <3>1, MergeTyped
    <3>3. root' \in [Inits -> Documents \cup {Missing}]
      BY <2>2, <3>2 DEF Read
    <3>4. pc' \in [Inits -> Points]
      BY <2>2 DEF Read, GoTo, Points
    <3> QED BY <2>2, <3>3, <3>4 DEF Read
  <2>3. CASE MkdirAll(i)
    BY <2>3 DEF MkdirAll, GoTo, Points
  <2>4. CASE ReadAgain(i)
    <3>1. Target(i) \in Catalog
      BY <2>4, WritableAssumption DEF ReadAgain, JobInv, Working
    <3>2. prev' \in [Inits -> Documents \cup {Missing}]
      BY <2>4, <3>1 DEF ReadAgain
    <3> QED BY <2>4, <3>2 DEF ReadAgain, GoTo, Points
  <2>5. CASE Stage(i)
    BY <2>5 DEF Stage, GoTo, Points
  <2>6. CASE RenameBak(i)
    BY <2>6 DEF RenameBak, Passed, GoTo, Points
  <2>7. CASE Rename(i)
    BY <2>7 DEF Rename, Replaced, Passed, GoTo, Points
  <2>8. CASE RenameFails(i)
    BY <2>8 DEF RenameFails, GoTo, Points
  <2>9. CASE Killed(i)
    BY <2>9 DEF Killed, GoTo, Points
  <2> QED BY <1>3, <2>1, <2>2, <2>3, <2>4, <2>5, <2>6, <2>7, <2>8, <2>9 DEF Step
<1> QED BY <1>1, <1>2, <1>3 DEF Next

(* What the client is called does not change once it is picked. *)
LEMMA JobStays ==
  ASSUME IInv, [Next]_vars, NEW j \in Inits, pc[j] # "start"
  PROVE  job'[j] = job[j] /\ Target(j)' = Target(j)
<1>1. CASE UNCHANGED vars
  BY <1>1 DEF vars, Target
<1>2. ASSUME NEW c \in Writable, NEW content \in Contents, Save(c, content)
      PROVE  job'[j] = job[j]
  BY <1>2 DEF Save
<1>3. ASSUME NEW i \in Inits, Step(i) PROVE job'[j] = job[j]
  <2>1. CASE runInit(i)
    BY <2>1 DEF runInit, IInv, TypeOK
  <2>2. CASE Read(i) \/ MkdirAll(i) \/ ReadAgain(i) \/ Stage(i)
    BY <2>2 DEF Read, MkdirAll, ReadAgain, Stage
  <2>3. CASE RenameBak(i) \/ Rename(i) \/ RenameFails(i) \/ Killed(i)
    BY <2>3 DEF RenameBak, Rename, RenameFails, Killed
  <2> QED BY <1>3, <2>1, <2>2, <2>3 DEF Step
<1> QED BY <1>1, <1>2, <1>3 DEF Next, Target

LEMMA JobStep == IInv /\ [Next]_vars => JobInv'
<1> SUFFICES ASSUME IInv, [Next]_vars, NEW j \in Inits, pc'[j] \in Working \cup {"read"}
             PROVE  job'[j] \in [write : BOOLEAN, target : Writable] /\ Target(j)' \in Writable
  BY DEF JobInv
<1> USE DEF IInv, TypeOK
<1>1. CASE pc[j] \in Working \cup {"read"}
  BY <1>1, JobStays DEF JobInv, Working, Copying
<1>2. CASE pc[j] \notin Working \cup {"read"}
  <2>1. CASE UNCHANGED vars
    BY <1>2, <2>1 DEF vars
  <2>2. ASSUME NEW c \in Writable, NEW content \in Contents, Save(c, content) PROVE FALSE
    BY <1>2, <2>2 DEF Save
  <2>3. ASSUME NEW i \in Inits, Step(i)
        PROVE  job'[j] \in [write : BOOLEAN, target : Writable] /\ Target(j)' \in Writable
    <3>1. CASE runInit(i)
      <4>1. i = j /\ pc[i] = "start" /\ pc'[j] = "read"
        BY <1>2, <3>1 DEF runInit, GoTo, Working, Copying
      <4>2. PICK write \in BOOLEAN, target \in Writable :
              job' = [job EXCEPT ![i] = [write |-> write, target |-> target]]
        BY <3>1, <4>1 DEF runInit, GoTo
      <4>3. job'[j] = [write |-> write, target |-> target] 
        BY <4>1, <4>2
      <4> QED BY <4>3 DEF Target
    <3>2. CASE Read(i) \/ MkdirAll(i) \/ ReadAgain(i) \/ Stage(i)
      BY <1>2, <3>2 DEF Read, MkdirAll, ReadAgain, Stage, GoTo, Working, Copying
    <3>3. CASE RenameBak(i) \/ Rename(i) \/ RenameFails(i) \/ Killed(i)
      BY <1>2, <3>3 DEF RenameBak, Rename, RenameFails, Killed, GoTo, Working, Copying
    <3> QED BY <2>3, <3>1, <3>2, <3>3 DEF Step
  <2> QED BY <2>1, <2>2, <2>3 DEF Next
<1> QED BY <1>1, <1>2

(* Who replaces a file overtakes the runs that have read it. *)
LEMMA FileStays ==
  ASSUME IInv, [Next]_vars, NEW j \in Inits,
         pc[j] \in Working, pc'[j] \in Working
  PROVE  /\ j \notin stale' => j \notin stale /\ file'[Target(j)] = file[Target(j)]
         /\ pc[j] \in Copying /\ j \notin overtaken' =>
              /\ j \notin overtaken
              /\ file'[Target(j)] = file[Target(j)]
              /\ bak'[Target(j)] = bak[Target(j)] \/ RenameBak(j)
<1> USE DEF IInv, TypeOK
<1>0. Target(j) = job[j].target /\ Target(j) \in Catalog
  BY WritableAssumption DEF JobInv, Target
<1>1. CASE UNCHANGED vars
  BY <1>1 DEF vars, disk, history
<1>2. ASSUME NEW c \in Writable, NEW content \in Contents, Save(c, content)
      PROVE  /\ j \notin stale' => j \notin stale /\ file'[Target(j)] = file[Target(j)]
             /\ pc[j] \in Copying /\ j \notin overtaken' =>
                  j \notin overtaken /\ file'[Target(j)] = file[Target(j)]
             /\ bak' = bak
  BY <1>0, <1>2, ContentsAssumption, WritableAssumption
     DEF Save, Replaced, Passed, Working
<1>3. ASSUME NEW i \in Inits, Step(i)
      PROVE  /\ j \notin stale' => j \notin stale /\ file'[Target(j)] = file[Target(j)]
             /\ pc[j] \in Copying /\ j \notin overtaken' =>
                  /\ j \notin overtaken
                  /\ file'[Target(j)] = file[Target(j)]
                  /\ bak'[Target(j)] = bak[Target(j)] \/ RenameBak(j)
  <2>1. CASE Rename(i)
    <3>1. i # j
      BY <2>1 DEF Rename, GoTo, Working, Copying
    <3>2. Target(i) = job[i].target
      BY DEF Target
    <3> QED BY <1>0, <2>1, <3>1, <3>2 DEF Rename, Replaced, Passed, Working
  <2>2. CASE RenameBak(i)
    <3>1. Target(i) = job[i].target
      BY DEF Target
    <3> QED BY <1>0, <2>2, <3>1 DEF RenameBak, Passed
  <2>3. CASE runInit(i) \/ Read(i) \/ MkdirAll(i) \/ ReadAgain(i) \/ Stage(i)
    BY <2>3 DEF runInit, Read, MkdirAll, ReadAgain, Stage, disk, history
  <2>4. CASE RenameFails(i) \/ Killed(i)
    BY <2>4 DEF RenameFails, Killed, disk, history
  <2> QED BY <1>3, <2>1, <2>2, <2>3, <2>4 DEF Step
<1> QED BY <1>1, <1>2, <1>3 DEF Next

LEMMA RootStep == IInv /\ [Next]_vars => RootInv'
<1> SUFFICES ASSUME IInv, [Next]_vars, NEW j \in Inits, pc'[j] \in Working
             PROVE  /\ root'[j] \in Documents
                    /\ j \notin stale' => /\ ~Refused(file'[Target(j)'])
                                          /\ root'[j] = mergeServer(file'[Target(j)'], j)
  BY DEF RootInv
<1> USE DEF IInv, TypeOK
<1>1. CASE pc[j] \in Working
  <2>1. root'[j] = root[j]
    <3>1. ASSUME NEW i \in Inits, Step(i) PROVE root'[j] = root[j]
      <4>1. CASE Read(i)
        BY <1>1, <4>1 DEF Read, Working, Copying
      <4>2. CASE runInit(i) \/ MkdirAll(i) \/ ReadAgain(i) \/ Stage(i)
        BY <4>2 DEF runInit, MkdirAll, ReadAgain, Stage
      <4>3. CASE RenameBak(i) \/ Rename(i) \/ RenameFails(i) \/ Killed(i)
        BY <4>3 DEF RenameBak, Rename, RenameFails, Killed
      <4> QED BY <3>1, <4>1, <4>2, <4>3 DEF Step
    <3> QED BY <3>1 DEF Next, Save, vars
  <2>2. Target(j)' = Target(j)
    BY <1>1, JobStays DEF Working, Copying
  <2> QED BY <1>1, <2>1, <2>2, FileStays DEF RootInv
<1>2. CASE pc[j] \notin Working
  <2>1. Read(j)
    <3>1. ASSUME NEW i \in Inits, Step(i) PROVE i = j /\ Read(i)
      <4>1. CASE runInit(i)
        BY <1>2, <4>1 DEF runInit, GoTo, Working, Copying
      <4>2. CASE MkdirAll(i) \/ ReadAgain(i) \/ Stage(i)
        BY <1>2, <4>2 DEF MkdirAll, ReadAgain, Stage, GoTo, Working, Copying
      <4>3. CASE RenameBak(i) \/ Rename(i) \/ RenameFails(i) \/ Killed(i)
        BY <1>2, <4>3 DEF RenameBak, Rename, RenameFails, Killed, GoTo, Working, Copying
      <4>4. CASE Read(i)
        BY <1>2, <4>4 DEF Read, GoTo, Working, Copying
      <4> QED BY <3>1, <4>1, <4>2, <4>3, <4>4 DEF Step
    <3> QED BY <1>2, <3>1 DEF Next, Save, vars
  <2>2. /\ ~Refused(file[Target(j)])
        /\ root'[j] = mergeServer(file[Target(j)], j)
        /\ file' = file /\ Target(j)' = Target(j)
    BY <2>1 DEF Read, GoTo, Working, Copying, disk, Target
  <2>3. Target(j) \in Catalog
    BY <2>1, WritableAssumption DEF Read, JobInv
  <2> QED BY <2>2, <2>3, MergeTyped
<1> QED BY <1>1, <1>2

LEMMA CopyStep == IInv /\ [Next]_vars => CopyInv'
<1> SUFFICES ASSUME IInv, [Next]_vars, NEW j \in Inits
             PROVE  /\ pc'[j] \in {"stage bak", "rename bak"} /\ j \notin overtaken'
                         => prev'[j] = file'[Target(j)']
                    /\ pc'[j] \in {"stage", "rename"} /\ j \notin overtaken' \cup unread'
                         => file'[Target(j)'] \in {Missing, bak'[Target(j)']}
                    /\ pc'[j] = "rename bak" => temps'[j] = prev'[j]
                    /\ pc'[j] = "rename" => temps'[j] = root'[j]
  BY DEF CopyInv
<1> USE DEF IInv, TypeOK
<1> DEFINE Goal == /\ pc'[j] \in {"stage bak", "rename bak"} /\ j \notin overtaken'
                         => prev'[j] = file'[Target(j)']
                   /\ pc'[j] \in {"stage", "rename"} /\ j \notin overtaken' \cup unread'
                         => file'[Target(j)'] \in {Missing, bak'[Target(j)']}
                   /\ pc'[j] = "rename bak" => temps'[j] = prev'[j]
                   /\ pc'[j] = "rename" => temps'[j] = root'[j]
<1>1. /\ pc[j] \in {"stage bak", "rename bak"} /\ j \notin overtaken
           => prev[j] = file[Target(j)]
      /\ pc[j] \in {"stage", "rename"} /\ j \notin overtaken \cup unread
           => file[Target(j)] \in {Missing, bak[Target(j)]}
      /\ pc[j] = "rename bak" => temps[j] = prev[j]
      /\ pc[j] = "rename" => temps[j] = root[j]
  BY DEF CopyInv
<1>2. pc[j] \in Copying /\ pc'[j] \in Copying /\ j \notin overtaken' =>
        /\ j \notin overtaken
        /\ Target(j)' = Target(j)
        /\ file'[Target(j)] = file[Target(j)]
        /\ bak'[Target(j)] = bak[Target(j)] \/ RenameBak(j)
  BY FileStays, JobStays DEF Working, Copying
<1>3. ASSUME pc'[j] = pc[j], temps'[j] = temps[j], prev'[j] = prev[j], root'[j] = root[j],
             unread \subseteq unread'
      PROVE  Goal
  <2>1. CASE pc[j] \in Copying
    <3>1. ~RenameBak(j)
      BY <1>3 DEF RenameBak, GoTo
    <3> QED BY <1>1, <1>2, <1>3, <2>1, <3>1 DEF Copying
  <2>2. CASE pc[j] \notin Copying
    BY <1>3, <2>2 DEF Copying
  <2> QED BY <2>1, <2>2
<1>4. CASE UNCHANGED vars
  BY <1>3, <1>4 DEF vars, disk, history
<1>5. ASSUME NEW c \in Writable, NEW content \in Contents, Save(c, content) PROVE Goal
  BY <1>3, <1>5 DEF Save
<1>6. ASSUME NEW i \in Inits, Step(i), i # j PROVE Goal
  <2>1. CASE runInit(i) \/ Read(i) \/ MkdirAll(i) \/ ReadAgain(i) \/ Stage(i)
    BY <1>3, <1>6, <2>1 DEF runInit, Read, MkdirAll, ReadAgain, Stage, GoTo, disk, history
  <2>2. CASE RenameBak(i) \/ Rename(i) \/ RenameFails(i) \/ Killed(i)
    BY <1>3, <1>6, <2>2 DEF RenameBak, Rename, RenameFails, Killed, GoTo, disk, history
  <2> QED BY <1>6, <2>1, <2>2 DEF Step
<1>7. ASSUME Step(j) PROVE Goal
  <2>1. CASE runInit(j) \/ Read(j) \/ MkdirAll(j)
    BY <2>1 DEF runInit, Read, MkdirAll, GoTo
  <2>2. CASE ReadAgain(j)
    <3>1. Target(j)' = Target(j) /\ Target(j) \in Catalog
      BY <2>2, WritableAssumption DEF ReadAgain, JobInv, Working, Target
    <3> QED BY <2>2, <3>1 DEF ReadAgain, GoTo, disk
  <2>3. CASE Stage(j)
    <3>1. CASE pc[j] = "stage bak"
      BY <1>1, <1>2, <2>3, <3>1 DEF Stage, GoTo, Copying, history
    <3>2. CASE pc[j] = "stage"
      BY <1>1, <1>2, <2>3, <3>2 DEF Stage, GoTo, Copying, history, RenameBak
    <3> QED BY <2>3, <3>1, <3>2 DEF Stage
  <2>4. CASE RenameBak(j)
    <3>1. pc'[j] = "stage" /\ pc[j] = "rename bak"
      BY <2>4 DEF RenameBak, GoTo
    <3>2. Target(j) \in Catalog /\ Target(j)' = Target(j)
      BY <2>4, <3>1, WritableAssumption DEF RenameBak, JobInv, Working, Copying, Target
    <3>3. bak'[Target(j)] = prev[j] /\ file' = file
      BY <1>1, <2>4, <3>1, <3>2 DEF RenameBak
    <3> QED BY <1>1, <1>2, <3>1, <3>2, <3>3 DEF Copying
  <2>5. CASE Rename(j) \/ RenameFails(j) \/ Killed(j)
    BY <2>5 DEF Rename, RenameFails, Killed, GoTo
  <2> QED BY <1>7, <2>1, <2>2, <2>3, <2>4, <2>5 DEF Step
<1> QED BY <1>4, <1>5, <1>6, <1>7 DEF Next

LEMMA IInvStep == IInv /\ [Next]_vars => IInv'
  BY TypeStep, JobStep, RootStep, CopyStep DEF IInv

(* The invariant of init: what a run staged belongs to what it read. *)
THEOREM Inductive == Spec => []IInv
  BY InitInv, IInvStep, PTL DEF Spec

-----------------------------------------------------------------------------
(* The content that a run replaces is in .bak, unless one of the two files was
   replaced since the run read it again, or that read failed (init.go,
   writeJSONObject). *)
THEOREM ReplacedIsSaved == Spec => ReplacedIsBackedUp
<1>1. ASSUME IInv, NEW i \in Inits, Rename(i)
      PROVE  file[Target(i)] \in {Missing, bak[Target(i)]} \/ i \in overtaken \cup unread
  BY <1>1 DEF IInv, CopyInv, Rename
<1>2. IInv /\ [Next]_vars =>
        [\A i \in Inits : Rename(i) =>
           LET c == Target(i) IN
           file[c] \in {Missing, bak[c]} \/ i \in overtaken \cup unread]_vars
  BY <1>1
<1> QED BY <1>2, Inductive, PTL DEF Spec, ReplacedIsBackedUp

(* A run keeps the settings of the file it replaces, but for numbers that are
   too wide, unless the file was saved while it worked (init.go, mergeServer). *)
THEOREM SettingsAreKept == Spec => SettingsSurvive
<1>1. ASSUME IInv, NEW i \in Inits, Rename(i), i \notin stale
      PROVE  LET old == file[Target(i)] IN
             \/ old = Missing
             \/ /\ old.shape \in {"object", "blank"}
                /\ old.settings \ {Wide} \subseteq file'[Target(i)].settings
                /\ file'[Target(i)].settings \subseteq old.settings \cup {Narrowed}
  <2> DEFINE old == file[Target(i)]
  <2>1. Target(i) \in Catalog /\ pc[i] = "rename" /\ pc[i] \in Working
    BY <1>1, WritableAssumption DEF IInv, JobInv, Rename, Working, Copying
  <2>2. file'[Target(i)] = mergeServer(old, i)
    BY <1>1, <2>1 DEF IInv, TypeOK, RootInv, CopyInv, Rename, Replaced
  <2>3. ~Refused(old) /\ old \in Documents \cup {Missing}
    BY <1>1, <2>1 DEF IInv, TypeOK, RootInv
  <2>4. CASE old # Missing
    <3>1. parseJSONObject(old) = old /\ old.shape \in Shapes
      BY <2>3, <2>4 DEF parseJSONObject, Documents
    <3>2. old.shape \in {"object", "blank"}
      BY <2>3, <3>1 DEF Refused, Shapes
    <3>3. file'[Target(i)].settings = Decoded(old.settings)
      BY <2>2, <3>1 DEF mergeServer
    <3>4. /\ old.settings \ {Wide} \subseteq Decoded(old.settings)
          /\ Decoded(old.settings) \subseteq old.settings \cup {Narrowed}
      BY DEF Decoded
    <3> QED BY <3>2, <3>3, <3>4
  <2> QED BY <2>4
<1>2. IInv /\ [Next]_vars =>
        [\A i \in Inits : Rename(i) =>
           LET old == file[Target(i)] IN
           \/ old = Missing
           \/ /\ old.shape \in {"object", "blank"}
              /\ old.settings \ {Wide} \subseteq file'[Target(i)].settings
              /\ file'[Target(i)].settings \subseteq old.settings \cup {Narrowed}
           \/ i \in stale]_vars
  BY <1>1
<1> QED BY <1>2, Inductive, PTL DEF Spec, SettingsSurvive
=============================================================================
