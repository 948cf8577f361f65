--------------------------- MODULE BackupsProofs ---------------------------
(***************************************************************************)
(* Proofs about Backups, for any number of processes and readers, any      *)
(* limit and any clock.                                                    *)
(***************************************************************************)
EXTENDS Backups, FiniteSetTheorems, WellFoundedInduction, TLAPS

(* The steps that take no name. *)
Quiet == UNCHANGED <<taken, saves>>

LEMMA QuietOrStamp == [Next]_vars => Quiet \/ \E p \in Procs : Stamp(p)
<1> USE DEF Quiet, saving, directory, reading
<1> SUFFICES ASSUME [Next]_vars PROVE Quiet \/ \E p \in Procs : Stamp(p)
  OBVIOUS
<1>1. ASSUME NEW p \in Procs,
             Written(p) \/ WriteFails(p) \/ List(p) \/ ListFails(p) \/ Remove(p)
               \/ RemoveFails(p) \/ SaveReturns(p) \/ Deployed(p) \/ Crash(p)
      PROVE  Quiet
  BY <1>1 DEF Written, WriteFails, List, ListFails, Remove, RemoveFails, SaveReturns, Deployed, Crash
<1>2. ASSUME NEW r \in Readers, Resolve(r) \/ Read(r) PROVE Quiet
  BY <1>2 DEF Resolve, Read
<1>3. CASE Tick \/ SetBack
  BY <1>3 DEF Tick, SetBack
<1>4. CASE UNCHANGED vars
  BY <1>4 DEF vars
<1> QED BY <1>1, <1>2, <1>3, <1>4 DEF Next

LEMMA TypeInit == Init => TypeOK
  BY FS_EmptySet DEF Init, TypeOK, Snapshots, Names, NoName

(* The name that a process takes next. *)
NextName(p) == <<now, seq[p] + 1>>

LEMMA StampFacts ==
  ASSUME TypeOK, NEW p \in Procs, Stamp(p)
  PROVE  /\ NextName(p) \in Names
         /\ Snapshots' = Snapshots \cup {NextName(p)}
         /\ \A m \in Snapshots : m # NextName(p) => taken'[m] = taken[m]
         /\ taken'[NextName(p)].at = saves + 1
         /\ taken'[NextName(p)].by = TakenBy(NextName(p)) \cup {p}
         /\ saves' = saves + 1
  BY DEF TypeOK, Stamp, Record, Snapshots, NextName, Names

LEMMA TypeStamp ==
  ASSUME TypeOK, NEW p \in Procs, Stamp(p)
  PROVE  TypeOK'
<1> DEFINE n == NextName(p)
<1>1. /\ n \in Names /\ Snapshots' = Snapshots \cup {n}
      /\ \A m \in Snapshots : m # n => taken'[m] = taken[m]
      /\ taken'[n].at = saves + 1 /\ taken'[n].by = TakenBy(n) \cup {p} /\ saves' = saves + 1
  BY StampFacts
<1>2. taken'[n] = [by |-> TakenBy(n) \cup {p}, at |-> saves + 1]
  BY DEF Stamp, Record, NextName, Snapshots
<1>3. TakenBy(n) \in SUBSET Procs
  BY DEF TypeOK, TakenBy
<1>4. \A m \in Snapshots' : taken'[m] \in [by : SUBSET Procs, at : Nat]
  BY <1>1, <1>2, <1>3 DEF TypeOK
<1>5. IsFiniteSet(Snapshots')
  BY <1>1, FS_AddElement DEF TypeOK
<1>6. doomed' \in [Procs -> SUBSET Snapshots'] /\ seen' \in [Readers -> SUBSET Names]
  BY <1>1 DEF TypeOK, Stamp, reading
<1>7. files' \subseteq Snapshots' /\ torn' \subseteq files'
  BY <1>1 DEF TypeOK, Stamp, NextName
<1> QED BY <1>1, <1>4, <1>5, <1>6, <1>7 DEF TypeOK, Stamp, reading, NextName

LEMMA TypeStep == TypeOK /\ [Next]_vars => TypeOK'
<1> SUFFICES ASSUME TypeOK, [Next]_vars PROVE TypeOK'
  OBVIOUS
<1>1. CASE Quiet
  <2> USE <1>1 DEF Quiet, TypeOK, Snapshots, saving, directory, reading
  <2>1. ASSUME NEW p \in Procs, Written(p) \/ WriteFails(p) PROVE TypeOK'
    BY <2>1 DEF Written, WriteFails, Fault
  <2>2. ASSUME NEW p \in Procs, List(p) \/ ListFails(p) PROVE TypeOK'
    <3>1. Surplus(files) \in SUBSET DOMAIN taken
      BY DEF Surplus
    <3> QED BY <2>2, <3>1 DEF List, ListFails, Fault
  <2>3. ASSUME NEW p \in Procs, Remove(p) \/ RemoveFails(p) PROVE TypeOK'
    BY <2>3 DEF Remove, RemoveFails, Fault
  <2>4. ASSUME NEW p \in Procs, SaveReturns(p) \/ Deployed(p) \/ Crash(p) PROVE TypeOK'
    BY <2>4 DEF SaveReturns, Deployed, Crash, Fault
  <2>5. ASSUME NEW r \in Readers, Resolve(r) \/ Read(r) PROVE TypeOK'
    BY <2>5 DEF Resolve, Read
  <2>6. CASE Tick \/ SetBack
    BY <2>6 DEF Tick, SetBack
  <2>7. CASE UNCHANGED vars
    BY <2>7 DEF vars
  <2>8. ASSUME NEW p \in Procs, Stamp(p) PROVE TypeOK'
    BY <2>8, TypeStamp
  <2> QED BY <2>1, <2>2, <2>3, <2>4, <2>5, <2>6, <2>7, <2>8 DEF Next
<1>2. ASSUME NEW p \in Procs, Stamp(p) PROVE TypeOK'
  BY <1>2, TypeStamp
<1> QED BY <1>1, <1>2, QuietOrStamp

(* A name once taken stays taken, and the count of later names grows. *)
LEMMA NewerGrows ==
  ASSUME TypeOK, [Next]_vars
  PROVE  /\ Snapshots \subseteq Snapshots'
         /\ \A n : /\ Cardinality(Newer(n)) \in Nat
                   /\ Cardinality(Newer(n)') \in Nat
                   /\ Cardinality(Newer(n)) <= Cardinality(Newer(n)')
<1>1. Snapshots \subseteq Snapshots'
  <2>1. CASE Quiet
    BY <2>1 DEF Quiet, Snapshots
  <2>2. ASSUME NEW p \in Procs, Stamp(p) PROVE Snapshots \subseteq Snapshots'
    BY <2>2, StampFacts
  <2> QED BY <2>1, <2>2, QuietOrStamp
<1>2. IsFiniteSet(Snapshots')
  BY TypeStep DEF TypeOK
<1>3. ASSUME NEW n
      PROVE /\ Cardinality(Newer(n)) \in Nat /\ Cardinality(Newer(n)') \in Nat
            /\ Cardinality(Newer(n)) <= Cardinality(Newer(n)')
  <2>1. Newer(n)' \subseteq Snapshots' /\ Newer(n) \subseteq Newer(n)'
    BY <1>1 DEF Newer
  <2>2. IsFiniteSet(Newer(n)')
    BY <1>2, <2>1, FS_Subset
  <2>3. IsFiniteSet(Newer(n)) /\ Cardinality(Newer(n)) <= Cardinality(Newer(n)')
    BY <2>1, <2>2, FS_Subset
  <2> QED BY <2>2, <2>3, FS_CardinalityType
<1> QED BY <1>1, <1>3

(* What a process finds to be surplus has Keep later names. *)
LEMMA SurplusIsOld ==
  ASSUME TypeOK, NEW n \in Surplus(files)
  PROVE  Cardinality(Newer(n)) >= Keep
<1> DEFINE listed == { m \in files : Later(m, n) }
<1>1. listed \subseteq Newer(n) /\ Newer(n) \subseteq Snapshots
  BY DEF TypeOK, Newer
<1>2. IsFiniteSet(Newer(n))
  BY <1>1, FS_Subset DEF TypeOK
<1>3. Cardinality(listed) <= Cardinality(Newer(n)) /\ IsFiniteSet(listed)
  BY <1>1, <1>2, FS_Subset
<1>4. Cardinality(listed) >= Keep
  BY DEF Surplus
<1>5. Cardinality(listed) \in Nat /\ Cardinality(Newer(n)) \in Nat
  BY <1>2, <1>3, FS_CardinalityType
<1> QED BY <1>3, <1>4, <1>5, KeepAssumption

LEMMA DoomedStep == TypeOK /\ DoomedInv /\ [Next]_vars => DoomedInv'
<1> SUFFICES ASSUME TypeOK, DoomedInv, [Next]_vars,
                    NEW p \in Procs, NEW n \in doomed'[p]
             PROVE  Cardinality(Newer(n)') >= Keep
  BY DEF DoomedInv
<1> USE DEF saving, directory, reading
<1>1. n \in doomed[p] \/ n \in Surplus(files)
  <2>1. ASSUME NEW q \in Procs, List(q) PROVE n \in doomed[p] \/ n \in Surplus(files)
    BY <2>1 DEF List, TypeOK
  <2>2. ASSUME NEW q \in Procs, Remove(q) \/ RemoveFails(q) \/ Crash(q) PROVE n \in doomed[p]
    BY <2>2 DEF Remove, RemoveFails, Crash, TypeOK
  <2>3. ASSUME NEW q \in Procs, Stamp(q) \/ Written(q) \/ WriteFails(q) \/ ListFails(q)
                                 \/ SaveReturns(q) \/ Deployed(q)
        PROVE n \in doomed[p]
    BY <2>3 DEF Stamp, Written, WriteFails, ListFails, SaveReturns, Deployed
  <2>4. ASSUME NEW r \in Readers, Resolve(r) \/ Read(r) PROVE n \in doomed[p]
    BY <2>4 DEF Resolve, Read
  <2>5. CASE Tick \/ SetBack \/ UNCHANGED vars
    BY <2>5 DEF Tick, SetBack, vars
  <2> QED BY <2>1, <2>2, <2>3, <2>4, <2>5 DEF Next
<1>2. Cardinality(Newer(n)) >= Keep
  BY <1>1, SurplusIsOld DEF DoomedInv
<1> QED BY <1>2, NewerGrows, KeepAssumption

LEMMA PruneStep == TypeOK /\ DoomedInv /\ PruneKeepsNewest /\ [Next]_vars => PruneKeepsNewest'
<1> SUFFICES ASSUME TypeOK, DoomedInv, PruneKeepsNewest, [Next]_vars,
                    NEW n \in Snapshots' \ files'
             PROVE  Cardinality(Newer(n)') >= Keep
  BY DEF PruneKeepsNewest
<1> USE DEF saving, directory, reading
<1>1. \/ n \in Snapshots \ files
      \/ \E p \in Procs : n \in doomed[p]
  <2>1. ASSUME NEW p \in Procs, Stamp(p) PROVE n \in Snapshots \ files
    BY <2>1, StampFacts DEF Stamp, NextName
  <2>2. ASSUME NEW p \in Procs, Remove(p) PROVE n \in Snapshots \ files \/ n \in doomed[p]
    BY <2>2 DEF Remove, Snapshots
  <2>3. ASSUME NEW p \in Procs, Written(p) \/ WriteFails(p) \/ List(p) \/ ListFails(p) \/ RemoveFails(p)
                                 \/ SaveReturns(p) \/ Deployed(p) \/ Crash(p)
        PROVE n \in Snapshots \ files
    BY <2>3 DEF Written, WriteFails, List, ListFails, RemoveFails, SaveReturns, Deployed, Crash, Snapshots
  <2>4. ASSUME NEW r \in Readers, Resolve(r) \/ Read(r) PROVE n \in Snapshots \ files
    BY <2>4 DEF Resolve, Read, Snapshots
  <2>5. CASE Tick \/ SetBack \/ UNCHANGED vars
    BY <2>5 DEF Tick, SetBack, vars, Snapshots
  <2> QED BY <2>1, <2>2, <2>3, <2>4, <2>5 DEF Next
<1>2. Cardinality(Newer(n)) >= Keep
  BY <1>1 DEF PruneKeepsNewest, DoomedInv
<1> QED BY <1>2, NewerGrows, KeepAssumption

LEMMA OwnStep == TypeOK /\ OwnInv /\ [Next]_vars => OwnInv'
<1> SUFFICES ASSUME TypeOK, OwnInv, [Next]_vars, NEW p \in Procs
             PROVE  /\ pc'[p] # "idle" => own'[p] \in Snapshots'
                    /\ pc'[p] \in {"prune", "remove", "deploy"} /\ TakenBy(own[p])' = {p}
                         => own'[p] \notin torn'
  BY DEF OwnInv
<1> USE DEF TypeOK, OwnInv, saving, directory, reading
<1>1. ASSUME NEW q \in Procs, Stamp(q)
      PROVE  /\ pc'[p] # "idle" => own'[p] \in Snapshots'
             /\ pc'[p] \in {"prune", "remove", "deploy"} /\ TakenBy(own[p])' = {p}
                  => own'[p] \notin torn'
  <2>1. CASE p = q
    BY <1>1, <2>1, StampFacts DEF Stamp, NextName
  <2>2. CASE p # q
    <3>1. pc'[p] = pc[p] /\ own'[p] = own[p] /\ torn' = torn \cup {NextName(q)}
      BY <1>1, <2>2 DEF Stamp, NextName
    <3>2. own[p] = NextName(q) => q \in TakenBy(own[p])'
      BY <1>1, <3>1, StampFacts DEF TakenBy
    <3>3. own[p] # NextName(q) /\ own[p] \in Snapshots => TakenBy(own[p])' = TakenBy(own[p])
      BY <1>1, <3>1, StampFacts DEF TakenBy
    <3>4. Snapshots \subseteq Snapshots'
      BY NewerGrows
    <3> QED BY <2>2, <3>1, <3>2, <3>3, <3>4
  <2> QED BY <2>1, <2>2
<1>2. CASE Quiet
  <2>0. TakenBy(own[p])' = IF own'[p] \in Snapshots THEN taken[own'[p]].by ELSE {}
    BY <1>2 DEF TakenBy, Quiet, Snapshots
  <2>1. ASSUME NEW q \in Procs, Written(q)
        PROVE /\ pc'[p] # "idle" => own'[p] \in Snapshots'
              /\ pc'[p] \in {"prune", "remove", "deploy"} /\ TakenBy(own[p])' = {p}
                   => own'[p] \notin torn'
    BY <1>2, <2>0, <2>1 DEF Written, Quiet, Snapshots, TakenBy
  <2>2. ASSUME NEW q \in Procs, WriteFails(q) \/ List(q) \/ ListFails(q) \/ SaveReturns(q) \/ Deployed(q) \/ Crash(q)
        PROVE /\ pc'[p] # "idle" => own'[p] \in Snapshots'
              /\ pc'[p] \in {"prune", "remove", "deploy"} /\ TakenBy(own[p])' = {p}
                   => own'[p] \notin torn'
    BY <1>2, <2>0, <2>2 DEF WriteFails, List, ListFails, SaveReturns, Deployed, Crash, Quiet, Snapshots, TakenBy
  <2>3. ASSUME NEW q \in Procs, Remove(q) \/ RemoveFails(q)
        PROVE /\ pc'[p] # "idle" => own'[p] \in Snapshots'
              /\ pc'[p] \in {"prune", "remove", "deploy"} /\ TakenBy(own[p])' = {p}
                   => own'[p] \notin torn'
    BY <1>2, <2>0, <2>3 DEF Remove, RemoveFails, Quiet, Snapshots, TakenBy
  <2>4. CASE Tick \/ SetBack \/ UNCHANGED vars
    BY <1>2, <2>0, <2>4 DEF Tick, SetBack, vars, Quiet, Snapshots, TakenBy
  <2>5. ASSUME NEW r \in Readers, Resolve(r) \/ Read(r)
        PROVE /\ pc'[p] # "idle" => own'[p] \in Snapshots'
              /\ pc'[p] \in {"prune", "remove", "deploy"} /\ TakenBy(own[p])' = {p}
                   => own'[p] \notin torn'
    BY <1>2, <2>0, <2>5 DEF Resolve, Read, Quiet, Snapshots, TakenBy
  <2> QED BY <1>1, <2>1, <2>2, <2>3, <2>4, <2>5 DEF Next
<1> QED BY <1>1, <1>2, QuietOrStamp

(* What a step that takes no name can do to the clock and the counters. *)
LEMMA QuietClock ==
  ASSUME TypeOK, [Next]_vars, Quiet, backs' = 0
  PROVE  /\ backs = 0
         /\ now' >= now
         /\ \A p \in Procs : now' = now => seq'[p] = seq[p]
<1>0. now \in Nat /\ now' \in Nat /\ backs \in Nat
  BY TypeStep DEF TypeOK
<1> USE DEF Quiet, saving, directory, reading
<1>1. ASSUME NEW q \in Procs, Crash(q) PROVE backs = 0 /\ now' > now
  BY <1>0, <1>1 DEF Crash
<1>2. ASSUME NEW q \in Procs, Stamp(q) PROVE FALSE
  BY <1>2 DEF Stamp, TypeOK
<1>3. ASSUME NEW q \in Procs, Written(q) \/ WriteFails(q) \/ List(q) \/ ListFails(q) \/ Remove(q)
                               \/ RemoveFails(q) \/ SaveReturns(q) \/ Deployed(q)
      PROVE backs' = backs /\ now' = now /\ seq' = seq
  BY <1>3 DEF Written, WriteFails, List, ListFails, Remove, RemoveFails, SaveReturns, Deployed
<1>4. ASSUME NEW r \in Readers, Resolve(r) \/ Read(r) PROVE backs' = backs /\ now' = now /\ seq' = seq
  BY <1>4 DEF Resolve, Read
<1>5. Tick => backs' = backs /\ now' > now
  BY <1>0 DEF Tick
<1>6. ~SetBack
  BY <1>0 DEF SetBack
<1>7. UNCHANGED vars => backs' = backs /\ now' = now /\ seq' = seq
  BY DEF vars
<1>8. \/ backs = 0 /\ now' > now
      \/ backs' = backs /\ now' = now /\ seq' = seq
  BY <1>1, <1>2, <1>3, <1>4, <1>5, <1>6, <1>7 DEF Next
<1> QED BY <1>0, <1>8

LEMMA ClockStep == TypeOK /\ ClockInv /\ [Next]_vars => ClockInv'
<1> SUFFICES ASSUME TypeOK, ClockInv, [Next]_vars, backs' = 0
             PROVE  /\ \A n \in Snapshots' :
                         /\ n[1] <= now'
                         /\ taken'[n].at <= saves'
                         /\ \A p \in Procs : p \in taken'[n].by /\ n[1] = now' => n[2] <= seq'[p]
                    /\ \A m, n \in Snapshots' : m[1] > n[1] => taken'[m].at > taken'[n].at
                    /\ \A m, n \in Snapshots', p \in Procs :
                         m[1] = n[1] /\ m[2] > n[2] /\ taken'[m].by = {p} /\ taken'[n].by = {p}
                           => taken'[m].at > taken'[n].at
  BY DEF ClockInv
<1>0. \A n \in Snapshots : n[1] \in Nat /\ n[2] \in Nat /\ taken[n].at \in Nat
  BY DEF TypeOK, Names
<1>1. CASE Quiet
  <2>1. backs = 0 /\ now' >= now /\ Snapshots' = Snapshots /\ taken' = taken /\ saves' = saves
    BY <1>1, QuietClock DEF Quiet, Snapshots
  <2>2. ASSUME NEW n \in Snapshots, NEW p \in Procs, p \in taken[n].by, n[1] = now'
        PROVE  n[2] <= seq'[p]
    <3>1. n[1] <= now
      BY <2>1 DEF ClockInv
    <3>2. now' = now
      BY <1>0, <2>1, <2>2, <3>1 DEF TypeOK
    <3>3. seq'[p] = seq[p]
      BY <1>1, <3>2, QuietClock
    <3> QED BY <2>1, <2>2, <3>2, <3>3 DEF ClockInv
  <2>3. \A n \in Snapshots : n[1] <= now'
    BY <1>0, <2>1, TypeStep DEF ClockInv, TypeOK
  <2> QED BY <2>1, <2>2, <2>3 DEF ClockInv
<1>2. ASSUME NEW q \in Procs, Stamp(q)
      PROVE /\ \A n \in Snapshots' :
                 /\ n[1] <= now'
                 /\ taken'[n].at <= saves'
                 /\ \A p \in Procs : p \in taken'[n].by /\ n[1] = now' => n[2] <= seq'[p]
            /\ \A m, n \in Snapshots' : m[1] > n[1] => taken'[m].at > taken'[n].at
            /\ \A m, n \in Snapshots', p \in Procs :
                 m[1] = n[1] /\ m[2] > n[2] /\ taken'[m].by = {p} /\ taken'[n].by = {p}
                   => taken'[m].at > taken'[n].at
  <2> DEFINE new == NextName(q)
  <2>1. /\ Snapshots' = Snapshots \cup {new}
        /\ \A m \in Snapshots : m # new => taken'[m] = taken[m]
        /\ taken'[new].at = saves + 1 /\ taken'[new].by = TakenBy(new) \cup {q} /\ saves' = saves + 1
    BY <1>2, StampFacts
  <2>2. now' = now /\ backs = 0 /\ seq' = [seq EXCEPT ![q] = @ + 1]
    BY <1>2 DEF Stamp
  <2>3. /\ new[1] = now /\ new[2] = seq[q] + 1 /\ now \in Nat /\ saves \in Nat
        /\ \A p \in Procs : seq[p] \in Nat
    BY DEF NextName, TypeOK
  <2>4. \A p \in Procs : seq'[p] >= seq[p] /\ seq'[p] \in Nat
    BY <2>2, <2>3 DEF TypeOK
  <2>5. \A p \in Procs : p \in TakenBy(new) => new[2] <= seq[p]
    BY <2>2, <2>3 DEF ClockInv, TakenBy
  <2>6. seq'[q] = seq[q] + 1
    BY <2>2 DEF TypeOK
  <2> HIDE DEF new
  <2>7. \A n \in Snapshots : n[1] <= now /\ taken[n].at <= saves
    BY <2>2 DEF ClockInv
  <2>8. ASSUME NEW n \in Snapshots'
        PROVE /\ n[1] <= now' /\ taken'[n].at <= saves'
              /\ \A p \in Procs : p \in taken'[n].by /\ n[1] = now' => n[2] <= seq'[p]
    <3>1. CASE n = new
      BY <2>1, <2>2, <2>3, <2>4, <2>5, <2>6, <3>1
    <3>2. CASE n # new
      <4>1. n \in Snapshots /\ taken'[n] = taken[n]
        BY <2>1, <3>2
      <4>2. \A p \in Procs : p \in taken[n].by /\ n[1] = now => n[2] <= seq[p]
        BY <2>2, <4>1 DEF ClockInv
      <4> QED BY <1>0, <2>1, <2>2, <2>3, <2>4, <2>7, <4>1, <4>2
    <3> QED BY <3>1, <3>2
  <2>9. ASSUME NEW m \in Snapshots', NEW n \in Snapshots', m[1] > n[1]
        PROVE taken'[m].at > taken'[n].at
    <3>1. n # new
      BY <1>0, <2>1, <2>3, <2>7, <2>9
    <3>2. n \in Snapshots /\ taken'[n] = taken[n]
      BY <2>1, <3>1
    <3>3. CASE m = new
      BY <1>0, <2>1, <2>3, <2>7, <3>2, <3>3
    <3>4. CASE m # new
      BY <2>1, <2>2, <2>9, <3>2, <3>4 DEF ClockInv
    <3> QED BY <3>3, <3>4
  <2>10. ASSUME NEW m \in Snapshots', NEW n \in Snapshots', NEW p \in Procs,
                m[1] = n[1], m[2] > n[2], taken'[m].by = {p}, taken'[n].by = {p}
         PROVE taken'[m].at > taken'[n].at
    <3>1. CASE m = new
      <4>1. n # new /\ n \in Snapshots /\ taken'[n] = taken[n]
        <5>1. n # new
          BY <1>0, <2>3, <2>10, <3>1
        <5> QED BY <2>1, <5>1
      <4> QED BY <1>0, <2>1, <2>3, <2>7, <3>1, <4>1
    <3>2. CASE n = new
      <4>1. p = q
        BY <2>1, <2>10, <3>2
      <4>2. m # new /\ m \in Snapshots /\ taken'[m] = taken[m]
        <5>1. m # new
          BY <1>0, <2>3, <2>10, <3>2
        <5> QED BY <2>1, <5>1
      <4>3. m[2] <= seq[q]
        BY <2>2, <2>3, <2>10, <3>2, <4>1, <4>2 DEF ClockInv
      <4> QED BY <1>0, <2>3, <2>10, <3>2, <4>2, <4>3
    <3>3. CASE m # new /\ n # new
      BY <2>1, <2>2, <2>10, <3>3 DEF ClockInv
    <3> QED BY <3>1, <3>2, <3>3
  <2> QED BY <2>8, <2>9, <2>10
<1> QED BY <1>1, <1>2, QuietOrStamp

LEMMA ReaderStep == TypeOK /\ ReaderInv /\ [Next]_vars => ReaderInv'
<1> SUFFICES ASSUME TypeOK, ReaderInv, [Next]_vars, NEW r \in Readers,
                    rpc'[r] \in {"read", "gone", "torn", "whole"}
             PROVE  /\ pick'[r] \in Snapshots
                    /\ seen'[r] \subseteq Snapshots
                    /\ \A m \in seen'[r] : ~Later(m, pick'[r])
  BY NewerGrows DEF ReaderInv
<1> USE DEF TypeOK, saving, directory, reading
<1>1. ASSUME NEW q \in Readers, Resolve(q)
      PROVE  /\ pick'[r] \in Snapshots /\ seen'[r] \subseteq Snapshots
             /\ \A m \in seen'[r] : ~Later(m, pick'[r])
  BY <1>1 DEF Resolve, IsLatest, ReaderInv
<1>2. ASSUME NEW q \in Readers, Read(q)
      PROVE  /\ pick'[r] \in Snapshots /\ seen'[r] \subseteq Snapshots
             /\ \A m \in seen'[r] : ~Later(m, pick'[r])
  BY <1>2 DEF Read, ReaderInv
<1>3. CASE UNCHANGED reading
  BY <1>3 DEF ReaderInv
<1>4. ASSUME NEW p \in Procs,
             Stamp(p) \/ Written(p) \/ WriteFails(p) \/ List(p) \/ ListFails(p) \/ Remove(p)
               \/ RemoveFails(p) \/ SaveReturns(p) \/ Deployed(p) \/ Crash(p)
      PROVE  UNCHANGED reading
  BY <1>4 DEF Stamp, Written, WriteFails, List, ListFails, Remove, RemoveFails, SaveReturns, Deployed, Crash
<1>5. CASE Tick \/ SetBack \/ UNCHANGED vars
  BY <1>3, <1>5 DEF Tick, SetBack, vars
<1> QED BY <1>1, <1>2, <1>3, <1>4, <1>5 DEF Next

LEMMA GoneStep ==
  TypeOK /\ PruneKeepsNewest /\ ReaderInv /\ GoneMeansOvertaken /\ [Next]_vars => GoneMeansOvertaken'
<1> SUFFICES ASSUME TypeOK, PruneKeepsNewest, ReaderInv, GoneMeansOvertaken, [Next]_vars,
                    NEW r \in Readers, rpc'[r] = "gone"
             PROVE  Cardinality({ m \in Snapshots' : Later(m, pick'[r]) }) >= Keep
  BY DEF GoneMeansOvertaken, Newer
<1> USE DEF TypeOK, saving, directory, reading
<1>1. ASSUME NEW n, n = pick'[r], Cardinality(Newer(n)) >= Keep
      PROVE  Cardinality({ m \in Snapshots' : Later(m, pick'[r]) }) >= Keep
  <2>1. Cardinality(Newer(n)') >= Keep
    BY <1>1, NewerGrows, KeepAssumption
  <2> QED BY <1>1, <2>1 DEF Newer
<1>2. ASSUME NEW q \in Readers, Read(q) PROVE Cardinality(Newer(pick[r])) >= Keep /\ pick' = pick
  BY <1>2 DEF Read, PruneKeepsNewest, ReaderInv, GoneMeansOvertaken
<1>3. ASSUME NEW q \in Readers, Resolve(q) PROVE Cardinality(Newer(pick[r])) >= Keep /\ pick'[r] = pick[r]
  BY <1>3 DEF Resolve, GoneMeansOvertaken
<1>4. CASE UNCHANGED reading
  BY <1>1, <1>4 DEF GoneMeansOvertaken
<1>5. ASSUME NEW p \in Procs,
             Stamp(p) \/ Written(p) \/ WriteFails(p) \/ List(p) \/ ListFails(p) \/ Remove(p)
               \/ RemoveFails(p) \/ SaveReturns(p) \/ Deployed(p) \/ Crash(p)
      PROVE  UNCHANGED reading
  BY <1>5 DEF Stamp, Written, WriteFails, List, ListFails, Remove, RemoveFails, SaveReturns, Deployed, Crash
<1>6. CASE Tick \/ SetBack \/ UNCHANGED vars
  BY <1>4, <1>6 DEF Tick, SetBack, vars
<1> QED BY <1>1, <1>2, <1>3, <1>4, <1>5, <1>6 DEF Next

-----------------------------------------------------------------------------
(* Every finite set of names has an earliest one. *)
LEMMA EarliestName ==
  ASSUME NEW T \in SUBSET Names, IsFiniteSet(T), T # {}
  PROVE  \E n \in T : \A m \in T : m = n \/ Later(m, n)
<1> DEFINE Earlier(n) == { m \in T : Later(n, m) }
           F == { Earlier(n) : n \in T }
<1>1. F \subseteq FiniteSubsetsOf(T) /\ F # {}
  <2>1. \A n \in T : Earlier(n) \in SUBSET T
    OBVIOUS
  <2>2. \A n \in T : IsFiniteSet(Earlier(n))
    BY <2>1, FS_Subset
  <2> QED BY <2>1, <2>2 DEF FiniteSubsetsOf
<1> HIDE DEF F
<1>2. PICK E \in F : \A G \in F : <<G, E>> \notin StrictSubsetOrdering(T)
  BY <1>1, FS_StrictSubsetOrderingWellFounded, WFMin
<1>3. PICK n \in T : E = Earlier(n)
  BY <1>2 DEF F
<1>4. ASSUME NEW m \in T, Later(n, m) PROVE FALSE
  <2>1. Earlier(m) \subseteq Earlier(n) /\ m \in Earlier(n) /\ m \notin Earlier(m)
    BY <1>4 DEF Later, Names
  <2>2. Earlier(m) \in F /\ Earlier(m) \in SUBSET T /\ Earlier(n) \in SUBSET T
    BY DEF F
  <2>3. <<Earlier(m), Earlier(n)>> \in StrictSubsetOrdering(T)
    BY <2>1, <2>2 DEF StrictSubsetOrdering
  <2> QED BY <2>2, <2>3, <1>2, <1>3
<1>5. \A m \in T : m = n \/ Later(m, n) \/ Later(n, m)
  BY DEF Later, Names
<1> QED BY <1>4, <1>5

(* What a listing does not find to be surplus are Keep files at most. *)
LEMMA FewAreKept ==
  ASSUME TypeOK
  PROVE  Cardinality(files \ Surplus(files)) <= Keep
<1> DEFINE T == files \ Surplus(files)
<1>1. IsFiniteSet(files) /\ T \in SUBSET files /\ T \in SUBSET Names
  BY FS_Subset DEF TypeOK
<1>2. IsFiniteSet(T)
  BY <1>1, FS_Subset
<1>3. CASE T = {}
  BY <1>3, FS_EmptySet, KeepAssumption
<1>4. CASE T # {}
  <2>1. PICK n \in T : \A m \in T : m = n \/ Later(m, n)
    BY <1>1, <1>2, <1>4, EarliestName
  <2> DEFINE later == { m \in files : Later(m, n) }
  <2>2. later \in SUBSET files /\ T \subseteq later \cup {n}
    BY <2>1
  <2>3. IsFiniteSet(later) /\ Cardinality(later) \in Nat
    BY <2>2, <1>1, FS_Subset, FS_CardinalityType
  <2>4. Cardinality(later) < Keep
    BY <2>1, <2>3, KeepAssumption DEF Surplus
  <2>5. /\ IsFiniteSet(later \cup {n})
        /\ Cardinality(later \cup {n}) <= Cardinality(later) + 1
    BY <2>3, FS_AddElement
  <2>6. Cardinality(T) <= Cardinality(later \cup {n})
    BY <2>2, <2>5, FS_Subset
  <2>7. Cardinality(T) \in Nat /\ Cardinality(later \cup {n}) \in Nat
    BY <1>2, <2>5, FS_CardinalityType
  <2> QED BY <2>3, <2>4, <2>5, <2>6, <2>7, KeepAssumption
<1> QED BY <1>3, <1>4

(* R files are accounted for by the saves B and the failures f; after a step
   that adds one file for each save or failure it adds, they still are. *)
LEMMA Accounting ==
  ASSUME NEW R, IsFiniteSet(R), NEW R1,
         NEW B, IsFiniteSet(B), NEW B1, IsFiniteSet(B1),
         NEW f \in Nat, NEW f1 \in Nat, NEW x, NEW p,
         Cardinality(R) <= Keep + f + Cardinality(B),
         \/ R1 \subseteq R /\ f1 = f /\ B \subseteq B1
         \/ R1 \subseteq R \cup {x} /\ f1 = f + 1 /\ B \subseteq B1
         \/ R1 \subseteq R \cup {x} /\ f1 = f /\ p \notin B /\ B \cup {p} \subseteq B1
         \/ R1 \subseteq R /\ f1 = f + 1 /\ B \ {p} \subseteq B1
  PROVE  Cardinality(R1) <= Keep + f1 + Cardinality(B1)
<1>1. /\ IsFiniteSet(R \cup {x}) /\ Cardinality(R \cup {x}) <= Cardinality(R) + 1
      /\ IsFiniteSet(B \cup {p}) /\ (p \notin B => Cardinality(B \cup {p}) = Cardinality(B) + 1)
      /\ IsFiniteSet(B \ {p}) /\ Cardinality(B \ {p}) >= Cardinality(B) - 1
      /\ Cardinality(R) \in Nat /\ Cardinality(B) \in Nat /\ Cardinality(B1) \in Nat
  <2>1. Cardinality(R) \in Nat /\ Cardinality(B) \in Nat /\ Cardinality(B1) \in Nat
    BY FS_CardinalityType
  <2>2. IsFiniteSet(R \cup {x}) /\ Cardinality(R \cup {x}) <= Cardinality(R) + 1
    <3>1. /\ IsFiniteSet(R \cup {x})
          /\ Cardinality(R \cup {x}) = IF x \in R THEN Cardinality(R) ELSE Cardinality(R) + 1
      BY FS_AddElement
    <3> QED BY <2>1, <3>1
  <2>3. IsFiniteSet(B \cup {p}) /\ (p \notin B => Cardinality(B \cup {p}) = Cardinality(B) + 1)
    BY FS_AddElement
  <2>4. IsFiniteSet(B \ {p}) /\ Cardinality(B \ {p}) >= Cardinality(B) - 1
    <3>1. /\ IsFiniteSet(B \ {p})
          /\ Cardinality(B \ {p}) = IF p \in B THEN Cardinality(B) - 1 ELSE Cardinality(B)
      BY FS_RemoveElement
    <3> QED BY <2>1, <3>1
  <2> QED BY <2>1, <2>2, <2>3, <2>4
<1>2. Cardinality(R \cup {x}) \in Nat /\ Cardinality(B \cup {p}) \in Nat /\ Cardinality(B \ {p}) \in Nat
  BY <1>1, FS_CardinalityType
<1>3. ASSUME R1 \subseteq R PROVE Cardinality(R1) \in Nat /\ Cardinality(R1) <= Cardinality(R)
  BY <1>3, FS_Subset, FS_CardinalityType
<1>4. ASSUME R1 \subseteq R \cup {x}
      PROVE Cardinality(R1) \in Nat /\ Cardinality(R1) <= Cardinality(R \cup {x})
  BY <1>1, <1>4, FS_Subset, FS_CardinalityType
<1>5. /\ B \subseteq B1 => Cardinality(B) <= Cardinality(B1)
      /\ B \cup {p} \subseteq B1 => Cardinality(B \cup {p}) <= Cardinality(B1)
      /\ B \ {p} \subseteq B1 => Cardinality(B \ {p}) <= Cardinality(B1)
  BY FS_Subset
<1>6. CASE R1 \subseteq R /\ f1 = f /\ B \subseteq B1
  BY <1>6, <1>1, <1>3, <1>5, KeepAssumption
<1>7. CASE R1 \subseteq R \cup {x} /\ f1 = f + 1 /\ B \subseteq B1
  BY <1>7, <1>1, <1>2, <1>4, <1>5, KeepAssumption
<1>8. CASE R1 \subseteq R \cup {x} /\ f1 = f /\ p \notin B /\ B \cup {p} \subseteq B1
  BY <1>8, <1>1, <1>2, <1>4, <1>5, KeepAssumption
<1>9. CASE R1 \subseteq R /\ f1 = f + 1 /\ B \ {p} \subseteq B1
  BY <1>9, <1>1, <1>2, <1>3, <1>5, KeepAssumption
<1> QED BY <1>6, <1>7, <1>8, <1>9

LEMMA RetentionInit == Init => RetentionInv
<1> SUFFICES ASSUME Init PROVE RetentionInv
  OBVIOUS
<1>1. Busy = {} /\ files = {} /\ faults = 0
  BY DEF Init, Busy
<1>2. \A Q \in SUBSET Removing : Remaining(Q) = {} /\ Busy \ Q = {}
  BY <1>1 DEF Remaining
<1> QED BY <1>1, <1>2, FS_EmptySet, KeepAssumption DEF RetentionInv

(* The members of the sets that the accounting counts. *)
LEMMA Members ==
  /\ \A Q, n : n \in Remaining(Q) <=> n \in files /\ \A q \in Q : n \notin doomed[q]
  /\ \A Q, n : n \in Remaining(Q)' <=> n \in files' /\ \A q \in Q : n \notin doomed'[q]
  /\ \A q : q \in Busy <=> q \in Procs /\ pc[q] \in {"write", "prune", "remove"}
  /\ \A q : q \in Busy' <=> q \in Procs /\ pc'[q] \in {"write", "prune", "remove"}
  /\ \A q : q \in Removing <=> q \in Procs /\ pc[q] = "remove"
  /\ \A q : q \in Removing' <=> q \in Procs /\ pc'[q] = "remove"
  BY DEF Remaining, Busy, Removing

LEMMA BusyStaysFinite == TypeOK /\ IsFiniteSet(Busy) /\ [Next]_vars => IsFiniteSet(Busy')
<1> SUFFICES ASSUME TypeOK, IsFiniteSet(Busy), [Next]_vars PROVE IsFiniteSet(Busy')
  OBVIOUS
<1> USE DEF saving, directory, reading
<1>1. ASSUME NEW p \in Procs,
             Stamp(p) \/ Written(p) \/ WriteFails(p) \/ List(p) \/ ListFails(p) \/ Remove(p)
               \/ RemoveFails(p) \/ SaveReturns(p) \/ Deployed(p) \/ Crash(p)
      PROVE  IsFiniteSet(Busy')
  <2>1. \A q \in Procs : q # p => pc'[q] = pc[q]
    BY <1>1 DEF Stamp, Written, WriteFails, List, ListFails, Remove, RemoveFails, SaveReturns,
                Deployed, Crash, TypeOK
  <2>2. Busy' \subseteq Busy \cup {p}
    BY <2>1 DEF Busy
  <2> QED BY <2>2, FS_AddElement, FS_Subset
<1>2. CASE UNCHANGED pc
  <2>1. Busy' = Busy
    BY <1>2 DEF Busy
  <2> QED BY <2>1
<1>3. ASSUME NEW r \in Readers, Resolve(r) \/ Read(r) PROVE UNCHANGED pc
  BY <1>3 DEF Resolve, Read
<1>4. CASE Tick \/ SetBack \/ UNCHANGED vars
  BY <1>2, <1>4 DEF Tick, SetBack, vars
<1> QED BY <1>1, <1>2, <1>3, <1>4 DEF Next

LEMMA RetentionStep == TypeOK /\ RetentionInv /\ [Next]_vars => RetentionInv'
<1> SUFFICES ASSUME TypeOK, RetentionInv, [Next]_vars PROVE RetentionInv'
  OBVIOUS
<1>1. IsFiniteSet(Busy) /\ IsFiniteSet(Busy')
  BY BusyStaysFinite DEF RetentionInv
<1> SUFFICES ASSUME Keep > 0, NEW Q \in SUBSET (Removing')
             PROVE  Cardinality(Remaining(Q)') <= Keep + faults' + Cardinality(Busy' \ Q)
  BY <1>1 DEF RetentionInv
<1> DEFINE Accounted == Cardinality(Remaining(Q)') <= Keep + faults' + Cardinality(Busy' \ Q)
<1> SUFFICES Accounted
  OBVIOUS
<1>2. faults \in Nat /\ faults' \in Nat /\ IsFiniteSet(Busy' \ Q)
  BY <1>1, TypeStep, FS_Subset DEF TypeOK
(* The step keeps the accounts of a set Q0 of processes. *)
<1>3. ASSUME NEW Q0 \in SUBSET Removing, NEW x, NEW p,
             \/ /\ Remaining(Q)' \subseteq Remaining(Q0)
                /\ faults' = faults /\ Busy \ Q0 \subseteq Busy' \ Q
             \/ /\ Remaining(Q)' \subseteq Remaining(Q0) \cup {x}
                /\ faults' = faults + 1 /\ Busy \ Q0 \subseteq Busy' \ Q
             \/ /\ Remaining(Q)' \subseteq Remaining(Q0) \cup {x}
                /\ faults' = faults /\ p \notin Busy \ Q0
                /\ (Busy \ Q0) \cup {p} \subseteq Busy' \ Q
             \/ /\ Remaining(Q)' \subseteq Remaining(Q0)
                /\ faults' = faults + 1 /\ (Busy \ Q0) \ {p} \subseteq Busy' \ Q
      PROVE  Accounted
  <2>1. Remaining(Q0) \subseteq Snapshots /\ IsFiniteSet(Snapshots)
    BY DEF Remaining, TypeOK
  <2>2. IsFiniteSet(Remaining(Q0)) /\ IsFiniteSet(Busy \ Q0)
    BY <1>1, <2>1, FS_Subset
  <2>3. Cardinality(Remaining(Q0)) <= Keep + faults + Cardinality(Busy \ Q0)
    BY DEF RetentionInv
  <2> DEFINE R == Remaining(Q0)
             R1 == Remaining(Q)'
             B == Busy \ Q0
             B1 == Busy' \ Q
  <2>4. /\ IsFiniteSet(R) /\ IsFiniteSet(B) /\ IsFiniteSet(B1)
        /\ Cardinality(R) <= Keep + faults + Cardinality(B)
    BY <1>2, <2>2, <2>3
  <2>5. \/ R1 \subseteq R /\ faults' = faults /\ B \subseteq B1
        \/ R1 \subseteq R \cup {x} /\ faults' = faults + 1 /\ B \subseteq B1
        \/ R1 \subseteq R \cup {x} /\ faults' = faults /\ p \notin B /\ B \cup {p} \subseteq B1
        \/ R1 \subseteq R /\ faults' = faults + 1 /\ B \ {p} \subseteq B1
    BY <1>3
  <2>6. Accounted <=> Cardinality(R1) <= Keep + faults' + Cardinality(B1)
    OBVIOUS
  <2> HIDE DEF R, R1, B, B1, Accounted
  <2>7. Cardinality(R1) <= Keep + faults' + Cardinality(B1)
    BY <1>2, <2>4, <2>5, Accounting
  <2> QED BY <2>6, <2>7
<1> HIDE DEF Accounted
<1> USE DEF saving, directory, reading
<1>4. ASSUME NEW p \in Procs, Stamp(p) PROVE Accounted
  <2>1. Q \in SUBSET Removing /\ p \notin Busy \ Q /\ (Busy \ Q) \cup {p} \subseteq Busy' \ Q
    BY <1>4, Members DEF Stamp, TypeOK
  <2>2. Remaining(Q)' \subseteq Remaining(Q) \cup {NextName(p)} /\ faults' = faults
    BY <1>4, Members DEF Stamp, NextName
  <2> QED BY <1>3, <2>1, <2>2
<1>5. ASSUME NEW p \in Procs, Written(p) PROVE Accounted
  <2>1. Q \in SUBSET Removing /\ Busy \ Q \subseteq Busy' \ Q
    BY <1>5, Members DEF Written, TypeOK
  <2>2. Remaining(Q)' \subseteq Remaining(Q) /\ faults' = faults
    BY <1>5, Members DEF Written
  <2> QED BY <1>3, <2>1, <2>2
<1>6. ASSUME NEW p \in Procs, WriteFails(p) \/ ListFails(p) PROVE Accounted
  <2>1. Q \in SUBSET Removing /\ (Busy \ Q) \ {p} \subseteq Busy' \ Q
    BY <1>6, Members DEF WriteFails, ListFails, TypeOK
  <2>2. Remaining(Q)' \subseteq Remaining(Q) /\ faults' = faults + 1
    BY <1>6, Members DEF WriteFails, ListFails, Fault
  <2> QED BY <1>3, <2>1, <2>2
<1>7. ASSUME NEW p \in Procs, List(p) PROVE Accounted
  <2>1. CASE p \in Q
    <3>1. Remaining(Q)' \subseteq files \ Surplus(files) /\ files \ Surplus(files) \subseteq Snapshots
      BY <1>7, <2>1, Members DEF List, TypeOK
    <3>2. IsFiniteSet(files \ Surplus(files))
      BY <3>1, FS_Subset DEF TypeOK
    <3>3. IsFiniteSet(Remaining(Q)') /\ Cardinality(Remaining(Q)') <= Cardinality(files \ Surplus(files))
      BY <3>1, <3>2, FS_Subset
    <3>4. /\ Cardinality(Remaining(Q)') \in Nat /\ Cardinality(files \ Surplus(files)) \in Nat
          /\ Cardinality(Busy' \ Q) \in Nat
      BY <1>2, <3>2, <3>3, FS_CardinalityType
    <3> QED BY <1>2, <3>3, <3>4, FewAreKept, KeepAssumption DEF Accounted
  <2>2. CASE p \notin Q
    <3>1. Q \in SUBSET Removing /\ Busy \ Q \subseteq Busy' \ Q
      BY <1>7, <2>2, Members DEF List, TypeOK
    <3>2. \A q \in Q : q \in Procs /\ doomed'[q] = doomed[q]
      BY <1>7, <2>2, Members DEF List, TypeOK
    <3>3. Remaining(Q)' \subseteq Remaining(Q) /\ faults' = faults
      BY <1>7, <3>2, Members DEF List
    <3> QED BY <1>3, <3>1, <3>3
  <2> QED BY <2>1, <2>2
<1>8. ASSUME NEW p \in Procs, Remove(p) PROVE Accounted
  <2>1. Q \in SUBSET Removing /\ Busy \ Q \subseteq Busy' \ Q
    BY <1>8, Members DEF Remove
  <2>2. PICK n : files' = files \ {n} /\ doomed' = [doomed EXCEPT ![p] = @ \ {n}]
    BY <1>8 DEF Remove
  <2>3. \A q \in Q : q \in Procs /\ doomed[q] \subseteq doomed'[q] \cup {n}
    BY <2>1, <2>2, Members DEF TypeOK
  <2>4. Remaining(Q)' \subseteq Remaining(Q) /\ faults' = faults
    BY <1>8, <2>2, <2>3, Members DEF Remove
  <2> QED BY <1>3, <2>1, <2>4
<1>9. ASSUME NEW p \in Procs, RemoveFails(p) PROVE Accounted
  <2>1. Q \in SUBSET Removing /\ Busy \ Q \subseteq Busy' \ Q
    BY <1>9, Members DEF RemoveFails
  <2>2. PICK n : doomed' = [doomed EXCEPT ![p] = @ \ {n}]
    BY <1>9 DEF RemoveFails
  <2>3. \A q \in Q : q \in Procs /\ doomed[q] \subseteq doomed'[q] \cup {n}
    BY <2>1, <2>2, Members DEF TypeOK
  <2>4. Remaining(Q)' \subseteq Remaining(Q) \cup {n} /\ faults' = faults + 1
    BY <1>9, <2>2, <2>3, Members DEF RemoveFails, Fault
  <2> QED BY <1>3, <2>1, <2>4
<1>10. ASSUME NEW p \in Procs, SaveReturns(p) PROVE Accounted
  <2>1. Q \cup {p} \in SUBSET Removing /\ Busy \ (Q \cup {p}) \subseteq Busy' \ Q
    BY <1>10, Members DEF SaveReturns, TypeOK
  <2>2. Remaining(Q)' \subseteq Remaining(Q \cup {p}) /\ faults' = faults
    BY <1>10, Members DEF SaveReturns
  <2> QED BY <1>3, <2>1, <2>2
<1>11. ASSUME NEW p \in Procs, Deployed(p) PROVE Accounted
  <2>1. Q \in SUBSET Removing /\ Busy \ Q \subseteq Busy' \ Q
    BY <1>11, Members DEF Deployed, TypeOK
  <2>2. Remaining(Q)' \subseteq Remaining(Q) /\ faults' = faults
    BY <1>11, Members DEF Deployed
  <2> QED BY <1>3, <2>1, <2>2
<1>12. ASSUME NEW p \in Procs, Crash(p) PROVE Accounted
  <2>1. /\ Q \in SUBSET Removing /\ p \notin Q /\ (Busy \ Q) \ {p} \subseteq Busy' \ Q
    BY <1>12, Members DEF Crash, TypeOK
  <2>2. \A q \in Q : q \in Procs /\ doomed'[q] = doomed[q]
    BY <1>12, <2>1, Members DEF Crash, TypeOK
  <2>3. Remaining(Q)' \subseteq Remaining(Q) /\ faults' = faults + 1
    BY <1>12, <2>2, Members DEF Crash, Fault
  <2> QED BY <1>3, <2>1, <2>3
<1>13. CASE UNCHANGED <<pc, doomed, files, faults>>
  <2>1. Q \in SUBSET Removing /\ Busy \ Q \subseteq Busy' \ Q
    BY <1>13, Members
  <2>2. Remaining(Q)' \subseteq Remaining(Q) /\ faults' = faults
    BY <1>13, Members
  <2> QED BY <1>3, <2>1, <2>2
<1>14. ASSUME NEW r \in Readers, Resolve(r) \/ Read(r) PROVE UNCHANGED <<pc, doomed, files, faults>>
  BY <1>14 DEF Resolve, Read
<1>15. Tick \/ SetBack \/ UNCHANGED vars => UNCHANGED <<pc, doomed, files, faults>>
  BY DEF Tick, SetBack, vars
<1>16. CASE \E p \in Procs : Stamp(p) \/ Written(p) \/ WriteFails(p) \/ List(p) \/ ListFails(p)
                             \/ Remove(p) \/ RemoveFails(p) \/ SaveReturns(p) \/ Deployed(p) \/ Crash(p)
  BY <1>4, <1>5, <1>6, <1>7, <1>8, <1>9, <1>10, <1>11, <1>12, <1>16
<1>17. CASE (\E r \in Readers : Resolve(r) \/ Read(r)) \/ Tick \/ SetBack \/ UNCHANGED vars
  BY <1>13, <1>14, <1>15, <1>17
<1> QED BY <1>16, <1>17 DEF Next

-----------------------------------------------------------------------------
(* The inductive invariant of the backup store. *)
THEOREM Inductive == Spec => []IInv
<1>1. Init => IInv
  <2> SUFFICES ASSUME Init PROVE IInv
    OBVIOUS
  <2>1. TypeOK
    BY TypeInit
  <2>2. Snapshots = {} /\ files = {}
    BY DEF Init, Snapshots
  <2>3. DoomedInv /\ OwnInv /\ ReaderInv /\ GoneMeansOvertaken
    BY DEF Init, DoomedInv, OwnInv, ReaderInv, GoneMeansOvertaken
  <2>4. PruneKeepsNewest /\ ClockInv
    BY <2>2 DEF PruneKeepsNewest, ClockInv
  <2> QED BY <2>1, <2>3, <2>4, RetentionInit DEF IInv
<1>2. IInv /\ [Next]_vars => IInv'
  BY TypeStep, DoomedStep, PruneStep, OwnStep, ClockStep, ReaderStep, GoneStep, RetentionStep
     DEF IInv
<1> QED BY <1>1, <1>2, PTL DEF Spec

(* Pruning never removes one of the newest Keep snapshots by name, however
   many processes prune at once (pruneBackups). *)
THEOREM PruningIsSafe == Spec => []PruneKeepsNewest
<1>1. IInv => PruneKeepsNewest
  BY DEF IInv
<1> QED BY <1>1, Inductive, PTL

(* A restore of "latest" that finds its file gone was overtaken. *)
THEOREM GoneIsOvertaken == Spec => []GoneMeansOvertaken
<1>1. IInv => GoneMeansOvertaken
  BY DEF IInv
<1> QED BY <1>1, Inductive, PTL

(* The backup of a write outlives the write, if the clock only goes forward
   and no other process took its name or Keep snapshots in its tick or after
   it (saveFlowSnapshot and its callers). *)
THEOREM BackupOutlives == Spec => []BackupOutlivesWrite
<1>1. IInv => BackupOutlivesWrite
  <2> SUFFICES ASSUME IInv, NEW p \in Procs, pc[p] = "deploy", backs = 0,
                      own[p] \notin files \ torn, TakenBy(own[p]) = {p}
               PROVE  Cardinality(NotBefore(own[p])) >= Keep
    BY DEF BackupOutlivesWrite
  <2>1. own[p] \in Snapshots /\ own[p] \notin files
    BY DEF IInv, OwnInv
  <2>2. Cardinality(Newer(own[p])) >= Keep
    BY <2>1 DEF IInv, PruneKeepsNewest
  <2>3. Newer(own[p]) \subseteq NotBefore(own[p])
    <3> SUFFICES ASSUME NEW m \in Snapshots, Later(m, own[p])
                 PROVE  m \in NotBefore(own[p])
      BY DEF Newer
    <3>1. m[1] \in Nat /\ m[2] \in Nat
      BY DEF IInv, TypeOK, Names
    <3>2. m # own[p]
      BY <3>1 DEF Later
    <3> QED BY <2>1, <3>2 DEF IInv, ClockInv, Later, NotBefore
  <2>4. IsFiniteSet(NotBefore(own[p])) /\ IsFiniteSet(Newer(own[p]))
    BY FS_Subset DEF IInv, TypeOK, NotBefore, Newer
  <2>5. Cardinality(Newer(own[p])) <= Cardinality(NotBefore(own[p]))
    BY <2>3, <2>4, FS_Subset
  <2> QED BY <2>2, <2>4, <2>5, FS_CardinalityType, KeepAssumption
<1> QED BY <1>1, Inductive, PTL

(* "latest" is the newest complete snapshot, or one that another process
   took in the same tick, if the clock only goes forward (ListBackups). *)
THEOREM LatestNewest == Spec => []LatestIsNewest
<1>1. IInv => LatestIsNewest
  <2> SUFFICES ASSUME IInv, NEW r \in Readers, rpc[r] = "whole", backs = 0, NEW m \in seen[r],
                      ~(taken[m].at <= taken[pick[r]].at)
               PROVE  /\ m[1] = pick[r][1]
                      /\ \A p \in Procs : ~(TakenBy(m) = {p} /\ TakenBy(pick[r]) = {p})
    BY DEF LatestIsNewest
  <2> DEFINE n == pick[r]
  <2>1. m \in Snapshots /\ n \in Snapshots /\ ~Later(m, n)
    BY DEF IInv, ReaderInv
  <2>2. /\ m[1] \in Nat /\ m[2] \in Nat /\ n[1] \in Nat /\ n[2] \in Nat
        /\ taken[m].at \in Nat /\ taken[n].at \in Nat /\ m = <<m[1], m[2]>> /\ n = <<n[1], n[2]>>
    BY <2>1 DEF IInv, TypeOK, Names
  <2> HIDE DEF n
  <2>3. taken[m].at > taken[n].at
    BY <2>2 DEF n
  <2>4. ~(n[1] > m[1])
    BY <2>1, <2>2, <2>3 DEF IInv, ClockInv
  <2>5. m[1] = n[1] /\ m[2] <= n[2]
    BY <2>1, <2>2, <2>4 DEF Later
  <2>6. ASSUME NEW p \in Procs, TakenBy(m) = {p}, TakenBy(n) = {p} PROVE FALSE
    <3>1. m # n
      BY <2>2, <2>3
    <3>2. n[2] > m[2]
      BY <2>2, <2>5, <3>1
    <3>3. taken[n].at > taken[m].at
      BY <2>1, <2>5, <2>6, <3>2 DEF IInv, ClockInv, TakenBy
    <3> QED BY <2>2, <2>3, <3>3
  <2> QED BY <2>5, <2>6 DEF n
<1> QED BY <1>1, Inductive, PTL

(* However many processes save, prune and are killed at once, the directory
   holds Keep files when none of them is saving, and one more for every
   operation that failed or was cut off (saveFlowSnapshot, pruneBackups). *)
THEOREM RetentionBounded == Spec => []RetentionIsBounded
<1>1. IInv => RetentionIsBounded
  <2> SUFFICES ASSUME IInv, Keep > 0, \A p \in Procs : pc[p] \in {"idle", "deploy"}
               PROVE  Cardinality(files) <= Keep + faults
    BY DEF RetentionIsBounded
  <2>1. Busy \ {} = {} /\ Remaining({}) = files
    BY DEF Busy, Remaining
  <2>2. Cardinality(Remaining({})) <= Keep + faults + Cardinality(Busy \ {})
    BY DEF IInv, RetentionInv
  <2>3. Cardinality(files) <= Keep + faults + 0
    BY <2>1, <2>2, FS_EmptySet
  <2> QED BY <2>3, KeepAssumption DEF IInv, TypeOK
<1> QED BY <1>1, Inductive, PTL
=============================================================================
