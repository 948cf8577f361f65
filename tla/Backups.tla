------------------------------ MODULE Backups ------------------------------
(***************************************************************************)
(* The directory of flow backups (internal/nodered/backup.go).  Every      *)
(* mutating method saves a snapshot before it deploys, then prunes; the    *)
(* tool restore_backup resolves "latest" and reads it.                     *)
(*                                                                         *)
(*    name it by clock and counter -> write it -> list -> remove the       *)
(*    surplus one by one -> deploy                                         *)
(*                                                                         *)
(* One process saves one snapshot at a time (writeMu), but several         *)
(* processes may share the directory, and nothing coordinates them.  The   *)
(* wall clock may be set back, WriteFile is not atomic, and a process may  *)
(* be killed anywhere.                                                     *)
(***************************************************************************)
EXTENDS Integers, FiniteSets

CONSTANTS
  Procs,       \* processes that share the directory
  Readers,     \* calls of restore_backup with "latest"
  Keep,        \* how many backups survive pruning; none is pruned if 0
  MaxNow, MaxSaves, MaxBacks, MaxFaults      \* bounds of the counters

ASSUME KeepAssumption == Keep \in Nat

VARIABLES
  now,       \* the wall clock
  pc,        \* how far the save of a process is
  seq,       \* snapshotSeq of a process
  own,       \* the name of its last snapshot
  doomed,    \* what it still has to remove
  files,     \* the names in the directory
  torn,      \* those whose content is not complete
  saves,     \* how many snapshots were begun
  taken,     \* history: who took a name, and the number of the last snapshot under it
  backs,     \* how often the clock was set back
  faults,    \* how many operations failed or were cut off
  rpc,       \* how far a reader is, and how its read ended
  pick,      \* the name it resolved "latest" to
  seen       \* history: the complete snapshots in the directory then

saving == <<pc, seq, own, doomed>>
directory == <<files, torn, taken, saves>>
reading == <<rpc, pick, seen>>
vars == <<now, saving, directory, backs, faults, reading>>

(* A name is the stamp and the counter, both of fixed width. *)
Names == Nat \X Nat
NoName == <<0, 0>>

(* The order of the names as strings. *)
Later(m, n) == m[1] > n[1] \/ (m[1] = n[1] /\ m[2] > n[2])

(* Mutant: the list is sorted in ascending order. *)
SurplusAscending(names) ==
  { n \in names : Cardinality({ m \in names : Later(n, m) }) >= Keep }

(* names[keep:] of the names sorted in descending order. *)
Surplus(names) ==
  { n \in names : Cardinality({ m \in names : Later(m, n) }) >= Keep }

IsLatest(n, names) == n \in names /\ \A m \in names : ~Later(m, n)

Snapshots == DOMAIN taken

TakenBy(n) == IF n \in Snapshots THEN taken[n].by ELSE {}

(* Process p takes the name n, perhaps again. *)
Record(n, p) ==
  [m \in Snapshots \cup {n} |->
     IF m = n THEN [by |-> TakenBy(n) \cup {p}, at |-> saves + 1] ELSE taken[m]]

-----------------------------------------------------------------------------
(* saveFlowSnapshot. *)

(* The name is taken and the file created, or truncated if another process
   has just taken the same name. *)
Stamp(p) ==
  /\ pc[p] = "idle"
  /\ saves < MaxSaves
  /\ saves' = saves + 1
  /\ LET n == <<now, seq[p] + 1>> IN
       /\ own' = [own EXCEPT ![p] = n]
       /\ files' = files \cup {n}
       /\ torn' = torn \cup {n}
       /\ taken' = Record(n, p)
  /\ seq' = [seq EXCEPT ![p] = @ + 1]
  /\ pc' = [pc EXCEPT ![p] = "write"]
  /\ UNCHANGED <<now, doomed, backs, faults, reading>>

(* The write succeeds.  Two processes that write under one name may leave
   anything behind. *)
Written(p) ==
  /\ pc[p] = "write"
  /\ IF TakenBy(own[p]) = {p}
     THEN torn' = torn \ {own[p]}
     ELSE torn' \in {torn, torn \ {own[p]}}
  /\ pc' = [pc EXCEPT ![p] = IF Keep > 0 THEN "prune" ELSE "deploy"]
  /\ UNCHANGED <<now, seq, own, doomed, files, taken, saves, backs, faults, reading>>

Fault == faults < MaxFaults /\ faults' = faults + 1

(* Mutant: the error is logged and the write goes on. *)
WriteFailsOpen(p) ==
  /\ pc[p] = "write"
  /\ Fault
  /\ pc' = [pc EXCEPT ![p] = "prune"]
  /\ UNCHANGED <<now, seq, own, doomed, directory, backs, reading>>

(* The disk is full: what was written stays, and the caller aborts. *)
WriteFails(p) ==
  /\ pc[p] = "write"
  /\ Fault
  /\ pc' = [pc EXCEPT ![p] = "idle"]
  /\ UNCHANGED <<now, seq, own, doomed, directory, backs, reading>>

-----------------------------------------------------------------------------
(* pruneBackups. *)

(* Mutant: the list is made before the new snapshot is in it. *)
ListOthers(p) ==
  /\ pc[p] = "prune"
  /\ doomed' = [doomed EXCEPT ![p] = Surplus(files \ {own[p]})]
  /\ pc' = [pc EXCEPT ![p] = "remove"]
  /\ UNCHANGED <<now, seq, own, directory, backs, faults, reading>>

List(p) ==
  /\ pc[p] = "prune"
  /\ doomed' = [doomed EXCEPT ![p] = Surplus(files)]
  /\ pc' = [pc EXCEPT ![p] = "remove"]
  /\ UNCHANGED <<now, seq, own, directory, backs, faults, reading>>

(* A directory that cannot be listed is not pruned; the write goes on. *)
ListFails(p) ==
  /\ pc[p] = "prune"
  /\ Fault
  /\ pc' = [pc EXCEPT ![p] = "deploy"]
  /\ UNCHANGED <<now, seq, own, doomed, directory, backs, reading>>

(* The next one of the list, newest first.  Another process may have
   removed it already. *)
Remove(p) ==
  /\ pc[p] = "remove"
  /\ \E n \in doomed[p] :
       /\ IsLatest(n, doomed[p])
       /\ files' = files \ {n}
       /\ torn' = torn \ {n}
       /\ doomed' = [doomed EXCEPT ![p] = @ \ {n}]
  /\ UNCHANGED <<now, pc, seq, own, taken, saves, backs, faults, reading>>

RemoveFails(p) ==
  /\ pc[p] = "remove"
  /\ \E n \in doomed[p] \cap files :
       /\ IsLatest(n, doomed[p])
       /\ doomed' = [doomed EXCEPT ![p] = @ \ {n}]
  /\ Fault
  /\ UNCHANGED <<now, pc, seq, own, directory, backs, reading>>

(* The save has succeeded: its caller sends the write to Node-RED. *)
SaveReturns(p) ==
  /\ pc[p] = "remove"
  /\ doomed[p] = {}
  /\ pc' = [pc EXCEPT ![p] = "deploy"]
  /\ UNCHANGED <<now, seq, own, doomed, directory, backs, faults, reading>>

(* The exchange is over, and writeMu is released. *)
Deployed(p) ==
  /\ pc[p] = "deploy"
  /\ pc' = [pc EXCEPT ![p] = "idle"]
  /\ UNCHANGED <<now, seq, own, doomed, directory, backs, faults, reading>>

-----------------------------------------------------------------------------
(* restore_backup with "latest", before it waits for ctxHelperMu. *)

(* ListBackups: an unfinished file is listed as well. *)
Resolve(r) ==
  /\ rpc[r] = "idle"
  /\ seen' = [seen EXCEPT ![r] = files \ torn]
  /\ \/ /\ files = {}
        /\ rpc' = [rpc EXCEPT ![r] = "none"]
        /\ UNCHANGED pick
     \/ \E n \in files :
          /\ IsLatest(n, files)
          /\ rpc' = [rpc EXCEPT ![r] = "read"]
          /\ pick' = [pick EXCEPT ![r] = n]
  /\ UNCHANGED <<now, saving, directory, backs, faults>>

(* ReadBackup, and the check of RestoreFlows that refuses a truncated array. *)
Read(r) ==
  /\ rpc[r] = "read"
  /\ rpc' = [rpc EXCEPT ![r] = CASE pick[r] \notin files -> "gone"
                                 [] pick[r] \in torn -> "torn"
                                 [] OTHER -> "whole"]
  /\ UNCHANGED <<now, saving, directory, backs, faults, pick, seen>>

-----------------------------------------------------------------------------
(* The environment. *)

Tick ==
  /\ now < MaxNow
  /\ now' = now + 1
  /\ UNCHANGED <<saving, directory, backs, faults, reading>>

(* NTP, or a board without a battery that starts with an old time. *)
SetBack ==
  /\ now > 1
  /\ backs < MaxBacks
  /\ backs' = backs + 1
  /\ now' \in 1..(now - 1)
  /\ UNCHANGED <<saving, directory, faults, reading>>

(* A process is killed and started again, which takes longer than a tick. *)
Crash(p) ==
  /\ now < MaxNow
  /\ now' = now + 1
  /\ Fault
  /\ pc' = [pc EXCEPT ![p] = "idle"]
  /\ seq' = [seq EXCEPT ![p] = 0]
  /\ doomed' = [doomed EXCEPT ![p] = {}]
  /\ UNCHANGED <<own, directory, backs, reading>>

Init ==
  /\ now = 1
  /\ pc = [p \in Procs |-> "idle"]
  /\ seq = [p \in Procs |-> 0]
  /\ own = [p \in Procs |-> NoName]
  /\ doomed = [p \in Procs |-> {}]
  /\ files = {}
  /\ torn = {}
  /\ taken = [n \in {} |-> [by |-> {}, at |-> 0]]
  /\ saves = 0
  /\ backs = 0
  /\ faults = 0
  /\ rpc = [r \in Readers |-> "idle"]
  /\ pick = [r \in Readers |-> NoName]
  /\ seen = [r \in Readers |-> {}]

Next ==
  \/ \E p \in Procs :
       \/ Stamp(p) \/ Written(p) \/ WriteFails(p)
       \/ List(p) \/ ListFails(p) \/ Remove(p) \/ RemoveFails(p)
       \/ SaveReturns(p) \/ Deployed(p) \/ Crash(p)
  \/ \E r \in Readers : Resolve(r) \/ Read(r)
  \/ Tick \/ SetBack

Spec == Init /\ [][Next]_vars

-----------------------------------------------------------------------------
TypeOK ==
  /\ now \in Nat
  /\ pc \in [Procs -> {"idle", "write", "prune", "remove", "deploy"}]
  /\ seq \in [Procs -> Nat]
  /\ own \in [Procs -> Names]
  /\ doomed \in [Procs -> SUBSET Snapshots]
  /\ files \subseteq Snapshots
  /\ torn \subseteq files
  /\ Snapshots \subseteq Names
  /\ IsFiniteSet(Snapshots)
  /\ \A n \in Snapshots : taken[n] \in [by : SUBSET Procs, at : Nat]
  /\ saves \in Nat
  /\ backs \in Nat
  /\ faults \in Nat
  /\ rpc \in [Readers -> {"idle", "read", "none", "gone", "torn", "whole"}]
  /\ pick \in [Readers -> Names]
  /\ seen \in [Readers -> SUBSET Names]

Newer(n) == { m \in Snapshots : Later(m, n) }

(* What the processes remove, each from a list of its own that the others
   make stale, is never one of the newest Keep snapshots by name. *)
PruneKeepsNewest ==
  \A n \in Snapshots \ files : Cardinality(Newer(n)) >= Keep

(* Snapshots other than n that were taken in its tick or after it. *)
NotBefore(n) ==
  { m \in Snapshots \ {n} : m[1] = n[1] \/ taken[m].at > taken[n].at }

(* While a write is on its way its backup is in the directory, complete,
   unless another process took the same name, or Keep snapshots were taken
   in the same tick or after it, or the clock was set back. *)
BackupOutlivesWrite ==
  \A p \in Procs : pc[p] = "deploy" /\ backs = 0 =>
    \/ own[p] \in files \ torn
    \/ TakenBy(own[p]) # {p}
    \/ Cardinality(NotBefore(own[p])) >= Keep

(* "latest" is not older than any snapshot that was complete by then, except
   one that another process took in the same tick. *)
LatestIsNewest ==
  \A r \in Readers : rpc[r] = "whole" /\ backs = 0 =>
    \A m \in seen[r] :
      \/ taken[m].at <= taken[pick[r]].at
      \/ /\ m[1] = pick[r][1]
         /\ \A p \in Procs : ~(TakenBy(m) = {p} /\ TakenBy(pick[r]) = {p})

(* A restore of "latest" that finds its file gone was overtaken by Keep
   newer snapshots. *)
GoneMeansOvertaken ==
  \A r \in Readers : rpc[r] = "gone" => Cardinality(Newer(pick[r])) >= Keep

(* When nobody saves, the directory holds Keep files, and one more for every
   operation that failed. *)
RetentionIsBounded ==
  Keep > 0 /\ (\A p \in Procs : pc[p] \in {"idle", "deploy"})
    => Cardinality(files) <= Keep + faults

-----------------------------------------------------------------------------
(* The inductive invariant. *)

DoomedInv == \A p \in Procs : \A n \in doomed[p] : Cardinality(Newer(n)) >= Keep

(* Names that nobody else took. *)
OwnInv ==
  \A p \in Procs :
    /\ pc[p] # "idle" => own[p] \in Snapshots
    /\ pc[p] \in {"prune", "remove", "deploy"} /\ TakenBy(own[p]) = {p}
         => own[p] \notin torn

(* A clock that only goes forward orders the names as they were taken. *)
ClockInv ==
  backs = 0 =>
    /\ \A n \in Snapshots :
         /\ n[1] <= now
         /\ taken[n].at <= saves
         /\ \A p \in Procs : p \in taken[n].by /\ n[1] = now => n[2] <= seq[p]
    /\ \A m, n \in Snapshots : m[1] > n[1] => taken[m].at > taken[n].at
    /\ \A m, n \in Snapshots, p \in Procs :
         m[1] = n[1] /\ m[2] > n[2] /\ taken[m].by = {p} /\ taken[n].by = {p}
           => taken[m].at > taken[n].at

ReaderInv ==
  \A r \in Readers : rpc[r] \in {"read", "gone", "torn", "whole"} =>
    /\ pick[r] \in Snapshots
    /\ seen[r] \subseteq Snapshots
    /\ \A m \in seen[r] : ~Later(m, pick[r])

(* A save that is under way answers for one file more than Keep, an operation
   that failed for another.  Once a process has listed the directory, what it
   still removes answers for itself: whatever set Q of those processes is left
   to finish, the rest of the directory is accounted for by the others. *)
Busy == { p \in Procs : pc[p] \in {"write", "prune", "remove"} }
Removing == { p \in Procs : pc[p] = "remove" }
Remaining(Q) == files \ UNION { doomed[p] : p \in Q }

RetentionInv ==
  /\ IsFiniteSet(Busy)
  /\ Keep > 0 => \A Q \in SUBSET Removing :
                   Cardinality(Remaining(Q)) <= Keep + faults + Cardinality(Busy \ Q)

IInv ==
  /\ TypeOK
  /\ DoomedInv
  /\ PruneKeepsNewest
  /\ OwnInv
  /\ ClockInv
  /\ ReaderInv
  /\ GoneMeansOvertaken
  /\ RetentionInv
=============================================================================
