----------------------------- MODULE TailProofs -----------------------------
(***************************************************************************)
(* The two tails of /comms.  The ring of the debug tail is the newest part *)
(* of what was recorded, for every capacity, and the connection state it   *)
(* reports is the one it has.  An answer of get_node_status is current but *)
(* for what is on its way, for any nodes and statuses.                     *)
(*                                                                         *)
(* The loop both have is CommsTail's; the names of StatusTail differ from  *)
(* those of DebugTail for the sake of this module.                         *)
(***************************************************************************)
EXTENDS DebugTail, StatusTail, FiniteSetTheorems, TLAPS

-----------------------------------------------------------------------------
(* The status tail. *)

(* The fields of a status frame, and what tells it from other frames. *)
LEMMA FrameFields ==
  /\ other \in StatusFrames /\ other.topic # "status"
  /\ \A n, p : /\ status(n, p).topic = "status"
              /\ status(n, p).id = n /\ status(n, p).data = p
<1>1. other \in StatusFrames
  BY DEF StatusFrames
<1>2. other.topic # "status"
  BY DEF other
<1>3. ASSUME NEW n, NEW p
      PROVE  /\ status(n, p).topic = "status"
             /\ status(n, p).id = n /\ status(n, p).data = p
  BY DEF status
<1> QED BY <1>1, <1>2, <1>3

(* Ids that get through consume belong to nodes, and their data to reports. *)
LEMMA StatusFacts ==
  /\ IsFiniteSet(Nodes)
  /\ Never \notin Payloads /\ Never \notin Entries
  /\ Unreadable \notin Payloads /\ Unreadable \notin Reports
  /\ \A f \in StatusFrames : f.topic = "status" =>
       f.id \in Nodes /\ (f.data # Unreadable => f.data \in Reports)
<1>1. Cleared # Unreadable
  BY DEF Cleared, Unreadable
<1>2. Unreadable \notin Reports
  BY <1>1, StatusAssumption DEF StatusAssumption, Reports
<1>3. ASSUME NEW f \in StatusFrames, f.topic = "status"
      PROVE  f.id \in Nodes /\ (f.data # Unreadable => f.data \in Reports)
  <2>1. f # other
    BY <1>3, FrameFields
  <2>2. PICK n \in Nodes, p \in Reports \cup {Unreadable} : f = status(n, p)
    BY <1>3, <2>1 DEF StatusFrames
  <2>3. f.id = n /\ f.data = p
    BY <2>2, FrameFields
  <2> QED BY <2>2, <2>3
<1> QED BY <1>2, <1>3, StatusAssumption DEF StatusAssumption

(* Recording a report leaves an entry that says what it said. *)
LEMMA RecordIsCurrent ==
  ASSUME NEW n \in Nodes, NEW p \in Reports, StatusTypeOK, EntriesAgree, recordStatus(n, p)
  PROVE  /\ entries' \in [Nodes -> Entries \cup {Never}]
         /\ EntriesAgree'
         /\ entries'[n] # Never /\ entries'[n].data = p
         /\ \A m \in Nodes \ {n} : entries'[m] = entries[m]
<1> DEFINE e == [data |-> p, status |-> classify(p),
                 lastError |-> IF classify(p) = "errored" THEN p.text ELSE LastError(n)]
<1>1. entries' = [entries EXCEPT ![n] = e]
  BY DEF recordStatus
<1>2. LastError(n) \in {q.text : q \in Reports} \cup {""}
  <2>1. entries[n] \in Entries \cup {Never}
    BY DEF StatusTypeOK
  <2> QED BY <2>1 DEF LastError, Entries
<1>3. e \in Entries
  <2>1. classify(p) \in {classify(q) : q \in Reports}
    OBVIOUS
  <2>2. p.text \in {q.text : q \in Reports} \cup {""}
    OBVIOUS
  <2>3. (IF classify(p) = "errored" THEN p.text ELSE LastError(n))
          \in {q.text : q \in Reports} \cup {""}
    BY <1>2, <2>2
  <2> QED BY <2>1, <2>3 DEF Entries
<1>4. /\ e.data = p /\ e.status = classify(p)
      /\ e.status = "errored" => e.lastError = e.data.text
  OBVIOUS
<1> HIDE DEF e
<1>5. entries \in [Nodes -> Entries \cup {Never}]
  BY DEF StatusTypeOK
<1>6. entries' \in [Nodes -> Entries \cup {Never}]
  BY <1>1, <1>3, <1>5
<1>7. entries'[n] = e /\ \A m \in Nodes \ {n} : entries'[m] = entries[m]
  BY <1>1, <1>5
<1>8. e # Never
  BY <1>3, StatusFacts
<1>9. EntriesAgree'
  <2> SUFFICES ASSUME NEW m \in Nodes, entries'[m] # Never
      PROVE  /\ entries'[m].status = classify(entries'[m].data)
             /\ entries'[m].status = "errored" => entries'[m].lastError = entries'[m].data.text
    BY DEF EntriesAgree
  <2>1. CASE m = n
    BY <2>1, <1>4, <1>7
  <2>2. CASE m # n
    BY <2>2, <1>7 DEF EntriesAgree
  <2> QED BY <2>1, <2>2
<1> QED BY <1>4, <1>6, <1>7, <1>8, <1>9

(* A subscription whose socket goes away, and the steps of the loop that
   leave it alone. *)
LEMMA LoopKeepsCurrent ==
  ASSUME StatusIInv, StatusStep, UNCHANGED <<runtime, cache, query>>
  PROVE  StatusIInv'
<1>1. /\ \/ UNCHANGED <<subscribed, wire>>
         \/ ~subscribed' /\ wire' = <<>>
      /\ Subscribing'
  <2>1. CASE Dial \/ Authenticate \/ Report \/ Wake \/ Stop
    BY <2>1 DEF StatusIInv, Subscribing, Dial, Authenticate, Report, Wake, Stop, socket
  <2>2. CASE Subscribe
    BY <2>2 DEF StatusIInv, Subscribing, Subscribe
  <2>3. CASE FailedSession
    BY <2>3 DEF StatusIInv, Subscribing, FailedSession, Fail, EndSession
  <2> QED BY <2>1, <2>2, <2>3 DEF StatusStep
<1>2. UNCHANGED <<retained, nodes, entries, query>>
  BY DEF runtime, cache
<1>3. StatusTypeOK' /\ EntriesAgree'
  <2>1. wire \in Seq(StatusFrames) /\ <<>> \in Seq(StatusFrames)
    BY DEF StatusIInv, StatusTypeOK
  <2>2. wire' \in Seq(StatusFrames)
    BY <1>1, <2>1
  <2> QED BY <1>2, <2>2 DEF StatusIInv, StatusTypeOK, EntriesAgree
<1>4. NothingIsMissed'
  <2>1. CASE UNCHANGED <<subscribed, wire>>
    BY <1>2, <2>1 DEF StatusIInv, NothingIsMissed, Arriving, Current
  <2>2. CASE ~subscribed'
    BY <2>2 DEF NothingIsMissed
  <2> QED BY <1>1, <2>1, <2>2
<1> QED BY <1>1, <1>3, <1>4 DEF StatusIInv

(* A frame that is read. *)
LEMMA ReadKeepsCurrent ==
  ASSUME StatusIInv, ReadStatus
  PROVE  StatusIInv'
<1> DEFINE f == Head(wire)
<1>1. /\ wire \in Seq(StatusFrames) /\ wire # <<>> /\ wire' = Tail(wire)
      /\ UNCHANGED <<connected, asked, subscribed, nodes, retained, query>>
  BY DEF StatusIInv, StatusTypeOK, ReadStatus, Receive, runtime, loop
<1>2. /\ f = wire[1] /\ f \in StatusFrames /\ wire' \in Seq(StatusFrames)
      /\ Len(wire) \in Nat \ {0} /\ Len(wire') = Len(wire) - 1
      /\ \A i \in 1..Len(wire') : wire'[i] = wire[i + 1]
  BY <1>1
<1>3. Subscribing'
  BY <1>1 DEF StatusIInv, Subscribing
<1>4. CASE f.topic = "status" /\ f.data # Unreadable
  <2>1. f.id \in Nodes /\ f.data \in Reports
    BY <1>2, <1>4, StatusFacts
  <2>2. recordStatus(f.id, f.data)
    BY <1>4 DEF ReadStatus, consumeStatus
  <2> HIDE DEF f
  <2>3. /\ entries' \in [Nodes -> Entries \cup {Never}]
        /\ EntriesAgree'
        /\ entries'[f.id] # Never /\ entries'[f.id].data = f.data
        /\ \A m \in Nodes \ {f.id} : entries'[m] = entries[m]
    BY <2>1, <2>2, RecordIsCurrent DEF StatusIInv
  <2>4. ASSUME NEW n \in Nodes, subscribed', retained'[n] # Never
        PROVE  \/ Arriving(n)' = {} /\ Current(n)'
               \/ \E i \in Arriving(n)' :
                    wire'[i].data = retained'[n] /\ \A j \in Arriving(n)' : j <= i
    <3>1. \A i \in 1..Len(wire') : i \in Arriving(n)' <=> i + 1 \in Arriving(n)
      BY <1>1, <1>2 DEF Arriving
    <3>2. Arriving(n) \subseteq 1..Len(wire) /\ Arriving(n)' \subseteq 1..Len(wire')
      BY <1>1, <1>2 DEF Arriving
    <3>3. 1 \in Arriving(n) <=> f.id = n
      BY <1>1, <1>2, <1>4 DEF Arriving
    <3>4. CASE Arriving(n) = {} /\ Current(n)
      <4>1. Arriving(n)' = {}
        BY <3>1, <3>2, <3>4, <1>2
      <4>2. n # f.id
        BY <3>3, <3>4
      <4>3. Current(n)'
        BY <4>2, <2>3, <3>4, <1>1 DEF Current
      <4> QED BY <4>1, <4>3
    <3>5. ASSUME NEW i \in Arriving(n), wire[i].data = retained[n],
                 \A j \in Arriving(n) : j <= i
          PROVE  \/ Arriving(n)' = {} /\ Current(n)'
                 \/ \E k \in Arriving(n)' :
                      wire'[k].data = retained'[n] /\ \A j \in Arriving(n)' : j <= k
      <4>1. CASE i = 1
        <5>1. Arriving(n)' = {}
          BY <3>1, <3>2, <3>5, <4>1, <1>2
        <5>2. n = f.id /\ f.data = retained[n]
          BY <3>3, <3>5, <4>1, <1>2
        <5>3. Current(n)'
          BY <5>2, <2>3, <1>1 DEF Current
        <5> QED BY <5>1, <5>3
      <4>2. CASE i # 1
        <5>1. i \in 1..Len(wire) /\ i - 1 \in 1..Len(wire')
          BY <3>2, <4>2, <1>2
        <5>2. i - 1 \in Arriving(n)' /\ wire'[i - 1] = wire[i]
          BY <5>1, <3>1, <1>2
        <5>3. \A j \in Arriving(n)' : j <= i - 1
          BY <3>1, <3>2, <3>5, <5>1, <1>2
        <5> QED BY <5>2, <5>3, <3>5, <1>1
      <4> QED BY <4>1, <4>2
    <3>6. retained[n] # Never /\ subscribed
      BY <1>1, <2>4
    <3> QED BY <3>4, <3>5, <3>6 DEF StatusIInv, NothingIsMissed
  <2>5. NothingIsMissed'
    BY <2>4 DEF NothingIsMissed
  <2> QED BY <1>1, <1>2, <1>3, <2>3, <2>5 DEF StatusIInv, StatusTypeOK
<1>5. CASE ~(f.topic = "status" /\ f.data # Unreadable)
  <2>1. entries' = entries
    BY <1>5 DEF ReadStatus, consumeStatus
  <2> HIDE DEF f
  <2>2. ASSUME NEW n \in Nodes, subscribed', retained'[n] # Never
        PROVE  \/ Arriving(n)' = {} /\ Current(n)'
               \/ \E i \in Arriving(n)' :
                    wire'[i].data = retained'[n] /\ \A j \in Arriving(n)' : j <= i
    <3>1. \A i \in 1..Len(wire') : i \in Arriving(n)' <=> i + 1 \in Arriving(n)
      BY <1>1, <1>2 DEF Arriving
    <3>2. Arriving(n) \subseteq 1..Len(wire) /\ Arriving(n)' \subseteq 1..Len(wire')
      BY <1>1, <1>2 DEF Arriving
    <3>3. 1 \notin Arriving(n)
      BY <1>2, <1>5 DEF Arriving
    <3>4. CASE Arriving(n) = {} /\ Current(n)
      <4>1. Arriving(n)' = {}
        BY <3>1, <3>2, <3>4, <1>2
      <4> QED BY <4>1, <2>1, <3>4, <1>1 DEF Current
    <3>5. ASSUME NEW i \in Arriving(n), wire[i].data = retained[n],
                 \A j \in Arriving(n) : j <= i
          PROVE  \E k \in Arriving(n)' :
                   wire'[k].data = retained'[n] /\ \A j \in Arriving(n)' : j <= k
      <4>1. i \in 1..Len(wire) /\ i - 1 \in 1..Len(wire')
        BY <3>2, <3>3, <1>2
      <4>2. i - 1 \in Arriving(n)' /\ wire'[i - 1] = wire[i]
        BY <4>1, <3>1, <1>2
      <4>3. \A j \in Arriving(n)' : j <= i - 1
        BY <3>1, <3>2, <3>5, <4>1, <1>2
      <4> QED BY <4>2, <4>3, <3>5, <1>1
    <3>6. retained[n] # Never /\ subscribed
      BY <1>1, <2>2
    <3> QED BY <3>4, <3>5, <3>6 DEF StatusIInv, NothingIsMissed
  <2>3. NothingIsMissed'
    BY <2>2 DEF NothingIsMissed
  <2> QED BY <1>1, <1>2, <1>3, <2>1, <2>3 DEF StatusIInv, StatusTypeOK, EntriesAgree
<1> QED BY <1>4, <1>5

(* A frame that Node-RED sends about another node, or that is no status. *)
LEMMA PublishKeepsOthers ==
  ASSUME StatusIInv, NEW f \in StatusFrames, Publish(f), NEW n \in Nodes,
         ~(f.topic = "status" /\ f.id = n /\ f.data # Unreadable),
         retained'[n] = retained[n], UNCHANGED entries,
         subscribed', retained'[n] # Never
  PROVE  \/ Arriving(n)' = {} /\ Current(n)'
         \/ \E i \in Arriving(n)' :
              wire'[i].data = retained'[n] /\ \A j \in Arriving(n)' : j <= i
<1>1. subscribed /\ wire' = Append(wire, f) /\ wire \in Seq(StatusFrames)
  BY DEF Publish, StatusIInv, StatusTypeOK
<1>2. /\ Len(wire) \in Nat /\ Len(wire') = Len(wire) + 1 /\ wire' \in Seq(StatusFrames)
      /\ wire'[Len(wire')] = f
      /\ \A i \in 1..Len(wire) : wire'[i] = wire[i]
  BY <1>1
<1>3. Arriving(n)' = Arriving(n)
  <2>1. \A i \in 1..Len(wire) : i \in Arriving(n)' <=> i \in Arriving(n)
    BY <1>1, <1>2 DEF Arriving
  <2>2. Len(wire') \notin Arriving(n)'
    BY <1>2 DEF Arriving
  <2>3. Arriving(n) \subseteq 1..Len(wire) /\ Arriving(n)' \subseteq 1..Len(wire')
    BY <1>1, <1>2 DEF Arriving
  <2>4. \A i \in 1..Len(wire') : i = Len(wire') \/ i \in 1..Len(wire)
    BY <1>2
  <2>5. Arriving(n)' \subseteq 1..Len(wire)
    BY <2>2, <2>3, <2>4
  <2> QED BY <2>1, <2>3, <2>5
<1>4. Arriving(n) \subseteq 1..Len(wire)
  BY <1>1 DEF Arriving
<1>5. \/ Arriving(n) = {} /\ Current(n)
      \/ \E i \in Arriving(n) : wire[i].data = retained[n] /\ \A j \in Arriving(n) : j <= i
  BY <1>1 DEF StatusIInv, NothingIsMissed
<1>6. Current(n) <=> Current(n)'
  BY DEF Current
<1> QED BY <1>2, <1>3, <1>4, <1>5, <1>6

(* What Publish leaves alone, and the type of what it sends. *)
LEMMA PublishType ==
  ASSUME StatusIInv, NEW f \in StatusFrames, Publish(f)
  PROVE  /\ wire' \in Seq(StatusFrames)
         /\ UNCHANGED <<connected, asked, subscribed>>
         /\ Subscribing'
<1>1. UNCHANGED <<connected, asked, subscribed>>
  BY DEF Publish, loop
<1>2. wire \in Seq(StatusFrames) /\ wire' = (IF subscribed THEN Append(wire, f) ELSE wire)
  BY DEF Publish, StatusIInv, StatusTypeOK
<1>3. wire' \in Seq(StatusFrames)
  BY <1>2
<1> QED BY <1>1, <1>3 DEF StatusIInv, Subscribing

(* A report reaches whoever is subscribed, after all there was. *)
LEMMA ReportKeepsCurrent ==
  ASSUME StatusIInv, NEW n \in Nodes, NEW p \in Payloads, ReportStatus(n, p)
  PROVE  StatusIInv'
<1> DEFINE f == status(n, p)
<1>1. /\ f \in StatusFrames /\ f.topic = "status" /\ f.id = n /\ f.data = p
      /\ f.data # Unreadable
  BY StatusFacts DEF StatusFrames, Reports, status
<1>2. /\ retained' = [retained EXCEPT ![n] = p] /\ Publish(f)
      /\ UNCHANGED <<nodes, entries, query>>
  BY DEF ReportStatus, cache
<1> HIDE DEF f
<1>3. /\ wire' \in Seq(StatusFrames)
      /\ UNCHANGED <<connected, asked, subscribed>>
      /\ Subscribing'
  BY <1>1, <1>2, PublishType
<1>4. /\ retained' \in [Nodes -> Payloads \cup {Never}] /\ retained'[n] = p
      /\ \A m \in Nodes \ {n} : retained'[m] = retained[m]
  BY <1>2 DEF StatusIInv, StatusTypeOK
<1>5. ASSUME NEW m \in Nodes, subscribed', retained'[m] # Never
      PROVE  \/ Arriving(m)' = {} /\ Current(m)'
             \/ \E i \in Arriving(m)' :
                  wire'[i].data = retained'[m] /\ \A j \in Arriving(m)' : j <= i
  <2>1. CASE m = n
    <3>1. subscribed /\ wire \in Seq(StatusFrames) /\ wire' = Append(wire, f)
      BY <1>2, <1>3, <1>5 DEF Publish, StatusIInv, StatusTypeOK
    <3>2. Len(wire') \in 1..Len(wire') /\ wire'[Len(wire')] = f /\ DOMAIN wire' = 1..Len(wire')
      BY <3>1
    <3>3. Len(wire') \in Arriving(m)'
      BY <3>2, <1>1, <2>1 DEF Arriving
    <3>4. \A j \in Arriving(m)' : j <= Len(wire')
      BY <3>2 DEF Arriving
    <3> QED BY <3>2, <3>3, <3>4, <1>1, <1>4, <2>1
  <2>2. CASE m # n
    <3>1. retained'[m] = retained[m]
      BY <1>4, <2>2
    <3> QED BY <3>1, <2>2, <1>1, <1>2, <1>5, PublishKeepsOthers
  <2> QED BY <2>1, <2>2
<1>6. NothingIsMissed'
  BY <1>5 DEF NothingIsMissed
<1> QED BY <1>2, <1>3, <1>4, <1>6 DEF StatusIInv, StatusTypeOK, EntriesAgree

(* A deployment: of a node that it removes, Node-RED retains nothing. *)
LEMMA DeployKeepsCurrent ==
  ASSUME StatusIInv, NEW n \in Nodes, Deploy(n)
  PROVE  StatusIInv'
<1> DEFINE f == status(n, Cleared)
<1>1. /\ f \in StatusFrames /\ f.id = n
  BY DEF StatusFrames, Reports, status
<1>2. UNCHANGED <<entries, query>> /\ nodes' \subseteq Nodes
  BY DEF Deploy, cache, StatusIInv, StatusTypeOK
<1>3. \/ UNCHANGED <<tailVars, retained>>
      \/ /\ retained' = [retained EXCEPT ![n] = Never]
         /\ UNCHANGED tailVars \/ Publish(f)
  BY DEF Deploy
<1> HIDE DEF f
<1>4. wire' \in Seq(StatusFrames) /\ Subscribing'
  <2>1. CASE UNCHANGED tailVars
    BY <2>1 DEF StatusIInv, StatusTypeOK, Subscribing, tailVars, loop, socket
  <2>2. CASE Publish(f)
    BY <2>2, <1>1, PublishType
  <2> QED BY <1>3, <2>1, <2>2
<1>5. /\ retained' \in [Nodes -> Payloads \cup {Never}]
      /\ \A m \in Nodes : retained'[m] # Never => retained'[m] = retained[m]
      /\ ~UNCHANGED tailVars => retained'[n] = Never
  BY <1>3 DEF StatusIInv, StatusTypeOK
<1>6. ASSUME NEW m \in Nodes, subscribed', retained'[m] # Never
      PROVE  \/ Arriving(m)' = {} /\ Current(m)'
             \/ \E i \in Arriving(m)' :
                  wire'[i].data = retained'[m] /\ \A j \in Arriving(m)' : j <= i
  <2>1. retained'[m] = retained[m]
    BY <1>5, <1>6
  <2>2. CASE UNCHANGED tailVars
    BY <2>1, <2>2, <1>2, <1>6
       DEF tailVars, socket, StatusIInv, NothingIsMissed, Arriving, Current
  <2>3. CASE ~UNCHANGED tailVars
    <3>1. Publish(f) /\ m # n
      BY <2>3, <1>3, <1>5, <1>6
    <3> QED BY <3>1, <2>1, <1>1, <1>2, <1>6, PublishKeepsOthers
  <2> QED BY <2>2, <2>3
<1>7. NothingIsMissed'
  BY <1>6 DEF NothingIsMissed
<1> QED BY <1>2, <1>4, <1>5, <1>7 DEF StatusIInv, StatusTypeOK, EntriesAgree

(* StatusFrames that record skips. *)
LEMMA NoiseKeepsCurrent ==
  ASSUME StatusIInv, Noise
  PROVE  StatusIInv'
<1>1. PICK f \in {other} \cup {status(m, Unreadable) : m \in nodes} : Publish(f)
  BY DEF Noise
<1>2. f \in StatusFrames /\ ~(f.topic = "status" /\ f.data # Unreadable)
  <2>1. CASE f = other
    BY <2>1, FrameFields
  <2>2. CASE f # other
    <3>1. PICK m \in nodes : f = status(m, Unreadable)
      BY <1>1, <2>2
    <3>2. m \in Nodes
      BY DEF StatusIInv, StatusTypeOK
    <3>3. f \in StatusFrames
      BY <3>1, <3>2 DEF StatusFrames
    <3> QED BY <3>1, <3>3, FrameFields
  <2> QED BY <2>1, <2>2
<1>3. UNCHANGED <<nodes, retained, entries, query>>
  BY DEF Noise, runtime, cache
<1>4. wire' \in Seq(StatusFrames) /\ Subscribing'
  BY <1>1, <1>2, PublishType
<1>5. ASSUME NEW m \in Nodes, subscribed', retained'[m] # Never
      PROVE  \/ Arriving(m)' = {} /\ Current(m)'
             \/ \E i \in Arriving(m)' :
                  wire'[i].data = retained'[m] /\ \A j \in Arriving(m)' : j <= i
  BY <1>1, <1>2, <1>3, <1>5, PublishKeepsOthers
<1>6. NothingIsMissed'
  BY <1>5 DEF NothingIsMissed
<1> QED BY <1>3, <1>4, <1>6 DEF StatusIInv, StatusTypeOK, EntriesAgree

(* The replay has one frame for every status that is retained. *)
LEMMA ReplayIsComplete ==
  ASSUME NEW R, IsFiniteSet(R), NEW s \in SetToSeqs(R)
  PROVE  /\ s \in [1..Cardinality(R) -> R] /\ Cardinality(R) \in Nat
         /\ \A i, j \in 1..Cardinality(R) : s[i] = s[j] => i = j
         /\ \A n \in R : \E i \in 1..Cardinality(R) : s[i] = n
<1> DEFINE D == 1..Cardinality(R)
<1>1. Cardinality(R) \in Nat
  BY FS_CardinalityType
<1>2. s \in [D -> R] /\ \A i, j \in D : i # j => s[i] # s[j]
  BY DEF SetToSeqs
<1>3. IsFiniteSet(D) /\ Cardinality(D) = Cardinality(R)
  BY <1>1, FS_Interval
<1>4. s \in Injection(D, R)
  BY <1>2 DEF Injection, IsInjective
<1>5. s \in Surjection(D, R)
  BY <1>3, <1>4, FS_Injection
<1> QED BY <1>1, <1>2, <1>5 DEF Surjection

(* A new subscription is told all that is retained, once. *)
LEMMA ReplayKeepsCurrent ==
  ASSUME StatusIInv, Replay
  PROVE  StatusIInv'
<1> DEFINE R == {n \in Nodes : retained[n] # Never}
<1>1. PICK s \in SetToSeqs(R) :
        ServeSubscription([i \in DOMAIN s |-> status(s[i], retained[s[i]])])
  BY DEF Replay
<1>2. UNCHANGED <<nodes, retained, entries, query>>
  BY DEF Replay, runtime, cache
<1>3. IsFiniteSet(R)
  BY StatusFacts, FS_Subset
<1> HIDE DEF R
<1> DEFINE N == Cardinality(R)
<1>4. /\ s \in [1..N -> R] /\ N \in Nat
      /\ \A i, j \in 1..N : s[i] = s[j] => i = j
      /\ \A n \in R : \E i \in 1..N : s[i] = n
  BY <1>3, ReplayIsComplete
<1>5. \A n \in R : n \in Nodes /\ retained[n] \in Payloads
  BY DEF R, StatusIInv, StatusTypeOK
<1>6. \A n \in Nodes : retained[n] # Never => n \in R
  BY DEF R
<1> HIDE DEF N
<1>7. /\ wire' = [i \in 1..N |-> status(s[i], retained[s[i]])]
      /\ subscribed' /\ UNCHANGED connected
  BY <1>1, <1>4 DEF ServeSubscription, loop
<1>8. \A i \in 1..N : /\ wire'[i] = status(s[i], retained[s[i]])
                       /\ wire'[i].topic = "status" /\ wire'[i].id = s[i]
                       /\ wire'[i].data = retained[s[i]] /\ wire'[i].data # Unreadable
                       /\ wire'[i] \in StatusFrames
  <2> SUFFICES ASSUME NEW i \in 1..N
      PROVE  /\ wire'[i] = status(s[i], retained[s[i]])
             /\ wire'[i].topic = "status" /\ wire'[i].id = s[i]
             /\ wire'[i].data = retained[s[i]] /\ wire'[i].data # Unreadable
             /\ wire'[i] \in StatusFrames
    OBVIOUS
  <2>1. wire'[i] = status(s[i], retained[s[i]])
    BY <1>7
  <2>2. s[i] \in Nodes /\ retained[s[i]] \in Payloads
    BY <1>4, <1>5
  <2>3. retained[s[i]] # Unreadable
    BY <2>2, StatusFacts
  <2>4. status(s[i], retained[s[i]]) \in StatusFrames
    BY <2>2 DEF StatusFrames, Reports
  <2> QED BY <2>1, <2>3, <2>4 DEF status
<1>9. wire' \in Seq(StatusFrames) /\ DOMAIN wire' = 1..N
  <2>1. wire' \in [1..N -> StatusFrames]
    BY <1>7, <1>8
  <2> QED BY <2>1, <1>4
<1>10. ASSUME NEW n \in Nodes, retained'[n] # Never
       PROVE  \E i \in Arriving(n)' :
                wire'[i].data = retained'[n] /\ \A j \in Arriving(n)' : j <= i
  <2>1. PICK i \in 1..N : s[i] = n
    BY <1>2, <1>4, <1>6, <1>10
  <2>2. i \in Arriving(n)' /\ wire'[i].data = retained'[n]
    BY <1>2, <1>8, <1>9, <2>1 DEF Arriving
  <2>3. \A j \in Arriving(n)' : j = i
    BY <1>4, <1>8, <1>9, <2>1 DEF Arriving
  <2>4. i <= i
    OBVIOUS
  <2> QED BY <2>2, <2>3, <2>4
<1>11. NothingIsMissed'
  BY <1>10 DEF NothingIsMissed
<1>12. Subscribing'
  BY <1>7 DEF Subscribing
<1> QED BY <1>2, <1>9, <1>11, <1>12 DEF StatusIInv, StatusTypeOK, EntriesAgree

(* Shutting down, and the steps of a query. *)
LEMMA OtherStepsKeepCurrent ==
  ASSUME StatusIInv,
         StatusShutdown \/ ReadFlow \/ (\E n \in Nodes : AskNode(n)) \/ Answer
           \/ UNCHANGED statusVars
  PROVE  StatusIInv'
<1>1. UNCHANGED <<connected, asked, subscribed, wire, nodes, retained, entries>>
  BY DEF StatusShutdown, Cancel, ReadFlow, AskNode, Answer, statusVars, tailVars, loop,
         socket, runtime, cache
<1>2. query' # Never => query' \in [by : {"flow", "node"}, ids : SUBSET Nodes]
  BY DEF StatusShutdown, ReadFlow, AskNode, Answer, statusVars, StatusIInv, StatusTypeOK
<1> QED BY <1>1, <1>2
        DEF StatusIInv, StatusTypeOK, EntriesAgree, Subscribing, NothingIsMissed, Arriving, Current

(* What the loop and Node-RED have of a node is never apart for good: either
   the entry is what Node-RED retains, or the frame that makes it so is the
   last one on the way (comms.go: session; status.go:398-443). *)
THEOREM StatusInductive == StatusSpec => []StatusIInv
<1>1. StatusInit => StatusIInv
  <2> SUFFICES ASSUME StatusInit PROVE StatusIInv
    OBVIOUS
  <2>1. wire = <<>> /\ ~connected /\ ~subscribed
    BY DEF StatusInit, TailInit
  <2>4. wire \in Seq(StatusFrames)
    <3>1. <<>> \in Seq(StatusFrames)
      OBVIOUS
    <3> QED BY <2>1, <3>1
  <2>2. \A n \in Nodes : retained[n] = Never /\ entries[n] = Never
    BY DEF StatusInit
  <2>3. StatusTypeOK
    BY <2>4 DEF StatusInit, StatusTypeOK
  <2> QED BY <2>1, <2>2, <2>3 DEF StatusIInv, EntriesAgree, Subscribing, NothingIsMissed
<1>2. StatusIInv /\ [StatusNext]_statusVars => StatusIInv'
  <2> SUFFICES ASSUME StatusIInv, [StatusNext]_statusVars PROVE StatusIInv'
    OBVIOUS
  <2>1. CASE StatusProceed
    BY <2>1, LoopKeepsCurrent, ReadKeepsCurrent DEF StatusProceed
  <2>2. CASE Replay
    BY <2>2, ReplayKeepsCurrent
  <2>3. CASE Noise
    BY <2>3, NoiseKeepsCurrent
  <2>4. CASE \E n \in Nodes : Deploy(n) \/ \E p \in Payloads : ReportStatus(n, p)
    BY <2>4, DeployKeepsCurrent, ReportKeepsCurrent
  <2>5. CASE StatusShutdown \/ ReadFlow \/ (\E n \in Nodes : AskNode(n)) \/ Answer
               \/ UNCHANGED statusVars
    BY <2>5, OtherStepsKeepCurrent
  <2> QED BY <2>1, <2>2, <2>3, <2>4, <2>5 DEF StatusNext
<1> QED BY <1>1, <1>2, PTL DEF StatusSpec

(* An answer about a flow without a warning, and one about a node given while
   the tail is connected, are up to date but for what is on its way, for any
   nodes and statuses (status.go:462-495, tools_runtime.go:382-432). *)
THEOREM AnswersStayCurrent == StatusSpec => AnswersAreCurrent
<1>1. ASSUME StatusIInv, Answer, ~Warned, ~SilentOutage, NEW n \in query.ids,
             retained[n] # Never, ~OnItsWay(n)
      PROVE  /\ Lines(query.ids)[n] = classify(retained[n])
             /\ classify(retained[n]) = "errored" => LastError(n) = retained[n].text
  <2>1. n \in Nodes
    BY <1>1 DEF Answer, StatusIInv, StatusTypeOK
  <2>2. connected
    BY <1>1 DEF Answer, Warned, SilentOutage, StatusIInv, StatusTypeOK
  <2>3. ~asked /\ subscribed
    BY <1>1, <2>2 DEF OnItsWay, StatusIInv, Subscribing
  <2>4. retained[n] \in Payloads /\ wire \in Seq(StatusFrames)
    BY <1>1, <2>1 DEF StatusIInv, StatusTypeOK
  <2>5. ~\E i \in Arriving(n) : wire[i].data = retained[n]
    <3> SUFFICES ASSUME NEW i \in Arriving(n), wire[i].data = retained[n] PROVE FALSE
      OBVIOUS
    <3>1. /\ i \in DOMAIN wire /\ wire[i] \in StatusFrames
          /\ wire[i].topic = "status" /\ wire[i].id = n
      BY <2>4 DEF Arriving
    <3>2. wire[i] # other
      BY <3>1, FrameFields
    <3>3. PICK m \in Nodes, p \in Reports \cup {Unreadable} : wire[i] = status(m, p)
      BY <3>1, <3>2 DEF StatusFrames
    <3>4. m = n /\ p = retained[n]
      BY <3>1, <3>3, FrameFields
    <3> QED BY <3>1, <3>3, <3>4, <2>4, <1>1 DEF OnItsWay
  <2>6. Current(n)
    BY <1>1, <2>1, <2>3, <2>5 DEF StatusIInv, NothingIsMissed
  <2>7. /\ entries[n] # Never /\ entries[n].status = classify(retained[n])
        /\ entries[n].status = "errored" => entries[n].lastError = retained[n].text
    BY <1>1, <2>1, <2>6 DEF StatusIInv, EntriesAgree, Current
  <2> QED BY <2>7, <1>1 DEF Lines, LastError
<1>2. StatusIInv /\ [StatusNext]_statusVars =>
        [Answer /\ ~Warned /\ ~SilentOutage =>
           \A n \in query.ids :
              retained[n] # Never /\ ~OnItsWay(n) =>
                /\ Lines(query.ids)[n] = classify(retained[n])
                /\ classify(retained[n]) = "errored" => LastError(n) = retained[n].text]_statusVars
  BY <1>1
<1> QED BY <1>2, StatusInductive, PTL DEF StatusSpec, AnswersAreCurrent

-----------------------------------------------------------------------------
(* The debug tail. *)

(* The remainder in record is a wrap-around. *)
LEMMA AdvanceWraps ==
  ASSUME NEW n \in Nat, NEW C \in Nat, n < C
  PROVE (n + 1) % C = IF n + 1 = C THEN 0 ELSE n + 1
  OBVIOUS

USE TailAssumption, RingAssumption DEF TailAssumption, RingAssumption

LEMMA PutKeepsRing ==
  ASSUME TypeOK, RingInv, NEW m \in Messages, Put(m)
  PROVE /\ ring' \in [0..(Capacity - 1) -> Messages]
        /\ next' \in 0..(Capacity - 1)
        /\ filled' \in BOOLEAN
        /\ received' \in Nat
        /\ log' \in Seq(Messages)
        /\ RingInv'
<1>1. next' = IF next + 1 = Capacity THEN 0 ELSE next + 1
  <2>1. next' = (next + 1) % Capacity
    BY DEF Put, Advance
  <2>2. next \in Nat /\ Capacity \in Nat /\ next < Capacity
    BY DEF TypeOK
  <2> QED BY <2>1, <2>2, AdvanceWraps
<1>2. /\ ring' = [ring EXCEPT ![next] = m]
      /\ filled' = (filled \/ next' = 0)
      /\ received' = received + 1
      /\ log' = Append(log, m)
  BY DEF Put
<1>3. /\ next \in 0..(Capacity - 1) /\ log \in Seq(Messages) /\ received \in Nat
      /\ ring \in [0..(Capacity - 1) -> Messages] /\ filled \in BOOLEAN
  BY DEF TypeOK
<1>4. /\ Len(log') = Len(log) + 1
      /\ \A j \in 1..Len(log) : log'[j] = log[j]
      /\ log'[Len(log) + 1] = m
      /\ log' \in Seq(Messages)
  BY <1>2, <1>3
<1>5. /\ ring' \in [0..(Capacity - 1) -> Messages]
      /\ ring'[next] = m
      /\ \A i \in 0..(Capacity - 1) : i # next => ring'[i] = ring[i]
  BY <1>2, <1>3
<1>6. Len(log) \in Nat /\ next <= Len(log) /\ (filled => Len(log) >= Capacity)
  BY <1>3 DEF RingInv
<1>7. received' = Len(log') /\ (filled' <=> Len(log') >= Capacity)
      /\ (~filled' => next' = Len(log'))
  <2>1. filled' <=> filled \/ next' = 0
    BY <1>2, <1>3
  <2>2. received = Len(log) /\ (filled <=> Len(log) >= Capacity) /\ (~filled => next = Len(log))
    BY DEF RingInv
  <2>3. CASE filled
    BY <2>1, <2>2, <2>3, <1>2, <1>4, <1>6
  <2>4. CASE ~filled
    BY <2>1, <2>2, <2>4, <1>1, <1>2, <1>3, <1>4, <1>6
  <2> QED BY <2>3, <2>4
<1>8. ASSUME filled', NEW i \in next'..(Capacity - 1)
      PROVE ring'[i] = log'[Len(log') - Capacity + 1 + i - next']
  <2>1. CASE next + 1 = Capacity
    <3>1. next' = 0
      BY <1>1, <2>1
    <3>2. CASE i = next
      BY <3>1, <3>2, <2>1, <1>3, <1>4, <1>5, <1>6
    <3>3. CASE i # next
      <4>1. i \in 0..(next - 1) /\ ring'[i] = ring[i]
        BY <3>1, <3>3, <2>1, <1>3, <1>5
      <4>2. ring[i] = log[Len(log) - next + 1 + i]
        BY <4>1 DEF RingInv
      <4>3. Len(log) - next + 1 + i \in 1..Len(log)
        BY <4>1, <1>3, <1>6
      <4> QED
        BY <3>1, <4>1, <4>2, <4>3, <2>1, <1>3, <1>4, <1>6
    <3> QED BY <3>2, <3>3
  <2>2. CASE next + 1 # Capacity
    <3>1. next' = next + 1 /\ filled
      BY <1>1, <1>2, <1>3, <1>8, <2>2
    <3>2. i \in next..(Capacity - 1) /\ i # next /\ ring'[i] = ring[i]
      BY <3>1, <1>3, <1>5
    <3>3. ring[i] = log[Len(log) - Capacity + 1 + i - next]
      BY <3>1, <3>2 DEF RingInv
    <3>4. Len(log) - Capacity + 1 + i - next \in 1..Len(log)
      BY <3>1, <3>2, <1>3, <1>6
    <3> QED
      BY <3>1, <3>2, <3>3, <3>4, <1>3, <1>4
  <2> QED BY <2>1, <2>2
<1>9. ASSUME NEW i \in 0..(next' - 1)
      PROVE ring'[i] = log'[Len(log') - next' + 1 + i]
  <2>1. next' = next + 1 /\ i \in 0..next
    BY <1>1, <1>3
  <2>2. CASE i = next
    BY <2>1, <2>2, <1>3, <1>4, <1>5, <1>6
  <2>3. CASE i # next
    <3>1. i \in 0..(next - 1) /\ ring'[i] = ring[i]
      BY <2>1, <2>3, <1>3, <1>5
    <3>2. ring[i] = log[Len(log) - next + 1 + i]
      BY <3>1 DEF RingInv
    <3>3. Len(log) - next + 1 + i \in 1..Len(log)
      BY <3>1, <1>3, <1>6
    <3> QED
      BY <2>1, <3>1, <3>2, <3>3, <1>3, <1>4
  <2> QED BY <2>2, <2>3
<1>10. next' \in 0..(Capacity - 1) /\ filled' \in BOOLEAN /\ received' \in Nat
  BY <1>1, <1>2, <1>3
<1> QED
  BY <1>4, <1>5, <1>7, <1>8, <1>9, <1>10 DEF RingInv

-----------------------------------------------------------------------------
Frames == Seq([topic : {"debug", "hb"}, data : 0..MaxMessages])

LEMMA InitInv == Init => IInv
<1> SUFFICES ASSUME Init PROVE IInv
  OBVIOUS
<1>1. ring = [i \in 0..(Capacity - 1) |-> Empty] /\ Empty \in Messages
  BY DEF Init, Empty, Messages
<1>2. log = <<>> /\ wire = <<>> /\ log \in Seq(Messages) /\ wire \in Frames /\ Len(log) = 0
  <2>1. log = <<>> /\ wire = <<>>
    BY DEF Init, TailInit
  <2>2. <<>> \in Seq(Messages) /\ <<>> \in Frames
    BY DEF Frames
  <2> QED BY <2>1, <2>2
<1>3. TypeOK
  <2> TailInit
    BY DEF Init
  <2>1. TailTypeOK
    <3>1. delay \in reconnectMinDelay..reconnectMaxDelay /\ faults \in 0..MaxFaults
      <4>1. delay = 1 /\ faults = 0
        BY DEF TailInit, reconnectMinDelay
      <4> QED BY <4>1 DEF reconnectMinDelay, reconnectMaxDelay
    <3>2. pc \in InSession
      BY DEF TailInit, InSession
    <3> QED BY <3>1, <3>2 DEF TailInit, TailTypeOK
  <2>2. next = 0 /\ filled = FALSE /\ received = 0 /\ now = 0 /\ emitted = 0 /\ lost = {}
    BY DEF Init
  <2> QED BY <1>1, <1>2, <2>1, <2>2 DEF TypeOK, Frames
<1>4. RingInv
  BY <1>2 DEF Init, RingInv
<1>5. StateIsHonest /\ EndedInv
  BY DEF Init, TailInit, StateIsHonest, EndedInv
<1> QED BY <1>3, <1>4, <1>5 DEF IInv

(* What the connection loop promises of its own variables. *)
LoopInv == TailTypeOK /\ StateIsHonest /\ EndedInv

LEMMA EndSessionKeeps ==
  ASSUME LoopInv, FailedSession
  PROVE LoopInv' /\ wire' = <<>>
<1>1. \A reason \in Errors : EndSession(reason) => LoopInv' \/ ~(faults' \in 0..MaxFaults)
  BY DEF EndSession, LoopInv, TailTypeOK, StateIsHonest, EndedInv, InSession, Errors
<1>2. PICK at \in InSession, reason \in Errors : Fail(at, reason)
  BY DEF FailedSession, InSession, Errors
<1>3. faults' \in 0..MaxFaults
  <2>1. faults \in 0..MaxFaults /\ MaxFaults \in Nat
    BY DEF LoopInv, TailTypeOK
  <2>2. faults' = faults \/ (faults < MaxFaults /\ faults' = faults + 1)
    BY <1>2 DEF Fail
  <2> QED BY <2>1, <2>2
<1> QED BY <1>1, <1>2, <1>3 DEF Fail, EndSession

LEMMA StepKeeps ==
  ASSUME LoopInv, Step
  PROVE LoopInv' /\ wire' = wire
<1>1. wire' = wire
  BY DEF Step, Dial, Authenticate, Subscribe, Report, Wake, Stop, socket
<1>2. CASE Dial
  BY <1>2 DEF Dial, LoopInv, TailTypeOK, StateIsHonest, EndedInv, InSession, socket
<1>3. CASE Authenticate
  BY <1>3 DEF Authenticate, LoopInv, TailTypeOK, StateIsHonest, EndedInv, InSession, socket
<1>4. CASE Subscribe
  BY <1>4 DEF Subscribe, LoopInv, TailTypeOK, StateIsHonest, EndedInv, InSession
<1>5. CASE Report
  BY <1>5 DEF Report, LoopInv, TailTypeOK, StateIsHonest, EndedInv, InSession, socket
<1>6. CASE Wake
  <2>1. delay' \in reconnectMinDelay..reconnectMaxDelay
    <3>1. delay \in 1..30
      BY DEF LoopInv, TailTypeOK, reconnectMinDelay, reconnectMaxDelay
    <3>2. delay' = IF 2 * delay > 30 THEN 30 ELSE 2 * delay
      BY <1>6 DEF Wake, reconnectMaxDelay
    <3> QED BY <3>1, <3>2 DEF reconnectMinDelay, reconnectMaxDelay
  <2> QED
    BY <1>6, <2>1 DEF Wake, LoopInv, TailTypeOK, StateIsHonest, EndedInv, InSession, socket
<1>7. CASE Stop
  BY <1>7 DEF Stop, LoopInv, TailTypeOK, StateIsHonest, EndedInv, InSession, socket
<1> QED BY <1>1, <1>2, <1>3, <1>4, <1>5, <1>6, <1>7 DEF Step

LEMMA StoreUnchanged ==
  ASSUME RingInv, UNCHANGED store
  PROVE RingInv'
BY DEF RingInv, store

(* The loop and the wire, then the ring, then what Node-RED does. *)
LEMMA ReadKeeps ==
  ASSUME IInv, Read
  PROVE IInv'
<1>1. /\ wire \in Frames /\ wire # <<>> /\ wire' = Tail(wire)
      /\ UNCHANGED <<loop, asked, subscribed, cancelled, faults, world>>
  BY DEF Read, Receive, IInv, TypeOK, Frames
<1>2. LoopInv' /\ UNCHANGED world
  BY <1>1 DEF IInv, TypeOK, TailTypeOK, LoopInv, StateIsHonest, EndedInv, loop
<1>3. Head(wire) \in [topic : {"debug", "hb"}, data : 0..MaxMessages] /\ wire' \in Frames
  <2> DEFINE F == [topic : {"debug", "hb"}, data : 0..MaxMessages]
  <2>1. wire \in Seq(F) /\ wire # <<>> /\ wire' = Tail(wire)
    BY <1>1 DEF Frames
  <2> HIDE DEF F
  <2>2. Head(wire) \in F /\ wire' \in Seq(F)
    BY <2>1
  <2> QED BY <2>2 DEF F, Frames
<1>4. consume(Head(wire))
  BY DEF Read
<1>5. CASE Head(wire).topic = "debug"
  <2> DEFINE m == [at |-> now, data |-> Head(wire).data]
  <2>1. Put(m) /\ m \in Messages
    BY <1>3, <1>4, <1>5 DEF consume, record, Messages, IInv, TypeOK
  <2>2. TypeOK /\ RingInv
    BY DEF IInv
  <2> HIDE DEF m
  <2>3. /\ ring' \in [0..(Capacity - 1) -> Messages]
        /\ next' \in 0..(Capacity - 1)
        /\ filled' \in BOOLEAN
        /\ received' \in Nat
        /\ log' \in Seq(Messages)
        /\ RingInv'
    BY <2>1, <2>2, PutKeepsRing
  <2> QED BY <1>2, <1>3, <2>2, <2>3 DEF IInv, TypeOK, LoopInv, world, Frames
<1>6. CASE Head(wire).topic # "debug"
  <2>1. UNCHANGED store
    BY <1>4, <1>6 DEF consume
  <2>2. RingInv'
    BY <2>1, StoreUnchanged DEF IInv
  <2> QED BY <1>2, <1>3, <2>1, <2>2 DEF IInv, TypeOK, LoopInv, world, store, Frames
<1> QED BY <1>5, <1>6

LEMMA DisconnectKeeps ==
  ASSUME IInv, Disconnect
  PROVE IInv'
<1>1. LoopInv' /\ wire' = <<>> /\ UNCHANGED <<store, now, emitted>>
  BY EndSessionKeeps DEF Disconnect, IInv, TypeOK, LoopInv
<1>2. lost' \subseteq 0..MaxMessages
  <2> DEFINE F == [topic : {"debug", "hb"}, data : 0..MaxMessages]
  <2>1. wire \in Seq(F) /\ lost \subseteq 0..MaxMessages
    BY DEF IInv, TypeOK
  <2>2. \A f \in F : f.data \in 0..MaxMessages
    OBVIOUS
  <2> HIDE DEF F
  <2>3. \A i \in DOMAIN wire : wire[i].data \in 0..MaxMessages
    BY <2>1, <2>2
  <2>4. lost' = lost \cup {wire[i].data : i \in {j \in DOMAIN wire : wire[j].topic = "debug"}}
    BY DEF Disconnect, LoseWire, Sent
  <2> QED BY <2>1, <2>3, <2>4
<1>3. RingInv'
  BY <1>1, StoreUnchanged DEF IInv
<1> QED BY <1>1, <1>2, <1>3 DEF IInv, TypeOK, LoopInv, store, Frames

LEMMA ServeKeeps ==
  ASSUME IInv, Serve
  PROVE IInv'
<1>1. /\ wire' = <<>> /\ asked /\ subscribed' = TRUE /\ asked' = FALSE
      /\ UNCHANGED <<loop, cancelled, faults, store, world>>
  BY DEF Serve, ServeSubscription
<1>2. LoopInv'
  BY <1>1 DEF IInv, TypeOK, LoopInv, TailTypeOK, StateIsHonest, EndedInv, loop
<1>3. RingInv'
  BY <1>1, StoreUnchanged DEF IInv
<1> QED BY <1>1, <1>2, <1>3 DEF IInv, TypeOK, LoopInv, store, world

LEMMA PublishKeeps ==
  ASSUME IInv, NEW frame \in [topic : {"debug", "hb"}, data : 0..MaxMessages],
         Publish(frame), UNCHANGED store
  PROVE LoopInv' /\ RingInv' /\ wire' \in Frames
<1>1. UNCHANGED <<loop, asked, subscribed, cancelled, faults>>
  BY DEF Publish
<1>2. LoopInv'
  BY <1>1 DEF IInv, TypeOK, LoopInv, TailTypeOK, StateIsHonest, EndedInv, loop
<1>3. wire' \in Frames
  <2> DEFINE F == [topic : {"debug", "hb"}, data : 0..MaxMessages]
  <2>1. wire \in Seq(F) /\ frame \in F /\ wire' = IF subscribed THEN Append(wire, frame) ELSE wire
    BY DEF IInv, TypeOK, Publish
  <2> HIDE DEF F
  <2>2. wire' \in Seq(F)
    BY <2>1
  <2> QED BY <2>2 DEF F, Frames
<1>4. RingInv'
  BY StoreUnchanged DEF IInv
<1> QED BY <1>2, <1>3, <1>4

(* The ring holds the newest messages, the connection state and its reason
   belong together, and an ended connection has its reason, in every state. *)
THEOREM Inductive == Spec => []IInv
<1>1. ASSUME IInv, [Next]_vars
      PROVE IInv'
  <2>1. CASE Read
    BY <2>1, <1>1, ReadKeeps
  <2>2. CASE Disconnect
    BY <2>2, <1>1, DisconnectKeeps
  <2>3. CASE Step /\ UNCHANGED <<store, world>>
    <3>1. LoopInv' /\ wire' = wire
      BY <2>3, <1>1, StepKeeps DEF IInv, TypeOK, LoopInv
    <3>2. RingInv'
      BY <2>3, <1>1, StoreUnchanged DEF IInv
    <3> QED BY <2>3, <3>1, <3>2, <1>1 DEF IInv, TypeOK, LoopInv, store, world
  <2>4. CASE Serve
    BY <2>4, <1>1, ServeKeeps
  <2>5. CASE Emit
    <3>1. debug(emitted + 1) \in [topic : {"debug", "hb"}, data : 0..MaxMessages]
      BY <2>5, <1>1 DEF Emit, debug, IInv, TypeOK
    <3>2. Publish(debug(emitted + 1)) /\ UNCHANGED <<store, now>>
      BY <2>5 DEF Emit
    <3>3. LoopInv' /\ RingInv' /\ wire' \in Frames
      BY <3>1, <3>2, <1>1, PublishKeeps
    <3>4. emitted' \in 0..MaxMessages /\ lost' \subseteq 0..MaxMessages
      BY <2>5, <1>1 DEF Emit, IInv, TypeOK
    <3> QED BY <3>2, <3>3, <3>4, <1>1 DEF IInv, TypeOK, LoopInv, Frames, store
  <2>6. CASE Heartbeat
    <3>1. heartbeat \in [topic : {"debug", "hb"}, data : 0..MaxMessages]
      BY DEF heartbeat
    <3>2. Publish(heartbeat) /\ UNCHANGED <<store, world>>
      BY <2>6 DEF Heartbeat
    <3>3. LoopInv' /\ RingInv' /\ wire' \in Frames
      BY <3>1, <3>2, <1>1, PublishKeeps
    <3> QED BY <3>2, <3>3, <1>1 DEF IInv, TypeOK, LoopInv, Frames, store, world
  <2>7. CASE Shutdown
    <3>1. LoopInv' /\ UNCHANGED <<store, world, wire>>
      BY <2>7, <1>1 DEF Shutdown, Cancel, IInv, TypeOK, LoopInv, TailTypeOK, StateIsHonest,
         EndedInv, loop, socket
    <3>2. RingInv'
      BY <3>1, <1>1, StoreUnchanged DEF IInv
    <3> QED BY <3>1, <3>2, <1>1 DEF IInv, TypeOK, LoopInv, store, world
  <2>8. CASE Tick
    <3>1. LoopInv' /\ wire' = wire
      BY <2>8, <1>1 DEF Tick, IInv, TypeOK, LoopInv, TailTypeOK, StateIsHonest,
         EndedInv, tailVars, loop, socket
    <3>2. RingInv'
      BY <2>8, <1>1, StoreUnchanged DEF Tick, IInv
    <3>3. now' \in 0..MaxNow
      BY <2>8, <1>1 DEF Tick, IInv, TypeOK
    <3> QED BY <2>8, <3>1, <3>2, <3>3, <1>1 DEF Tick, IInv, TypeOK, LoopInv, store
  <2>9. CASE UNCHANGED vars
    <3>1. LoopInv' /\ UNCHANGED <<store, world, wire>>
      BY <2>9, <1>1 DEF vars, IInv, TypeOK, LoopInv, TailTypeOK, StateIsHonest,
         EndedInv, tailVars, loop, socket
    <3>2. RingInv'
      BY <3>1, <1>1, StoreUnchanged DEF IInv
    <3> QED BY <3>1, <3>2, <1>1 DEF IInv, TypeOK, LoopInv, store, world
  <2> QED
    BY <2>1, <2>2, <2>3, <2>4, <2>5, <2>6, <2>7, <2>8, <2>9, <1>1 DEF Next, Proceed
<1> QED BY InitInv, <1>1, PTL DEF Spec

(* The connection state a snapshot reports is the one the loop has. *)
THEOREM StateHonest == Spec => []StateIsHonest
BY Inductive, PTL DEF IInv

-----------------------------------------------------------------------------
(* The two halves of the ring, put together, are the end of the log. *)
LEMMA OrderedIsWindow ==
  ASSUME IInv
  PROVE /\ Ordered = Window
        /\ Len(Ordered) = IF Len(log) < Capacity THEN Len(log) ELSE Capacity
<1>1. /\ next \in 0..(Capacity - 1) /\ log \in Seq(Messages) /\ Len(log) \in Nat
      /\ next <= Len(log)
      /\ ring \in [0..(Capacity - 1) -> Messages] /\ Capacity \in Nat \ {0}
  BY DEF IInv, TypeOK, RingInv
<1> DEFINE old == Slots(next, Capacity)
           new == Slots(0, next)
<1>2. /\ old \in Seq(Messages) /\ Len(old) = Capacity - next
      /\ \A i \in 1..(Capacity - next) : old[i] = ring[next + i - 1]
  BY <1>1 DEF Slots
<1>3. /\ new \in Seq(Messages) /\ Len(new) = next
      /\ \A i \in 1..next : new[i] = ring[i - 1]
  BY <1>1 DEF Slots
<1> HIDE DEF old, new
<1>4. CASE ~filled
  <2>1. Ordered = new
    BY <1>3, <1>4 DEF Ordered, new
  <2>2. Len(log) = next /\ Len(log) < Capacity
    BY <1>1, <1>4 DEF IInv, RingInv
  <2>3. \A i \in 1..next : new[i] = log[i]
    BY <1>1, <1>3, <2>2 DEF IInv, RingInv
  <2>4. new = log
    BY <1>1, <1>3, <2>2, <2>3
  <2>5. Window = log
    BY <2>2, <1>1 DEF Window, Newest
  <2> QED BY <2>1, <2>2, <2>4, <2>5
<1>5. CASE filled
  <2>1. Ordered = old \o new
    BY <1>5 DEF Ordered, old, new
  <2>2. Len(log) >= Capacity
    BY <1>5 DEF IInv, RingInv
  <2> DEFINE W == SubSeq(log, Len(log) - Capacity + 1, Len(log))
  <2>3. /\ W \in Seq(Messages) /\ Len(W) = Capacity
        /\ \A i \in 1..Capacity : W[i] = log[Len(log) - Capacity + i]
    BY <1>1, <2>2
  <2>4. /\ old \o new \in Seq(Messages) /\ Len(old \o new) = Capacity
        /\ \A i \in 1..Capacity :
             (old \o new)[i] = IF i <= Capacity - next THEN old[i] ELSE new[i - (Capacity - next)]
    BY <1>1, <1>2, <1>3
  <2> HIDE DEF W
  <2>5. ASSUME NEW i \in 1..Capacity
        PROVE (old \o new)[i] = W[i]
    <3>1. CASE i <= Capacity - next
      <4>1. next + i - 1 \in next..(Capacity - 1)
        BY <3>1, <1>1
      <4>2. ring[next + i - 1] = log[Len(log) - Capacity + 1 + (next + i - 1) - next]
        BY <4>1, <1>5 DEF IInv, RingInv
      <4>3. Len(log) - Capacity + 1 + (next + i - 1) - next = Len(log) - Capacity + i
        BY <1>1
      <4>4. (old \o new)[i] = ring[next + i - 1]
        BY <3>1, <2>4, <1>1, <1>2
      <4> QED BY <4>2, <4>3, <4>4, <2>3
    <3>2. CASE i > Capacity - next
      <4> DEFINE k == i - (Capacity - next)
      <4>1. k \in 1..next /\ k - 1 \in 0..(next - 1)
        BY <3>2, <1>1
      <4>2. ring[k - 1] = log[Len(log) - next + 1 + (k - 1)]
        BY <4>1 DEF IInv, RingInv
      <4>3. Len(log) - next + 1 + (k - 1) = Len(log) - Capacity + i
        BY <1>1
      <4>4. (old \o new)[i] = new[k] /\ new[k] = ring[k - 1]
        BY <3>2, <4>1, <2>4, <1>1, <1>3
      <4> QED BY <4>2, <4>3, <4>4, <2>3
    <3> QED BY <3>1, <3>2, <1>1
  <2>6. old \o new = W
    BY <2>3, <2>4, <2>5
  <2>7. Window = W
    <3>1. CASE Len(log) = Capacity
      BY <3>1, <1>1 DEF Window, Newest, W
    <3>2. CASE Len(log) > Capacity
      BY <3>2, <1>1 DEF Window, Newest, W
    <3> QED BY <3>1, <3>2, <2>2, <1>1
  <2> QED BY <2>1, <2>2, <2>4, <2>6, <2>7, <1>1
<1> QED BY <1>4, <1>5

(* A snapshot shows the end of the log, for every capacity of the ring. *)
THEOREM SnapshotsAreTails == Spec => []SnapshotIsTail
<1>1. IInv => SnapshotIsTail
  <2> SUFFICES ASSUME IInv, NEW limit \in 0..(Capacity + 1), NEW since \in 0..MaxNow
               PROVE Snapshot(limit, since) =
                 [messages |-> Newest(Since(Window, since), limit),
                  buffered |-> IF Len(log) < Capacity THEN Len(log) ELSE Capacity,
                  dropped |-> IF Len(log) < Capacity THEN 0 ELSE Len(log) - Capacity]
    BY DEF SnapshotIsTail
  <2>1. /\ Ordered = Window
        /\ Len(Ordered) = IF Len(log) < Capacity THEN Len(log) ELSE Capacity
    BY OrderedIsWindow
  <2>2. received = Len(log) /\ Len(log) \in Nat
    BY DEF IInv, RingInv, TypeOK
  <2>3. received - Len(Ordered) = IF Len(log) < Capacity THEN 0 ELSE Len(log) - Capacity
    BY <2>1, <2>2
  <2> QED BY <2>1, <2>3 DEF Snapshot
<1> QED BY <1>1, Inductive, PTL

-----------------------------------------------------------------------------
(* The order of what is recorded, with what is still on the wire.            *)

LEMMA SentType ==
  ASSUME TypeOK
  PROVE /\ \A i \in Sent : i \in 1..Len(wire) /\ wire[i].data \in Nat /\ wire[i].topic = "debug"
        /\ \A i \in DOMAIN log : i \in 1..Len(log) /\ log[i].data \in Nat
        /\ Len(wire) \in Nat /\ Len(log) \in Nat /\ emitted \in Nat
<1> DEFINE F == [topic : {"debug", "hb"}, data : 0..MaxMessages]
<1>1. wire \in Seq(F) /\ log \in Seq(Messages) /\ emitted \in Nat
  BY DEF TypeOK
<1>2. (\A f \in F : f.data \in Nat) /\ \A m \in Messages : m.data \in Nat
  BY DEF Messages
<1> HIDE DEF F
<1>3. /\ DOMAIN wire = 1..Len(wire) /\ \A i \in 1..Len(wire) : wire[i] \in F
      /\ DOMAIN log = 1..Len(log) /\ \A i \in 1..Len(log) : log[i] \in Messages
      /\ Len(wire) \in Nat /\ Len(log) \in Nat
  BY <1>1
<1> QED BY <1>1, <1>2, <1>3 DEF Sent

(* Steps that touch neither the log nor the wire. *)
LEMMA SilentKeepsOrder ==
  ASSUME RecordedInOrder, UNCHANGED <<log, wire, emitted, lost>>
  PROVE RecordedInOrder'
<1>1. Sent' = Sent
  BY DEF Sent
<1> QED BY <1>1 DEF RecordedInOrder

LEMMA ReadKeepsOrder ==
  ASSUME IInv, RecordedInOrder, Read
  PROVE RecordedInOrder'
<1> DEFINE F == [topic : {"debug", "hb"}, data : 0..MaxMessages]
           head == wire[1]
<1>1. TypeOK /\ wire \in Seq(F) /\ wire # <<>> /\ wire' = Tail(wire) /\ UNCHANGED <<emitted, lost>>
  BY DEF IInv, TypeOK, Read, Receive, world
<1> HIDE DEF F
<1>2. /\ Len(wire) \in Nat /\ DOMAIN wire = 1..Len(wire) /\ 1 \in DOMAIN wire /\ Head(wire) = head
      /\ DOMAIN wire' = 1..(Len(wire) - 1)
      /\ \A i \in DOMAIN wire' : i + 1 \in DOMAIN wire /\ wire'[i] = wire[i + 1]
  BY <1>1
<1>3. (* The frames behind the first one move up. *)
      /\ \A i : i \in Sent' <=> i \in DOMAIN wire' /\ i + 1 \in Sent
      /\ \A j \in Sent : j \in Nat /\ (j = 1 \/ j - 1 \in Sent')
      /\ \A i \in Sent' : i \in Nat /\ wire'[i].data = wire[i + 1].data
  BY <1>2 DEF Sent
<1>4. consume(head) /\ head \in F
  BY <1>1, <1>2 DEF Read
<1>5. CASE head.topic = "debug"
  <2>1. log' = Append(log, [at |-> now, data |-> head.data]) /\ 1 \in Sent
    BY <1>2, <1>4, <1>5 DEF consume, record, Put, Sent
  <2>2. log \in Seq(Messages) /\ [at |-> now, data |-> head.data] \in Messages
    BY <1>1, <1>4 DEF TypeOK, Messages, F
  <2>3. /\ Len(log) \in Nat /\ DOMAIN log = 1..Len(log) /\ DOMAIN log' = 1..(Len(log) + 1)
        /\ \A i \in DOMAIN log : log'[i] = log[i]
        /\ log'[Len(log) + 1].data = head.data
    BY <2>1, <2>2
  <2>4. \A i, j \in DOMAIN log' : i < j => log'[i].data < log'[j].data
    BY <1>2, <2>1, <2>3 DEF RecordedInOrder
  <2>5. \A i, j \in Sent' : i < j => wire'[i].data < wire'[j].data
    BY <1>3 DEF RecordedInOrder
  <2>6. \A i \in DOMAIN log', j \in Sent' : log'[i].data < wire'[j].data
    <3> SUFFICES ASSUME NEW i \in DOMAIN log', NEW j \in Sent' PROVE log'[i].data < wire'[j].data
      OBVIOUS
    <3>1. j + 1 \in Sent /\ 1 < j + 1 /\ wire'[j].data = wire[j + 1].data
      BY <1>2, <1>3
    <3>2. CASE i \in DOMAIN log
      BY <3>1, <3>2, <2>3 DEF RecordedInOrder
    <3>3. CASE i = Len(log) + 1
      BY <3>1, <3>3, <2>1, <2>3 DEF RecordedInOrder
    <3> QED BY <2>3, <3>2, <3>3
  <2>7. {log'[i].data : i \in DOMAIN log'} = {log[i].data : i \in DOMAIN log} \cup {head.data}
    BY <2>3
  <2>8. {wire[j].data : j \in Sent} = {wire'[j].data : j \in Sent'} \cup {head.data}
    <3>1. \A j \in Sent : wire[j].data = head.data \/ \E i \in Sent' : wire'[i].data = wire[j].data
      <4> SUFFICES ASSUME NEW j \in Sent, j # 1
                   PROVE \E i \in Sent' : wire'[i].data = wire[j].data
        OBVIOUS
      <4>1. j - 1 \in Sent' /\ (j - 1) + 1 = j
        BY <1>3
      <4> QED BY <4>1, <1>3
    <3>2. \A i \in Sent' : i + 1 \in Sent /\ wire'[i].data = wire[i + 1].data
      BY <1>3
    <3> QED BY <2>1, <3>1, <3>2
  <2> QED BY <1>1, <2>4, <2>5, <2>6, <2>7, <2>8 DEF RecordedInOrder
<1>6. CASE head.topic # "debug"
  <2>1. log' = log /\ 1 \notin Sent
    BY <1>2, <1>4, <1>6 DEF consume, store, Sent
  <2>2. \A i, j \in Sent' : i < j => wire'[i].data < wire'[j].data
    BY <1>3 DEF RecordedInOrder
  <2>3. \A i \in DOMAIN log', j \in Sent' : log'[i].data < wire'[j].data
    BY <1>3, <2>1 DEF RecordedInOrder
  <2>4. {wire[j].data : j \in Sent} = {wire'[j].data : j \in Sent'}
    <3>1. \A j \in Sent : j - 1 \in Sent' /\ (j - 1) + 1 = j
      BY <1>3, <2>1
    <3>2. \A i \in Sent' : i + 1 \in Sent /\ wire'[i].data = wire[i + 1].data
      BY <1>3
    <3>3. \A j \in Sent : \E i \in Sent' : wire'[i].data = wire[j].data
      BY <1>3, <3>1
    <3> QED BY <3>2, <3>3
  <2> QED BY <1>1, <2>1, <2>2, <2>3, <2>4 DEF RecordedInOrder
<1> QED BY <1>5, <1>6

(* What was on the wire goes with the socket. *)
LEMMA DisconnectKeepsOrder ==
  ASSUME IInv, RecordedInOrder, Disconnect
  PROVE /\ wire' = <<>> /\ ~subscribed' /\ ~asked' /\ UNCHANGED emitted
        /\ lost' \subseteq lost \cup 1..emitted
        /\ RecordedInOrder'
<1>1. wire' = <<>> /\ ~subscribed' /\ ~asked'
  BY DEF Disconnect, FailedSession, Fail, EndSession
<1>2. log' = log /\ emitted' = emitted /\ lost' = lost \cup {wire[i].data : i \in Sent}
  BY DEF Disconnect, LoseWire, store
<1>3. Sent' = {}
  BY <1>1 DEF Sent
<1>4. {log[i].data : i \in DOMAIN log} \cap {wire[j].data : j \in Sent} = {}
  <2>1. \A i \in DOMAIN log, j \in Sent : log[i].data # wire[j].data
    BY SentType DEF RecordedInOrder, IInv
  <2> QED BY <2>1
<1>5. {log[i].data : i \in DOMAIN log} = (1..emitted) \ lost'
  BY <1>2, <1>4 DEF RecordedInOrder
<1>6. {wire[i].data : i \in Sent} \subseteq 1..emitted
  BY DEF RecordedInOrder
<1> QED BY <1>1, <1>2, <1>3, <1>5, <1>6 DEF RecordedInOrder

(* A frame that is published comes last. *)
LEMMA PublishedLast ==
  ASSUME TypeOK, subscribed, NEW frame \in [topic : {"debug", "hb"}, data : 0..MaxMessages],
         Publish(frame)
  PROVE /\ \A i \in Sent : i \in Nat /\ i < Len(wire) + 1 /\ i \in Sent' /\ wire'[i] = wire[i]
        /\ \A i \in Sent' : i \in Sent \/ (i = Len(wire) + 1 /\ frame.topic = "debug")
        /\ frame.topic = "debug" => Len(wire) + 1 \in Sent'
        /\ wire'[Len(wire) + 1] = frame
<1> DEFINE F == [topic : {"debug", "hb"}, data : 0..MaxMessages]
<1>1. wire \in Seq(F) /\ frame \in F /\ wire' = Append(wire, frame)
  BY DEF TypeOK, Publish
<1> HIDE DEF F
<1>2. /\ Len(wire) \in Nat /\ DOMAIN wire = 1..Len(wire) /\ DOMAIN wire' = 1..(Len(wire) + 1)
      /\ \A i \in 1..Len(wire) : wire'[i] = wire[i]
      /\ wire'[Len(wire) + 1] = frame
  BY <1>1
<1> QED BY <1>2 DEF Sent

LEMMA EmitKeepsOrder ==
  ASSUME IInv, OrderInv, Emit
  PROVE RecordedInOrder'
<1> DEFINE n == emitted + 1
<1>1. /\ TypeOK /\ RecordedInOrder /\ log' = log /\ emitted' = n
      /\ emitted \in Nat /\ n \in 1..MaxMessages
  BY DEF IInv, OrderInv, Emit, store, TypeOK
<1>2. (1..n) = (1..emitted) \cup {n} /\ n \notin 1..emitted
  BY <1>1
<1>3. CASE ~subscribed
  <2>1. wire' = wire /\ wire = <<>> /\ lost' = lost \cup {n}
    BY <1>3 DEF Emit, Publish, OrderInv
  <2>2. Sent' = Sent
    BY <2>1 DEF Sent
  <2> QED BY <1>1, <1>2, <2>1, <2>2 DEF RecordedInOrder
<1>4. CASE subscribed
  <2>1. Publish(debug(n)) /\ lost' = lost
    BY <1>4 DEF Emit
  <2>2. debug(n) \in [topic : {"debug", "hb"}, data : 0..MaxMessages]
        /\ debug(n).topic = "debug" /\ debug(n).data = n
    BY <1>1 DEF debug
  <2> DEFINE last == Len(wire) + 1
  <2>3. /\ \A i \in Sent : i \in Nat /\ i < last /\ i \in Sent' /\ wire'[i] = wire[i]
        /\ \A i \in Sent' : i \in Sent \/ i = last
        /\ last \in Sent' /\ wire'[last].data = n
    BY <1>1, <1>4, <2>1, <2>2, PublishedLast
  <2>4. Len(wire) \in Nat
    BY <1>1, SentType
  <2> HIDE DEF last, n
  <2>5. /\ \A i \in DOMAIN log : log[i].data \in 1..emitted
        /\ \A i \in Sent : wire[i].data \in 1..emitted
    BY <1>1 DEF RecordedInOrder
  <2>6. \A d \in 1..emitted : d < n
    BY <1>1 DEF n
  <2>7. last \in Nat
    BY <2>4 DEF last
  <2>8. \A i, j \in Sent' : i < j => wire'[i].data < wire'[j].data
    BY <1>1, <2>3, <2>5, <2>6, <2>7 DEF RecordedInOrder
  <2>9. \A i \in DOMAIN log', j \in Sent' : log'[i].data < wire'[j].data
    BY <1>1, <2>3, <2>5, <2>6 DEF RecordedInOrder
  <2>10. {wire'[j].data : j \in Sent'} = {wire[j].data : j \in Sent} \cup {n}
    BY <2>3
  <2>11. n \notin lost
    <3>1. lost \subseteq 1..emitted
      BY DEF OrderInv
    <3> QED BY <1>2, <3>1
  <2>12. (1..n) \ lost = ((1..emitted) \ lost) \cup {n}
    BY <1>2, <2>11
  <2>13. {log'[i].data : i \in DOMAIN log'} \cup {wire'[j].data : j \in Sent'}
           = (1..emitted') \ lost'
    <3>1. {log[i].data : i \in DOMAIN log} \cup {wire[j].data : j \in Sent} = (1..emitted) \ lost
      BY <1>1 DEF RecordedInOrder
    <3> QED BY <1>1, <2>1, <2>10, <2>12, <3>1
  <2>14. \A i, j \in DOMAIN log' : i < j => log'[i].data < log'[j].data
    BY <1>1 DEF RecordedInOrder
  <2> QED BY <2>8, <2>9, <2>13, <2>14 DEF RecordedInOrder
<1> QED BY <1>3, <1>4

LEMMA HeartbeatKeepsOrder ==
  ASSUME IInv, RecordedInOrder, Heartbeat
  PROVE RecordedInOrder'
<1>1. /\ heartbeat \in [topic : {"debug", "hb"}, data : 0..MaxMessages] /\ heartbeat.topic # "debug"
      /\ TypeOK /\ subscribed /\ Publish(heartbeat) /\ UNCHANGED <<log, emitted, lost>>
  BY DEF Heartbeat, heartbeat, IInv, store, world
<1>2. Sent' = Sent /\ \A i \in Sent : wire'[i] = wire[i]
  BY <1>1, PublishedLast
<1> QED BY <1>1, <1>2 DEF RecordedInOrder

LEMMA OrderInit == Init => OrderInv
<1> SUFFICES ASSUME Init PROVE OrderInv
  OBVIOUS
<1>1. wire = <<>> /\ log = <<>> /\ emitted = 0 /\ lost = {} /\ ~asked /\ ~subscribed
  BY DEF Init, TailInit
<1>2. Sent = {} /\ DOMAIN log = {}
  BY <1>1 DEF Sent
<1> QED BY <1>1, <1>2 DEF OrderInv, RecordedInOrder

LEMMA OrderStep == IInv /\ OrderInv /\ [Next]_vars => OrderInv'
<1> SUFFICES ASSUME IInv, OrderInv, [Next]_vars PROVE OrderInv'
  OBVIOUS
<1>1. RecordedInOrder
  BY DEF OrderInv
<1>2. CASE Read
  <2>1. wire # <<>> /\ UNCHANGED <<asked, subscribed, emitted, lost>>
    BY <1>2 DEF Read, Receive, world
  <2> QED BY <1>1, <1>2, <2>1, ReadKeepsOrder DEF OrderInv
<1>3. CASE Disconnect
  BY <1>1, <1>3, DisconnectKeepsOrder DEF OrderInv
<1>4. CASE Step /\ UNCHANGED <<store, world>>
  <2>1. wire' = wire /\ subscribed' = subscribed
    BY <1>4 DEF Step, Dial, Authenticate, Subscribe, Report, Wake, Stop, socket
  <2>2. asked' => asked \/ ~subscribed
    BY <1>4 DEF Step, Dial, Authenticate, Subscribe, Report, Wake, Stop, socket, IInv, StateIsHonest
  <2> QED BY <1>1, <1>4, <2>1, <2>2, SilentKeepsOrder DEF OrderInv, store, world
<1>5. CASE Serve
  <2>1. wire = <<>> /\ wire' = <<>> /\ subscribed' /\ ~asked' /\ UNCHANGED <<log, emitted, lost>>
    BY <1>5 DEF Serve, ServeSubscription, OrderInv, store, world
  <2> QED BY <1>1, <2>1, SilentKeepsOrder DEF OrderInv
<1>6. CASE Emit
  <2>1. UNCHANGED <<asked, subscribed>> /\ (~subscribed => wire' = wire)
    BY <1>6 DEF Emit, Publish
  <2>2. lost' \subseteq 1..emitted'
    <3>1. emitted \in Nat /\ emitted' = emitted + 1 /\ lost' \subseteq lost \cup {emitted + 1}
      BY <1>6 DEF Emit, IInv, TypeOK
    <3> QED BY <3>1 DEF OrderInv
  <2> QED BY <1>6, <2>1, <2>2, EmitKeepsOrder DEF OrderInv
<1>7. CASE Heartbeat
  <2>1. subscribed /\ UNCHANGED <<asked, subscribed, emitted, lost>>
    BY <1>7 DEF Heartbeat, Publish, world
  <2> QED BY <1>1, <1>7, <2>1, HeartbeatKeepsOrder DEF OrderInv
<1>8. CASE Shutdown \/ Tick \/ UNCHANGED vars
  <2>1. UNCHANGED <<asked, subscribed, wire, log, emitted, lost>>
    BY <1>8 DEF Shutdown, Cancel, Tick, vars, tailVars, socket, store, world
  <2> QED BY <1>1, <2>1, SilentKeepsOrder DEF OrderInv
<1> QED BY <1>2, <1>3, <1>4, <1>5, <1>6, <1>7, <1>8 DEF Next, Proceed

(* Whatever connections break and whenever the tail reconnects, the messages
   are recorded in the order of emission, none of them twice, and what is
   missing was emitted to nobody or lost with a socket (consume, record). *)
THEOREM RecordsInOrder == Spec => []RecordedInOrder
<1>1. Spec => [](IInv /\ OrderInv)
  BY Inductive, OrderInit, OrderStep, PTL DEF Spec
<1>2. OrderInv => RecordedInOrder
  BY DEF OrderInv
<1> QED BY <1>1, <1>2, PTL
=============================================================================
