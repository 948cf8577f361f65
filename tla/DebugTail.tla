----------------------------- MODULE DebugTail -----------------------------
(***************************************************************************)
(* The debug tail (internal/nodered/comms.go): a ring of the newest        *)
(* messages of Node-RED's debug nodes, filled by the loop of CommsTail and *)
(* read by get_debug_messages while it is being filled.                    *)
(*                                                                         *)
(* The ring is indexed from 0 as in the code.  record and Snapshot hold    *)
(* the same mutex from begin to end, so each is one step.                  *)
(***************************************************************************)
EXTENDS CommsTail

CONSTANTS
  Capacity,    \* the length of the ring
  MaxMessages, \* bound: messages of debug nodes
  MaxNow       \* bound: the clock

ASSUME RingAssumption ==
  Capacity \in Nat \ {0} /\ MaxMessages \in Nat /\ MaxNow \in Nat

VARIABLES
  ring,        \* 0..Capacity-1 -> DebugMessage
  next,        \* the slot of the next message
  filled,      \* every slot has been written
  received,    \* messages recorded so far
  now,         \* the clock of the server
  emitted,     \* messages debug nodes have emitted so far
  lost,        \* those Node-RED never sent or the tail never read
  log          \* every message recorded, in order

store == <<ring, next, filled, received, log>>
world == <<now, emitted, lost>>
vars == <<tailVars, store, world>>

Messages == [at : 0..MaxNow, data : 0..MaxMessages]
Empty == [at |-> 0, data |-> 0]
debug(n) == [topic |-> "debug", data |-> n]
heartbeat == [topic |-> "hb", data |-> 0]

-----------------------------------------------------------------------------
(* The slot after next. *)
Advance == (next + 1) % Capacity

Put(message) ==
  /\ ring' = [ring EXCEPT ![next] = message]
  /\ next' = Advance
  /\ filled' = (filled \/ next' = 0)
  /\ received' = received + 1
  /\ log' = Append(log, message)

(* A ring that is full keeps what it has: a mutant. *)
recordUnlessFull(n) ==
  IF filled THEN UNCHANGED store ELSE Put([at |-> now, data |-> n])

record(n) == Put([at |-> now, data |-> n])

(* Topics other than debug are skipped. *)
consume(frame) ==
  IF frame.topic = "debug" THEN record(frame.data) ELSE UNCHANGED store

(* The frames on the wire that carry a message of a debug node. *)
Sent == {i \in DOMAIN wire : wire[i].topic = "debug"}

(* Frames that were sent but not read are lost with the socket. *)
LoseWire ==
  lost' = lost \cup {wire[i].data : i \in Sent}

-----------------------------------------------------------------------------
Read == Receive /\ consume(Head(wire)) /\ UNCHANGED world

Disconnect == FailedSession /\ LoseWire /\ UNCHANGED <<store, now, emitted>>

Step == Dial \/ Authenticate \/ Subscribe \/ Report \/ Wake \/ Stop

(* The goroutine of Run. *)
Proceed == Read \/ Disconnect \/ (Step /\ UNCHANGED <<store, world>>)

(* Node-RED retains nothing on the debug topic. *)
Serve == ServeSubscription(<<>>) /\ UNCHANGED <<store, world>>

(* A debug node emits its next message. *)
Emit ==
  /\ emitted < MaxMessages
  /\ emitted' = emitted + 1
  /\ Publish(debug(emitted + 1))
  /\ lost' = IF subscribed THEN lost ELSE lost \cup {emitted + 1}
  /\ UNCHANGED <<store, now>>

Heartbeat == subscribed /\ Publish(heartbeat) /\ UNCHANGED <<store, world>>

Shutdown == Cancel /\ UNCHANGED <<store, world>>

Tick ==
  /\ now < MaxNow
  /\ now' = now + 1
  /\ UNCHANGED <<tailVars, store, emitted, lost>>

Init ==
  /\ TailInit
  /\ ring = [i \in 0..(Capacity - 1) |-> Empty]
  /\ next = 0
  /\ filled = FALSE
  /\ received = 0
  /\ now = 0
  /\ emitted = 0
  /\ lost = {}
  /\ log = <<>>

Next == Proceed \/ Serve \/ Emit \/ Heartbeat \/ Shutdown \/ Tick

(* Every exchange with Node-RED ends, and Node-RED reads what it is sent. *)
Fairness == WF_vars(Proceed) /\ WF_vars(Serve)

Spec == Init /\ [][Next]_vars /\ Fairness

-----------------------------------------------------------------------------
(* Snapshot(limit, since); since 0 is "no filter", limit 0 "no limit". *)

(* The slots from a up to b, b excluded: Go's t.ring[a:b]. *)
Slots(a, b) == [i \in 1..(b - a) |-> ring[a + i - 1]]

(* Oldest first.  The halves the other way round: a mutant. *)
OrderedBySlot == Slots(0, next) \o (IF filled THEN Slots(next, Capacity) ELSE <<>>)
Ordered == (IF filled THEN Slots(next, Capacity) ELSE <<>>) \o Slots(0, next)

Since(messages, since) ==
  LET After(m) == m.at > since
  IN IF since = 0 THEN messages ELSE SelectSeq(messages, After)

Newest(messages, limit) ==
  IF limit > 0 /\ Len(messages) > limit
    THEN SubSeq(messages, Len(messages) - limit + 1, Len(messages))
    ELSE messages

Snapshot(limit, since) ==
  [messages |-> Newest(Since(Ordered, since), limit),
   buffered |-> Len(Ordered),
   dropped |-> received - Len(Ordered)]

-----------------------------------------------------------------------------
(* What the ring stands for: the newest Capacity messages of the log. *)
Window == Newest(log, Capacity)

TypeOK ==
  /\ TailTypeOK
  /\ wire \in Seq([topic : {"debug", "hb"}, data : 0..MaxMessages])
  /\ ring \in [0..(Capacity - 1) -> Messages]
  /\ next \in 0..(Capacity - 1)
  /\ filled \in BOOLEAN
  /\ received \in Nat
  /\ now \in 0..MaxNow
  /\ emitted \in 0..MaxMessages
  /\ lost \subseteq 0..MaxMessages
  /\ log \in Seq(Messages)

(* A snapshot shows the newest messages of everything recorded, oldest first
   and no gap between them, and counts the others, wherever the ring has
   wrapped around. *)
SnapshotIsTail ==
  \A limit \in 0..(Capacity + 1), since \in 0..MaxNow :
    Snapshot(limit, since) =
      [messages |-> Newest(Since(Window, since), limit),
       buffered |-> IF Len(log) < Capacity THEN Len(log) ELSE Capacity,
       dropped |-> IF Len(log) < Capacity THEN 0 ELSE Len(log) - Capacity]

(* Across all reconnections no message is recorded twice or out of order, and
   none is missing but those emitted while the tail was not subscribed or
   lost with a socket: what is recorded, and behind it what is on the wire,
   are exactly the other messages, in the order of emission. *)
RecordedInOrder ==
  /\ \A i, j \in DOMAIN log : i < j => log[i].data < log[j].data
  /\ \A i, j \in Sent : i < j => wire[i].data < wire[j].data
  /\ \A i \in DOMAIN log, j \in Sent : log[i].data < wire[j].data
  /\ {log[i].data : i \in DOMAIN log} \cup {wire[j].data : j \in Sent}
       = (1..emitted) \ lost

(* After the last fault the tail gets connected again, however it was
   refused before, unless the server shuts down. *)
Reconnects == ~connected ~> (connected \/ cancelled)

(* A shutdown ends the goroutine, whatever it waits for. *)
Stops == cancelled ~> pc = "stopped"

-----------------------------------------------------------------------------
(* The ring and its counters, said without remainders: the slots from next
   up hold the older part of the window, those below it the newer part. *)
RingInv ==
  /\ received = Len(log)
  /\ filled <=> Len(log) >= Capacity
  /\ ~filled => next = Len(log)
  /\ filled => \A i \in next..(Capacity - 1) :
                 ring[i] = log[Len(log) - Capacity + 1 + i - next]
  /\ \A i \in 0..(next - 1) : ring[i] = log[Len(log) - next + 1 + i]

(* A session never ends without an error. *)
EndedInv == pc = "ended" => err # ""

IInv == TypeOK /\ RingInv /\ StateIsHonest /\ EndedInv

(* Frames come over a socket that has subscribed, and no other; with this the
   order of what is recorded is inductive relative to IInv. *)
OrderInv ==
  /\ ~subscribed => wire = <<>>
  /\ asked => ~subscribed
  /\ lost \subseteq 1..emitted
  /\ RecordedInOrder
=============================================================================
