----------------------------- MODULE CommsTail -----------------------------
(***************************************************************************)
(* The connection loop of a tail of Node-RED's editor WebSocket /comms:    *)
(* Run, session and authenticate of internal/nodered/comms.go, which       *)
(* status.go repeats line by line.                                         *)
(*                                                                         *)
(*   dial -> auth -> subscribe -> read ... -> ended -> backoff -> dial     *)
(*                                                                         *)
(* What a tail does with a frame it reads is in the module that EXTENDS    *)
(* this one (DebugTail).                                                   *)
(*                                                                         *)
(* Node-RED sends a topic only over a socket that subscribed to it.  The   *)
(* subscription is not acknowledged: the tail reports connected before     *)
(* Node-RED has processed it.                                              *)
(***************************************************************************)
EXTENDS Integers, Sequences

CONSTANTS
  HasToken,    \* adminAuth is on: the client is configured with a token
  MaxFaults,   \* bound: how often the network or Node-RED fails
  MaxWire      \* bound: frames between Node-RED and the tail

ASSUME TailAssumption ==
  HasToken \in BOOLEAN /\ MaxFaults \in Nat /\ MaxWire \in Nat

(* In multiples of reconnectMinDelay, which is a second. *)
reconnectMinDelay == 1
reconnectMaxDelay == 30

VARIABLES
  pc,          \* where the goroutine of Run is
  delay,       \* what it waits before the next dial
  connected,   \* the connection state that a snapshot reports
  lastErr,     \* ... and why it is not connected, "" for no reason
  err,         \* what the session returned
  asked,       \* the subscription is on its way to Node-RED
  subscribed,  \* Node-RED sends the topic over the current socket
  wire,        \* the frames it sent and the tail has not read
  cancelled,   \* the context of Run is cancelled: the server shuts down
  faults       \* how often something failed so far

loop == <<pc, delay, connected, lastErr, err>>
socket == <<asked, subscribed, wire>>
tailVars == <<loop, socket, cancelled, faults>>

Errors == {"connecting", "auth", "subscribing", "reading"}
InSession == {"dial", "auth", "subscribe", "read"}

TailInit ==
  /\ pc = "dial"
  /\ delay = reconnectMinDelay
  /\ connected = FALSE
  /\ lastErr = ""
  /\ err = ""
  /\ asked = FALSE
  /\ subscribed = FALSE
  /\ wire = <<>>
  /\ cancelled = FALSE
  /\ faults = 0

-----------------------------------------------------------------------------
(* Without the deferred setState: a mutant. *)
EndSessionConnected(reason) ==
  /\ pc' = "ended"
  /\ err' = reason
  /\ asked' = FALSE
  /\ subscribed' = FALSE
  /\ wire' = <<>>
  /\ UNCHANGED <<delay, connected, lastErr, cancelled>>

(* session returns an error: the socket is closed, and with it go the frames
   that were not read.  The deferred setState(false, nil) keeps lastErr. *)
EndSession(reason) ==
  /\ pc' = "ended"
  /\ err' = reason
  /\ connected' = FALSE
  /\ asked' = FALSE
  /\ subscribed' = FALSE
  /\ wire' = <<>>
  /\ UNCHANGED <<delay, lastErr, cancelled>>

(* Every exchange ends when the context does; until then it fails when the
   network or Node-RED fails, Node-RED's refusal of the token included. *)
Fail(at, reason) ==
  /\ pc = at
  /\ \/ cancelled /\ UNCHANGED faults
     \/ ~cancelled /\ faults < MaxFaults /\ faults' = faults + 1
  /\ EndSession(reason)

Dial ==
  /\ pc = "dial"
  /\ ~cancelled
  /\ pc' = IF HasToken THEN "auth" ELSE "subscribe"
  /\ UNCHANGED <<delay, connected, lastErr, err, socket, cancelled, faults>>

(* The reply is "ok". *)
Authenticate ==
  /\ pc = "auth"
  /\ ~cancelled
  /\ pc' = "subscribe"
  /\ UNCHANGED <<delay, connected, lastErr, err, socket, cancelled, faults>>

Subscribe ==
  /\ pc = "subscribe"
  /\ ~cancelled
  /\ asked' = TRUE
  /\ connected' = TRUE
  /\ lastErr' = ""
  /\ pc' = "read"
  /\ UNCHANGED <<delay, err, subscribed, wire, cancelled, faults>>

(* conn.Read returns the next frame, unless its context is done. *)
Receive ==
  /\ pc = "read"
  /\ ~cancelled
  /\ wire # <<>>
  /\ wire' = Tail(wire)
  /\ UNCHANGED <<loop, asked, subscribed, cancelled, faults>>

FailedSession ==
  \/ Fail("dial", "connecting")
  \/ Fail("auth", "auth")
  \/ Fail("subscribe", "subscribing")
  \/ Fail("read", "reading")

(* A rejected token ends the loop: a mutant. *)
ReportOrGiveUp ==
  /\ pc = "ended"
  /\ ~cancelled
  /\ lastErr' = err
  /\ connected' = FALSE
  /\ pc' = IF err = "auth" THEN "stopped" ELSE "backoff"
  /\ UNCHANGED <<delay, err, socket, cancelled, faults>>

(* Run records why the session ended, unless it is told to stop. *)
Report ==
  /\ pc = "ended"
  /\ ~cancelled
  /\ lastErr' = err
  /\ connected' = FALSE
  /\ pc' = "backoff"
  /\ UNCHANGED <<delay, err, socket, cancelled, faults>>

(* The timer fires.  select may prefer it to a context that is cancelled. *)
Wake ==
  /\ pc = "backoff"
  /\ delay' = IF 2 * delay > reconnectMaxDelay THEN reconnectMaxDelay ELSE 2 * delay
  /\ pc' = "dial"
  /\ UNCHANGED <<connected, lastErr, err, socket, cancelled, faults>>

(* Only a wait is given up: a mutant. *)
StopWaiting ==
  /\ pc = "backoff"
  /\ cancelled
  /\ pc' = "stopped"
  /\ UNCHANGED <<delay, connected, lastErr, err, socket, cancelled, faults>>

Stop ==
  /\ pc \in {"ended", "backoff"}
  /\ cancelled
  /\ pc' = "stopped"
  /\ UNCHANGED <<delay, connected, lastErr, err, socket, cancelled, faults>>

-----------------------------------------------------------------------------
(* Node-RED processes the subscription and sends what it has retained. *)
ServeSubscription(retained) ==
  /\ asked
  /\ asked' = FALSE
  /\ subscribed' = TRUE
  /\ wire' = retained
  /\ UNCHANGED <<loop, cancelled, faults>>

(* Node-RED publishes a frame: whoever is subscribed gets it. *)
Publish(frame) ==
  /\ subscribed => Len(wire) < MaxWire
  /\ wire' = IF subscribed THEN Append(wire, frame) ELSE wire
  /\ UNCHANGED <<loop, asked, subscribed, cancelled, faults>>

(* The MCP server shuts down. *)
Cancel ==
  /\ ~cancelled
  /\ cancelled' = TRUE
  /\ UNCHANGED <<loop, socket, faults>>

-----------------------------------------------------------------------------
TailTypeOK ==
  /\ pc \in InSession \cup {"ended", "backoff", "stopped"}
  /\ delay \in reconnectMinDelay..reconnectMaxDelay
  /\ connected \in BOOLEAN
  /\ lastErr \in Errors \cup {""}
  /\ err \in Errors \cup {""}
  /\ asked \in BOOLEAN
  /\ subscribed \in BOOLEAN
  /\ cancelled \in BOOLEAN
  /\ faults \in 0..MaxFaults

(* What a snapshot says of the connection: connected exactly while frames
   can be read, and otherwise the reason, once Run has recorded one. *)
StateIsHonest ==
  /\ connected <=> pc = "read"
  /\ connected => lastErr = ""
  /\ pc = "backoff" => lastErr # ""
  /\ asked \/ subscribed => pc = "read"

(* comms.go, Run: "a quick redeploy should be picked up quickly".  A session
   that was up and broke off is retried after reconnectMinDelay. *)
QuickReconnect ==
  pc = "backoff" /\ lastErr = "reading" => delay = reconnectMinDelay
=============================================================================
