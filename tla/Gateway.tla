------------------------------- MODULE Gateway -------------------------------
(***************************************************************************)
(* The sockets of one attempt: the gateway's handler, reader and pump      *)
(* goroutines (realtime/gateway.go), the registry that keeps one socket    *)
(* per attempt, the heartbeat callbacks that run beside the pump, and the  *)
(* student's client (AttemptPlayer.tsx) with its reconnect loop.           *)
(***************************************************************************)
EXTENDS Integers, FiniteSets

CONSTANTS
  Devices,   \* windows or devices the student has the attempt open in
  Sockets,   \* names for the connections that exist at once
  NoSocket,  \* the registry's empty entry
  Timeout,   \* heartbeatTimeout, in ticks of a socket's own timer
  MaxDrops,  \* bound: connections lost, to the network or to a failed submit
  MaxCalls   \* bound: heartbeat callbacks in flight at once

ASSUME BoundsAreNaturals == Timeout \in Nat \ {0} /\ {MaxDrops, MaxCalls} \subseteq Nat

ASSUME NoSocketIsNone == NoSocket \notin Sockets

ASSUME SomeDevice == Devices # {}

VARIABLES
  socket,   \* the handler of each connection, with its pump and its client end
  device,   \* what each client is doing
  active,   \* activeAttempts: the registered socket of the attempt
  doomed,   \* sockets whose closing goroutine (4001) has not run yet
  calls,    \* heartbeat callbacks spawned and not yet committed
  kicked,   \* the attempt was kicked
  revoked,  \* the account is disabled
  drops     \* connections lost so far

vars == <<socket, device, active, doomed, calls, kicked, revoked, drops>>
outside == <<kicked, revoked, drops>>

Steps == {"free", "checked", "subscribed", "accepted", "open", "leaving"}
Reasons == {"none", "replaced", "revoked", "kicked", "gone"}
Calls == {"disconnected", "reconnected"}
Off == -1
Clients == {"idle", "dialing", "up", "stopped", "locked"}

\* kick: the kick of this attempt waits in the handler's channel.  hb: the reader
\* has a frame that the pump has not received.  quiet: the ticks since the reader
\* last read one.  latch: the pump's disconnected.
Socket ==
  [at: Steps, of: Devices, peer: BOOLEAN, kick: BOOLEAN, hb: BOOLEAN,
   quiet: 0 .. Timeout, timer: {Off} \cup (0 .. Timeout), latch: BOOLEAN,
   why: Reasons]

TypeOK ==
  /\ socket \in [Sockets -> Socket]
  /\ device \in [Devices -> Clients]
  /\ active \in Sockets \cup {NoSocket}
  /\ doomed \subseteq Sockets
  /\ calls \in [Calls -> 0 .. MaxCalls]
  /\ kicked \in BOOLEAN
  /\ revoked \in BOOLEAN
  /\ drops \in 0 .. MaxDrops

Fresh ==
  [at |-> "free", of |-> CHOOSE d \in Devices : TRUE, peer |-> FALSE,
   kick |-> FALSE, hb |-> FALSE, quiet |-> 0, timer |-> Off, latch |-> FALSE, why |-> "none"]

Init ==
  /\ socket = [c \in Sockets |-> Fresh]
  /\ device = [d \in Devices |-> "idle"]
  /\ active = NoSocket
  /\ doomed = {}
  /\ calls = [k \in Calls |-> 0]
  /\ kicked = FALSE
  /\ revoked = FALSE
  /\ drops = 0

Open(c) == socket[c].at = "open"
Client(c, state) == [device EXCEPT ![socket[c].of] = state]
-----------------------------------------------------------------------------
(* Connecting: authorize, subscribe, accept and register.                  *)

\* The client dials when it is not connected; a refusal leaves it trying.
Dial(d, c) ==
  /\ device[d] = "idle"
  /\ socket[c].at = "free"
  /\ ~revoked
  /\ socket' = [socket EXCEPT ![c] = [Fresh EXCEPT !.at = "checked", !.of = d]]
  /\ device' = [device EXCEPT ![d] = "dialing"]
  /\ UNCHANGED <<active, doomed, calls, outside>>

Subscribe(c) ==
  /\ socket[c].at = "checked"
  /\ socket' = [socket EXCEPT ![c].at = "subscribed"]
  /\ UNCHANGED <<device, active, doomed, calls, outside>>

\* Redis is down, or the upgrade fails: the handler returns before it registers.
Refuse(c) ==
  /\ socket[c].at \in {"checked", "subscribed"}
  /\ socket' = [socket EXCEPT ![c] = Fresh]
  /\ device' = Client(c, "idle")
  /\ UNCHANGED <<active, doomed, calls, outside>>

\* The upgrade succeeds: the client is connected before the socket is registered.
Accept(c) ==
  /\ socket[c].at = "subscribed"
  /\ socket' = [socket EXCEPT ![c] = [@ EXCEPT !.at = "accepted", !.peer = TRUE]]
  /\ device' = Client(c, "up")
  /\ UNCHANGED <<active, doomed, calls, outside>>

\* replaceActiveAttempt, then the reader and the pump start; whatever was
\* registered is closed by a goroutine of its own.
Register(c) ==
  /\ socket[c].at = "accepted"
  /\ socket' = [socket EXCEPT ![c] = [@ EXCEPT !.at = "open", !.timer = Timeout]]
  /\ active' = c
  /\ doomed' = doomed \cup ({active} \ {NoSocket})
  /\ UNCHANGED <<device, calls, outside>>
-----------------------------------------------------------------------------
(* Leaving.                                                                *)

\* The pump returns, or its context is cancelled, and the deferred calls remain.
Leaving(why) == [Fresh EXCEPT !.at = "leaving", !.why = why]

\* A bug: the client reconnects whatever the close code.
AfterReplaced_Retry == "idle"

\* A client that was replaced stays down.
AfterReplaced == "stopped"

CloseReplaced(c) ==
  /\ c \in doomed
  /\ doomed' = doomed \ {c}
  /\ socket' = IF Open(c) THEN [socket EXCEPT ![c] = Leaving("replaced")] ELSE socket
  /\ device' = IF Open(c) /\ socket[c].peer THEN Client(c, AfterReplaced) ELSE device
  /\ UNCHANGED <<active, calls, outside>>

\* The network loses a connection: the client redials, the gateway finds out later.
Drop(c) ==
  /\ socket[c].peer
  /\ drops < MaxDrops
  /\ drops' = drops + 1
  /\ socket' = [socket EXCEPT ![c].peer = FALSE]
  /\ device' = Client(c, "idle")
  /\ UNCHANGED <<active, doomed, calls, kicked, revoked>>

\* A window that was replaced submits and fails: it plays again and dials again.
\* (In a window that is connected this is a connection lost.)
SubmitFails(d) ==
  /\ device[d] = "stopped"
  /\ drops < MaxDrops
  /\ drops' = drops + 1
  /\ device' = [device EXCEPT ![d] = "idle"]
  /\ UNCHANGED <<socket, active, doomed, calls, kicked, revoked>>

\* A failed read or ping.
PeerGone(c) ==
  /\ Open(c)
  /\ ~socket[c].peer
  /\ socket' = [socket EXCEPT ![c] = Leaving("gone")]
  /\ UNCHANGED <<device, active, doomed, calls, outside>>

\* A bug: whoever leaves empties the registry.
Cleared_Always(c) == NoSocket

\* clearActiveAttempt leaves a newer socket's registration alone.
Cleared(c) == IF active = c THEN NoSocket ELSE active

Unwind(c) ==
  /\ socket[c].at = "leaving"
  /\ active' = Cleared(c)
  /\ doomed' = doomed \ {c}
  /\ socket' = [socket EXCEPT ![c] = Fresh]
  /\ UNCHANGED <<device, calls, outside>>
-----------------------------------------------------------------------------
(* The reader and the pump of an open socket.                              *)

\* readAttemptHeartbeats reads a frame once the pump has received the one before.
Read(c) ==
  /\ Open(c)
  /\ socket[c].peer
  /\ ~socket[c].hb
  /\ socket' = [socket EXCEPT ![c] = [@ EXCEPT !.quiet = 0, !.hb = TRUE]]
  /\ UNCHANGED <<device, active, doomed, calls, outside>>

\* A bug: the timer is not rearmed.
Rearmed_Not(c) == socket[c].timer

\* The timer a heartbeat leaves behind: stopped, drained and reset.
Rearmed(c) == Timeout

Spawn(k) == [calls EXCEPT ![k] = @ + 1]

\* The pump receives the frame, as late as a ping, a write or a revalidation keeps
\* it away; a heartbeat of a socket that was flagged spawns the reconnected
\* callback.
Beat(c) ==
  /\ Open(c)
  /\ socket[c].hb
  /\ socket' = [socket EXCEPT ![c] =
       [@ EXCEPT !.hb = FALSE, !.timer = Rearmed(c), !.latch = FALSE]]
  /\ IF socket[c].latch
     THEN calls["reconnected"] < MaxCalls /\ calls' = Spawn("reconnected")
     ELSE UNCHANGED calls
  /\ UNCHANGED <<device, active, doomed, outside>>

Elapse(c) ==
  /\ Open(c)
  /\ socket[c].quiet < Timeout \/ socket[c].timer > 0
  /\ LET quiet == socket[c].quiet
         timer == socket[c].timer
     IN socket' = [socket EXCEPT ![c] =
          [@ EXCEPT !.quiet = IF quiet < Timeout THEN quiet + 1 ELSE quiet,
                    !.timer = IF timer > 0 THEN timer - 1 ELSE timer]]
  /\ UNCHANGED <<device, active, doomed, calls, outside>>

\* A timer that has run out may be received before a frame that waits: select
\* chooses between the two.
TimerFires(c) ==
  /\ Open(c)
  /\ socket[c].timer = 0
  /\ calls["disconnected"] < MaxCalls
  /\ socket' = [socket EXCEPT ![c] = [@ EXCEPT !.timer = Off, !.latch = TRUE]]
  /\ calls' = Spawn("disconnected")
  /\ UNCHANGED <<device, active, doomed, outside>>

\* A callback appends its row, or fails; callbacks do not wait for each other.
Commit(k) ==
  /\ calls[k] > 0
  /\ calls' = [calls EXCEPT ![k] = @ - 1]
  /\ UNCHANGED <<socket, device, active, doomed, outside>>

\* A bug: the attempt of a kick is not looked at.
IsKick_Any(m) == TRUE

\* A bug: the kick is relayed and the pump goes on.
IsKick_Never(m) == FALSE

\* The message that ends the pump.
IsKick(m) == m = "own"

\* The channel carries the events of every attempt of the quiz, at any time; they
\* are skipped.  The attempt's own kick is delivered and the pump returns, and the
\* client locks.
Relay(c, m) ==
  /\ Open(c)
  /\ m = "own" => socket[c].kick
  /\ IF IsKick(m)
     THEN /\ socket' = [socket EXCEPT ![c] = Leaving("kicked")]
          /\ device' = IF socket[c].peer THEN Client(c, "locked") ELSE device
     ELSE UNCHANGED <<socket, device>>
  /\ UNCHANGED <<active, doomed, calls, outside>>

\* A bug: a refusal is taken for an outage.
Decided_Never == FALSE

\* What revalidation acts on; an outage of the database changes nothing.
Decided == revoked

Revalidate(c) ==
  /\ Open(c)
  /\ Decided
  /\ socket' = [socket EXCEPT ![c] = Leaving("revoked")]
  /\ device' = IF socket[c].peer THEN Client(c, "stopped") ELSE device
  /\ UNCHANGED <<active, doomed, calls, outside>>
-----------------------------------------------------------------------------
(* What other parts of the system do to the attempt.                       *)

\* The publish reaches every subscribed handler, or none when Redis fails.
Kick ==
  /\ ~kicked
  /\ kicked' = TRUE
  /\ \E reached \in {{}, {c \in Sockets : socket[c].at \in {"subscribed", "accepted", "open"}}} :
       socket' = [c \in Sockets |-> [socket[c] EXCEPT !.kick = @ \/ c \in reached]]
  /\ UNCHANGED <<device, active, doomed, calls, revoked, drops>>

Revoke ==
  /\ ~revoked
  /\ revoked' = TRUE
  /\ UNCHANGED <<socket, device, active, doomed, calls, kicked, drops>>

Handler(c) ==
  \/ Subscribe(c) \/ Refuse(c) \/ Accept(c) \/ Register(c)
  \/ CloseReplaced(c) \/ Drop(c) \/ PeerGone(c) \/ Unwind(c)
  \/ Read(c) \/ Beat(c) \/ Elapse(c) \/ TimerFires(c) \/ Revalidate(c)
  \/ \E m \in {"own", "other"} : Relay(c, m)

Next ==
  \/ \E d \in Devices, c \in Sockets : Dial(d, c)
  \/ \E c \in Sockets : Handler(c)
  \/ \E d \in Devices : SubmitFails(d)
  \/ \E k \in Calls : Commit(k)
  \/ Kick \/ Revoke

Spec == Init /\ [][Next]_vars

\* Goroutines that can run do, a select keeps choosing the kick when nothing else
\* ends it, and the revalidation ticker keeps ticking between database outages.
Fairness ==
  /\ \A c \in Sockets :
       /\ WF_vars(CloseReplaced(c)) /\ WF_vars(Unwind(c))
       /\ WF_vars(Subscribe(c) \/ Refuse(c)) /\ WF_vars(Accept(c) \/ Refuse(c))
       /\ WF_vars(Register(c))
       /\ WF_vars(Revalidate(c)) /\ WF_vars(Relay(c, "own"))
  /\ \A k \in Calls : WF_vars(Commit(k))

FairSpec == Spec /\ Fairness
-----------------------------------------------------------------------------
\* One socket per attempt: an open socket is the registered one or is about to be
\* closed, and the registry never names a socket that is gone, although a replaced
\* handler unwinds after its successor registered (replaceActiveAttempt,
\* clearActiveAttempt).
SoleSocket ==
  /\ \A c \in Sockets : Open(c) => active = c \/ c \in doomed
  /\ active # NoSocket => socket[active].at \in {"open", "leaving"}

\* A server closes a socket for a reason that holds: a kick only for the kick of
\* this attempt on a channel that carries the whole quiz, a revocation never for
\* an outage, a replacement only when a newer socket came.
ClosedForAReason ==
  \A c \in Sockets :
    /\ socket[c].why = "kicked" => kicked
    /\ socket[c].why = "revoked" => revoked
    /\ socket[c].why = "replaced" => active # c

\* A flag stands only while the reader has read nothing for a whole timeout, or
\* while a frame it has read waits for the pump: with the reader, the pump and the
\* timer racing, a heartbeat that is received takes the flag back, and the next one
\* is raised only by another whole timeout (readAttemptHeartbeats, pumpAttempt).
FlagsMeanSilence ==
  \A c \in Sockets :
    Open(c) /\ socket[c].latch => socket[c].quiet = Timeout \/ socket[c].hb

\* gateway.go:586: heartbeatTimeout without a frame flags the student.  A student
\* whose frame was read and waits for the pump may be flagged too: select may
\* choose the timer.
NoFalseAlarm ==
  [][\A c \in Sockets :
       ~socket[c].latch /\ socket'[c].latch => socket[c].quiet = Timeout]_vars

\* A kick that reached a socket's channel closes that socket.
KickCloses ==
  \A c \in Sockets : Open(c) /\ socket[c].kick ~> ~Open(c)

\* A disabled account loses its sockets, one that was authorized just before and
\* accepted after included.
RevokedCloses == revoked ~> \A c \in Sockets : ~Open(c)

\* Two devices do not boot each other for ever: replacements stop.
ReplacementsEnd ==
  <>[][\A c \in Sockets : Register(c) => active = NoSocket]_vars
-----------------------------------------------------------------------------
(* The invariant the proofs rest on.                                       *)

\* A socket that waits for its closing goroutine was registered before the one
\* that is registered now.
DoomedAreReplaced ==
  \A c \in doomed : socket[c].at \in {"open", "leaving"} /\ active # c

\* Only a leaving socket has been given a reason, and a kick in a channel is real.
ReasonsAreGiven ==
  \A c \in Sockets :
    /\ socket[c].at # "leaving" => socket[c].why = "none"
    /\ socket[c].kick => kicked

\* A running timer has counted no more ticks than have passed since the last frame,
\* unless one waits for the pump, and only such a timer has raised a flag.
TimersMeasureSilence ==
  \A c \in Sockets : ~socket[c].hb =>
    /\ socket[c].timer # Off => socket[c].quiet + socket[c].timer >= Timeout
    /\ socket[c].latch => socket[c].quiet = Timeout

IInv ==
  /\ TypeOK /\ SoleSocket /\ ClosedForAReason /\ DoomedAreReplaced /\ ReasonsAreGiven
  /\ TimersMeasureSilence
=============================================================================
