---------------------------- MODULE GatewayProofs ----------------------------
(***************************************************************************)
(* An attempt has one socket, and sockets are closed for a reason: proofs  *)
(* for any number of devices, sockets, lost connections and ticks.         *)
(***************************************************************************)
EXTENDS Gateway, TLAPS

\* A fresh handler, and one that leaves, are well typed.
LEMMA FreshType == Fresh \in Socket
  <1>1. (CHOOSE d \in Devices : TRUE) \in Devices
    BY SomeDevice
  <1> QED
    BY <1>1, BoundsAreNaturals DEF Fresh, Socket, Steps, Reasons, Off

LEMMA LeaveType ==
  ASSUME NEW why \in Reasons
  PROVE  Leaving(why) \in Socket
  BY FreshType DEF Leaving, Socket, Steps

\* Replacing one handler by a well-typed one keeps them all well typed.
LEMMA UpdateType ==
  ASSUME TypeOK, NEW c \in Sockets, NEW n \in Socket
  PROVE  [socket EXCEPT ![c] = n] \in [Sockets -> Socket]
  BY DEF TypeOK

\* So does a client's change of mind with the devices.
LEMMA ClientType ==
  ASSUME TypeOK, NEW c \in Sockets, NEW state \in Clients
  PROVE  Client(c, state) \in [Devices -> Clients]
  BY DEF TypeOK, Client, Socket

LEMMA SpawnType ==
  ASSUME TypeOK, NEW k \in Calls, calls[k] < MaxCalls
  PROVE  Spawn(k) \in [Calls -> 0 .. MaxCalls]
  BY BoundsAreNaturals DEF TypeOK, Spawn

\* The initial state is well typed.
LEMMA GatewayInitType == Init => TypeOK
  <1> SUFFICES ASSUME Init PROVE TypeOK
    OBVIOUS
  <1>1. socket \in [Sockets -> Socket]
    BY FreshType DEF Init
  <1>2. calls \in [Calls -> 0 .. MaxCalls] /\ drops \in 0 .. MaxDrops
    BY BoundsAreNaturals DEF Init
  <1> QED
    BY <1>1, <1>2 DEF Init, TypeOK, Clients

\* The initial state satisfies the inductive invariant.
LEMMA GatewayInit == Init => IInv
  BY GatewayInitType, NoSocketIsNone
     DEF Init, IInv, SoleSocket, ClosedForAReason, DoomedAreReplaced,
         ReasonsAreGiven, TimersMeasureSilence, Open, Fresh

\* Handlers keep the types of all variables.
LEMMA GatewayHandlerType ==
  ASSUME TypeOK, NEW c \in Sockets, Handler(c)
  PROVE  TypeOK'
  <1> USE BoundsAreNaturals DEF TypeOK, outside
  <1>0. socket[c] \in Socket
    OBVIOUS
  <1>1. CASE Subscribe(c)
    <2>1. [socket[c] EXCEPT !.at = "subscribed"] \in Socket
      BY <1>0 DEF Socket, Steps
    <2> QED
      BY <1>1, <2>1, UpdateType DEF Subscribe
  <1>2. CASE Refuse(c)
    BY <1>2, FreshType, UpdateType, ClientType DEF Refuse, Clients
  <1>3. CASE Accept(c)
    <2>1. [socket[c] EXCEPT !.at = "accepted", !.peer = TRUE] \in Socket
      BY <1>0 DEF Socket, Steps
    <2>2. socket' \in [Sockets -> Socket]
      BY <1>3, <2>1, UpdateType DEF Accept
    <2>3. device' \in [Devices -> Clients]
      BY <1>3, ClientType DEF Accept, Clients
    <2> QED
      BY <1>3, <2>2, <2>3 DEF Accept
  <1>13. CASE Register(c)
    <2>0. Timeout \in 0 .. Timeout
      OBVIOUS
    <2>1. [socket[c] EXCEPT !.at = "open", !.timer = Timeout] \in Socket
      BY <1>0, <2>0 DEF Socket, Steps
    <2>2. socket' \in [Sockets -> Socket]
      BY <1>13, <2>1, UpdateType DEF Register
    <2>3. active' \in Sockets \cup {NoSocket} /\ doomed' \subseteq Sockets
      BY <1>13 DEF Register
    <2> QED
      BY <1>13, <2>2, <2>3 DEF Register
  <1>4. CASE CloseReplaced(c)
    <2>1. socket' \in [Sockets -> Socket]
      BY <1>4, LeaveType, UpdateType DEF CloseReplaced, Reasons
    <2>2. device' \in [Devices -> Clients]
      BY <1>4, ClientType DEF CloseReplaced, AfterReplaced, Clients
    <2> QED
      BY <1>4, <2>1, <2>2 DEF CloseReplaced
  <1>5. CASE Drop(c)
    <2>1. [socket[c] EXCEPT !.peer = FALSE] \in Socket
      BY <1>0 DEF Socket
    <2>2. socket' \in [Sockets -> Socket]
      BY <1>5, <2>1, UpdateType DEF Drop
    <2>3. device' \in [Devices -> Clients]
      BY <1>5, ClientType DEF Drop, Clients
    <2>4. drops' \in 0 .. MaxDrops
      BY <1>5 DEF Drop
    <2> QED
      BY <1>5, <2>2, <2>3, <2>4 DEF Drop
  <1>6. CASE PeerGone(c)
    BY <1>6, LeaveType, UpdateType DEF PeerGone, Reasons
  <1>7. CASE Unwind(c)
    BY <1>7, FreshType, UpdateType DEF Unwind, Cleared
  <1>8. CASE Beat(c)
    <2>0. 0 \in 0 .. Timeout /\ Timeout \in 0 .. Timeout
      OBVIOUS
    <2>1. [socket[c] EXCEPT !.hb = FALSE, !.timer = Timeout, !.latch = FALSE] \in Socket
      BY <1>0, <2>0 DEF Socket
    <2>2. socket' \in [Sockets -> Socket]
      BY <1>8, <2>1, UpdateType DEF Beat, Rearmed
    <2>3. calls' \in [Calls -> 0 .. MaxCalls]
      BY <1>8, SpawnType DEF Beat, Calls
    <2> QED
      BY <1>8, <2>2, <2>3 DEF Beat
  <1>14. CASE Read(c)
    <2>0. 0 \in 0 .. Timeout
      OBVIOUS
    <2>1. [socket[c] EXCEPT !.quiet = 0, !.hb = TRUE] \in Socket
      BY <1>0, <2>0 DEF Socket
    <2> QED
      BY <1>14, <2>1, UpdateType DEF Read
  <1>9. CASE Elapse(c)
    <2> DEFINE quiet == socket[c].quiet
               timer == socket[c].timer
               later == IF quiet < Timeout THEN quiet + 1 ELSE quiet
               left == IF timer > 0 THEN timer - 1 ELSE timer
    <2>1. quiet \in 0 .. Timeout /\ timer \in {Off} \cup (0 .. Timeout)
      BY <1>0 DEF Socket
    <2>2. later \in 0 .. Timeout /\ left \in {Off} \cup (0 .. Timeout)
      BY <2>1 DEF Off
    <2>3. socket' = [socket EXCEPT ![c] = [@ EXCEPT !.quiet = later, !.timer = left]]
      BY <1>9 DEF Elapse
    <2> HIDE DEF later, left
    <2>4. [socket[c] EXCEPT !.quiet = later, !.timer = left] \in Socket
      BY <1>0, <2>2 DEF Socket
    <2> QED
      BY <1>9, <2>3, <2>4, UpdateType DEF Elapse
  <1>10. CASE TimerFires(c)
    <2>1. [socket[c] EXCEPT !.timer = Off, !.latch = TRUE] \in Socket
      BY <1>0 DEF Socket
    <2>2. socket' \in [Sockets -> Socket]
      BY <1>10, <2>1, UpdateType DEF TimerFires
    <2>3. calls' \in [Calls -> 0 .. MaxCalls]
      BY <1>10, SpawnType DEF TimerFires, Calls
    <2> QED
      BY <1>10, <2>2, <2>3 DEF TimerFires
  <1>11. CASE Revalidate(c)
    BY <1>11, LeaveType, UpdateType, ClientType DEF Revalidate, Reasons, Clients
  <1>12. ASSUME NEW m \in {"own", "other"}, Relay(c, m) PROVE TypeOK'
    <2>1. socket' \in [Sockets -> Socket]
      BY <1>12, LeaveType, UpdateType DEF Relay, Reasons
    <2>2. device' \in [Devices -> Clients]
      BY <1>12, ClientType DEF Relay, Clients
    <2> QED
      BY <1>12, <2>1, <2>2 DEF Relay
  <1> QED
    BY <1>1, <1>2, <1>3, <1>4, <1>5, <1>6, <1>7, <1>8, <1>9, <1>10, <1>11, <1>12,
       <1>13, <1>14 DEF Handler

\* Every step keeps the types of all variables.
LEMMA GatewayType ==
  ASSUME TypeOK, [Next]_vars
  PROVE  TypeOK'
  <1> USE BoundsAreNaturals DEF TypeOK, outside
  <1>1. ASSUME NEW d \in Devices, NEW c \in Sockets, Dial(d, c) PROVE TypeOK'
    <2>1. [Fresh EXCEPT !.at = "checked", !.of = d] \in Socket
      BY FreshType DEF Socket, Steps
    <2> QED
      BY <1>1, <2>1, UpdateType DEF Dial, Clients
  <1>2. ASSUME NEW c \in Sockets, Handler(c) PROVE TypeOK'
    BY <1>2, GatewayHandlerType
  <1>3. ASSUME NEW k \in Calls, Commit(k) PROVE TypeOK'
    <2>2. calls[k] - 1 \in 0 .. MaxCalls
      BY <1>3 DEF Commit
    <2>3. calls' \in [Calls -> 0 .. MaxCalls]
      BY <1>3, <2>2 DEF Commit
    <2> QED
      BY <1>3, <2>3 DEF Commit
  <1>4. CASE Kick
    <2>1. PICK reached : socket' = [c \in Sockets |->
            [socket[c] EXCEPT !.kick = @ \/ c \in reached]]
      BY <1>4 DEF Kick
    <2>2. ASSUME NEW c \in Sockets, NEW b \in BOOLEAN
          PROVE  [socket[c] EXCEPT !.kick = b] \in Socket
      BY DEF Socket
    <2>3. socket' \in [Sockets -> Socket]
      BY <2>1, <2>2
    <2> QED
      BY <1>4, <2>3 DEF Kick
  <1>5. CASE Revoke
    BY <1>5 DEF Revoke
  <1>6. ASSUME NEW d \in Devices, SubmitFails(d) PROVE TypeOK'
    <2>1. drops' \in 0 .. MaxDrops
      BY <1>6 DEF SubmitFails
    <2> QED
      BY <1>6, <2>1 DEF SubmitFails, Clients
  <1>7. CASE UNCHANGED vars
    BY <1>7 DEF vars
  <1> QED
    BY <1>1, <1>2, <1>3, <1>4, <1>5, <1>6, <1>7 DEF Next
-----------------------------------------------------------------------------
(* The invariant's step.  A socket that registers was accepted, so it is     *)
(* neither registered nor waiting to be closed; a handler that unwinds takes *)
(* itself out of the registry and out of doomed; nothing else touches them.  *)

LEMMA DialKeeps ==
  ASSUME IInv, NEW d \in Devices, NEW c \in Sockets, Dial(d, c)
  PROVE  SoleSocket' /\ DoomedAreReplaced' /\ ClosedForAReason' /\ ReasonsAreGiven'
  BY DEF IInv, TypeOK, Dial, outside, Fresh, Open, SoleSocket, DoomedAreReplaced,
         ClosedForAReason, ReasonsAreGiven

LEMMA ConnectingKeeps ==
  ASSUME IInv, NEW c \in Sockets, Subscribe(c) \/ Refuse(c) \/ Accept(c)
  PROVE  SoleSocket' /\ DoomedAreReplaced' /\ ClosedForAReason' /\ ReasonsAreGiven'
  <1> USE DEF IInv, TypeOK, outside, Fresh, Open, SoleSocket, DoomedAreReplaced,
              ClosedForAReason, ReasonsAreGiven, Socket
  <1>1. CASE Subscribe(c)
    BY <1>1 DEF Subscribe
  <1>2. CASE Refuse(c)
    BY <1>2 DEF Refuse
  <1>3. CASE Accept(c)
    BY <1>3 DEF Accept
  <1> QED
    BY <1>1, <1>2, <1>3

LEMMA RegisterKeeps ==
  ASSUME IInv, NEW c \in Sockets, Register(c)
  PROVE  SoleSocket' /\ DoomedAreReplaced' /\ ClosedForAReason' /\ ReasonsAreGiven'
  <1> USE NoSocketIsNone DEF IInv, TypeOK, Register, outside, Open
  <1>1. /\ socket[c].at = "accepted"
        /\ c \notin doomed
        /\ active # c
    BY DEF SoleSocket, DoomedAreReplaced
  <1>2. /\ socket'[c] = [socket[c] EXCEPT !.at = "open", !.timer = Timeout]
        /\ \A q \in Sockets : q # c => socket'[q] = socket[q]
    OBVIOUS
  <1>3. socket'[c].at = "open" /\ socket'[c].why = socket[c].why
                              /\ socket'[c].kick = socket[c].kick
    BY <1>2 DEF Socket
  <1>4. SoleSocket'
    BY <1>1, <1>2, <1>3 DEF SoleSocket
  <1>5. DoomedAreReplaced'
    BY <1>1, <1>2, <1>3 DEF SoleSocket, DoomedAreReplaced
  <1>6. ClosedForAReason' /\ ReasonsAreGiven'
    BY <1>1, <1>2, <1>3 DEF ClosedForAReason, ReasonsAreGiven
  <1> QED
    BY <1>4, <1>5, <1>6

LEMMA LeavingKeeps ==
  ASSUME IInv, NEW c \in Sockets,
         CloseReplaced(c) \/ PeerGone(c) \/ Revalidate(c)
           \/ \E m \in {"own", "other"} : Relay(c, m)
  PROVE  SoleSocket' /\ DoomedAreReplaced' /\ ClosedForAReason' /\ ReasonsAreGiven'
  <1> USE DEF IInv, TypeOK, outside, Open
  <1>1. \A why : /\ Leaving(why).at = "leaving"
                 /\ Leaving(why).why = why
                 /\ Leaving(why).kick = FALSE
    BY DEF Leaving, Fresh
  <1>2. CASE CloseReplaced(c)
    BY <1>1, <1>2 DEF CloseReplaced, SoleSocket, DoomedAreReplaced, ClosedForAReason,
                      ReasonsAreGiven
  <1>3. CASE PeerGone(c)
    BY <1>1, <1>3 DEF PeerGone, SoleSocket, DoomedAreReplaced, ClosedForAReason,
                      ReasonsAreGiven
  <1>4. CASE Revalidate(c)
    BY <1>1, <1>4 DEF Revalidate, Decided, SoleSocket, DoomedAreReplaced,
                      ClosedForAReason, ReasonsAreGiven
  <1>5. ASSUME NEW m \in {"own", "other"}, Relay(c, m)
        PROVE  SoleSocket' /\ DoomedAreReplaced' /\ ClosedForAReason' /\ ReasonsAreGiven'
    <2>1. CASE m = "own"
      <3>1. kicked
        BY <1>5, <2>1 DEF Relay, ReasonsAreGiven
      <3> QED
        BY <1>1, <1>5, <2>1, <3>1
           DEF Relay, IsKick, SoleSocket, DoomedAreReplaced, ClosedForAReason,
               ReasonsAreGiven
    <2>2. CASE m = "other"
      BY <1>5, <2>2 DEF Relay, IsKick, SoleSocket, DoomedAreReplaced,
                        ClosedForAReason, ReasonsAreGiven
    <2> QED
      BY <2>1, <2>2
  <1> QED
    BY <1>2, <1>3, <1>4, <1>5

LEMMA UnwindKeeps ==
  ASSUME IInv, NEW c \in Sockets, Unwind(c)
  PROVE  SoleSocket' /\ DoomedAreReplaced' /\ ClosedForAReason' /\ ReasonsAreGiven'
  BY NoSocketIsNone
     DEF IInv, TypeOK, Unwind, Cleared, outside, Fresh, Open, SoleSocket,
         DoomedAreReplaced, ClosedForAReason, ReasonsAreGiven

\* The pump of an open socket changes nothing the invariant speaks of.
LEMMA PumpKeeps ==
  ASSUME IInv, NEW c \in Sockets,
         Drop(c) \/ Read(c) \/ Beat(c) \/ Elapse(c) \/ TimerFires(c)
  PROVE  SoleSocket' /\ DoomedAreReplaced' /\ ClosedForAReason' /\ ReasonsAreGiven'
  <1> USE DEF IInv, TypeOK, outside
  <1>1. \A q \in Sockets : /\ socket'[q].at = socket[q].at
                          /\ socket'[q].why = socket[q].why
                          /\ socket'[q].kick = socket[q].kick
    <2>1. CASE Drop(c)
      BY <2>1 DEF Drop, Socket
    <2>2. CASE Beat(c)
      BY <2>2 DEF Beat, Socket
    <2>3. CASE Elapse(c)
      BY <2>3 DEF Elapse, Socket
    <2>4. CASE TimerFires(c)
      BY <2>4 DEF TimerFires, Socket
    <2>5. CASE Read(c)
      BY <2>5 DEF Read, Socket
    <2> QED
      BY <2>1, <2>2, <2>3, <2>4, <2>5
  <1>2. UNCHANGED <<active, doomed, kicked, revoked>>
    BY DEF Drop, Read, Beat, Elapse, TimerFires
  <1> QED
    BY <1>1, <1>2 DEF Open, SoleSocket, DoomedAreReplaced, ClosedForAReason,
                      ReasonsAreGiven

LEMMA KickKeeps ==
  ASSUME IInv, Kick
  PROVE  SoleSocket' /\ DoomedAreReplaced' /\ ClosedForAReason' /\ ReasonsAreGiven'
  <1> USE DEF IInv, TypeOK
  <1>1. \A q \in Sockets : /\ socket'[q].at = socket[q].at
                          /\ socket'[q].why = socket[q].why
    BY DEF Kick, Socket
  <1> QED
    BY <1>1 DEF Kick, Open, SoleSocket, DoomedAreReplaced, ClosedForAReason,
                ReasonsAreGiven

\* Every step keeps the parts of the invariant that are not types.
LEMMA GatewayKeeps ==
  ASSUME IInv, [Next]_vars
  PROVE  SoleSocket' /\ DoomedAreReplaced' /\ ClosedForAReason' /\ ReasonsAreGiven'
  <1>1. ASSUME NEW d \in Devices, NEW c \in Sockets, Dial(d, c)
        PROVE  SoleSocket' /\ DoomedAreReplaced' /\ ClosedForAReason' /\ ReasonsAreGiven'
    BY <1>1, DialKeeps
  <1>2. ASSUME NEW c \in Sockets, Handler(c)
        PROVE  SoleSocket' /\ DoomedAreReplaced' /\ ClosedForAReason' /\ ReasonsAreGiven'
    BY <1>2, ConnectingKeeps, RegisterKeeps, LeavingKeeps, UnwindKeeps, PumpKeeps
       DEF Handler
  <1>3. ASSUME NEW k \in Calls, Commit(k)
        PROVE  SoleSocket' /\ DoomedAreReplaced' /\ ClosedForAReason' /\ ReasonsAreGiven'
    BY <1>3 DEF Commit, outside, IInv, Open, SoleSocket, DoomedAreReplaced,
                ClosedForAReason, ReasonsAreGiven
  <1>4. CASE Kick
    BY <1>4, KickKeeps
  <1>5. CASE Revoke
    BY <1>5 DEF Revoke, IInv, Open, SoleSocket, DoomedAreReplaced, ClosedForAReason,
                ReasonsAreGiven
  <1>6. ASSUME NEW d \in Devices, SubmitFails(d)
        PROVE  SoleSocket' /\ DoomedAreReplaced' /\ ClosedForAReason' /\ ReasonsAreGiven'
    BY <1>6 DEF SubmitFails, IInv, Open, SoleSocket, DoomedAreReplaced,
                ClosedForAReason, ReasonsAreGiven
  <1>7. CASE UNCHANGED vars
    BY <1>7 DEF vars, IInv, Open, SoleSocket, DoomedAreReplaced, ClosedForAReason,
                ReasonsAreGiven
  <1> QED
    BY <1>1, <1>2, <1>3, <1>4, <1>5, <1>6, <1>7 DEF Next

-----------------------------------------------------------------------------
(* The heartbeat timers.  A frame that is read ends the silence and waits   *)
(* for the pump, which then rearms the timer; a tick moves silence and      *)
(* timer together; only a timer that has run out raises the latch.          *)

\* What TimersMeasureSilence says of one socket.
Measures(s) ==
  ~s.hb => /\ s.timer # Off => s.quiet + s.timer >= Timeout
           /\ s.latch => s.quiet = Timeout

\* It is enough to look at the socket that a step replaces.
LEMMA OneSocketMeasures ==
  ASSUME IInv, NEW c \in Sockets, NEW n, Measures(n),
         socket' = [socket EXCEPT ![c] = n]
  PROVE  TimersMeasureSilence'
  <1>1. \A q \in Sockets : socket'[q] = IF q = c THEN n ELSE socket[q]
    BY DEF IInv, TypeOK
  <1>2. \A q \in Sockets : Measures(socket[q])
    BY DEF IInv, TimersMeasureSilence, Measures
  <1>3. \A q \in Sockets : Measures(socket'[q])
    BY <1>1, <1>2
  <1> QED
    BY <1>3 DEF TimersMeasureSilence, Measures

\* Handlers that start over or leave have no timer.
LEMMA FreshMeasures ==
  /\ Measures(Fresh)
  /\ \A why : Measures(Leaving(why))
  /\ \A d \in Devices : Measures([Fresh EXCEPT !.at = "checked", !.of = d])
  BY DEF Measures, Fresh, Leaving

LEMMA TimersElapse ==
  ASSUME IInv, NEW c \in Sockets, Elapse(c)
  PROVE  TimersMeasureSilence'
  <1> USE BoundsAreNaturals DEF IInv
  <1> DEFINE quiet == socket[c].quiet
             timer == socket[c].timer
             later == IF quiet < Timeout THEN quiet + 1 ELSE quiet
             left == IF timer > 0 THEN timer - 1 ELSE timer
             n == [socket[c] EXCEPT !.quiet = later, !.timer = left]
  <1>1. socket' = [socket EXCEPT ![c] = n]
    BY DEF Elapse
  <1>2. /\ quiet \in 0 .. Timeout
        /\ timer \in {Off} \cup (0 .. Timeout)
        /\ Measures(socket[c])
    BY DEF TypeOK, Socket, TimersMeasureSilence, Measures
  <1>3. ~socket[c].hb => /\ left # Off => later + left >= Timeout
                         /\ socket[c].latch => later = Timeout
    BY <1>2 DEF Off, Measures
  <1> HIDE DEF later, left
  <1>4. /\ n.quiet = later /\ n.timer = left
        /\ n.hb = socket[c].hb /\ n.latch = socket[c].latch
    BY DEF TypeOK, Socket
  <1> HIDE DEF n
  <1>5. Measures(n)
    BY <1>3, <1>4 DEF Measures
  <1> QED
    BY <1>1, <1>5, OneSocketMeasures

LEMMA TimersAreRearmed ==
  ASSUME IInv, NEW c \in Sockets, Register(c) \/ Read(c) \/ Beat(c)
  PROVE  TimersMeasureSilence'
  <1> USE BoundsAreNaturals DEF IInv
  <1>1. socket[c] \in Socket
    BY DEF TypeOK
  <1>2. CASE Register(c)
    <2> DEFINE n == [socket[c] EXCEPT !.at = "open", !.timer = Timeout]
    <2>1. socket' = [socket EXCEPT ![c] = n]
      BY <1>2 DEF Register
    <2>2. /\ n.timer = Timeout /\ n.quiet = socket[c].quiet
          /\ n.hb = socket[c].hb /\ n.latch = socket[c].latch
          /\ socket[c].quiet \in 0 .. Timeout
      BY <1>1 DEF Socket
    <2>3. Measures(socket[c])
      BY DEF TimersMeasureSilence, Measures
    <2> HIDE DEF n
    <2>4. Measures(n)
      BY <2>2, <2>3 DEF Measures
    <2> QED
      BY <2>1, <2>4, OneSocketMeasures
  <1>3. CASE Read(c)
    <2> DEFINE n == [socket[c] EXCEPT !.quiet = 0, !.hb = TRUE]
    <2>1. socket' = [socket EXCEPT ![c] = n]
      BY <1>3 DEF Read
    <2>2. n.hb
      BY <1>1 DEF Socket
    <2> HIDE DEF n
    <2>3. Measures(n)
      BY <2>2 DEF Measures
    <2> QED
      BY <2>1, <2>3, OneSocketMeasures
  <1>4. CASE Beat(c)
    <2> DEFINE n == [socket[c] EXCEPT !.hb = FALSE, !.timer = Timeout, !.latch = FALSE]
    <2>1. socket' = [socket EXCEPT ![c] = n]
      BY <1>4 DEF Beat, Rearmed
    <2>2. /\ n.timer = Timeout /\ n.quiet = socket[c].quiet /\ ~n.latch
          /\ socket[c].quiet \in 0 .. Timeout
      BY <1>1 DEF Socket
    <2> HIDE DEF n
    <2>3. Measures(n)
      BY <2>2 DEF Measures
    <2> QED
      BY <2>1, <2>3, OneSocketMeasures
  <1> QED
    BY <1>2, <1>3, <1>4

\* The timer that ran out has measured a whole timeout, or a frame waits.
LEMMA TimersRunOut ==
  ASSUME IInv, NEW c \in Sockets, TimerFires(c)
  PROVE  TimersMeasureSilence'
  <1> USE BoundsAreNaturals DEF IInv
  <1> DEFINE n == [socket[c] EXCEPT !.timer = Off, !.latch = TRUE]
  <1>1. socket[c] \in Socket /\ Measures(socket[c])
    BY DEF TypeOK, TimersMeasureSilence, Measures
  <1>2. socket' = [socket EXCEPT ![c] = n] /\ socket[c].timer = 0
    BY DEF TimerFires
  <1>3. ~socket[c].hb => socket[c].quiet + 0 >= Timeout
    BY <1>1, <1>2 DEF Measures, Off
  <1>4. /\ n.timer = Off /\ n.quiet = socket[c].quiet /\ n.hb = socket[c].hb
        /\ socket[c].quiet \in 0 .. Timeout
    BY <1>1 DEF Socket
  <1> HIDE DEF n
  <1>5. Measures(n)
    BY <1>3, <1>4 DEF Measures
  <1> QED
    BY <1>2, <1>5, OneSocketMeasures

\* The other steps of a handler start it over, end it, or leave its timer alone.
LEMMA TimersAreKept ==
  ASSUME IInv, NEW c \in Sockets,
         \/ \E d \in Devices : Dial(d, c)
         \/ Subscribe(c) \/ Refuse(c) \/ Accept(c) \/ CloseReplaced(c) \/ Drop(c)
         \/ PeerGone(c) \/ Unwind(c) \/ Revalidate(c)
         \/ \E m \in {"own", "other"} : Relay(c, m)
  PROVE  TimersMeasureSilence'
  <1> USE DEF IInv
  <1>1. socket[c] \in Socket /\ Measures(socket[c])
    BY DEF TypeOK, TimersMeasureSilence, Measures
  <1>2. \E n : socket' = [socket EXCEPT ![c] = n] /\ Measures(n)
    <2>1. CASE \E d \in Devices : Dial(d, c)
      BY <2>1, FreshMeasures DEF Dial
    <2>2. CASE Refuse(c) \/ Unwind(c)
      BY <2>2, FreshMeasures DEF Refuse, Unwind
    <2>3. CASE Subscribe(c)
      <3>1. Measures([socket[c] EXCEPT !.at = "subscribed"])
        BY <1>1 DEF Measures, Socket
      <3> QED
        BY <2>3, <3>1 DEF Subscribe
    <2>4. CASE Accept(c)
      <3>1. Measures([socket[c] EXCEPT !.at = "accepted", !.peer = TRUE])
        BY <1>1 DEF Measures, Socket
      <3> QED
        BY <2>4, <3>1 DEF Accept
    <2>5. CASE Drop(c)
      <3>1. Measures([socket[c] EXCEPT !.peer = FALSE])
        BY <1>1 DEF Measures, Socket
      <3> QED
        BY <2>5, <3>1 DEF Drop
    <2>6. CASE \/ CloseReplaced(c) \/ PeerGone(c) \/ Revalidate(c)
               \/ \E m \in {"own", "other"} : Relay(c, m)
      <3>1. \/ socket' = socket
            \/ \E why : socket' = [socket EXCEPT ![c] = Leaving(why)]
        BY <2>6 DEF CloseReplaced, PeerGone, Revalidate, Relay
      <3>2. socket = [socket EXCEPT ![c] = socket[c]]
        BY DEF TypeOK
      <3> QED
        BY <1>1, <3>1, <3>2, FreshMeasures
    <2> QED
      BY <2>1, <2>2, <2>3, <2>4, <2>5, <2>6
  <1> QED
    BY <1>2, OneSocketMeasures

\* Every step keeps timers and flags in step with silence.
LEMMA TimersStep ==
  ASSUME IInv, [Next]_vars
  PROVE  TimersMeasureSilence'
  <1>1. ASSUME NEW d \in Devices, NEW c \in Sockets, Dial(d, c)
        PROVE  TimersMeasureSilence'
    BY <1>1, TimersAreKept
  <1>2. ASSUME NEW c \in Sockets, Handler(c)
        PROVE  TimersMeasureSilence'
    BY <1>2, TimersElapse, TimersAreRearmed, TimersRunOut, TimersAreKept DEF Handler
  <1>3. CASE Kick
    <2>1. PICK reached : socket' = [c \in Sockets |->
            [socket[c] EXCEPT !.kick = @ \/ c \in reached]]
      BY <1>3 DEF Kick
    <2>2. \A q \in Sockets : /\ socket'[q].quiet = socket[q].quiet
                            /\ socket'[q].timer = socket[q].timer
                            /\ socket'[q].latch = socket[q].latch
                            /\ socket'[q].hb = socket[q].hb
      BY <2>1 DEF IInv, TypeOK, Socket
    <2> QED
      BY <2>2 DEF IInv, TimersMeasureSilence
  <1>4. CASE UNCHANGED socket
    BY <1>4 DEF IInv, TimersMeasureSilence
  <1>5. \/ UNCHANGED socket \/ Kick
        \/ \E d \in Devices, c \in Sockets : Dial(d, c)
        \/ \E c \in Sockets : Handler(c)
    BY DEF Next, SubmitFails, Commit, Revoke, vars
  <1> QED
    BY <1>1, <1>2, <1>3, <1>4, <1>5

LEMMA GatewayStep == IInv /\ [Next]_vars => IInv'
  BY GatewayType, GatewayKeeps, TimersStep DEF IInv
-----------------------------------------------------------------------------
\* Every state the gateway reaches satisfies the invariant.
THEOREM GatewayInvariant == Spec => []IInv
  BY GatewayInit, GatewayStep, PTL DEF Spec

\* The gateway's state is well typed.
THEOREM GatewayTypeCorrect == Spec => []TypeOK
  <1>1. IInv => TypeOK
    BY DEF IInv
  <1> QED
    BY <1>1, GatewayInvariant, PTL

\* One socket per attempt, for any number of devices that dial at any moment:
\* what is open is registered or about to be closed (replaceActiveAttempt,
\* clearActiveAttempt).
THEOREM OneSocketPerAttempt == Spec => []SoleSocket
  <1>1. IInv => SoleSocket
    BY DEF IInv
  <1> QED
    BY <1>1, GatewayInvariant, PTL

\* A server closes a socket only for a kick, a revocation or a replacement that
\* took place (relayAttempt, revalidateAttempt, replaceActiveAttempt).
THEOREM SocketsCloseForAReason == Spec => []ClosedForAReason
  <1>1. IInv => ClosedForAReason
    BY DEF IInv
  <1> QED
    BY <1>1, GatewayInvariant, PTL

\* A student whose socket stands flagged has been silent for a whole timeout, or
\* their heartbeat waits for the pump: whatever order reader, pump and timer run
\* in, a heartbeat that is received takes the flag back, and no timer goes on
\* counting from before it (readAttemptHeartbeats, pumpAttempt).
THEOREM FlagsMeasureSilence == Spec => []FlagsMeanSilence
  <1>1. IInv => FlagsMeanSilence
    BY DEF IInv, TimersMeasureSilence, FlagsMeanSilence
  <1> QED
    BY <1>1, GatewayInvariant, PTL
=============================================================================
