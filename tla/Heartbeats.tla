----------------------------- MODULE Heartbeats -----------------------------
(***************************************************************************)
(* The gateway's sockets with the connectivity rows their callbacks append *)
(* to attempt_events, when each callback commits before anything else      *)
(* happens and none overtakes another.                                     *)
(***************************************************************************)
EXTENDS Gateway

VARIABLE flagged  \* the last connectivity row is a disconnection

InitRows == Init /\ flagged = FALSE

\* LogAttemptDisconnected and LogAttemptReconnected.
AppendRow(k) == Commit(k) /\ flagged' = (k = "disconnected")

\* Everything else waits for the callbacks.
Meanwhile == calls = [k \in Calls |-> 0] /\ Next /\ UNCHANGED flagged

NextRows == Meanwhile \/ \E k \in Calls : AppendRow(k)

SpecRows == InitRows /\ [][NextRows]_<<vars, flagged>>
-----------------------------------------------------------------------------
\* docs/05: the next heartbeat after a lapse reports the student back, on
\* whichever socket the student's client has now (pumpAttempt's latch).
HeartbeatClearsFlag ==
  [][\A c \in Sockets : Beat(c) /\ active = c =>
       ~flagged \/ calls'["reconnected"] > 0]_<<vars, flagged>>
=============================================================================
