------------------------------ MODULE Dashboard ------------------------------
(***************************************************************************)
(* A teacher's live monitor of one student: rows committed by the attempt  *)
(* service, publishes that follow each commit in no order and may be lost, *)
(* the gateway's subscription, snapshots fetched beside the stream, and    *)
(* the client that merges both (LiveMonitorPanel.tsx).                     *)
(***************************************************************************)
EXTENDS Integers, Sequences, FiniteSets

CONSTANTS
  MaxAttempt,  \* bound: attempts of the student (a readmission opens another)
  MaxSteps,    \* bound: rows committed
  Requests     \* names for the snapshot requests under way at once

ASSUME BoundsAreNaturals == MaxAttempt \in Nat \ {0} /\ MaxSteps \in Nat

VARIABLES
  rows,        \* the attempt rows with what the roster shows of them
  steps,       \* rows committed so far
  publishing,  \* events committed and not yet handed to Redis
  socket,      \* the monitor socket, as the client sees it
  stream,      \* events on their way to the client
  request,     \* snapshot requests
  refetch,     \* violationRefetch: a re-read is scheduled
  roster,      \* the client's row for the student
  asOf         \* history: the commit the last applied snapshot was read at

vars == <<rows, steps, publishing, socket, stream, request, refetch, roster, asOf>>
server == <<rows, steps>>

Phases == {"in_progress", "disconnected", "submitted", "kicked"}
Ended == {"submitted", "kicked"}

\* An attempt as LiveRoster returns it: answered_count (of one question),
\* violation_count, whether the score is there, and the roster state.
Row ==
  [no: 1 .. MaxAttempt, phase: Phases, answered: 0 .. 1, violations: Nat,
   scored: BOOLEAN]
NotStarted == [no |-> 0]

Event ==
  [type: {"started", "progress", "violation", "disconnected", "reconnected",
          "submitted", "kicked", "graded"},
   no: 1 .. MaxAttempt, count: Nat]

Request == [at: {"free", "sent", "read"}, newest: BOOLEAN,
            data: Row \cup {NotStarted}, asOf: Nat]
NoRequest == [at |-> "free", newest |-> FALSE, data |-> NotStarted, asOf |-> 0]

TypeOK ==
  /\ rows \in Seq(Row)
  /\ steps \in 0 .. MaxSteps
  /\ publishing \subseteq Event
  /\ socket \in {"down", "live"}
  /\ stream \in Seq(Event)
  /\ request \in [Requests -> Request]
  /\ refetch \in BOOLEAN
  /\ roster \in Row \cup {NotStarted}
  /\ asOf \in Nat
-----------------------------------------------------------------------------
(* The server: one commit, then one publish.                               *)

Emit(type, n, count) ==
  /\ steps < MaxSteps
  /\ steps' = steps + 1
  /\ publishing' = publishing \cup {[type |-> type, no |-> n, count |-> count]}
  /\ UNCHANGED <<socket, stream, request, refetch, roster, asOf>>

Last == Len(rows)

Live == Last > 0 /\ rows[Last].phase \in {"in_progress", "disconnected"}

\* After a readmission, or while max_attempts allows it.
Start ==
  /\ Last < MaxAttempt
  /\ Last > 0 => rows[Last].phase \in Ended
  /\ rows' = Append(rows, [no |-> Last + 1, phase |-> "in_progress", answered |-> 0,
                           violations |-> 0, scored |-> FALSE])
  /\ Emit("started", Last + 1, 0)

\* An autosave answers the question or clears it; the event carries the count.
Answer ==
  /\ Live
  /\ \E count \in 0 .. 1 :
       /\ rows' = [rows EXCEPT ![Last].answered = count]
       /\ Emit("progress", Last, count)

Violate ==
  /\ Live
  /\ rows' = [rows EXCEPT ![Last].violations = @ + 1]
  /\ Emit("violation", Last, rows'[Last].violations)

Flagged(phase, to) == IF phase \in {"in_progress", "disconnected"} THEN to ELSE phase

\* The heartbeat callbacks of the gateway, whatever the attempt's status; the
\* roster shows the last of them on top of in_progress only.
Disconnect ==
  \E n \in 1 .. Last :
    /\ rows' = [rows EXCEPT ![n].phase = Flagged(@, "disconnected")]
    /\ Emit("disconnected", n, 0)

Reconnect ==
  \E n \in 1 .. Last :
    /\ rows' = [rows EXCEPT ![n].phase = Flagged(@, "in_progress")]
    /\ Emit("reconnected", n, 0)

End(how) ==
  /\ Live
  /\ rows' = [rows EXCEPT ![Last].phase = how]
  /\ Emit(how, Last, rows[Last].answered)

Grade ==
  \E n \in 1 .. Last :
    /\ rows[n].phase \in Ended
    /\ ~rows[n].scored
    /\ rows' = [rows EXCEPT ![n].scored = TRUE]
    /\ Emit("graded", n, 0)

\* Best effort: Redis may be away, the coalescer may skip a progress event, and
\* nobody may be subscribed.
Publish(e) ==
  /\ e \in publishing
  /\ publishing' = publishing \ {e}
  /\ stream' \in {stream} \cup (IF socket = "live" THEN {Append(stream, e)} ELSE {})
  /\ UNCHANGED <<server, socket, request, refetch, roster, asOf>>
-----------------------------------------------------------------------------
(* The client's snapshots.                                                 *)

\* loadSnapshot: the new request is the newest, any other becomes stale.
Load(r) ==
  request' = [q \in Requests |->
    IF q = r THEN [NoRequest EXCEPT !.at = "sent", !.newest = TRUE]
    ELSE [request[q] EXCEPT !.newest = FALSE]]

Free(r) == request[r].at = "free"

\* The server reads the latest attempt.
Read(r) ==
  /\ request[r].at = "sent"
  /\ request' = [request EXCEPT ![r] =
       [@ EXCEPT !.at = "read", !.asOf = steps,
                 !.data = IF Last = 0 THEN NotStarted ELSE rows[Last]]]
  /\ UNCHANGED <<server, publishing, socket, stream, refetch, roster, asOf>>

\* A bug: whichever response comes last is shown.
Applies_Any(r) == TRUE

\* Only the newest request issued may write the roster.
Applies(r) == request[r].newest

Respond(r) ==
  /\ request[r].at = "read"
  /\ request' = [request EXCEPT ![r] = NoRequest]
  /\ IF Applies(r)
     THEN roster' = request[r].data /\ asOf' = request[r].asOf
     ELSE UNCHANGED <<roster, asOf>>
  /\ UNCHANGED <<server, publishing, socket, stream, refetch>>

\* A request that fails changes nothing.
Fail(r) ==
  /\ request[r].at \in {"sent", "read"}
  /\ request' = [request EXCEPT ![r] = NoRequest]
  /\ UNCHANGED <<server, publishing, socket, stream, refetch, roster, asOf>>

\* A bug: the fallback is not started.
Polling_Never == FALSE

\* The fallback polls as long as the socket is down: from the first dial that
\* fails, on mount.
Polling == socket = "down"

\* Responses come back within POLL_INTERVAL_MS: a poll overtakes no poll.
Poll(r) ==
  /\ Polling
  /\ \A q \in Requests : ~request[q].newest
  /\ Free(r)
  /\ Load(r)
  /\ UNCHANGED <<server, publishing, socket, stream, refetch, roster, asOf>>

\* The re-read that a burst of violations schedules.
Refetch(r) ==
  /\ refetch
  /\ Free(r)
  /\ refetch' = FALSE
  /\ Load(r)
  /\ UNCHANGED <<server, publishing, socket, stream, roster, asOf>>

\* The socket opens: polling stops, and a snapshot reconciles what was missed.
Connect(r) ==
  /\ socket = "down"
  /\ Free(r)
  /\ socket' = "live"
  /\ Load(r)
  /\ UNCHANGED <<server, publishing, stream, refetch, roster, asOf>>

Disconnected ==
  /\ socket = "live"
  /\ socket' = "down"
  /\ stream' = <<>>
  /\ UNCHANGED <<server, publishing, request, refetch, roster, asOf>>
-----------------------------------------------------------------------------
(* The client's deltas.                                                    *)

\* A bug: the row of the student takes any delta of theirs.
Matches_Student(e) == roster # NotStarted

\* Deltas are matched by attempt id.
Matches(e) == roster.no = e.no

\* applyEvent, for a row that matches.
Patched(e) ==
  CASE e.type = "progress" -> [roster EXCEPT !.answered = e.count]
    [] e.type = "violation" -> [roster EXCEPT !.violations = e.count]
    [] e.type = "disconnected" /\ roster.phase = "in_progress" ->
         [roster EXCEPT !.phase = "disconnected"]
    [] e.type = "reconnected" /\ roster.phase = "disconnected" ->
         [roster EXCEPT !.phase = "in_progress"]
    [] e.type = "kicked" -> [roster EXCEPT !.phase = "kicked"]
    [] e.type = "submitted" ->
         [roster EXCEPT !.phase = IF @ = "kicked" THEN @ ELSE "submitted",
                        !.answered = e.count]
    [] e.type = "graded" -> [roster EXCEPT !.scored = TRUE]
    [] OTHER -> roster

\* attempt.started re-reads the roster; the others patch it in place.
Deliver(r) ==
  /\ stream # <<>>
  /\ stream' = Tail(stream)
  /\ LET e == Head(stream)
     IN IF e.type = "started"
        THEN Free(r) /\ Load(r) /\ UNCHANGED <<refetch, roster>>
        ELSE /\ roster' = IF Matches(e) THEN Patched(e) ELSE roster
             /\ refetch' = (refetch \/ e.type = "violation")
             /\ UNCHANGED request
  /\ UNCHANGED <<server, publishing, socket, asOf>>

\* The panel is mounted: it fetches a first snapshot and dials.
Init ==
  /\ rows = <<>>
  /\ steps = 0
  /\ publishing = {}
  /\ socket = "down"
  /\ stream = <<>>
  /\ \E r \in Requests :
       request = [q \in Requests |->
         IF q = r THEN [NoRequest EXCEPT !.at = "sent", !.newest = TRUE]
         ELSE NoRequest]
  /\ refetch = FALSE
  /\ roster = NotStarted
  /\ asOf = 0

Commit ==
  \/ Start \/ Answer \/ Violate \/ Disconnect \/ Reconnect \/ Grade
  \/ \E how \in Ended : End(how)

Fetch(r) ==
  \/ Read(r) \/ Respond(r) \/ Fail(r) \/ Poll(r) \/ Refetch(r) \/ Connect(r)
  \/ Deliver(r)

Next ==
  \/ Commit
  \/ \E e \in publishing : Publish(e)
  \/ \E r \in Requests : Fetch(r)
  \/ Disconnected

Spec == Init /\ [][Next]_vars

\* Publishes end, the client runs its timers and drains its socket, and requests
\* are answered, now and then with success.
Fairness ==
  /\ WF_vars(\E e \in publishing : Publish(e))
  /\ \A r \in Requests : SF_vars(Read(r)) /\ SF_vars(Respond(r))
  /\ WF_vars(\E r \in Requests : Poll(r))
  /\ WF_vars(\E r \in Requests : Deliver(r))
  /\ WF_vars(\E r \in Requests : Refetch(r))

FairSpec == Spec /\ Fairness

\* Nothing is lost: every event published on a live socket enters the stream, and
\* every answer the newest request gets is shown.
Reliable ==
  /\ \A e \in publishing \ publishing' :
       socket = "live" => stream' = Append(stream, e)
  /\ \A r \in Requests :
       request[r].newest /\ request'[r].at = "free" =>
         request[r].at = "read" /\ roster' = request[r].data

ReliableSpec == Init /\ [][Next /\ Reliable]_vars
-----------------------------------------------------------------------------
\* Shown is, or was, what the server holds of an attempt.
Behind(shown) ==
  shown # NotStarted =>
    LET row == rows[shown.no]
    IN /\ shown.no <= Last
       /\ shown.violations <= row.violations
       /\ shown.phase \in Ended => shown.phase = row.phase
       /\ shown.scored => row.scored

\* What the roster shows of an attempt is not ahead of the attempt: no violation
\* that was not counted, an end only of the kind it had, a score only when graded;
\* a late delta of an attempt that ended never touches the next one's row.
NeverAhead == Behind(roster)

\* Snapshots are shown in the order the database was read, through polls, re-reads
\* and reconnects whose responses overtake each other.
SnapshotsMoveForward == [][asOf' >= asOf]_asOf

Shown == IF Last = 0 THEN NotStarted ELSE rows[Last]

\* A dashboard whose socket never opens for good converges by polling, whatever
\* was lost.
PollingConverges == <>[](socket = "down") => <>[](roster = Shown)

Settled ==
  /\ publishing = {} /\ stream = <<>> /\ ~refetch
  /\ \A r \in Requests : Free(r)

\* docs/05: no missed-event drift.  Once everything sent has arrived on a live
\* socket and every request is answered, the dashboard shows what the database
\* holds (applyEvent against loadSnapshot's responses).
NoDrift == socket = "live" /\ Settled => roster = Shown
-----------------------------------------------------------------------------
(* The invariant the proofs rest on.                                       *)

\* Attempts are numbered, and a response on its way is not ahead of them either.
RowsNumbered == \A n \in DOMAIN rows : rows[n].no = n

ResponsesBehind == \A r \in Requests : Behind(request[r].data)

\* Nor is an event, in what it will patch.
Told(e) ==
  LET row == rows[e.no]
  IN /\ e.no <= Last
     /\ e.type \in {"progress", "submitted"} => e.count <= 1
     /\ e.type = "violation" => e.count <= row.violations
     /\ e.type \in Ended => row.phase = e.type
     /\ e.type = "graded" => row.scored

EventsAreTold == \A e \in publishing \cup {stream[k] : k \in DOMAIN stream} : Told(e)

\* One request is the newest, and it was read after what is shown.
NewestIsLatest ==
  /\ asOf <= steps /\ \A r \in Requests : request[r].asOf <= steps
  /\ \A r, q \in Requests : request[r].newest /\ request[q].newest => r = q
  /\ \A r \in Requests : request[r].newest /\ request[r].at = "read" => request[r].asOf >= asOf

IInv ==
  /\ TypeOK /\ RowsNumbered
  /\ NeverAhead /\ ResponsesBehind /\ EventsAreTold
  /\ NewestIsLatest
=============================================================================
