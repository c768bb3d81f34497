---------------------------- MODULE AttemptService ----------------------------
(***************************************************************************)
(* The operations on attempts (internal/attempt).  Start locks the         *)
(* student's assignment row, reads the quiz row without a lock and writes  *)
(* later in the same transaction, so it takes two steps.  Every other      *)
(* operation holds the attempt row FOR UPDATE throughout and is one step,  *)
(* taken when no sweep holds the row.                                      *)
(***************************************************************************)
EXTENDS Schema

\* An attempt in progress that had time left at instant t is resumed.
Resumable(s, t) ==
  \E n \in Rows(s) : InProgress(<<s, n>>) /\ attempts[<<s, n>>].deadline > t

StartRead(s) ==
  /\ s \in assigned
  /\ ~start[s].open
  /\ quiz.status \in {"scheduled", "live"}
  /\ \E t \in Recent :
       /\ quiz.startsAt <= t /\ t < quiz.endsAt
       /\ start' = [start EXCEPT ![s] =
            [open |-> TRUE, now |-> t, endsAt |-> quiz.endsAt,
             duration |-> quiz.duration, version |-> Version,
             found |-> Resumable(s, t)]]
  /\ UNCHANGED <<now, quiz, snapshots, assigned, attemptVars, jobs, workerVars>>

Readmitted(s) == {n \in Rows(s) : attempts[<<s, n>>].readmitted}

\* A bug: off by one.
HasSlot_OffByOne(s) ==
  Cardinality(Rows(s)) <= MaxAttempts + Cardinality(Readmitted(s))

\* The limit is max_attempts plus one slot per readmitted attempt.
HasSlot(s) == Cardinality(Rows(s)) < MaxAttempts + Cardinality(Readmitted(s))

\* A bug: the window does not clamp the deadline.
Deadline_Unclamped(tx) == tx.now + tx.duration

\* deadline_at, from what Start has read of the window.
Deadline(tx) == Least(tx.now + tx.duration, tx.endsAt)

\* The attempt, its deadline job and its started event commit together.  The
\* look-up of an attempt to resume runs somewhere between the two steps, so it
\* missed one that was not there at either end.
StartInsert(s) ==
  LET tx == start[s]
  IN /\ tx.open
     /\ ~ (tx.found /\ Resumable(s, tx.now))
     /\ HasSlot(s)
     /\ \E n \in (1 .. MaxAttemptNo) \ Rows(s) :
          /\ \A m \in 1 .. n - 1 : m \in Rows(s)
          /\ attempts' = [attempts EXCEPT ![<<s, n>>] =
               [NoAttempt EXCEPT !.status = "in_progress",
                  !.version = tx.version, !.startedAt = tx.now,
                  !.deadline = Deadline(tx)]]
          /\ Log("started", <<s, n>>)
     /\ Enqueue({Deadline(tx) + Grace})
     /\ start' = [start EXCEPT ![s] = NoStart]
     /\ UNCHANGED <<now, quiz, snapshots, assigned, moderation, workerVars>>

\* A start that writes nothing: resumed, over the limit, or rolled back.
StartEnd(s) ==
  /\ start[s].open
  /\ start' = [start EXCEPT ![s] = NoStart]
  /\ UNCHANGED <<now, quiz, snapshots, assigned, attemptVars, jobs, workerVars>>

\* A bug: the deadline alone decides.
Writable_AnyStatus(a) ==
  /\ attempts[a].status # "none"
  /\ \E t \in Recent : t <= attempts[a].deadline + Grace

\* The gate of autosave and manual submit: in progress, and not later than the
\* deadline plus grace on the clock of the writing transaction.
Writable(a) ==
  InProgress(a) /\ \E t \in Recent : t <= attempts[a].deadline + Grace

\* Autosave: an upsert of the answer; a JSON null stores SQL NULL.
SaveAnswer(a) ==
  /\ Writable(a)
  /\ ~Held(a)
  /\ Occurs("progress", a) < MaxSaves
  /\ \E r \in Responses \ {"no row"} :
       attempts' = [attempts EXCEPT ![a].answer = r]
  /\ Log("progress", a)
  /\ UNCHANGED <<now, quiz, snapshots, assigned, moderation, jobs, start, workerVars>>

SubmitManual(a) ==
  /\ Writable(a)
  /\ ~Held(a)
  /\ attempts' = [attempts EXCEPT ![a] = Ended(a, "submitted", "manual")]
  /\ Log("submitted", a)
  /\ Enqueue({now})
  /\ UNCHANGED <<now, quiz, snapshots, assigned, moderation, start, workerVars>>

\* The guardrails an attempt is judged against are its pinned snapshot's.
Pinned(a) == snapshots[attempts[a].version].guardrails

Tally(a) == attempts[a].violations + IF Pinned(a).policy = "count" THEN 1 ELSE 0

\* The next counted report ends the attempt.
LadderFires(a) ==
  /\ Pinned(a).policy = "count"
  /\ Pinned(a).action = "auto_submit"
  /\ Pinned(a).maxViolations >= 1
  /\ Tally(a) >= Pinned(a).maxViolations

Reportable(a) ==
  /\ InProgress(a)
  /\ ~Held(a)
  /\ Pinned(a).policy # "off"
  /\ Occurs("violation", a) < MaxReports

RecordViolation(a) ==
  /\ Reportable(a)
  /\ ~LadderFires(a)
  /\ attempts' = [attempts EXCEPT ![a].violations = Tally(a)]
  /\ Log("violation", a)
  /\ UNCHANGED <<now, quiz, snapshots, assigned, moderation, jobs, start, workerVars>>

LadderSubmit(a) ==
  /\ Reportable(a)
  /\ LadderFires(a)
  /\ attempts' = [attempts EXCEPT ![a] =
       [Ended(a, "submitted", "auto") EXCEPT !.violations = Tally(a)]]
  /\ events' = [events EXCEPT ![a] = @ \o <<"violation", "submitted">>]
  /\ Enqueue({now})
  /\ UNCHANGED <<now, quiz, snapshots, assigned, moderation, start, workerVars>>

\* Moderation by the owning teacher or an admin.
Kick(a) ==
  /\ InProgress(a)
  /\ ~Held(a)
  /\ attempts' = [attempts EXCEPT ![a] = Ended(a, "kicked", "kicked")]
  /\ Log("kicked", a)
  /\ moderation' = [moderation EXCEPT ![a].kicked = @ + 1]
  /\ Enqueue({now})
  /\ UNCHANGED <<now, quiz, snapshots, assigned, start, workerVars>>

\* A bug: a double click readmits twice.
Readmittable_Again(a) == attempts[a].status = "kicked"

\* A kicked attempt, until it is graded, once.
Readmittable(a) == attempts[a].status = "kicked" /\ ~attempts[a].readmitted

Readmit(a) ==
  /\ Readmittable(a)
  /\ attempts' = [attempts EXCEPT ![a].readmitted = TRUE]
  /\ moderation' = [moderation EXCEPT ![a].readmitted = @ + 1]
  /\ UNCHANGED <<now, quiz, snapshots, assigned, events, jobs, start, workerVars>>

OverrideScore(a) ==
  /\ attempts[a].kind = "kicked"
  /\ attempts[a].status = "graded"
  /\ ~attempts[a].overridden
  /\ attempts' = [attempts EXCEPT ![a].score = 0, ![a].overridden = TRUE]
  /\ moderation' = [moderation EXCEPT ![a].overridden = @ + 1]
  /\ UNCHANGED <<now, quiz, snapshots, assigned, events, jobs, start, workerVars>>

Starting(s) == StartRead(s) \/ StartInsert(s) \/ StartEnd(s)

OnAttempt(a) ==
  \/ SaveAnswer(a)
  \/ SubmitManual(a)
  \/ RecordViolation(a)
  \/ LadderSubmit(a)
  \/ Kick(a)
  \/ Readmit(a)
  \/ OverrideScore(a)
=============================================================================
