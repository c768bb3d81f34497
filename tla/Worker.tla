-------------------------------- MODULE Worker --------------------------------
(***************************************************************************)
(* The background worker (internal/worker).  Every job kind and the boot   *)
(* re-scan run the same pass, sweepDue, over all quizzes and attempts; its *)
(* statements are steps of their own: all commit one by one but the two of *)
(* the attempts' sweep, which share a transaction.  Passes of several      *)
(* workers interleave with each other and with the API.                    *)
(***************************************************************************)
EXTENDS Schema

At(w, step) == pass[w].at = step
GoTo(w, step) == pass' = [pass EXCEPT ![w].at = step]

\* River's periodic job, and the re-scan a restarted worker runs.
PeriodicSweep ==
  /\ now \notin jobs
  /\ Enqueue({now})
  /\ UNCHANGED <<now, quiz, snapshots, assigned, attemptVars, start, workerVars>>

\* A due job starts a pass, with the first statement of SweepDueQuizzes.
BeginPass(w) ==
  /\ At(w, "idle")
  /\ now \in jobs
  /\ jobs' = jobs \ {now}
  /\ quiz' = IF quiz.status \in {"scheduled", "live"} /\ quiz.endsAt <= now
             THEN [quiz EXCEPT !.status = "closed"] ELSE quiz
  /\ GoTo(w, "open")
  /\ UNCHANGED <<now, snapshots, assigned, attemptVars, start, quizStats,
                 studentStats, faults>>

\* The second statement of SweepDueQuizzes.
OpenDue(w) ==
  /\ At(w, "open")
  /\ quiz' = IF quiz.status = "scheduled" /\ quiz.startsAt <= now /\ quiz.endsAt > now
             THEN [quiz EXCEPT !.status = "live"] ELSE quiz
  /\ GoTo(w, "sweep")
  /\ UNCHANGED <<now, snapshots, assigned, attemptVars, jobs, start, quizStats,
                 studentStats, faults>>

Expired(a) == InProgress(a) /\ attempts[a].deadline + Grace <= now

\* SweepDueAttempts begins its transaction and runs its first statement, which
\* holds the attempts whose own time is up until the commit.  (A statement takes
\* its rows at once: of two sweeps that take them one by one and meet, PostgreSQL
\* fails one, as FailPass does.)
SweepExpired(w) ==
  /\ At(w, "sweep")
  /\ \A a \in AttemptIds : Expired(a) => ~Held(a)
  /\ pass' = [pass EXCEPT ![w] = [@ EXCEPT !.at = "force", !.since = now,
                !.todo = {a \in AttemptIds : Expired(a)}]]
  /\ UNCHANGED <<now, quiz, snapshots, assigned, attemptVars, jobs, start,
                 quizStats, studentStats, faults>>

\* A bug: the second statement does not ask for attempts in progress.
SweepKind_Again(w, a) ==
  CASE InProgress(a) /\ IsOver -> "forced"
    [] a \in pass[w].todo /\ ~IsOver -> "auto"
    [] OTHER -> "none"

\* What the two statements make of an attempt: the second one sees the rows of
\* the first as ended, and everything else as it is by then.
SweepKind(w, a) ==
  CASE a \in pass[w].todo -> "auto"
    [] InProgress(a) /\ a \notin pass[w].todo /\ IsOver -> "forced"
    [] OTHER -> "none"

\* The second statement, and the commit of all flips and their events.
SweepForced(w) ==
  /\ At(w, "force")
  /\ \A a \in AttemptIds :
       SweepKind(w, a) = "forced" => a \in pass[w].todo \/ ~Held(a)
  /\ attempts' = [a \in AttemptIds |->
       IF SweepKind(w, a) = "none" THEN attempts[a]
       ELSE Ended(a, "submitted", SweepKind(w, a))]
  /\ events' = [a \in AttemptIds |->
       IF SweepKind(w, a) = "none" THEN events[a] ELSE Append(events[a], "submitted")]
  /\ pass' = [pass EXCEPT ![w] = [@ EXCEPT !.at = "list", !.since = NoTime,
                                          !.todo = {}]]
  /\ UNCHANGED <<now, quiz, snapshots, assigned, moderation, jobs, start,
                 quizStats, studentStats, faults>>

\* Two bugs: graded attempts are graded again, kicked ones never.
Ungraded_AnyEnded == {a \in AttemptIds : attempts[a].status \in Terminated}

Ungraded_SubmittedOnly == {a \in AttemptIds : attempts[a].status = "submitted"}

\* GradeSubmitted lists the ungraded attempts, then grades them one by one.
Ungraded == {a \in AttemptIds : attempts[a].status \in {"submitted", "kicked"}}

ListUngraded(w) ==
  /\ At(w, "list")
  /\ pass' = [pass EXCEPT ![w].at = "grade", ![w].todo = Ungraded]
  /\ UNCHANGED <<now, quiz, snapshots, assigned, attemptVars, jobs, start,
                 quizStats, studentStats, faults>>

\* The score of an answer: a blank or a wrong one earns nothing, the total
\* being floored at zero.
Score(answer, key) == IF answer = key THEN 1 ELSE 0

\* A bug: the key of the latest snapshot, not of the pinned one.
Graded_Latest(a) ==
  [attempts[a] EXCEPT !.status = "graded",
     !.score = Score(attempts[a].answer, snapshots[Version].key)]

Graded(a) ==
  [attempts[a] EXCEPT !.status = "graded",
     !.score = Score(attempts[a].answer, snapshots[attempts[a].version].key)]

\* gradeOne checks again that the attempt is still ungraded.
GradeOne(w, a) ==
  /\ At(w, "grade")
  /\ a \in pass[w].todo
  /\ IF a \in Ungraded
     THEN /\ attempts' = [attempts EXCEPT ![a] = Graded(a)]
          /\ Log("graded", a)
     ELSE UNCHANGED <<attempts, events>>
  /\ pass' = [pass EXCEPT ![w].todo = @ \ {a}]
  /\ UNCHANGED <<now, quiz, snapshots, assigned, moderation, jobs, start,
                 quizStats, studentStats, faults>>

\* The attempts that hold back an automatic release.
HoldsRelease(a) == attempts[a].status \in {"in_progress", "submitted"}

ReleaseDue(w) ==
  /\ At(w, "grade")
  /\ pass[w].todo = {}
  /\ quiz' = IF /\ IsOver
                /\ quiz.policy = "auto"
                /\ \A a \in AttemptIds : ~HoldsRelease(a)
             THEN [quiz EXCEPT !.released = TRUE] ELSE quiz
  /\ GoTo(w, "rollup")
  /\ UNCHANGED <<now, snapshots, assigned, attemptVars, jobs, start, quizStats,
                 studentStats, faults>>

\* A bug: a quiz that nobody attempted is never rolled up.
RollupIsDue_Attempted ==
  /\ IsOver
  /\ ~quizStats.written
  /\ \A a \in AttemptIds : attempts[a].status \in {"none", "graded"}
  /\ \E a \in AttemptIds : attempts[a].status = "graded"

RollupIsDue ==
  /\ IsOver
  /\ \A a \in AttemptIds : attempts[a].status \in {"none", "graded"}
  /\ ~quizStats.written

\* RollupDue: the pass ends here when there is nothing to roll up.
ListRollup(w) ==
  /\ At(w, "rollup")
  /\ GoTo(w, IF RollupIsDue THEN "read" ELSE "idle")
  /\ UNCHANGED <<now, quiz, snapshots, assigned, attemptVars, jobs, start,
                 quizStats, studentStats, faults>>

\* The best graded score of a student, or none.
BestScore(s) ==
  LET graded == {attempts[<<s, n>>].score :
                   n \in {m \in Rows(s) : attempts[<<s, m>>].status = "graded"}}
  IN IF graded = {} THEN NoScore ELSE IF 1 \in graded THEN 1 ELSE 0

ReadScores(w) ==
  /\ At(w, "read")
  /\ pass' = [pass EXCEPT ![w].at = "students",
                ![w].best = [s \in Students |-> BestScore(s)]]
  /\ UNCHANGED <<now, quiz, snapshots, assigned, attemptVars, jobs, start,
                 quizStats, studentStats, faults>>

\* The rest of what rollupOne reads, and rollupStudents, which replaces the rows
\* of the assigned students.
RollupStudents(w) ==
  /\ At(w, "students")
  /\ pass' = [pass EXCEPT ![w].at = "insert",
                ![w].attempted = {s \in Students : Rows(s) # {}}]
  /\ studentStats' = [s \in Students |->
       IF s \in assigned THEN BestScore(s) ELSE studentStats[s]]
  /\ UNCHANGED <<now, quiz, snapshots, assigned, attemptVars, jobs, start,
                 quizStats, faults>>

\* INSERT ... ON CONFLICT DO NOTHING: the first rollup stands.
InsertStats(w) ==
  /\ At(w, "insert")
  /\ quizStats' = IF quizStats.written THEN quizStats
                  ELSE [written |-> TRUE, best |-> pass[w].best,
                        attempted |-> pass[w].attempted]
  /\ pass' = [pass EXCEPT ![w] = IdlePass]
  /\ UNCHANGED <<now, quiz, snapshots, assigned, attemptVars, jobs, start,
                 studentStats, faults>>

\* An error or a crash ends the pass; River runs its job again.  (How long River
\* backs off, and that it discards a job after its last attempt, is left out: every
\* job runs the same pass, and the periodic one never stops coming.)
FailPass(w) ==
  /\ ~At(w, "idle")
  /\ faults < MaxFaults
  /\ faults' = faults + 1
  /\ pass' = [pass EXCEPT ![w] = IdlePass]
  /\ Enqueue({now})
  /\ UNCHANGED <<now, quiz, snapshots, assigned, attemptVars, start, quizStats,
                 studentStats>>

PassStep(w) ==
  \/ OpenDue(w)
  \/ SweepExpired(w)
  \/ SweepForced(w)
  \/ ListUngraded(w)
  \/ \E a \in AttemptIds : GradeOne(w, a)
  \/ ReleaseDue(w)
  \/ ListRollup(w)
  \/ ReadScores(w)
  \/ RollupStudents(w)
  \/ InsertStats(w)
=============================================================================
