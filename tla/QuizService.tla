----------------------------- MODULE QuizService -----------------------------
(***************************************************************************)
(* The teacher's operations on a quiz (internal/quiz).  Each is one        *)
(* transaction that holds the quiz row FOR UPDATE from its first statement *)
(* to its commit, so each is one step; calls that change nothing (refused, *)
(* or idempotent repeats) are stuttering steps and have no disjunct.       *)
(***************************************************************************)
EXTENDS Schema

\* Authoring: the question set, and so the answer key, changes in a draft only
\* (draftForUpdate).  Deleting the last question leaves no key.
AuthorQuestions ==
  /\ quiz.status = "draft"
  /\ \E k \in Keys \cup {NoKey} : quiz' = [quiz EXCEPT !.key = k]
  /\ UNCHANGED <<now, snapshots, assigned, attemptVars, jobs, start, workerVars>>

\* A bug: nothing is queued for the end of the window.
WindowJobs_OpenOnly(starts, ends) == {starts}

\* The open_quiz and the close_quiz job.
WindowJobs(starts, ends) == {starts, ends}

\* Two bugs: a publish that writes no snapshot, one that rewrites them all.
Snapshotted_Never(guardrails) == snapshots

Snapshotted_Over(guardrails) ==
  [i \in 1 .. Version + 1 |-> [key |-> quiz.key, guardrails |-> guardrails]]

\* quiz_versions is append-only.
Snapshotted(guardrails) ==
  Append(snapshots, [key |-> quiz.key, guardrails |-> guardrails])

\* Publish gates on the stored status.  It snapshots the questions and the
\* guardrails, numbers the snapshot, sets the window and queues its two jobs.
Publish ==
  \E t \in Recent, starts \in Instants, ends \in Instants, d \in Durations,
     p \in Policies, g \in Guardrails :
    /\ t < starts /\ starts < ends
    /\ quiz.status \in {"draft", "scheduled"}
    /\ quiz.key # NoKey
    /\ assigned # {}
    /\ Version < MaxVersion
    /\ ends + Grace <= MaxTime
    /\ snapshots' = Snapshotted(g)
    /\ quiz' = [quiz EXCEPT !.status = "scheduled", !.startsAt = starts,
                            !.endsAt = ends, !.duration = d, !.policy = p]
    /\ Enqueue(WindowJobs(starts, ends))
    /\ UNCHANGED <<now, assigned, attemptVars, start, workerVars>>

\* A bug: the stored status alone decides.
Cancellable_Stored == quiz.status = "scheduled"

\* Cancel tests the start of the window on its transaction's clock.
Cancellable == quiz.status = "scheduled" /\ \E t \in Recent : t < quiz.startsAt

Cancel ==
  /\ Cancellable
  /\ quiz' = [quiz EXCEPT !.status = "draft", !.startsAt = NoTime,
                          !.endsAt = NoTime]
  /\ UNCHANGED <<now, snapshots, assigned, attemptVars, jobs, start, workerVars>>

\* A bug: only a draft is refused.
Closable_NotDraft == quiz.status # "draft"

Closable == quiz.status \in {"scheduled", "live"}

ForceClose ==
  /\ Closable
  /\ \E t \in Recent :
       quiz' = [quiz EXCEPT !.status = "closed", !.endsAt = t]
  /\ Enqueue({now})
  /\ UNCHANGED <<now, snapshots, assigned, attemptVars, start, workerVars>>

\* A bug: the window may be shortened.
Extendable_Either(ends) ==
  EffectiveStatus(quiz, now) = "live" /\ ends > now /\ ends # quiz.endsAt

\* The window only ever moves later.
Extendable(ends) == EffectiveStatus(quiz, now) = "live" /\ ends > quiz.endsAt

\* Extend recomputes the deadline of every attempt that is in progress from the
\* quiz's current duration, and queues one job, for the new end of the window.  It
\* waits for the attempts that a sweep holds.
Extend ==
  \E ends \in Instants :
    /\ Extendable(ends)
    /\ \A a \in AttemptIds : ~Held(a)
    /\ ends + Grace <= MaxTime
    /\ quiz' = [quiz EXCEPT !.endsAt = ends]
    /\ attempts' =
         [a \in AttemptIds |->
            IF InProgress(a)
            THEN [attempts[a] EXCEPT
                    !.deadline = Least(attempts[a].startedAt + quiz.duration, ends)]
            ELSE attempts[a]]
    /\ Enqueue({ends})
    /\ UNCHANGED <<now, snapshots, assigned, events, moderation, start, workerVars>>

Archive ==
  /\ quiz.status = "closed"
  /\ quiz' = [quiz EXCEPT !.status = "archived"]
  /\ UNCHANGED <<now, snapshots, assigned, attemptVars, jobs, start, workerVars>>

\* The teacher's release flips a row that the close job has not reached yet.
ReleaseResults ==
  /\ ~quiz.released
  /\ \E t \in Recent : EffectiveStatus(quiz, t) \in {"closed", "archived"}
  /\ quiz' = [quiz EXCEPT
                !.status = IF @ = "archived" THEN "archived" ELSE "closed",
                !.released = TRUE]
  /\ UNCHANGED <<now, snapshots, assigned, attemptVars, jobs, start, workerVars>>

\* A bug: nobody is looked up.
MayDrop_Always(dropped, t) == TRUE

\* The students a new audience drops while the quiz is effectively live may not
\* have an attempt in progress.
MayDrop(dropped, t) ==
  EffectiveStatus(quiz, t) = "live"
    => ~ \E a \in AttemptIds : a[1] \in dropped /\ InProgress(a)

\* SetAssignments deletes and inserts the whole audience, so it waits for every
\* attempt.Start that holds an assignment row; it has read the clock before that.
SetAssignments ==
  \E t \in Recent, audience \in SUBSET Students :
    /\ audience # assigned
    /\ EffectiveStatus(quiz, t) \in {"draft", "scheduled", "live"}
    /\ quiz.status = "scheduled" => audience # {}
    /\ \A s \in assigned : ~start[s].open
    /\ MayDrop(assigned \ audience, t)
    /\ assigned' = audience
    /\ UNCHANGED <<now, quiz, snapshots, attemptVars, jobs, start, workerVars>>

TeacherOnQuiz ==
  \/ AuthorQuestions
  \/ Publish
  \/ Cancel
  \/ ForceClose
  \/ Extend
  \/ Archive
  \/ ReleaseResults
  \/ SetAssignments
=============================================================================
