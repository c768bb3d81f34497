------------------------------- MODULE MacQuiz -------------------------------
(***************************************************************************)
(* The quiz platform around one quiz: the teacher's operations, the        *)
(* students' and moderators' operations on attempts, and the workers'      *)
(* passes, interleaved over the tables of module Schema.                   *)
(***************************************************************************)
EXTENDS QuizService, AttemptService, Worker

Next ==
  \/ Tick
  \/ TeacherOnQuiz
  \/ \E s \in Students : Starting(s)
  \/ \E a \in AttemptIds : OnAttempt(a)
  \/ PeriodicSweep
  \/ \E w \in Workers : BeginPass(w) \/ PassStep(w) \/ FailPass(w)

Spec == Init /\ [][Next]_vars

\* Time passes: endless runs of starts and sweeps within one tick do not stop it.
\* Transactions end; River runs its periodic job every minute, takes due jobs, and
\* a pass it has started goes on.  Nobody has to click anything.
Fairness ==
  /\ <>(now = MaxTime)
  /\ WF_vars(PeriodicSweep)
  /\ \A s \in Students : WF_vars(StartEnd(s))
  /\ \A w \in Workers : WF_vars(BeginPass(w)) /\ WF_vars(PassStep(w))

FairSpec == Spec /\ Fairness

\* Publish accepts a stored status of 'scheduled' although the window may have
\* opened already.  Teachers who only reschedule before the window opens:
ReschedulesBeforeOpening ==
  snapshots' # snapshots => EffectiveStatus(quiz, now) \in {"draft", "scheduled"}

CarefulSpec == Init /\ [][Next /\ ReschedulesBeforeOpening]_vars
-----------------------------------------------------------------------------
(* Safety of the whole platform.                                           *)

\* The event log of an attempt tells the life of its row: one started event,
\* first; one end, submitted or kicked as the row says, after which nothing but
\* the grading is logged; graded last and once.  Teacher dashboards are rebuilt
\* from this log, whoever ended the attempt: the student, a sweep, the violation
\* ladder or a moderator, with every grader racing the others.
LogMatchesRow ==
  \A a \in AttemptIds :
    LET row == attempts[a]
        log == events[a]
        ends == {i \in DOMAIN log : log[i] \in {"submitted", "kicked"}}
        grades == {i \in DOMAIN log : log[i] = "graded"}
    IN /\ row.status = "none" <=> log = <<>>
       /\ \A i \in DOMAIN log : log[i] = "started" <=> i = 1
       /\ row.status \in Terminated <=> ends # {}
       /\ \A i \in ends : /\ i + Cardinality(grades) = Len(log)
                          /\ log[i] = "kicked" <=> row.kind = "kicked"
       /\ row.status = "graded" <=> grades = {Len(log)}

\* A student never holds more attempt rows than max_attempts plus one for each
\* kick that was readmitted, although starts, kicks and readmissions of the same
\* student interleave (Start's count and the readmitted_at marker).
AttemptBudget ==
  \A s \in Students :
    Cardinality(Rows(s)) <=
      MaxAttempts + Cardinality({n \in Rows(s) : moderation[<<s, n>>].readmitted > 0})

\* A score is what the key of the attempt's pinned snapshot makes of the answer
\* as it was left, whatever was republished since, unless a moderator zeroed it
\* (gradeOne, SaveAnswer, Publish, OverrideScore).
GradedAgainstPinned ==
  \A a \in AttemptIds :
    attempts[a].status = "graded" =>
      attempts[a].score = IF attempts[a].overridden THEN 0
        ELSE Score(attempts[a].answer, snapshots[attempts[a].version].key)

\* A pass that will still list, or has listed, attempt a.
WillGrade(w, a) ==
  \/ pass[w].at \in {"open", "sweep", "force", "list"}
  \/ pass[w].at = "grade" /\ a \in pass[w].todo

\* Work that waits for its grade is never stranded: a job is due or a running
\* pass will reach it.  No periodic sweep is needed for that, even when passes
\* fail half way ("submit() never enqueues grading - every caller does").
GradingIsQueued ==
  \A a \in Ungraded : now \in jobs \/ \E w \in Workers : WillGrade(w, a)

\* A quiz that is open or about to open has a job queued that will close it no
\* later than its end, or at once when that has passed: through reschedules,
\* cancels, extensions, force-closes and failed passes (enqueueWindowJobs,
\* enqueueCloseJob).
CloseIsQueued ==
  quiz.status \in {"scheduled", "live"} =>
    \E j \in jobs : (quiz.startsAt <= j /\ j <= quiz.endsAt) \/ j = now

\* The audit log has exactly one row for each kick, readmission and zeroed score
\* there is on an attempt row, and only kicked attempts are readmitted or zeroed.
ModeratedOnce ==
  \A a \in AttemptIds :
    /\ moderation[a].kicked = IF attempts[a].kind = "kicked" THEN 1 ELSE 0
    /\ moderation[a].readmitted = IF attempts[a].readmitted THEN 1 ELSE 0
    /\ moderation[a].overridden = IF attempts[a].overridden THEN 1 ELSE 0
    /\ attempts[a].readmitted \/ attempts[a].overridden => attempts[a].kind = "kicked"

Kept(a) ==
  /\ \A f \in {"answer", "deadline", "violations", "kind", "version", "startedAt"} :
       attempts'[a][f] = attempts[a][f]
  /\ attempts'[a].status \in {attempts[a].status, "graded"}
  /\ attempts[a].overridden => attempts'[a].overridden /\ attempts'[a].score = 0

\* Once an attempt has ended, nothing that reaches it later - a late autosave, a
\* violation report, a second submit, a kick, an extension, a sweep - changes
\* what was answered or how it ended, and a zeroed score stays zero.
TerminatedIsImmutable ==
  [][\A a \in AttemptIds : attempts[a].status \in Terminated => Kept(a)]_vars

\* A closed quiz never reopens nor moves its end, an archived one stays archived,
\* a release is never taken back, and a rollup row is never rewritten: not by a
\* worker that read the quiz before, nor by a teacher's repeated call.
OutcomesAreFinal ==
  [][/\ quiz.status = "archived" => quiz'.status = "archived"
     /\ quiz.status = "closed" =>
          quiz'.status \in {"closed", "archived"} /\ quiz'.endsAt = quiz.endsAt
     /\ quiz.released => quiz'.released
     /\ quizStats.written => quizStats' = quizStats]_vars

\* An attempt marked 'forced' was cut short: its own time and grace had not run
\* out when its quiz ended, however starts, force-closes, extensions and other
\* sweeps fall between the two statements of SweepDueAttempts ("an attempt that
\* expired before its quiz closed keeps the kind its own timer would have
\* written").
ForcedWasCutShort ==
  \A a \in AttemptIds :
    attempts[a].kind = "forced" =>
      IsOver /\ quiz.endsAt < attempts[a].deadline + Grace
-----------------------------------------------------------------------------
(* Safety when no quiz is rescheduled after its window opened (CarefulSpec, *)
(* with transaction clocks that do not lag).  Without these assumptions the *)
(* code breaks the three of them.                                          *)

\* Every student with an attempt in progress is in the audience: the only way to
\* interrupt one is to kick (SetAssignments' check against Start's lock).
InProgressIsAssigned ==
  \A a \in AttemptIds : InProgress(a) => a[1] \in assigned

\* No attempt in progress outlives the window of an open quiz, through any race
\* of Start with Extend.
DeadlineInWindow ==
  \A a \in AttemptIds :
    InProgress(a) /\ quiz.status \in {"scheduled", "live"}
      => attempts[a].deadline <= quiz.endsAt

\* The deadline of an attempt only ever moves forward (Extend).
DeadlinesMoveForward ==
  [][\A a \in AttemptIds : attempts[a].status # "none"
        => attempts'[a].deadline >= attempts[a].deadline]_vars
-----------------------------------------------------------------------------
(* What the code's comments say and its interleavings break: TLC refutes   *)
(* each with the configuration that names it.                              *)

\* A quiz that is a draft (again) has no attempt in progress: "no attempt can
\* exist before the quiz opens" (Cancel).
DraftHasNoAttempt ==
  quiz.status = "draft" => \A a \in AttemptIds : ~InProgress(a)

\* The frozen rollup holds each student's best score as it is (RollupDue).
RollupIsCurrent ==
  quizStats.written =>
    \A s \in Students : quizStats.best[s] = BestScore(s)

\* Once a quiz is rolled up its attempts are all graded: "A closed quiz takes no
\* new attempts [...], so once every attempt is graded the rollup is final"
\* (RollupDue).
RolledUpIsSettled ==
  quizStats.written => \A a \in AttemptIds : attempts[a].status \in {"none", "graded"}

\* An automatic release shows a class its results when every attempt is graded
\* (ReleaseDueResults).
AutoReleaseIsAtomic ==
  [][(\E w \in Workers : ReleaseDue(w)) /\ quiz'.released /\ ~quiz.released =>
       \A a \in AttemptIds : attempts[a].status \in {"none", "graded"}]_vars
-----------------------------------------------------------------------------
(* Liveness, with nobody clicking: the student disappears, the teacher      *)
(* never comes back, and a bounded number of passes fail.                   *)

\* Every attempt that was begun is ended and graded.
AttemptsEnd ==
  \A a \in AttemptIds : InProgress(a) ~> attempts[a].status = "graded"

\* An auto-release quiz that closed has its results released, also when it is
\* archived before the release.
ClosedIsReleased ==
  quiz.status = "closed" /\ quiz.policy = "auto" ~> quiz.released

\* A quiz that closed is rolled up, also when nobody attempted it.
ClosedIsRolledUp == quiz.status = "closed" ~> quizStats.written
-----------------------------------------------------------------------------
(* The abstract specification the platform implements.                     *)

Phase(status) ==
  CASE status = "none" -> "absent"
    [] status = "in_progress" -> "open"
    [] status \in {"submitted", "kicked"} -> "ended"
    [] OTHER -> "graded"

Contract == INSTANCE AttemptContract WITH
  Takers <- Students, Numbers <- 1 .. MaxAttemptNo,
  AnswerKeys <- Keys, Answers <- Responses \ {"no row"}, NoAnswer <- "no row",
  Unset <- NoKey, Ungraded <- NoScore, Budget <- MaxAttempts,
  phase <- [a \in AttemptIds |-> Phase(attempts[a].status)],
  answer <- [a \in AttemptIds |-> attempts[a].answer],
  key <- [a \in AttemptIds |->
            IF attempts[a].status = "none" THEN NoKey
            ELSE snapshots[attempts[a].version].key],
  score <- [a \in AttemptIds |-> attempts[a].score],
  granted <- {a \in AttemptIds : attempts[a].readmitted}

\* The platform implements the contract of module AttemptContract: key fixed at
\* the start, answers fixed at the end, one grade from both, and the budget.
ImplementsContract == Contract!Spec
-----------------------------------------------------------------------------
(* The invariant the proofs rest on.                                       *)

\* Every attempt, and every Start under way, is pinned to a snapshot that exists.
VersionsExist ==
  /\ quiz.status # "draft" => Version >= 1
  /\ \A a \in AttemptIds :
       attempts[a].status # "none" => attempts[a].version \in 1 .. Version
  /\ \A s \in Students : start[s].open => start[s].version \in 1 .. Version

\* The attempts a sweep holds are in progress until it commits, and no other sweep
\* holds them: nobody else's step changes a locked row.
HeldInProgress ==
  \A w \in Workers : At(w, "force") =>
    \A a \in pass[w].todo :
      /\ InProgress(a)
      /\ \A v \in Workers : At(v, "force") /\ a \in pass[v].todo => v = w

\* Only graded attempts have been zeroed, so grading never meets a zeroed one.
ZeroedAreGraded ==
  \A a \in AttemptIds : attempts[a].overridden => attempts[a].status = "graded"

\* The inductive invariant behind GradedAgainstPinned: grading keeps it because
\* the pinned snapshot exists and the row it grades was never zeroed, a sweep
\* because what it has flipped is still in progress.
IInv == TypeOK /\ HeldInProgress /\ VersionsExist /\ ZeroedAreGraded /\ GradedAgainstPinned

\* A row's kind is set when it ends and says how, behind ModeratedOnce: a row that
\* can still be kicked was not, and only kicked ones are readmitted.
KindTellsEnd ==
  \A a \in AttemptIds :
    /\ attempts[a].status \in {"none", "in_progress"} => attempts[a].kind = "none"
    /\ attempts[a].status = "kicked" => attempts[a].kind = "kicked"

\* The row of an attempt that was never opened holds nothing, as the contract asks.
UnopenedIsBlank ==
  \A a \in AttemptIds : attempts[a].status = "none" => attempts[a] = NoAttempt

\* Where the events of a log may stand, without counting: LogMatchesRow alone does
\* not say that an attempt that is not graded has no graded event.
InPlace(row, log) ==
  LET end == IF row.status = "graded" THEN Len(log) - 1 ELSE Len(log)
  IN /\ row.status = "none" <=> log = <<>>
     /\ row.status \in Terminated => end >= 2
     /\ \A i \in DOMAIN log :
          /\ log[i] = "started" <=> i = 1
          /\ log[i] = "graded" <=> row.status = "graded" /\ i = Len(log)
          /\ log[i] \in {"submitted", "kicked"} <=> row.status \in Terminated /\ i = end
          /\ log[i] \in {"submitted", "kicked"} => (log[i] = "kicked" <=> row.kind = "kicked")

EventsInPlace == \A a \in AttemptIds : InPlace(attempts[a], events[a])

\* The budget on the rows' own marker, which is what Start counts.
WithinBudget ==
  \A s \in Students :
    Cardinality(Rows(s)) <= MaxAttempts + Cardinality(Readmitted(s))

\* The job for the end of the window itself is queued, so the pass that takes the
\* job for its start does not take the last one.
EndIsQueued ==
  quiz.status \in {"scheduled", "live"} =>
    /\ quiz.startsAt < quiz.endsAt
    /\ (IF quiz.endsAt < now THEN now ELSE quiz.endsAt) \in jobs

\* Behind the careful teacher's invariants: nothing is begun before the window
\* opens, what Start has read of the window is still true or was extended, and
\* the audience cannot change under it.
BegunInWindow ==
  (\E a \in AttemptIds : InProgress(a)) \/ (\E s \in Students : start[s].open) =>
    /\ quiz.status # "draft"
    /\ quiz.status \in {"scheduled", "live"} => quiz.startsAt <= now

StartsAreCurrent ==
  \A s \in Students : start[s].open =>
    /\ s \in assigned
    /\ start[s].duration = quiz.duration
    /\ quiz.status \in {"scheduled", "live"} => start[s].endsAt <= quiz.endsAt

DeadlineInDuration ==
  \A a \in AttemptIds : InProgress(a) =>
    attempts[a].deadline <= attempts[a].startedAt + quiz.duration

\* Behind ForcedWasCutShort: a quiz ends when it is over, a student starts within
\* the window, and whatever is in progress beside a sweep has time left.
OverHasEnded == IsOver => quiz.endsAt <= now

StartsInTime ==
  /\ quiz.status # "draft" => quiz.duration # 0
  /\ \A s \in Students : start[s].open =>
       start[s].now = now /\ now < start[s].endsAt /\ start[s].duration # 0

OthersHaveTime ==
  \A w \in Workers : At(w, "force") =>
    /\ pass[w].since = now
    /\ \A a \in AttemptIds : InProgress(a) /\ a \notin pass[w].todo
         => now < attempts[a].deadline + Grace
=============================================================================
