---------------------------- MODULE MacQuizProofs ----------------------------
(***************************************************************************)
(* Theorems about module MacQuiz, for every number of students, workers,   *)
(* attempts, versions and ticks.                                           *)
(***************************************************************************)
EXTENDS MacQuiz, TLAPS

USE DEF NoTime, NoScore

\* The bounds are natural numbers.
LEMMA Bounds ==
  /\ MaxTime \in Nat
  /\ Grace \in Nat
  /\ MaxFaults \in Nat
  /\ MaxAttempts \in Nat
  /\ MaxAttemptNo \in Nat
  BY CountsAreNaturals

\* Durations, and the zero of a quiz that was never published, are too.
LEMMA DurationsAreNaturals == Durations \cup {0} \subseteq Nat
  BY DurationsPositive

\* The smaller of an instant and a later one is an instant.
LEMMA LeastIsTime ==
  ASSUME NEW x \in Nat, NEW y \in Time
  PROVE  Least(x, y) \in Time
  BY Bounds DEF Least, Time

\* The instants a lagging clock may show are instants.
LEMMA RecentIsTime == Recent \subseteq Time
  BY DEF Recent

\* Queueing instants keeps the queue a set of instants.
LEMMA EnqueueType ==
  ASSUME NEW instants, instants \subseteq Nat, now \in Nat, jobs \subseteq Nat,
         Enqueue(instants)
  PROVE  jobs' \subseteq Nat
  BY DEF Enqueue

\* Appending an event keeps every log a sequence of events.
LEMMA LogType ==
  ASSUME NEW a \in AttemptIds, NEW type \in EventTypes,
         events \in [AttemptIds -> Seq(EventTypes)], Log(type, a)
  PROVE  events' \in [AttemptIds -> Seq(EventTypes)]
  BY DEF Log

\* The initial state is well typed.
LEMMA TypeInit == Init => TypeOK
  <1> SUFFICES ASSUME Init PROVE TypeOK
    OBVIOUS
  <1>1. now \in Time /\ faults \in 0 .. MaxFaults
    BY Bounds DEF Init, Time
  <1>2. quiz \in Quiz /\ snapshots \in Seq(Snapshot) /\ jobs \subseteq Nat
    BY DEF Init, Quiz, QuizStatuses
  <1>3. attempts \in [AttemptIds -> Attempt]
    BY DEF Init, NoAttempt, Attempt, AttemptStatuses, Responses, Blank
  <1>4. events \in [AttemptIds -> Seq(EventTypes)]
    BY DEF Init
  <1>5. moderation \in [AttemptIds -> Moderation]
    BY DEF Init, Moderation
  <1>6. start \in [Students -> StartTx]
    BY DEF Init, StartTx
  <1>7. /\ pass \in [Workers -> Pass]
        /\ quizStats \in Stats
        /\ studentStats \in Scores
        /\ assigned \subseteq Students
    BY DEF Init, IdlePass, Pass, PassSteps, NoScores, Scores, NoStats, Stats
  <1> QED
    BY <1>1, <1>2, <1>3, <1>4, <1>5, <1>6, <1>7 DEF TypeOK

\* The clock stays in its range and the queue a set of instants.
LEMMA TypeTick == TypeOK /\ Tick => TypeOK'
  <1> SUFFICES ASSUME TypeOK, Tick PROVE TypeOK'
    OBVIOUS
  <1>1. now' \in Time /\ jobs' \subseteq Nat
    BY Bounds DEF TypeOK, Tick, Time
  <1> QED
    BY <1>1 DEF TypeOK, Tick, attemptVars, workerVars

\* What the teacher's operations write.
LEMMA TypeTeacher == TypeOK /\ TeacherOnQuiz => TypeOK'
  <1> SUFFICES ASSUME TypeOK, TeacherOnQuiz PROVE TypeOK'
    OBVIOUS
  <1>t. Instants \subseteq Time /\ Instants \subseteq Nat /\ Time \subseteq Nat
    BY InstantsAreTimes, Bounds DEF Time
  <1>n. now \in Nat /\ jobs \subseteq Nat
    BY <1>t DEF TypeOK
  <1> USE DEF attemptVars, workerVars
  <1>1. CASE AuthorQuestions
    <2>1. quiz' \in Quiz
      BY <1>1 DEF AuthorQuestions, TypeOK, Quiz
    <2> QED
      BY <1>1, <2>1 DEF AuthorQuestions, TypeOK
  <1>2. CASE Publish
    <2> PICK starts \in Instants, ends \in Instants, d \in Durations,
             p \in Policies, g \in Guardrails :
          /\ quiz.key # NoKey
          /\ snapshots' = Snapshotted(g)
          /\ quiz' = [quiz EXCEPT !.status = "scheduled", !.startsAt = starts,
                        !.endsAt = ends, !.duration = d, !.policy = p]
          /\ Enqueue(WindowJobs(starts, ends))
      BY <1>2 DEF Publish
    <2>1. quiz' \in Quiz
      BY <1>t, PoliciesTyped DEF TypeOK, Quiz, QuizStatuses
    <2>2. snapshots' \in Seq(Snapshot)
      BY DEF TypeOK, Quiz, Snapshotted, Snapshot
    <2>3. jobs' \subseteq Nat
      BY <1>t, <1>n, EnqueueType DEF WindowJobs
    <2> QED
      BY <1>2, <2>1, <2>2, <2>3 DEF Publish, TypeOK
  <1>3. CASE Cancel
    <2>1. quiz' \in Quiz
      BY <1>3 DEF Cancel, TypeOK, Quiz, QuizStatuses
    <2> QED
      BY <1>3, <2>1 DEF Cancel, TypeOK
  <1>4. CASE ForceClose
    <2>1. quiz' \in Quiz
      BY <1>4, RecentIsTime DEF ForceClose, TypeOK, Quiz, QuizStatuses
    <2>2. jobs' \subseteq Nat
      BY <1>4, <1>n, EnqueueType DEF ForceClose
    <2> QED
      BY <1>4, <2>1, <2>2 DEF ForceClose, TypeOK
  <1>5. CASE Extend
    <2> PICK ends \in Instants :
          /\ quiz' = [quiz EXCEPT !.endsAt = ends]
          /\ attempts' =
               [a \in AttemptIds |->
                  IF InProgress(a)
                  THEN [attempts[a] EXCEPT
                          !.deadline = Least(attempts[a].startedAt + quiz.duration, ends)]
                  ELSE attempts[a]]
          /\ Enqueue({ends})
      BY <1>5 DEF Extend
    <2>1. quiz' \in Quiz
      BY <1>t DEF TypeOK, Quiz
    <2>2. \A a \in AttemptIds :
            Least(attempts[a].startedAt + quiz.duration, ends) \in Time \cup {NoTime}
      <3> SUFFICES ASSUME NEW a \in AttemptIds
                   PROVE  Least(attempts[a].startedAt + quiz.duration, ends)
                            \in Time \cup {NoTime}
        OBVIOUS
      <3>1. quiz.duration \in Nat
        BY DurationsAreNaturals DEF TypeOK, Quiz
      <3>2. attempts[a].startedAt \in Time \cup {NoTime}
        BY DEF TypeOK, Attempt
      <3>3. ends \in Time /\ MaxTime \in Nat
        BY <1>t, Bounds
      <3> QED
        BY <3>1, <3>2, <3>3 DEF Least, Time
    <2>3. attempts' \in [AttemptIds -> Attempt]
      <3> SUFFICES ASSUME NEW a \in AttemptIds PROVE attempts'[a] \in Attempt
        OBVIOUS
      <3>1. CASE InProgress(a)
        <4>1. attempts'[a] = [attempts[a] EXCEPT
                 !.deadline = Least(attempts[a].startedAt + quiz.duration, ends)]
          BY <3>1
        <4>2. /\ attempts[a] \in Attempt
              /\ Least(attempts[a].startedAt + quiz.duration, ends)
                   \in Time \cup {NoTime}
          BY <2>2 DEF TypeOK
        <4> QED
          BY <4>1, <4>2 DEF Attempt
      <3>2. CASE ~InProgress(a)
        BY <3>2 DEF TypeOK
      <3> QED
        BY <3>1, <3>2
    <2>4. jobs' \subseteq Nat
      BY <1>t, <1>n, EnqueueType
    <2> QED
      BY <1>5, <2>1, <2>3, <2>4 DEF Extend, TypeOK
  <1>6. CASE Archive
    <2>1. quiz' \in Quiz
      BY <1>6 DEF Archive, TypeOK, Quiz, QuizStatuses
    <2> QED
      BY <1>6, <2>1 DEF Archive, TypeOK
  <1>7. CASE ReleaseResults
    <2>1. quiz' \in Quiz
      BY <1>7 DEF ReleaseResults, TypeOK, Quiz, QuizStatuses
    <2> QED
      BY <1>7, <2>1 DEF ReleaseResults, TypeOK
  <1>8. CASE SetAssignments
    BY <1>8 DEF SetAssignments, TypeOK
  <1> QED
    BY <1>1, <1>2, <1>3, <1>4, <1>5, <1>6, <1>7, <1>8 DEF TeacherOnQuiz

\* The deadline of a start under way is an instant.
LEMMA DeadlineType ==
  ASSUME NEW tx \in StartTx, tx.open
  PROVE  /\ tx.now \in Time
         /\ tx.version \in Nat
         /\ Deadline(tx) \in Time
  <1>1. tx # NoStart
    BY DEF NoStart
  <1>2. tx \in [open: {TRUE}, now: Time, endsAt: Time,
                duration: Durations \cup {0}, version: Nat, found: BOOLEAN]
    BY <1>1 DEF StartTx
  <1>3. tx.now \in Time /\ tx.endsAt \in Time /\ tx.version \in Nat
    BY <1>2
  <1>4. tx.duration \in Nat
    <2>1. tx.duration \in Durations \cup {0}
      BY <1>2
    <2> QED
      BY <2>1, DurationsAreNaturals
  <1>5. tx.now + tx.duration \in Nat
    BY <1>3, <1>4, Bounds DEF Time
  <1> QED
    BY <1>3, <1>5, LeastIsTime DEF Deadline

\* What the two halves of attempt.Start write.
LEMMA TypeStarting ==
  ASSUME TypeOK, NEW s \in Students, Starting(s)
  PROVE  TypeOK'
  <1> USE DEF attemptVars, workerVars
  <1>1. CASE StartRead(s)
    <2> PICK t \in Recent :
          /\ quiz.startsAt <= t /\ t < quiz.endsAt
          /\ start' = [start EXCEPT ![s] =
               [open |-> TRUE, now |-> t, endsAt |-> quiz.endsAt,
                duration |-> quiz.duration, version |-> Version,
                found |-> Resumable(s, t)]]
      BY <1>1 DEF StartRead
    <2>1. t \in Time /\ quiz.endsAt \in Time /\ quiz.duration \in Durations \cup {0}
      BY RecentIsTime, Bounds DEF TypeOK, Quiz, Time
    <2>2. Version \in Nat
      BY DEF TypeOK, Version
    <2>r. Resumable(s, t) \in BOOLEAN
      BY Zenon DEF Resumable
    <2>3. start' \in [Students -> StartTx]
      BY <2>1, <2>2, <2>r DEF TypeOK, StartTx
    <2> QED
      BY <1>1, <2>3 DEF StartRead, TypeOK
  <1>2. CASE StartInsert(s)
    <2> DEFINE tx == start[s]
    <2>0. tx \in StartTx /\ tx.open
      BY <1>2 DEF StartInsert, TypeOK
    <2>1. /\ Deadline(tx) \in Time
          /\ tx.now \in Time
          /\ tx.version \in Nat
      BY <2>0, DeadlineType
    <2> PICK n \in 1 .. MaxAttemptNo :
          /\ attempts' = [attempts EXCEPT ![<<s, n>>] =
               [NoAttempt EXCEPT !.status = "in_progress",
                  !.version = tx.version, !.startedAt = tx.now,
                  !.deadline = Deadline(tx)]]
          /\ Log("started", <<s, n>>)
      BY <1>2 DEF StartInsert
    <2>2. <<s, n>> \in AttemptIds
      BY DEF AttemptIds
    <2>3. attempts' \in [AttemptIds -> Attempt]
      <3>1. [NoAttempt EXCEPT !.status = "in_progress",
               !.version = tx.version, !.startedAt = tx.now,
               !.deadline = Deadline(tx)] \in Attempt
        BY <2>1 DEF NoAttempt, Attempt, AttemptStatuses, Responses, Blank
      <3> QED
        BY <2>2, <3>1 DEF TypeOK
    <2>4. events' \in [AttemptIds -> Seq(EventTypes)]
      BY <2>2, LogType DEF TypeOK, EventTypes
    <2>5. jobs' \subseteq Nat
      <3>1. Deadline(tx) + Grace \in Nat /\ now \in Nat
        BY <2>1, Bounds DEF TypeOK, Time
      <3>2. Enqueue({Deadline(tx) + Grace})
        BY <1>2 DEF StartInsert
      <3> QED
        BY <3>1, <3>2, EnqueueType DEF TypeOK
    <2>6. start' \in [Students -> StartTx]
      BY <1>2 DEF StartInsert, TypeOK, StartTx
    <2> QED
      BY <1>2, <2>3, <2>4, <2>5, <2>6 DEF StartInsert, TypeOK
  <1>3. CASE StartEnd(s)
    <2>1. start' \in [Students -> StartTx]
      BY <1>3 DEF StartEnd, TypeOK, StartTx
    <2> QED
      BY <1>3, <2>1 DEF StartEnd, TypeOK
  <1> QED
    BY <1>1, <1>2, <1>3 DEF Starting

\* What ends an attempt row keeps it an attempt row.
LEMMA EndedType ==
  ASSUME TypeOK, NEW a \in AttemptIds, NEW status \in AttemptStatuses,
         NEW kind \in SubmitKinds
  PROVE  Ended(a, status, kind) \in Attempt
  <1>1. attempts[a] \in Attempt
    BY DEF TypeOK
  <1> QED
    BY <1>1 DEF Ended, Attempt

\* What the operations on one attempt write.
LEMMA TypeOnAttempt ==
  ASSUME TypeOK, NEW a \in AttemptIds, OnAttempt(a)
  PROVE  TypeOK'
  <1> USE DEF attemptVars, workerVars
  <1>a. attempts[a] \in Attempt
    BY DEF TypeOK
  <1>m. moderation[a] \in Moderation
    BY DEF TypeOK
  <1>n. now \in Nat /\ jobs \subseteq Nat
    BY Bounds DEF TypeOK, Time
  <1>s. "submitted" \in AttemptStatuses /\ "kicked" \in AttemptStatuses
    BY DEF AttemptStatuses, Terminated
  <1>k. {"manual", "auto", "kicked"} \subseteq SubmitKinds
    BY DEF SubmitKinds
  <1>1. CASE SaveAnswer(a)
    <2>1. attempts' \in [AttemptIds -> Attempt]
      <3> PICK r \in Responses : attempts' = [attempts EXCEPT ![a].answer = r]
        BY <1>1 DEF SaveAnswer
      <3>1. [attempts[a] EXCEPT !.answer = r] \in Attempt
        BY <1>a DEF Attempt
      <3> QED
        BY <3>1 DEF TypeOK
    <2>2. events' \in [AttemptIds -> Seq(EventTypes)]
      BY <1>1, LogType DEF SaveAnswer, TypeOK, EventTypes
    <2> QED
      BY <1>1, <2>1, <2>2 DEF SaveAnswer, TypeOK
  <1>2. CASE SubmitManual(a)
    <2>1. attempts' \in [AttemptIds -> Attempt]
      BY <1>2, <1>s, <1>k, EndedType DEF SubmitManual, TypeOK
    <2>2. events' \in [AttemptIds -> Seq(EventTypes)]
      BY <1>2, LogType DEF SubmitManual, TypeOK, EventTypes
    <2>3. jobs' \subseteq Nat
      BY <1>2, <1>n, EnqueueType DEF SubmitManual
    <2> QED
      BY <1>2, <2>1, <2>2, <2>3 DEF SubmitManual, TypeOK
  <1>v. Tally(a) \in Nat
    BY <1>a DEF Tally, Attempt
  <1>3. CASE RecordViolation(a)
    <2>1. attempts' \in [AttemptIds -> Attempt]
      BY <1>3, <1>a, <1>v DEF RecordViolation, TypeOK, Attempt
    <2>2. events' \in [AttemptIds -> Seq(EventTypes)]
      BY <1>3, LogType DEF RecordViolation, TypeOK, EventTypes
    <2> QED
      BY <1>3, <2>1, <2>2 DEF RecordViolation, TypeOK
  <1>4. CASE LadderSubmit(a)
    <2>1. Ended(a, "submitted", "auto") \in Attempt
      BY <1>s, <1>k, EndedType
    <2>2. [Ended(a, "submitted", "auto") EXCEPT !.violations = Tally(a)] \in Attempt
      BY <2>1, <1>v DEF Attempt
    <2>3. attempts' \in [AttemptIds -> Attempt]
      BY <1>4, <2>2 DEF LadderSubmit, TypeOK
    <2>4. events[a] \o <<"violation", "submitted">> \in Seq(EventTypes)
      <3>1. events[a] \in Seq(EventTypes)
        BY DEF TypeOK
      <3>2. <<"violation", "submitted">> \in Seq(EventTypes)
        BY DEF EventTypes
      <3> QED
        BY <3>1, <3>2
    <2>5. events' \in [AttemptIds -> Seq(EventTypes)]
      BY <1>4, <2>4 DEF LadderSubmit, TypeOK
    <2>6. jobs' \subseteq Nat
      BY <1>4, <1>n, EnqueueType DEF LadderSubmit
    <2> QED
      BY <1>4, <2>3, <2>5, <2>6 DEF LadderSubmit, TypeOK
  <1>5. CASE Kick(a)
    <2>1. attempts' \in [AttemptIds -> Attempt]
      BY <1>5, <1>s, <1>k, EndedType DEF Kick, TypeOK
    <2>2. events' \in [AttemptIds -> Seq(EventTypes)]
      BY <1>5, LogType DEF Kick, TypeOK, EventTypes
    <2>3. jobs' \subseteq Nat
      BY <1>5, <1>n, EnqueueType DEF Kick
    <2>4. moderation' \in [AttemptIds -> Moderation]
      <3>1. [moderation[a] EXCEPT !.kicked = @ + 1] \in Moderation
        BY <1>m DEF Moderation
      <3> QED
        BY <1>5, <3>1 DEF Kick, TypeOK
    <2> QED
      BY <1>5, <2>1, <2>2, <2>3, <2>4 DEF Kick, TypeOK
  <1>6. CASE Readmit(a)
    <2>1. attempts' \in [AttemptIds -> Attempt]
      BY <1>6, <1>a DEF Readmit, TypeOK, Attempt
    <2>2. moderation' \in [AttemptIds -> Moderation]
      <3>1. [moderation[a] EXCEPT !.readmitted = @ + 1] \in Moderation
        BY <1>m DEF Moderation
      <3> QED
        BY <1>6, <3>1 DEF Readmit, TypeOK
    <2> QED
      BY <1>6, <2>1, <2>2 DEF Readmit, TypeOK
  <1>7. CASE OverrideScore(a)
    <2>1. attempts' \in [AttemptIds -> Attempt]
      BY <1>7, <1>a DEF OverrideScore, TypeOK, Attempt
    <2>2. moderation' \in [AttemptIds -> Moderation]
      <3>1. [moderation[a] EXCEPT !.overridden = @ + 1] \in Moderation
        BY <1>m DEF Moderation
      <3> QED
        BY <1>7, <3>1 DEF OverrideScore, TypeOK
    <2> QED
      BY <1>7, <2>1, <2>2 DEF OverrideScore, TypeOK
  <1> QED
    BY <1>1, <1>2, <1>3, <1>4, <1>5, <1>6, <1>7 DEF OnAttempt

\* Moving a pass on keeps it a pass.
LEMMA GoToType ==
  ASSUME TypeOK, NEW w \in Workers, NEW step \in PassSteps, GoTo(w, step)
  PROVE  pass' \in [Workers -> Pass]
  BY DEF TypeOK, GoTo, Pass

\* A best score is a score or none.
LEMMA BestScoreType == \A s : BestScore(s) \in {NoScore, 0, 1}
  BY DEF BestScore

\* The periodic job queues an instant.
LEMMA TypeSweep == TypeOK /\ PeriodicSweep => TypeOK'
  <1> SUFFICES ASSUME TypeOK, PeriodicSweep PROVE TypeOK'
    OBVIOUS
  <1>1. jobs' \subseteq Nat
    <2>1. now \in Nat /\ jobs \subseteq Nat
      BY Bounds DEF TypeOK, Time
    <2> QED
      BY <2>1, EnqueueType DEF PeriodicSweep
  <1> QED
    BY <1>1 DEF PeriodicSweep, TypeOK, attemptVars, workerVars

\* What the statements of a worker's pass write.
LEMMA TypeWorker ==
  ASSUME TypeOK, NEW w \in Workers, BeginPass(w) \/ PassStep(w) \/ FailPass(w)
  PROVE  TypeOK'
  <1> USE DEF attemptVars, workerVars
  <1>p. /\ pass[w] \in Pass
        /\ {"idle", "open", "sweep", "force", "list", "grade", "rollup", "read",
            "students", "insert"} \subseteq PassSteps
    BY DEF TypeOK, PassSteps
  <1>i. IdlePass \in Pass
    BY DEF IdlePass, Pass, PassSteps, NoScores, Scores
  <1>1. CASE BeginPass(w)
    <2>1. quiz' \in Quiz
      BY <1>1 DEF BeginPass, TypeOK, Quiz, QuizStatuses
    <2>2. pass' \in [Workers -> Pass]
      BY <1>1, <1>p, GoToType DEF BeginPass
    <2> QED
      BY <1>1, <2>1, <2>2 DEF BeginPass, TypeOK
  <1>2. CASE OpenDue(w)
    <2>1. quiz' \in Quiz
      BY <1>2 DEF OpenDue, TypeOK, Quiz, QuizStatuses
    <2>2. pass' \in [Workers -> Pass]
      BY <1>2, <1>p, GoToType DEF OpenDue
    <2> QED
      BY <1>2, <2>1, <2>2 DEF OpenDue, TypeOK
  <1>3. CASE SweepExpired(w)
    <2>1. now \in Time
      BY DEF TypeOK
    <2>2. [pass[w] EXCEPT !.at = "force", !.since = now,
             !.todo = {a \in AttemptIds : Expired(a)}] \in Pass
      BY <1>p, <2>1 DEF Pass
    <2>3. pass' \in [Workers -> Pass]
      BY <1>3, <2>2 DEF SweepExpired, TypeOK
    <2> QED
      BY <1>3, <2>3 DEF SweepExpired, TypeOK
  <1>12. CASE SweepForced(w)
    <2>1. attempts' \in [AttemptIds -> Attempt]
      <3> SUFFICES ASSUME NEW a \in AttemptIds PROVE attempts'[a] \in Attempt
        BY <1>12 DEF SweepForced
      <3>1. CASE SweepKind(w, a) = "none"
        BY <1>12, <3>1 DEF SweepForced, TypeOK
      <3>2. CASE SweepKind(w, a) # "none"
        <4>1. attempts'[a] = Ended(a, "submitted", SweepKind(w, a))
          BY <1>12, <3>2 DEF SweepForced
        <4>2. SweepKind(w, a) \in SubmitKinds /\ "submitted" \in AttemptStatuses
          BY <3>2 DEF SweepKind, SubmitKinds, AttemptStatuses, Terminated
        <4> QED
          BY <4>1, <4>2, EndedType
      <3> QED
        BY <3>1, <3>2
    <2>2. events' \in [AttemptIds -> Seq(EventTypes)]
      <3>1. \A a \in AttemptIds : Append(events[a], "submitted") \in Seq(EventTypes)
        BY DEF TypeOK, EventTypes
      <3> QED
        BY <1>12, <3>1 DEF SweepForced, TypeOK
    <2>3. [pass[w] EXCEPT !.at = "list", !.since = NoTime, !.todo = {}] \in Pass
      BY <1>p DEF Pass
    <2>4. pass' \in [Workers -> Pass]
      BY <1>12, <2>3 DEF SweepForced, TypeOK
    <2> QED
      BY <1>12, <2>1, <2>2, <2>4 DEF SweepForced, TypeOK
  <1>4. CASE ListUngraded(w)
    <2>1. Ungraded \subseteq AttemptIds
      BY DEF Ungraded
    <2>2. pass' \in [Workers -> Pass]
      BY <1>4, <1>p, <2>1 DEF ListUngraded, TypeOK, Pass
    <2> QED
      BY <1>4, <2>2 DEF ListUngraded, TypeOK
  <1>5. ASSUME NEW a \in AttemptIds, GradeOne(w, a) PROVE TypeOK'
    <2>1. attempts[a] \in Attempt
      BY DEF TypeOK
    <2>2. Graded(a) \in Attempt
      <3>1. Score(attempts[a].answer, snapshots[attempts[a].version].key) \in {0, 1}
        BY DEF Score
      <3> QED
        BY <2>1, <3>1 DEF Graded, Attempt, AttemptStatuses, Terminated
    <2>3. attempts' \in [AttemptIds -> Attempt]
      BY <1>5, <2>2 DEF GradeOne, TypeOK
    <2>4. events' \in [AttemptIds -> Seq(EventTypes)]
      BY <1>5, LogType DEF GradeOne, TypeOK, EventTypes
    <2>5. pass' \in [Workers -> Pass]
      BY <1>5, <1>p DEF GradeOne, TypeOK, Pass
    <2> QED
      BY <1>5, <2>3, <2>4, <2>5 DEF GradeOne, TypeOK
  <1>6. CASE ReleaseDue(w)
    <2>1. quiz' \in Quiz
      BY <1>6 DEF ReleaseDue, TypeOK, Quiz
    <2>2. pass' \in [Workers -> Pass]
      BY <1>6, <1>p, GoToType DEF ReleaseDue
    <2> QED
      BY <1>6, <2>1, <2>2 DEF ReleaseDue, TypeOK
  <1>7. CASE ListRollup(w)
    <2>1. pass' \in [Workers -> Pass]
      BY <1>7, <1>p, GoToType DEF ListRollup
    <2> QED
      BY <1>7, <2>1 DEF ListRollup, TypeOK
  <1>8. CASE ReadScores(w)
    <2>1. [s \in Students |-> BestScore(s)] \in Scores
      BY BestScoreType DEF Scores
    <2>2. pass' \in [Workers -> Pass]
      BY <1>8, <1>p, <2>1 DEF ReadScores, TypeOK, Pass
    <2> QED
      BY <1>8, <2>2 DEF ReadScores, TypeOK
  <1>9. CASE RollupStudents(w)
    <2>1. studentStats' \in Scores
      BY <1>9, BestScoreType DEF RollupStudents, TypeOK, Scores
    <2>2. {s \in Students : Rows(s) # {}} \subseteq Students
      OBVIOUS
    <2>3. pass' \in [Workers -> Pass]
      BY <1>9, <1>p, <2>2 DEF RollupStudents, TypeOK, Pass
    <2> QED
      BY <1>9, <2>1, <2>3 DEF RollupStudents, TypeOK
  <1>10. CASE InsertStats(w)
    <2>1. quizStats' \in Stats
      BY <1>10, <1>p DEF InsertStats, TypeOK, Stats, Pass
    <2>2. pass' \in [Workers -> Pass]
      BY <1>10, <1>i DEF InsertStats, TypeOK
    <2> QED
      BY <1>10, <2>1, <2>2 DEF InsertStats, TypeOK
  <1>11. CASE FailPass(w)
    <2>1. faults' \in 0 .. MaxFaults
      BY <1>11, Bounds DEF FailPass, TypeOK
    <2>2. pass' \in [Workers -> Pass]
      BY <1>11, <1>i DEF FailPass, TypeOK
    <2>3. jobs' \subseteq Nat
      <3>1. now \in Nat /\ jobs \subseteq Nat
        BY Bounds DEF TypeOK, Time
      <3> QED
        BY <1>11, <3>1, EnqueueType DEF FailPass
    <2> QED
      BY <1>11, <2>1, <2>2, <2>3 DEF FailPass, TypeOK
  <1> QED
    BY <1>1, <1>2, <1>3, <1>4, <1>5, <1>6, <1>7, <1>8, <1>9, <1>10, <1>11, <1>12
    DEF PassStep

\* Every step of the platform, and a stutter, keeps every type.
LEMMA TypeNext == TypeOK /\ [Next]_vars => TypeOK'
  <1> SUFFICES ASSUME TypeOK, [Next]_vars PROVE TypeOK'
    OBVIOUS
  <1>1. CASE UNCHANGED vars
    BY <1>1 DEF vars, TypeOK
  <1>2. CASE Next
    BY <1>2, TypeTick, TypeTeacher, TypeStarting, TypeOnAttempt, TypeSweep,
       TypeWorker
    DEF Next
  <1> QED
    BY <1>1, <1>2

\* Every variable keeps its type in every behaviour of the platform: no deadline
\* or window leaves the clock's range, no row, log, job or pass is malformed.
THEOREM TypeCorrect == Spec => []TypeOK
  <1>1. Init => TypeOK
    BY TypeInit
  <1>2. TypeOK /\ [Next]_vars => TypeOK'
    BY TypeNext
  <1> QED
    BY <1>1, <1>2, PTL DEF Spec
-----------------------------------------------------------------------------
(* What a step can do to one attempt row, to the snapshots and to a start. *)

\* The row of attempt a is left alone, opened by the Start under way, edited
\* while in progress, ended, graded, readmitted or zeroed.
RowOpens(a) ==
  /\ attempts[a].status = "none"
  /\ start[a[1]].open
  /\ attempts'[a].status = "in_progress"
  /\ attempts'[a].version = start[a[1]].version
  /\ ~attempts'[a].overridden

RowIsEdited(a) ==
  /\ InProgress(a)
  /\ attempts'[a].status = "in_progress"
  /\ attempts'[a].version = attempts[a].version
  /\ attempts'[a].overridden = attempts[a].overridden

RowEnds(a) ==
  /\ InProgress(a)
  /\ attempts'[a].status \in {"submitted", "kicked"}
  /\ attempts'[a].version = attempts[a].version
  /\ attempts'[a].overridden = attempts[a].overridden

RowIsGraded(a) ==
  /\ attempts[a].status \in {"submitted", "kicked"}
  /\ attempts'[a] = Graded(a)

RowIsReadmitted(a) ==
  /\ attempts[a].status = "kicked"
  /\ attempts'[a] = [attempts[a] EXCEPT !.readmitted = TRUE]

RowIsZeroed(a) ==
  /\ attempts[a].status = "graded"
  /\ attempts'[a] = [attempts[a] EXCEPT !.score = 0, !.overridden = TRUE]

RowStep(a) ==
  \/ attempts'[a] = attempts[a]
  \/ RowOpens(a)
  \/ RowIsEdited(a)
  \/ RowEnds(a)
  \/ RowIsGraded(a)
  \/ RowIsReadmitted(a)
  \/ RowIsZeroed(a)

\* A sweep ends attempts that are in progress, as 'auto' or as 'forced'.
LEMMA SweptInProgress ==
  ASSUME HeldInProgress, NEW w \in Workers, SweepForced(w), NEW a \in AttemptIds,
         SweepKind(w, a) # "none"
  PROVE  /\ InProgress(a)
         /\ SweepKind(w, a) \in {"auto", "forced"}
         /\ SweepKind(w, a) = "forced" => a \notin pass[w].todo /\ IsOver
  BY DEF HeldInProgress, SweepForced, SweepKind, At

\* No step does anything else to a row.
LEMMA RowSteps ==
  ASSUME TypeOK, HeldInProgress, [Next]_vars, NEW a \in AttemptIds
  PROVE  RowStep(a)
  <1>a. attempts \in [AttemptIds -> Attempt] /\ attempts[a] \in Attempt
    BY DEF TypeOK
  <1>1. CASE UNCHANGED attempts
    BY <1>1 DEF RowStep
  <1>2. CASE Extend
    <2>1. attempts'[a].status = attempts[a].status
          /\ attempts'[a].version = attempts[a].version
          /\ attempts'[a].overridden = attempts[a].overridden
          /\ (InProgress(a) \/ attempts'[a] = attempts[a])
      BY <1>2, <1>a DEF Extend, Attempt
    <2> QED
      BY <2>1 DEF RowStep, RowIsEdited, InProgress
  <1>3. ASSUME NEW s \in Students, StartInsert(s) PROVE RowStep(a)
    <2> PICK n \in (1 .. MaxAttemptNo) \ Rows(s) :
          attempts' = [attempts EXCEPT ![<<s, n>>] =
               [NoAttempt EXCEPT !.status = "in_progress",
                  !.version = start[s].version, !.startedAt = start[s].now,
                  !.deadline = Deadline(start[s])]]
      BY <1>3 DEF StartInsert
    <2>1. CASE a = <<s, n>>
      <3>1. attempts[a].status = "none"
        BY <2>1 DEF Rows
      <3>2. attempts'[a].status = "in_progress"
            /\ attempts'[a].version = start[s].version
            /\ ~attempts'[a].overridden
        BY <1>a, <2>1 DEF NoAttempt
      <3>3. a[1] = s /\ start[s].open
        BY <1>3, <2>1 DEF StartInsert
      <3> QED
        BY <3>1, <3>2, <3>3 DEF RowStep, RowOpens
    <2>2. CASE a # <<s, n>>
      BY <1>a, <2>2 DEF RowStep
    <2> QED
      BY <2>1, <2>2
  <1>4. ASSUME NEW b \in AttemptIds, OnAttempt(b) PROVE RowStep(a)
    <2>1. CASE a # b
      <3>1. attempts'[a] = attempts[a]
        <4>1. CASE SaveAnswer(b) \/ SubmitManual(b)
          BY <1>a, <2>1, <4>1 DEF SaveAnswer, SubmitManual
        <4>2. CASE RecordViolation(b) \/ LadderSubmit(b)
          BY <1>a, <2>1, <4>2 DEF RecordViolation, LadderSubmit
        <4>3. CASE Kick(b) \/ Readmit(b) \/ OverrideScore(b)
          BY <1>a, <2>1, <4>3 DEF Kick, Readmit, OverrideScore
        <4> QED
          BY <1>4, <4>1, <4>2, <4>3 DEF OnAttempt
      <3> QED
        BY <3>1 DEF RowStep
    <2>2. CASE a = b /\ (SaveAnswer(b) \/ RecordViolation(b))
      <3>1. InProgress(a) /\ attempts'[a].status = attempts[a].status
            /\ attempts'[a].version = attempts[a].version
            /\ attempts'[a].overridden = attempts[a].overridden
        BY <1>a, <2>2
        DEF SaveAnswer, Writable, RecordViolation, Reportable, Attempt
      <3> QED
        BY <3>1 DEF RowStep, RowIsEdited, InProgress
    <2>3. CASE a = b /\ (SubmitManual(b) \/ LadderSubmit(b) \/ Kick(b))
      <3>1. InProgress(a)
            /\ attempts'[a].status \in {"submitted", "kicked"}
            /\ attempts'[a].version = attempts[a].version
            /\ attempts'[a].overridden = attempts[a].overridden
        <4>1. CASE SubmitManual(b)
          BY <1>a, <2>3, <4>1 DEF SubmitManual, Writable, Ended, Attempt
        <4>2. CASE LadderSubmit(b)
          <5>1. attempts'[a] =
                  [Ended(a, "submitted", "auto") EXCEPT !.violations = Tally(a)]
            BY <1>a, <2>3, <4>2 DEF LadderSubmit
          <5>2. Ended(a, "submitted", "auto") \in Attempt
            BY <1>a, EndedType DEF AttemptStatuses, Terminated, SubmitKinds
          <5>3. attempts'[a].status = Ended(a, "submitted", "auto").status
                /\ attempts'[a].version = Ended(a, "submitted", "auto").version
                /\ attempts'[a].overridden = Ended(a, "submitted", "auto").overridden
            BY <5>1, <5>2 DEF Attempt
          <5> QED
            BY <1>a, <2>3, <4>2, <5>3 DEF LadderSubmit, Reportable, Ended, Attempt
        <4>3. CASE Kick(b)
          BY <1>a, <2>3, <4>3 DEF Kick, Ended, Attempt
        <4> QED
          BY <2>3, <4>1, <4>2, <4>3
      <3> QED
        BY <3>1 DEF RowStep, RowEnds
    <2>4. CASE a = b /\ Readmit(b)
      BY <1>a, <2>4 DEF Readmit, Readmittable, RowStep, RowIsReadmitted
    <2>5. CASE a = b /\ OverrideScore(b)
      BY <1>a, <2>5 DEF OverrideScore, RowStep, RowIsZeroed, Attempt
    <2> QED
      BY <1>4, <2>1, <2>2, <2>3, <2>4, <2>5 DEF OnAttempt
  <1>5. ASSUME NEW w \in Workers, SweepForced(w) PROVE RowStep(a)
    <2>1. CASE SweepKind(w, a) = "none"
      BY <1>5, <2>1 DEF SweepForced, RowStep
    <2>2. CASE SweepKind(w, a) # "none"
      <3>1. InProgress(a)
        BY <1>5, <2>2, SweptInProgress
      <3>2. attempts'[a] = Ended(a, "submitted", SweepKind(w, a))
        BY <1>5, <2>2 DEF SweepForced
      <3>3. attempts'[a].status = "submitted"
            /\ attempts'[a].version = attempts[a].version
            /\ attempts'[a].overridden = attempts[a].overridden
        BY <1>a, <3>2 DEF Ended, Attempt
      <3> QED
        BY <3>1, <3>3 DEF RowStep, RowEnds
    <2> QED
      BY <2>1, <2>2
  <1>6. ASSUME NEW w \in Workers, NEW b \in AttemptIds, GradeOne(w, b)
        PROVE  RowStep(a)
    <2>1. CASE attempts'[a] = attempts[a]
      BY <2>1 DEF RowStep
    <2>2. CASE attempts'[a] # attempts[a]
      <3>1. a = b /\ b \in Ungraded /\ attempts'[a] = Graded(a)
        BY <1>6, <1>a, <2>2 DEF GradeOne
      <3> QED
        BY <3>1 DEF Ungraded, RowStep, RowIsGraded
    <2> QED
      BY <2>1, <2>2
  <1>7. CASE UNCHANGED vars
    BY <1>1, <1>7 DEF vars
  <1>8. CASE Tick \/ PeriodicSweep
    BY <1>1, <1>8 DEF Tick, PeriodicSweep, attemptVars
  <1>9. CASE TeacherOnQuiz
    BY <1>1, <1>2, <1>9
    DEF TeacherOnQuiz, AuthorQuestions, Publish, Cancel, ForceClose, Archive,
        ReleaseResults, SetAssignments, attemptVars
  <1>10. ASSUME NEW s \in Students, Starting(s) PROVE RowStep(a)
    BY <1>1, <1>3, <1>10 DEF Starting, StartRead, StartEnd, attemptVars
  <1>11. ASSUME NEW w \in Workers, BeginPass(w) \/ PassStep(w) \/ FailPass(w)
         PROVE  RowStep(a)
    BY <1>1, <1>5, <1>6, <1>11
    DEF PassStep, BeginPass, FailPass, OpenDue, ListUngraded, ReleaseDue,
        ListRollup, ReadScores, RollupStudents, InsertStats, SweepExpired,
        attemptVars
  <1> QED
    BY <1>4, <1>7, <1>8, <1>9, <1>10, <1>11 DEF Next

\* A row that a sweep holds stays in progress until that sweep commits.
LEMMA HeldRowsWait ==
  ASSUME TypeOK, HeldInProgress, [Next]_vars, NEW w \in Workers, At(w, "force"),
         NEW a \in pass[w].todo, ~SweepForced(w)
  PROVE  attempts'[a].status = "in_progress"
  <1>t. /\ a \in AttemptIds /\ attempts[a] \in Attempt
        /\ attempts \in [AttemptIds -> Attempt]
    <2>1. pass[w] \in Pass
      BY DEF TypeOK
    <2> QED
      BY <2>1 DEF TypeOK, Pass
  <1>h. InProgress(a) /\ Held(a)
    BY DEF HeldInProgress, Held, At
  <1>1. CASE RowStep(a) /\ ~RowEnds(a)
    BY <1>t, <1>h, <1>1
    DEF RowStep, RowOpens, RowIsEdited, RowIsGraded, RowIsReadmitted, RowIsZeroed,
        InProgress
  <1>2. CASE UNCHANGED attempts
    BY <1>h, <1>2 DEF InProgress
  <1>3. CASE Extend
    BY <1>h, <1>t, <1>3 DEF Extend
  <1>4. ASSUME NEW s \in Students, StartInsert(s)
        PROVE  attempts'[a].status = "in_progress"
    <2> PICK n \in (1 .. MaxAttemptNo) \ Rows(s) :
          attempts' = [attempts EXCEPT ![<<s, n>>] =
               [NoAttempt EXCEPT !.status = "in_progress",
                  !.version = start[s].version, !.startedAt = start[s].now,
                  !.deadline = Deadline(start[s])]]
      BY <1>4 DEF StartInsert
    <2>1. CASE a = <<s, n>>
      BY <1>h, <2>1 DEF Rows, InProgress
    <2>2. CASE a # <<s, n>>
      BY <1>h, <1>t, <2>2 DEF InProgress
    <2> QED
      BY <2>1, <2>2
  <1>5. ASSUME NEW b \in AttemptIds, OnAttempt(b)
        PROVE  attempts'[a].status = "in_progress"
    <2>1. CASE a # b
      <3>1. CASE SaveAnswer(b) \/ SubmitManual(b)
        BY <1>h, <1>t, <2>1, <3>1 DEF SaveAnswer, SubmitManual, InProgress
      <3>2. CASE RecordViolation(b) \/ LadderSubmit(b)
        BY <1>h, <1>t, <2>1, <3>2 DEF RecordViolation, LadderSubmit, InProgress
      <3>3. CASE Kick(b) \/ Readmit(b) \/ OverrideScore(b)
        BY <1>h, <1>t, <2>1, <3>3 DEF Kick, Readmit, OverrideScore, InProgress
      <3> QED
        BY <1>5, <3>1, <3>2, <3>3 DEF OnAttempt
    <2>2. CASE a = b
      BY <1>h, <1>t, <1>5, <2>2
      DEF OnAttempt, SaveAnswer, SubmitManual, RecordViolation, LadderSubmit, Kick,
          Reportable, Readmit, Readmittable, OverrideScore, InProgress
    <2> QED
      BY <2>1, <2>2
  <1>6. ASSUME NEW v \in Workers, SweepForced(v)
        PROVE  attempts'[a].status = "in_progress"
    <2>1. At(v, "force") /\ v # w
      BY <1>6 DEF SweepForced
    <2>2. a \notin pass[v].todo
      BY <2>1 DEF HeldInProgress
    <2>3. SweepKind(v, a) = "none"
      BY <1>6, <1>h, <1>t, <2>2 DEF SweepForced, SweepKind
    <2> QED
      BY <1>6, <1>h, <1>t, <2>3 DEF SweepForced, InProgress
  <1>7. ASSUME NEW v \in Workers, NEW b \in AttemptIds, GradeOne(v, b)
        PROVE  attempts'[a].status = "in_progress"
    <2>1. CASE b \in Ungraded
      <3>1. attempts' = [attempts EXCEPT ![b] = Graded(b)]
        BY <1>7, <2>1 DEF GradeOne
      <3>2. a # b
        BY <1>h, <2>1 DEF Ungraded, InProgress
      <3> QED
        BY <1>h, <1>t, <3>1, <3>2 DEF InProgress
    <2>2. CASE b \notin Ungraded
      BY <1>h, <1>7, <2>2 DEF GradeOne, InProgress
    <2> QED
      BY <2>1, <2>2
  <1>8. CASE TeacherOnQuiz
    BY <1>2, <1>3, <1>8
    DEF TeacherOnQuiz, AuthorQuestions, Publish, Cancel, ForceClose, Archive,
        ReleaseResults, SetAssignments, attemptVars
  <1>9. ASSUME NEW s \in Students, Starting(s)
        PROVE  attempts'[a].status = "in_progress"
    BY <1>2, <1>4, <1>9 DEF Starting, StartRead, StartEnd, attemptVars
  <1>10. ASSUME NEW v \in Workers, BeginPass(v) \/ PassStep(v) \/ FailPass(v)
         PROVE  attempts'[a].status = "in_progress"
    BY <1>2, <1>6, <1>7, <1>10
    DEF PassStep, BeginPass, FailPass, OpenDue, ListUngraded, ReleaseDue, ListRollup,
        ReadScores, RollupStudents, InsertStats, SweepExpired, attemptVars
  <1>11. CASE Tick \/ PeriodicSweep \/ UNCHANGED vars
    BY <1>2, <1>11 DEF Tick, PeriodicSweep, attemptVars, vars
  <1> QED
    BY <1>5, <1>8, <1>9, <1>10, <1>11 DEF Next

\* A pass comes to hold rows with the first statement of its own sweep only.
LEMMA PassesHold ==
  ASSUME TypeOK, [Next]_vars, NEW w \in Workers, At(w, "force")'
  PROVE  pass'[w] = pass[w] \/ SweepExpired(w)
  <1>t. pass \in [Workers -> Pass] /\ pass[w] \in Pass
    BY DEF TypeOK
  <1>1. CASE UNCHANGED pass
    BY <1>1
  <1>2. ASSUME NEW v \in Workers, BeginPass(v) \/ PassStep(v) \/ FailPass(v)
        PROVE  pass'[w] = pass[w] \/ SweepExpired(w)
    <2>1. CASE v # w
      BY <1>t, <1>2, <2>1
      DEF PassStep, BeginPass, FailPass, OpenDue, SweepExpired, SweepForced,
          ListUngraded, GradeOne, ReleaseDue, ListRollup, ReadScores,
          RollupStudents, InsertStats, GoTo
    <2>2. CASE v = w
      <3>1. CASE BeginPass(w) \/ OpenDue(w) \/ ReleaseDue(w) \/ ListRollup(w)
        BY <1>t, <3>1 DEF BeginPass, OpenDue, ReleaseDue, ListRollup, GoTo, At, Pass
      <3>2. CASE FailPass(w) \/ InsertStats(w)
        BY <1>t, <3>2 DEF FailPass, InsertStats, IdlePass, At
      <3>3. CASE SweepForced(w) \/ ListUngraded(w)
        BY <1>t, <3>3 DEF SweepForced, ListUngraded, At, Pass
      <3>4. CASE ReadScores(w) \/ RollupStudents(w)
        BY <1>t, <3>4 DEF ReadScores, RollupStudents, At, Pass
      <3>5. ASSUME NEW b \in AttemptIds, GradeOne(w, b)
            PROVE  pass'[w] = pass[w]
        BY <1>t, <3>5 DEF GradeOne, At, Pass
      <3> QED
        BY <1>2, <2>2, <3>1, <3>2, <3>3, <3>4, <3>5 DEF PassStep
    <2> QED
      BY <2>1, <2>2
  <1>3. UNCHANGED pass \/ \E v \in Workers : BeginPass(v) \/ PassStep(v) \/ FailPass(v)
    BY DEF Next, vars, workerVars, Tick, PeriodicSweep, TeacherOnQuiz,
      AuthorQuestions, Publish, Cancel, ForceClose, Extend, Archive, ReleaseResults,
      SetAssignments, Starting, StartRead, StartInsert, StartEnd, OnAttempt,
      SaveAnswer, SubmitManual, RecordViolation, LadderSubmit, Kick, Readmit,
      OverrideScore
  <1> QED
    BY <1>1, <1>2, <1>3

\* What a sweep holds stays in progress and its own.
LEMMA HeldStays ==
  ASSUME TypeOK, HeldInProgress, [Next]_vars
  PROVE  HeldInProgress'
  <1> SUFFICES
        ASSUME NEW w \in Workers, At(w, "force")', NEW a \in pass'[w].todo
        PROVE  /\ attempts'[a].status = "in_progress"
               /\ \A v \in Workers : At(v, "force")' /\ a \in pass'[v].todo => v = w
    BY DEF HeldInProgress, InProgress
  <1>t. pass \in [Workers -> Pass]
    BY DEF TypeOK
  <1>1. CASE SweepExpired(w)
    <2>1. a \in AttemptIds /\ Expired(a) /\ ~Held(a) /\ attempts' = attempts
      BY <1>t, <1>1 DEF SweepExpired, attemptVars, Pass
    <2>2. \A v \in Workers \ {w} : pass'[v] = pass[v]
      BY <1>t, <1>1 DEF SweepExpired
    <2> QED
      BY <2>1, <2>2 DEF Expired, InProgress, Held, At
  <1>2. CASE pass'[w] = pass[w]
    <2>1. At(w, "force") /\ a \in pass[w].todo
      BY <1>2 DEF At
    <2>2. ~SweepForced(w)
      BY <1>2, <1>t, <2>1 DEF SweepForced, At, Pass
    <2>3. attempts'[a].status = "in_progress"
      BY <2>1, <2>2, HeldRowsWait
    <2>4. ASSUME NEW v \in Workers, At(v, "force")', a \in pass'[v].todo
          PROVE  v = w
      <3>1. CASE pass'[v] = pass[v]
        BY <2>1, <2>4, <3>1 DEF HeldInProgress, At
      <3>2. CASE SweepExpired(v) /\ v # w
        BY <1>t, <2>1, <2>4, <3>2 DEF SweepExpired, Held, At, Pass
      <3> QED
        BY <2>4, <3>1, <3>2, PassesHold
    <2> QED
      BY <2>3, <2>4
  <1> QED
    BY <1>1, <1>2, PassesHold

\* quiz_versions is append-only: what a version says never changes.
LEMMA SnapshotsGrow ==
  ASSUME TypeOK, [Next]_vars
  PROVE  /\ Version \in Nat
         /\ Version' \in Nat
         /\ Version <= Version'
         /\ \A v \in 1 .. Version : snapshots'[v] = snapshots[v]
  <1>s. snapshots \in Seq(Snapshot)
    BY DEF TypeOK
  <1>1. CASE UNCHANGED snapshots
    BY <1>s, <1>1 DEF Version
  <1>2. CASE Publish
    <2> PICK g \in Guardrails : snapshots' = Snapshotted(g)
      BY <1>2 DEF Publish
    <2> QED
      BY <1>s DEF Snapshotted, Version
  <1>3. UNCHANGED snapshots \/ Publish
    BY DEF Next, vars, Tick, PeriodicSweep, TeacherOnQuiz, AuthorQuestions,
      Cancel, ForceClose, Extend, Archive, ReleaseResults, SetAssignments,
      Starting, StartRead, StartInsert, StartEnd, OnAttempt, SaveAnswer,
      SubmitManual, RecordViolation, LadderSubmit, Kick, Readmit, OverrideScore,
      PassStep, BeginPass, FailPass, OpenDue, SweepExpired, SweepForced, ListUngraded,
      GradeOne, ReleaseDue, ListRollup, ReadScores, RollupStudents, InsertStats
  <1> QED
    BY <1>1, <1>2, <1>3

\* At first no pass runs and there is no attempt.
LEMMA HeldInit == Init => HeldInProgress
  BY DEF Init, IdlePass, HeldInProgress, At

\* And nothing is pinned, graded or zeroed.
LEMMA GradedInit == Init => VersionsExist /\ ZeroedAreGraded /\ GradedAgainstPinned
  <1> SUFFICES ASSUME Init
               PROVE  VersionsExist /\ ZeroedAreGraded /\ GradedAgainstPinned
    OBVIOUS
  <1>1. quiz.status = "draft"
    BY DEF Init
  <1>2. \A a \in AttemptIds :
          attempts[a].status = "none" /\ ~attempts[a].overridden
    BY DEF Init, NoAttempt
  <1>3. \A s \in Students : ~start[s].open
    BY DEF Init, NoStart
  <1> QED
    BY <1>1, <1>2, <1>3 DEF VersionsExist, ZeroedAreGraded, GradedAgainstPinned

\* A quiz that is no draft was none before, or is being published.
LEMMA LeavingDraft ==
  ASSUME TypeOK, [Next]_vars, quiz'.status # "draft"
  PROVE  quiz.status # "draft" \/ Publish
  <1>1. CASE UNCHANGED quiz
    BY <1>1
  <1>2. CASE TeacherOnQuiz
    <2>q. quiz \in Quiz
      BY DEF TypeOK
    <2>1. CASE AuthorQuestions \/ Cancel
      BY <2>q, <2>1 DEF AuthorQuestions, Cancel, Cancellable, Quiz
    <2>2. CASE ForceClose \/ Archive
      BY <2>2 DEF ForceClose, Closable, Archive
    <2>3. CASE Extend \/ ReleaseResults
      BY <2>3 DEF Extend, Extendable, ReleaseResults, EffectiveStatus
    <2>4. CASE SetAssignments
      BY <2>4 DEF SetAssignments
    <2> QED
      BY <1>2, <2>1, <2>2, <2>3, <2>4 DEF TeacherOnQuiz
  <1>3. ASSUME NEW w \in Workers, BeginPass(w) \/ OpenDue(w)
        PROVE  quiz.status # "draft"
    BY <1>3 DEF TypeOK, Quiz, BeginPass, OpenDue
  <1>4. ASSUME NEW w \in Workers, ReleaseDue(w) PROVE quiz.status # "draft"
    BY <1>4 DEF TypeOK, Quiz, ReleaseDue, IsOver
  <1>5. \/ UNCHANGED quiz
        \/ TeacherOnQuiz
        \/ \E w \in Workers : BeginPass(w) \/ OpenDue(w) \/ ReleaseDue(w)
    BY DEF Next, vars, Tick, PeriodicSweep, Starting, StartRead, StartInsert,
      StartEnd, OnAttempt, SaveAnswer, SubmitManual, RecordViolation, LadderSubmit,
      Kick, Readmit, OverrideScore, PassStep, FailPass, SweepExpired, SweepForced,
      ListUngraded, GradeOne, ListRollup, ReadScores, RollupStudents, InsertStats
  <1> QED
    BY <1>1, <1>2, <1>3, <1>4, <1>5

\* A Start under way read the version current when it began.
LEMMA StartSteps ==
  ASSUME TypeOK, [Next]_vars, NEW s \in Students, start'[s].open
  PROVE  \/ start'[s] = start[s]
         \/ quiz.status \in {"scheduled", "live"} /\ start'[s].version = Version
  <1>1. CASE UNCHANGED start
    BY <1>1
  <1>2. ASSUME NEW r \in Students, Starting(r)
        PROVE  \/ start'[s] = start[s]
               \/ /\ quiz.status \in {"scheduled", "live"}
                  /\ start'[s].version = Version
    BY <1>2 DEF TypeOK, Starting, StartRead, StartInsert, StartEnd, NoStart
  <1>3. UNCHANGED start \/ \E r \in Students : Starting(r)
    BY DEF Next, vars, Tick, PeriodicSweep, TeacherOnQuiz, AuthorQuestions, Publish,
      Cancel, ForceClose, Extend, Archive, ReleaseResults, SetAssignments,
      OnAttempt, SaveAnswer, SubmitManual, RecordViolation, LadderSubmit, Kick,
      Readmit, OverrideScore, PassStep, BeginPass, FailPass, OpenDue,
      SweepExpired, SweepForced, ListUngraded, GradeOne, ReleaseDue, ListRollup, ReadScores,
      RollupStudents, InsertStats
  <1> QED
    BY <1>1, <1>2, <1>3

\* No step leaves an attempt, or a Start under way, without its snapshot: the
\* version a Start has read is still there when it writes.
LEMMA VersionsStayThere ==
  ASSUME TypeOK, HeldInProgress, VersionsExist, [Next]_vars
  PROVE  VersionsExist'
  <1>v. Version \in Nat /\ Version' \in Nat /\ Version <= Version'
    BY SnapshotsGrow
  <1>1. (quiz.status # "draft" => Version >= 1)'
    <2> SUFFICES ASSUME quiz'.status # "draft" PROVE Version' >= 1
      OBVIOUS
    <2>1. CASE quiz.status # "draft"
      BY <1>v, <2>1 DEF VersionsExist
    <2>2. CASE Publish
      <3> PICK g \in Guardrails : snapshots' = Snapshotted(g)
        BY <2>2 DEF Publish
      <3> QED
        BY DEF TypeOK, Snapshotted, Version
    <2> QED
      BY <2>1, <2>2, LeavingDraft
  <1>2. ASSUME NEW a \in AttemptIds, attempts'[a].status # "none"
        PROVE  attempts'[a].version \in 1 .. Version'
    <2>1. CASE RowOpens(a)
      <3>1. a[1] \in Students
        BY DEF AttemptIds
      <3> QED
        BY <1>v, <2>1, <3>1 DEF RowOpens, VersionsExist
    <2>2. CASE ~RowOpens(a)
      <3>1. attempts[a].status # "none" /\ attempts'[a].version = attempts[a].version
        <4>1. attempts[a] \in Attempt
          BY DEF TypeOK
        <4> QED
          BY <1>2, <2>2, <4>1, RowSteps
          DEF RowStep, RowIsEdited, RowEnds, RowIsGraded, RowIsReadmitted,
              RowIsZeroed, InProgress, Graded, Attempt
      <3> QED
        BY <1>v, <3>1 DEF VersionsExist
    <2> QED
      BY <2>1, <2>2
  <1>3. ASSUME NEW s \in Students, start'[s].open
        PROVE  start'[s].version \in 1 .. Version'
    <2>1. CASE start'[s] = start[s]
      BY <1>v, <1>3, <2>1 DEF VersionsExist
    <2>2. CASE quiz.status \in {"scheduled", "live"} /\ start'[s].version = Version
      BY <1>v, <2>2 DEF VersionsExist
    <2> QED
      BY <1>3, <2>1, <2>2, StartSteps
  <1> QED
    BY <1>1, <1>2, <1>3 DEF VersionsExist

\* No step separates a score from the pinned key and the final answer.
LEMMA GradesStay ==
  ASSUME IInv, [Next]_vars
  PROVE  ZeroedAreGraded' /\ GradedAgainstPinned'
  <1> USE DEF IInv
  <1> SUFFICES
        ASSUME NEW a \in AttemptIds
        PROVE  /\ attempts'[a].overridden => attempts'[a].status = "graded"
               /\ attempts'[a].status = "graded" =>
                    attempts'[a].score = IF attempts'[a].overridden THEN 0
                      ELSE Score(attempts'[a].answer,
                                 snapshots'[attempts'[a].version].key)
    BY DEF ZeroedAreGraded, GradedAgainstPinned
  <1>a. attempts[a] \in Attempt
    BY DEF TypeOK
  <1>h. /\ attempts[a].overridden => attempts[a].status = "graded"
        /\ attempts[a].status = "graded" =>
             attempts[a].score = IF attempts[a].overridden THEN 0
               ELSE Score(attempts[a].answer, snapshots[attempts[a].version].key)
    BY DEF ZeroedAreGraded, GradedAgainstPinned
  <1>s. attempts[a].status # "none" =>
          snapshots'[attempts[a].version] = snapshots[attempts[a].version]
    BY SnapshotsGrow DEF VersionsExist
  <1>1. CASE attempts'[a] = attempts[a]
    BY <1>h, <1>s, <1>1
  <1>2. CASE RowOpens(a) \/ RowIsEdited(a) \/ RowEnds(a)
    BY <1>h, <1>2 DEF RowOpens, RowIsEdited, RowEnds, InProgress
  <1>3. CASE RowIsGraded(a)
    BY <1>a, <1>h, <1>s, <1>3 DEF RowIsGraded, Graded, Attempt
  <1>4. CASE RowIsReadmitted(a)
    BY <1>a, <1>h, <1>4 DEF RowIsReadmitted, Attempt
  <1>5. CASE RowIsZeroed(a)
    BY <1>a, <1>5 DEF RowIsZeroed, Attempt
  <1> QED
    BY <1>1, <1>2, <1>3, <1>4, <1>5, RowSteps DEF RowStep

\* The inductive invariant holds in every behaviour.
THEOREM Inductive == Spec => []IInv
  <1>1. Init => IInv
    BY TypeInit, HeldInit, GradedInit DEF IInv
  <1>2. IInv /\ [Next]_vars => IInv'
    BY TypeNext, HeldStays, VersionsStayThere, GradesStay DEF IInv
  <1> QED
    BY <1>1, <1>2, PTL DEF Spec

\* Whatever is republished, cancelled, extended or graded twice, every score is
\* what the pinned key makes of the final answer, or a zero a moderator gave.
THEOREM GradesArePinned == Spec => []GradedAgainstPinned
  <1>1. IInv => GradedAgainstPinned
    BY DEF IInv
  <1> QED
    BY <1>1, Inductive, PTL

\* Every attempt and every Start under way is pinned to a snapshot that exists.
THEOREM VersionsAlwaysExist == Spec => []VersionsExist
  <1>1. IInv => VersionsExist
    BY DEF IInv
  <1> QED
    BY <1>1, Inductive, PTL

\* No step changes what was answered in an attempt that has ended, or how it
\* ended, and a zeroed score stays zero.
THEOREM EndedAttemptsAreImmutable == Spec => TerminatedIsImmutable
  <1> DEFINE P == \A a \in AttemptIds :
                    attempts[a].status \in Terminated => Kept(a)
  <1>1. IInv /\ [Next]_vars => [P]_vars
    <2> SUFFICES ASSUME IInv, [Next]_vars,
                        NEW a \in AttemptIds, attempts[a].status \in Terminated
                 PROVE  Kept(a)
      OBVIOUS
    <2>a. attempts[a] \in Attempt
      BY DEF IInv, TypeOK
    <2>h. /\ attempts[a].overridden =>
              attempts[a].status = "graded" /\ attempts[a].score = 0
      BY DEF IInv, ZeroedAreGraded, GradedAgainstPinned
    <2>r. RowStep(a)
      BY RowSteps DEF IInv
    <2>1. CASE attempts'[a] = attempts[a]
      BY <2>h, <2>1 DEF Kept
    <2>2. ~ (RowOpens(a) \/ RowIsEdited(a) \/ RowEnds(a))
      BY DEF RowOpens, RowIsEdited, RowEnds, InProgress, Terminated
    <2>3. CASE RowIsGraded(a)
      BY <2>a, <2>h, <2>3 DEF RowIsGraded, Graded, Kept, Attempt
    <2>4. CASE RowIsReadmitted(a)
      BY <2>a, <2>h, <2>4 DEF RowIsReadmitted, Kept, Attempt
    <2>5. CASE RowIsZeroed(a)
      BY <2>a, <2>5 DEF RowIsZeroed, Kept, Attempt
    <2> QED
      BY <2>r, <2>1, <2>2, <2>3, <2>4, <2>5 DEF RowStep
  <1>2. Spec => [][P]_vars
    BY <1>1, Inductive, PTL DEF Spec
  <1> QED
    BY <1>2 DEF TerminatedIsImmutable
=============================================================================
