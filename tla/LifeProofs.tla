----------------------------- MODULE LifeProofs -----------------------------
(***************************************************************************)
(* Theorems about the lives of attempts and of their quiz.                 *)
(*                                                                         *)
(* An attempt: its log, its moderation rows, the budget it is charged to,  *)
(* its grading, and the contract of module AttemptContract.  They rest on  *)
(* one lemma, LifeSteps, which says what a step of the platform can do to  *)
(* one attempt.                                                            *)
(*                                                                         *)
(* A quiz: its outcomes are final, the job that closes it is queued, and   *)
(* its window and audience hold for the attempts begun in it as long as no *)
(* teacher reschedules it after it opened.  They rest on QuizSteps, which  *)
(* says what a step can do to the quiz row.                                *)
(***************************************************************************)
EXTENDS MacQuizProofs, FiniteSetTheorems

\* What a step can do to the row, the log and the moderation rows of attempt a.
LeftAlone(a) ==
  /\ attempts'[a] = attempts[a]
  /\ events'[a] = events[a]
  /\ moderation'[a] = moderation[a]

Opens(a) ==
  /\ attempts[a].status = "none"
  /\ StartInsert(a[1])
  /\ attempts'[a] =
       [NoAttempt EXCEPT !.status = "in_progress",
          !.version = start[a[1]].version, !.startedAt = start[a[1]].now,
          !.deadline = Deadline(start[a[1]])]
  /\ events'[a] = Append(events[a], "started")
  /\ moderation'[a] = moderation[a]

IsExtended(a) ==
  /\ InProgress(a)
  /\ Extend
  /\ attempts'[a] =
       [attempts[a] EXCEPT
          !.deadline = Least(attempts[a].startedAt + quiz.duration, quiz'.endsAt)]
  /\ events'[a] = events[a]
  /\ moderation'[a] = moderation[a]

Saves(a) ==
  /\ InProgress(a)
  /\ \E r \in Responses \ {"no row"} :
       attempts'[a] = [attempts[a] EXCEPT !.answer = r]
  /\ events'[a] = Append(events[a], "progress")
  /\ moderation'[a] = moderation[a]

Reports(a) ==
  /\ InProgress(a)
  /\ attempts'[a] = [attempts[a] EXCEPT !.violations = Tally(a)]
  /\ events'[a] = Append(events[a], "violation")
  /\ moderation'[a] = moderation[a]

Submits(a) ==
  /\ InProgress(a)
  /\ \E kind \in {"manual", "auto", "forced"} :
       /\ attempts'[a] = Ended(a, "submitted", kind)
       /\ kind = "forced" =>
            IsOver /\ \E w \in Workers : At(w, "force") /\ a \notin pass[w].todo
  /\ events'[a] = Append(events[a], "submitted")
  /\ moderation'[a] = moderation[a]

IsLaddered(a) ==
  /\ InProgress(a)
  /\ attempts'[a] = [Ended(a, "submitted", "auto") EXCEPT !.violations = Tally(a)]
  /\ events'[a] = events[a] \o <<"violation", "submitted">>
  /\ moderation'[a] = moderation[a]

IsKicked(a) ==
  /\ InProgress(a)
  /\ attempts'[a] = Ended(a, "kicked", "kicked")
  /\ events'[a] = Append(events[a], "kicked")
  /\ moderation'[a] = [moderation[a] EXCEPT !.kicked = @ + 1]

IsGraded(a) ==
  /\ a \in Ungraded
  /\ attempts'[a] = Graded(a)
  /\ events'[a] = Append(events[a], "graded")
  /\ moderation'[a] = moderation[a]

IsReadmitted(a) ==
  /\ Readmittable(a)
  /\ attempts'[a] = [attempts[a] EXCEPT !.readmitted = TRUE]
  /\ events'[a] = events[a]
  /\ moderation'[a] = [moderation[a] EXCEPT !.readmitted = @ + 1]

IsZeroed(a) ==
  /\ attempts[a].kind = "kicked"
  /\ attempts[a].status = "graded"
  /\ ~attempts[a].overridden
  /\ attempts'[a] = [attempts[a] EXCEPT !.score = 0, !.overridden = TRUE]
  /\ events'[a] = events[a]
  /\ moderation'[a] = [moderation[a] EXCEPT !.overridden = @ + 1]

LifeStep(a) ==
  \/ LeftAlone(a)
  \/ Opens(a)
  \/ IsExtended(a)
  \/ Saves(a)
  \/ Reports(a)
  \/ Submits(a)
  \/ IsLaddered(a)
  \/ IsKicked(a)
  \/ IsGraded(a)
  \/ IsReadmitted(a)
  \/ IsZeroed(a)

\* No step does anything else to an attempt.
LEMMA LifeSteps ==
  ASSUME TypeOK, HeldInProgress, [Next]_vars, NEW a \in AttemptIds
  PROVE  LifeStep(a)
  <1>a. /\ attempts \in [AttemptIds -> Attempt]
        /\ events \in [AttemptIds -> Seq(EventTypes)]
        /\ moderation \in [AttemptIds -> Moderation]
    BY DEF TypeOK
  <1>1. CASE UNCHANGED attemptVars
    BY <1>1 DEF attemptVars, LeftAlone, LifeStep
  <1>2. CASE Extend
    <2>1. CASE InProgress(a)
      <3> PICK ends \in Instants :
            /\ quiz' = [quiz EXCEPT !.endsAt = ends]
            /\ attempts' =
                 [b \in AttemptIds |->
                    IF InProgress(b)
                    THEN [attempts[b] EXCEPT
                            !.deadline = Least(attempts[b].startedAt + quiz.duration, ends)]
                    ELSE attempts[b]]
            /\ UNCHANGED <<events, moderation>>
        BY <1>2 DEF Extend
      <3>1. quiz'.endsAt = ends
        BY DEF TypeOK, Quiz
      <3> QED
        BY <1>2, <2>1, <3>1 DEF IsExtended, LifeStep
    <2>2. CASE ~InProgress(a)
      BY <1>2, <2>2 DEF Extend, LeftAlone, LifeStep
    <2> QED
      BY <2>1, <2>2
  <1>3. ASSUME NEW s \in Students, StartInsert(s) PROVE LifeStep(a)
    <2> PICK n \in (1 .. MaxAttemptNo) \ Rows(s) :
          /\ attempts' = [attempts EXCEPT ![<<s, n>>] =
               [NoAttempt EXCEPT !.status = "in_progress",
                  !.version = start[s].version, !.startedAt = start[s].now,
                  !.deadline = Deadline(start[s])]]
          /\ Log("started", <<s, n>>)
      BY <1>3 DEF StartInsert
    <2>0. <<s, n>> \in AttemptIds /\ moderation' = moderation
      BY <1>3 DEF AttemptIds, StartInsert
    <2>1. CASE a = <<s, n>>
      <3>1. attempts[a].status = "none" /\ a[1] = s
        BY <2>1 DEF Rows
      <3> QED
        BY <1>a, <1>3, <2>0, <2>1, <3>1 DEF Log, Opens, LifeStep
    <2>2. CASE a # <<s, n>>
      BY <1>a, <2>0, <2>2 DEF Log, LeftAlone, LifeStep
    <2> QED
      BY <2>1, <2>2
  <1>4. ASSUME NEW b \in AttemptIds, OnAttempt(b) PROVE LifeStep(a)
    <2>1. CASE a # b
      BY <1>4, <1>a, <2>1
      DEF OnAttempt, SaveAnswer, SubmitManual, RecordViolation, LadderSubmit,
          Kick, Readmit, OverrideScore, Log, LeftAlone, LifeStep
    <2>2. CASE a = b /\ SaveAnswer(b)
      <3>1. Saves(a)
        BY <1>a, <2>2 DEF SaveAnswer, Writable, Log, Saves
      <3> QED
        BY <3>1 DEF LifeStep
    <2>3. CASE a = b /\ SubmitManual(b)
      <3>1. Submits(a)
        BY <1>a, <2>3 DEF SubmitManual, Writable, Log, Submits
      <3> QED
        BY <3>1 DEF LifeStep
    <2>4. CASE a = b /\ RecordViolation(b)
      <3>1. Reports(a)
        BY <1>a, <2>4 DEF RecordViolation, Reportable, Log, Reports
      <3> QED
        BY <3>1 DEF LifeStep
    <2>5. CASE a = b /\ LadderSubmit(b)
      <3>1. IsLaddered(a)
        BY <1>a, <2>5 DEF LadderSubmit, Reportable, IsLaddered
      <3> QED
        BY <3>1 DEF LifeStep
    <2>6. CASE a = b /\ Kick(b)
      <3>1. IsKicked(a)
        BY <1>a, <2>6 DEF Kick, Log, IsKicked
      <3> QED
        BY <3>1 DEF LifeStep
    <2>7. CASE a = b /\ Readmit(b)
      <3>1. IsReadmitted(a)
        BY <1>a, <2>7 DEF Readmit, IsReadmitted
      <3> QED
        BY <3>1 DEF LifeStep
    <2>8. CASE a = b /\ OverrideScore(b)
      <3>1. IsZeroed(a)
        BY <1>a, <2>8 DEF OverrideScore, IsZeroed
      <3> QED
        BY <3>1 DEF LifeStep
    <2> QED
      BY <1>4, <2>1, <2>2, <2>3, <2>4, <2>5, <2>6, <2>7, <2>8 DEF OnAttempt
  <1>5. ASSUME NEW w \in Workers, SweepForced(w) PROVE LifeStep(a)
    <2>1. CASE SweepKind(w, a) = "none"
      BY <1>5, <2>1 DEF SweepForced, LeftAlone, LifeStep
    <2>2. CASE SweepKind(w, a) # "none"
      <3>1. /\ InProgress(a)
            /\ SweepKind(w, a) \in {"auto", "forced"}
            /\ SweepKind(w, a) = "forced" => a \notin pass[w].todo /\ IsOver
        BY <1>5, <2>2, SweptInProgress
      <3>2. /\ attempts'[a] = Ended(a, "submitted", SweepKind(w, a))
            /\ events'[a] = Append(events[a], "submitted")
            /\ moderation' = moderation
            /\ At(w, "force")
        BY <1>5, <2>2 DEF SweepForced
      <3> QED
        BY <3>1, <3>2 DEF Submits, LifeStep
    <2> QED
      BY <2>1, <2>2
  <1>6. ASSUME NEW w \in Workers, NEW b \in AttemptIds, GradeOne(w, b)
        PROVE  LifeStep(a)
    <2>1. CASE a = b /\ b \in Ungraded
      <3>1. IsGraded(a)
        BY <1>6, <1>a, <2>1 DEF GradeOne, Log, IsGraded
      <3> QED
        BY <3>1 DEF LifeStep
    <2>2. CASE ~ (a = b /\ b \in Ungraded)
      BY <1>6, <1>a, <2>2 DEF GradeOne, Log, LeftAlone, LifeStep
    <2> QED
      BY <2>1, <2>2
  <1>7. CASE UNCHANGED vars
    BY <1>1, <1>7 DEF vars, attemptVars
  <1>8. CASE Tick \/ PeriodicSweep
    BY <1>1, <1>8 DEF Tick, PeriodicSweep
  <1>9. CASE TeacherOnQuiz
    BY <1>1, <1>2, <1>9
    DEF TeacherOnQuiz, AuthorQuestions, Publish, Cancel, ForceClose, Archive,
        ReleaseResults, SetAssignments
  <1>10. ASSUME NEW s \in Students, Starting(s) PROVE LifeStep(a)
    BY <1>1, <1>3, <1>10 DEF Starting, StartRead, StartEnd
  <1>11. ASSUME NEW w \in Workers, BeginPass(w) \/ PassStep(w) \/ FailPass(w)
         PROVE  LifeStep(a)
    BY <1>1, <1>5, <1>6, <1>11
    DEF PassStep, BeginPass, FailPass, OpenDue, SweepExpired, ListUngraded,
        ReleaseDue, ListRollup, ReadScores, RollupStudents, InsertStats
  <1> QED
    BY <1>4, <1>7, <1>8, <1>9, <1>10, <1>11 DEF Next
-----------------------------------------------------------------------------
(* Moderation.                                                             *)

\* At first nothing has ended and nothing was moderated.
LEMMA ModeratedInit == Init => KindTellsEnd /\ ModeratedOnce
  <1> SUFFICES ASSUME Init PROVE KindTellsEnd /\ ModeratedOnce
    OBVIOUS
  <1>1. \A a \in AttemptIds :
          /\ attempts[a].status = "none"
          /\ attempts[a].kind = "none"
          /\ ~attempts[a].readmitted
          /\ ~attempts[a].overridden
    BY DEF Init, NoAttempt
  <1>2. \A a \in AttemptIds :
          /\ moderation[a].kicked = 0
          /\ moderation[a].readmitted = 0
          /\ moderation[a].overridden = 0
    BY DEF Init
  <1> QED
    BY <1>1, <1>2 DEF KindTellsEnd, ModeratedOnce

\* No step kicks, readmits or zeroes an attempt without its audit row, or twice.
LEMMA ModeratedStays ==
  ASSUME TypeOK, HeldInProgress, KindTellsEnd, ModeratedOnce, [Next]_vars
  PROVE  KindTellsEnd' /\ ModeratedOnce'
  <1> DEFINE KindOk(row) ==
        /\ row.status \in {"none", "in_progress"} => row.kind = "none"
        /\ row.status = "kicked" => row.kind = "kicked"
  <1> DEFINE Once(row, rows) ==
        /\ rows.kicked = IF row.kind = "kicked" THEN 1 ELSE 0
        /\ rows.readmitted = IF row.readmitted THEN 1 ELSE 0
        /\ rows.overridden = IF row.overridden THEN 1 ELSE 0
        /\ row.readmitted \/ row.overridden => row.kind = "kicked"
  <1> SUFFICES ASSUME NEW a \in AttemptIds
               PROVE  KindOk(attempts'[a]) /\ Once(attempts'[a], moderation'[a])
    BY DEF KindTellsEnd, ModeratedOnce
  <1>a. attempts[a] \in Attempt /\ moderation[a] \in Moderation
    BY DEF TypeOK
  <1>h. KindOk(attempts[a]) /\ Once(attempts[a], moderation[a])
    BY DEF KindTellsEnd, ModeratedOnce
  <1>1. CASE LeftAlone(a)
    BY <1>h, <1>1 DEF LeftAlone
  <1>2. CASE Opens(a)
    BY <1>h, <1>2 DEF Opens, NoAttempt
  <1>3. CASE IsExtended(a) \/ Saves(a) \/ Reports(a)
    <2>1. /\ attempts'[a].status = attempts[a].status
          /\ attempts'[a].kind = attempts[a].kind
          /\ attempts'[a].readmitted = attempts[a].readmitted
          /\ attempts'[a].overridden = attempts[a].overridden
          /\ moderation'[a] = moderation[a]
      <3>1. CASE IsExtended(a)
        BY <1>a, <3>1 DEF IsExtended, Attempt
      <3>2. CASE Saves(a)
        BY <1>a, <3>2 DEF Saves, Attempt
      <3>3. CASE Reports(a)
        BY <1>a, <3>3 DEF Reports, Attempt
      <3> QED
        BY <1>3, <3>1, <3>2, <3>3
    <2> QED
      BY <1>h, <2>1
  <1>4. CASE Submits(a) \/ IsLaddered(a)
    <2>1. /\ attempts[a].kind = "none"
          /\ attempts'[a].kind \in {"manual", "auto", "forced"}
          /\ attempts'[a].status = "submitted"
          /\ attempts'[a].readmitted = attempts[a].readmitted
          /\ attempts'[a].overridden = attempts[a].overridden
          /\ moderation'[a] = moderation[a]
      BY <1>a, <1>h, <1>4 DEF InProgress, Submits, IsLaddered, Ended, Attempt
    <2> QED
      BY <1>a, <1>h, <2>1 DEF Attempt
  <1>5. CASE IsKicked(a)
    BY <1>a, <1>h, <1>5 DEF InProgress, IsKicked, Ended, Attempt, Moderation
  <1>6. CASE IsGraded(a)
    BY <1>a, <1>h, <1>6 DEF IsGraded, Graded, Ungraded, Attempt
  <1>7. CASE IsReadmitted(a)
    BY <1>a, <1>h, <1>7 DEF IsReadmitted, Readmittable, Attempt, Moderation
  <1>8. CASE IsZeroed(a)
    BY <1>a, <1>h, <1>8 DEF IsZeroed, Attempt, Moderation
  <1> QED
    BY <1>1, <1>2, <1>3, <1>4, <1>5, <1>6, <1>7, <1>8, LifeSteps DEF LifeStep
\* An attempt that was not opened is still blank.
LEMMA UnopenedStays ==
  ASSUME TypeOK, HeldInProgress, UnopenedIsBlank, [Next]_vars
  PROVE  UnopenedIsBlank'
  <1> SUFFICES ASSUME NEW a \in AttemptIds, attempts'[a].status = "none"
               PROVE  attempts'[a] = NoAttempt
    BY DEF UnopenedIsBlank
  <1>a. attempts[a] \in Attempt
    BY DEF TypeOK
  <1>1. CASE LeftAlone(a)
    BY <1>1 DEF LeftAlone, UnopenedIsBlank
  <1>2. ~Opens(a)
    BY DEF Opens, NoAttempt
  <1>3. ~ (IsExtended(a) \/ Saves(a) \/ Reports(a))
    BY <1>a DEF IsExtended, Saves, Reports, InProgress, Attempt
  <1>4. ~ (Submits(a) \/ IsLaddered(a) \/ IsKicked(a))
    BY <1>a DEF Submits, IsLaddered, IsKicked, Ended, Attempt
  <1>5. ~ (IsGraded(a) \/ IsReadmitted(a) \/ IsZeroed(a))
    BY <1>a DEF IsGraded, Graded, IsReadmitted, Readmittable, IsZeroed, Attempt
  <1> QED
    BY <1>1, <1>2, <1>3, <1>4, <1>5, LifeSteps DEF LifeStep

-----------------------------------------------------------------------------
(* The event log.                                                          *)

\* What a log may hold depends on the row's status and kind alone.
LEMMA SameInPlace ==
  ASSUME NEW row, NEW next, NEW log, InPlace(row, log),
         next.status = row.status, next.kind = row.kind
  PROVE  InPlace(next, log)
  BY DEF InPlace

\* The started event is the first.
LEMMA OpenInPlace ==
  ASSUME NEW next, next.status = "in_progress"
  PROVE  InPlace(next, Append(<<>>, "started"))
  BY DEF InPlace, Terminated

\* Answers and violations are logged while the attempt is in progress.
LEMMA EditInPlace ==
  ASSUME NEW row, NEW next, NEW log \in Seq(EventTypes),
         NEW type \in {"progress", "violation"}, InPlace(row, log),
         row.status = "in_progress", next.status = "in_progress"
  PROVE  InPlace(next, Append(log, type))
  <1>1. log # <<>> /\ Len(log) \in Nat /\ Len(log) >= 1
    BY DEF InPlace
  <1>2. \A i \in DOMAIN log :
          /\ log[i] = "started" <=> i = 1
          /\ log[i] \notin {"graded", "submitted", "kicked"}
    BY DEF InPlace, Terminated
  <1> DEFINE long == Append(log, type)
  <1>3. /\ Len(long) = Len(log) + 1
        /\ long # <<>>
        /\ \A i \in DOMAIN long :
             \/ i \in DOMAIN log /\ i <= Len(log) /\ long[i] = log[i]
             \/ i = Len(log) + 1 /\ long[i] = type
    OBVIOUS
  <1> QED
    BY <1>1, <1>2, <1>3 DEF InPlace, Terminated

\* The end is logged once, and says how the attempt ended.
LEMMA EndInPlace ==
  ASSUME NEW row, NEW next, NEW log \in Seq(EventTypes),
         NEW type \in {"submitted", "kicked"}, InPlace(row, log),
         row.status = "in_progress", next.status \in {"submitted", "kicked"},
         type = "kicked" <=> next.kind = "kicked"
  PROVE  InPlace(next, Append(log, type))
  <1>1. log # <<>> /\ Len(log) \in Nat /\ Len(log) >= 1
    BY DEF InPlace
  <1>2. \A i \in DOMAIN log :
          /\ log[i] = "started" <=> i = 1
          /\ log[i] \notin {"graded", "submitted", "kicked"}
    BY DEF InPlace, Terminated
  <1> DEFINE long == Append(log, type)
  <1>3. /\ Len(long) = Len(log) + 1
        /\ long # <<>>
        /\ \A i \in DOMAIN long :
             \/ i \in DOMAIN log /\ i <= Len(log) /\ long[i] = log[i]
             \/ i = Len(log) + 1 /\ long[i] = type
    OBVIOUS
  <1> QED
    BY <1>1, <1>2, <1>3 DEF InPlace, Terminated

\* The grading is logged last.
LEMMA GradeInPlace ==
  ASSUME NEW row, NEW next, NEW log \in Seq(EventTypes), InPlace(row, log),
         row.status \in {"submitted", "kicked"}, next.status = "graded",
         next.kind = row.kind
  PROVE  InPlace(next, Append(log, "graded"))
  <1>1. log # <<>> /\ Len(log) \in Nat /\ Len(log) >= 2
    BY DEF InPlace, Terminated
  <1>2. \A i \in DOMAIN log :
          /\ log[i] = "started" <=> i = 1
          /\ log[i] # "graded"
          /\ log[i] \in {"submitted", "kicked"} <=> i = Len(log)
          /\ log[i] \in {"submitted", "kicked"}
               => (log[i] = "kicked" <=> row.kind = "kicked")
    BY DEF InPlace, Terminated
  <1> DEFINE long == Append(log, "graded")
  <1>3. /\ Len(long) = Len(log) + 1
        /\ long # <<>>
    OBVIOUS
  <1>4. \A i \in DOMAIN long :
          \/ i \in DOMAIN log /\ i <= Len(log) /\ long[i] = log[i]
          \/ i = Len(log) + 1 /\ long[i] = "graded"
    OBVIOUS
  <1> QED
    BY <1>1, <1>2, <1>3, <1>4 DEF InPlace, Terminated

\* No step logs an event out of its place.
LEMMA EventsStayInPlace ==
  ASSUME TypeOK, HeldInProgress, KindTellsEnd, EventsInPlace, [Next]_vars
  PROVE  EventsInPlace'
  <1> SUFFICES ASSUME NEW a \in AttemptIds
               PROVE  InPlace(attempts'[a], events'[a])
    BY DEF EventsInPlace
  <1>a. attempts[a] \in Attempt /\ events[a] \in Seq(EventTypes)
    BY DEF TypeOK
  <1>h. InPlace(attempts[a], events[a])
    BY DEF EventsInPlace
  <1>1. CASE LeftAlone(a)
    BY <1>h, <1>1 DEF LeftAlone
  <1>2. CASE Opens(a)
    <2>1. events[a] = <<>>
      BY <1>h, <1>2 DEF Opens, InPlace
    <2>2. attempts'[a].status = "in_progress"
      BY <1>2 DEF Opens, NoAttempt
    <2> QED
      BY <1>2, <2>1, <2>2, OpenInPlace DEF Opens
  <1>3. CASE IsExtended(a)
    <2>1. /\ attempts'[a].status = attempts[a].status
          /\ attempts'[a].kind = attempts[a].kind
          /\ events'[a] = events[a]
      BY <1>a, <1>3 DEF IsExtended, Attempt
    <2> QED
      BY <1>h, <2>1, SameInPlace
  <1>4. CASE IsReadmitted(a) \/ IsZeroed(a)
    <2>1. /\ attempts'[a].status = attempts[a].status
          /\ attempts'[a].kind = attempts[a].kind
          /\ events'[a] = events[a]
      BY <1>a, <1>4 DEF IsReadmitted, IsZeroed, Attempt
    <2> QED
      BY <1>h, <2>1, SameInPlace
  <1>5. CASE Saves(a) \/ Reports(a)
    <2>1. /\ attempts[a].status = "in_progress"
          /\ attempts'[a].status = "in_progress"
      BY <1>a, <1>5 DEF InProgress, Saves, Reports, Attempt
    <2>2. \E type \in {"progress", "violation"} : events'[a] = Append(events[a], type)
      BY <1>5 DEF Saves, Reports
    <2> QED
      BY <1>a, <1>h, <2>1, <2>2, EditInPlace
  <1>6. CASE Submits(a) \/ IsKicked(a)
    <2>1. /\ attempts[a].status = "in_progress"
          /\ attempts'[a].status \in {"submitted", "kicked"}
          /\ attempts'[a].kind \in SubmitKinds
          /\ attempts'[a].kind = "kicked" <=> attempts'[a].status = "kicked"
          /\ events'[a] = Append(events[a], attempts'[a].status)
      BY <1>a, <1>6 DEF InProgress, Submits, IsKicked, Ended, Attempt, SubmitKinds
    <2> QED
      BY <1>a, <1>h, <2>1, EndInPlace
  <1>7. CASE IsLaddered(a)
    <2> DEFINE log == Append(events[a], "violation")
    <2>1. /\ attempts[a].status = "in_progress"
          /\ attempts'[a].status = "submitted"
          /\ attempts'[a].kind = "auto"
      BY <1>a, <1>7 DEF InProgress, IsLaddered, Ended, Attempt
    <2>2. log \in Seq(EventTypes)
      BY <1>a DEF EventTypes
    <2>3. events'[a] = Append(log, "submitted")
      BY <1>a, <1>7 DEF IsLaddered
    <2>4. InPlace(attempts[a], log)
      BY <1>a, <1>h, <2>1, EditInPlace
    <2> HIDE DEF log
    <2> QED
      BY <2>1, <2>2, <2>3, <2>4, EndInPlace
  <1>8. CASE IsGraded(a)
    <2>1. /\ attempts[a].status \in {"submitted", "kicked"}
          /\ attempts'[a].status = "graded"
          /\ attempts'[a].kind = attempts[a].kind
          /\ events'[a] = Append(events[a], "graded")
      BY <1>a, <1>8 DEF IsGraded, Ungraded, Graded, Attempt
    <2> QED
      BY <1>a, <1>h, <2>1, GradeInPlace
  <1> QED
    BY <1>1, <1>2, <1>3, <1>4, <1>5, <1>6, <1>7, <1>8, LifeSteps DEF LifeStep

\* A log with its events in place matches its row.
LEMMA InPlaceMatches ==
  ASSUME TypeOK, EventsInPlace
  PROVE  LogMatchesRow
  <1> SUFFICES
        ASSUME NEW a \in AttemptIds
        PROVE  LET row == attempts[a]
                   log == events[a]
                   ends == {i \in DOMAIN log : log[i] \in {"submitted", "kicked"}}
                   grades == {i \in DOMAIN log : log[i] = "graded"}
               IN /\ row.status = "none" <=> log = <<>>
                  /\ \A i \in DOMAIN log : log[i] = "started" <=> i = 1
                  /\ row.status \in Terminated <=> ends # {}
                  /\ \A i \in ends : /\ i + Cardinality(grades) = Len(log)
                                     /\ log[i] = "kicked" <=> row.kind = "kicked"
                  /\ row.status = "graded" <=> grades = {Len(log)}
    BY DEF LogMatchesRow
  <1> DEFINE row == attempts[a]
             log == events[a]
             ends == {i \in DOMAIN log : log[i] \in {"submitted", "kicked"}}
             grades == {i \in DOMAIN log : log[i] = "graded"}
             end == IF row.status = "graded" THEN Len(log) - 1 ELSE Len(log)
  <1>h. InPlace(row, log) /\ log \in Seq(EventTypes)
    BY DEF EventsInPlace, TypeOK
  <1>1. /\ row.status = "none" <=> log = <<>>
        /\ \A i \in DOMAIN log : log[i] = "started" <=> i = 1
    BY <1>h DEF InPlace
  <1>2. grades = IF row.status = "graded" THEN {Len(log)} ELSE {}
    <2>1. \A i \in DOMAIN log : log[i] = "graded" <=> row.status = "graded" /\ i = Len(log)
      BY <1>h DEF InPlace
    <2>2. row.status = "graded" => Len(log) \in DOMAIN log
      BY <1>h DEF InPlace, Terminated
    <2> QED
      BY <2>1, <2>2
  <1>3. Cardinality(grades) = IF row.status = "graded" THEN 1 ELSE 0
    BY <1>2, FS_EmptySet, FS_Singleton
  <1>4. ends = IF row.status \in Terminated THEN {end} ELSE {}
    <2>1. \A i \in DOMAIN log :
            log[i] \in {"submitted", "kicked"} <=> row.status \in Terminated /\ i = end
      BY <1>h DEF InPlace
    <2>2. row.status \in Terminated => end \in DOMAIN log
      BY <1>h DEF InPlace, Terminated
    <2> QED
      BY <2>1, <2>2
  <1>5. \A i \in ends : log[i] = "kicked" <=> row.kind = "kicked"
    BY <1>h DEF InPlace
  <1>6. end + Cardinality(grades) = Len(log)
    BY <1>h, <1>3
  <1>7. row.status = "graded" <=> grades = {Len(log)}
    BY <1>2
  <1>8. \A i \in ends : i + Cardinality(grades) = Len(log)
    BY <1>4, <1>6
  <1> HIDE DEF ends, grades
  <1>9. row.status \in Terminated <=> ends # {}
    BY <1>4
  <1> QED
    BY <1>1, <1>5, <1>7, <1>8, <1>9 DEF ends, grades
-----------------------------------------------------------------------------
(* The budget of attempts.                                                 *)

\* A student has finitely many rows, some of them readmitted.
LEMMA RowsAreFinite ==
  ASSUME NEW s
  PROVE  /\ IsFiniteSet(Rows(s)) /\ Cardinality(Rows(s)) \in Nat
         /\ IsFiniteSet(Rows(s)') /\ Cardinality(Rows(s)') \in Nat
         /\ IsFiniteSet(Readmitted(s)) /\ Cardinality(Readmitted(s)) \in Nat
         /\ IsFiniteSet(Readmitted(s)') /\ Cardinality(Readmitted(s)') \in Nat
  <1>1. IsFiniteSet(1 .. MaxAttemptNo)
    BY Bounds, FS_Interval
  <1>2. /\ Rows(s) \subseteq 1 .. MaxAttemptNo
        /\ Rows(s)' \subseteq 1 .. MaxAttemptNo
        /\ Readmitted(s) \subseteq 1 .. MaxAttemptNo
        /\ Readmitted(s)' \subseteq 1 .. MaxAttemptNo
    BY DEF Rows, Readmitted
  <1>3. \A S \in SUBSET (1 .. MaxAttemptNo) :
          IsFiniteSet(S) /\ Cardinality(S) \in Nat
    BY <1>1, FS_Subset, FS_CardinalityType
  <1> QED
    BY <1>2, <1>3

\* A row is never deleted, nor its readmission undone, and only a Start that found
\* a slot adds one.
LEMMA RowsGrow ==
  ASSUME TypeOK, HeldInProgress, [Next]_vars, NEW s \in Students
  PROVE  /\ Rows(s) \subseteq Rows(s)'
         /\ Readmitted(s) \subseteq Readmitted(s)'
         /\ ~StartInsert(s) => Rows(s)' = Rows(s)
  <1>1. ASSUME NEW n \in 1 .. MaxAttemptNo
        PROVE  /\ n \in Rows(s) => n \in Rows(s)'
               /\ n \in Readmitted(s) => n \in Readmitted(s)'
               /\ ~StartInsert(s) => (n \in Rows(s)' => n \in Rows(s))
    <2> DEFINE a == <<s, n>>
    <2>a. a \in AttemptIds /\ a[1] = s
      BY DEF AttemptIds
    <2>t. attempts[a] \in Attempt
      BY <2>a DEF TypeOK
    <2>1. \/ attempts'[a].status = attempts[a].status
          \/ Opens(a)
          \/ attempts[a].status # "none" /\ attempts'[a].status # "none"
      <3>1. CASE LeftAlone(a) \/ Opens(a)
        BY <3>1 DEF LeftAlone
      <3>2. CASE IsExtended(a) \/ Saves(a) \/ Reports(a) \/ IsReadmitted(a) \/ IsZeroed(a)
        BY <2>t, <3>2 DEF IsExtended, Saves, Reports, IsReadmitted, IsZeroed, Attempt
      <3>3. CASE Submits(a) \/ IsLaddered(a) \/ IsKicked(a)
        BY <2>t, <3>3 DEF InProgress, Submits, IsLaddered, IsKicked, Ended, Attempt
      <3>4. CASE IsGraded(a)
        BY <2>t, <3>4 DEF IsGraded, Ungraded, Graded, Attempt
      <3> QED
        BY <2>a, <3>1, <3>2, <3>3, <3>4, LifeSteps DEF LifeStep
    <2>2. Opens(a) => attempts[a].status = "none" /\ StartInsert(s)
      BY <2>a DEF Opens
    <2>3. attempts[a].status # "none" /\ attempts[a].readmitted => attempts'[a].readmitted
      <3>1. CASE LeftAlone(a) \/ Opens(a)
        BY <3>1 DEF LeftAlone, Opens
      <3>2. CASE IsExtended(a) \/ Saves(a) \/ Reports(a) \/ IsReadmitted(a) \/ IsZeroed(a)
        BY <2>t, <3>2 DEF IsExtended, Saves, Reports, IsReadmitted, IsZeroed, Attempt
      <3>3. CASE Submits(a) \/ IsLaddered(a) \/ IsKicked(a)
        BY <2>t, <3>3 DEF Submits, IsLaddered, IsKicked, Ended, Attempt
      <3>4. CASE IsGraded(a)
        BY <2>t, <3>4 DEF IsGraded, Graded, Attempt
      <3> QED
        BY <2>a, <3>1, <3>2, <3>3, <3>4, LifeSteps DEF LifeStep
    <2>4. /\ n \in Rows(s) <=> attempts[a].status # "none"
          /\ n \in Rows(s)' <=> attempts'[a].status # "none"
      BY DEF Rows
    <2>5. /\ n \in Readmitted(s) <=> n \in Rows(s) /\ attempts[a].readmitted
          /\ n \in Readmitted(s)' <=> n \in Rows(s)' /\ attempts'[a].readmitted
      BY DEF Readmitted
    <2> QED
      BY <2>1, <2>2, <2>3, <2>4, <2>5
  <1>2. /\ Rows(s) \subseteq 1 .. MaxAttemptNo
        /\ Rows(s)' \subseteq 1 .. MaxAttemptNo
        /\ Readmitted(s) \subseteq 1 .. MaxAttemptNo
    BY DEF Rows, Readmitted
  <1> QED
    BY <1>1, <1>2

\* At first there are no rows.
LEMMA BudgetInit == Init => WithinBudget
  <1> SUFFICES ASSUME Init, NEW s \in Students
               PROVE  Cardinality(Rows(s)) <= MaxAttempts + Cardinality(Readmitted(s))
    BY DEF WithinBudget
  <1>1. Rows(s) = {}
    BY DEF Init, Rows, NoAttempt, AttemptIds
  <1>2. Cardinality(Rows(s)) = 0
    BY <1>1, FS_EmptySet
  <1> QED
    BY <1>2, RowsAreFinite, Bounds

\* No step takes a student over the budget.
LEMMA BudgetStays ==
  ASSUME TypeOK, HeldInProgress, WithinBudget, [Next]_vars
  PROVE  WithinBudget'
  <1> SUFFICES ASSUME NEW s \in Students
               PROVE  Cardinality(Rows(s)') <= MaxAttempts + Cardinality(Readmitted(s)')
    BY DEF WithinBudget
  <1>n. MaxAttempts \in Nat
    BY Bounds
  <1>f. /\ IsFiniteSet(Rows(s)) /\ Cardinality(Rows(s)) \in Nat
        /\ IsFiniteSet(Readmitted(s)') /\ Cardinality(Readmitted(s)') \in Nat
        /\ Cardinality(Readmitted(s)) \in Nat
    BY RowsAreFinite
  <1>1. Cardinality(Readmitted(s)) <= Cardinality(Readmitted(s)')
    BY <1>f, RowsGrow, FS_Subset
  <1>2. CASE ~StartInsert(s)
    <2>1. Rows(s)' = Rows(s)
      BY <1>2, RowsGrow
    <2>2. Cardinality(Rows(s)) <= MaxAttempts + Cardinality(Readmitted(s))
      BY DEF WithinBudget
    <2> QED
      BY <1>n, <1>f, <1>1, <2>1, <2>2
  <1>3. CASE StartInsert(s)
    <2> PICK n \in (1 .. MaxAttemptNo) \ Rows(s) :
          attempts' = [attempts EXCEPT ![<<s, n>>] =
               [NoAttempt EXCEPT !.status = "in_progress",
                  !.version = start[s].version, !.startedAt = start[s].now,
                  !.deadline = Deadline(start[s])]]
      BY <1>3 DEF StartInsert
    <2>1. Rows(s)' = Rows(s) \cup {n}
      <3>1. \A m \in 1 .. MaxAttemptNo :
              m # n => attempts'[<<s, m>>] = attempts[<<s, m>>]
        BY DEF TypeOK, AttemptIds
      <3>2. attempts'[<<s, n>>].status = "in_progress"
        BY DEF TypeOK, AttemptIds, NoAttempt
      <3> QED
        BY <3>1, <3>2 DEF Rows
    <2>2. Cardinality(Rows(s)') = Cardinality(Rows(s)) + 1
      BY <1>f, <2>1, FS_AddElement
    <2>3. Cardinality(Rows(s)) < MaxAttempts + Cardinality(Readmitted(s))
      BY <1>3 DEF StartInsert, HasSlot
    <2> QED
      BY <1>n, <1>f, <1>1, <2>2, <2>3
  <1> QED
    BY <1>2, <1>3

\* The readmission rows of the audit log are the rows' markers.
LEMMA BudgetIsAudited == WithinBudget /\ ModeratedOnce => AttemptBudget
  <1> SUFFICES ASSUME WithinBudget, ModeratedOnce, NEW s \in Students
               PROVE  {n \in Rows(s) : moderation[<<s, n>>].readmitted > 0}
                        = Readmitted(s)
    BY DEF WithinBudget, AttemptBudget
  <1>1. ASSUME NEW n \in Rows(s)
        PROVE  moderation[<<s, n>>].readmitted > 0 <=> attempts[<<s, n>>].readmitted
    <2>1. <<s, n>> \in AttemptIds
      BY DEF Rows, AttemptIds
    <2> QED
      BY <2>1 DEF ModeratedOnce
  <1> QED
    BY <1>1 DEF Readmitted
-----------------------------------------------------------------------------
(* Grading is queued.                                                      *)

\* Queueing loses no job, and a job queued for now is due.
LEMMA EnqueueKeeps ==
  ASSUME NEW instants, Enqueue(instants)
  PROVE  jobs \subseteq jobs'
  BY DEF Enqueue

LEMMA EnqueueNow ==
  ASSUME now \in Int, Enqueue({now})
  PROVE  now \in jobs'
  BY DEF Enqueue

\* An ungraded attempt that is left to the work there is: none of it is lost.
StaysQueued(a) ==
  /\ a \in Ungraded
  /\ now' = now
  /\ jobs \subseteq jobs'
  /\ \A w \in Workers : WillGrade(w, a) => WillGrade(w, a)'

\* No step strands an ungraded attempt.
LEMMA GradingStaysQueued ==
  ASSUME TypeOK, GradingIsQueued, [Next]_vars
  PROVE  GradingIsQueued'
  <1> DEFINE Queued(a) == now \in jobs \/ \E w \in Workers : WillGrade(w, a)
  <1> SUFFICES ASSUME NEW a \in AttemptIds, a \in Ungraded'
               PROVE  Queued(a)'
    BY DEF GradingIsQueued, Ungraded
  <1>t. /\ now \in Int
        /\ attempts \in [AttemptIds -> Attempt]
        /\ pass \in [Workers -> Pass]
    BY Bounds DEF TypeOK, Time
  <1>h. a \in Ungraded => Queued(a)
    BY DEF GradingIsQueued
  <1>s. StaysQueued(a) => Queued(a)'
    BY <1>h DEF StaysQueued
  <1>1. CASE Tick
    <2>1. a \in Ungraded
      BY <1>1 DEF Tick, attemptVars, Ungraded
    <2>2. now \in jobs => now' \in jobs'
      BY <1>1, <1>t DEF Tick
    <2>3. \A w \in Workers : WillGrade(w, a) => WillGrade(w, a)'
      BY <1>1 DEF Tick, workerVars, WillGrade
    <2> QED
      BY <1>h, <2>1, <2>2, <2>3
  <1>2. CASE TeacherOnQuiz
    <2>1. a \in Ungraded
      <3>1. CASE Extend
        <4>1. attempts'[a].status = attempts[a].status
          BY <1>t, <3>1 DEF Extend, Attempt
        <4> QED
          BY <4>1 DEF Ungraded
      <3>2. CASE ~Extend
        BY <1>2, <3>2
        DEF TeacherOnQuiz, AuthorQuestions, Publish, Cancel, ForceClose, Archive,
            ReleaseResults, SetAssignments, attemptVars, Ungraded
      <3> QED
        BY <3>1, <3>2
    <2>2. now' = now /\ pass' = pass /\ jobs \subseteq jobs'
      BY <1>2, EnqueueKeeps
      DEF TeacherOnQuiz, AuthorQuestions, Publish, Cancel, ForceClose, Extend,
          Archive, ReleaseResults, SetAssignments, workerVars
    <2> QED
      BY <1>s, <2>1, <2>2 DEF StaysQueued, WillGrade
  <1>3. ASSUME NEW s \in Students, Starting(s) PROVE Queued(a)'
    <2>1. a \in Ungraded
      <3>1. CASE StartInsert(s)
        <4> PICK n : attempts' = [attempts EXCEPT ![<<s, n>>] =
               [NoAttempt EXCEPT !.status = "in_progress",
                  !.version = start[s].version, !.startedAt = start[s].now,
                  !.deadline = Deadline(start[s])]]
          BY <3>1 DEF StartInsert
        <4> QED
          BY <1>t DEF Ungraded, NoAttempt
      <3>2. CASE StartRead(s) \/ StartEnd(s)
        BY <3>2 DEF StartRead, StartEnd, attemptVars, Ungraded
      <3> QED
        BY <1>3, <3>1, <3>2 DEF Starting
    <2>2. now' = now /\ pass' = pass /\ jobs \subseteq jobs'
      BY <1>3, EnqueueKeeps DEF Starting, StartRead, StartInsert, StartEnd, workerVars
    <2> QED
      BY <1>s, <2>1, <2>2 DEF StaysQueued, WillGrade
  <1>4. ASSUME NEW b \in AttemptIds, SubmitManual(b) \/ LadderSubmit(b) \/ Kick(b)
        PROVE  Queued(a)'
    <2>1. Enqueue({now}) /\ now' = now
      BY <1>4 DEF SubmitManual, LadderSubmit, Kick
    <2> QED
      BY <1>t, <2>1, EnqueueNow
  <1>5. ASSUME NEW b \in AttemptIds,
               SaveAnswer(b) \/ RecordViolation(b) \/ Readmit(b) \/ OverrideScore(b)
        PROVE  Queued(a)'
    <2>1. attempts'[a].status = attempts[a].status
      <3>1. CASE SaveAnswer(b)
        <4> PICK r : attempts' = [attempts EXCEPT ![b].answer = r]
          BY <3>1 DEF SaveAnswer
        <4> QED
          BY <1>t DEF Attempt
      <3>2. CASE RecordViolation(b)
        BY <1>t, <3>2 DEF RecordViolation, Attempt
      <3>3. CASE Readmit(b)
        BY <1>t, <3>3 DEF Readmit, Attempt
      <3>4. CASE OverrideScore(b)
        BY <1>t, <3>4 DEF OverrideScore, Attempt
      <3> QED
        BY <1>5, <3>1, <3>2, <3>3, <3>4
    <2>2. a \in Ungraded
      BY <2>1 DEF Ungraded
    <2>3. now' = now /\ pass' = pass /\ jobs' = jobs
      BY <1>5
      DEF SaveAnswer, RecordViolation, Readmit, OverrideScore, workerVars
    <2> QED
      BY <1>s, <2>2, <2>3 DEF StaysQueued, WillGrade
  <1>6. CASE PeriodicSweep
    BY <1>6, <1>t, EnqueueNow DEF PeriodicSweep
  <1>7. ASSUME NEW w \in Workers, FailPass(w) PROVE Queued(a)'
    BY <1>7, <1>t, EnqueueNow DEF FailPass
  <1>8. ASSUME NEW w \in Workers,
               BeginPass(w) \/ OpenDue(w) \/ SweepExpired(w) \/ SweepForced(w)
        PROVE  Queued(a)'
    <2>1. CASE BeginPass(w) \/ OpenDue(w)
      BY <1>t, <2>1 DEF BeginPass, OpenDue, GoTo, Pass, WillGrade
    <2>2. CASE SweepExpired(w) \/ SweepForced(w)
      <3>1. \/ pass'[w] = [pass[w] EXCEPT !.at = "force", !.since = now,
                               !.todo = {b \in AttemptIds : Expired(b)}]
            \/ pass'[w] = [pass[w] EXCEPT !.at = "list", !.since = NoTime, !.todo = {}]
        BY <1>t, <2>2 DEF SweepExpired, SweepForced
      <3>2. pass'[w].at \in {"force", "list"}
        BY <1>t, <3>1 DEF Pass
      <3> QED
        BY <3>2 DEF WillGrade
    <2> QED
      BY <1>8, <2>1, <2>2
  <1>9. ASSUME NEW w \in Workers, ListUngraded(w) PROVE Queued(a)'
    <2>1. a \in Ungraded
      BY <1>9 DEF ListUngraded, attemptVars, Ungraded
    <2>2. pass'[w].at = "grade" /\ pass'[w].todo = Ungraded
      BY <1>9, <1>t DEF ListUngraded, Pass
    <2> QED
      BY <2>1, <2>2 DEF WillGrade
  <1>10. ASSUME NEW w \in Workers, NEW b \in AttemptIds, GradeOne(w, b)
         PROVE  Queued(a)'
    <2>1. a \in Ungraded /\ a # b
      <3>1. CASE b \in Ungraded
        <4>1. attempts' = [attempts EXCEPT ![b] = Graded(b)]
          BY <1>10, <3>1 DEF GradeOne
        <4>2. Graded(b).status = "graded"
          BY <1>t DEF Graded, Attempt
        <4> QED
          BY <1>t, <4>1, <4>2 DEF Ungraded
      <3>2. CASE b \notin Ungraded
        BY <1>10, <3>2 DEF GradeOne, Ungraded
      <3> QED
        BY <3>1, <3>2
    <2>2. now' = now /\ jobs' = jobs
      BY <1>10 DEF GradeOne
    <2>3. \A u \in Workers : WillGrade(u, a) => WillGrade(u, a)'
      <3> SUFFICES ASSUME NEW u \in Workers
                   PROVE  /\ pass'[u].at = pass[u].at
                          /\ a \in pass[u].todo => a \in pass'[u].todo
        BY DEF WillGrade
      <3>1. CASE u = w
        BY <1>10, <1>t, <2>1, <3>1 DEF GradeOne, Pass
      <3>2. CASE u # w
        BY <1>10, <1>t, <3>2 DEF GradeOne
      <3> QED
        BY <3>1, <3>2
    <2> QED
      BY <1>s, <2>1, <2>2, <2>3 DEF StaysQueued
  <1>11. ASSUME NEW w \in Workers,
                \/ ReleaseDue(w) \/ ListRollup(w) \/ ReadScores(w)
                \/ RollupStudents(w) \/ InsertStats(w)
         PROVE  Queued(a)'
    <2>1. a \in Ungraded /\ now' = now /\ jobs' = jobs
      BY <1>11
      DEF ReleaseDue, ListRollup, ReadScores, RollupStudents, InsertStats,
          attemptVars, Ungraded
    <2>2. ~WillGrade(w, a)
      BY <1>11
      DEF ReleaseDue, ListRollup, ReadScores, RollupStudents, InsertStats, At,
          WillGrade
    <2>3. \A u \in Workers : u # w => pass'[u] = pass[u]
      BY <1>11, <1>t
      DEF ReleaseDue, ListRollup, ReadScores, RollupStudents, InsertStats, GoTo
    <2>4. \A u \in Workers : WillGrade(u, a) => WillGrade(u, a)'
      BY <2>2, <2>3 DEF WillGrade
    <2> QED
      BY <1>s, <2>1, <2>4 DEF StaysQueued
  <1>12. CASE UNCHANGED vars
    <2>1. StaysQueued(a)
      BY <1>12 DEF vars, StaysQueued, Ungraded, WillGrade
    <2> QED
      BY <1>s, <2>1
  <1> QED
    BY <1>1, <1>2, <1>3, <1>4, <1>5, <1>6, <1>7, <1>8, <1>9, <1>10, <1>11, <1>12
    DEF Next, OnAttempt, PassStep

\* The inductive invariant of an attempt's life.
LifeInv ==
  /\ TypeOK /\ HeldInProgress
  /\ KindTellsEnd /\ ModeratedOnce /\ UnopenedIsBlank
  /\ EventsInPlace
  /\ WithinBudget
  /\ GradingIsQueued

LEMMA LifeInit == Init => LifeInv
  <1> SUFFICES ASSUME Init PROVE LifeInv
    OBVIOUS
  <1>1. \A a \in AttemptIds : attempts[a].status = "none" /\ events[a] = <<>>
    BY DEF Init, NoAttempt
  <1>2. EventsInPlace
    BY <1>1 DEF EventsInPlace, InPlace, Terminated
  <1>3. GradingIsQueued
    BY <1>1 DEF GradingIsQueued, Ungraded
  <1>4. UnopenedIsBlank
    BY DEF Init, UnopenedIsBlank
  <1> QED
    BY <1>2, <1>3, <1>4, TypeInit, HeldInit, ModeratedInit, BudgetInit DEF LifeInv

\* It holds in every behaviour.
THEOREM LifeInductive == Spec => []LifeInv
  <1>1. LifeInv /\ [Next]_vars => LifeInv'
    BY TypeNext, HeldStays, ModeratedStays, UnopenedStays, EventsStayInPlace, BudgetStays,
       GradingStaysQueued
    DEF LifeInv
  <1> QED
    BY <1>1, LifeInit, PTL DEF Spec

\* The audit log has exactly one row for each kick, readmission and zeroed score,
\* and only kicked attempts are readmitted or zeroed.
THEOREM ModerationIsAudited == Spec => []ModeratedOnce
  <1>1. LifeInv => ModeratedOnce
    BY DEF LifeInv
  <1> QED
    BY <1>1, LifeInductive, PTL

\* The event log of an attempt tells the life of its row, whoever ended it.
THEOREM LogsMatchRows == Spec => []LogMatchesRow
  <1>1. LifeInv => LogMatchesRow
    BY InPlaceMatches DEF LifeInv
  <1> QED
    BY <1>1, LifeInductive, PTL

\* No student holds more attempts than the limit and the readmitted kicks allow.
THEOREM BudgetHolds == Spec => []AttemptBudget
  <1>1. LifeInv => AttemptBudget
    BY BudgetIsAudited DEF LifeInv
  <1> QED
    BY <1>1, LifeInductive, PTL

\* Work that waits for its grade is never stranded, whatever passes fail.
THEOREM GradingIsAlwaysQueued == Spec => []GradingIsQueued
  <1>1. LifeInv => GradingIsQueued
    BY DEF LifeInv
  <1> QED
    BY <1>1, LifeInductive, PTL
-----------------------------------------------------------------------------
(* The contract.                                                           *)

\* The key an attempt is graded against, as the contract sees it.
KeyOf(a) ==
  IF attempts[a].status = "none" THEN NoKey
  ELSE snapshots[attempts[a].version].key

\* The contract's variables.
PhaseSeen == [a \in AttemptIds |-> Phase(attempts[a].status)]
AnswerSeen == [a \in AttemptIds |-> attempts[a].answer]
KeySeen == [a \in AttemptIds |-> KeyOf(a)]
ScoreSeen == [a \in AttemptIds |-> attempts[a].score]
GrantsSeen == {a \in AttemptIds : attempts[a].readmitted}

\* What the contract sees of attempt a is what it saw.
SameToContract(a) ==
  /\ Phase(attempts'[a].status) = Phase(attempts[a].status)
  /\ attempts'[a].answer = attempts[a].answer
  /\ KeyOf(a)' = KeyOf(a)
  /\ attempts'[a].score = attempts[a].score
  /\ attempts'[a].readmitted = attempts[a].readmitted

\* One attempt changes, or some are extended, or some are submitted by a sweep.
LEMMA OneAtATime ==
  ASSUME TypeOK, HeldInProgress, [Next]_vars
  PROVE  \/ \E b \in AttemptIds : \A a \in AttemptIds \ {b} : LeftAlone(a)
         \/ \A a \in AttemptIds : LeftAlone(a) \/ IsExtended(a)
         \/ \A a \in AttemptIds : LeftAlone(a) \/ Submits(a)
  <1> DEFINE One == \E b \in AttemptIds : \A a \in AttemptIds \ {b} : LeftAlone(a)
             Extended == \A a \in AttemptIds : LeftAlone(a) \/ IsExtended(a)
             Submitted == \A a \in AttemptIds : LeftAlone(a) \/ Submits(a)
  <1>t. /\ attempts \in [AttemptIds -> Attempt]
        /\ events \in [AttemptIds -> Seq(EventTypes)]
        /\ moderation \in [AttemptIds -> Moderation]
    BY DEF TypeOK
  <1>1. CASE UNCHANGED attemptVars
    BY <1>1 DEF attemptVars, LeftAlone
  <1>2. CASE Extend
    <2> SUFFICES ASSUME NEW a \in AttemptIds PROVE LeftAlone(a) \/ IsExtended(a)
      OBVIOUS
    <2>1. LifeStep(a)
      BY LifeSteps
    <2>2. UNCHANGED <<events, moderation>>
      BY <1>2 DEF Extend
    <2>3. CASE InProgress(a)
      <3> PICK ends \in Instants :
            /\ quiz' = [quiz EXCEPT !.endsAt = ends]
            /\ attempts' =
                 [b \in AttemptIds |->
                    IF InProgress(b)
                    THEN [attempts[b] EXCEPT
                            !.deadline = Least(attempts[b].startedAt + quiz.duration, ends)]
                    ELSE attempts[b]]
        BY <1>2 DEF Extend
      <3>1. quiz'.endsAt = ends
        BY DEF TypeOK, Quiz
      <3> QED
        BY <1>2, <2>2, <2>3, <3>1 DEF IsExtended
    <2>4. CASE ~InProgress(a)
      BY <1>2, <2>2, <2>4 DEF Extend, LeftAlone
    <2> QED
      BY <2>3, <2>4
  <1>3. ASSUME NEW s \in Students, StartInsert(s) PROVE One
    <2> PICK n \in (1 .. MaxAttemptNo) \ Rows(s) :
          /\ attempts' = [attempts EXCEPT ![<<s, n>>] =
               [NoAttempt EXCEPT !.status = "in_progress",
                  !.version = start[s].version, !.startedAt = start[s].now,
                  !.deadline = Deadline(start[s])]]
          /\ Log("started", <<s, n>>)
          /\ moderation' = moderation
      BY <1>3 DEF StartInsert
    <2>1. <<s, n>> \in AttemptIds
      BY DEF AttemptIds
    <2>2. \A a \in AttemptIds \ {<<s, n>>} : LeftAlone(a)
      BY <1>t DEF Log, LeftAlone
    <2> QED
      BY <2>1, <2>2
  <1>4. ASSUME NEW b \in AttemptIds, OnAttempt(b) PROVE One
    <2>1. \A a \in AttemptIds \ {b} : LeftAlone(a)
      BY <1>4, <1>t
      DEF OnAttempt, SaveAnswer, SubmitManual, RecordViolation, LadderSubmit,
          Kick, Readmit, OverrideScore, Log, LeftAlone
    <2> QED
      BY <2>1
  <1>5. ASSUME NEW w \in Workers, SweepForced(w) PROVE Submitted
    <2> SUFFICES ASSUME NEW a \in AttemptIds PROVE LeftAlone(a) \/ Submits(a)
      OBVIOUS
    <2>1. CASE SweepKind(w, a) = "none"
      BY <1>5, <2>1 DEF SweepForced, LeftAlone
    <2>2. CASE SweepKind(w, a) # "none"
      <3>1. /\ InProgress(a)
            /\ SweepKind(w, a) \in {"auto", "forced"}
            /\ SweepKind(w, a) = "forced" => a \notin pass[w].todo /\ IsOver
        BY <1>5, <2>2, SweptInProgress
      <3>2. /\ attempts'[a] = Ended(a, "submitted", SweepKind(w, a))
            /\ events'[a] = Append(events[a], "submitted")
            /\ moderation' = moderation
            /\ At(w, "force")
        BY <1>5, <2>2 DEF SweepForced
      <3> QED
        BY <3>1, <3>2 DEF Submits
    <2> QED
      BY <2>1, <2>2
  <1>6. ASSUME NEW w \in Workers, NEW b \in AttemptIds, GradeOne(w, b) PROVE One
    <2>1. \A a \in AttemptIds \ {b} : LeftAlone(a)
      BY <1>6, <1>t DEF GradeOne, Log, LeftAlone
    <2> QED
      BY <2>1
  <1>7. CASE UNCHANGED vars
    BY <1>1, <1>7 DEF vars, attemptVars
  <1>8. CASE Tick \/ PeriodicSweep
    BY <1>1, <1>8 DEF Tick, PeriodicSweep
  <1>9. CASE TeacherOnQuiz
    BY <1>1, <1>2, <1>9
    DEF TeacherOnQuiz, AuthorQuestions, Publish, Cancel, ForceClose, Archive,
        ReleaseResults, SetAssignments
  <1>10. ASSUME NEW s \in Students, Starting(s) PROVE One \/ Extended \/ Submitted
    BY <1>1, <1>3, <1>10 DEF Starting, StartRead, StartEnd
  <1>11. ASSUME NEW w \in Workers, BeginPass(w) \/ PassStep(w) \/ FailPass(w)
         PROVE  One \/ Extended \/ Submitted
    BY <1>1, <1>5, <1>6, <1>11
    DEF PassStep, BeginPass, FailPass, OpenDue, SweepExpired, ListUngraded,
        ReleaseDue, ListRollup, ReadScores, RollupStudents, InsertStats
  <1> QED
    BY <1>4, <1>7, <1>8, <1>9, <1>10, <1>11 DEF Next

\* A key that is pinned stays what it was, whatever is published.
LEMMA KeysStay ==
  ASSUME TypeOK, VersionsExist, [Next]_vars, NEW a \in AttemptIds,
         attempts'[a].status = "none" <=> attempts[a].status = "none",
         attempts'[a].version = attempts[a].version
  PROVE  KeyOf(a)' = KeyOf(a)
  <1>1. CASE attempts[a].status = "none"
    BY <1>1 DEF KeyOf
  <1>2. CASE attempts[a].status # "none"
    <2>1. snapshots'[attempts[a].version] = snapshots[attempts[a].version]
      BY <1>2, SnapshotsGrow DEF VersionsExist
    <2> QED
      BY <1>2, <2>1 DEF KeyOf
  <1> QED
    BY <1>1, <1>2

\* The contract does not see an extension, a violation or a step elsewhere.
LEMMA Unseen ==
  ASSUME TypeOK, VersionsExist, [Next]_vars, NEW a \in AttemptIds,
         LeftAlone(a) \/ IsExtended(a) \/ Reports(a)
  PROVE  SameToContract(a)
  <1>1. /\ attempts'[a].status = attempts[a].status
        /\ attempts'[a].answer = attempts[a].answer
        /\ attempts'[a].version = attempts[a].version
        /\ attempts'[a].score = attempts[a].score
        /\ attempts'[a].readmitted = attempts[a].readmitted
    <2>a. attempts[a] \in Attempt
      BY DEF TypeOK
    <2>1. CASE LeftAlone(a)
      BY <2>1 DEF LeftAlone
    <2>2. CASE IsExtended(a)
      BY <2>a, <2>2 DEF IsExtended, Attempt
    <2>3. CASE Reports(a)
      BY <2>a, <2>3 DEF Reports, Attempt
    <2> QED
      BY <2>1, <2>2, <2>3
  <1> QED
    BY <1>1, KeysStay DEF SameToContract

\* What an attempt that changes shows the contract, its key left alone.
LEMMA Seen ==
  ASSUME TypeOK, VersionsExist, [Next]_vars, NEW a \in AttemptIds,
         \/ Saves(a) \/ Submits(a) \/ IsLaddered(a) \/ IsKicked(a) \/ IsGraded(a)
         \/ IsReadmitted(a) \/ IsZeroed(a)
  PROVE  /\ attempts[a].status # "none"
         /\ KeyOf(a)' = KeyOf(a)
         /\ ~Saves(a) => attempts'[a].answer = attempts[a].answer
         /\ ~IsGraded(a) /\ ~IsZeroed(a) => attempts'[a].score = attempts[a].score
         /\ ~IsReadmitted(a) => attempts'[a].readmitted = attempts[a].readmitted
  <1>a. attempts[a] \in Attempt
    BY DEF TypeOK
  <1>1. /\ attempts[a].status # "none" /\ attempts'[a].status # "none"
        /\ attempts'[a].version = attempts[a].version
        /\ ~Saves(a) => attempts'[a].answer = attempts[a].answer
        /\ ~IsGraded(a) /\ ~IsZeroed(a) => attempts'[a].score = attempts[a].score
        /\ ~IsReadmitted(a) => attempts'[a].readmitted = attempts[a].readmitted
    <2>1. CASE Saves(a)
      <3> PICK r : attempts'[a] = [attempts[a] EXCEPT !.answer = r]
        BY <2>1 DEF Saves
      <3> QED
        BY <1>a, <2>1 DEF InProgress, Saves, Attempt
    <2>2. CASE Submits(a)
      <3> PICK kind : attempts'[a] = Ended(a, "submitted", kind)
        BY <2>2 DEF Submits
      <3> QED
        BY <1>a, <2>2 DEF InProgress, Submits, Ended, Attempt
    <2>3. CASE IsLaddered(a)
      BY <1>a, <2>3 DEF InProgress, IsLaddered, Ended, Attempt
    <2>4. CASE IsKicked(a)
      BY <1>a, <2>4 DEF InProgress, IsKicked, Ended, Attempt
    <2>5. CASE IsGraded(a)
      BY <1>a, <2>5 DEF IsGraded, Graded, Ungraded, Attempt
    <2>6. CASE IsReadmitted(a)
      BY <1>a, <2>6 DEF IsReadmitted, Readmittable, Attempt
    <2>7. CASE IsZeroed(a)
      BY <1>a, <2>7 DEF IsZeroed, Attempt
    <2> QED
      BY <2>1, <2>2, <2>3, <2>4, <2>5, <2>6, <2>7
  <1> QED
    BY <1>1, KeysStay

\* The contract counts as the platform does.
LEMMA SameCardinality == ASSUME NEW S PROVE Contract!Cardinality(S) = Cardinality(S)
  BY DEF Contract!Cardinality, Cardinality, Contract!IsFiniteSet, IsFiniteSet

\* The phase of every status.
LEMMA Phases ==
  /\ Phase("none") = "absent" /\ Phase("in_progress") = "open"
  /\ Phase("submitted") = "ended" /\ Phase("kicked") = "ended"
  /\ Phase("graded") = "graded"
  BY DEF Phase

\* At first the contract's papers are absent.
LEMMA ContractInit == Init => Contract!Init
  <1> SUFFICES ASSUME Init PROVE Contract!Init
    OBVIOUS
  <1>1. \A a \in AttemptIds :
          /\ attempts[a].status = "none" /\ attempts[a].answer = "no row"
          /\ attempts[a].score = NoScore /\ ~attempts[a].readmitted
    BY DEF Init, NoAttempt
  <1> QED
    BY <1>1 DEF Contract!Init, Contract!Papers, AttemptIds, Phase

\* A step that no attempt shows the contract is a stutter.
LEMMA ContractStutters ==
  ASSUME \A a \in AttemptIds : SameToContract(a)
  PROVE  UNCHANGED Contract!contractVars
  BY DEF Contract!contractVars, SameToContract, KeyOf

\* A step that changes attempt a alone is a step of the contract.
LEMMA ContractOneStep ==
  ASSUME IInv, LifeInv, [Next]_vars, NEW a \in AttemptIds,
         \A b \in AttemptIds \ {a} : SameToContract(b)
  PROVE  Contract!Next \/ UNCHANGED Contract!contractVars
  <1>t. /\ TypeOK /\ VersionsExist /\ attempts[a] \in Attempt
        /\ snapshots \in Seq(Snapshot)
    BY DEF IInv, TypeOK
  <1>p. Contract!Papers = AttemptIds
    BY DEF Contract!Papers, AttemptIds
  <1>b. \A b \in AttemptIds \ {a} :
          /\ Phase(attempts'[b].status) = Phase(attempts[b].status)
          /\ attempts'[b].answer = attempts[b].answer
          /\ KeyOf(b)' = KeyOf(b)
          /\ attempts'[b].score = attempts[b].score
          /\ attempts'[b].readmitted = attempts[b].readmitted
    BY DEF SameToContract
  <1>1. CASE LeftAlone(a) \/ IsExtended(a) \/ Reports(a)
    <2>1. SameToContract(a)
      BY <1>t, <1>1, Unseen
    <2> QED
      BY <2>1, ContractStutters
  <1>2. CASE Opens(a)
    <2> PICK s \in Students, n \in 1 .. MaxAttemptNo : a = <<s, n>>
      BY DEF AttemptIds
    <2>1. /\ attempts[a].status = "none" /\ attempts[a] = NoAttempt
          /\ StartInsert(s) /\ HasSlot(s) /\ start[s].open
      BY <1>2 DEF Opens, StartInsert, LifeInv, UnopenedIsBlank
    <2>2. /\ attempts'[a].status = "in_progress"
          /\ attempts'[a].version = start[s].version
          /\ attempts'[a].answer = "no row" /\ attempts[a].answer = "no row"
          /\ attempts'[a].score = NoScore /\ attempts[a].score = NoScore
          /\ ~attempts'[a].readmitted /\ ~attempts[a].readmitted
      <3>1. a[1] = s
        OBVIOUS
      <3>2. attempts'[a] =
              [NoAttempt EXCEPT !.status = "in_progress",
                 !.version = start[s].version, !.startedAt = start[s].now,
                 !.deadline = Deadline(start[s])]
        BY <1>2, <3>1 DEF Opens
      <3>3. /\ attempts'[a].status = "in_progress"
            /\ attempts'[a].version = start[s].version
            /\ attempts'[a].answer = "no row"
            /\ attempts'[a].score = NoScore
            /\ ~attempts'[a].readmitted
        <4> DEFINE row == [NoAttempt EXCEPT !.status = "in_progress",
                             !.version = start[s].version, !.startedAt = start[s].now,
                             !.deadline = Deadline(start[s])]
        <4>1. /\ row.status = "in_progress" /\ row.version = start[s].version
              /\ row.answer = "no row" /\ row.score = NoScore /\ ~row.readmitted
          BY DEF NoAttempt
        <4> HIDE DEF row
        <4> QED
          BY <3>2, <4>1 DEF row
      <3>4. /\ attempts[a].answer = "no row"
            /\ attempts[a].score = NoScore
            /\ ~attempts[a].readmitted
        <4>1. /\ NoAttempt.answer = "no row"
              /\ NoAttempt.score = NoScore
              /\ ~NoAttempt.readmitted
          BY DEF NoAttempt
        <4> QED
          BY <2>1, <4>1
      <3> QED
        BY <3>3, <3>4
    <2>3. KeyOf(a)' \in Keys
      <3>1. start[s].version \in 1 .. Version /\ snapshots' = snapshots
        BY <1>t, <2>1 DEF VersionsExist, StartInsert
      <3>2. snapshots[start[s].version] \in Snapshot
        BY <1>t, <3>1 DEF Version
      <3> QED
        BY <2>2, <3>1, <3>2 DEF KeyOf, Snapshot
    <2>4. Cardinality(Contract!Opened(s)) < MaxAttempts + Cardinality(Contract!Grants(s))
      <3>1. Contract!Opened(s) = Rows(s)
        <4>1. \A m \in 1 .. MaxAttemptNo : <<s, m>> \in AttemptIds
          BY DEF AttemptIds
        <4> QED
          BY <4>1 DEF Contract!Opened, Rows, Phase
      <3>2. Contract!Grants(s) = Readmitted(s)
        <4>1. \A m \in 1 .. MaxAttemptNo :
                /\ <<s, m>> \in AttemptIds
                /\ attempts[<<s, m>>].readmitted => attempts[<<s, m>>].status # "none"
          BY DEF AttemptIds, LifeInv, KindTellsEnd, ModeratedOnce
        <4> QED
          BY <4>1 DEF Contract!Grants, Readmitted, Rows
      <3> QED
        BY <2>1, <3>1, <3>2 DEF HasSlot
    <2>5. Contract!Open(s, n)
      <3>1. PhaseSeen[a] = "absent" /\ PhaseSeen' = [PhaseSeen EXCEPT ![a] = "open"]
        BY <1>b, <2>1, <2>2 DEF PhaseSeen, Phase
      <3>2. KeySeen' = [KeySeen EXCEPT ![a] = KeyOf(a)']
        BY <1>b DEF KeySeen
      <3>3. UNCHANGED <<AnswerSeen, ScoreSeen, GrantsSeen>>
        BY <1>b, <2>2 DEF AnswerSeen, ScoreSeen, GrantsSeen
      <3> QED
        BY <2>3, <2>4, <3>1, <3>2, <3>3, SameCardinality
        DEF Contract!Open, PhaseSeen, KeySeen, AnswerSeen, ScoreSeen, GrantsSeen, KeyOf
    <2> QED
      BY <2>5 DEF Contract!Next
  <1>n. CASE \/ Saves(a) \/ Submits(a) \/ IsLaddered(a) \/ IsKicked(a) \/ IsGraded(a)
             \/ IsReadmitted(a) \/ IsZeroed(a)
    <2>s. /\ attempts[a].status # "none"
          /\ KeyOf(a)' = KeyOf(a)
          /\ ~Saves(a) => attempts'[a].answer = attempts[a].answer
          /\ ~IsGraded(a) /\ ~IsZeroed(a) => attempts'[a].score = attempts[a].score
          /\ ~IsReadmitted(a) => attempts'[a].readmitted = attempts[a].readmitted
      BY <1>t, <1>n, Seen
    <2>1. CASE Saves(a)
      <3> PICK r \in Responses \ {"no row"} :
            attempts'[a] = [attempts[a] EXCEPT !.answer = r]
        BY <2>1 DEF Saves
      <3>1. /\ attempts'[a].answer = r
            /\ attempts[a].status = "in_progress"
            /\ attempts'[a].status = "in_progress"
            /\ attempts'[a].score = attempts[a].score
            /\ attempts'[a].readmitted = attempts[a].readmitted
        BY <1>t, <2>1 DEF Saves, InProgress, Attempt
      <3>2. Contract!Write(a)
        <4>p. \A b \in AttemptIds : Phase(attempts'[b].status) = Phase(attempts[b].status)
          BY <1>b, <3>1
        <4>1. PhaseSeen[a] = "open" /\ PhaseSeen' = PhaseSeen
          BY <3>1, <4>p, Phases DEF PhaseSeen
        <4>2. AnswerSeen' = [AnswerSeen EXCEPT ![a] = r]
          BY <1>b, <3>1 DEF AnswerSeen
        <4>3. UNCHANGED <<KeySeen, ScoreSeen, GrantsSeen>>
          BY <1>b, <2>s, <3>1 DEF KeySeen, ScoreSeen, GrantsSeen
        <4> QED
          BY <4>1, <4>2, <4>3
          DEF Contract!Write, PhaseSeen, KeySeen, AnswerSeen, ScoreSeen, GrantsSeen, KeyOf
      <3> QED
        BY <1>p, <3>2 DEF Contract!Next
    <2>2. CASE Submits(a) \/ IsLaddered(a) \/ IsKicked(a)
      <3>1. /\ attempts[a].status = "in_progress"
            /\ attempts'[a].status \in {"submitted", "kicked"}
            /\ attempts'[a].answer = attempts[a].answer
            /\ attempts'[a].score = attempts[a].score
            /\ attempts'[a].readmitted = attempts[a].readmitted
        BY <1>t, <2>2
        DEF Submits, IsLaddered, IsKicked, InProgress, Ended, Attempt
      <3>2. Contract!End({a})
        BY <1>b, <1>p, <2>s, <3>1 DEF Contract!End, Phase, KeyOf
      <3> QED
        BY <1>p, <3>2 DEF Contract!Next
    <2>3. CASE IsGraded(a)
      <3>1. /\ attempts[a].status \in {"submitted", "kicked"}
            /\ attempts'[a].status = "graded"
            /\ attempts'[a].answer = attempts[a].answer
            /\ attempts'[a].score = Score(attempts[a].answer, KeyOf(a))
            /\ attempts'[a].readmitted = attempts[a].readmitted
        BY <1>t, <2>3 DEF IsGraded, Ungraded, Graded, KeyOf, Attempt
      <3>2. Contract!Grade(a)
        BY <1>b, <2>s, <3>1 DEF Contract!Grade, Phase, KeyOf, Score
      <3> QED
        BY <1>p, <3>2 DEF Contract!Next
    <2>4. CASE IsReadmitted(a)
      <3>1. /\ attempts[a].status = "kicked"
            /\ attempts'[a].status = "kicked"
            /\ attempts'[a].answer = attempts[a].answer
            /\ attempts'[a].score = attempts[a].score
            /\ attempts'[a].readmitted
        BY <1>t, <2>4 DEF IsReadmitted, Readmittable, Attempt
      <3>2. Contract!Grant(a)
        BY <1>b, <2>s, <3>1 DEF Contract!Grant, Phase, KeyOf
      <3> QED
        BY <1>p, <3>2 DEF Contract!Next
    <2>5. CASE IsZeroed(a)
      <3>1. /\ attempts[a].status = "graded"
            /\ attempts'[a].status = "graded"
            /\ attempts'[a].answer = attempts[a].answer
            /\ attempts'[a].score = 0
            /\ attempts'[a].readmitted = attempts[a].readmitted
        BY <1>t, <2>5 DEF IsZeroed, Attempt
      <3>2. Contract!Zero(a)
        BY <1>b, <2>s, <3>1 DEF Contract!Zero, Phase, KeyOf
      <3> QED
        BY <1>p, <3>2 DEF Contract!Next
    <2> QED
      BY <1>n, <2>1, <2>2, <2>3, <2>4, <2>5
  <1> QED
    BY <1>1, <1>2, <1>n, LifeSteps DEF LifeStep, IInv

\* A sweep that submits several attempts ends their papers together.
LEMMA ContractSweep ==
  ASSUME IInv, [Next]_vars, \A a \in AttemptIds : LeftAlone(a) \/ Submits(a)
  PROVE  Contract!Next
  <1> DEFINE ending == {a \in AttemptIds : Submits(a)}
  <1>t. TypeOK /\ VersionsExist /\ attempts \in [AttemptIds -> Attempt]
    BY DEF IInv, TypeOK
  <1>p. Contract!Papers = AttemptIds
    BY DEF Contract!Papers, AttemptIds
  <1>1. ASSUME NEW a \in ending
        PROVE  /\ attempts[a].status = "in_progress"
               /\ attempts'[a].status = "submitted"
               /\ KeyOf(a)' = KeyOf(a)
               /\ attempts'[a].answer = attempts[a].answer
               /\ attempts'[a].score = attempts[a].score
               /\ attempts'[a].readmitted = attempts[a].readmitted
    <2>1. KeyOf(a)' = KeyOf(a)
      BY <1>t, Seen
    <2> PICK kind : attempts'[a] = Ended(a, "submitted", kind)
      BY DEF Submits
    <2>2. attempts[a] \in Attempt /\ attempts[a].status = "in_progress"
      BY <1>t DEF Submits, InProgress
    <2> QED
      BY <2>1, <2>2 DEF Ended, Attempt
  <1>2. ASSUME NEW a \in AttemptIds \ ending PROVE SameToContract(a)
    BY <1>t, Unseen
  <1> HIDE DEF ending
  <1>3. ending \in SUBSET AttemptIds
    BY DEF ending
  <1>4. \A a \in AttemptIds :
          /\ Phase(attempts'[a].status) =
               IF a \in ending THEN "ended" ELSE Phase(attempts[a].status)
          /\ KeyOf(a)' = KeyOf(a)
          /\ attempts'[a].answer = attempts[a].answer
          /\ attempts'[a].score = attempts[a].score
          /\ attempts'[a].readmitted = attempts[a].readmitted
    BY <1>1, <1>2 DEF SameToContract, Phase
  <1>5. Contract!End(ending)
    BY <1>1, <1>3, <1>4, <1>p DEF Contract!End, Phase, KeyOf
  <1> QED
    BY <1>3, <1>5, <1>p DEF Contract!Next

\* The platform implements its contract: every behaviour, seen through phases,
\* answers, pinned keys, scores and grants, is one of the contract's.
THEOREM PlatformImplementsContract == Spec => ImplementsContract
  <1>1. Init => Contract!Init
    BY ContractInit
  <1>2. IInv /\ LifeInv /\ [Next]_vars => [Contract!Next]_(Contract!contractVars)
    <2> SUFFICES ASSUME IInv, LifeInv, [Next]_vars
                 PROVE  Contract!Next \/ UNCHANGED Contract!contractVars
      OBVIOUS
    <2>t. TypeOK /\ HeldInProgress /\ VersionsExist
      BY DEF IInv
    <2>1. CASE \E b \in AttemptIds : \A a \in AttemptIds \ {b} : LeftAlone(a)
      <3> PICK b \in AttemptIds : \A a \in AttemptIds \ {b} : LeftAlone(a)
        BY <2>1
      <3>1. \A a \in AttemptIds \ {b} : SameToContract(a)
        BY <2>t, Unseen
      <3> QED
        BY <3>1, ContractOneStep
    <2>2. CASE \A a \in AttemptIds : LeftAlone(a) \/ IsExtended(a)
      BY <2>t, <2>2, Unseen, ContractStutters
    <2>3. CASE \A a \in AttemptIds : LeftAlone(a) \/ Submits(a)
      BY <2>3, ContractSweep
    <2> QED
      BY <2>t, <2>1, <2>2, <2>3, OneAtATime
  <1> QED
    BY <1>1, <1>2, Inductive, LifeInductive, PTL
    DEF Spec, ImplementsContract, Contract!Spec
-----------------------------------------------------------------------------
(* What a step can do to the quiz row.                                     *)

KeepsWindow ==
  /\ quiz'.status = quiz.status
  /\ quiz'.startsAt = quiz.startsAt
  /\ quiz'.endsAt = quiz.endsAt
  /\ quiz'.duration = quiz.duration
  /\ quiz.released => quiz'.released

GoesLive ==
  /\ quiz.status = "scheduled"
  /\ quiz' = [quiz EXCEPT !.status = "live"]

Closes ==
  /\ quiz.status \in {"scheduled", "live"}
  /\ quiz'.status = "closed"
  /\ quiz'.duration = quiz.duration
  /\ quiz.released => quiz'.released

Archives ==
  /\ quiz.status = "closed"
  /\ quiz' = [quiz EXCEPT !.status = "archived"]

QuizStep ==
  \/ KeepsWindow
  \/ Publish
  \/ Cancel
  \/ Extend
  \/ GoesLive
  \/ Closes
  \/ Archives

\* No step does anything else to it.
LEMMA QuizSteps ==
  ASSUME TypeOK, [Next]_vars
  PROVE  QuizStep
  <1>q. quiz \in Quiz
    BY DEF TypeOK
  <1>1. CASE UNCHANGED quiz
    BY <1>1 DEF KeepsWindow, QuizStep
  <1>2. CASE AuthorQuestions
    <2> PICK k : quiz' = [quiz EXCEPT !.key = k]
      BY <1>2 DEF AuthorQuestions
    <2> QED
      BY <1>q DEF Quiz, KeepsWindow, QuizStep
  <1>3. CASE ForceClose
    <2> PICK t : quiz' = [quiz EXCEPT !.status = "closed", !.endsAt = t]
      BY <1>3 DEF ForceClose
    <2> QED
      BY <1>q, <1>3 DEF ForceClose, Closable, Quiz, Closes, QuizStep
  <1>4. CASE Archive
    BY <1>4 DEF Archive, Archives, QuizStep
  <1>5. CASE ReleaseResults
    <2>1. /\ quiz'.status = IF quiz.status = "archived" THEN "archived" ELSE "closed"
          /\ quiz'.startsAt = quiz.startsAt
          /\ quiz'.endsAt = quiz.endsAt
          /\ quiz'.duration = quiz.duration
          /\ quiz'.released
      BY <1>q, <1>5 DEF ReleaseResults, Quiz
    <2>2. quiz.status \in {"scheduled", "live", "closed", "archived"}
      BY <1>5 DEF ReleaseResults, EffectiveStatus
    <2> QED
      BY <2>1, <2>2 DEF KeepsWindow, Closes, QuizStep
  <1>6. ASSUME NEW w \in Workers, BeginPass(w) PROVE QuizStep
    BY <1>q, <1>6 DEF BeginPass, Quiz, KeepsWindow, Closes, QuizStep
  <1>7. ASSUME NEW w \in Workers, OpenDue(w) PROVE QuizStep
    BY <1>7 DEF OpenDue, KeepsWindow, GoesLive, QuizStep
  <1>8. ASSUME NEW w \in Workers, ReleaseDue(w) PROVE QuizStep
    BY <1>q, <1>8 DEF ReleaseDue, Quiz, KeepsWindow, QuizStep
  <1>9. \/ UNCHANGED quiz
        \/ TeacherOnQuiz
        \/ \E w \in Workers : BeginPass(w) \/ OpenDue(w) \/ ReleaseDue(w)
    BY DEF Next, vars, Tick, PeriodicSweep, Starting, StartRead, StartInsert,
      StartEnd, OnAttempt, SaveAnswer, SubmitManual, RecordViolation, LadderSubmit,
      Kick, Readmit, OverrideScore, PassStep, FailPass, SweepExpired, SweepForced,
      ListUngraded, GradeOne, ListRollup, ReadScores, RollupStudents, InsertStats
  <1> QED
    BY <1>1, <1>2, <1>3, <1>4, <1>5, <1>6, <1>7, <1>8, <1>9
    DEF TeacherOnQuiz, SetAssignments, QuizStep

\* A closed quiz never reopens nor moves its end, an archived one stays archived, a
\* release is never taken back and a rollup is never rewritten.
THEOREM OutcomesStayFinal == Spec => OutcomesAreFinal
  <1> DEFINE Final ==
        /\ quiz.status = "archived" => quiz'.status = "archived"
        /\ quiz.status = "closed" =>
             quiz'.status \in {"closed", "archived"} /\ quiz'.endsAt = quiz.endsAt
        /\ quiz.released => quiz'.released
        /\ quizStats.written => quizStats' = quizStats
  <1>1. TypeOK /\ [Next]_vars => Final
    <2> SUFFICES ASSUME TypeOK, [Next]_vars PROVE Final
      OBVIOUS
    <2>q. quiz \in Quiz
      BY DEF TypeOK
    <2>1. /\ quiz.status = "archived" => quiz'.status = "archived"
          /\ quiz.status = "closed" =>
               quiz'.status \in {"closed", "archived"} /\ quiz'.endsAt = quiz.endsAt
          /\ quiz.released => quiz'.released
      <3>1. CASE KeepsWindow \/ Closes
        BY <3>1 DEF KeepsWindow, Closes
      <3>2. CASE GoesLive \/ Archives
        BY <2>q, <3>2 DEF GoesLive, Archives, Quiz
      <3>3. CASE Publish
        <4> PICK starts \in Instants, ends \in Instants, d \in Durations,
                 p \in Policies :
              quiz' = [quiz EXCEPT !.status = "scheduled", !.startsAt = starts,
                         !.endsAt = ends, !.duration = d, !.policy = p]
          BY <3>3 DEF Publish
        <4>1. quiz.status \in {"draft", "scheduled"}
          BY <3>3 DEF Publish
        <4> QED
          BY <2>q, <4>1 DEF Quiz
      <3>4. CASE Cancel
        BY <2>q, <3>4 DEF Cancel, Cancellable, Quiz
      <3>5. CASE Extend
        <4> PICK ends : Extendable(ends) /\ quiz' = [quiz EXCEPT !.endsAt = ends]
          BY <3>5 DEF Extend
        <4>1. quiz.status \in {"scheduled", "live"}
          BY DEF Extendable, EffectiveStatus
        <4> QED
          BY <2>q, <4>1 DEF Quiz
      <3> QED
        BY <3>1, <3>2, <3>3, <3>4, <3>5, QuizSteps DEF QuizStep
    <2>2. quizStats.written => quizStats' = quizStats
      <3>1. UNCHANGED quizStats \/ \E w \in Workers : InsertStats(w)
        BY DEF Next, vars, workerVars, Tick, PeriodicSweep, TeacherOnQuiz,
          AuthorQuestions, Publish, Cancel, ForceClose, Extend, Archive,
          ReleaseResults, SetAssignments, Starting, StartRead, StartInsert,
          StartEnd, OnAttempt, SaveAnswer, SubmitManual, RecordViolation,
          LadderSubmit, Kick, Readmit, OverrideScore, PassStep, BeginPass,
          FailPass, OpenDue, SweepExpired, SweepForced, ListUngraded, GradeOne, ReleaseDue,
          ListRollup, ReadScores, RollupStudents
      <3> QED
        BY <3>1 DEF InsertStats
    <2> QED
      BY <2>1, <2>2
  <1>2. Spec => [][Final]_vars
    BY <1>1, TypeCorrect, PTL DEF Spec
  <1> QED
    BY <1>2 DEF OutcomesAreFinal
-----------------------------------------------------------------------------
(* The job that closes the quiz.                                           *)

\* Only the clock and a worker that takes a job touch the queue but to add to it.
LEMMA JobSteps ==
  ASSUME [Next]_vars
  PROVE  \/ Tick
         \/ \E w \in Workers : BeginPass(w)
         \/ now' = now /\ jobs \subseteq jobs'
  <1>1. CASE UNCHANGED <<now, jobs>>
    BY <1>1
  <1>2. CASE TeacherOnQuiz
    BY <1>2, EnqueueKeeps
    DEF TeacherOnQuiz, AuthorQuestions, Publish, Cancel, ForceClose, Extend,
        Archive, ReleaseResults, SetAssignments
  <1>3. ASSUME NEW s \in Students, StartInsert(s)
        PROVE  now' = now /\ jobs \subseteq jobs'
    BY <1>3, EnqueueKeeps DEF StartInsert
  <1>4. ASSUME NEW a \in AttemptIds, SubmitManual(a) \/ LadderSubmit(a) \/ Kick(a)
        PROVE  now' = now /\ jobs \subseteq jobs'
    BY <1>4, EnqueueKeeps DEF SubmitManual, LadderSubmit, Kick
  <1>5. CASE PeriodicSweep
    BY <1>5, EnqueueKeeps DEF PeriodicSweep
  <1>6. ASSUME NEW w \in Workers, FailPass(w)
        PROVE  now' = now /\ jobs \subseteq jobs'
    BY <1>6, EnqueueKeeps DEF FailPass
  <1>7. \/ UNCHANGED <<now, jobs>>
        \/ Tick \/ TeacherOnQuiz \/ PeriodicSweep
        \/ \E s \in Students : StartInsert(s)
        \/ \E a \in AttemptIds : SubmitManual(a) \/ LadderSubmit(a) \/ Kick(a)
        \/ \E w \in Workers : BeginPass(w) \/ FailPass(w)
    BY DEF Next, vars, Starting, StartRead, StartEnd, OnAttempt, SaveAnswer,
      RecordViolation, Readmit, OverrideScore, PassStep, OpenDue, SweepExpired, SweepForced,
      ListUngraded, GradeOne, ReleaseDue, ListRollup, ReadScores, RollupStudents,
      InsertStats
  <1> QED
    BY <1>1, <1>2, <1>3, <1>4, <1>5, <1>6, <1>7

\* A queued instant is a job, due now when it has passed.
LEMMA EnqueueAdds ==
  ASSUME NEW instants, NEW t \in instants, Enqueue(instants)
  PROVE  (IF t < now THEN now ELSE t) \in jobs'
  BY DEF Enqueue

\* No step takes the last job for the end of a window without closing the quiz.
LEMMA EndStaysQueued ==
  ASSUME TypeOK, EndIsQueued, [Next]_vars
  PROVE  EndIsQueued'
  <1> SUFFICES ASSUME quiz'.status \in {"scheduled", "live"}
               PROVE  /\ quiz'.startsAt < quiz'.endsAt
                      /\ (IF quiz'.endsAt < now' THEN now' ELSE quiz'.endsAt) \in jobs'
    BY DEF EndIsQueued
  <1>q. quiz \in Quiz /\ quiz.startsAt \in Int /\ quiz.endsAt \in Int
    BY Bounds DEF TypeOK, Quiz, Time, NoTime
  <1>n. now \in Int /\ jobs \subseteq Int
    BY Bounds DEF TypeOK, Time
  <1>1. CASE KeepsWindow \/ GoesLive
    <2>1. /\ quiz.status \in {"scheduled", "live"}
          /\ quiz'.startsAt = quiz.startsAt
          /\ quiz'.endsAt = quiz.endsAt
      BY <1>1, <1>q DEF KeepsWindow, GoesLive, Quiz
    <2>2. /\ quiz.startsAt < quiz.endsAt
          /\ (IF quiz.endsAt < now THEN now ELSE quiz.endsAt) \in jobs
      BY <2>1 DEF EndIsQueued
    <2>3. CASE Tick
      <3>1. /\ now' = now + 1
            /\ \A j \in jobs : (IF j <= now THEN now' ELSE j) \in jobs'
        BY <2>3 DEF Tick
      <3> QED
        BY <1>q, <1>n, <2>1, <2>2, <3>1
    <2>4. ASSUME NEW w \in Workers, BeginPass(w)
          PROVE  (IF quiz'.endsAt < now' THEN now' ELSE quiz'.endsAt) \in jobs'
      <3>1. now' = now /\ jobs' = jobs \ {now}
        BY <2>4 DEF BeginPass
      <3>2. ~ (quiz.endsAt <= now)
        BY <1>q, <2>1, <2>4 DEF BeginPass, Quiz
      <3> QED
        BY <1>q, <1>n, <2>1, <2>2, <3>1, <3>2
    <2>5. CASE now' = now /\ jobs \subseteq jobs'
      BY <2>1, <2>2, <2>5
    <2> QED
      BY <2>1, <2>2, <2>3, <2>4, <2>5, JobSteps
  <1>2. CASE Publish
    <2> PICK starts \in Instants, ends \in Instants, d \in Durations,
             p \in Policies :
          /\ starts < ends
          /\ quiz' = [quiz EXCEPT !.status = "scheduled", !.startsAt = starts,
                        !.endsAt = ends, !.duration = d, !.policy = p]
          /\ Enqueue(WindowJobs(starts, ends))
          /\ now' = now
      BY <1>2 DEF Publish
    <2>1. quiz'.startsAt = starts /\ quiz'.endsAt = ends
      BY <1>q DEF Quiz
    <2>2. (IF ends < now THEN now ELSE ends) \in jobs'
      BY EnqueueAdds DEF WindowJobs
    <2> QED
      BY <2>1, <2>2
  <1>3. CASE Extend
    <2> PICK ends \in Instants :
          /\ Extendable(ends)
          /\ quiz' = [quiz EXCEPT !.endsAt = ends]
          /\ Enqueue({ends})
          /\ now' = now
      BY <1>3 DEF Extend
    <2>1. quiz.status \in {"scheduled", "live"} /\ ends > quiz.endsAt
      BY DEF Extendable, EffectiveStatus
    <2>2. quiz'.startsAt = quiz.startsAt /\ quiz'.endsAt = ends
      BY <1>q DEF Quiz
    <2>3. quiz.startsAt < quiz.endsAt
      BY <2>1 DEF EndIsQueued
    <2>4. (IF ends < now THEN now ELSE ends) \in jobs'
      BY EnqueueAdds
    <2>5. ends \in Int
      BY InstantsAreTimes, Bounds
    <2> QED
      BY <1>q, <2>1, <2>2, <2>3, <2>4, <2>5
  <1>4. ~ (Cancel \/ Closes \/ Archives)
    BY <1>q DEF Cancel, Closes, Archives, Quiz
  <1> QED
    BY <1>1, <1>2, <1>3, <1>4, QuizSteps DEF QuizStep

\* The quiz is closed no later than its end: the job that will is queued.
THEOREM CloseIsAlwaysQueued == Spec => []CloseIsQueued
  <1>1. Init => EndIsQueued
    BY DEF Init, EndIsQueued
  <1>2. TypeOK /\ EndIsQueued /\ [Next]_vars => EndIsQueued'
    BY EndStaysQueued
  <1>3. TypeOK /\ EndIsQueued => CloseIsQueued
    <2> SUFFICES ASSUME TypeOK, EndIsQueued, quiz.status \in {"scheduled", "live"}
                 PROVE  \E j \in jobs :
                          (quiz.startsAt <= j /\ j <= quiz.endsAt) \/ j = now
      BY DEF CloseIsQueued
    <2>1. quiz.startsAt \in Int /\ quiz.endsAt \in Int /\ now \in Int
      BY Bounds DEF TypeOK, Quiz, Time, NoTime
    <2> QED
      BY <2>1 DEF EndIsQueued
  <1> QED
    BY <1>1, <1>2, <1>3, TypeCorrect, PTL DEF Spec
-----------------------------------------------------------------------------
(* The window and the audience, when no quiz is rescheduled after it opened *)
(* and transaction clocks do not lag.                                       *)

\* An attempt that is in progress was just opened, extended, or had the same times.
LEMMA ProgressSteps ==
  ASSUME TypeOK, HeldInProgress, [Next]_vars, NEW a \in AttemptIds, attempts'[a].status = "in_progress"
  PROVE  \/ Opens(a)
         \/ IsExtended(a)
         \/ /\ InProgress(a)
            /\ attempts'[a].deadline = attempts[a].deadline
            /\ attempts'[a].startedAt = attempts[a].startedAt
  <1>a. attempts[a] \in Attempt
    BY DEF TypeOK
  <1>1. CASE LeftAlone(a)
    BY <1>1 DEF LeftAlone, InProgress
  <1>2. CASE Saves(a)
    BY <1>a, <1>2 DEF Saves, Attempt
  <1>3. CASE Reports(a)
    BY <1>a, <1>3 DEF Reports, Attempt
  <1>4. ~ (Submits(a) \/ IsLaddered(a) \/ IsKicked(a))
    BY <1>a DEF Submits, IsLaddered, IsKicked, Ended, Attempt
  <1>5. ~ (IsGraded(a) \/ IsReadmitted(a) \/ IsZeroed(a))
    BY <1>a DEF IsGraded, Graded, IsReadmitted, Readmittable, IsZeroed, Attempt
  <1> QED
    BY <1>1, <1>2, <1>3, <1>4, <1>5, LifeSteps DEF LifeStep

\* A Start is under way that was, or that has just read the quiz.
LEMMA StartsUnderWay ==
  ASSUME TypeOK, [Next]_vars, NEW s \in Students, start'[s].open
  PROVE  \/ start'[s] = start[s] /\ ~StartInsert(s)
         \/ StartRead(s)
  <1>t. start \in [Students -> StartTx]
    BY DEF TypeOK
  <1>1. ASSUME NEW r \in Students, Starting(r)
        PROVE  start'[s] = start[s] \/ StartRead(s)
    BY <1>t, <1>1 DEF Starting, StartRead, StartInsert, StartEnd, NoStart
  <1>2. UNCHANGED start \/ \E r \in Students : Starting(r)
    BY DEF Next, vars, Tick, PeriodicSweep, TeacherOnQuiz, AuthorQuestions, Publish,
      Cancel, ForceClose, Extend, Archive, ReleaseResults, SetAssignments,
      OnAttempt, SaveAnswer, SubmitManual, RecordViolation, LadderSubmit, Kick,
      Readmit, OverrideScore, PassStep, BeginPass, FailPass, OpenDue,
      SweepExpired, SweepForced, ListUngraded, GradeOne, ReleaseDue, ListRollup, ReadScores,
      RollupStudents, InsertStats
  <1>3. ~StartInsert(s)
    BY <1>t DEF StartInsert, NoStart
  <1> QED
    BY <1>1, <1>2, <1>3

\* Who may take the quiz changes with SetAssignments alone.
LEMMA AudienceSteps ==
  ASSUME [Next]_vars
  PROVE  UNCHANGED assigned \/ SetAssignments
  BY DEF Next, vars, Tick, PeriodicSweep, TeacherOnQuiz, AuthorQuestions, Publish,
    Cancel, ForceClose, Extend, Archive, ReleaseResults, Starting, StartRead,
    StartInsert, StartEnd, OnAttempt, SaveAnswer, SubmitManual, RecordViolation,
    LadderSubmit, Kick, Readmit, OverrideScore, PassStep, BeginPass, FailPass,
    OpenDue, SweepExpired, SweepForced, ListUngraded, GradeOne, ReleaseDue, ListRollup,
    ReadScores, RollupStudents, InsertStats

\* The clock does not go back.
LEMMA ClockSteps ==
  ASSUME TypeOK, [Next]_vars
  PROVE  now \in Int /\ now' \in Int /\ now <= now'
  <1>1. now \in Int
    BY Bounds DEF TypeOK, Time
  <1> QED
    BY <1>1, JobSteps DEF Tick, BeginPass

\* A transaction clock that does not lag shows the time.
LEMMA RecentIsNow ==
  ASSUME Lag = 0, TypeOK, NEW t \in Recent
  PROVE  t = now
  BY Bounds DEF TypeOK, Recent, Time

Begun == (\E a \in AttemptIds : InProgress(a)) \/ (\E s \in Students : start[s].open)

\* What is begun leaves a careful teacher no reschedule, and no cancel.
LEMMA NothingBegun ==
  ASSUME Lag = 0, TypeOK, BegunInWindow,
         \/ Publish /\ ReschedulesBeforeOpening
         \/ Cancel
         \/ EffectiveStatus(quiz, now) \in {"draft", "scheduled"}
  PROVE  ~Begun
  <1>q. quiz \in Quiz /\ quiz.startsAt \in Int /\ quiz.endsAt \in Int /\ now \in Int
    BY Bounds DEF TypeOK, Quiz, Time, NoTime
  <1>b. Begun => /\ quiz.status # "draft"
                 /\ quiz.status \in {"scheduled", "live"} => quiz.startsAt <= now
    BY DEF Begun, BegunInWindow
  <1>1. CASE EffectiveStatus(quiz, now) \in {"draft", "scheduled"}
    BY <1>q, <1>b, <1>1 DEF EffectiveStatus
  <1>2. CASE Publish /\ ReschedulesBeforeOpening
    <2> PICK g \in Guardrails : snapshots' = Snapshotted(g)
      BY <1>2 DEF Publish
    <2>1. snapshots' # snapshots
      BY DEF Snapshotted, TypeOK
    <2> QED
      BY <1>1, <1>2, <2>1 DEF ReschedulesBeforeOpening
  <1>3. CASE Cancel
    <2>1. quiz.status = "scheduled" /\ now < quiz.startsAt
      BY <1>3, RecentIsNow DEF Cancel, Cancellable
    <2> QED
      BY <1>q, <1>b, <2>1
  <1> QED
    BY <1>1, <1>2, <1>3

\* The careful teacher's inductive invariant.
CarefulInv ==
  /\ HeldInProgress
  /\ BegunInWindow
  /\ StartsAreCurrent
  /\ DeadlineInDuration
  /\ InProgressIsAssigned
  /\ DeadlineInWindow

\* What is begun after a step was begun before it, or is just read by a Start.
LEMMA BegunSteps ==
  ASSUME TypeOK, HeldInProgress, [Next]_vars, Begun'
  PROVE  Begun \/ \E s \in Students : StartRead(s)
  <1>1. ASSUME NEW a \in AttemptIds, attempts'[a].status = "in_progress" PROVE Begun
    <2>1. CASE Opens(a)
      <3>1. a[1] \in Students /\ start[a[1]].open
        BY <2>1 DEF Opens, StartInsert, AttemptIds
      <3> QED
        BY <3>1 DEF Begun
    <2>2. CASE InProgress(a)
      BY <2>2 DEF Begun
    <2> QED
      BY <1>1, <2>1, <2>2, ProgressSteps DEF IsExtended
  <1>2. ASSUME NEW s \in Students, start'[s].open
        PROVE  Begun \/ StartRead(s)
    BY <1>2, StartsUnderWay DEF Begun
  <1> QED
    BY <1>1, <1>2 DEF Begun, InProgress

\* Nothing is begun before the window opens.
LEMMA BegunStaysInWindow ==
  ASSUME Lag = 0, TypeOK, HeldInProgress, BegunInWindow, [Next /\ ReschedulesBeforeOpening]_vars
  PROVE  BegunInWindow'
  <1> SUFFICES ASSUME Begun'
               PROVE  /\ quiz'.status # "draft"
                      /\ quiz'.status \in {"scheduled", "live"} => quiz'.startsAt <= now'
    BY DEF BegunInWindow, Begun
  <1>q. quiz \in Quiz /\ quiz.startsAt \in Int /\ quiz.endsAt \in Int
    BY Bounds DEF TypeOK, Quiz, Time, NoTime
  <1>n. now \in Int /\ now' \in Int /\ now <= now'
    BY ClockSteps
  <1>1. ASSUME NEW s \in Students, StartRead(s)
        PROVE  /\ quiz'.status # "draft"
               /\ quiz'.status \in {"scheduled", "live"} => quiz'.startsAt <= now'
    <2>1. /\ quiz.status \in {"scheduled", "live"} /\ quiz' = quiz /\ now' = now
          /\ \E t \in Recent : quiz.startsAt <= t
      BY <1>1 DEF StartRead
    <2> QED
      BY <2>1, RecentIsNow
  <1>2. CASE Begun
    <2>b. /\ quiz.status # "draft"
          /\ quiz.status \in {"scheduled", "live"} => quiz.startsAt <= now
      BY <1>2 DEF Begun, BegunInWindow
    <2>1. CASE KeepsWindow \/ GoesLive \/ Closes \/ Archives
      <3>1. /\ quiz'.status # "draft"
            /\ quiz'.status \in {"scheduled", "live"} =>
                 quiz.status \in {"scheduled", "live"} /\ quiz'.startsAt = quiz.startsAt
        BY <1>q, <2>b, <2>1 DEF KeepsWindow, GoesLive, Closes, Archives, Quiz
      <3> QED
        BY <1>q, <1>n, <2>b, <3>1
    <2>2. CASE Extend
      <3> PICK ends : Extendable(ends) /\ quiz' = [quiz EXCEPT !.endsAt = ends]
        BY <2>2 DEF Extend
      <3>1. quiz'.status = quiz.status /\ quiz'.startsAt = quiz.startsAt
        BY <1>q DEF Quiz
      <3> QED
        BY <1>q, <1>n, <2>b, <3>1
    <2>3. ~Publish /\ ~Cancel
      <3>1. CASE UNCHANGED vars
        <4>1. quiz' = quiz /\ snapshots' = snapshots
          BY <3>1 DEF vars
        <4>2. ~Publish
          <5> SUFFICES ASSUME Publish PROVE FALSE
            OBVIOUS
          <5> PICK g \in Guardrails : snapshots' = Snapshotted(g)
            BY DEF Publish
          <5> QED
            BY <4>1 DEF Snapshotted, TypeOK
        <4>3. ~Cancel
          BY <1>q, <4>1 DEF Cancel, Cancellable, Quiz
        <4> QED
          BY <4>2, <4>3
      <3>2. CASE ReschedulesBeforeOpening
        BY <1>2, <3>2, NothingBegun
      <3> QED
        BY <3>1, <3>2
    <2> QED
      BY <2>1, <2>2, <2>3, QuizSteps DEF QuizStep
  <1> QED
    BY <1>1, <1>2, BegunSteps

\* What a careful step does to the window while something is begun.
LEMMA CarefulWindow ==
  ASSUME Lag = 0, TypeOK, BegunInWindow, [Next /\ ReschedulesBeforeOpening]_vars, Begun
  PROVE  /\ quiz'.duration = quiz.duration
         /\ quiz'.status \in {"scheduled", "live"} =>
              quiz.status \in {"scheduled", "live"} /\ quiz'.endsAt >= quiz.endsAt
  <1>q. quiz \in Quiz /\ quiz.startsAt \in Int /\ quiz.endsAt \in Int
    BY Bounds DEF TypeOK, Quiz, Time, NoTime
  <1>1. CASE KeepsWindow \/ Closes
    BY <1>q, <1>1 DEF KeepsWindow, Closes
  <1>2. CASE GoesLive \/ Archives
    BY <1>q, <1>2 DEF GoesLive, Archives, Quiz
  <1>3. CASE Extend
    <2> PICK ends \in Instants :
          Extendable(ends) /\ quiz' = [quiz EXCEPT !.endsAt = ends]
      BY <1>3 DEF Extend
    <2>1. ends \in Int
      BY InstantsAreTimes, Bounds
    <2> QED
      BY <1>q, <2>1 DEF Quiz, Extendable
  <1>4. CASE UNCHANGED vars
    BY <1>q, <1>4 DEF vars
  <1>5. CASE ReschedulesBeforeOpening /\ (Publish \/ Cancel)
    BY <1>5, NothingBegun
  <1> QED
    BY <1>1, <1>2, <1>3, <1>4, <1>5, QuizSteps DEF QuizStep

\* The times a Start under way has read.
LEMMA StartTimes ==
  ASSUME NEW tx \in StartTx, tx.open
  PROVE  tx.now \in Int /\ tx.endsAt \in Int /\ tx.duration \in Int
  <1>1. tx # NoStart
    BY DEF NoStart
  <1>2. tx \in [open: {TRUE}, now: Time, endsAt: Time,
                duration: Durations \cup {0}, version: Nat, found: BOOLEAN]
    BY <1>1 DEF StartTx
  <1>3. tx.now \in Time /\ tx.endsAt \in Time /\ tx.duration \in Durations \cup {0}
    BY <1>2
  <1> QED
    BY <1>3, Bounds, DurationsAreNaturals DEF Time

\* What Start has read of the window stays true until it writes.
LEMMA StartsStayCurrent ==
  ASSUME Lag = 0, TypeOK, BegunInWindow, StartsAreCurrent,
         [Next /\ ReschedulesBeforeOpening]_vars
  PROVE  StartsAreCurrent'
  <1> SUFFICES ASSUME NEW s \in Students, start'[s].open
               PROVE  /\ s \in assigned'
                      /\ start'[s].duration = quiz'.duration
                      /\ quiz'.status \in {"scheduled", "live"} =>
                           start'[s].endsAt <= quiz'.endsAt
    BY DEF StartsAreCurrent
  <1>q. /\ quiz.endsAt \in Int /\ quiz'.endsAt \in Int
        /\ start \in [Students -> StartTx]
    <2>1. TypeOK'
      BY TypeNext
    <2> QED
      BY <2>1, Bounds DEF TypeOK, Quiz, Time, NoTime
  <1>1. CASE StartRead(s)
    <2>1. /\ s \in assigned /\ assigned' = assigned /\ quiz' = quiz
          /\ start'[s].duration = quiz.duration
          /\ start'[s].endsAt = quiz.endsAt
      BY <1>q, <1>1 DEF StartRead
    <2> QED
      BY <1>q, <2>1
  <1>2. CASE start'[s] = start[s]
    <2>1. start[s].open /\ Begun
      BY <1>2 DEF Begun
    <2>2. /\ s \in assigned
          /\ start[s].duration = quiz.duration
          /\ quiz.status \in {"scheduled", "live"} => start[s].endsAt <= quiz.endsAt
      BY <2>1 DEF StartsAreCurrent
    <2>3. start[s].endsAt \in Int
      BY <1>q, <2>1, StartTimes
    <2>4. s \in assigned'
      <3>1. CASE SetAssignments
        BY <2>1, <2>2, <3>1 DEF SetAssignments
      <3>2. CASE UNCHANGED assigned
        BY <2>2, <3>2
      <3> QED
        BY <3>1, <3>2, AudienceSteps
    <2>5. /\ quiz'.duration = quiz.duration
          /\ quiz'.status \in {"scheduled", "live"} =>
               quiz.status \in {"scheduled", "live"} /\ quiz'.endsAt >= quiz.endsAt
      BY <2>1, CarefulWindow
    <2> QED
      BY <1>q, <1>2, <2>2, <2>3, <2>4, <2>5
  <1> QED
    BY <1>1, <1>2, StartsUnderWay

\* The times of an attempt row, and of a Start under way.
LEMMA AttemptTimes ==
  ASSUME TypeOK, NEW a \in AttemptIds
  PROVE  /\ attempts[a] \in Attempt
         /\ attempts[a].deadline \in Int /\ attempts[a].startedAt \in Int
         /\ quiz \in Quiz /\ quiz.duration \in Int /\ quiz.endsAt \in Int
  BY Bounds, DurationsAreNaturals DEF TypeOK, Attempt, Quiz, Time, NoTime

\* Deadlines stay within the duration and the window, and attempts in the audience.
LEMMA ProgressStaysCareful ==
  ASSUME Lag = 0, TypeOK, CarefulInv, [Next /\ ReschedulesBeforeOpening]_vars
  PROVE  DeadlineInDuration' /\ InProgressIsAssigned' /\ DeadlineInWindow'
  <1> SUFFICES
        ASSUME NEW a \in AttemptIds, attempts'[a].status = "in_progress"
        PROVE  /\ attempts'[a].deadline <= attempts'[a].startedAt + quiz'.duration
               /\ a[1] \in assigned'
               /\ quiz'.status \in {"scheduled", "live"} =>
                    attempts'[a].deadline <= quiz'.endsAt
    BY DEF DeadlineInDuration, InProgressIsAssigned, DeadlineInWindow, InProgress
  <1>t. /\ attempts[a] \in Attempt
        /\ attempts[a].deadline \in Int /\ attempts[a].startedAt \in Int
        /\ quiz \in Quiz /\ quiz.duration \in Int /\ quiz.endsAt \in Int
    BY AttemptTimes
  <1>n. quiz'.endsAt \in Int
    <2>1. TypeOK'
      BY TypeNext
    <2> QED
      BY <2>1, Bounds DEF TypeOK, Quiz, Time, NoTime
  <1>p. \/ Opens(a)
        \/ IsExtended(a)
        \/ /\ InProgress(a)
           /\ attempts'[a].deadline = attempts[a].deadline
           /\ attempts'[a].startedAt = attempts[a].startedAt
    BY ProgressSteps DEF CarefulInv
  <1>1. CASE Opens(a)
    <2> DEFINE tx == start[a[1]]
    <2>1. a[1] \in Students /\ StartInsert(a[1]) /\ tx.open
      BY <1>1 DEF Opens, StartInsert, AttemptIds
    <2>2. tx.now \in Int /\ tx.endsAt \in Int /\ tx.duration \in Int
      <3>1. tx \in StartTx
        BY <2>1 DEF TypeOK
      <3> QED
        BY <2>1, <3>1, StartTimes
    <2>3. /\ a[1] \in assigned
          /\ tx.duration = quiz.duration
          /\ quiz.status \in {"scheduled", "live"} => tx.endsAt <= quiz.endsAt
      BY <2>1 DEF CarefulInv, StartsAreCurrent
    <2>4. quiz' = quiz /\ assigned' = assigned
      BY <2>1 DEF StartInsert
    <2>5. attempts'[a].deadline = Deadline(tx) /\ attempts'[a].startedAt = tx.now
      BY <1>1 DEF Opens, NoAttempt
    <2>6. Deadline(tx) <= tx.now + tx.duration /\ Deadline(tx) <= tx.endsAt
      BY <2>2 DEF Deadline, Least
    <2>7. Deadline(tx) \in Int
      BY <2>2 DEF Deadline, Least
    <2> HIDE DEF tx
    <2> QED
      BY <1>t, <2>2, <2>3, <2>4, <2>5, <2>6, <2>7
  <1>2. CASE InProgress(a)
    <2>1. /\ attempts[a].deadline <= attempts[a].startedAt + quiz.duration
          /\ a[1] \in assigned
          /\ quiz.status \in {"scheduled", "live"} => attempts[a].deadline <= quiz.endsAt
      BY <1>2 DEF CarefulInv, DeadlineInDuration, InProgressIsAssigned, DeadlineInWindow
    <2>2. /\ quiz'.duration = quiz.duration
          /\ quiz'.status \in {"scheduled", "live"} =>
               quiz.status \in {"scheduled", "live"} /\ quiz'.endsAt >= quiz.endsAt
      BY <1>2, CarefulWindow DEF Begun, CarefulInv
    <2>3. a[1] \in assigned'
      <3>1. CASE SetAssignments
        <4> PICK audience \in SUBSET Students :
              /\ MayDrop(assigned \ audience, now)
              /\ EffectiveStatus(quiz, now) \in {"draft", "scheduled", "live"}
              /\ assigned' = audience
          BY <3>1, RecentIsNow DEF SetAssignments
        <4>1. EffectiveStatus(quiz, now) = "live"
          BY <1>2, NothingBegun DEF Begun, CarefulInv
        <4> QED
          BY <1>2, <2>1, <4>1 DEF MayDrop
      <3>2. CASE UNCHANGED assigned
        BY <2>1, <3>2
      <3> QED
        BY <3>1, <3>2, AudienceSteps
    <2>4. CASE IsExtended(a)
      <3>1. attempts'[a] =
              [attempts[a] EXCEPT
                 !.deadline = Least(attempts[a].startedAt + quiz.duration, quiz'.endsAt)]
        BY <2>4 DEF IsExtended
      <3>2. /\ attempts'[a].deadline
                 = Least(attempts[a].startedAt + quiz.duration, quiz'.endsAt)
            /\ attempts'[a].startedAt = attempts[a].startedAt
        BY <1>t, <3>1 DEF Attempt
      <3>3. LET d == Least(attempts[a].startedAt + quiz.duration, quiz'.endsAt)
            IN d <= attempts[a].startedAt + quiz.duration /\ d <= quiz'.endsAt
        BY <1>t, <1>n DEF Least
      <3> QED
        BY <2>2, <2>3, <3>2, <3>3
    <2>5. CASE /\ attempts'[a].deadline = attempts[a].deadline
               /\ attempts'[a].startedAt = attempts[a].startedAt
      BY <1>t, <1>n, <2>1, <2>2, <2>3, <2>5
    <2>6. ~Opens(a)
      BY <1>2 DEF Opens, InProgress
    <2> QED
      BY <1>p, <2>4, <2>5, <2>6
  <1> QED
    BY <1>p, <1>1, <1>2 DEF IsExtended

\* The careful teacher's invariant holds in every behaviour without lag.
THEOREM CarefulInductive ==
  ASSUME Lag = 0
  PROVE  CarefulSpec => [](TypeOK /\ CarefulInv)
  <1>1. Init => TypeOK /\ CarefulInv
    <2> SUFFICES ASSUME Init PROVE CarefulInv
      BY TypeInit
    <2>1. \A a \in AttemptIds : ~InProgress(a)
      BY DEF Init, NoAttempt, InProgress
    <2>2. \A s \in Students : ~start[s].open
      BY DEF Init, NoStart
    <2> QED
      BY <2>1, <2>2, HeldInit
      DEF CarefulInv, BegunInWindow, StartsAreCurrent, DeadlineInDuration,
          InProgressIsAssigned, DeadlineInWindow
  <1>2. TypeOK /\ CarefulInv /\ [Next /\ ReschedulesBeforeOpening]_vars
          => TypeOK' /\ CarefulInv'
    <2> SUFFICES ASSUME TypeOK, CarefulInv, [Next /\ ReschedulesBeforeOpening]_vars
                 PROVE  TypeOK' /\ CarefulInv'
      OBVIOUS
    <2>1. TypeOK'
      BY TypeNext
    <2>2. BegunInWindow'
      BY BegunStaysInWindow DEF CarefulInv
    <2>3. StartsAreCurrent'
      BY StartsStayCurrent DEF CarefulInv
    <2> QED
      BY <2>1, <2>2, <2>3, HeldStays, ProgressStaysCareful DEF CarefulInv
  <1> QED
    BY <1>1, <1>2, PTL DEF CarefulSpec

\* Every student with an attempt in progress is in the audience: the check of
\* SetAssignments and the lock of Start leave no gap.
THEOREM AudienceHolds ==
  ASSUME Lag = 0
  PROVE  CarefulSpec => []InProgressIsAssigned
  <1>1. CarefulInv => InProgressIsAssigned
    BY DEF CarefulInv
  <1> QED
    BY <1>1, CarefulInductive, PTL

\* No attempt in progress outlives the window of an open quiz.
THEOREM WindowHolds ==
  ASSUME Lag = 0
  PROVE  CarefulSpec => []DeadlineInWindow
  <1>1. CarefulInv => DeadlineInWindow
    BY DEF CarefulInv
  <1> QED
    BY <1>1, CarefulInductive, PTL

\* No quiz is unpublished under a running attempt: Cancel, which judges the window
\* by the clock of its transaction, finds none begun unless that clock lags.
THEOREM DraftsHaveNoAttempt ==
  ASSUME Lag = 0
  PROVE  CarefulSpec => []DraftHasNoAttempt
  <1>1. CarefulInv => DraftHasNoAttempt
    BY DEF CarefulInv, BegunInWindow, DraftHasNoAttempt
  <1> QED
    BY <1>1, CarefulInductive, PTL

\* An extension takes no time from an attempt.
LEMMA ExtendedForward ==
  ASSUME TypeOK, CarefulInv, NEW a \in AttemptIds, IsExtended(a)
  PROVE  attempts'[a].deadline \in Int /\ attempts'[a].deadline >= attempts[a].deadline
  <1>t. /\ attempts[a] \in Attempt
        /\ attempts[a].deadline \in Int /\ attempts[a].startedAt \in Int
        /\ quiz \in Quiz /\ quiz.duration \in Int /\ quiz.endsAt \in Int
    BY AttemptTimes
  <1>1. /\ InProgress(a)
        /\ attempts'[a] =
             [attempts[a] EXCEPT
                !.deadline = Least(attempts[a].startedAt + quiz.duration, quiz'.endsAt)]
    BY DEF IsExtended
  <1>2. attempts'[a].deadline
          = Least(attempts[a].startedAt + quiz.duration, quiz'.endsAt)
    BY <1>t, <1>1 DEF Attempt
  <1>3. quiz.status \in {"scheduled", "live"} /\ quiz'.endsAt > quiz.endsAt
        /\ quiz'.endsAt \in Int
    <2> PICK ends \in Instants :
          Extendable(ends) /\ quiz' = [quiz EXCEPT !.endsAt = ends]
      BY DEF IsExtended, Extend
    <2>1. ends \in Int
      BY InstantsAreTimes, Bounds
    <2> QED
      BY <1>t, <2>1 DEF Quiz, Extendable, EffectiveStatus
  <1>4. /\ attempts[a].deadline <= attempts[a].startedAt + quiz.duration
        /\ attempts[a].deadline <= quiz.endsAt
    BY <1>1, <1>3 DEF CarefulInv, DeadlineInDuration, DeadlineInWindow
  <1> QED
    BY <1>t, <1>2, <1>3, <1>4 DEF Least

\* An extension never takes time from a student.
THEOREM DeadlinesOnlyMoveForward ==
  ASSUME Lag = 0
  PROVE  CarefulSpec => DeadlinesMoveForward
  <1> DEFINE Forward == \A a \in AttemptIds : attempts[a].status # "none"
                          => attempts'[a].deadline >= attempts[a].deadline
  <1>1. TypeOK /\ CarefulInv /\ [Next /\ ReschedulesBeforeOpening]_vars
          => [Forward]_vars
    <2> SUFFICES ASSUME TypeOK, CarefulInv, [Next /\ ReschedulesBeforeOpening]_vars,
                        NEW a \in AttemptIds, attempts[a].status # "none"
                 PROVE  attempts'[a].deadline >= attempts[a].deadline
      OBVIOUS
    <2>t. /\ attempts[a] \in Attempt
          /\ attempts[a].deadline \in Int /\ attempts[a].startedAt \in Int
          /\ quiz \in Quiz /\ quiz.duration \in Int /\ quiz.endsAt \in Int
      BY AttemptTimes
    <2>1. CASE IsExtended(a)
      BY <2>1, ExtendedForward
    <2>2. CASE ~IsExtended(a)
      <3>1. attempts'[a].deadline = attempts[a].deadline
        <4>1. CASE LeftAlone(a)
          BY <4>1 DEF LeftAlone
        <4>2. ~Opens(a)
          BY DEF Opens
        <4>3. CASE Saves(a) \/ Reports(a) \/ IsReadmitted(a) \/ IsZeroed(a)
          BY <2>t, <4>3 DEF Saves, Reports, IsReadmitted, IsZeroed, Attempt
        <4>4. CASE Submits(a) \/ IsLaddered(a) \/ IsKicked(a)
          BY <2>t, <4>4 DEF Submits, IsLaddered, IsKicked, Ended, Attempt
        <4>5. CASE IsGraded(a)
          BY <2>t, <4>5 DEF IsGraded, Graded, Attempt
        <4> QED
          BY <2>2, <4>1, <4>2, <4>3, <4>4, <4>5, LifeSteps DEF LifeStep, CarefulInv
      <3> QED
        BY <2>t, <3>1
    <2> QED
      BY <2>1, <2>2
  <1>2. CarefulSpec => [][Forward]_vars
    BY <1>1, CarefulInductive, PTL DEF CarefulSpec
  <1> QED
    BY <1>2 DEF DeadlinesMoveForward
-----------------------------------------------------------------------------
(* What a forced submission cuts short, for the careful teacher.            *)

CutShortInv == OverHasEnded /\ StartsInTime /\ OthersHaveTime /\ ForcedWasCutShort

\* A quiz that is over stays so, and its end stays.
LEMMA OverStays ==
  ASSUME TypeOK, [Next]_vars, IsOver
  PROVE  IsOver' /\ quiz'.endsAt = quiz.endsAt
  <1>q. quiz \in Quiz
    BY DEF TypeOK
  <1>1. CASE KeepsWindow
    BY <1>1 DEF KeepsWindow, IsOver
  <1>2. CASE Archives
    BY <1>q, <1>2 DEF Archives, Quiz, IsOver
  <1>3. ~Publish /\ ~Cancel /\ ~GoesLive /\ ~Closes
    BY DEF Publish, Cancel, Cancellable, GoesLive, Closes, IsOver
  <1>4. ~Extend
    BY DEF Extend, Extendable, EffectiveStatus, IsOver
  <1> QED
    BY <1>1, <1>2, <1>3, <1>4, QuizSteps DEF QuizStep

\* A quiz is over when it has ended: it is closed at its end or ended at once.
LEMMA OverStaysEnded ==
  ASSUME TypeOK, OverHasEnded, [Next]_vars
  PROVE  OverHasEnded'
  <1> SUFFICES ASSUME IsOver' PROVE quiz'.endsAt <= now'
    BY DEF OverHasEnded
  <1>q. quiz \in Quiz /\ quiz.endsAt \in Int /\ Time \subseteq Int
    BY Bounds DEF TypeOK, Quiz, Time, NoTime
  <1>n. now \in Int /\ now' \in Int /\ now <= now'
    BY ClockSteps
  <1>1. CASE IsOver
    <2>1. quiz'.endsAt = quiz.endsAt /\ quiz.endsAt <= now
      BY <1>1, OverStays DEF OverHasEnded
    <2> QED
      BY <1>q, <1>n, <2>1
  <1>2. ASSUME NEW w \in Workers, BeginPass(w), ~IsOver PROVE quiz'.endsAt <= now'
    BY <1>q, <1>2 DEF BeginPass, IsOver, Quiz
  <1>3. CASE ForceClose
    <2> PICK t \in Recent : quiz' = [quiz EXCEPT !.status = "closed", !.endsAt = t]
      BY <1>3 DEF ForceClose
    <2>1. quiz'.endsAt = t
      BY <1>q DEF Quiz
    <2> QED
      BY <1>q, <1>n, <2>1 DEF Recent
  <1>4. CASE ReleaseResults /\ ~IsOver
    <2> PICK t \in Recent : EffectiveStatus(quiz, t) \in {"closed", "archived"}
      BY <1>4 DEF ReleaseResults
    <2>1. t \in Int /\ t <= now
      BY <1>q DEF Recent
    <2>2. quiz.endsAt <= t
      BY <1>4 DEF EffectiveStatus, IsOver
    <2>3. quiz'.endsAt = quiz.endsAt
      BY <1>q, <1>4 DEF ReleaseResults, Quiz
    <2> QED
      BY <1>q, <1>n, <2>1, <2>2, <2>3
  <1>5. CASE ~IsOver /\ quiz' = quiz
    BY <1>5 DEF IsOver
  <1>6. CASE ~IsOver /\ (AuthorQuestions \/ Archive)
    BY <1>q, <1>6 DEF AuthorQuestions, Archive, Quiz, IsOver
  <1>7. CASE ~IsOver /\ Publish
    <2> PICK starts \in Instants, ends \in Instants, d \in Durations, p \in Policies :
          quiz' = [quiz EXCEPT !.status = "scheduled", !.startsAt = starts,
                     !.endsAt = ends, !.duration = d, !.policy = p]
      BY <1>7 DEF Publish
    <2> QED
      BY <1>q DEF Quiz, IsOver
  <1>8. CASE ~IsOver /\ Cancel
    BY <1>q, <1>8 DEF Cancel, Quiz, IsOver
  <1>9. CASE ~IsOver /\ Extend
    <2> PICK ends : quiz' = [quiz EXCEPT !.endsAt = ends]
      BY <1>9 DEF Extend
    <2> QED
      BY <1>q, <1>9 DEF Quiz, IsOver
  <1>10. ASSUME NEW w \in Workers, OpenDue(w) \/ ReleaseDue(w), ~IsOver
         PROVE  FALSE
    BY <1>q, <1>10 DEF OpenDue, ReleaseDue, Quiz, IsOver
  <1>11. \/ UNCHANGED quiz
         \/ TeacherOnQuiz
         \/ \E w \in Workers : BeginPass(w) \/ OpenDue(w) \/ ReleaseDue(w)
    BY DEF Next, vars, Tick, PeriodicSweep, Starting, StartRead, StartInsert,
      StartEnd, OnAttempt, SaveAnswer, SubmitManual, RecordViolation, LadderSubmit,
      Kick, Readmit, OverrideScore, PassStep, FailPass, SweepExpired, SweepForced,
      ListUngraded, GradeOne, ListRollup, ReadScores, RollupStudents, InsertStats
  <1>12. CASE ~IsOver /\ TeacherOnQuiz
    BY <1>3, <1>4, <1>5, <1>6, <1>7, <1>8, <1>9, <1>12
    DEF TeacherOnQuiz, SetAssignments
  <1> QED
    BY <1>1, <1>2, <1>5, <1>10, <1>11, <1>12

\* While a Start or a sweep is under way no time passes, without lag.
LEMMA NoTimePasses ==
  ASSUME Lag = 0, TypeOK, [Next]_vars,
         \/ \E s \in Students : start[s].open /\ start[s].now = now
         \/ \E w \in Workers : At(w, "force") /\ pass[w].since = now
  PROVE  now' = now
  <1>1. now \in Int
    BY Bounds DEF TypeOK, Time
  <1>2. ~Tick
    BY <1>1 DEF Tick, At
  <1> QED
    BY <1>2, JobSteps DEF BeginPass

\* A Start goes on within the window it has read.
LEMMA StartsStayInTime ==
  ASSUME Lag = 0, TypeOK, StartsInTime, [Next]_vars
  PROVE  StartsInTime'
  <1>q. quiz \in Quiz /\ start \in [Students -> StartTx]
    BY DEF TypeOK
  <1>1. ASSUME quiz'.status # "draft" PROVE quiz'.duration # 0
    <2>1. CASE Publish
      <3> PICK starts \in Instants, ends \in Instants, d \in Durations,
               p \in Policies :
            quiz' = [quiz EXCEPT !.status = "scheduled", !.startsAt = starts,
                       !.endsAt = ends, !.duration = d, !.policy = p]
        BY <2>1 DEF Publish
      <3>1. quiz'.duration = d
        BY <1>q DEF Quiz
      <3> QED
        BY <3>1, DurationsPositive
    <2>2. CASE ~Publish
      <3>1. quiz.duration # 0
        BY <1>1, <2>2, LeavingDraft DEF StartsInTime
      <3>2. CASE KeepsWindow \/ Closes
        BY <3>1, <3>2 DEF KeepsWindow, Closes
      <3>3. CASE GoesLive \/ Archives
        BY <1>q, <3>1, <3>3 DEF GoesLive, Archives, Quiz
      <3>4. CASE Cancel
        BY <1>q, <1>1, <3>4 DEF Cancel, Quiz
      <3>5. CASE Extend
        <4> PICK ends : quiz' = [quiz EXCEPT !.endsAt = ends]
          BY <3>5 DEF Extend
        <4> QED
          BY <1>q, <3>1 DEF Quiz
      <3> QED
        BY <2>2, <3>2, <3>3, <3>4, <3>5, QuizSteps DEF QuizStep
    <2> QED
      BY <2>1, <2>2
  <1>2. ASSUME NEW s \in Students, start'[s].open
        PROVE  /\ start'[s].now = now' /\ now' < start'[s].endsAt
               /\ start'[s].duration # 0
    <2>1. CASE StartRead(s)
      <3> PICK t \in Recent :
            /\ quiz.startsAt <= t /\ t < quiz.endsAt
            /\ start' = [start EXCEPT ![s] =
                 [open |-> TRUE, now |-> t, endsAt |-> quiz.endsAt,
                  duration |-> quiz.duration, version |-> Version,
                  found |-> Resumable(s, t)]]
        BY <2>1 DEF StartRead
      <3>1. t = now /\ now' = now /\ quiz.status \in {"scheduled", "live"}
        BY <2>1, RecentIsNow DEF StartRead
      <3>2. /\ start'[s].now = t /\ start'[s].endsAt = quiz.endsAt
            /\ start'[s].duration = quiz.duration
        BY <1>q
      <3> QED
        BY <3>1, <3>2 DEF StartsInTime
    <2>2. CASE start'[s] = start[s]
      <3>1. /\ start[s].open /\ start[s].now = now /\ now < start[s].endsAt
            /\ start[s].duration # 0
        BY <1>2, <2>2 DEF StartsInTime
      <3>2. now' = now
        BY <3>1, NoTimePasses
      <3> QED
        BY <2>2, <3>1, <3>2
    <2> QED
      BY <1>2, <2>1, <2>2, StartsUnderWay
  <1> QED
    BY <1>1, <1>2 DEF StartsInTime

\* Between the two statements of a sweep nobody's time runs out: attempts that are
\* opened or extended meanwhile have time left.
LEMMA OthersKeepTime ==
  ASSUME Lag = 0, TypeOK, CarefulInv, StartsInTime, OthersHaveTime, [Next]_vars
  PROVE  OthersHaveTime'
  <1> SUFFICES ASSUME NEW w \in Workers, At(w, "force")'
               PROVE  /\ pass'[w].since = now'
                      /\ \A a \in AttemptIds :
                           attempts'[a].status = "in_progress" /\ a \notin pass'[w].todo
                             => now' < attempts'[a].deadline + Grace
    BY DEF OthersHaveTime, InProgress
  <1>n. now \in Int /\ Grace \in Int /\ Grace >= 0
    BY Bounds DEF TypeOK, Time
  <1>1. CASE SweepExpired(w)
    <2>1. pass'[w] = [pass[w] EXCEPT !.at = "force", !.since = now,
                        !.todo = {a \in AttemptIds : Expired(a)}]
      BY <1>1 DEF SweepExpired, TypeOK
    <2>2. pass'[w].since = now /\ pass'[w].todo = {a \in AttemptIds : Expired(a)}
      <3>1. pass[w] \in Pass
        BY DEF TypeOK
      <3> QED
        BY <2>1, <3>1 DEF Pass
    <2>3. now' = now /\ attempts' = attempts
      BY <1>1 DEF SweepExpired, attemptVars
    <2>4. ASSUME NEW a \in AttemptIds, InProgress(a), ~Expired(a)
          PROVE  now < attempts[a].deadline + Grace
      <3>1. attempts[a].deadline \in Int
        BY AttemptTimes
      <3> QED
        BY <1>n, <2>4, <3>1 DEF Expired
    <2> QED
      BY <2>2, <2>3, <2>4 DEF InProgress
  <1>2. CASE pass'[w] = pass[w]
    <2>1. /\ At(w, "force") /\ pass[w].since = now
          /\ \A a \in AttemptIds : InProgress(a) /\ a \notin pass[w].todo
               => now < attempts[a].deadline + Grace
      BY <1>2 DEF OthersHaveTime, At
    <2>2. now' = now
      BY <2>1, NoTimePasses
    <2>3. ASSUME NEW a \in AttemptIds, attempts'[a].status = "in_progress",
                 a \notin pass[w].todo
          PROVE  now < attempts'[a].deadline + Grace
      <3>1. CASE Opens(a)
        <4> DEFINE tx == start[a[1]]
        <4>1. a[1] \in Students /\ tx.open /\ attempts'[a].deadline = Deadline(tx)
          <5>1. a[1] \in Students /\ StartInsert(a[1])
            BY <3>1 DEF Opens, AttemptIds
          <5>2. attempts'[a].deadline = Deadline(tx)
            BY <3>1 DEF Opens, NoAttempt
          <5> QED
            BY <5>1, <5>2 DEF StartInsert
        <4>2. tx \in StartTx
          BY <4>1 DEF TypeOK
        <4>3. /\ tx.now \in Int /\ tx.endsAt \in Int /\ tx.duration \in Int
              /\ tx.duration >= 0
          <5>1. tx.duration \in Nat
            <6> HIDE DEF tx
            <6>1. tx # NoStart
              BY <4>1 DEF NoStart
            <6>2. tx.duration \in Durations \cup {0}
              BY <4>2, <6>1 DEF StartTx
            <6> QED
              BY <6>2, DurationsAreNaturals
          <5> QED
            BY <4>1, <4>2, <5>1, StartTimes
        <4>4. tx.now = now /\ now < tx.endsAt /\ tx.duration # 0
          BY <4>1 DEF StartsInTime
        <4> HIDE DEF tx
        <4>5. now < Deadline(tx) /\ Deadline(tx) \in Int
          BY <1>n, <4>3, <4>4 DEF Deadline, Least
        <4> QED
          BY <1>n, <4>1, <4>5
      <3>2. CASE InProgress(a) /\ attempts'[a].deadline >= attempts[a].deadline
                   /\ attempts'[a].deadline \in Int
        <4>1. now < attempts[a].deadline + Grace /\ attempts[a].deadline \in Int
          BY <2>1, <2>3, <3>2, AttemptTimes
        <4> QED
          BY <1>n, <3>2, <4>1
      <3>3. CASE IsExtended(a)
        <4>1. InProgress(a)
          BY <3>3 DEF IsExtended
        <4> QED
          BY <3>2, <3>3, <4>1, ExtendedForward
      <3>4. CASE InProgress(a) /\ attempts'[a].deadline = attempts[a].deadline
        <4>1. attempts[a].deadline \in Int
          BY AttemptTimes
        <4> QED
          BY <3>2, <3>4, <4>1
      <3>5. HeldInProgress
        BY DEF CarefulInv
      <3> QED
        BY <2>3, <3>1, <3>3, <3>4, <3>5, ProgressSteps
    <2> QED
      BY <1>2, <2>1, <2>2, <2>3
  <1> QED
    BY <1>1, <1>2, PassesHold

\* What was cut short stays so, and only what has time left is.
LEMMA ForcedStaysCutShort ==
  ASSUME TypeOK, HeldInProgress, KindTellsEnd, CutShortInv, [Next]_vars
  PROVE  ForcedWasCutShort'
  <1> SUFFICES ASSUME NEW a \in AttemptIds, attempts'[a].kind = "forced"
               PROVE  IsOver' /\ quiz'.endsAt < attempts'[a].deadline + Grace
    BY DEF ForcedWasCutShort
  <1>t. /\ attempts[a] \in Attempt /\ attempts[a].deadline \in Int
        /\ quiz.endsAt \in Int /\ now \in Int /\ Grace \in Int
    BY AttemptTimes, Bounds DEF TypeOK, Time
  <1>s. SUFFICES /\ IsOver /\ quiz.endsAt < attempts[a].deadline + Grace
                 /\ attempts'[a].deadline = attempts[a].deadline
    BY OverStays
  <1>1. CASE attempts[a].kind = "forced" /\ attempts'[a].deadline = attempts[a].deadline
    BY <1>1 DEF CutShortInv, ForcedWasCutShort
  <1>2. CASE LeftAlone(a)
    BY <1>1, <1>2 DEF LeftAlone
  <1>3. CASE IsGraded(a)
    BY <1>t, <1>1, <1>3 DEF IsGraded, Graded, Attempt
  <1>4. CASE IsReadmitted(a)
    BY <1>t, <1>1, <1>4 DEF IsReadmitted, Attempt
  <1>5. CASE IsZeroed(a)
    BY <1>t, <1>1, <1>5 DEF IsZeroed, Attempt
  <1>6. CASE Submits(a)
    <2> PICK kind \in {"manual", "auto", "forced"} :
          /\ attempts'[a] = Ended(a, "submitted", kind)
          /\ kind = "forced" =>
               IsOver /\ \E w \in Workers : At(w, "force") /\ a \notin pass[w].todo
      BY <1>6 DEF Submits
    <2>1. attempts'[a].kind = kind /\ attempts'[a].deadline = attempts[a].deadline
      BY <1>t DEF Ended, Attempt
    <2>2. InProgress(a) /\ kind = "forced"
      BY <1>6, <2>1 DEF Submits
    <2>3. IsOver /\ now < attempts[a].deadline + Grace
      BY <2>2 DEF CutShortInv, OthersHaveTime
    <2>4. quiz.endsAt <= now
      BY <2>3 DEF CutShortInv, OverHasEnded
    <2> QED
      BY <1>t, <2>1, <2>3, <2>4
  <1>7. ~ (Opens(a) \/ IsLaddered(a) \/ IsKicked(a))
    BY <1>t DEF Opens, NoAttempt, IsLaddered, IsKicked, Ended, Attempt
  <1>8. ~ (IsExtended(a) \/ Saves(a) \/ Reports(a))
    <2>1. InProgress(a) => attempts[a].kind = "none"
      BY DEF KindTellsEnd, InProgress
    <2>2. ~ IsExtended(a)
      BY <1>t, <2>1 DEF IsExtended, Attempt
    <2>3. ~ Saves(a)
      BY <1>t, <2>1 DEF Saves, Attempt
    <2>4. ~ Reports(a)
      BY <1>t, <2>1 DEF Reports, Attempt
    <2> QED
      BY <2>2, <2>3, <2>4
  <1> QED
    BY <1>2, <1>3, <1>4, <1>5, <1>6, <1>7, <1>8, LifeSteps DEF LifeStep

\* No attempt is marked 'forced' that ran out of its own time before its quiz ended:
\* what commits between the two statements of a sweep has time left, and what the
\* first of them has taken the second leaves alone.  With clocks that lag a late
\* Start breaks it.
THEOREM ForcedAttemptsWereCutShort ==
  ASSUME Lag = 0
  PROVE  CarefulSpec => []ForcedWasCutShort
  <1>1. Init => CutShortInv
    <2> SUFFICES ASSUME Init PROVE CutShortInv
      OBVIOUS
    <2>1. quiz.status = "draft" /\ \A s \in Students : ~start[s].open
      BY DEF Init, NoStart
    <2>2. \A a \in AttemptIds : attempts[a].kind = "none"
      BY DEF Init, NoAttempt
    <2>3. \A w \in Workers : ~At(w, "force")
      BY DEF Init, IdlePass, At
    <2> QED
      BY <2>1, <2>2, <2>3
      DEF CutShortInv, OverHasEnded, IsOver, StartsInTime, OthersHaveTime,
          ForcedWasCutShort
  <1>2. CutShortInv /\ TypeOK /\ CarefulInv /\ LifeInv /\ [Next]_vars => CutShortInv'
    <2> SUFFICES ASSUME CutShortInv, TypeOK, CarefulInv, LifeInv, [Next]_vars
                 PROVE  CutShortInv'
      OBVIOUS
    <2>1. HeldInProgress /\ KindTellsEnd
      BY DEF LifeInv
    <2>2. OverHasEnded /\ StartsInTime /\ OthersHaveTime
      BY DEF CutShortInv
    <2>3. OverHasEnded' /\ StartsInTime'
      BY <2>2, OverStaysEnded, StartsStayInTime
    <2>4. OthersHaveTime'
      BY <2>2, OthersKeepTime
    <2>5. ForcedWasCutShort'
      BY <2>1, ForcedStaysCutShort
    <2> QED
      BY <2>3, <2>4, <2>5 DEF CutShortInv
  <1>3. [Next /\ ReschedulesBeforeOpening]_vars => [Next]_vars
    OBVIOUS
  <1>4. CarefulSpec => Spec
    BY <1>3, PTL DEF CarefulSpec, Spec
  <1>5. CarefulSpec => [](TypeOK /\ CarefulInv)
    BY CarefulInductive
  <1>6. CutShortInv => ForcedWasCutShort
    BY DEF CutShortInv
  <1> QED
    BY <1>1, <1>2, <1>4, <1>5, <1>6, LifeInductive, PTL DEF Spec
=============================================================================
