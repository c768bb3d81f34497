------------------------------- MODULE Results -------------------------------
(***************************************************************************)
(* Who reads what of the attempts of module Marking: the policy function   *)
(* (internal/authusers), the player's payload through the snapshot cache   *)
(* and the review (internal/attempt), the owner's table and the student's  *)
(* list (internal/quiz), and the rolled up profiles (internal/analytics).  *)
(***************************************************************************)
EXTENDS Marking

CONSTANTS NotFound, NotGraded  \* a read that is denied, one that is too early

-----------------------------------------------------------------------------
(* The accounts and the policy.                                            *)

Account(role, number, status) == [id |-> <<role, number>>, role |-> role, status |-> status]

Owner == Account("teacher", 1, "active")

Pupil(s) == Account("student", s, "active")

Staff == {Owner, Account("teacher", 2, "active"), Account("admin", 1, "active")}

Actors == Staff \cup {Pupil(s) : s \in Students} \cup {Account("teacher", 1, "disabled")}

\* The quiz, and a student as the subject of analytics.
QuizResource == [owner |-> Owner.id, assigned |-> FALSE]

StudentResource(actor, s) == [owner |-> Pupil(s).id, assigned |-> actor.id = Owner.id]

Owns(actor, res) == actor.role = "teacher" /\ actor.id = res.owner

\* Can: an active account whose role allows the action on the resource.
Can(actor, action, res) ==
  /\ actor.status = "active"
  /\ CASE action \in {"users.manage", "groups.manage", "audit.read", "analytics.org"} ->
            actor.role = "admin"
       [] action = "avatar.read" -> TRUE
       [] action = "directory.read" -> actor.role \in {"admin", "teacher"}
       [] action = "quiz.create" -> actor.role = "teacher"
       [] action = "quiz.edit" -> Owns(actor, res)
       [] action \in {"quiz.watch_live", "attempt.moderate", "analytics.teacher"} ->
            actor.role = "admin" \/ Owns(actor, res)
       [] action = "attempt.take" -> actor.role = "student" /\ res.assigned
       [] action = "analytics.student" ->
            \/ actor.role = "admin"
            \/ actor.role = "teacher" /\ res.assigned
            \/ actor.role = "student" /\ actor.id = res.owner
       [] OTHER -> FALSE

-----------------------------------------------------------------------------
(* The reads.                                                              *)

\* The snapshots a read of an attempt may get: the cached one, or, when Redis
\* does not answer or has dropped it, the row of the pinned version.
Deliverable(a) ==
  LET v == attempts[a].version
  IN  {versions[v]} \cup {cache[k] : k \in DOMAIN cache \cap {SnapshotKey(v)}}

\* The key is not part of what the player is sent.
WithoutKey(snapshot) ==
  [q \in DOMAIN snapshot |->
     [f \in DOMAIN snapshot[q] \ {"correct"} |-> snapshot[q][f]]]

\* Get: the pinned questions and what was saved, to the student alone.
Details(actor, a) ==
  IF attempts[a].status = "none" \/ actor.id # Pupil(a[1]).id THEN {NotFound}
  ELSE {[questions |-> WithoutKey(snapshot), answers |-> answers[a]] : snapshot \in Deliverable(a)}

Score(a) == IF attempts[a].status = "graded" THEN attempts[a].score ELSE Null

\* Review, the owner's, as soon as the attempt is graded.
Review(actor, a) ==
  LET shown == Assembled(a)
  IN  CASE attempts[a].status = "none" \/ ~Can(actor, "quiz.edit", QuizResource) -> NotFound
        [] attempts[a].status # "graded" -> NotGraded
        [] Error \in Range(shown) -> Error
        [] OTHER -> [questions |-> shown, score |-> attempts[a].score, max |-> MaxScore(a),
                     overridden |-> attempts[a].overridden]

\* The table's max_score is summed in SQL, over the version it joins on.
TableRow(a) ==
  [attempt |-> a, status |-> attempts[a].status, score |-> Score(a),
   overridden |-> attempts[a].overridden,
   max |-> LET v == attempts[a].version
           IN  MapThenSumSet(LAMBDA q : versions[v][q].points, DOMAIN versions[v])]

\* What the rows are made of; a refusal is neither a row nor a table.
Rows ==
  [attempt : AttemptIds, status : {"none", "in_progress", "submitted", "graded"},
   score : Nat \cup {Null}, overridden : BOOLEAN, max : Nat]

ASSUME RefusalsAssumption ==
  /\ {NotFound, NotReleased, Error} \cap Rows = {}
  /\ NotFound \notin [Students -> SUBSET Rows]

\* Results: a row for each attempt of each assigned student, one without an
\* attempt for who never started.
Table(actor) ==
  IF ~Can(actor, "quiz.edit", QuizResource) THEN NotFound
  ELSE [s \in Students |->
          {TableRow(a) : a \in {b \in AttemptIds : b[1] = s /\ attempts[b].status # "none"}}]

\* AssignedQuizzes: the size and rules of the latest version, the student's own
\* attempts, and their scores once they are released.
AssignedQuiz(s) ==
  IF quiz.status \notin {"scheduled", "closed"} THEN NotFound
  ELSE [questionCount |-> Len(Last(versions)),
        negativeMarking |-> \E q \in DOMAIN Last(versions) : Last(versions)[q].penalty > 0,
        attempts |-> [a \in {b \in AttemptIds : b[1] = s /\ attempts[b].status # "none"} |->
                        IF quiz.released THEN Score(a) ELSE Null]]

\* QuizStats: the frozen row, for the owner and admins.
QuizStatsRead(actor) ==
  IF Can(actor, "analytics.teacher", QuizResource) /\ quizStats.written
  THEN quizStats.row ELSE NotFound

\* StudentStats: a student's own profile, or that of a student a teacher has.
StudentStatsRead(actor, s) ==
  IF Can(actor, "analytics.student", StudentResource(actor, s)) /\ studentStats[s] # NoRow
  THEN studentStats[s] ELSE NotFound

-----------------------------------------------------------------------------
(* What holds.                                                             *)

Floored(n) == IF n < 0 THEN 0 ELSE n

\* What an actor is shown of the score of a graded attempt, in any of the reads.
ShownScores(actor, a) ==
  LET table == Table(actor)
      shown == {Review(actor, a)}
                 \cup (IF actor.id = Pupil(a[1]).id THEN {Result(a)} ELSE {})
                 \cup (IF table = NotFound THEN {} ELSE {r \in table[a[1]] : r.attempt = a})
  IN  {<<r.score, r.max, r.overridden>> : r \in shown \ {NotFound, NotReleased, Error}}

DeliveredAsGraded(actor, a) ==
  \A d \in Details(actor, a) \ {NotFound} : d.questions = WithoutKey(Snapshot(a))

OneScoreShown(a) == Cardinality(UNION {ShownScores(p, a) : p \in Actors}) = 1

\* The player, the review, the table and the released result read the snapshot
\* through a cache, through Go and through SQL: all of them show one attempt the
\* questions it was graded on, and one score out of one maximum, whatever was
\* published since.  The marks of the review add up to that score, unless all of
\* them say that it was overridden, and then it is zero whatever the marks are.
AttemptsReadAlike ==
  \A a \in AttemptIds :
    /\ \A p \in Actors : DeliveredAsGraded(p, a)
    /\ attempts[a].status = "graded" =>
         /\ OneScoreShown(a)
         /\ LET review == Review(Owner, a)
            IN  review # Error =>
                  review.score = IF review.overridden THEN 0 ELSE Floored(Sum(review.questions))

\* The quiz's profile and the students' were computed by different statements, and
\* the students' again by other quizzes' rollups: it counts as taking part, and in
\* its histogram, who has completed it there, and its mean is that of the scores
\* in their rows.  An override reaches those rows and never the frozen mean, which
\* from then on may lie above them, and never below.
ProfilesReadAlike ==
  LET row == QuizStatsRead(Owner)
      done == {s \in Students : studentStats[s].done = 1}
      total == MapThenSumSet(LAMBDA s : studentStats[s].score, done)
  IN  row # NotFound =>
        /\ row.attempted = Cardinality(done)
        /\ MapThenSumSet(LAMBDA b : row.distribution[b], Buckets) = Cardinality(done)
        /\ done # {} =>
             /\ row.meanMedian[1][2] = Cardinality(done)
             /\ row.meanMedian[1][1] >= total
             /\ NoneOverridden => row.meanMedian[1][1] = total

\* Whoever reads it and through whichever table, a result is the same.
ReadsAgree == AttemptsReadAlike /\ ProfilesReadAlike

\* A result that can be read stays readable, with its questions and its maximum,
\* whatever is published, rolled up or dropped from the cache later.  Only an
\* override changes it, of a kicked attempt and once, and only its score, to zero;
\* with the frozen row the percentile of every other attempt stays even then, and
\* the leaderboard until then.
ReleasedIsFinal ==
  [][\A a \in AttemptIds : Readable(a) =>
       /\ Readable(a)'
       /\ Assembled(a)' = Assembled(a) /\ MaxScore(a)' = MaxScore(a)
       /\ \/ /\ attempts'[a] = attempts[a]
             /\ quizStats.written => Result(a)' = Result(a)
          \/ /\ attempts[a].kicked /\ ~attempts[a].overridden
             /\ attempts'[a] = [attempts[a] EXCEPT !.score = 0, !.overridden = TRUE]
       /\ quizStats.written /\ attempts' = attempts => Boards' = Boards]_vars

-----------------------------------------------------------------------------
(* What a comment says and the code breaks.                                *)

\* docs/03: until results_released_at is set, scores are withheld from students.
\* The rollup does not wait for the release, and a student reads their own row.
NothingBeforeRelease ==
  ~quiz.released =>
    \A s \in Students :
      /\ \A a \in AttemptIds : a[1] = s => Result(a) = NotReleased
      /\ LET listed == AssignedQuiz(s)
         IN  listed # NotFound => Range(listed.attempts) \subseteq {Null}
      /\ LET profile == StudentStatsRead(Pupil(s), s)
         IN  profile # NotFound => profile.done = 0
=============================================================================
