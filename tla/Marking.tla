------------------------------- MODULE Marking -------------------------------
(***************************************************************************)
(* What one quiz makes of its answers: the questions its validator and its *)
(* importer accept (internal/quiz), their snapshots, the answer rows and   *)
(* the grades and their overrides (internal/attempt), the frozen rollup    *)
(* (internal/analytics) and the reads of a released result: review,        *)
(* leaderboard, percentile.                                                *)
(*                                                                         *)
(* Clocks, windows and who may moderate are module MacQuiz's, the locks of *)
(* authoring module Authoring's; here the data is kept that they leave     *)
(* out.  A JSON value is a pair <<shape, value>>; scores are whole numbers *)
(* and a ratio is compared by cross-multiplication.                        *)
(***************************************************************************)
EXTENDS Integers, SequencesExt

CONSTANTS
  NumStudents,   \* students are numbered in the order of their full names
  Budget,        \* attempts of each student: max_attempts and what a readmission added
  Paces,         \* the times a student may take for an attempt they submit
  Shared,        \* students another quiz is assigned to
  Watched,       \* attempts a moderator may kick
  Workers,       \* workers that roll up
  Inputs,        \* questions a teacher sends
  Files,         \* import files: sequences of rows
  Responses,     \* JSON values students save
  Texts,         \* texts of short answers
  Normalized,    \* normalizeShort
  ParsedFloat,   \* strconv.ParseFloat, on the texts it accepts
  Null,          \* SQL NULL
  Inherit,       \* points or penalty left to the quiz
  NaN,           \* what ParseFloat makes of "NaN"
  NotANumber,    \* a cell ParseFloat refuses
  NotReleased, Error,  \* a read that is refused, a read that fails
  DefaultPoints, DefaultPenalty,
  MaxPoints, MaxImportRows,
  TopN,          \* leaderboardTopN
  MaxQuestions, MaxVersion, MaxOpen, MaxRows, MaxTaken  \* bounds

Students == 1 .. NumStudents
AttemptIds == UNION {{s} \X (1 .. Budget[s]) : s \in Students}
Buckets == 0 .. 9

ASSUME MarkingAssumption ==
  /\ Budget \in [Students -> Nat \ {0}]
  /\ Paces \in [Students -> SUBSET (1 .. MaxTaken)]
  /\ Shared \subseteq Students /\ Watched \subseteq AttemptIds
  /\ {NumStudents, DefaultPoints, MaxPoints, TopN} \subseteq Nat \ {0}
  /\ {DefaultPenalty, MaxImportRows, MaxQuestions, MaxVersion, MaxOpen, MaxRows, MaxTaken} \subseteq Nat
  /\ DefaultPoints <= MaxPoints /\ DefaultPenalty <= MaxPoints
  /\ Normalized \in [Texts -> Texts]
  /\ DOMAIN ParsedFloat \subseteq Texts

\* What JSON and a parsed file are made of, whatever they say.
ASSUME InputsAssumption ==
  /\ \A in \in Inputs :
       /\ DOMAIN in = {"text", "type", "options", "correct", "points", "penalty"}
       /\ in.correct[1] \in {"keys", "accepted"} => in.correct[2] \in Seq(STRING)
  /\ \A file \in Files :
       /\ file \in Seq(Range(file))
       /\ \A k \in DOMAIN file : file[k].correct \in Seq(STRING)

VARIABLES
  quiz,          \* the quizzes row: status, results_released_at set
  questions,     \* the questions rows, in the order of their positions
  versions,      \* quiz_versions.questions
  attempts,      \* the attempts rows; kicked: submit_kind, overridden: score_overridden_at set
  answers,       \* attempt_answers.response: NULL when cleared, no entry without a row
  marks,         \* attempt_answers.is_correct and points_awarded, once graded
  quizStats,     \* the quiz_stats row
  studentStats,  \* the student_stats rows, as far as this quiz goes
  run,           \* the rollup each worker is in the middle of
  cache          \* the snapshots in Redis, by their keys

class == <<quiz, questions, versions, cache>>
sheets == <<attempts, answers, marks>>
rollup == <<quizStats, studentStats, run>>
vars == <<class, sheets, rollup>>

-----------------------------------------------------------------------------
(* JSON as encoding/json reads it: null decodes into anything, as its zero.  *)

Decodes(json, shape) == json[1] \in {shape, "null"}

Zero(shape) ==
  CASE shape = "string" -> "" [] shape = "bool" -> FALSE [] OTHER -> <<>>

Decoded(json, shape) == IF json[1] = "null" THEN Zero(shape) ELSE json[2]

-----------------------------------------------------------------------------
(* Which questions are accepted.                                           *)

\* Two to eight options, each with a text and a key of its own; none elsewhere.
ValidOptions(in) ==
  IF in.type \in {"single", "multi"}
  THEN Len(in.options) \in 2 .. 8 /\ "" \notin Range(in.options) /\ IsInjective(in.options)
  ELSE in.options = <<>>

\* A bug: the keys of a multi question may repeat.
ValidCorrect_Repeated(in) ==
  CASE in.type = "single" ->
         Decodes(in.correct, "string") /\ Decoded(in.correct, "string") \in Range(in.options)
    [] in.type = "multi" ->
         /\ Decodes(in.correct, "keys") /\ Decoded(in.correct, "keys") # <<>>
         /\ Range(Decoded(in.correct, "keys")) \subseteq Range(in.options)
    [] in.type = "truefalse" -> Decodes(in.correct, "bool")
    [] in.type = "short" ->
         /\ Decodes(in.correct, "accepted") /\ Decoded(in.correct, "accepted") # <<>>
         /\ "" \notin Range(Decoded(in.correct, "accepted"))
    [] OTHER -> FALSE

\* The correct answer exists among the options.  A null decodes: it is refused
\* where the zero value is, and a true/false question takes it for false.
ValidCorrect(in) ==
  CASE in.type = "single" ->
         Decodes(in.correct, "string") /\ Decoded(in.correct, "string") \in Range(in.options)
    [] in.type = "multi" ->
         /\ Decodes(in.correct, "keys") /\ Decoded(in.correct, "keys") # <<>>
         /\ Range(Decoded(in.correct, "keys")) \subseteq Range(in.options)
         /\ IsInjective(Decoded(in.correct, "keys"))
    [] in.type = "truefalse" -> Decodes(in.correct, "bool")
    [] in.type = "short" ->
         /\ Decodes(in.correct, "accepted") /\ Decoded(in.correct, "accepted") # <<>>
         /\ "" \notin Range(Decoded(in.correct, "accepted"))
    [] OTHER -> FALSE

\* QuestionInput.Validate.  No comparison with a NaN is true, so none refuses it.
Valid(in) ==
  /\ in.text # ""
  /\ in.points \in {Inherit, NaN} \cup (1 .. MaxPoints)
  /\ in.penalty \in {Inherit, NaN} \cup (0 .. MaxPoints)
  /\ ValidOptions(in) /\ ValidCorrect(in)

\* The range constraints of the questions table; to PostgreSQL a NaN is large.
WithinCheck(in) == NaN \notin {in.points, in.penalty}

\* The correct cell of a row, already split at its separator and trimmed.
ChoiceCorrect(type, cell) ==
  IF type = "single"
  THEN <<"string", CASE Len(cell) = 0 -> "" [] Len(cell) = 1 -> cell[1] [] OTHER -> "a,b">>
  ELSE IF cell = <<>> THEN <<"null", 0>> ELSE <<"keys", cell>>

BoolCorrect(cell) ==
  CASE cell = <<"true">> -> <<"bool", TRUE>>
    [] cell = <<"false">> -> <<"bool", FALSE>>
    [] OTHER -> <<"string", "">>

ShortCorrect(cell) == IF cell = <<>> THEN <<"absent", 0>> ELSE <<"accepted", cell>>

\* The question a row stands for: a blank option cell is no option, a blank
\* number is inherited.
RowInput(row) ==
  [text |-> row.text, type |-> row.type,
   options |-> IF row.type \in {"single", "multi"}
               THEN SelectSeq(row.options, LAMBDA key : key # "") ELSE <<>>,
   correct |-> CASE row.type \in {"single", "multi"} -> ChoiceCorrect(row.type, row.correct)
                 [] row.type = "truefalse" -> BoolCorrect(row.correct)
                 [] row.type = "short" -> ShortCorrect(row.correct)
                 [] OTHER -> <<"absent", 0>>,
   points |-> row.points, penalty |-> row.penalty]

\* The rows of a file that parseImportRecords reports: too many, misaligned,
\* repeating the text of an earlier row, with a cell that is no number, or not
\* valid one by one.
RowErrors(file) ==
  {k \in DOMAIN file :
     \/ k = MaxImportRows + 1
     \/ file[k].excess
     \/ \E j \in 1 .. k - 1 : ~file[j].excess /\ file[j].text = file[k].text
     \/ NotANumber \in {file[k].points, file[k].penalty}
     \/ ~Valid(RowInput(file[k]))}

-----------------------------------------------------------------------------
(* Grading.                                                                *)

\* The response names the keys of the question, each as often as it likes.
SameKeySet(got, want) ==
  /\ want # <<>>
  /\ Cardinality(Range(got)) = Len(want)
  /\ Range(want) \subseteq Range(got)

\* A text or a number, equal to an accepted answer once normalized or as a number.
MatchesShortAnswer(response, accepted) ==
  /\ response[1] \in {"string", "number", "null"}
  /\ LET got == Normalized[Decoded(response, "string")]
     IN  \E k \in DOMAIN accepted :
           LET want == Normalized[accepted[k]]
           IN  \/ got = want
               \/ /\ {got, want} \subseteq DOMAIN ParsedFloat
                  /\ ParsedFloat[got] = ParsedFloat[want]

Correct(q, response) ==
  CASE q.type = "single" ->
         Decodes(response, "string") /\ Decoded(response, "string") = Decoded(q.correct, "string")
    [] q.type = "multi" ->
         Decodes(response, "keys")
           /\ SameKeySet(Decoded(response, "keys"), Decoded(q.correct, "keys"))
    [] q.type = "truefalse" ->
         Decodes(response, "bool") /\ Decoded(response, "bool") = Decoded(q.correct, "bool")
    [] q.type = "short" -> MatchesShortAnswer(response, Decoded(q.correct, "accepted"))

\* gradeQuestion: the points, or minus the penalty.
Mark(q, response) ==
  [correct |-> Correct(q, response),
   awarded |-> IF Correct(q, response) THEN q.points ELSE -q.penalty]

Snapshot(a) == versions[attempts[a].version]

\* The questions with a row that was not cleared.
Committed(a) == {q \in DOMAIN answers[a] : answers[a][q] # Null}

Marks(a) == [q \in Committed(a) |-> Mark(Snapshot(a)[q], answers[a][q])]

Sum(f) == MapThenSumSet(LAMBDA q : f[q].awarded, DOMAIN f)

\* Blanks contribute nothing and the total stops at zero.
Total(a) == IF Sum(Marks(a)) < 0 THEN 0 ELSE Sum(Marks(a))

\* What a snapshot is worth.
Worth(snapshot) == MapThenSumSet(LAMBDA q : snapshot[q].points, DOMAIN snapshot)

MaxScore(a) == Worth(Snapshot(a))

Graded(s) == {a \in {s} \X (1 .. Budget[s]) : attempts[a].status = "graded"}

\* A student's graded attempts with the highest score.
BestRows(s) == {a \in Graded(s) : \A b \in Graded(s) : attempts[b].score <= attempts[a].score}

\* DISTINCT ON (student_id): one row of each student, any of those that sort first.
Picks(rows) ==
  LET taking == {s \in Students : Graded(s) # {}}
  IN  {f \in [taking -> AttemptIds] : \A s \in taking : f[s] \in rows[s]}

\* The rollup's queries order by the score alone.
BestAttempts == Picks([s \in Students |-> BestRows(s)])

-----------------------------------------------------------------------------
(* The rollup of a closed quiz.                                            *)

\* The decile of a score; all of the points belong to the last one.
BucketIndex(score, max) ==
  IF max <= 0 THEN 0 ELSE IF score >= max THEN 9 ELSE (score * 10) \div max

Distribution(best) ==
  [b \in Buckets |->
     Cardinality({s \in DOMAIN best : BucketIndex(attempts[best[s]].score, MaxScore(best[s])) = b})]

\* A student's score in the attempt taken for the best.
Scores(best) == [s \in DOMAIN best |-> attempts[best[s]].score]

\* The members of a set, each once, in a strict total order.
InOrder(S, before(_, _)) ==
  CHOOSE seq \in [1 .. Cardinality(S) -> S] :
    \A j, k \in DOMAIN seq : j < k => before(seq[j], seq[k])

ByScore(scores) ==
  InOrder(DOMAIN scores, LAMBDA s, t :
    \/ scores[s] < scores[t]
    \/ scores[s] = scores[t] /\ s < t)

\* meanMedian, of the scores by student: the mean as a sum and a count, the median
\* doubled.
MeanMedian(scores) ==
  LET order == ByScore(scores)
      Nth(k) == scores[order[k]]
      n == Cardinality(DOMAIN scores)
  IN  IF n = 0 THEN <<Null, Null>>
      ELSE <<<<MapThenSumSet(Nth, 1 .. n), n>>, Nth((n + 1) \div 2) + Nth(n \div 2 + 1)>>

\* The students with an attempt, of the assigned ones.
Attempted == {s \in Students : \E n \in 1 .. Budget[s] : attempts[<<s, n>>].status # "none"}

\* itemAnalysis: every row counts as a response, a graded one as right or wrong.
ItemAnalysis(best) ==
  [q \in UNION {DOMAIN answers[best[s]] : s \in DOMAIN best} |->
     LET rows == {s \in DOMAIN best : q \in DOMAIN answers[best[s]]}
         graded == {s \in rows : q \in DOMAIN marks[best[s]]}
     IN  [responses |-> Cardinality(rows),
          graded |-> Cardinality(graded),
          right |-> Cardinality({s \in graded : marks[best[s]][q].correct})]]

\* The quiz_stats row, before its item analysis.
Summary(best) ==
  [distribution |-> Distribution(best), meanMedian |-> MeanMedian(Scores(best)),
   attempted |-> Cardinality(Attempted), items |-> <<>>]

\* rollupStudents: every assigned student, with a no-show's completion.
StudentRow(s, best) ==
  IF s \in DOMAIN best
  THEN [done |-> 1, score |-> attempts[best[s]].score, max |-> MaxScore(best[s])]
  ELSE [done |-> 0, score |-> 0, max |-> 0]

NoRow == [done |-> 0, score |-> 0, max |-> -1]

NoBuckets == [b \in Buckets |-> 0]

NoSummary ==
  [distribution |-> NoBuckets, meanMedian |-> <<Null, Null>>, attempted |-> 0, items |-> <<>>]

Resting == [at |-> "rest", row |-> NoSummary]

\* RollupDue: closed, nothing in progress, nothing ungraded, no row yet.
Due ==
  /\ quiz.status = "closed"
  /\ \A a \in AttemptIds : attempts[a].status \in {"none", "graded"}
  /\ ~quizStats.written

\* rollupOne first reads the scores ...
Summarize(w) ==
  \E best \in BestAttempts :
    /\ run[w].at = "rest"
    /\ Due
    /\ run' = [run EXCEPT ![w] = [at |-> "scored", row |-> Summary(best)]]
    /\ UNCHANGED <<class, sheets, quizStats, studentStats>>

\* ... then, by a statement that may take another of a student's equal attempts
\* and finds a score overridden since, the answers ...
Analyze(w) ==
  \E best \in BestAttempts :
    /\ run[w].at = "scored"
    /\ run' = [run EXCEPT ![w] = [at |-> "summarized",
                                  row |-> [run[w].row EXCEPT !.items = ItemAnalysis(best)]]]
    /\ UNCHANGED <<class, sheets, quizStats, studentStats>>

\* ... then upserts the students' rows ...
RollupStudents(w) ==
  \E best \in BestAttempts :
    /\ run[w].at = "summarized"
    /\ studentStats' = [s \in Students |-> StudentRow(s, best)]
    /\ run' = [run EXCEPT ![w].at = "students"]
    /\ UNCHANGED <<class, sheets, quizStats>>

\* The rollup of another quiz recomputes the rows of its own students, in which
\* this quiz counts as soon as it is closed, graded or not.
RollupElsewhere(s) ==
  \E best \in BestAttempts :
    /\ quiz.status = "closed"
    /\ studentStats' = [studentStats EXCEPT ![s] = StudentRow(s, best)]
    /\ UNCHANGED <<class, sheets, quizStats, run>>

\* A bug: the quiz_stats row need not wait for the students' rows.
CommitMarker_Early(at) == at \in {"summarized", "students"}

\* The quiz_stats row is the commit marker.
CommitMarker(at) == at = "students"

\* ... and inserts the quiz_stats row, ON CONFLICT DO NOTHING.
InsertStats(w) ==
  /\ CommitMarker(run[w].at)
  /\ quizStats' = IF quizStats.written THEN quizStats
                  ELSE [written |-> TRUE, row |-> run[w].row]
  /\ run' = [run EXCEPT ![w] = Resting]
  /\ UNCHANGED <<class, sheets, studentStats>>

\* A statement fails or the worker dies; what it had written stays.
RollupFails(w) ==
  /\ run[w].at # "rest"
  /\ run' = [run EXCEPT ![w] = Resting]
  /\ UNCHANGED <<class, sheets, quizStats, studentStats>>

-----------------------------------------------------------------------------
(* What a released result shows.                                           *)

\* quizPercentile, from the frozen distribution: the students of the deciles
\* below, and half of those of the attempt's own.
QuizPercentile(d, score, max) ==
  LET own == BucketIndex(score, max)
      below == MapThenSumSet(LAMBDA b : d[b], 0 .. own - 1)
      total == MapThenSumSet(LAMBDA b : d[b], Buckets)
  IN  IF total = 0 THEN Null ELSE ((2 * below + d[own]) * 50) \div total

\* Null without a row.
Percentile(a) ==
  IF quizStats.written
  THEN QuizPercentile(quizStats.row.distribution, attempts[a].score, MaxScore(a)) ELSE Null

\* A result is read once it is released and its attempt graded.
Readable(a) == quiz.released /\ attempts[a].status = "graded"

\* buildResultQuestion decodes the response of a row, whatever it is, and fails
\* on the empty value that NULL is read as.
ResultQuestion(a, q) ==
  CASE q \notin DOMAIN answers[a] -> [response |-> Null, awarded |-> 0]
    [] q \in Committed(a) -> [response |-> answers[a][q], awarded |-> marks[a][q].awarded]
    [] OTHER -> Error

\* assembleResultQuestions; one question that fails fails them all.
Assembled(a) == [q \in DOMAIN Snapshot(a) |-> ResultQuestion(a, q)]

\* Result, of the student's own attempt.
Result(a) ==
  LET shown == Assembled(a)
  IN  CASE ~Readable(a) -> NotReleased
        [] Error \in Range(shown) -> Error
        [] OTHER -> [questions |-> shown, score |-> attempts[a].score,
                     max |-> MaxScore(a), overridden |-> attempts[a].overridden,
                     percentile |-> Percentile(a)]

\* leaderboardQuery takes the fastest of a student's best attempts.
FastestRows(s) ==
  {a \in BestRows(s) : \A b \in BestRows(s) : attempts[a].taken <= attempts[b].taken}

Boards == Picks([s \in Students |-> FastestRows(s)])

\* Accuracy first, then the time taken.
Ahead(board, s, t) ==
  LET mine == attempts[board[s]].score * MaxScore(board[t])
      theirs == attempts[board[t]].score * MaxScore(board[s])
  IN  \/ mine > theirs
      \/ mine = theirs /\ attempts[board[s]].taken < attempts[board[t]].taken

Rank(board, s) == 1 + Cardinality({t \in DOMAIN board : Ahead(board, t, s)})

\* ORDER BY rank, full_name.
Standings(board) ==
  InOrder(DOMAIN board, LAMBDA s, t :
    \/ Rank(board, s) < Rank(board, t)
    \/ Rank(board, s) = Rank(board, t) /\ s < t)

\* A bug: the reader is added when their rank is past the cut.
SelfShown_ByRank(board, top, reader) == Rank(board, reader) <= TopN

\* Whether the reader's row made the cut.
SelfShown(board, top, reader) == reader \in Range(top)

\* The leading rows, and the reader's own.
Leaderboard(board, reader) ==
  LET top == SubSeq(Standings(board), 1, IF Cardinality(DOMAIN board) < TopN
                                         THEN Cardinality(DOMAIN board) ELSE TopN)
  IN  IF SelfShown(board, top, reader) THEN top ELSE Append(top, reader)

-----------------------------------------------------------------------------
(* The life of the quiz.                                                   *)

Unstarted ==
  [status |-> "none", version |-> 0, taken |-> 0, score |-> 0, kicked |-> FALSE, overridden |-> FALSE]

Init ==
  /\ quiz = [status |-> "draft", released |-> FALSE]
  /\ questions = <<>>
  /\ versions = <<>>
  /\ attempts = [a \in AttemptIds |-> Unstarted]
  /\ answers = [a \in AttemptIds |-> <<>>]
  /\ marks = [a \in AttemptIds |-> <<>>]
  /\ quizStats = [written |-> FALSE, row |-> NoSummary]
  /\ studentStats = [s \in Students |-> NoRow]
  /\ run = [w \in Workers |-> Resting]
  /\ cache = <<>>

\* AddQuestion, one by one.
AddQuestion ==
  \E in \in Inputs :
    /\ quiz.status = "draft"
    /\ Valid(in) /\ WithinCheck(in)
    /\ Len(questions) < MaxQuestions
    /\ questions' = Append(questions, in)
    /\ UNCHANGED <<quiz, versions, cache, sheets, rollup>>

\* ValidateImport and CommitImport: all the rows of a file without errors, or,
\* when one of them breaks a constraint of the table, none.
Import ==
  \E file \in Files :
    /\ quiz.status = "draft"
    /\ RowErrors(file) = {}
    /\ \A k \in DOMAIN file : WithinCheck(RowInput(file[k]))
    /\ Len(questions) + Len(file) <= MaxQuestions
    /\ questions' = questions \o [k \in DOMAIN file |-> RowInput(file[k])]
    /\ UNCHANGED <<quiz, versions, cache, sheets, rollup>>

\* The snapshot resolves what a question inherits.
Resolved(in) ==
  [in EXCEPT !.points = IF @ = Inherit THEN DefaultPoints ELSE @,
             !.penalty = IF @ = Inherit THEN DefaultPenalty ELSE @]

\* Publish freezes the questions.
Publish ==
  /\ quiz.status \in {"draft", "scheduled"}
  /\ questions # <<>>
  /\ Len(versions) < MaxVersion
  /\ versions' = Append(versions, [k \in DOMAIN questions |-> Resolved(questions[k])])
  /\ quiz' = [quiz EXCEPT !.status = "scheduled"]
  /\ UNCHANGED <<questions, cache, sheets, rollup>>

\* Cancel, ahead of the window: a reschedule may have moved it behind attempts.
Cancel ==
  /\ quiz.status = "scheduled"
  /\ Len(versions) < MaxVersion
  /\ quiz' = [quiz EXCEPT !.status = "draft"]
  /\ UNCHANGED <<questions, versions, cache, sheets, rollup>>

\* A bug: the versions of a quiz share an entry.
SnapshotKey_Shared(version) == 1

\* snapshotKey, of the one quiz there is.
SnapshotKey(version) == version

\* buildDetail fills the cache on a miss, from a row that never changes.
Filled(version) ==
  LET key == SnapshotKey(version)
  IN  [k \in DOMAIN cache \cup {key} |-> IF k \in DOMAIN cache THEN cache[k] ELSE versions[version]]

\* Start pins the latest version and delivers it; an earlier attempt of the
\* student has ended.
Start(a) ==
  /\ quiz.status = "scheduled"
  /\ attempts[a].status = "none"
  /\ \A n \in 1 .. a[2] - 1 : attempts[<<a[1], n>>].status \in {"submitted", "graded"}
  /\ Cardinality({b \in AttemptIds : attempts[b].status \in {"in_progress", "submitted"}}) < MaxOpen
  /\ attempts' = [attempts EXCEPT ![a].status = "in_progress", ![a].version = Len(versions)]
  /\ cache' = Filled(Len(versions))
  /\ UNCHANGED <<quiz, questions, versions, answers, marks, rollup>>

RowCount == MapThenSumSet(LAMBDA a : Cardinality(DOMAIN answers[a]), AttemptIds)

\* SaveAnswer upserts one row; a JSON null stores NULL.
SaveAnswer(a) ==
  /\ attempts[a].status = "in_progress"
  /\ \E q \in DOMAIN Snapshot(a), response \in Responses \cup {Null} :
       /\ q \in DOMAIN answers[a] \/ RowCount < MaxRows
       /\ answers' = [answers EXCEPT ![a] =
                        [k \in DOMAIN @ \cup {q} |-> IF k = q THEN response ELSE @[k]]]
  /\ UNCHANGED <<class, attempts, marks, rollup>>

Ended(row, taken) == [row EXCEPT !.status = "submitted", !.taken = taken]

\* The student submits, or the attempt's time runs out.
Submit(a) ==
  \E taken \in Paces[a[1]] :
    /\ attempts[a].status = "in_progress"
    /\ attempts' = [attempts EXCEPT ![a] = Ended(@, taken)]
    /\ UNCHANGED <<class, answers, marks, rollup>>

\* A kick ends the attempt as a submit does, and is told from it by its kind;
\* "submitted" stands for both of the statuses that wait for their grade.
Kick(a) ==
  \E taken \in Paces[a[1]] :
    /\ a \in Watched
    /\ attempts[a].status = "in_progress"
    /\ attempts' = [attempts EXCEPT ![a] = [Ended(@, taken) EXCEPT !.kicked = TRUE]]
    /\ UNCHANGED <<class, answers, marks, rollup>>

\* The quiz closes, and what is in progress with it.
Close ==
  /\ quiz.status = "scheduled"
  /\ quiz' = [quiz EXCEPT !.status = "closed"]
  /\ attempts' = [a \in AttemptIds |->
       IF attempts[a].status = "in_progress" THEN Ended(attempts[a], MaxTaken) ELSE attempts[a]]
  /\ UNCHANGED <<questions, versions, cache, answers, marks, rollup>>

\* gradeOne: the marks of the rows that commit to an answer, and the total.
Grade(a) ==
  /\ attempts[a].status = "submitted"
  /\ marks' = [marks EXCEPT ![a] = Marks(a)]
  /\ attempts' = [attempts EXCEPT ![a].status = "graded", ![a].score = Total(a)]
  /\ UNCHANGED <<class, answers, rollup>>

\* OverrideScore: the score of a kicked attempt, once it is graded, to zero and once,
\* whatever has been released or rolled up; the marks stay.
OverrideScore(a) ==
  /\ attempts[a].status = "graded" /\ attempts[a].kicked /\ ~attempts[a].overridden
  /\ attempts' = [attempts EXCEPT ![a].score = 0, ![a].overridden = TRUE]
  /\ UNCHANGED <<class, answers, marks, rollup>>

\* ReleaseResults: a teacher may release before everything is graded.
Release ==
  /\ quiz.status = "closed" /\ ~quiz.released
  /\ quiz' = [quiz EXCEPT !.released = TRUE]
  /\ UNCHANGED <<questions, versions, cache, sheets, rollup>>

Next ==
  \/ AddQuestion \/ Import \/ Publish \/ Cancel \/ Close \/ Release
  \/ \E a \in AttemptIds :
       Start(a) \/ SaveAnswer(a) \/ Submit(a) \/ Kick(a) \/ Grade(a) \/ OverrideScore(a)
  \/ \E w \in Workers :
       Summarize(w) \/ Analyze(w) \/ RollupStudents(w) \/ InsertStats(w) \/ RollupFails(w)
  \/ \E s \in Shared : RollupElsewhere(s)

Spec == Init /\ [][Next]_vars

-----------------------------------------------------------------------------
(* What holds.                                                             *)

TypeOK ==
  /\ quiz \in [status : {"draft", "scheduled", "closed"}, released : BOOLEAN]
  /\ Len(questions) <= MaxQuestions /\ Len(versions) <= MaxVersion
  /\ \A a \in AttemptIds :
       /\ attempts[a].status \in {"none", "in_progress", "submitted", "graded"}
       /\ attempts[a].version \in 0 .. Len(versions)
       /\ attempts[a].taken \in 0 .. MaxTaken
       /\ attempts[a].status = "graded" => attempts[a].score \in 0 .. MaxScore(a)
       /\ attempts[a].overridden => attempts[a].kicked /\ attempts[a].status = "graded"
       /\ DOMAIN marks[a] \subseteq DOMAIN answers[a]
  /\ \A s \in Students : studentStats[s].done \in {0, 1}
  /\ \A w \in Workers : run[w].at \in {"rest", "scored", "summarized", "students"}

\* A question's key, sent as an answer.
KeyAsResponse(q) ==
  CASE q.type = "single" -> <<"string", Decoded(q.correct, "string")>>
    [] q.type = "multi" -> <<"keys", Decoded(q.correct, "keys")>>
    [] q.type = "truefalse" -> <<"bool", Decoded(q.correct, "bool")>>
    [] q.type = "short" -> <<"string", Decoded(q.correct, "accepted")[1]>>

\* Every question that is stored can be earned: the key the validator accepted,
\* typed or imported, is an answer the grader of another package gives points
\* for (QuestionInput.Validate against gradeQuestion).
KeyEarnsPoints ==
  \A v \in DOMAIN versions : \A k \in DOMAIN versions[v] :
    Mark(versions[v][k], KeyAsResponse(versions[v][k])).awarded > 0

\* Students one after another on the leaderboard have percentiles in that order,
\* within 0 and 100, though the board is computed from the attempts at every
\* read and the percentile from a histogram frozen once; and the reader is shown
\* exactly once (Leaderboard, quizPercentile and rollupOne).
StandingsAgree ==
  quiz.released => \A board \in Boards : \A s \in DOMAIN board :
    LET shown == Leaderboard(board, s)
    IN  /\ Cardinality({k \in DOMAIN shown : shown[k] = s}) = 1
        /\ quizStats.written =>
             /\ Percentile(board[s]) \in 0 .. 100
             /\ \A t \in DOMAIN board :
                  Ahead(board, s, t) => Percentile(board[s]) >= Percentile(board[t])

\* A student's row is that of a graded attempt of theirs that no other one beats,
\* with its score as it is or as it was before it was overridden; without a
\* graded attempt it counts the quiz as missed.
RowIncludes(s) ==
  IF Graded(s) = {} THEN studentStats[s] = [done |-> 0, score |-> 0, max |-> 0]
  ELSE \E a \in Graded(s) : \E score \in {attempts[a].score, Total(a)} :
         /\ studentStats[s] = [done |-> 1, score |-> score, max |-> MaxScore(a)]
         /\ \A b \in Graded(s) : attempts[b].score <= score

\* Once the quiz has its frozen row, and with it is never rolled up again, every
\* student's row counts it, whatever failed between the statements of rollupOne
\* (the quiz_stats INSERT is the commit marker), whichever other quiz rolled the
\* student up meanwhile and whatever was overridden since; the row of a student
\* none of whose scores was overridden is exactly that of their best attempt.
StatsIncludeStudents ==
  quizStats.written => \A s \in Students : RowIncludes(s)

-----------------------------------------------------------------------------
(* The invariant the proofs rest on.                                       *)

\* What is offered, and what of it the validator and the table accept.
Offered == Inputs \cup UNION {{RowInput(file[k]) : k \in DOMAIN file} : file \in Files}

Accepted == {in \in Offered : Valid(in) /\ WithinCheck(in)}

\* Only accepted questions are stored, and snapshots hold them resolved.
OnlyAccepted ==
  /\ questions \in Seq(Accepted)
  /\ versions \in Seq(Seq({Resolved(in) : in \in Accepted}) \ {<<>>})

\* An attempt is pinned to a version that exists and answers its questions, and
\* Redis has no other content.
PinnedExist ==
  /\ quiz.status # "draft" => versions # <<>>
  /\ \A a \in AttemptIds :
       IF attempts[a].status = "none" THEN answers[a] = <<>>
       ELSE /\ attempts[a].version \in DOMAIN versions
            /\ DOMAIN answers[a] \subseteq DOMAIN Snapshot(a)
  /\ \A k \in DOMAIN cache : k \in DOMAIN versions /\ cache[k] = versions[k]

\* Nothing is left to start, to end or to grade.
Settled ==
  /\ quiz.status = "closed"
  /\ \A a \in AttemptIds : attempts[a].status \in {"none", "graded"}

\* What the best attempts scored, and what the students' rows say, in sum.
Takers == {s \in Students : Graded(s) # {}}

Highest(s) ==
  CHOOSE score \in {attempts[a].score : a \in Graded(s)} : \A a \in Graded(s) : attempts[a].score <= score

SumOf(f, S) == MapThenSumSet(LAMBDA x : f[x], S)

BestSum == SumOf([s \in Takers |-> Highest(s)], Takers)

RowsSum == SumOf([s \in Takers |-> studentStats[s].score], Takers)

NoneOverridden == \A a \in AttemptIds : ~attempts[a].overridden

\* What the quiz_stats row goes on saying of the attempts there are: who took part,
\* and a mean that an override leaves above what is left.
Holds(row) ==
  /\ DOMAIN row = DOMAIN NoSummary
  /\ row.distribution \in [Buckets -> Nat]
  /\ SumOf(row.distribution, Buckets) = Cardinality(Takers)
  /\ row.attempted = Cardinality(Takers)
  /\ Takers # {} => /\ row.meanMedian[1] \in Nat \X {Cardinality(Takers)}
                    /\ row.meanMedian[1][1] >= BestSum
                    /\ NoneOverridden => row.meanMedian[1][1] = BestSum

\* The students' rows were written after the scores of this row were read.
Follows(row) ==
  /\ \A s \in Students : RowIncludes(s)
  /\ Takers # {} => row.meanMedian[1][1] >= RowsSum

\* A rollup under way works on what only an override changes.
RollupIsStable ==
  /\ quizStats.written => Settled /\ Holds(quizStats.row) /\ Follows(quizStats.row)
  /\ \A w \in Workers :
       /\ run[w].at \in {"rest", "scored", "summarized", "students"}
       /\ run[w].at # "rest" => Settled /\ Holds(run[w].row)
       /\ run[w].at = "students" => Follows(run[w].row)

-----------------------------------------------------------------------------
(* What a comment says and the code breaks.                                *)

\* A released, graded attempt has a result, with null for what was not answered
\* (ResultQuestion).
ReleasedIsReadable ==
  \A a \in AttemptIds : Readable(a) => Result(a) # Error
=============================================================================
