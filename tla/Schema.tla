------------------------------- MODULE Schema -------------------------------
(***************************************************************************)
(* The tables one quiz touches, the job queue, and the transactions that   *)
(* are in flight over them.  The modules QuizService, AttemptService and   *)
(* Worker act on these variables; MacQuiz composes the three.              *)
(*                                                                         *)
(* Quizzes share no row that an operation modelled here writes, so one     *)
(* quiz with its attempts is the whole state a property is about.          *)
(***************************************************************************)
EXTENDS Integers, Sequences, FiniteSets

CONSTANTS
  Students,      \* student accounts
  Workers,       \* worker passes that may run at once (River's MaxWorkers)
  Keys,          \* answer keys a teacher may author, and responses to them
  Guardrails,    \* guardrail configurations a publish may snapshot
  Durations,     \* duration_sec values a publish may set, in ticks
  Instants,      \* instants a teacher may choose for a window to start or end
  Policies,      \* release policies a publish may set
  MaxAttempts,   \* quizzes.max_attempts
  Grace,         \* writeGrace, in ticks
  Lag,           \* ticks a request or transaction may be in flight
  MaxTime,       \* bound: the last tick of the clock
  MaxAttemptNo,  \* bound: attempt rows per student
  MaxVersion,    \* bound: publishes
  MaxSaves,      \* bound: autosaves per attempt
  MaxReports,    \* bound: violation reports per attempt
  MaxFaults      \* bound: worker passes that fail or crash

GuardrailTypes ==
  [policy: {"off", "warn", "count"},
   action: {"flag", "auto_submit", "notify"},
   maxViolations: Nat]

ASSUME CountsAreNaturals ==
  {MaxAttempts, Grace, Lag, MaxTime, MaxAttemptNo, MaxVersion, MaxSaves,
   MaxReports, MaxFaults} \subseteq Nat

ASSUME DurationsPositive == Durations \subseteq Nat \ {0}

ASSUME InstantsAreTimes == Instants \subseteq 0 .. MaxTime

ASSUME PoliciesTyped == Policies \subseteq {"auto", "manual"}

ASSUME GuardrailsTyped == Guardrails \subseteq GuardrailTypes

ASSUME StudentsFinite == IsFiniteSet(Students)

VARIABLES
  now,          \* the database clock
  quiz,         \* the quizzes row
  snapshots,    \* quiz_versions; quizzes.version is its length
  assigned,     \* quiz_assignments: the students with a row
  attempts,     \* attempts and attempt_answers, by student and attempt_no
  events,       \* attempt_events: the types appended, per attempt
  moderation,   \* audit_log: the moderation rows, per attempt
  jobs,         \* River's queue: the instants jobs fire at, overdue ones at now
  start,        \* attempt.Start transactions between their read and their write
  pass,         \* the sweepDue passes, one per worker
  quizStats,    \* quiz_stats: the frozen rollup row
  studentStats, \* student_stats: this quiz's share of each student's row
  faults        \* passes failed so far

vars == <<now, quiz, snapshots, assigned, attempts, events, moderation, jobs,
          start, pass, quizStats, studentStats, faults>>

attemptVars == <<attempts, events, moderation>>
workerVars == <<pass, quizStats, studentStats, faults>>
-----------------------------------------------------------------------------
Time == 0 .. MaxTime
NoTime == -1
NoScore == -1
NoKey == "no question"

AttemptIds == Students \X (1 .. MaxAttemptNo)

QuizStatuses == {"draft", "scheduled", "live", "closed", "archived"}
Terminated == {"submitted", "kicked", "graded"}
AttemptStatuses == {"none", "in_progress"} \cup Terminated
SubmitKinds == {"manual", "auto", "forced", "kicked"}

\* A response: no attempt_answers row, a row whose response is SQL NULL, or an
\* answer.  Keys are the correct ones among those a teacher may declare.
Blank == {"no row", "cleared"}
Responses == Blank \cup Keys

Quiz ==
  [status: QuizStatuses, startsAt: Time \cup {NoTime},
   endsAt: Time \cup {NoTime}, duration: Durations \cup {0},
   policy: {"auto", "manual"}, released: BOOLEAN, key: Keys \cup {NoKey}]

Snapshot == [key: Keys, guardrails: Guardrails]

Attempt ==
  [status: AttemptStatuses, version: Nat,
   startedAt: Time \cup {NoTime}, deadline: Time \cup {NoTime},
   kind: SubmitKinds \cup {"none"}, answer: Responses,
   violations: Nat, score: {NoScore, 0, 1},
   readmitted: BOOLEAN, overridden: BOOLEAN]

NoAttempt ==
  [status |-> "none", version |-> 0, startedAt |-> NoTime,
   deadline |-> NoTime, kind |-> "none", answer |-> "no row",
   violations |-> 0, score |-> NoScore, readmitted |-> FALSE,
   overridden |-> FALSE]

EventTypes ==
  {"started", "progress", "violation", "submitted", "kicked", "graded"}

Moderation == [kicked: Nat, readmitted: Nat, overridden: Nat]

\* What attempt.Start has read from the quiz row when it goes on to write.
NoStart ==
  [open |-> FALSE, now |-> NoTime, endsAt |-> NoTime, duration |-> 0,
   version |-> 0, found |-> FALSE]

StartTx ==
  [open: {TRUE}, now: Time, endsAt: Time, duration: Durations \cup {0},
   version: Nat, found: BOOLEAN] \cup {NoStart}

PassSteps ==
  {"idle", "open", "sweep", "force", "list", "grade", "rollup", "read",
   "students", "insert"}

\* Each student's best graded score.
Scores == [Students -> {NoScore, 0, 1}]
NoScores == [s \in Students |-> NoScore]

\* The pass a worker runs: its next step, the begin of its sweep transaction, the
\* attempts that transaction has ended or the pass has yet to grade, and what
\* rollupOne has read so far.
Pass ==
  [at: PassSteps, since: Time \cup {NoTime}, todo: SUBSET AttemptIds,
   best: Scores, attempted: SUBSET Students]
IdlePass ==
  [at |-> "idle", since |-> NoTime, todo |-> {}, best |-> NoScores,
   attempted |-> {}]

Stats == [written: BOOLEAN, best: Scores, attempted: SUBSET Students]
NoStats == [written |-> FALSE, best |-> NoScores, attempted |-> {}]

\* The type of every variable.
TypeOK ==
  /\ now \in Time
  /\ quiz \in Quiz
  /\ snapshots \in Seq(Snapshot)
  /\ assigned \subseteq Students
  /\ attempts \in [AttemptIds -> Attempt]
  /\ events \in [AttemptIds -> Seq(EventTypes)]
  /\ moderation \in [AttemptIds -> Moderation]
  /\ jobs \subseteq Nat
  /\ start \in [Students -> StartTx]
  /\ pass \in [Workers -> Pass]
  /\ quizStats \in Stats
  /\ studentStats \in Scores
  /\ faults \in 0 .. MaxFaults
-----------------------------------------------------------------------------
Least(x, y) == IF x <= y THEN x ELSE y

\* quizzes.version: only Publish writes it, with the snapshot it numbers.
Version == Len(snapshots)

\* Request and transaction clocks a step taken now may have been given:
\* time.Now() at the HTTP check and PostgreSQL's now() are both fixed before
\* the row locks are granted.
Recent == {t \in Time : t <= now /\ now <= t + Lag}

\* effectiveStatus: the status a reader sees, derived from the stored one and
\* the window.
EffectiveStatus(q, t) ==
  CASE q.status \in {"scheduled", "live"} /\ q.endsAt <= t -> "closed"
    [] q.status = "scheduled" /\ q.startsAt <= t /\ t < q.endsAt -> "live"
    [] OTHER -> q.status

\* The attempt rows of a student.
Rows(s) == {n \in 1 .. MaxAttemptNo : attempts[<<s, n>>].status # "none"}

InProgress(a) == attempts[a].status = "in_progress"

\* The first statement of a sweep has updated this row and its transaction has not
\* committed: readers see the row as it was, whoever locks it waits.
Held(a) == \E w \in Workers : pass[w].at = "force" /\ a \in pass[w].todo

\* A bug: archived quizzes are forgotten.
IsOver_ClosedOnly == quiz.status = "closed"

\* Every pass and release statement asks for a quiz that is over.
IsOver == quiz.status \in {"closed", "archived"}

\* The flip every termination makes to an attempt row.
Ended(a, status, kind) == [attempts[a] EXCEPT !.status = status, !.kind = kind]

Occurs(type, a) == Cardinality({i \in DOMAIN events[a] : events[a][i] = type})
Log(type, a) == events' = [events EXCEPT ![a] = Append(@, type)]

\* A bug: a job that is due at once is lost.
Enqueue_FutureOnly(instants) == jobs' = jobs \cup {j \in instants : j > now}

\* A job fires at its instant, or now when that has passed.
Enqueue(instants) == jobs' = jobs \cup {IF j < now THEN now ELSE j : j \in instants}

Init ==
  /\ now = 0
  /\ quiz = [status |-> "draft", startsAt |-> NoTime, endsAt |-> NoTime,
             duration |-> 0, policy |-> "auto", released |-> FALSE,
             key |-> NoKey]
  /\ snapshots = <<>>
  /\ assigned = {}
  /\ attempts = [a \in AttemptIds |-> NoAttempt]
  /\ events = [a \in AttemptIds |-> <<>>]
  /\ moderation =
       [a \in AttemptIds |-> [kicked |-> 0, readmitted |-> 0, overridden |-> 0]]
  /\ jobs = {}
  /\ start = [s \in Students |-> NoStart]
  /\ pass = [w \in Workers |-> IdlePass]
  /\ quizStats = NoStats
  /\ studentStats = NoScores
  /\ faults = 0

\* The clock moves on.  No transaction outlives Lag ticks, and a job that is
\* overdue is due now.
Tick ==
  /\ now < MaxTime
  /\ \A s \in Students : start[s].open => now < start[s].now + Lag
  /\ \A w \in Workers : pass[w].at = "force" => now < pass[w].since + Lag
  /\ now' = now + 1
  /\ jobs' = {IF j <= now THEN now' ELSE j : j \in jobs}
  /\ UNCHANGED <<quiz, snapshots, assigned, attemptVars, start, workerVars>>
=============================================================================
