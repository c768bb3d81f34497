# MacQuiz: a TLA+ verification project

MacQuiz v2 (`server/`, Go over PostgreSQL, River and Redis) runs timed quizzes:
a teacher publishes a quiz with a window, students take attempts that are timed,
autosaved and guarded by a violation ladder, a background worker closes quizzes,
submits what students left open, grades, releases results and freezes analytics.
Teachers watch the class live over WebSockets, which also carry the students' heartbeats.
Nearly everything that matters happens in transactions of several API processes
and worker passes that interleave over the same rows. This directory models that
core in TLA+, with the realtime layer, the authoring of quizzes, the marking and statistics, the
sessions and the two web clients around it, checks them with TLC on small instances and proves
with TLAPS, for every value of the constants, all the safety properties it checks.

Files: one module per component, `MC*.tla` and `*.cfg` for TLC, `*Proofs.tla`
for TLAPS, `PROJECT.json` for the correspondence between definitions and source
lines, the hazards, the mutants each property was tried against, and the runs.

    tlc -config Grading.cfg MCMacQuiz.tla      # any run below
    tlc -config Gateway.cfg Gateway.tla     # Authoring, Sessions, Marking: MC<module>.tla
    tlapm MacQuizProofs.tla

## 1. The system

All paths are under `server/internal/`.

| Component | State | Operations | What makes it correct |
|---|---|---|---|
| Quiz lifecycle (`quiz/lifecycle.go`) | `quizzes` row, `quiz_versions`, `quiz_assignments` | Publish, Cancel, ForceClose, Extend, Archive, SetAssignments; the lazy `effectiveStatus` | snapshots are append-only; a closed quiz stays closed; the window's end only moves later; no student is dropped or unpublished under a running attempt |
| Results (`quiz/results.go`) | `results_released_at` | ReleaseResults, ReleaseDueResults | a release is final and comes when the class is graded |
| Quiz scheduler (`quiz/scheduler.go`) | River jobs | enqueueWindowJobs, enqueueCloseJob, SweepDueQuizzes | a job that closes the current window is always queued |
| Question authoring and imports (`quiz/service.go`, `quiz/import*.go`) | `questions`, `imports` | add, update, delete, reorder; register, validate, commit | questions change in drafts only; an import is committed once and in full |
| Attempt service (`attempt/service.go`, `events.go`) | `attempts`, `attempt_answers`, `attempt_events`, `audit_log` | Start, SaveAnswer, SubmitManual, ReportViolation, Kick, Readmit, OverrideScore | the attempt budget; nothing changes after the end; each moderation once; the log tells the row's life |
| Sweeps and grading (`attempt/scheduler.go`, `grade.go`) | the same rows | SweepDueAttempts, GradeSubmitted, gradeOne | every attempt ends and is graded once, from its pinned snapshot |
| Worker (`worker/worker.go`) | a pass per River worker | sweepDue from every job, the periodic sweep and the boot re-scan | passes may overlap, fail and be repeated |
| Analytics (`analytics/rollup.go`) | `quiz_stats`, `student_stats` | RollupDue, rollupOne, rollupStudents | written once per quiz, from final scores |
| Progress coalescer, snapshot cache, gateway, publisher, subscriber (`attempt/coalesce.go`, `realtime/`) | sockets, timers, Redis channels, a TTL cache | connect, replace, heartbeat, revalidate, relay | one socket per attempt, flags that agree with the heartbeat, no update lost for good |
| Accounts and sessions (`authusers/`) | `users`, `user_sessions`, the cookies of a browser | Login, Refresh, Logout, ChangePassword, UpdateUser (disable, enable, reset), groups, avatars | one live token per family; a revoked session cannot come back; tabs do not log each other out |
| Reads (`attempt/results.go`, `review.go`, `leaderboard.go`, `quiz/live.go`, `analytics/service.go`, `lists.go`) | none | results, review, standings, live roster, lists | nothing leaks before the release |
| Rate limiter (`ratelimit/`) | times in the memory of a process | Allow | the limit per window |
| Audit (`audit/`) | `audit_log` | Write, List | append-only |
| Web client (`web/src/player/AttemptPlayer.tsx`, `authoring/LiveMonitorPanel.tsx`, `api/client.ts`, `auth/auth.tsx`) | the roster, snapshot requests, sockets, timers, unsaved answers, the tabs' session | reconnect, poll, merge snapshots and deltas, autosave, submit, refresh | shows no more than the database holds and catches up with it; forgets no answer |
| Storage, spreadsheets, e-mail, configuration, telemetry, HTTP, generated API types, command, backups | - | pure I/O, parsing, wiring | - |

How they interact: the API and the workers share PostgreSQL only. An API
transaction that changes a window or ends an attempt inserts a River job in the
same transaction; every job kind, and the boot re-scan, runs the same
`sweepDue`. Events are published to Redis after commit, best effort, and relayed
by the gateway; the `attempt_events` table is the source of truth.

What is hard: the order of row locks against values read before them (Start reads
the quiz without a lock; `now()` is fixed before a lock is granted), the gap
between a stored status and the effective one, overlapping worker passes, a pass
failing between its statements, jobs left over from an earlier window, handlers
that unwind after their successor registered, and snapshots and deltas that reach
a dashboard in any order, lock orders that cross, tabs that share one cookie, saves and a submit
that overtake each other. `hazards` in `PROJECT.json` has them line by line, each with the
properties that watch it; those that no property watches are listed in section 3.

## 2. The modules

| Module | Models |
|---|---|
| `Schema` | the tables around one quiz, the job queue, the transactions in flight, the clock; `Init`, `Tick` |
| `QuizService` | the teacher's operations, one action each: `Publish`, `Cancel`, `ForceClose`, `Extend`, `Archive`, `ReleaseResults`, `SetAssignments`, and `AuthorQuestions` for the draft's question set |
| `AttemptService` | `StartRead`/`StartInsert`/`StartEnd`, `SaveAnswer`, `SubmitManual`, `RecordViolation`, `LadderSubmit`, `Kick`, `Readmit`, `OverrideScore` |
| `Worker` | `BeginPass` (first statement of SweepDueQuizzes), `OpenDue`, `SweepExpired`/`SweepForced`, `ListUngraded`, `GradeOne`, `ReleaseDue`, `ListRollup`, `ReadScores`, `RollupStudents`, `InsertStats`, `FailPass`, `PeriodicSweep` |
| `MacQuiz` | the composition, the properties, the refinement mapping and the inductive invariant |
| `AttemptContract` | the abstract specification: what is promised of an attempt, with no clock, window, lock or worker |
| `MacQuizProofs` | theorems about `MacQuiz`: types, grades, what has ended |
| `LifeProofs` | theorems about the lives of attempts and of the quiz in `MacQuiz`, and its contract |
| `MCMacQuiz` | constants for TLC |
| `Gateway` | the sockets of one attempt: `Dial`, `Subscribe`, `Refuse`, `Accept`, `Register`, `CloseReplaced`, `Drop`, `PeerGone`, `Unwind`, the reader's `Read`, the pump's `Beat`, `TimerFires`, `Relay` and `Revalidate`, the callbacks' `Commit`, and the student's reconnect loop with `SubmitFails` |
| `Heartbeats` | `Gateway` with the connectivity rows that its callbacks append |
| `GatewayProofs` | theorems about `Gateway` |
| `Dashboard` | a teacher's live monitor of one student: commits, their publishes, the monitor socket, snapshot requests, and the client's merge of both |
| `Authoring` | the questions of one quiz and its imports: `AddQuestion`, `UpdateQuestion`, `DeleteQuestion`, `ReorderQuestions`, `UpdateQuiz`, `DeleteQuiz`, `RegisterImport`, `TakeJob`/`ValidateImport`/`CompleteJob`, `CommitImport`, with `Publish` and `Cancel` |
| `Outline` | the abstract specification of `Authoring`: an ordered list that changes one call at a time in a draft, imports appended whole and once, snapshots for ever |
| `Sessions` | the refresh-token families of one account: `Login`/`LoginInsert`, `Arrives`/`Refresh`/`Rotate`/`RevokeReused`, `Logout`, `ChangePassword`, `Disable`/`ResetPassword`/`UpdateUserEnd`/`Enable`, and the tabs that share a browser's cookies |
| `Families` | the abstract specification of `Sessions`: what an account promises about its families of refresh tokens, with no cookie, lock, transaction or tab |
| `Player` | the student's player of one attempt: `SetAnswer`, `Debounce`, `SubmitManually`, `TimeUp`, what it does when a save or a submit returns, against `SaveAnswer` and `SubmitManual` |
| `PlayerProofs`, `DashboardProofs`, `AuthoringProofs`, `SessionsProofs`, `MarkingProofs` | theorems about those modules; `MarkingProofs` also about `Results` |
| `Marking` | what a quiz makes of its answers: the validator and the importer's rows, `gradeQuestion` and `gradeOne`, the snapshot cache, the rollup statement by statement with its mean and median, and the reads of a released result |
| `Results` | who may read what of that: `Can`, the player's payload through the cache, the owner's review and table, the student's list, and the profiles of a quiz and of a student |
| `MCAuthoring`, `MCSessions`, `MCMarking` | constants for TLC |

In `MacQuiz`, one quiz is the whole state: operations on different quizzes write no common row
that a property speaks of. (A pass sweeps all quizzes; its statements act on each
row independently.)

### Granularity

* A teacher's operation and every operation on an attempt except Start holds its
  row `FOR UPDATE` from its first read to its commit, so it is one action; what it
  reads outside that row under READ COMMITTED is read at the same step.
* `Start` locks the assignment row, reads the quiz row *without* a lock together
  with `now()`, looks for an attempt to resume, counts attempts, and inserts. It is two actions:
  `StartRead` keeps what was read in `start[s]`; `StartInsert` uses it. The look-up
  of a resumable attempt runs somewhere between the two, so an attempt is missed
  only if it was not resumable at both ends. The count runs at the insert: only
  other operations on the same student could change it in between, and they only
  add slots or end attempts. The lock makes starts of one student exclusive
  (`~start[s].open`) and makes `SetAssignments`, which deletes the row, wait.
  `StartEnd` is the start that writes nothing, for whatever reason.
* `sweepDue` commits statement by statement, so each statement is an action and
  any number of passes interleave. `SweepDueAttempts` is the exception: its two
  statements share a transaction, so `SweepExpired` takes the rows whose time is up
  and holds them (`Held`) until `SweepForced` commits. Operations on those rows wait,
  everything else may commit in between, and the second statement sees it.
* `FailPass` ends a pass anywhere, and River runs its job again, at once: its
  backoff is left out, and so is the last attempt after which it discards a job. A
  worker that crashed re-scans when it boots, which `PeriodicSweep` covers.
* Clocks: worker statements use the current `now`. A request's `time.Now()` check
  and a transaction's `now()` may be up to `Lag` ticks old when the row lock is
  granted (`Recent`).

### Data

An answer is a key, blank (`"no row"`) or `"cleared"` (a JSON null saved as SQL
NULL); a quiz has one question whose correct key is a member of `Keys`; a score is
0 or 1, `NoScore` before grading. `snapshots[v]` is row `v` of `quiz_versions`
with the key and the guardrails; `quizzes.version` is the length of that
sequence. `jobs` is the set of instants at which a job fires: all jobs run the
same pass, so two jobs for one instant are one. `moderation` counts the audit
rows of an attempt.

Left out of `MacQuiz`: the exam-day backup row, quiz-level audit rows, `published_at` and
`submitted_at`, publishes to Redis, the `current_question` cursor, shuffling,
changes of `max_attempts`, what `rollupOne` computes beyond scores and
participants, title and e-mail texts.

### The realtime layer

The database is the source of truth and the realtime layer only tells about it,
so `Gateway` and `Dashboard` stand beside `MacQuiz` and do not compose with it:
what they need of the attempt service is one commit followed by one publish.

In `Gateway` one handler is one element of `Sockets`, from authorization
(`checked`) through `subscribed`, `accepted` (the client is connected) and `open`
(registered) to `leaving`, where only the deferred calls are left. A name is reused once its handler has returned, so any number of connections
is modelled with the few that exist at once. The registry (`active`) changes
under its mutex, so `replaceActiveAttempt` and `clearActiveAttempt` are one step
each; the goroutine that closes the replaced socket is a member of `doomed` until
it runs. The reader and the pump are two goroutines: `Read` takes a frame from the
connection and offers it on the unbuffered channel (`hb`), where it waits for as long as the
pump pings, writes or revalidates; `Beat` is the pump that receives it. `quiet` counts the ticks
since the reader last read a frame, `timer` the ticks the pump's Go timer has left. When
the timer has run out and a frame waits, either step may come first, as in `select`.
A client is idle, dialing, up, stopped or locked; one that was replaced stays stopped
unless its window submits and fails (`SubmitFails`), upon which it plays, and dials, again. Callbacks are
counted in `calls` and commit in any order. A kick is published to the handlers
that are subscribed at that moment, or to none. Accounts are disabled once and not
enabled again. The session-invalidated callback and the banners are left out.

In `Dashboard` the roster row of one student is what `LiveRoster` derives from the
latest attempt: a number, a phase, the answered and violation counts, and whether
a score is there. Publishes follow their commits in any order and may be lost
(`Publish`), which covers Redis outages, the progress coalescer and the time when nobody is
subscribed. A request is stale once a newer one is issued (`snapshotSeq`). It is
assumed that polls are answered within their interval, so that a poll overtakes
no poll. A monitor socket revoked with 4003 and the banners are left out.

### Authoring

`MacQuiz` changes a draft's questions as a whole (`AuthorQuestions`); `Authoring` is
that step in detail, without attempts. An operation that locks the quiz row first
and nothing else is one action. `UpdateQuestion` and `DeleteQuestion` find the quiz of a question
without a lock (`FindQuestion`) and lock it afterwards; `CommitImport` locks the
imports row, then the quiz; the cascade of `DeleteQuiz` locks them the other way
round. `holder` says who has which lock, `call` what each request waits for, and
`BreakDeadlock` is PostgreSQL's abort of one transaction of a cycle. What a request that has its
locks goes on to do has a guard of its own (`Edits`, `Cascades`, `Commits`,
`Refusable`), so that `NobodyStuck` can say without `ENABLED` that a request can
go on (`CanProceed`). `Fails` is
the rollback of a commit. A question's content is the points it sets, or `Inherit`.
The worker reads a row, parses the file and writes its outcome without a lock; a
lost worker's job is handed out again (`Crash`), as often as that takes: that River
discards a job after its last attempt is left out, so `ValidationIsQueued` speaks of
jobs that River keeps. A commit locks an import whatever its status and is refused
under the quiz's lock if it is not ready (a call of kind "refusal"). A worker that counts as lost and still runs is
not modelled.

### Sessions

A row of `user_sessions` is `used` once it was rotated (`stale` when
`RefreshReuseGrace` is over) and `revoked` by reuse detection or by an order. The
transactions are split where a lock is waited for: `Refresh` locks the token's
row and decides, `Rotate` inserts the successor and needs the account's key,
`RevokeReused` needs the rows of the family; `UpdateUser` and `ChangePassword` lock the
account, collect the sessions they see (`seen`) and revoke them when no refresh
holds one. A login verifies the password and inserts later. A disable, a reset or a new
password starts a new `era`, and each session remembers that of the credential
which opened it. In the browser, `client.ts` refreshes under a Web Lock
(`Serialised`), the bootstrap of `auth.tsx` does not (`Reload`); an answer sets or
clears the cookies of its browser when it arrives, in any order. The 30 s of grace are
taken to outlast the network: they end (`GraceEnds`) when no refresh with the rotated
token, and no answer with its successor, is on its way.

`Families` keeps of all this the living tokens of each family, the tokens handed
out, the account's status and the era. A family is opened with one token, which a
rotation replaces while the account is active; its end is for ever; a change of the
credential or of the account ends all of them at once. `Sessions` implements it
(`ImplementsFamilies`), where a token lives as long as its row is neither used nor
revoked (`LiveTokens`): the grace of a reused token, the locks and whatever the
browser does with its cookies are stutters.

### Player

An answer is the number of the edit that typed it. `saveOne` is split at its
await: `SaveAll` sends, `SaveReturns` settles. Saves travel beside each other,
each may be refused or lost on the way there or back (`SaveFails`). `submitNow`
flushes what is dirty, waits for those saves only (`SendSubmit`) and submits.
`clock` is before the deadline, within `writeGrace`, or past it. A report that was
sent while the student played may lock the player while it submits (`Locked`).

### Marking

What `MacQuiz` abstracts to one question and a score of 0 or 1 is here in full for
every type of question: a JSON value is a pair of shape and value, and a null
decodes into the zero value as in `encoding/json`. `ValidCorrect` is the validator,
`RowInput` and `RowErrors` the importer, `Correct` and `Mark` the grader, `Total` a score
with its floor at zero. `cache` holds snapshots under the keys of their versions, an
entry may be missing at any read, and what is published later must not reach an
attempt through it. `Summarize`, `Analyze`, `RollupStudents` and `InsertStats` are the
statements of `rollupOne`, any of which may fail; the row it computes is a `Summary` of the attempts
the first took for the best, with the `ItemAnalysis` of those the second took. The
rollup of another quiz recomputes the rows of the students it shares with this one
(`RollupElsewhere`), at any time once the quiz is closed. `InOrder` is a sort: the students by score for the median,
by rank for the standings. `Boards` and `BestAttempts` are
sets: SQL leaves the order of ties and the choice among equal best attempts open.
Scores are whole numbers, ratios are compared by cross-multiplication. Clocks and
locks are left to the modules above.

Moderators act here too: `Kick` ends an attempt of `Watched`, and `OverrideScore` sets
the score of a kicked and graded attempt to zero, once, before or after the release
and the rollup, and leaves its marks. So a score is the sum of the marks of the review *unless* every
read says that it was overridden; a student's row may hold a score from before an
override; and the frozen mean may lie above the rows, never below.
`Results` adds the accounts and the policy function, and states in these terms that
all reads agree (`ReadsAgree`: of one attempt, `AttemptsReadAlike`, and of the class,
`ProfilesReadAlike`) and what of a result that a student can read may still change
(`ReleasedIsFinal`: only an override, of a kicked attempt and once, and only its
score and its percentile). Its assumption is that a refusal is neither a row nor a table.

## 3. The runs

Every run of `MacQuiz` checks deadlock (none exists: the clock, the periodic sweep and the
pass always leave a step), and so does `Dashboard`. `Gateway` does not: a student
may be locked out for good, with every socket closed and nothing left to do. Nor do
the other four modules: a quiz may be deleted, a player done, and the bounds on
sessions, questions, imports and attempts run out. In `Authoring`, where requests wait for each other,
`NobodyStuck` says what deadlock freedom would. Unless said otherwise the instance of `MacQuiz` has one student, one worker, one key, one
publish, window instants 1 and 2, no lag. Bounds: `MaxTime` is the last tick,
`MaxVersion` the publishes, `MaxAttemptNo` the attempt rows per student,
`MaxSaves`, `MaxReports` autosaves and reports per attempt, `MaxFaults` failing passes.

| Run | Instance | Shows |
|---|---|---|
| `Attempts` | 2 attempt rows, 2 ladders, 2 reports, a failing pass | `AttemptBudget`, `ModeratedOnce`, `LogMatchesRow`, `GradingIsQueued` |
| `Grading` | 2 keys, 2 publishes, 1 autosave, lag 1 | `GradedAgainstPinned`, `TerminatedIsImmutable`, `ImplementsContract` |
| `Workers` | 2 workers, a failing pass | `CloseIsQueued`, `OutcomesAreFinal`, `ForcedWasCutShort` |
| `Careful` | 2 publishes, 2 durations, 4 instants | `InProgressIsAssigned`, `DeadlineInWindow`, `DeadlinesMoveForward` |
| `Liveness` | both release policies, a failing pass, fairness | `AttemptsEnd`, `ClosedIsReleased`, `ClosedIsRolledUp` |
| `Gateway` | 2 devices, 2 connections at once, 1 lost, a timeout of 1 tick, fairness | `SoleSocket`, `ClosedForAReason`, `FlagsMeanSilence`, `KickCloses`, `RevokedCloses`, `ReplacementsEnd` |
| `Dashboard` | 2 attempts, 3 commits, 2 requests, fairness | `NeverAhead`, `SnapshotsMoveForward`, `PollingConverges` |
| `Authoring` | 2 requests, 1 worker that may be lost, 1 import of 2 rows, 3 questions, 1 publish | `PositionsDense`, `SnapshotIsCurrent`, `NobodyStuck`, `ValidationIsQueued`, `ImplementsOutline` |
| `Sessions` | 2 tabs of one browser, 3 sessions, 1 account update, 1 lost answer | `OneLiveToken`, `SessionKept`, `RevocationIsComplete`, `ImplementsFamilies` |
| `Player` | 2 questions, 2 edits of each, 1 lost request, fairness | `NothingForgotten`, `ComesToRest` |
| `Marking` | 2 students with 3 attempts, 7 questions and 7 files to choose from, 2 versions, 2 answer rows, one attempt that may be kicked, one student shared with another quiz, a leaderboard of 1 | `KeyEarnsPoints`, `StandingsAgree`, `StatsIncludeStudents`, `ReadsAgree` |

Why the bounds are enough: two publishes are what it takes to separate a pinned
version from the latest one; two attempt rows to separate a readmission from a
fresh slot; two workers for two passes to race over one attempt, and two attempts of one student
that wait together for their grade for a pass to fail between them; a window of one or two ticks puts every
operation before, at and after each boundary; one tick of lag puts a stale clock
on either side of one. Two connections are what it takes to replace, and two
devices to replace back; two requests to overtake each other; three commits to
end an attempt, or to begin a second one, with a delta of the first still on its way.
Two requests are what it takes to cross locks, three questions to delete or move
one in the middle, an import of two rows to append more than one. Two tabs race for one token,
and the third session row is the successor of a successor or a second family.
Two edits of one question are what it takes to type while a save travels. A
leaderboard of one cuts off the second student, also in a tie. In `Marking` one
attempt at a time is open or waits for its grade (`MaxOpen`) and one worker rolls
up, since what overlapping attempts and passes do to each other is the subject of
`MacQuiz`; the first student has two attempts, one of which may be kicked and
overridden, so that the override may leave the other one as the best or neither.

The inputs of `Marking` leave out one that the validator accepts: a true/false
question whose correct answer is null (see below).
The type invariants and the inductive invariants of section 4 were checked on these
instances too, before they were proved. Two more configurations pass and are kept
beside the runs: `Guards.cfg` (`MCAuthoring`) shows that `CanProceed` is exactly when
a step of the request is `ENABLED` (`GuardsAreExact`), which no prover here can
show; `ReleasedIsFinal.cfg` (`MCMarking`) checks `ReleasedIsFinal`.

`Careful` adds an assumption, `ReschedulesBeforeOpening`: nobody republishes a
quiz whose window has opened although its row still says 'scheduled'. Without it
`DeadlinesMoveForward` fails (`RescheduleLive.cfg`), and a republish into the
future lets `SetAssignments` drop a student whose attempt runs.

### Where the code and its comments disagree

The run `ClearedAnswer` finds a behaviour of the code that contradicts a sentence of
the repository, which `findings` quotes: a student who clears an answer leaves a
row without a response, and reading the released result fails on it. The other
configurations of this table are kept to reproduce a counterexample each; TLC
must report the named property violated.

| Configuration | Module | Property | What happens |
|---|---|---|---|
| `ClearedAnswer` | `MCMarking` | `ReleasedIsReadable` | a cleared answer makes the released result an internal error |
| `EarlyAccuracy` | `MCMarking` | `NothingBeforeRelease` | a rollup does not wait for the release, and a student may read their own profile: its accuracy gives a score away before the release, of which `docs/03-data-model.md:70` says "null = scores and answer key withheld" |
| `AutoRelease` | `MCMacQuiz` | `AutoReleaseIsAtomic` | an attempt kicked between a pass's grading and its release statement is ungraded when results are released |
| `RescheduleLive` | `MCMacQuiz` | `DeadlinesMoveForward` | republishing an open quiz that is stored as 'scheduled', then extending it, moves a running deadline back |
| `OverrideAfterRollup` | `MCMacQuiz` | `RollupIsCurrent` | zeroing a score after the rollup leaves `quiz_stats` stale |
| `StaleCancel` | `MCMacQuiz` | `DraftHasNoAttempt` | a `Cancel` that waited for the row lock past `starts_at` (a lag of one tick) unpublishes a quiz with a running attempt |
| `LateStart` | `MCMacQuiz` | `RolledUpIsSettled` | a start that read the quiz before a force-close inserts its attempt after the quiz was closed, released and rolled up; `analytics/rollup.go:60` says "A closed quiz takes no new attempts [...] the rollup is final" |
| `ForcedLate` | `MCMacQuiz` | `ForcedWasCutShort` | with a lag of one tick, a Start that commits between the two statements of a sweep inserts an attempt that is already out of time, and it is marked 'forced', although `attempt/scheduler.go:44` promises 'auto' to an attempt that expired before its quiz closed |
| `FalseAlarm` | `Gateway` | `NoFalseAlarm` | a frame that was read in time waits for the pump while the timer runs out, `select` takes the timer, and a student who is there is flagged, until the pump receives the frame |
| `Heartbeats` | `Heartbeats` | `HeartbeatClearsFlag` | a flagged student who comes back on a new socket sends heartbeats and stays flagged: the pump's latch did not survive the socket |
| `Drift` | `Dashboard` | `NoDrift` | a snapshot read before a commit and shown after its delta leaves the roster behind, although nothing was lost |
| `LateAnswers` | `Player` | `UnsavedLandFirst` | the submit overtakes a save that was already travelling, which is then refused: `submitNow` awaits only the saves it sends itself |

Seen while modelling, and watched by no property of their own:

* A NaN in a points or penalty cell of an import passes the validator, so the
  import is ready and no commit of it succeeds: the table's CHECK refuses it.
* A true/false question with the key null is stored and graded as false.
* The rollup counts any of a student's equal best attempts, the leaderboard the
  fastest; its comment says the two cannot disagree. A republish between two attempts changes the
  maximum a percentile is taken of.
* Two rollups of different quizzes upsert the same `student_stats` rows.
  `RollupElsewhere` reads and writes in one step, so a row that is computed before
  another quiz's rollup and written after it is not modelled.
* A login that verified its password before a reset, and inserts after it, keeps
  its session: `RevocationIsComplete` excepts it. A logout that meets a rotation
  leaves the successor live without its cookies.
* Of two tabs that open together one may show the login page, since the bootstrap
  refreshes outside the Web Lock.
* `SetAssignments` holds the quiz row and waits for an assignment row that a
  Start has locked, whose insert wants the quiz row: PostgreSQL aborts one
  (`lifecycle.go:698`). `GradeSubmitted` stops at the first attempt it cannot grade
  (`grade.go:72`); the model's snapshots can always be graded.
* A validation job that runs twice at the same time writes its outcome over
  whatever the row says by then (`importworker.go:66`).
* A disconnection that commits after the reconnection leaves the flag up
  (`gateway.go:629`). Polls answered later than their interval make each other
  stale (`LiveMonitorPanel.tsx:298`). The coalescer drops the last event of a burst,
  which its comment accepts (`coalesce.go:96`).
* The Set-Cookie of an answer that arrives after a logout overwrites the jar
  (`authusers/http.go:188`); the server side stays correct.
* An older save that arrives after a newer one overwrites it; `NothingForgotten`
  speaks of what was stored at some time (`landed`), not of what remains.

### Fairness

`Liveness` uses `FairSpec`: time passes up to the last tick (`<>(now = MaxTime)`;
an open transaction holds the clock back for at most `Lag` ticks), weak fairness of ending a start, of the periodic sweep (`sweepInterval`), of
taking a due job and of going on with a pass. River and the database provide
these; no user action is fair, so the student may vanish and the teacher never return. With
`MaxFaults` failures the passes that fail are finite, as they are between outages.

`Gateway` assumes that goroutines that can run do (`CloseReplaced`, `Unwind`, the
connecting steps, which may end in a refusal until the socket is accepted, `Commit`), that a pump whose channel keeps holding a kick takes
it when nothing else ends it, and that the revalidation ticker finds the database
in time. Clients need not dial, beat or stay connected.

`Dashboard` assumes that publishes end, that the client's timers and its socket
are served, and strong fairness of reading and answering requests: they may fail,
not for ever. Nothing makes the socket open: `PollingConverges` is about the fallback.

`Player` assumes that the countdown ticks, that promises are settled, that
requests are answered or fail (finitely often), and that time passes. The student
need not type or submit, and debounce timers need not fire before the countdown.
`Authoring`, `Sessions` and `Marking` are checked for safety only.

## 4. The proofs

Every theorem is about all values of the constants: any number of students,
attempts, versions, workers, tabs, sockets, questions, requests and ticks. The
assumptions are those the modules name (`DurationsPositive`, `StudentsFinite`, ... in
`Schema`, `BoundsAreNaturals` and `SomeDevice` in `Gateway`, `PlayerAssumption`, ...):
bounds are natural numbers, durations positive, an absent value is none of the
present ones, and in `Marking` that an input has the fields of a question and a
file is a finite list of rows. TLC evaluates them on every run.

A property is seldom inductive as it stands. Each proof module names the
invariant it needs; where it says something of the code its parts are definitions
at the end of the component's module, under "The invariant the proofs rest on".

### The platform: `MacQuizProofs` and `LifeProofs`

* `TypeCorrect`: `Spec => []TypeOK`. One lemma per group of actions; the
  arithmetic content is that no deadline or window leaves the clock's range.
* `Inductive`, with `IInv == TypeOK /\ HeldInProgress /\ VersionsExist /\
  ZeroedAreGraded /\ GradedAgainstPinned`, gives `GradesArePinned` and `VersionsAlwaysExist`.
  Grading reads `snapshots[version]`, so the version must exist, for a Start that
  has read a version and not written yet too, and snapshots must be append-only
  (`SnapshotsGrow`); grading must not meet a row that was zeroed
  (`ZeroedAreGraded`); and what the first statement of a sweep has taken must still
  be in progress at its second (`HeldInProgress`), which is what the row locks are for.
* `EndedAttemptsAreImmutable`: from the lemma `RowSteps`, which lists the seven
  things a step can do to an attempt row.
* `LifeInductive`, with `LifeInv`, gives `ModerationIsAudited`, `LogsMatchRows`,
  `BudgetHolds` and `GradingIsAlwaysQueued`. It rests on `LifeSteps`: what a step
  can do to the row, the log and the audit rows of one attempt together. The log
  is kept by position (`EventsInPlace`), since `LogMatchesRow` counts events and
  does not say that an attempt which is not graded has no `graded` event; the
  budget is kept on the rows' own marker (`WithinBudget`), which is what Start
  counts, and `ModeratedOnce` ties that marker to the audit log.
* `PlatformImplementsContract`: `Spec => ImplementsContract`, one lemma per thing
  a step can do to an attempt: an action of `AttemptContract`, or a stutter.
* `OutcomesStayFinal` and `CloseIsAlwaysQueued` rest on `QuizSteps`: what a step
  can do to the quiz row. `CloseIsQueued` asks for any job that closes the
  window, and the pass that takes the job of the window's start could take the
  last one; `EndIsQueued` says it is the job of its end.
* `ForcedAttemptsWereCutShort`, of `CarefulSpec` and under `Lag = 0`: an attempt that
  is marked 'forced' still had time when its quiz ended. What the second statement of a
  sweep finds was either held by the first, which makes it 'auto', or it has come since,
  and then it has time left (`OthersHaveTime`), since a Start that inserts it has read
  the same clock as the sweep (`StartsInTime`); and it stays so, as the end of a quiz
  that is over is in the past and no longer moves (`OverHasEnded`). With a lag the
  property is false (`ForcedLate`).
* `CarefulInductive`, with `CarefulInv`, gives `AudienceHolds`, `WindowHolds`,
  `DraftsHaveNoAttempt` and `DeadlinesOnlyMoveForward`, of `CarefulSpec` and under `Lag = 0`. Both are what
  the run `Careful` assumes; without the first the properties are false
  (section 3), and so they are with a lag, since a Start and a Cancel that waited
  for their row judge the window by an old clock (`StaleCancel`). The invariant
  adds what a Start under way has read (`StartsAreCurrent`), that nothing is begun
  before the window opens (`BegunInWindow`), and that a deadline comes from start
  and duration (`DeadlineInDuration`).

### The realtime layer: `GatewayProofs` and `DashboardProofs`

* `GatewayInvariant` gives `GatewayTypeCorrect`, `OneSocketPerAttempt`,
  `SocketsCloseForAReason` and `FlagsMeasureSilence`. A socket that is closed as
  replaced must not be the registered one, so whatever waits for its closing
  goroutine must have been registered before (`DoomedAreReplaced`), and a handler
  that is accepted must be neither waiting nor registered, which its step shows
  from `SoleSocket`. A close for a kick needs that a kick in a channel is a kick
  that happened, and a reused name that only leaving handlers carry a reason
  (`ReasonsAreGiven`). A flag that stands while no frame waits for the pump was raised
  by a timer that had counted no more than the silence: unless a frame waits, the ticks a
  running timer has left and the silence make up the timeout at least
  (`TimersMeasureSilence`). A frame that waits breaks this, and its receipt, which
  rearms the timer and takes the flag down, restores it.
* `MonitorInductive` gives `RosterIsNeverAhead` and `SnapshotsOnlyMoveForward`.
  What is shown comes from responses and deltas, so these must not be ahead of
  the database either, whenever they arrive (`ResponsesBehind`, `EventsAreTold`);
  and the one request that may write the roster was read after what is shown
  (`NewestIsLatest`).

### Authoring: `AuthoringProofs`

* `AuthoringInductive` gives `PositionsStayDense`, `SnapshotsStayCurrent` and
  `ValidationsAreQueued`. Dense positions (1 to n) need distinct ones, since a
  deletion closes the gap by counting (`PositionsDistinct`); a commit or a cascade
  that waited for its second lock finds what it saw under the first
  (`LocksHold`); an import in 'validating' keeps its job because one worker at a
  time runs it (`OneRunner`). The bounds in `TypeOK` on how many ids are left are
  the instance's, so the proof has a `Typed` of its own without them.
* `NobodyIsStuck`: a request that waits holds what it should (`LocksAreHeld`) and a
  commit finds a file with rows (`ReadyHasRows`). Between two of its steps only a cascade
  holds the quiz and only a commit an import, so whoever waits does so for a request
  that can go on, or a commit and a cascade wait for each other: the cycle that
  `BreakDeadlock` breaks.
* `AuthoringImplementsOutline`: `Spec => ImplementsOutline`. The list of the
  outline is the map from positions to questions; each request, worker step,
  rollback and broken deadlock is an action of `Outline` or a stutter.

### Sessions: `SessionsProofs`

* `SessionsInductive` gives `OneTokenLives`, `TabsKeepTheirSession`,
  `RevocationLeavesNothing` and the action property `FamiliesStayDead`, which no run
  checks on its own: `ImplementsFamilies` contains it. A rotation
  must find its token live, so one refresh at a time holds a row (`OneHolder`),
  whose family is older than it (`FamiliesAreOlder`); an account update must see
  every session that it has to revoke, so nothing is inserted behind its back
  (`OneUpdate`, `UpdateSeesAll`); and a tab is not taken for a thief because a
  token is known to one browser, whose tabs take turns (`TokensExist`,
  `OneKeeper`, `NoFalseReuse`, the last for as long as no answer was lost).
* `SessionsImplementFamilies`: `Spec => ImplementsFamilies`. One lemma per thing a
  step can do to the live tokens: `LoginOpens`, `RotationRotates`, `RevocationEnds`,
  `UpdateChanges`, `GraceIsUnseen`, and `RowsStand` for the rest. The abstract
  specification ends one family at a time, so what a logout has seen must be of
  one (`LogoutsEndOne`), and rotates for an active account only, so a refresh
  that was let in must not outlive a disable (`LockedIsActive`).

### The player: `PlayerProofs`

* `PlayerInductive` gives `NoEditIsForgotten`. When a save comes back the mark of
  its question is not put back unless it failed, so its answer must be true: 200
  if the edit was stored, 409 only if the attempt takes no more writes
  (`AnswersAreTrue`, with `WritableIsOver`: it never does again); and the newest
  edit stored can be the newest one typed only because nothing newer is stored or
  travels (`NothingIsInvented`).

### Marking and reads: `MarkingProofs`

* `KeysEarnPoints`, from `OnlyAccepted`: what is stored passed the validator and
  the table's CHECK, typed or imported. It also covers the null key of a
  true/false question that the inputs of the run leave out.
* `RollupsAreComplete`, from `RollupIsStable`: a rollup starts when nothing is
  left to start, end or grade (`Settled`, which stays: `SettledStays`), so only an
  override changes what its statements read. An override lowers a student's highest
  score or leaves it (`HighestFalls`), so a row stays what `RowIncludes` allows
  (`Follows`), and what was summed before stays an upper bound of what is summed
  after (`BestSumFalls`, `Holds`), with equality while nothing was overridden.
* `GradesStayCurrent` and `ReadsShowOneAttempt`: stored marks, and scores but for
  overridden ones, are those of the stored answers under the pinned version, the cache holds nothing but
  versions that exist (`PinnedExist`), so the player's payload, the review, the
  table and the released result agree on an attempt.
* Scores, means and histograms are sums, which the library folds over a set in an
  order it chooses. `SumStep` takes any one element out of a sum; it and what
  follows from it (`SumAdd`, `SumMonotone`, `SumParts`, `SumRenamed`, `SumCounts`) are
  proved without an induction theorem: were it false, there would be a smallest
  set it is false of (`Smallest`), and taking one element out of that
  gives a smaller one (`OneByOne`). In the same way `InOrderExists` shows that a
  finite set can be sorted.
* `ScoresAreInRange` and `MarkingTypeCorrect`: a score is between zero and what the
  pinned version is worth, since no mark exceeds its question's points.
* `StandingsAlwaysAgree`: the histogram counts every student of the board once
  (`DistributionCounts`), a higher accuracy is in no lower decile
  (`BucketMonotone`), and students of higher deciles have no lower percentile
  (`PercentileOf`), so the frozen percentiles follow the board, which is sorted at
  every read; the reader is among its leading rows or is appended, never
  both (`ReaderShownOnce`).
* `ReadsAlwaysAgree` adds the profiles: the mean is the sum of the students' scores
  in whatever order the median sorted them (`MeanIsTheSum`), those who
  completed the quiz are those who took part, and by `RollupIsStable` an override leaves the
  frozen mean above the rows or equal to them.
* `ReleasedResultsAreFinal`: a graded row but for one override, its answers and marks
  and the version it is pinned to stay as they are (`GradedStays`), and so do the release
  and the frozen row (`ReleaseStays`).

### Only model-checked, and why

* Liveness under fairness is out of the prover's reach: `AttemptsEnd`,
  `ClosedIsReleased`, `ClosedIsRolledUp`, `KickCloses`, `RevokedCloses`,
  `ReplacementsEnd`, `PollingConverges`, `ComesToRest`.
* `GuardsAreExact` is about `ENABLED`.
* The `TypeOK` of `Authoring` bounds the ids that the instance may still give out,
  which says nothing of the code; `Typed` is proved in its place.
* What a configuration of section 3 refutes holds of no proof. What is proved of
  the same definitions is under which condition they hold: `DraftHasNoAttempt` without lag
  (`DraftsHaveNoAttempt`), `ForcedWasCutShort` likewise, `DeadlinesMoveForward` without
  a republish of an open quiz.

## 5. Not modelled

* Generated API types, HTTP routing, decoding and status codes, except for what
  the clients act on (cookies, refusals); the command, configuration, telemetry,
  storage, spreadsheets, e-mail and backup scripts: I/O without a state of their own.
* The wording and ordering of reads, the analytics of a teacher, a cohort and the
  organisation, and the audit listing: reads of committed rows. `Marking` and
  `Results` model the student's result and list, the owner's review and table, the
  leaderboard, the percentile and the profiles.
* Discrimination and the integrity summary of a rollup: floating-point formulas
  over rows that `Marking` has. E-mails about a release or a reset.
* River's backoff between the attempts of a job, and its discarding a job after the
  last one (`FailPass`, `Crash`): what is said of queued jobs is said of those River keeps.
* A student who is dropped from a quiz after an attempt has ended: the share of
  those who took part in `quiz_stats` may then exceed one.
* Who may open the live monitor (`Can` of `Results` has the rule). The expiry of
  the snapshot cache is an entry that may be missing at any read. The rate
  limiter: one critical section; a save that is refused for it is a `SaveFails` of
  `Player`.
* User records, groups, avatars and the import of users: independent updates of
  single rows. Sessions expire after 14 days, which only ends them.

## 6. What is left

Every safety property that a run checks is proved. What could be added:

1. Two quizzes at once: a rollup that computes a `student_stats` row, waits, and
   overwrites what another quiz's rollup wrote meanwhile.
2. `AttemptContract` and `Families` on their own: what follows from a contract alone,
   for clients that know nothing else.
3. A worker that counts as lost and still runs in `Authoring`.
4. A `MacQuiz` whose `Start` reads the quiz `FOR SHARE`, to show that `RolledUpIsSettled`
   and the properties of `CarefulSpec` need no other change.
