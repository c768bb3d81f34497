------------------------------ MODULE Authoring ------------------------------
(***************************************************************************)
(* Question authoring and bulk imports (internal/quiz: service.go and      *)
(* importworker.go, the publish of lifecycle.go) for one quiz.             *)
(*                                                                         *)
(* Every operation is one transaction that locks the quiz row, so an       *)
(* operation that waits for nothing else is one step.  Four of them take   *)
(* more: an edit and a deletion of a question find its quiz before they    *)
(* lock it, a commit of an import locks the imports row and then the quiz, *)
(* and the deletion of a quiz locks the quiz and then, in its cascade, the *)
(* imports.  The worker reads an import, parses its file and writes the    *)
(* outcome without any lock between.  Refused calls change nothing.        *)
(***************************************************************************)
EXTENDS Naturals, SequencesExt

CONSTANTS
  Callers,       \* requests in flight
  Workers,       \* workers that run import_validate jobs
  Nobody,        \* holds a free lock, runs for an idle worker
  Imports,       \* the uploads
  Rows,          \* [Imports -> Seq(Contents) \cup {BadFile}]
  BadFile,       \* a file with row errors
  Contents,      \* the points a question sets, or Inherit
  Inherit,
  Defaults,      \* values of quizzes.default_points
  MaxQuestions,  \* bound: question ids ever given out
  MaxVersion     \* bound: publishes

ASSUME AuthoringAssumption ==
  /\ Nobody \notin Callers \cup Workers \cup Imports
  /\ "quiz" \notin Imports
  /\ Inherit \in Contents
  /\ \A i \in Imports : Rows[i] = BadFile \/ Rows[i] \in Seq(Contents)
  /\ MaxQuestions \in Nat /\ MaxVersion \in Nat

VARIABLES
  quiz,       \* the quizzes row: default points and status ("opened": stored as scheduled,
              \* after starts_at; "begun": live, closed or archived; "gone": deleted)
  questions,  \* the questions rows, by id
  born,       \* ids given out so far
  versions,   \* quiz_versions, append-only
  imports,    \* the imports rows
  job,        \* the import_validate job of each import
  run,        \* what each worker is doing
  call,       \* what each request is doing
  holder      \* who holds the lock of the quiz row and of each imports row

tables == <<quiz, questions, born, versions, imports>>
vars == <<tables, job, run, call, holder>>

Row == [position : 1 .. MaxQuestions + 1, content : Contents, import : Imports \cup {Nobody}]

Idle == [op |-> "idle", on |-> Nobody]

\* Waiting for the quiz row: an edit or a deletion of a question, a commit that
\* holds its imports row, which it found ready or ("refusal") not; waiting for the
\* imports rows: a cascade.
Ops == {"question", "commit", "refusal", "cascade"}

\* A worker at rest, one that has read the row, one that has written it.
Resting == [at |-> "rest", import |-> Nobody]

TypeOK ==
  /\ quiz \in [status : {"draft", "scheduled", "opened", "begun", "gone"}, default : Defaults]
  /\ born \in 0 .. MaxQuestions
  /\ DOMAIN questions \subseteq 1 .. born
  /\ \A q \in DOMAIN questions : questions[q] \in Row
  /\ Len(versions) <= MaxVersion
  /\ \A v \in DOMAIN versions : versions[v] \in Seq([id : 1 .. MaxQuestions, points : Nat])
  /\ imports \in [Imports -> {"none", "validating", "ready", "failed", "committed", "gone"}]
  /\ job \in [Imports -> {"none", "available", "running", "done"}]
  /\ run \in [Workers -> {Resting} \cup [at : {"parsing", "written"}, import : Imports]]
  /\ call \in [Callers -> [op : Ops \cup {"idle"},
                           on : Imports \cup (1 .. MaxQuestions) \cup {Nobody}]]
  /\ holder \in [Imports \cup {"quiz"} -> Callers \cup {Nobody}]

Init ==
  /\ quiz \in [status : {"draft"}, default : Defaults]
  /\ questions = <<>>
  /\ born = 0
  /\ versions = <<>>
  /\ imports = [i \in Imports |-> "none"]
  /\ job = [i \in Imports |-> "none"]
  /\ run = [w \in Workers |-> Resting]
  /\ call = [c \in Callers |-> Idle]
  /\ holder = [r \in Imports \cup {"quiz"} |-> Nobody]

-----------------------------------------------------------------------------
(* The questions rows.                                                     *)

\* ORDER BY position; positions do not repeat, so the id never decides.
Before(p, q) ==
  \/ questions[p].position < questions[q].position
  \/ questions[p].position = questions[q].position /\ p < q

Listed == [k \in 1 .. Cardinality(DOMAIN questions) |->
  CHOOSE q \in DOMAIN questions : Cardinality({p \in DOMAIN questions : Before(p, q)}) = k - 1]

\* A bug: the number of questions ever added.
LastPosition_Born == born

\* coalesce(max(position), 0).
LastPosition ==
  LET positions == {0} \cup {questions[q].position : q \in DOMAIN questions}
  IN  CHOOSE top \in positions : \A position \in positions : position <= top

Free(row) == holder[row] = Nobody

\* draftForUpdate: the quiz row is there, nobody else has it locked, and its
\* stored status is draft.
DraftForUpdate == Free("quiz") /\ quiz.status = "draft"

\* The rows an insert of these contents adds after position base.
Inserted(base, contents, import) ==
  [q \in born + 1 .. born + Len(contents) |->
     [position |-> base + q - born, content |-> contents[q - born], import |-> import]]

\* The rows there are, and these.
With(rows) ==
  [q \in DOMAIN questions \cup DOMAIN rows |-> IF q \in DOMAIN questions THEN questions[q] ELSE rows[q]]

\* The bound leaves ids for the imports that may still be committed.
Reserved == SumSet({0} \cup {Len(Rows[i]) : i \in
  {j \in Imports : Rows[j] # BadFile /\ imports[j] \notin {"committed", "failed", "gone"}}})

\* AddQuestion appends after the last position it reads under the quiz lock.
AddQuestion ==
  \E c \in Contents :
    /\ DraftForUpdate
    /\ born + Reserved < MaxQuestions
    /\ questions' = With(Inserted(LastPosition, <<c>>, Nobody))
    /\ born' = born + 1
    /\ UNCHANGED <<quiz, versions, imports, job, run, call, holder>>

\* A bug: the list only has to be as long as the quiz.
Reorderable_Length(ids) == Len(ids) = Cardinality(DOMAIN questions)

\* The list names every question once.
Reorderable(ids) ==
  /\ Len(ids) = Cardinality(DOMAIN questions)
  /\ Range(ids) \subseteq DOMAIN questions
  /\ IsInjective(ids)

\* ReorderQuestions: whatever list a client sends, positions follow it only if
\* it is a permutation.
ReorderQuestions ==
  \E ids \in SeqOf(1 .. born, Cardinality(DOMAIN questions)) :
    /\ DraftForUpdate
    /\ Reorderable(ids)
    /\ questions' = [q \in DOMAIN questions |->
         IF q \in Range(ids)
         THEN [questions[q] EXCEPT !.position = CHOOSE k \in DOMAIN ids : ids[k] = q]
         ELSE questions[q]]
    /\ UNCHANGED <<quiz, born, versions, imports, job, run, call, holder>>

\* UpdateQuiz, as far as the questions depend on it.
UpdateQuiz ==
  \E d \in Defaults :
    /\ DraftForUpdate
    /\ quiz' = [quiz EXCEPT !.default = d]
    /\ UNCHANGED <<questions, born, versions, imports, job, run, call, holder>>

-----------------------------------------------------------------------------
(* Publishing.                                                             *)

\* coalesce(points, default_points).
Priced(ids) == [k \in DOMAIN ids |->
  [id |-> ids[k],
   points |-> IF questions[ids[k]].content = Inherit THEN quiz.default ELSE questions[ids[k]].content]]

\* A bug: the snapshot takes the questions in the order of their creation.
Snapshot_ById == Priced(SetToSortSeq(DOMAIN questions, <))

\* The snapshot resolves what a question inherits and keeps the order.
Snapshot == Priced(Listed)

\* Publish, on a draft or on a row that is still stored as scheduled.
Publish ==
  /\ Free("quiz")
  /\ quiz.status \in {"draft", "scheduled", "opened"}
  /\ DOMAIN questions # {}
  /\ Len(versions) < MaxVersion
  /\ versions' = Append(versions, Snapshot)
  /\ quiz' = [quiz EXCEPT !.status = "scheduled"]
  /\ UNCHANGED <<questions, born, imports, job, run, call, holder>>

\* starts_at passes.
WindowOpens ==
  /\ quiz.status = "scheduled"
  /\ quiz' = [quiz EXCEPT !.status = "opened"]
  /\ UNCHANGED <<questions, born, versions, imports, job, run, call, holder>>

\* SweepDueQuizzes stores what the clock says, ForceClose does not wait for it.
Begin ==
  /\ Free("quiz")
  /\ quiz.status \in {"scheduled", "opened"}
  /\ quiz' = [quiz EXCEPT !.status = "begun"]
  /\ UNCHANGED <<questions, born, versions, imports, job, run, call, holder>>

\* Cancel: back to draft, while the window is still ahead.
Cancel ==
  /\ Free("quiz")
  /\ quiz.status = "scheduled"
  /\ quiz' = [quiz EXCEPT !.status = "draft"]
  /\ UNCHANGED <<questions, born, versions, imports, job, run, call, holder>>

-----------------------------------------------------------------------------
(* Requests that take more than one step.                                  *)

Begins(c, op, x) ==
  /\ call[c] = Idle
  /\ call' = [call EXCEPT ![c] = [op |-> op, on |-> x]]

Ends(c) == call' = [call EXCEPT ![c] = Idle]

\* A bug: a transaction that is answered early is left open.
Frees_Not(c) == UNCHANGED holder

\* The end of a transaction frees what it locked.
Frees(c) == holder' = [r \in DOMAIN holder |-> IF holder[r] = c THEN Nobody ELSE holder[r]]

\* questionQuizForUpdate looks the question up before it locks the quiz.
FindQuestion(c) ==
  /\ \E q \in DOMAIN questions : Begins(c, "question", q)
  /\ UNCHANGED <<tables, job, run, holder>>

\* The call is answered with an error and nothing is written: the quiz is no
\* draft any more or is gone, or the question is, or the import was not ready.
Refusable(c) ==
  /\ Free("quiz")
  /\ \/ call[c].op = "refusal"
     \/ call[c].op \in {"question", "commit"} /\ quiz.status # "draft"
     \/ call[c].op = "question" /\ call[c].on \notin DOMAIN questions

Refused(c) ==
  /\ Refusable(c)
  /\ Ends(c) /\ Frees(c)
  /\ UNCHANGED <<tables, job, run>>

\* A bug: the status was checked when the question was looked up.
Editable_Unchecked == Free("quiz") /\ quiz.status # "gone"

Editable == DraftForUpdate

Edits(c) == call[c].op = "question" /\ Editable

UpdateQuestion(c) ==
  /\ Edits(c) /\ call[c].on \in DOMAIN questions
  /\ \E k \in Contents : questions' = [questions EXCEPT ![call[c].on].content = k]
  /\ Ends(c)
  /\ UNCHANGED <<quiz, born, versions, imports, job, run, holder>>

\* A bug: the gap stays.
Densified_Not(left) == [q \in left |-> questions[q]]

\* Positions become row numbers in the old order.
Densified(left) ==
  [q \in left |-> [questions[q] EXCEPT
     !.position = Cardinality({p \in left : questions[p].position <= questions[q].position})]]

\* A question that is gone by now is deleted again, which changes no row.
DeleteQuestion(c) ==
  /\ Edits(c)
  /\ questions' = Densified(DOMAIN questions \ {call[c].on})
  /\ Ends(c)
  /\ UNCHANGED <<quiz, born, versions, imports, job, run, holder>>

\* A bug: a draft is a draft.
Deletable_Draft == DraftForUpdate

\* DeleteQuiz refuses a quiz that has been published.
Deletable == DraftForUpdate /\ versions = <<>>

LockForDelete(c) ==
  /\ Deletable
  /\ Begins(c, "cascade", Nobody)
  /\ holder' = [holder EXCEPT !["quiz"] = c]
  /\ UNCHANGED <<tables, job, run>>

\* ON DELETE CASCADE takes the questions and the imports, once no other
\* transaction holds one of their rows.
Cascades(c) == call[c].op = "cascade" /\ \A i \in Imports : Free(i)

DeleteQuiz(c) ==
  /\ Cascades(c)
  /\ quiz' = [quiz EXCEPT !.status = "gone"]
  /\ questions' = <<>>
  /\ imports' = [i \in Imports |-> IF imports[i] = "none" THEN "none" ELSE "gone"]
  /\ Ends(c) /\ Frees(c)
  /\ UNCHANGED <<born, versions, job, run>>

\* A bug: the import is read without FOR UPDATE.
LocksImport_Not(c, i) == UNCHANGED holder

LocksImport(c, i) == holder' = [holder EXCEPT ![i] = c]

\* CommitImport locks the imports row, whose status decides once it has the quiz
\* row too: it is ErrImportNotReady unless it is ready.
LockForCommit(c) ==
  /\ \E i \in Imports :
       /\ imports[i] \notin {"none", "gone"} /\ Free(i)
       /\ Begins(c, IF imports[i] = "ready" THEN "commit" ELSE "refusal", i)
       /\ LocksImport(c, i)
  /\ UNCHANGED <<tables, job, run>>

\* Then the quiz row; then it parses the file again, appends every row of it
\* and marks the import, all or nothing.
Commits(c) == call[c].op = "commit" /\ DraftForUpdate /\ Rows[call[c].on] # BadFile

CommitImport(c) ==
  /\ Commits(c)
  /\ LET i == call[c].on IN
       /\ questions' = With(Inserted(LastPosition, Rows[i], i))
       /\ born' = born + Len(Rows[i])
       /\ imports' = [imports EXCEPT ![i] = "committed"]
  /\ Ends(c) /\ Frees(c)
  /\ UNCHANGED <<quiz, versions, job, run>>

\* A transaction that holds a lock fails (a lost connection, a file that cannot
\* be opened, a cancelled request): it is rolled back.
Fails(c) ==
  /\ call[c].op \in {"commit", "refusal", "cascade"}
  /\ Ends(c) /\ Frees(c)
  /\ UNCHANGED <<tables, job, run>>

\* PostgreSQL breaks a cycle of waiting transactions.
Deadlocked(c, d) ==
  /\ call[c].op = "cascade" /\ call[d].op \in {"commit", "refusal"}
  /\ holder["quiz"] = c /\ holder[call[d].on] = d

BreakDeadlock ==
  /\ \E c, d \in Callers :
       /\ Deadlocked(c, d)
       /\ \E victim \in {c, d} : Ends(victim) /\ Frees(victim)
  /\ UNCHANGED <<tables, job, run>>

-----------------------------------------------------------------------------
(* Imports and the worker.                                                 *)

\* A bug: the row is stored and its job forgotten.
Queued_Not(i) == job

Queued(i) == [job EXCEPT ![i] = "available"]

\* RegisterImport stores the file, the imports row and its job together.
RegisterImport ==
  \E i \in Imports :
    /\ DraftForUpdate
    /\ imports[i] = "none"
    /\ imports' = [imports EXCEPT ![i] = "validating"]
    /\ job' = Queued(i)
    /\ UNCHANGED <<quiz, questions, born, versions, run, call, holder>>

\* A bug: a run does not look whether there is anything left to do.
NeedsRun_Always(i) == imports[i] \notin {"none", "gone"}

NeedsRun(i) == imports[i] = "validating"

\* ValidateImport reads the row; what was resolved before, or is gone, is left alone.
TakeJob(w) ==
  \E i \in Imports :
    /\ run[w] = Resting /\ job[i] = "available"
    /\ job' = [job EXCEPT ![i] = IF NeedsRun(i) THEN "running" ELSE "done"]
    /\ run' = [run EXCEPT ![w] = IF NeedsRun(i) THEN [at |-> "parsing", import |-> i] ELSE Resting]
    /\ UNCHANGED <<tables, call, holder>>

\* A file with errors fails, any file may turn out to be unreadable.
Outcomes(i) == IF Rows[i] = BadFile THEN {"failed"} ELSE {"ready", "failed"}

\* The outcome is written whatever the row says by now, as soon as nobody has
\* the row locked.
ValidateImport(w) ==
  /\ run[w].at = "parsing"
  /\ LET i == run[w].import IN
       /\ Free(i)
       /\ \E o \in Outcomes(i) :
            imports' = [imports EXCEPT ![i] = IF @ = "gone" THEN "gone" ELSE o]
  /\ run' = [run EXCEPT ![w].at = "written"]
  /\ UNCHANGED <<quiz, questions, born, versions, job, call, holder>>

CompleteJob(w) ==
  /\ run[w].at = "written"
  /\ job' = [job EXCEPT ![run[w].import] = "done"]
  /\ run' = [run EXCEPT ![w] = Resting]
  /\ UNCHANGED <<tables, call, holder>>

\* A worker is lost while it runs a job, before or after it wrote: the queue
\* hands the job out again.  (River gives a job up after its last attempt; what is
\* said of jobs is said of those it keeps.)
Crash(w) ==
  /\ run[w] # Resting
  /\ job' = [job EXCEPT ![run[w].import] = "available"]
  /\ run' = [run EXCEPT ![w] = Resting]
  /\ UNCHANGED <<tables, call, holder>>

-----------------------------------------------------------------------------

Teacher ==
  \/ AddQuestion \/ ReorderQuestions \/ UpdateQuiz \/ RegisterImport
  \/ Publish \/ Cancel

\* The guards of a request's last step.
CanProceed(c) == Edits(c) \/ Cascades(c) \/ Commits(c) \/ Refusable(c)

Proceed(c) ==
  UpdateQuestion(c) \/ DeleteQuestion(c) \/ DeleteQuiz(c) \/ CommitImport(c) \/ Refused(c)

Start(c) == FindQuestion(c) \/ LockForDelete(c) \/ LockForCommit(c)

Work(w) == TakeJob(w) \/ ValidateImport(w) \/ CompleteJob(w)

Next ==
  \/ Teacher
  \/ WindowOpens \/ Begin
  \/ \E c \in Callers : Start(c) \/ Proceed(c) \/ Fails(c)
  \/ BreakDeadlock
  \/ \E w \in Workers : Work(w) \/ Crash(w)

Spec == Init /\ [][Next]_vars

-----------------------------------------------------------------------------

\* The positions of the questions are 1, 2, 3, ... without a gap or a repeat,
\* whatever adds, imports, deletions and reorders do (docs/07: dense integers).
PositionsDense ==
  {questions[q].position : q \in DOMAIN questions} = 1 .. Cardinality(DOMAIN questions)

\* While a quiz is not a draft its questions are the ones of its newest version:
\* an edit that was looked up, or an import that was locked, before the publish
\* does not slip in after it (ErrNotEditable).
SnapshotIsCurrent ==
  quiz.status \in {"scheduled", "opened", "begun"} => Last(versions) = Snapshot

\* While a request is in flight some request can go on: the opposite lock orders
\* of CommitImport and of DeleteQuiz's cascade meet only in a cycle that
\* PostgreSQL breaks, and every answer frees the rows it locked.
NobodyStuck ==
  (\E c \in Callers : call[c] # Idle) =>
    \E c, d \in Callers : CanProceed(c) \/ Deadlocked(c, d)

\* An import in 'validating' has a job in the queue or a worker on it, also after
\* that worker was lost: it does not stay there, as long as River retries the job.
ValidationIsQueued ==
  \A i \in Imports : imports[i] = "validating" =>
    job[i] = "available" \/ \E w \in Workers : run[w].at = "parsing" /\ run[w].import = i

-----------------------------------------------------------------------------
(* The invariant the proofs rest on.                                       *)

\* No two questions share a position, none has an id that was not given out.
PositionsDistinct ==
  /\ DOMAIN questions \subseteq 1 .. born
  /\ \A p, q \in DOMAIN questions : questions[p].position = questions[q].position => p = q

\* A row stays as the request that holds its lock has found it.
LocksHold ==
  \A c \in Callers :
    /\ call[c].op = "commit" =>
         call[c].on \in Imports /\ holder[call[c].on] = c /\ imports[call[c].on] = "ready"
    /\ call[c].op = "cascade" =>
         holder["quiz"] = c /\ quiz.status = "draft" /\ versions = <<>>

\* Nobody else holds a lock.
LocksAreHeld ==
  /\ holder["quiz"] # Nobody => call[holder["quiz"]].op = "cascade"
  /\ \A i \in Imports : holder[i] # Nobody =>
       call[holder[i]].op \in {"commit", "refusal"} /\ call[holder[i]].on = i

\* An import that may be committed has rows.
ReadyHasRows == \A i \in Imports : imports[i] = "ready" => Rows[i] # BadFile

\* Out of draft there is a version.
IsPublished == quiz.status \in {"scheduled", "opened", "begun"} => versions # <<>>

\* One worker runs an import's job, which there is from its registration on: an
\* import stays in 'validating' until that worker writes its outcome.
OneRunner ==
  /\ \A i \in Imports : imports[i] = "none" => job[i] = "none"
  /\ \A w \in Workers : run[w].at # "rest" =>
       /\ run[w].import \in Imports /\ job[run[w].import] = "running"
       /\ run[w].at = "parsing" => imports[run[w].import] \in {"validating", "gone"}
       /\ run[w].at = "written" => imports[run[w].import] # "validating"
       /\ \A v \in Workers : run[v].at # "rest" /\ run[v].import = run[w].import => v = w

-----------------------------------------------------------------------------
(* The contract.                                                           *)

\* The questions in their order (positions are dense).
List ==
  [k \in 1 .. Cardinality(DOMAIN questions) |->
     LET q == CHOOSE p \in DOMAIN questions : questions[p].position = k
     IN [id |-> q, content |-> questions[q].content]]

Contract == INSTANCE Outline WITH
  list <- List, published <- versions,
  taken <- {i \in Imports : imports[i] = "committed"}, phase <- IF quiz.status = "draft" THEN "draft" ELSE "frozen"

\* Authoring implements the contract of Outline: what changes is a draft's ordered
\* list, an import is committed whole and at most once, however often its job runs
\* and the button is pressed, a published version is for ever and a quiz that has
\* one is never deleted, also when a cancel made it a draft again.
ImplementsOutline == Contract!Spec
=============================================================================
