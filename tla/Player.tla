------------------------------- MODULE Player -------------------------------
(***************************************************************************)
(* The student's player of one attempt (web/src/player/AttemptPlayer.tsx)  *)
(* against the endpoints it calls (internal/attempt/http.go, service.go):  *)
(* debounced autosaves that travel beside each other, a submit by hand or  *)
(* by the clock, locks by a refused write, a kick or a report.             *)
(*                                                                         *)
(* An answer is known by the number of the edit that typed it.  Requests   *)
(* reach the server in any order; each of them, or its answer, may be lost *)
(* or refused for the rate limit.                                          *)
(***************************************************************************)
EXTENDS Naturals, FiniteSets

CONSTANTS
  Questions,
  MaxEdits,   \* bound: edits of each question
  MaxLosses   \* bound: requests that fail on the way

ASSUME PlayerAssumption == MaxEdits \in Nat /\ MaxLosses \in Nat

VARIABLES
  phase,      \* what the player shows
  latest,     \* the newest edit of each question
  dirty,      \* refs of the component: questions to be saved,
  inflight,   \*   questions said to be travelling,
  timers,     \*   debounce timers,
  submitted,  \*   a submit has been started
  saves,      \* the PUTs under way
  submit,     \* the submit under way
  stored,     \* attempt_answers: the edit stored for each question
  landed,     \* the newest edit of each question that was ever stored
  attempt,    \* the attempts row's status
  clock,      \* before the deadline, in writeGrace, past it
  losses

client == <<phase, latest, dirty, inflight, timers, submitted>>
network == <<saves, submit, losses>>
server == <<stored, landed, attempt, clock>>
vars == <<client, network, server>>

Edits == 0 .. MaxEdits

Save == [question : Questions, edit : Edits, flush : BOOLEAN,
         answer : {"none", "ok", "conflict", "failed"}]

TypeOK ==
  /\ phase \in {"playing", "submitting", "done"}
  /\ latest \in [Questions -> Edits]
  /\ dirty \subseteq Questions /\ inflight \subseteq Questions /\ timers \subseteq Questions
  /\ submitted \in BOOLEAN
  /\ saves \subseteq Save
  /\ submit \in {"none", "flushing", "sent", "over", "failed"}
  /\ stored \in [Questions -> Edits] /\ landed \in [Questions -> Edits]
  /\ attempt \in {"in_progress", "ended", "kicked"}
  /\ clock \in {"before", "grace", "past"}
  /\ losses \in 0 .. MaxLosses

Init ==
  /\ phase = "playing"
  /\ latest = [q \in Questions |-> 0]
  /\ dirty = {} /\ inflight = {} /\ timers = {} /\ submitted = FALSE
  /\ saves = {} /\ submit = "none"
  /\ stored = [q \in Questions |-> 0] /\ landed = [q \in Questions |-> 0]
  /\ attempt = "in_progress" /\ clock = "before"
  /\ losses = 0

-----------------------------------------------------------------------------
(* The client.                                                             *)

SetAnswer ==
  \E q \in Questions :
    /\ phase = "playing"
    /\ latest[q] < MaxEdits
    /\ latest' = [latest EXCEPT ![q] = @ + 1]
    /\ dirty' = dirty \cup {q}
    /\ timers' = timers \cup {q}
    /\ UNCHANGED <<phase, inflight, submitted, network, server>>

Put(q, flush) == [question |-> q, edit |-> latest[q], flush |-> flush, answer |-> "none"]

\* saveOne, up to its await, for each of these questions.
SaveAll(qs, flush) ==
  /\ saves' = saves \cup {Put(q, flush) : q \in qs}
  /\ inflight' = inflight \cup qs
  /\ dirty' = dirty \ qs

Debounce(q) ==
  /\ q \in timers
  /\ timers' = timers \ {q}
  /\ SaveAll({q}, FALSE)
  /\ UNCHANGED <<phase, latest, submitted, submit, losses, server>>

\* A bug: the answer that comes back settles the question.
Redirtied_Never(s) == dirty

\* A save that failed is to be repeated; no timer is set for it.
Redirtied(s) == IF s.answer = "failed" THEN dirty \cup {s.question} ELSE dirty

\* saveOne, after its await: a 409 locks the player.
SaveReturns ==
  \E s \in saves :
    /\ s.answer # "none"
    /\ saves' = saves \ {s}
    /\ inflight' = inflight \ {s.question}
    /\ dirty' = Redirtied(s)
    /\ phase' = IF s.answer = "conflict" THEN "done" ELSE phase
    /\ timers' = IF s.answer = "conflict" THEN {} ELSE timers
    /\ UNCHANGED <<latest, submitted, submit, losses, server>>

\* submitNow: the debounce is flushed, saves that travel already are not awaited.
SubmitNow ==
  /\ submitted' = TRUE
  /\ phase' = "submitting"
  /\ timers' = {}
  /\ SaveAll(dirty, TRUE)
  /\ submit' = "flushing"
  /\ UNCHANGED <<latest, losses, server>>

\* The button of the confirmation.
SubmitManually == phase = "playing" /\ SubmitNow

\* The countdown's tick, twice a second while the player is playing.
TimeUp == phase = "playing" /\ clock # "before" /\ ~submitted /\ SubmitNow

\* The flushed saves have been answered, well or badly.
SendSubmit ==
  /\ submit = "flushing"
  /\ \A s \in saves : ~s.flush
  /\ submit' = "sent"
  /\ UNCHANGED <<client, saves, losses, server>>

\* A bug: the flag stays set.
Resubmits_Never == submitted

Resubmits == FALSE

\* 200 and 409 end the player; after a failure it plays again.
SubmitReturns ==
  /\ submit \in {"over", "failed"}
  /\ submit' = "none"
  /\ phase' = IF submit = "over" THEN "done" ELSE "playing"
  /\ submitted' = IF submit = "over" THEN submitted ELSE Resubmits
  /\ UNCHANGED <<latest, dirty, inflight, timers, saves, losses, server>>

\* attempt.kicked reaches the socket, or a violation report is answered with an
\* attempt that has ended; a report sent while playing may be answered when the
\* submit is under way.
Locked ==
  /\ phase # "done" /\ attempt # "in_progress"
  /\ phase' = "done" /\ timers' = {}
  /\ UNCHANGED <<latest, dirty, inflight, submitted, network, server>>

-----------------------------------------------------------------------------
(* The server.                                                             *)

\* writableForUpdate: the attempt is in progress and the grace not over.
Writable == attempt = "in_progress" /\ clock # "past"

Answered(s, answer) == saves' = (saves \ {s}) \cup {[s EXCEPT !.answer = answer]}

Higher(m, n) == IF m > n THEN m ELSE n

Stores(s) ==
  /\ stored' = [stored EXCEPT ![s.question] = s.edit]
  /\ landed' = [landed EXCEPT ![s.question] = Higher(@, s.edit)]

\* SaveAnswer upserts what it is given.
SaveAnswer ==
  \E s \in saves :
    /\ s.answer = "none"
    /\ IF Writable
       THEN Stores(s) /\ Answered(s, "ok")
       ELSE UNCHANGED <<stored, landed>> /\ Answered(s, "conflict")
    /\ UNCHANGED <<client, submit, losses, attempt, clock>>

\* A save does not arrive, is refused for the rate limit, or arrives and its
\* answer does not.
SaveFails ==
  \E s \in saves :
    /\ s.answer = "none"
    /\ losses < MaxLosses /\ losses' = losses + 1
    /\ Answered(s, "failed")
    /\ UNCHANGED <<stored, landed>> \/ (Writable /\ Stores(s))
    /\ UNCHANGED <<client, submit, attempt, clock>>

Ended == IF Writable THEN "ended" ELSE attempt

\* SubmitManual: whatever it finds, the answer is 200 or 409.
SubmitManual ==
  /\ submit = "sent"
  /\ submit' = "over"
  /\ attempt' = Ended
  /\ UNCHANGED <<client, saves, losses, stored, landed, clock>>

SubmitFails ==
  /\ submit = "sent"
  /\ losses < MaxLosses /\ losses' = losses + 1
  /\ submit' = "failed"
  /\ attempt' \in {attempt, Ended}
  /\ UNCHANGED <<client, saves, stored, landed, clock>>

\* A moderator kicks; the violation ladder, a force-close or another window of
\* the student ends the attempt, and so does the sweep past the deadline.
EndElsewhere ==
  /\ attempt = "in_progress"
  /\ attempt' \in {"ended", "kicked"}
  /\ UNCHANGED <<client, network, stored, landed, clock>>

Tick ==
  /\ clock # "past"
  /\ clock' = IF clock = "before" THEN "grace" ELSE "past"
  /\ UNCHANGED <<client, network, stored, landed, attempt>>

-----------------------------------------------------------------------------

Client == SetAnswer \/ SubmitManually \/ TimeUp \/ SendSubmit \/ SubmitReturns \/ SaveReturns \/ Locked

Next ==
  \/ Client
  \/ \E q \in Questions : Debounce(q)
  \/ SaveAnswer \/ SaveFails \/ SubmitManual \/ SubmitFails
  \/ EndElsewhere \/ Tick

Spec == Init /\ [][Next]_vars

\* Timers fire, requests are answered or fail, time passes.
Fairness ==
  /\ WF_vars(TimeUp) /\ WF_vars(SendSubmit) /\ WF_vars(SubmitReturns) /\ WF_vars(SaveReturns)
  /\ WF_vars(SaveAnswer) /\ WF_vars(SubmitManual)
  /\ WF_vars(Tick)

FairSpec == Spec /\ Fairness

-----------------------------------------------------------------------------

\* While an attempt can be written, no edit is forgotten: the newest one of each
\* question was stored, is on its way, or is still marked to be sent.  An edit
\* typed while an older one travels keeps its mark when that one comes back, and
\* a save that fails marks the question again.
NothingForgotten ==
  Writable =>
    \A q \in Questions :
      \/ landed[q] = latest[q]
      \/ q \in dirty
      \/ \E s \in saves : s.question = q /\ s.edit = latest[q]

\* Once the clock has run out the player comes to rest, whatever requests fail
\* and whoever ended the attempt: a submit that failed is tried again.
ComesToRest == <>[](phase = "done")

\* "unsaved answers must land first": when the server takes the submit, it has
\* the answers that the student sees.
UnsavedLandFirst ==
  [][SubmitManual /\ attempt # attempt' => stored = latest]_vars
-----------------------------------------------------------------------------
(* The invariant the proofs rest on.                                       *)

\* Nothing that travels or is stored is newer than what was typed.
NothingIsInvented ==
  /\ \A q \in Questions : landed[q] <= latest[q]
  /\ \A s \in saves : s.edit <= latest[s.question]

\* An answer says what happened: 200 that the edit was stored, 409 that the
\* attempt takes no more.
AnswersAreTrue ==
  \A s \in saves :
    /\ s.answer = "ok" => landed[s.question] >= s.edit
    /\ s.answer = "conflict" => ~Writable

IInv == TypeOK /\ NothingIsInvented /\ AnswersAreTrue /\ NothingForgotten
=============================================================================
