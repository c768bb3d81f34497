---------------------------- MODULE PlayerProofs ----------------------------
(***************************************************************************)
(* No edit of a student is forgotten: proofs for any number of questions,  *)
(* edits, lost requests and saves that overtake each other.                *)
(***************************************************************************)
EXTENDS Player, TLAPS

Keeps == TypeOK' /\ NothingIsInvented' /\ AnswersAreTrue' /\ NothingForgotten'

\* An attempt that takes no more writes never takes any again.
LEMMA WritableIsOver ==
  ASSUME TypeOK, [Next]_vars, ~Writable
  PROVE  ~Writable'
  <1> USE DEF Writable
  <1>1. CASE Client \/ \E q \in Questions : Debounce(q)
    BY <1>1 DEF Client, SetAnswer, SubmitManually, TimeUp, SubmitNow, SendSubmit,
                SubmitReturns, SaveReturns, Locked, Debounce, server, network
  <1>2. CASE SaveAnswer \/ SaveFails
    BY <1>2 DEF SaveAnswer, SaveFails
  <1>3. CASE SubmitManual \/ SubmitFails
    BY <1>3 DEF SubmitManual, SubmitFails, Ended
  <1>4. CASE EndElsewhere \/ Tick
    BY <1>4 DEF EndElsewhere, Tick, TypeOK
  <1>5. CASE UNCHANGED vars
    BY <1>5 DEF vars, server
  <1> QED
    BY <1>1, <1>2, <1>3, <1>4, <1>5 DEF Next
-----------------------------------------------------------------------------
(* The client.                                                             *)

\* A new edit marks its question.
LEMMA SetAnswerKeeps ==
  ASSUME IInv, SetAnswer
  PROVE  Keeps
  <1> USE PlayerAssumption DEF IInv, TypeOK, Edits
  <1>1. PICK q \in Questions :
          /\ phase = "playing" /\ latest[q] < MaxEdits
          /\ latest' = [latest EXCEPT ![q] = @ + 1]
          /\ dirty' = dirty \cup {q} /\ timers' = timers \cup {q}
          /\ UNCHANGED <<phase, inflight, submitted, network, server>>
    BY DEF SetAnswer
  <1>2. /\ latest' \in [Questions -> Edits]
        /\ latest'[q] = latest[q] + 1
        /\ \A r \in Questions : r # q => latest'[r] = latest[r]
        /\ \A r \in Questions : latest[r] <= latest'[r]
    BY <1>1
  <1>3. TypeOK'
    BY <1>1, <1>2 DEF network, server
  <1>4. NothingIsInvented'
    <2>1. \A r \in Questions : landed'[r] <= latest'[r]
      BY <1>1, <1>2 DEF NothingIsInvented, server
    <2>2. ASSUME NEW s \in saves PROVE s.edit <= latest'[s.question]
      <3>1. s.question \in Questions /\ s.edit \in Nat /\ s.edit <= latest[s.question]
        BY DEF Save, NothingIsInvented
      <3> QED
        BY <1>2, <3>1
    <2> QED
      BY <1>1, <2>1, <2>2 DEF NothingIsInvented, network
  <1>5. AnswersAreTrue'
    BY <1>1 DEF AnswersAreTrue, Writable, network, server
  <1>6. NothingForgotten'
    BY <1>1, <1>2 DEF NothingForgotten, Writable, network, server
  <1> QED
    BY <1>3, <1>4, <1>5, <1>6 DEF Keeps

\* saveOne sends the newest edit of each question it takes the mark from.
LEMMA SaveAllKeeps ==
  ASSUME IInv, NEW qs \in SUBSET Questions, NEW flush \in BOOLEAN,
         SaveAll(qs, flush),
         UNCHANGED <<latest, losses, server>>,
         timers' \subseteq Questions,
         phase' \in {"playing", "submitting", "done"},
         submitted' \in BOOLEAN,
         submit' \in {"none", "flushing", "sent", "over", "failed"}
  PROVE  Keeps
  <1> USE DEF IInv, TypeOK, Edits
  <1>1. ASSUME NEW q \in qs
        PROVE  /\ Put(q, flush) \in Save
               /\ Put(q, flush).question = q
               /\ Put(q, flush).edit = latest[q]
               /\ Put(q, flush).answer = "none"
    BY DEF Put, Save
  <1>2. /\ saves' = saves \cup {Put(q, flush) : q \in qs}
        /\ inflight' = inflight \cup qs
        /\ dirty' = dirty \ qs
    BY DEF SaveAll
  <1>3. TypeOK'
    BY <1>1, <1>2 DEF server
  <1>4. NothingIsInvented'
    BY <1>1, <1>2 DEF NothingIsInvented, server
  <1>5. AnswersAreTrue'
    BY <1>1, <1>2 DEF AnswersAreTrue, Writable, server
  <1>6. NothingForgotten'
    <2> SUFFICES ASSUME Writable', NEW q \in Questions
                 PROVE  \/ landed'[q] = latest'[q]
                        \/ q \in dirty'
                        \/ \E s \in saves' : s.question = q /\ s.edit = latest'[q]
      BY DEF NothingForgotten
    <2>1. CASE q \in qs
      BY <1>1, <1>2, <2>1
    <2>2. CASE q \notin qs
      BY <1>2, <2>2 DEF NothingForgotten, Writable, server
    <2> QED
      BY <2>1, <2>2
  <1> QED
    BY <1>3, <1>4, <1>5, <1>6 DEF Keeps

LEMMA DebounceKeeps ==
  ASSUME IInv, NEW q \in Questions, Debounce(q)
  PROVE  Keeps
  <1>1. timers' \subseteq Questions
    BY DEF IInv, TypeOK, Debounce
  <1>2. {q} \in SUBSET Questions
    OBVIOUS
  <1> QED
    BY <1>1, <1>2, SaveAllKeeps DEF Debounce, IInv, TypeOK

LEMMA SubmitNowKeeps ==
  ASSUME IInv, SubmitNow
  PROVE  Keeps
  <1>1. dirty \in SUBSET Questions
    BY DEF IInv, TypeOK
  <1> QED
    BY <1>1, SaveAllKeeps DEF SubmitNow

\* An answer that comes back settles what it answers: the edit was stored, the
\* attempt takes no more, or the question is marked again.
LEMMA SaveReturnsKeeps ==
  ASSUME IInv, SaveReturns
  PROVE  Keeps
  <1> USE DEF IInv, TypeOK, Edits
  <1>1. PICK s \in saves :
          /\ s.answer # "none"
          /\ saves' = saves \ {s}
          /\ inflight' = inflight \ {s.question}
          /\ dirty' = Redirtied(s)
          /\ phase' = IF s.answer = "conflict" THEN "done" ELSE phase
          /\ timers' = IF s.answer = "conflict" THEN {} ELSE timers
          /\ UNCHANGED <<latest, submitted, submit, losses, server>>
    BY DEF SaveReturns
  <1>2. /\ s.question \in Questions /\ s.edit \in Nat
        /\ s.answer \in {"ok", "conflict", "failed"}
    BY <1>1 DEF Save
  <1>3. /\ dirty' \subseteq Questions /\ dirty \subseteq dirty'
        /\ s.answer = "failed" => s.question \in dirty'
    BY <1>1, <1>2 DEF Redirtied
  <1>4. TypeOK'
    BY <1>1, <1>3 DEF server
  <1>5. NothingIsInvented' /\ AnswersAreTrue'
    BY <1>1 DEF NothingIsInvented, AnswersAreTrue, Writable, server
  <1>6. NothingForgotten'
    <2> SUFFICES ASSUME Writable, NEW q \in Questions
                 PROVE  \/ landed[q] = latest[q]
                        \/ q \in dirty'
                        \/ \E t \in saves' : t.question = q /\ t.edit = latest[q]
      BY <1>1 DEF NothingForgotten, Writable, server
    <2>1. CASE landed[q] = latest[q] \/ q \in dirty
      BY <1>3, <2>1
    <2>2. CASE \E t \in saves : t.question = q /\ t.edit = latest[q]
      <3>1. PICK t \in saves : t.question = q /\ t.edit = latest[q]
        BY <2>2
      <3>2. CASE t # s
        BY <1>1, <3>1, <3>2
      <3>3. CASE t = s
        <4>1. s.answer # "conflict"
          BY DEF AnswersAreTrue
        <4>2. CASE s.answer = "ok"
          <5>1. landed[q] >= latest[q]
            BY <3>1, <3>3, <4>2 DEF AnswersAreTrue
          <5>2. landed[q] <= latest[q] /\ landed[q] \in Nat /\ latest[q] \in Nat
            BY DEF NothingIsInvented
          <5> QED
            BY <5>1, <5>2
        <4> QED
          BY <1>2, <1>3, <3>1, <3>3, <4>1, <4>2
      <3> QED
        BY <3>2, <3>3
    <2> QED
      BY <2>1, <2>2 DEF NothingForgotten
  <1> QED
    BY <1>4, <1>5, <1>6 DEF Keeps

\* What touches neither answers nor marks.
LEMMA OthersKeep ==
  ASSUME IInv, [Next]_vars, UNCHANGED <<latest, dirty, saves, stored, landed>>
  PROVE  NothingIsInvented' /\ AnswersAreTrue' /\ NothingForgotten'
  <1>1. Writable' => Writable
    BY WritableIsOver DEF IInv
  <1>2. NothingIsInvented'
    BY DEF IInv, NothingIsInvented
  <1>3. AnswersAreTrue'
    BY <1>1 DEF IInv, AnswersAreTrue
  <1>4. NothingForgotten'
    BY <1>1 DEF IInv, NothingForgotten
  <1> QED
    BY <1>2, <1>3, <1>4
-----------------------------------------------------------------------------
(* The server.                                                             *)

\* What an answered save is: the save with its answer.
LEMMA AnsweredSave ==
  ASSUME TypeOK, NEW s \in saves, NEW answer \in {"ok", "conflict", "failed"}
  PROVE  LET t == [s EXCEPT !.answer = answer]
         IN  /\ t \in Save
             /\ t.question = s.question /\ t.edit = s.edit /\ t.answer = answer
  BY DEF TypeOK, Save

\* Storing an edit moves the newest stored one up, never past what was typed.
LEMMA StoresLands ==
  ASSUME TypeOK, NothingIsInvented, NEW s \in saves, Stores(s)
  PROVE  /\ stored' \in [Questions -> Edits] /\ landed' \in [Questions -> Edits]
         /\ \A q \in Questions : landed[q] <= landed'[q] /\ landed'[q] <= latest[q]
         /\ landed'[s.question] >= s.edit
  <1> USE PlayerAssumption DEF Edits
  <1>1. /\ s.question \in Questions /\ s.edit \in Edits
        /\ s.edit <= latest[s.question]
        /\ latest \in [Questions -> Edits] /\ landed \in [Questions -> Edits]
        /\ stored \in [Questions -> Edits]
    BY DEF TypeOK, Save, NothingIsInvented
  <1>2. /\ Higher(landed[s.question], s.edit) \in Edits
        /\ Higher(landed[s.question], s.edit) >= landed[s.question]
        /\ Higher(landed[s.question], s.edit) >= s.edit
        /\ Higher(landed[s.question], s.edit) <= latest[s.question]
    BY <1>1 DEF Higher, NothingIsInvented
  <1>3. /\ landed' = [landed EXCEPT ![s.question] = Higher(landed[s.question], s.edit)]
        /\ stored' = [stored EXCEPT ![s.question] = s.edit]
    BY DEF Stores
  <1>4. /\ landed'[s.question] = Higher(landed[s.question], s.edit)
        /\ \A q \in Questions : q # s.question => landed'[q] = landed[q]
    BY <1>1, <1>3
  <1>5. landed' \in [Questions -> Edits] /\ stored' \in [Questions -> Edits]
    BY <1>1, <1>2, <1>3
  <1>6. ASSUME NEW q \in Questions
        PROVE  landed[q] <= landed'[q] /\ landed'[q] <= latest[q]
    BY <1>1, <1>2, <1>4 DEF NothingIsInvented
  <1> QED
    BY <1>2, <1>4, <1>5, <1>6

\* A save that is answered stays under way with its answer; a stored edit is
\* true of every question's newest one.
LEMMA AnsweringKeeps ==
  ASSUME IInv, NEW s \in saves, NEW answer \in {"ok", "conflict", "failed"},
         Answered(s, answer),
         Stores(s) \/ UNCHANGED <<stored, landed>>,
         answer = "ok" => Stores(s),
         answer = "conflict" => ~Writable,
         UNCHANGED <<client, submit, attempt, clock>>,
         losses' \in 0 .. MaxLosses
  PROVE  Keeps
  <1> USE DEF IInv
  <1> DEFINE t == [s EXCEPT !.answer = answer]
  <1>1. /\ t \in Save /\ t.question = s.question /\ t.edit = s.edit
        /\ t.answer = answer
    BY AnsweredSave
  <1>2. saves' = (saves \ {s}) \cup {t}
    BY DEF Answered
  <1> HIDE DEF t
  <1>3. /\ stored' \in [Questions -> Edits] /\ landed' \in [Questions -> Edits]
        /\ \A q \in Questions : landed[q] <= landed'[q] /\ landed'[q] <= latest[q]
        /\ answer = "ok" => landed'[s.question] >= s.edit
    <2>1. CASE Stores(s)
      BY <2>1, StoresLands
    <2>2. CASE UNCHANGED <<stored, landed>>
      <3>1. \A q \in Questions : landed[q] \in Nat
        BY DEF TypeOK, Edits
      <3> QED
        BY <2>1, <2>2, <3>1, StoresLands DEF TypeOK, NothingIsInvented, Edits
    <2> QED
      BY <2>1, <2>2
  <1>4. \A u \in saves : u.question \in Questions /\ u.edit \in Nat
    BY DEF TypeOK, Save, Edits
  <1>5. /\ \A q \in Questions : landed[q] \in Nat /\ landed'[q] \in Nat /\ latest[q] \in Nat
    BY <1>3 DEF TypeOK, Edits
  <1>6. UNCHANGED <<latest, dirty, attempt, clock>> /\ (Writable' <=> Writable)
    BY DEF client, Writable
  <1>7. TypeOK'
    BY <1>1, <1>2, <1>3 DEF TypeOK, client
  <1>8. NothingIsInvented'
    BY <1>1, <1>2, <1>3, <1>6 DEF NothingIsInvented
  <1>9. AnswersAreTrue'
    <2>1. ASSUME NEW u \in saves, u.answer = "ok"
          PROVE  landed'[u.question] >= u.edit
      BY <1>3, <1>4, <1>5, <2>1 DEF AnswersAreTrue
    <2>2. ASSUME NEW u \in saves, u.answer = "conflict"
          PROVE  ~Writable
      BY <2>2 DEF AnswersAreTrue
    <2> QED
      BY <1>1, <1>2, <1>3, <1>6, <2>1, <2>2 DEF AnswersAreTrue
  <1>10. NothingForgotten'
    <2> SUFFICES ASSUME Writable, NEW q \in Questions
                 PROVE  \/ landed'[q] = latest[q]
                        \/ q \in dirty
                        \/ \E u \in saves' : u.question = q /\ u.edit = latest[q]
      BY <1>6 DEF NothingForgotten
    <2>1. CASE landed[q] = latest[q]
      BY <1>3, <1>5, <2>1
    <2>2. CASE \E u \in saves : u.question = q /\ u.edit = latest[q]
      BY <1>1, <1>2, <2>2
    <2> QED
      BY <2>1, <2>2 DEF NothingForgotten
  <1> QED
    BY <1>7, <1>8, <1>9, <1>10 DEF Keeps

LEMMA SaveAnswerKeeps ==
  ASSUME IInv, SaveAnswer
  PROVE  Keeps
  <1>1. PICK s \in saves :
          /\ s.answer = "none"
          /\ IF Writable
             THEN Stores(s) /\ Answered(s, "ok")
             ELSE UNCHANGED <<stored, landed>> /\ Answered(s, "conflict")
          /\ UNCHANGED <<client, submit, losses, attempt, clock>>
    BY DEF SaveAnswer
  <1>2. losses' \in 0 .. MaxLosses
    BY <1>1 DEF IInv, TypeOK
  <1>3. CASE Writable
    BY <1>1, <1>2, <1>3, AnsweringKeeps
  <1>4. CASE ~Writable
    BY <1>1, <1>2, <1>4, AnsweringKeeps
  <1> QED
    BY <1>3, <1>4

LEMMA SaveFailsKeeps ==
  ASSUME IInv, SaveFails
  PROVE  Keeps
  <1>1. PICK s \in saves :
          /\ s.answer = "none"
          /\ losses < MaxLosses /\ losses' = losses + 1
          /\ Answered(s, "failed")
          /\ UNCHANGED <<stored, landed>> \/ (Writable /\ Stores(s))
          /\ UNCHANGED <<client, submit, attempt, clock>>
    BY DEF SaveFails
  <1>2. losses' \in 0 .. MaxLosses
    BY <1>1, PlayerAssumption DEF IInv, TypeOK
  <1> QED
    BY <1>1, <1>2, AnsweringKeeps
-----------------------------------------------------------------------------
(* The invariant, and what follows from it.                                *)

LEMMA PlayerInit == Init => IInv
  <1> SUFFICES ASSUME Init PROVE IInv
    OBVIOUS
  <1> USE PlayerAssumption DEF Init
  <1>1. TypeOK
    <2>1. 0 \in Edits /\ losses \in 0 .. MaxLosses
      BY DEF Edits
    <2>2. [q \in Questions |-> 0] \in [Questions -> Edits]
      BY <2>1
    <2> HIDE DEF Edits
    <2>3. /\ latest \in [Questions -> Edits]
          /\ stored \in [Questions -> Edits] /\ landed \in [Questions -> Edits]
      BY <2>2
    <2> QED
      BY <2>1, <2>3 DEF TypeOK
  <1>2. /\ saves = {}
        /\ \A q \in Questions : landed[q] = 0 /\ latest[q] = 0
    OBVIOUS
  <1>3. NothingIsInvented /\ AnswersAreTrue /\ NothingForgotten
    BY <1>2 DEF NothingIsInvented, AnswersAreTrue, NothingForgotten
  <1> QED
    BY <1>1, <1>3 DEF IInv

\* The steps that neither type, save nor answer keep the types.
LEMMA OthersKeepType ==
  ASSUME TypeOK,
         \/ SendSubmit \/ SubmitReturns \/ Locked \/ SubmitManual \/ SubmitFails
         \/ EndElsewhere \/ Tick
  PROVE  /\ TypeOK'
         /\ UNCHANGED <<latest, dirty, saves, stored, landed>>
  <1> USE PlayerAssumption DEF TypeOK, client, network, server
  <1>1. CASE SendSubmit
    BY <1>1 DEF SendSubmit
  <1>2. CASE SubmitReturns
    BY <1>2 DEF SubmitReturns, Resubmits
  <1>3. CASE Locked
    BY <1>3 DEF Locked
  <1>4. CASE SubmitManual
    BY <1>4 DEF SubmitManual, Ended
  <1>5. CASE SubmitFails
    BY <1>5 DEF SubmitFails, Ended
  <1>6. CASE EndElsewhere
    BY <1>6 DEF EndElsewhere
  <1>7. CASE Tick
    BY <1>7 DEF Tick
  <1> QED
    BY <1>1, <1>2, <1>3, <1>4, <1>5, <1>6, <1>7

LEMMA PlayerStep == IInv /\ [Next]_vars => IInv'
  <1> SUFFICES ASSUME IInv, [Next]_vars PROVE Keeps
    BY DEF Keeps, IInv
  <1>1. CASE SetAnswer
    BY <1>1, SetAnswerKeeps
  <1>2. CASE SubmitManually \/ TimeUp
    BY <1>2, SubmitNowKeeps DEF SubmitManually, TimeUp
  <1>3. CASE SaveReturns
    BY <1>3, SaveReturnsKeeps
  <1>4. CASE \E q \in Questions : Debounce(q)
    BY <1>4, DebounceKeeps
  <1>5. CASE SaveAnswer
    BY <1>5, SaveAnswerKeeps
  <1>6. CASE SaveFails
    BY <1>6, SaveFailsKeeps
  <1>7. CASE \/ SendSubmit \/ SubmitReturns \/ Locked \/ SubmitManual \/ SubmitFails
             \/ EndElsewhere \/ Tick
    <2>1. TypeOK' /\ UNCHANGED <<latest, dirty, saves, stored, landed>>
      BY <1>7, OthersKeepType DEF IInv
    <2> QED
      BY <2>1, OthersKeep DEF Keeps
  <1>8. CASE UNCHANGED vars
    <2>1. TypeOK' /\ UNCHANGED <<latest, dirty, saves, stored, landed>>
      BY <1>8 DEF IInv, TypeOK, vars, client, network, server
    <2> QED
      BY <2>1, OthersKeep DEF Keeps
  <1> QED
    BY <1>1, <1>2, <1>3, <1>4, <1>5, <1>6, <1>7, <1>8 DEF Next, Client

\* Every state the player and its server reach satisfies the invariant.
THEOREM PlayerInductive == Spec => []IInv
  BY PlayerInit, PlayerStep, PTL DEF Spec

\* While an attempt can be written, the newest edit of each question was stored,
\* is on its way or is marked to be sent, however saves overtake each other and
\* whatever fails (saveOne, submitNow).
THEOREM NoEditIsForgotten == Spec => []NothingForgotten
  <1>1. IInv => NothingForgotten
    BY DEF IInv
  <1> QED
    BY <1>1, PlayerInductive, PTL
=============================================================================
