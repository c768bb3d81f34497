--------------------------- MODULE AttemptContract ---------------------------
(***************************************************************************)
(* What the platform promises of a student's attempts, whatever requests,  *)
(* sweeps and workers run underneath:                                      *)
(*                                                                         *)
(*   - the answer key of an attempt is fixed when the attempt opens;       *)
(*   - answers change while the attempt is open and never afterwards;      *)
(*   - an attempt ends once, is graded once, from its last answers and its *)
(*     own key, and its score may be zeroed by a moderator afterwards;     *)
(*   - a student opens at most Budget attempts, and one more for each      *)
(*     ended attempt that was granted a fresh slot.                        *)
(***************************************************************************)
EXTENDS Integers, FiniteSets

CONSTANTS Takers, Numbers, AnswerKeys, Answers, NoAnswer, Unset, Ungraded, Budget

VARIABLES phase, answer, key, score, granted

contractVars == <<phase, answer, key, score, granted>>

Papers == Takers \X Numbers

Init ==
  /\ phase = [a \in Papers |-> "absent"]
  /\ answer = [a \in Papers |-> NoAnswer]
  /\ key = [a \in Papers |-> Unset]
  /\ score = [a \in Papers |-> Ungraded]
  /\ granted = {}

Opened(s) == {n \in Numbers : phase[<<s, n>>] # "absent"}
Grants(s) == {n \in Numbers : <<s, n>> \in granted}

Open(s, n) ==
  /\ phase[<<s, n>>] = "absent"
  /\ Cardinality(Opened(s)) < Budget + Cardinality(Grants(s))
  /\ phase' = [phase EXCEPT ![<<s, n>>] = "open"]
  /\ \E k \in AnswerKeys : key' = [key EXCEPT ![<<s, n>>] = k]
  /\ UNCHANGED <<answer, score, granted>>

Write(a) ==
  /\ phase[a] = "open"
  /\ \E r \in Answers : answer' = [answer EXCEPT ![a] = r]
  /\ UNCHANGED <<phase, key, score, granted>>

\* Several attempts may end together.
End(ending) ==
  /\ \A a \in ending : phase[a] = "open"
  /\ phase' = [a \in Papers |-> IF a \in ending THEN "ended" ELSE phase[a]]
  /\ UNCHANGED <<answer, key, score, granted>>

Grant(a) ==
  /\ phase[a] = "ended"
  /\ granted' = granted \cup {a}
  /\ UNCHANGED <<phase, answer, key, score>>

Grade(a) ==
  /\ phase[a] = "ended"
  /\ phase' = [phase EXCEPT ![a] = "graded"]
  /\ score' = [score EXCEPT ![a] = IF answer[a] = key[a] THEN 1 ELSE 0]
  /\ UNCHANGED <<answer, key, granted>>

Zero(a) ==
  /\ phase[a] = "graded"
  /\ score' = [score EXCEPT ![a] = 0]
  /\ UNCHANGED <<phase, answer, key, granted>>

Next ==
  \/ \E s \in Takers, n \in Numbers : Open(s, n)
  \/ \E a \in Papers : Write(a) \/ Grant(a) \/ Grade(a) \/ Zero(a)
  \/ \E ending \in SUBSET Papers : End(ending)

Spec == Init /\ [][Next]_contractVars
=============================================================================
