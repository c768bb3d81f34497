------------------------------- MODULE Outline -------------------------------
(***************************************************************************)
(* What question authoring promises: a quiz is an ordered list of          *)
(* questions.  It grows, shrinks, is edited and rearranged one call at a   *)
(* time and only in a draft, an import is appended whole and at most once, *)
(* and what is published is the list as it stood, for ever.                *)
(***************************************************************************)
EXTENDS SequencesExt, Naturals

CONSTANTS Contents,  \* what a question can say; Inherit takes the quiz's points
          Inherit,
          Imports,   \* the uploads of the quiz
          Rows       \* [Imports -> Seq(Contents)], the questions of each file

VARIABLES list,      \* the questions in their order, [id, content]
          published, \* the snapshots, each a sequence of [id, points]
          taken,     \* the imports that were appended
          phase      \* "draft" while the list may change

vars == <<list, published, taken, phase>>

Draft == phase = "draft"

Ids(s) == {s[k].id : k \in DOMAIN s}

ContentsOf(s) == [k \in DOMAIN s |-> s[k].content]

Init == list = <<>> /\ published = <<>> /\ taken = {} /\ Draft

Grow ==
  /\ Len(list') = Len(list) + 1
  /\ Front(list') = list
  /\ Last(list').id \notin Ids(list)

Edit == \E k \in DOMAIN list, c \in Contents : list' = [list EXCEPT ![k].content = c]

Drop == \E k \in DOMAIN list : list' = RemoveAt(list, k)

Rearrange == Len(list') = Len(list) /\ Range(list') = Range(list)

Change ==
  /\ Draft /\ Draft'
  /\ UNCHANGED <<published, taken>>
  /\ Rearrange \/ Grow \/ Edit \/ Drop

Import(i) ==
  /\ Draft /\ Draft' /\ i \notin taken
  /\ taken' = taken \cup {i}
  /\ IsPrefix(list, list')
  /\ ContentsOf(list') = ContentsOf(list) \o Rows[i]
  /\ IsInjective([k \in DOMAIN list' |-> list'[k].id])
  /\ UNCHANGED published

Priced(snapshot) ==
  /\ DOMAIN snapshot = DOMAIN list
  /\ \A k \in DOMAIN list :
       /\ snapshot[k].id = list[k].id
       /\ list[k].content # Inherit => snapshot[k].points = list[k].content

Publish ==
  /\ list # <<>>
  /\ Len(published') = Len(published) + 1
  /\ Front(published') = published
  /\ Priced(Last(published'))
  /\ ~Draft'
  /\ UNCHANGED <<list, taken>>

\* Only what was published is withdrawn.
Withdraw == published # <<>> /\ Draft' /\ UNCHANGED <<list, published, taken>>

\* Only what was never published is thrown away.
Scrap == Draft /\ ~Draft' /\ published = <<>> /\ list' = <<>> /\ taken' = {} /\ UNCHANGED published

Next == Change \/ (\E i \in Imports : Import(i)) \/ Publish \/ Withdraw \/ Scrap

Spec == Init /\ [][Next]_vars
=============================================================================
