--------------------------- MODULE DashboardProofs ---------------------------
(***************************************************************************)
(* Theorems about a teacher's live monitor, for any number of attempts,    *)
(* commits and requests under way: the roster is never ahead of the        *)
(* database, and snapshots are shown in the order they were read.          *)
(***************************************************************************)
EXTENDS Dashboard, SequenceTheorems, TLAPS

Showable == Row \cup {NotStarted}

Streamed == {stream[k] : k \in DOMAIN stream}

\* NotStarted is no row.
LEMMA Started ==
  ASSUME NEW shown \in Showable
  PROVE  /\ shown # NotStarted => shown \in Row
         /\ shown.no # 0 => shown \in Row
         /\ shown.no \in 0 .. MaxAttempt
  BY BoundsAreNaturals DEF Showable, Row, NotStarted

-----------------------------------------------------------------------------
(* Rows only advance.                                                      *)

Advances(row, next) ==
  /\ next.no = row.no
  /\ row.violations <= next.violations
  /\ row.phase \in Ended => next.phase = row.phase
  /\ row.scored => next.scored

RowsAdvance ==
  /\ Len(rows) <= Len(rows')
  /\ \A n \in 1 .. Len(rows) : Advances(rows[n], rows'[n])

\* What a commit leaves behind.
Committed ==
  /\ rows' \in Seq(Row) /\ RowsNumbered'
  /\ RowsAdvance

LEMMA RowAt ==
  ASSUME rows \in Seq(Row), NEW n \in 1 .. Len(rows)
  PROVE  rows[n] \in Row /\ n \in DOMAIN rows /\ n \in Nat \ {0} /\ Len(rows) \in Nat
  BY ElementOfSeq, LenProperties

\* A row that is replaced by a later one of the same attempt.
LEMMA RowChanges ==
  ASSUME rows \in Seq(Row), RowsNumbered, NEW n \in 1 .. Len(rows), NEW next \in Row,
         Advances(rows[n], next), rows' = [rows EXCEPT ![n] = next]
  PROVE  /\ Committed
         /\ Len(rows') = Len(rows) /\ rows'[n] = next
  <1>1. /\ rows' \in Seq(Row) /\ Len(rows') = Len(rows)
        /\ \A k \in 1 .. Len(rows) : rows'[k] = IF k = n THEN next ELSE rows[k]
    BY ExceptSeq
  <1>2. DOMAIN rows = 1 .. Len(rows) /\ DOMAIN rows' = 1 .. Len(rows) /\ Len(rows) \in Nat
    BY <1>1, LenProperties
  <1>3. \A k \in 1 .. Len(rows) : rows[k] \in Row /\ rows[k].no = k
    BY <1>2, ElementOfSeq DEF RowsNumbered
  <1>4. \A k \in 1 .. Len(rows) : Advances(rows[k], rows'[k])
    <2>1. SUFFICES ASSUME NEW k \in 1 .. Len(rows)
                   PROVE  Advances(rows[k], rows'[k])
      OBVIOUS
    <2>2. CASE k = n
      BY <1>1, <2>2
    <2>3. CASE k # n
      <3>1. rows'[k] = rows[k] /\ rows[k] \in Row
        BY <1>1, <1>3, <2>3
      <3>2. rows[k].violations <= rows[k].violations
        BY <3>1 DEF Row
      <3>3. QED
        BY <3>1, <3>2 DEF Advances
    <2>4. QED
      BY <2>2, <2>3
  <1>5. \A k \in 1 .. Len(rows) : rows'[k].no = k
    BY <1>3, <1>4 DEF Advances
  <1>6. RowsNumbered'
    BY <1>2, <1>5 DEF RowsNumbered
  <1>7. QED
    BY <1>1, <1>2, <1>4, <1>6 DEF Committed, RowsAdvance

\* A further attempt.
LEMMA RowOpens ==
  ASSUME rows \in Seq(Row), RowsNumbered, NEW next \in Row, next.no = Len(rows) + 1,
         rows' = Append(rows, next)
  PROVE  /\ Committed
         /\ Len(rows') = Len(rows) + 1 /\ rows'[Len(rows) + 1] = next
  <1>1. /\ rows' \in Seq(Row) /\ Len(rows') = Len(rows) + 1
        /\ \A k \in 1 .. Len(rows) : rows'[k] = rows[k]
        /\ rows'[Len(rows) + 1] = next
    BY AppendProperties
  <1>2. DOMAIN rows = 1 .. Len(rows) /\ DOMAIN rows' = 1 .. Len(rows) + 1 /\ Len(rows) \in Nat
    BY <1>1, LenProperties
  <1>3. \A k \in 1 .. Len(rows) : rows[k] \in Row /\ rows[k].no = k
    BY <1>2, ElementOfSeq DEF RowsNumbered
  <1>4. \A k \in 1 .. Len(rows) : Advances(rows[k], rows'[k])
    BY <1>1, <1>3 DEF Advances, Row
  <1>5. \A k \in 1 .. Len(rows) + 1 : rows'[k].no = k
    <2>1. SUFFICES ASSUME NEW k \in 1 .. Len(rows) + 1
                   PROVE  rows'[k].no = k
      OBVIOUS
    <2>2. k \in 1 .. Len(rows) \/ k = Len(rows) + 1
      BY <1>2
    <2>3. QED
      BY <1>1, <1>3, <2>2
  <1>6. RowsNumbered'
    BY <1>2, <1>5 DEF RowsNumbered
  <1>7. QED
    BY <1>1, <1>2, <1>4, <1>6 DEF Committed, RowsAdvance

\* What is not ahead stays so, and what is told stays told.
LEMMA BehindStays ==
  ASSUME rows \in Seq(Row), RowsNumbered, Committed, NEW shown \in Showable, Behind(shown)
  PROVE  /\ shown # NotStarted =>
              LET row == rows'[shown.no]
              IN /\ shown.no <= Len(rows')
                 /\ shown.violations <= row.violations
                 /\ shown.phase \in Ended => shown.phase = row.phase
                 /\ shown.scored => row.scored
  <1> SUFFICES ASSUME shown # NotStarted
               PROVE  /\ shown.no <= Len(rows')
                      /\ shown.violations <= rows'[shown.no].violations
                      /\ shown.phase \in Ended => shown.phase = rows'[shown.no].phase
                      /\ shown.scored => rows'[shown.no].scored
    OBVIOUS
  <1>1. shown \in Row /\ shown.no \in Nat \ {0} /\ shown.violations \in Nat
    BY Started DEF Row
  <1>2. shown.no \in 1 .. Len(rows) /\ Len(rows) \in Nat
    BY <1>1, LenProperties DEF Behind, Last
  <1>3. rows[shown.no] \in Row /\ rows[shown.no].violations \in Nat
    <2>1. rows[shown.no] \in Row
      BY <1>2, ElementOfSeq
    <2>2. QED
      BY <2>1 DEF Row
  <1>4. Advances(rows[shown.no], rows'[shown.no]) /\ Len(rows) <= Len(rows')
    BY <1>2 DEF Committed, RowsAdvance
  <1>5. Len(rows') \in Nat /\ rows'[shown.no] \in Row /\ rows'[shown.no].violations \in Nat
    <2>1. rows' \in Seq(Row)
      BY DEF Committed
    <2>2. Len(rows') \in Nat
      BY <2>1, LenProperties
    <2>3. shown.no \in 1 .. Len(rows')
      BY <1>2, <1>4, <2>2
    <2>4. rows'[shown.no] \in Row
      BY <2>1, <2>3, ElementOfSeq
    <2>5. QED
      BY <2>2, <2>4 DEF Row
  <1>6. /\ shown.violations <= rows[shown.no].violations
        /\ shown.phase \in Ended => shown.phase = rows[shown.no].phase
        /\ shown.scored => rows[shown.no].scored
    BY DEF Behind
  <1>7. QED
    BY <1>1, <1>2, <1>3, <1>4, <1>5, <1>6 DEF Advances

LEMMA ToldStays ==
  ASSUME rows \in Seq(Row), RowsNumbered, Committed, NEW e \in Event, Told(e)
  PROVE  LET row == rows'[e.no]
         IN /\ e.no <= Len(rows')
            /\ e.type \in {"progress", "submitted"} => e.count <= 1
            /\ e.type = "violation" => e.count <= row.violations
            /\ e.type \in Ended => row.phase = e.type
            /\ e.type = "graded" => row.scored
  <1>1. e.no \in Nat \ {0} /\ e.count \in Nat
    BY BoundsAreNaturals DEF Event
  <1>2. e.no \in 1 .. Len(rows) /\ Len(rows) \in Nat
    BY <1>1, LenProperties DEF Told, Last
  <1>3. rows[e.no] \in Row /\ rows[e.no].violations \in Nat
    <2>1. rows[e.no] \in Row
      BY <1>2, ElementOfSeq
    <2>2. QED
      BY <2>1 DEF Row
  <1>4. Advances(rows[e.no], rows'[e.no]) /\ Len(rows) <= Len(rows')
    BY <1>2 DEF Committed, RowsAdvance
  <1>5. Len(rows') \in Nat /\ rows'[e.no] \in Row /\ rows'[e.no].violations \in Nat
    <2>1. rows' \in Seq(Row)
      BY DEF Committed
    <2>2. Len(rows') \in Nat
      BY <2>1, LenProperties
    <2>3. e.no \in 1 .. Len(rows')
      BY <1>2, <1>4, <2>2
    <2>4. rows'[e.no] \in Row
      BY <2>1, <2>3, ElementOfSeq
    <2>5. QED
      BY <2>2, <2>4 DEF Row
  <1>6. /\ e.type \in {"progress", "submitted"} => e.count <= 1
        /\ e.type = "violation" => e.count <= rows[e.no].violations
        /\ e.type \in Ended => rows[e.no].phase = e.type
        /\ e.type = "graded" => rows[e.no].scored
    BY DEF Told
  <1>7. QED
    BY <1>1, <1>2, <1>3, <1>4, <1>5, <1>6 DEF Advances

-----------------------------------------------------------------------------
(* What each commit does.                                                  *)

\* The event of a commit, told by the rows it left.
Announces ==
  \E e \in Event :
    /\ publishing' = publishing \cup {e}
    /\ e.no <= Len(rows')
    /\ e.type \in {"progress", "submitted"} => e.count <= 1
    /\ e.type = "violation" => e.count <= rows'[e.no].violations
    /\ e.type \in Ended => rows'[e.no].phase = e.type
    /\ e.type = "graded" => rows'[e.no].scored

Types ==
  {"started", "progress", "violation", "disconnected", "reconnected", "submitted", "kicked", "graded"}

LEMMA Emits ==
  ASSUME NEW type \in Types, NEW n \in 1 .. MaxAttempt, NEW count \in Nat,
         publishing' = publishing \cup {[type |-> type, no |-> n, count |-> count]},
         n <= Len(rows'),
         type \in {"progress", "submitted"} => count <= 1,
         type = "violation" => count <= rows'[n].violations,
         type \in Ended => rows'[n].phase = type,
         type = "graded" => rows'[n].scored
  PROVE  Announces
  <1> DEFINE e == [type |-> type, no |-> n, count |-> count]
  <1>1. e \in Event /\ e.type = type /\ e.no = n /\ e.count = count
    BY DEF Event, Types
  <1> HIDE DEF e
  <1>2. publishing' = publishing \cup {e}
    BY DEF e
  <1>3. QED
    BY <1>1, <1>2 DEF Announces

LEMMA CommitAdvances ==
  ASSUME TypeOK, RowsNumbered, Commit
  PROVE  Committed /\ Announces
  <1>0. rows \in Seq(Row)
    BY DEF TypeOK
  <1>1. Len(rows) \in Nat
    BY <1>0, LenProperties
  <1>2. ASSUME NEW n \in 1 .. Len(rows)
        PROVE  rows[n] \in Row /\ rows[n].no = n /\ n \in 1 .. MaxAttempt /\ n \in Nat
    <2>1. rows[n] \in Row /\ n \in DOMAIN rows
      BY <1>0, RowAt
    <2>2. rows[n].no = n
      BY <2>1 DEF RowsNumbered
    <2>3. QED
      BY <1>1, <2>1, <2>2 DEF Row
  <1>3. Live => Len(rows) \in 1 .. Len(rows)
    BY <1>1 DEF Live, Last
  <1>4. CASE Start
    <2> DEFINE next == [no |-> Len(rows) + 1, phase |-> "in_progress", answered |-> 0,
                        violations |-> 0, scored |-> FALSE]
    <2>1. Len(rows) < MaxAttempt /\ rows' = Append(rows, next)
      BY <1>4 DEF Start, Last
    <2>2. next \in Row /\ next.no = Len(rows) + 1
      BY <1>1, <2>1, BoundsAreNaturals DEF Row, Phases
    <2> HIDE DEF next
    <2>3. Committed /\ Len(rows') = Len(rows) + 1
      BY <1>0, <2>1, <2>2, RowOpens
    <2>4. publishing' = publishing \cup {[type |-> "started", no |-> Len(rows) + 1, count |-> 0]}
      BY <1>4 DEF Start, Emit, Last
    <2>5. Len(rows) + 1 \in 1 .. MaxAttempt
      BY <1>1, <2>1, BoundsAreNaturals
    <2>6. Announces
      BY <1>1, <2>3, <2>4, <2>5, Emits DEF Types, Ended
    <2>7. QED
      BY <2>3, <2>6
  <1>5. CASE Answer
    <2> DEFINE n == Len(rows)
    <2>1. PICK count \in 0 .. 1 :
            /\ rows' = [rows EXCEPT ![n].answered = count]
            /\ publishing' = publishing \cup {[type |-> "progress", no |-> n, count |-> count]}
      BY <1>5 DEF Answer, Emit, Last
    <2> DEFINE next == [rows[n] EXCEPT !.answered = count]
    <2>2. n \in 1 .. Len(rows) /\ rows[n] \in Row /\ n \in 1 .. MaxAttempt
      BY <1>2, <1>3, <1>5 DEF Answer
    <2>3. next \in Row /\ Advances(rows[n], next)
      BY <2>2 DEF Advances, Row
    <2>4. rows' = [rows EXCEPT ![n] = next]
      BY <2>1
    <2> HIDE DEF next, n
    <2>5. Committed /\ Len(rows') = Len(rows)
      BY <1>0, <2>2, <2>3, <2>4, RowChanges
    <2>6. Announces
      BY <1>1, <2>1, <2>2, <2>5, Emits DEF Types, Ended, n
    <2>7. QED
      BY <2>5, <2>6
  <1>6. CASE Violate
    <2> DEFINE n == Len(rows)
               next == [rows[n] EXCEPT !.violations = @ + 1]
    <2>1. /\ rows' = [rows EXCEPT ![n] = next]
          /\ publishing' = publishing \cup {[type |-> "violation", no |-> n, count |-> rows'[n].violations]}
      BY <1>6 DEF Violate, Emit, Last
    <2>2. n \in 1 .. Len(rows) /\ rows[n] \in Row /\ n \in 1 .. MaxAttempt
      BY <1>2, <1>3, <1>6 DEF Violate
    <2>3. next \in Row /\ Advances(rows[n], next)
      BY <2>2 DEF Advances, Row
    <2> HIDE DEF next, n
    <2>4. Committed /\ Len(rows') = Len(rows) /\ rows'[n] = next
      BY <1>0, <2>1, <2>2, <2>3, RowChanges
    <2>5. rows'[n].violations \in Nat
      BY <2>3, <2>4 DEF Row
    <2>6. Announces
      <3>1. n <= Len(rows') /\ rows'[n].violations <= rows'[n].violations
        BY <2>2, <2>4, <2>5
      <3>2. QED
        BY <2>1, <2>2, <2>5, <3>1, Emits DEF Types, Ended
    <2>7. QED
      BY <2>4, <2>6
  <1>7. ASSUME NEW n \in 1 .. Len(rows), NEW to \in {"in_progress", "disconnected"},
               NEW type \in {"disconnected", "reconnected"},
               rows' = [rows EXCEPT ![n].phase = Flagged(@, to)],
               publishing' = publishing \cup {[type |-> type, no |-> n, count |-> 0]}
        PROVE  Committed /\ Announces
    <2> DEFINE next == [rows[n] EXCEPT !.phase = Flagged(@, to)]
    <2>1. rows[n] \in Row /\ n \in 1 .. MaxAttempt
      BY <1>2
    <2>2. next \in Row /\ Advances(rows[n], next)
      BY <2>1 DEF Advances, Row, Phases, Flagged, Ended
    <2>3. rows' = [rows EXCEPT ![n] = next]
      BY <1>7
    <2> HIDE DEF next
    <2>4. Committed /\ Len(rows') = Len(rows)
      BY <1>0, <2>2, <2>3, RowChanges
    <2>5. Announces
      <3>1. n <= Len(rows') /\ 0 \in Nat
        BY <1>2, <2>4
      <3>2. type \in Types /\ type \notin Ended /\ type \notin {"progress", "submitted", "violation", "graded"}
        BY DEF Types, Ended
      <3>3. QED
        BY <1>7, <2>1, <3>1, <3>2, Emits
    <2>6. QED
      BY <2>4, <2>5
  <1>8. CASE Disconnect
    BY <1>7, <1>8 DEF Disconnect, Emit, Last
  <1>9. CASE Reconnect
    BY <1>7, <1>9 DEF Reconnect, Emit, Last
  <1>10. CASE Grade
    <2>1. PICK n \in 1 .. Len(rows) :
            /\ rows' = [rows EXCEPT ![n].scored = TRUE]
            /\ publishing' = publishing \cup {[type |-> "graded", no |-> n, count |-> 0]}
      BY <1>10 DEF Grade, Emit, Last
    <2> DEFINE next == [rows[n] EXCEPT !.scored = TRUE]
    <2>2. rows[n] \in Row /\ n \in 1 .. MaxAttempt
      BY <1>2
    <2>3. next \in Row /\ Advances(rows[n], next) /\ next.scored
      <3>1. next \in Row
        BY <2>2 DEF Row
      <3>2. next.no = rows[n].no /\ next.violations = rows[n].violations /\ next.phase = rows[n].phase
        BY <2>2 DEF Row
      <3>3. next.scored
        BY <2>2 DEF Row
      <3>4. rows[n].violations \in Nat
        BY <2>2 DEF Row
      <3> HIDE DEF next
      <3>5. QED
        BY <3>1, <3>2, <3>3, <3>4 DEF Advances
    <2>4. rows' = [rows EXCEPT ![n] = next]
      BY <2>1
    <2> HIDE DEF next
    <2>5. Committed /\ Len(rows') = Len(rows) /\ rows'[n] = next
      BY <1>0, <2>3, <2>4, RowChanges
    <2>6. Announces
      <3>1. n <= Len(rows') /\ rows'[n].scored
        BY <1>2, <2>3, <2>5
      <3>2. QED
        BY <2>1, <2>2, <3>1, Emits DEF Types, Ended
    <2>7. QED
      BY <2>5, <2>6
  <1>11. ASSUME NEW how \in Ended, End(how)
         PROVE  Committed /\ Announces
    <2> DEFINE n == Len(rows)
               next == [rows[n] EXCEPT !.phase = how]
    <2>1. /\ rows' = [rows EXCEPT ![n] = next]
          /\ publishing' = publishing \cup {[type |-> how, no |-> n, count |-> rows[n].answered]}
          /\ rows[n].phase \in {"in_progress", "disconnected"}
      BY <1>11 DEF End, Emit, Live, Last
    <2>2. n \in 1 .. Len(rows) /\ rows[n] \in Row /\ n \in 1 .. MaxAttempt
      BY <1>2, <1>3, <1>11 DEF End
    <2>3. next \in Row /\ Advances(rows[n], next) /\ next.phase = how
      BY <2>1, <2>2 DEF Advances, Row, Phases, Ended
    <2>4. rows[n].answered \in 0 .. 1
      BY <2>2 DEF Row
    <2> HIDE DEF next, n
    <2>5. Committed /\ Len(rows') = Len(rows) /\ rows'[n] = next
      BY <1>0, <2>1, <2>2, <2>3, RowChanges
    <2>6. Announces
      <3>1. n <= Len(rows') /\ how \in Types /\ rows[n].answered \in Nat
        BY <2>2, <2>4, <2>5 DEF Types, Ended
      <3>2. rows'[n].phase = how /\ rows[n].answered <= 1 /\ how # "violation" /\ how # "graded"
        BY <2>3, <2>4, <2>5 DEF Ended
      <3> HIDE DEF n
      <3>3. QED
        BY <2>1, <2>2, <3>1, <3>2, Emits
    <2>7. QED
      BY <2>5, <2>6
  <1>12. QED
    BY <1>4, <1>5, <1>6, <1>8, <1>9, <1>10, <1>11 DEF Commit

-----------------------------------------------------------------------------
(* The events on their way.                                                *)

\* A stream that carries these and one more, or loses its head.
LEMMA StreamGrows ==
  ASSUME stream \in Seq(Event), NEW e \in Event, stream' = Append(stream, e)
  PROVE  stream' \in Seq(Event) /\ Streamed' = Streamed \cup {e}
  <1>1. /\ stream' \in Seq(Event) /\ Len(stream') = Len(stream) + 1
        /\ \A k \in 1 .. Len(stream) : stream'[k] = stream[k]
        /\ stream'[Len(stream) + 1] = e
    BY AppendProperties
  <1>2. DOMAIN stream = 1 .. Len(stream) /\ DOMAIN stream' = 1 .. Len(stream) + 1 /\ Len(stream) \in Nat
    BY <1>1, LenProperties
  <1>3. ASSUME NEW k \in DOMAIN stream'
        PROVE  stream'[k] \in Streamed \cup {e}
    <2>1. k \in DOMAIN stream \/ k = Len(stream) + 1
      BY <1>2, <1>3
    <2>2. QED
      BY <1>1, <1>2, <2>1 DEF Streamed
  <1>4. ASSUME NEW k \in DOMAIN stream
        PROVE  stream[k] \in Streamed'
    <2>1. k \in DOMAIN stream' /\ stream'[k] = stream[k]
      BY <1>1, <1>2, <1>4
    <2>2. QED
      BY <2>1 DEF Streamed
  <1>5. e \in Streamed'
    <2>1. Len(stream) + 1 \in DOMAIN stream'
      BY <1>2
    <2>2. QED
      BY <1>1, <2>1 DEF Streamed
  <1>6. QED
    BY <1>1, <1>3, <1>4, <1>5 DEF Streamed

LEMMA StreamDrains ==
  ASSUME stream \in Seq(Event), stream # <<>>
  PROVE  /\ Head(stream) \in Event /\ Head(stream) \in Streamed
         /\ Tail(stream) \in Seq(Event)
         /\ \A k \in DOMAIN Tail(stream) : Tail(stream)[k] \in Streamed
  <1>1. /\ Head(stream) \in Event /\ Tail(stream) \in Seq(Event)
        /\ Len(Tail(stream)) = Len(stream) - 1
        /\ \A k \in 1 .. Len(Tail(stream)) : Tail(stream)[k] = stream[k + 1]
    BY HeadTailProperties
  <1>2. Len(stream) \in Nat /\ DOMAIN stream = 1 .. Len(stream) /\ DOMAIN Tail(stream) = 1 .. Len(stream) - 1
    BY <1>1, LenProperties
  <1>3. Len(stream) # 0
    BY EmptySeq
  <1>4. Head(stream) = stream[1] /\ 1 \in DOMAIN stream
    <2>1. 1 \in DOMAIN stream
      BY <1>2, <1>3
    <2>2. Head(stream) = stream[1]
      OBVIOUS
    <2>3. QED
      BY <2>1, <2>2
  <1>5. \A k \in DOMAIN Tail(stream) : Tail(stream)[k] = stream[k + 1] /\ k + 1 \in DOMAIN stream
    BY <1>1, <1>2
  <1>6. QED
    BY <1>1, <1>4, <1>5 DEF Streamed

-----------------------------------------------------------------------------
(* The requests.                                                           *)

Requesting ==
  /\ request \in [Requests -> Request]
  /\ asOf \in Nat /\ steps \in Nat
  /\ ResponsesBehind /\ NewestIsLatest

LEMMA NoRequestType == NoRequest \in Request /\ NotStarted \in Showable /\ Behind(NotStarted)
  BY DEF NoRequest, Request, Showable, Behind

LEMMA RequestType ==
  ASSUME request \in [Requests -> Request], NEW r \in Requests
  PROVE  /\ request[r] \in Request
         /\ request[r].data \in Showable /\ request[r].asOf \in Nat /\ request[r].newest \in BOOLEAN
  <1>1. request[r] \in Request
    OBVIOUS
  <1>2. QED
    BY <1>1 DEF Request, Showable

\* The newest request makes the others stale.
LEMMA Loads ==
  ASSUME Requesting, NEW r \in Requests, Load(r), UNCHANGED <<rows, steps, asOf>>
  PROVE  Requesting'
  <1> DEFINE sent == [NoRequest EXCEPT !.at = "sent", !.newest = TRUE]
  <1>1. request \in [Requests -> Request] /\ steps \in Nat
    BY DEF Requesting
  <1>2. /\ sent \in Request /\ sent.data = NotStarted
        /\ sent.at = "sent" /\ sent.asOf = 0
    BY DEF NoRequest, Request
  <1>3. request' = [q \in Requests |-> IF q = r THEN sent ELSE [request[q] EXCEPT !.newest = FALSE]]
    BY DEF Load
  <1> HIDE DEF sent
  <1>4. ASSUME NEW q \in Requests
        PROVE  LET stale == [request[q] EXCEPT !.newest = FALSE]
               IN /\ stale \in Request /\ stale.data = request[q].data /\ ~stale.newest
                  /\ stale.asOf = request[q].asOf
    <2>1. request[q] \in Request
      BY <1>1
    <2>2. QED
      BY <2>1 DEF Request
  <1>5. request' \in [Requests -> Request]
    BY <1>2, <1>3, <1>4
  <1>6. \A q \in Requests : /\ request'[q].data = NotStarted \/ request'[q].data = request[q].data
                            /\ request'[q].newest => q = r /\ request'[q].at = "sent"
                            /\ request'[q].asOf = 0 \/ request'[q].asOf = request[q].asOf
    BY <1>2, <1>3, <1>4
  <1>7. ResponsesBehind'
    <2>1. SUFFICES ASSUME NEW q \in Requests
                   PROVE  Behind(request[q].data)'
      BY DEF ResponsesBehind
    <2>2. Behind(request[q].data)
      BY DEF Requesting, ResponsesBehind
    <2>3. QED
      BY <1>6, <2>2 DEF Behind, Last
  <1>8. NewestIsLatest'
    <2>1. asOf <= steps /\ \A q \in Requests : request[q].asOf <= steps
      BY DEF Requesting, NewestIsLatest
    <2>2. \A q \in Requests : request'[q].asOf <= steps
      BY <1>1, <1>6, <2>1
    <2>3. QED
      BY <1>6, <2>1, <2>2 DEF NewestIsLatest
  <1>9. asOf' \in Nat /\ steps' \in Nat
    BY DEF Requesting
  <1>10. QED
    BY <1>5, <1>7, <1>8, <1>9 DEF Requesting

\* A request that is done.
LEMMA Frees ==
  ASSUME Requesting, NEW r \in Requests, request' = [request EXCEPT ![r] = NoRequest],
         UNCHANGED <<rows, steps>>,
         asOf' = asOf \/ (request[r].newest /\ asOf' = request[r].asOf)
  PROVE  Requesting'
  <1>1. request \in [Requests -> Request] /\ asOf \in Nat /\ steps \in Nat
    BY DEF Requesting
  <1>2. request' \in [Requests -> Request]
    BY <1>1, NoRequestType
  <1>3. \A q \in Requests : IF q = r THEN request'[q] = NoRequest ELSE request'[q] = request[q]
    BY <1>1
  <1>4. ResponsesBehind'
    <2>1. SUFFICES ASSUME NEW q \in Requests
                   PROVE  Behind(request[q].data)'
      BY DEF ResponsesBehind
    <2>2. Behind(request[q].data)
      BY DEF Requesting, ResponsesBehind
    <2>3. request'[q].data = NotStarted \/ request'[q].data = request[q].data
      BY <1>3 DEF NoRequest
    <2>4. QED
      BY <2>2, <2>3 DEF Behind, Last
  <1>5. NewestIsLatest'
    <2>1. ~NoRequest.newest /\ NoRequest.asOf = 0
      BY DEF NoRequest
    <2>2. \A q \in Requests : request'[q].newest => q # r /\ request[q].newest
      BY <1>3, <2>1
    <2>3. asOf' <= steps /\ \A q \in Requests : request'[q].asOf <= steps
      BY <1>1, <1>3, <2>1 DEF Requesting, NewestIsLatest
    <2>4. ASSUME NEW q \in Requests, request'[q].newest, request'[q].at = "read"
          PROVE  request'[q].asOf >= asOf'
      <3>1. q # r /\ request[q].newest /\ request'[q] = request[q]
        BY <1>3, <2>2, <2>4
      <3>2. ~request[r].newest
        BY <3>1 DEF Requesting, NewestIsLatest
      <3>3. QED
        BY <2>4, <3>1, <3>2 DEF Requesting, NewestIsLatest
    <2>5. \A p, q \in Requests : request'[p].newest /\ request'[q].newest => p = q
      BY <2>2 DEF Requesting, NewestIsLatest
    <2>6. QED
      BY <2>3, <2>4, <2>5 DEF NewestIsLatest
  <1>6. asOf' \in Nat /\ steps' \in Nat
    BY <1>1, RequestType
  <1>7. QED
    BY <1>2, <1>4, <1>5, <1>6 DEF Requesting

\* The rows are read as they are.
LEMMA Reads ==
  ASSUME TypeOK, RowsNumbered, Requesting, NEW r \in Requests, Read(r)
  PROVE  Requesting'
  <1> DEFINE data == IF Last = 0 THEN NotStarted ELSE rows[Last]
             next == [request[r] EXCEPT !.at = "read", !.asOf = steps, !.data = data]
  <1>1. request \in [Requests -> Request] /\ asOf \in Nat /\ steps \in Nat /\ UNCHANGED <<rows, steps, asOf>>
    BY DEF Requesting, Read, server
  <1>2. data \in Showable /\ Behind(data)
    <2>1. Len(rows) \in Nat
      BY LenProperties DEF TypeOK
    <2>2. CASE Len(rows) = 0
      BY <2>2, NoRequestType DEF Last
    <2>3. CASE Len(rows) # 0
      <3>1. Len(rows) \in 1 .. Len(rows)
        BY <2>1, <2>3
      <3>2. rows[Len(rows)] \in Row /\ Len(rows) \in DOMAIN rows
        BY <3>1, RowAt DEF TypeOK
      <3>3. rows[Len(rows)].no = Len(rows) /\ rows[Len(rows)].violations \in Nat
        BY <3>2 DEF RowsNumbered, Row
      <3>4. data = rows[Len(rows)]
        BY <2>3 DEF Last
      <3> HIDE DEF data
      <3>5. QED
        BY <2>1, <3>2, <3>3, <3>4 DEF Showable, Behind, Last
    <2>4. QED
      BY <2>2, <2>3
  <1>3. request' = [request EXCEPT ![r] = next]
    BY DEF Read
  <1> HIDE DEF data
  <1>4. /\ next \in Request /\ next.data = data /\ next.at = "read"
        /\ next.asOf = steps /\ next.newest = request[r].newest
    <2>1. request[r] \in Request
      BY <1>1
    <2>2. QED
      BY <1>1, <1>2, <2>1 DEF Request, Showable
  <1> HIDE DEF next
  <1>5. request' \in [Requests -> Request]
    BY <1>1, <1>3, <1>4
  <1>6. \A q \in Requests : IF q = r THEN request'[q] = next ELSE request'[q] = request[q]
    BY <1>1, <1>3
  <1>7. ResponsesBehind'
    <2>1. SUFFICES ASSUME NEW q \in Requests
                   PROVE  Behind(request[q].data)'
      BY DEF ResponsesBehind
    <2>2. Behind(request'[q].data)
      BY <1>2, <1>4, <1>6 DEF Requesting, ResponsesBehind
    <2>3. QED
      BY <1>1, <2>2 DEF Behind, Last
  <1>8. NewestIsLatest'
    <2>1. \A q \in Requests : request'[q].newest = request[q].newest
      BY <1>4, <1>6
    <2>2. \A q \in Requests : request'[q].asOf <= steps
      BY <1>1, <1>4, <1>6 DEF Requesting, NewestIsLatest
    <2>3. \A q \in Requests : request'[q].newest /\ request'[q].at = "read" => request'[q].asOf >= asOf
      BY <1>1, <1>4, <1>6, <2>1 DEF Requesting, NewestIsLatest
    <2>4. QED
      BY <1>1, <2>1, <2>2, <2>3 DEF Requesting, NewestIsLatest
  <1>9. QED
    BY <1>1, <1>5, <1>7, <1>8 DEF Requesting

-----------------------------------------------------------------------------
(* The deltas.                                                             *)

\* A matching delta patches the row to nothing the server does not hold.
LEMMA Patches ==
  ASSUME TypeOK, RowsNumbered, Behind(roster), NEW e \in Event, Told(e), Matches(e)
  PROVE  Patched(e) \in Row /\ Behind(Patched(e))
  <1> DEFINE row == rows[e.no]
  <1>1. e.no \in 1 .. MaxAttempt /\ e.count \in Nat /\ e.type \in Types
    BY DEF Event, Types
  <1>2. roster \in Row /\ roster # NotStarted /\ roster.no = e.no
    <2>1. roster.no = e.no /\ e.no # 0 /\ roster \in Showable
      BY <1>1, BoundsAreNaturals DEF Matches, TypeOK, Showable
    <2>2. roster \in Row
      BY <2>1, Started
    <2>3. QED
      BY <2>1, <2>2 DEF NotStarted
  <1>3. e.no \in 1 .. Len(rows) /\ Len(rows) \in Nat
    <2>1. Len(rows) \in Nat
      BY LenProperties DEF TypeOK
    <2>2. QED
      BY <1>1, <2>1, BoundsAreNaturals DEF Told, Last
  <1>4. row \in Row
    BY <1>3, ElementOfSeq DEF TypeOK
  <1>5. /\ roster.no <= Len(rows) /\ roster.violations <= row.violations
        /\ roster.phase \in Ended => roster.phase = row.phase
        /\ roster.scored => row.scored
    BY <1>2 DEF Behind, Last
  <1>6. /\ e.type \in {"progress", "submitted"} => e.count \in 0 .. 1
        /\ e.type = "violation" => e.count <= row.violations
        /\ e.type \in Ended => row.phase = e.type
        /\ e.type = "graded" => row.scored
    BY <1>1 DEF Told
  <1> HIDE DEF row
  <1>7. SUFFICES ASSUME NEW next \in Row, next.no = e.no, next.violations <= row.violations,
                        next.phase \in Ended => next.phase = row.phase,
                        next.scored => row.scored
                 PROVE  Behind(next)
    <2> DEFINE Fine(next) ==
                 /\ next \in Row /\ next.no = e.no /\ next.violations <= row.violations
                 /\ next.phase \in Ended => next.phase = row.phase
                 /\ next.scored => row.scored
    <2>1. Fine(roster)
      BY <1>2, <1>5
    <2>2. Fine(Patched(e))
      <3>1. CASE e.type = "progress"
        <4>1. Patched(e) = [roster EXCEPT !.answered = e.count]
          BY <3>1 DEF Patched
        <4>2. QED
          BY <1>6, <2>1, <3>1, <4>1 DEF Row
      <3>2. CASE e.type = "violation"
        <4>1. Patched(e) = [roster EXCEPT !.violations = e.count]
          BY <3>2 DEF Patched
        <4>2. QED
          BY <1>1, <1>6, <2>1, <3>2, <4>1 DEF Row
      <3>3. CASE e.type \in {"disconnected", "reconnected"}
        <4>1. \/ Patched(e) = roster
              \/ Patched(e) = [roster EXCEPT !.phase = "disconnected"]
              \/ Patched(e) = [roster EXCEPT !.phase = "in_progress"]
          BY <3>3 DEF Patched
        <4>2. QED
          BY <2>1, <4>1 DEF Row, Phases, Ended
      <3>4. CASE e.type = "kicked"
        <4>1. Patched(e) = [roster EXCEPT !.phase = "kicked"]
          BY <3>4 DEF Patched
        <4>2. QED
          BY <1>6, <2>1, <3>4, <4>1 DEF Row, Phases, Ended
      <3>5. CASE e.type = "submitted"
        <4>1. Patched(e) = [roster EXCEPT !.phase = IF @ = "kicked" THEN @ ELSE "submitted",
                                          !.answered = e.count]
          BY <3>5 DEF Patched
        <4>2. roster.phase # "kicked"
          BY <1>6, <2>1, <3>5 DEF Ended
        <4>3. Patched(e) = [roster EXCEPT !.phase = "submitted", !.answered = e.count]
          BY <4>1, <4>2
        <4>4. QED
          BY <1>6, <2>1, <3>5, <4>3 DEF Row, Phases, Ended
      <3>6. CASE e.type = "graded"
        <4>1. Patched(e) = [roster EXCEPT !.scored = TRUE]
          BY <3>6 DEF Patched
        <4>2. row.scored
          BY <1>6, <3>6
        <4>3. QED
          BY <2>1, <4>1, <4>2 DEF Row
      <3>7. CASE e.type = "started"
        <4>1. Patched(e) = roster
          BY <3>7 DEF Patched
        <4>2. QED
          BY <2>1, <4>1
      <3>8. QED
        BY <1>1, <3>1, <3>2, <3>3, <3>4, <3>5, <3>6, <3>7 DEF Types
    <2> HIDE DEF Fine
    <2>3. Patched(e) \in Row
      BY <2>2 DEF Fine
    <2>4. QED
      BY <1>7, <2>2, <2>3 DEF Fine
  <1>8. QED
    BY <1>3, <1>7 DEF Behind, Last, row

-----------------------------------------------------------------------------
(* The invariant, in the parts a step is about.                            *)

Serves == rows \in Seq(Row) /\ RowsNumbered /\ steps \in 0 .. MaxSteps

Shows == roster \in Showable /\ NeverAhead

Carries == publishing \subseteq Event /\ stream \in Seq(Event) /\ EventsAreTold

Attached == socket \in {"down", "live"} /\ refetch \in BOOLEAN

LEMMA Parts == IInv <=> Serves /\ Shows /\ Carries /\ Attached /\ Requesting
  BY BoundsAreNaturals
  DEF IInv, TypeOK, Serves, Shows, Carries, Attached, Requesting, Showable

LEMMA PartsNext == IInv' <=> Serves' /\ Shows' /\ Carries' /\ Attached' /\ Requesting'
  BY BoundsAreNaturals
  DEF IInv, TypeOK, Serves, Shows, Carries, Attached, Requesting, Showable

LEMMA CommitStep ==
  ASSUME IInv, Commit
  PROVE  IInv'
  <1>1. Committed /\ Announces
    BY CommitAdvances DEF IInv
  <1>2. Serves /\ Shows /\ Carries /\ Attached /\ Requesting
    BY Parts
  <1>3. /\ steps < MaxSteps /\ steps' = steps + 1
        /\ UNCHANGED <<socket, stream, request, refetch, roster, asOf>>
    BY DEF Commit, Start, Answer, Violate, Disconnect, Reconnect, Grade, End, Emit
  <1>4. Serves'
    BY <1>1, <1>2, <1>3, BoundsAreNaturals DEF Serves, Committed
  <1>5. ASSUME NEW shown \in Showable, Behind(shown)
        PROVE  shown # NotStarted =>
                 LET row == rows'[shown.no]
                 IN /\ shown.no <= Len(rows')
                    /\ shown.violations <= row.violations
                    /\ shown.phase \in Ended => shown.phase = row.phase
                    /\ shown.scored => row.scored
    BY <1>1, <1>2, <1>5, BehindStays DEF Serves
  <1>6. Shows'
    BY <1>2, <1>3, <1>5 DEF Shows, NeverAhead, Behind, Last
  <1>7. Carries'
    <2>1. PICK e \in Event :
            /\ publishing' = publishing \cup {e}
            /\ e.no <= Len(rows')
            /\ e.type \in {"progress", "submitted"} => e.count <= 1
            /\ e.type = "violation" => e.count <= rows'[e.no].violations
            /\ e.type \in Ended => rows'[e.no].phase = e.type
            /\ e.type = "graded" => rows'[e.no].scored
      BY <1>1 DEF Announces
    <2>2. publishing' \subseteq Event /\ stream' \in Seq(Event)
      BY <1>2, <1>3, <2>1 DEF Carries
    <2>3. ASSUME NEW d \in publishing' \cup {stream'[k] : k \in DOMAIN stream'}
          PROVE  Told(d)'
      <3>1. CASE d = e
        BY <2>1, <3>1 DEF Told, Last
      <3>2. CASE d \in publishing \cup {stream[k] : k \in DOMAIN stream}
        <4>1. Told(d)
          BY <1>2, <3>2 DEF Carries, EventsAreTold
        <4>2. d \in Event
          <5>1. \A k \in DOMAIN stream : stream[k] \in Event
            BY <1>2, ElementOfSeq, LenProperties DEF Carries
          <5>2. QED
            BY <1>2, <3>2, <5>1 DEF Carries
        <4>3. LET row == rows'[d.no]
              IN /\ d.no <= Len(rows')
                 /\ d.type \in {"progress", "submitted"} => d.count <= 1
                 /\ d.type = "violation" => d.count <= row.violations
                 /\ d.type \in Ended => row.phase = d.type
                 /\ d.type = "graded" => row.scored
          BY <1>1, <1>2, <4>1, <4>2, ToldStays DEF Serves
        <4>4. QED
          BY <4>3 DEF Told, Last
      <3>3. QED
        BY <1>3, <2>1, <3>1, <3>2
    <2>4. QED
      BY <2>2, <2>3 DEF Carries, EventsAreTold
  <1>8. Requesting'
    <2>1. ResponsesBehind'
      <3>1. SUFFICES ASSUME NEW r \in Requests
                     PROVE  Behind(request[r].data)'
        BY DEF ResponsesBehind
      <3>2. request[r].data \in Showable /\ Behind(request[r].data)
        BY <1>2, RequestType DEF Requesting, ResponsesBehind
      <3>3. request'[r].data = request[r].data
        BY <1>3
      <3>4. QED
        BY <1>5, <3>2, <3>3 DEF Behind, Last
    <2>2. NewestIsLatest'
      <3>1. asOf \in Nat /\ steps \in Nat /\ \A r \in Requests : request[r].asOf \in Nat
        BY <1>2, RequestType DEF Requesting
      <3>2. QED
        BY <1>2, <1>3, <3>1 DEF Requesting, NewestIsLatest
    <2>3. request' \in [Requests -> Request] /\ asOf' \in Nat /\ steps' \in Nat
      BY <1>2, <1>3 DEF Requesting
    <2>4. QED
      BY <2>1, <2>2, <2>3 DEF Requesting
  <1>9. Attached'
    BY <1>2, <1>3 DEF Attached
  <1>10. QED
    BY <1>4, <1>6, <1>7, <1>8, <1>9, PartsNext

LEMMA PublishStep ==
  ASSUME IInv, NEW e \in publishing, Publish(e)
  PROVE  IInv'
  <1>1. Serves /\ Shows /\ Carries /\ Attached /\ Requesting
    BY Parts
  <1>2. /\ publishing' = publishing \ {e}
        /\ stream' = stream \/ stream' = Append(stream, e)
        /\ UNCHANGED <<rows, steps, socket, request, refetch, roster, asOf>>
    BY DEF Publish, server
  <1>3. Streamed' \subseteq Streamed \cup {e} /\ stream' \in Seq(Event)
    <2>1. CASE stream' = stream
      BY <1>1, <2>1 DEF Carries, Streamed
    <2>2. CASE stream' = Append(stream, e)
      BY <1>1, <2>2, StreamGrows DEF Carries
    <2>3. QED
      BY <1>2, <2>1, <2>2
  <1>4. Carries'
    <2>1. \A d \in publishing \cup Streamed : Told(d)
      BY <1>1 DEF Carries, EventsAreTold, Streamed
    <2>2. publishing' \cup Streamed' \subseteq publishing \cup Streamed
      BY <1>2, <1>3
    <2>3. \A d \in publishing' \cup Streamed' : Told(d)'
      BY <1>2, <2>1, <2>2 DEF Told, Last
    <2>4. EventsAreTold'
      BY <2>3 DEF EventsAreTold, Streamed
    <2>5. QED
      BY <1>1, <1>2, <1>3, <2>4 DEF Carries
  <1>5. Serves' /\ Attached'
    BY <1>1, <1>2 DEF Serves, Attached, RowsNumbered
  <1>6. Shows'
    BY <1>1, <1>2 DEF Shows, NeverAhead, Behind, Last
  <1>7. Requesting'
    BY <1>1, <1>2 DEF Requesting, ResponsesBehind, NewestIsLatest, Behind, Last
  <1>8. QED
    BY <1>4, <1>5, <1>6, <1>7, PartsNext

\* A step of the client, with the server and the events at rest.
LEMMA ClientStep ==
  ASSUME IInv, UNCHANGED <<rows, steps, publishing>>,
         stream' \in Seq(Event), Streamed' \subseteq Streamed,
         socket' \in {"down", "live"}, refetch' \in BOOLEAN,
         roster' \in Showable, Behind(roster'), Requesting'
  PROVE  IInv'
  <1>1. Serves /\ Shows /\ Carries
    BY Parts
  <1>2. Serves' /\ Attached'
    BY <1>1 DEF Serves, Attached, RowsNumbered
  <1>3. Shows'
    BY DEF Shows, NeverAhead, Behind, Last
  <1>4. Carries'
    <2>1. \A d \in publishing' \cup Streamed' : Told(d)'
      BY <1>1 DEF Carries, EventsAreTold, Streamed, Told, Last
    <2>2. QED
      BY <1>1, <2>1 DEF Carries, EventsAreTold, Streamed
  <1>5. QED
    BY <1>2, <1>3, <1>4, PartsNext

LEMMA FetchStep ==
  ASSUME IInv, NEW r \in Requests, Fetch(r)
  PROVE  IInv'
  <1>1. Serves /\ Shows /\ Carries /\ Attached /\ Requesting /\ TypeOK /\ RowsNumbered
    BY Parts DEF IInv
  <1>2. /\ stream \in Seq(Event) /\ socket \in {"down", "live"} /\ refetch \in BOOLEAN
        /\ roster \in Showable /\ Behind(roster)
    BY <1>1 DEF Carries, Attached, Shows, NeverAhead
  <1>3. ASSUME UNCHANGED stream
        PROVE  stream' \in Seq(Event) /\ Streamed' \subseteq Streamed
    BY <1>2, <1>3 DEF Streamed
  <1>4. CASE Read(r)
    <2>1. Requesting'
      BY <1>1, <1>4, Reads
    <2>2. UNCHANGED <<rows, steps, publishing, socket, stream, refetch, roster>>
      BY <1>4 DEF Read, server
    <2>3. QED
      BY <1>2, <1>3, <2>1, <2>2, ClientStep
  <1>5. CASE Respond(r)
    <2>1. /\ request' = [request EXCEPT ![r] = NoRequest]
          /\ UNCHANGED <<rows, steps, publishing, socket, stream, refetch>>
          /\ \/ request[r].newest /\ roster' = request[r].data /\ asOf' = request[r].asOf
             \/ roster' = roster /\ asOf' = asOf
      BY <1>5 DEF Respond, Applies, server
    <2>2. Requesting'
      BY <1>1, <2>1, Frees
    <2>3. request[r].data \in Showable /\ Behind(request[r].data)
      BY <1>1, RequestType DEF Requesting, ResponsesBehind
    <2>4. roster' \in Showable /\ Behind(roster')
      BY <1>2, <2>1, <2>3
    <2>5. QED
      BY <1>2, <1>3, <2>1, <2>2, <2>4, ClientStep
  <1>6. CASE Fail(r)
    <2>1. /\ request' = [request EXCEPT ![r] = NoRequest]
          /\ UNCHANGED <<rows, steps, publishing, socket, stream, refetch, roster, asOf>>
      BY <1>6 DEF Fail, server
    <2>2. Requesting'
      BY <1>1, <2>1, Frees
    <2>3. QED
      BY <1>2, <1>3, <2>1, <2>2, ClientStep
  <1>7. CASE Poll(r) \/ Refetch(r) \/ Connect(r)
    <2>1. Load(r) /\ UNCHANGED <<rows, steps, publishing, stream, roster, asOf>>
      BY <1>7 DEF Poll, Refetch, Connect, server
    <2>2. socket' \in {"down", "live"} /\ refetch' \in BOOLEAN
      BY <1>2, <1>7 DEF Poll, Refetch, Connect
    <2>3. Requesting'
      BY <1>1, <2>1, Loads
    <2>4. QED
      BY <1>2, <1>3, <2>1, <2>2, <2>3, ClientStep
  <1>8. CASE Deliver(r)
    <2> DEFINE e == Head(stream)
    <2>1. /\ stream # <<>> /\ stream' = Tail(stream)
          /\ UNCHANGED <<rows, steps, publishing, socket, asOf>>
      BY <1>8 DEF Deliver, server
    <2>2. /\ e \in Event /\ e \in Streamed
          /\ stream' \in Seq(Event) /\ Streamed' \subseteq Streamed
      BY <1>2, <2>1, StreamDrains DEF Streamed
    <2>3. Told(e)
      BY <1>1, <2>2 DEF Carries, EventsAreTold, Streamed
    <2> HIDE DEF e
    <2>4. CASE e.type = "started"
      <3>1. Load(r) /\ UNCHANGED <<refetch, roster>>
        BY <1>8, <2>4 DEF Deliver, e
      <3>2. Requesting'
        BY <1>1, <2>1, <3>1, Loads
      <3>3. QED
        BY <1>2, <2>1, <2>2, <3>1, <3>2, ClientStep
    <2>5. CASE e.type # "started"
      <3>1. /\ roster' = IF Matches(e) THEN Patched(e) ELSE roster
            /\ refetch' = (refetch \/ e.type = "violation")
            /\ UNCHANGED request
        BY <1>8, <2>5 DEF Deliver, e
      <3>2. roster' \in Showable /\ Behind(roster')
        <4>1. CASE Matches(e)
          BY <1>1, <1>2, <2>2, <2>3, <3>1, <4>1, Patches DEF Showable
        <4>2. CASE ~Matches(e)
          BY <1>2, <3>1, <4>2
        <4>3. QED
          BY <4>1, <4>2
      <3>3. Requesting'
        BY <1>1, <2>1, <3>1 DEF Requesting, ResponsesBehind, NewestIsLatest, Behind, Last
      <3>4. refetch' \in BOOLEAN
        BY <1>2, <3>1
      <3>5. QED
        BY <1>2, <2>1, <2>2, <3>2, <3>3, <3>4, ClientStep
    <2>6. QED
      BY <2>4, <2>5
  <1>9. QED
    BY <1>4, <1>5, <1>6, <1>7, <1>8 DEF Fetch

LEMMA DisconnectedStep ==
  ASSUME IInv, Disconnected
  PROVE  IInv'
  <1>1. Shows /\ Attached /\ Requesting
    BY Parts
  <1>2. UNCHANGED <<rows, steps, publishing, request, refetch, roster, asOf>> /\ stream' = <<>> /\ socket' = "down"
    BY DEF Disconnected, server
  <1>3. stream' \in Seq(Event) /\ Streamed' \subseteq Streamed
    BY <1>2, EmptySeq DEF Streamed
  <1>4. Requesting'
    BY <1>1, <1>2 DEF Requesting, ResponsesBehind, NewestIsLatest, Behind, Last
  <1>5. roster' \in Showable /\ Behind(roster') /\ refetch' \in BOOLEAN
    BY <1>1, <1>2 DEF Shows, NeverAhead, Attached
  <1>6. QED
    BY <1>2, <1>3, <1>4, <1>5, ClientStep

LEMMA InitHolds == Init => IInv
  <1> SUFFICES ASSUME Init
               PROVE  IInv
    OBVIOUS
  <1> DEFINE sent == [NoRequest EXCEPT !.at = "sent", !.newest = TRUE]
  <1>1. PICK r \in Requests : request = [q \in Requests |-> IF q = r THEN sent ELSE NoRequest]
    BY DEF Init
  <1>2. /\ sent \in Request /\ sent.data = NotStarted /\ sent.at = "sent" /\ sent.asOf = 0
        /\ NoRequest \in Request /\ NoRequest.data = NotStarted /\ ~NoRequest.newest /\ NoRequest.asOf = 0
    BY DEF NoRequest, Request
  <1> HIDE DEF sent
  <1>3. /\ request \in [Requests -> Request]
        /\ \A q \in Requests : /\ request[q].data = NotStarted /\ request[q].asOf = 0
                               /\ request[q].newest => q = r /\ request[q].at = "sent"
    BY <1>1, <1>2
  <1>4. Requesting
    <2>1. asOf = 0 /\ steps = 0
      BY DEF Init
    <2>2. ResponsesBehind
      BY <1>3 DEF ResponsesBehind, Behind
    <2>3. QED
      BY <1>3, <2>1, <2>2 DEF Requesting, NewestIsLatest
  <1>5. Serves
    BY EmptySeq, BoundsAreNaturals DEF Init, Serves, RowsNumbered
  <1>6. Carries
    BY EmptySeq DEF Init, Carries, EventsAreTold
  <1>7. Shows /\ Attached
    BY DEF Init, Shows, NeverAhead, Behind, Showable, Attached
  <1>8. QED
    BY <1>4, <1>5, <1>6, <1>7, Parts

LEMMA StepHolds == IInv /\ [Next]_vars => IInv'
  <1> SUFFICES ASSUME IInv, [Next]_vars
               PROVE  IInv'
    OBVIOUS
  <1>1. CASE Commit
    BY <1>1, CommitStep
  <1>2. ASSUME NEW e \in publishing, Publish(e)
        PROVE  IInv'
    BY <1>2, PublishStep
  <1>3. ASSUME NEW r \in Requests, Fetch(r)
        PROVE  IInv'
    BY <1>3, FetchStep
  <1>4. CASE Disconnected
    BY <1>4, DisconnectedStep
  <1>5. CASE UNCHANGED vars
    BY <1>5 DEF vars, IInv, TypeOK, RowsNumbered, NeverAhead, ResponsesBehind, EventsAreTold, NewestIsLatest,
                Behind, Told, Last
  <1>6. QED
    BY <1>1, <1>2, <1>3, <1>4, <1>5 DEF Next

\* Types, and everything shown or on its way to be shown: responses and deltas
\* tell what the database held when they were made (LiveMonitorPanel.tsx's
\* loadSnapshot and applyEvent, the publishes of attempt/service.go).
THEOREM MonitorInductive == Spec => []IInv
  <1>1. QED
    BY InitHolds, StepHolds, PTL DEF Spec

\* The roster never shows a violation, an end or a score that the attempt does not
\* have, and a late delta never touches the row of the next attempt, with events
\* delayed, reordered and lost and responses overtaking each other.
THEOREM RosterIsNeverAhead == Spec => []NeverAhead
  <1>1. IInv => NeverAhead
    BY DEF IInv
  <1>2. QED
    BY <1>1, MonitorInductive, PTL

\* Snapshots are applied in the order the database was read: only the newest
\* request may write the roster (snapshotSeq of LiveMonitorPanel.tsx).
THEOREM SnapshotsOnlyMoveForward == Spec => SnapshotsMoveForward
  <1>1. IInv /\ [Next]_vars => [asOf' >= asOf]_asOf
    <2> SUFFICES ASSUME IInv, [Next]_vars, asOf' # asOf
                 PROVE  asOf' >= asOf
      OBVIOUS
    <2>1. PICK r \in Requests : Respond(r)
      BY DEF Next, Commit, Start, Answer, Violate, Disconnect, Reconnect, Grade, End, Emit, Publish, Fetch,
             Read, Fail, Poll, Refetch, Connect, Deliver, Disconnected, vars
    <2>2. request[r].newest /\ request[r].at = "read" /\ asOf' = request[r].asOf
      BY <2>1 DEF Respond, Applies
    <2>3. QED
      BY <2>2 DEF IInv, NewestIsLatest
  <1>2. QED
    BY <1>1, MonitorInductive, PTL DEF Spec, SnapshotsMoveForward
=============================================================================
