--------------------------- MODULE AuthoringProofs ---------------------------
(***************************************************************************)
(* Theorems about question authoring, for any number of requests, workers  *)
(* and imports.                                                            *)
(***************************************************************************)
EXTENDS Authoring, FunctionTheorems, FiniteSetTheorems, SequenceTheorems, TLAPS

-----------------------------------------------------------------------------
(* Rows with dense positions, and the list they stand for.                 *)

Question == [position : Nat \ {0}, content : Contents, import : Imports \cup {Nobody}]

Questions == UNION {[D -> Question] : D \in SUBSET Nat}

\* The positions number the rows.
Dense(rows) ==
  /\ IsFiniteSet(DOMAIN rows)
  /\ {rows[q].position : q \in DOMAIN rows} = 1 .. Cardinality(DOMAIN rows)
  /\ \A p, q \in DOMAIN rows : rows[p].position = rows[q].position => p = q

ListOf(rows) ==
  [k \in 1 .. Cardinality(DOMAIN rows) |->
     LET q == CHOOSE p \in DOMAIN rows : rows[p].position = k
     IN [id |-> q, content |-> rows[q].content]]

LEMMA RowType ==
  ASSUME NEW rows \in Questions
  PROVE  rows \in [DOMAIN rows -> Question] /\ DOMAIN rows \subseteq Nat
  BY DEF Questions

\* As many positions as rows, each of one row.
LEMMA Positioned ==
  ASSUME NEW rows \in Questions, Dense(rows)
  PROVE  /\ Cardinality(DOMAIN rows) \in Nat
         /\ \A q \in DOMAIN rows : rows[q].position \in 1 .. Cardinality(DOMAIN rows)
         /\ \A k \in 1 .. Cardinality(DOMAIN rows) : \E q \in DOMAIN rows : rows[q].position = k
  BY FS_CardinalityType DEF Dense

\* The list has the row with position k in place k.
LEMMA InPlace ==
  ASSUME NEW rows \in Questions, Dense(rows)
  PROVE  /\ DOMAIN ListOf(rows) = 1 .. Cardinality(DOMAIN rows)
         /\ \A q \in DOMAIN rows :
              ListOf(rows)[rows[q].position] = [id |-> q, content |-> rows[q].content]
  <1>1. DOMAIN ListOf(rows) = 1 .. Cardinality(DOMAIN rows)
    BY DEF ListOf
  <1>2. ASSUME NEW q \in DOMAIN rows
        PROVE  ListOf(rows)[rows[q].position] = [id |-> q, content |-> rows[q].content]
    <2>1. rows[q].position \in 1 .. Cardinality(DOMAIN rows)
      BY Positioned
    <2>2. (CHOOSE p \in DOMAIN rows : rows[p].position = rows[q].position) = q
      BY DEF Dense
    <2>3. QED
      BY <2>1, <2>2 DEF ListOf
  <1>3. QED
    BY <1>1, <1>2

LEMMA ListType ==
  ASSUME NEW rows \in Questions, Dense(rows)
  PROVE  /\ ListOf(rows) \in Seq([id : DOMAIN rows, content : Contents])
         /\ Len(ListOf(rows)) = Cardinality(DOMAIN rows)
  <1> DEFINE n == Cardinality(DOMAIN rows)
             Entry == [id : DOMAIN rows, content : Contents]
  <1>1. n \in Nat
    BY Positioned
  <1>2. ASSUME NEW k \in 1 .. n
        PROVE  ListOf(rows)[k] \in Entry
    <2>1. PICK q \in DOMAIN rows : rows[q].position = k
      BY Positioned
    <2>2. ListOf(rows)[k] = [id |-> q, content |-> rows[q].content]
      BY <2>1, InPlace
    <2>3. rows[q].content \in Contents
      BY RowType DEF Question
    <2>4. QED
      BY <2>2, <2>3
  <1>3. ListOf(rows) = [k \in 1 .. n |-> ListOf(rows)[k]]
    BY DEF ListOf
  <1> HIDE DEF n, Entry
  <1>4. ListOf(rows) \in [1 .. n -> Entry]
    BY <1>2, <1>3
  <1>5. ListOf(rows) \in Seq(Entry)
    BY <1>1, <1>4, SeqDef
  <1>6. Len(ListOf(rows)) = n
    BY <1>1, <1>4, <1>5, LenProperties
  <1>7. QED
    BY <1>5, <1>6 DEF n, Entry

\* k rows have a position up to k.
LEMMA UpTo ==
  ASSUME NEW rows \in Questions, Dense(rows), NEW k \in 0 .. Cardinality(DOMAIN rows)
  PROVE  /\ IsFiniteSet({p \in DOMAIN rows : rows[p].position <= k})
         /\ Cardinality({p \in DOMAIN rows : rows[p].position <= k}) = k
  <1> DEFINE n == Cardinality(DOMAIN rows)
             S == {p \in DOMAIN rows : rows[p].position <= k}
             f == [j \in 1 .. k |-> CHOOSE p \in DOMAIN rows : rows[p].position = j]
  <1>1. n \in Nat /\ k \in Nat /\ k <= n
    BY Positioned
  <1>2. \A j \in 1 .. k : f[j] \in DOMAIN rows /\ rows[f[j]].position = j
    BY <1>1, Positioned
  <1>3. \A q \in DOMAIN rows : rows[q].position \in Nat \ {0}
    BY RowType DEF Question
  <1>4. f \in [1 .. k -> S]
    BY <1>1, <1>2
  <1>5. \A i, j \in 1 .. k : f[i] = f[j] => i = j
    BY <1>2
  <1>6. \A s \in S : \E j \in 1 .. k : f[j] = s
    <2>1. SUFFICES ASSUME NEW s \in S
                   PROVE  f[rows[s].position] = s /\ rows[s].position \in 1 .. k
      OBVIOUS
    <2>2. rows[s].position \in 1 .. k
      BY <1>1, <1>3
    <2>3. QED
      BY <1>2, <2>2 DEF Dense
  <1> HIDE DEF f, S
  <1>7. f \in Bijection(1 .. k, S)
    BY <1>4, <1>5, <1>6 DEF Bijection, Injection, Surjection, IsInjective
  <1>8. ExistsBijection(1 .. k, S)
    BY <1>7 DEF ExistsBijection
  <1>9. QED
    BY <1>1, <1>8, FS_CountingElements, FS_NatBijection DEF S

\* Rows with new ids after the last position: the list is continued.
LEMMA Appended ==
  ASSUME NEW rows \in Questions, Dense(rows), NEW b \in Nat, DOMAIN rows \subseteq 1 .. b,
         NEW contents \in Seq(Contents), NEW more \in Questions,
         DOMAIN more = DOMAIN rows \cup (b + 1 .. b + Len(contents)),
         \A q \in DOMAIN rows : more[q] = rows[q],
         \A q \in b + 1 .. b + Len(contents) :
           /\ more[q].position = Cardinality(DOMAIN rows) + (q - b)
           /\ more[q].content = contents[q - b]
  PROVE  /\ Dense(more)
         /\ Cardinality(DOMAIN more) = Cardinality(DOMAIN rows) + Len(contents)
         /\ DOMAIN more \subseteq 1 .. b + Len(contents)
         /\ \A k \in 1 .. Cardinality(DOMAIN rows) : ListOf(more)[k] = ListOf(rows)[k]
         /\ \A k \in 1 .. Len(contents) :
              ListOf(more)[Cardinality(DOMAIN rows) + k] = [id |-> b + k, content |-> contents[k]]
  <1> DEFINE n == Cardinality(DOMAIN rows)
             m == Len(contents)
             New == b + 1 .. b + m
  <1>1. n \in Nat /\ m \in Nat
    BY Positioned, LenProperties
  <1>2. IsFiniteSet(New) /\ Cardinality(New) = m
    <2> HIDE DEF m
    <2>1. b + 1 \in Int /\ b + m \in Int
      BY <1>1
    <2>2. IsFiniteSet(b + 1 .. b + m)
          /\ Cardinality(b + 1 .. b + m) = IF b + 1 > b + m THEN 0 ELSE (b + m) - (b + 1) + 1
      BY <2>1, FS_Interval
    <2>3. QED
      BY <1>1, <2>2
  <1>3. DOMAIN rows \cap New = {}
    BY <1>1
  <1>4. IsFiniteSet(DOMAIN rows)
    BY DEF Dense
  <1>5. IsFiniteSet(DOMAIN more) /\ Cardinality(DOMAIN more) = n + m
    <2>1. DOMAIN more = DOMAIN rows \cup New
      OBVIOUS
    <2> HIDE DEF New
    <2>2. IsFiniteSet(DOMAIN more)
          /\ Cardinality(DOMAIN more) = n + Cardinality(New) - Cardinality(DOMAIN rows \cap New)
      BY <1>2, <1>4, <2>1, FS_Union
    <2>3. Cardinality(DOMAIN rows \cap New) = 0
      BY <1>3, FS_EmptySet
    <2> HIDE DEF n, m
    <2>4. QED
      BY <1>1, <1>2, <2>2, <2>3
  <1>6. \A q \in DOMAIN rows : rows[q].position \in 1 .. n
    BY Positioned
  <1>7. \A k \in 1 .. n : \E q \in DOMAIN rows : rows[q].position = k
    BY Positioned
  <1>8. \A q \in New : more[q].position = n + (q - b) /\ more[q].content = contents[q - b]
    OBVIOUS
  <1>9. \A p, q \in DOMAIN rows : rows[p].position = rows[q].position => p = q
    BY DEF Dense
  <1>10. DOMAIN more = DOMAIN rows \cup New
    OBVIOUS
  <1>11. ListOf(more) = ListOf(more) /\ New = b + 1 .. b + m
    OBVIOUS
  <1> HIDE DEF n, m, New
  <1>12. {more[q].position : q \in DOMAIN more} = 1 .. n + m
    <2>1. ASSUME NEW q \in DOMAIN more
          PROVE  more[q].position \in 1 .. n + m
      <3>1. CASE q \in DOMAIN rows
        BY <1>1, <1>6, <3>1
      <3>2. CASE q \in New
        BY <1>1, <1>8, <1>11, <3>2
      <3>3. QED
        BY <1>10, <3>1, <3>2
    <2>2. ASSUME NEW k \in 1 .. n + m
          PROVE  \E q \in DOMAIN more : more[q].position = k
      <3>1. CASE k <= n
        BY <1>1, <1>7, <1>10, <3>1
      <3>2. CASE k > n
        <4>1. b + (k - n) \in New /\ more[b + (k - n)].position = k
          BY <1>1, <1>8, <1>11, <3>2
        <4>2. QED
          BY <1>10, <4>1
      <3>3. QED
        BY <1>1, <3>1, <3>2
    <2>3. QED
      BY <2>1, <2>2
  <1>13. ASSUME NEW p \in DOMAIN more, NEW q \in DOMAIN more, more[p].position = more[q].position
         PROVE  p = q
    <2>1. CASE p \in DOMAIN rows /\ q \in DOMAIN rows
      BY <1>9, <1>13, <2>1
    <2>2. CASE p \in New /\ q \in New
      BY <1>1, <1>8, <1>11, <1>13, <2>2
    <2>3. CASE p \in DOMAIN rows /\ q \in New
      BY <1>1, <1>6, <1>8, <1>11, <1>13, <2>3
    <2>4. CASE p \in New /\ q \in DOMAIN rows
      BY <1>1, <1>6, <1>8, <1>11, <1>13, <2>4
    <2>5. QED
      BY <1>10, <2>1, <2>2, <2>3, <2>4
  <1>14. Dense(more)
    BY <1>5, <1>12, <1>13 DEF Dense
  <1>15. DOMAIN more \subseteq 1 .. b + m
    <2>1. New \subseteq 1 .. b + m /\ 1 .. b \subseteq 1 .. b + m
      BY <1>1, <1>11
    <2>2. QED
      BY <1>10, <2>1
  <1>16. ASSUME NEW k \in 1 .. n
         PROVE  ListOf(more)[k] = ListOf(rows)[k]
    <2>1. PICK q \in DOMAIN rows : rows[q].position = k
      BY <1>7
    <2>2. ListOf(rows)[k] = [id |-> q, content |-> rows[q].content]
      BY <2>1, InPlace
    <2>3. ListOf(more)[k] = [id |-> q, content |-> more[q].content]
      BY <1>10, <1>14, <2>1, InPlace
    <2>4. QED
      BY <2>1, <2>2, <2>3
  <1>17. ASSUME NEW k \in 1 .. m
         PROVE  ListOf(more)[n + k] = [id |-> b + k, content |-> contents[k]]
    <2>1. b + k \in New /\ b + k - b = k
      BY <1>1, <1>11
    <2>2. more[b + k].position = n + k /\ more[b + k].content = contents[k]
      BY <1>8, <2>1
    <2>3. ListOf(more)[n + k] = [id |-> b + k, content |-> more[b + k].content]
      BY <1>10, <1>14, <2>1, <2>2, InPlace
    <2>4. QED
      BY <2>2, <2>3
  <1>18. QED
    BY <1>5, <1>14, <1>15, <1>16, <1>17 DEF n, m

\* A row whose position is kept keeps its place, whatever else it says.
LEMMA Edited ==
  ASSUME NEW rows \in Questions, Dense(rows), NEW x \in DOMAIN rows, NEW c \in Contents
  PROVE  LET edited == [rows EXCEPT ![x].content = c]
         IN  /\ edited \in Questions /\ DOMAIN edited = DOMAIN rows /\ Dense(edited)
             /\ ListOf(edited) = [ListOf(rows) EXCEPT ![rows[x].position].content = c]
  <1> DEFINE edited == [rows EXCEPT ![x].content = c]
             n == Cardinality(DOMAIN rows)
  <1>1. rows \in [DOMAIN rows -> Question] /\ DOMAIN rows \subseteq Nat
    BY RowType
  <1>2. edited \in [DOMAIN rows -> Question]
    BY <1>1 DEF Question
  <1>3. edited \in Questions /\ DOMAIN edited = DOMAIN rows
    BY <1>1, <1>2 DEF Questions
  <1>4. \A q \in DOMAIN rows : /\ edited[q].position = rows[q].position
                               /\ edited[q].content = IF q = x THEN c ELSE rows[q].content
    BY <1>1 DEF Question
  <1> HIDE DEF edited
  <1>5. Dense(edited)
    BY <1>3, <1>4 DEF Dense
  <1>6. DOMAIN ListOf(rows) = 1 .. n /\ DOMAIN ListOf(edited) = 1 .. n
    BY <1>3, <1>5, InPlace
  <1>7. rows[x].position \in 1 .. n /\ ListOf(rows)[rows[x].position] = [id |-> x, content |-> rows[x].content]
    BY Positioned, InPlace
  <1>8. ASSUME NEW k \in 1 .. n
        PROVE  ListOf(edited)[k] = IF k = rows[x].position THEN [ListOf(rows)[k] EXCEPT !.content = c]
                                   ELSE ListOf(rows)[k]
    <2>1. PICK q \in DOMAIN rows : rows[q].position = k
      BY Positioned
    <2>2. ListOf(rows)[k] = [id |-> q, content |-> rows[q].content]
      BY <2>1, InPlace
    <2>3. ListOf(edited)[k] = [id |-> q, content |-> edited[q].content]
      BY <1>3, <1>4, <1>5, <2>1, InPlace
    <2>4. CASE q = x
      BY <1>4, <2>1, <2>2, <2>3, <2>4
    <2>5. CASE q # x
      <3>1. k # rows[x].position
        BY <2>1, <2>5 DEF Dense
      <3>2. QED
        BY <1>4, <2>2, <2>3, <2>5, <3>1
    <2>6. QED
      BY <2>4, <2>5
  <1>9. ListOf(edited) = [k \in 1 .. n |-> ListOf(edited)[k]]
    BY <1>3 DEF ListOf
  <1>10. ListOf(edited) = [ListOf(rows) EXCEPT ![rows[x].position].content = c]
    BY <1>6, <1>7, <1>8, <1>9
  <1>11. QED
    BY <1>3, <1>5, <1>10 DEF edited

LEMMA Counting ==
  ASSUME NEW n \in Nat
  PROVE  IsFiniteSet(1 .. n) /\ Cardinality(1 .. n) = n
  <1>1. IsFiniteSet(1 .. n) /\ Cardinality(1 .. n) = IF 1 > n THEN 0 ELSE n - 1 + 1
    BY FS_Interval
  <1>2. QED
    BY <1>1

\* Rows numbered after a permutation of their ids: the list is rearranged.
LEMMA Reordered ==
  ASSUME NEW rows \in Questions, Dense(rows), NEW ids \in Seq(DOMAIN rows), IsInjective(ids),
         Len(ids) = Cardinality(DOMAIN rows), NEW moved \in Questions, DOMAIN moved = DOMAIN rows,
         \A k \in DOMAIN ids : /\ moved[ids[k]].position = k
                               /\ moved[ids[k]].content = rows[ids[k]].content
  PROVE  /\ Range(ids) = DOMAIN rows
         /\ Dense(moved)
         /\ Len(ListOf(moved)) = Len(ListOf(rows))
         /\ Range(ListOf(moved)) = Range(ListOf(rows))
  <1> DEFINE n == Cardinality(DOMAIN rows)
  <1>1. n \in Nat /\ IsFiniteSet(DOMAIN rows)
    BY Positioned DEF Dense
  <1>2. ids \in [1 .. n -> DOMAIN rows] /\ DOMAIN ids = 1 .. n
    BY <1>1, LenProperties
  <1>3. IsFiniteSet(1 .. n) /\ Cardinality(1 .. n) = n
    BY <1>1, Counting
  <1>4. ids \in Injection(1 .. n, DOMAIN rows)
    BY <1>2 DEF Injection, IsInjective
  <1>5. ids \in Surjection(1 .. n, DOMAIN rows)
    BY <1>1, <1>3, <1>4, FS_Injection
  <1>6. \A q \in DOMAIN rows : \E k \in 1 .. n : ids[k] = q
    BY <1>5 DEF Surjection
  <1>7. Range(ids) = DOMAIN rows
    BY <1>2, <1>6 DEF Range
  <1>8. \A k \in 1 .. n : ids[k] \in DOMAIN moved /\ moved[ids[k]].position = k
    BY <1>2
  <1>9. Dense(moved)
    <2> HIDE DEF n
    <2>1. {moved[q].position : q \in DOMAIN moved} = 1 .. n
      <3>1. \A q \in DOMAIN moved : moved[q].position \in 1 .. n
        BY <1>6, <1>8
      <3>2. \A k \in 1 .. n : \E q \in DOMAIN moved : moved[q].position = k
        BY <1>8
      <3>3. QED
        BY <3>1, <3>2
    <2>2. \A p, q \in DOMAIN moved : moved[p].position = moved[q].position => p = q
      BY <1>6, <1>8
    <2>3. QED
      BY <1>1, <2>1, <2>2 DEF Dense, n
  <1>10. Len(ListOf(moved)) = Len(ListOf(rows))
    BY <1>9, ListType
  <1>11. \A q \in DOMAIN rows : moved[q].content = rows[q].content
    BY <1>2, <1>6
  <1>12. \A q \in DOMAIN rows :
           /\ rows[q].position \in 1 .. n
           /\ ListOf(rows)[rows[q].position] = [id |-> q, content |-> rows[q].content]
    BY Positioned, InPlace
  <1>13. \A q \in DOMAIN rows :
           /\ moved[q].position \in 1 .. n
           /\ ListOf(moved)[moved[q].position] = [id |-> q, content |-> rows[q].content]
    <2>1. \A q \in DOMAIN moved : moved[q].position \in 1 .. Cardinality(DOMAIN moved)
      BY <1>9, Positioned
    <2>2. \A q \in DOMAIN moved :
            ListOf(moved)[moved[q].position] = [id |-> q, content |-> moved[q].content]
      BY <1>9, InPlace
    <2>3. QED
      BY <1>11, <2>1, <2>2
  <1>14. \A k \in 1 .. n : \E q \in DOMAIN rows : rows[q].position = k
    BY Positioned
  <1>15. \A k \in 1 .. n : \E q \in DOMAIN rows : moved[q].position = k
    BY <1>2, <1>8
  <1>16. DOMAIN ListOf(rows) = 1 .. n /\ DOMAIN ListOf(moved) = 1 .. n
    BY <1>9, InPlace
  <1>17. Range(ListOf(moved)) = Range(ListOf(rows))
    <2> DEFINE old == ListOf(rows)
               new == ListOf(moved)
    <2> HIDE DEF n, old, new
    <2>a. \A q \in DOMAIN rows : new[moved[q].position] = old[rows[q].position]
      BY <1>12, <1>13 DEF old, new
    <2>1. ASSUME NEW k \in 1 .. n
          PROVE  \E j \in 1 .. n : new[j] = old[k]
      <3>1. PICK q \in DOMAIN rows : rows[q].position = k
        BY <1>14
      <3>2. QED
        BY <1>13, <2>a, <3>1
    <2>2. ASSUME NEW k \in 1 .. n
          PROVE  \E j \in 1 .. n : old[j] = new[k]
      <3>1. PICK q \in DOMAIN rows : moved[q].position = k
        BY <1>15
      <3>2. QED
        BY <1>12, <2>a, <3>1
    <2>3. DOMAIN old = 1 .. n /\ DOMAIN new = 1 .. n
      BY <1>16 DEF old, new
    <2>4. Range(new) = Range(old)
      <3>1. Range(new) = {new[k] : k \in 1 .. n} /\ Range(old) = {old[k] : k \in 1 .. n}
        BY <2>3 DEF Range
      <3>2. ASSUME NEW y \in Range(new)
            PROVE  y \in Range(old)
        <4>1. PICK k \in 1 .. n : y = new[k]
          BY <3>1
        <4>2. QED
          BY <2>2, <3>1, <4>1
      <3>3. ASSUME NEW y \in Range(old)
            PROVE  y \in Range(new)
        <4>1. PICK k \in 1 .. n : y = old[k]
          BY <3>1
        <4>2. QED
          BY <2>1, <3>1, <4>1
      <3>4. QED
        BY <3>2, <3>3
    <2>5. QED
      BY <2>4 DEF old, new
  <1>18. QED
    BY <1>7, <1>9, <1>10, <1>17

\* A sequence without one of its elements.
LEMMA Removed ==
  ASSUME NEW S, NEW s \in Seq(S), NEW i \in 1 .. Len(s)
  PROVE  /\ RemoveAt(s, i) \in Seq(S)
         /\ Len(RemoveAt(s, i)) = Len(s) - 1
         /\ \A k \in 1 .. Len(s) - 1 : RemoveAt(s, i)[k] = IF k < i THEN s[k] ELSE s[k + 1]
  <1> DEFINE l == SubSeq(s, 1, i - 1)
             r == SubSeq(s, i + 1, Len(s))
  <1>1. Len(s) \in Nat /\ i \in Nat /\ i >= 1 /\ i <= Len(s)
    BY LenProperties
  <1>2. \A k \in 1 .. Len(s) : s[k] \in S
    BY ElementOfSeq
  <1>3. l \in Seq(S) /\ Len(l) = i - 1 /\ \A k \in 1 .. i - 1 : l[k] = s[k]
    <2>1. \A k \in 1 .. i - 1 : s[k] \in S
      BY <1>1, <1>2
    <2>2. l \in Seq(S) /\ Len(l) = (IF 1 <= i - 1 THEN i - 1 - 1 + 1 ELSE 0)
          /\ \A k \in 1 .. i - 1 - 1 + 1 : l[k] = s[1 + k - 1]
      <3>1. 1 \in Int /\ i - 1 \in Int
        BY <1>1
      <3>2. QED
        BY <2>1, <3>1, SubSeqProperties
    <2> HIDE DEF l
    <2>3. QED
      BY <1>1, <2>2
  <1>4. r \in Seq(S) /\ Len(r) = Len(s) - i /\ \A k \in 1 .. Len(s) - i : r[k] = s[i + k]
    <2>1. \A k \in i + 1 .. Len(s) : s[k] \in S
      BY <1>1, <1>2
    <2>2. r \in Seq(S) /\ Len(r) = (IF i + 1 <= Len(s) THEN Len(s) - (i + 1) + 1 ELSE 0)
          /\ \A k \in 1 .. Len(s) - (i + 1) + 1 : r[k] = s[i + 1 + k - 1]
      <3>1. i + 1 \in Int /\ Len(s) \in Int
        BY <1>1
      <3>2. QED
        BY <2>1, <3>1, SubSeqProperties
    <2> HIDE DEF r
    <2>3. QED
      BY <1>1, <2>2
  <1>5. RemoveAt(s, i) = l \o r
    BY DEF RemoveAt
  <1> HIDE DEF l, r
  <1>6. /\ l \o r \in Seq(S) /\ Len(l \o r) = Len(l) + Len(r)
        /\ \A k \in 1 .. Len(l) + Len(r) : (l \o r)[k] = IF k <= Len(l) THEN l[k] ELSE r[k - Len(l)]
    BY <1>3, <1>4, ConcatProperties
  <1>7. Len(l) + Len(r) = Len(s) - 1
    BY <1>1, <1>3, <1>4
  <1>8. ASSUME NEW k \in 1 .. Len(s) - 1
        PROVE  (l \o r)[k] = IF k < i THEN s[k] ELSE s[k + 1]
    <2>1. CASE k < i
      BY <1>1, <1>3, <1>6, <1>7, <2>1
    <2>2. CASE k >= i
      <3>1. k - Len(l) \in 1 .. Len(s) - i /\ i + (k - Len(l)) = k + 1
        BY <1>1, <1>3, <2>2
      <3>2. (l \o r)[k] = r[k - Len(l)]
        BY <1>1, <1>3, <1>6, <1>7, <2>2
      <3>3. r[k - Len(l)] = s[i + (k - Len(l))]
        BY <1>4, <3>1
      <3>4. ~ (k < i)
        BY <1>1, <2>2
      <3>5. QED
        BY <3>1, <3>2, <3>3, <3>4
    <2>3. k < i \/ k >= i
      BY <1>1
    <2>4. QED
      BY <2>1, <2>2, <2>3
  <1>9. QED
    BY <1>5, <1>6, <1>7, <1>8

\* Rows that are numbered again when one of them is gone: its place closes up.
LEMMA ClosedUp ==
  ASSUME NEW rows \in Questions, Dense(rows), NEW x \in DOMAIN rows,
         NEW left \in Questions, DOMAIN left = DOMAIN rows \ {x},
         \A q \in DOMAIN left :
           /\ left[q].position = Cardinality({p \in DOMAIN left : rows[p].position <= rows[q].position})
           /\ left[q].content = rows[q].content
  PROVE  Dense(left) /\ ListOf(left) = RemoveAt(ListOf(rows), rows[x].position)
  <1> DEFINE n == Cardinality(DOMAIN rows)
             m == rows[x].position
  <1>1. n \in Nat /\ m \in 1 .. n /\ \A q \in DOMAIN rows : rows[q].position \in 1 .. n
    BY Positioned
  <1>2. \A p, q \in DOMAIN rows : rows[p].position = rows[q].position => p = q
    BY DEF Dense
  <1>3. \A k \in 1 .. n : \E q \in DOMAIN rows : rows[q].position = k
    BY Positioned
  <1>4. IsFiniteSet(DOMAIN left) /\ Cardinality(DOMAIN left) = n - 1
    BY FS_RemoveElement DEF Dense
  <1>5. ASSUME NEW q \in DOMAIN left
        PROVE  left[q].position = IF rows[q].position < m THEN rows[q].position ELSE rows[q].position - 1
    <2> DEFINE k == rows[q].position
               Below == {p \in DOMAIN rows : rows[p].position <= k}
    <2>1. k \in 1 .. n /\ k # m
      BY <1>1, <1>2
    <2>2. IsFiniteSet(Below) /\ Cardinality(Below) = k
      <3>1. k \in 0 .. n
        BY <1>1, <2>1
      <3> HIDE DEF k
      <3>2. QED
        BY <3>1, UpTo
    <2>3. {p \in DOMAIN left : rows[p].position <= k} = Below \ {x}
      OBVIOUS
    <2>4. x \in Below <=> m <= k
      OBVIOUS
    <2>5. left[q].position = Cardinality(Below \ {x})
      BY <2>3
    <2> HIDE DEF Below
    <2>6. Cardinality(Below \ {x}) = IF x \in Below THEN Cardinality(Below) - 1 ELSE Cardinality(Below)
      BY <2>2, FS_RemoveElement
    <2> HIDE DEF k, m
    <2>7. left[q].position = IF k < m THEN k ELSE k - 1
      BY <1>1, <2>1, <2>2, <2>4, <2>5, <2>6
    <2>8. QED
      BY <2>7 DEF k
  <1>6. \A q \in DOMAIN left : q \in DOMAIN rows /\ rows[q].position # m
    BY <1>2
  <1> HIDE DEF n
  <1>7. {left[q].position : q \in DOMAIN left} = 1 .. n - 1
    <2>1. ASSUME NEW q \in DOMAIN left
          PROVE  left[q].position \in 1 .. n - 1
      <3>1. rows[q].position \in 1 .. n /\ rows[q].position # m
        BY <1>1, <1>6
      <3> HIDE DEF m
      <3>2. QED
        BY <1>1, <1>5, <3>1
    <2>2. ASSUME NEW k \in 1 .. n - 1
          PROVE  \E q \in DOMAIN left : left[q].position = k
      <3>1. PICK q \in DOMAIN rows : rows[q].position = IF k < m THEN k ELSE k + 1
        BY <1>1, <1>3
      <3>2. q \in DOMAIN left
        BY <1>1, <3>1
      <3>3. left[q].position = k
        BY <1>1, <1>5, <3>1, <3>2
      <3>4. QED
        BY <3>2, <3>3
    <2>3. QED
      BY <2>1, <2>2
  <1>8. ASSUME NEW p \in DOMAIN left, NEW q \in DOMAIN left, left[p].position = left[q].position
        PROVE  p = q
    <2>1. rows[p].position \in 1 .. n /\ rows[p].position # m /\ rows[q].position \in 1 .. n
          /\ rows[q].position # m /\ p \in DOMAIN rows /\ q \in DOMAIN rows
      BY <1>1, <1>6
    <2>2. rows[p].position = rows[q].position
      BY <1>1, <1>5, <1>8, <2>1
    <2>3. QED
      BY <1>2, <2>1, <2>2
  <1>9. Dense(left)
    BY <1>4, <1>7, <1>8 DEF Dense
  <1>10. ListOf(left) = RemoveAt(ListOf(rows), m)
    <2> DEFINE old == ListOf(rows)
               new == ListOf(left)
               S == [id : DOMAIN rows, content : Contents]
    <2>1. old \in Seq(S) /\ Len(old) = n
      BY ListType DEF n
    <2>2. new \in Seq(S) /\ Len(new) = n - 1
      <3>1. new \in Seq([id : DOMAIN left, content : Contents]) /\ Len(new) = n - 1
        BY <1>4, <1>9, ListType
      <3>2. [id : DOMAIN left, content : Contents] \subseteq S
        OBVIOUS
      <3>3. QED
        BY <3>1, <3>2, SeqMonotonic
    <2>3. /\ RemoveAt(old, m) \in Seq(S) /\ Len(RemoveAt(old, m)) = n - 1
          /\ \A k \in 1 .. n - 1 : RemoveAt(old, m)[k] = IF k < m THEN old[k] ELSE old[k + 1]
      <3> HIDE DEF old, S, m
      <3>1. QED
        BY <1>1, <2>1, Removed
    <2>4. ASSUME NEW k \in 1 .. n - 1
          PROVE  new[k] = RemoveAt(old, m)[k]
      <3>1. PICK q \in DOMAIN left : left[q].position = k
        BY <1>7
      <3>a. ListOf(left)[left[q].position] = [id |-> q, content |-> left[q].content]
        BY <1>9, InPlace
      <3>2. new[k] = [id |-> q, content |-> rows[q].content]
        BY <3>1, <3>a
      <3>3. old[rows[q].position] = [id |-> q, content |-> rows[q].content]
        BY <1>6, InPlace
      <3>4. rows[q].position = IF k < m THEN k ELSE k + 1
        <4>1. rows[q].position \in 1 .. n /\ rows[q].position # m
          BY <1>1, <1>6
        <4>2. QED
          BY <1>1, <1>5, <3>1, <4>1
      <3>5. QED
        BY <1>1, <2>3, <3>2, <3>3, <3>4
    <2> HIDE DEF old, new, S, m
    <2>5. \A k \in 1 .. Len(new) : new[k] = RemoveAt(old, m)[k]
      BY <2>2, <2>4
    <2>6. new = RemoveAt(old, m)
      BY <2>2, <2>3, <2>5, SeqEqual
    <2>7. QED
      BY <2>6 DEF old, new
  <1>11. QED
    BY <1>9, <1>10

\* Without anything gone, every row has the number it had.
LEMMA StillNumbered ==
  ASSUME NEW rows \in Questions, Dense(rows), NEW q \in DOMAIN rows
  PROVE  Cardinality({p \in DOMAIN rows : rows[p].position <= rows[q].position}) = rows[q].position
  <1>1. rows[q].position \in 0 .. Cardinality(DOMAIN rows)
    BY Positioned
  <1>2. QED
    BY <1>1, UpTo

-----------------------------------------------------------------------------
(* The invariant.                                                          *)

Typed ==
  /\ quiz \in [status : {"draft", "scheduled", "opened", "begun", "gone"}, default : Defaults]
  /\ born \in Nat
  /\ questions \in Questions
  /\ versions \in Seq(Range(versions))
  /\ imports \in [Imports -> {"none", "validating", "ready", "failed", "committed", "gone"}]
  /\ job \in [Imports -> {"none", "available", "running", "done"}]
  /\ run \in [Workers -> {Resting} \cup [at : {"parsing", "written"}, import : Imports]]
  /\ call \in [Callers -> {Idle} \cup [op : Ops, on : Imports \cup Nat \cup {Nobody}]]
  /\ holder \in [Imports \cup {"quiz"} -> Callers \cup {Nobody}]

Numbered == Typed /\ PositionsDense /\ PositionsDistinct

\* Without the run's bounds, and with what only the proofs need.
AuthoringInv ==
  /\ Numbered /\ LocksHold /\ LocksAreHeld /\ ReadyHasRows /\ OneRunner /\ IsPublished
  /\ SnapshotIsCurrent /\ ValidationIsQueued

LEMMA AreDense == Numbered => Dense(questions)
  <1> SUFFICES ASSUME Numbered
               PROVE  Dense(questions)
    OBVIOUS
  <1>1. IsFiniteSet(1 .. born)
    BY Counting DEF Numbered, Typed
  <1>2. IsFiniteSet(DOMAIN questions)
    BY <1>1, FS_Subset DEF Numbered, PositionsDistinct
  <1>3. QED
    BY <1>2 DEF Dense, Numbered, PositionsDense, PositionsDistinct

\* max(position) is the number of questions.
LEMMA LastIsCount == Numbered => LastPosition = Cardinality(DOMAIN questions)
  <1> SUFFICES ASSUME Numbered
               PROVE  LastPosition = Cardinality(DOMAIN questions)
    OBVIOUS
  <1> DEFINE n == Cardinality(DOMAIN questions)
  <1>1. n \in Nat
    BY AreDense, Positioned DEF Numbered, Typed
  <1>2. LastPosition = CHOOSE top \in {0} \cup {questions[q].position : q \in DOMAIN questions} :
                         \A position \in {0} \cup {questions[q].position : q \in DOMAIN questions} : position <= top
    BY DEF LastPosition
  <1>3. {0} \cup {questions[q].position : q \in DOMAIN questions} = 0 .. n
    <2>1. {questions[q].position : q \in DOMAIN questions} = 1 .. n
      BY DEF Numbered, PositionsDense
    <2> HIDE DEF n
    <2>2. QED
      BY <1>1, <2>1
  <1>4. LastPosition = CHOOSE top \in 0 .. n : \A position \in 0 .. n : position <= top
    BY <1>2, <1>3
  <1> HIDE DEF n
  <1>5. n \in 0 .. n /\ \A position \in 0 .. n : position <= n
    BY <1>1
  <1>6. \A top \in 0 .. n : (\A position \in 0 .. n : position <= top) => top = n
    BY <1>1
  <1>7. LastPosition = n
    BY <1>4, <1>5, <1>6
  <1>8. QED
    BY <1>7 DEF n

\* What an insert makes of the questions.
LEMMA Adds ==
  ASSUME Numbered, NEW contents \in Seq(Contents), NEW import \in Imports \cup {Nobody},
         questions' = With(Inserted(LastPosition, contents, import)), born' = born + Len(contents)
  PROVE  /\ questions' \in Questions /\ born' \in Nat
         /\ Dense(questions')
         /\ DOMAIN questions' \subseteq 1 .. born'
         /\ Cardinality(DOMAIN questions') = Cardinality(DOMAIN questions) + Len(contents)
         /\ \A k \in 1 .. Cardinality(DOMAIN questions) : ListOf(questions')[k] = ListOf(questions)[k]
         /\ \A k \in 1 .. Len(contents) :
              ListOf(questions')[Cardinality(DOMAIN questions) + k] = [id |-> born + k, content |-> contents[k]]
  <1> DEFINE n == Cardinality(DOMAIN questions)
             rows == questions
             more == questions'
             New == born + 1 .. born + Len(contents)
  <1>1. rows \in Questions /\ Dense(rows) /\ DOMAIN rows \subseteq 1 .. born /\ born \in Nat
    BY AreDense DEF Numbered, Typed, PositionsDistinct
  <1>2. n \in Nat /\ Len(contents) \in Nat
    BY <1>1, Positioned, LenProperties
  <1>3. LastPosition = n
    BY LastIsCount
  <1>4. Inserted(LastPosition, contents, import) =
          [q \in New |-> [position |-> n + q - born, content |-> contents[q - born], import |-> import]]
    BY <1>3 DEF Inserted
  <1>5. more = [q \in DOMAIN rows \cup New |->
                 IF q \in DOMAIN rows THEN rows[q]
                 ELSE [position |-> n + q - born, content |-> contents[q - born], import |-> import]]
    BY <1>4 DEF With
  <1>6. DOMAIN rows \cap New = {}
    BY <1>1, <1>2
  <1>7. \A q \in New : q \in Nat /\ q - born \in 1 .. Len(contents) /\ n + q - born = n + (q - born)
                       /\ n + q - born \in Nat \ {0}
    BY <1>1, <1>2
  <1> HIDE DEF n, New
  <1>8. \A q \in DOMAIN rows : more[q] = rows[q]
    BY <1>5
  <1>9. \A q \in New : more[q] = [position |-> n + q - born, content |-> contents[q - born], import |-> import]
    BY <1>5, <1>6
  <1>10. \A q \in New : more[q] \in Question /\ more[q].position = n + (q - born)
                          /\ more[q].content = contents[q - born]
    <2>1. SUFFICES ASSUME NEW q \in New
                   PROVE  more[q] \in Question /\ more[q].position = n + (q - born)
                          /\ more[q].content = contents[q - born]
      OBVIOUS
    <2>2. contents[q - born] \in Contents
      BY <1>7, ElementOfSeq
    <2>3. n + q - born \in Nat \ {0} /\ n + q - born = n + (q - born)
      BY <1>7
    <2>4. [position |-> n + q - born, content |-> contents[q - born], import |-> import] \in Question
      BY <2>2, <2>3 DEF Question
    <2>5. more[q] = [position |-> n + q - born, content |-> contents[q - born], import |-> import]
      BY <1>9
    <2> HIDE DEF more
    <2>6. QED
      BY <2>3, <2>4, <2>5
  <1>11. rows \in [DOMAIN rows -> Question] /\ DOMAIN rows \subseteq Nat
    BY <1>1, RowType
  <1>12. more \in [DOMAIN rows \cup New -> Question] /\ DOMAIN rows \cup New \subseteq Nat
    BY <1>5, <1>7, <1>8, <1>10, <1>11
  <1>13. more \in Questions /\ DOMAIN more = DOMAIN rows \cup New
    BY <1>12 DEF Questions
  <1> USE DEF n, New
  <1> HIDE DEF more, rows
  <1>14. /\ Dense(more)
         /\ Cardinality(DOMAIN more) = Cardinality(DOMAIN rows) + Len(contents)
         /\ DOMAIN more \subseteq 1 .. born + Len(contents)
         /\ \A k \in 1 .. Cardinality(DOMAIN rows) : ListOf(more)[k] = ListOf(rows)[k]
         /\ \A k \in 1 .. Len(contents) :
              ListOf(more)[Cardinality(DOMAIN rows) + k] = [id |-> born + k, content |-> contents[k]]
    BY <1>1, <1>8, <1>10, <1>13, Appended DEF rows
  <1>15. born' \in Nat
    BY <1>1, <1>2
  <1>16. QED
    BY <1>13, <1>14, <1>15 DEF more, rows

\* What a reorder makes of them.
LEMMA Reorders ==
  ASSUME Numbered, NEW ids \in SeqOf(1 .. born, Cardinality(DOMAIN questions)), Reorderable(ids),
         questions' = [q \in DOMAIN questions |->
           IF q \in Range(ids)
           THEN [questions[q] EXCEPT !.position = CHOOSE k \in DOMAIN ids : ids[k] = q]
           ELSE questions[q]]
  PROVE  /\ questions' \in Questions /\ DOMAIN questions' = DOMAIN questions
         /\ Dense(questions')
         /\ Len(ListOf(questions')) = Len(ListOf(questions))
         /\ Range(ListOf(questions')) = Range(ListOf(questions))
  <1> DEFINE rows == questions
             moved == questions'
             n == Cardinality(DOMAIN rows)
             Place(q) == CHOOSE k \in DOMAIN ids : ids[k] = q
  <1>1. rows \in Questions /\ Dense(rows)
    BY AreDense DEF Numbered, Typed
  <1>2. n \in Nat
    BY <1>1, Positioned
  <1>3. Len(ids) = n /\ Range(ids) \subseteq DOMAIN rows /\ IsInjective(ids)
    BY DEF Reorderable
  <1>4. ids \in Seq(DOMAIN rows)
    <2>1. PICK m \in 0 .. n : ids \in [1 .. m -> 1 .. born]
      BY DEF SeqOf
    <2>2. \A k \in 1 .. m : ids[k] \in DOMAIN rows
      BY <1>3, <2>1 DEF Range
    <2>3. ids \in [1 .. m -> DOMAIN rows] /\ m \in Nat
      BY <1>2, <2>1, <2>2
    <2>4. QED
      BY <2>3, SeqDef
  <1>5. DOMAIN ids = 1 .. n
    BY <1>3, <1>4, LenProperties
  <1>6. \A k \in DOMAIN ids : Place(ids[k]) = k
    BY <1>3 DEF IsInjective
  <1>7. moved = [q \in DOMAIN rows |->
           IF q \in Range(ids) THEN [rows[q] EXCEPT !.position = Place(q)] ELSE rows[q]]
    OBVIOUS
  <1>8. rows \in [DOMAIN rows -> Question] /\ DOMAIN rows \subseteq Nat
    BY <1>1, RowType
  <1>9. \A q \in Range(ids) : Place(q) \in 1 .. n
    <2>1. SUFFICES ASSUME NEW q \in Range(ids)
                   PROVE  Place(q) \in 1 .. n
      OBVIOUS
    <2>2. PICK k \in DOMAIN ids : q = ids[k]
      BY DEF Range
    <2>3. QED
      BY <1>5, <1>6, <2>2
  <1> HIDE DEF Place, n
  <1>10. \A q \in DOMAIN rows : moved[q] \in Question
    <2>1. SUFFICES ASSUME NEW q \in DOMAIN rows
                   PROVE  moved[q] \in Question
      OBVIOUS
    <2>2. rows[q] \in Question
      BY <1>8
    <2>3. CASE q \in Range(ids)
      <3>1. Place(q) \in Nat \ {0}
        BY <1>2, <1>9, <2>3
      <3>2. moved[q] = [rows[q] EXCEPT !.position = Place(q)]
        BY <1>7, <2>3
      <3>3. QED
        BY <2>2, <3>1, <3>2 DEF Question
    <2>4. CASE q \notin Range(ids)
      BY <1>7, <2>2, <2>4
    <2>5. QED
      BY <2>3, <2>4
  <1>11. moved \in Questions /\ DOMAIN moved = DOMAIN rows
    <2>1. moved \in [DOMAIN rows -> Question]
      BY <1>7, <1>10
    <2>2. QED
      BY <1>8, <2>1 DEF Questions
  <1>12. ASSUME NEW k \in DOMAIN ids
         PROVE  moved[ids[k]].position = k /\ moved[ids[k]].content = rows[ids[k]].content
    <2>1. ids[k] \in Range(ids) /\ ids[k] \in DOMAIN rows
      BY <1>3 DEF Range
    <2>2. moved[ids[k]] = [rows[ids[k]] EXCEPT !.position = k]
      BY <1>6, <1>7, <2>1
    <2>3. rows[ids[k]] \in Question
      BY <1>8, <2>1
    <2>4. QED
      BY <2>2, <2>3 DEF Question
  <1> USE DEF n
  <1> HIDE DEF rows, moved
  <1>13. /\ Dense(moved)
         /\ Len(ListOf(moved)) = Len(ListOf(rows))
         /\ Range(ListOf(moved)) = Range(ListOf(rows))
    BY <1>1, <1>3, <1>4, <1>11, <1>12, Reordered
  <1>14. QED
    BY <1>11, <1>13 DEF rows, moved

\* What a deletion makes of them, also of a question that is gone.
LEMMA Deletes ==
  ASSUME Numbered, NEW x, questions' = Densified(DOMAIN questions \ {x})
  PROVE  /\ questions' \in Questions /\ Dense(questions')
         /\ DOMAIN questions' \subseteq DOMAIN questions
         /\ x \in DOMAIN questions =>
              ListOf(questions') = RemoveAt(ListOf(questions), questions[x].position)
         /\ x \notin DOMAIN questions => questions' = questions
  <1> DEFINE rows == questions
             left == questions'
             D == DOMAIN rows \ {x}
             Number(q) == Cardinality({p \in D : rows[p].position <= rows[q].position})
  <1>1. rows \in Questions /\ Dense(rows)
    BY AreDense DEF Numbered, Typed
  <1>2. rows \in [DOMAIN rows -> Question] /\ DOMAIN rows \subseteq Nat
    BY <1>1, RowType
  <1>3. left = [q \in D |-> [rows[q] EXCEPT !.position = Number(q)]]
    BY DEF Densified
  <1>4. DOMAIN left = D
    BY <1>3
  <1>5. CASE x \notin DOMAIN rows
    <2>1. D = DOMAIN rows
      BY <1>5
    <2>2. \A q \in DOMAIN rows : Number(q) = rows[q].position
      BY <1>1, <2>1, StillNumbered
    <2> HIDE DEF Number, D
    <2>3. \A q \in DOMAIN rows : left[q] = rows[q]
      <3>1. SUFFICES ASSUME NEW q \in DOMAIN rows
                     PROVE  [rows[q] EXCEPT !.position = rows[q].position] = rows[q]
        BY <1>3, <2>1, <2>2
      <3>2. rows[q] \in Question
        BY <1>2
      <3>3. QED
        BY <3>2 DEF Question
    <2>4. left = rows
      <3> DEFINE f == left
      <3>1. left = [q \in DOMAIN rows |-> left[q]]
        BY <1>3, <2>1
      <3>2. rows = [q \in DOMAIN rows |-> rows[q]]
        BY <1>2
      <3> HIDE DEF left, rows
      <3>3. QED
        BY <2>3, <3>1, <3>2
    <2>5. QED
      BY <1>1, <1>5, <2>4
  <1>6. CASE x \in DOMAIN rows
    <2>1. \A q \in D : left[q] = [rows[q] EXCEPT !.position = Number(q)]
      BY <1>3
    <2>2. IsFiniteSet(D)
      BY <1>1, FS_RemoveElement DEF Dense
    <2>3. \A q \in D : Number(q) \in Nat \ {0}
      <3>1. SUFFICES ASSUME NEW q \in D
                     PROVE  Number(q) \in Nat \ {0}
        OBVIOUS
      <3> DEFINE S == {p \in D : rows[p].position <= rows[q].position}
      <3>2. IsFiniteSet(S)
        BY <2>2, FS_Subset
      <3>3. q \in S
        BY <1>2 DEF Question
      <3> HIDE DEF S
      <3>4. Cardinality(S) \in Nat /\ Cardinality(S) # 0
        BY <3>2, <3>3, FS_CardinalityType, FS_EmptySet
      <3>5. QED
        BY <3>4 DEF S
    <2> HIDE DEF Number
    <2>4. ASSUME NEW q \in D
          PROVE  left[q] \in Question /\ left[q].position = Number(q) /\ left[q].content = rows[q].content
      <3>1. rows[q] \in Question /\ Number(q) \in Nat \ {0}
        BY <1>2, <2>3
      <3>2. left[q] = [rows[q] EXCEPT !.position = Number(q)]
        BY <2>1
      <3>3. QED
        BY <3>1, <3>2 DEF Question
    <2>5. left \in Questions
      <3>1. left \in [D -> Question]
        BY <1>3, <2>4
      <3>2. D \subseteq Nat
        BY <1>2
      <3>3. QED
        BY <3>1, <3>2 DEF Questions
    <2> USE DEF Number
    <2>6. \A q \in DOMAIN left :
            /\ left[q].position = Cardinality({p \in DOMAIN left : rows[p].position <= rows[q].position})
            /\ left[q].content = rows[q].content
      BY <1>4, <2>4
    <2> HIDE DEF left, rows
    <2>7. Dense(left) /\ ListOf(left) = RemoveAt(ListOf(rows), rows[x].position)
      BY <1>1, <1>4, <1>6, <2>5, <2>6, ClosedUp
    <2>8. DOMAIN left \subseteq DOMAIN rows
      BY <1>4
    <2>9. QED
      BY <1>6, <2>5, <2>7, <2>8 DEF left, rows
  <1>7. QED
    BY <1>5, <1>6

LEMMA Empties == <<>> \in Questions /\ Dense(<<>>) /\ DOMAIN <<>> = {} /\ ListOf(<<>>) = <<>>
  <1>1. DOMAIN <<>> = {}
    OBVIOUS
  <1>2. <<>> \in [{} -> Question]
    OBVIOUS
  <1>3. Cardinality({}) = 0 /\ IsFiniteSet({})
    BY FS_EmptySet
  <1>4. Dense(<<>>)
    BY <1>1, <1>3 DEF Dense
  <1>5. ListOf(<<>>) = <<>>
    BY <1>1, <1>3 DEF ListOf
  <1>6. <<>> \in Questions
    BY <1>2 DEF Questions
  <1>7. QED
    BY <1>1, <1>4, <1>5, <1>6

-----------------------------------------------------------------------------
(* Types and positions.                                                    *)

LEMMA InitNumbered == Init => Numbered
  <1> SUFFICES ASSUME Init
               PROVE  Numbered
    OBVIOUS
  <1>1. questions \in Questions /\ DOMAIN questions = {} /\ Dense(questions)
    BY Empties DEF Init
  <1>2. versions \in Seq(Range(versions))
    BY EmptySeq DEF Init
  <1>3. Typed
    BY <1>1, <1>2 DEF Init, Typed, Resting, Idle, Ops
  <1>4. PositionsDense /\ PositionsDistinct
    BY <1>1 DEF Dense, PositionsDense, PositionsDistinct
  <1>5. QED
    BY <1>3, <1>4 DEF Numbered

\* The requests and the locks keep their types when a request begins or ends.
LEMMA CallTypes ==
  ASSUME Typed, NEW c \in Callers
  PROVE  /\ Ends(c) => call' \in [Callers -> {Idle} \cup [op : Ops, on : Imports \cup Nat \cup {Nobody}]]
         /\ Frees(c) => holder' \in [Imports \cup {"quiz"} -> Callers \cup {Nobody}]
         /\ \A op \in Ops : \A x \in Imports \cup Nat \cup {Nobody} :
              Begins(c, op, x) => call' \in [Callers -> {Idle} \cup [op : Ops, on : Imports \cup Nat \cup {Nobody}]]
  <1> DEFINE Call == {Idle} \cup [op : Ops, on : Imports \cup Nat \cup {Nobody}]
  <1>1. call \in [Callers -> Call] /\ holder \in [Imports \cup {"quiz"} -> Callers \cup {Nobody}]
    BY DEF Typed
  <1>2. Idle \in Call
    BY DEF Idle
  <1>3. \A op \in Ops : \A x \in Imports \cup Nat \cup {Nobody} : [op |-> op, on |-> x] \in Call
    OBVIOUS
  <1> HIDE DEF Call
  <1>4. Ends(c) => call' \in [Callers -> Call]
    BY <1>1, <1>2 DEF Ends
  <1>5. Frees(c) => holder' \in [Imports \cup {"quiz"} -> Callers \cup {Nobody}]
    BY <1>1 DEF Frees
  <1>6. \A op \in Ops : \A x \in Imports \cup Nat \cup {Nobody} :
          Begins(c, op, x) => call' \in [Callers -> Call]
    BY <1>1, <1>3 DEF Begins
  <1>7. QED
    BY <1>4, <1>5, <1>6 DEF Call

\* What a longer sequence begins with.
LEMMA Initial ==
  ASSUME NEW S, NEW s \in Seq(S), NEW T, NEW t \in Seq(T), Len(s) <= Len(t),
         \A k \in 1 .. Len(s) : t[k] = s[k]
  PROVE  SubSeq(t, 1, Len(s)) = s
  <1> DEFINE n == Len(s)
             front == SubSeq(t, 1, n)
  <1>1. n \in Nat /\ \A k \in 1 .. n : t[k] \in S
    BY LenProperties, ElementOfSeq
  <1> HIDE DEF n
  <1>2. /\ front \in Seq(S)
        /\ Len(front) = IF 1 <= n THEN n - 1 + 1 ELSE 0
        /\ \A k \in 1 .. n - 1 + 1 : front[k] = t[1 + k - 1]
    BY <1>1, SubSeqProperties
  <1> HIDE DEF front
  <1>3. Len(front) = n /\ \A k \in 1 .. n : front[k] = t[k]
    BY <1>1, <1>2
  <1> USE DEF n
  <1>4. front = s
    BY <1>2, <1>3, SeqEqual
  <1>5. QED
    BY <1>4 DEF front

\* What a publish appends is a version.
LEMMA Published ==
  ASSUME Typed, versions' = Append(versions, Snapshot)
  PROVE  /\ versions' \in Seq(Range(versions'))
         /\ Len(versions') = Len(versions) + 1 /\ versions' # <<>>
         /\ Last(versions') = Snapshot
         /\ Front(versions') = versions
  <1> DEFINE S == Range(versions) \cup {Snapshot}
  <1>1. versions \in Seq(S) /\ Snapshot \in S
    BY SeqMonotonic DEF Typed
  <1> HIDE DEF S
  <1>2. /\ versions' \in Seq(S) /\ versions' # <<>> /\ Len(versions') = Len(versions) + 1
        /\ \A k \in 1 .. Len(versions) : versions'[k] = versions[k]
        /\ versions'[Len(versions) + 1] = Snapshot
    BY <1>1, AppendProperties
  <1>3. versions' \in Seq(Range(versions'))
    BY <1>2, SeqOfRange
  <1>4. Last(versions') = Snapshot
    BY <1>2 DEF Last
  <1>5. Len(versions) \in Nat
    BY <1>1, LenProperties
  <1>6. Front(versions') = versions
    <2>1. Front(versions') = SubSeq(versions', 1, Len(versions))
      BY <1>2, <1>5 DEF Front
    <2>2. QED
      BY <1>1, <1>2, <1>5, <2>1, Initial
  <1>7. QED
    BY <1>2, <1>3, <1>4, <1>6

\* The rows keep numbers, whatever step is taken.
LEMMA QuestionsStep ==
  ASSUME Numbered, LocksHold, [Next]_vars
  PROVE  questions' \in Questions /\ Dense(questions') /\ born' \in Nat /\ DOMAIN questions' \subseteq 1 .. born'
  <1> DEFINE Good == questions' \in Questions /\ Dense(questions') /\ born' \in Nat
                       /\ DOMAIN questions' \subseteq 1 .. born'
  <1>0. questions \in Questions /\ Dense(questions) /\ born \in Nat /\ DOMAIN questions \subseteq 1 .. born
    BY AreDense DEF Numbered, Typed, PositionsDistinct
  <1>1. CASE UNCHANGED <<questions, born>>
    BY <1>0, <1>1
  <1>2. CASE AddQuestion
    <2>1. PICK k \in Contents : questions' = With(Inserted(LastPosition, <<k>>, Nobody)) /\ born' = born + 1
      BY <1>2 DEF AddQuestion
    <2>2. <<k>> \in Seq(Contents) /\ Len(<<k>>) = 1
      OBVIOUS
    <2>3. QED
      BY <2>1, <2>2, Adds
  <1>3. CASE ReorderQuestions
    <2>1. PICK ids \in SeqOf(1 .. born, Cardinality(DOMAIN questions)) :
            /\ Reorderable(ids)
            /\ questions' = [q \in DOMAIN questions |->
                 IF q \in Range(ids)
                 THEN [questions[q] EXCEPT !.position = CHOOSE k \in DOMAIN ids : ids[k] = q]
                 ELSE questions[q]]
      BY <1>3 DEF ReorderQuestions
    <2>2. born' = born
      BY <1>3 DEF ReorderQuestions
    <2>3. QED
      BY <1>0, <2>1, <2>2, Reorders
  <1>4. ASSUME NEW c \in Callers, UpdateQuestion(c)
        PROVE  Good
    <2>1. PICK k \in Contents : questions' = [questions EXCEPT ![call[c].on].content = k]
      BY <1>4 DEF UpdateQuestion
    <2>2. call[c].on \in DOMAIN questions /\ born' = born
      BY <1>4 DEF UpdateQuestion
    <2>3. QED
      BY <1>0, <2>1, <2>2, Edited
  <1>5. ASSUME NEW c \in Callers, DeleteQuestion(c)
        PROVE  Good
    <2>1. questions' = Densified(DOMAIN questions \ {call[c].on}) /\ born' = born
      BY <1>5 DEF DeleteQuestion
    <2>2. questions' \in Questions /\ Dense(questions') /\ DOMAIN questions' \subseteq DOMAIN questions
      BY <2>1, Deletes
    <2>3. QED
      BY <1>0, <2>1, <2>2
  <1>6. ASSUME NEW c \in Callers, DeleteQuiz(c)
        PROVE  Good
    <2>1. questions' = <<>> /\ born' = born
      BY <1>6 DEF DeleteQuiz
    <2>2. QED
      BY <1>0, <2>1, Empties
  <1>7. ASSUME NEW c \in Callers, CommitImport(c)
        PROVE  Good
    <2> DEFINE i == call[c].on
    <2>1. i \in Imports
      BY <1>7 DEF CommitImport, LocksHold, Commits
    <2>2. Rows[i] \in Seq(Contents)
      BY <1>7, <2>1, AuthoringAssumption DEF CommitImport, Commits
    <2>3. questions' = With(Inserted(LastPosition, Rows[i], i)) /\ born' = born + Len(Rows[i])
      BY <1>7 DEF CommitImport
    <2> HIDE DEF i
    <2>4. QED
      BY <2>1, <2>2, <2>3, Adds
  <1>8. UpdateQuiz \/ RegisterImport \/ Publish \/ Cancel \/ WindowOpens \/ Begin
          => UNCHANGED <<questions, born>>
    BY DEF UpdateQuiz, RegisterImport, Publish, Cancel, WindowOpens, Begin
  <1>9. (\E c \in Callers : Start(c) \/ Refused(c) \/ Fails(c)) => UNCHANGED <<questions, born>>
    BY DEF Start, FindQuestion, LockForDelete, LockForCommit, Refused, Fails, tables
  <1>10. BreakDeadlock \/ (\E w \in Workers : Work(w) \/ Crash(w)) \/ UNCHANGED vars
           => UNCHANGED <<questions, born>>
    BY DEF BreakDeadlock, Work, TakeJob, ValidateImport, CompleteJob, Crash, tables, vars
  <1>11. QED
    BY <1>1, <1>2, <1>3, <1>4, <1>5, <1>6, <1>7, <1>8, <1>9, <1>10 DEF Next, Teacher, Proceed

LEMMA TypedStep ==
  ASSUME Numbered, LocksHold, [Next]_vars
  PROVE  Typed'
  <1>1. questions' \in Questions /\ born' \in Nat
    BY QuestionsStep
  <1> DEFINE Statuses == {"none", "validating", "ready", "failed", "committed", "gone"}
             Jobs == {"none", "available", "running", "done"}
             Run == {Resting} \cup [at : {"parsing", "written"}, import : Imports]
             Call == {Idle} \cup [op : Ops, on : Imports \cup Nat \cup {Nobody}]
             Holders == [Imports \cup {"quiz"} -> Callers \cup {Nobody}]
             QuizRow == [status : {"draft", "scheduled", "opened", "begun", "gone"}, default : Defaults]
             Rest == quiz' \in QuizRow /\ versions' \in Seq(Range(versions')) /\ imports' \in [Imports -> Statuses]
                       /\ job' \in [Imports -> Jobs] /\ run' \in [Workers -> Run]
                       /\ call' \in [Callers -> Call] /\ holder' \in Holders
  <1>2. Typed
    BY DEF Numbered
  <1>3. quiz \in QuizRow /\ versions \in Seq(Range(versions)) /\ imports \in [Imports -> Statuses]
          /\ job \in [Imports -> Jobs] /\ run \in [Workers -> Run]
          /\ call \in [Callers -> Call] /\ holder \in Holders
    BY <1>2 DEF Typed
  <1>4. SUFFICES Rest
    BY <1>1 DEF Typed
  <1>5. ASSUME NEW c \in Callers
        PROVE  /\ Ends(c) => call' \in [Callers -> Call]
               /\ Frees(c) => holder' \in Holders
               /\ \A op \in Ops : \A x \in Imports \cup Nat \cup {Nobody} :
                    Begins(c, op, x) => call' \in [Callers -> Call]
    BY <1>2, CallTypes
  <1> HIDE DEF Call, Holders, Run
  <1>6. CASE UNCHANGED <<quiz, versions, imports, job, run, call, holder>>
    BY <1>3, <1>6
  <1>7. CASE AddQuestion \/ ReorderQuestions
    BY <1>6, <1>7 DEF AddQuestion, ReorderQuestions
  <1>8. CASE UpdateQuiz \/ Cancel \/ WindowOpens \/ Begin
    <2>1. UNCHANGED <<versions, imports, job, run, call, holder>>
      BY <1>8 DEF UpdateQuiz, Cancel, WindowOpens, Begin
    <2>2. quiz' \in QuizRow
      BY <1>3, <1>8 DEF UpdateQuiz, Cancel, WindowOpens, Begin
    <2>3. QED
      BY <1>3, <2>1, <2>2
  <1>9. CASE RegisterImport
    <2>1. UNCHANGED <<quiz, versions, run, call, holder>>
      BY <1>9 DEF RegisterImport
    <2>2. imports' \in [Imports -> Statuses] /\ job' \in [Imports -> Jobs]
      BY <1>3, <1>9 DEF RegisterImport, Queued
    <2>3. QED
      BY <1>3, <2>1, <2>2
  <1>10. CASE Publish
    <2>1. UNCHANGED <<imports, job, run, call, holder>>
      BY <1>10 DEF Publish
    <2>2. quiz' \in QuizRow
      BY <1>3, <1>10 DEF Publish
    <2>3. versions' \in Seq(Range(versions'))
      BY <1>2, <1>10, Published DEF Publish
    <2>4. QED
      BY <1>3, <2>1, <2>2, <2>3
  <1>11. ASSUME NEW c \in Callers, FindQuestion(c)
         PROVE  Rest
    <2>1. PICK q \in DOMAIN questions : Begins(c, "question", q)
      BY <1>11 DEF FindQuestion
    <2>2. q \in Nat /\ "question" \in Ops
      BY <1>2, RowType DEF Typed, Ops
    <2>3. call' \in [Callers -> Call]
      BY <1>5, <2>1, <2>2
    <2>4. QED
      BY <1>3, <1>11, <2>3 DEF FindQuestion, tables
  <1>12. ASSUME NEW c \in Callers, LockForDelete(c)
         PROVE  Rest
    <2>1. call' \in [Callers -> Call]
      BY <1>5, <1>12 DEF LockForDelete, Ops
    <2>2. holder' \in Holders
      BY <1>3, <1>12 DEF LockForDelete, Holders
    <2>3. QED
      BY <1>3, <1>12, <2>1, <2>2 DEF LockForDelete, tables
  <1>13. ASSUME NEW c \in Callers, LockForCommit(c)
         PROVE  Rest
    <2>1. PICK i \in Imports, op \in {"commit", "refusal"} : Begins(c, op, i) /\ LocksImport(c, i)
      BY <1>13 DEF LockForCommit
    <2>2. call' \in [Callers -> Call]
      BY <1>5, <2>1 DEF Ops
    <2>3. holder' \in Holders
      BY <1>3, <2>1 DEF LocksImport, Holders
    <2>4. QED
      BY <1>3, <1>13, <2>2, <2>3 DEF LockForCommit, tables
  <1>14. ASSUME NEW c \in Callers, Refused(c) \/ Fails(c)
         PROVE  Rest
    <2>1. Ends(c) /\ Frees(c) /\ UNCHANGED <<tables, job, run>>
      BY <1>14 DEF Refused, Fails
    <2>2. QED
      BY <1>3, <1>5, <2>1 DEF tables
  <1>15. ASSUME NEW c \in Callers, UpdateQuestion(c) \/ DeleteQuestion(c)
         PROVE  Rest
    <2>1. Ends(c) /\ UNCHANGED <<quiz, versions, imports, job, run, holder>>
      BY <1>15 DEF UpdateQuestion, DeleteQuestion
    <2>2. QED
      BY <1>3, <1>5, <2>1
  <1>16. ASSUME NEW c \in Callers, DeleteQuiz(c)
         PROVE  Rest
    <2>1. Ends(c) /\ Frees(c) /\ UNCHANGED <<versions, job, run>>
      BY <1>16 DEF DeleteQuiz
    <2>2. quiz' \in QuizRow /\ imports' \in [Imports -> Statuses]
      BY <1>3, <1>16 DEF DeleteQuiz
    <2>3. QED
      BY <1>3, <1>5, <2>1, <2>2
  <1>17. ASSUME NEW c \in Callers, CommitImport(c)
         PROVE  Rest
    <2>1. Ends(c) /\ Frees(c) /\ UNCHANGED <<quiz, versions, job, run>>
      BY <1>17 DEF CommitImport
    <2>2. imports' = [imports EXCEPT ![call[c].on] = "committed"]
      BY <1>17 DEF CommitImport
    <2>3. imports' \in [Imports -> Statuses]
      BY <1>3, <2>2
    <2>4. QED
      BY <1>3, <1>5, <2>1, <2>3
  <1>18. CASE BreakDeadlock
    <2>1. PICK c \in Callers, d \in Callers : \E victim \in {c, d} : Ends(victim) /\ Frees(victim)
      BY <1>18 DEF BreakDeadlock
    <2>2. PICK victim \in {c, d} : Ends(victim) /\ Frees(victim)
      BY <2>1
    <2>3. UNCHANGED <<tables, job, run>>
      BY <1>18 DEF BreakDeadlock
    <2>4. QED
      BY <1>3, <1>5, <2>2, <2>3 DEF tables
  <1>19. ASSUME NEW w \in Workers, TakeJob(w)
         PROVE  Rest
    <2>1. PICK i \in Imports :
            /\ job' = [job EXCEPT ![i] = IF NeedsRun(i) THEN "running" ELSE "done"]
            /\ run' = [run EXCEPT ![w] = IF NeedsRun(i) THEN [at |-> "parsing", import |-> i] ELSE Resting]
      BY <1>19 DEF TakeJob
    <2>2. job' \in [Imports -> Jobs] /\ run' \in [Workers -> Run]
      BY <1>3, <2>1 DEF Resting, Run
    <2>3. QED
      BY <1>3, <1>19, <2>2 DEF TakeJob, tables
  <1>20. ASSUME NEW w \in Workers, ValidateImport(w)
         PROVE  Rest
    <2> DEFINE i == run[w].import
    <2>1. PICK o \in Outcomes(i) : imports' = [imports EXCEPT ![i] = IF @ = "gone" THEN "gone" ELSE o]
      BY <1>20 DEF ValidateImport
    <2>2. imports' \in [Imports -> Statuses]
      BY <1>3, <2>1 DEF Outcomes
    <2>3. run' = [run EXCEPT ![w].at = "written"]
      BY <1>20 DEF ValidateImport
    <2>4. run' \in [Workers -> Run]
      <3>1. run[w] \in Run /\ run[w].at = "parsing"
        BY <1>3, <1>20 DEF ValidateImport
      <3>2. [run[w] EXCEPT !.at = "written"] \in Run
        BY <3>1 DEF Run, Resting
      <3>3. QED
        BY <1>3, <2>3, <3>2
    <2>5. QED
      BY <1>3, <1>20, <2>2, <2>4 DEF ValidateImport
  <1>21. ASSUME NEW w \in Workers, CompleteJob(w) \/ Crash(w)
         PROVE  Rest
    <2>1. run' = [run EXCEPT ![w] = Resting] /\ UNCHANGED <<tables, call, holder>>
      BY <1>21 DEF CompleteJob, Crash
    <2>2. job' = [job EXCEPT ![run[w].import] = "done"] \/ job' = [job EXCEPT ![run[w].import] = "available"]
      BY <1>21 DEF CompleteJob, Crash
    <2>3. job' \in [Imports -> Jobs] /\ run' \in [Workers -> Run]
      BY <1>3, <2>1, <2>2 DEF Resting, Run
    <2>4. QED
      BY <1>3, <2>1, <2>3 DEF tables
  <1>22. CASE UNCHANGED vars
    BY <1>6, <1>22 DEF vars, tables
  <1>23. QED
    BY <1>7, <1>8, <1>9, <1>10, <1>11, <1>12, <1>13, <1>14, <1>15, <1>16, <1>17, <1>18, <1>19, <1>20,
       <1>21, <1>22 DEF Next, Teacher, Start, Proceed, Work

LEMMA NumberedStep ==
  ASSUME Numbered, LocksHold, [Next]_vars
  PROVE  Numbered'
  <1>1. Dense(questions') /\ DOMAIN questions' \subseteq 1 .. born'
    BY QuestionsStep
  <1>2. PositionsDense' /\ PositionsDistinct'
    BY <1>1 DEF Dense, PositionsDense, PositionsDistinct
  <1>3. QED
    BY <1>2, TypedStep DEF Numbered

-----------------------------------------------------------------------------
(* What a request has locked.                                              *)

\* The requests and locks after a request has ended.
LEMMA Ended ==
  ASSUME Typed, NEW c \in Callers, Ends(c), NEW d \in Callers
  PROVE  call'[d] = IF d = c THEN Idle ELSE call[d]
  BY DEF Typed, Ends

LEMMA Freed ==
  ASSUME Typed, NEW c \in Callers, Frees(c), NEW r \in Imports \cup {"quiz"}, holder[r] # c
  PROVE  holder'[r] = holder[r]
  BY DEF Typed, Frees

\* The lock of the quiz row keeps every other transaction off the quiz.
LEMMA NoCascade ==
  ASSUME LocksHold, Free("quiz") \/ quiz.status # "draft", NEW c \in Callers
  PROVE  call[c].op # "cascade"
  BY AuthoringAssumption DEF LocksHold, Free

\* A request holds what it holds while another one ends.
LEMMA OthersHold ==
  ASSUME Typed, LocksHold, NEW c \in Callers, Ends(c), Frees(c) \/ UNCHANGED holder,
         UNCHANGED <<quiz, versions, imports>>
  PROVE  LocksHold'
  <1> SUFFICES ASSUME NEW d \in Callers
               PROVE  /\ call'[d].op = "commit" =>
                           call'[d].on \in Imports /\ holder'[call'[d].on] = d /\ imports'[call'[d].on] = "ready"
                      /\ call'[d].op = "cascade" =>
                           holder'["quiz"] = d /\ quiz'.status = "draft" /\ versions' = <<>>
    BY DEF LocksHold
  <1>1. CASE d = c
    BY <1>1, Ended DEF Idle
  <1>2. CASE d # c
    <2>1. call'[d] = call[d]
      BY <1>2, Ended
    <2>2. \A r \in Imports \cup {"quiz"} : holder[r] = d => holder'[r] = d
      BY <1>2, Freed
    <2>3. QED
      BY <2>1, <2>2 DEF LocksHold
  <1>3. QED
    BY <1>1, <1>2

LEMMA LocksStep ==
  ASSUME Typed, LocksHold, [Next]_vars
  PROVE  LocksHold'
  <1>1. CASE UNCHANGED <<quiz, versions, imports, call, holder>>
    BY <1>1 DEF LocksHold
  <1>2. CASE AddQuestion \/ ReorderQuestions \/ UNCHANGED vars
    BY <1>1, <1>2 DEF AddQuestion, ReorderQuestions, vars, tables
  <1>3. CASE UpdateQuiz \/ Publish \/ Cancel \/ WindowOpens \/ Begin
    <2>1. UNCHANGED <<imports, call, holder>>
      BY <1>3 DEF UpdateQuiz, Publish, Cancel, WindowOpens, Begin
    <2>2. Free("quiz") \/ quiz.status # "draft"
      BY <1>3 DEF UpdateQuiz, DraftForUpdate, Publish, Cancel, WindowOpens, Begin
    <2>3. \A c \in Callers : call[c].op # "cascade"
      BY <2>2, NoCascade
    <2>4. QED
      BY <2>1, <2>3 DEF LocksHold
  <1>4. CASE RegisterImport
    <2>1. PICK i \in Imports : imports[i] = "none" /\ imports' = [imports EXCEPT ![i] = "validating"]
      BY <1>4 DEF RegisterImport
    <2>2. \A j \in Imports : imports[j] = "ready" => imports'[j] = "ready"
      BY <2>1 DEF Typed
    <2>3. UNCHANGED <<quiz, versions, call, holder>>
      BY <1>4 DEF RegisterImport
    <2>4. QED
      BY <2>2, <2>3 DEF LocksHold
  <1>5. ASSUME NEW c \in Callers, FindQuestion(c)
        PROVE  LocksHold'
    <2>1. PICK q \in DOMAIN questions : Begins(c, "question", q)
      BY <1>5 DEF FindQuestion
    <2>2. \A d \in Callers : call'[d] = IF d = c THEN [op |-> "question", on |-> q] ELSE call[d]
      BY <2>1 DEF Begins, Typed
    <2>3. UNCHANGED <<quiz, versions, imports, holder>>
      BY <1>5 DEF FindQuestion, tables
    <2>4. QED
      BY <2>2, <2>3 DEF LocksHold
  <1>6. ASSUME NEW c \in Callers, LockForDelete(c)
        PROVE  LocksHold'
    <2>1. \A d \in Callers : call'[d] = IF d = c THEN [op |-> "cascade", on |-> Nobody] ELSE call[d]
      BY <1>6 DEF LockForDelete, Begins, Typed
    <2>2. \A r \in Imports \cup {"quiz"} : holder'[r] = IF r = "quiz" THEN c ELSE holder[r]
      BY <1>6 DEF LockForDelete, Typed
    <2>3. Free("quiz") /\ quiz.status = "draft" /\ versions = <<>> /\ UNCHANGED <<quiz, versions, imports>>
      BY <1>6 DEF LockForDelete, Deletable, DraftForUpdate, tables
    <2>4. \A d \in Callers : call[d].op # "cascade"
      BY <2>3, NoCascade
    <2>5. QED
      BY <2>1, <2>2, <2>3, <2>4, AuthoringAssumption DEF LocksHold
  <1>7. ASSUME NEW c \in Callers, LockForCommit(c)
        PROVE  LocksHold'
    <2>1. PICK i \in Imports, op \in {"commit", "refusal"} :
            (op = "commit" => imports[i] = "ready") /\ Free(i) /\ Begins(c, op, i) /\ LocksImport(c, i)
      BY <1>7 DEF LockForCommit
    <2>2. \A d \in Callers : call'[d] = IF d = c THEN [op |-> op, on |-> i] ELSE call[d]
      BY <2>1 DEF Begins, Typed
    <2>3. \A r \in Imports \cup {"quiz"} : holder'[r] = IF r = i THEN c ELSE holder[r]
      BY <2>1 DEF LocksImport, Typed
    <2>4. UNCHANGED <<quiz, versions, imports>>
      BY <1>7 DEF LockForCommit, tables
    <2>5. \A d \in Callers : holder[i] # d
      BY <2>1, AuthoringAssumption DEF Free
    <2>6. QED
      BY <2>1, <2>2, <2>3, <2>4, <2>5, AuthoringAssumption DEF LocksHold
  <1>8. ASSUME NEW c \in Callers, Refused(c) \/ Fails(c) \/ UpdateQuestion(c) \/ DeleteQuestion(c)
        PROVE  LocksHold'
    <2>1. Ends(c) /\ (Frees(c) \/ UNCHANGED holder) /\ UNCHANGED <<quiz, versions, imports>>
      BY <1>8 DEF Refused, Fails, UpdateQuestion, DeleteQuestion, tables
    <2>2. QED
      BY <2>1, OthersHold
  <1>9. ASSUME NEW c \in Callers, DeleteQuiz(c)
        PROVE  LocksHold'
    <2>1. call[c].op = "cascade" /\ Ends(c) /\ \A i \in Imports : Free(i)
      BY <1>9 DEF DeleteQuiz, Cascades
    <2>2. \A d \in Callers : d # c => call[d].op # "cascade" /\ call[d].op # "commit"
      BY <2>1, AuthoringAssumption DEF LocksHold, Free
    <2>3. \A d \in Callers : call'[d].op # "cascade" /\ call'[d].op # "commit"
      BY <2>1, <2>2, Ended DEF Idle
    <2>4. QED
      BY <2>3 DEF LocksHold
  <1>10. ASSUME NEW c \in Callers, CommitImport(c)
         PROVE  LocksHold'
    <2> DEFINE i == call[c].on
    <2>1. call[c].op = "commit" /\ Free("quiz") /\ Ends(c) /\ Frees(c)
      BY <1>10 DEF CommitImport, DraftForUpdate, Commits
    <2>2. i \in Imports /\ holder[i] = c
      BY <2>1 DEF LocksHold
    <2>3. imports' = [imports EXCEPT ![i] = "committed"]
      BY <1>10 DEF CommitImport
    <2>4. \A d \in Callers : call[d].op # "cascade"
      BY <2>1, NoCascade
    <2>5. ASSUME NEW d \in Callers
          PROVE  /\ call'[d].op = "commit" =>
                      call'[d].on \in Imports /\ holder'[call'[d].on] = d /\ imports'[call'[d].on] = "ready"
                 /\ call'[d].op # "cascade"
      <3>1. CASE d = c
        BY <2>1, <3>1, Ended DEF Idle
      <3>2. CASE d # c
        <4>1. call'[d] = call[d]
          BY <2>1, <3>2, Ended
        <4>2. ASSUME call[d].op = "commit"
              PROVE  call[d].on \in Imports /\ holder'[call[d].on] = d /\ imports'[call[d].on] = "ready"
          <5>1. call[d].on \in Imports /\ holder[call[d].on] = d /\ imports[call[d].on] = "ready"
            BY <4>2 DEF LocksHold
          <5>2. call[d].on # i
            BY <2>2, <3>2, <5>1
          <5>3. holder'[call[d].on] = d
            BY <2>1, <3>2, <5>1, Freed
          <5> HIDE DEF i
          <5>4. imports'[call[d].on] = "ready"
            BY <2>3, <5>1, <5>2 DEF Typed
          <5>5. QED
            BY <5>1, <5>3, <5>4
        <4>3. QED
          BY <2>4, <4>1, <4>2
      <3>3. QED
        BY <3>1, <3>2
    <2>6. QED
      BY <2>5 DEF LocksHold
  <1>11. CASE BreakDeadlock
    <2>1. PICK c \in Callers, d \in Callers : \E victim \in {c, d} : Ends(victim) /\ Frees(victim)
      BY <1>11 DEF BreakDeadlock
    <2>2. PICK victim \in {c, d} : Ends(victim) /\ Frees(victim)
      BY <2>1
    <2>3. UNCHANGED <<quiz, versions, imports>>
      BY <1>11 DEF BreakDeadlock, tables
    <2>4. QED
      BY <2>2, <2>3, OthersHold
  <1>12. ASSUME NEW w \in Workers, TakeJob(w) \/ CompleteJob(w) \/ Crash(w)
         PROVE  LocksHold'
    BY <1>1, <1>12 DEF TakeJob, CompleteJob, Crash, tables
  <1>13. ASSUME NEW w \in Workers, ValidateImport(w)
         PROVE  LocksHold'
    <2> DEFINE i == run[w].import
    <2>1. PICK o \in Outcomes(i) : imports' = [imports EXCEPT ![i] = IF @ = "gone" THEN "gone" ELSE o]
      BY <1>13 DEF ValidateImport
    <2>2. Free(i) /\ UNCHANGED <<quiz, versions, call, holder>>
      BY <1>13 DEF ValidateImport
    <2>3. \A j \in Imports : j # i => imports'[j] = imports[j]
      BY <2>1 DEF Typed
    <2> HIDE DEF i
    <2>4. \A d \in Callers : call[d].op = "commit" => call[d].on # i
      BY <2>2, AuthoringAssumption DEF LocksHold, Free
    <2>5. QED
      BY <2>2, <2>3, <2>4 DEF LocksHold
  <1>14. QED
    BY <1>2, <1>3, <1>4, <1>5, <1>6, <1>7, <1>8, <1>9, <1>10, <1>11, <1>12, <1>13
    DEF Next, Teacher, Start, Proceed, Work

\* A request that holds a lock is a commit, one to be refused included, or a cascade.
LEMMA HoldersAreAtWork ==
  ASSUME LocksAreHeld, NEW r \in Imports \cup {"quiz"}, holder[r] # Nobody
  PROVE  call[holder[r]].op \in {"commit", "refusal", "cascade"}
  <1>1. CASE r = "quiz"
    BY <1>1 DEF LocksAreHeld
  <1>2. CASE r \in Imports
    BY <1>2 DEF LocksAreHeld
  <1>3. QED
    BY <1>1, <1>2

\* The locks and their holders while one request ends.
LEMMA OthersAreHeld ==
  ASSUME Typed, LocksAreHeld, NEW c \in Callers, Ends(c),
         Frees(c) \/ (call[c].op = "question" /\ UNCHANGED holder)
  PROVE  LocksAreHeld'
  <1>1. ASSUME NEW r \in Imports \cup {"quiz"}, holder'[r] # Nobody
        PROVE  holder'[r] = holder[r] /\ holder[r] \in Callers /\ call'[holder[r]] = call[holder[r]]
    <2>1. CASE Frees(c)
      <3>1. holder[r] # c
        BY <1>1, <2>1 DEF Typed, Frees
      <3>2. holder'[r] = holder[r]
        BY <2>1, <3>1, Freed
      <3>3. holder[r] \in Callers
        BY <1>1, <3>2 DEF Typed
      <3>4. QED
        BY <3>1, <3>2, <3>3, Ended
    <2>2. CASE call[c].op = "question" /\ UNCHANGED holder
      <3>1. holder'[r] = holder[r] /\ holder[r] \in Callers
        BY <1>1, <2>2 DEF Typed
      <3>2. call[holder[r]].op # "question"
        BY <1>1, <3>1, HoldersAreAtWork
      <3>3. QED
        BY <2>2, <3>1, <3>2, Ended
    <2>3. QED
      BY <2>1, <2>2
  <1>2. QED
    BY <1>1 DEF LocksAreHeld

\* Who begins holds what it locks and changes nothing of the others.
LEMMA BeginnersHold ==
  ASSUME Typed, LocksAreHeld, NEW c \in Callers, NEW op, NEW x, Begins(c, op, x)
  PROVE  /\ \A d \in Callers : call'[d] = IF d = c THEN [op |-> op, on |-> x] ELSE call[d]
         /\ \A r \in Imports \cup {"quiz"} : holder[r] # Nobody => holder[r] \in Callers \ {c}
  <1>1. call[c] = Idle /\ \A d \in Callers : call'[d] = IF d = c THEN [op |-> op, on |-> x] ELSE call[d]
    BY DEF Begins, Typed
  <1>2. ASSUME NEW r \in Imports \cup {"quiz"}, holder[r] # Nobody
        PROVE  holder[r] \in Callers \ {c}
    <2>1. holder[r] \in Callers
      BY <1>2 DEF Typed
    <2>2. call[holder[r]].op # "idle"
      BY <1>2, HoldersAreAtWork
    <2>3. QED
      BY <1>1, <2>1, <2>2 DEF Idle
  <1>3. QED
    BY <1>1, <1>2

LEMMA HeldStep ==
  ASSUME Typed, LocksAreHeld, [Next]_vars
  PROVE  LocksAreHeld'
  <1>1. CASE UNCHANGED <<call, holder>>
    BY <1>1 DEF LocksAreHeld
  <1>2. Teacher \/ WindowOpens \/ Begin \/ (\E w \in Workers : Work(w) \/ Crash(w)) \/ UNCHANGED vars
          => UNCHANGED <<call, holder>>
    BY DEF Teacher, AddQuestion, ReorderQuestions, UpdateQuiz, RegisterImport, Publish, Cancel,
           WindowOpens, Begin, Work, TakeJob, ValidateImport, CompleteJob, Crash, vars
  <1>3. ASSUME NEW c \in Callers, FindQuestion(c)
        PROVE  LocksAreHeld'
    <2>1. PICK q \in DOMAIN questions : Begins(c, "question", q)
      BY <1>3 DEF FindQuestion
    <2>2. UNCHANGED holder
      BY <1>3 DEF FindQuestion
    <2>3. \A r \in Imports \cup {"quiz"} : holder'[r] # Nobody =>
            holder'[r] = holder[r] /\ call'[holder[r]] = call[holder[r]]
      BY <2>1, <2>2, BeginnersHold
    <2>4. QED
      BY <2>3 DEF LocksAreHeld
  <1>4. ASSUME NEW c \in Callers, LockForDelete(c)
        PROVE  LocksAreHeld'
    <2>1. Begins(c, "cascade", Nobody) /\ \A r \in Imports \cup {"quiz"} : holder'[r] = IF r = "quiz" THEN c ELSE holder[r]
      BY <1>4 DEF LockForDelete, Typed
    <2>2. \A r \in Imports : holder'[r] # Nobody =>
            holder'[r] = holder[r] /\ call'[holder[r]] = call[holder[r]]
      BY <2>1, BeginnersHold, AuthoringAssumption
    <2>3. holder'["quiz"] = c /\ call'[c] = [op |-> "cascade", on |-> Nobody]
      BY <2>1, BeginnersHold
    <2>4. call'[c].op = "cascade"
      BY <2>3
    <2>5. QED
      BY <2>2, <2>3, <2>4 DEF LocksAreHeld
  <1>5. ASSUME NEW c \in Callers, LockForCommit(c)
        PROVE  LocksAreHeld'
    <2>1. PICK i \in Imports, op \in {"commit", "refusal"} : Begins(c, op, i) /\ LocksImport(c, i)
      BY <1>5 DEF LockForCommit
    <2>2. \A r \in Imports \cup {"quiz"} : holder'[r] = IF r = i THEN c ELSE holder[r]
      BY <2>1 DEF LocksImport, Typed
    <2>3. \A r \in Imports \cup {"quiz"} : r # i /\ holder'[r] # Nobody =>
            holder'[r] = holder[r] /\ call'[holder[r]] = call[holder[r]]
      BY <2>1, <2>2, BeginnersHold
    <2>4. holder'[i] = c /\ call'[c].op \in {"commit", "refusal"} /\ call'[c].on = i
      <3>1. holder'[i] = c
        BY <2>2
      <3>2. call'[c] = [op |-> op, on |-> i]
        BY <2>1, BeginnersHold
      <3>3. QED
        BY <3>1, <3>2
    <2>5. QED
      BY <2>3, <2>4, AuthoringAssumption DEF LocksAreHeld
  <1>6. ASSUME NEW c \in Callers, Proceed(c) \/ Fails(c)
        PROVE  LocksAreHeld'
    <2>1. Ends(c) /\ (Frees(c) \/ (call[c].op = "question" /\ UNCHANGED holder))
      BY <1>6 DEF Proceed, UpdateQuestion, DeleteQuestion, Edits, DeleteQuiz, CommitImport, Refused, Fails
    <2>2. QED
      BY <2>1, OthersAreHeld
  <1>7. CASE BreakDeadlock
    <2>1. PICK c \in Callers, d \in Callers : \E victim \in {c, d} : Ends(victim) /\ Frees(victim)
      BY <1>7 DEF BreakDeadlock
    <2>2. QED
      BY <2>1, OthersAreHeld
  <1>8. QED
    BY <1>1, <1>2, <1>3, <1>4, <1>5, <1>6, <1>7 DEF Next, Start

\* A file with row errors is never ready.
LEMMA ReadyStep ==
  ASSUME Typed, ReadyHasRows, [Next]_vars
  PROVE  ReadyHasRows'
  <1> SUFFICES ASSUME NEW j \in Imports, imports'[j] = "ready"
               PROVE  Rows[j] # BadFile
    BY DEF ReadyHasRows
  <1>1. CASE imports'[j] = imports[j]
    BY <1>1 DEF ReadyHasRows
  <1>2. CASE RegisterImport
    <2>1. PICK i \in Imports : imports' = [imports EXCEPT ![i] = "validating"]
      BY <1>2 DEF RegisterImport
    <2>2. QED
      BY <1>1, <2>1 DEF Typed
  <1>3. ASSUME NEW c \in Callers, DeleteQuiz(c) \/ CommitImport(c)
        PROVE  imports'[j] = imports[j]
    BY <1>3 DEF Typed, DeleteQuiz, CommitImport
  <1>4. ASSUME NEW w \in Workers, ValidateImport(w)
        PROVE  Rows[j] # BadFile
    <2> DEFINE i == run[w].import
    <2>1. PICK o \in Outcomes(i) : imports' = [imports EXCEPT ![i] = IF @ = "gone" THEN "gone" ELSE o]
      BY <1>4 DEF ValidateImport
    <2> HIDE DEF i
    <2>2. CASE j = i
      BY <2>1, <2>2 DEF Outcomes, Typed
    <2>3. CASE j # i
      BY <1>1, <2>1, <2>3 DEF Typed
    <2>4. QED
      BY <2>2, <2>3
  <1>5. AddQuestion \/ ReorderQuestions \/ UpdateQuiz \/ Publish \/ Cancel \/ WindowOpens \/ Begin
        \/ BreakDeadlock \/ UNCHANGED vars => UNCHANGED imports
    BY DEF AddQuestion, ReorderQuestions, UpdateQuiz, Publish, Cancel, WindowOpens, Begin, BreakDeadlock,
           vars, tables
  <1>6. ASSUME NEW c \in Callers, Start(c) \/ UpdateQuestion(c) \/ DeleteQuestion(c) \/ Refused(c) \/ Fails(c)
        PROVE  UNCHANGED imports
    BY <1>6 DEF Start, FindQuestion, LockForDelete, LockForCommit, UpdateQuestion, DeleteQuestion, Refused,
                Fails, tables
  <1>7. ASSUME NEW w \in Workers, TakeJob(w) \/ CompleteJob(w) \/ Crash(w)
        PROVE  UNCHANGED imports
    BY <1>7 DEF TakeJob, CompleteJob, Crash, tables
  <1>8. QED
    BY <1>1, <1>2, <1>3, <1>4, <1>5, <1>6, <1>7 DEF Next, Teacher, Proceed, Work

-----------------------------------------------------------------------------
(* Imports and their jobs.                                                 *)

LEMMA RunnerStep ==
  ASSUME Typed, LocksHold, OneRunner, [Next]_vars
  PROVE  OneRunner'
  <1>1. ASSUME UNCHANGED <<job, run>>,
               \A i \in Imports : (imports'[i] = "none" => imports[i] = "none")
                                    /\ (imports'[i] = "validating" => imports[i] = "validating")
                                    /\ (imports[i] \in {"validating", "gone"} => imports'[i] \in {"validating", "gone"})
        PROVE  OneRunner'
    BY <1>1 DEF OneRunner
  <1>2. ASSUME UNCHANGED <<imports, job, run>>
        PROVE  OneRunner'
    BY <1>2 DEF OneRunner
  <1>3. CASE AddQuestion \/ ReorderQuestions \/ UpdateQuiz \/ Publish \/ Cancel \/ WindowOpens \/ Begin
    BY <1>2, <1>3 DEF AddQuestion, ReorderQuestions, UpdateQuiz, Publish, Cancel, WindowOpens, Begin
  <1>4. CASE RegisterImport
    <2>1. PICK i \in Imports : /\ imports[i] = "none" /\ imports' = [imports EXCEPT ![i] = "validating"]
                               /\ job' = [job EXCEPT ![i] = "available"]
      BY <1>4 DEF RegisterImport, Queued
    <2>2. UNCHANGED run
      BY <1>4 DEF RegisterImport
    <2>3. job[i] = "none"
      BY <2>1 DEF OneRunner
    <2>4. \A w \in Workers : run[w].at # "rest" => run[w].import # i
      BY <2>3 DEF OneRunner
    <2>5. \A j \in Imports : j # i => imports'[j] = imports[j] /\ job'[j] = job[j]
      BY <2>1 DEF Typed
    <2>6. imports'[i] = "validating"
      BY <2>1 DEF Typed
    <2>7. QED
      BY <2>2, <2>4, <2>5, <2>6 DEF OneRunner
  <1>5. ASSUME NEW c \in Callers, Start(c) \/ Refused(c) \/ Fails(c) \/ UpdateQuestion(c) \/ DeleteQuestion(c)
        PROVE  OneRunner'
    BY <1>2, <1>5 DEF Start, FindQuestion, LockForDelete, LockForCommit, Refused, Fails, UpdateQuestion,
                      DeleteQuestion, tables
  <1>6. ASSUME NEW c \in Callers, DeleteQuiz(c)
        PROVE  OneRunner'
    <2>1. imports' = [i \in Imports |-> IF imports[i] = "none" THEN "none" ELSE "gone"]
      BY <1>6 DEF DeleteQuiz
    <2>2. UNCHANGED <<job, run>>
      BY <1>6 DEF DeleteQuiz
    <2>3. QED
      BY <1>1, <2>1, <2>2
  <1>7. ASSUME NEW c \in Callers, CommitImport(c)
        PROVE  OneRunner'
    <2>1. imports' = [imports EXCEPT ![call[c].on] = "committed"] /\ UNCHANGED <<job, run>>
      BY <1>7 DEF CommitImport
    <2>2. imports[call[c].on] = "ready"
      BY <1>7 DEF CommitImport, LocksHold, Commits
    <2>3. QED
      BY <1>1, <2>1, <2>2 DEF Typed
  <1>8. ASSUME NEW w \in Workers, TakeJob(w)
        PROVE  OneRunner'
    <2>1. PICK i \in Imports :
            /\ run[w] = Resting /\ job[i] = "available"
            /\ job' = [job EXCEPT ![i] = IF NeedsRun(i) THEN "running" ELSE "done"]
            /\ run' = [run EXCEPT ![w] = IF NeedsRun(i) THEN [at |-> "parsing", import |-> i] ELSE Resting]
      BY <1>8 DEF TakeJob
    <2>2. UNCHANGED imports
      BY <1>8 DEF TakeJob, tables
    <2>3. \A v \in Workers : run[v].at # "rest" => run[v].import # i
      BY <2>1 DEF OneRunner
    <2>4. \A j \in Imports : j # i => job'[j] = job[j]
      BY <2>1 DEF Typed
    <2>5. imports[i] # "none"
      BY <2>1 DEF OneRunner
    <2>6. \A v \in Workers : v # w => run'[v] = run[v]
      BY <2>1 DEF Typed
    <2>7. CASE NeedsRun(i)
      <3>1. run'[w] = [at |-> "parsing", import |-> i] /\ job'[i] = "running"
        BY <2>1, <2>7 DEF Typed
      <3>2. imports'[i] = "validating"
        BY <2>2, <2>7 DEF NeedsRun
      <3>3. ASSUME NEW v \in Workers, v # w, run'[v].at # "rest"
            PROVE  run'[v] = run[v] /\ run[v].import # i /\ job'[run[v].import] = job[run[v].import]
        <4>1. run'[v] = run[v] /\ run[v].at # "rest"
          BY <2>6, <3>3
        <4>2. run[v].import \in Imports /\ run[v].import # i
          BY <2>3, <4>1 DEF OneRunner
        <4>3. QED
          BY <2>4, <4>1, <4>2
      <3>4. \A j \in Imports : imports'[j] = "none" => job'[j] = "none"
        BY <2>2, <2>4, <2>5 DEF OneRunner
      <3>5. ASSUME NEW v \in Workers, run'[v].at # "rest"
            PROVE  /\ run'[v].import \in Imports /\ job'[run'[v].import] = "running"
                   /\ run'[v].at = "parsing" => imports'[run'[v].import] \in {"validating", "gone"}
                   /\ run'[v].at = "written" => imports'[run'[v].import] # "validating"
                   /\ \A u \in Workers : run'[u].at # "rest" /\ run'[u].import = run'[v].import => u = v
        <4>1. CASE v = w
          BY <3>1, <3>2, <3>3, <4>1
        <4>2. CASE v # w
          BY <2>2, <3>1, <3>3, <3>5, <4>2 DEF OneRunner
        <4>3. QED
          BY <4>1, <4>2
      <3>6. QED
        BY <3>4, <3>5 DEF OneRunner
    <2>8. CASE ~NeedsRun(i)
      <3>1. run'[w].at = "rest"
        BY <2>1, <2>8 DEF Typed, Resting
      <3>2. QED
        BY <2>2, <2>3, <2>4, <2>5, <2>6, <3>1 DEF OneRunner
    <2>9. QED
      BY <2>7, <2>8
  <1>9. ASSUME NEW w \in Workers, ValidateImport(w)
        PROVE  OneRunner'
    <2> DEFINE i == run[w].import
    <2>1. PICK o \in Outcomes(i) : imports' = [imports EXCEPT ![i] = IF @ = "gone" THEN "gone" ELSE o]
      BY <1>9 DEF ValidateImport
    <2>2. run[w].at = "parsing" /\ run' = [run EXCEPT ![w].at = "written"] /\ UNCHANGED job
      BY <1>9 DEF ValidateImport
    <2>3. i \in Imports /\ job[i] = "running"
      BY <2>2 DEF OneRunner
    <2>4. imports'[i] \notin {"none", "validating"}
      BY <2>1, <2>3 DEF Typed, Outcomes
    <2>5. \A j \in Imports : j # i => imports'[j] = imports[j]
      BY <2>1 DEF Typed
    <2>6. \A v \in Workers : run'[v].import = run[v].import /\ (run'[v].at = IF v = w THEN "written" ELSE run[v].at)
      BY <2>2 DEF Typed
    <2>7. \A v \in Workers : run[v].at # "rest" /\ run[v].import = i => v = w
      BY <2>2 DEF OneRunner
    <2>8. \A j \in Imports : imports'[j] = "none" => imports[j] = "none"
      BY <2>4, <2>5
    <2>9. ASSUME NEW v \in Workers, run'[v].at # "rest"
          PROVE  /\ run'[v].import \in Imports /\ job'[run'[v].import] = "running"
                 /\ run'[v].at = "parsing" => imports'[run'[v].import] \in {"validating", "gone"}
                 /\ run'[v].at = "written" => imports'[run'[v].import] # "validating"
                 /\ \A u \in Workers : run'[u].at # "rest" /\ run'[u].import = run'[v].import => u = v
      <3>1. run[v].at # "rest"
        BY <2>2, <2>6, <2>9
      <3>2. run[v].import \in Imports /\ job[run[v].import] = "running"
            /\ (run[v].at = "parsing" => imports[run[v].import] \in {"validating", "gone"})
            /\ (run[v].at = "written" => imports[run[v].import] # "validating")
            /\ \A u \in Workers : run[u].at # "rest" /\ run[u].import = run[v].import => u = v
        BY <3>1 DEF OneRunner
      <3> HIDE DEF i
      <3>3. \A u \in Workers : run'[u].at # "rest" => run[u].at # "rest"
        BY <2>2, <2>6
      <3>4. CASE v = w
        <4>1. run'[v].import = i /\ run[v].import = i /\ run'[v].at = "written"
          BY <2>6, <3>4 DEF i
        <4>2. \A u \in Workers : run'[u].at # "rest" /\ run'[u].import = i => u = v
          BY <2>6, <3>2, <3>3, <4>1
        <4>3. QED
          BY <2>2, <2>4, <3>2, <4>1, <4>2
      <3>5. CASE v # w
        <4>1. run[v].import # i
          BY <2>7, <3>1, <3>5
        <4>2. QED
          BY <2>2, <2>5, <2>6, <3>2, <3>3, <3>5, <4>1
      <3>6. QED
        BY <3>4, <3>5
    <2>10. \A j \in Imports : imports'[j] = "none" => job'[j] = "none"
      BY <2>2, <2>8 DEF OneRunner
    <2> HIDE DEF i
    <2>11. QED
      BY <2>9, <2>10 DEF OneRunner
  <1>10. ASSUME NEW w \in Workers, CompleteJob(w) \/ Crash(w)
         PROVE  OneRunner'
    <2>1. run[w].at # "rest"
      <3>1. run[w] \in {Resting} \cup [at : {"parsing", "written"}, import : Imports]
        BY DEF Typed
      <3>2. CASE CompleteJob(w)
        BY <3>2 DEF CompleteJob
      <3>3. CASE Crash(w)
        <4>1. run[w] # Resting
          BY <3>3 DEF Crash
        <4>2. QED
          BY <3>1, <4>1
      <3>4. QED
        BY <1>10, <3>2, <3>3
    <2>2. run' = [run EXCEPT ![w] = Resting] /\ UNCHANGED imports
      BY <1>10 DEF CompleteJob, Crash, tables
    <2>3. \A v \in Workers : run[v].at # "rest" /\ run[v].import = run[w].import => v = w
      BY <2>1 DEF OneRunner
    <2>4. \A j \in Imports : j # run[w].import => job'[j] = job[j]
      BY <1>10 DEF CompleteJob, Crash, Typed
    <2>5. imports[run[w].import] # "none"
      BY <2>1 DEF OneRunner
    <2>6. \A v \in Workers : run'[v].at # "rest" => v # w /\ run'[v] = run[v]
      BY <2>2 DEF Typed, Resting
    <2>7. \A j \in Imports : imports[j] = "none" => job'[j] = "none"
      BY <2>4, <2>5 DEF OneRunner
    <2>8. ASSUME NEW v \in Workers, run'[v].at # "rest"
          PROVE  /\ run'[v].import \in Imports /\ job'[run'[v].import] = "running"
                 /\ run'[v].at = "parsing" => imports'[run'[v].import] \in {"validating", "gone"}
                 /\ run'[v].at = "written" => imports'[run'[v].import] # "validating"
                 /\ \A u \in Workers : run'[u].at # "rest" /\ run'[u].import = run'[v].import => u = v
      <3>1. v # w /\ run'[v] = run[v] /\ run[v].at # "rest"
        BY <2>6, <2>8
      <3>2. run[v].import # run[w].import
        BY <2>3, <3>1
      <3>3. QED
        BY <2>2, <2>4, <2>6, <3>1, <3>2 DEF OneRunner
    <2>9. QED
      BY <2>2, <2>7, <2>8 DEF OneRunner
  <1>11. CASE BreakDeadlock \/ UNCHANGED vars
    BY <1>2, <1>11 DEF BreakDeadlock, tables, vars
  <1>12. QED
    BY <1>3, <1>4, <1>5, <1>6, <1>7, <1>8, <1>9, <1>10, <1>11 DEF Next, Teacher, Proceed, Work

LEMMA QueuedStep ==
  ASSUME Typed, OneRunner, ValidationIsQueued, [Next]_vars
  PROVE  ValidationIsQueued'
  <1>1. ASSUME UNCHANGED <<job, run>>,
               \A i \in Imports : imports'[i] = "validating" => imports[i] = "validating"
        PROVE  ValidationIsQueued'
    BY <1>1 DEF ValidationIsQueued
  <1>2. CASE AddQuestion \/ ReorderQuestions \/ UpdateQuiz \/ Publish \/ Cancel \/ WindowOpens \/ Begin
    BY <1>1, <1>2 DEF AddQuestion, ReorderQuestions, UpdateQuiz, Publish, Cancel, WindowOpens, Begin
  <1>3. CASE RegisterImport
    <2>1. PICK i \in Imports : /\ imports' = [imports EXCEPT ![i] = "validating"]
                               /\ job' = [job EXCEPT ![i] = "available"]
      BY <1>3 DEF RegisterImport, Queued
    <2>2. UNCHANGED run
      BY <1>3 DEF RegisterImport
    <2>3. job'[i] = "available" /\ \A j \in Imports : j # i => imports'[j] = imports[j] /\ job'[j] = job[j]
      BY <2>1 DEF Typed
    <2>4. QED
      BY <2>2, <2>3 DEF ValidationIsQueued
  <1>4. ASSUME NEW c \in Callers, Start(c) \/ Refused(c) \/ Fails(c) \/ UpdateQuestion(c) \/ DeleteQuestion(c)
        PROVE  ValidationIsQueued'
    BY <1>1, <1>4 DEF Start, FindQuestion, LockForDelete, LockForCommit, Refused, Fails, UpdateQuestion,
                      DeleteQuestion, tables
  <1>5. ASSUME NEW c \in Callers, DeleteQuiz(c)
        PROVE  ValidationIsQueued'
    <2>1. /\ imports' = [i \in Imports |-> IF imports[i] = "none" THEN "none" ELSE "gone"]
          /\ UNCHANGED <<job, run>>
      BY <1>5 DEF DeleteQuiz
    <2>2. QED
      BY <1>1, <2>1
  <1>6. ASSUME NEW c \in Callers, CommitImport(c)
        PROVE  ValidationIsQueued'
    <2>1. imports' = [imports EXCEPT ![call[c].on] = "committed"] /\ UNCHANGED <<job, run>>
      BY <1>6 DEF CommitImport
    <2>2. QED
      BY <1>1, <2>1 DEF Typed
  <1>7. ASSUME NEW w \in Workers, TakeJob(w)
        PROVE  ValidationIsQueued'
    <2>1. PICK i \in Imports :
            /\ run[w] = Resting
            /\ job' = [job EXCEPT ![i] = IF NeedsRun(i) THEN "running" ELSE "done"]
            /\ run' = [run EXCEPT ![w] = IF NeedsRun(i) THEN [at |-> "parsing", import |-> i] ELSE Resting]
      BY <1>7 DEF TakeJob
    <2>2. UNCHANGED imports
      BY <1>7 DEF TakeJob, tables
    <2>3. \A j \in Imports : j # i => job'[j] = job[j]
      BY <2>1 DEF Typed
    <2>4. \A v \in Workers : run[v].at = "parsing" => run'[v] = run[v]
      BY <2>1 DEF Typed, Resting
    <2>5. imports[i] = "validating" => run'[w] = [at |-> "parsing", import |-> i]
      BY <2>1 DEF Typed, NeedsRun
    <2>6. QED
      BY <2>2, <2>3, <2>4, <2>5 DEF ValidationIsQueued
  <1>8. ASSUME NEW w \in Workers, ValidateImport(w)
        PROVE  ValidationIsQueued'
    <2> DEFINE i == run[w].import
    <2>1. PICK o \in Outcomes(i) : imports' = [imports EXCEPT ![i] = IF @ = "gone" THEN "gone" ELSE o]
      BY <1>8 DEF ValidateImport
    <2>2. run[w].at = "parsing" /\ run' = [run EXCEPT ![w].at = "written"] /\ UNCHANGED job
      BY <1>8 DEF ValidateImport
    <2>3. i \in Imports
      BY <2>2 DEF OneRunner
    <2>4. imports'[i] # "validating" /\ \A j \in Imports : j # i => imports'[j] = imports[j]
      BY <2>1, <2>3 DEF Typed, Outcomes
    <2>5. \A v \in Workers : v # w => run'[v] = run[v]
      BY <2>2 DEF Typed
    <2>6. ASSUME NEW j \in Imports, imports'[j] = "validating"
          PROVE  job'[j] = "available" \/ \E v \in Workers : run'[v].at = "parsing" /\ run'[v].import = j
      <3>1. j # i /\ imports[j] = "validating"
        BY <2>4, <2>6
      <3>2. CASE job[j] = "available"
        BY <2>2, <3>2
      <3>3. ASSUME NEW v \in Workers, run[v].at = "parsing", run[v].import = j
            PROVE  run'[v].at = "parsing" /\ run'[v].import = j
        BY <2>5, <3>1, <3>3
      <3>4. QED
        BY <3>1, <3>2, <3>3 DEF ValidationIsQueued
    <2>7. QED
      BY <2>6 DEF ValidationIsQueued
  <1>9. ASSUME NEW w \in Workers, CompleteJob(w) \/ Crash(w)
        PROVE  ValidationIsQueued'
    <2> DEFINE i == run[w].import
    <2>1. run' = [run EXCEPT ![w] = Resting] /\ UNCHANGED imports
      BY <1>9 DEF CompleteJob, Crash, tables
    <2>2. \A j \in Imports : j # i => job'[j] = job[j]
      BY <1>9 DEF CompleteJob, Crash, Typed
    <2>3. \A v \in Workers : v # w => run'[v] = run[v]
      BY <2>1 DEF Typed
    <2>4. i \in Imports => imports[i] # "validating" \/ job'[i] = "available"
      <3>1. CASE CompleteJob(w)
        BY <3>1 DEF CompleteJob, OneRunner
      <3>2. CASE Crash(w)
        BY <3>2 DEF Crash, Typed
      <3>3. QED
        BY <1>9, <3>1, <3>2
    <2>5. ASSUME NEW j \in Imports, imports'[j] = "validating"
          PROVE  job'[j] = "available" \/ \E v \in Workers : run'[v].at = "parsing" /\ run'[v].import = j
      <3> HIDE DEF i
      <3>1. imports[j] = "validating"
        BY <2>1, <2>5
      <3>2. CASE j = i
        BY <2>4, <3>1, <3>2
      <3>3. CASE j # i /\ job[j] = "available"
        BY <2>2, <3>3
      <3>4. ASSUME j # i, NEW v \in Workers, run[v].at = "parsing", run[v].import = j
            PROVE  run'[v].at = "parsing" /\ run'[v].import = j
        BY <2>3, <3>4 DEF i
      <3>5. QED
        BY <3>1, <3>2, <3>3, <3>4 DEF ValidationIsQueued
    <2>6. QED
      BY <2>5 DEF ValidationIsQueued
  <1>10. CASE BreakDeadlock \/ UNCHANGED vars
    BY <1>1, <1>10 DEF BreakDeadlock, tables, vars
  <1>11. QED
    BY <1>2, <1>3, <1>4, <1>5, <1>6, <1>7, <1>8, <1>9, <1>10 DEF Next, Teacher, Proceed, Work

-----------------------------------------------------------------------------
(* What is published.                                                      *)

\* The snapshot as a function of the rows and of the quiz's points.
Preceding(rows, q) ==
  {p \in DOMAIN rows : \/ rows[p].position < rows[q].position
                       \/ rows[p].position = rows[q].position /\ p < q}

InOrder(rows) ==
  [k \in 1 .. Cardinality(DOMAIN rows) |->
     CHOOSE q \in DOMAIN rows : Cardinality(Preceding(rows, q)) = k - 1]

SnapshotOf(rows, default) ==
  [k \in DOMAIN InOrder(rows) |->
     [id |-> InOrder(rows)[k],
      points |-> IF rows[InOrder(rows)[k]].content = Inherit THEN default
                 ELSE rows[InOrder(rows)[k]].content]]

LEMMA SnapshotIs ==
  /\ Listed = InOrder(questions)
  /\ Snapshot = SnapshotOf(questions, quiz.default)
  /\ Snapshot' = SnapshotOf(questions', quiz'.default)
  BY DEF Snapshot, Priced, Listed, Before, SnapshotOf, InOrder, Preceding

Out(status) == status \in {"scheduled", "opened", "begun"}

LEMMA PublishedStep ==
  ASSUME Typed, LocksHold, IsPublished, SnapshotIsCurrent, [Next]_vars
  PROVE  IsPublished' /\ SnapshotIsCurrent'
  <1>1. quiz \in [status : {"draft", "scheduled", "opened", "begun", "gone"}, default : Defaults]
    BY DEF Typed
  <1>2. ASSUME UNCHANGED <<questions, versions>>, quiz'.default = quiz.default,
               Out(quiz'.status) => Out(quiz.status)
        PROVE  IsPublished' /\ SnapshotIsCurrent'
    BY <1>2, SnapshotIs DEF IsPublished, SnapshotIsCurrent, Out
  <1>3. ASSUME ~Out(quiz'.status)
        PROVE  IsPublished' /\ SnapshotIsCurrent'
    BY <1>3 DEF IsPublished, SnapshotIsCurrent, Out
  <1>4. CASE AddQuestion \/ ReorderQuestions \/ UpdateQuiz
    <2>1. quiz'.status = "draft"
      BY <1>1, <1>4 DEF AddQuestion, ReorderQuestions, UpdateQuiz, DraftForUpdate
    <2>2. QED
      BY <1>3, <2>1 DEF Out
  <1>5. CASE RegisterImport \/ UNCHANGED vars
    BY <1>2, <1>5 DEF RegisterImport, vars, tables
  <1>6. CASE Cancel
    <2>1. quiz'.status = "draft"
      BY <1>1, <1>6 DEF Cancel
    <2>2. QED
      BY <1>3, <2>1 DEF Out
  <1>7. CASE WindowOpens \/ Begin
    <2>1. UNCHANGED <<questions, versions>> /\ quiz'.default = quiz.default /\ Out(quiz.status)
      BY <1>1, <1>7 DEF WindowOpens, Begin, Out
    <2>2. QED
      BY <1>2, <2>1
  <1>8. CASE Publish
    <2>1. UNCHANGED questions /\ quiz'.default = quiz.default
      BY <1>1, <1>8 DEF Publish
    <2>2. versions' # <<>> /\ Last(versions') = Snapshot
      BY <1>8, Published DEF Publish
    <2>3. Snapshot' = Snapshot
      BY <2>1, SnapshotIs
    <2>4. QED
      BY <2>2, <2>3 DEF IsPublished, SnapshotIsCurrent
  <1>9. ASSUME NEW c \in Callers, Start(c) \/ Refused(c) \/ Fails(c)
        PROVE  IsPublished' /\ SnapshotIsCurrent'
    BY <1>2, <1>9 DEF Start, FindQuestion, LockForDelete, LockForCommit, Refused, Fails, tables
  <1>10. ASSUME NEW c \in Callers, UpdateQuestion(c) \/ DeleteQuestion(c) \/ CommitImport(c)
         PROVE  IsPublished' /\ SnapshotIsCurrent'
    <2>1. quiz'.status = "draft"
      BY <1>10 DEF UpdateQuestion, DeleteQuestion, CommitImport, Editable, DraftForUpdate, Commits, Edits
    <2>2. QED
      BY <1>3, <2>1 DEF Out
  <1>11. ASSUME NEW c \in Callers, DeleteQuiz(c)
         PROVE  IsPublished' /\ SnapshotIsCurrent'
    <2>1. quiz'.status = "gone"
      BY <1>1, <1>11 DEF DeleteQuiz
    <2>2. QED
      BY <1>3, <2>1 DEF Out
  <1>12. CASE BreakDeadlock
    BY <1>2, <1>12 DEF BreakDeadlock, tables
  <1>13. ASSUME NEW w \in Workers, Work(w) \/ Crash(w)
         PROVE  IsPublished' /\ SnapshotIsCurrent'
    BY <1>2, <1>13 DEF Work, TakeJob, ValidateImport, CompleteJob, Crash, tables
  <1>14. QED
    BY <1>4, <1>5, <1>6, <1>7, <1>8, <1>9, <1>10, <1>11, <1>12, <1>13 DEF Next, Teacher, Proceed

-----------------------------------------------------------------------------
(* The invariant and what follows from it.                                 *)

\* Whatever requests, workers and crashes interleave: rows keep their numbers, a
\* lock holder finds what it locked, an import has one runner, and what is
\* published is what the questions say (all operations of internal/quiz/service.go
\* on questions and imports, and importworker.go).
THEOREM AuthoringInductive == Spec => []AuthoringInv
  <1>1. Init => AuthoringInv
    <2> SUFFICES ASSUME Init
                 PROVE  AuthoringInv
      OBVIOUS
    <2>1. LocksHold /\ LocksAreHeld /\ ReadyHasRows /\ OneRunner /\ IsPublished
          /\ SnapshotIsCurrent /\ ValidationIsQueued
      BY DEF Init, LocksHold, LocksAreHeld, ReadyHasRows, OneRunner, IsPublished, SnapshotIsCurrent,
             ValidationIsQueued, Idle, Resting
    <2>2. QED
      BY <2>1, InitNumbered DEF AuthoringInv
  <1>2. AuthoringInv /\ [Next]_vars => AuthoringInv'
    <2> SUFFICES ASSUME AuthoringInv, [Next]_vars
                 PROVE  AuthoringInv'
      OBVIOUS
    <2>1. Numbered /\ Typed /\ LocksHold /\ LocksAreHeld /\ ReadyHasRows /\ OneRunner
          /\ IsPublished /\ SnapshotIsCurrent /\ ValidationIsQueued
      BY DEF AuthoringInv, Numbered
    <2>2. Numbered' /\ LocksHold' /\ LocksAreHeld' /\ ReadyHasRows' /\ OneRunner'
      BY <2>1, NumberedStep, LocksStep, HeldStep, ReadyStep, RunnerStep
    <2>3. ValidationIsQueued' /\ IsPublished' /\ SnapshotIsCurrent'
      BY <2>1, QueuedStep, PublishedStep
    <2>4. QED
      BY <2>2, <2>3 DEF AuthoringInv
  <1>3. QED
    BY <1>1, <1>2, PTL DEF Spec

\* The positions of a quiz's questions are 1, 2, 3, ... after every add, import,
\* reorder and deletion, in whatever order they commit (service.go's resequence,
\* and max(position) + 1 read under the quiz lock).
THEOREM PositionsStayDense == Spec => []PositionsDense
  <1>1. AuthoringInv => PositionsDense
    BY DEF AuthoringInv, Numbered
  <1>2. QED
    BY <1>1, AuthoringInductive, PTL

\* A quiz that is not a draft has the questions of its newest version: no edit,
\* deletion or import that began before the publish changes them after it.
THEOREM SnapshotsStayCurrent == Spec => []SnapshotIsCurrent
  <1>1. AuthoringInv => SnapshotIsCurrent
    BY DEF AuthoringInv
  <1>2. QED
    BY <1>1, AuthoringInductive, PTL

\* Whatever locks the requests in flight hold, one of them can go on, or a commit
\* and a cascade wait for each other, which PostgreSQL breaks: no other cycle of
\* waiting requests exists, and no lock outlives its request.
THEOREM NobodyIsStuck == Spec => []NobodyStuck
  <1>1. AuthoringInv => NobodyStuck
    <2> SUFFICES ASSUME Typed, LocksHold, LocksAreHeld, ReadyHasRows, NEW c \in Callers, call[c] # Idle
                 PROVE  \E b, d \in Callers : CanProceed(b) \/ Deadlocked(b, d)
      BY DEF AuthoringInv, Numbered, NobodyStuck
    <2>1. CASE Free("quiz") /\ call[c].op = "question"
      BY <2>1 DEF CanProceed, Edits, Editable, DraftForUpdate, Refusable
    <2>2. CASE Free("quiz") /\ call[c].op = "commit"
      <3>1. Rows[call[c].on] # BadFile
        BY <2>2 DEF LocksHold, ReadyHasRows
      <3>2. QED
        BY <2>2, <3>1 DEF CanProceed, Commits, DraftForUpdate, Refusable
    <2>3. CASE Free("quiz") /\ call[c].op \in {"refusal", "cascade"}
      BY <2>3, NoCascade DEF CanProceed, Refusable
    <2>4. CASE ~Free("quiz")
      <3> DEFINE b == holder["quiz"]
      <3>1. b \in Callers /\ call[b].op = "cascade"
        BY <2>4 DEF Free, Typed, LocksAreHeld
      <3>2. CASE \A i \in Imports : Free(i)
        BY <3>1, <3>2 DEF CanProceed, Cascades
      <3>3. ASSUME NEW i \in Imports, ~Free(i)
            PROVE  \E d \in Callers : Deadlocked(b, d)
        <4>1. /\ holder[i] \in Callers
              /\ call[holder[i]].op \in {"commit", "refusal"} /\ call[holder[i]].on = i
          BY <3>3 DEF Free, Typed, LocksAreHeld
        <4>2. QED
          BY <3>1, <4>1 DEF Deadlocked
      <3>4. QED
        BY <3>1, <3>2, <3>3
    <2>5. call[c].op \in {"question", "commit", "refusal", "cascade"}
      <3>1. call[c] \in {Idle} \cup [op : Ops, on : Imports \cup Nat \cup {Nobody}]
        BY DEF Typed
      <3>2. QED
        BY <3>1 DEF Ops
    <2>6. QED
      BY <2>1, <2>2, <2>3, <2>4, <2>5
  <1>2. QED
    BY <1>1, AuthoringInductive, PTL

\* An import in 'validating' has a job or a worker, however often workers are lost.
THEOREM ValidationsAreQueued == Spec => []ValidationIsQueued
  <1>1. AuthoringInv => ValidationIsQueued
    BY DEF AuthoringInv
  <1>2. QED
    BY <1>1, AuthoringInductive, PTL

-----------------------------------------------------------------------------
(* The contract of Outline.                                                *)

LEMMA ListIs ==
  /\ List = ListOf(questions)
  /\ List' = ListOf(questions')
  BY DEF List, ListOf

LEMMA SameOperators ==
  ASSUME NEW s
  PROVE  /\ Contract!Front(s) = Front(s) /\ Contract!Last(s) = Last(s)
         /\ Contract!Range(s) = Range(s) /\ Contract!IsInjective(s) = IsInjective(s)
         /\ \A k : Contract!RemoveAt(s, k) = RemoveAt(s, k)
         /\ \A t : Contract!IsPrefix(s, t) = IsPrefix(s, t)
  BY DEF Contract!Front, Contract!Last, Contract!Range, Contract!IsInjective, Contract!RemoveAt,
         Contract!IsPrefix, Front, Last, Range, IsInjective, RemoveAt, IsPrefix

Taken == {i \in Imports : imports[i] = "committed"}

\* What the contract sees of a step.
LEMMA Seen ==
  /\ Contract!Draft = (quiz.status = "draft")
  /\ Contract!Draft' = (quiz'.status = "draft")
  BY DEF Contract!Draft

\* The ids of a list are the ids of the rows, each once.
LEMMA IdsOnce ==
  ASSUME NEW rows \in Questions, Dense(rows)
  PROVE  /\ \A k \in DOMAIN ListOf(rows) : ListOf(rows)[k].id \in DOMAIN rows
         /\ IsInjective([k \in DOMAIN ListOf(rows) |-> ListOf(rows)[k].id])
  <1>1. ASSUME NEW k \in DOMAIN ListOf(rows)
        PROVE  ListOf(rows)[k].id \in DOMAIN rows /\ rows[ListOf(rows)[k].id].position = k
    <2>1. PICK q \in DOMAIN rows : rows[q].position = k
      BY InPlace, Positioned
    <2>2. ListOf(rows)[k] = [id |-> q, content |-> rows[q].content]
      BY <2>1, InPlace
    <2>3. QED
      BY <2>1, <2>2
  <1>2. QED
    BY <1>1 DEF IsInjective

\* The query's order is the order of the positions.
LEMMA OrderIsPosition ==
  ASSUME NEW rows \in Questions, Dense(rows)
  PROVE  /\ DOMAIN InOrder(rows) = DOMAIN ListOf(rows)
         /\ \A k \in DOMAIN ListOf(rows) : InOrder(rows)[k] = ListOf(rows)[k].id
  <1> DEFINE n == Cardinality(DOMAIN rows)
  <1>1. n \in Nat /\ DOMAIN ListOf(rows) = 1 .. n
    BY Positioned, InPlace
  <1>2. DOMAIN InOrder(rows) = 1 .. n
    BY DEF InOrder
  <1>3. \A q \in DOMAIN rows : rows[q].position \in 1 .. n
    BY Positioned
  <1>4. ASSUME NEW q \in DOMAIN rows
        PROVE  Cardinality(Preceding(rows, q)) = rows[q].position - 1
    <2> DEFINE j == rows[q].position - 1
    <2>1. j \in 0 .. n
      BY <1>1, <1>3
    <2>2. Preceding(rows, q) = {p \in DOMAIN rows : rows[p].position <= j}
      <3>1. ASSUME NEW p \in DOMAIN rows
            PROVE  (\/ rows[p].position < rows[q].position
                    \/ rows[p].position = rows[q].position /\ p < q) <=> rows[p].position <= j
        <4>1. rows[p].position = rows[q].position => p = q
          BY DEF Dense
        <4>2. rows[p].position \in Nat /\ rows[q].position \in Nat /\ q \in Nat
          BY <1>1, <1>3, RowType
        <4>3. QED
          BY <4>1, <4>2
      <3>2. QED
        BY <3>1 DEF Preceding
    <2> HIDE DEF j
    <2>3. QED
      BY <2>1, <2>2, UpTo DEF j
  <1>5. ASSUME NEW k \in 1 .. n
        PROVE  InOrder(rows)[k] = ListOf(rows)[k].id
    <2>1. PICK q \in DOMAIN rows : rows[q].position = k
      BY Positioned
    <2>2. Cardinality(Preceding(rows, q)) = k - 1
      BY <1>4, <2>1
    <2>3. ASSUME NEW p \in DOMAIN rows, Cardinality(Preceding(rows, p)) = k - 1
          PROVE  p = q
      <3>1. rows[p].position - 1 = k - 1 /\ rows[p].position \in Nat
        BY <1>1, <1>3, <1>4, <2>3
      <3>2. rows[p].position = k
        BY <3>1
      <3>3. QED
        BY <2>1, <3>2 DEF Dense
    <2>4. (CHOOSE p \in DOMAIN rows : Cardinality(Preceding(rows, p)) = k - 1) = q
      BY <2>2, <2>3
    <2>5. InOrder(rows)[k] = q
      BY <2>4 DEF InOrder
    <2>6. ListOf(rows)[k] = [id |-> q, content |-> rows[q].content]
      BY <2>1, InPlace
    <2>7. QED
      BY <2>5, <2>6
  <1>6. QED
    BY <1>1, <1>2, <1>5

LEMMA Stutters ==
  ASSUME UNCHANGED <<questions, versions>>, Taken' = Taken,
         (quiz'.status = "draft") = (quiz.status = "draft")
  PROVE  UNCHANGED Contract!vars
  <1>1. List' = List
    BY ListIs
  <1>2. QED
    BY <1>1 DEF Contract!vars, Taken

\* An insert continues the list.
LEMMA Continued ==
  ASSUME Numbered, NEW contents \in Seq(Contents), NEW import \in Imports \cup {Nobody},
         questions' = With(Inserted(LastPosition, contents, import)), born' = born + Len(contents)
  PROVE  /\ Len(List') = Len(List) + Len(contents) /\ Len(List) \in Nat
         /\ SubSeq(List', 1, Len(List)) = List /\ SubSeq(List, 1, Len(List)) = List
         /\ \A k \in 1 .. Len(contents) : List'[Len(List) + k] = [id |-> born + k, content |-> contents[k]]
         /\ \A k \in 1 .. Len(List) : List'[k] = List[k]
         /\ Contract!ContentsOf(List') = Contract!ContentsOf(List) \o contents
         /\ IsInjective([k \in DOMAIN List' |-> List'[k].id])
         /\ \A k \in DOMAIN List : List[k].id \in 1 .. born
         /\ born \in Nat
  <1> DEFINE old == List
             new == List'
             n == Len(List)
             m == Len(contents)
             Old == [id : DOMAIN questions, content : Contents]
             New == [id : DOMAIN questions', content : Contents]
  <1>1. questions \in Questions /\ Dense(questions) /\ DOMAIN questions \subseteq 1 .. born /\ born \in Nat
    BY AreDense DEF Numbered, Typed, PositionsDistinct
  <1>2. questions' \in Questions /\ Dense(questions')
    BY Adds
  <1>3. old \in Seq(Old) /\ n = Cardinality(DOMAIN questions)
    BY <1>1, ListType, ListIs
  <1>4. new \in Seq(New) /\ Len(new) = Cardinality(DOMAIN questions')
    BY <1>2, ListType, ListIs
  <1>5. Len(new) = n + m
    BY <1>3, <1>4, Adds
  <1>6. /\ \A k \in 1 .. n : new[k] = old[k]
        /\ \A k \in 1 .. m : new[n + k] = [id |-> born + k, content |-> contents[k]]
    BY <1>3, Adds, ListIs
  <1>7. n \in Nat /\ m \in Nat
    BY <1>3, LenProperties
  <1>8. IsInjective([k \in DOMAIN new |-> new[k].id])
    BY <1>2, IdsOnce, ListIs
  <1>9. \A k \in DOMAIN old : old[k].id \in 1 .. born
    BY <1>1, IdsOnce, ListIs
  <1> HIDE DEF old, new
  <1>10. SubSeq(new, 1, n) = old /\ SubSeq(old, 1, n) = old
    <2>1. n = Len(old)
      BY DEF old
    <2> HIDE DEF n, m
    <2>2. Len(old) <= Len(new) /\ Len(old) <= Len(old)
      BY <1>5, <1>7, <2>1
    <2>3. SubSeq(new, 1, Len(old)) = old
      BY <1>3, <1>4, <1>6, <2>1, <2>2, Initial
    <2>4. SubSeq(old, 1, Len(old)) = old
      BY <1>3, <2>2, Initial
    <2>5. QED
      BY <2>1, <2>3, <2>4
  <1>11. Contract!ContentsOf(new) = Contract!ContentsOf(old) \o contents
    <2> DEFINE co == [k \in DOMAIN old |-> old[k].content]
               cn == [k \in DOMAIN new |-> new[k].content]
    <2>1. DOMAIN old = 1 .. n /\ DOMAIN new = 1 .. n + m
      <3>1. n = Len(old)
        BY DEF old
      <3>2. QED
        BY <1>3, <1>4, <1>5, <3>1, LenProperties
    <2> HIDE DEF n, m
    <2>2. \A k \in 1 .. n : old[k] \in Old
      <3>1. Len(old) = n
        BY DEF old, n
      <3>2. QED
        BY <1>3, <3>1, ElementOfSeq
    <2>3. \A k \in 1 .. n + m : new[k] \in New
      BY <1>4, <1>5, ElementOfSeq
    <2>4. co \in [1 .. n -> Contents] /\ cn \in [1 .. n + m -> Contents]
      BY <2>1, <2>2, <2>3
    <2>5. co \in Seq(Contents) /\ Len(co) = n /\ cn \in Seq(Contents) /\ Len(cn) = n + m
      <3>1. n + m \in Nat
        BY <1>7
      <3> HIDE DEF co, cn
      <3>2. co \in Seq(Contents) /\ cn \in Seq(Contents)
        BY <1>7, <2>4, <3>1, SeqDef
      <3>3. QED
        BY <1>7, <2>4, <3>1, <3>2, LenProperties
    <2>6. \A k \in 1 .. n : co[k] = old[k].content /\ cn[k] = old[k].content
      BY <1>6, <1>7, <2>1
    <2>7. \A k \in 1 .. m : cn[n + k] = contents[k]
      <3>1. SUFFICES ASSUME NEW k \in 1 .. m
                     PROVE  cn[n + k] = contents[k]
        OBVIOUS
      <3>2. n + k \in DOMAIN new
        BY <1>7, <2>1
      <3>3. cn[n + k] = new[n + k].content
        BY <3>2
      <3> HIDE DEF cn
      <3>4. new[n + k] = [id |-> born + k, content |-> contents[k]]
        BY <1>6
      <3>5. QED
        BY <3>3, <3>4
    <2> HIDE DEF co, cn
    <2>8. /\ co \o contents \in Seq(Contents) /\ Len(co \o contents) = n + m
          /\ \A k \in 1 .. n + m : (co \o contents)[k] = IF k <= n THEN co[k] ELSE contents[k - n]
      BY <2>5, ConcatProperties DEF m
    <2>9. \A k \in 1 .. n + m : cn[k] = (co \o contents)[k]
      <3>1. SUFFICES ASSUME NEW k \in 1 .. n + m
                     PROVE  cn[k] = (co \o contents)[k]
        OBVIOUS
      <3>2. CASE k <= n
        BY <1>7, <2>6, <2>8, <3>2
      <3>3. CASE k > n
        <4>1. k - n \in 1 .. m /\ n + (k - n) = k /\ ~(k <= n)
          BY <1>7, <3>3
        <4>2. cn[k] = contents[k - n]
          BY <2>7, <4>1
        <4>3. (co \o contents)[k] = contents[k - n]
          BY <2>8, <4>1
        <4>4. QED
          BY <4>2, <4>3
      <3>4. k <= n \/ k > n
        BY <1>7
      <3>5. QED
        BY <3>2, <3>3, <3>4
    <2>10. cn = co \o contents
      BY <2>5, <2>8, <2>9, SeqEqual
    <2>11. QED
      BY <2>10 DEF co, cn, Contract!ContentsOf
  <1>12. QED
    BY <1>1, <1>5, <1>6, <1>7, <1>8, <1>9, <1>10, <1>11 DEF old, new

\* An added question: the list grows by one with a new id.
LEMMA AddGrows ==
  ASSUME Numbered, AddQuestion
  PROVE  Contract!Change
  <1>1. PICK c \in Contents : questions' = With(Inserted(LastPosition, <<c>>, Nobody))
    BY DEF AddQuestion
  <1>2. born' = born + 1 /\ UNCHANGED <<quiz, versions, imports>> /\ quiz.status = "draft"
    BY DEF AddQuestion, DraftForUpdate
  <1>3. <<c>> \in Seq(Contents) /\ Len(<<c>>) = 1
    OBVIOUS
  <1>4. /\ Len(List') = Len(List) + 1 /\ Len(List) \in Nat
        /\ SubSeq(List', 1, Len(List)) = List
        /\ List'[Len(List) + 1] = [id |-> born + 1, content |-> c]
        /\ \A k \in DOMAIN List : List[k].id \in 1 .. born
        /\ born \in Nat
    <2>1. 1 \in 1 .. Len(<<c>>) /\ <<c>>[1] = c
      OBVIOUS
    <2>2. QED
      BY <1>1, <1>2, <1>3, <2>1, Continued
  <1>5. Front(List') = List
    <2>1. Len(List') - 1 = Len(List)
      BY <1>4
    <2>2. QED
      BY <1>4, <2>1 DEF Front
  <1>6. Last(List').id = born + 1
    BY <1>4 DEF Last
  <1>7. Last(List').id \notin Contract!Ids(List)
    BY <1>4, <1>6 DEF Contract!Ids
  <1>8. Contract!Grow
    BY <1>4, <1>5, <1>7, SameOperators DEF Contract!Grow
  <1>9. QED
    BY <1>2, <1>8, Seen DEF Contract!Change

LEMMA ReorderRearranges ==
  ASSUME Numbered, ReorderQuestions
  PROVE  Contract!Change
  <1>1. PICK ids \in SeqOf(1 .. born, Cardinality(DOMAIN questions)) :
          /\ Reorderable(ids)
          /\ questions' = [q \in DOMAIN questions |->
               IF q \in Range(ids)
               THEN [questions[q] EXCEPT !.position = CHOOSE k \in DOMAIN ids : ids[k] = q]
               ELSE questions[q]]
    BY DEF ReorderQuestions
  <1>2. UNCHANGED <<quiz, versions, imports>> /\ quiz.status = "draft"
    BY DEF ReorderQuestions, DraftForUpdate
  <1>3. Len(List') = Len(List) /\ Range(List') = Range(List)
    BY <1>1, Reorders, ListIs
  <1>4. Contract!Rearrange
    BY <1>3, SameOperators DEF Contract!Rearrange
  <1>5. QED
    BY <1>2, <1>4, Seen DEF Contract!Change

LEMMA UpdateEdits ==
  ASSUME Numbered, NEW c \in Callers, UpdateQuestion(c)
  PROVE  Contract!Change
  <1> DEFINE x == call[c].on
  <1>1. PICK k \in Contents : questions' = [questions EXCEPT ![x].content = k]
    BY DEF UpdateQuestion
  <1>2. x \in DOMAIN questions /\ UNCHANGED <<quiz, versions, imports>> /\ quiz.status = "draft"
    BY DEF UpdateQuestion, Editable, DraftForUpdate, Edits
  <1>3. questions \in Questions /\ Dense(questions)
    BY AreDense DEF Numbered, Typed
  <1> HIDE DEF x
  <1>4. ListOf(questions') = [ListOf(questions) EXCEPT ![questions[x].position].content = k]
    <2>1. ListOf([questions EXCEPT ![x].content = k]) = [ListOf(questions) EXCEPT ![questions[x].position].content = k]
      BY <1>2, <1>3, Edited
    <2>2. QED
      BY <1>1, <2>1
  <1>5. questions[x].position \in DOMAIN List
    BY <1>2, <1>3, Positioned, InPlace, ListIs
  <1>6. Contract!Edit
    BY <1>4, <1>5, ListIs DEF Contract!Edit
  <1>7. QED
    BY <1>2, <1>6, Seen DEF Contract!Change

LEMMA DeleteDrops ==
  ASSUME Numbered, NEW c \in Callers, DeleteQuestion(c)
  PROVE  Contract!Change \/ UNCHANGED Contract!vars
  <1> DEFINE x == call[c].on
  <1>1. questions' = Densified(DOMAIN questions \ {x})
    BY DEF DeleteQuestion
  <1>2. UNCHANGED <<quiz, versions, imports>> /\ quiz.status = "draft"
    BY DEF DeleteQuestion, Editable, DraftForUpdate, Edits
  <1>3. questions \in Questions /\ Dense(questions)
    BY AreDense DEF Numbered, Typed
  <1> HIDE DEF x
  <1>4. CASE x \in DOMAIN questions
    <2>1. List' = RemoveAt(List, questions[x].position)
      BY <1>1, <1>4, Deletes, ListIs
    <2>2. questions[x].position \in DOMAIN List
      BY <1>3, <1>4, Positioned, InPlace, ListIs
    <2>3. Contract!Drop
      BY <2>1, <2>2, SameOperators DEF Contract!Drop
    <2>4. QED
      BY <1>2, <2>3, Seen DEF Contract!Change
  <1>5. CASE x \notin DOMAIN questions
    <2>1. questions' = questions
      BY <1>1, <1>5, Deletes
    <2>2. QED
      BY <1>2, <2>1, Stutters DEF Taken
  <1>6. QED
    BY <1>4, <1>5

\* A committed import: its rows at the end of the list, once.
LEMMA CommitImports ==
  ASSUME Numbered, LocksHold, NEW c \in Callers, CommitImport(c)
  PROVE  \E i \in Imports : Contract!Import(i)
  <1>1. PICK i \in Imports : i = call[c].on /\ imports[i] = "ready"
    BY DEF CommitImport, LocksHold, Commits
  <1>2. UNCHANGED <<quiz, versions>> /\ quiz.status = "draft"
    BY DEF CommitImport, DraftForUpdate, Commits
  <1>3. /\ Rows[i] # BadFile
        /\ questions' = With(Inserted(LastPosition, Rows[i], i))
        /\ born' = born + Len(Rows[i])
        /\ imports' = [imports EXCEPT ![i] = "committed"]
    BY <1>1 DEF CommitImport, Commits
  <1>4. Rows[i] \in Seq(Contents)
    BY <1>3, AuthoringAssumption
  <1>5. /\ Len(List') = Len(List) + Len(Rows[i]) /\ Len(List) \in Nat
        /\ SubSeq(List', 1, Len(List)) = List /\ SubSeq(List, 1, Len(List)) = List
        /\ Contract!ContentsOf(List') = Contract!ContentsOf(List) \o Rows[i]
        /\ IsInjective([k \in DOMAIN List' |-> List'[k].id])
    BY <1>3, <1>4, Continued
  <1>6. IsPrefix(List, List')
    <2>1. Len(List) <= Len(List')
      BY <1>4, <1>5, LenProperties
    <2>2. QED
      BY <1>5, <2>1 DEF IsPrefix
  <1>7. Taken' = Taken \cup {i} /\ i \notin Taken
    <2>1. imports \in [Imports -> {"none", "validating", "ready", "failed", "committed", "gone"}]
      BY DEF Numbered, Typed
    <2>2. QED
      BY <1>1, <1>3, <2>1 DEF Taken
  <1>8. Contract!Import(i)
    <2>1. Contract!IsPrefix(List, List')
      BY <1>6, SameOperators
    <2>2. Contract!IsInjective([k \in DOMAIN List' |-> List'[k].id])
      BY <1>5, SameOperators
    <2>3. Contract!Draft /\ Contract!Draft'
      BY <1>2, Seen
    <2>4. QED
      BY <1>2, <1>5, <1>7, <2>1, <2>2, <2>3 DEF Contract!Import, Taken
  <1>9. QED
    BY <1>8

\* A publish: the version is the list, priced.
LEMMA PublishPublishes ==
  ASSUME Numbered, Publish
  PROVE  Contract!Publish
  <1>1. questions \in Questions /\ Dense(questions)
    BY AreDense DEF Numbered, Typed
  <1>2. DOMAIN questions # {} /\ versions' = Append(versions, Snapshot) /\ UNCHANGED <<questions, imports>>
    BY DEF Publish
  <1>3. Len(versions') = Len(versions) + 1 /\ Last(versions') = Snapshot /\ Front(versions') = versions
    BY <1>2, Published DEF Numbered
  <1>4. quiz'.status = "scheduled"
    BY DEF Publish, Numbered, Typed
  <1>5. /\ DOMAIN Snapshot = DOMAIN List
        /\ \A k \in DOMAIN List :
             /\ Snapshot[k].id = List[k].id
             /\ List[k].content # Inherit => Snapshot[k].points = List[k].content
    <2>1. Snapshot = SnapshotOf(questions, quiz.default) /\ List = ListOf(questions)
      BY SnapshotIs, ListIs
    <2>2. DOMAIN Snapshot = DOMAIN InOrder(questions) /\ DOMAIN InOrder(questions) = DOMAIN List
      BY <1>1, <2>1, OrderIsPosition DEF SnapshotOf
    <2>3. ASSUME NEW k \in DOMAIN List
          PROVE  /\ Snapshot[k].id = List[k].id
                 /\ List[k].content # Inherit => Snapshot[k].points = List[k].content
      <3>1. PICK q \in DOMAIN questions : questions[q].position = k
        BY <1>1, <2>1, <2>3, InPlace, Positioned
      <3>2. List[k] = [id |-> q, content |-> questions[q].content]
        BY <1>1, <2>1, <3>1, InPlace
      <3>3. InOrder(questions)[k] = q
        BY <1>1, <2>1, <3>2, OrderIsPosition
      <3>4. Snapshot[k] = [id |-> q, points |-> IF questions[q].content = Inherit THEN quiz.default
                                                ELSE questions[q].content]
        BY <2>1, <2>2, <3>3 DEF SnapshotOf
      <3>5. QED
        BY <3>2, <3>4
    <2>4. QED
      BY <2>2, <2>3
  <1>6. List # <<>>
    <2>1. PICK q \in DOMAIN questions : TRUE
      BY <1>2
    <2>2. questions[q].position \in DOMAIN List
      BY <1>1, Positioned, InPlace, ListIs
    <2>3. QED
      BY <2>2
  <1>7. List' = List
    BY <1>2, ListIs
  <1>8. QED
    BY <1>2, <1>3, <1>4, <1>5, <1>6, <1>7, Seen, SameOperators DEF Contract!Publish, Contract!Priced, Taken

LEMMA StepImplements ==
  ASSUME AuthoringInv, [Next]_vars
  PROVE  Contract!Next \/ UNCHANGED Contract!vars
  <1> DEFINE Done == Contract!Next \/ UNCHANGED Contract!vars
  <1>1. Numbered /\ Typed /\ LocksHold /\ OneRunner /\ IsPublished
    BY DEF AuthoringInv, Numbered
  <1>2. ASSUME UNCHANGED <<quiz, questions, versions, imports>>
        PROVE  Done
    BY <1>2, Stutters DEF Taken
  <1>3. CASE AddQuestion
    BY <1>1, <1>3, AddGrows DEF Contract!Next
  <1>4. CASE ReorderQuestions
    BY <1>1, <1>4, ReorderRearranges DEF Contract!Next
  <1>5. CASE UpdateQuiz \/ WindowOpens \/ Begin
    <2>1. UNCHANGED <<questions, versions, imports>>
      BY <1>5 DEF UpdateQuiz, WindowOpens, Begin
    <2>2. (quiz'.status = "draft") = (quiz.status = "draft")
      BY <1>1, <1>5 DEF UpdateQuiz, WindowOpens, Begin, Typed
    <2>3. QED
      BY <2>1, <2>2, Stutters DEF Taken
  <1>6. CASE RegisterImport
    <2>1. PICK i \in Imports : imports[i] = "none" /\ imports' = [imports EXCEPT ![i] = "validating"]
      BY <1>6 DEF RegisterImport
    <2>2. \A j \in Imports : imports'[j] = "committed" <=> imports[j] = "committed"
      BY <1>1, <2>1 DEF Typed
    <2>3. UNCHANGED <<quiz, questions, versions>>
      BY <1>6 DEF RegisterImport
    <2>4. QED
      BY <2>2, <2>3, Stutters DEF Taken
  <1>7. CASE Publish
    BY <1>1, <1>7, PublishPublishes DEF Contract!Next
  <1>8. CASE Cancel
    <2>1. UNCHANGED <<questions, versions, imports>> /\ quiz.status = "scheduled"
      BY <1>8 DEF Cancel
    <2>2. quiz'.status = "draft"
      BY <1>1, <1>8 DEF Cancel, Typed
    <2>3. versions # <<>>
      BY <1>1, <2>1 DEF IsPublished
    <2>4. List' = List
      BY <2>1, ListIs
    <2>5. Contract!Withdraw
      BY <2>1, <2>2, <2>3, <2>4, Seen DEF Contract!Withdraw
    <2>6. QED
      BY <2>5 DEF Contract!Next
  <1>9. ASSUME NEW c \in Callers, Start(c) \/ Refused(c) \/ Fails(c)
        PROVE  Done
    BY <1>2, <1>9 DEF Start, FindQuestion, LockForDelete, LockForCommit, Refused, Fails, tables
  <1>10. ASSUME NEW c \in Callers, UpdateQuestion(c)
         PROVE  Done
    BY <1>1, <1>10, UpdateEdits DEF Contract!Next
  <1>11. ASSUME NEW c \in Callers, DeleteQuestion(c)
         PROVE  Done
    BY <1>1, <1>11, DeleteDrops DEF Contract!Next
  <1>12. ASSUME NEW c \in Callers, CommitImport(c)
         PROVE  Done
    BY <1>1, <1>12, CommitImports DEF Contract!Next
  <1>13. ASSUME NEW c \in Callers, DeleteQuiz(c)
         PROVE  Done
    <2>1. quiz.status = "draft" /\ versions = <<>>
      BY <1>1, <1>13 DEF DeleteQuiz, LocksHold, Cascades
    <2>2. quiz'.status = "gone"
      BY <1>1, <1>13 DEF DeleteQuiz, Typed
    <2>3. questions' = <<>> /\ versions' = versions
      BY <1>13 DEF DeleteQuiz
    <2>4. Taken' = {}
      BY <1>13 DEF DeleteQuiz, Taken
    <2>5. List' = <<>>
      BY <2>3, Empties, ListIs
    <2>6. Contract!Scrap
      BY <2>1, <2>2, <2>3, <2>4, <2>5, Seen DEF Contract!Scrap, Taken
    <2>7. QED
      BY <2>6 DEF Contract!Next
  <1>14. ASSUME NEW w \in Workers, TakeJob(w) \/ CompleteJob(w) \/ Crash(w)
         PROVE  Done
    BY <1>2, <1>14 DEF TakeJob, CompleteJob, Crash, tables
  <1>15. ASSUME NEW w \in Workers, ValidateImport(w)
         PROVE  Done
    <2> DEFINE i == run[w].import
    <2>1. PICK o \in Outcomes(i) : imports' = [imports EXCEPT ![i] = IF @ = "gone" THEN "gone" ELSE o]
      BY <1>15 DEF ValidateImport
    <2>2. UNCHANGED <<quiz, questions, versions>> /\ run[w].at = "parsing"
      BY <1>15 DEF ValidateImport
    <2>3. i \in Imports /\ imports[i] \in {"validating", "gone"}
      BY <1>1, <2>2 DEF OneRunner
    <2>4. o # "committed"
      BY DEF Outcomes
    <2> HIDE DEF i
    <2>5. \A j \in Imports : imports'[j] = "committed" <=> imports[j] = "committed"
      BY <1>1, <2>1, <2>3, <2>4 DEF Typed
    <2>6. QED
      BY <2>2, <2>5, Stutters DEF Taken
  <1>16. CASE BreakDeadlock \/ UNCHANGED vars
    BY <1>2, <1>16 DEF BreakDeadlock, tables, vars
  <1>17. QED
    BY <1>3, <1>4, <1>5, <1>6, <1>7, <1>8, <1>9, <1>10, <1>11, <1>12, <1>13, <1>14, <1>15, <1>16
    DEF Next, Teacher, Proceed, Work

\* Question authoring is a list that only a draft changes: with requests that wait
\* for locks, deadlocks, lost workers and jobs that run again, an import is appended
\* whole and at most once, a version is the list as it stood and stays for ever, and
\* a quiz with a version is never deleted (service.go, importworker.go and the
\* publish and cancel of lifecycle.go).
THEOREM AuthoringImplementsOutline == Spec => ImplementsOutline
  <1>1. Init => Contract!Init
    <2> SUFFICES ASSUME Init
                 PROVE  Contract!Init
      OBVIOUS
    <2>1. List = <<>>
      BY Empties, ListIs DEF Init
    <2>2. quiz.status = "draft" /\ versions = <<>> /\ Taken = {}
      BY DEF Init, Taken
    <2>3. QED
      BY <2>1, <2>2, Seen DEF Contract!Init, Taken
  <1>2. AuthoringInv /\ [Next]_vars => [Contract!Next]_(Contract!vars)
    BY StepImplements
  <1>3. QED
    BY <1>1, <1>2, AuthoringInductive, PTL DEF Spec, ImplementsOutline, Contract!Spec
=============================================================================
