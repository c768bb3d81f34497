---------------------------- MODULE MarkingProofs ----------------------------
(***************************************************************************)
(* Theorems about what a quiz makes of its answers, for every question a   *)
(* teacher may send, every import file and any number of students.         *)
(***************************************************************************)
EXTENDS Results, FunctionTheorems, SequenceTheorems, FiniteSetTheorems, TLAPS

-----------------------------------------------------------------------------
(* Sums over finite sets.                                                  *)

\* The sum of f over S, and what the fold of the library says of it.
Unfolds(it, f, S) ==
  it = [s \in SUBSET S |-> IF s = {} THEN 0
                           ELSE LET x == CHOOSE x \in s : TRUE IN f[x] + it[s \ {x}]]

\* Among sets of subsets of a finite set there is a smallest one.
LEMMA Smallest ==
  ASSUME NEW S, IsFiniteSet(S), NEW Family \in SUBSET SUBSET S, Family # {}
  PROVE  \E T \in Family : \A U \in Family : U \subseteq T => U = T
  <1>1. Family \subseteq FiniteSubsetsOf(S)
    BY FS_FiniteSubsetsOfFinite
  <1>2. IsWellFoundedOn(StrictSubsetOrdering(S), FiniteSubsetsOf(S))
    BY FS_StrictSubsetOrderingWellFounded
  <1>3. \E T \in Family : \A U \in Family : ~(<<U, T>> \in StrictSubsetOrdering(S))
    BY <1>1, <1>2, WFMin
  <1>4. QED
    BY <1>3 DEF StrictSubsetOrdering

\* Induction over the subsets of a finite set: Good is the set of those that have the property.
LEMMA OneByOne ==
  ASSUME NEW S, IsFiniteSet(S), NEW Good, {} \in Good,
         \A T \in SUBSET S : \A x \in S \ T : T \in Good => T \cup {x} \in Good
  PROVE  S \in Good
  <1> DEFINE Bad == {T \in SUBSET S : T \notin Good}
  <1>1. SUFFICES Bad = {}
    OBVIOUS
  <1>2. SUFFICES ASSUME Bad # {}
                 PROVE  FALSE
    OBVIOUS
  <1>3. PICK T \in Bad : \A U \in Bad : U \subseteq T => U = T
    <2>1. Bad \in SUBSET SUBSET S
      OBVIOUS
    <2> HIDE DEF Bad
    <2>2. QED
      BY <1>2, <2>1, Smallest
  <1>4. PICK x \in T : TRUE
    OBVIOUS
  <1>5. T \ {x} \in Good
    BY <1>3
  <1>6. (T \ {x}) \cup {x} = T
    OBVIOUS
  <1>7. QED
    BY <1>5, <1>6

\* Two unfoldings agree where both are defined.
LEMMA UnfoldingsAgree ==
  ASSUME NEW f, NEW S, NEW T, IsFiniteSet(S), NEW it, NEW jt, Unfolds(it, f, S), Unfolds(jt, f, T),
         NEW u \in SUBSET (S \cap T)
  PROVE  it[u] = jt[u]
  <1> DEFINE Bad == {v \in SUBSET (S \cap T) : it[v] # jt[v]}
  <1>1. SUFFICES ASSUME Bad # {}
                 PROVE  FALSE
    OBVIOUS
  <1>2. PICK v \in Bad : \A w \in Bad : w \subseteq v => w = v
    <2>1. Bad \in SUBSET SUBSET S
      OBVIOUS
    <2> HIDE DEF Bad
    <2>2. QED
      BY <1>1, <2>1, Smallest
  <1> DEFINE x == CHOOSE x \in v : TRUE
  <1>3. v # {}
    BY DEF Unfolds
  <1>4. x \in v
    BY <1>3
  <1> HIDE DEF x
  <1>5. it[v] = f[x] + it[v \ {x}] /\ jt[v] = f[x] + jt[v \ {x}]
    BY <1>3 DEF Unfolds, x
  <1>6. v \ {x} \notin Bad
    BY <1>2, <1>4
  <1>7. QED
    BY <1>5, <1>6

LEMMA Unfolding ==
  ASSUME NEW f, NEW S, IsFiniteSet(S)
  PROVE  \E it : Unfolds(it, f, S)
  <1> DEFINE Bad == {T \in SUBSET S : \A it : ~Unfolds(it, f, T)}
  <1>1. SUFFICES ASSUME Bad # {}
                 PROVE  FALSE
    OBVIOUS
  <1>2. PICK T \in Bad : \A U \in Bad : U \subseteq T => U = T
    <2>1. Bad \in SUBSET SUBSET S
      OBVIOUS
    <2> HIDE DEF Bad
    <2>2. QED
      BY <1>1, <2>1, Smallest
  <1> DEFINE Fold(s) == CHOOSE it : Unfolds(it, f, s)
             c == CHOOSE c \in T : TRUE
             whole == IF T = {} THEN 0 ELSE f[c] + Fold(T \ {c})[T \ {c}]
             jt == [s \in SUBSET T |-> IF s = T THEN whole ELSE Fold(s)[s]]
  <1>3. \A s \in SUBSET T : s # T => Unfolds(Fold(s), f, s)
    <2>1. \A s \in SUBSET T : s # T => \E it : Unfolds(it, f, s)
      BY <1>2
    <2>2. QED
      BY <2>1
  <1>4. \A s \in SUBSET T : IsFiniteSet(s)
    BY FS_Subset
  <1> HIDE DEF Fold
  <1>5. ASSUME NEW s \in SUBSET T
        PROVE  jt[s] = IF s = {} THEN 0 ELSE LET x == CHOOSE x \in s : TRUE IN f[x] + jt[s \ {x}]
    <2>1. CASE s = T
      <3>1. T # {} => c \in T
        OBVIOUS
      <3> HIDE DEF c
      <3>2. T # {} => jt[T \ {c}] = Fold(T \ {c})[T \ {c}]
        BY <3>1
      <3>3. jt[T] = IF T = {} THEN 0 ELSE f[c] + jt[T \ {c}]
        BY <3>2
      <3> HIDE DEF jt
      <3>4. QED
        BY <2>1, <3>3 DEF c
    <2>2. CASE s # T
      <3> DEFINE x == CHOOSE x \in s : TRUE
      <3>1. Unfolds(Fold(s), f, s)
        BY <1>3, <2>2
      <3>2. jt[s] = Fold(s)[s]
        BY <2>2
      <3>3. Fold(s)[s] = IF s = {} THEN 0 ELSE f[x] + Fold(s)[s \ {x}]
        BY <3>1 DEF Unfolds
      <3>4. s # {} => x \in s
        OBVIOUS
      <3> HIDE DEF x
      <3>5. ASSUME s # {}
            PROVE  Fold(s)[s \ {x}] = jt[s \ {x}]
        <4>1. s \ {x} # T /\ s \ {x} \subseteq T
          BY <2>2
        <4>2. Unfolds(Fold(s \ {x}), f, s \ {x})
          BY <1>3, <4>1
        <4>3. Fold(s)[s \ {x}] = Fold(s \ {x})[s \ {x}]
          BY <1>4, <3>1, <4>2, UnfoldingsAgree
        <4>4. QED
          BY <4>1, <4>3
      <3>6. jt[s] = IF s = {} THEN 0 ELSE f[x] + jt[s \ {x}]
        BY <3>2, <3>3, <3>5
      <3> HIDE DEF jt
      <3>7. QED
        BY <3>6 DEF x
    <2>3. QED
      BY <2>1, <2>2
  <1>6. jt = [s \in SUBSET T |-> jt[s]]
    OBVIOUS
  <1> HIDE DEF jt
  <1>7. Unfolds(jt, f, T)
    BY <1>5, <1>6 DEF Unfolds
  <1>8. QED
    BY <1>7

\* The library's fold is one.
LEMMA SumIsUnfolding ==
  ASSUME NEW f, NEW S, NEW it, Unfolds(it, f, S)
  PROVE  \E jt : Unfolds(jt, f, S) /\ SumOf(f, S) = jt[S]
  BY DEF SumOf, MapThenSumSet, MapThenFoldSet, Unfolds

LEMMA SumUnfolds ==
  ASSUME NEW f, NEW S, IsFiniteSet(S), NEW it, Unfolds(it, f, S)
  PROVE  \A T \in SUBSET S : SumOf(f, T) = it[T]
  <1> SUFFICES ASSUME NEW T \in SUBSET S
               PROVE  SumOf(f, T) = it[T]
    OBVIOUS
  <1>1. IsFiniteSet(T)
    BY FS_Subset
  <1>2. PICK kt : Unfolds(kt, f, T)
    BY <1>1, Unfolding
  <1>3. \E jt : Unfolds(jt, f, T) /\ SumOf(f, T) = jt[T]
    BY <1>2, SumIsUnfolding
  <1>4. PICK jt : Unfolds(jt, f, T) /\ SumOf(f, T) = jt[T]
    BY <1>3
  <1>5. QED
    BY <1>4, UnfoldingsAgree

\* The library takes one element out of the set, and sums the rest.
LEMMA SumStep ==
  ASSUME NEW f, NEW S, IsFiniteSet(S)
  PROVE  /\ SumOf(f, {}) = 0
         /\ \A T \in SUBSET S : T # {} => \E c \in T : SumOf(f, T) = f[c] + SumOf(f, T \ {c})
  <1>1. PICK it : Unfolds(it, f, S)
    BY Unfolding
  <1>2. \A T \in SUBSET S : SumOf(f, T) = it[T]
    BY <1>1, SumUnfolds
  <1>3. SumOf(f, {}) = 0
    BY <1>1, <1>2 DEF Unfolds
  <1>4. ASSUME NEW T \in SUBSET S, T # {}
        PROVE  \E c \in T : SumOf(f, T) = f[c] + SumOf(f, T \ {c})
    <2> DEFINE c == CHOOSE c \in T : TRUE
    <2>1. c \in T
      BY <1>4
    <2>2. it[T] = f[c] + it[T \ {c}]
      BY <1>1, <1>4 DEF Unfolds
    <2> HIDE DEF c
    <2>3. QED
      BY <1>2, <2>1, <2>2
  <1>5. QED
    BY <1>3, <1>4

\* Sums of integers are integers.
LEMMA SumType ==
  ASSUME NEW S, IsFiniteSet(S), NEW f, \A x \in S : f[x] \in Int
  PROVE  \A T \in SUBSET S : SumOf(f, T) \in Int
  <1> DEFINE Bad == {T \in SUBSET S : SumOf(f, T) \notin Int}
  <1>1. SUFFICES ASSUME Bad # {}
                 PROVE  FALSE
    OBVIOUS
  <1>2. PICK T \in Bad : \A U \in Bad : U \subseteq T => U = T
    <2>1. Bad \in SUBSET SUBSET S
      OBVIOUS
    <2> HIDE DEF Bad
    <2>2. QED
      BY <1>1, <2>1, Smallest
  <1>3. T # {}
    BY SumStep
  <1>4. PICK c \in T : SumOf(f, T) = f[c] + SumOf(f, T \ {c})
    BY <1>3, SumStep
  <1>5. SumOf(f, T \ {c}) \in Int
    BY <1>2
  <1>6. QED
    BY <1>4, <1>5

\* Whichever element is taken out first.
LEMMA SumAny ==
  ASSUME NEW S, IsFiniteSet(S), NEW f, \A x \in S : f[x] \in Int
  PROVE  \A T \in SUBSET S : \A x \in T : SumOf(f, T) = f[x] + SumOf(f, T \ {x})
  <1> DEFINE Bad == {T \in SUBSET S : \E x \in T : SumOf(f, T) # f[x] + SumOf(f, T \ {x})}
  <1>1. SUFFICES ASSUME Bad # {}
                 PROVE  FALSE
    OBVIOUS
  <1>2. PICK T \in Bad : \A U \in Bad : U \subseteq T => U = T
    <2>1. Bad \in SUBSET SUBSET S
      OBVIOUS
    <2> HIDE DEF Bad
    <2>2. QED
      BY <1>1, <2>1, Smallest
  <1>3. PICK x \in T : SumOf(f, T) # f[x] + SumOf(f, T \ {x})
    OBVIOUS
  <1>4. PICK c \in T : SumOf(f, T) = f[c] + SumOf(f, T \ {c})
    BY SumStep
  <1>5. c # x
    BY <1>3, <1>4
  <1>a. \A U \in SUBSET T : U # T => \A y \in U : SumOf(f, U) = f[y] + SumOf(f, U \ {y})
    BY <1>2
  <1>6. SumOf(f, T \ {c}) = f[x] + SumOf(f, (T \ {c}) \ {x})
    <2>1. T \ {c} \in SUBSET T /\ T \ {c} # T /\ x \in T \ {c}
      BY <1>5
    <2> HIDE DEF Bad
    <2>2. QED
      BY <1>a, <2>1
  <1>7. SumOf(f, T \ {x}) = f[c] + SumOf(f, (T \ {x}) \ {c})
    <2>1. T \ {x} \in SUBSET T /\ T \ {x} # T /\ c \in T \ {x}
      BY <1>5
    <2> HIDE DEF Bad
    <2>2. QED
      BY <1>a, <2>1
  <1>8. (T \ {c}) \ {x} = (T \ {x}) \ {c}
    OBVIOUS
  <1> DEFINE rest == SumOf(f, (T \ {x}) \ {c})
  <1>9. rest \in Int /\ f[x] \in Int /\ f[c] \in Int
    BY SumType
  <1>10. f[c] + (f[x] + rest) = f[x] + (f[c] + rest)
    <2> HIDE DEF rest
    <2>1. QED
      BY <1>9
  <1>11. QED
    BY <1>3, <1>4, <1>6, <1>7, <1>8, <1>10

\* One element more.
LEMMA SumAdd ==
  ASSUME NEW S, IsFiniteSet(S), NEW f, \A x \in S : f[x] \in Int
  PROVE  \A T \in SUBSET S : \A x \in S \ T : SumOf(f, T \cup {x}) = f[x] + SumOf(f, T)
  <1> SUFFICES ASSUME NEW T \in SUBSET S, NEW x \in S \ T
               PROVE  SumOf(f, T \cup {x}) = f[x] + SumOf(f, T)
    OBVIOUS
  <1>1. T \cup {x} \in SUBSET S /\ x \in T \cup {x} /\ (T \cup {x}) \ {x} = T
    OBVIOUS
  <1>2. SumOf(f, T \cup {x}) = f[x] + SumOf(f, (T \cup {x}) \ {x})
    BY <1>1, SumAny
  <1>3. QED
    BY <1>1, <1>2

\* A sum is the sum of what is added.
LEMMA SumSame ==
  ASSUME NEW S, IsFiniteSet(S), NEW f, NEW g, \A x \in S : f[x] \in Int /\ g[x] = f[x]
  PROVE  SumOf(g, S) = SumOf(f, S)
  <1> DEFINE Good == {T \in SUBSET S : SumOf(g, T) = SumOf(f, T)}
  <1>1. {} \in Good
    BY SumStep
  <1>2. ASSUME NEW T \in SUBSET S, NEW x \in S \ T, T \in Good
        PROVE  T \cup {x} \in Good
    <2>1. SumOf(g, T \cup {x}) = g[x] + SumOf(g, T)
      BY SumAdd
    <2>2. SumOf(f, T \cup {x}) = f[x] + SumOf(f, T)
      BY SumAdd
    <2>3. QED
      BY <1>2, <2>1, <2>2
  <1>3. S \in Good
    <2> HIDE DEF Good
    <2>1. QED
      BY <1>1, <1>2, OneByOne
  <1>4. QED
    BY <1>3

\* Larger terms, a larger sum.
LEMMA SumMonotone ==
  ASSUME NEW S, IsFiniteSet(S), NEW f, NEW g, \A x \in S : f[x] \in Int /\ g[x] \in Int /\ f[x] <= g[x]
  PROVE  SumOf(f, S) <= SumOf(g, S)
  <1> DEFINE Good == {T \in SUBSET S : SumOf(f, T) <= SumOf(g, T)}
  <1>1. {} \in Good
    BY SumStep
  <1>2. ASSUME NEW T \in SUBSET S, NEW x \in S \ T, T \in Good
        PROVE  T \cup {x} \in Good
    <2>1. SumOf(g, T \cup {x}) = g[x] + SumOf(g, T)
      BY SumAdd
    <2>2. SumOf(f, T \cup {x}) = f[x] + SumOf(f, T)
      BY SumAdd
    <2>3. SumOf(f, T) \in Int /\ SumOf(g, T) \in Int
      BY SumType
    <2>4. QED
      BY <1>2, <2>1, <2>2, <2>3
  <1>3. S \in Good
    <2> HIDE DEF Good
    <2>1. QED
      BY <1>1, <1>2, OneByOne
  <1>4. QED
    BY <1>3

\* Two parts of a sum.
LEMMA SumParts ==
  ASSUME NEW S, IsFiniteSet(S), NEW f, \A x \in S : f[x] \in Int, NEW T \in SUBSET S
  PROVE  SumOf(f, S) = SumOf(f, T) + SumOf(f, S \ T)
  <1> DEFINE Good == {U \in SUBSET (S \ T) : SumOf(f, T \cup U) = SumOf(f, T) + SumOf(f, U)}
  <1>1. {} \in Good
    <2>1. T \cup {} = T /\ SumOf(f, {}) = 0 /\ SumOf(f, T) \in Int
      BY SumStep, SumType
    <2>2. QED
      BY <2>1
  <1>2. ASSUME NEW U \in SUBSET (S \ T), NEW x \in (S \ T) \ U, U \in Good
        PROVE  U \cup {x} \in Good
    <2>1. SumOf(f, (T \cup U) \cup {x}) = f[x] + SumOf(f, T \cup U)
      <3>1. T \cup U \in SUBSET S /\ x \in S \ (T \cup U)
        OBVIOUS
      <3>2. QED
        BY <3>1, SumAdd
    <2>2. SumOf(f, U \cup {x}) = f[x] + SumOf(f, U)
      <3>1. U \in SUBSET S /\ x \in S \ U
        OBVIOUS
      <3>2. QED
        BY <3>1, SumAdd
    <2>3. SumOf(f, T) \in Int /\ SumOf(f, U) \in Int /\ f[x] \in Int
      BY SumType
    <2>4. (T \cup U) \cup {x} = T \cup (U \cup {x})
      OBVIOUS
    <2>5. SumOf(f, T \cup U) = SumOf(f, T) + SumOf(f, U)
      BY <1>2
    <2>6. f[x] + (SumOf(f, T) + SumOf(f, U)) = SumOf(f, T) + (f[x] + SumOf(f, U))
      BY <2>3
    <2>7. SumOf(f, T \cup (U \cup {x})) = SumOf(f, T) + SumOf(f, U \cup {x})
      BY <2>1, <2>2, <2>4, <2>5, <2>6
    <2>8. QED
      BY <2>7
  <1>3. S \ T \in Good
    <2>1. IsFiniteSet(S \ T)
      BY FS_Subset
    <2> HIDE DEF Good
    <2>2. QED
      BY <1>1, <1>2, <2>1, OneByOne
  <1>4. T \cup (S \ T) = S
    OBVIOUS
  <1>5. QED
    BY <1>3, <1>4

\* The sum of nothing but zeros.
LEMMA SumZeros ==
  ASSUME NEW S, IsFiniteSet(S), NEW f, \A x \in S : f[x] = 0
  PROVE  SumOf(f, S) = 0
  <1> DEFINE Good == {T \in SUBSET S : SumOf(f, T) = 0}
  <1>1. {} \in Good
    BY SumStep
  <1>2. ASSUME NEW T \in SUBSET S, NEW x \in S \ T, T \in Good
        PROVE  T \cup {x} \in Good
    <2>1. SumOf(f, T \cup {x}) = f[x] + SumOf(f, T)
      BY SumAdd
    <2>2. QED
      BY <1>2, <2>1
  <1>3. S \in Good
    <2> HIDE DEF Good
    <2>1. QED
      BY <1>1, <1>2, OneByOne
  <1>4. QED
    BY <1>3

\* The sum of natural numbers, over a set and over a part of it.
LEMMA SumNat ==
  ASSUME NEW S, IsFiniteSet(S), NEW f, \A x \in S : f[x] \in Nat
  PROVE  \A T \in SUBSET S : SumOf(f, T) \in Nat /\ SumOf(f, T) <= SumOf(f, S)
  <1>1. ASSUME NEW T \in SUBSET S
        PROVE  SumOf(f, T) \in Nat
    <2> DEFINE zero == [x \in T |-> 0]
    <2>1. IsFiniteSet(T)
      BY FS_Subset
    <2>2. SumOf(zero, T) = 0
      BY <2>1, SumZeros
    <2>3. SumOf(zero, T) <= SumOf(f, T)
      <3>1. \A x \in T : zero[x] \in Int /\ f[x] \in Int /\ zero[x] <= f[x]
        OBVIOUS
      <3> HIDE DEF zero
      <3>2. QED
        BY <2>1, <3>1, SumMonotone
    <2>4. SumOf(f, T) \in Int
      BY SumType
    <2>5. QED
      BY <2>2, <2>3, <2>4
  <1>2. ASSUME NEW T \in SUBSET S
        PROVE  SumOf(f, T) <= SumOf(f, S)
    <2>1. SumOf(f, S) = SumOf(f, T) + SumOf(f, S \ T)
      BY SumParts
    <2>2. SumOf(f, T) \in Nat /\ SumOf(f, S \ T) \in Nat
      BY <1>1
    <2>3. QED
      BY <2>1, <2>2
  <1>3. QED
    BY <1>1, <1>2

\* What is summed in another order, or under other names.
LEMMA SumRenamed ==
  ASSUME NEW A, IsFiniteSet(A), NEW S, NEW name \in Bijection(A, S), NEW f, \A x \in S : f[x] \in Int
  PROVE  SumOf([k \in A |-> f[name[k]]], A) = SumOf(f, S)
  <1> DEFINE g == [k \in A |-> f[name[k]]]
             Names(K) == {name[k] : k \in K}
             Good == {K \in SUBSET A : SumOf(g, K) = SumOf(f, Names(K))}
  <1>1. name \in [A -> S] /\ (\A j, k \in A : name[j] = name[k] => j = k) /\ Names(A) = S
    BY DEF Bijection, Injection, Surjection, IsInjective
  <1>2. IsFiniteSet(S)
    BY FS_Surjection DEF Bijection
  <1>3. {} \in Good
    <2>1. Names({}) = {}
      OBVIOUS
    <2>2. SumOf(g, {}) = 0
      BY SumStep
    <2>3. SumOf(f, {}) = 0
      BY <1>2, SumStep
    <2>4. QED
      BY <2>1, <2>2, <2>3
  <1>4. ASSUME NEW K \in SUBSET A, NEW k \in A \ K, K \in Good
        PROVE  K \cup {k} \in Good
    <2>1. \A j \in A : g[j] \in Int
      BY <1>1
    <2>2. SumOf(g, K \cup {k}) = g[k] + SumOf(g, K)
      <3> HIDE DEF g
      <3>1. QED
        BY <2>1, SumAdd
    <2>3. Names(K) \in SUBSET S /\ name[k] \in S \ Names(K)
      BY <1>1
    <2>4. SumOf(f, Names(K) \cup {name[k]}) = f[name[k]] + SumOf(f, Names(K))
      <3> HIDE DEF Names
      <3>1. QED
        BY <1>2, <2>3, SumAdd
    <2>5. Names(K \cup {k}) = Names(K) \cup {name[k]}
      OBVIOUS
    <2>6. g[k] = f[name[k]]
      OBVIOUS
    <2>7. SumOf(g, K) = SumOf(f, Names(K))
      BY <1>4
    <2> HIDE DEF g, Names
    <2>8. SumOf(g, K \cup {k}) = SumOf(f, Names(K \cup {k}))
      BY <2>2, <2>4, <2>5, <2>6, <2>7
    <2>9. QED
      BY <2>8
  <1>5. A \in Good
    <2> HIDE DEF Good
    <2>1. QED
      BY <1>3, <1>4, OneByOne
  <1>6. QED
    BY <1>1, <1>5

\* A histogram counts everything once.
LEMMA SumCounts ==
  ASSUME NEW S, IsFiniteSet(S), NEW B, IsFiniteSet(B), NEW f, \A x \in S : f[x] \in B
  PROVE  SumOf([b \in B |-> Cardinality({x \in S : f[x] = b})], B) = Cardinality(S)
  <1> DEFINE Of(b) == {x \in S : f[x] = b}
             In(C) == {x \in S : f[x] \in C}
             count == [b \in B |-> Cardinality(Of(b))]
             Good == {C \in SUBSET B : SumOf(count, C) = Cardinality(In(C))}
  <1>1. \A b : IsFiniteSet(Of(b)) /\ Cardinality(Of(b)) \in Nat
    BY FS_Subset, FS_CardinalityType
  <1>2. \A C : IsFiniteSet(In(C)) /\ Cardinality(In(C)) \in Nat
    BY FS_Subset, FS_CardinalityType
  <1>3. {} \in Good
    <2>1. In({}) = {}
      OBVIOUS
    <2>2. SumOf(count, {}) = 0
      BY SumStep
    <2>3. QED
      BY <2>1, <2>2, FS_EmptySet
  <1>4. ASSUME NEW C \in SUBSET B, NEW b \in B \ C, C \in Good
        PROVE  C \cup {b} \in Good
    <2>1. \A c \in B : count[c] \in Int
      BY <1>1
    <2>2. SumOf(count, C \cup {b}) = count[b] + SumOf(count, C)
      <3> HIDE DEF count
      <3>1. QED
        BY <2>1, SumAdd
    <2>3. In(C \cup {b}) = In(C) \cup Of(b) /\ In(C) \cap Of(b) = {}
      OBVIOUS
    <2>4. count[b] = Cardinality(Of(b)) /\ SumOf(count, C) = Cardinality(In(C))
      BY <1>4
    <2> HIDE DEF In, Of, count
    <2>5. Cardinality(In(C) \cup Of(b))
            = Cardinality(In(C)) + Cardinality(Of(b)) - Cardinality(In(C) \cap Of(b))
      BY <1>1, <1>2, FS_Union
    <2>a. Cardinality(In(C) \cap Of(b)) = 0
      BY <2>3, FS_EmptySet
    <2>6. Cardinality(In(C \cup {b})) = Cardinality(In(C)) + Cardinality(Of(b))
      <3>1. Cardinality(In(C)) \in Nat /\ Cardinality(Of(b)) \in Nat
        BY <1>1, <1>2
      <3>2. Cardinality(In(C \cup {b})) = Cardinality(In(C) \cup Of(b))
        BY <2>3
      <3>3. QED
        BY <2>5, <2>a, <3>1, <3>2
    <2>7. SumOf(count, C \cup {b}) = Cardinality(In(C \cup {b}))
      BY <1>1, <1>2, <2>2, <2>4, <2>6
    <2>8. QED
      BY <2>7
  <1>5. B \in Good
    <2> HIDE DEF Good
    <2>1. QED
      BY <1>3, <1>4, OneByOne
  <1>6. In(B) = S
    OBVIOUS
  <1>7. QED
    BY <1>5, <1>6

-----------------------------------------------------------------------------
(* Sets in order.                                                          *)

\* R is a strict total order of S.
Orders(R, S) ==
  /\ \A x \in S : <<x, x>> \notin R
  /\ \A x, y \in S : x # y => <<x, y>> \in R \/ <<y, x>> \in R
  /\ \A x, y, z \in S : <<x, y>> \in R /\ <<y, z>> \in R => <<x, z>> \in R

Sorted(seq, R, S) ==
  /\ seq \in [1 .. Cardinality(S) -> S]
  /\ \A j, k \in 1 .. Cardinality(S) : j < k => <<seq[j], seq[k]>> \in R

LEMMA LastOfOrder ==
  ASSUME NEW S, IsFiniteSet(S), NEW R, Orders(R, S)
  PROVE  S # {} => \E m \in S : \A x \in S : x # m => <<x, m>> \in R
  <1> DEFINE Good == {T \in SUBSET S : T # {} => \E m \in T : \A x \in T : x # m => <<x, m>> \in R}
  <1>1. {} \in Good
    OBVIOUS
  <1>2. ASSUME NEW T \in SUBSET S, NEW y \in S \ T, T \in Good
        PROVE  T \cup {y} \in Good
    <2>1. CASE T = {}
      <3>1. \A x \in T \cup {y} : x = y
        BY <2>1
      <3>2. QED
        BY <3>1
    <2>2. CASE T # {}
      <3>1. PICK m \in T : \A x \in T : x # m => <<x, m>> \in R
        BY <1>2, <2>2
      <3>2. CASE <<m, y>> \in R
        <4>1. \A x \in T \cup {y} : x # y => <<x, y>> \in R
          BY <3>1, <3>2 DEF Orders
        <4>2. QED
          BY <4>1
      <3>3. CASE <<y, m>> \in R
        <4>1. \A x \in T \cup {y} : x # m => <<x, m>> \in R
          BY <3>1, <3>3
        <4>2. QED
          BY <4>1
      <3>4. QED
        BY <3>1, <3>2, <3>3 DEF Orders
    <2>3. QED
      BY <2>1, <2>2
  <1>3. S \in Good
    <2> HIDE DEF Good
    <2>1. QED
      BY <1>1, <1>2, OneByOne
  <1>4. QED
    BY <1>3

\* A finite set can be written down in order.
LEMMA InOrderExists ==
  ASSUME NEW S, IsFiniteSet(S), NEW R, Orders(R, S)
  PROVE  \E seq : Sorted(seq, R, S)
  <1> DEFINE Bad == {T \in SUBSET S : \A seq : ~Sorted(seq, R, T)}
  <1>1. SUFFICES ASSUME Bad # {}
                 PROVE  FALSE
    OBVIOUS
  <1>2. PICK T \in Bad : \A U \in Bad : U \subseteq T => U = T
    <2>1. Bad \in SUBSET SUBSET S
      OBVIOUS
    <2> HIDE DEF Bad
    <2>2. QED
      BY <1>1, <2>1, Smallest
  <1>3. IsFiniteSet(T) /\ Orders(R, T)
    BY FS_Subset DEF Orders
  <1>4. T # {}
    <2>1. ASSUME T = {}
          PROVE  FALSE
      <3>1. Cardinality(T) = 0
        BY <2>1, FS_EmptySet
      <3>2. 1 .. Cardinality(T) = {}
        BY <3>1
      <3>3. [x \in {} |-> x] \in [{} -> T]
        OBVIOUS
      <3>4. Sorted([x \in {} |-> x], R, T)
        BY <3>2, <3>3 DEF Sorted
      <3>5. QED
        BY <3>4
    <2>2. QED
      BY <2>1
  <1>5. PICK m \in T : \A x \in T : x # m => <<x, m>> \in R
    BY <1>3, <1>4, LastOfOrder
  <1> DEFINE U == T \ {m}
             n == Cardinality(U)
  <1>6. U \notin Bad
    BY <1>2
  <1>7. PICK seq : Sorted(seq, R, U)
    BY <1>6
  <1>8. n \in Nat /\ Cardinality(T) = n + 1
    <2>1. IsFiniteSet(U) /\ n = Cardinality(T) - 1
      BY <1>3, FS_RemoveElement
    <2>2. n \in Nat /\ Cardinality(T) \in Nat
      BY <1>3, <2>1, FS_CardinalityType
    <2>3. QED
      BY <2>1, <2>2
  <1>9. seq \in [1 .. n -> U] /\ \A j, k \in 1 .. n : j < k => <<seq[j], seq[k]>> \in R
    BY <1>7 DEF Sorted
  <1> HIDE DEF n
  <1> DEFINE more == [k \in 1 .. n + 1 |-> IF k = n + 1 THEN m ELSE seq[k]]
  <1>10. more \in [1 .. n + 1 -> T]
    BY <1>8, <1>9
  <1>11. ASSUME NEW j \in 1 .. n + 1, NEW k \in 1 .. n + 1, j < k
         PROVE  <<more[j], more[k]>> \in R
    <2>1. j \in 1 .. n /\ more[j] = seq[j]
      BY <1>8, <1>11
    <2>2. CASE k = n + 1
      <3>1. seq[j] \in T /\ seq[j] # m
        BY <1>9, <2>1
      <3>2. QED
        BY <1>5, <2>1, <2>2, <3>1
    <2>3. CASE k # n + 1
      <3>1. k \in 1 .. n /\ more[k] = seq[k]
        BY <1>8, <2>3
      <3>2. QED
        BY <1>9, <1>11, <2>1, <3>1
    <2>4. QED
      BY <2>2, <2>3
  <1> HIDE DEF more
  <1>12. Sorted(more, R, T)
    BY <1>8, <1>10, <1>11 DEF Sorted
  <1>13. QED
    BY <1>12

\* Each member is written down once.
LEMMA SortedOnce ==
  ASSUME NEW S, IsFiniteSet(S), NEW R, Orders(R, S), NEW seq, Sorted(seq, R, S)
  PROVE  seq \in Bijection(1 .. Cardinality(S), S)
  <1> DEFINE n == Cardinality(S)
  <1>1. n \in Nat /\ IsFiniteSet(1 .. n) /\ Cardinality(1 .. n) = n
    BY FS_CardinalityType, FS_Interval
  <1>2. seq \in [1 .. n -> S] /\ \A j, k \in 1 .. n : j < k => <<seq[j], seq[k]>> \in R
    BY DEF Sorted
  <1> HIDE DEF n
  <1>3. ASSUME NEW j \in 1 .. n, NEW k \in 1 .. n, seq[j] = seq[k]
        PROVE  j = k
    <2>1. <<seq[j], seq[j]>> \notin R
      BY <1>2 DEF Orders
    <2>2. ~(j < k) /\ ~(k < j)
      BY <1>2, <1>3, <2>1
    <2>3. QED
      BY <1>1, <2>2
  <1>4. seq \in Injection(1 .. n, S)
    BY <1>2, <1>3 DEF Injection, IsInjective
  <1>5. seq \in Surjection(1 .. n, S)
    BY <1>1, <1>4, FS_Injection DEF n
  <1>6. QED
    BY <1>4, <1>5 DEF Bijection, n

\* The orders of the model: of the scores, and of a leaderboard.
LEMMA ScoresInOrder ==
  ASSUME NEW scores, DOMAIN scores \subseteq Students, \A s \in DOMAIN scores : scores[s] \in Int
  PROVE  /\ IsFiniteSet(DOMAIN scores)
         /\ ByScore(scores) \in Bijection(1 .. Cardinality(DOMAIN scores), DOMAIN scores)
  <1> DEFINE S == DOMAIN scores
             Before(s, t) == \/ scores[s] < scores[t]
                             \/ scores[s] = scores[t] /\ s < t
             R == {p \in S \X S : Before(p[1], p[2])}
  <1>1. S \subseteq Int /\ IsFiniteSet(S)
    <2>1. IsFiniteSet(Students) /\ Students \subseteq Int
      BY MarkingAssumption, FS_Interval DEF Students
    <2>2. QED
      BY <2>1, FS_Subset
  <1>2. \A s, t \in S : <<s, t>> \in R <=> Before(s, t)
    OBVIOUS
  <1>3. /\ \A s \in S : ~Before(s, s)
        /\ \A s, t \in S : s # t => Before(s, t) \/ Before(t, s)
        /\ \A s, t, u \in S : Before(s, t) /\ Before(t, u) => Before(s, u)
    BY <1>1
  <1>4. Orders(R, S)
    <2> HIDE DEF R, Before, S
    <2>1. QED
      BY <1>2, <1>3 DEF Orders
  <1>5. PICK seq : Sorted(seq, R, S)
    <2> HIDE DEF R, S
    <2>1. QED
      BY <1>1, <1>4, InOrderExists
  <1> DEFINE n == Cardinality(S)
  <1>6. seq \in [1 .. n -> S] /\ \A j, k \in DOMAIN seq : j < k => Before(seq[j], seq[k])
    <2> HIDE DEF R, Before, S
    <2>1. QED
      BY <1>2, <1>5 DEF Sorted
  <1>7. ByScore(scores) \in [1 .. n -> S]
        /\ \A j, k \in DOMAIN ByScore(scores) : j < k => Before(ByScore(scores)[j], ByScore(scores)[k])
    <2> DEFINE Fine(x) == \A j, k \in DOMAIN x : j < k => Before(x[j], x[k])
    <2>1. ByScore(scores) = CHOOSE x \in [1 .. n -> S] : Fine(x)
      BY DEF ByScore, InOrder
    <2>2. seq \in [1 .. n -> S] /\ Fine(seq)
      BY <1>6
    <2> HIDE DEF Fine
    <2>3. ByScore(scores) \in [1 .. n -> S] /\ Fine(ByScore(scores))
      BY <2>1, <2>2
    <2>4. QED
      BY <2>3 DEF Fine
  <1>8. Sorted(ByScore(scores), R, S)
    <2> HIDE DEF R, Before, S
    <2>1. QED
      BY <1>2, <1>7 DEF Sorted
  <1>9. QED
    <2> HIDE DEF R
    <2>1. QED
      BY <1>1, <1>4, <1>8, SortedOnce

LEMMA BoardInOrder ==
  ASSUME NEW board, DOMAIN board \subseteq Students
  PROVE  /\ IsFiniteSet(DOMAIN board)
         /\ Standings(board) \in Bijection(1 .. Cardinality(DOMAIN board), DOMAIN board)
  <1> DEFINE S == DOMAIN board
             Before(s, t) == \/ Rank(board, s) < Rank(board, t)
                             \/ Rank(board, s) = Rank(board, t) /\ s < t
             R == {p \in S \X S : Before(p[1], p[2])}
  <1>1. S \subseteq Int /\ IsFiniteSet(S)
    <2>1. IsFiniteSet(Students) /\ Students \subseteq Int
      BY MarkingAssumption, FS_Interval DEF Students
    <2>2. QED
      BY <2>1, FS_Subset
  <1>a. \A s \in S : Rank(board, s) \in Int
    <2> SUFFICES ASSUME NEW s \in S
                 PROVE  Rank(board, s) \in Int
      OBVIOUS
    <2> DEFINE before == {t \in DOMAIN board : Ahead(board, t, s)}
    <2>1. IsFiniteSet(before)
      BY <1>1, FS_Subset
    <2>2. Cardinality(before) \in Nat
      BY <2>1, FS_CardinalityType
    <2>3. QED
      BY <2>2 DEF Rank
  <1>2. \A s, t \in S : <<s, t>> \in R <=> Before(s, t)
    OBVIOUS
  <1>3. /\ \A s \in S : ~Before(s, s)
        /\ \A s, t \in S : s # t => Before(s, t) \/ Before(t, s)
        /\ \A s, t, u \in S : Before(s, t) /\ Before(t, u) => Before(s, u)
    BY <1>1, <1>a
  <1>4. Orders(R, S)
    <2> HIDE DEF R, Before, S
    <2>1. QED
      BY <1>2, <1>3 DEF Orders
  <1>5. PICK seq : Sorted(seq, R, S)
    <2> HIDE DEF R, S
    <2>1. QED
      BY <1>1, <1>4, InOrderExists
  <1> DEFINE n == Cardinality(S)
  <1>6. seq \in [1 .. n -> S] /\ \A j, k \in DOMAIN seq : j < k => Before(seq[j], seq[k])
    <2> HIDE DEF R, Before, S
    <2>1. QED
      BY <1>2, <1>5 DEF Sorted
  <1>7. Standings(board) \in [1 .. n -> S]
        /\ \A j, k \in DOMAIN Standings(board) :
             j < k => Before(Standings(board)[j], Standings(board)[k])
    <2> DEFINE Fine(x) == \A j, k \in DOMAIN x : j < k => Before(x[j], x[k])
    <2>1. Standings(board) = CHOOSE x \in [1 .. n -> S] : Fine(x)
      BY DEF Standings, InOrder
    <2>2. seq \in [1 .. n -> S] /\ Fine(seq)
      BY <1>6
    <2> HIDE DEF Fine
    <2>3. Standings(board) \in [1 .. n -> S] /\ Fine(Standings(board))
      BY <2>1, <2>2
    <2>4. QED
      BY <2>3 DEF Fine
  <1>8. Sorted(Standings(board), R, S)
    <2> HIDE DEF R, Before, S
    <2>1. QED
      BY <1>2, <1>7 DEF Sorted
  <1>9. QED
    <2> HIDE DEF R
    <2>1. QED
      BY <1>1, <1>4, <1>8, SortedOnce

-----------------------------------------------------------------------------
(* The grader accepts the key that the validator accepted.                 *)

\* The keys of a list without repetitions are as many as the list is long.
LEMMA KeysOfList ==
  ASSUME NEW S, NEW keys \in Seq(S), IsInjective(keys)
  PROVE  Cardinality(Range(keys)) = Len(keys)
  <1>1. keys \in [1 .. Len(keys) -> S] /\ Len(keys) \in Nat /\ DOMAIN keys = 1 .. Len(keys)
    BY LenProperties, SeqDef
  <1>2. keys \in Bijection(1 .. Len(keys), Range(keys))
    BY <1>1 DEF IsInjective, Bijection, Injection, Surjection, Range
  <1>3. ExistsBijection(1 .. Len(keys), Range(keys))
    BY <1>2 DEF ExistsBijection
  <1>4. QED
    BY <1>1, <1>3, FS_CountingElements

\* A true/false cell becomes a boolean, or a string that is none.
LEMMA BoolShapes ==
  ASSUME NEW cell
  PROVE  BoolCorrect(cell)[1] \in {"bool", "string"}
  <1>1. <<"bool", TRUE>>[1] = "bool" /\ <<"bool", FALSE>>[1] = "bool" /\ <<"string", "">>[1] = "string"
    OBVIOUS
  <1> DEFINE yes == <<"bool", TRUE>>
             no == <<"bool", FALSE>>
             other == <<"string", "">>
  <1>2. BoolCorrect(cell) = CASE cell = <<"true">> -> yes [] cell = <<"false">> -> no [] OTHER -> other
    BY Zenon DEF BoolCorrect
  <1>3. <<"true">> # <<"false">>
    OBVIOUS
  <1>4. yes[1] = "bool" /\ no[1] = "bool" /\ other[1] = "string"
    BY <1>1
  <1> HIDE DEF yes, no, other
  <1>5. CASE cell = <<"true">>
    BY <1>2, <1>3, <1>4, <1>5
  <1>6. CASE cell = <<"false">>
    BY <1>2, <1>3, <1>4, <1>6
  <1>7. CASE cell # <<"true">> /\ cell # <<"false">>
    BY <1>2, <1>4, <1>7
  <1>8. QED
    BY <1>5, <1>6, <1>7

\* The fields of a question that is offered.
LEMMA OfferedFields ==
  ASSUME NEW in \in Offered
  PROVE  /\ DOMAIN in = {"text", "type", "options", "correct", "points", "penalty"}
         /\ in.correct[1] \in {"keys", "accepted"} => in.correct[2] \in Seq(STRING)
  <1>1. CASE in \in Inputs
    BY <1>1, InputsAssumption
  <1>2. CASE in \notin Inputs
    <2>1. PICK file \in Files : \E k \in DOMAIN file : in = RowInput(file[k])
      BY <1>2 DEF Offered
    <2>2. PICK k \in DOMAIN file : in = RowInput(file[k])
      BY <2>1
    <2> DEFINE row == file[k]
    <2>3. row.correct \in Seq(STRING)
      BY InputsAssumption
    <2>4. DOMAIN in = {"text", "type", "options", "correct", "points", "penalty"} /\ in.type = row.type
          /\ in.correct = CASE row.type \in {"single", "multi"} -> ChoiceCorrect(row.type, row.correct)
                            [] row.type = "truefalse" -> BoolCorrect(row.correct)
                            [] row.type = "short" -> ShortCorrect(row.correct)
                            [] OTHER -> <<"absent", 0>>
      BY <2>2 DEF RowInput
    <2> HIDE DEF row
    <2>a. ASSUME row.type = "single"
         PROVE  in.correct[1] \in {"keys", "accepted"} => in.correct[2] = row.correct
      <3> DEFINE letter == CASE Len(row.correct) = 0 -> "" [] Len(row.correct) = 1 -> row.correct[1]
                             [] OTHER -> "a,b"
      <3>1. in.correct = <<"string", letter>>
        BY <2>4, <2>a DEF ChoiceCorrect
      <3> HIDE DEF letter
      <3>2. in.correct[1] = "string"
        BY <3>1
      <3>3. QED
        BY <3>2
    <2>b. ASSUME row.type = "multi"
         PROVE  in.correct[1] \in {"keys", "accepted"} => in.correct[2] = row.correct
      <3>1. in.correct = IF row.correct = <<>> THEN <<"null", 0>> ELSE <<"keys", row.correct>>
        BY <2>4, <2>b DEF ChoiceCorrect
      <3>2. QED
        BY <3>1
    <2>c. ASSUME row.type = "truefalse"
         PROVE  in.correct[1] \in {"keys", "accepted"} => in.correct[2] = row.correct
      <3>1. in.correct = BoolCorrect(row.correct)
        BY <2>4, <2>c
      <3>2. in.correct[1] \in {"bool", "string"}
        BY <3>1, BoolShapes
      <3>3. QED
        BY <3>2
    <2>d. ASSUME row.type = "short"
         PROVE  in.correct[1] \in {"keys", "accepted"} => in.correct[2] = row.correct
      <3>1. in.correct = IF row.correct = <<>> THEN <<"absent", 0>> ELSE <<"accepted", row.correct>>
        BY <2>4, <2>d DEF ShortCorrect
      <3>2. QED
        BY <3>1
    <2>e. ASSUME row.type \notin {"single", "multi", "truefalse", "short"}
         PROVE  in.correct[1] \in {"keys", "accepted"} => in.correct[2] = row.correct
      <3>1. in.correct = <<"absent", 0>>
        BY <2>4, <2>e
      <3>2. QED
        BY <3>1
    <2>5. in.correct[1] \in {"keys", "accepted"} => in.correct[2] = row.correct
      BY <2>a, <2>b, <2>c, <2>d, <2>e
    <2>6. QED
      BY <2>3, <2>4, <2>5
  <1>3. QED
    BY <1>1, <1>2

\* What a snapshot makes of an accepted question.
LEMMA ResolvedFields ==
  ASSUME NEW in \in Accepted
  PROVE  /\ Resolved(in).type = in.type
         /\ Resolved(in).correct = in.correct
         /\ Resolved(in).points \in 1 .. MaxPoints
         /\ Resolved(in).penalty \in 0 .. MaxPoints
  <1>1. in \in Offered /\ Valid(in) /\ WithinCheck(in)
    BY DEF Accepted
  <1>2. DOMAIN in = {"text", "type", "options", "correct", "points", "penalty"}
    BY <1>1, OfferedFields
  <1>3. Resolved(in).type = in.type /\ Resolved(in).correct = in.correct
        /\ Resolved(in).points = IF in.points = Inherit THEN DefaultPoints ELSE in.points
    BY <1>2 DEF Resolved
  <1>a. Resolved(in).penalty = IF in.penalty = Inherit THEN DefaultPenalty ELSE in.penalty
    BY <1>2 DEF Resolved
  <1>4. in.points \in {Inherit} \cup (1 .. MaxPoints) /\ in.penalty \in {Inherit} \cup (0 .. MaxPoints)
    BY <1>1 DEF Valid, WithinCheck
  <1>5. DefaultPoints \in 1 .. MaxPoints /\ DefaultPenalty \in 0 .. MaxPoints
    BY MarkingAssumption
  <1>6. Resolved(in).penalty \in 0 .. MaxPoints
    BY <1>a, <1>4, <1>5
  <1>7. QED
    BY <1>3, <1>4, <1>5, <1>6

\* Every accepted question can be earned.
LEMMA KeyIsCorrect ==
  ASSUME NEW in \in Accepted
  PROVE  Correct(Resolved(in), KeyAsResponse(Resolved(in)))
  <1> DEFINE q == Resolved(in)
  <1>1. q.type = in.type /\ q.correct = in.correct
    BY ResolvedFields
  <1>2. in \in Offered /\ ValidCorrect(in)
    BY DEF Accepted, Valid
  <1>3. in.correct[1] \in {"keys", "accepted"} => in.correct[2] \in Seq(STRING)
    BY <1>2, OfferedFields
  <1> HIDE DEF q
  <1>4. CASE in.type = "single"
    BY <1>1, <1>4 DEF Correct, KeyAsResponse, Decodes, Decoded, q
  <1>5. CASE in.type = "truefalse"
    BY <1>1, <1>5 DEF Correct, KeyAsResponse, Decodes, Decoded, q
  <1>6. CASE in.type = "multi"
    <2> DEFINE keys == Decoded(in.correct, "keys")
    <2>1. Decodes(in.correct, "keys") /\ keys # <<>> /\ IsInjective(keys)
      BY <1>2, <1>6 DEF ValidCorrect
    <2>2. in.correct[1] = "keys" /\ keys = in.correct[2]
      BY <2>1 DEF Decodes, Decoded, Zero
    <2>3. Cardinality(Range(keys)) = Len(keys)
      BY <1>3, <2>1, <2>2, KeysOfList
    <2>4. SameKeySet(keys, keys)
      BY <2>1, <2>3 DEF SameKeySet
    <2>5. Decoded(KeyAsResponse(q), "keys") = keys /\ Decodes(KeyAsResponse(q), "keys")
          /\ Decoded(q.correct, "keys") = keys
      BY <1>1, <1>6 DEF KeyAsResponse, Decodes, Decoded
    <2> HIDE DEF keys
    <2>6. QED
      BY <1>1, <1>6, <2>4, <2>5 DEF Correct, q
  <1>7. CASE in.type = "short"
    <2> DEFINE accepted == Decoded(in.correct, "accepted")
    <2>1. Decodes(in.correct, "accepted") /\ accepted # <<>>
      BY <1>2, <1>7 DEF ValidCorrect
    <2>2. in.correct[1] = "accepted" /\ accepted = in.correct[2]
      BY <2>1 DEF Decodes, Decoded, Zero
    <2>3. 1 \in DOMAIN accepted
      BY <1>3, <2>1, <2>2, LenProperties, EmptySeq
    <2>4. KeyAsResponse(q) = <<"string", accepted[1]>> /\ Decoded(q.correct, "accepted") = accepted
      BY <1>1, <1>7 DEF KeyAsResponse
    <2>5. KeyAsResponse(q)[1] = "string" /\ Decoded(KeyAsResponse(q), "string") = accepted[1]
      BY <2>4 DEF Decoded
    <2> HIDE DEF accepted
    <2>6. MatchesShortAnswer(KeyAsResponse(q), accepted)
      BY <2>3, <2>5 DEF MatchesShortAnswer
    <2>7. QED
      BY <1>1, <1>7, <2>4, <2>6 DEF Correct, q
  <1>8. QED
    BY <1>2, <1>4, <1>5, <1>6, <1>7 DEF ValidCorrect, q

-----------------------------------------------------------------------------
(* Only accepted questions are stored.                                     *)

\* The rows of a file without errors are accepted questions.
LEMMA RowsAreAccepted ==
  ASSUME NEW file \in Files, RowErrors(file) = {}, \A k \in DOMAIN file : WithinCheck(RowInput(file[k]))
  PROVE  [k \in DOMAIN file |-> RowInput(file[k])] \in Seq(Accepted)
  <1>1. file \in Seq(Range(file))
    BY InputsAssumption
  <1>2. Len(file) \in Nat /\ DOMAIN file = 1 .. Len(file)
    BY <1>1, LenProperties
  <1>3. ASSUME NEW k \in DOMAIN file
        PROVE  RowInput(file[k]) \in Accepted
    <2>1. Valid(RowInput(file[k]))
      BY DEF RowErrors
    <2>2. RowInput(file[k]) \in Offered
      BY DEF Offered
    <2>3. QED
      BY <2>1, <2>2 DEF Accepted
  <1>4. [k \in DOMAIN file |-> RowInput(file[k])] \in [1 .. Len(file) -> Accepted]
    BY <1>2, <1>3
  <1>5. QED
    BY <1>2, <1>4, SeqDef

\* A snapshot of accepted questions holds them resolved.
LEMMA SnapshotOfAccepted ==
  ASSUME NEW list \in Seq(Accepted)
  PROVE  /\ [k \in DOMAIN list |-> Resolved(list[k])] \in Seq({Resolved(in) : in \in Accepted})
         /\ list # <<>> => [k \in DOMAIN list |-> Resolved(list[k])] # <<>>
  <1>1. Len(list) \in Nat /\ DOMAIN list = 1 .. Len(list)
    BY LenProperties
  <1>2. \A k \in DOMAIN list : list[k] \in Accepted
    BY <1>1, ElementOfSeq
  <1>3. [k \in DOMAIN list |-> Resolved(list[k])] \in [1 .. Len(list) -> {Resolved(in) : in \in Accepted}]
    BY <1>1, <1>2
  <1>4. list # <<>> => 1 \in DOMAIN list
    BY <1>1, EmptySeq
  <1>5. DOMAIN [k \in DOMAIN list |-> Resolved(list[k])] = DOMAIN list /\ DOMAIN <<>> = {}
    OBVIOUS
  <1>6. QED
    BY <1>1, <1>3, <1>4, <1>5, SeqDef

\* A rollup writes rows of its own, and changes nothing of what it reads.
Rolls ==
  \/ \E w \in Workers :
       Summarize(w) \/ Analyze(w) \/ RollupStudents(w) \/ InsertStats(w) \/ RollupFails(w)
  \/ \E s \in Shared : RollupElsewhere(s)

LEMMA RollsRead == Rolls => UNCHANGED <<class, sheets>>
  BY DEF Rolls, Summarize, Analyze, RollupStudents, InsertStats, RollupFails, RollupElsewhere

\* Nobody takes longer than there is time.
LEMMA PacesInBounds ==
  ASSUME NEW a \in AttemptIds, NEW taken \in Paces[a[1]]
  PROVE  taken \in 0 .. MaxTaken
  <1>1. a[1] \in Students
    BY DEF AttemptIds
  <1>2. Paces \in [Students -> SUBSET (1 .. MaxTaken)] /\ MaxTaken \in Nat
    BY MarkingAssumption
  <1>3. taken \in 1 .. MaxTaken
    BY <1>1, <1>2
  <1>4. QED
    BY <1>2, <1>3


LEMMA InitOnlyAccepted == Init => OnlyAccepted
  BY EmptySeq DEF Init, OnlyAccepted

LEMMA NextOnlyAccepted == OnlyAccepted /\ [Next]_vars => OnlyAccepted'
  <1> SUFFICES ASSUME OnlyAccepted, [Next]_vars
               PROVE  OnlyAccepted'
    OBVIOUS
  <1> DEFINE Stored == {Resolved(in) : in \in Accepted}
  <1>1. questions \in Seq(Accepted) /\ versions \in Seq(Seq(Stored) \ {<<>>})
    BY DEF OnlyAccepted
  <1>2. ASSUME questions' \in Seq(Accepted), versions' \in Seq(Seq(Stored) \ {<<>>})
        PROVE  OnlyAccepted'
    <2>1. Accepted' = Accepted
      BY DEF Accepted
    <2>2. QED
      BY <1>2 DEF OnlyAccepted
  <1>3. CASE AddQuestion
    <2>1. PICK in \in Inputs : Valid(in) /\ WithinCheck(in) /\ questions' = Append(questions, in)
      BY <1>3 DEF AddQuestion
    <2>2. in \in Accepted
      BY <2>1 DEF Accepted, Offered
    <2>3. questions' \in Seq(Accepted)
      BY <1>1, <2>1, <2>2, AppendProperties
    <2>4. versions' = versions
      BY <1>3 DEF AddQuestion
    <2>5. QED
      BY <1>1, <1>2, <2>3, <2>4
  <1>4. CASE Import
    <2>1. PICK file \in Files : /\ RowErrors(file) = {}
                                /\ \A k \in DOMAIN file : WithinCheck(RowInput(file[k]))
                                /\ questions' = questions \o [k \in DOMAIN file |-> RowInput(file[k])]
      BY <1>4 DEF Import
    <2>2. [k \in DOMAIN file |-> RowInput(file[k])] \in Seq(Accepted)
      BY <2>1, RowsAreAccepted
    <2>3. questions' \in Seq(Accepted)
      BY <1>1, <2>1, <2>2, ConcatProperties
    <2>4. versions' = versions
      BY <1>4 DEF Import
    <2>5. QED
      BY <1>1, <1>2, <2>3, <2>4
  <1>5. CASE Publish
    <2>1. versions' = Append(versions, [k \in DOMAIN questions |-> Resolved(questions[k])])
          /\ questions' = questions
      BY <1>5 DEF Publish
    <2> DEFINE snapshot == [k \in DOMAIN questions |-> Resolved(questions[k])]
    <2>2. snapshot \in Seq(Stored) \ {<<>>}
      <3>1. questions # <<>>
        BY <1>5 DEF Publish
      <3>2. QED
        BY <1>1, <3>1, SnapshotOfAccepted
    <2> HIDE DEF Stored, snapshot
    <2>3. versions' \in Seq(Seq(Stored) \ {<<>>})
      <3> DEFINE snapshots == Seq(Stored) \ {<<>>}
      <3>1. versions \in Seq(snapshots) /\ snapshot \in snapshots /\ versions' = Append(versions, snapshot)
        BY <1>1, <2>1, <2>2 DEF snapshot
      <3> HIDE DEF snapshots
      <3>2. versions' \in Seq(snapshots)
        BY <3>1, AppendProperties
      <3>3. QED
        BY <3>2 DEF snapshots
    <2>4. QED
      BY <1>1, <1>2, <2>1, <2>3
  <1>6. CASE UNCHANGED <<questions, versions>>
    BY <1>1, <1>2, <1>6
  <1>7. Cancel \/ Close \/ Release \/ UNCHANGED vars => UNCHANGED <<questions, versions>>
    BY DEF Cancel, Close, Release, vars, class
  <1>8. (\E a \in AttemptIds : Start(a) \/ SaveAnswer(a) \/ Submit(a) \/ Kick(a) \/ Grade(a) \/ OverrideScore(a))
          => UNCHANGED <<questions, versions>>
    BY DEF Start, SaveAnswer, Submit, Kick, Grade, OverrideScore, class
  <1>9. Rolls => UNCHANGED <<questions, versions>>
    BY RollsRead DEF class, sheets
  <1>10. QED
    BY <1>3, <1>4, <1>5, <1>6, <1>7, <1>8, <1>9 DEF Next, Rolls

LEMMA AcceptedEarnPoints == OnlyAccepted => KeyEarnsPoints
  <1> SUFFICES ASSUME OnlyAccepted, NEW v \in DOMAIN versions, NEW k \in DOMAIN versions[v]
               PROVE  Mark(versions[v][k], KeyAsResponse(versions[v][k])).awarded > 0
    BY DEF KeyEarnsPoints
  <1> DEFINE Stored == {Resolved(in) : in \in Accepted}
             q == versions[v][k]
  <1>1. versions \in Seq(Seq(Stored) \ {<<>>})
    BY DEF OnlyAccepted
  <1>2. q \in Stored
    <2> HIDE DEF Stored
    <2>1. versions[v] \in Seq(Stored) \ {<<>>}
      BY <1>1, LenProperties, ElementOfSeq
    <2>2. QED
      BY <2>1, LenProperties, ElementOfSeq
  <1>3. PICK in \in Accepted : q = Resolved(in)
    BY <1>2
  <1>4. Correct(q, KeyAsResponse(q))
    BY <1>3, KeyIsCorrect
  <1>5. q.points \in 1 .. MaxPoints
    BY <1>3, ResolvedFields
  <1> HIDE DEF q
  <1>6. Mark(q, KeyAsResponse(q)).awarded = q.points
    BY <1>4 DEF Mark
  <1>7. QED
    BY <1>5, <1>6, MarkingAssumption DEF q

\* Every question that is stored, typed or imported, can be earned: its key is
\* an answer gradeQuestion gives points for.
THEOREM KeysEarnPoints == Spec => []KeyEarnsPoints
  <1>1. Spec => []OnlyAccepted
    BY InitOnlyAccepted, NextOnlyAccepted, PTL DEF Spec
  <1>2. QED
    BY <1>1, AcceptedEarnPoints, PTL

-----------------------------------------------------------------------------
(* What a step does to a row.                                              *)

Columns == {"status", "version", "taken", "score", "kicked", "overridden"}

\* The shapes that the rows keep; only a kicked, graded attempt is overridden.
RowShape(row) ==
  /\ DOMAIN row = Columns
  /\ row.kicked \in BOOLEAN /\ row.overridden \in BOOLEAN
  /\ row.overridden => row.kicked /\ row.status = "graded"

Shapes ==
  /\ quiz \in [status : {"draft", "scheduled", "closed"}, released : BOOLEAN]
  /\ DOMAIN attempts = AttemptIds
  /\ \A a \in AttemptIds : RowShape(attempts[a])
  /\ DOMAIN run = Workers
  /\ \A w \in Workers : DOMAIN run[w] = {"at", "row"}
  /\ DOMAIN studentStats = Students

\* A step leaves an attempt alone, starts it, ends it, grades it or overrides its score.
Started(row) == [row EXCEPT !.status = "in_progress", !.version = Len(versions)]

GradedWith(row, score) == [row EXCEPT !.status = "graded", !.score = score]

Overridden(row) == [row EXCEPT !.score = 0, !.overridden = TRUE]

RowStep(a) ==
  \/ attempts'[a] = attempts[a]
  \/ Start(a) /\ attempts'[a] = Started(attempts[a])
  \/ /\ attempts[a].status = "in_progress"
     /\ \E taken \in 0 .. MaxTaken :
          attempts'[a] \in {Ended(attempts[a], taken), [Ended(attempts[a], taken) EXCEPT !.kicked = TRUE]}
  \/ Grade(a) /\ attempts'[a] = GradedWith(attempts[a], Total(a))
  \/ OverrideScore(a) /\ attempts'[a] = Overridden(attempts[a])

LEMMA RowSteps ==
  ASSUME DOMAIN attempts = AttemptIds, [Next]_vars
  PROVE  DOMAIN attempts' = AttemptIds /\ \A a \in AttemptIds : RowStep(a)
  <1> DEFINE Goal == DOMAIN attempts' = AttemptIds /\ \A a \in AttemptIds : RowStep(a)
  <1>a. ASSUME NEW b \in AttemptIds, NEW row, attempts' = [attempts EXCEPT ![b] = row],
               attempts'[b] = row => RowStep(b)
        PROVE  Goal
    <2>1. DOMAIN attempts' = AttemptIds /\ attempts'[b] = row
          /\ \A a \in AttemptIds : a # b => attempts'[a] = attempts[a]
      BY <1>a
    <2>2. \A a \in AttemptIds : a # b => RowStep(a)
      BY <2>1 DEF RowStep
    <2>3. RowStep(b)
      BY <1>a, <2>1
    <2>4. QED
      BY <2>1, <2>2, <2>3
  <1>1. CASE UNCHANGED attempts
    BY <1>1 DEF RowStep
  <1>2. CASE Close
    <2>1. MaxTaken \in 0 .. MaxTaken
      BY MarkingAssumption
    <2>2. attempts' = [a \in AttemptIds |->
            IF attempts[a].status = "in_progress" THEN Ended(attempts[a], MaxTaken) ELSE attempts[a]]
      BY <1>2 DEF Close
    <2>3. QED
      BY <2>1, <2>2 DEF RowStep
  <1>3. ASSUME NEW b \in AttemptIds, Start(b)
        PROVE  Goal
    <2>1. attempts' = [attempts EXCEPT ![b] = Started(attempts[b])]
      BY <1>3 DEF Start, Started
    <2>2. QED
      BY <1>3, <1>a, <2>1 DEF RowStep
  <1>4. ASSUME NEW b \in AttemptIds, Submit(b)
        PROVE  Goal
    <2>1. PICK taken \in Paces[b[1]] : attempts' = [attempts EXCEPT ![b] = Ended(attempts[b], taken)]
      BY <1>4 DEF Submit
    <2>2. attempts[b].status = "in_progress"
      BY <1>4 DEF Submit
    <2>3. taken \in 0 .. MaxTaken
      BY <2>1, PacesInBounds
    <2>4. QED
      BY <1>a, <2>1, <2>2, <2>3 DEF RowStep
  <1>5. ASSUME NEW b \in AttemptIds, Kick(b)
        PROVE  Goal
    <2>1. PICK taken \in Paces[b[1]] :
            attempts' = [attempts EXCEPT ![b] = [Ended(attempts[b], taken) EXCEPT !.kicked = TRUE]]
      BY <1>5 DEF Kick
    <2>2. attempts[b].status = "in_progress"
      BY <1>5 DEF Kick
    <2>3. taken \in 0 .. MaxTaken
      BY <2>1, PacesInBounds
    <2>4. QED
      BY <1>a, <2>1, <2>2, <2>3 DEF RowStep
  <1>6. ASSUME NEW b \in AttemptIds, Grade(b)
        PROVE  Goal
    <2>1. attempts' = [attempts EXCEPT ![b] = GradedWith(attempts[b], Total(b))]
      BY <1>6 DEF Grade, GradedWith
    <2>2. QED
      BY <1>6, <1>a, <2>1 DEF RowStep
  <1>7. ASSUME NEW b \in AttemptIds, OverrideScore(b)
        PROVE  Goal
    <2>1. attempts' = [attempts EXCEPT ![b] = Overridden(attempts[b])]
      BY <1>7 DEF OverrideScore, Overridden
    <2>2. QED
      BY <1>7, <1>a, <2>1 DEF RowStep
  <1>8. (\E b \in AttemptIds : SaveAnswer(b)) => UNCHANGED attempts
    BY DEF SaveAnswer
  <1>9. AddQuestion \/ Import \/ Publish \/ Cancel \/ Release \/ UNCHANGED vars => UNCHANGED attempts
    BY DEF AddQuestion, Import, Publish, Cancel, Release, vars, sheets
  <1>10. Rolls => UNCHANGED attempts
    BY RollsRead DEF class, sheets
  <1>11. QED
    BY <1>1, <1>2, <1>3, <1>4, <1>5, <1>6, <1>7, <1>8, <1>9, <1>10 DEF Next, Rolls

LEMMA RowShapes ==
  ASSUME NEW a \in AttemptIds, RowShape(attempts[a]), RowStep(a)
  PROVE  RowShape(attempts'[a])
  <1> USE DEF RowShape, Columns
  <1>1. CASE attempts'[a] = attempts[a]
    BY <1>1
  <1>2. CASE Start(a) /\ attempts'[a] = Started(attempts[a])
    <2>1. attempts[a].status = "none"
      BY <1>2 DEF Start
    <2>2. QED
      BY <1>2, <2>1 DEF Started
  <1>3. ASSUME attempts[a].status = "in_progress", NEW taken,
               attempts'[a] \in {Ended(attempts[a], taken), [Ended(attempts[a], taken) EXCEPT !.kicked = TRUE]}
        PROVE  RowShape(attempts'[a])
    BY <1>3 DEF Ended
  <1>4. CASE Grade(a) /\ attempts'[a] = GradedWith(attempts[a], Total(a))
    <2>1. attempts[a].status = "submitted"
      BY <1>4 DEF Grade
    <2>2. QED
      BY <1>4, <2>1 DEF GradedWith
  <1>5. CASE OverrideScore(a) /\ attempts'[a] = Overridden(attempts[a])
    <2>1. attempts[a].status = "graded" /\ attempts[a].kicked
      BY <1>5 DEF OverrideScore
    <2>2. QED
      BY <1>5, <2>1 DEF Overridden
  <1>6. QED
    BY <1>1, <1>2, <1>3, <1>4, <1>5 DEF RowStep

LEMMA InitShapes == Init => Shapes
  <1> SUFFICES ASSUME Init
               PROVE  Shapes
    OBVIOUS
  <1>1. RowShape(Unstarted)
    BY DEF RowShape, Columns, Unstarted
  <1>2. \A a \in AttemptIds : attempts[a] = Unstarted
    BY DEF Init
  <1>3. \A a \in AttemptIds : RowShape(attempts[a])
    BY <1>1, <1>2
  <1>4. DOMAIN attempts = AttemptIds /\ quiz \in [status : {"draft", "scheduled", "closed"}, released : BOOLEAN]
    BY DEF Init
  <1>5. DOMAIN run = Workers /\ \A w \in Workers : DOMAIN run[w] = {"at", "row"}
    BY DEF Init, Resting
  <1>6. DOMAIN studentStats = Students
    BY DEF Init
  <1>7. QED
    BY <1>3, <1>4, <1>5, <1>6 DEF Shapes

LEMMA NextShapes == Shapes /\ [Next]_vars => Shapes'
  <1> SUFFICES ASSUME Shapes, [Next]_vars
               PROVE  Shapes'
    OBVIOUS
  <1>1. DOMAIN attempts' = AttemptIds /\ \A a \in AttemptIds : RowShape(attempts'[a])
    BY RowSteps, RowShapes DEF Shapes
  <1>2. quiz' \in [status : {"draft", "scheduled", "closed"}, released : BOOLEAN]
    <2>1. CASE UNCHANGED quiz
      BY <2>1 DEF Shapes
    <2>2. CASE Publish \/ Cancel \/ Close \/ Release
      BY <2>2 DEF Publish, Cancel, Close, Release, Shapes
    <2>3. AddQuestion \/ Import \/ UNCHANGED vars => UNCHANGED quiz
      BY DEF AddQuestion, Import, vars, class
    <2>4. (\E a \in AttemptIds : Start(a) \/ SaveAnswer(a) \/ Submit(a) \/ Kick(a) \/ Grade(a) \/ OverrideScore(a))
            => UNCHANGED quiz
      BY DEF Start, SaveAnswer, Submit, Kick, Grade, OverrideScore, class
    <2>5. Rolls => UNCHANGED quiz
      BY RollsRead DEF class
    <2>6. QED
      BY <2>1, <2>2, <2>3, <2>4, <2>5 DEF Next, Rolls
  <1>3. DOMAIN run' = Workers /\ \A w \in Workers : DOMAIN run'[w] = {"at", "row"}
    <2>1. CASE UNCHANGED run
      BY <2>1 DEF Shapes
    <2>2. ASSUME NEW w \in Workers, Summarize(w) \/ Analyze(w) \/ RollupStudents(w) \/ InsertStats(w) \/ RollupFails(w)
          PROVE  \E r : run' = [run EXCEPT ![w] = r] /\ DOMAIN r = {"at", "row"}
      <3>1. CASE Summarize(w)
        <4>1. PICK r : run' = [run EXCEPT ![w] = [at |-> "scored", row |-> r]]
          BY <3>1 DEF Summarize
        <4>2. DOMAIN [at |-> "scored", row |-> r] = {"at", "row"}
          OBVIOUS
        <4>3. QED
          BY <4>1, <4>2
      <3>2. CASE Analyze(w)
        <4>1. PICK r : run' = [run EXCEPT ![w] = [at |-> "summarized", row |-> r]]
          BY <3>2 DEF Analyze
        <4>2. DOMAIN [at |-> "summarized", row |-> r] = {"at", "row"}
          OBVIOUS
        <4>3. QED
          BY <4>1, <4>2
      <3>3. CASE RollupStudents(w)
        <4>1. run' = [run EXCEPT ![w] = [run[w] EXCEPT !.at = "students"]]
          BY <3>3 DEF RollupStudents
        <4>2. DOMAIN [run[w] EXCEPT !.at = "students"] = {"at", "row"}
          BY DEF Shapes
        <4>3. QED
          BY <4>1, <4>2
      <3>4. CASE InsertStats(w) \/ RollupFails(w)
        <4>1. run' = [run EXCEPT ![w] = Resting]
          BY <3>4 DEF InsertStats, RollupFails
        <4>2. DOMAIN Resting = {"at", "row"}
          BY DEF Resting
        <4>3. QED
          BY <4>1, <4>2
      <3>5. QED
        BY <2>2, <3>1, <3>2, <3>3, <3>4
    <2>3. AddQuestion \/ Import \/ Publish \/ Cancel \/ Close \/ Release \/ UNCHANGED vars => UNCHANGED run
      BY DEF AddQuestion, Import, Publish, Cancel, Close, Release, vars, rollup
    <2>4. (\E a \in AttemptIds : Start(a) \/ SaveAnswer(a) \/ Submit(a) \/ Kick(a) \/ Grade(a) \/ OverrideScore(a))
            => UNCHANGED run
      BY DEF Start, SaveAnswer, Submit, Kick, Grade, OverrideScore, rollup
    <2>5. (\E s \in Shared : RollupElsewhere(s)) => UNCHANGED run
      BY DEF RollupElsewhere
    <2>6. (\E w \in Workers : Summarize(w) \/ Analyze(w) \/ RollupStudents(w) \/ InsertStats(w) \/ RollupFails(w))
            => DOMAIN run' = Workers /\ \A v \in Workers : DOMAIN run'[v] = {"at", "row"}
      BY <2>2 DEF Shapes
    <2>7. QED
      BY <2>1, <2>3, <2>4, <2>5, <2>6 DEF Next
  <1>4. DOMAIN studentStats' = Students
    <2>1. (\E w \in Workers : RollupStudents(w)) => DOMAIN studentStats' = Students
      BY DEF RollupStudents
    <2>2. (\E s \in Shared : RollupElsewhere(s)) => DOMAIN studentStats' = Students
      BY DEF RollupElsewhere, Shapes
    <2>3. (\E w \in Workers : Summarize(w) \/ Analyze(w) \/ InsertStats(w) \/ RollupFails(w)) => UNCHANGED studentStats
      BY DEF Summarize, Analyze, InsertStats, RollupFails
    <2>4. (\E a \in AttemptIds : Start(a) \/ SaveAnswer(a) \/ Submit(a) \/ Kick(a) \/ Grade(a) \/ OverrideScore(a))
            => UNCHANGED studentStats
      BY DEF Start, SaveAnswer, Submit, Kick, Grade, OverrideScore, rollup
    <2>5. AddQuestion \/ Import \/ Publish \/ Cancel \/ Close \/ Release \/ UNCHANGED vars => UNCHANGED studentStats
      BY DEF AddQuestion, Import, Publish, Cancel, Close, Release, vars, rollup
    <2>6. QED
      BY <2>1, <2>2, <2>3, <2>4, <2>5 DEF Next, Shapes
  <1>5. QED
    BY <1>1, <1>2, <1>3, <1>4 DEF Shapes


-----------------------------------------------------------------------------
(* Every read of an attempt shows the version it was graded on.            *)

\* Rows are kept for every attempt; a version that exists stays as it is.
Kept == DOMAIN answers = AttemptIds /\ DOMAIN marks = AttemptIds

\* The stored marks and score of a graded attempt are what its rows and its
\* pinned questions give now, and the score zero once it is overridden.
GradeIsCurrent(a) ==
  marks[a] = Marks(a) /\ attempts[a].score = IF attempts[a].overridden THEN 0 ELSE Total(a)

GradesAreCurrent ==
  \A a \in AttemptIds : attempts[a].status = "graded" => GradeIsCurrent(a)

PinnedInv == Shapes /\ Kept /\ OnlyAccepted /\ PinnedExist /\ GradesAreCurrent

LEMMA InitPinned == Init => PinnedInv
  <1> SUFFICES ASSUME Init
               PROVE  PinnedInv
    OBVIOUS
  <1>0. \A a \in AttemptIds : attempts[a].status = "none"
    BY DEF Init, Unstarted
  <1>1. PinnedExist
    BY <1>0 DEF Init, PinnedExist
  <1>2. GradesAreCurrent
    BY <1>0 DEF GradesAreCurrent
  <1>3. Kept
    BY DEF Init, Kept
  <1>4. QED
    BY <1>1, <1>2, <1>3, InitShapes, InitOnlyAccepted DEF PinnedInv

\* Versions are only added.
LEMMA VersionsStay ==
  ASSUME OnlyAccepted, [Next]_vars
  PROVE  DOMAIN versions \subseteq DOMAIN versions' /\ \A v \in DOMAIN versions : versions'[v] = versions[v]
  <1>1. CASE UNCHANGED versions
    BY <1>1
  <1>2. CASE Publish
    <2> DEFINE stored == Seq({Resolved(in) : in \in Accepted}) \ {<<>>}
               snapshot == [k \in DOMAIN questions |-> Resolved(questions[k])]
    <2>1. versions \in Seq(stored) /\ snapshot \in stored
      BY <1>2, SnapshotOfAccepted DEF OnlyAccepted, Publish
    <2>2. versions' = Append(versions, snapshot)
      BY <1>2 DEF Publish
    <2> HIDE DEF stored, snapshot
    <2>3. QED
      BY <2>1, <2>2, AppendProperties, LenProperties
  <1>3. AddQuestion \/ Import \/ Cancel \/ Close \/ Release \/ UNCHANGED vars => UNCHANGED versions
    BY DEF AddQuestion, Import, Cancel, Close, Release, vars, class
  <1>4. (\E a \in AttemptIds : Start(a) \/ SaveAnswer(a) \/ Submit(a) \/ Kick(a) \/ Grade(a) \/ OverrideScore(a)) => UNCHANGED versions
    BY DEF Start, SaveAnswer, Submit, Kick, Grade, OverrideScore, class
  <1>5. Rolls => UNCHANGED versions
    BY RollsRead DEF class, sheets
  <1>6. QED
    BY <1>1, <1>2, <1>3, <1>4, <1>5 DEF Next, Rolls

\* The last version exists as soon as there is one.
LEMMA LastVersion ==
  ASSUME OnlyAccepted, versions # <<>>
  PROVE  Len(versions) \in DOMAIN versions
  <1>1. Len(versions) \in Nat /\ DOMAIN versions = 1 .. Len(versions)
    BY LenProperties DEF OnlyAccepted
  <1>2. Len(versions) # 0
    BY EmptySeq DEF OnlyAccepted
  <1>3. QED
    BY <1>1, <1>2

\* What a step may do to an attempt's version.
LEMMA Repinned ==
  ASSUME Shapes, OnlyAccepted, PinnedExist, [Next]_vars, NEW a \in AttemptIds
  PROVE  \/ attempts'[a].version = attempts[a].version /\ (attempts'[a].status = "none" <=> attempts[a].status = "none")
         \/ attempts[a].status = "none" /\ attempts'[a].status = "in_progress"
              /\ attempts'[a].version \in DOMAIN versions
  <1> DEFINE Same == attempts'[a].version = attempts[a].version
                       /\ (attempts'[a].status = "none" <=> attempts[a].status = "none")
  <1>1. RowShape(attempts[a]) /\ RowStep(a)
    BY RowSteps DEF Shapes
  <1>2. CASE attempts'[a] = attempts[a]
    BY <1>2
  <1>3. CASE Start(a) /\ attempts'[a] = Started(attempts[a])
    <2>1. Len(versions) \in DOMAIN versions
      BY <1>3, LastVersion DEF Start, PinnedExist
    <2>2. attempts[a].status = "none"
      BY <1>3 DEF Start
    <2>3. attempts'[a].status = "in_progress" /\ attempts'[a].version = Len(versions)
      BY <1>1, <1>3 DEF RowShape, Columns, Started
    <2>4. QED
      BY <2>1, <2>2, <2>3
  <1>4. ASSUME attempts[a].status = "in_progress", NEW taken,
               attempts'[a] \in {Ended(attempts[a], taken), [Ended(attempts[a], taken) EXCEPT !.kicked = TRUE]}
        PROVE  Same
    BY <1>1, <1>4 DEF RowShape, Columns, Ended
  <1>5. CASE Grade(a) /\ attempts'[a] = GradedWith(attempts[a], Total(a))
    <2>1. attempts[a].status = "submitted"
      BY <1>5 DEF Grade
    <2>2. QED
      BY <1>1, <1>5, <2>1 DEF RowShape, Columns, GradedWith
  <1>6. CASE OverrideScore(a) /\ attempts'[a] = Overridden(attempts[a])
    BY <1>1, <1>6 DEF RowShape, Columns, Overridden
  <1>7. QED
    BY <1>1, <1>2, <1>3, <1>4, <1>5, <1>6 DEF RowStep

\* What a step may do to an attempt's answers.
LEMMA Answered ==
  ASSUME Kept, [Next]_vars, NEW a \in AttemptIds
  PROVE  \/ answers'[a] = answers[a]
         \/ /\ attempts[a].status = "in_progress" /\ UNCHANGED attempts
            /\ \E q \in DOMAIN Snapshot(a) : DOMAIN answers'[a] = DOMAIN answers[a] \cup {q}
  <1>1. ASSUME NEW b \in AttemptIds, SaveAnswer(b), b # a
        PROVE  answers'[a] = answers[a]
    BY <1>1 DEF SaveAnswer, Kept
  <1>2. ASSUME SaveAnswer(a)
        PROVE  /\ attempts[a].status = "in_progress" /\ UNCHANGED attempts
               /\ \E q \in DOMAIN Snapshot(a) : DOMAIN answers'[a] = DOMAIN answers[a] \cup {q}
    <2>1. attempts[a].status = "in_progress" /\ UNCHANGED attempts
      BY <1>2 DEF SaveAnswer
    <2>2. PICK q \in DOMAIN Snapshot(a), response \in Responses \cup {Null} :
            answers' = [answers EXCEPT ![a] =
                          [k \in DOMAIN answers[a] \cup {q} |-> IF k = q THEN response ELSE answers[a][k]]]
      BY <1>2 DEF SaveAnswer
    <2>3. answers'[a] = [k \in DOMAIN answers[a] \cup {q} |-> IF k = q THEN response ELSE answers[a][k]]
      BY <2>2 DEF Kept
    <2>4. QED
      BY <2>1, <2>3
  <1>3. AddQuestion \/ Import \/ Publish \/ Cancel \/ Close \/ Release \/ UNCHANGED vars => UNCHANGED answers
    BY DEF AddQuestion, Import, Publish, Cancel, Close, Release, vars, sheets
  <1>4. (\E b \in AttemptIds : Start(b) \/ Submit(b) \/ Kick(b) \/ Grade(b) \/ OverrideScore(b)) => UNCHANGED answers
    BY DEF Start, Submit, Kick, Grade, OverrideScore
  <1>5. Rolls => UNCHANGED answers
    BY RollsRead DEF class, sheets
  <1>6. QED
    BY <1>1, <1>2, <1>3, <1>4, <1>5 DEF Next, Rolls

LEMMA NextPinnedExist == Shapes /\ Kept /\ OnlyAccepted /\ PinnedExist /\ [Next]_vars => PinnedExist'
  <1> SUFFICES ASSUME Shapes, Kept, OnlyAccepted, PinnedExist, [Next]_vars
               PROVE  PinnedExist'
    OBVIOUS
  <1>1. DOMAIN versions \subseteq DOMAIN versions' /\ \A v \in DOMAIN versions : versions'[v] = versions[v]
    BY VersionsStay
  <1>2. quiz'.status # "draft" => versions' # <<>>
    <2>1. CASE Publish
      <3> DEFINE snapshot == [k \in DOMAIN questions |-> Resolved(questions[k])]
      <3>1. versions' = Append(versions, snapshot)
        BY <2>1 DEF Publish
      <3> DEFINE stored == Seq({Resolved(in) : in \in Accepted}) \ {<<>>}
      <3>2. versions \in Seq(stored) /\ snapshot \in stored
        BY <2>1, SnapshotOfAccepted DEF OnlyAccepted, Publish
      <3> HIDE DEF snapshot, stored
      <3>3. versions \in Seq(stored) /\ snapshot \in stored
        BY <3>2 DEF stored
      <3>4. versions' # <<>>
        BY <3>1, <3>3, AppendProperties, EmptySeq
      <3>5. QED
        BY <3>4
    <2>2. CASE UNCHANGED versions /\ (quiz'.status = "draft" \/ quiz.status # "draft")
      BY <2>2 DEF PinnedExist
    <2>3. AddQuestion \/ Import \/ UNCHANGED vars => UNCHANGED <<quiz, versions>>
      BY DEF AddQuestion, Import, vars, class
    <2>4. Cancel \/ Close \/ Release
            => UNCHANGED versions /\ (quiz'.status = "draft" \/ quiz.status # "draft")
      BY DEF Cancel, Close, Release, Shapes
    <2>5. (\E a \in AttemptIds : Start(a) \/ SaveAnswer(a) \/ Submit(a) \/ Kick(a) \/ Grade(a) \/ OverrideScore(a))
            => UNCHANGED <<quiz, versions>>
      BY DEF Start, SaveAnswer, Submit, Kick, Grade, OverrideScore, class
    <2>6. Rolls => UNCHANGED <<quiz, versions>>
      BY RollsRead DEF class, sheets
    <2>7. QED
      BY <2>1, <2>2, <2>3, <2>4, <2>5, <2>6 DEF Next, Rolls
  <1>3. ASSUME NEW a \in AttemptIds
        PROVE  IF attempts'[a].status = "none" THEN answers'[a] = <<>>
               ELSE /\ attempts'[a].version \in DOMAIN versions'
                    /\ DOMAIN answers'[a] \subseteq DOMAIN Snapshot(a)'
    <2>1. IF attempts[a].status = "none" THEN answers[a] = <<>>
          ELSE /\ attempts[a].version \in DOMAIN versions
               /\ DOMAIN answers[a] \subseteq DOMAIN Snapshot(a)
      BY DEF PinnedExist
    <2>2. CASE /\ attempts'[a].version = attempts[a].version
               /\ attempts'[a].status = "none" <=> attempts[a].status = "none"
      <3>1. attempts[a].status # "none" => Snapshot(a)' = Snapshot(a)
        BY <1>1, <2>1, <2>2 DEF Snapshot
      <3>2. CASE answers'[a] = answers[a]
        BY <1>1, <2>1, <2>2, <3>1, <3>2
      <3>3. CASE answers'[a] # answers[a]
        <4>1. PICK q \in DOMAIN Snapshot(a) :
                attempts[a].status = "in_progress" /\ DOMAIN answers'[a] = DOMAIN answers[a] \cup {q}
          BY <3>3, Answered
        <4>2. QED
          BY <1>1, <2>1, <2>2, <3>1, <4>1
      <3>4. QED
        BY <3>2, <3>3
    <2>3. CASE attempts[a].status = "none" /\ attempts'[a].status = "in_progress"
                 /\ attempts'[a].version \in DOMAIN versions
      <3>1. answers'[a] = <<>>
        BY <2>1, <2>3, Answered
      <3>2. QED
        BY <1>1, <2>3, <3>1
    <2>4. QED
      BY <2>2, <2>3, Repinned
  <1>4. \A k \in DOMAIN cache' : k \in DOMAIN versions' /\ cache'[k] = versions'[k]
    <2>1. CASE UNCHANGED cache
      BY <1>1, <2>1 DEF PinnedExist
    <2>2. ASSUME NEW a \in AttemptIds, Start(a)
          PROVE  \A k \in DOMAIN cache' : k \in DOMAIN versions' /\ cache'[k] = versions'[k]
      <3>1. Len(versions) \in DOMAIN versions
        BY <2>2, LastVersion DEF Start, PinnedExist
      <3>2. cache' = Filled(Len(versions))
        BY <2>2 DEF Start
      <3>3. cache' = [k \in DOMAIN cache \cup {Len(versions)} |->
                       IF k \in DOMAIN cache THEN cache[k] ELSE versions[Len(versions)]]
        BY <3>2 DEF Filled, SnapshotKey
      <3>4. QED
        BY <1>1, <3>1, <3>3 DEF PinnedExist
    <2>3. AddQuestion \/ Import \/ Publish \/ Cancel \/ Close \/ Release \/ UNCHANGED vars => UNCHANGED cache
      BY DEF AddQuestion, Import, Publish, Cancel, Close, Release, vars, class
    <2>4. (\E a \in AttemptIds : SaveAnswer(a) \/ Submit(a) \/ Kick(a) \/ Grade(a) \/ OverrideScore(a)) => UNCHANGED cache
      BY DEF SaveAnswer, Submit, Kick, Grade, OverrideScore, class
    <2>5. Rolls => UNCHANGED cache
      BY RollsRead DEF class, sheets
    <2>6. QED
      BY <2>1, <2>2, <2>3, <2>4, <2>5 DEF Next, Rolls
  <1>5. QED
    BY <1>2, <1>3, <1>4 DEF PinnedExist

\* A grade is given once, from rows and questions that stay as they are, and an
\* override leaves the marks alone.
LEMMA NextGrades == PinnedInv /\ [Next]_vars => Kept' /\ GradesAreCurrent'
  <1> SUFFICES ASSUME PinnedInv, [Next]_vars
               PROVE  Kept' /\ GradesAreCurrent'
    OBVIOUS
  <1>1. Shapes /\ Kept /\ OnlyAccepted /\ PinnedExist /\ GradesAreCurrent
    BY DEF PinnedInv
  <1>2. \A v \in DOMAIN versions : versions'[v] = versions[v]
    BY <1>1, VersionsStay
  \* The marks stay, unless they are given.
  <1>3. \/ UNCHANGED marks
        \/ \E b \in AttemptIds : Grade(b) /\ marks' = [marks EXCEPT ![b] = Marks(b)]
    <2>1. (\E a \in AttemptIds : Start(a) \/ SaveAnswer(a) \/ Submit(a) \/ Kick(a) \/ OverrideScore(a))
            => UNCHANGED marks
      BY DEF Start, SaveAnswer, Submit, Kick, OverrideScore
    <2>2. AddQuestion \/ Import \/ Publish \/ Cancel \/ Close \/ Release \/ UNCHANGED vars => UNCHANGED marks
      BY DEF AddQuestion, Import, Publish, Cancel, Close, Release, vars, sheets
    <2>3. \A b \in AttemptIds : Grade(b) => marks' = [marks EXCEPT ![b] = Marks(b)]
      BY DEF Grade
    <2>4. Rolls => UNCHANGED marks
      BY RollsRead DEF sheets
    <2>5. QED
      BY <2>1, <2>2, <2>3, <2>4 DEF Next, Rolls
  <1>4. UNCHANGED answers \/ \E b \in AttemptIds : SaveAnswer(b)
    <2>1. (\E a \in AttemptIds : Start(a) \/ Submit(a) \/ Kick(a) \/ Grade(a) \/ OverrideScore(a))
            => UNCHANGED answers
      BY DEF Start, Submit, Kick, Grade, OverrideScore
    <2>2. AddQuestion \/ Import \/ Publish \/ Cancel \/ Close \/ Release \/ UNCHANGED vars => UNCHANGED answers
      BY DEF AddQuestion, Import, Publish, Cancel, Close, Release, vars, sheets
    <2>3. Rolls => UNCHANGED answers
      BY RollsRead DEF sheets
    <2>4. QED
      BY <2>1, <2>2, <2>3 DEF Next, Rolls
  <1>5. Kept'
    <2>1. DOMAIN marks' = AttemptIds
      BY <1>1, <1>3 DEF Kept
    <2>2. \A b \in AttemptIds : SaveAnswer(b) => DOMAIN answers' = AttemptIds
      BY <1>1 DEF SaveAnswer, Kept
    <2>3. QED
      BY <1>1, <1>4, <2>1, <2>2 DEF Kept
  <1>6. ASSUME NEW a \in AttemptIds, attempts'[a].status = "graded"
        PROVE  GradeIsCurrent(a)'
    <2>1. RowShape(attempts[a]) /\ RowStep(a)
      BY <1>1, RowSteps DEF Shapes
    <2>2. answers'[a] = answers[a] /\ attempts'[a].version = attempts[a].version
          /\ attempts[a].status \in {"submitted", "graded"}
      <3>1. ~(attempts[a].status = "in_progress" /\ UNCHANGED attempts)
        BY <1>6
      <3>2. answers'[a] = answers[a]
        BY <1>1, <3>1, Answered
      <3>3. CASE attempts'[a] = attempts[a]
        BY <1>6, <3>2, <3>3
      <3>4. attempts'[a] # Started(attempts[a])
        BY <1>6, <2>1 DEF RowShape, Columns, Started
      <3>5. \A taken : attempts'[a] \notin {Ended(attempts[a], taken), [Ended(attempts[a], taken) EXCEPT !.kicked = TRUE]}
        BY <1>6, <2>1 DEF RowShape, Columns, Ended
      <3>6. CASE Grade(a) /\ attempts'[a] = GradedWith(attempts[a], Total(a))
        <4>1. attempts[a].status = "submitted"
          BY <3>6 DEF Grade
        <4>2. QED
          BY <2>1, <3>2, <3>6, <4>1 DEF RowShape, Columns, GradedWith
      <3>7. CASE OverrideScore(a) /\ attempts'[a] = Overridden(attempts[a])
        <4>1. attempts[a].status = "graded"
          BY <3>7 DEF OverrideScore
        <4>2. QED
          BY <2>1, <3>2, <3>7, <4>1 DEF RowShape, Columns, Overridden
      <3>8. QED
        BY <2>1, <3>3, <3>4, <3>5, <3>6, <3>7 DEF RowStep
    <2>3. Snapshot(a)' = Snapshot(a)
      BY <1>1, <1>2, <2>2 DEF Snapshot, PinnedExist
    <2>4. Marks(a)' = Marks(a)
      BY <2>2, <2>3 DEF Marks, Committed
    <2>5. Total(a)' = Total(a)
      BY <2>4 DEF Total
    <2>6. marks'[a] = Marks(a)
      <3>1. CASE Grade(a)
        <4>1. attempts[a].status = "submitted"
          BY <3>1 DEF Grade
        <4>2. marks'[a] = Marks(a)
          BY <1>1, <3>1 DEF Grade, Kept
        <4>3. QED
          BY <4>2
      <3>2. CASE ~Grade(a)
        <4>1. marks'[a] = marks[a]
          BY <1>1, <1>3, <3>2 DEF Kept
        <4>2. attempts[a].status = "graded"
          <5>1. attempts'[a] # Started(attempts[a])
            BY <1>6, <2>1 DEF RowShape, Columns, Started
          <5>2. attempts'[a] = attempts[a] \/ OverrideScore(a)
            BY <2>1, <2>2, <3>2, <5>1 DEF RowStep
          <5>3. QED
            BY <1>6, <5>2 DEF OverrideScore
        <4>3. QED
          BY <1>1, <4>1, <4>2 DEF GradesAreCurrent, GradeIsCurrent
      <3>3. QED
        BY <3>1, <3>2
    <2>7. attempts'[a].score = IF attempts'[a].overridden THEN 0 ELSE Total(a)
      <3>1. CASE attempts'[a] = attempts[a]
        BY <1>1, <1>6, <3>1 DEF GradesAreCurrent, GradeIsCurrent
      <3>2. CASE Grade(a) /\ attempts'[a] = GradedWith(attempts[a], Total(a))
        <4>1. attempts[a].status = "submitted"
          BY <3>2 DEF Grade
        <4>2. ~attempts[a].overridden
          BY <2>1, <4>1 DEF RowShape
        <4>3. attempts'[a].score = Total(a) /\ attempts'[a].overridden = attempts[a].overridden
          BY <2>1, <3>2 DEF RowShape, Columns, GradedWith
        <4>4. QED
          BY <4>2, <4>3
      <3>3. CASE OverrideScore(a) /\ attempts'[a] = Overridden(attempts[a])
        BY <2>1, <3>3 DEF RowShape, Columns, Overridden
      <3>4. attempts'[a] # Started(attempts[a])
        BY <1>6, <2>1 DEF RowShape, Columns, Started
      <3>5. QED
        BY <2>1, <2>2, <3>1, <3>2, <3>3, <3>4 DEF RowStep
    <2>8. QED
      BY <2>4, <2>5, <2>6, <2>7 DEF GradeIsCurrent
  <1>7. QED
    BY <1>5, <1>6 DEF GradesAreCurrent

\* The invariant behind the reads: an attempt's version exists and never changes,
\* Redis holds nothing else, and stored grades are those of the stored answers, or
\* zero where a moderator has overridden them.
THEOREM GradesStayCurrent == Spec => []PinnedInv
  <1>1. PinnedInv /\ [Next]_vars => PinnedInv'
    BY NextShapes, NextOnlyAccepted, NextPinnedExist, NextGrades DEF PinnedInv
  <1>2. QED
    BY <1>1, InitPinned, PTL DEF Spec

-----------------------------------------------------------------------------
(* Scores and what they are out of.                                        *)

\* The questions of a version: at least one, each worth something.
LEMMA VersionQuestions ==
  ASSUME OnlyAccepted, NEW v \in DOMAIN versions
  PROVE  /\ IsFiniteSet(DOMAIN versions[v]) /\ DOMAIN versions[v] # {}
         /\ \A q \in DOMAIN versions[v] : /\ versions[v][q].points \in Nat \ {0}
                                         /\ versions[v][q].penalty \in Nat
  <1> DEFINE Stored == {Resolved(in) : in \in Accepted}
  <1>1. versions[v] \in Seq(Stored) /\ versions[v] # <<>>
    <2> DEFINE snapshots == Seq(Stored) \ {<<>>}
    <2>1. versions \in Seq(snapshots)
      BY DEF OnlyAccepted
    <2> HIDE DEF snapshots
    <2>2. versions[v] \in snapshots
      BY <2>1, LenProperties, ElementOfSeq
    <2>3. QED
      BY <2>2 DEF snapshots
  <1>2. \A q \in Stored : q.points \in 1 .. MaxPoints /\ q.penalty \in 0 .. MaxPoints
    BY ResolvedFields
  <1> HIDE DEF Stored
  <1>3. Len(versions[v]) \in Nat /\ DOMAIN versions[v] = 1 .. Len(versions[v])
    BY <1>1, LenProperties
  <1>4. \A q \in DOMAIN versions[v] : versions[v][q] \in Stored
    BY <1>1, <1>3, ElementOfSeq
  <1>5. IsFiniteSet(1 .. Len(versions[v])) /\ Len(versions[v]) # 0
    BY <1>1, <1>3, FS_Interval, EmptySeq
  <1>6. \A q \in DOMAIN versions[v] : versions[v][q].points \in Nat \ {0} /\ versions[v][q].penalty \in Nat
    BY <1>2, <1>4
  <1>7. 1 \in DOMAIN versions[v]
    BY <1>3, <1>5
  <1>8. QED
    BY <1>3, <1>5, <1>6, <1>7

\* The model's sums are sums over functions.
LEMMA AwardedSum ==
  ASSUME NEW f, IsFiniteSet(DOMAIN f)
  PROVE  Sum(f) = SumOf([q \in DOMAIN f |-> f[q].awarded], DOMAIN f)
  <1> DEFINE D == DOMAIN f
             g == [q \in D |-> f[q].awarded]
  <1>1. PICK it : Unfolds(it, g, D)
    BY Unfolding
  <1>2. it = [s \in SUBSET D |-> IF s = {} THEN 0
                                ELSE LET x == CHOOSE x \in s : TRUE IN f[x].awarded + it[s \ {x}]]
    BY <1>1 DEF Unfolds
  <1> HIDE DEF D
  <1>3. \E jt : /\ jt = [s \in SUBSET D |-> IF s = {} THEN 0
                           ELSE LET x == CHOOSE x \in s : TRUE IN f[x].awarded + jt[s \ {x}]]
               /\ MapThenSumSet(LAMBDA q : f[q].awarded, D) = jt[D]
    BY <1>2 DEF MapThenSumSet, MapThenFoldSet
  <1>4. PICK jt : /\ jt = [s \in SUBSET D |-> IF s = {} THEN 0
                            ELSE LET x == CHOOSE x \in s : TRUE IN f[x].awarded + jt[s \ {x}]]
                  /\ MapThenSumSet(LAMBDA q : f[q].awarded, D) = jt[D]
    BY <1>3
  <1>5. Unfolds(jt, g, D)
    BY <1>4 DEF Unfolds
  <1>6. SumOf(g, D) = jt[D]
    BY <1>5, SumUnfolds DEF D
  <1>7. QED
    BY <1>4, <1>6 DEF Sum, D

LEMMA PointsSum ==
  ASSUME NEW f, IsFiniteSet(DOMAIN f)
  PROVE  Worth(f) = SumOf([q \in DOMAIN f |-> f[q].points], DOMAIN f)
  <1> DEFINE D == DOMAIN f
             g == [q \in D |-> f[q].points]
  <1>1. PICK it : Unfolds(it, g, D)
    BY Unfolding
  <1>2. it = [s \in SUBSET D |-> IF s = {} THEN 0
                                ELSE LET x == CHOOSE x \in s : TRUE IN f[x].points + it[s \ {x}]]
    BY <1>1 DEF Unfolds
  <1> HIDE DEF D
  <1>3. \E jt : /\ jt = [s \in SUBSET D |-> IF s = {} THEN 0
                           ELSE LET x == CHOOSE x \in s : TRUE IN f[x].points + jt[s \ {x}]]
               /\ MapThenSumSet(LAMBDA q : f[q].points, D) = jt[D]
    BY <1>2 DEF MapThenSumSet, MapThenFoldSet
  <1>4. PICK jt : /\ jt = [s \in SUBSET D |-> IF s = {} THEN 0
                            ELSE LET x == CHOOSE x \in s : TRUE IN f[x].points + jt[s \ {x}]]
                  /\ MapThenSumSet(LAMBDA q : f[q].points, D) = jt[D]
    BY <1>3
  <1>5. Unfolds(jt, g, D)
    BY <1>4 DEF Unfolds
  <1>6. SumOf(g, D) = jt[D]
    BY <1>5, SumUnfolds DEF D
  <1>7. QED
    BY <1>4, <1>6 DEF Worth, D

\* A version is worth something.
LEMMA WorthSomething ==
  ASSUME OnlyAccepted, NEW v \in DOMAIN versions
  PROVE  Worth(versions[v]) \in Nat \ {0}
  <1> DEFINE D == DOMAIN versions[v]
             points == [q \in D |-> versions[v][q].points]
  <1>1. IsFiniteSet(D) /\ D # {} /\ \A q \in D : points[q] \in Nat \ {0}
    BY VersionQuestions
  <1>2. Worth(versions[v]) = SumOf(points, D)
    BY <1>1, PointsSum
  <1> HIDE DEF D, points
  <1>3. PICK q \in D : TRUE
    BY <1>1
  <1>4. SumOf(points, D) = points[q] + SumOf(points, D \ {q})
    BY <1>1, SumAny
  <1>5. SumOf(points, D \ {q}) \in Nat
    BY <1>1, SumNat
  <1>6. QED
    BY <1>1, <1>2, <1>4, <1>5

\* The marks of an attempt, one for each question it commits to an answer of.
LEMMA MarksOfAttempt ==
  ASSUME OnlyAccepted, PinnedExist, NEW a \in AttemptIds, attempts[a].status # "none"
  PROVE  /\ IsFiniteSet(Committed(a)) /\ Committed(a) \subseteq DOMAIN Snapshot(a)
         /\ DOMAIN Marks(a) = Committed(a)
         /\ \A q \in Committed(a) : /\ Marks(a)[q].awarded \in Int
                                    /\ Marks(a)[q].awarded <= Snapshot(a)[q].points
  <1>1. attempts[a].version \in DOMAIN versions /\ DOMAIN answers[a] \subseteq DOMAIN Snapshot(a)
    BY DEF PinnedExist
  <1>2. /\ IsFiniteSet(DOMAIN Snapshot(a))
        /\ \A q \in DOMAIN Snapshot(a) : /\ Snapshot(a)[q].points \in Nat \ {0}
                                         /\ Snapshot(a)[q].penalty \in Nat
    BY <1>1, VersionQuestions DEF Snapshot
  <1>3. Committed(a) \subseteq DOMAIN Snapshot(a)
    BY <1>1 DEF Committed
  <1>4. IsFiniteSet(Committed(a))
    BY <1>2, <1>3, FS_Subset
  <1>5. ASSUME NEW q \in Committed(a)
        PROVE  Marks(a)[q].awarded \in Int /\ Marks(a)[q].awarded <= Snapshot(a)[q].points
    <2>1. Marks(a)[q].awarded \in {Snapshot(a)[q].points, -Snapshot(a)[q].penalty}
      BY DEF Marks, Mark
    <2>2. QED
      BY <1>2, <1>3, <2>1
  <1>6. QED
    BY <1>3, <1>4, <1>5 DEF Marks

\* A score is no less than zero and no more than the maximum.
LEMMA TotalInRange ==
  ASSUME OnlyAccepted, PinnedExist, NEW a \in AttemptIds, attempts[a].status # "none"
  PROVE  MaxScore(a) \in Nat \ {0} /\ Total(a) \in 0 .. MaxScore(a)
  <1> DEFINE C == Committed(a)
             D == DOMAIN Snapshot(a)
             awarded == [q \in C |-> Marks(a)[q].awarded]
             points == [q \in D |-> Snapshot(a)[q].points]
  <1>1. attempts[a].version \in DOMAIN versions
    BY DEF PinnedExist
  <1>2. MaxScore(a) \in Nat \ {0}
    BY <1>1, WorthSomething DEF MaxScore, Snapshot
  <1>3. IsFiniteSet(D) /\ \A q \in D : points[q] \in Nat
    BY <1>1, VersionQuestions DEF Snapshot
  <1>4. MaxScore(a) = SumOf(points, D)
    BY <1>3, PointsSum DEF MaxScore
  <1>5. /\ IsFiniteSet(C) /\ C \in SUBSET D
        /\ \A q \in C : awarded[q] \in Int /\ points[q] \in Int /\ awarded[q] <= points[q]
    BY <1>3, MarksOfAttempt
  <1>6. Sum(Marks(a)) = SumOf(awarded, C)
    <2>1. DOMAIN Marks(a) = C
      BY MarksOfAttempt
    <2>2. QED
      BY <1>5, <2>1, AwardedSum
  <1> HIDE DEF C, D, awarded, points
  <1>7. SumOf(awarded, C) <= SumOf(points, C)
    BY <1>5, SumMonotone
  <1>8. SumOf(points, C) \in Nat /\ SumOf(points, C) <= SumOf(points, D)
    BY <1>3, <1>5, SumNat
  <1>9. SumOf(awarded, C) \in Int
    BY <1>5, SumType
  <1>10. QED
    BY <1>2, <1>4, <1>6, <1>7, <1>8, <1>9 DEF Total

\* A score from zero to what the version is worth.
ScoreInRange(a) == MaxScore(a) \in Nat \ {0} /\ attempts[a].score \in 0 .. MaxScore(a)

LEMMA GradedInRange ==
  ASSUME PinnedInv, NEW a \in AttemptIds, attempts[a].status = "graded"
  PROVE  ScoreInRange(a)
  <1>1. MaxScore(a) \in Nat \ {0} /\ Total(a) \in 0 .. MaxScore(a)
    BY TotalInRange DEF PinnedInv
  <1>2. attempts[a].score \in {0, Total(a)}
    BY DEF PinnedInv, GradesAreCurrent, GradeIsCurrent
  <1>3. QED
    BY <1>1, <1>2 DEF ScoreInRange

\* A graded attempt's score is a number from zero to what its version is worth,
\* whatever the points and the penalties are and whatever is overridden.
THEOREM ScoresAreInRange ==
  Spec => [](\A a \in AttemptIds : attempts[a].status = "graded" => ScoreInRange(a))
  <1>1. PinnedInv => \A a \in AttemptIds : attempts[a].status = "graded" => ScoreInRange(a)
    BY GradedInRange
  <1>2. QED
    BY <1>1, GradesStayCurrent, PTL

-----------------------------------------------------------------------------
(* What the reads show of an attempt.                                      *)

\* The player is sent the questions the attempt is graded on.
LEMMA DeliveredQuestions ==
  ASSUME PinnedExist, NEW p, NEW a \in AttemptIds
  PROVE  DeliveredAsGraded(p, a)
  <1> SUFFICES ASSUME NEW d \in Details(p, a), d # NotFound
               PROVE  d.questions = WithoutKey(Snapshot(a))
    BY DEF DeliveredAsGraded
  <1>1. PICK snapshot \in Deliverable(a) :
          d = [questions |-> WithoutKey(snapshot), answers |-> answers[a]]
    BY DEF Details
  <1>2. snapshot = Snapshot(a)
    BY DEF Deliverable, SnapshotKey, Snapshot, PinnedExist
  <1>3. QED
    BY <1>1, <1>2

\* Every read shows the stored score out of what the pinned version is worth, and
\* whether it was overridden.
ShownAlike(a) ==
  \A p \in Actors : ShownScores(p, a) \subseteq {<<attempts[a].score, MaxScore(a), attempts[a].overridden>>}

LEMMA ShownScore ==
  ASSUME NEW a \in AttemptIds, attempts[a].status = "graded"
  PROVE  ShownAlike(a)
  <1> SUFFICES ASSUME NEW p \in Actors, NEW triple \in ShownScores(p, a)
               PROVE  triple = <<attempts[a].score, MaxScore(a), attempts[a].overridden>>
    BY DEF ShownAlike
  <1> DEFINE Fair(r) == /\ r.score = attempts[a].score /\ r.max = MaxScore(a)
                       /\ r.overridden = attempts[a].overridden
  <1>1. ASSUME Review(p, a) \notin {NotFound, NotReleased, Error}
        PROVE  Fair(Review(p, a))
    BY <1>1 DEF Review
  <1>2. ASSUME Result(a) \notin {NotFound, NotReleased, Error}
        PROVE  Fair(Result(a))
    BY <1>2 DEF Result
  <1>3. Fair(TableRow(a))
    BY DEF TableRow, Score, MaxScore, Worth, Snapshot
  <1>4. ASSUME Table(p) # NotFound, NEW r \in Table(p)[a[1]], r.attempt = a
        PROVE  Fair(r)
    <2>1. a[1] \in Students
      BY DEF AttemptIds
    <2>2. Table(p) = [s \in Students |->
            {TableRow(b) : b \in {c \in AttemptIds : c[1] = s /\ attempts[c].status # "none"}}]
      BY <1>4 DEF Table
    <2>3. PICK b \in AttemptIds : r = TableRow(b)
      BY <1>4, <2>1, <2>2
    <2>4. b = a
      BY <1>4, <2>3 DEF TableRow
    <2>5. QED
      BY <1>3, <2>3, <2>4
  <1> DEFINE own == IF p.id = Pupil(a[1]).id THEN {Result(a)} ELSE {}
             rows == IF Table(p) = NotFound THEN {} ELSE {r \in Table(p)[a[1]] : r.attempt = a}
             shown == {Review(p, a)} \cup own \cup rows
  <1>5. ShownScores(p, a) = {<<r.score, r.max, r.overridden>> : r \in shown \ {NotFound, NotReleased, Error}}
    BY DEF ShownScores
  <1>6. \A r \in shown : \/ r = Review(p, a)
                         \/ r = Result(a)
                         \/ Table(p) # NotFound /\ r \in Table(p)[a[1]] /\ r.attempt = a
    <2>1. \A r \in own : r = Result(a)
      OBVIOUS
    <2>2. \A r \in rows : Table(p) # NotFound /\ r \in Table(p)[a[1]] /\ r.attempt = a
      OBVIOUS
    <2> HIDE DEF own, rows
    <2>3. \A r \in shown : r = Review(p, a) \/ r \in own \/ r \in rows
      OBVIOUS
    <2> HIDE DEF shown
    <2>4. QED
      BY <2>1, <2>2, <2>3
  <1> HIDE DEF shown
  <1>7. PICK r \in shown \ {NotFound, NotReleased, Error} : triple = <<r.score, r.max, r.overridden>>
    BY <1>5
  <1>8. Fair(r)
    BY <1>1, <1>2, <1>4, <1>6, <1>7
  <1>9. QED
    BY <1>7, <1>8

\* What is left to say of the rows' shapes.
Typed == \A a \in AttemptIds : attempts[a].status \in {"none", "in_progress", "submitted", "graded"}

LEMMA InitTyped == Init => Typed
  BY DEF Init, Typed, Unstarted

LEMMA NextTyped == Typed /\ Shapes /\ [Next]_vars => Typed'
  <1> SUFFICES ASSUME Typed, Shapes, [Next]_vars, NEW a \in AttemptIds
               PROVE  attempts'[a].status \in {"none", "in_progress", "submitted", "graded"}
    BY DEF Typed
  <1>1. RowShape(attempts[a]) /\ RowStep(a) /\ attempts[a].status \in {"none", "in_progress", "submitted", "graded"}
    BY RowSteps DEF Shapes, Typed
  <1>2. CASE attempts'[a] = attempts[a]
    BY <1>1, <1>2
  <1>3. CASE attempts'[a] = Started(attempts[a])
    BY <1>1, <1>3 DEF RowShape, Columns, Started
  <1>4. ASSUME NEW taken,
               attempts'[a] \in {Ended(attempts[a], taken), [Ended(attempts[a], taken) EXCEPT !.kicked = TRUE]}
        PROVE  attempts'[a].status = "submitted"
    BY <1>1, <1>4 DEF RowShape, Columns, Ended
  <1>5. CASE attempts'[a] = GradedWith(attempts[a], Total(a))
    BY <1>1, <1>5 DEF RowShape, Columns, GradedWith
  <1>6. CASE attempts'[a] = Overridden(attempts[a])
    BY <1>1, <1>6 DEF RowShape, Columns, Overridden
  <1>7. QED
    BY <1>1, <1>2, <1>3, <1>4, <1>5, <1>6 DEF RowStep

\* The owner's table has a row of every attempt.
LEMMA TableRows ==
  ASSUME PinnedInv, Typed
  PROVE  /\ Table(Owner) # NotFound
         /\ \A a \in AttemptIds : attempts[a].status # "none" =>
              /\ TableRow(a) \in Table(Owner)[a[1]]
              /\ TableRow(a) \notin {NotFound, NotReleased, Error}
  <1>1. ASSUME NEW a \in AttemptIds, attempts[a].status # "none"
        PROVE  TableRow(a) \in Rows
    <2>1. MaxScore(a) \in Nat /\ (attempts[a].status = "graded" => attempts[a].score \in Nat)
      <3>1. MaxScore(a) \in Nat
        BY <1>1, TotalInRange DEF PinnedInv
      <3>2. QED
        BY <3>1, GradedInRange DEF ScoreInRange
    <2>2. TableRow(a) = [attempt |-> a, status |-> attempts[a].status, score |-> Score(a),
                         overridden |-> attempts[a].overridden, max |-> MaxScore(a)]
      BY DEF TableRow, MaxScore, Worth, Snapshot
    <2>3. attempts[a].status \in {"none", "in_progress", "submitted", "graded"}
      BY DEF Typed
    <2>4. Score(a) \in Nat \cup {Null}
      BY <2>1 DEF Score
    <2>5. attempts[a].overridden \in BOOLEAN
      BY DEF PinnedInv, Shapes, RowShape
    <2>6. QED
      BY <2>1, <2>2, <2>3, <2>4, <2>5 DEF Rows
  <1> DEFINE rows(s) == {TableRow(b) : b \in {c \in AttemptIds : c[1] = s /\ attempts[c].status # "none"}}
  <1>2. Can(Owner, "quiz.edit", QuizResource)
    BY DEF Can, Owns, Owner, Account, QuizResource
  <1>3. Table(Owner) = [s \in Students |-> rows(s)]
    BY <1>2 DEF Table
  <1>4. \A s \in Students : rows(s) \in SUBSET Rows
    BY <1>1
  <1>5. ASSUME NEW a \in AttemptIds, attempts[a].status # "none"
        PROVE  a[1] \in Students /\ TableRow(a) \in rows(a[1])
    BY <1>5 DEF AttemptIds
  <1> HIDE DEF rows
  <1>6. Table(Owner) \in [Students -> SUBSET Rows]
    BY <1>3, <1>4
  <1>7. QED
    BY <1>1, <1>3, <1>5, <1>6, RefusalsAssumption

LEMMA ScoreIsShown ==
  ASSUME PinnedInv, Typed, NEW a \in AttemptIds, attempts[a].status = "graded"
  PROVE  OneScoreShown(a)
  <1> DEFINE triple == <<attempts[a].score, MaxScore(a), attempts[a].overridden>>
  <1>1. ShownAlike(a)
    BY ShownScore
  <1>2. triple \in ShownScores(Owner, a)
    <2>1. /\ TableRow(a) \in Table(Owner)[a[1]] /\ Table(Owner) # NotFound
          /\ TableRow(a) \notin {NotFound, NotReleased, Error}
      BY TableRows
    <2>2. /\ TableRow(a).attempt = a /\ TableRow(a).score = attempts[a].score
          /\ TableRow(a).max = MaxScore(a) /\ TableRow(a).overridden = attempts[a].overridden
      BY DEF TableRow, Score, MaxScore, Worth, Snapshot
    <2> DEFINE own == IF Owner.id = Pupil(a[1]).id THEN {Result(a)} ELSE {}
               rows == IF Table(Owner) = NotFound THEN {} ELSE {r \in Table(Owner)[a[1]] : r.attempt = a}
               shown == {Review(Owner, a)} \cup own \cup rows
    <2>3. ShownScores(Owner, a) = {<<r.score, r.max, r.overridden>> : r \in shown \ {NotFound, NotReleased, Error}}
      BY DEF ShownScores
    <2>4. TableRow(a) \in rows
      BY <2>1, <2>2
    <2> HIDE DEF own, rows
    <2>5. TableRow(a) \in shown \ {NotFound, NotReleased, Error}
      BY <2>1, <2>4
    <2> HIDE DEF shown
    <2>6. QED
      BY <2>2, <2>3, <2>5
  <1>3. Owner \in Actors
    BY DEF Actors, Staff
  <1>4. UNION {ShownScores(p, a) : p \in Actors} = {triple}
    <2> HIDE DEF triple
    <2>1. \A p \in Actors : ShownScores(p, a) \subseteq {triple}
      BY <1>1 DEF ShownAlike, triple
    <2>2. QED
      BY <1>2, <1>3, <2>1
  <1>5. QED
    BY <1>4, FS_Singleton DEF OneScoreShown

\* The marks that the review lists add up to the score, unless it says that the
\* score was overridden: what was left blank is listed with none.
LEMMA ReviewAddsUp ==
  ASSUME PinnedInv, NEW a \in AttemptIds, attempts[a].status = "graded", Review(Owner, a) # Error
  PROVE  Review(Owner, a).score = IF Review(Owner, a).overridden THEN 0
                                  ELSE Floored(Sum(Review(Owner, a).questions))
  <1> DEFINE shown == Assembled(a)
             D == DOMAIN Snapshot(a)
             C == Committed(a)
             listed == [q \in D |-> shown[q].awarded]
             awarded == [q \in C |-> Marks(a)[q].awarded]
  <1>1. Can(Owner, "quiz.edit", QuizResource)
    BY DEF Can, Owns, Owner, Account, QuizResource
  <1>2. Error \notin Range(shown)
    BY <1>1 DEF Review
  <1>3. Review(Owner, a) = [questions |-> shown, score |-> attempts[a].score, max |-> MaxScore(a),
                            overridden |-> attempts[a].overridden]
    BY <1>1, <1>2 DEF Review
  <1>4. marks[a] = Marks(a) /\ attempts[a].score = IF attempts[a].overridden THEN 0 ELSE Total(a)
    BY DEF PinnedInv, GradesAreCurrent, GradeIsCurrent
  <1>5. IsFiniteSet(D)
    BY VersionQuestions DEF PinnedInv, PinnedExist, Snapshot
  <1>6. /\ IsFiniteSet(C) /\ C \subseteq D /\ DOMAIN Marks(a) = C
        /\ \A q \in C : awarded[q] \in Int
    BY MarksOfAttempt DEF PinnedInv
  <1>7. DOMAIN shown = D /\ \A q \in D : shown[q] = ResultQuestion(a, q) /\ shown[q] # Error
    BY <1>2 DEF Assembled, Range
  <1>8. ASSUME NEW q \in D
        PROVE  listed[q] = IF q \in C THEN awarded[q] ELSE 0
    <2>1. CASE q \in C
      <3>1. q \in DOMAIN answers[a]
        BY <2>1 DEF Committed
      <3>2. shown[q] = [response |-> answers[a][q], awarded |-> marks[a][q].awarded]
        BY <1>7, <2>1, <3>1 DEF ResultQuestion
      <3>3. QED
        BY <1>4, <2>1, <3>2
    <2>2. CASE q \notin C
      <3>1. shown[q] = [response |-> Null, awarded |-> 0]
        BY <1>7, <2>2 DEF ResultQuestion
      <3>2. QED
        BY <2>2, <3>1
    <2>3. QED
      BY <2>1, <2>2
  <1>9. Sum(shown) = SumOf(listed, D)
    BY <1>5, <1>7, AwardedSum
  <1>10. Sum(Marks(a)) = SumOf(awarded, C)
    BY <1>6, AwardedSum
  <1> HIDE DEF D, C, listed, awarded
  <1>11. SumOf(listed, D) = SumOf(awarded, C)
    <2>1. \A q \in D : listed[q] \in Int
      BY <1>6, <1>8
    <2>2. SumOf(listed, D) = SumOf(listed, C) + SumOf(listed, D \ C)
      BY <1>5, <1>6, <2>1, SumParts
    <2>3. SumOf(listed, D \ C) = 0
      <3>1. IsFiniteSet(D \ C) /\ \A q \in D \ C : listed[q] = 0
        BY <1>5, <1>8, FS_Subset
      <3>2. QED
        BY <3>1, SumZeros
    <2>4. SumOf(listed, C) = SumOf(awarded, C)
      <3>1. \A q \in C : awarded[q] \in Int /\ listed[q] = awarded[q]
        BY <1>6, <1>8
      <3>2. QED
        BY <1>6, <3>1, SumSame
    <2>5. SumOf(awarded, C) \in Int
      BY <1>6, SumType
    <2>6. QED
      BY <2>2, <2>3, <2>4, <2>5
  <1>12. Total(a) = Floored(Sum(shown))
    BY <1>9, <1>10, <1>11 DEF Total, Floored
  <1> HIDE DEF shown
  <1>13. QED
    BY <1>3, <1>4, <1>12

\* Whoever reads an attempt: the questions it is graded on, one score out of one
\* maximum, and marks that add up to it unless it was overridden.
LEMMA AttemptsAlike == PinnedInv /\ Typed => AttemptsReadAlike
  <1> SUFFICES ASSUME PinnedInv, Typed
               PROVE  AttemptsReadAlike
    OBVIOUS
  <1>1. \A a \in AttemptIds : \A p \in Actors : DeliveredAsGraded(p, a)
    BY DeliveredQuestions DEF PinnedInv
  <1>2. ASSUME NEW a \in AttemptIds, attempts[a].status = "graded"
        PROVE  /\ OneScoreShown(a)
               /\ Review(Owner, a) # Error =>
                    Review(Owner, a).score = IF Review(Owner, a).overridden THEN 0
                                             ELSE Floored(Sum(Review(Owner, a).questions))
    BY <1>2, ScoreIsShown, ReviewAddsUp
  <1>3. QED
    BY <1>1, <1>2 DEF AttemptsReadAlike

\* Whatever is published later, dropped from the cache or read by whom: the
\* player is sent the questions the attempt is graded on, and the review, the
\* table and the released result show one score out of one maximum: the total of
\* the stored marks, or zero and the flag that says that it was overridden.
THEOREM ReadsShowOneAttempt ==
  Spec => [](\A a \in AttemptIds :
               /\ \A p \in Actors : DeliveredAsGraded(p, a)
               /\ attempts[a].status = "graded" => GradeIsCurrent(a) /\ ShownAlike(a))
  <1>1. PinnedInv => \A a \in AttemptIds :
               /\ \A p \in Actors : DeliveredAsGraded(p, a)
               /\ attempts[a].status = "graded" => GradeIsCurrent(a) /\ ShownAlike(a)
    BY DeliveredQuestions, ShownScore DEF PinnedInv, GradesAreCurrent
  <1>2. QED
    BY <1>1, GradesStayCurrent, PTL

-----------------------------------------------------------------------------
(* Standings, and the percentiles beside them.                             *)

\* Division, and products that keep an order.
LEMMA Quotient ==
  ASSUME NEW x \in Nat, NEW m \in Nat \ {0}
  PROVE  x \div m \in Nat /\ (x \div m) * m <= x /\ x < (x \div m + 1) * m
  OBVIOUS

LEMMA TimesMonotone ==
  ASSUME NEW x \in Int, NEW y \in Int, x <= y, NEW m \in Nat
  PROVE  x * m <= y * m
  OBVIOUS

LEMMA TimesStrict ==
  ASSUME NEW x \in Int, NEW y \in Int, x < y, NEW m \in Nat \ {0}
  PROVE  x * m < y * m
  OBVIOUS

\* The larger ratio has the larger quotient.
LEMMA QuotientsMonotone ==
  ASSUME NEW a \in Nat, NEW b \in Nat, NEW m \in Nat \ {0}, NEW n \in Nat \ {0}, b * m <= a * n
  PROVE  b \div n <= a \div m
  <1> DEFINE q == a \div m
             r == b \div n
  <1>1. q \in Nat /\ a < (q + 1) * m
    BY Quotient
  <1>2. r \in Nat /\ r * n <= b
    BY Quotient
  <1> HIDE DEF q, r
  <1>3. SUFFICES ASSUME q + 1 <= r
                 PROVE  FALSE
    BY <1>1, <1>2 DEF q, r
  <1>4. (q + 1) * m <= r * m
    BY <1>1, <1>2, <1>3, TimesMonotone
  <1>5. a < r * m
    BY <1>1, <1>2, <1>4
  <1>6. a * n < (r * m) * n
    <2>1. r * m \in Int
      BY <1>2
    <2>2. QED
      BY <1>5, <2>1, TimesStrict
  <1>7. (r * n) * m <= b * m
    <2>1. r * n \in Int
      BY <1>2
    <2>2. QED
      BY <1>2, <2>1, TimesMonotone
  <1>8. (r * n) * m = (r * m) * n
    BY <1>2
  <1>9. b * m \in Int /\ a * n \in Int /\ (r * m) * n \in Int
    BY <1>2
  <1>10. QED
    BY <1>6, <1>7, <1>8, <1>9

\* A score falls into a decile, and the higher accuracy into no lower one.
LEMMA BucketBounds ==
  ASSUME NEW score \in Nat, NEW max \in Nat \ {0}
  PROVE  BucketIndex(score, max) \in Buckets
  <1>1. CASE score >= max
    BY <1>1 DEF BucketIndex, Buckets
  <1>2. CASE score < max
    <2> DEFINE q == (score * 10) \div max
    <2>1. q \in Nat /\ q * max <= score * 10
      BY Quotient
    <2>2. BucketIndex(score, max) = q
      BY <1>2 DEF BucketIndex
    <2> HIDE DEF q
    <2>3. q >= 10 => 10 * max <= q * max
      BY <2>1, TimesMonotone
    <2>4. q * max \in Int
      BY <2>1
    <2>5. QED
      BY <1>2, <2>1, <2>2, <2>3, <2>4 DEF Buckets
  <1>3. QED
    BY <1>1, <1>2

LEMMA BucketMonotone ==
  ASSUME NEW s \in Nat, NEW m \in Nat \ {0}, NEW t \in Nat, NEW n \in Nat \ {0}, t * m <= s * n
  PROVE  BucketIndex(t, n) <= BucketIndex(s, m)
  <1>1. BucketIndex(s, m) \in 0 .. 9 /\ BucketIndex(t, n) \in 0 .. 9
    BY BucketBounds DEF Buckets
  <1>2. CASE s >= m
    <2>1. BucketIndex(s, m) = 9
      BY <1>2 DEF BucketIndex
    <2>2. QED
      BY <1>1, <2>1
  <1>3. CASE s < m
    <2>1. t < n
      <3>1. SUFFICES ASSUME n <= t
                     PROVE  FALSE
        OBVIOUS
      <3>2. n * m <= t * m
        BY <3>1, TimesMonotone
      <3>3. s * n < m * n
        BY <1>3, TimesStrict
      <3>4. n * m = m * n /\ n * m \in Int /\ t * m \in Int /\ s * n \in Int
        OBVIOUS
      <3>5. QED
        BY <3>2, <3>3, <3>4
    <2>2. BucketIndex(s, m) = (s * 10) \div m /\ BucketIndex(t, n) = (t * 10) \div n
      BY <1>3, <2>1 DEF BucketIndex
    <2>3. (t * 10) * m <= (s * 10) * n
      <3>1. (t * m) * 10 <= (s * n) * 10
        <4>1. t * m \in Int /\ s * n \in Int
          OBVIOUS
        <4>2. QED
          BY <4>1, TimesMonotone
      <3>2. (t * 10) * m = (t * m) * 10 /\ (s * 10) * n = (s * n) * 10
        OBVIOUS
      <3>3. QED
        BY <3>1, <3>2
    <2>4. (t * 10) \div n <= (s * 10) \div m
      <3>1. t * 10 \in Nat /\ s * 10 \in Nat
        OBVIOUS
      <3>2. QED
        BY <2>3, <3>1, QuotientsMonotone
    <2>5. QED
      BY <2>2, <2>4
  <1>4. QED
    BY <1>2, <1>3

LEMMA BucketsAreFinite == IsFiniteSet(Buckets)
  <1>1. 0 \in Int /\ 9 \in Int
    OBVIOUS
  <1>2. IsFiniteSet(0 .. 9)
    BY <1>1, FS_Interval
  <1>3. QED
    BY <1>2 DEF Buckets

\* The students at or below a decile, those of their own counted once and those
\* below twice.
Place(d, own) == (2 * SumOf(d, 0 .. own - 1) + d[own]) * 50

LEMMA Places ==
  ASSUME NEW d \in [Buckets -> Nat], NEW own \in Buckets
  PROVE  /\ SumOf(d, Buckets) \in Nat /\ Place(d, own) \in Nat
         /\ Place(d, own) <= 100 * SumOf(d, Buckets)
         /\ \A low \in Buckets : low <= own => Place(d, low) <= Place(d, own)
  <1>1. IsFiniteSet(Buckets) /\ \A b \in Buckets : d[b] \in Nat
    BY BucketsAreFinite
  <1>2. \A T \in SUBSET Buckets : SumOf(d, T) \in Nat /\ SumOf(d, T) <= SumOf(d, Buckets)
    BY <1>1, SumNat
  <1>3. \A b \in Buckets : /\ 0 .. b - 1 \in SUBSET Buckets /\ 0 .. b \in SUBSET Buckets
                           /\ b \in 0 .. b /\ (0 .. b) \ {b} = 0 .. b - 1
    BY DEF Buckets
  <1>4. ASSUME NEW b \in Buckets
        PROVE  SumOf(d, 0 .. b) = d[b] + SumOf(d, 0 .. b - 1)
    <2>1. SumOf(d, 0 .. b) = d[b] + SumOf(d, (0 .. b) \ {b})
      <3>1. \A x \in Buckets : d[x] \in Int
        BY <1>1
      <3>2. 0 .. b \in SUBSET Buckets /\ b \in 0 .. b
        BY <1>3
      <3>3. QED
        BY <1>1, <3>1, <3>2, SumAny
    <2>2. QED
      BY <1>3, <2>1
  <1>5. ASSUME NEW b \in Buckets
        PROVE  /\ SumOf(d, 0 .. b - 1) \in Nat /\ d[b] \in Nat
               /\ SumOf(d, 0 .. b - 1) + d[b] <= SumOf(d, Buckets)
    <2>1. SumOf(d, 0 .. b - 1) \in Nat /\ SumOf(d, 0 .. b) <= SumOf(d, Buckets)
      BY <1>2, <1>3
    <2>2. QED
      BY <1>1, <1>4, <2>1
  <1>6. SumOf(d, Buckets) \in Nat
    BY <1>2
  <1>7. Place(d, own) \in Nat /\ Place(d, own) <= 100 * SumOf(d, Buckets)
    BY <1>5, <1>6 DEF Place
  <1>8. ASSUME NEW low \in Buckets, low <= own
        PROVE  Place(d, low) <= Place(d, own)
    <2>1. CASE low = own
      BY <1>7, <2>1
    <2>2. CASE low < own
      <3>1. 0 .. low \in SUBSET (0 .. own - 1)
        BY <2>2 DEF Buckets
      <3>2. SumOf(d, 0 .. low) <= SumOf(d, 0 .. own - 1)
        <4>1. IsFiniteSet(0 .. own - 1)
          BY <1>1, <1>3, FS_Subset
        <4>2. \A b \in 0 .. own - 1 : d[b] \in Nat
          BY <1>1, <1>3
        <4>3. QED
          BY <3>1, <4>1, <4>2, SumNat
      <3>3. SumOf(d, 0 .. low - 1) + d[low] <= SumOf(d, 0 .. own - 1)
        BY <1>4, <1>5, <3>2
      <3>4. /\ SumOf(d, 0 .. low - 1) \in Nat /\ d[low] \in Nat
            /\ SumOf(d, 0 .. own - 1) \in Nat /\ d[own] \in Nat
        BY <1>5
      <3>5. QED
        BY <3>3, <3>4 DEF Place
    <2>3. low \in Int /\ own \in Int
      BY DEF Buckets
    <2>4. QED
      BY <1>8, <2>1, <2>2, <2>3
  <1>9. QED
    BY <1>6, <1>7, <1>8

\* The attempts that stand for the students who have a graded one.
LEMMA PickedRows ==
  ASSUME NEW rows, \A s \in Students : rows[s] \subseteq BestRows(s), NEW f \in Picks(rows)
  PROVE  /\ DOMAIN f = Takers
         /\ \A s \in Takers : /\ f[s] \in AttemptIds /\ attempts[f[s]].status = "graded"
                              /\ f[s] \in Graded(s)
                              /\ \A b \in Graded(s) : attempts[b].score <= attempts[f[s]].score
  <1>1. f \in [Takers -> AttemptIds] /\ \A s \in Takers : f[s] \in rows[s]
    BY DEF Picks, Takers
  <1>2. \A s \in Takers : f[s] \in BestRows(s)
    BY <1>1 DEF Takers
  <1>3. QED
    BY <1>1, <1>2 DEF BestRows, Graded

LEMMA TakersAreFinite ==
  IsFiniteSet(Students) /\ Students \subseteq Nat /\ IsFiniteSet(Takers) /\ Takers \subseteq Students
  <1>1. NumStudents \in Int /\ 1 \in Int
    BY MarkingAssumption
  <1>2. IsFiniteSet(1 .. NumStudents)
    BY <1>1, FS_Interval
  <1>3. IsFiniteSet(Students) /\ Students \subseteq Nat
    BY <1>1, <1>2 DEF Students
  <1>4. Takers \in SUBSET Students
    BY DEF Takers
  <1>5. IsFiniteSet(Takers)
    BY <1>3, <1>4, FS_Subset
  <1>6. QED
    BY <1>3, <1>4, <1>5

LEMMA BestFacts ==
  ASSUME PinnedInv, NEW best \in BestAttempts \cup Boards
  PROVE  /\ DOMAIN best = Takers
         /\ \A s \in Takers : /\ best[s] \in AttemptIds /\ best[s] \in Graded(s)
                              /\ \A b \in Graded(s) : attempts[b].score <= attempts[best[s]].score
                              /\ attempts[best[s]].score \in Nat /\ MaxScore(best[s]) \in Nat \ {0}
  <1>1. /\ DOMAIN best = Takers
        /\ \A s \in Takers : /\ best[s] \in AttemptIds /\ attempts[best[s]].status = "graded"
                             /\ best[s] \in Graded(s)
                             /\ \A b \in Graded(s) : attempts[b].score <= attempts[best[s]].score
    <2>1. CASE best \in BestAttempts
      <3> DEFINE rows == [s \in Students |-> BestRows(s)]
      <3>1. \A s \in Students : rows[s] \subseteq BestRows(s)
        OBVIOUS
      <3>2. best \in Picks(rows)
        BY <2>1 DEF BestAttempts
      <3> HIDE DEF rows
      <3>3. QED
        BY <3>1, <3>2, PickedRows
    <2>2. CASE best \in Boards
      <3> DEFINE rows == [s \in Students |-> FastestRows(s)]
      <3>1. \A s \in Students : rows[s] \subseteq BestRows(s)
        BY DEF FastestRows
      <3>2. best \in Picks(rows)
        BY <2>2 DEF Boards
      <3> HIDE DEF rows
      <3>3. QED
        BY <3>1, <3>2, PickedRows
    <2>3. QED
      BY <2>1, <2>2
  <1>2. ASSUME NEW a \in AttemptIds, attempts[a].status = "graded"
        PROVE  attempts[a].score \in Nat /\ MaxScore(a) \in Nat \ {0}
    BY <1>2, GradedInRange DEF ScoreInRange
  <1>3. QED
    BY <1>1, <1>2

\* The histogram counts each student who has a graded attempt once.
LEMMA DistributionCounts ==
  ASSUME PinnedInv, NEW best \in BestAttempts
  PROVE  /\ Distribution(best) \in [Buckets -> Nat]
         /\ SumOf(Distribution(best), Buckets) = Cardinality(Takers)
         /\ Cardinality(Takers) \in Nat
  <1> DEFINE f == [s \in Takers |-> BucketIndex(attempts[best[s]].score, MaxScore(best[s]))]
             count == [b \in Buckets |-> Cardinality({s \in Takers : f[s] = b})]
  <1>a. DOMAIN best = Takers
        /\ \A s \in Takers : attempts[best[s]].score \in Nat /\ MaxScore(best[s]) \in Nat \ {0}
    BY BestFacts
  <1>1. DOMAIN best = Takers /\ \A s \in Takers : f[s] \in Buckets
    BY <1>a, BucketBounds
  <1>2. IsFiniteSet(Takers) /\ IsFiniteSet(Buckets)
    BY TakersAreFinite, BucketsAreFinite
  <1>3. Distribution(best) = count
    <2>1. \A b \in Buckets : {s \in Takers : f[s] = b}
              = {s \in DOMAIN best : BucketIndex(attempts[best[s]].score, MaxScore(best[s])) = b}
      BY <1>1
    <2>2. QED
      BY <2>1 DEF Distribution
  <1> HIDE DEF f
  <1>4. SumOf(count, Buckets) = Cardinality(Takers)
    BY <1>1, <1>2, SumCounts
  <1>5. \A b \in Buckets : Cardinality({s \in Takers : f[s] = b}) \in Nat
    BY <1>2, FS_Subset, FS_CardinalityType
  <1>6. Cardinality(Takers) \in Nat
    BY <1>2, FS_CardinalityType
  <1>7. QED
    BY <1>3, <1>4, <1>5, <1>6

\* The reader's row is on the leaderboard once: in the leading rows or behind them.
LEMMA ReaderShownOnce ==
  ASSUME NEW board, DOMAIN board \subseteq Students, NEW s \in DOMAIN board
  PROVE  Cardinality({k \in DOMAIN Leaderboard(board, s) : Leaderboard(board, s)[k] = s}) = 1
  <1> DEFINE S == DOMAIN board
             n == Cardinality(S)
             m == IF n < TopN THEN n ELSE TopN
             seq == Standings(board)
             top == SubSeq(seq, 1, m)
             shown == Leaderboard(board, s)
  <1>1. IsFiniteSet(S) /\ seq \in Bijection(1 .. n, S)
    BY BoardInOrder
  <1>2. n \in Nat /\ n # 0
    BY <1>1, FS_CardinalityType, FS_EmptySet
  <1>3. m \in 1 .. n
    BY <1>2, MarkingAssumption
  <1>4. shown = IF s \in Range(top) THEN top ELSE Append(top, s)
    BY DEF Leaderboard, SelfShown
  <1>5. seq \in [1 .. n -> S] /\ \A j, k \in 1 .. n : seq[j] = seq[k] => j = k
    BY <1>1 DEF Bijection, Injection, IsInjective
  <1> HIDE DEF n, m, seq, shown
  <1>6. top \in Seq(S) /\ Len(top) = m /\ \A k \in 1 .. m : top[k] = seq[k]
    <2>1. \A k \in 1 .. m : seq[k] \in S
      BY <1>2, <1>3, <1>5
    <2>2. m \in Int /\ 1 \in Int
      BY <1>2, <1>3
    <2> HIDE DEF S
    <2>3. /\ top \in Seq(S) /\ Len(top) = IF 1 <= m THEN m - 1 + 1 ELSE 0
          /\ \A k \in 1 .. m - 1 + 1 : top[k] = seq[1 + k - 1]
      BY <2>1, <2>2, SubSeqProperties
    <2> HIDE DEF top
    <2>4. \A k \in 1 .. m : 1 + k - 1 = k
      OBVIOUS
    <2>5. m - 1 + 1 = m /\ 1 <= m
      BY <1>2, <1>3
    <2>6. QED
      BY <2>3, <2>4, <2>5
  <1> HIDE DEF top
  <1>7. DOMAIN top = 1 .. m
    BY <1>6, LenProperties
  <1>8. \E k : {j \in DOMAIN shown : shown[j] = s} = {k}
    <2>1. CASE s \in Range(top)
      <3>1. PICK k \in 1 .. m : top[k] = s
        BY <1>7, <2>1 DEF Range
      <3>2. \A j \in 1 .. m : top[j] = s => j = k
        BY <1>2, <1>3, <1>5, <1>6, <3>1
      <3>3. {j \in DOMAIN shown : shown[j] = s} = {k}
        BY <1>4, <1>7, <2>1, <3>1, <3>2
      <3>4. QED
        BY <3>3
    <2>2. CASE s \notin Range(top)
      <3>1. shown = Append(top, s)
        BY <1>4, <2>2
      <3>2. /\ shown \in Seq(S) /\ Len(shown) = m + 1
            /\ \A j \in 1 .. m : shown[j] = top[j]
            /\ shown[m + 1] = s
        BY <1>6, <3>1, AppendProperties
      <3>3. DOMAIN shown = 1 .. m + 1
        BY <3>2, LenProperties
      <3>4. \A j \in 1 .. m : top[j] # s
        BY <1>7, <2>2 DEF Range
      <3>5. \A j \in 1 .. m + 1 : j \in 1 .. m \/ j = m + 1
        BY <1>2, <1>3
      <3>6. m + 1 \in 1 .. m + 1
        BY <1>2, <1>3
      <3>7. {j \in DOMAIN shown : shown[j] = s} = {m + 1}
        BY <3>2, <3>3, <3>4, <3>5, <3>6
      <3>8. QED
        BY <3>7
    <2>3. QED
      BY <2>1, <2>2
  <1>9. QED
    BY <1>8, FS_Singleton DEF shown

\* The mean of a quiz is the sum of its scores, whatever order they were sorted in.
LEMMA MeanIsTheSum ==
  ASSUME NEW scores, DOMAIN scores \subseteq Students, DOMAIN scores # {},
         \A s \in DOMAIN scores : scores[s] \in Int
  PROVE  MeanMedian(scores)[1] = <<SumOf(scores, DOMAIN scores), Cardinality(DOMAIN scores)>>
  <1> DEFINE S == DOMAIN scores
             n == Cardinality(S)
             order == ByScore(scores)
             D == 1 .. n
             g == [k \in D |-> scores[order[k]]]
  <1>1. IsFiniteSet(S) /\ order \in Bijection(D, S)
    BY ScoresInOrder
  <1>2. n \in Nat /\ n # 0
    BY <1>1, FS_CardinalityType, FS_EmptySet
  <1>3. IsFiniteSet(D)
    <2>1. 1 \in Int /\ n \in Int
      BY <1>2
    <2>2. QED
      BY <2>1, FS_Interval
  <1>4. MeanMedian(scores)[1] = <<MapThenSumSet(LAMBDA k : scores[order[k]], D), n>>
    <2>1. n # 0
      BY <1>2
    <2>2. QED
      BY <2>1 DEF MeanMedian
  <1>5. MapThenSumSet(LAMBDA k : scores[order[k]], D) = SumOf(g, D)
    <2>1. PICK it : Unfolds(it, g, D)
      BY <1>3, Unfolding
    <2>2. it = [s \in SUBSET D |-> IF s = {} THEN 0
                  ELSE LET x == CHOOSE x \in s : TRUE IN scores[order[x]] + it[s \ {x}]]
      BY <2>1 DEF Unfolds
    <2> HIDE DEF D, order
    <2>3. \E jt : /\ jt = [s \in SUBSET D |-> IF s = {} THEN 0
                             ELSE LET x == CHOOSE x \in s : TRUE IN scores[order[x]] + jt[s \ {x}]]
                  /\ MapThenSumSet(LAMBDA k : scores[order[k]], D) = jt[D]
      BY <2>2 DEF MapThenSumSet, MapThenFoldSet
    <2>4. PICK jt : /\ jt = [s \in SUBSET D |-> IF s = {} THEN 0
                              ELSE LET x == CHOOSE x \in s : TRUE IN scores[order[x]] + jt[s \ {x}]]
                    /\ MapThenSumSet(LAMBDA k : scores[order[k]], D) = jt[D]
      BY <2>3
    <2>5. Unfolds(jt, g, D)
      BY <2>4 DEF Unfolds
    <2>6. SumOf(g, D) = jt[D]
      BY <1>3, <2>5, SumUnfolds
    <2>7. QED
      BY <2>4, <2>6
  <1>6. SumOf(g, D) = SumOf(scores, S)
    <2> HIDE DEF D, S, order
    <2>1. QED
      BY <1>1, <1>3, SumRenamed DEF S
  <1>7. QED
    BY <1>4, <1>5, <1>6

LEMMA RowScoresSum ==
  ASSUME NEW D, IsFiniteSet(D)
  PROVE  MapThenSumSet(LAMBDA s : studentStats[s].score, D)
           = SumOf([s \in D |-> studentStats[s].score], D)
  <1> DEFINE g == [s \in D |-> studentStats[s].score]
  <1>1. PICK it : Unfolds(it, g, D)
    BY Unfolding
  <1>2. it = [s \in SUBSET D |-> IF s = {} THEN 0
                ELSE LET x == CHOOSE x \in s : TRUE IN studentStats[x].score + it[s \ {x}]]
    BY <1>1 DEF Unfolds
  <1>3. \E jt : /\ jt = [s \in SUBSET D |-> IF s = {} THEN 0
                           ELSE LET x == CHOOSE x \in s : TRUE IN studentStats[x].score + jt[s \ {x}]]
                /\ MapThenSumSet(LAMBDA s : studentStats[s].score, D) = jt[D]
    BY <1>2 DEF MapThenSumSet, MapThenFoldSet
  <1>4. PICK jt : /\ jt = [s \in SUBSET D |-> IF s = {} THEN 0
                            ELSE LET x == CHOOSE x \in s : TRUE IN studentStats[x].score + jt[s \ {x}]]
                  /\ MapThenSumSet(LAMBDA s : studentStats[s].score, D) = jt[D]
    BY <1>3
  <1>5. Unfolds(jt, g, D)
    BY <1>4 DEF Unfolds
  <1>6. SumOf(g, D) = jt[D]
    BY <1>5, SumUnfolds
  <1>7. QED
    BY <1>4, <1>6

\* When all is settled, who has an attempt has a graded one.
LEMMA AttemptedAreTakers ==
  ASSUME Settled
  PROVE  Attempted = Takers
  <1>1. ASSUME NEW s \in Students
        PROVE  (\E n \in 1 .. Budget[s] : attempts[<<s, n>>].status # "none") <=> Graded(s) # {}
    <2>1. \A n \in 1 .. Budget[s] : <<s, n>> \in AttemptIds
      BY DEF AttemptIds
    <2>2. \A n \in 1 .. Budget[s] : attempts[<<s, n>>].status # "none" => <<s, n>> \in Graded(s)
      BY <2>1 DEF Settled, Graded
    <2>3. \A a \in Graded(s) : \E n \in 1 .. Budget[s] : a = <<s, n>> /\ attempts[a].status = "graded"
      BY DEF Graded
    <2>4. QED
      BY <2>2, <2>3
  <1>2. QED
    BY <1>1 DEF Attempted, Takers

-----------------------------------------------------------------------------
(* What is rolled up changes with an override alone.                       *)

\* All that can still happen to the attempts of a settled quiz.
Overrides ==
  \A a \in AttemptIds :
    \/ attempts'[a] = attempts[a]
    \/ OverrideScore(a) /\ attempts'[a] = Overridden(attempts[a])

LEMMA SettledStays ==
  ASSUME Settled, Shapes, [Next]_vars
  PROVE  Settled' /\ Overrides /\ UNCHANGED <<answers, versions>>
  <1>1. ~AddQuestion /\ ~Import /\ ~Publish /\ ~Cancel /\ ~Close
    BY DEF Settled, AddQuestion, Import, Publish, Cancel, Close
  <1>2. \A a \in AttemptIds : ~Start(a) /\ ~SaveAnswer(a) /\ ~Submit(a) /\ ~Kick(a) /\ ~Grade(a)
    BY DEF Settled, Start, SaveAnswer, Submit, Kick, Grade
  <1>3. Overrides
    <2>1. \A a \in AttemptIds : attempts[a].status # "in_progress"
      BY DEF Settled
    <2>2. \A a \in AttemptIds : RowStep(a)
      BY RowSteps DEF Shapes
    <2>3. QED
      BY <1>2, <2>1, <2>2 DEF RowStep, Overrides
  <1>4. \A a \in AttemptIds : attempts'[a].status \in {"none", "graded"}
    <2>1. ASSUME NEW a \in AttemptIds
          PROVE  attempts'[a].status = attempts[a].status
      BY <1>3, <2>1 DEF Overrides, Overridden, Shapes, RowShape, Columns
    <2>2. QED
      BY <2>1 DEF Settled
  <1>5. quiz'.status = "closed" /\ UNCHANGED <<answers, versions>>
    <2>1. CASE Release
      BY <2>1 DEF Release, Settled, Shapes, sheets
    <2>2. ASSUME NEW a \in AttemptIds, OverrideScore(a)
          PROVE  UNCHANGED <<quiz, answers, versions>>
      BY <2>2 DEF OverrideScore, class
    <2>3. UNCHANGED vars => UNCHANGED <<quiz, answers, versions>>
      BY DEF vars, class, sheets
    <2>4. Rolls => UNCHANGED <<quiz, answers, versions>>
      BY RollsRead DEF class, sheets
    <2>5. QED
      BY <1>1, <1>2, <2>1, <2>2, <2>3, <2>4 DEF Next, Rolls, Settled
  <1>6. QED
    BY <1>3, <1>4, <1>5 DEF Settled

\* What an override leaves of an attempt, and of what it was worth.
LEMMA OverridesKeep ==
  ASSUME PinnedInv, Overrides, UNCHANGED <<answers, versions>>, NEW a \in AttemptIds
  PROVE  /\ attempts'[a].status = attempts[a].status
         /\ MaxScore(a)' = MaxScore(a) /\ Total(a)' = Total(a)
         /\ \/ attempts'[a] = attempts[a]
            \/ /\ attempts[a].status = "graded" /\ ~attempts[a].overridden
               /\ attempts'[a].score = 0 /\ attempts'[a].overridden
  <1>1. RowShape(attempts[a])
    BY DEF PinnedInv, Shapes
  <1>2. OverrideScore(a) => attempts[a].status = "graded" /\ ~attempts[a].overridden
    BY DEF OverrideScore
  <1>3. \/ attempts'[a] = attempts[a]
        \/ /\ attempts[a].status = "graded" /\ ~attempts[a].overridden
           /\ attempts'[a].score = 0 /\ attempts'[a].overridden
    BY <1>1, <1>2 DEF Overrides, Overridden, RowShape, Columns
  <1>4. attempts'[a].version = attempts[a].version /\ attempts'[a].status = attempts[a].status
    BY <1>1 DEF Overrides, Overridden, RowShape, Columns
  <1>5. Snapshot(a)' = Snapshot(a)
    BY <1>4 DEF Snapshot
  <1>6. Marks(a)' = Marks(a)
    BY <1>5 DEF Marks, Committed
  <1>7. QED
    BY <1>3, <1>4, <1>5, <1>6 DEF MaxScore, Total

\* A student's graded attempts are finitely many, and one of them scored highest.
HighestOf(s) ==
  /\ Highest(s) \in Nat
  /\ \A b \in Graded(s) : attempts[b].score \in Nat /\ attempts[b].score <= Highest(s)
  /\ \E a \in Graded(s) : attempts[a].score = Highest(s)

LEMMA GradedRows ==
  ASSUME NEW s \in Students
  PROVE  IsFiniteSet(Graded(s)) /\ \A a \in Graded(s) : a \in AttemptIds /\ attempts[a].status = "graded"
  <1>1. Budget[s] \in Int /\ 1 \in Int
    BY MarkingAssumption
  <1>2. IsFiniteSet({s}) /\ IsFiniteSet(1 .. Budget[s])
    BY <1>1, FS_Singleton, FS_Interval
  <1>3. IsFiniteSet({s} \X (1 .. Budget[s]))
    BY <1>2, FS_Product
  <1>4. Graded(s) \in SUBSET ({s} \X (1 .. Budget[s]))
    BY DEF Graded
  <1>5. IsFiniteSet(Graded(s))
    BY <1>3, <1>4, FS_Subset
  <1>6. QED
    BY <1>5 DEF Graded, AttemptIds

LEMMA HighestFacts == PinnedInv => \A s \in Takers : HighestOf(s)
  <1> SUFFICES ASSUME PinnedInv, NEW s \in Takers
               PROVE  HighestOf(s)
    OBVIOUS
  <1> DEFINE G == Graded(s)
             Up(a) == {b \in G : attempts[a].score <= attempts[b].score}
             Family == {Up(a) : a \in G}
  <1>1. IsFiniteSet(G) /\ G # {} /\ \A a \in G : a \in AttemptIds /\ attempts[a].status = "graded"
    BY GradedRows DEF Takers
  <1>2. \A a \in G : attempts[a].score \in Nat
    BY <1>1, GradedInRange DEF ScoreInRange
  <1>3. Family \in SUBSET SUBSET G /\ Family # {}
    BY <1>1
  <1> HIDE DEF G
  <1>4. PICK T \in Family : \A U \in Family : U \subseteq T => U = T
    <2> HIDE DEF Family
    <2>1. QED
      BY <1>1, <1>3, Smallest
  <1>5. PICK a \in G : T = Up(a)
    BY <1>4
  <1>6. \A b \in G : attempts[b].score <= attempts[a].score
    <2>1. ASSUME NEW b \in G, attempts[a].score <= attempts[b].score
          PROVE  attempts[b].score <= attempts[a].score
      <3>1. Up(b) \subseteq Up(a)
        BY <1>2, <2>1
      <3>2. Up(b) = Up(a)
        BY <1>4, <1>5, <3>1
      <3>3. a \in Up(b)
        BY <1>2, <3>2
      <3>4. QED
        BY <3>3
    <2>2. QED
      BY <1>2, <2>1
  <1>7. Highest(s) = attempts[a].score
    <2> DEFINE S == {attempts[b].score : b \in G}
    <2>1. Highest(s) = CHOOSE score \in S : \A b \in G : attempts[b].score <= score
      BY DEF Highest, G
    <2>2. attempts[a].score \in S
      OBVIOUS
    <2>3. Highest(s) \in S /\ \A b \in G : attempts[b].score <= Highest(s)
      <3> HIDE DEF S
      <3>1. QED
        BY <1>6, <2>1, <2>2
    <2>4. PICK b \in G : Highest(s) = attempts[b].score
      BY <2>3
    <2>5. QED
      BY <1>2, <1>6, <2>3, <2>4
  <1>8. QED
    BY <1>2, <1>6, <1>7 DEF HighestOf, G

LEMMA NextHighestFacts == PinnedInv' => (\A s \in Takers : HighestOf(s))'
  BY HighestFacts, PTL

\* With overrides alone the takers stay and nobody's highest score rises.
LEMMA HighestFalls ==
  ASSUME PinnedInv, PinnedInv', Overrides, UNCHANGED <<answers, versions>>
  PROVE  /\ \A s \in Students : Graded(s)' = Graded(s)
         /\ Takers' = Takers
         /\ \A s \in Takers : HighestOf(s) /\ Highest(s)' \in Nat /\ Highest(s)' <= Highest(s)
         /\ \A s \in Takers : (\A a \in AttemptIds : attempts'[a] = attempts[a]) => Highest(s)' = Highest(s)
  <1>1. ASSUME NEW s \in Students
        PROVE  Graded(s)' = Graded(s)
    <2>1. \A a \in {s} \X (1 .. Budget[s]) : a \in AttemptIds
      BY DEF AttemptIds
    <2>2. \A a \in {s} \X (1 .. Budget[s]) : attempts'[a].status = attempts[a].status
      BY <2>1, OverridesKeep
    <2>3. QED
      BY <2>2 DEF Graded
  <1>2. Takers' = Takers /\ Takers \subseteq Students
    BY <1>1 DEF Takers
  <1>3. ASSUME NEW s \in Takers
        PROVE  /\ HighestOf(s) /\ Highest(s)' \in Nat /\ Highest(s)' <= Highest(s)
               /\ (\A a \in AttemptIds : attempts'[a] = attempts[a]) => Highest(s)' = Highest(s)
    <2>1. HighestOf(s)
      BY HighestFacts
    <2>2. HighestOf(s)'
      BY <1>2, NextHighestFacts
    <2>3. Highest(s)' \in Nat
      BY <2>2 DEF HighestOf
    <2>4. PICK a \in Graded(s) : attempts'[a].score = Highest(s)'
      BY <1>1, <1>2, <2>2 DEF HighestOf
    <2>5. a \in AttemptIds /\ attempts[a].score \in Nat /\ attempts[a].score <= Highest(s) /\ Highest(s) \in Nat
      BY <1>2, <2>1, <2>4, GradedRows DEF HighestOf
    <2>6. Highest(s)' <= Highest(s)
      BY <2>3, <2>4, <2>5, OverridesKeep
    <2>7. ASSUME \A b \in AttemptIds : attempts'[b] = attempts[b]
          PROVE  Highest(s)' = Highest(s)
      <3>1. PICK b \in Graded(s) : attempts[b].score = Highest(s)
        BY <2>1 DEF HighestOf
      <3>2. b \in AttemptIds /\ attempts'[b].score <= Highest(s)'
        BY <1>1, <1>2, <2>2, <3>1, GradedRows DEF HighestOf
      <3>3. Highest(s) <= Highest(s)'
        BY <2>7, <3>1, <3>2
      <3>4. QED
        BY <2>3, <2>5, <2>6, <3>3
    <2>8. QED
      BY <2>1, <2>3, <2>6, <2>7
  <1>4. QED
    BY <1>1, <1>2, <1>3

\* So the sum of the highest scores only falls, and not without an override.
LEMMA BestSumFalls ==
  ASSUME PinnedInv, PinnedInv', Overrides, UNCHANGED <<answers, versions>>
  PROVE  /\ BestSum \in Nat /\ BestSum' \in Nat /\ BestSum' <= BestSum
         /\ (\A a \in AttemptIds : attempts'[a] = attempts[a]) => BestSum' = BestSum
  <1> DEFINE f == [s \in Takers |-> Highest(s)]
             g == [s \in Takers |-> Highest(s)']
  <1>1. IsFiniteSet(Takers)
    BY TakersAreFinite
  <1>2. \A s \in Takers : f[s] \in Nat /\ g[s] \in Nat /\ g[s] <= f[s]
    BY HighestFalls DEF HighestOf
  <1>3. BestSum = SumOf(f, Takers)
    BY DEF BestSum
  <1>4. BestSum' = SumOf(g, Takers)
    <2>1. Takers' = Takers
      BY HighestFalls
    <2>2. BestSum' = SumOf([s \in Takers' |-> Highest(s)'], Takers')
      BY DEF BestSum
    <2>3. QED
      BY <2>1, <2>2
  <1>5. (\A a \in AttemptIds : attempts'[a] = attempts[a]) => \A s \in Takers : f[s] = g[s]
    BY HighestFalls
  <1> HIDE DEF f, g
  <1>6. SumOf(f, Takers) \in Nat /\ SumOf(g, Takers) \in Nat
    BY <1>1, <1>2, SumNat
  <1>7. SumOf(g, Takers) <= SumOf(f, Takers)
    <2>1. \A s \in Takers : g[s] \in Int /\ f[s] \in Int /\ g[s] <= f[s]
      BY <1>2
    <2>2. QED
      BY <1>1, <2>1, SumMonotone
  <1>8. (\A s \in Takers : f[s] = g[s]) => SumOf(g, Takers) = SumOf(f, Takers)
    <2>1. ASSUME \A s \in Takers : f[s] = g[s]
          PROVE  SumOf(g, Takers) = SumOf(f, Takers)
      <3>1. \A s \in Takers : f[s] \in Int /\ g[s] = f[s]
        BY <1>2, <2>1
      <3>2. QED
        BY <1>1, <3>1, SumSame
    <2>2. QED
      BY <2>1
  <1>9. QED
    BY <1>3, <1>4, <1>5, <1>6, <1>7, <1>8

\* What a quiz's row says holds after an override as before.
HoldsAfter(row) ==
  /\ DOMAIN row = DOMAIN NoSummary
  /\ row.distribution \in [Buckets -> Nat]
  /\ SumOf(row.distribution, Buckets) = Cardinality(Takers')
  /\ row.attempted = Cardinality(Takers')
  /\ Takers' # {} => /\ row.meanMedian[1] \in Nat \X {Cardinality(Takers')}
                     /\ row.meanMedian[1][1] >= BestSum'
                     /\ NoneOverridden' => row.meanMedian[1][1] = BestSum'

LEMMA HoldsStill ==
  ASSUME PinnedInv, PinnedInv', Overrides, UNCHANGED <<answers, versions>>
  PROVE  \A row : Holds(row) => HoldsAfter(row)
  <1> SUFFICES ASSUME NEW row, Holds(row)
               PROVE  HoldsAfter(row)
    OBVIOUS
  <1>1. Takers' = Takers
    BY HighestFalls
  <1>2. BestSum \in Nat /\ BestSum' \in Nat /\ BestSum' <= BestSum
        /\ ((\A a \in AttemptIds : attempts'[a] = attempts[a]) => BestSum' = BestSum)
    BY BestSumFalls
  <1>3. NoneOverridden' => NoneOverridden /\ \A a \in AttemptIds : attempts'[a] = attempts[a]
    BY OverridesKeep DEF NoneOverridden
  <1>4. ASSUME Takers # {}
        PROVE  /\ row.meanMedian[1] \in Nat \X {Cardinality(Takers)}
               /\ row.meanMedian[1][1] >= BestSum'
               /\ NoneOverridden' => row.meanMedian[1][1] = BestSum'
    <2>1. /\ row.meanMedian[1] \in Nat \X {Cardinality(Takers)}
          /\ row.meanMedian[1][1] >= BestSum
          /\ NoneOverridden => row.meanMedian[1][1] = BestSum
      BY <1>4 DEF Holds
    <2>2. row.meanMedian[1][1] \in Nat
      BY <2>1
    <2>3. row.meanMedian[1][1] >= BestSum'
      BY <1>2, <2>1, <2>2
    <2>4. NoneOverridden' => row.meanMedian[1][1] = BestSum'
      BY <1>2, <1>3, <2>1
    <2>5. QED
      BY <2>1, <2>3, <2>4
  <1>5. /\ DOMAIN row = DOMAIN NoSummary /\ row.distribution \in [Buckets -> Nat]
        /\ SumOf(row.distribution, Buckets) = Cardinality(Takers)
        /\ row.attempted = Cardinality(Takers)
    BY DEF Holds
  <1>6. QED
    BY <1>1, <1>4, <1>5 DEF HoldsAfter

\* A row that counts the quiz for a student, and goes on doing so.
Counts(s, row) ==
  IF Graded(s) = {} THEN row = [done |-> 0, score |-> 0, max |-> 0]
  ELSE \E a \in Graded(s) : \E score \in {attempts[a].score, Total(a)} :
         /\ row = [done |-> 1, score |-> score, max |-> MaxScore(a)]
         /\ \A b \in Graded(s) : attempts[b].score <= score

CountsAfter(s, row) ==
  IF Graded(s)' = {} THEN row = [done |-> 0, score |-> 0, max |-> 0]
  ELSE \E a \in Graded(s)' : \E score \in {attempts'[a].score, Total(a)'} :
         /\ row = [done |-> 1, score |-> score, max |-> MaxScore(a)']
         /\ \A b \in Graded(s)' : attempts'[b].score <= score

LEMMA CountsStill ==
  ASSUME PinnedInv, PinnedInv', Overrides, UNCHANGED <<answers, versions>>,
         NEW s \in Students, NEW row, Counts(s, row)
  PROVE  CountsAfter(s, row)
  <1>1. Graded(s)' = Graded(s)
    BY HighestFalls
  <1>2. CASE Graded(s) = {}
    BY <1>1, <1>2 DEF Counts, CountsAfter
  <1>3. CASE Graded(s) # {}
    <2>1a. PICK a \in Graded(s) : \E score \in {attempts[a].score, Total(a)} :
             /\ row = [done |-> 1, score |-> score, max |-> MaxScore(a)]
             /\ \A b \in Graded(s) : attempts[b].score <= score
      BY <1>3 DEF Counts
    <2>1. PICK score \in {attempts[a].score, Total(a)} :
            /\ row = [done |-> 1, score |-> score, max |-> MaxScore(a)]
            /\ \A b \in Graded(s) : attempts[b].score <= score
      BY <2>1a
    <2>2. \A b \in Graded(s) : b \in AttemptIds /\ attempts[b].status = "graded"
      BY GradedRows
    <2>3. \A b \in Graded(s) : attempts[b].score \in Nat /\ Total(b) \in Nat
      <3>1. \A b \in Graded(s) : attempts[b].score \in Nat
        BY <2>2, GradedInRange DEF ScoreInRange
      <3>2. ASSUME NEW b \in Graded(s)
            PROVE  Total(b) \in Nat
        <4>1. MaxScore(b) \in Nat /\ Total(b) \in 0 .. MaxScore(b)
          BY <2>2, TotalInRange DEF PinnedInv
        <4>2. QED
          BY <4>1
      <3>3. QED
        BY <3>1, <3>2
    <2>4. \A b \in Graded(s) : attempts'[b].score <= score
      <3>1. score \in Nat
        BY <2>1, <2>3
      <3>2. QED
        BY <2>1, <2>2, <2>3, <3>1, OverridesKeep
    <2>5. MaxScore(a)' = MaxScore(a) /\ Total(a)' = Total(a)
      BY <2>2, OverridesKeep
    <2>6. score \in {attempts'[a].score, Total(a)'}
      <3>1. CASE attempts'[a] = attempts[a]
        BY <2>1, <2>5, <3>1
      <3>2. CASE ~attempts[a].overridden
        <4>1. attempts[a].score = Total(a)
          BY <2>2, <3>2 DEF PinnedInv, GradesAreCurrent, GradeIsCurrent
        <4>2. QED
          BY <2>1, <2>5, <4>1
      <3>3. QED
        BY <2>2, <3>1, <3>2, OverridesKeep
    <2>7. QED
      BY <1>1, <1>3, <2>1, <2>4, <2>5, <2>6 DEF CountsAfter
  <1>4. QED
    BY <1>2, <1>3

\* A row that counts a taker has a score no lower than any of theirs.
LEMMA CountedScore ==
  ASSUME PinnedInv, NEW s \in Takers, NEW row, Counts(s, row)
  PROVE  row.done = 1 /\ row.score \in Nat /\ Highest(s) <= row.score
  <1>1. Graded(s) # {} /\ s \in Students
    BY DEF Takers
  <1>2a. PICK a \in Graded(s) : \E score \in {attempts[a].score, Total(a)} :
           /\ row = [done |-> 1, score |-> score, max |-> MaxScore(a)]
           /\ \A b \in Graded(s) : attempts[b].score <= score
    BY <1>1 DEF Counts
  <1>2. PICK score \in {attempts[a].score, Total(a)} :
          /\ row = [done |-> 1, score |-> score, max |-> MaxScore(a)]
          /\ \A b \in Graded(s) : attempts[b].score <= score
    BY <1>2a
  <1>3. a \in AttemptIds /\ attempts[a].status = "graded"
    BY <1>1, GradedRows
  <1>4. MaxScore(a) \in Nat /\ Total(a) \in 0 .. MaxScore(a)
    BY <1>3, TotalInRange DEF PinnedInv
  <1>5. attempts[a].score \in Nat
    BY <1>3, GradedInRange DEF ScoreInRange
  <1>6. PICK b \in Graded(s) : attempts[b].score = Highest(s)
    BY HighestFacts DEF HighestOf
  <1>7. row.done = 1 /\ row.score = score
    BY <1>2
  <1>8. score \in Nat
    BY <1>2, <1>4, <1>5
  <1>9. QED
    BY <1>2, <1>6, <1>7, <1>8

\* A rollup that takes best for the best attempts writes rows that count.
LEMMA RowCounts ==
  ASSUME PinnedInv, NEW best \in BestAttempts, NEW s \in Students
  PROVE  /\ Counts(s, StudentRow(s, best))
         /\ s \in Takers => StudentRow(s, best).score = Highest(s)
  <1>1. DOMAIN best = Takers
    BY BestFacts
  <1>2. CASE s \notin Takers
    <2>1. StudentRow(s, best) = [done |-> 0, score |-> 0, max |-> 0]
      BY <1>1, <1>2 DEF StudentRow
    <2>2. Graded(s) = {}
      BY <1>2 DEF Takers
    <2>3. QED
      BY <1>2, <2>1, <2>2 DEF Counts
  <1>3. CASE s \in Takers
    <2>1. /\ best[s] \in Graded(s) /\ attempts[best[s]].score \in Nat
          /\ \A b \in Graded(s) : attempts[b].score <= attempts[best[s]].score
      BY <1>3, BestFacts
    <2>2. StudentRow(s, best) = [done |-> 1, score |-> attempts[best[s]].score, max |-> MaxScore(best[s])]
      BY <1>1, <1>3 DEF StudentRow
    <2>3. Counts(s, StudentRow(s, best))
      BY <2>1, <2>2 DEF Counts
    <2>4. HighestOf(s)
      BY <1>3, HighestFacts
    <2>5. Highest(s) = attempts[best[s]].score
      <3>1. PICK b \in Graded(s) : attempts[b].score = Highest(s)
        BY <2>4 DEF HighestOf
      <3>2. attempts[best[s]].score <= Highest(s) /\ Highest(s) \in Nat
        BY <2>1, <2>4 DEF HighestOf
      <3>3. QED
        BY <2>1, <3>1, <3>2
    <2>6. QED
      BY <2>2, <2>3, <2>5
  <1>4. QED
    BY <1>2, <1>3

\* The students' rows count, and sum up to no more than the quiz's mean.
FollowsAfter(row) ==
  /\ \A s \in Students : CountsAfter(s, studentStats'[s])
  /\ Takers' # {} => row.meanMedian[1][1] >= RowsSum'

\* They do so whatever is overridden, and whatever another quiz's rollup rewrites.
LEMMA FollowsStill ==
  ASSUME PinnedInv, PinnedInv', Overrides, UNCHANGED <<answers, versions>>,
         \A s \in Students :
           \/ studentStats'[s] = studentStats[s]
           \/ \E best \in BestAttempts : studentStats'[s] = StudentRow(s, best)
  PROVE  \A row : Holds(row) /\ Follows(row) => FollowsAfter(row)
  <1> SUFFICES ASSUME NEW row, Holds(row), Follows(row)
               PROVE  FollowsAfter(row)
    OBVIOUS
  <1>1. \A s \in Students : Counts(s, studentStats[s])
    BY DEF Follows, RowIncludes, Counts
  <1>2. ASSUME NEW s \in Students
        PROVE  /\ Counts(s, studentStats'[s])
               /\ s \in Takers => studentStats'[s].score \in Nat /\ studentStats[s].score \in Nat
                                  /\ studentStats'[s].score <= studentStats[s].score
    <2>1. CASE studentStats'[s] = studentStats[s]
      <3>1. s \in Takers => studentStats[s].score \in Nat
        BY <1>1, CountedScore
      <3>2. QED
        BY <1>1, <2>1, <3>1
    <2>2. ASSUME NEW best \in BestAttempts, studentStats'[s] = StudentRow(s, best)
          PROVE  /\ Counts(s, studentStats'[s])
                 /\ s \in Takers => studentStats'[s].score \in Nat /\ studentStats[s].score \in Nat
                                    /\ studentStats'[s].score <= studentStats[s].score
      <3>1. Counts(s, studentStats'[s]) /\ (s \in Takers => studentStats'[s].score = Highest(s))
        BY <2>2, RowCounts
      <3>2. s \in Takers => studentStats[s].score \in Nat /\ Highest(s) <= studentStats[s].score
        BY <1>1, CountedScore
      <3>3. s \in Takers => Highest(s) \in Nat
        BY HighestFacts DEF HighestOf
      <3>4. QED
        BY <3>1, <3>2, <3>3
    <2>3. QED
      BY <2>1, <2>2
  <1>3. \A s \in Students : CountsAfter(s, studentStats'[s])
    BY <1>2, CountsStill
  <1>4. ASSUME Takers # {}
        PROVE  row.meanMedian[1][1] >= RowsSum'
    <2> DEFINE f == [s \in Takers |-> studentStats[s].score]
               g == [s \in Takers |-> studentStats'[s].score]
    <2>1. Takers' = Takers /\ IsFiniteSet(Takers) /\ Takers \subseteq Students
      BY HighestFalls, TakersAreFinite
    <2>2. RowsSum = SumOf(f, Takers)
      BY DEF RowsSum
    <2>3. RowsSum' = SumOf(g, Takers)
      <3>1. RowsSum' = SumOf([s \in Takers' |-> studentStats'[s].score], Takers')
        BY DEF RowsSum
      <3>2. QED
        BY <2>1, <3>1
    <2>4. \A s \in Takers : f[s] \in Nat /\ g[s] \in Nat /\ g[s] <= f[s]
      BY <1>2, <2>1
    <2> HIDE DEF f, g
    <2>5. SumOf(f, Takers) \in Nat /\ SumOf(g, Takers) \in Nat
      BY <2>1, <2>4, SumNat
    <2>6. SumOf(g, Takers) <= SumOf(f, Takers)
      <3>1. \A s \in Takers : g[s] \in Int /\ f[s] \in Int /\ g[s] <= f[s]
        BY <2>4
      <3>2. QED
        BY <2>1, <3>1, SumMonotone
    <2>7. row.meanMedian[1] \in Nat \X {Cardinality(Takers)}
      BY <1>4 DEF Holds
    <2>8. row.meanMedian[1][1] \in Nat
      BY <2>7
    <2>9. row.meanMedian[1][1] >= RowsSum
      BY <1>4 DEF Follows
    <2>10. QED
      BY <2>2, <2>3, <2>5, <2>6, <2>8, <2>9
  <1>5. QED
    BY <1>3, <1>4, HighestFalls DEF FollowsAfter

\* What a rollup first makes of the best attempts holds of them.
LEMMA SummaryHolds ==
  ASSUME PinnedInv, Settled, NEW best \in BestAttempts
  PROVE  Holds(Summary(best))
  <1> DEFINE scores == Scores(best)
             high == [s \in Takers |-> Highest(s)]
             row == Summary(best)
  <1>1. /\ DOMAIN row = DOMAIN NoSummary /\ row.distribution = Distribution(best)
        /\ row.attempted = Cardinality(Attempted) /\ row.meanMedian = MeanMedian(scores)
    BY DEF Summary, NoSummary
  <1>2. Attempted = Takers
    BY AttemptedAreTakers
  <1>3. DOMAIN scores = Takers /\ \A s \in Takers : scores[s] = attempts[best[s]].score
    BY BestFacts DEF Scores
  <1>4. \A s \in Takers : scores[s] \in Int /\ high[s] = scores[s]
    <2>1. ASSUME NEW s \in Takers
          PROVE  scores[s] \in Int /\ Highest(s) = scores[s]
      <3>1. s \in Students
        BY TakersAreFinite
      <3>2. Highest(s) = StudentRow(s, best).score
        BY <3>1, RowCounts
      <3>3. StudentRow(s, best).score = attempts[best[s]].score
        BY BestFacts DEF StudentRow
      <3>4. attempts[best[s]].score \in Nat
        BY BestFacts
      <3>5. QED
        BY <1>3, <3>2, <3>3, <3>4
    <2>2. QED
      BY <2>1
  <1>5. BestSum = SumOf(high, Takers)
    BY DEF BestSum
  <1> HIDE DEF scores, high, row
  <1>6. IsFiniteSet(Takers) /\ Takers \subseteq Students
    BY TakersAreFinite
  <1>7. SumOf(high, Takers) = SumOf(scores, Takers)
    BY <1>4, <1>6, SumSame
  <1>8. BestSum \in Nat
    <2>1. \A s \in Takers : high[s] \in Nat
      BY HighestFacts DEF HighestOf, high
    <2>2. QED
      BY <1>5, <1>6, <2>1, SumNat
  <1>9. ASSUME Takers # {}
        PROVE  row.meanMedian[1] \in Nat \X {Cardinality(Takers)} /\ row.meanMedian[1][1] = BestSum
    <2>1. MeanMedian(scores)[1] = <<SumOf(scores, Takers), Cardinality(Takers)>>
      BY <1>3, <1>4, <1>6, <1>9, MeanIsTheSum
    <2>2. QED
      BY <1>1, <1>5, <1>7, <1>8, <2>1
  <1>10. /\ Distribution(best) \in [Buckets -> Nat]
         /\ SumOf(Distribution(best), Buckets) = Cardinality(Takers)
    BY DistributionCounts
  <1>11. BestSum >= BestSum
    BY <1>8
  <1>12. Holds(row)
    BY <1>1, <1>2, <1>9, <1>10, <1>11 DEF Holds
  <1>13. QED
    BY <1>12 DEF row

\* The item analysis leaves the rest of the row as it is.
LEMMA AnalysisHolds ==
  ASSUME NEW row, NEW items, HoldsAfter(row)
  PROVE  HoldsAfter([row EXCEPT !.items = items])
  <1> DEFINE analyzed == [row EXCEPT !.items = items]
  <1>1. DOMAIN row = {"distribution", "meanMedian", "attempted", "items"}
    BY DEF HoldsAfter, NoSummary
  <1>2. /\ DOMAIN analyzed = DOMAIN row /\ analyzed.distribution = row.distribution
        /\ analyzed.meanMedian = row.meanMedian /\ analyzed.attempted = row.attempted
    BY <1>1
  <1> HIDE DEF analyzed
  <1>3. HoldsAfter(analyzed)
    BY <1>2 DEF HoldsAfter
  <1>4. QED
    BY <1>3 DEF analyzed

\* The rows that a rollup writes for all the students follow whatever row holds.
LEMMA WrittenFollow ==
  ASSUME PinnedInv, PinnedInv', Overrides, UNCHANGED <<attempts, answers, versions>>,
         NEW best \in BestAttempts, studentStats' = [s \in Students |-> StudentRow(s, best)]
  PROVE  \A row : Holds(row) => FollowsAfter(row)
  <1> SUFFICES ASSUME NEW row, Holds(row)
               PROVE  FollowsAfter(row)
    OBVIOUS
  <1>1. ASSUME NEW s \in Students
        PROVE  CountsAfter(s, studentStats'[s])
    <2>1. Counts(s, StudentRow(s, best)) /\ studentStats'[s] = StudentRow(s, best)
      BY RowCounts
    <2>2. QED
      BY <2>1, CountsStill
  <1>2. Takers' = Takers /\ Takers \subseteq Students
    BY HighestFalls, TakersAreFinite
  <1>3. ASSUME Takers # {}
        PROVE  row.meanMedian[1][1] >= RowsSum'
    <2>1. RowsSum' = SumOf([s \in Takers' |-> studentStats'[s].score], Takers')
      BY DEF RowsSum
    <2>2. \A s \in Takers : studentStats'[s].score = Highest(s)
      BY <1>2, RowCounts
    <2>3. RowsSum' = SumOf([s \in Takers |-> Highest(s)], Takers)
      BY <1>2, <2>1, <2>2
    <2>4. RowsSum' = BestSum
      BY <2>3 DEF BestSum
    <2>5. QED
      BY <1>3, <2>4 DEF Holds
  <1>4. QED
    BY <1>1, <1>2, <1>3 DEF FollowsAfter

LEMMA InitStable == Init => RollupIsStable
  BY DEF Init, RollupIsStable, Resting

LEMMA NextStable == RollupIsStable /\ PinnedInv /\ PinnedInv' /\ [Next]_vars => RollupIsStable'
  <1> SUFFICES ASSUME RollupIsStable, PinnedInv, PinnedInv', [Next]_vars
               PROVE  RollupIsStable'
    OBVIOUS
  <1>0. Shapes
    BY DEF PinnedInv
  <1>1. Settled => Settled' /\ Overrides /\ UNCHANGED <<answers, versions>>
    BY <1>0, SettledStays
  \* The quiz's row and one that is on its way, after the step.
  <1> DEFINE Stays == quizStats'.written => /\ Settled' /\ HoldsAfter(quizStats'.row)
                                            /\ FollowsAfter(quizStats'.row)
             Goes(v) == /\ run'[v].at \in {"rest", "scored", "summarized", "students"}
                        /\ run'[v].at # "rest" => Settled' /\ HoldsAfter(run'[v].row)
                        /\ run'[v].at = "students" => FollowsAfter(run'[v].row)
  <1>a. ASSUME Stays, \A v \in Workers : Goes(v)
        PROVE  RollupIsStable'
    <2>1. \A s \in Students : CountsAfter(s, studentStats'[s]) => RowIncludes(s)'
      BY DEF CountsAfter, RowIncludes
    <2>2. quizStats'.written => Settled' /\ Holds(quizStats.row)' /\ Follows(quizStats.row)'
      BY <1>a, <2>1 DEF Holds, HoldsAfter, Follows, FollowsAfter
    <2>3. ASSUME NEW v \in Workers
          PROVE  /\ run'[v].at \in {"rest", "scored", "summarized", "students"}
                 /\ run'[v].at # "rest" => Settled' /\ Holds(run[v].row)'
                 /\ run'[v].at = "students" => Follows(run[v].row)'
      BY <1>a, <2>1 DEF Holds, HoldsAfter, Follows, FollowsAfter
    <2>4. QED
      BY <2>2, <2>3 DEF RollupIsStable
  \* Students' rows that are left alone, or that another quiz rewrites.
  <1> DEFINE Rewritten == \A s \in Students :
               \/ studentStats'[s] = studentStats[s]
               \/ \E best \in BestAttempts : studentStats'[s] = StudentRow(s, best)
  <1>b. Settled => \A row : Holds(row) => HoldsAfter(row)
    BY <1>1, HoldsStill
  <1>c. Settled /\ Rewritten => \A row : Holds(row) /\ Follows(row) => FollowsAfter(row)
    BY <1>1, FollowsStill
  <1>d. ASSUME UNCHANGED quizStats, Rewritten
        PROVE  Stays
    BY <1>1, <1>b, <1>c, <1>d DEF RollupIsStable
  <1>e. ASSUME NEW v \in Workers, run'[v] = run[v], Rewritten
        PROVE  Goes(v)
    BY <1>1, <1>b, <1>c, <1>e DEF RollupIsStable
  <1>f. ASSUME NEW v \in Workers, run'[v].at = "rest"
        PROVE  Goes(v)
    BY <1>f
  <1>g. UNCHANGED studentStats => Rewritten
    OBVIOUS
  <1> HIDE DEF Stays, Goes, Rewritten
  <1>2. ASSUME UNCHANGED <<quizStats, run>>, Rewritten
        PROVE  RollupIsStable'
    BY <1>a, <1>d, <1>e, <1>2
  <1>3. CASE AddQuestion \/ Import \/ Publish \/ Cancel \/ Close \/ Release \/ UNCHANGED vars
    BY <1>2, <1>3, <1>g DEF AddQuestion, Import, Publish, Cancel, Close, Release, vars, rollup
  <1>4. CASE \E a \in AttemptIds : Start(a) \/ SaveAnswer(a) \/ Submit(a) \/ Kick(a) \/ Grade(a) \/ OverrideScore(a)
    BY <1>2, <1>4, <1>g DEF Start, SaveAnswer, Submit, Kick, Grade, OverrideScore, rollup
  <1>5. ASSUME NEW w \in Workers, Summarize(w)
        PROVE  RollupIsStable'
    <2>1. PICK best \in BestAttempts : run' = [run EXCEPT ![w] = [at |-> "scored", row |-> Summary(best)]]
      BY <1>5 DEF Summarize
    <2>2. Due /\ UNCHANGED <<quizStats, studentStats>>
      BY <1>5 DEF Summarize
    <2>3. Settled
      BY <2>2 DEF Due, Settled
    <2>4. HoldsAfter(Summary(best))
      BY <1>b, <2>3, SummaryHolds
    <2>5. run'[w] = [at |-> "scored", row |-> Summary(best)]
          /\ \A v \in Workers : v # w => run'[v] = run[v]
      BY <1>0, <2>1 DEF Shapes
    <2>6. Goes(w)
      BY <1>1, <2>3, <2>4, <2>5 DEF Goes
    <2>7. QED
      BY <1>a, <1>d, <1>e, <1>g, <2>2, <2>5, <2>6
  <1>6. ASSUME NEW w \in Workers, Analyze(w)
        PROVE  RollupIsStable'
    <2>1. PICK best \in BestAttempts :
            run' = [run EXCEPT ![w] = [at |-> "summarized",
                                       row |-> [run[w].row EXCEPT !.items = ItemAnalysis(best)]]]
      BY <1>6 DEF Analyze
    <2>2. run[w].at = "scored" /\ UNCHANGED <<quizStats, studentStats>>
      BY <1>6 DEF Analyze
    <2>3. Settled /\ HoldsAfter(run[w].row)
      BY <1>b, <2>2 DEF RollupIsStable
    <2>4. HoldsAfter([run[w].row EXCEPT !.items = ItemAnalysis(best)])
      BY <2>3, AnalysisHolds
    <2>5. run'[w] = [at |-> "summarized", row |-> [run[w].row EXCEPT !.items = ItemAnalysis(best)]]
          /\ \A v \in Workers : v # w => run'[v] = run[v]
      BY <1>0, <2>1 DEF Shapes
    <2>6. run'[w].at = "summarized" /\ run'[w].row = [run[w].row EXCEPT !.items = ItemAnalysis(best)]
      BY <2>5
    <2>7. Goes(w)
      BY <1>1, <2>3, <2>4, <2>6 DEF Goes
    <2>8. QED
      BY <1>a, <1>d, <1>e, <1>g, <2>2, <2>5, <2>7
  <1>7. ASSUME NEW w \in Workers, RollupStudents(w)
        PROVE  RollupIsStable'
    <2>1. PICK best \in BestAttempts : studentStats' = [s \in Students |-> StudentRow(s, best)]
      BY <1>7 DEF RollupStudents
    <2>2. /\ run[w].at = "summarized" /\ run' = [run EXCEPT ![w].at = "students"]
          /\ UNCHANGED <<quizStats, attempts>>
      BY <1>7 DEF RollupStudents, sheets
    <2>3. Settled /\ Holds(run[w].row)
      BY <2>2 DEF RollupIsStable
    <2>4. \A row : Holds(row) => FollowsAfter(row)
      BY <1>1, <2>1, <2>2, <2>3, WrittenFollow
    <2>5. run'[w].at = "students" /\ run'[w].row = run[w].row /\ \A v \in Workers : v # w => run'[v] = run[v]
      BY <1>0, <2>2 DEF Shapes
    <2>6. Goes(w)
      BY <1>1, <1>b, <2>3, <2>4, <2>5 DEF Goes
    <2>7. ASSUME NEW v \in Workers, v # w
          PROVE  Goes(v)
      BY <1>1, <1>b, <2>3, <2>4, <2>5, <2>7 DEF Goes, RollupIsStable
    <2>8. Stays
      BY <1>1, <1>b, <2>2, <2>3, <2>4 DEF Stays, RollupIsStable
    <2>9. QED
      BY <1>a, <2>6, <2>7, <2>8
  <1>8. ASSUME NEW w \in Workers, InsertStats(w)
        PROVE  RollupIsStable'
    <2>1. /\ run[w].at = "students" /\ UNCHANGED studentStats /\ run' = [run EXCEPT ![w] = Resting]
          /\ quizStats' = IF quizStats.written THEN quizStats ELSE [written |-> TRUE, row |-> run[w].row]
      BY <1>8 DEF InsertStats, CommitMarker
    <2>2. Settled /\ HoldsAfter(run[w].row) /\ FollowsAfter(run[w].row)
      BY <1>b, <1>c, <1>g, <2>1 DEF RollupIsStable
    <2>3. Stays
      <3>1. CASE quizStats.written
        BY <1>d, <1>g, <2>1, <3>1
      <3>2. CASE ~quizStats.written
        <4>1. quizStats'.row = run[w].row
          BY <2>1, <3>2
        <4>2. QED
          BY <1>1, <2>2, <4>1 DEF Stays
      <3>3. QED
        BY <3>1, <3>2
    <2>4. run'[w].at = "rest" /\ \A v \in Workers : v # w => run'[v] = run[v]
      BY <1>0, <2>1 DEF Shapes, Resting
    <2>5. QED
      BY <1>a, <1>e, <1>f, <1>g, <2>1, <2>3, <2>4
  <1>9. ASSUME NEW w \in Workers, RollupFails(w)
        PROVE  RollupIsStable'
    <2>1. UNCHANGED <<quizStats, studentStats>> /\ run' = [run EXCEPT ![w] = Resting]
      BY <1>9 DEF RollupFails
    <2>2. run'[w].at = "rest" /\ \A v \in Workers : v # w => run'[v] = run[v]
      BY <1>0, <2>1 DEF Shapes, Resting
    <2>3. QED
      BY <1>a, <1>d, <1>e, <1>f, <1>g, <2>1, <2>2
  <1>10. ASSUME NEW t \in Shared, RollupElsewhere(t)
         PROVE  RollupIsStable'
    <2>1. PICK best \in BestAttempts : studentStats' = [studentStats EXCEPT ![t] = StudentRow(t, best)]
      BY <1>10 DEF RollupElsewhere
    <2>2. \A s \in Students : studentStats'[s] \in {studentStats[s], StudentRow(s, best)}
      BY <1>0, <2>1 DEF Shapes
    <2>3. Rewritten
      BY <2>2 DEF Rewritten
    <2>4. UNCHANGED <<quizStats, run>>
      BY <1>10 DEF RollupElsewhere
    <2>5. QED
      BY <1>2, <2>3, <2>4
  <1>11. QED
    BY <1>3, <1>4, <1>5, <1>6, <1>7, <1>8, <1>9, <1>10 DEF Next

LEMMA SpecStable == Spec => []RollupIsStable
  BY GradesStayCurrent, InitStable, NextStable, PTL DEF Spec

\* With its frozen row a quiz is never rolled up again: every student's row counts
\* it by then, whichever statement failed before, whichever other quiz rewrites the
\* row and whatever is overridden.
THEOREM RollupsAreComplete == Spec => []StatsIncludeStudents
  <1>1. RollupIsStable => StatsIncludeStudents
    BY DEF RollupIsStable, Follows, StatsIncludeStudents
  <1>2. QED
    BY <1>1, SpecStable, PTL
\* The percentile of an attempt is its place in the frozen histogram.
LEMMA PercentileOf ==
  ASSUME PinnedInv, RollupIsStable, quizStats.written, NEW a \in AttemptIds,
         attempts[a].status = "graded", Takers # {}
  PROVE  LET d == quizStats.row.distribution
             own == BucketIndex(attempts[a].score, MaxScore(a))
         IN  /\ d \in [Buckets -> Nat] /\ own \in Buckets
             /\ SumOf(d, Buckets) \in Nat \ {0}
             /\ Percentile(a) = Place(d, own) \div SumOf(d, Buckets)
  <1> DEFINE d == quizStats.row.distribution
             own == BucketIndex(attempts[a].score, MaxScore(a))
             below == SumOf(d, 0 .. own - 1)
             total == SumOf(d, Buckets)
  <1>1. Holds(quizStats.row)
    BY DEF RollupIsStable
  <1>2. Cardinality(Takers) \in Nat
    BY TakersAreFinite, FS_CardinalityType
  <1>3. d \in [Buckets -> Nat] /\ total = Cardinality(Takers) /\ Cardinality(Takers) \in Nat
    BY <1>1, <1>2 DEF Holds
  <1>4. total \in Nat \ {0}
    BY <1>3, TakersAreFinite, FS_EmptySet
  <1>5. own \in Buckets
    <2>1. MaxScore(a) \in Nat \ {0} /\ attempts[a].score \in Nat
      BY GradedInRange DEF ScoreInRange
    <2>2. QED
      BY <2>1, BucketBounds
  <1>6. Percentile(a) = IF total = 0 THEN Null ELSE ((2 * below + d[own]) * 50) \div total
    BY Zenon DEF Percentile, QuizPercentile, SumOf
  <1> HIDE DEF d, own, below, total
  <1>7. Percentile(a) = ((2 * below + d[own]) * 50) \div total
    BY <1>4, <1>6
  <1>8. QED
    BY <1>3, <1>4, <1>5, <1>7 DEF d, own, below, total, Place

\* The leaderboard and the percentiles of a quiz agree.
LEMMA StandingsDo == PinnedInv /\ RollupIsStable => StandingsAgree
  <1> SUFFICES ASSUME PinnedInv, RollupIsStable, NEW board \in Boards, NEW s \in DOMAIN board
               PROVE  /\ Cardinality({k \in DOMAIN Leaderboard(board, s) : Leaderboard(board, s)[k] = s}) = 1
                      /\ quizStats.written =>
                           /\ Percentile(board[s]) \in 0 .. 100
                           /\ \A t \in DOMAIN board :
                                Ahead(board, s, t) => Percentile(board[s]) >= Percentile(board[t])
    BY DEF StandingsAgree
  <1>1. DOMAIN board = Takers /\ DOMAIN board \subseteq Students
    BY BestFacts, TakersAreFinite
  <1>2. \A t \in Takers : /\ board[t] \in AttemptIds /\ attempts[board[t]].status = "graded"
                          /\ attempts[board[t]].score \in Nat /\ MaxScore(board[t]) \in Nat \ {0}
    BY BestFacts DEF Graded
  <1>3. Cardinality({k \in DOMAIN Leaderboard(board, s) : Leaderboard(board, s)[k] = s}) = 1
    BY <1>1, ReaderShownOnce
  <1> DEFINE d == quizStats.row.distribution
             total == SumOf(d, Buckets)
             own(t) == BucketIndex(attempts[board[t]].score, MaxScore(board[t]))
  <1>4. ASSUME quizStats.written, NEW t \in Takers
        PROVE  /\ d \in [Buckets -> Nat] /\ own(t) \in Buckets /\ total \in Nat \ {0}
               /\ Percentile(board[t]) = Place(d, own(t)) \div total
    BY <1>2, <1>4, PercentileOf
  <1>5. ASSUME NEW t \in Takers, Ahead(board, s, t)
        PROVE  own(t) <= own(s)
    <2> DEFINE mine == attempts[board[s]].score * MaxScore(board[t])
               theirs == attempts[board[t]].score * MaxScore(board[s])
    <2>1. mine > theirs \/ mine = theirs
      BY <1>5 DEF Ahead
    <2>2. mine \in Nat /\ theirs \in Nat
      BY <1>1, <1>2
    <2>3. theirs <= mine
      <3> HIDE DEF mine, theirs
      <3>1. QED
        BY <2>1, <2>2
    <2>4. QED
      BY <1>1, <1>2, <2>3, BucketMonotone
  <1> HIDE DEF d, total, own
  <1>6. ASSUME quizStats.written
        PROVE  Percentile(board[s]) \in 0 .. 100
    <2> DEFINE p == Percentile(board[s])
               place == Place(d, own(s))
    <2>1. d \in [Buckets -> Nat] /\ own(s) \in Buckets /\ total \in Nat \ {0} /\ p = place \div total
      BY <1>1, <1>4, <1>6
    <2>2. place \in Nat /\ place <= 100 * total
      BY <2>1, Places DEF total
    <2> HIDE DEF p, place
    <2>3. p \in Nat /\ p * total <= place
      BY <2>1, <2>2, Quotient
    <2>4. 101 <= p => 101 * total <= p * total
      BY <2>1, <2>3, TimesMonotone
    <2>5. p * total \in Int
      BY <2>1, <2>3
    <2>6. p <= 100
      BY <2>1, <2>2, <2>3, <2>4, <2>5
    <2>7. QED
      BY <2>3, <2>6 DEF p
  <1>7. ASSUME quizStats.written, NEW t \in DOMAIN board, Ahead(board, s, t)
        PROVE  Percentile(board[s]) >= Percentile(board[t])
    <2> DEFINE high == Place(d, own(s))
               low == Place(d, own(t))
    <2>1. d \in [Buckets -> Nat] /\ own(s) \in Buckets /\ own(t) \in Buckets /\ total \in Nat \ {0}
          /\ Percentile(board[s]) = high \div total /\ Percentile(board[t]) = low \div total
      BY <1>1, <1>4, <1>7
    <2>2. own(t) <= own(s)
      BY <1>1, <1>5, <1>7
    <2>3. high \in Nat /\ low \in Nat /\ low <= high
      BY <2>1, <2>2, Places
    <2> HIDE DEF high, low
    <2>4. low * total <= high * total
      BY <2>1, <2>3, TimesMonotone
    <2>5. low \div total <= high \div total
      BY <2>1, <2>3, <2>4, QuotientsMonotone
    <2>6. low \div total \in Int /\ high \div total \in Int
      BY <2>1, <2>3
    <2>7. QED
      BY <2>1, <2>5, <2>6
  <1>8. QED
    BY <1>3, <1>6, <1>7

\* Students one after another on the leaderboard have percentiles in that order,
\* within 0 and 100, and the reader is shown exactly once: the histogram counts
\* every student of the board, and a higher accuracy is in no lower decile, whatever
\* the histogram was computed from and has been overridden since.
THEOREM StandingsAlwaysAgree == Spec => []StandingsAgree
  BY GradesStayCurrent, SpecStable, StandingsDo, PTL

-----------------------------------------------------------------------------
(* The profiles.                                                           *)

\* Once the quiz has its row, the students' completed ones are those of the students
\* with a graded attempt.
LEMMA CompletedRows ==
  ASSUME PinnedInv, \A s \in Students : RowIncludes(s)
  PROVE  /\ {s \in Students : studentStats[s].done = 1} = Takers
         /\ \A s \in Takers : studentStats[s].score \in Nat /\ Highest(s) <= studentStats[s].score
         /\ NoneOverridden => \A s \in Takers : studentStats[s].score = Highest(s)
  <1>1. \A s \in Students : Counts(s, studentStats[s])
    BY DEF RowIncludes, Counts
  <1>2. ASSUME NEW s \in Students
        PROVE  studentStats[s].done = 1 <=> s \in Takers
    <2>1. CASE s \in Takers
      BY <1>1, <2>1, CountedScore
    <2>2. CASE s \notin Takers
      <3>1. Graded(s) = {}
        BY <2>2 DEF Takers
      <3>2. studentStats[s] = [done |-> 0, score |-> 0, max |-> 0]
        BY <1>1, <3>1 DEF Counts
      <3>3. QED
        BY <2>2, <3>2
    <2>3. QED
      BY <2>1, <2>2
  <1>3. Takers \subseteq Students
    BY TakersAreFinite
  <1>4. \A s \in Takers : studentStats[s].score \in Nat /\ Highest(s) <= studentStats[s].score
    BY <1>1, <1>3, CountedScore
  <1>5. ASSUME NoneOverridden, NEW s \in Takers
        PROVE  studentStats[s].score = Highest(s)
    <2>0. Graded(s) # {} /\ s \in Students
      BY DEF Takers
    <2>1. PICK a \in Graded(s) : \E score \in {attempts[a].score, Total(a)} :
            /\ studentStats[s] = [done |-> 1, score |-> score, max |-> MaxScore(a)]
            /\ \A b \in Graded(s) : attempts[b].score <= score
      BY <1>1, <2>0 DEF Counts
    <2>2. a \in AttemptIds /\ attempts[a].status = "graded"
      BY <2>0, GradedRows
    <2>3. attempts[a].score = Total(a)
      BY <1>5, <2>2 DEF NoneOverridden, PinnedInv, GradesAreCurrent, GradeIsCurrent
    <2>4. studentStats[s].score = attempts[a].score
      BY <2>1, <2>3
    <2>5. HighestOf(s)
      BY HighestFacts
    <2>6. studentStats[s].score <= Highest(s) /\ Highest(s) \in Nat
      BY <2>4, <2>5 DEF HighestOf
    <2>7. QED
      BY <1>4, <2>6
  <1>6. QED
    BY <1>2, <1>3, <1>4, <1>5

LEMMA ProfilesAlike == PinnedInv /\ RollupIsStable => ProfilesReadAlike
  <1> DEFINE row == QuizStatsRead(Owner)
             done == {s \in Students : studentStats[s].done = 1}
             total == MapThenSumSet(LAMBDA s : studentStats[s].score, done)
             stored == [s \in Takers |-> studentStats[s].score]
             high == [s \in Takers |-> Highest(s)]
  <1> SUFFICES ASSUME PinnedInv, RollupIsStable, row # NotFound
               PROVE  /\ row.attempted = Cardinality(done)
                      /\ MapThenSumSet(LAMBDA b : row.distribution[b], Buckets) = Cardinality(done)
                      /\ done # {} =>
                           /\ row.meanMedian[1][2] = Cardinality(done)
                           /\ row.meanMedian[1][1] >= total
                           /\ NoneOverridden => row.meanMedian[1][1] = total
    BY DEF ProfilesReadAlike
  <1>1. row = quizStats.row /\ quizStats.written
    BY DEF QuizStatsRead
  <1> HIDE DEF row
  <1>2. Holds(row) /\ Follows(row)
    BY <1>1 DEF RollupIsStable
  <1>3. \A s \in Students : RowIncludes(s)
    BY <1>2 DEF Follows
  <1>4. /\ done = Takers
        /\ NoneOverridden => \A s \in Takers : studentStats[s].score = Highest(s)
    BY <1>3, CompletedRows
  <1>5. row.attempted = Cardinality(done) /\ SumOf(row.distribution, Buckets) = Cardinality(done)
    BY <1>2, <1>4 DEF Holds
  <1>6. MapThenSumSet(LAMBDA b : row.distribution[b], Buckets) = Cardinality(done)
    BY <1>5, Zenon DEF SumOf
  <1>7. total = RowsSum
    <2>1. IsFiniteSet(Takers)
      BY TakersAreFinite
    <2>2. total = SumOf(stored, Takers)
      BY <1>4, <2>1, RowScoresSum
    <2>3. QED
      BY <2>2 DEF RowsSum
  <1>8. NoneOverridden => RowsSum = BestSum
    <2>1. ASSUME NoneOverridden
          PROVE  stored = high
      BY <1>4, <2>1
    <2>2. QED
      BY <2>1 DEF RowsSum, BestSum
  <1> HIDE DEF done, total
  <1>9. ASSUME done # {}
        PROVE  /\ row.meanMedian[1][2] = Cardinality(done)
               /\ row.meanMedian[1][1] >= total
               /\ NoneOverridden => row.meanMedian[1][1] = total
    <2>1. Takers # {}
      BY <1>4, <1>9
    <2>2. /\ row.meanMedian[1] \in Nat \X {Cardinality(Takers)}
          /\ NoneOverridden => row.meanMedian[1][1] = BestSum
      BY <1>2, <2>1 DEF Holds
    <2>3. row.meanMedian[1][1] >= RowsSum
      BY <1>2, <2>1 DEF Follows
    <2>4. row.meanMedian[1][2] = Cardinality(Takers)
      BY <2>2
    <2>5. QED
      BY <1>4, <1>7, <1>8, <2>2, <2>3, <2>4
  <1>10. QED
    BY <1>5, <1>6, <1>9

LEMMA SpecTyped == Spec => []Typed
  <1>1. Spec => []Shapes
    BY InitShapes, NextShapes, PTL DEF Spec
  <1>2. QED
    BY <1>1, InitTyped, NextTyped, PTL DEF Spec

\* Whoever reads a result and through whichever table, it is the same one: each
\* attempt shows the questions it was graded on and one score, which its review
\* adds up to unless every read says that it was overridden, and the quiz's profile
\* counts the students' rows and averages them, or lies above them when one of
\* their scores was overridden since.
THEOREM ReadsAlwaysAgree == Spec => []ReadsAgree
  <1>1. PinnedInv /\ Typed /\ RollupIsStable => ReadsAgree
    BY AttemptsAlike, ProfilesAlike DEF ReadsAgree
  <1>2. QED
    BY <1>1, GradesStayCurrent, SpecTyped, SpecStable, PTL

-----------------------------------------------------------------------------
(* What stays.                                                             *)

\* Nothing of a graded attempt changes but its score, when it is overridden, nor the
\* version it is pinned to.
LEMMA GradedStays ==
  ASSUME PinnedInv, [Next]_vars, NEW a \in AttemptIds, attempts[a].status = "graded"
  PROVE  /\ \/ attempts'[a] = attempts[a]
            \/ OverrideScore(a) /\ attempts'[a] = Overridden(attempts[a])
         /\ attempts'[a].status = "graded"
         /\ answers'[a] = answers[a] /\ marks'[a] = marks[a] /\ Snapshot(a)' = Snapshot(a)
  <1>1. Shapes /\ Kept /\ OnlyAccepted /\ PinnedExist
    BY DEF PinnedInv
  <1>2. RowShape(attempts[a]) /\ RowStep(a)
    BY <1>1, RowSteps DEF Shapes
  <1>3. \/ attempts'[a] = attempts[a]
        \/ OverrideScore(a) /\ attempts'[a] = Overridden(attempts[a])
    BY <1>2 DEF RowStep, Start, Grade
  <1>4. attempts'[a].status = "graded" /\ attempts'[a].version = attempts[a].version
    BY <1>2, <1>3 DEF Overridden, RowShape, Columns
  <1>5. answers'[a] = answers[a]
    BY <1>1, Answered
  <1>6. GradesAreCurrent /\ GradesAreCurrent'
    BY NextGrades DEF PinnedInv
  <1>7. Snapshot(a)' = Snapshot(a)
    <2>1. attempts[a].version \in DOMAIN versions
      BY <1>1 DEF PinnedExist
    <2>2. versions'[attempts[a].version] = versions[attempts[a].version]
      BY <1>1, <2>1, VersionsStay
    <2>3. QED
      BY <1>4, <2>2 DEF Snapshot
  <1>8. Marks(a)' = Marks(a)
    BY <1>5, <1>7 DEF Marks, Committed
  <1>9. marks'[a] = marks[a]
    BY <1>4, <1>6, <1>8 DEF GradesAreCurrent, GradeIsCurrent
  <1>10. QED
    BY <1>3, <1>4, <1>5, <1>7, <1>9

\* A release is not taken back, and a frozen row stays as it is.
LEMMA ReleaseStays ==
  ASSUME Shapes, [Next]_vars
  PROVE  /\ quiz.released => quiz'.released
         /\ quizStats.written => UNCHANGED quizStats
  <1>1. quiz.released => quiz'.released
    <2>1. CASE UNCHANGED quiz
      BY <2>1
    <2>2. CASE Publish \/ Cancel \/ Close
      BY <2>2 DEF Publish, Cancel, Close, Shapes
    <2>3. CASE Release
      BY <2>3 DEF Release
    <2>4. AddQuestion \/ Import \/ UNCHANGED vars => UNCHANGED quiz
      BY DEF AddQuestion, Import, vars, class
    <2>5. \A b \in AttemptIds : Start(b) \/ SaveAnswer(b) \/ Submit(b) \/ Kick(b) \/ Grade(b) \/ OverrideScore(b) => UNCHANGED quiz
      BY DEF Start, SaveAnswer, Submit, Kick, Grade, OverrideScore, class
    <2>6. Rolls => UNCHANGED quiz
      BY RollsRead DEF class
    <2>7. QED
      BY <2>1, <2>2, <2>3, <2>4, <2>5, <2>6 DEF Next, Rolls
  <1>2. quizStats.written => UNCHANGED quizStats
    <2>1. AddQuestion \/ Import \/ Publish \/ Cancel \/ Close \/ Release \/ UNCHANGED vars => UNCHANGED quizStats
      BY DEF AddQuestion, Import, Publish, Cancel, Close, Release, vars, rollup
    <2>2. \A b \in AttemptIds : Start(b) \/ SaveAnswer(b) \/ Submit(b) \/ Kick(b) \/ Grade(b) \/ OverrideScore(b) => UNCHANGED quizStats
      BY DEF Start, SaveAnswer, Submit, Kick, Grade, OverrideScore, rollup
    <2>3. /\ \A w \in Workers : Summarize(w) \/ Analyze(w) \/ RollupStudents(w) \/ RollupFails(w)
                                 => UNCHANGED quizStats
          /\ \A t \in Shared : RollupElsewhere(t) => UNCHANGED quizStats
      BY DEF Summarize, Analyze, RollupStudents, RollupFails, RollupElsewhere
    <2>4. \A w \in Workers : InsertStats(w) /\ quizStats.written => UNCHANGED quizStats
      BY DEF InsertStats
    <2>5. QED
      BY <2>1, <2>2, <2>3, <2>4 DEF Next, Rolls
  <1>3. QED
    BY <1>1, <1>2

\* A result that a student has read stays as it is, and the standings do from the
\* rollup on, but for one thing: a moderator may still override the score of a
\* kicked attempt, once, and then nothing else of its result changes.
THEOREM ReleasedResultsAreFinal == Spec => ReleasedIsFinal
  <1> DEFINE Final(a) ==
        /\ Readable(a)'
        /\ Assembled(a)' = Assembled(a) /\ MaxScore(a)' = MaxScore(a)
        /\ \/ /\ attempts'[a] = attempts[a]
              /\ quizStats.written => Result(a)' = Result(a)
           \/ /\ attempts[a].kicked /\ ~attempts[a].overridden
              /\ attempts'[a] = [attempts[a] EXCEPT !.score = 0, !.overridden = TRUE]
        /\ quizStats.written /\ attempts' = attempts => Boards' = Boards
  <1>1. ASSUME PinnedInv, [Next]_vars, NEW a \in AttemptIds, Readable(a)
        PROVE  Final(a)
    <2>1. quiz.released /\ attempts[a].status = "graded" /\ Shapes
      BY <1>1 DEF Readable, PinnedInv
    <2>2. /\ \/ attempts'[a] = attempts[a]
             \/ OverrideScore(a) /\ attempts'[a] = Overridden(attempts[a])
          /\ attempts'[a].status = "graded"
          /\ answers'[a] = answers[a] /\ marks'[a] = marks[a] /\ Snapshot(a)' = Snapshot(a)
      BY <1>1, <2>1, GradedStays
    <2>3. Readable(a)'
      BY <1>1, <2>1, <2>2, ReleaseStays DEF Readable
    <2>4. Assembled(a)' = Assembled(a)
      <3>1. \A q : ResultQuestion(a, q)' = ResultQuestion(a, q)
        BY <2>2 DEF ResultQuestion, Committed
      <3>2. QED
        BY <2>2, <3>1 DEF Assembled
    <2>5. MaxScore(a)' = MaxScore(a)
      BY <2>2 DEF MaxScore
    <2>6. ASSUME quizStats.written, attempts'[a] = attempts[a]
          PROVE  Result(a)' = Result(a)
      <3>1. UNCHANGED quizStats
        BY <1>1, <2>1, <2>6, ReleaseStays
      <3>2. Percentile(a)' = Percentile(a)
        BY <2>5, <2>6, <3>1 DEF Percentile
      <3>3. QED
        BY <1>1, <2>3, <2>4, <2>5, <2>6, <3>2 DEF Result
    <2>7. OverrideScore(a) /\ attempts'[a] = Overridden(attempts[a]) =>
            /\ attempts[a].kicked /\ ~attempts[a].overridden
            /\ attempts'[a] = [attempts[a] EXCEPT !.score = 0, !.overridden = TRUE]
      BY DEF OverrideScore, Overridden
    <2>8. ASSUME UNCHANGED attempts
          PROVE  Boards' = Boards
      <3>1. \A s : Graded(s)' = Graded(s)
        BY <2>8 DEF Graded
      <3>2. \A s : FastestRows(s)' = FastestRows(s)
        BY <2>8, <3>1 DEF FastestRows, BestRows
      <3>3. QED
        BY <3>1, <3>2 DEF Boards, Picks
    <2>9. QED
      BY <2>2, <2>3, <2>4, <2>5, <2>6, <2>7, <2>8
  <1>2. PinnedInv /\ [Next]_vars => \A a \in AttemptIds : Readable(a) => Final(a)
    BY <1>1
  <1>3. QED
    BY <1>2, GradesStayCurrent, PTL DEF Spec, ReleasedIsFinal

-----------------------------------------------------------------------------
(* Type correctness.                                                       *)

\* What the type invariant adds to the invariants above.
InBounds ==
  /\ Len(questions) <= MaxQuestions /\ Len(versions) <= MaxVersion
  /\ \A a \in AttemptIds :
       /\ attempts[a].version \in 0 .. Len(versions)
       /\ attempts[a].taken \in 0 .. MaxTaken
       /\ DOMAIN marks[a] \subseteq DOMAIN answers[a]
  /\ \A s \in Students : studentStats[s].done \in {0, 1}

LEMMA InitBounds == Init => InBounds
  <1> SUFFICES ASSUME Init
               PROVE  InBounds
    OBVIOUS
  <1>1. questions = <<>> /\ versions = <<>> /\ Len(<<>>) = 0
    BY DEF Init
  <1>2. Len(questions) <= MaxQuestions /\ Len(versions) <= MaxVersion
    BY <1>1, MarkingAssumption
  <1>3. \A a \in AttemptIds : attempts[a].version = 0 /\ attempts[a].taken = 0 /\ marks[a] = <<>> /\ answers[a] = <<>>
    BY DEF Init, Unstarted
  <1>4. \A s \in Students : studentStats[s].done = 0
    BY DEF Init, NoRow
  <1>5. MaxTaken \in Nat
    BY MarkingAssumption
  <1>6. 0 \in 0 .. Len(versions) /\ 0 \in 0 .. MaxTaken
    BY <1>1, <1>5
  <1>7. QED
    BY <1>2, <1>3, <1>4, <1>6 DEF InBounds

\* The lists stay within their bounds, and no version goes.
LEMMA ListsInBounds ==
  ASSUME OnlyAccepted, InBounds, [Next]_vars
  PROVE  /\ Len(questions') <= MaxQuestions /\ Len(versions') <= MaxVersion
         /\ 0 .. Len(versions) \subseteq 0 .. Len(versions') /\ DOMAIN versions \subseteq 0 .. Len(versions')
  <1> DEFINE Stored == Seq({Resolved(in) : in \in Accepted}) \ {<<>>}
  <1>1. questions \in Seq(Accepted) /\ versions \in Seq(Stored)
    BY DEF OnlyAccepted
  <1>2. Len(questions) <= MaxQuestions /\ Len(versions) <= MaxVersion /\ {MaxQuestions, MaxVersion} \subseteq Nat
    BY MarkingAssumption DEF InBounds
  <1> HIDE DEF Stored
  <1>3. Len(questions) \in Nat /\ Len(versions) \in Nat /\ DOMAIN versions = 1 .. Len(versions)
    BY <1>1, LenProperties
  <1>4. CASE UNCHANGED versions /\ Len(questions') <= MaxQuestions
    BY <1>2, <1>3, <1>4
  <1>5. CASE AddQuestion
    <2>1. Len(questions) < MaxQuestions /\ UNCHANGED versions /\ \E in : questions' = Append(questions, in)
      BY <1>5 DEF AddQuestion
    <2>2. PICK in \in Inputs : questions' = Append(questions, in) /\ Valid(in) /\ WithinCheck(in)
      BY <1>5 DEF AddQuestion
    <2>3. in \in Accepted
      BY <2>2 DEF Accepted, Offered
    <2>4. Len(questions') = Len(questions) + 1
      BY <1>1, <2>2, <2>3, AppendProperties
    <2>5. QED
      BY <1>2, <1>3, <1>4, <2>1, <2>4
  <1>6. CASE Import
    <2>1. UNCHANGED versions
      BY <1>6 DEF Import
    <2>2. PICK file \in Files : /\ RowErrors(file) = {}
                                /\ \A k \in DOMAIN file : WithinCheck(RowInput(file[k]))
                                /\ Len(questions) + Len(file) <= MaxQuestions
                                /\ questions' = questions \o [k \in DOMAIN file |-> RowInput(file[k])]
      BY <1>6 DEF Import
    <2> DEFINE rows == [k \in DOMAIN file |-> RowInput(file[k])]
    <2>3. rows \in Seq(Accepted)
      BY <2>2, RowsAreAccepted
    <2>4. Len(rows) = Len(file)
      <3>1. DOMAIN file = 1 .. Len(file) /\ Len(file) \in Nat
        BY InputsAssumption, LenProperties
      <3>2. DOMAIN rows = 1 .. Len(rows) /\ Len(rows) \in Nat
        BY <2>3, LenProperties
      <3>3. 1 .. Len(rows) = 1 .. Len(file)
        BY <3>1, <3>2
      <3> HIDE DEF rows
      <3>4. \A m, n \in Nat : 1 .. m = 1 .. n => m <= n /\ n <= m
        <4>1. ASSUME NEW m \in Nat, NEW n \in Nat, 1 .. m = 1 .. n
              PROVE  m <= n
          <5>1. m = 0 \/ m \in 1 .. n
            BY <4>1
          <5>2. QED
            BY <5>1
        <4>2. QED
          BY <4>1
      <3>5. Len(rows) \in Nat /\ Len(file) \in Nat
        BY <3>1, <3>2
      <3>6. Len(rows) <= Len(file) /\ Len(file) <= Len(rows)
        BY <3>3, <3>4, <3>5, Zenon
      <3>7. QED
        BY <3>5, <3>6
    <2> HIDE DEF rows
    <2>5. questions' = questions \o rows
      BY <2>2 DEF rows
    <2>6. Len(questions') = Len(questions) + Len(rows)
      BY <1>1, <2>3, <2>5, ConcatProperties
    <2>7. QED
      BY <1>4, <2>1, <2>2, <2>4, <2>6
  <1>7. CASE Publish
    <2> DEFINE snapshot == [k \in DOMAIN questions |-> Resolved(questions[k])]
    <2>1. /\ Len(versions) < MaxVersion
          /\ versions' = Append(versions, snapshot)
          /\ UNCHANGED questions
      BY <1>7 DEF Publish
    <2>2. snapshot \in Stored
      BY <1>1, <1>7, SnapshotOfAccepted DEF Publish, Stored
    <2> HIDE DEF snapshot
    <2>3. Len(versions') = Len(versions) + 1
      BY <1>1, <2>1, <2>2, AppendProperties
    <2>4. QED
      BY <1>2, <1>3, <2>1, <2>3
  <1>8. Cancel \/ Close \/ Release \/ UNCHANGED vars => UNCHANGED <<questions, versions>>
    BY DEF Cancel, Close, Release, vars, class
  <1>9. (\E a \in AttemptIds : Start(a) \/ SaveAnswer(a) \/ Submit(a) \/ Kick(a) \/ Grade(a) \/ OverrideScore(a))
          => UNCHANGED <<questions, versions>>
    BY DEF Start, SaveAnswer, Submit, Kick, Grade, OverrideScore, class
  <1>10. Rolls => UNCHANGED <<questions, versions>>
    BY RollsRead DEF class, sheets
  <1>11. CASE UNCHANGED <<questions, versions>>
    BY <1>2, <1>4, <1>11
  <1>12. QED
    BY <1>5, <1>6, <1>7, <1>8, <1>9, <1>10, <1>11 DEF Next, Rolls

\* What a step may do to the time an attempt took, and to its marks.
LEMMA TakenInBounds ==
  ASSUME Shapes, InBounds, [Next]_vars, NEW a \in AttemptIds
  PROVE  attempts'[a].taken \in 0 .. MaxTaken
  <1>1. attempts[a].taken \in 0 .. MaxTaken /\ RowShape(attempts[a]) /\ RowStep(a)
    BY RowSteps DEF InBounds, Shapes
  <1>2. ASSUME NEW taken \in 0 .. MaxTaken,
               attempts'[a] \in {Ended(attempts[a], taken), [Ended(attempts[a], taken) EXCEPT !.kicked = TRUE]}
        PROVE  attempts'[a].taken = taken
    BY <1>1, <1>2 DEF RowShape, Columns, Ended
  <1>3. attempts'[a] \in {Started(attempts[a]), GradedWith(attempts[a], Total(a)), Overridden(attempts[a])}
          => attempts'[a].taken = attempts[a].taken
    BY <1>1 DEF RowShape, Columns, Started, GradedWith, Overridden
  <1>4. QED
    BY <1>1, <1>2, <1>3 DEF RowStep

LEMMA MarksOfRows ==
  ASSUME Kept, InBounds, [Next]_vars, NEW a \in AttemptIds
  PROVE  DOMAIN marks'[a] \subseteq DOMAIN answers'[a]
  <1>1. DOMAIN marks[a] \subseteq DOMAIN answers[a]
    BY DEF InBounds
  <1>2. DOMAIN answers[a] \subseteq DOMAIN answers'[a]
    BY Answered
  <1>3. CASE UNCHANGED marks
    BY <1>1, <1>2, <1>3
  <1>4. ASSUME NEW b \in AttemptIds, Grade(b)
        PROVE  DOMAIN marks'[a] \subseteq DOMAIN answers'[a]
    <2>1. marks' = [marks EXCEPT ![b] = Marks(b)] /\ answers' = answers
      BY <1>4 DEF Grade
    <2>2. DOMAIN Marks(b) \subseteq DOMAIN answers[b]
      BY DEF Marks, Committed
    <2>3. CASE a = b
      BY <2>1, <2>2, <2>3 DEF Kept
    <2>4. CASE a # b
      BY <1>1, <2>1, <2>4 DEF Kept
    <2>5. QED
      BY <2>3, <2>4
  <1>5. AddQuestion \/ Import \/ Publish \/ Cancel \/ Close \/ Release \/ UNCHANGED vars => UNCHANGED marks
    BY DEF AddQuestion, Import, Publish, Cancel, Close, Release, vars, sheets
  <1>6. (\E b \in AttemptIds : Start(b) \/ SaveAnswer(b) \/ Submit(b) \/ Kick(b) \/ OverrideScore(b))
          => UNCHANGED marks
    BY DEF Start, SaveAnswer, Submit, Kick, OverrideScore
  <1>7. Rolls => UNCHANGED marks
    BY RollsRead DEF class, sheets
  <1>8. QED
    BY <1>3, <1>4, <1>5, <1>6, <1>7 DEF Next, Rolls

LEMMA NextBounds == PinnedInv /\ InBounds /\ [Next]_vars => InBounds'
  <1> SUFFICES ASSUME PinnedInv, InBounds, [Next]_vars
               PROVE  InBounds'
    OBVIOUS
  <1>1. Shapes /\ Kept /\ OnlyAccepted /\ PinnedExist
    BY DEF PinnedInv
  <1>2. /\ Len(questions') <= MaxQuestions /\ Len(versions') <= MaxVersion
        /\ 0 .. Len(versions) \subseteq 0 .. Len(versions') /\ DOMAIN versions \subseteq 0 .. Len(versions')
    BY <1>1, ListsInBounds
  <1>3. ASSUME NEW a \in AttemptIds
        PROVE  attempts'[a].version \in 0 .. Len(versions')
    <2>1. attempts[a].version \in 0 .. Len(versions)
      BY DEF InBounds
    <2>2. attempts'[a].version = attempts[a].version \/ attempts'[a].version \in DOMAIN versions
      BY <1>1, Repinned
    <2>3. QED
      BY <1>2, <2>1, <2>2
  <1>4. ASSUME NEW s \in Students
        PROVE  studentStats'[s].done \in {0, 1}
    <2>1. CASE UNCHANGED studentStats
      BY <2>1 DEF InBounds
    <2>2. ASSUME NEW w \in Workers, RollupStudents(w)
          PROVE  studentStats'[s].done \in {0, 1}
      <3>1. PICK best : studentStats' = [t \in Students |-> StudentRow(t, best)]
        BY <2>2 DEF RollupStudents
      <3>2. StudentRow(s, best).done \in {0, 1}
        BY DEF StudentRow
      <3>3. QED
        BY <3>1, <3>2
    <2>3. AddQuestion \/ Import \/ Publish \/ Cancel \/ Close \/ Release \/ UNCHANGED vars
            => UNCHANGED studentStats
      BY DEF AddQuestion, Import, Publish, Cancel, Close, Release, vars, rollup
    <2>4. (\E a \in AttemptIds : Start(a) \/ SaveAnswer(a) \/ Submit(a) \/ Kick(a) \/ Grade(a) \/ OverrideScore(a)) => UNCHANGED studentStats
      BY DEF Start, SaveAnswer, Submit, Kick, Grade, OverrideScore, rollup
    <2>5. (\E w \in Workers : Summarize(w) \/ Analyze(w) \/ InsertStats(w) \/ RollupFails(w))
            => UNCHANGED studentStats
      BY DEF Summarize, Analyze, InsertStats, RollupFails
    <2>6. ASSUME NEW t \in Shared, RollupElsewhere(t)
          PROVE  studentStats'[s].done \in {0, 1}
      <3>1. PICK best : studentStats' = [studentStats EXCEPT ![t] = StudentRow(t, best)]
        BY <2>6 DEF RollupElsewhere
      <3>2. StudentRow(t, best).done \in {0, 1}
        BY DEF StudentRow
      <3>3. studentStats[s].done \in {0, 1} /\ s \in DOMAIN studentStats
        BY <1>1 DEF InBounds, Shapes
      <3>4. QED
        BY <3>1, <3>2, <3>3
    <2>7. QED
      BY <2>1, <2>2, <2>3, <2>4, <2>5, <2>6 DEF Next
  <1>5. \A a \in AttemptIds : attempts'[a].taken \in 0 .. MaxTaken
    BY <1>1, TakenInBounds
  <1>6. \A a \in AttemptIds : DOMAIN marks'[a] \subseteq DOMAIN answers'[a]
    BY <1>1, MarksOfRows
  <1>7. QED
    BY <1>2, <1>3, <1>4, <1>5, <1>6 DEF InBounds

\* The rows have their types, and a score lies between zero and what the pinned
\* version is worth.
THEOREM MarkingTypeCorrect == Spec => []TypeOK
  <1>1. Spec => []InBounds
    <2>1. PinnedInv /\ InBounds /\ [Next]_vars => InBounds'
      BY NextBounds
    <2>2. QED
      BY <2>1, InitBounds, GradesStayCurrent, PTL DEF Spec
  <1>2. PinnedInv /\ Typed /\ RollupIsStable /\ InBounds => TypeOK
    <2> SUFFICES ASSUME PinnedInv, Typed, RollupIsStable, InBounds
                 PROVE  TypeOK
      OBVIOUS
    <2>1. quiz \in [status : {"draft", "scheduled", "closed"}, released : BOOLEAN]
      BY DEF PinnedInv, Shapes
    <2>2. \A a \in AttemptIds : attempts[a].status = "graded" => attempts[a].score \in 0 .. MaxScore(a)
      BY GradedInRange DEF ScoreInRange
    <2>3. \A w \in Workers : run[w].at \in {"rest", "scored", "summarized", "students"}
      BY DEF RollupIsStable
    <2>4. \A a \in AttemptIds : attempts[a].overridden => attempts[a].kicked /\ attempts[a].status = "graded"
      BY DEF PinnedInv, Shapes, RowShape
    <2>5. QED
      BY <2>1, <2>2, <2>3, <2>4 DEF TypeOK, Typed, InBounds
  <1>3. QED
    BY <1>1, <1>2, GradesStayCurrent, SpecTyped, SpecStable, PTL
=============================================================================
