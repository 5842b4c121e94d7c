-------------------------- MODULE CollectionLemmas --------------------------
(***************************************************************************)
(* Facts about finite sets, orders and sums on which the proofs about the  *)
(* components rest.  Each is proved by taking a least counterexample among *)
(* the subsets of a finite set.                                            *)
(***************************************************************************)
EXTENDS Collections, Integers, FiniteSetsExt, Functions, FiniteSetTheorems,
        SequenceTheorems, TLAPS

(* A family of subsets of a finite set has a member without a smaller one. *)
LEMMA LeastSubset ==
    ASSUME NEW S, IsFiniteSet(S), NEW Q \in SUBSET SUBSET S, Q # {}
    PROVE  \E T \in Q : \A U \in Q : U \subseteq T => U = T
  <1>1. IsWellFoundedOn(StrictSubsetOrdering(S), SUBSET S)
    BY FS_FiniteSubsetsOfFinite, FS_StrictSubsetOrderingWellFounded
  <1>2. \E T \in Q : \A U \in Q : ~(<<U, T>> \in StrictSubsetOrdering(S))
    BY <1>1, WFMin
  <1>3. PICK T \in Q : \A U \in Q : ~(<<U, T>> \in StrictSubsetOrdering(S))
    BY <1>2
  <1>4. \A U \in Q : U \subseteq T /\ U # T => <<U, T>> \in StrictSubsetOrdering(S)
    BY DEF StrictSubsetOrdering
  <1>5. ASSUME NEW U \in Q, U \subseteq T PROVE U = T
    BY <1>3, <1>4, <1>5
  <1>6. QED
    BY <1>5

(* What a function takes a finite set to is finite.                        *)
LEMMA FiniteImage ==
    ASSUME NEW f, IsFiniteSet(DOMAIN f)
    PROVE  IsFiniteSet({f[x] : x \in DOMAIN f})
  <1> DEFINE T == {f[x] : x \in DOMAIN f}
             g == [x \in DOMAIN f |-> f[x]]
  <1>1. g \in Surjection(DOMAIN f, T)
    BY DEF Surjection
  <1>2. QED
    BY <1>1, FS_Surjection

LEMMA ProductFinite ==
    ASSUME NEW S, NEW T, IsFiniteSet(S), IsFiniteSet(T)
    PROVE  IsFiniteSet(S \X T) /\ Cardinality(S \X T) = Cardinality(S) * Cardinality(T)
  BY FS_Product

-----------------------------------------------------------------------------
(* Orders.                                                                 *)

Transitive(S, R) ==
    \A x, y, z \in S : <<x, y>> \in R /\ <<y, z>> \in R => <<x, z>> \in R

Total(S, R) == \A x, y \in S : x # y => <<x, y>> \in R \/ <<y, x>> \in R

Irreflexive(S, R) == \A x \in S : <<x, x>> \notin R

StrictOrder(S, R) == Transitive(S, R) /\ Total(S, R) /\ Irreflexive(S, R)

(* A finite set has a first element.                                       *)
LEMMA FirstExists ==
    ASSUME NEW S, IsFiniteSet(S), S # {}, NEW R, Transitive(S, R), Total(S, R)
    PROVE  \E x \in S : \A y \in S \ {x} : <<x, y>> \in R
  <1> DEFINE Leads(x, T) == \A y \in T \ {x} : <<x, y>> \in R
             Q == {T \in SUBSET S : T # {} /\ \A x \in T : ~Leads(x, T)}
  <1>1. SUFFICES ASSUME Q # {} PROVE FALSE
    OBVIOUS
  <1>2. PICK T \in Q : \A U \in Q : U \subseteq T => U = T
    <2> HIDE DEF Q
    <2>1. Q \in SUBSET SUBSET S
      BY DEF Q
    <2>2. QED
      BY <1>1, <2>1, LeastSubset
  <1>3. PICK x \in T : TRUE
    OBVIOUS
  <1>4. CASE T \ {x} = {}
    BY <1>4
  <1>5. CASE T \ {x} # {}
    <2>1. T \ {x} \notin Q
      BY <1>2, <1>3
    <2>2. PICK u \in T \ {x} : Leads(u, T \ {x})
      BY <1>5, <2>1
    <2>3. CASE <<u, x>> \in R
      <3>1. Leads(u, T)
        BY <2>2, <2>3
      <3>2. QED
        BY <3>1
    <2>4. CASE <<x, u>> \in R
      <3>1. Leads(x, T)
        BY <2>2, <2>4 DEF Transitive
      <3>2. QED
        BY <3>1
    <2>5. QED
      BY <2>2, <2>3, <2>4 DEF Total
  <1>6. QED
    BY <1>4, <1>5

LEMMA MaxExists ==
    ASSUME NEW S \in SUBSET Int, IsFiniteSet(S), S # {}
    PROVE  Max(S) \in S /\ \A y \in S : Max(S) >= y
  <1> DEFINE R == {p \in S \X S : p[1] >= p[2]}
  <1>1. \A x, y \in S : <<x, y>> \in R <=> x >= y
    OBVIOUS
  <1> HIDE DEF R
  <1>2. Transitive(S, R) /\ Total(S, R)
    BY <1>1 DEF Transitive, Total
  <1>3. \E x \in S : \A y \in S : x >= y
    <2>1. PICK x \in S : \A y \in S \ {x} : <<x, y>> \in R
      BY <1>2, FirstExists
    <2>2. ASSUME NEW y \in S PROVE x >= y
      <3>1. CASE y = x
        BY <3>1
      <3>2. CASE y # x
        <4>1. <<x, y>> \in R
          BY <2>1, <3>2
        <4>2. QED
          BY <1>1, <4>1
      <3>3. QED
        BY <3>1, <3>2
    <2>3. QED
      BY <2>2
  <1>4. QED
    BY <1>3 DEF Max

LEMMA MinExists ==
    ASSUME NEW S \in SUBSET Int, IsFiniteSet(S), S # {}
    PROVE  Min(S) \in S /\ \A y \in S : Min(S) <= y
  <1> DEFINE R == {p \in S \X S : p[1] <= p[2]}
  <1>1. \A x, y \in S : <<x, y>> \in R <=> x <= y
    OBVIOUS
  <1> HIDE DEF R
  <1>2. Transitive(S, R) /\ Total(S, R)
    BY <1>1 DEF Transitive, Total
  <1>3. \E x \in S : \A y \in S : x <= y
    <2>1. PICK x \in S : \A y \in S \ {x} : <<x, y>> \in R
      BY <1>2, FirstExists
    <2>2. ASSUME NEW y \in S PROVE x <= y
      <3>1. CASE y = x
        BY <3>1
      <3>2. CASE y # x
        <4>1. <<x, y>> \in R
          BY <2>1, <3>2
        <4>2. QED
          BY <1>1, <4>1
      <3>3. QED
        BY <3>1, <3>2
    <2>3. QED
      BY <2>2
  <1>4. QED
    BY <1>3 DEF Min

Preceding(S, R, x) == {y \in S : <<y, x>> \in R}

(* Every place of a finite ordered set is taken by exactly one element.    *)
LEMMA RankTaken ==
    ASSUME NEW S, IsFiniteSet(S), NEW R, StrictOrder(S, R),
           NEW n \in 1 .. Cardinality(S)
    PROVE  \E x \in S : Cardinality(Preceding(S, R, x)) = n - 1
  <1> DEFINE size == Cardinality(S)
             rank == [x \in S |-> Cardinality(Preceding(S, R, x))]
  <1>1. size \in Nat
    BY FS_CardinalityType
  <1>2. ASSUME NEW x \in S
        PROVE  /\ IsFiniteSet(Preceding(S, R, x)) /\ Cardinality(Preceding(S, R, x)) \in Nat
               /\ Cardinality(Preceding(S, R, x)) < size
    <2>1. Preceding(S, R, x) \in SUBSET S /\ x \notin Preceding(S, R, x)
      BY DEF Preceding, StrictOrder, Irreflexive
    <2>2. QED
      BY <1>1, <2>1, FS_Subset, FS_CardinalityType
  <1>3. ASSUME NEW x \in S, NEW y \in S, <<x, y>> \in R
        PROVE  Cardinality(Preceding(S, R, x)) < Cardinality(Preceding(S, R, y))
    <2>1. Preceding(S, R, x) \in SUBSET Preceding(S, R, y)
      BY <1>3 DEF Preceding, StrictOrder, Transitive
    <2>2. x \in Preceding(S, R, y) /\ x \notin Preceding(S, R, x)
      BY <1>3 DEF Preceding, StrictOrder, Irreflexive
    <2>3. QED
      BY <1>2, <2>1, <2>2, FS_Subset
  <1>4. rank \in [S -> 0 .. size - 1]
    BY <1>1, <1>2
  <1>5. ASSUME NEW x \in S, NEW y \in S, rank[x] = rank[y]
        PROVE  x = y
    <2>1. ~(<<x, y>> \in R) /\ ~(<<y, x>> \in R)
      BY <1>2, <1>3, <1>5
    <2>2. QED
      BY <2>1 DEF StrictOrder, Total
  <1>6. rank \in Injection(S, 0 .. size - 1)
    BY <1>4, <1>5 DEF Injection, IsInjective
  <1>7. IsFiniteSet(0 .. size - 1) /\ Cardinality(0 .. size - 1) = size
    <2>1. 0 \in Int /\ size - 1 \in Int
      BY <1>1
    <2>2. QED
      BY <1>1, <2>1, FS_Interval
  <1>8. rank \in Surjection(S, 0 .. size - 1)
    BY <1>6, <1>7, FS_Injection
  <1>9. n - 1 \in 0 .. size - 1
    BY <1>1
  <1>10. QED
    BY <1>8, <1>9 DEF Surjection

(* A finite set in order is a sequence of its elements, and of all.        *)
LEMMA InOrderType ==
    ASSUME NEW S, IsFiniteSet(S), NEW R, StrictOrder(S, R)
    PROVE  /\ Cardinality(S) \in Nat
           /\ InOrder(S, R) \in [1 .. Cardinality(S) -> S]
           /\ \A x \in S : \E n \in 1 .. Cardinality(S) : InOrder(S, R)[n] = x
  <1> DEFINE size == Cardinality(S)
             order == InOrder(S, R)
  <1>1. size \in Nat
    BY FS_CardinalityType
  <1>2. order = [n \in 1 .. size |-> CHOOSE x \in S : Cardinality(Preceding(S, R, x)) = n - 1]
    BY Zenon DEF InOrder, Preceding
  <1>3. ASSUME NEW n \in 1 .. size
        PROVE  order[n] \in S /\ Cardinality(Preceding(S, R, order[n])) = n - 1
    <2>1. order[n] = CHOOSE x \in S : Cardinality(Preceding(S, R, x)) = n - 1
      BY <1>2
    <2>2. QED
      BY <2>1, RankTaken
  <1>4. order \in [1 .. size -> S]
    BY <1>2, <1>3
  <1>5. \A n, m \in 1 .. size : order[n] = order[m] => n = m
    BY <1>1, <1>3
  <1>6. order \in Injection(1 .. size, S)
    BY <1>4, <1>5 DEF Injection, IsInjective
  <1>7. IsFiniteSet(1 .. size) /\ Cardinality(1 .. size) = size
    <2>1. 1 \in Int /\ size \in Int
      BY <1>1
    <2>2. QED
      BY <1>1, <2>1, FS_Interval
  <1>8. order \in Surjection(1 .. size, S)
    BY <1>6, <1>7, FS_Injection
  <1>9. QED
    BY <1>1, <1>4, <1>8 DEF Surjection

-----------------------------------------------------------------------------
(* Sequences.                                                              *)

LEMMA SequenceOf ==
    ASSUME NEW T, NEW s \in Seq(T)
    PROVE  IsSequence(s)
  <1>1. Len(s) \in Nat /\ DOMAIN s = 1 .. Len(s) /\ s \in [1 .. Len(s) -> T]
    OBVIOUS
  <1> DEFINE S == {s[i] : i \in DOMAIN s}
  <1>2. s \in [1 .. Len(s) -> S]
    BY <1>1
  <1> HIDE DEF S
  <1>3. s \in Seq(S)
    BY <1>1, <1>2, SeqDef
  <1>4. QED
    BY <1>3 DEF IsSequence, S

LEMMA SequenceDomain ==
    ASSUME NEW s, IsSequence(s)
    PROVE  /\ DOMAIN s = 1 .. Len(s) /\ Len(s) \in Nat
           /\ IsFiniteSet(DOMAIN s) /\ DOMAIN s \subseteq Nat
  <1> DEFINE S == {s[i] : i \in DOMAIN s}
  <1>1. s \in Seq(S)
    BY DEF IsSequence
  <1> HIDE DEF S
  <1>2. DOMAIN s = 1 .. Len(s) /\ Len(s) \in Nat
    BY <1>1
  <1>3. 1 \in Int /\ Len(s) \in Int
    BY <1>2
  <1>4. QED
    BY <1>2, <1>3, FS_Interval

LEMMA AscendingOrder ==
    ASSUME NEW S \in SUBSET Nat
    PROVE  StrictOrder(S, Ascending(S))
  <1>1. \A x, y \in S : <<x, y>> \in Ascending(S) <=> x < y
    BY DEF Ascending
  <1>2. \A x \in S : x \in Nat
    OBVIOUS
  <1>3. QED
    BY <1>1, <1>2 DEF StrictOrder, Transitive, Total, Irreflexive

LEMMA NestedOrder ==
    ASSUME NEW S \in SUBSET (Nat \X Nat)
    PROVE  StrictOrder(S, Nested(S))
  <1>1. \A x, y \in S : <<x, y>> \in Nested(S) <=> x[1] < y[1] \/ (x[1] = y[1] /\ x[2] < y[2])
    BY DEF Nested
  <1>2. \A x \in S : x = <<x[1], x[2]>> /\ x[1] \in Nat /\ x[2] \in Nat
    OBVIOUS
  <1> HIDE DEF Nested
  <1>3. Transitive(S, Nested(S))
    BY <1>1, <1>2 DEF Transitive
  <1>4. Total(S, Nested(S))
    BY <1>1, <1>2 DEF Total
  <1>5. Irreflexive(S, Nested(S))
    BY <1>1, <1>2 DEF Irreflexive
  <1>6. QED
    BY <1>3, <1>4, <1>5 DEF StrictOrder

(* The places of first values are places, and every value has one.         *)
LEMMA FirstsType ==
    ASSUME NEW v, IsFiniteSet(DOMAIN v), NEW R, StrictOrder(DOMAIN v, R)
    PROVE  /\ Firsts(v, R) \in Seq(DOMAIN v)
           /\ \A x \in DOMAIN v : \E n \in DOMAIN Firsts(v, R) : v[Firsts(v, R)[n]] = v[x]
  <1> DEFINE S == {x \in DOMAIN v : \A y \in DOMAIN v : <<y, x>> \in R => v[y] # v[x]}
             order == InOrder(S, R)
  <1>1. S \in SUBSET DOMAIN v /\ Firsts(v, R) = order
    BY DEF Firsts
  <1>2. IsFiniteSet(S)
    BY <1>1, FS_Subset
  <1>3. StrictOrder(S, R)
    BY <1>1 DEF StrictOrder, Transitive, Total, Irreflexive
  <1>4. ASSUME NEW x \in DOMAIN v
        PROVE  \E y \in S : v[y] = v[x]
    <2> DEFINE T == {y \in DOMAIN v : v[y] = v[x]}
    <2>1. IsFiniteSet(T) /\ T # {}
      <3>1. T \in SUBSET DOMAIN v /\ x \in T
        OBVIOUS
      <3>2. QED
        BY <3>1, FS_Subset
    <2>2. Transitive(T, R) /\ Total(T, R)
      BY DEF StrictOrder, Transitive, Total
    <2>3. PICK y \in T : \A z \in T \ {y} : <<y, z>> \in R
      <3> HIDE DEF T
      <3>1. QED
        BY <2>1, <2>2, FirstExists
    <2>4. ASSUME NEW z \in DOMAIN v, <<z, y>> \in R, v[z] = v[y]
          PROVE  FALSE
      <3>1. <<z, y>> \in R /\ z \in DOMAIN v /\ y \in DOMAIN v /\ v[z] = v[x]
        BY <2>3, <2>4
      <3>2. z # y
        BY <3>1 DEF StrictOrder, Irreflexive
      <3>3. <<y, z>> \in R
        BY <2>3, <3>1, <3>2
      <3>4. <<y, y>> \in R
        BY <3>1, <3>3 DEF StrictOrder, Transitive
      <3>5. QED
        BY <3>1, <3>4 DEF StrictOrder, Irreflexive
    <2>5. y \in S /\ v[y] = v[x]
      BY <2>3, <2>4
    <2>6. QED
      BY <2>5
  <1> HIDE DEF S
  <1>5. /\ Cardinality(S) \in Nat /\ order \in [1 .. Cardinality(S) -> S]
        /\ \A x \in S : \E n \in 1 .. Cardinality(S) : order[n] = x
    BY <1>2, <1>3, InOrderType
  <1>6. order \in Seq(DOMAIN v) /\ DOMAIN order = 1 .. Cardinality(S)
    <2>1. order \in [1 .. Cardinality(S) -> DOMAIN v]
      BY <1>1, <1>5
    <2> HIDE DEF order
    <2>2. QED
      BY <1>5, <2>1, SeqDef
  <1>7. ASSUME NEW x \in DOMAIN v PROVE \E n \in DOMAIN order : v[order[n]] = v[x]
    <2>1. PICK y \in S : v[y] = v[x]
      BY <1>4
    <2>2. PICK n \in 1 .. Cardinality(S) : order[n] = y
      BY <1>5
    <2> HIDE DEF order
    <2>3. n \in DOMAIN order
      BY <1>6
    <2>4. QED
      BY <2>1, <2>2, <2>3
  <1> HIDE DEF order
  <1>8. QED
    BY <1>1, <1>6, <1>7

LEMMA FirstValuesType ==
    ASSUME NEW v, IsFiniteSet(DOMAIN v), NEW R, StrictOrder(DOMAIN v, R),
           NEW T, \A x \in DOMAIN v : v[x] \in T
    PROVE  /\ FirstValues(v, R) \in Seq(T)
           /\ \A n \in DOMAIN FirstValues(v, R) : \E x \in DOMAIN v : FirstValues(v, R)[n] = v[x]
           /\ \A x \in DOMAIN v : \E n \in DOMAIN FirstValues(v, R) : FirstValues(v, R)[n] = v[x]
  <1> DEFINE order == Firsts(v, R)
             values == FirstValues(v, R)
  <1>1. /\ order \in Seq(DOMAIN v)
        /\ \A x \in DOMAIN v : \E n \in DOMAIN order : v[order[n]] = v[x]
    BY FirstsType
  <1>2. values = [n \in DOMAIN order |-> v[order[n]]]
    BY DEF FirstValues
  <1> HIDE DEF order, values
  <1>3. DOMAIN order = 1 .. Len(order) /\ Len(order) \in Nat
        /\ \A n \in DOMAIN order : order[n] \in DOMAIN v
    BY <1>1
  <1>4. values \in [1 .. Len(order) -> T]
    BY <1>2, <1>3
  <1>5. values \in Seq(T)
    BY <1>3, <1>4, SeqDef
  <1>6. QED
    BY <1>1, <1>2, <1>3, <1>5 DEF order, values

-----------------------------------------------------------------------------
(* Sums.  SumFunction of the community modules is a fold, which is what a  *)
(* recursive function on the subsets of the domain takes the domain to.    *)
(* For natural numbers that is the number of units there are in all of     *)
(* them; whatever else is known of sums follows from this count.           *)

Pick(s) == CHOOSE x \in s : TRUE

Iterates(w, f) ==
    f = [s \in SUBSET DOMAIN w |-> IF s = {} THEN 0 ELSE w[Pick(s)] + f[s \ {Pick(s)}]]

Units(w, s) == UNION {{x} \X (1 .. w[x]) : x \in s}

LEMMA SumIterates ==
    ASSUME NEW w
    PROVE  SumFunction(w) = (CHOOSE f : Iterates(w, f))[DOMAIN w]
  BY DEF SumFunction, SumFunctionOnSet, FoldFunctionOnSet, MapThenFoldSet, Iterates, Pick

LEMMA UnitsOf ==
    ASSUME NEW w, NEW s
    PROVE  \A u : u \in Units(w, s) <=> \E x \in s : \E n \in 1 .. w[x] : u = <<x, n>>
  BY DEF Units

(* The units of one element more.                                          *)
LEMMA UnitsAdd ==
    ASSUME NEW w, NEW s, NEW x \in s, w[x] \in Nat, IsFiniteSet(Units(w, s \ {x}))
    PROVE  /\ IsFiniteSet(Units(w, s))
           /\ Cardinality(Units(w, s)) = w[x] + Cardinality(Units(w, s \ {x}))
  <1> DEFINE here == {x} \X (1 .. w[x])
             rest == Units(w, s \ {x})
  <1>1. IsFiniteSet(here) /\ Cardinality(here) = w[x]
    <2>1. 1 \in Int /\ w[x] \in Int
      OBVIOUS
    <2>2. IsFiniteSet(1 .. w[x]) /\ Cardinality(1 .. w[x]) = w[x]
      BY <2>1, FS_Interval
    <2>3. IsFiniteSet({x}) /\ Cardinality({x}) = 1
      BY FS_Singleton
    <2>4. /\ IsFiniteSet(here)
          /\ Cardinality(here) = Cardinality({x}) * Cardinality(1 .. w[x])
      BY <2>2, <2>3, ProductFinite
    <2>5. QED
      BY <2>2, <2>3, <2>4
  <1>2. \A u : u \in here <=> \E n \in 1 .. w[x] : u = <<x, n>>
    OBVIOUS
  <1> HIDE DEF here, rest
  <1>3. Units(w, s) = here \cup rest
    <2>1. ASSUME NEW u \in Units(w, s)
          PROVE  u \in here \cup rest
      <3>1. PICK y \in s : \E n \in 1 .. w[y] : u = <<y, n>>
        BY UnitsOf
      <3>2. CASE y = x
        BY <1>2, <3>1, <3>2
      <3>3. CASE y # x
        BY <3>1, <3>3, UnitsOf DEF rest
      <3>4. QED
        BY <3>2, <3>3
    <2>2. ASSUME NEW u \in here
          PROVE  u \in Units(w, s)
      BY <1>2, UnitsOf
    <2>3. ASSUME NEW u \in rest
          PROVE  u \in Units(w, s)
      BY UnitsOf DEF rest
    <2>4. QED
      BY <2>1, <2>2, <2>3
  <1>4. here \cap rest = {}
    <2>1. ASSUME NEW u \in here, u \in rest
          PROVE  FALSE
      <3>1. PICK n : u = <<x, n>>
        BY <1>2
      <3>2. PICK y \in s \ {x} : \E m : u = <<y, m>>
        BY <2>1, UnitsOf DEF rest
      <3>3. QED
        BY <3>1, <3>2
    <2>2. QED
      BY <2>1
  <1>5. /\ IsFiniteSet(here \cup rest)
        /\ Cardinality(here \cup rest)
               = Cardinality(here) + Cardinality(rest) - Cardinality(here \cap rest)
    <2>1. IsFiniteSet(rest)
      BY DEF rest
    <2>2. QED
      BY <1>1, <2>1, FS_Union
  <1>6. Cardinality(rest) \in Nat
    BY FS_CardinalityType DEF rest
  <1>7. Cardinality(here \cup rest) = Cardinality(here) + Cardinality(rest)
    <2>1. Cardinality(here \cap rest) = 0
      BY <1>4, FS_EmptySet
    <2>2. QED
      BY <1>1, <1>5, <1>6, <2>1
  <1>8. QED
    BY <1>1, <1>3, <1>5, <1>7 DEF rest

(* Finitely many numbers have finitely many units.                         *)
LEMMA UnitsFinite ==
    ASSUME NEW w, IsFiniteSet(DOMAIN w), \A x \in DOMAIN w : w[x] \in Nat,
           NEW s \in SUBSET DOMAIN w
    PROVE  IsFiniteSet(Units(w, s)) /\ Cardinality(Units(w, s)) \in Nat
  <1> DEFINE Q == {r \in SUBSET DOMAIN w : ~IsFiniteSet(Units(w, r))}
  <1>1. Q = {}
    <2>1. SUFFICES ASSUME Q # {} PROVE FALSE
      OBVIOUS
    <2>2. PICK r \in Q : \A q \in Q : q \subseteq r => q = r
      <3> HIDE DEF Q
      <3>1. Q \in SUBSET SUBSET DOMAIN w
        BY DEF Q
      <3>2. QED
        BY <2>1, <3>1, LeastSubset
    <2>3. CASE r = {}
      <3>1. Units(w, r) = {}
        BY <2>3 DEF Units
      <3>2. QED
        BY <3>1, FS_EmptySet
    <2>4. CASE r # {}
      <3>1. PICK x \in r : TRUE
        BY <2>4
      <3>2. r \ {x} \notin Q
        BY <2>2, <3>1
      <3>3. IsFiniteSet(Units(w, r \ {x})) /\ w[x] \in Nat
        BY <3>1, <3>2
      <3>4. QED
        BY <3>1, <3>3, UnitsAdd
    <2>5. QED
      BY <2>3, <2>4
  <1>2. QED
    BY <1>1, FS_CardinalityType

LEMMA SumCounts ==
    ASSUME NEW w, IsFiniteSet(DOMAIN w), \A x \in DOMAIN w : w[x] \in Nat
    PROVE  SumFunction(w) = Cardinality(Units(w, DOMAIN w))
  <1> DEFINE D == DOMAIN w
             count == [s \in SUBSET D |-> Cardinality(Units(w, s))]
  <1>1. ASSUME NEW s \in SUBSET D
        PROVE  count[s] = IF s = {} THEN 0 ELSE w[Pick(s)] + count[s \ {Pick(s)}]
    <2>1. CASE s = {}
      <3>1. Units(w, s) = {}
        BY <2>1 DEF Units
      <3>2. QED
        BY <2>1, <3>1, FS_EmptySet
    <2>2. CASE s # {}
      <3>1. Pick(s) \in s
        BY <2>2 DEF Pick
      <3>2. s \ {Pick(s)} \in SUBSET D /\ w[Pick(s)] \in Nat
        BY <3>1
      <3>3. IsFiniteSet(Units(w, s \ {Pick(s)}))
        BY <3>2, UnitsFinite
      <3>4. Cardinality(Units(w, s)) = w[Pick(s)] + Cardinality(Units(w, s \ {Pick(s)}))
        BY <3>1, <3>2, <3>3, UnitsAdd
      <3>5. QED
        BY <2>2, <3>2, <3>4
    <2>3. QED
      BY <2>1, <2>2
  <1>2. Iterates(w, count)
    <2> DEFINE next == [s \in SUBSET D |-> IF s = {} THEN 0 ELSE w[Pick(s)] + count[s \ {Pick(s)}]]
    <2>1. \A s \in SUBSET D : count[s] = next[s]
      BY <1>1
    <2>2. count = next
      BY <2>1
    <2>3. QED
      BY <2>2 DEF Iterates
  <1>3. ASSUME NEW f, Iterates(w, f)
        PROVE  f[D] = count[D]
    <2> DEFINE Q == {s \in SUBSET D : f[s] # count[s]}
    <2>1. \A s \in SUBSET D : f[s] = IF s = {} THEN 0 ELSE w[Pick(s)] + f[s \ {Pick(s)}]
      BY <1>3 DEF Iterates
    <2> HIDE DEF count
    <2>2. Q = {}
      <3>1. SUFFICES ASSUME Q # {} PROVE FALSE
        OBVIOUS
      <3>2. PICK s \in Q : \A q \in Q : q \subseteq s => q = s
        <4> HIDE DEF Q
        <4>1. Q \in SUBSET SUBSET D
          BY DEF Q
        <4>2. QED
          BY <3>1, <4>1, LeastSubset
      <3>3. CASE s = {}
        BY <1>1, <2>1, <3>2, <3>3
      <3>4. CASE s # {}
        <4>1. Pick(s) \in s
          BY <3>4 DEF Pick
        <4>2. s \ {Pick(s)} \notin Q /\ s \ {Pick(s)} \in SUBSET D
          BY <3>2, <4>1
        <4>3. f[s \ {Pick(s)}] = count[s \ {Pick(s)}]
          BY <4>2
        <4>4. f[s] = count[s]
          BY <1>1, <2>1, <3>2, <3>4, <4>3
        <4>5. QED
          BY <3>2, <4>4
      <3>5. QED
        BY <3>3, <3>4
    <2>3. QED
      BY <2>2
  <1>4. Iterates(w, CHOOSE f : Iterates(w, f))
    BY <1>2
  <1>5. SumFunction(w) = count[D]
    BY <1>3, <1>4, SumIterates
  <1>6. QED
    BY <1>5

(* The sum of natural numbers is one, and of none it is 0.                 *)
LEMMA SumType ==
    ASSUME NEW w, IsFiniteSet(DOMAIN w), \A x \in DOMAIN w : w[x] \in Nat
    PROVE  SumFunction(w) \in Nat /\ (DOMAIN w = {} => SumFunction(w) = 0)
  <1>1. SumFunction(w) \in Nat
    BY SumCounts, UnitsFinite
  <1>2. ASSUME DOMAIN w = {} PROVE SumFunction(w) = 0
    <2>1. Units(w, DOMAIN w) = {}
      BY <1>2 DEF Units
    <2>2. QED
      BY <2>1, SumCounts, FS_EmptySet
  <1>3. QED
    BY <1>1, <1>2

(* One number more is added to the sum of the others.                      *)
LEMMA SumAdds ==
    ASSUME NEW v, IsFiniteSet(DOMAIN v), \A y \in DOMAIN v : v[y] \in Nat,
           NEW w, NEW x, x \notin DOMAIN v, DOMAIN w = DOMAIN v \cup {x},
           \A y \in DOMAIN v : w[y] = v[y], w[x] \in Nat
    PROVE  SumFunction(w) = SumFunction(v) + w[x]
  <1>1. IsFiniteSet(DOMAIN w) /\ \A y \in DOMAIN w : w[y] \in Nat
    BY FS_AddElement
  <1>2. DOMAIN w \ {x} = DOMAIN v /\ x \in DOMAIN w
    OBVIOUS
  <1>3. Units(w, DOMAIN v) = Units(v, DOMAIN v)
    BY DEF Units
  <1>4. IsFiniteSet(Units(v, DOMAIN v)) /\ Cardinality(Units(v, DOMAIN v)) \in Nat
    BY UnitsFinite
  <1>5. Cardinality(Units(w, DOMAIN w)) = w[x] + Cardinality(Units(v, DOMAIN v))
    <2>1. Units(w, DOMAIN w \ {x}) = Units(v, DOMAIN v)
      BY <1>2, <1>3
    <2>2. IsFiniteSet(Units(w, DOMAIN w \ {x}))
      BY <1>4, <2>1
    <2>3. Cardinality(Units(w, DOMAIN w)) = w[x] + Cardinality(Units(w, DOMAIN w \ {x}))
      BY <1>1, <1>2, <2>2, UnitsAdd
    <2>4. QED
      BY <2>1, <2>3
  <1>6. QED
    BY <1>1, <1>4, <1>5, SumCounts

(* More and greater numbers have no lesser sum.                            *)
LEMMA SumGrows ==
    ASSUME NEW v, NEW w, IsFiniteSet(DOMAIN w), DOMAIN v \subseteq DOMAIN w,
           \A x \in DOMAIN v : v[x] \in Nat /\ v[x] <= w[x],
           \A x \in DOMAIN w : w[x] \in Nat
    PROVE  SumFunction(v) <= SumFunction(w)
  <1>1. IsFiniteSet(DOMAIN v)
    BY FS_Subset
  <1>2. Units(v, DOMAIN v) \in SUBSET Units(w, DOMAIN w)
    <2>1. ASSUME NEW u \in Units(v, DOMAIN v) PROVE u \in Units(w, DOMAIN w)
      <3>1. PICK x \in DOMAIN v : \E n \in 1 .. v[x] : u = <<x, n>>
        BY UnitsOf
      <3>2. \E n \in 1 .. w[x] : u = <<x, n>>
        BY <3>1
      <3>3. QED
        BY <3>1, <3>2, UnitsOf
    <2>2. QED
      BY <2>1
  <1>3. IsFiniteSet(Units(w, DOMAIN w))
    BY UnitsFinite
  <1>4. QED
    BY <1>1, <1>2, <1>3, SumCounts, FS_Subset

-----------------------------------------------------------------------------
(* What is left to do, in pairs and in tuples of four.                     *)
LEMMA LessLeftPair ==
    ASSUME NEW a, NEW b, NEW c, NEW d,
           \/ c \in Nat /\ c < a
           \/ c = a /\ d \in Nat /\ d < b
    PROVE  LessLeft(<<c, d>>, <<a, b>>)
  <1>1. DOMAIN <<a, b>> = 1 .. 2
    OBVIOUS
  <1>2. CASE c \in Nat /\ c < a
    <2>1. \A k \in 1 .. 1 - 1 : <<c, d>>[k] = <<a, b>>[k]
      OBVIOUS
    <2>2. QED
      BY <1>1, <1>2, <2>1 DEF LessLeft
  <1>3. CASE c = a /\ d \in Nat /\ d < b
    <2>1. \A k \in 1 .. 2 - 1 : <<c, d>>[k] = <<a, b>>[k]
      BY <1>3
    <2>2. QED
      BY <1>1, <1>3, <2>1 DEF LessLeft
  <1>4. QED
    BY <1>2, <1>3

LEMMA LessLeftFour ==
    ASSUME NEW p, p = <<p[1], p[2], p[3], p[4]>>,
           NEW q, q = <<q[1], q[2], q[3], q[4]>>,
           NEW i \in 1 .. 4, p[i] \in Nat, p[i] < q[i],
           \A k \in 1 .. i - 1 : p[k] = q[k]
    PROVE  LessLeft(p, q)
  <1>1. DOMAIN q = 1 .. 4
    OBVIOUS
  <1>2. QED
    BY <1>1 DEF LessLeft

=============================================================================
