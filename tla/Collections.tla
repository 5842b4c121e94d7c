----------------------------- MODULE Collections -----------------------------
(***************************************************************************)
(* Orders of finite sets, as relations, and of tuples of numbers.  The     *)
(* community modules sort with SetToSortSeq, which enumerates              *)
(* permutations; here an element is placed by how many come before it.     *)
(***************************************************************************)
EXTENDS Naturals, Sequences, FiniteSets

IsSequence(s) == s \in Seq({s[i] : i \in DOMAIN s})

(* Numbers as they are, and pairs of numbers as nested loops meet them.    *)
Ascending(S) == {p \in S \X S : p[1] < p[2]}

Nested(S) ==
    {p \in S \X S : p[1][1] < p[2][1] \/ (p[1][1] = p[2][1] /\ p[1][2] < p[2][2])}

(* The elements of S in the order R, a set of pairs <<earlier, later>>.    *)
InOrder(S, R) ==
    [n \in 1 .. Cardinality(S) |->
        CHOOSE x \in S : Cardinality({y \in S : <<y, x>> \in R}) = n - 1]

(* The places where a value of v is met for the first time, if the domain  *)
(* of v is walked through in the order R, and what v has there.            *)
Firsts(v, R) ==
    InOrder({x \in DOMAIN v : \A y \in DOMAIN v : <<y, x>> \in R => v[y] # v[x]}, R)

FirstValues(v, R) == [n \in DOMAIN Firsts(v, R) |-> v[Firsts(v, R)[n]]]

(* What is left to do, as a tuple of numbers, the weightiest first: p is   *)
(* less than q where the two differ for the first time, and a number there.*)
(* No sequence of tuples has each of them less than the one before it for  *)
(* ever.                                                                   *)
LessLeft(p, q) ==
    \E i \in DOMAIN q : p[i] \in Nat /\ p[i] < q[i] /\ \A k \in 1 .. i - 1 : p[k] = q[k]

=============================================================================
