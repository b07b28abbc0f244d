---------------------------- MODULE Collections -----------------------------
(***************************************************************************)
(* What is added up over a finite set, the powers of ten, and what is      *)
(* picked out of a list, without operators as parameters or built-in       *)
(* powers, so that they can be proved about.                               *)
(***************************************************************************)
EXTENDS Integers, FiniteSets

\* The sum of f[x] over the x in S, all of them in the domain of f.
SumOver(f, S) ==
  LET s[T \in SUBSET S] ==
        IF T = {} THEN 0 ELSE LET x == CHOOSE x \in T : TRUE IN f[x] + s[T \ {x}]
  IN s[S]

TenTo[k \in Nat] == IF k = 0 THEN 1 ELSE 10 * TenTo[k - 1]

\* Some numbers from the smallest to the greatest.
Ascending(S) ==
  CHOOSE s \in [1..Cardinality(S) -> S] :
    /\ \A j, k \in 1..Cardinality(S) : j < k => s[j] < s[k]
    /\ \A x \in S : \E k \in 1..Cardinality(S) : s[k] = x

\* What a list has at some places, in its order.
Picked(list, S) == [n \in 1..Cardinality(S) |-> list[Ascending(S)[n]]]
=============================================================================
