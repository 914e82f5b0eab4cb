------------------------------- MODULE Counting ----------------------------
(***************************************************************************)
(* The elements of a finite set of numbers by their place in it, and with  *)
(* that Array.prototype.filter: what a sequence keeps of a set; and sums.  *)
(* CountingProofs has their laws.                                          *)
(***************************************************************************)
EXTENDS Integers, Sequences, FiniteSets
Fns == INSTANCE Functions

\* i is the Rank(P, i)-th smallest of P.
Rank(P, i) == Cardinality({j \in P : j <= i})

Nth(P, k) == CHOOSE i \in P : Rank(P, i) = k

\* Where q has elements of S.
Spots(q, S) == {i \in 1..Len(q) : q[i] \in S}

Kept(q, S) ==
  LET spots == Spots(q, S)
  IN  [k \in 1..Cardinality(spots) |-> q[Nth(spots, k)]]

\* The sum of f over S.
Sigma(f, S) == Fns!SumFunctionOnSet(f, S)
=============================================================================
