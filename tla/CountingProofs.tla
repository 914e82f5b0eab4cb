---------------------------- MODULE CountingProofs --------------------------
(***************************************************************************)
(* The laws of Counting: every place is taken by one element, in order;    *)
(* what a sequence keeps of a set comes from it, in its order, and is      *)
(* complete; a sum is that of its parts, in any order.                     *)
(***************************************************************************)
EXTENDS Counting, FiniteSetTheorems, WellFoundedInduction, TLAPS

LEMMA RankType ==
  ASSUME NEW P, IsFiniteSet(P), NEW i
  PROVE  /\ IsFiniteSet({j \in P : j <= i})
         /\ Rank(P, i) \in Nat /\ Rank(P, i) <= Cardinality(P)
<1>1. {j \in P : j <= i} \in SUBSET P
  OBVIOUS
<1> QED BY <1>1, FS_Subset, FS_CardinalityType DEF Rank

\* A greater element has a greater rank.
LEMMA RankGrows ==
  ASSUME NEW P \in SUBSET Int, IsFiniteSet(P), NEW i \in P, NEW k \in P, i < k
  PROVE  Rank(P, i) < Rank(P, k)
<1> DEFINE A == {j \in P : j <= i}
           B == {j \in P : j <= k}
<1>1. IsFiniteSet(A) /\ IsFiniteSet(B)
  BY RankType
<1>2. A \in SUBSET B /\ A # B
  <2>1. k \in B /\ k \notin A
    OBVIOUS
  <2>2. \A j \in P : j <= i => j <= k
    OBVIOUS
  <2> QED BY <2>1, <2>2
<1>3. Cardinality(A) <= Cardinality(B) /\ Cardinality(A) # Cardinality(B)
  BY <1>1, <1>2, FS_Subset
<1> QED BY <1>1, <1>3, FS_CardinalityType DEF Rank

\* A set of natural numbers that is not empty has a least one.
LEMMA LeastNatural ==
  ASSUME NEW T \in SUBSET Nat, T # {}
  PROVE  \E n \in T : \A m \in T : n <= m
<1> DEFINE Less == {ss \in Nat \X Nat : ss[1] < ss[2]}
<1>1. IsWellFoundedOn(Less, Nat)
  BY NatLessThanWellFounded DEF OpToRel
<1>2. PICK n \in T : \A m \in T : <<m, n>> \notin Less
  BY <1>1, WFMin
<1>3. ASSUME NEW m \in T, ~ (n <= m) PROVE FALSE
  <2>1. <<m, n>> \in Nat \X Nat /\ m < n
    BY <1>3
  <2> QED BY <1>2, <2>1
<1> QED BY <1>3

\* A bounded one also has a greatest.
LEMMA Extremes ==
  ASSUME NEW n \in Nat, NEW S \in SUBSET (0..n), S # {}
  PROVE  /\ \E x \in S : \A y \in S : x <= y
         /\ \E x \in S : \A y \in S : x >= y
<1>1. \E x \in S : \A y \in S : x <= y
  <2>1. S \in SUBSET Nat
    OBVIOUS
  <2> QED BY <2>1, LeastNatural
<1>2. \E x \in S : \A y \in S : x >= y
  <2> DEFINE T == {n - x : x \in S}
  <2>1. T \in SUBSET Nat /\ T # {}
    <3>1. \A x \in S : n - x \in Nat
      OBVIOUS
    <3> QED BY <3>1
  <2>2. PICK k \in T : \A m \in T : k <= m
    <3> HIDE DEF T
    <3> QED BY <2>1, LeastNatural
  <2>3. PICK x \in S : k = n - x
    OBVIOUS
  <2>4. \A y \in S : n - x <= n - y
    BY <2>2, <2>3
  <2> QED BY <2>4
<1> QED BY <1>1, <1>2

\* A finite set of numbers that is not empty has a least element.
LEMMA LeastElement ==
  ASSUME NEW P \in SUBSET Int, IsFiniteSet(P), P # {}
  PROVE  \E i \in P : \A j \in P : i <= j
<1> DEFINE Ranked == {Rank(P, i) : i \in P}
<1>1. \A i \in P : Rank(P, i) \in Nat
  BY RankType
<1>2. Ranked \in SUBSET Nat /\ Ranked # {}
  BY <1>1
<1>3. PICK n \in Ranked : \A m \in Ranked : n <= m
  BY <1>2, LeastNatural
<1>4. PICK i \in P : Rank(P, i) = n
  BY <1>3
<1>5. ASSUME NEW j \in P, j < i PROVE FALSE
  <2>1. Rank(P, j) < Rank(P, i)
    BY <1>5, RankGrows
  <2>2. n <= Rank(P, j)
    BY <1>3
  <2> QED BY <1>1, <1>4, <2>1, <2>2
<1> QED BY <1>5

\* Every rank is taken.
LEMMA RankTaken ==
  ASSUME NEW P \in SUBSET Int, IsFiniteSet(P), NEW k \in 1..Cardinality(P)
  PROVE  \E i \in P : Rank(P, i) = k
<1> DEFINE Missed == {n \in 1..Cardinality(P) : \A i \in P : Rank(P, i) # n}
<1>0. Cardinality(P) \in Nat /\ \A i \in P : Rank(P, i) \in Nat
  BY FS_CardinalityType, RankType
<1>1. ASSUME NEW n \in Missed, \A m \in Missed : n <= m PROVE FALSE
  <2> DEFINE Below == {i \in P : Rank(P, i) < n}
             Rest == P \ Below
  <2>0. n \in 1..Cardinality(P) /\ \A i \in P : Rank(P, i) # n
    OBVIOUS
  <2>1. IsFiniteSet(Below) /\ IsFiniteSet(Rest) /\ Rest \in SUBSET Int
    <3>1. Below \in SUBSET P /\ Rest \in SUBSET P
      OBVIOUS
    <3> HIDE DEF Below, Rest
    <3> QED BY <3>1, FS_Subset
  <2>2. Cardinality(Below) = n - 1
    <3>1. CASE n = 1
      <4>1. ASSUME NEW i \in Below PROVE FALSE
        <5>1. i \in {j \in P : j <= i} /\ Rank(P, i) = 0
          BY <1>0, <3>1
        <5> QED BY <5>1, RankType, FS_EmptySet DEF Rank
      <4>2. Below = {}
        BY <4>1
      <4> QED BY <3>1, <4>2, FS_EmptySet
    <3>2. CASE n # 1
      <4>1. n - 1 \in 1..Cardinality(P) /\ n - 1 < n
        BY <1>0, <2>0, <3>2
      <4>2. PICK b \in P : Rank(P, b) = n - 1
        BY <1>0, <1>1, <2>0, <4>1
      <4>3. ASSUME NEW j \in P PROVE j <= b <=> Rank(P, j) < n
        <5>1. j < b => Rank(P, j) < Rank(P, b)
          BY RankGrows
        <5>2. b < j => Rank(P, b) < Rank(P, j)
          BY RankGrows
        <5> QED BY <1>0, <2>0, <4>2, <5>1, <5>2
      <4>4. Below = {j \in P : j <= b}
        BY <4>3
      <4> QED BY <4>2, <4>4 DEF Rank
    <3> QED BY <3>1, <3>2
  <2>3. CASE Rest = {}
    <3>1. Below = P
      BY <2>3
    <3>2. Cardinality(P) = n - 1
      <4> HIDE DEF Below
      <4> QED BY <2>2, <3>1
    <3> QED BY <1>0, <2>0, <3>2
  <2>4. CASE Rest # {}
    <3>1. PICK r \in Rest : \A j \in Rest : r <= j
      <4> HIDE DEF Rest
      <4> QED BY <2>1, <2>4, LeastElement
    <3>2. Rank(P, r) > n /\ r \in P /\ r \notin Below
      BY <1>0, <2>0
    <3>3. ASSUME NEW j \in P PROVE j <= r <=> j \in Below \/ j = r
      <4>1. r < j => Rank(P, r) < Rank(P, j)
        BY <3>2, RankGrows
      <4> QED BY <1>0, <2>0, <3>1, <3>2, <4>1
    <3>4. {j \in P : j <= r} = Below \cup {r}
      BY <3>2, <3>3
    <3>5. Cardinality(Below \cup {r}) = Cardinality(Below) + 1
      <4> HIDE DEF Below
      <4> QED BY <2>1, <3>2, FS_AddElement
    <3>6. Rank(P, r) = Cardinality(Below) + 1
      <4> HIDE DEF Below
      <4> QED BY <3>4, <3>5 DEF Rank
    <3>7. Rank(P, r) = n
      <4> HIDE DEF Below
      <4> QED BY <1>0, <2>0, <2>2, <3>6
    <3> QED BY <1>0, <2>0, <3>2, <3>7
  <2> QED BY <2>3, <2>4
<1>2. Missed = {}
  <2>1. Missed \in SUBSET Nat
    BY <1>0
  <2> HIDE DEF Missed
  <2> QED BY <1>1, <2>1, LeastNatural
<1> QED BY <1>2

\* Nth() and Rank() are each other's inverse.
LEMMA NthOf ==
  ASSUME NEW P \in SUBSET Int, IsFiniteSet(P)
  PROVE  /\ \A k \in 1..Cardinality(P) : Nth(P, k) \in P /\ Rank(P, Nth(P, k)) = k
         /\ \A i \in P : Rank(P, i) \in 1..Cardinality(P) /\ Nth(P, Rank(P, i)) = i
         /\ \A k, l \in 1..Cardinality(P) : k < l => Nth(P, k) < Nth(P, l)
<1>0. Cardinality(P) \in Nat /\ \A i \in P : Rank(P, i) \in Nat
  BY FS_CardinalityType, RankType
<1>1. \A k \in 1..Cardinality(P) : Nth(P, k) \in P /\ Rank(P, Nth(P, k)) = k
  BY RankTaken DEF Nth
<1>2. ASSUME NEW i \in P PROVE Rank(P, i) \in 1..Cardinality(P)
  <2>1. i \in {j \in P : j <= i}
    OBVIOUS
  <2>2. Rank(P, i) # 0
    BY <2>1, RankType, FS_EmptySet DEF Rank
  <2>3. Rank(P, i) <= Cardinality(P)
    BY RankType
  <2> QED BY <1>0, <2>2, <2>3
<1>3. ASSUME NEW i \in P, NEW j \in P, Rank(P, i) <= Rank(P, j) PROVE i <= j
  <2>1. j < i => Rank(P, j) < Rank(P, i)
    BY RankGrows
  <2> QED BY <1>0, <1>3, <2>1
<1>4. ASSUME NEW i \in P PROVE Nth(P, Rank(P, i)) = i
  <2> DEFINE n == Nth(P, Rank(P, i))
  <2>1. n \in P /\ Rank(P, n) = Rank(P, i)
    BY <1>1, <1>2
  <2> HIDE DEF n
  <2>2. n <= i /\ i <= n
    BY <1>0, <1>3, <2>1
  <2>3. n \in Int /\ i \in Int
    BY <2>1
  <2>4. n = i
    BY <2>2, <2>3
  <2> QED BY <2>4 DEF n
<1>5. ASSUME NEW k \in 1..Cardinality(P), NEW l \in 1..Cardinality(P), k < l
      PROVE  Nth(P, k) < Nth(P, l)
  <2> DEFINE a == Nth(P, k)
             b == Nth(P, l)
  <2>1. a \in P /\ b \in P /\ Rank(P, a) = k /\ Rank(P, b) = l
    BY <1>1
  <2> HIDE DEF a, b
  <2>2. a <= b /\ a # b
    BY <1>0, <1>3, <1>5, <2>1
  <2>3. a < b
    BY <2>1, <2>2
  <2> QED BY <2>3 DEF a, b
<1> QED BY <1>1, <1>2, <1>4, <1>5

-----------------------------------------------------------------------------
(* Array.prototype.filter *)

\* What is kept comes from q, in the order of q, and nothing of S is left out.
LEMMA KeptOf ==
  ASSUME NEW T, NEW q \in Seq(T), NEW S
  PROVE  /\ Kept(q, S) \in Seq(T)
         /\ \A k \in 1..Len(Kept(q, S)) :
              LET i == Nth(Spots(q, S), k)
              IN  i \in 1..Len(q) /\ q[i] \in S /\ Kept(q, S)[k] = q[i]
         /\ \A k, l \in 1..Len(Kept(q, S)) :
              k < l => Nth(Spots(q, S), k) < Nth(Spots(q, S), l)
         /\ \A i \in 1..Len(q) : q[i] \in S =>
              \E k \in 1..Len(Kept(q, S)) : Kept(q, S)[k] = q[i]
<1> DEFINE P == Spots(q, S)
           n == Cardinality(P)
<1>1. P \in SUBSET Int /\ P \subseteq 1..Len(q) /\ IsFiniteSet(P)
  <2>1. P \in SUBSET (1..Len(q)) /\ Len(q) \in Nat
    BY DEF Spots
  <2>2. IsFiniteSet(1..Len(q))
    BY <2>1, FS_Interval
  <2>3. IsFiniteSet(P)
    <3> HIDE DEF P
    <3> QED BY <2>1, <2>2, FS_Subset
  <2>4. \A i \in P : i \in 1..Len(q) /\ i \in Int
    BY <2>1
  <2> QED BY <2>3, <2>4
<1>2. n \in Nat
  BY <1>1, FS_CardinalityType
<1>3. /\ \A k \in 1..n : Nth(P, k) \in P
      /\ \A i \in P : Rank(P, i) \in 1..n /\ Nth(P, Rank(P, i)) = i
      /\ \A k, l \in 1..n : k < l => Nth(P, k) < Nth(P, l)
  <2> HIDE DEF P
  <2> QED BY <1>1, NthOf
<1>4. \A i \in P : i \in 1..Len(q) /\ q[i] \in S /\ q[i] \in T
  BY DEF Spots
<1>5. Kept(q, S) = [k \in 1..n |-> q[Nth(P, k)]]
  BY DEF Kept
<1>6. \A i \in 1..Len(q) : q[i] \in S => i \in P
  BY DEF Spots
<1> HIDE DEF P, n
<1>7. Kept(q, S) \in Seq(T) /\ Len(Kept(q, S)) = n
  BY <1>2, <1>3, <1>4, <1>5
<1>8. \A k \in 1..n : Kept(q, S)[k] = q[Nth(P, k)]
  BY <1>5
<1>9. /\ \A k \in 1..n : Nth(P, k) \in 1..Len(q) /\ q[Nth(P, k)] \in S /\ Kept(q, S)[k] = q[Nth(P, k)]
      /\ \A i \in 1..Len(q) : q[i] \in S => \E k \in 1..n : Kept(q, S)[k] = q[i]
  BY <1>3, <1>4, <1>6, <1>8
<1> QED BY <1>3, <1>7, <1>9 DEF P, n

-----------------------------------------------------------------------------
(* Induction; the sets G are what something holds of *)

\* Induction over the natural numbers.
LEMMA UpFrom0 ==
  ASSUME NEW G, 0 \in G, \A n \in Nat : n \in G => n + 1 \in G
  PROVE  \A n \in Nat : n \in G
<1> DEFINE Missed == Nat \ G
<1>1. ASSUME NEW n \in Missed, \A m \in Missed : n <= m PROVE FALSE
  <2>1. n # 0 /\ n - 1 \in Nat
    OBVIOUS
  <2>2. n - 1 \in G
    BY <1>1, <2>1
  <2> QED BY <2>1, <2>2
<1>2. Missed \in SUBSET Nat
  OBVIOUS
<1>3. Missed = {}
  <2> HIDE DEF Missed
  <2> QED BY <1>1, <1>2, LeastNatural
<1> QED BY <1>3

\* Induction over the subsets of a finite set; G are those of which something holds.
LEMMA Subsets ==
  ASSUME NEW S, IsFiniteSet(S), NEW G, {} \in G,
         \A T \in SUBSET S : \A x \in S \ T : T \in G => T \cup {x} \in G
  PROVE  S \in G
<1> DEFINE Missed == {Cardinality(T) : T \in (SUBSET S) \ G}
<1>1. \A T \in SUBSET S : IsFiniteSet(T) /\ Cardinality(T) \in Nat
  BY FS_Subset, FS_CardinalityType
<1>2. Missed \in SUBSET Nat
  BY <1>1
<1>3. ASSUME NEW n \in Missed, \A m \in Missed : n <= m PROVE FALSE
  <2>1. PICK T \in (SUBSET S) \ G : Cardinality(T) = n
    OBVIOUS
  <2>2. PICK x \in T : TRUE
    OBVIOUS
  <2> DEFINE U == T \ {x}
  <2>3. U \in SUBSET S /\ x \in S \ U /\ T = U \cup {x}
    OBVIOUS
  <2>4. U \notin G
    BY <2>3
  <2>5. Cardinality(U) = n - 1
    BY <1>1, <2>1, <2>2, FS_RemoveElement
  <2>6. Cardinality(U) \in Missed
    BY <2>3, <2>4
  <2> HIDE DEF Missed
  <2>7. n \in Int /\ n - 1 \in Missed
    BY <1>2, <2>5, <2>6
  <2> QED BY <1>3, <2>7
<1>4. Missed = {}
  <2> HIDE DEF Missed
  <2> QED BY <1>2, <1>3, LeastNatural
<1> QED BY <1>4

\* The values of a function on a finite set.
LEMMA ImageIsFinite ==
  ASSUME NEW S, IsFiniteSet(S), NEW f
  PROVE  IsFiniteSet({f[x] : x \in S})
<1> DEFINE Image(T) == {f[x] : x \in T}
           Good == {T \in SUBSET S : IsFiniteSet(Image(T))}
<1>1. {} \in Good
  <2>1. Image({}) = {}
    OBVIOUS
  <2> QED BY <2>1, FS_EmptySet
<1>2. ASSUME NEW T \in SUBSET S, NEW x \in S \ T, T \in Good PROVE T \cup {x} \in Good
  <2>1. Image(T \cup {x}) = Image(T) \cup {f[x]}
    OBVIOUS
  <2>2. IsFiniteSet(Image(T) \cup {f[x]})
    BY <1>2, FS_AddElement
  <2> QED BY <2>1, <2>2
<1>3. S \in Good
  <2> HIDE DEF Good
  <2> QED BY <1>1, <1>2, Subsets
<1> QED BY <1>3

-----------------------------------------------------------------------------
(* Sums *)

\* One step of the recursion, in any function that recurs as Sigma() does.
Recurs(f, S, h) == h = [s \in SUBSET S |-> IF s = {} THEN 0 ELSE LET x == CHOOSE x \in s : TRUE IN f[x] + h[s \ {x}]]

LEMMA SumIs == ASSUME NEW f, NEW S PROVE Sigma(f, S) = (CHOOSE h : Recurs(f, S, h))[S]
BY DEF Sigma, Fns!SumFunctionOnSet, Fns!FoldFunctionOnSet, Fns!MapThenFoldSet, Recurs


\* The function that recurs is there, on every finite set.
LEMMA SumRecurs ==
  ASSUME NEW f, NEW S, IsFiniteSet(S)
  PROVE  \E h : Recurs(f, S, h)
<1> DEFINE x(s) == CHOOSE y \in s : TRUE
           step(h, s) == IF s = {} THEN 0 ELSE f[x(s)] + h[s \ {x(s)}]
           Small(n) == {s \in SUBSET S : Cardinality(s) <= n}
           Good == {n \in Nat : \E h : h = [s \in Small(n) |-> step(h, s)]}
<1>1. \A s \in SUBSET S : IsFiniteSet(s) /\ Cardinality(s) \in Nat
  BY FS_Subset, FS_CardinalityType
<1>2. ASSUME NEW s \in SUBSET S, s # {} PROVE /\ x(s) \in s /\ s \ {x(s)} \in SUBSET S
                                              /\ Cardinality(s \ {x(s)}) = Cardinality(s) - 1
  <2>1. x(s) \in s
    BY <1>2
  <2> HIDE DEF x
  <2> QED BY <1>1, <2>1, FS_RemoveElement
<1>3. 0 \in Good
  <2>1. \A s \in Small(0) : s = {}
    BY <1>1, FS_EmptySet
  <2> DEFINE h == [s \in Small(0) |-> 0]
  <2>2. h = [s \in Small(0) |-> step(h, s)]
    BY <2>1
  <2> QED BY <2>2
<1>4. ASSUME NEW n \in Nat, n \in Good PROVE n + 1 \in Good
  <2>1. PICK h : h = [s \in Small(n) |-> step(h, s)]
    BY <1>4
  <2> DEFINE g == [s \in Small(n + 1) |-> step(h, s)]
  <2>2. ASSUME NEW s \in Small(n + 1), s # {} PROVE s \ {x(s)} \in Small(n) /\ s \ {x(s)} \in Small(n + 1)
    <3> HIDE DEF x
    <3> QED BY <1>1, <1>2, <2>2
  <2>3. ASSUME NEW s \in Small(n) PROVE s \in Small(n + 1) /\ h[s] = step(h, s) /\ g[s] = h[s]
    <3>1. s \in Small(n + 1)
      BY <1>1
    <3>2. h[s] = step(h, s)
      <4> HIDE DEF step, Small
      <4> QED BY <2>1
    <3> HIDE DEF step, Small
    <3> QED BY <3>1, <3>2
  <2>4. ASSUME NEW s \in Small(n + 1) PROVE step(h, s) = step(g, s)
    <3>1. CASE s = {}
      BY <3>1
    <3>2. CASE s # {}
      <4>1. g[s \ {x(s)}] = h[s \ {x(s)}]
        <5> HIDE DEF g, Small, x
        <5> QED BY <2>2, <2>3, <3>2
      <4> HIDE DEF g, Small, x
      <4> QED BY <3>2, <4>1
    <3> QED BY <3>1, <3>2
  <2>5. g = [s \in Small(n + 1) |-> step(g, s)]
    <3> HIDE DEF step, Small
    <3> QED BY <2>4
  <2> HIDE DEF g, step, Small
  <2> QED BY <2>5
<1>5. \A n \in Nat : n \in Good
  <2> HIDE DEF Good
  <2> QED BY <1>3, <1>4, UpFrom0
<1>6. \A s \in SUBSET S : Cardinality(s) <= Cardinality(S)
  BY FS_Subset
<1>7. Small(Cardinality(S)) = SUBSET S /\ Cardinality(S) \in Nat
  BY <1>1, <1>6
<1>8. PICK h : h = [s \in Small(Cardinality(S)) |-> step(h, s)]
  <2> HIDE DEF step, Small
  <2> QED BY <1>5, <1>7
<1>9. h = [s \in SUBSET S |-> step(h, s)]
  <2> HIDE DEF step, Small
  <2> QED BY <1>7, <1>8
<1> QED BY <1>9 DEF Recurs

\* Functions that recur on two sets agree on the subsets of both.
LEMMA RecursAgree ==
  ASSUME NEW f, NEW S, NEW T \in SUBSET S, IsFiniteSet(S), NEW h, Recurs(f, S, h), NEW g, Recurs(f, T, g)
  PROVE  h[T] = g[T]
<1> DEFINE x(s) == CHOOSE y \in s : TRUE
           Good == {n \in Nat : \A U \in SUBSET T : Cardinality(U) <= n => h[U] = g[U]}
<1>1. ASSUME NEW U \in SUBSET T PROVE IsFiniteSet(U) /\ Cardinality(U) \in Nat
  <2>1. U \in SUBSET S
    OBVIOUS
  <2> QED BY <2>1, FS_Subset, FS_CardinalityType
<1>2. /\ h[{}] = 0 /\ g[{}] = 0
      /\ \A U \in SUBSET T : U # {} => h[U] = f[x(U)] + h[U \ {x(U)}] /\ g[U] = f[x(U)] + g[U \ {x(U)}]
  BY DEF Recurs
<1>3. 0 \in Good
  <2>1. \A U \in SUBSET T : Cardinality(U) <= 0 => U = {}
    BY <1>1, FS_EmptySet
  <2> QED BY <1>2, <2>1
<1>4. ASSUME NEW n \in Nat, n \in Good PROVE n + 1 \in Good
  <2> SUFFICES ASSUME NEW U \in SUBSET T, Cardinality(U) <= n + 1 PROVE h[U] = g[U]
    OBVIOUS
  <2>1. CASE U = {}
    BY <1>2, <2>1
  <2>2. CASE U # {}
    <3>1. x(U) \in U
      BY <2>2
    <3> HIDE DEF x
    <3>2. U \ {x(U)} \in SUBSET T /\ Cardinality(U \ {x(U)}) = Cardinality(U) - 1
      BY <1>1, <3>1, FS_RemoveElement
    <3>3. h[U \ {x(U)}] = g[U \ {x(U)}]
      BY <1>1, <1>4, <3>2
    <3> QED BY <1>2, <2>2, <3>3
  <2> QED BY <2>1, <2>2
<1>5. Cardinality(T) \in Good
  <2> HIDE DEF Good
  <2> QED BY <1>1, <1>3, <1>4, UpFrom0
<1> QED BY <1>1, <1>5

LEMMA SumOfNone == \A f : Sigma(f, {}) = 0
<1> SUFFICES ASSUME NEW f PROVE Sigma(f, {}) = 0
  OBVIOUS
<1>1. PICK h : Recurs(f, {}, h)
  BY SumRecurs, FS_EmptySet
<1> QED BY <1>1, SumIs DEF Recurs

\* Sigma() adds up one element and the rest.
LEMMA SumStep ==
  ASSUME NEW f, NEW S, IsFiniteSet(S), S # {}
  PROVE  \E x \in S : Sigma(f, S) = f[x] + Sigma(f, S \ {x})
<1> DEFINE x == CHOOSE y \in S : TRUE
           h == CHOOSE k : Recurs(f, S, k)
           g == CHOOSE k : Recurs(f, S \ {x}, k)
<1>1. IsFiniteSet(S \ {x}) /\ S \ {x} \in SUBSET S
  BY FS_Subset
<1>2. Recurs(f, S, h) /\ Recurs(f, S \ {x}, g)
  BY <1>1, SumRecurs
<1>3. h[S \ {x}] = g[S \ {x}]
  <2> HIDE DEF g, h, x
  <2> QED BY <1>1, <1>2, RecursAgree
<1>4. h[S] = f[x] + h[S \ {x}]
  <2> HIDE DEF h
  <2> QED BY <1>2 DEF Recurs
<1>5. Sigma(f, S) = h[S] /\ Sigma(f, S \ {x}) = g[S \ {x}]
  BY SumIs
<1> QED BY <1>3, <1>4, <1>5

\* A sum of integers is one, and any element may be taken out.
LEMMA SumOfInts ==
  ASSUME NEW S, IsFiniteSet(S), NEW f, \A x \in S : f[x] \in Int
  PROVE  /\ Sigma(f, S) \in Int
         /\ \A x \in S : Sigma(f, S) = f[x] + Sigma(f, S \ {x})
<1> DEFINE Fine(T) == /\ Sigma(f, T) \in Int
                      /\ \A x \in T : Sigma(f, T) = f[x] + Sigma(f, T \ {x})
           Good == {n \in Nat : \A T \in SUBSET S : Cardinality(T) <= n => Fine(T)}
<1>1. ASSUME NEW T \in SUBSET S PROVE IsFiniteSet(T) /\ Cardinality(T) \in Nat
  BY FS_Subset, FS_CardinalityType
<1>2. Fine({})
  BY SumOfNone
<1>3. 0 \in Good
  <2>1. \A T \in SUBSET S : Cardinality(T) <= 0 => T = {}
    BY <1>1, FS_EmptySet
  <2> HIDE DEF Fine
  <2> QED BY <1>2, <2>1
<1>4. ASSUME NEW n \in Nat, n \in Good PROVE n + 1 \in Good
  <2> SUFFICES ASSUME NEW T \in SUBSET S, Cardinality(T) <= n + 1 PROVE Fine(T)
    OBVIOUS
  <2>1. CASE T = {}
    BY <1>2, <2>1
  <2>2. CASE T # {}
    <3>1. ASSUME NEW y \in T PROVE T \ {y} \in SUBSET S /\ Fine(T \ {y})
      <4>1. T \ {y} \in SUBSET S /\ Cardinality(T \ {y}) = Cardinality(T) - 1
        BY <1>1, FS_RemoveElement
      <4>2. Cardinality(T \ {y}) <= n
        BY <1>1, <4>1
      <4> HIDE DEF Fine
      <4> QED BY <1>4, <4>1, <4>2
    <3>2. PICK c \in T : Sigma(f, T) = f[c] + Sigma(f, T \ {c})
      BY <1>1, <2>2, SumStep
    <3>3. ASSUME NEW y \in T, y # c PROVE Sigma(f, T) = f[y] + Sigma(f, T \ {y})
      <4> DEFINE U == (T \ {c}) \ {y}
      <4>1. Sigma(f, T \ {c}) = f[y] + Sigma(f, U)
        BY <3>1, <3>3
      <4>2. (T \ {y}) \ {c} = U
        OBVIOUS
      <4>3. Sigma(f, T \ {y}) = f[c] + Sigma(f, U) /\ Sigma(f, U) \in Int
        <5>1. U = (T \ {y}) \ {c} /\ c \in T \ {y} /\ y \in T \ {c}
          BY <3>3
        <5>2. U \in SUBSET S /\ Cardinality(U) = Cardinality(T) - 2
          <6>1. IsFiniteSet(T) /\ IsFiniteSet(T \ {y}) /\ T \ {y} \in SUBSET S
            BY <1>1, <3>1
          <6>2. Cardinality(T \ {y}) = Cardinality(T) - 1
            BY <6>1, FS_RemoveElement
          <6>3. Cardinality((T \ {y}) \ {c}) = Cardinality(T \ {y}) - 1
            BY <5>1, <6>1, FS_RemoveElement
          <6>4. Cardinality(T) \in Nat /\ U \in SUBSET S
            BY <1>1
          <6> HIDE DEF U
          <6> QED BY <5>1, <6>2, <6>3, <6>4
        <5>3. Cardinality(U) <= n
          BY <1>1, <5>2
        <5>4. Fine(U)
          <6> HIDE DEF Fine, U
          <6> QED BY <1>4, <5>2, <5>3
        <5> HIDE DEF U
        <5> QED BY <3>1, <5>1, <5>4
      <4>4. f[y] \in Int /\ f[c] \in Int
        OBVIOUS
      <4> HIDE DEF U
      <4> QED BY <3>2, <4>1, <4>3, <4>4
    <3>4. Sigma(f, T) \in Int
      <4>1. Sigma(f, T \ {c}) \in Int /\ f[c] \in Int
        BY <3>1
      <4> QED BY <3>2, <4>1
    <3> QED BY <3>2, <3>3, <3>4
  <2> QED BY <2>1, <2>2
<1>5. Cardinality(S) \in Good
  <2> HIDE DEF Good
  <2> QED BY <1>1, <1>3, <1>4, UpFrom0
<1>6. Fine(S)
  <2> HIDE DEF Fine
  <2> QED BY <1>1, <1>5
<1> QED BY <1>6

LEMMA SumWith ==
  ASSUME NEW S, IsFiniteSet(S), NEW x, x \notin S, NEW f, \A y \in S \cup {x} : f[y] \in Int
  PROVE  Sigma(f, S \cup {x}) = f[x] + Sigma(f, S)
<1> DEFINE T == S \cup {x}
<1>1. IsFiniteSet(T) /\ x \in T /\ T \ {x} = S
  BY FS_AddElement
<1> QED BY <1>1, SumOfInts

\* Functions that agree on a set have the same sum there.
LEMMA SumAgrees ==
  ASSUME NEW S, IsFiniteSet(S), NEW f, NEW g, \A x \in S : f[x] \in Int /\ f[x] = g[x]
  PROVE  Sigma(f, S) = Sigma(g, S)
<1> DEFINE Good == {T \in SUBSET S : Sigma(f, T) = Sigma(g, T)}
<1>1. {} \in Good
  BY SumOfNone
<1>2. ASSUME NEW T \in SUBSET S, NEW x \in S \ T, T \in Good PROVE T \cup {x} \in Good
  <2>1. IsFiniteSet(T) /\ \A y \in T \cup {x} : f[y] \in Int /\ g[y] \in Int
    BY FS_Subset
  <2>2. Sigma(f, T \cup {x}) = f[x] + Sigma(f, T) /\ Sigma(g, T \cup {x}) = g[x] + Sigma(g, T)
    BY <2>1, SumWith
  <2> QED BY <1>2, <2>2
<1>3. S \in Good
  <2> HIDE DEF Good
  <2> QED BY <1>1, <1>2, Subsets
<1> QED BY <1>3

\* A function that is nowhere greater has no greater sum.
LEMMA SumGrows ==
  ASSUME NEW S, IsFiniteSet(S), NEW f, NEW g,
         \A x \in S : f[x] \in Int /\ g[x] \in Int /\ f[x] <= g[x]
  PROVE  Sigma(f, S) <= Sigma(g, S)
<1> DEFINE Good == {T \in SUBSET S : Sigma(f, T) <= Sigma(g, T)}
<1>1. {} \in Good
  BY SumOfNone
<1>2. ASSUME NEW T \in SUBSET S, NEW x \in S \ T, T \in Good PROVE T \cup {x} \in Good
  <2>1. IsFiniteSet(T) /\ \A y \in T \cup {x} : f[y] \in Int /\ g[y] \in Int
    BY FS_Subset
  <2>2. Sigma(f, T \cup {x}) = f[x] + Sigma(f, T) /\ Sigma(g, T \cup {x}) = g[x] + Sigma(g, T)
    BY <2>1, SumWith
  <2>3. Sigma(f, T) \in Int /\ Sigma(g, T) \in Int /\ Sigma(f, T) <= Sigma(g, T)
    BY <1>2, <2>1, SumOfInts
  <2> QED BY <2>1, <2>2, <2>3
<1>3. S \in Good
  <2> HIDE DEF Good
  <2> QED BY <1>1, <1>2, Subsets
<1> QED BY <1>3

\* The sum over two sets with nothing in common.
LEMMA SumOfBoth ==
  ASSUME NEW S, IsFiniteSet(S), NEW T, IsFiniteSet(T), S \cap T = {}, NEW f,
         \A x \in S \cup T : f[x] \in Int
  PROVE  Sigma(f, S \cup T) = Sigma(f, S) + Sigma(f, T)
<1> DEFINE Good == {U \in SUBSET T : Sigma(f, S \cup U) = Sigma(f, S) + Sigma(f, U)}
<1>0. Sigma(f, S) \in Int
  BY SumOfInts
<1>1. {} \in Good
  <2>1. S \cup {} = S
    OBVIOUS
  <2> QED BY <1>0, <2>1, SumOfNone
<1>2. ASSUME NEW U \in SUBSET T, NEW x \in T \ U, U \in Good PROVE U \cup {x} \in Good
  <2>1. IsFiniteSet(U) /\ IsFiniteSet(S \cup U)
    BY FS_Subset, FS_Union
  <2>2. x \notin S \cup U /\ S \cup (U \cup {x}) = (S \cup U) \cup {x} /\ f[x] \in Int
    OBVIOUS
  <2>3. Sigma(f, (S \cup U) \cup {x}) = f[x] + Sigma(f, S \cup U)
    BY <2>1, <2>2, SumWith
  <2>4. Sigma(f, U \cup {x}) = f[x] + Sigma(f, U) /\ Sigma(f, U) \in Int
    BY <2>1, <2>2, SumWith, SumOfInts
  <2>5. Sigma(f, S \cup U) = Sigma(f, S) + Sigma(f, U)
    BY <1>2
  <2>6. Sigma(f, S \cup (U \cup {x})) = f[x] + Sigma(f, S \cup U)
    BY <2>2, <2>3
  <2>7. f[x] + (Sigma(f, S) + Sigma(f, U)) = Sigma(f, S) + (f[x] + Sigma(f, U))
    BY <1>0, <2>2, <2>4
  <2>8. Sigma(f, S \cup (U \cup {x})) = Sigma(f, S) + Sigma(f, U \cup {x})
    BY <2>4, <2>5, <2>6, <2>7
  <2> QED BY <2>8
<1>3. T \in Good
  <2> HIDE DEF Good
  <2> QED BY <1>1, <1>2, Subsets
<1> QED BY <1>3

\* The sum of two functions.
LEMMA SumOfSums ==
  ASSUME NEW S, IsFiniteSet(S), NEW f, NEW g, NEW h,
         \A x \in S : f[x] \in Int /\ g[x] \in Int /\ h[x] = f[x] + g[x]
  PROVE  Sigma(h, S) = Sigma(f, S) + Sigma(g, S)
<1> DEFINE Good == {T \in SUBSET S : Sigma(h, T) = Sigma(f, T) + Sigma(g, T)}
<1>1. {} \in Good
  BY SumOfNone
<1>2. ASSUME NEW T \in SUBSET S, NEW x \in S \ T, T \in Good PROVE T \cup {x} \in Good
  <2>1. IsFiniteSet(T) /\ \A y \in T \cup {x} : f[y] \in Int /\ g[y] \in Int /\ h[y] \in Int
    BY FS_Subset
  <2>2. /\ Sigma(f, T \cup {x}) = f[x] + Sigma(f, T)
        /\ Sigma(g, T \cup {x}) = g[x] + Sigma(g, T)
        /\ Sigma(h, T \cup {x}) = h[x] + Sigma(h, T)
    BY <2>1, SumWith
  <2>3. Sigma(f, T) \in Int /\ Sigma(g, T) \in Int /\ Sigma(h, T) = Sigma(f, T) + Sigma(g, T)
    BY <1>2, <2>1, SumOfInts
  <2>4. h[x] = f[x] + g[x] /\ f[x] \in Int /\ g[x] \in Int
    OBVIOUS
  <2>5. Sigma(h, T \cup {x}) = Sigma(f, T \cup {x}) + Sigma(g, T \cup {x})
    BY <2>2, <2>3, <2>4
  <2> QED BY <2>5
<1>3. S \in Good
  <2> HIDE DEF Good
  <2> QED BY <1>1, <1>2, Subsets
<1> QED BY <1>3

\* A sum of natural numbers is one, and no smaller than that of a part.
LEMMA SumOfNats ==
  ASSUME NEW S, IsFiniteSet(S), NEW f, \A x \in S : f[x] \in Nat
  PROVE  /\ Sigma(f, S) \in Nat
         /\ \A x \in S : f[x] <= Sigma(f, S)
         /\ \A T \in SUBSET S : Sigma(f, T) \in Nat /\ Sigma(f, T) <= Sigma(f, S)
<1> DEFINE Good == {T \in SUBSET S : Sigma(f, T) \in Nat}
<1>0. \A T \in SUBSET S : IsFiniteSet(T)
  BY FS_Subset
<1>1. {} \in Good
  BY SumOfNone
<1>2. ASSUME NEW T \in SUBSET S, NEW x \in S \ T, T \in Good PROVE T \cup {x} \in Good
  <2>1. \A y \in T \cup {x} : f[y] \in Int
    OBVIOUS
  <2>2. Sigma(f, T \cup {x}) = f[x] + Sigma(f, T)
    BY <1>0, <2>1, SumWith
  <2> QED BY <1>2, <2>2
<1>3. ASSUME NEW T \in SUBSET S PROVE Sigma(f, T) \in Nat
  <2>1. \A U \in SUBSET T : \A x \in T \ U : U \in Good => U \cup {x} \in Good
    BY <1>2
  <2>2. T \in Good
    <3> HIDE DEF Good
    <3> QED BY <1>0, <1>1, <2>1, Subsets
  <2> QED BY <2>2
<1>4. ASSUME NEW T \in SUBSET S PROVE Sigma(f, T) <= Sigma(f, S)
  <2>1. S = T \cup (S \ T) /\ T \cap (S \ T) = {} /\ S \ T \in SUBSET S
    OBVIOUS
  <2>2. Sigma(f, T \cup (S \ T)) = Sigma(f, T) + Sigma(f, S \ T)
    BY <1>0, <2>1, SumOfBoth
  <2>3. Sigma(f, T) \in Nat /\ Sigma(f, S \ T) \in Nat
    BY <1>3
  <2>4. Sigma(f, S) = Sigma(f, T) + Sigma(f, S \ T)
    BY <2>1, <2>2
  <2> QED BY <2>3, <2>4
<1>5. ASSUME NEW x \in S PROVE f[x] <= Sigma(f, S)
  <2>1. Sigma(f, S) = f[x] + Sigma(f, S \ {x}) /\ Sigma(f, S \ {x}) \in Nat
    BY <1>3, SumOfInts
  <2> QED BY <2>1
<1> QED BY <1>3, <1>4, <1>5

ByClass(f, S, c, I) == [i \in I |-> Sigma(f, {x \in S : c[x] = i})]

\* A sum is the sum over the classes that c sorts S into.
LEMMA SumByClass ==
  ASSUME NEW S, IsFiniteSet(S), NEW I, IsFiniteSet(I), NEW c, \A x \in S : c[x] \in I,
         NEW f, \A x \in S : f[x] \in Int
  PROVE  Sigma(ByClass(f, S, c, I), I) = Sigma(f, S)
<1> DEFINE g == [i \in I |-> Sigma(f, {x \in S : c[x] = i})]
           In(J) == {x \in S : c[x] \in J}
           Good == {J \in SUBSET I : Sigma(g, J) = Sigma(f, In(J))}
<1>1. {} \in Good
  <2>1. In({}) = {}
    OBVIOUS
  <2> QED BY <2>1, SumOfNone
<1>2. \A T \in SUBSET S : IsFiniteSet(T) /\ Sigma(f, T) \in Int
  BY FS_Subset, SumOfInts
<1>0. \A i \in I : g[i] = Sigma(f, {x \in S : c[x] = i})
  OBVIOUS
<1> HIDE DEF g
<1>3. \A i \in I : g[i] \in Int
  BY <1>0, <1>2
<1>4. ASSUME NEW J \in SUBSET I, NEW i \in I \ J, J \in Good PROVE J \cup {i} \in Good
  <2> DEFINE C == {x \in S : c[x] = i}
  <2>1. IsFiniteSet(J) /\ \A j \in J \cup {i} : g[j] \in Int
    BY <1>3, FS_Subset
  <2>2. Sigma(g, J \cup {i}) = g[i] + Sigma(g, J)
    BY <2>1, SumWith
  <2>3. In(J \cup {i}) = In(J) \cup C /\ In(J) \cap C = {} /\ In(J) \in SUBSET S /\ C \in SUBSET S
    OBVIOUS
  <2>4. g[i] = Sigma(f, C) /\ Sigma(g, J) = Sigma(f, In(J))
    BY <1>0, <1>4
  <2> HIDE DEF In, C
  <2>5. \A x \in In(J) \cup C : f[x] \in Int
    BY <2>3
  <2>6. Sigma(f, In(J) \cup C) = Sigma(f, In(J)) + Sigma(f, C)
    BY <1>2, <2>3, <2>5, SumOfBoth
  <2>7. Sigma(f, In(J)) \in Int /\ Sigma(f, C) \in Int
    BY <1>2, <2>3
  <2>8. Sigma(f, C) + Sigma(f, In(J)) = Sigma(f, In(J)) + Sigma(f, C)
    BY <2>7
  <2>9. Sigma(g, J \cup {i}) = Sigma(f, In(J \cup {i}))
    BY <2>2, <2>3, <2>4, <2>6, <2>8
  <2> QED BY <2>9
<1>5. I \in Good
  <2> HIDE DEF Good
  <2> QED BY <1>1, <1>4, Subsets
<1>6. In(I) = S
  OBVIOUS
<1>7. Sigma(g, I) = Sigma(f, S)
  <2> HIDE DEF In
  <2> QED BY <1>5, <1>6
<1> QED BY <1>7 DEF g, ByClass

\* What adds up to nothing.
LEMMA SumOfZeros ==
  ASSUME NEW S, IsFiniteSet(S), NEW f, \A x \in S : f[x] = 0
  PROVE  Sigma(f, S) = 0
<1> DEFINE Good == {T \in SUBSET S : Sigma(f, T) = 0}
<1>1. {} \in Good
  BY SumOfNone
<1>2. ASSUME NEW T \in SUBSET S, NEW x \in S \ T, T \in Good PROVE T \cup {x} \in Good
  <2>1. IsFiniteSet(T) /\ \A y \in T \cup {x} : f[y] \in Int
    BY FS_Subset
  <2>2. Sigma(f, T \cup {x}) = f[x] + Sigma(f, T)
    BY <2>1, SumWith
  <2> QED BY <1>2, <2>2
<1>3. S \in Good
  <2> HIDE DEF Good
  <2> QED BY <1>1, <1>2, Subsets
<1> QED BY <1>3

\* No image has more elements than the set.
LEMMA ImageIsNoLarger ==
  ASSUME NEW S, IsFiniteSet(S), NEW f
  PROVE  /\ IsFiniteSet({f[x] : x \in S}) /\ Cardinality({f[x] : x \in S}) \in Nat
         /\ Cardinality({f[x] : x \in S}) <= Cardinality(S)
<1> DEFINE Image(T) == {f[x] : x \in T}
           Good == {T \in SUBSET S : Cardinality(Image(T)) <= Cardinality(T)}
<1>0. \A T \in SUBSET S : IsFiniteSet(T) /\ Cardinality(T) \in Nat /\ IsFiniteSet(Image(T)) /\ Cardinality(Image(T)) \in Nat
  <2> SUFFICES ASSUME NEW T \in SUBSET S
               PROVE  IsFiniteSet(T) /\ Cardinality(T) \in Nat /\ IsFiniteSet(Image(T)) /\ Cardinality(Image(T)) \in Nat
    OBVIOUS
  <2>1. IsFiniteSet(T)
    BY FS_Subset
  <2>2. IsFiniteSet(Image(T))
    BY <2>1, ImageIsFinite
  <2> HIDE DEF Image
  <2> QED BY <2>1, <2>2, FS_CardinalityType
<1>1. {} \in Good
  <2>1. Image({}) = {}
    OBVIOUS
  <2>2. Cardinality({}) = 0
    BY FS_EmptySet
  <2> HIDE DEF Image
  <2> QED BY <2>1, <2>2
<1>2. ASSUME NEW T \in SUBSET S, NEW x \in S \ T, T \in Good PROVE T \cup {x} \in Good
  <2>1. Image(T \cup {x}) = Image(T) \cup {f[x]}
    OBVIOUS
  <2> HIDE DEF Image
  <2>2. Cardinality(T \cup {x}) = Cardinality(T) + 1 /\ T \cup {x} \in SUBSET S
    BY <1>0, FS_AddElement
  <2>3. Cardinality(Image(T) \cup {f[x]}) <= Cardinality(Image(T)) + 1
    <3>1. CASE f[x] \in Image(T)
      <4>1. Image(T) \cup {f[x]} = Image(T)
        BY <3>1
      <4>2. Cardinality(Image(T)) \in Nat
        BY <1>0
      <4> QED BY ONLY <4>1, <4>2
    <3>2. CASE f[x] \notin Image(T)
      <4>1. IsFiniteSet(Image(T)) /\ Cardinality(Image(T)) \in Nat
        BY <1>0
      <4>2. Cardinality(Image(T) \cup {f[x]}) = Cardinality(Image(T)) + 1
        BY <3>2, <4>1, FS_AddElement
      <4> QED BY ONLY <4>1, <4>2
    <3> QED BY <3>1, <3>2
  <2>4. Cardinality(Image(T)) <= Cardinality(T)
    BY <1>2
  <2>5. Cardinality(Image(T \cup {x})) <= Cardinality(T \cup {x})
    BY <1>0, <2>1, <2>2, <2>3, <2>4
  <2> QED BY <2>2, <2>5
<1>3. S \in Good
  <2> HIDE DEF Good
  <2> QED BY <1>1, <1>2, Subsets
<1> QED BY <1>0, <1>3

\* A finite set with no more than one element
LEMMA AtMostOne ==
  ASSUME NEW S, IsFiniteSet(S), ~ (Cardinality(S) > 1), NEW x \in S, NEW y \in S
  PROVE  x = y
<1> SUFFICES ASSUME x # y PROVE FALSE
  OBVIOUS
<1>1. {x, y} \in SUBSET S
  OBVIOUS
<1>2. IsFiniteSet({x}) /\ Cardinality({x}) = 1 /\ y \notin {x} /\ {x} \cup {y} = {x, y}
  BY FS_Singleton
<1>3. Cardinality({x} \cup {y}) = 1 + 1
  BY <1>2, FS_AddElement
<1>4. Cardinality({x, y}) = 2
  BY <1>2, <1>3
<1>5. Cardinality(S) \in Nat /\ Cardinality({x, y}) <= Cardinality(S)
  BY <1>1, FS_Subset, FS_CardinalityType
<1> QED BY <1>4, <1>5

\* A sum of zeros and ones counts the ones.
LEMMA SumOfOnes ==
  ASSUME NEW S, IsFiniteSet(S), NEW f, \A x \in S : f[x] \in {0, 1}
  PROVE  Sigma(f, S) = Cardinality({x \in S : f[x] = 1})
<1> DEFINE Ones(T) == {x \in T : f[x] = 1}
           Good == {T \in SUBSET S : Sigma(f, T) = Cardinality(Ones(T))}
<1>1. {} \in Good
  <2>1. Ones({}) = {}
    OBVIOUS
  <2> QED BY <2>1, SumOfNone, FS_EmptySet
<1>2. ASSUME NEW T \in SUBSET S, NEW x \in S \ T, T \in Good PROVE T \cup {x} \in Good
  <2>1. IsFiniteSet(T) /\ \A y \in T \cup {x} : f[y] \in Int
    BY FS_Subset
  <2>2. Sigma(f, T \cup {x}) = f[x] + Sigma(f, T)
    BY <2>1, SumWith
  <2>3. Ones(T) \in SUBSET T
    OBVIOUS
  <2>4. IsFiniteSet(Ones(T))
    <3> HIDE DEF Ones
    <3> QED BY <2>1, <2>3, FS_Subset
  <2>5. Cardinality(Ones(T)) \in Nat /\ Cardinality(Ones(T) \cup {x}) = Cardinality(Ones(T)) + 1
    <3>1. x \notin Ones(T)
      OBVIOUS
    <3> HIDE DEF Ones
    <3> QED BY <2>4, <3>1, FS_AddElement, FS_CardinalityType
  <2>6. Ones(T \cup {x}) = IF f[x] = 1 THEN Ones(T) \cup {x} ELSE Ones(T)
    OBVIOUS
  <2>7. Sigma(f, T) = Cardinality(Ones(T)) /\ f[x] \in {0, 1}
    BY <1>2
  <2>8. Sigma(f, T \cup {x}) = Cardinality(Ones(T \cup {x}))
    <3> HIDE DEF Ones, Good
    <3> QED BY <2>2, <2>5, <2>6, <2>7
  <2> HIDE DEF Ones
  <2> QED BY <1>2, <2>8
<1>3. S \in Good
  <2> HIDE DEF Good
  <2> QED BY <1>1, <1>2, Subsets
<1> QED BY <1>3

-----------------------------------------------------------------------------
(* The places of a finite set's elements in an order *)

StrictOrder(R, S) ==
  /\ \A x \in S : <<x, x>> \notin R
  /\ \A x, y \in S : x # y => <<x, y>> \in R \/ <<y, x>> \in R
  /\ \A x, y, z \in S : <<x, y>> \in R /\ <<y, z>> \in R => <<x, z>> \in R

\* How many of S are before t
Place(R, S, t) == Cardinality({u \in S : <<u, t>> \in R})

LEMMA PlacesAre ==
  ASSUME NEW S, IsFiniteSet(S), NEW R, StrictOrder(R, S)
  PROVE  /\ Cardinality(S) \in Nat
         /\ \A t \in S : Place(R, S, t) \in 0..(Cardinality(S) - 1)
         /\ \A t, u \in S : <<t, u>> \in R <=> Place(R, S, t) < Place(R, S, u)
         /\ \A t, u \in S : Place(R, S, t) = Place(R, S, u) => t = u
         /\ \A k \in 0..(Cardinality(S) - 1) : \E t \in S : Place(R, S, t) = k
<1> DEFINE B(t) == {u \in S : <<u, t>> \in R}
           n == Cardinality(S)
<1>1. n \in Nat
  BY FS_CardinalityType
<1>2. ASSUME NEW t \in S PROVE Place(R, S, t) = Cardinality(B(t)) /\ Place(R, S, t) \in 0..(n - 1) /\ IsFiniteSet(B(t))
  <2>1. B(t) \in SUBSET (S \ {t}) /\ B(t) \in SUBSET S
    BY DEF StrictOrder
  <2>2. IsFiniteSet(S \ {t}) /\ Cardinality(S \ {t}) = n - 1
    BY FS_RemoveElement
  <2>3. Place(R, S, t) = Cardinality(B(t))
    BY DEF Place
  <2> HIDE DEF B
  <2>4. IsFiniteSet(B(t)) /\ Cardinality(B(t)) \in Nat /\ Cardinality(B(t)) <= n - 1
    BY <2>1, <2>2, FS_Subset, FS_CardinalityType
  <2> QED BY <1>1, <2>3, <2>4
<1>3. ASSUME NEW t \in S, NEW u \in S, <<t, u>> \in R PROVE Place(R, S, t) < Place(R, S, u)
  <2>1. t \notin B(t) /\ B(t) \cup {t} \in SUBSET B(u)
    BY <1>3 DEF StrictOrder
  <2> HIDE DEF B
  <2>2. IsFiniteSet(B(t)) /\ IsFiniteSet(B(u))
    BY <1>2
  <2>3. Cardinality(B(t) \cup {t}) = Cardinality(B(t)) + 1
    BY <2>1, <2>2, FS_AddElement
  <2>4. Cardinality(B(t) \cup {t}) <= Cardinality(B(u))
    BY <2>1, <2>2, FS_Subset
  <2> QED BY <1>2, <2>3, <2>4
<1>4. ASSUME NEW t \in S, NEW u \in S PROVE /\ <<t, u>> \in R <=> Place(R, S, t) < Place(R, S, u)
                                            /\ Place(R, S, t) = Place(R, S, u) => t = u
  <2>1. t # u => <<t, u>> \in R \/ <<u, t>> \in R
    BY DEF StrictOrder
  <2>2. Place(R, S, t) \in Int /\ Place(R, S, u) \in Int
    <3> HIDE DEF B, n
    <3>1. Place(R, S, t) \in 0..(n - 1) /\ Place(R, S, u) \in 0..(n - 1)
      BY <1>2
    <3> QED BY <1>1, <3>1
  <2> QED BY <1>3, <2>1, <2>2
<1>5. ASSUME NEW k \in 0..(n - 1) PROVE \E t \in S : Place(R, S, t) = k
  <2> DEFINE f == [t \in S |-> Place(R, S, t)]
             T == 0..(n - 1)
  <2>1. IsFiniteSet(T) /\ Cardinality(T) = n
    BY <1>1, FS_Interval
  <2>2. f \in Injection(S, T)
    <3>1. f \in [S -> T] /\ DOMAIN f = S
      BY <1>2
    <3>2. \A t, u \in S : f[t] = f[u] => t = u
      BY <1>4
    <3> HIDE DEF f, T
    <3> QED BY <3>1, <3>2 DEF Injection, IsInjective
  <2> HIDE DEF f, T
  <2>3. f \in Surjection(S, T)
    BY <2>1, <2>2, FS_Injection
  <2> QED BY <2>3 DEF Surjection, f, T
<1> QED BY <1>1, <1>2, <1>4, <1>5

\* The first k of them are k.
LEMMA FirstOnes ==
  ASSUME NEW S, IsFiniteSet(S), NEW R, StrictOrder(R, S), NEW k \in 0..Cardinality(S)
  PROVE  Cardinality({t \in S : Place(R, S, t) < k}) = k
<1> DEFINE n == Cardinality(S)
           P(t) == Place(R, S, t)
           F == {t \in S : P(t) < k}
           f == [t \in F |-> P(t)]
           T == 0..(k - 1)
<1>1. n \in Nat /\ k \in Nat /\ k <= n
  BY FS_CardinalityType
<1>2. IsFiniteSet(T) /\ Cardinality(T) = k
  <2>1. 0 \in Int /\ k - 1 \in Int /\ (IF 0 > k - 1 THEN 0 ELSE k - 1 - 0 + 1) = k
    BY <1>1
  <2> QED BY <2>1, FS_Interval
<1>6. \A t \in S : P(t) \in 0..(n - 1) /\ \A u \in S : P(t) = P(u) => t = u
  BY PlacesAre
<1>3. f \in Injection(F, T)
  <2>1. f \in [F -> T] /\ DOMAIN f = F
    BY <1>1, <1>6
  <2>2. \A t, u \in F : f[t] = f[u] => t = u
    BY <1>6
  <2> HIDE DEF f, T, F
  <2> QED BY <2>1, <2>2 DEF Injection, IsInjective
<1>4. f \in Surjection(F, T)
  <2>1. \A m \in T : \E t \in F : f[t] = m
    <3> SUFFICES ASSUME NEW m \in T PROVE \E t \in F : f[t] = m
      OBVIOUS
    <3>1. m \in 0..(n - 1)
      BY <1>1
    <3>2. PICK t \in S : P(t) = m
      BY <3>1, PlacesAre
    <3> QED BY <1>1, <3>2
  <2> QED BY <1>3, <2>1 DEF Injection, Surjection
<1> HIDE DEF F, f, T
<1>5. IsFiniteSet(F) /\ Cardinality(F) = Cardinality(T)
  BY <1>2, <1>3, <1>4, FS_Injection
<1> QED BY <1>2, <1>5 DEF F

LEMMA SumScaled ==
  ASSUME NEW S, IsFiniteSet(S), NEW k \in Int, NEW f, NEW h, \A x \in S : f[x] \in Int /\ h[x] = k * f[x]
  PROVE  Sigma(h, S) = k * Sigma(f, S)
<1> DEFINE Good == {T \in SUBSET S : Sigma(h, T) = k * Sigma(f, T)}
<1>1. {} \in Good
  BY SumOfNone
<1>2. ASSUME NEW T \in SUBSET S, NEW x \in S \ T, T \in Good PROVE T \cup {x} \in Good
  <2>1. IsFiniteSet(T) /\ \A y \in T \cup {x} : f[y] \in Int /\ h[y] \in Int
    BY FS_Subset
  <2>2. Sigma(f, T \cup {x}) = f[x] + Sigma(f, T) /\ Sigma(h, T \cup {x}) = h[x] + Sigma(h, T)
    BY <2>1, SumWith
  <2>3. Sigma(f, T) \in Int /\ Sigma(h, T) = k * Sigma(f, T) /\ h[x] = k * f[x] /\ f[x] \in Int
    BY <1>2, <2>1, SumOfInts
  <2>4. \A a, b \in Int : k * (a + b) = k * a + k * b
    OBVIOUS
  <2>5. Sigma(h, T \cup {x}) = k * Sigma(f, T \cup {x})
    BY <2>2, <2>3, <2>4
  <2> QED BY <2>5
<1>3. S \in Good
  <2> HIDE DEF Good
  <2> QED BY <1>1, <1>2, Subsets
<1> QED BY <1>3

\* Of one
LEMMA SumOfOne ==
  ASSUME NEW f, NEW x, f[x] \in Int
  PROVE  Sigma(f, {x}) = f[x]
<1>1. IsFiniteSet({}) /\ {} \cup {x} = {x} /\ x \notin {} /\ \A y \in {} \cup {x} : f[y] \in Int
  BY FS_EmptySet
<1>2. Sigma(f, {} \cup {x}) = f[x] + Sigma(f, {})
  BY <1>1, SumWith
<1> QED BY <1>1, <1>2, SumOfNone

\* The same numbers under other names
LEMMA SumRenamed ==
  ASSUME NEW S, IsFiniteSet(S), NEW I, IsFiniteSet(I), NEW f, NEW g, NEW c,
         \A x \in S : c[x] \in I /\ f[x] \in Int /\ g[c[x]] = f[x],
         \A x, y \in S : c[x] = c[y] => x = y, \A i \in I : \E x \in S : c[x] = i
  PROVE  Sigma(g, I) = Sigma(f, S)
<1> DEFINE h == ByClass(f, S, c, I)
<1>1. Sigma(h, I) = Sigma(f, S)
  BY SumByClass
<1>2. ASSUME NEW i \in I PROVE g[i] = h[i] /\ g[i] \in Int
  <2>1. PICK x \in S : c[x] = i
    OBVIOUS
  <2>2. {y \in S : c[y] = i} = {x}
    BY <2>1
  <2>3. h[i] = Sigma(f, {y \in S : c[y] = i})
    BY DEF ByClass
  <2>4. Sigma(f, {x}) = f[x] /\ g[i] = f[x] /\ f[x] \in Int
    BY <2>1, SumOfOne
  <2> HIDE DEF h
  <2> QED BY <2>2, <2>3, <2>4
<1> HIDE DEF h
<1>3. Sigma(g, I) = Sigma(h, I)
  BY <1>2, SumAgrees
<1> QED BY <1>1, <1>3

-----------------------------------------------------------------------------
(* An amount in whole parts, by weight *)

WholeParts(total, w, n) == [i \in 1..n |-> (total * w[i]) \div Sigma(w, 1..n)]
Fraction(total, w, n) == [i \in 1..n |-> (total * w[i]) % Sigma(w, 1..n)]
Larger(f, n) == {p \in (1..n) \X (1..n) : f[p[1]] > f[p[2]] \/ (f[p[1]] = f[p[2]] /\ p[1] < p[2])}

LEMMA LargerOrders ==
  ASSUME NEW n \in Nat, NEW f, \A i \in 1..n : f[i] \in Int
  PROVE  /\ StrictOrder(Larger(f, n), 1..n)
         /\ \A i, j \in 1..n : <<i, j>> \in Larger(f, n) <=> f[i] > f[j] \/ (f[i] = f[j] /\ i < j)
<1>1. \A i, j \in 1..n : <<i, j>> \in Larger(f, n) <=> f[i] > f[j] \/ (f[i] = f[j] /\ i < j)
  BY DEF Larger
<1> HIDE DEF Larger
<1> QED BY <1>1 DEF StrictOrder

LEMMA Divided ==
  ASSUME NEW a \in Nat, NEW b \in Nat, b > 0
  PROVE  a \div b \in Nat /\ a % b \in Nat /\ a % b < b /\ a = b * (a \div b) + (a % b)
OBVIOUS

\* What is left after the whole parts is a part of the fractions that there are.
LEMMA PartsAre ==
  ASSUME NEW total \in Nat, NEW n \in Nat, NEW w, \A i \in 1..n : w[i] \in Nat, Sigma(w, 1..n) > 0
  PROVE  /\ \A i \in 1..n : WholeParts(total, w, n)[i] \in Nat /\ Fraction(total, w, n)[i] \in Nat
         /\ \A i \in 1..n : w[i] = 0 => WholeParts(total, w, n)[i] = 0 /\ Fraction(total, w, n)[i] = 0
         /\ Sigma(WholeParts(total, w, n), 1..n) \in Nat
         /\ Sigma(WholeParts(total, w, n), 1..n) <= total
         /\ total - Sigma(WholeParts(total, w, n), 1..n) <= Cardinality({i \in 1..n : Fraction(total, w, n)[i] > 0})
<1> DEFINE I == 1..n
           T == Sigma(w, I)
           p == WholeParts(total, w, n)
           f == Fraction(total, w, n)
           pos == [i \in I |-> IF f[i] > 0 THEN 1 ELSE 0]
           whole == [i \in I |-> T * p[i]]
           all == [i \in I |-> total * w[i]]
           most == [i \in I |-> T * pos[i]]
<1>0. IsFiniteSet(I) /\ T \in Nat /\ T > 0
  <2>1. IsFiniteSet(I)
    BY FS_Interval
  <2>2. T \in Nat
    <3>1. \A i \in I : w[i] \in Nat
      OBVIOUS
    <3> HIDE DEF I
    <3> QED BY <2>1, <3>1, SumOfNats
  <2> QED BY <2>1, <2>2
<1>2. ASSUME NEW i \in I PROVE all[i] \in Nat /\ p[i] = all[i] \div T /\ f[i] = all[i] % T
  BY DEF WholeParts, Fraction
<1> HIDE DEF p, f
<1>3. ASSUME NEW i \in I
      PROVE  p[i] \in Nat /\ f[i] \in Nat /\ f[i] < T /\ all[i] = T * p[i] + f[i]
  <2>1. all[i] \in Nat /\ p[i] = all[i] \div T /\ f[i] = all[i] % T
    BY <1>2
  <2> HIDE DEF all, T
  <2> QED BY <1>0, <2>1, Divided
<1>4. \A i \in I : w[i] = 0 => p[i] = 0 /\ f[i] = 0
  <2> SUFFICES ASSUME NEW i \in I, w[i] = 0 PROVE p[i] = 0 /\ f[i] = 0
    OBVIOUS
  <2>1. all[i] = 0
    OBVIOUS
  <2>2. 0 \div T = 0 /\ 0 % T = 0
    <3> HIDE DEF T
    <3> QED BY <1>0
  <2> HIDE DEF all, T
  <2> QED BY <1>2, <2>1, <2>2
<1>5. /\ \A i \in I : pos[i] \in {0, 1} /\ (pos[i] = 1 <=> f[i] > 0)
      /\ \A i \in I : whole[i] = T * p[i] /\ most[i] = T * pos[i] /\ all[i] = total * w[i]
  BY <1>3
<1>6. \A i \in I : whole[i] \in Int /\ most[i] \in Int /\ all[i] \in Int /\ all[i] = whole[i] + f[i] /\ f[i] <= most[i]
  <2> SUFFICES ASSUME NEW i \in I
               PROVE  whole[i] \in Int /\ most[i] \in Int /\ all[i] \in Int /\ all[i] = whole[i] + f[i] /\ f[i] <= most[i]
    OBVIOUS
  <2>1. T * 0 = 0 /\ T * 1 = T /\ T * p[i] \in Int
    <3> HIDE DEF T
    <3> QED BY <1>0, <1>3
  <2>2. pos[i] \in {0, 1} /\ (pos[i] = 1 <=> f[i] > 0) /\ whole[i] = T * p[i] /\ most[i] = T * pos[i]
    BY <1>5
  <2>3. all[i] \in Nat /\ p[i] \in Nat /\ f[i] \in Nat /\ f[i] < T /\ all[i] = T * p[i] + f[i]
    BY <1>2, <1>3
  <2> DEFINE tp == T * p[i]
             tq == T * pos[i]
  <2>4. tp \in Int /\ tq \in {0, T} /\ (tq = T <=> f[i] > 0) /\ whole[i] = tp /\ most[i] = tq /\ all[i] = tp + f[i]
    <3>1. f[i] > 0 => tq = T
      BY <2>1, <2>2
    <3>2. ~ (f[i] > 0) => tq = 0
      BY <2>1, <2>2
    <3> HIDE DEF pos, whole, most, all, T
    <3> QED BY <1>0, <2>1, <2>2, <2>3, <3>1, <3>2
  <2> HIDE DEF pos, whole, most, all, T, tp, tq
  <2> QED BY <1>0, <2>3, <2>4
<1>7. \A i \in I : w[i] \in Int
  OBVIOUS
<1>8. Cardinality({i \in I : f[i] > 0}) = Sigma(pos, I)
  <2>1. {i \in I : f[i] > 0} = {i \in I : pos[i] = 1}
    BY <1>5
  <2> HIDE DEF pos, I
  <2> QED BY <1>0, <1>5, <2>1, SumOfOnes
<1> HIDE DEF pos, whole, all, most, T, I
<1>9. Sigma(all, I) = total * Sigma(w, I)
  BY <1>0, <1>5, <1>7, SumScaled
<1>10. Sigma(whole, I) = T * Sigma(p, I)
  BY <1>0, <1>3, <1>5, SumScaled
<1>11. Sigma(most, I) = T * Sigma(pos, I)
  BY <1>0, <1>5, SumScaled
<1>12. Sigma(all, I) = Sigma(whole, I) + Sigma(f, I)
  <2>1. \A i \in I : whole[i] \in Int /\ f[i] \in Int /\ all[i] = whole[i] + f[i]
    BY <1>3, <1>6
  <2> QED BY <1>0, <2>1, SumOfSums
<1>13. Sigma(f, I) <= Sigma(most, I)
  BY <1>0, <1>3, <1>6, SumGrows
<1>14. Sigma(f, I) \in Nat /\ Sigma(p, I) \in Nat
  BY <1>0, <1>3, SumOfNats
<1>15. Sigma(pos, I) \in Nat
  BY <1>0, <1>5, SumOfNats
<1>16. ASSUME NEW t \in Nat, t > 0, NEW a \in Nat, NEW s \in Nat, NEW b \in Nat, NEW m \in Nat,
              a * t = t * s + b, b <= t * m
       PROVE  s <= a /\ a - s <= m
  <2>1. t * (a - s) = b
    BY <1>16
  <2>2. a - s >= 0
    <3>1. ASSUME a - s <= -1 PROVE FALSE
      <4>1. t * (a - s) <= t * (-1)
        BY <1>16, <3>1
      <4> QED BY <1>16, <2>1, <4>1
    <3> QED BY <3>1
  <2>3. a - s <= m
    <3>1. ASSUME a - s >= m + 1 PROVE FALSE
      <4>1. t * (a - s) >= t * (m + 1)
        BY <1>16, <3>1
      <4>2. t * (m + 1) = t * m + t
        BY <1>16
      <4> QED BY <1>16, <2>1, <4>1, <4>2
    <3> QED BY <3>1
  <2> QED BY <2>2, <2>3
<1>17. total * T = T * Sigma(p, I) + Sigma(f, I) /\ Sigma(f, I) <= T * Sigma(pos, I)
  BY <1>9, <1>10, <1>11, <1>12, <1>13 DEF T
<1>18. Sigma(p, I) <= total /\ total - Sigma(p, I) <= Sigma(pos, I)
  BY <1>0, <1>14, <1>15, <1>16, <1>17
<1> QED BY <1>3, <1>4, <1>8, <1>14, <1>18 DEF p, f, I

\* The parts rounded up are those of the largest fractions.
RoundUp(total, w, n, U) ==
  /\ U \in SUBSET (1..n)
  /\ Cardinality(U) = total - Sigma(WholeParts(total, w, n), 1..n)
  /\ \A i \in U, j \in (1..n) \ U :
       LET f == Fraction(total, w, n)
       IN  f[i] > f[j] \/ (f[i] = f[j] /\ i < j)

LEMMA RoundUpIs ==
  ASSUME NEW total \in Nat, NEW n \in Nat, NEW w, \A i \in 1..n : w[i] \in Nat, Sigma(w, 1..n) > 0
  PROVE  \E U : RoundUp(total, w, n, U)
<1> DEFINE f == Fraction(total, w, n)
           p == WholeParts(total, w, n)
           I == 1..n
           k == total - Sigma(p, I)
           R == Larger(f, n)
           U == {i \in I : Place(R, I, i) < k}
<1>1. \A i \in I : f[i] \in Nat
  BY PartsAre
<1>2. StrictOrder(R, I) /\ \A i, j \in I : <<i, j>> \in R <=> f[i] > f[j] \/ (f[i] = f[j] /\ i < j)
  <2>1. \A i \in 1..n : f[i] \in Int
    BY <1>1
  <2> HIDE DEF f
  <2> QED BY <2>1, LargerOrders
<1>3. IsFiniteSet(I) /\ Cardinality(I) \in Nat
  BY FS_Interval, FS_CardinalityType
<1>4. k \in 0..Cardinality(I)
  <2> DEFINE pos == {i \in I : f[i] > 0}
  <2>1. Sigma(p, I) \in Nat /\ Sigma(p, I) <= total /\ total - Sigma(p, I) <= Cardinality(pos)
    BY PartsAre
  <2>2. pos \in SUBSET I
    OBVIOUS
  <2> HIDE DEF pos, I, p
  <2>3. Cardinality(pos) <= Cardinality(I) /\ Cardinality(pos) \in Nat
    BY <1>3, <2>2, FS_Subset, FS_CardinalityType
  <2> QED BY <1>3, <2>1, <2>3
<1>5. U \in SUBSET I
  OBVIOUS
<1>6. Cardinality(U) = k
  <2> HIDE DEF I, R, k
  <2> QED BY <1>2, <1>3, <1>4, FirstOnes
<1>7. ASSUME NEW i \in U, NEW j \in I \ U PROVE f[i] > f[j] \/ (f[i] = f[j] /\ i < j)
  <2>1. i \in I /\ j \in I /\ Place(R, I, i) < k /\ ~ (Place(R, I, j) < k)
    OBVIOUS
  <2> HIDE DEF I, R, k, f
  <2>2. /\ Place(R, I, i) \in 0..(Cardinality(I) - 1) /\ Place(R, I, j) \in 0..(Cardinality(I) - 1)
        /\ (<<i, j>> \in R <=> Place(R, I, i) < Place(R, I, j))
    BY <1>2, <1>3, <2>1, PlacesAre
  <2>3. Place(R, I, i) < Place(R, I, j)
    BY <1>3, <1>4, <2>1, <2>2
  <2> QED BY <1>2, <2>1, <2>2, <2>3
<1> HIDE DEF U
<1>8. RoundUp(total, w, n, U)
  BY <1>5, <1>6, <1>7 DEF RoundUp, I, k, p, f
<1> QED BY <1>8

\* The parts add up to the amount, and what weighs nothing has none.
LEMMA SplitAddsUp ==
  ASSUME NEW total \in Nat, NEW n \in Nat, NEW w, \A i \in 1..n : w[i] \in Nat, Sigma(w, 1..n) > 0,
         NEW U, RoundUp(total, w, n, U),
         NEW s, \A i \in 1..n : s[i] = WholeParts(total, w, n)[i] + IF i \in U THEN 1 ELSE 0
  PROVE  /\ Sigma(s, 1..n) = total
         /\ \A i \in 1..n : s[i] \in 0..total /\ (w[i] = 0 => s[i] = 0)
<1> DEFINE f == Fraction(total, w, n)
           p == WholeParts(total, w, n)
           I == 1..n
           one == [i \in I |-> IF i \in U THEN 1 ELSE 0]
           pos == {i \in I : f[i] > 0}
<1>0. /\ \A i \in I : p[i] \in Nat /\ f[i] \in Nat
      /\ \A i \in I : w[i] = 0 => p[i] = 0 /\ f[i] = 0
      /\ Sigma(p, I) \in Nat /\ Sigma(p, I) <= total /\ total - Sigma(p, I) <= Cardinality(pos)
  BY PartsAre
<1>1. /\ U \in SUBSET I /\ Cardinality(U) = total - Sigma(p, I)
      /\ \A i \in U, j \in I \ U : f[i] > f[j] \/ (f[i] = f[j] /\ i < j)
  BY DEF RoundUp
<1>2. IsFiniteSet(I)
  BY FS_Interval
<1>3. \A i \in I : one[i] \in {0, 1} /\ (one[i] = 1 <=> i \in U) /\ s[i] = p[i] + one[i]
  OBVIOUS
<1>4. U = {i \in I : one[i] = 1}
  BY <1>1, <1>3
<1>5. ASSUME NEW i \in I, w[i] = 0 PROVE s[i] = 0
  <2>1. p[i] = 0 /\ f[i] = 0
    BY <1>0, <1>5
  <2>2. i \notin U
    <3> SUFFICES ASSUME i \in U PROVE FALSE
      OBVIOUS
    <3>1. ASSUME NEW j \in pos PROVE j \in U
      <4> SUFFICES ASSUME j \notin U PROVE FALSE
        OBVIOUS
      <4>1. j \in I \ U /\ f[j] > 0 /\ f[j] \in Nat
        BY <1>0
      <4>2. f[i] > f[j] \/ f[i] = f[j]
        BY <1>1, <4>1
      <4> HIDE DEF f
      <4> QED BY <2>1, <4>1, <4>2
    <3>2. pos \cup {i} \in SUBSET U /\ i \notin pos
      <4>1. i \notin pos
        BY <2>1
      <4> QED BY <3>1, <4>1
    <3>3. pos \in SUBSET I
      OBVIOUS
    <3> HIDE DEF pos, I, f, p
    <3>4. IsFiniteSet(U) /\ IsFiniteSet(pos) /\ Cardinality(pos) \in Nat /\ Cardinality(U) \in Nat
      BY <1>1, <1>2, <3>3, FS_Subset, FS_CardinalityType
    <3>5. Cardinality(pos \cup {i}) = Cardinality(pos) + 1
      BY <3>2, <3>4, FS_AddElement
    <3>6. Cardinality(pos \cup {i}) <= Cardinality(U)
      BY <3>2, <3>4, FS_Subset
    <3> QED BY <1>0, <1>1, <3>4, <3>5, <3>6
  <2>3. one[i] = 0 /\ s[i] = p[i] + one[i]
    BY <1>3, <2>2
  <2> HIDE DEF p, one, I
  <2> QED BY <2>1, <2>3
<1> HIDE DEF one, p, f, pos, I
<1>6. Sigma(one, I) = Cardinality(U)
  BY <1>2, <1>3, <1>4, SumOfOnes
<1>7. Sigma(s, I) = Sigma(p, I) + Sigma(one, I)
  <2>1. \A i \in I : p[i] \in Int /\ one[i] \in Int /\ s[i] = p[i] + one[i]
    BY <1>0, <1>3
  <2> QED BY <1>2, <2>1, SumOfSums
<1>8. Sigma(s, I) = total
  BY <1>0, <1>1, <1>6, <1>7
<1>9. \A i \in I : s[i] \in Nat
  BY <1>0, <1>3
<1>10. \A i \in I : s[i] <= Sigma(s, I)
  BY <1>2, <1>9, SumOfNats
<1>11. \A i \in I : s[i] \in 0..total
  BY <1>8, <1>9, <1>10
<1> QED BY <1>5, <1>8, <1>11 DEF I

-----------------------------------------------------------------------------
(* A sequence that has each element of a set once *)

Enumerates(q, D) ==
  /\ q \in Seq(D)
  /\ \A i, j \in 1..Len(q) : q[i] = q[j] => i = j
  /\ \A x \in D : \E i \in 1..Len(q) : q[i] = x

LEMMA ListIs ==
  ASSUME NEW D, IsFiniteSet(D), NEW q, Enumerates(q, D)
  PROVE  /\ Len(q) \in Nat /\ DOMAIN q = 1..Len(q) /\ Len(q) = Cardinality(D) /\ {q[i] : i \in 1..Len(q)} = D
         /\ q = <<>> <=> D = {}
         /\ D # {} => 1 \in 1..Len(q) /\ Head(q) = q[1] /\ Head(q) \in D
<1> DEFINE n == Len(q)
           I == 1..n
<1>1. q \in Seq(D) /\ n \in Nat /\ q \in [I -> D] /\ DOMAIN q = I
  BY DEF Enumerates
<1>2. q \in Injection(I, D)
  BY <1>1 DEF Enumerates, Injection, IsInjective
<1>3. q \in Surjection(I, D)
  BY <1>1 DEF Enumerates, Surjection
<1>4. Cardinality(I) = n /\ IsFiniteSet(I)
  <2>1. 1 \in Int /\ n \in Int /\ (IF 1 > n THEN 0 ELSE n - 1 + 1) = n
    BY <1>1
  <2> QED BY <2>1, FS_Interval
<1> HIDE DEF I
<1>5. Cardinality(D) = Cardinality(I)
  BY <1>2, <1>3, <1>4, FS_Injection
<1>6. {q[i] : i \in I} = D
  <2>1. \A x \in D : \E i \in I : q[i] = x
    BY DEF Enumerates, I
  <2>2. \A i \in I : q[i] \in D
    BY <1>1
  <2> QED BY <2>1, <2>2
<1>7. q = <<>> <=> n = 0
  BY <1>1
<1>8. D = {} <=> n = 0
  <2>1. CASE n = 0
    <3>1. I = {}
      BY <2>1 DEF I
    <3> QED BY <1>6, <2>1, <3>1
  <2>2. CASE n # 0
    <3>1. 1 \in I
      BY <1>1, <2>2 DEF I
    <3> QED BY <1>6, <2>2, <3>1
  <2> QED BY <2>1, <2>2
<1>9. ASSUME D # {} PROVE 1 \in I /\ Head(q) = q[1] /\ q[1] \in D
  <2>1. n # 0 /\ q # <<>>
    BY <1>7, <1>8, <1>9
  <2>2. 1 \in I
    BY <1>1, <2>1 DEF I
  <2>3. Head(q) = q[1]
    BY <1>1, <2>1
  <2> QED BY <1>1, <2>2, <2>3
<1> QED BY <1>1, <1>4, <1>5, <1>6, <1>7, <1>8, <1>9 DEF I

\* What is kept of a list is a list.
LEMMA KeptLists ==
  ASSUME NEW D, NEW q, Enumerates(q, D), NEW S
  PROVE  Enumerates(Kept(q, S), D \cap S)
<1> DEFINE r == Kept(q, S)
           P == Spots(q, S)
<1>1. q \in Seq(D) /\ Len(q) \in Nat
  BY DEF Enumerates
<1>2. /\ r \in Seq(D)
      /\ \A k \in 1..Len(r) : Nth(P, k) \in 1..Len(q) /\ q[Nth(P, k)] \in S /\ r[k] = q[Nth(P, k)]
      /\ \A k, l \in 1..Len(r) : k < l => Nth(P, k) < Nth(P, l)
      /\ \A i \in 1..Len(q) : q[i] \in S => \E k \in 1..Len(r) : r[k] = q[i]
  BY <1>1, KeptOf
<1> HIDE DEF r, P
<1>3. r \in Seq(D \cap S)
  <2>1. \A k \in 1..Len(r) : r[k] \in D /\ r[k] \in S
    BY <1>1, <1>2
  <2>2. Len(r) \in Nat /\ r = [k \in 1..Len(r) |-> r[k]]
    BY <1>2
  <2>3. r \in [1..Len(r) -> D \cap S]
    BY <2>1, <2>2
  <2> QED BY <2>2, <2>3
<1>4. ASSUME NEW k \in 1..Len(r), NEW l \in 1..Len(r), r[k] = r[l] PROVE k = l
  <2> DEFINE i == Nth(P, k)
             j == Nth(P, l)
  <2>0. i \in 1..Len(q) /\ j \in 1..Len(q) /\ q[i] = q[j]
    BY <1>2, <1>4
  <2> HIDE DEF i, j
  <2>1. i = j /\ i \in Int
    BY <1>1, <2>0 DEF Enumerates
  <2>2. ~ (k < l) /\ ~ (l < k)
    <3>1. (k < l => i < j) /\ (l < k => j < i)
      BY <1>2 DEF i, j
    <3> QED BY <2>1, <3>1
  <2> QED BY <1>2, <2>2
<1>5. ASSUME NEW x \in D \cap S PROVE \E k \in 1..Len(r) : r[k] = x
  <2>1. PICK i \in 1..Len(q) : q[i] = x
    BY DEF Enumerates
  <2> QED BY <1>2, <2>1
<1>6. Enumerates(r, D \cap S)
  BY <1>3, <1>4, <1>5 DEF Enumerates
<1> QED BY <1>6 DEF r

\* The elements of a finite set of numbers, in order
LEMMA ByNumber ==
  ASSUME NEW D \in SUBSET Int, IsFiniteSet(D)
  PROVE  Enumerates([k \in 1..Cardinality(D) |-> Nth(D, k)], D)
<1> DEFINE n == Cardinality(D)
           q == [k \in 1..n |-> Nth(D, k)]
<1>1. n \in Nat
  BY FS_CardinalityType
<1>2. /\ \A k \in 1..n : Nth(D, k) \in D
      /\ \A i \in D : Rank(D, i) \in 1..n /\ Nth(D, Rank(D, i)) = i
      /\ \A k, l \in 1..n : k < l => Nth(D, k) < Nth(D, l)
  BY NthOf
<1> HIDE DEF n
<1>3. q \in [1..n -> D]
  BY <1>2
<1>4. q \in Seq(D) /\ Len(q) = n /\ \A k \in 1..n : q[k] = Nth(D, k)
  BY <1>1, <1>3
<1> HIDE DEF q
<1>5. ASSUME NEW k \in 1..n, NEW l \in 1..n, q[k] = q[l] PROVE k = l
  <2>1. Nth(D, k) = Nth(D, l) /\ Nth(D, k) \in Int
    BY <1>2, <1>4, <1>5
  <2> QED BY <1>2, <2>1
<1>6. ASSUME NEW x \in D PROVE \E k \in 1..n : q[k] = x
  BY <1>2, <1>4
<1>7. Enumerates(q, D)
  BY <1>4, <1>5, <1>6 DEF Enumerates
<1> QED BY <1>7 DEF q, n

\* The elements of a finite set in an order
Ordered(R, S) == [i \in 1..Cardinality(S) |-> CHOOSE t \in S : Place(R, S, t) = i - 1]

LEMMA OrderedIs ==
  ASSUME NEW S, IsFiniteSet(S), NEW R, StrictOrder(R, S)
  PROVE  /\ Enumerates(Ordered(R, S), S) /\ Len(Ordered(R, S)) = Cardinality(S)
         /\ \A i, j \in 1..Cardinality(S) : <<Ordered(R, S)[i], Ordered(R, S)[j]>> \in R <=> i < j
<1> DEFINE n == Cardinality(S)
           P(t) == Place(R, S, t)
           q == Ordered(R, S)
<1>1. /\ n \in Nat
      /\ \A t \in S : P(t) \in 0..(n - 1)
      /\ \A t, u \in S : <<t, u>> \in R <=> P(t) < P(u)
      /\ \A t, u \in S : P(t) = P(u) => t = u
      /\ \A k \in 0..(n - 1) : \E t \in S : P(t) = k
  BY PlacesAre
<1>2. q = [i \in 1..n |-> CHOOSE t \in S : P(t) = i - 1]
  BY DEF Ordered
<1> HIDE DEF P, n, q
<1>3. ASSUME NEW i \in 1..n PROVE q[i] \in S /\ P(q[i]) = i - 1
  <2>1. i - 1 \in 0..(n - 1)
    BY <1>1
  <2>2. \E t \in S : P(t) = i - 1
    BY <1>1, <2>1
  <2>3. q[i] = CHOOSE t \in S : P(t) = i - 1
    BY <1>2
  <2> QED BY <2>2, <2>3
<1>4. q \in Seq(S) /\ Len(q) = n
  <2>1. q \in [1..n -> S]
    BY <1>2, <1>3
  <2> QED BY <1>1, <2>1
<1>5. ASSUME NEW i \in 1..n, NEW j \in 1..n
      PROVE  /\ q[i] = q[j] => i = j
             /\ <<q[i], q[j]>> \in R <=> i < j
  <2>1. P(q[i]) = i - 1 /\ P(q[j]) = j - 1 /\ q[i] \in S /\ q[j] \in S
    BY <1>3
  <2> QED BY <1>1, <2>1
<1>6. ASSUME NEW t \in S PROVE \E i \in 1..n : q[i] = t
  <2>1. P(t) \in 0..(n - 1)
    BY <1>1
  <2>2. P(t) + 1 \in 1..n
    BY <1>1, <2>1
  <2>3. P(q[P(t) + 1]) = P(t) /\ q[P(t) + 1] \in S
    BY <1>3, <2>1, <2>2
  <2> QED BY <1>1, <2>2, <2>3
<1>7. Enumerates(q, S)
  BY <1>4, <1>5, <1>6 DEF Enumerates
<1> QED BY <1>4, <1>5, <1>7 DEF q, n

\* A list backwards
LEMMA BackwardsLists ==
  ASSUME NEW D, NEW q, Enumerates(q, D), NEW r, r = [k \in 1..Len(q) |-> q[Len(q) + 1 - k]]
  PROVE  Enumerates(r, D)
<1> DEFINE n == Len(q)
<1>1. n \in Nat /\ q \in [1..n -> D]
  BY DEF Enumerates
<1>2. \A k \in 1..n : n + 1 - k \in 1..n /\ r[k] = q[n + 1 - k]
  BY <1>1
<1> HIDE DEF n
<1>3. r \in [1..n -> D]
  BY <1>1, <1>2 DEF n
<1>4. r \in Seq(D) /\ Len(r) = n
  BY <1>1, <1>3
<1>5. ASSUME NEW k \in 1..n, NEW l \in 1..n, r[k] = r[l] PROVE k = l
  <2>1. n + 1 - k = n + 1 - l
    BY <1>2, <1>5 DEF Enumerates, n
  <2> QED BY <1>1, <2>1
<1>6. ASSUME NEW x \in D PROVE \E k \in 1..n : r[k] = x
  <2>1. PICK i \in 1..n : q[i] = x
    BY DEF Enumerates, n
  <2>2. n + 1 - i \in 1..n /\ n + 1 - (n + 1 - i) = i
    BY <1>1
  <2>3. r[n + 1 - i] = x
    BY <1>2, <2>1, <2>2
  <2> QED BY <2>2, <2>3
<1> QED BY <1>4, <1>5, <1>6 DEF Enumerates, n

\* What is kept of numbers in order is in order.
LEMMA KeptSorted ==
  ASSUME NEW D \in SUBSET Int, NEW q, Enumerates(q, D), \A i, j \in 1..Len(q) : i < j => q[i] < q[j], NEW S
  PROVE  \A k, l \in 1..Len(Kept(q, S)) : k < l => Kept(q, S)[k] < Kept(q, S)[l]
<1> DEFINE r == Kept(q, S)
           P == Spots(q, S)
<1>1. q \in Seq(D)
  BY DEF Enumerates
<1>2. /\ \A k \in 1..Len(r) : Nth(P, k) \in 1..Len(q) /\ r[k] = q[Nth(P, k)]
      /\ \A k, l \in 1..Len(r) : k < l => Nth(P, k) < Nth(P, l)
  BY <1>1, KeptOf
<1> HIDE DEF r, P
<1>3. \A k, l \in 1..Len(r) : k < l => r[k] < r[l]
  BY <1>2
<1> QED BY <1>3 DEF r

\* A list of numbers in order begins with the least.
LEMMA HeadIsLeast ==
  ASSUME NEW D \in SUBSET Int, IsFiniteSet(D), D # {}, NEW q, Enumerates(q, D), \A i, j \in 1..Len(q) : i < j => q[i] < q[j]
  PROVE  Head(q) \in D /\ \A x \in D : Head(q) <= x
<1>1. 1 \in 1..Len(q) /\ Head(q) = q[1] /\ Head(q) \in D /\ Len(q) \in Nat
  BY ListIs
<1>2. ASSUME NEW x \in D PROVE Head(q) <= x
  <2>1. PICK i \in 1..Len(q) : q[i] = x
    BY DEF Enumerates
  <2>2. i = 1 \/ 1 < i
    BY <1>1
  <2>3. x \in Int /\ q[1] \in Int
    BY <1>1
  <2>4. q[1] = q[i] \/ q[1] < q[i]
    BY <1>1, <2>2
  <2> QED BY <1>1, <2>1, <2>3, <2>4
<1> QED BY <1>1, <1>2

\* The numbers of a set, in order
LEMMA NumbersInOrder ==
  ASSUME NEW D \in SUBSET Int, IsFiniteSet(D), NEW q, q = [k \in 1..Cardinality(D) |-> Nth(D, k)]
  PROVE  \A i, j \in 1..Len(q) : i < j => q[i] < q[j]
<1>1. Len(q) = Cardinality(D)
  BY FS_CardinalityType
<1>2. \A k, l \in 1..Cardinality(D) : k < l => Nth(D, k) < Nth(D, l)
  BY NthOf
<1> QED BY <1>1, <1>2

LEMMA Cancel ==
  ASSUME NEW x \in Int, NEW y \in Int, NEW s \in Int, s > 0, s * x = s * y
  PROVE  x = y
OBVIOUS

\* The sum of one number, over and over
LEMMA SumOfSame ==
  ASSUME NEW S, IsFiniteSet(S), NEW k \in Int, NEW f, \A x \in S : f[x] = k
  PROVE  Sigma(f, S) = k * Cardinality(S)
<1> DEFINE one == [x \in S |-> 1]
<1>1. \A x \in S : one[x] = 1
  OBVIOUS
<1> HIDE DEF one
<1>2. {x \in S : one[x] = 1} = S /\ \A x \in S : one[x] \in {0, 1}
  BY <1>1
<1>3. Sigma(one, S) = Cardinality(S)
  BY <1>2, SumOfOnes
<1>4. \A x \in S : one[x] \in Int /\ f[x] = k * one[x]
  BY <1>1
<1> QED BY <1>3, <1>4, SumScaled

\* What is divided in shares, with nothing left over, is their sum.
LEMMA SharesAddUp ==
  ASSUME NEW S, IsFiniteSet(S), S # {}, NEW w, \A x \in S : w[x] \in Nat, NEW ship \in Nat,
         NEW sum, sum = Sigma(w, S), NEW f,
         \A x \in S : f[x] = IF sum > 0 THEN (ship * w[x]) \div sum ELSE ship \div Cardinality(S),
         \A x \in S : IF sum > 0 THEN (ship * w[x]) % sum = 0 ELSE ship % Cardinality(S) = 0
  PROVE  Sigma(f, S) = ship
<1>0. sum \in Nat
  BY SumOfNats
<1>1. CASE sum > 0
  <2> DEFINE a == [x \in S |-> ship * w[x]]
  <2>1. ASSUME NEW x \in S PROVE a[x] \in Nat /\ f[x] \in Nat /\ a[x] = ship * w[x] /\ a[x] = sum * f[x]
    <3> DEFINE y == ship * w[x]
    <3>1. y \in Nat
      OBVIOUS
    <3>2. a[x] = y /\ f[x] = y \div sum /\ y % sum = 0
      BY <1>1
    <3> HIDE DEF y, a
    <3>3. y \div sum \in Nat /\ y % sum \in Nat /\ y = sum * (y \div sum) + (y % sum)
      BY <1>0, <1>1, <3>1, Divided
    <3>4. a[x] = y /\ f[x] \in Nat /\ y \in Nat
      BY <3>1, <3>2, <3>3
    <3>5. y = sum * f[x]
      <4> DEFINE z == sum * f[x]
      <4>1. y = z + (y % sum)
        BY <3>2, <3>3
      <4>2. z \in Int
        BY <1>0, <3>4
      <4> HIDE DEF z
      <4>3. y = z
        BY <3>1, <3>2, <4>1, <4>2
      <4> QED BY <4>3 DEF z
    <3> QED BY <3>4, <3>5 DEF y
  <2> HIDE DEF a
  <2>2. \A x \in S : w[x] \in Int /\ f[x] \in Int /\ a[x] = ship * w[x] /\ a[x] = sum * f[x]
    BY <2>1
  <2>3. Sigma(a, S) = ship * sum
    BY <2>2, SumScaled
  <2>4. Sigma(a, S) = sum * Sigma(f, S)
    BY <1>0, <2>2, SumScaled
  <2>5. Sigma(f, S) \in Int
    BY <2>2, SumOfInts
  <2>6. sum * Sigma(f, S) = sum * ship
    BY <1>0, <2>3, <2>4
  <2> DEFINE y == Sigma(f, S)
  <2>7. y \in Int /\ sum * y = sum * ship /\ sum \in Int /\ ship \in Int
    BY <1>0, <2>5, <2>6
  <2> HIDE DEF y
  <2>8. y = ship
    BY ONLY <1>1, <2>7, Cancel
  <2> QED BY <2>8 DEF y
<1>2. CASE ~ (sum > 0)
  <2> DEFINE n == Cardinality(S)
             k == ship \div n
  <2>1. n \in Nat /\ n > 0
    <3>1. n \in Nat /\ n # 0
      BY FS_CardinalityType, FS_EmptySet
    <3> QED BY <3>1
  <2>2. PICK x \in S : TRUE
    OBVIOUS
  <2>3. ship % n = 0
    BY <1>2, <2>2
  <2> HIDE DEF n
  <2>4. k \in Nat /\ ship = n * k + (ship % n)
    BY <2>1, Divided
  <2>5. \A y \in S : f[y] = k
    BY <1>2 DEF n
  <2> HIDE DEF k
  <2>6. Sigma(f, S) = k * n
    BY <2>4, <2>5, SumOfSame DEF n
  <2>7. n * k = k * n
    BY <2>1, <2>4
  <2> DEFINE z == n * k
  <2>8. z \in Int /\ ship = z + (ship % n)
    BY <2>1, <2>4
  <2> HIDE DEF z
  <2>9. ship = z
    BY <2>3, <2>8
  <2> QED BY <2>6, <2>7, <2>9 DEF z
<1> QED BY <1>1, <1>2
=============================================================================
