-------------------------- MODULE EPDirect_proofs --------------------------
(***************************************************************************)
(* Proofs about EPDirect, for any number of ranks, experts and tokens, and *)
(* any program.  Calls share one buffer and one set of words, and the two  *)
(* barriers of a call keep them apart (IInv); so every count is in one     *)
(* place at a time (WordsInv), slots are drawn from 0 up (SInv), and the   *)
(* numbers that a dispatch announces are those of the program (CInv).  A   *)
(* token sent is on its way or in its slot till the call ends (TInv).      *)
(* What the epilogues make of them is in EPDirect_tensors_proofs.          *)
(*                                                                         *)
(* The counts are sums over finite sets, whose laws come first.  The       *)
(* induction theorems of the library take an operator, which none of the   *)
(* provers can instantiate.  That < is well-founded on the natural numbers *)
(* says the same of sets: every set of numbers has a least one.  Induction *)
(* over numbers and over finite sets follows, for sets of what is to be    *)
(* shown, and from that the laws of Sum, whose definition recurs over the  *)
(* elements of a set in an order that CHOOSE picks.                        *)
(***************************************************************************)
EXTENDS EPDirect, FiniteSetTheorems, WellFoundedInduction, TLAPS

-----------------------------------------------------------------------------
(* Induction. *)

\* A set of natural numbers has a least one.
LEMMA LeastNumber ==
  ASSUME NEW T, T \subseteq Nat, T # {}
  PROVE  \E x \in T : \A y \in T : x <= y
<1>1. PICK x \in T : \A y \in T : ~(<<y, x>> \in OpToRel(<, Nat))
  BY NatLessThanWellFounded, WFMin
<1>2. \A y \in T : ~(y < x)
  BY <1>1 DEF OpToRel
<1> QED BY <1>2

\* What holds for 0 and passes from each number to the next holds for all.
LEMMA Induction ==
  ASSUME NEW T, 0 \in T, \A n \in Nat : n \in T => n + 1 \in T
  PROVE  \A n \in Nat : n \in T
<1> SUFFICES ASSUME NEW n \in Nat, n \notin T
             PROVE  FALSE
  OBVIOUS
<1>1. PICK x \in Nat \ T : \A y \in Nat \ T : x <= y
  <2>1. Nat \ T \subseteq Nat /\ Nat \ T # {}
    OBVIOUS
  <2> QED BY <2>1, LeastNumber
<1>2. x # 0 /\ x - 1 \in Nat /\ x - 1 + 1 = x
  BY <1>1
<1>3. x - 1 \in T
  BY <1>1, <1>2
<1> QED BY <1>1, <1>2, <1>3

-----------------------------------------------------------------------------
(* Sums. *)

\* How the library defines a sum: by a function on all subsets that takes one element off.
Pick(s) == CHOOSE x \in s : TRUE
IsIter(g, f, S) ==
  g = [s \in SUBSET S |-> IF s = {} THEN 0 ELSE f[Pick(s)] + g[s \ {Pick(s)}]]

LEMMA SumIter ==
  ASSUME NEW f, NEW S
  PROVE  Sum(f, S) = (CHOOSE g : IsIter(g, f, S))[S]
BY DEF Sum, MapThenSumSet, MapThenFoldSet, IsIter, Pick

\* The same function, on the subsets of at most n elements.
Small(S, n) == {s \in SUBSET S : Cardinality(s) <= n}
IsPart(g, f, S, n) ==
  g = [s \in Small(S, n) |-> IF s = {} THEN 0 ELSE f[Pick(s)] + g[s \ {Pick(s)}]]

LEMMA PickIn == ASSUME NEW s, s # {} PROVE Pick(s) \in s
BY DEF Pick

LEMMA LessOne ==
  ASSUME NEW s, IsFiniteSet(s), s # {}
  PROVE  /\ IsFiniteSet(s \ {Pick(s)}) /\ Cardinality(s \ {Pick(s)}) = Cardinality(s) - 1
         /\ Cardinality(s) \in Nat /\ Cardinality(s) > 0
<1>1. Pick(s) \in s
  BY PickIn
<1> QED BY <1>1, FS_RemoveElement, FS_CardinalityType, FS_EmptySet

\* The recursion of the sum has a solution over the subsets of a finite set.
LEMMA IterExists ==
  ASSUME NEW f, NEW S, IsFiniteSet(S)
  PROVE  \E g : IsIter(g, f, S)
<1> DEFINE T == {n \in Nat : \E g : IsPart(g, f, S, n)}
<1>0. \A s \in SUBSET S : IsFiniteSet(s) /\ Cardinality(s) \in Nat /\ Cardinality(s) <= Cardinality(S)
  BY FS_Subset, FS_CardinalityType
<1>1. 0 \in T
  <2>1. \A s \in Small(S, 0) : s = {}
    BY <1>0, FS_EmptySet DEF Small
  <2>2. IsPart([s \in Small(S, 0) |-> 0], f, S, 0)
    BY <2>1 DEF IsPart
  <2> QED BY <2>2
<1>2. ASSUME NEW n \in Nat, n \in T
      PROVE  n + 1 \in T
  <2>1. PICK g : IsPart(g, f, S, n)
    BY <1>2
  <2> DEFINE h == [s \in Small(S, n + 1) |-> IF s = {} THEN 0 ELSE f[Pick(s)] + g[s \ {Pick(s)}]]
  <2>2. ASSUME NEW s \in Small(S, n)
        PROVE  s \in Small(S, n + 1) /\ h[s] = g[s]
    <3>1. s \in Small(S, n + 1)
      BY <1>0 DEF Small
    <3>2. g[s] = IF s = {} THEN 0 ELSE f[Pick(s)] + g[s \ {Pick(s)}]
      BY <2>1 DEF IsPart
    <3> QED BY <3>1, <3>2
  <2>3. ASSUME NEW s \in Small(S, n + 1), s # {}
        PROVE  h[s \ {Pick(s)}] = g[s \ {Pick(s)}]
    <3>1. s \ {Pick(s)} \in Small(S, n)
      BY <1>0, <2>3, LessOne DEF Small
    <3> QED BY <2>2, <3>1
  <2>4. h = [s \in Small(S, n + 1) |-> IF s = {} THEN 0 ELSE f[Pick(s)] + h[s \ {Pick(s)}]]
    BY <2>3
  <2>5. IsPart(h, f, S, n + 1)
    BY <2>4 DEF IsPart
  <2> QED BY <2>5
<1>3. Cardinality(S) \in T
  <2> HIDE DEF T
  <2> QED BY <1>0, <1>1, <1>2, Induction
<1>4. Small(S, Cardinality(S)) = SUBSET S
  BY <1>0 DEF Small
<1> QED BY <1>3, <1>4 DEF IsPart, IsIter

\* Solutions over a set and over one within it agree.
LEMMA IterAgree ==
  ASSUME NEW f, NEW S, IsFiniteSet(S), NEW R \in SUBSET S, NEW g, NEW h,
         IsIter(g, f, S), IsIter(h, f, R)
  PROVE  g[R] = h[R]
<1> DEFINE T == {n \in Nat : \A s \in SUBSET R : Cardinality(s) <= n => g[s] = h[s]}
<1>0. \A s \in SUBSET R : IsFiniteSet(s) /\ Cardinality(s) \in Nat
  BY FS_Subset, FS_CardinalityType
<1>a. \A s \in SUBSET R : /\ g[s] = IF s = {} THEN 0 ELSE f[Pick(s)] + g[s \ {Pick(s)}]
                          /\ h[s] = IF s = {} THEN 0 ELSE f[Pick(s)] + h[s \ {Pick(s)}]
  BY DEF IsIter
<1>1. 0 \in T
  <2>1. ASSUME NEW s \in SUBSET R, Cardinality(s) <= 0
        PROVE  g[s] = h[s]
    <3>1. s = {}
      BY <1>0, <2>1, FS_EmptySet
    <3> QED BY <1>a, <3>1
  <2> QED BY <2>1
<1>2. ASSUME NEW n \in Nat, n \in T
      PROVE  n + 1 \in T
  <2>1. ASSUME NEW s \in SUBSET R, Cardinality(s) <= n + 1, s # {}
        PROVE  g[s] = h[s]
    <3>1. Cardinality(s \ {Pick(s)}) <= n /\ s \ {Pick(s)} \in SUBSET R
      BY <1>0, <2>1, LessOne
    <3>2. g[s \ {Pick(s)}] = h[s \ {Pick(s)}]
      BY <1>2, <3>1
    <3> QED BY <1>a, <2>1, <3>2
  <2>2. g[{}] = h[{}]
    BY <1>a
  <2> QED BY <2>1, <2>2
<1>3. Cardinality(R) \in T
  <2> HIDE DEF T
  <2> QED BY <1>0, <1>1, <1>2, Induction
<1>4. Cardinality(R) <= Cardinality(R)
  BY <1>0
<1> QED BY <1>3, <1>4

LEMMA SumSolves ==
  ASSUME NEW f, NEW S, IsFiniteSet(S)
  PROVE  \E g : IsIter(g, f, S) /\ Sum(f, S) = g[S]
BY IterExists, SumIter

LEMMA SumEmpty == \A f : Sum(f, {}) = 0
<1> TAKE f
<1>1. PICK g : IsIter(g, f, {}) /\ Sum(f, {}) = g[{}]
  BY SumSolves, FS_EmptySet
<1>2. g[{}] = 0
  BY <1>1 DEF IsIter
<1> QED BY <1>1, <1>2

LEMMA SumPick ==
  ASSUME NEW f, NEW S, IsFiniteSet(S), S # {}
  PROVE  Sum(f, S) = f[Pick(S)] + Sum(f, S \ {Pick(S)})
<1> DEFINE R == S \ {Pick(S)}
<1>1. IsFiniteSet(R) /\ R \in SUBSET S
  BY LessOne
<1>2. PICK g : IsIter(g, f, S) /\ Sum(f, S) = g[S]
  BY SumSolves
<1>3. PICK h : IsIter(h, f, R) /\ Sum(f, R) = h[R]
  BY <1>1, SumSolves
<1>4. g[R] = h[R]
  BY <1>1, <1>2, <1>3, IterAgree
<1>5. g[S] = f[Pick(S)] + g[R]
  BY <1>2 DEF IsIter
<1> QED BY <1>2, <1>3, <1>4, <1>5

\* Whatever contains the empty set and with each set all that have one element more
\* contains every finite set.
LEMMA FiniteInduction ==
  ASSUME NEW S, IsFiniteSet(S), NEW T, {} \in T,
         \A R \in SUBSET S : R \in T => \A x \in S \ R : R \cup {x} \in T
  PROVE  S \in T
<1> DEFINE C == {n \in Nat : \A R \in SUBSET S : Cardinality(R) <= n => R \in T}
<1>0. \A R \in SUBSET S : IsFiniteSet(R) /\ Cardinality(R) \in Nat
  BY FS_Subset, FS_CardinalityType
<1>1. 0 \in C
  <2>1. \A R \in SUBSET S : Cardinality(R) <= 0 => R = {}
    BY <1>0, FS_EmptySet
  <2> QED BY <2>1
<1>2. ASSUME NEW n \in Nat, n \in C
      PROVE  n + 1 \in C
  <2>1. ASSUME NEW R \in SUBSET S, Cardinality(R) <= n + 1, R # {}
        PROVE  R \in T
    <3> DEFINE Q == R \ {Pick(R)}
    <3>1. Q \in SUBSET S /\ Cardinality(Q) <= n
      BY <1>0, <2>1, LessOne
    <3>2. Q \in T
      BY <1>2, <3>1
    <3>3. Pick(R) \in S \ Q /\ Q \cup {Pick(R)} = R
      BY <2>1, PickIn
    <3> QED BY <3>1, <3>2, <3>3
  <2> QED BY <2>1
<1>3. Cardinality(S) \in C /\ S \in SUBSET S /\ Cardinality(S) <= Cardinality(S)
  <2> HIDE DEF C
  <2> QED BY <1>0, <1>1, <1>2, Induction
<1> QED BY <1>3

LEMMA SumInt ==
  ASSUME NEW f, NEW S, IsFiniteSet(S), \A x \in S : f[x] \in Int
  PROVE  Sum(f, S) \in Int
<1> DEFINE C == {n \in Nat : \A R \in SUBSET S : Cardinality(R) <= n => Sum(f, R) \in Int}
<1>0. \A R \in SUBSET S : IsFiniteSet(R) /\ Cardinality(R) \in Nat
  BY FS_Subset, FS_CardinalityType
<1>1. 0 \in C
  <2>1. \A R \in SUBSET S : Cardinality(R) <= 0 => R = {}
    BY <1>0, FS_EmptySet
  <2> QED BY <2>1, SumEmpty
<1>2. ASSUME NEW n \in Nat, n \in C
      PROVE  n + 1 \in C
  <2>1. ASSUME NEW R \in SUBSET S, Cardinality(R) <= n + 1, R # {}
        PROVE  Sum(f, R) \in Int
    <3>1. Sum(f, R \ {Pick(R)}) \in Int
      BY <1>0, <1>2, <2>1, LessOne
    <3>2. f[Pick(R)] \in Int
      BY <2>1, PickIn
    <3> QED BY <1>0, <2>1, <3>1, <3>2, SumPick
  <2> QED BY <2>1, SumEmpty
<1>3. Cardinality(S) \in C /\ S \in SUBSET S /\ Cardinality(S) <= Cardinality(S)
  <2> HIDE DEF C
  <2> QED BY <1>0, <1>1, <1>2, Induction
<1> QED BY <1>3

\* The order of a sum does not matter: any element may be taken out.
LEMMA SumAdd ==
  ASSUME NEW f, NEW S, IsFiniteSet(S), NEW x, x \notin S, \A y \in S \cup {x} : f[y] \in Int
  PROVE  Sum(f, S \cup {x}) = f[x] + Sum(f, S)
<1> DEFINE U == S \cup {x}
           C == {n \in Nat : \A R \in SUBSET U : \A y \in U \ R :
                   Cardinality(R) <= n => Sum(f, R \cup {y}) = f[y] + Sum(f, R)}
<1>0. /\ IsFiniteSet(U)
      /\ \A R \in SUBSET U : IsFiniteSet(R) /\ Cardinality(R) \in Nat /\ Sum(f, R) \in Int
  <2>1. IsFiniteSet(U)
    BY FS_AddElement
  <2>2. \A R \in SUBSET U : IsFiniteSet(R) /\ Cardinality(R) \in Nat
    BY <2>1, FS_Subset, FS_CardinalityType
  <2> QED BY <2>1, <2>2, SumInt
<1>1. 0 \in C
  <2>1. ASSUME NEW y \in U
        PROVE  Sum(f, {} \cup {y}) = f[y] + Sum(f, {})
    <3>1. IsFiniteSet({y}) /\ {y} # {} /\ Pick({y}) = y /\ {y} \ {y} = {} /\ {} \cup {y} = {y}
      BY FS_Singleton, PickIn
    <3> QED BY <3>1, SumPick
  <2>2. \A R \in SUBSET U : Cardinality(R) <= 0 => R = {}
    BY <1>0, FS_EmptySet
  <2> QED BY <2>1, <2>2
<1>2. ASSUME NEW n \in Nat, n \in C
      PROVE  n + 1 \in C
  <2>1. ASSUME NEW R \in SUBSET U, NEW y \in U \ R, Cardinality(R) <= n + 1
        PROVE  Sum(f, R \cup {y}) = f[y] + Sum(f, R)
    <3> DEFINE V == R \cup {y}
               p == Pick(V)
               Q == R \ {p}
    <3>1. V \in SUBSET U /\ IsFiniteSet(V) /\ V # {} /\ p \in V
      BY <1>0, PickIn
    <3>2. Sum(f, V) = f[p] + Sum(f, V \ {p})
      BY <3>1, SumPick
    <3>3. CASE p = y
      <4>1. V \ {p} = R
        BY <3>3
      <4> QED BY <3>2, <3>3, <4>1
    <3>4. CASE p # y
      <4>1. p \in R /\ V \ {p} = Q \cup {y} /\ Q \cup {p} = R /\ Q \in SUBSET U /\ y \in U \ Q /\ p \in U \ Q
        BY <3>1, <3>4
      <4>2. Cardinality(Q) <= n
        <5>0. IsFiniteSet(R) /\ p \in R
          BY <1>0, <4>1
        <5>1. Cardinality(Q) = Cardinality(R) - 1
          <6> HIDE DEF p
          <6> QED BY <5>0, FS_RemoveElement
        <5> QED BY <1>0, <2>1, <4>1, <5>1
      <4>3. Sum(f, Q \cup {y}) = f[y] + Sum(f, Q)
        BY <1>2, <4>1, <4>2
      <4>4. Sum(f, Q \cup {p}) = f[p] + Sum(f, Q)
        BY <1>2, <4>1, <4>2
      <4>5. f[y] \in Int /\ f[p] \in Int /\ Sum(f, Q) \in Int
        BY <1>0, <4>1
      <4>6. Sum(f, V) = f[p] + (f[y] + Sum(f, Q)) /\ Sum(f, R) = f[p] + Sum(f, Q)
        BY <3>2, <4>1, <4>3, <4>4
      <4> QED BY <4>5, <4>6
    <3> QED BY <3>3, <3>4
  <2> QED BY <2>1
<1>3. Cardinality(S) \in C /\ S \in SUBSET U /\ Cardinality(S) <= Cardinality(S)
  <2> HIDE DEF C
  <2> QED BY <1>0, <1>1, <1>2, Induction
<1> QED BY <1>3

\* A sum depends on the terms only.
LEMMA SumCong ==
  ASSUME NEW S, IsFiniteSet(S), NEW f, NEW g, \A x \in S : f[x] = g[x] /\ f[x] \in Int
  PROVE  Sum(f, S) = Sum(g, S)
<1> DEFINE T == {R \in SUBSET S : Sum(f, R) = Sum(g, R)}
<1>1. {} \in T
  BY SumEmpty
<1>2. ASSUME NEW R \in SUBSET S, R \in T, NEW x \in S \ R
      PROVE  R \cup {x} \in T
  <2>1. IsFiniteSet(R) /\ \A y \in R \cup {x} : f[y] \in Int /\ g[y] \in Int
    BY FS_Subset
  <2>2. Sum(f, R \cup {x}) = f[x] + Sum(f, R)
    BY <2>1, SumAdd
  <2>3. Sum(g, R \cup {x}) = g[x] + Sum(g, R)
    BY <2>1, SumAdd
  <2>4. Sum(f, R) = Sum(g, R) /\ f[x] = g[x]
    BY <1>2
  <2> QED BY <2>2, <2>3, <2>4
<1>3. S \in T
  <2> HIDE DEF T
  <2> QED BY <1>1, <1>2, FiniteInduction
<1> QED BY <1>3

\* A sum of natural numbers is one.
LEMMA SumNat ==
  ASSUME NEW S, IsFiniteSet(S), NEW f, \A x \in S : f[x] \in Nat
  PROVE  Sum(f, S) \in Nat
<1> DEFINE T == {R \in SUBSET S : Sum(f, R) \in Nat}
<1>1. {} \in T
  BY SumEmpty
<1>2. ASSUME NEW R \in SUBSET S, R \in T, NEW x \in S \ R
      PROVE  R \cup {x} \in T
  <2>1. IsFiniteSet(R) /\ \A y \in R \cup {x} : f[y] \in Int
    BY FS_Subset
  <2>2. Sum(f, R \cup {x}) = f[x] + Sum(f, R)
    BY <2>1, SumAdd
  <2>3. Sum(f, R) \in Nat /\ f[x] \in Nat
    BY <1>2
  <2> QED BY <2>2, <2>3
<1>3. S \in T
  <2> HIDE DEF T
  <2> QED BY <1>1, <1>2, FiniteInduction
<1> QED BY <1>3

\* A sum grows by no more than its terms.
LEMMA SumBound ==
  ASSUME NEW S, IsFiniteSet(S), NEW f, NEW g, NEW c \in Nat,
         \A x \in S : f[x] \in Nat /\ g[x] \in Nat /\ f[x] <= g[x] + c
  PROVE  Sum(f, S) <= Sum(g, S) + c * Cardinality(S) /\ Sum(f, S) \in Nat /\ Sum(g, S) \in Nat
<1> DEFINE T == {R \in SUBSET S : Sum(f, R) <= Sum(g, R) + c * Cardinality(R)}
<1>1. {} \in T
  <2>1. c * 0 = 0
    OBVIOUS
  <2> QED BY <2>1, SumEmpty, FS_EmptySet
<1>2. ASSUME NEW R \in SUBSET S, R \in T, NEW x \in S \ R
      PROVE  R \cup {x} \in T
  <2>1. IsFiniteSet(R) /\ \A y \in R \cup {x} : f[y] \in Int /\ g[y] \in Int
    BY FS_Subset
  <2>2. Sum(f, R \cup {x}) = f[x] + Sum(f, R) /\ Sum(g, R \cup {x}) = g[x] + Sum(g, R)
    BY <2>1, SumAdd
  <2>3. Cardinality(R) \in Nat /\ Cardinality(R \cup {x}) = Cardinality(R) + 1
    BY <2>1, FS_AddElement, FS_CardinalityType
  <2>4. Sum(f, R) \in Nat /\ Sum(g, R) \in Nat
    <3>1. \A y \in R : f[y] \in Nat /\ g[y] \in Nat
      OBVIOUS
    <3> QED BY <2>1, <3>1, SumNat
  <2>5. c * (Cardinality(R) + 1) = c * Cardinality(R) + c /\ c * Cardinality(R) \in Nat
    BY <2>3
  <2>6. Sum(f, R) <= Sum(g, R) + c * Cardinality(R) /\ f[x] <= g[x] + c /\ f[x] \in Nat /\ g[x] \in Nat
    BY <1>2
  <2>7. Sum(f, R \cup {x}) <= Sum(g, R \cup {x}) + c * Cardinality(R \cup {x})
    <3> DEFINE n == c * Cardinality(R)
               a == Sum(f, R)
               b == Sum(g, R)
    <3>1. n \in Nat /\ a \in Nat /\ b \in Nat /\ a <= b + n /\ f[x] <= g[x] + c /\ f[x] \in Nat /\ g[x] \in Nat
      BY <2>4, <2>5, <2>6
    <3> HIDE DEF n, a, b
    <3>2. f[x] + a <= g[x] + b + (n + c)
      BY <3>1
    <3> QED BY <2>2, <2>3, <2>5, <3>2 DEF n, a, b
  <2> QED BY <2>7
<1>3. S \in T
  <2> HIDE DEF T
  <2> QED BY <1>1, <1>2, FiniteInduction
<1> QED BY <1>3, SumNat

\* The sizes of disjoint sets add up to the size of their union.
UnionOf(A, S) == UNION {A[x] : x \in S}
LEMMA SumOfSizes ==
  ASSUME NEW S, IsFiniteSet(S), NEW A, NEW f,
         \A x \in S : IsFiniteSet(A[x]) /\ f[x] = Cardinality(A[x]),
         \A x, y \in S : x # y => A[x] \cap A[y] = {}
  PROVE  IsFiniteSet(UnionOf(A, S)) /\ Sum(f, S) = Cardinality(UnionOf(A, S))
<1> DEFINE T == {R \in SUBSET S : IsFiniteSet(UnionOf(A, R)) /\ Sum(f, R) = Cardinality(UnionOf(A, R))}
<1>1. {} \in T
  <2>1. UnionOf(A, {}) = {}
    BY DEF UnionOf
  <2> QED BY <2>1, SumEmpty, FS_EmptySet
<1>2. ASSUME NEW R \in SUBSET S, R \in T, NEW x \in S \ R
      PROVE  R \cup {x} \in T
  <2> DEFINE U == UnionOf(A, R)
  <2>1. IsFiniteSet(R) /\ \A y \in R \cup {x} : f[y] \in Int
    BY FS_Subset, FS_CardinalityType
  <2>2. Sum(f, R \cup {x}) = f[x] + Sum(f, R)
    BY <2>1, SumAdd
  <2>3. UnionOf(A, R \cup {x}) = U \cup A[x] /\ U \cap A[x] = {}
    BY <1>2 DEF UnionOf
  <2>4. IsFiniteSet(U) /\ IsFiniteSet(A[x]) /\ Sum(f, R) = Cardinality(U) /\ f[x] = Cardinality(A[x])
    BY <1>2
  <2> HIDE DEF U
  <2>5. /\ IsFiniteSet(U \cup A[x])
        /\ Cardinality(U \cup A[x]) = Cardinality(U) + Cardinality(A[x]) - Cardinality(U \cap A[x])
    BY <2>4, FS_Union
  <2>6. Cardinality(U) \in Nat /\ Cardinality(A[x]) \in Nat /\ Cardinality(U \cap A[x]) = 0
    BY <2>3, <2>4, FS_CardinalityType, FS_EmptySet
  <2>7. Cardinality(U \cup A[x]) = f[x] + Sum(f, R)
    BY <2>4, <2>5, <2>6
  <2> QED BY <1>2, <2>2, <2>3, <2>5, <2>7
<1>3. S \in T
  <2> HIDE DEF T
  <2> QED BY <1>1, <1>2, FiniteInduction
<1> QED BY <1>3

-----------------------------------------------------------------------------
(* Routing and programs. *)

\* An expert number divided by the experts of a rank is a rank.
LEMMA RankOfExpert == \A e \in Experts : RankOf(e) \in Ranks
<1> SUFFICES ASSUME NEW e \in Experts
             PROVE  RankOf(e) \in Ranks
  OBVIOUS
<1> DEFINE N == NumExpertsPerRank
<1>1. N \in Nat /\ N >= 1 /\ NumRanks \in Nat
  BY SizesAssumption
<1>2. e \in Nat /\ e < NumRanks * N
  BY <1>1 DEF Experts
<1>3. e \div N \in Nat /\ N * (e \div N) <= e
  BY <1>1, <1>2
<1>4. e \div N < NumRanks
  <2>1. SUFFICES ASSUME e \div N >= NumRanks
                 PROVE  FALSE
    BY <1>1, <1>3
  <2>2. N * (e \div N) >= N * NumRanks
    BY <1>1, <1>3, <2>1
  <2>3. N * NumRanks = NumRanks * N
    BY <1>1
  <2> QED BY <1>1, <1>2, <1>3, <2>2, <2>3
<1> QED BY <1>1, <1>2, <1>3, <1>4 DEF RankOf, Ranks

LEMMA DestinationsAreRanks ==
  ASSUME NEW row \in Row
  PROVE  Dsts(row) \subseteq Ranks
<1>1. \A l \in DOMAIN row : row[l] \in Experts \cup {-1}
  BY DEF Row
<1>2. RankOf(-1) = -1
  BY DEF RankOf
<1> QED BY <1>1, <1>2, RankOfExpert DEF Dsts

\* The dispatch behind a call is an earlier call, or the call itself.
LEMMA HomeIsDispatch ==
  ASSUME setup \in Setups, NEW k \in Calls
  PROVE  /\ Home(k) \in Calls /\ Prog[Home(k)].kind = "dispatch" /\ Home(Home(k)) = Home(k)
         /\ Prog[k].kind # "dispatch" => Home(k) < k
         /\ Prog[k].kind = "dispatch" => Home(k) = k
         /\ \A r \in Ranks : Rows(k, r) \in Seq(Row)
<1>1. /\ Prog \in Seq(Call)
      /\ \A j \in Calls :
           /\ Prog[j].kind = "cached" => /\ Prog[j].of \in 1 .. j - 1
                                         /\ Prog[Prog[j].of].kind = "dispatch"
           /\ Prog[j].kind = "combine" => /\ Prog[j].of \in 1 .. j - 1
                                          /\ Prog[Prog[j].of].kind # "combine"
  BY SetupsAssumption DEF Prog, Calls
<1>2. Calls = 1 .. Len(Prog) /\ Len(Prog) \in Nat /\ \A j \in Calls : Prog[j] \in Call
  BY <1>1 DEF Calls
<1>3. \A j \in Calls : Prog[j].kind \in {"dispatch", "cached", "combine"} /\ Prog[j].rows \in [Ranks -> Seq(Row)]
  BY <1>2 DEF Call
<1>4. \A j \in Calls : \A i \in 1 .. j - 1 : i \in Calls /\ i < j
  BY <1>2
<1>5. \A j \in Calls : /\ Source(j) \in Calls
                       /\ Prog[j].kind = "dispatch" => Source(j) = j
                       /\ Prog[j].kind # "dispatch" => Source(j) < j
                       /\ Prog[j].kind # "combine" => Prog[Source(j)].kind = "dispatch"
                       /\ Prog[Source(j)].kind # "combine"
  BY <1>1, <1>3, <1>4 DEF Source
<1>6. Home(k) \in Calls /\ Prog[Home(k)].kind = "dispatch"
  BY <1>5 DEF Home
<1>7. Home(Home(k)) = Home(k)
  BY <1>5, <1>6 DEF Home
<1>8. Prog[k].kind = "dispatch" => Home(k) = k
  BY <1>5 DEF Home
<1>9. Prog[k].kind # "dispatch" => Home(k) < k
  <2>1. Source(k) \in Int /\ Source(Source(k)) \in Int /\ k \in Int
    BY <1>2, <1>5
  <2>2. Source(Source(k)) <= Source(k)
    BY <1>5, <2>1
  <2> QED BY <1>5, <2>1, <2>2 DEF Home
<1>10. \A r \in Ranks : Rows(k, r) \in Seq(Row)
  BY <1>3, <1>6 DEF Rows
<1> QED BY <1>6, <1>7, <1>8, <1>9, <1>10

LEMMA CallArithmetic ==
  ASSUME CountTypes, NEW r \in Ranks
  PROVE  /\ kernels[r] \in Nat /\ CallOf(r) \in Nat /\ CallOf(r) >= 1
         /\ OnMain(r) => kernels[r] = 2 * CallOf(r) - 2
         /\ ~OnMain(r) => kernels[r] = 2 * CallOf(r) - 1
<1>1. kernels[r] \in Nat
  BY DEF CountTypes
<1>2. \A n \in Nat : /\ n \div 2 + 1 \in Nat /\ n \div 2 + 1 >= 1
                     /\ n % 2 = 0 => n = 2 * (n \div 2 + 1) - 2
                     /\ n % 2 # 0 => n = 2 * (n \div 2 + 1) - 1
  OBVIOUS
<1> QED BY <1>1, <1>2 DEF CallOf, OnMain

\* A kernel that runs belongs to a call of the program.
LEMMA RunningCall ==
  ASSUME CountTypes, NEW r \in Ranks, Running(r)
  PROVE  CallOf(r) \in Calls
<1>1. Prog \in Seq(Call)
  BY SetupsAssumption DEF Prog, CountTypes
<1>2. Calls = 1 .. Len(Prog) /\ Len(Prog) \in Nat
  BY <1>1 DEF Calls
<1> QED BY <1>2, CallArithmetic DEF Running

-----------------------------------------------------------------------------
(* What is on its way finds its receiver inside the same call. *)

LEMMA OwnedFromInv == IInv => PutsOwned
<1> SUFFICES ASSUME IInv
             PROVE  PutsOwned
  OBVIOUS
<1>1. ASSUME NEW m, NEW k, Issued(m, k)
      PROVE  /\ stage[m.to] \in {"enter", "work", "leave"} /\ OnMain(m.to)
             /\ CallOf(m.to) = k
  <2> DEFINE f == m.from
             t == m.to
  <2>1. /\ f \in Ranks /\ t \in Ranks /\ stage[f] = "work" /\ OnMain(f) /\ k = CallOf(f)
    BY <1>1 DEF Issued
  <2>2. /\ entered[f] = kernels[f] + 1 /\ left[f] = kernels[f] + 1
    BY <2>1 DEF IInv, InStep, EnteredBy, LeftBy
  <2>3. left[f] <= entered[t] /\ left[t] <= entered[f]
    BY <2>1 DEF IInv, InStep
  <2>4. /\ kernels[f] \in Nat /\ kernels[t] \in Nat /\ kernels[f] % 2 = 0
        /\ stage[t] \in {"idle", "enter", "work", "leave"}
    BY <2>1 DEF IInv, CountTypes, OnMain
  <2>5. entered[t] = EnteredBy(t) /\ left[t] = LeftBy(t)
    BY <2>1 DEF IInv, InStep
  <2>6. stage[t] # "idle" /\ OnMain(t) /\ kernels[t] = kernels[f]
    BY <2>2, <2>3, <2>4, <2>5 DEF EnteredBy, LeftBy, OnMain
  <2> QED BY <2>1, <2>4, <2>6 DEF CallOf
<1> QED BY <1>1 DEF IInv, PutsOwned

LEMMA IInvInit == Init => IInv
<1> SUFFICES ASSUME Init
             PROVE  IInv
  OBVIOUS
<1>1. Prog \in Seq(Call)
  BY SetupsAssumption DEF Init, Prog
<1>2. Calls = 1 .. Len(Prog) /\ Len(Prog) \in Nat
  BY <1>1 DEF Calls
<1>3. CountTypes
  BY DEF Init, B!Init, CountTypes, NoHandle, HandleFields
<1>4. ASSUME NEW r \in Ranks
      PROVE  Ahead(r) /\ InStep(r)
  BY <1>2 DEF Init, B!Init, Ahead, Enqueued, InStep, EnteredBy, LeftBy, OnMain
<1>5. ASSUME NEW r \in Ranks, NEW k \in Calls
      PROVE  SourcesKept(r, k)
  <2>1. DOMAIN handle[r][k].meta = {}
    BY DEF Init, NoHandle
  <2>2. kernels[r] = 0 /\ k \in Nat /\ k >= 1
    BY <1>2 DEF Init
  <2> QED BY <2>1, <2>2 DEF SourcesKept
<1>6. stores = {} /\ counts = {}
  BY DEF Init
<1> QED BY <1>3, <1>4, <1>5, <1>6 DEF IInv

-----------------------------------------------------------------------------
(* Frames: what a step leaves alone. *)

LEMMA PlacesFrame ==
  ASSUME UNCHANGED <<setup, call, polling, kernels, stage, entered, left>>, NEW r \in Ranks
  PROVE  /\ Ahead(r) => Ahead(r)'
         /\ InStep(r) => InStep(r)'
         /\ \A m, k : Issued(m, k) => Issued(m, k)'
BY DEF Ahead, Enqueued, Prog, InStep, EnteredBy, LeftBy, OnMain, Issued, CallOf

\* A message stays issued while its sender stays where it is.
LEMMA IssuedFrame ==
  ASSUME NEW m, NEW k, Issued(m, k),
         stage'[m.from] = stage[m.from], kernels'[m.from] = kernels[m.from]
  PROVE  Issued(m, k)'
BY DEF Issued, OnMain, CallOf

\* The sources stay if neither they nor the number of tokens of an ended epilogue change.
LEMMA SourcesFrame ==
  ASSUME CountTypes, setup' = setup, NEW r \in Ranks, NEW k \in Calls,
         Prog[k].kind = "dispatch", SourcesKept(r, k),
         handle'[r][k].meta = handle[r][k].meta,
         kernels'[r] >= 2 * k => /\ kernels[r] >= 2 * k
                                 /\ handle'[r][k].num = handle[r][k].num
                                 /\ handle'[r][k].psum = handle[r][k].psum,
         kernels'[r] = 2 * k - 1 /\ stage'[r] = "work" =>
           kernels[r] = 2 * k - 1 /\ stage[r] = "work" /\ done'[r] = done[r]
  PROVE  SourcesKept(r, k)'
<1>1. Home(k) = k /\ Home(k)' = k
  <2>1. Home(k)' = Home(k)
    BY DEF Home, Source, Prog
  <2> QED BY <2>1, HomeIsDispatch DEF CountTypes
<1>2. kernels'[r] >= 2 * k => NumRecv(r, k)' = NumRecv(r, k)
  BY <1>1 DEF NumRecv
<1> QED BY <1>2 DEF SourcesKept

\* A step that moves no rank keeps the invariant if it keeps these parts of it.
LEMMA SteadyStep ==
  ASSUME IInv, UNCHANGED <<setup, call, polling, kernels, stage, entered, left>>,
         DOMAIN done' = Ranks,
         DOMAIN handle' = Ranks,
         \A r \in Ranks : DOMAIN handle'[r] = Calls /\ \A k \in Calls : DOMAIN handle'[r][k] = HandleFields,
         \A m \in stores' : Issued(m, m.token.call),
         \A m \in counts' : Issued(m, m.call),
         \A r \in Ranks : \A k \in Calls : Prog[k].kind = "dispatch" => SourcesKept(r, k)'
  PROVE  IInv'
<1>1. Calls' = Calls /\ Prog' = Prog
  BY DEF Calls, Prog
<1>2. CountTypes'
  BY <1>1 DEF IInv, CountTypes
<1>3. \A r \in Ranks : Ahead(r)' /\ InStep(r)'
  BY PlacesFrame DEF IInv
<1>4. 0 \in Ranks
  BY SizesAssumption DEF Ranks
<1>5. \A m \in stores' : Issued(m, m.token.call)'
  BY <1>4, PlacesFrame
<1>6. \A m \in counts' : Issued(m, m.call)'
  BY <1>4, PlacesFrame
<1> QED BY <1>1, <1>2, <1>3, <1>5, <1>6 DEF IInv

\* In particular a step that leaves the handles and the finished items alone.
LEMMA QuietStep ==
  ASSUME IInv, UNCHANGED <<setup, call, polling, kernels, stage, entered, left, done, handle>>,
         \A m \in stores' : Issued(m, m.token.call),
         \A m \in counts' : Issued(m, m.call)
  PROVE  IInv'
<1>1. \A r \in Ranks : \A k \in Calls : Prog[k].kind = "dispatch" => SourcesKept(r, k)'
  BY SourcesFrame DEF IInv
<1> QED BY <1>1, SteadyStep DEF IInv, CountTypes

\* Or a step of a rank in its first kernel that leaves the metadata and the numbers of
\* ended calls alone.
LEMMA MainStep ==
  ASSUME IInv, UNCHANGED <<setup, call, polling, kernels, stage, entered, left>>,
         NEW r \in Ranks, OnMain(r),
         DOMAIN done' = Ranks,
         \A q \in Ranks \ {r} : done'[q] = done[q],
         DOMAIN handle' = Ranks,
         \A q \in Ranks : /\ DOMAIN handle'[q] = Calls
                          /\ \A k \in Calls : DOMAIN handle'[q][k] = HandleFields,
         \A q \in Ranks : \A k \in Calls :
           /\ handle'[q][k].meta = handle[q][k].meta
           /\ kernels[q] >= 2 * k => /\ handle'[q][k].num = handle[q][k].num
                                     /\ handle'[q][k].psum = handle[q][k].psum,
         \A m \in stores' : Issued(m, m.token.call),
         \A m \in counts' : Issued(m, m.call)
  PROVE  IInv'
<1>1. ASSUME NEW q \in Ranks, NEW k \in Calls, Prog[k].kind = "dispatch"
      PROVE  SourcesKept(q, k)'
  <2>1. kernels[r] \in Nat /\ kernels[r] % 2 = 0
    BY DEF IInv, CountTypes, OnMain
  <2>2. k \in Nat
    <3>1. Prog \in Seq(Call)
      BY SetupsAssumption DEF Prog, IInv, CountTypes
    <3> QED BY <3>1 DEF Calls
  <2>3. \A n, j \in Nat : n % 2 = 0 => n # 2 * j - 1
    <3>1. \A n \in Nat : n % 2 = 0 => n = 2 * (n \div 2) /\ n \div 2 \in Nat
      OBVIOUS
    <3>2. \A i, j \in Nat : 2 * i # 2 * j - 1
      OBVIOUS
    <3> QED BY <3>1, <3>2
  <2>4. kernels[r] # 2 * k - 1
    BY <2>1, <2>2, <2>3
  <2>5. kernels'[q] = 2 * k - 1 => done'[q] = done[q]
    BY <2>4
  <2> QED BY <1>1, <2>5, SourcesFrame DEF IInv
<1> QED BY <1>1, SteadyStep

-----------------------------------------------------------------------------
(* Steps that move no rank. *)

LEMMA NotifyQuiet ==
  ASSUME IInv, NEW r \in Ranks
  PROVE  /\ \A sm \in SMs : NotifyCount(r, sm) => IInv'
         /\ \A s \in Ranks : NotifyTake(r, s) => IInv'
<1>1. ASSUME UNCHANGED <<setup, hostVars, kernels, stage, counts, tokenVars, handle, barrierVars>>
      PROVE  IInv'
  BY <1>1, QuietStep DEF hostVars, tokenVars, barrierVars, IInv
<1>2. ASSUME NEW sm \in SMs, NotifyCount(r, sm)
      PROVE  IInv'
  BY <1>1, <1>2 DEF NotifyCount
<1>3. ASSUME NEW s \in Ranks, NotifyTake(r, s)
      PROVE  IInv'
  BY <1>1, <1>3 DEF NotifyTake
<1> QED BY <1>2, <1>3

LEMMA NotifySendStep ==
  ASSUME IInv, NEW r \in Ranks, NotifySend(r)
  PROVE  IInv'
<1>1. ASSUME NEW m \in CountPuts(r)
      PROVE  Issued(m, m.call)
  BY DEF CountPuts, NotifySend, MainRuns, Issued
<1>2. counts' = counts \cup CountPuts(r)
  BY DEF NotifySend
<1>3. \A m \in counts' : Issued(m, m.call)
  BY <1>1, <1>2 DEF IInv
<1>4. UNCHANGED <<setup, call, polling, kernels, stage, entered, left, done, handle, stores>>
  BY DEF NotifySend, hostVars, tokenVars, barrierVars
<1> QED BY <1>3, <1>4, QuietStep DEF IInv

LEMMA LandStep ==
  ASSUME IInv
  PROVE  /\ \A m \in stores : LandStore(m) => IInv'
         /\ \A m \in counts : LandCounts(m) => IInv'
<1>1. ASSUME NEW m \in stores, LandStore(m)
      PROVE  IInv'
  <2>1. /\ UNCHANGED <<setup, call, polling, kernels, stage, entered, left, done, handle, counts>>
        /\ stores' \subseteq stores
    BY <1>1 DEF LandStore, hostVars, notifyVars, barrierVars
  <2> QED BY <2>1, QuietStep DEF IInv
<1>2. ASSUME NEW m \in counts, LandCounts(m)
      PROVE  IInv'
  <2>1. /\ UNCHANGED <<setup, call, polling, kernels, stage, entered, left, done, handle, stores>>
        /\ counts' \subseteq counts
    BY <1>2 DEF LandCounts, hostVars, tokenVars, barrierVars
  <2> QED BY <2>1, QuietStep DEF IInv
<1> QED BY <1>1, <1>2

LEMMA NotifyFinishStep ==
  ASSUME IInv, NEW r \in Ranks, Running(r), NotifyFinish(r)
  PROVE  IInv'
<1> DEFINE k == CallOf(r)
<1>1. k \in Calls /\ k \in Nat /\ kernels[r] = 2 * k - 2 /\ OnMain(r)
  BY RunningCall, CallArithmetic DEF NotifyFinish, MainRuns, IInv
<1>2. /\ UNCHANGED <<setup, call, polling, kernels, stage, entered, left, done, stores, counts>>
      /\ \E p, e : handle' = [handle EXCEPT ![r][k].psum = p, ![r][k].epsum = e]
  BY DEF NotifyFinish, tokenVars, barrierVars
<1>3. PICK p, e : handle' = [handle EXCEPT ![r][k].psum = p, ![r][k].epsum = e]
  BY <1>2
<1>4. /\ DOMAIN handle = Ranks /\ DOMAIN done = Ranks
      /\ \A q \in Ranks : DOMAIN handle[q] = Calls /\ \A j \in Calls : DOMAIN handle[q][j] = HandleFields
  BY DEF IInv, CountTypes
<1> HIDE DEF k
<1>5. DOMAIN handle' = Ranks
  BY <1>3, <1>4
<1>6. \A q \in Ranks : DOMAIN handle'[q] = Calls /\ \A j \in Calls : DOMAIN handle'[q][j] = HandleFields
  BY <1>1, <1>3, <1>4 DEF HandleFields
<1>7. \A q \in Ranks : \A j \in Calls : /\ handle'[q][j].meta = handle[q][j].meta
                                        /\ handle'[q][j].num = handle[q][j].num
                                        /\ q # r \/ j # k => handle'[q][j].psum = handle[q][j].psum
  BY <1>1, <1>3, <1>4 DEF HandleFields
<1>8. ~(kernels[r] >= 2 * k)
  BY <1>1
<1> QED BY <1>1, <1>2, <1>4, <1>5, <1>6, <1>7, <1>8, MainStep DEF IInv

LEMMA SendTokenStep ==
  ASSUME IInv, NEW r \in Ranks, Running(r), NEW t, NEW d, SendToken(r, t, d)
  PROVE  IInv'
<1> DEFINE k == CallOf(r)
           rows == Rows(k, r)
<1>1. k \in Calls /\ k \in Nat /\ kernels[r] = 2 * k - 2 /\ OnMain(r) /\ stage[r] = "work"
      /\ Kind(r) \in AnyDispatch
  BY RunningCall, CallArithmetic DEF SendToken, MainRuns, IInv
<1>2. d \in Ranks
  <2>1. rows \in Seq(Row)
    BY <1>1, HomeIsDispatch DEF IInv, CountTypes
  <2>2. Items(r) = UNION {{<<i, x>> : x \in Dsts(rows[i])} : i \in DOMAIN rows}
    BY <1>1 DEF Items
  <2>3. <<t, d>> \in Items(r)
    BY DEF SendToken
  <2>4. PICK i \in DOMAIN rows : <<t, d>> \in {<<i, x>> : x \in Dsts(rows[i])}
    BY <2>2, <2>3
  <2>5. d \in Dsts(rows[i])
    BY <2>4
  <2>6. rows[i] \in Row
    BY <2>1, <2>4
  <2> QED BY <2>5, <2>6, DestinationsAreRanks
<1>3. /\ UNCHANGED <<setup, call, polling, kernels, stage, entered, left, counts>>
      /\ \E X : done' = [done EXCEPT ![r] = X]
      /\ handle' = handle \/ \E X : handle' = [handle EXCEPT ![r][k].slot = X]
  BY DEF SendToken, hostVars, notifyVars, barrierVars
<1>4. \A m \in stores' : Issued(m, m.token.call)
  <2> DEFINE slot == IF ReusesSlots(k) THEN handle[r][Home(k)].slot[<<t, d>>] ELSE sender[r][d]
             sent == [from |-> r, to |-> d, at |-> <<r, slot>>, token |-> Token(k, r, t, rows[t])]
  <2>1. stores' = stores \cup {sent}
    BY DEF SendToken
  <2>2. Issued(sent, sent.token.call)
    BY <1>1, <1>2 DEF Issued, Token
  <2> QED BY <2>1, <2>2 DEF IInv
<1>5. /\ DOMAIN handle = Ranks /\ DOMAIN done = Ranks
      /\ \A q \in Ranks : DOMAIN handle[q] = Calls /\ \A j \in Calls : DOMAIN handle[q][j] = HandleFields
  BY DEF IInv, CountTypes
<1> HIDE DEF k
<1>6. /\ DOMAIN handle' = Ranks
      /\ \A q \in Ranks : /\ DOMAIN handle'[q] = Calls
                          /\ \A j \in Calls : DOMAIN handle'[q][j] = HandleFields
      /\ \A q \in Ranks : \A j \in Calls : /\ handle'[q][j].meta = handle[q][j].meta
                                           /\ handle'[q][j].num = handle[q][j].num
                                           /\ handle'[q][j].psum = handle[q][j].psum
  <2>1. CASE handle' = handle
    BY <1>5, <2>1
  <2>2. ASSUME NEW X, handle' = [handle EXCEPT ![r][k].slot = X]
        PROVE  <1>6!:
    BY <1>1, <1>5, <2>2 DEF HandleFields
  <2> QED BY <1>3, <2>1, <2>2
<1>7. DOMAIN done' = Ranks /\ \A q \in Ranks \ {r} : done'[q] = done[q]
  BY <1>3, <1>5
<1> QED BY <1>1, <1>3, <1>4, <1>6, <1>7, MainStep DEF IInv

\* A received token goes back to a rank: its epilogue is over, which kept the source.
LEMMA SendBackStep ==
  ASSUME IInv, NEW r \in Ranks, Running(r), NEW i, SendBack(r, i)
  PROVE  IInv'
<1> DEFINE k == CallOf(r)
           h == Home(k)
           md == handle[r][h].meta[i]
<1>1. k \in Calls /\ k \in Nat /\ kernels[r] = 2 * k - 2 /\ OnMain(r) /\ stage[r] = "work"
      /\ Kind(r) = "combine"
  BY RunningCall, CallArithmetic DEF SendBack, MainRuns, IInv
<1>2. h \in Calls /\ Prog[h].kind = "dispatch" /\ Home(h) = h /\ h < k
  BY <1>1, HomeIsDispatch DEF IInv, CountTypes, Kind
<1>3. h \in Nat
  <2>1. Prog \in Seq(Call)
    BY SetupsAssumption DEF Prog, IInv, CountTypes
  <2> QED BY <1>2, <2>1 DEF Calls
<1>4. kernels[r] >= 2 * h
  BY <1>1, <1>2, <1>3
<1>5. i \in 0 .. NumRecv(r, h) - 1
  <2>1. Items(r) = 0 .. NumRecv(r, k) - 1
    BY <1>1 DEF Items, AnyDispatch
  <2>2. NumRecv(r, k) = NumRecv(r, h)
    BY <1>2 DEF NumRecv
  <2> QED BY <2>1, <2>2 DEF SendBack
<1>6. md.rank \in Ranks
  BY <1>2, <1>4, <1>5 DEF IInv, SourcesKept
<1>7. \A m \in stores' : Issued(m, m.token.call)
  <2> DEFINE Sent(at, sum) == [from |-> r, to |-> md.rank, at |-> at, token |-> Partial(k, sum)]
  <2>1. ASSUME NEW at, NEW sum
        PROVE  Issued(Sent(at, sum), Sent(at, sum).token.call)
    BY <1>1, <1>6 DEF Issued, Partial
  <2>2. \A m \in stores' \ stores : \E at, sum : m = Sent(at, sum)
    BY DEF SendBack
  <2> QED BY <2>1, <2>2 DEF IInv
<1>8. /\ UNCHANGED <<setup, call, polling, kernels, stage, entered, left, counts, handle>>
      /\ \E X : done' = [done EXCEPT ![r] = X]
  BY DEF SendBack, hostVars, notifyVars, barrierVars
<1>9. DOMAIN done' = Ranks /\ \A q \in Ranks \ {r} : done'[q] = done[q]
  BY <1>8 DEF IInv, CountTypes
<1>10. DOMAIN handle' = Ranks /\ \A q \in Ranks : /\ DOMAIN handle'[q] = Calls
                          /\ \A j \in Calls : DOMAIN handle'[q][j] = HandleFields
  BY <1>8 DEF IInv, CountTypes
<1> HIDE DEF k, h, md
<1> QED BY <1>1, <1>7, <1>8, <1>9, <1>10, MainStep DEF IInv

\* The copy epilogue notes the source rank of every token it is through with.
LEMMA CopyTokenStep ==
  ASSUME IInv, NEW r \in Ranks, Running(r), NEW i, CopyToken(r, i)
  PROVE  IInv'
<1> DEFINE k == CallOf(r)
           h == Home(k)
<1>1. k \in Calls /\ k \in Nat /\ kernels[r] = 2 * k - 1 /\ stage[r] = "work"
  BY RunningCall, CallArithmetic DEF CopyToken, EpilogueRuns, IInv
<1>2. /\ UNCHANGED <<setup, call, polling, kernels, stage, entered, left, counts, stores>>
      /\ done' = [done EXCEPT ![r] = done[r] \cup {i}]
  BY DEF CopyToken, hostVars, notifyVars, barrierVars
<1>3. PICK s \in Ranks : CopyFrom(r, i, s)
  BY DEF CopyToken
<1>4. PICK md, recv, epsum :
        /\ md.rank = s
        /\ handle' = [handle EXCEPT ![r][k].meta = Extend(@, i, md),
                                    ![r][k].recv = recv, ![r][k].epsum = epsum]
  BY <1>3 DEF CopyFrom
<1>5. /\ DOMAIN handle = Ranks /\ DOMAIN done = Ranks
      /\ \A q \in Ranks : DOMAIN handle[q] = Calls /\ \A j \in Calls : DOMAIN handle[q][j] = HandleFields
  BY DEF IInv, CountTypes
<1> HIDE DEF k, h
<1>6. /\ DOMAIN handle' = Ranks
      /\ \A q \in Ranks : DOMAIN handle'[q] = Calls /\ \A j \in Calls : DOMAIN handle'[q][j] = HandleFields
  BY <1>1, <1>4, <1>5 DEF HandleFields
<1>7. \A q \in Ranks : \A j \in Calls :
        /\ handle'[q][j].num = handle[q][j].num
        /\ handle'[q][j].psum = handle[q][j].psum
        /\ q # r \/ j # k => handle'[q][j].meta = handle[q][j].meta
  BY <1>1, <1>4, <1>5 DEF HandleFields
<1>8. handle'[r][k].meta = Extend(handle[r][k].meta, i, md)
  BY <1>1, <1>4, <1>5 DEF HandleFields
<1>9. DOMAIN done' = Ranks /\ done'[r] = done[r] \cup {i} /\ \A q \in Ranks \ {r} : done'[q] = done[q]
  BY <1>2, <1>5
<1>10. ASSUME NEW q \in Ranks, NEW j \in Calls, Prog[j].kind = "dispatch"
       PROVE  SourcesKept(q, j)'
  <2>1. j \in Nat
    <3>1. Prog \in Seq(Call)
      BY SetupsAssumption DEF Prog, IInv, CountTypes
    <3> QED BY <3>1 DEF Calls
  <2>2. SourcesKept(q, j)
    BY <1>10 DEF IInv
  <2>3. CASE q # r \/ j # k
    <3>1. kernels[q] = 2 * j - 1 => done'[q] = done[q]
      BY <1>1, <1>9, <2>1, <2>3
    <3> QED BY <1>2, <1>7, <1>10, <2>2, <2>3, <3>1, SourcesFrame DEF IInv
  <2>4. CASE q = r /\ j = k
    <3>1. \A x \in DOMAIN handle'[r][k].meta : handle'[r][k].meta[x].rank \in Ranks
      <4>1. \A x \in DOMAIN handle'[r][k].meta :
              handle'[r][k].meta[x] = IF x = i THEN md ELSE handle[r][k].meta[x]
        BY <1>8 DEF Extend
      <4>2. \A x \in DOMAIN handle'[r][k].meta : x = i \/ x \in DOMAIN handle[r][k].meta
        BY <1>8 DEF Extend
      <4>3. \A x \in DOMAIN handle[r][k].meta : handle[r][k].meta[x].rank \in Ranks
        BY <2>2, <2>4 DEF SourcesKept
      <4>4. md.rank \in Ranks
        BY <1>3, <1>4
      <4> QED BY <4>1, <4>2, <4>3, <4>4
    <3>2. done'[r] \subseteq DOMAIN handle'[r][k].meta
      BY <1>1, <1>8, <1>9, <2>2, <2>4 DEF Extend, SourcesKept
    <3>3. ~(kernels'[r] >= 2 * k)
      BY <1>1, <1>2
    <3> QED BY <2>4, <3>1, <3>2, <3>3 DEF SourcesKept
  <2> QED BY <2>3, <2>4
<1> QED BY <1>2, <1>6, <1>9, <1>10, SteadyStep DEF IInv

LEMMA ReduceTokenStep ==
  ASSUME IInv, NEW r \in Ranks, Running(r), NEW t, ReduceToken(r, t)
  PROVE  IInv'
<1> DEFINE k == CallOf(r)
<1>1. k \in Calls /\ k \in Nat /\ kernels[r] = 2 * k - 1 /\ Prog[k].kind = "combine"
  BY RunningCall, CallArithmetic DEF ReduceToken, EpilogueRuns, IInv, Kind
<1>2. /\ UNCHANGED <<setup, call, polling, kernels, stage, entered, left, counts, stores>>
      /\ \E X : done' = [done EXCEPT ![r] = X]
      /\ \E X : handle' = [handle EXCEPT ![r][k].sums = X]
  BY DEF ReduceToken, hostVars, notifyVars, barrierVars
<1>3. PICK X : handle' = [handle EXCEPT ![r][k].sums = X]
  BY <1>2
<1>4. /\ DOMAIN handle = Ranks /\ DOMAIN done = Ranks
      /\ \A q \in Ranks : DOMAIN handle[q] = Calls /\ \A j \in Calls : DOMAIN handle[q][j] = HandleFields
  BY DEF IInv, CountTypes
<1> HIDE DEF k
<1>5. /\ DOMAIN handle' = Ranks
      /\ \A q \in Ranks : DOMAIN handle'[q] = Calls /\ \A j \in Calls : DOMAIN handle'[q][j] = HandleFields
  BY <1>1, <1>3, <1>4 DEF HandleFields
<1>6. \A q \in Ranks : \A j \in Calls :
        /\ handle'[q][j].num = handle[q][j].num
        /\ handle'[q][j].psum = handle[q][j].psum
        /\ handle'[q][j].meta = handle[q][j].meta
  BY <1>1, <1>3, <1>4 DEF HandleFields
<1>7. DOMAIN done' = Ranks /\ \A q \in Ranks \ {r} : done'[q] = done[q]
  BY <1>2, <1>4
<1>8. ASSUME NEW q \in Ranks, NEW j \in Calls, Prog[j].kind = "dispatch"
      PROVE  SourcesKept(q, j)'
  <2>1. j \in Nat
    <3>1. Prog \in Seq(Call)
      BY SetupsAssumption DEF Prog, IInv, CountTypes
    <3> QED BY <3>1 DEF Calls
  <2>2. j # k
    BY <1>1, <1>8
  <2>3. kernels[q] = 2 * j - 1 => done'[q] = done[q]
    BY <1>1, <1>7, <2>1, <2>2
  <2> QED BY <1>2, <1>6, <1>8, <2>3, SourcesFrame DEF IInv
<1> QED BY <1>2, <1>5, <1>7, <1>8, SteadyStep DEF IInv

-----------------------------------------------------------------------------
(* Steps that move a rank. *)

\* The step of one rank keeps the invariant if it keeps the rank's own part, leaves the
\* others where they are, and moves on from its work only with nothing on its way.
LEMMA MoveStep ==
  ASSUME IInv, setup' = setup, CountTypes', NEW r \in Ranks,
         \A q \in Ranks \ {r} :
           /\ call'[q] = call[q] /\ polling'[q] = polling[q]
           /\ kernels'[q] = kernels[q] /\ stage'[q] = stage[q]
           /\ entered'[q] = entered[q] /\ left'[q] = left[q],
         Ahead(r)', InStep(r)', entered'[r] >= entered[r],
         stores' = stores, counts' = counts,
         \/ stage'[r] = stage[r] /\ kernels'[r] = kernels[r]
         \/ \A m \in stores \cup counts : m.from # r,
         \A q \in Ranks : \A k \in Calls : Prog[k].kind = "dispatch" => SourcesKept(q, k)'
  PROVE  IInv'
<1>1. Calls' = Calls /\ Prog' = Prog
  BY DEF Calls, Prog
<1>2. ASSUME NEW q \in Ranks
      PROVE  Ahead(q)' /\ InStep(q)'
  <2>1. CASE q = r
    BY <2>1
  <2>2. CASE q # r
    <3>1. Ahead(q)'
      BY <1>1, <2>2 DEF IInv, Ahead, Enqueued
    <3>2. /\ entered'[q] = EnteredBy(q)' /\ left'[q] = LeftBy(q)'
          /\ ~OnMain(q)' => stage'[q] \in {"idle", "work"}
      BY <2>2 DEF IInv, InStep, EnteredBy, LeftBy, OnMain
    <3>3. ASSUME NEW p \in Ranks
          PROVE  left'[q] <= entered'[p]
      <4>1. left[q] <= entered[p] /\ left'[q] = left[q]
        BY <2>2 DEF IInv, InStep
      <4>2. left[q] \in Nat /\ entered[p] \in Nat /\ entered'[p] \in Nat
        BY DEF IInv, CountTypes
      <4>3. entered'[p] >= entered[p]
        BY <4>2
      <4> QED BY <4>1, <4>2, <4>3
    <3> QED BY <3>1, <3>2, <3>3 DEF InStep
  <2> QED BY <2>1, <2>2
<1>3. ASSUME NEW m \in stores \cup counts, NEW k, Issued(m, k)
      PROVE  Issued(m, k)'
  <2>1. m.from \in Ranks
    BY <1>3 DEF Issued
  <2>2. stage'[m.from] = stage[m.from] /\ kernels'[m.from] = kernels[m.from]
    BY <2>1
  <2> QED BY <1>3, <2>2, IssuedFrame
<1>4. (\A m \in stores' : Issued(m, m.token.call)') /\ (\A m \in counts' : Issued(m, m.call)')
  BY <1>3 DEF IInv
<1> QED BY <1>1, <1>2, <1>4 DEF IInv

LEMMA HostStep ==
  ASSUME IInv, NEW r \in Ranks, Host(r)
  PROVE  IInv'
<1>1. Prog \in Seq(Call)
  BY SetupsAssumption DEF Prog, IInv, CountTypes
<1>2. Calls = 1 .. Len(Prog) /\ Len(Prog) \in Nat /\ Calls' = Calls /\ Prog' = Prog /\ setup' = setup
  <2>1. Calls = 1 .. Len(Prog) /\ Len(Prog) \in Nat
    BY <1>1 DEF Calls
  <2>2. setup' = setup
    BY DEF Host, HostCall, HostPoll
  <2> QED BY <2>1, <2>2 DEF Calls, Prog
<1>3. /\ DOMAIN handle = Ranks /\ call[r] \in Nat /\ kernels[r] \in Nat /\ polling[r] \in BOOLEAN
      /\ \A q \in Ranks : DOMAIN handle[q] = Calls /\ \A j \in Calls : DOMAIN handle[q][j] = HandleFields
      /\ call[r] <= Len(Prog) /\ kernels[r] <= Enqueued(r)
      /\ polling[r] => call[r] >= 1
      /\ stage[r] # "idle" => kernels[r] < Enqueued(r)
  BY DEF IInv, CountTypes, Ahead
<1>4. UNCHANGED <<kernels, stage, done, entered, left, stores, counts>>
  BY DEF Host, HostCall, HostPoll, tokenVars, notifyVars, barrierVars
<1>5. PICK k \in Calls :
        /\ call' = [call EXCEPT ![r] = k]
        /\ \E b \in BOOLEAN : polling' = [polling EXCEPT ![r] = b]
        /\ \/ handle' = handle
           \/ \E n, a : handle' = [handle EXCEPT ![r][k].num = n, ![r][k].alloc = a]
        /\ kernels[r] < 2 * k
        /\ Ahead(r)'
  <2>1. CASE HostCall(r)
    <3> DEFINE k == call[r] + 1
    <3>1. k \in Calls /\ k \in Nat /\ ~polling[r] /\ call'[r] = k
      BY <1>2, <1>3, <2>1 DEF HostCall, IInv, CountTypes
    <3>2. kernels[r] < 2 * k - 1
      BY <1>3, <3>1 DEF Enqueued
    <3>3. PICK b \in BOOLEAN : polling' = [polling EXCEPT ![r] = b]
      BY <2>1 DEF HostCall
    <3>4. polling'[r] \in BOOLEAN
      BY <3>3 DEF IInv, CountTypes
    <3>5. Ahead(r)'
      BY <1>2, <1>3, <1>4, <3>1, <3>2, <3>4 DEF Ahead, Enqueued
    <3>6. \/ handle' = handle
          \/ \E n, a : handle' = [handle EXCEPT ![r][k].num = n, ![r][k].alloc = a]
      BY <2>1 DEF HostCall
    <3>7. call' = [call EXCEPT ![r] = k]
      BY <2>1 DEF HostCall
    <3>8. kernels[r] < 2 * k
      BY <1>3, <3>1, <3>2
    <3> QED BY <3>1, <3>3, <3>5, <3>6, <3>7, <3>8
  <2>2. CASE HostPoll(r)
    <3> DEFINE k == call[r]
    <3>1. k \in Calls /\ polling[r] /\ call' = [call EXCEPT ![r] = k]
      BY <1>2, <1>3, <2>2 DEF HostPoll, IInv, CountTypes
    <3>2. kernels[r] <= 2 * k - 1
      BY <1>3, <3>1 DEF Enqueued
    <3>3. polling' = [polling EXCEPT ![r] = FALSE]
      BY <2>2 DEF HostPoll
    <3>4. ~polling'[r] /\ call'[r] = k
      BY <3>1, <3>3 DEF IInv, CountTypes
    <3>5. Ahead(r)'
      BY <1>2, <1>3, <1>4, <3>1, <3>2, <3>4 DEF Ahead, Enqueued
    <3>6. \E n, a : handle' = [handle EXCEPT ![r][k].num = n, ![r][k].alloc = a]
      BY <2>2 DEF HostPoll
    <3>7. kernels[r] < 2 * k
      BY <1>3, <3>2
    <3> QED BY <3>1, <3>3, <3>5, <3>6, <3>7
  <2> QED BY <2>1, <2>2 DEF Host
<1>6. /\ DOMAIN handle' = Ranks
      /\ \A q \in Ranks : /\ DOMAIN handle'[q] = Calls
                          /\ \A j \in Calls : DOMAIN handle'[q][j] = HandleFields
      /\ \A q \in Ranks : \A j \in Calls :
           /\ handle'[q][j].meta = handle[q][j].meta
           /\ handle'[q][j].psum = handle[q][j].psum
           /\ q # r \/ j # k => handle'[q][j].num = handle[q][j].num
  <2>1. CASE handle' = handle
    BY <1>3, <2>1
  <2>2. ASSUME NEW n, NEW a, handle' = [handle EXCEPT ![r][k].num = n, ![r][k].alloc = a]
        PROVE  <1>6!:
    BY <1>3, <2>2 DEF HandleFields
  <2> QED BY <1>5, <2>1, <2>2
<1>7. CountTypes'
  BY <1>2, <1>4, <1>5, <1>6 DEF IInv, CountTypes
<1>8. InStep(r)'
  BY <1>4 DEF IInv, InStep, EnteredBy, LeftBy, OnMain
<1>9. ASSUME NEW q \in Ranks, NEW j \in Calls, Prog[j].kind = "dispatch"
      PROVE  SourcesKept(q, j)'
  <2>1. kernels'[q] >= 2 * j => q # r \/ j # k
    BY <1>2, <1>3, <1>4, <1>5
  <2> QED BY <1>2, <1>4, <1>6, <1>9, <2>1, SourcesFrame DEF IInv
<1>10. \A q \in Ranks \ {r} : call'[q] = call[q] /\ polling'[q] = polling[q]
  BY <1>5 DEF IInv, CountTypes
<1>11. entered'[r] >= entered[r]
  BY <1>4 DEF IInv, CountTypes
<1> QED BY <1>2, <1>4, <1>5, <1>7, <1>8, <1>9, <1>10, <1>11, MoveStep

\* Nothing of a rank is on its way unless it works in its first kernel.
LEMMA NothingIssued ==
  ASSUME IInv, NEW r \in Ranks, ~(stage[r] = "work" /\ OnMain(r))
  PROVE  \A m \in stores \cup counts : m.from # r
BY DEF IInv, Issued

\* What a kernel's beginnings and ends share: the host stands still, one rank moves, and its
\* handles keep all but their slots.
Moves(r, st, n) ==
  /\ UNCHANGED <<setup, call, polling, stores, counts>>
  /\ stage' = [stage EXCEPT ![r] = st]
  /\ kernels' = [kernels EXCEPT ![r] = n]
  /\ DOMAIN done' = Ranks /\ \A q \in Ranks \ {r} : done'[q] = done[q]
  /\ DOMAIN handle' = Ranks
  /\ \A q \in Ranks : DOMAIN handle'[q] = Calls /\ \A k \in Calls :
       /\ DOMAIN handle'[q][k] = HandleFields
       /\ handle'[q][k].meta = handle[q][k].meta
       /\ handle'[q][k].num = handle[q][k].num
       /\ handle'[q][k].psum = handle[q][k].psum

\* Such a step keeps the invariant if it keeps the rank's own part.
LEMMA KernelStep ==
  ASSUME IInv, NEW r \in Ranks, NEW st \in {"idle", "enter", "work", "leave"}, NEW n \in Nat,
         Moves(r, st, n),
         n = kernels[r] \/ n = kernels[r] + 1,
         st # "idle" => n < Enqueued(r),
         n <= Enqueued(r),
         entered' \in [Ranks -> Nat], left' \in [Ranks -> Nat],
         \A q \in Ranks \ {r} : entered'[q] = entered[q] /\ left'[q] = left[q],
         InStep(r)', entered'[r] >= entered[r],
         \A m \in stores \cup counts : m.from # r,
         \A k \in Calls : Prog[k].kind = "dispatch" => SourcesKept(r, k)'
  PROVE  IInv'
<1>1. Calls' = Calls /\ Prog' = Prog /\ setup' = setup
  BY DEF Calls, Prog, Moves
<1>2. /\ stage'[r] = st /\ kernels'[r] = n
      /\ \A q \in Ranks \ {r} : stage'[q] = stage[q] /\ kernels'[q] = kernels[q]
  BY DEF Moves, IInv, CountTypes
<1>3. CountTypes'
  <2>1. stage' \in [Ranks -> {"idle", "enter", "work", "leave"}] /\ kernels' \in [Ranks -> Nat]
    BY DEF Moves, IInv, CountTypes
  <2> QED BY <1>1, <2>1 DEF Moves, IInv, CountTypes
<1>4. Ahead(r)'
  BY <1>1, <1>2 DEF Moves, IInv, Ahead, Enqueued
<1>5. ASSUME NEW q \in Ranks, NEW k \in Calls, Prog[k].kind = "dispatch"
      PROVE  SourcesKept(q, k)'
  <2>1. CASE q = r
    BY <1>5, <2>1
  <2>2. CASE q # r
    <3>1. kernels'[q] = kernels[q] /\ stage'[q] = stage[q] /\ done'[q] = done[q]
      BY <1>2, <2>2 DEF Moves
    <3> QED BY <1>1, <1>5, <3>1, SourcesFrame DEF Moves, IInv
  <2> QED BY <2>1, <2>2
<1> QED BY <1>1, <1>2, <1>3, <1>4, <1>5, MoveStep DEF Moves

\* What the invariant says of one rank.
LEMMA RankFacts ==
  ASSUME IInv, NEW r \in Ranks
  PROVE  /\ kernels[r] \in Nat /\ entered[r] \in Nat /\ left[r] \in Nat /\ Enqueued(r) \in Int
         /\ stage[r] \in {"idle", "enter", "work", "leave"}
         /\ DOMAIN handle = Ranks /\ DOMAIN done = Ranks
         /\ \A q \in Ranks : DOMAIN handle[q] = Calls /\ \A k \in Calls : DOMAIN handle[q][k] = HandleFields
         /\ kernels[r] <= Enqueued(r) /\ (stage[r] # "idle" => kernels[r] < Enqueued(r))
         /\ InStep(r)
         /\ \A k \in Calls : k \in Nat
<1>1. Prog \in Seq(Call)
  BY SetupsAssumption DEF Prog, IInv, CountTypes
<1>2. \A k \in Calls : k \in Nat
  BY <1>1 DEF Calls
<1>3. Enqueued(r) \in Int
  BY DEF Enqueued, IInv, CountTypes
<1> QED BY <1>2, <1>3 DEF IInv, CountTypes, Ahead

\* The sources stay when their epilogue neither runs nor ends.
LEMMA SourcesStay ==
  ASSUME IInv, NEW r \in Ranks, NEW st, NEW n \in Nat, Moves(r, st, n),
         stage'[r] = st, kernels'[r] = n,
         NEW k \in Calls, Prog[k].kind = "dispatch",
         n >= 2 * k => kernels[r] >= 2 * k,
         ~(n = 2 * k - 1 /\ st = "work")
  PROVE  SourcesKept(r, k)'
BY SourcesFrame DEF Moves, IInv

\* n is even, so no call's epilogue is next.
LEMMA EvenIsMain ==
  ASSUME NEW n \in Nat, NEW k \in Nat, n % 2 = 0
  PROVE  n # 2 * k - 1 /\ (n + 1) % 2 # 0 /\ (n + 1 >= 2 * k => n >= 2 * k)
<1>1. n = 2 * (n \div 2) /\ n \div 2 \in Nat
  OBVIOUS
<1>2. \A i, j \in Nat : 2 * i # 2 * j - 1
  OBVIOUS
<1> QED BY <1>1, <1>2

LEMMA StartMainStep ==
  ASSUME IInv, NEW r \in Ranks, Running(r), StartMain(r)
  PROVE  IInv'
<1> DEFINE n == kernels[r]
           k == CallOf(r)
<1>1. stage[r] = "idle" /\ OnMain(r) /\ n < Enqueued(r) /\ n % 2 = 0 /\ n \in Nat /\ k \in Calls
  BY RankFacts, RunningCall DEF StartMain, OnMain, IInv
<1>2. entered[r] = n /\ left[r] = n
  BY <1>1, RankFacts DEF InStep, EnteredBy, LeftBy
<1>3. Moves(r, "enter", n)
  <2>1. handle' = handle \/ \E X : handle' = [handle EXCEPT ![r][k].slot = X]
    BY DEF StartMain
  <2>2. /\ UNCHANGED <<setup, call, polling, stores, counts, kernels>>
        /\ stage' = [stage EXCEPT ![r] = "enter"] /\ done' = [done EXCEPT ![r] = {}]
    BY DEF StartMain, hostVars
  <2>3. kernels' = [kernels EXCEPT ![r] = n]
    BY <2>2 DEF IInv, CountTypes
  <2> HIDE DEF k
  <2>4. CASE handle' = handle
    BY <2>2, <2>3, <2>4, RankFacts DEF Moves
  <2>5. ASSUME NEW X, handle' = [handle EXCEPT ![r][k].slot = X]
        PROVE  Moves(r, "enter", n)
    <3>1. \A q \in Ranks : DOMAIN handle'[q] = Calls /\ \A j \in Calls :
             /\ DOMAIN handle'[q][j] = HandleFields
             /\ handle'[q][j].meta = handle[q][j].meta
             /\ handle'[q][j].num = handle[q][j].num
             /\ handle'[q][j].psum = handle[q][j].psum
      BY <1>1, <2>5, RankFacts DEF HandleFields
    <3>2. DOMAIN handle' = Ranks /\ DOMAIN done' = Ranks /\ \A q \in Ranks \ {r} : done'[q] = done[q]
      BY <2>2, <2>5, RankFacts
    <3> QED BY <2>2, <2>3, <3>1, <3>2 DEF Moves
  <2> QED BY <2>1, <2>4, <2>5
<1>4. /\ entered' = [entered EXCEPT ![r] = n + 1] /\ left' = left
  BY <1>2 DEF StartMain, B!Enter
<1>5. /\ entered' \in [Ranks -> Nat] /\ left' \in [Ranks -> Nat]
      /\ \A q \in Ranks \ {r} : entered'[q] = entered[q] /\ left'[q] = left[q]
      /\ entered'[r] = n + 1 /\ left'[r] = n
      /\ stage'[r] = "enter" /\ kernels'[r] = n
  BY <1>1, <1>2, <1>3, <1>4 DEF IInv, CountTypes, Moves
<1>6. \A q \in Ranks : left'[r] <= entered'[q]
  BY <1>1, <1>2, <1>5, RankFacts DEF InStep
<1>7. InStep(r)'
  BY <1>1, <1>5, <1>6 DEF InStep, EnteredBy, LeftBy, OnMain
<1>8. \A m \in stores \cup counts : m.from # r
  BY <1>1, NothingIssued
<1>9. ASSUME NEW j \in Calls, Prog[j].kind = "dispatch"
      PROVE  SourcesKept(r, j)'
  BY <1>1, <1>3, <1>5, <1>9, RankFacts, SourcesStay
<1>10. entered'[r] >= entered[r] /\ n <= Enqueued(r)
  BY <1>1, <1>2, <1>5, RankFacts
<1> HIDE DEF n
<1> QED BY <1>1, <1>3, <1>5, <1>7, <1>8, <1>9, <1>10, KernelStep DEF n

LEMMA PassEntryStep ==
  ASSUME IInv, NEW r \in Ranks, PassEntry(r)
  PROVE  IInv'
<1> DEFINE n == kernels[r]
<1>1. stage[r] = "enter" /\ OnMain(r) /\ n < Enqueued(r) /\ n % 2 = 0 /\ n \in Nat
  BY RankFacts DEF PassEntry, OnMain, InStep
<1>2. entered[r] = n + 1 /\ left[r] = n
  BY <1>1, RankFacts DEF InStep, EnteredBy, LeftBy
<1>3. Moves(r, "work", n)
  BY RankFacts DEF PassEntry, Moves, hostVars, notifyVars, tokenVars, IInv, CountTypes
<1>4. /\ left' = [left EXCEPT ![r] = n + 1] /\ entered' = entered
      /\ \A q \in Ranks \ {r} : entered[q] >= n + 1
  BY <1>2 DEF PassEntry, B!Leave
<1>5. /\ entered' \in [Ranks -> Nat] /\ left' \in [Ranks -> Nat]
      /\ \A q \in Ranks \ {r} : entered'[q] = entered[q] /\ left'[q] = left[q]
      /\ entered'[r] = n + 1 /\ left'[r] = n + 1
      /\ stage'[r] = "work" /\ kernels'[r] = n
  BY <1>1, <1>2, <1>3, <1>4 DEF IInv, CountTypes, Moves
<1>6. \A q \in Ranks : left'[r] <= entered'[q]
  BY <1>1, <1>4, <1>5
<1>7. InStep(r)'
  BY <1>1, <1>5, <1>6 DEF InStep, EnteredBy, LeftBy, OnMain
<1>8. \A m \in stores \cup counts : m.from # r
  BY <1>1, NothingIssued
<1>9. ASSUME NEW j \in Calls, Prog[j].kind = "dispatch"
      PROVE  SourcesKept(r, j)'
  <2>1. j \in Nat /\ n # 2 * j - 1
    BY <1>1, RankFacts, EvenIsMain
  <2> QED BY <1>1, <1>3, <1>5, <1>9, <2>1, SourcesStay
<1>10. entered'[r] >= entered[r] /\ n <= Enqueued(r)
  BY <1>1, <1>2, <1>5, RankFacts
<1> HIDE DEF n
<1> QED BY <1>1, <1>3, <1>5, <1>7, <1>8, <1>9, <1>10, KernelStep DEF n

LEMMA ArriveStep ==
  ASSUME IInv, NEW r \in Ranks, Arrive(r)
  PROVE  IInv'
<1> DEFINE n == kernels[r]
<1>1. stage[r] = "work" /\ OnMain(r) /\ n < Enqueued(r) /\ n % 2 = 0 /\ n \in Nat
  BY RankFacts DEF Arrive, OnMain
<1>2. entered[r] = n + 1 /\ left[r] = n + 1
  BY <1>1, RankFacts DEF InStep, EnteredBy, LeftBy
<1>3. Moves(r, "leave", n)
  BY RankFacts DEF Arrive, Moves, hostVars, notifyVars, tokenVars, IInv, CountTypes
<1>4. entered' = [entered EXCEPT ![r] = n + 2] /\ left' = left
  <2>1. entered[r] + 1 = n + 2
    BY <1>1, <1>2
  <2> QED BY <2>1 DEF Arrive, B!Enter
<1>5. /\ entered' \in [Ranks -> Nat] /\ left' \in [Ranks -> Nat]
      /\ \A q \in Ranks \ {r} : entered'[q] = entered[q] /\ left'[q] = left[q]
      /\ entered'[r] = n + 2 /\ left'[r] = n + 1
      /\ stage'[r] = "leave" /\ kernels'[r] = n
  BY <1>1, <1>2, <1>3, <1>4 DEF IInv, CountTypes, Moves
<1>6. \A q \in Ranks : left'[r] <= entered'[q]
  BY <1>1, <1>2, <1>5, RankFacts DEF InStep
<1>7. InStep(r)'
  BY <1>1, <1>5, <1>6 DEF InStep, EnteredBy, LeftBy, OnMain
<1>8. \A m \in stores \cup counts : m.from # r
  BY DEF Arrive
<1>9. ASSUME NEW j \in Calls, Prog[j].kind = "dispatch"
      PROVE  SourcesKept(r, j)'
  <2>1. j \in Nat /\ n # 2 * j - 1
    BY <1>1, RankFacts, EvenIsMain
  <2> QED BY <1>1, <1>3, <1>5, <1>9, <2>1, SourcesStay
<1>10. entered'[r] >= entered[r] /\ n <= Enqueued(r)
  BY <1>1, <1>2, <1>5, RankFacts
<1> HIDE DEF n
<1> QED BY <1>1, <1>3, <1>5, <1>7, <1>8, <1>9, <1>10, KernelStep DEF n

LEMMA EndMainStep ==
  ASSUME IInv, NEW r \in Ranks, EndMain(r)
  PROVE  IInv'
<1> DEFINE n == kernels[r]
<1>1. stage[r] = "leave" /\ OnMain(r) /\ n < Enqueued(r) /\ n % 2 = 0 /\ n \in Nat
  BY RankFacts DEF EndMain, OnMain, InStep
<1>2. entered[r] = n + 2 /\ left[r] = n + 1
  BY <1>1, RankFacts DEF InStep, EnteredBy, LeftBy
<1>3. Moves(r, "idle", n + 1)
  BY RankFacts DEF EndMain, Moves, hostVars, notifyVars, IInv, CountTypes
<1>4. /\ left' = [left EXCEPT ![r] = n + 2] /\ entered' = entered
      /\ \A q \in Ranks \ {r} : entered[q] >= n + 2
  <2>1. left[r] + 1 = n + 2
    BY <1>1, <1>2
  <2> QED BY <1>2, <2>1 DEF EndMain, B!Leave
<1>5. /\ entered' \in [Ranks -> Nat] /\ left' \in [Ranks -> Nat]
      /\ \A q \in Ranks \ {r} : entered'[q] = entered[q] /\ left'[q] = left[q]
      /\ entered'[r] = n + 2 /\ left'[r] = n + 2
      /\ stage'[r] = "idle" /\ kernels'[r] = n + 1
  BY <1>1, <1>2, <1>3, <1>4 DEF IInv, CountTypes, Moves
<1>6. \A q \in Ranks : left'[r] <= entered'[q]
  BY <1>1, <1>4, <1>5
<1>7. InStep(r)'
  <2>1. (n + 1) % 2 # 0
    BY <1>1, EvenIsMain
  <2> QED BY <1>1, <1>5, <1>6, <2>1 DEF InStep, EnteredBy, LeftBy, OnMain
<1>8. \A m \in stores \cup counts : m.from # r
  BY <1>1, NothingIssued
<1>9. ASSUME NEW j \in Calls, Prog[j].kind = "dispatch"
      PROVE  SourcesKept(r, j)'
  <2>1. j \in Nat /\ (n + 1 >= 2 * j => n >= 2 * j)
    BY <1>1, RankFacts, EvenIsMain
  <2>2. n + 1 \in Nat
    BY <1>1
  <2> QED BY <1>1, <1>3, <1>5, <1>9, <2>1, <2>2, SourcesStay
<1>10. entered'[r] >= entered[r] /\ n + 1 <= Enqueued(r) /\ n + 1 \in Nat
  BY <1>1, <1>2, <1>5, RankFacts
<1> HIDE DEF n
<1> QED BY <1>1, <1>3, <1>5, <1>7, <1>8, <1>9, <1>10, KernelStep DEF n

LEMMA StartEpilogueStep ==
  ASSUME IInv, NEW r \in Ranks, StartEpilogue(r)
  PROVE  IInv'
<1> DEFINE n == kernels[r]
<1>1. stage[r] = "idle" /\ ~OnMain(r) /\ n < Enqueued(r) /\ n % 2 # 0 /\ n \in Nat
  BY RankFacts DEF StartEpilogue, OnMain
<1>2. Moves(r, "work", n) /\ done'[r] = {} /\ entered' = entered /\ left' = left
  BY RankFacts DEF StartEpilogue, Moves, hostVars, notifyVars, barrierVars, IInv, CountTypes
<1>3. /\ entered' \in [Ranks -> Nat] /\ left' \in [Ranks -> Nat]
      /\ \A q \in Ranks \ {r} : entered'[q] = entered[q] /\ left'[q] = left[q]
      /\ stage'[r] = "work" /\ kernels'[r] = n
  BY <1>1, <1>2 DEF IInv, CountTypes, Moves
<1>4. InStep(r)'
  BY <1>1, <1>2, <1>3, RankFacts DEF InStep, EnteredBy, LeftBy, OnMain
<1>5. \A m \in stores \cup counts : m.from # r
  BY <1>1, NothingIssued
<1>6. ASSUME NEW j \in Calls, Prog[j].kind = "dispatch"
      PROVE  SourcesKept(r, j)'
  <2>1. SourcesKept(r, j) /\ Home(j) = j /\ Home(j)' = j
    <3>1. Home(j)' = Home(j)
      BY <1>2 DEF Home, Source, Prog, Moves
    <3> QED BY <1>6, <3>1, HomeIsDispatch DEF IInv, CountTypes
  <2>2. NumRecv(r, j)' = NumRecv(r, j) /\ handle'[r][j].meta = handle[r][j].meta
    BY <1>2, <2>1 DEF NumRecv, Moves
  <2> QED BY <1>2, <1>3, <2>1, <2>2 DEF SourcesKept
<1>7. entered'[r] >= entered[r] /\ n <= Enqueued(r)
  BY <1>1, <1>2, RankFacts
<1> HIDE DEF n
<1> QED BY <1>1, <1>2, <1>3, <1>4, <1>5, <1>6, <1>7, KernelStep DEF n

\* The epilogue of a dispatch ends when it is through with every token that came.
LEMMA EndEpilogueStep ==
  ASSUME IInv, NEW r \in Ranks, EndEpilogue(r)
  PROVE  IInv'
<1> DEFINE n == kernels[r]
           k == CallOf(r)
<1>1. /\ stage[r] = "work" /\ ~OnMain(r) /\ n < Enqueued(r) /\ n % 2 # 0 /\ n \in Nat
      /\ k \in Nat /\ n = 2 * k - 1
  BY RankFacts, CallArithmetic DEF EndEpilogue, OnMain, IInv
<1>2. entered[r] = n + 1 /\ left[r] = n + 1
  BY <1>1, RankFacts DEF InStep, EnteredBy, LeftBy
<1>3. Moves(r, "idle", n + 1) /\ done' = done /\ entered' = entered /\ left' = left
  BY RankFacts DEF EndEpilogue, Moves, hostVars, notifyVars, tokenVars, barrierVars, IInv, CountTypes
<1>4. /\ entered' \in [Ranks -> Nat] /\ left' \in [Ranks -> Nat]
      /\ \A q \in Ranks \ {r} : entered'[q] = entered[q] /\ left'[q] = left[q]
      /\ stage'[r] = "idle" /\ kernels'[r] = n + 1
  BY <1>1, <1>3 DEF IInv, CountTypes, Moves
<1>5. (n + 1) % 2 = 0
  BY <1>1
<1>6. InStep(r)'
  BY <1>1, <1>2, <1>3, <1>4, <1>5, RankFacts DEF InStep, EnteredBy, LeftBy, OnMain
<1>7. \A m \in stores \cup counts : m.from # r
  BY <1>1, NothingIssued
<1>8. ASSUME NEW j \in Calls, Prog[j].kind = "dispatch"
      PROVE  SourcesKept(r, j)'
  <2>1. j \in Nat /\ n + 1 \in Nat
    BY <1>1, RankFacts
  <2>2. CASE j # k
    <3>1. n + 1 >= 2 * j => n >= 2 * j
      BY <1>1, <2>1, <2>2
    <3> QED BY <1>3, <1>4, <1>8, <2>1, <3>1, SourcesStay
  <2>3. CASE j = k
    <3>1. SourcesKept(r, j) /\ Home(j) = j /\ Home(j)' = j
      <4>1. Home(j)' = Home(j)
        BY <1>3 DEF Home, Source, Prog, Moves
      <4> QED BY <1>8, <4>1, HomeIsDispatch DEF IInv, CountTypes
    <3>2. NumRecv(r, j)' = NumRecv(r, j) /\ handle'[r][j].meta = handle[r][j].meta
      BY <1>3, <3>1 DEF NumRecv, Moves
    <3>3. done[r] = 0 .. NumRecv(r, j) - 1
      BY <1>1, <1>8, <2>3 DEF EndEpilogue, Items, Kind
    <3>4. done[r] \subseteq DOMAIN handle[r][j].meta
      BY <1>1, <2>3, <3>1 DEF SourcesKept
    <3> QED BY <1>4, <3>1, <3>2, <3>3, <3>4 DEF SourcesKept
  <2> QED BY <2>2, <2>3
<1>9. entered'[r] >= entered[r] /\ n + 1 <= Enqueued(r) /\ n + 1 \in Nat
  <2>1. Enqueued(r) \in Int
    BY RankFacts
  <2>2. entered'[r] = n + 1
    BY <1>2, <1>3
  <2> QED BY <1>1, <1>2, <2>1, <2>2
<1> HIDE DEF n
<1> QED BY <1>1, <1>3, <1>4, <1>6, <1>7, <1>8, <1>9, KernelStep DEF n

-----------------------------------------------------------------------------
LEMMA IInvStep == IInv /\ [Next]_vars => IInv'
<1> SUFFICES ASSUME IInv, [Next]_vars
             PROVE  IInv'
  OBVIOUS
<1>1. ASSUME NEW r \in Ranks, Host(r)
      PROVE  IInv'
  BY <1>1, HostStep
<1>2. ASSUME NEW r \in Ranks, Running(r), Notify(r)
      PROVE  IInv'
  BY <1>2, NotifyQuiet, NotifySendStep, NotifyFinishStep DEF Notify
<1>3. ASSUME NEW r \in Ranks, Running(r), Main(r)
      PROVE  IInv'
  BY <1>3, StartMainStep, PassEntryStep, SendTokenStep, SendBackStep, ArriveStep, EndMainStep DEF Main
<1>4. ASSUME NEW r \in Ranks, Running(r), Epilogue(r)
      PROVE  IInv'
  BY <1>4, StartEpilogueStep, CopyTokenStep, ReduceTokenStep, EndEpilogueStep DEF Epilogue
<1>5. ASSUME NEW m \in stores, LandStore(m)
      PROVE  IInv'
  BY <1>5, LandStep
<1>6. ASSUME NEW m \in counts, LandCounts(m)
      PROVE  IInv'
  BY <1>6, LandStep
<1>7. CASE UNCHANGED vars
  BY <1>7, QuietStep DEF vars, IInv
<1> QED BY <1>1, <1>2, <1>3, <1>4, <1>5, <1>6, <1>7 DEF Next

\* Where a rank is in its kernels tells how many barriers it has been through, no rank
\* leaves a barrier that another has not entered, and whatever is on its way was issued by
\* a rank that still works in the first kernel of that very call.
THEOREM Invariance == Spec => []IInv
<1> QED BY IInvInit, IInvStep, PTL DEF Spec

\* Any number of ranks, experts and tokens, any program: no token and no count of a call
\* finds its receiver outside that call's first kernel, where the buffer or the words could
\* still serve the call before or already the next.
THEOREM CallsKeptApart == Spec => []PutsOwned
<1> QED BY Invariance, OwnedFromInv, PTL


-----------------------------------------------------------------------------
(***************************************************************************)
(* What a program routes, and the words by which the ranks tell each other *)
(* how much will come.                                                     *)
(***************************************************************************)

\* The tokens that call k sends from rank s to rank d, and to expert e.
FromTo(k, s, d) == {t \in DOMAIN Rows(k, s) : d \in Dsts(Rows(k, s)[t])}
ExpertFrom(k, s, e) == {t \in DOMAIN Rows(k, s) : \E l \in DOMAIN Rows(k, s)[t] : Rows(k, s)[t][l] = e}
Count(k, s, d) == Cardinality(FromTo(k, s, d))
ExpertCount(k, s, e) == Cardinality(ExpertFrom(k, s, e))

\* What rank s owes rank d in dispatch k: the words as they travel.
Owed(k, s, d) ==
  [from |-> s, to |-> d, call |-> k, rank |-> Encode(Count(k, s, d)),
   expert |-> [x \in LocalExperts |-> Encode(ExpertCount(k, s, d * NumExpertsPerRank + x))]]

LEMMA RowFacts ==
  ASSUME setup \in Setups, NEW k \in Calls, NEW s \in Ranks
  PROVE  /\ Rows(k, s) \in Seq(Row) /\ Len(Rows(k, s)) \in Nat
         /\ DOMAIN Rows(k, s) = 1 .. Len(Rows(k, s)) /\ Len(Rows(k, s)) <= NumMaxTokensPerRank
         /\ \A t \in DOMAIN Rows(k, s) : /\ Rows(k, s)[t] \in Row /\ DOMAIN Rows(k, s)[t] = Lanes
                                         /\ Dsts(Rows(k, s)[t]) \subseteq Ranks
<1>1. Rows(k, s) \in Seq(Row) /\ Home(k) \in Calls
  BY HomeIsDispatch
<1>2. Len(Rows(k, s)) <= NumMaxTokensPerRank
  BY <1>1, SetupsAssumption DEF Rows, Prog, Calls
<1>3. \A t \in DOMAIN Rows(k, s) : Rows(k, s)[t] \in Row
  BY <1>1
<1> QED BY <1>1, <1>2, <1>3, DestinationsAreRanks DEF Row

LEMMA CountFacts ==
  ASSUME setup \in Setups, NEW k \in Calls, NEW s \in Ranks
  PROVE  /\ \A d : /\ IsFiniteSet(FromTo(k, s, d)) /\ FromTo(k, s, d) \subseteq 1 .. NumMaxTokensPerRank
                   /\ FromTo(k, s, d) \subseteq Nat
                   /\ Count(k, s, d) \in Nat /\ Count(k, s, d) <= NumMaxTokensPerRank
         /\ \A e : /\ IsFiniteSet(ExpertFrom(k, s, e)) /\ ExpertFrom(k, s, e) \subseteq Nat
                   /\ ExpertCount(k, s, e) \in Nat
<1>1. NumMaxTokensPerRank \in Nat
  BY SizesAssumption
<1>2. DOMAIN Rows(k, s) \subseteq 1 .. NumMaxTokensPerRank
  BY <1>1, RowFacts
<1>3. IsFiniteSet(1 .. NumMaxTokensPerRank) /\ Cardinality(1 .. NumMaxTokensPerRank) = NumMaxTokensPerRank
  <2>1. 1 \in Int /\ NumMaxTokensPerRank \in Int /\ NumMaxTokensPerRank - 1 + 1 = NumMaxTokensPerRank
        /\ (1 > NumMaxTokensPerRank => NumMaxTokensPerRank = 0)
    BY <1>1
  <2> QED BY <2>1, FS_Interval
<1>4. ASSUME NEW T, T \subseteq DOMAIN Rows(k, s)
      PROVE  /\ IsFiniteSet(T) /\ T \subseteq 1 .. NumMaxTokensPerRank /\ T \subseteq Nat
             /\ Cardinality(T) \in Nat /\ Cardinality(T) <= NumMaxTokensPerRank
  <2>1. T \in SUBSET (1 .. NumMaxTokensPerRank)
    BY <1>2, <1>4
  <2>2. IsFiniteSet(T) /\ Cardinality(T) <= NumMaxTokensPerRank
    BY <1>3, <2>1, FS_Subset
  <2> QED BY <2>1, <2>2, FS_CardinalityType
<1>5. \A d : FromTo(k, s, d) \subseteq DOMAIN Rows(k, s)
  BY DEF FromTo
<1>6. \A e : ExpertFrom(k, s, e) \subseteq DOMAIN Rows(k, s)
  BY DEF ExpertFrom
<1> QED BY <1>4, <1>5, <1>6 DEF Count, ExpertCount

\* Programs do not change.
LEMMA RoutingFixed ==
  ASSUME setup' = setup
  PROVE  /\ Prog' = Prog /\ Calls' = Calls
         /\ \A k : Home(k)' = Home(k) /\ Expanded(k)' = Expanded(k) /\ ReusesSlots(k)' = ReusesSlots(k)
         /\ \A k, s : Rows(k, s)' = Rows(k, s)
         /\ \A k, s, d : /\ FromTo(k, s, d)' = FromTo(k, s, d) /\ ExpertFrom(k, s, d)' = ExpertFrom(k, s, d)
                         /\ Count(k, s, d)' = Count(k, s, d) /\ ExpertCount(k, s, d)' = ExpertCount(k, s, d)
                         /\ Owed(k, s, d)' = Owed(k, s, d)
<1>1. Prog' = Prog /\ Calls' = Calls
  BY DEF Prog, Calls
<1>2. \A k : Home(k)' = Home(k)
  BY <1>1 DEF Home, Source
<1>3. \A k : Expanded(k)' = Expanded(k) /\ ReusesSlots(k)' = ReusesSlots(k)
  BY <1>1, <1>2 DEF Expanded, ReusesSlots
<1>4. \A k, s : Rows(k, s)' = Rows(k, s)
  BY <1>1, <1>2 DEF Rows
<1>5. \A k, s, d : FromTo(k, s, d)' = FromTo(k, s, d) /\ ExpertFrom(k, s, d)' = ExpertFrom(k, s, d)
  BY <1>4 DEF FromTo, ExpertFrom
<1>6. \A k, s, d : Count(k, s, d)' = Count(k, s, d) /\ ExpertCount(k, s, d)' = ExpertCount(k, s, d)
  BY <1>5 DEF Count, ExpertCount
<1>7. \A k, s, d : Owed(k, s, d)' = Owed(k, s, d)
  BY <1>6 DEF Owed
<1> QED BY <1>1, <1>2, <1>3, <1>4, <1>5, <1>6, <1>7

\* A word in which a count is stored is never 0, and gives the count back.
LEMMA EncodeFacts ==
  /\ \A n \in Nat : /\ Encode(n) \in Int /\ Encode(n) # 0 /\ IsReady(Encode(n)) /\ Encode(Encode(n)) = n
  /\ ~IsReady(0)
BY DEF Encode, IsReady

\* A sender at work finds its receiver in the first kernel of the same call.
LEMMA SameMain ==
  ASSUME IInv, NEW f \in Ranks, NEW t \in Ranks, stage[f] = "work", OnMain(f)
  PROVE  /\ stage[t] \in {"enter", "work", "leave"} /\ OnMain(t)
         /\ kernels[t] = kernels[f] /\ CallOf(t) = CallOf(f)
<1>2. /\ entered[f] = kernels[f] + 1 /\ left[f] = kernels[f] + 1
  BY DEF IInv, InStep, EnteredBy, LeftBy
<1>3. left[f] <= entered[t] /\ left[t] <= entered[f]
  BY DEF IInv, InStep
<1>4. /\ kernels[f] \in Nat /\ kernels[t] \in Nat /\ kernels[f] % 2 = 0
      /\ stage[t] \in {"idle", "enter", "work", "leave"}
  BY DEF IInv, CountTypes, OnMain
<1>5. entered[t] = EnteredBy(t) /\ left[t] = LeftBy(t)
  BY DEF IInv, InStep
<1>6. stage[t] # "idle" /\ OnMain(t) /\ kernels[t] = kernels[f]
  BY <1>2, <1>3, <1>4, <1>5 DEF EnteredBy, LeftBy, OnMain
<1> QED BY <1>4, <1>6 DEF CallOf

-----------------------------------------------------------------------------
(***************************************************************************)
(* The invariant of the words.  A count is owed by a sender until it has   *)
(* been told; from then on it is on its way, or in its word, or taken: in  *)
(* one of these places, so that a word is clean whenever one lands in it,  *)
(* and clean again when the kernel ends.                                   *)
(***************************************************************************)

InDispatch(r) == stage[r] # "idle" /\ OnMain(r) /\ Kind(r) = "dispatch"

\* Rank s has told the others its counts of dispatch k.
Told(s, k) == \/ kernels[s] >= 2 * k - 1
              \/ kernels[s] = 2 * k - 2 /\ stage[s] \in {"work", "leave"} /\ notify[s] # "count"

NotifyPlace(r) ==
  /\ notify[r] \in {"count", "wait", "done"}
  /\ notify[r] # "done" => stage[r] \in {"enter", "work"} /\ OnMain(r) /\ Kind(r) = "dispatch"
  /\ stage[r] = "enter" /\ Kind(r) = "dispatch" => notify[r] = "count"

\* The reduction words when the SMs of S have added their tokens.
Reduced(k, r, S) ==
  [sms |-> Cardinality(S),
   rank |-> [d \in Ranks |-> Cardinality({t \in FromTo(k, r, d) : t % NumSMs \in S})],
   expert |-> [e \in Experts |-> Cardinality({t \in ExpertFrom(k, r, e) : t % NumSMs \in S})]]

Counting(r) ==
  /\ counted[r] \subseteq SMs
  /\ notify[r] = "count" => reduction[r] = Reduced(CallOf(r), r, counted[r])
  /\ notify[r] # "count" => reduction[r] = ZeroReduction
  /\ notify[r] # "count" /\ MainRuns(r, {"dispatch"}) => counted[r] = SMs

WordClean(d, s) == inbox[d].rank[s] = 0 /\ inbox[d].expert[s] = [e \in LocalExperts |-> 0]
Holds(d, s, m)  == inbox[d].rank[s] = m.rank /\ inbox[d].expert[s] = m.expert
Waits(d, s)     == InDispatch(d) /\ notify[d] # "done" /\ taken[d][s] = NotTaken

\* What rank d takes of rank s in dispatch k.
Due(k, s, d) == [n |-> Count(k, s, d),
                 e |-> [x \in LocalExperts |-> ExpertCount(k, s, d * NumExpertsPerRank + x)]]

OnTheWay(m) ==
  /\ m.call \in Calls /\ Prog[m.call].kind = "dispatch"
  /\ m = Owed(m.call, m.from, m.to)
  /\ notify[m.from] # "count"
  /\ WordClean(m.to, m.from) /\ Waits(m.to, m.from)
InWord(d, s) ==
  \/ WordClean(d, s)
  \/ Waits(d, s) /\ Holds(d, s, Owed(CallOf(d), s, d)) /\ Told(s, CallOf(d))
Taken(d, s) ==
  InDispatch(d) =>
    /\ taken[d][s] # NotTaken => taken[d][s] = Due(CallOf(d), s, d) /\ Told(s, CallOf(d))
    /\ notify[d] = "done" => taken[d][s] # NotTaken

WordTypes ==
  /\ notify \in [Ranks -> {"count", "wait", "done"}]
  /\ DOMAIN counted = Ranks /\ DOMAIN reduction = Ranks
  /\ DOMAIN taken = Ranks /\ \A r \in Ranks : DOMAIN taken[r] = Ranks
  /\ inbox \in [Ranks -> [rank : [Ranks -> Int], expert : [Ranks -> [LocalExperts -> Int]]]]

WordsInv ==
  /\ WordTypes
  /\ \A r \in Ranks : NotifyPlace(r) /\ Counting(r)
  /\ \A m \in counts : OnTheWay(m)
  /\ \A d, s \in Ranks : InWord(d, s) /\ Taken(d, s)

wordVars == <<setup, kernels, stage, notify, counted, taken, reduction, inbox, counts>>

LEMMA WordsInit == Init => WordsInv
<1> SUFFICES ASSUME Init
             PROVE  WordsInv
  OBVIOUS
<1>1. WordTypes
  BY DEF Init, WordTypes, ZeroWords
<1>2. ASSUME NEW r \in Ranks
      PROVE  NotifyPlace(r) /\ Counting(r)
  BY DEF Init, NotifyPlace, Counting, MainRuns
<1>3. ASSUME NEW d \in Ranks, NEW s \in Ranks
      PROVE  InWord(d, s) /\ Taken(d, s)
  BY DEF Init, InWord, WordClean, Taken, InDispatch, ZeroWords
<1> QED BY <1>1, <1>2, <1>3 DEF WordsInv, Init

LEMMA WordsQuiet ==
  ASSUME WordsInv, UNCHANGED wordVars
  PROVE  WordsInv'
<1>0. UNCHANGED <<setup, kernels, stage, notify, counted, taken, reduction, inbox, counts>>
  BY DEF wordVars
<1>1. /\ Prog' = Prog /\ Calls' = Calls
      /\ \A k, s, d : /\ FromTo(k, s, d)' = FromTo(k, s, d) /\ ExpertFrom(k, s, d)' = ExpertFrom(k, s, d)
                      /\ Count(k, s, d)' = Count(k, s, d) /\ ExpertCount(k, s, d)' = ExpertCount(k, s, d)
                      /\ Owed(k, s, d)' = Owed(k, s, d)
  BY <1>0, RoutingFixed
<1>2. \A r : CallOf(r)' = CallOf(r) /\ OnMain(r)' = OnMain(r) /\ Kind(r)' = Kind(r) /\ InDispatch(r)' = InDispatch(r)
  BY <1>0, <1>1 DEF CallOf, OnMain, Kind, InDispatch
<1>3. \A s, k : Told(s, k)' = Told(s, k)
  BY <1>0 DEF Told
<1>4. \A r \in Ranks : NotifyPlace(r)' = NotifyPlace(r)
  BY <1>0, <1>2 DEF NotifyPlace
<1>5. \A k, r, S : Reduced(k, r, S)' = Reduced(k, r, S)
  BY <1>1 DEF Reduced
<1>6. \A r \in Ranks : Counting(r)' = Counting(r)
  <2>1. \A r : Reduced(CallOf(r), r, counted[r])' = Reduced(CallOf(r), r, counted[r])
    BY <1>0, <1>1, <1>2 DEF Reduced
  <2> QED BY <1>0, <1>2, <2>1 DEF Counting, MainRuns
<1>7. \A d, s : WordClean(d, s)' = WordClean(d, s) /\ Waits(d, s)' = Waits(d, s)
  BY <1>0, <1>2 DEF WordClean, Waits
<1>8. ASSUME NEW m \in counts', OnTheWay(m)
      PROVE  OnTheWay(m)'
  BY <1>0, <1>1, <1>7, <1>8 DEF OnTheWay
<1>9. \A d, s \in Ranks : InWord(d, s)' = InWord(d, s)
  <2>1. ASSUME NEW d \in Ranks, NEW s \in Ranks, NEW k, k = CallOf(d)
        PROVE  InWord(d, s)' = InWord(d, s)
    <3>1. k = CallOf(d)'
      BY <1>2, <2>1
    <3> QED BY <1>0, <1>1, <1>3, <1>7, <2>1, <3>1 DEF InWord, Holds
  <2> QED BY <2>1
<1>10. \A d, s \in Ranks : Taken(d, s)' = Taken(d, s)
  <2>1. ASSUME NEW d \in Ranks, NEW s \in Ranks, NEW k, k = CallOf(d)
        PROVE  Taken(d, s)' = Taken(d, s)
    <3>1. k = CallOf(d)'
      BY <1>2, <2>1
    <3>2. Due(k, s, d)' = Due(k, s, d)
      BY <1>1 DEF Due
    <3> QED BY <1>0, <1>2, <1>3, <2>1, <3>1, <3>2 DEF Taken
  <2> QED BY <2>1
<1> QED BY <1>0, <1>4, <1>6, <1>8, <1>9, <1>10 DEF WordsInv, WordTypes

\* One rank moves: the words stay in order if its own part does, if it does not take back
\* what it has told, and if it goes on waiting for what it waited for.
LEMMA WordsMove ==
  ASSUME WordsInv, NEW r \in Ranks, WordTypes', UNCHANGED <<setup, reduction, inbox, counts>>,
         \A q \in Ranks \ {r} : /\ kernels'[q] = kernels[q] /\ stage'[q] = stage[q]
                                /\ notify'[q] = notify[q] /\ counted'[q] = counted[q]
                                /\ taken'[q] = taken[q],
         (\A m \in counts : m.from # r) \/ notify'[r] = notify[r],
         \A m \in counts : m.from \in Ranks /\ m.to \in Ranks,
         \A d \in Ranks : CallOf(d) \in Nat,
         \A k \in Nat : Told(r, k) => Told(r, k)',
         NotifyPlace(r)', Counting(r)',
         \/ /\ InDispatch(r)' = InDispatch(r) /\ CallOf(r)' = CallOf(r)
            /\ notify'[r] = notify[r] /\ taken'[r] = taken[r]
         \/ \A s \in Ranks : ~Waits(r, s) /\ Taken(r, s)'
  PROVE  WordsInv'
<1>1. /\ Prog' = Prog /\ Calls' = Calls
      /\ \A k, s, d : /\ FromTo(k, s, d)' = FromTo(k, s, d) /\ ExpertFrom(k, s, d)' = ExpertFrom(k, s, d)
                      /\ Count(k, s, d)' = Count(k, s, d) /\ ExpertCount(k, s, d)' = ExpertCount(k, s, d)
                      /\ Owed(k, s, d)' = Owed(k, s, d)
  BY RoutingFixed
<1>2. \A q \in Ranks \ {r} : /\ CallOf(q)' = CallOf(q) /\ OnMain(q)' = OnMain(q) /\ Kind(q)' = Kind(q)
                             /\ InDispatch(q)' = InDispatch(q)
  BY <1>1 DEF CallOf, OnMain, Kind, InDispatch
<1>3. \A s \in Ranks : \A k \in Nat : Told(s, k) => Told(s, k)'
  <2>1. \A s \in Ranks \ {r} : \A k \in Nat : Told(s, k) => Told(s, k)'
    BY DEF Told
  <2> QED BY <2>1
<1>4. \A q \in Ranks \ {r} : NotifyPlace(q)'
  BY <1>2 DEF NotifyPlace, WordsInv
<1>5. \A q \in Ranks \ {r} : Counting(q)'
  <2>1. \A q \in Ranks \ {r} : Reduced(CallOf(q), q, counted[q])' = Reduced(CallOf(q), q, counted[q])
    BY <1>1, <1>2 DEF Reduced
  <2> QED BY <1>2, <2>1 DEF Counting, MainRuns, WordsInv
<1>6. \A d, s : WordClean(d, s)' = WordClean(d, s)
  BY DEF WordClean
<1>7. \A q \in Ranks : \A s \in Ranks : Waits(q, s) => Waits(q, s)' /\ CallOf(q)' = CallOf(q)
  <2>1. \A q \in Ranks \ {r} : \A s \in Ranks : Waits(q, s) => Waits(q, s)' /\ CallOf(q)' = CallOf(q)
    BY <1>2 DEF Waits
  <2>2. \A s \in Ranks : Waits(r, s) => Waits(r, s)' /\ CallOf(r)' = CallOf(r)
    BY DEF Waits
  <2> QED BY <2>1, <2>2
<1>8. ASSUME NEW m \in counts'
      PROVE  OnTheWay(m)'
  <2>1. OnTheWay(m) /\ m.from \in Ranks /\ m.to \in Ranks
    BY DEF WordsInv
  <2>2. notify'[m.from] = notify[m.from]
    BY <2>1
  <2> QED BY <1>1, <1>6, <1>7, <2>1, <2>2 DEF OnTheWay
<1>9. ASSUME NEW d \in Ranks, NEW s \in Ranks
      PROVE  InWord(d, s)'
  <2>1. InWord(d, s)
    BY DEF WordsInv
  <2>2. CASE WordClean(d, s)
    BY <1>6, <2>2 DEF InWord
  <2>3. ASSUME NEW k \in Nat, k = CallOf(d), Waits(d, s), Holds(d, s, Owed(k, s, d)), Told(s, k)
        PROVE  InWord(d, s)'
    <3>1. Waits(d, s)' /\ CallOf(d)' = k
      BY <1>7, <2>3
    <3>2. Told(s, k)'
      BY <1>3, <2>3
    <3>3. Holds(d, s, Owed(k, s, d))'
      BY <1>1, <2>3 DEF Holds
    <3> QED BY <3>1, <3>2, <3>3 DEF InWord
  <2> QED BY <2>1, <2>2, <2>3 DEF InWord
<1>10. ASSUME NEW d \in Ranks, NEW s \in Ranks,
              InDispatch(d)' = InDispatch(d), CallOf(d)' = CallOf(d),
              notify'[d] = notify[d], taken'[d] = taken[d]
       PROVE  Taken(d, s)'
  <2>1. Taken(d, s)
    BY DEF WordsInv
  <2>2. PICK k \in Nat : k = CallOf(d)
    OBVIOUS
  <2>3. Due(k, s, d)' = Due(k, s, d)
    BY <1>1 DEF Due
  <2>4. CallOf(d)' = k
    BY <1>10, <2>2
  <2> QED BY <1>3, <1>10, <2>1, <2>2, <2>3, <2>4 DEF Taken
<1>11. \A d, s \in Ranks : Taken(d, s)'
  BY <1>2, <1>10
<1> QED BY <1>4, <1>5, <1>8, <1>9, <1>11 DEF WordsInv

\* Nobody has sent to a rank that does not wait, and its words are clean.
LEMMA NotWaiting ==
  ASSUME WordsInv, NEW d \in Ranks, NEW s \in Ranks, ~Waits(d, s)
  PROVE  WordClean(d, s) /\ \A m \in counts : ~(m.from = s /\ m.to = d)
BY DEF WordsInv, InWord, OnTheWay

LEMMA StartMainWords ==
  ASSUME IInv, WordsInv, NEW r \in Ranks, Running(r), StartMain(r)
  PROVE  WordsInv'
<1> DEFINE k == CallOf(r)
<1>1. stage[r] = "idle" /\ OnMain(r) /\ notify[r] = "done"
  BY DEF StartMain, WordsInv, NotifyPlace
<1>2. /\ UNCHANGED <<setup, kernels, reduction, inbox, counts>>
      /\ stage' = [stage EXCEPT ![r] = "enter"]
      /\ notify' = [notify EXCEPT ![r] = IF Kind(r) = "dispatch" THEN "count" ELSE "done"]
      /\ counted' = [counted EXCEPT ![r] = {}]
      /\ taken' = [taken EXCEPT ![r] = [s \in Ranks |-> NotTaken]]
  BY DEF StartMain
<1>3. WordTypes'
  BY <1>2 DEF WordsInv, WordTypes
<1>4. /\ stage'[r] = "enter" /\ notify'[r] = IF Kind(r) = "dispatch" THEN "count" ELSE "done"
      /\ counted'[r] = {} /\ taken'[r] = [s \in Ranks |-> NotTaken]
      /\ \A q \in Ranks \ {r} : /\ kernels'[q] = kernels[q] /\ stage'[q] = stage[q]
                                /\ notify'[q] = notify[q] /\ counted'[q] = counted[q]
                                /\ taken'[q] = taken[q]
  BY <1>2 DEF WordsInv, WordTypes, IInv, CountTypes
<1>5. CallOf(r)' = k /\ OnMain(r)' /\ Kind(r)' = Kind(r) /\ k \in Calls
  BY <1>1, <1>2, RunningCall DEF CallOf, OnMain, Kind, Prog, IInv
<1>6. \A m \in counts : m.from # r
  BY <1>1, NothingIssued
<1>7. \A j \in Nat : Told(r, j) => Told(r, j)'
  BY <1>1, <1>2 DEF Told
<1>8. NotifyPlace(r)'
  BY <1>4, <1>5 DEF NotifyPlace
<1>9. Counting(r)'
  <2>1. Reduced(k, r, {}) = ZeroReduction
    <3>1. \A T : {t \in T : t % NumSMs \in {}} = {}
      OBVIOUS
    <3>2. Cardinality({}) = 0
      BY FS_EmptySet
    <3> QED BY <3>1, <3>2 DEF Reduced, ZeroReduction
  <2>2. Reduced(k, r, {})' = Reduced(k, r, {})
    BY <1>2, RoutingFixed DEF Reduced
  <2>3. reduction'[r] = ZeroReduction
    BY <1>1, <1>2 DEF WordsInv, Counting
  <2>4. ~MainRuns(r, {"dispatch"})'
    BY <1>4 DEF MainRuns
  <2>5. Reduced(CallOf(r), r, counted[r])' = Reduced(k, r, {})'
    BY <1>4, <1>5, <1>2, RoutingFixed DEF Reduced
  <2>6. ZeroReduction' = ZeroReduction
    BY DEF ZeroReduction
  <2> QED BY <1>4, <2>1, <2>2, <2>3, <2>4, <2>5, <2>6 DEF Counting
<1>10. ASSUME NEW s \in Ranks
       PROVE  ~Waits(r, s) /\ Taken(r, s)'
  BY <1>1, <1>4, <1>5 DEF Waits, InDispatch, Taken
<1>11. \A m \in counts : m.from \in Ranks /\ m.to \in Ranks
  BY DEF IInv, Issued
<1>12. \A d \in Ranks : CallOf(d) \in Nat
  BY CallArithmetic DEF IInv
<1> HIDE DEF k
<1> QED BY <1>2, <1>3, <1>4, <1>6, <1>7, <1>8, <1>9, <1>10, <1>11, <1>12, WordsMove


\* A move of rank r that leaves the words alone.
LEMMA WordsPlace ==
  ASSUME IInv, WordsInv, NEW r \in Ranks, setup' = setup, UNCHANGED notifyVars,
         \A q \in Ranks \ {r} : kernels'[q] = kernels[q] /\ stage'[q] = stage[q],
         \A k \in Nat : Told(r, k) => Told(r, k)',
         NotifyPlace(r)', Counting(r)',
         \/ InDispatch(r)' = InDispatch(r) /\ CallOf(r)' = CallOf(r)
         \/ notify[r] = "done" /\ ~InDispatch(r)'
  PROVE  WordsInv'
<1>1. UNCHANGED <<notify, counted, taken, reduction, inbox, counts>>
  BY DEF notifyVars
<1>2. WordTypes'
  BY <1>1 DEF WordTypes, WordsInv
<1>3. \A m \in counts : m.from \in Ranks /\ m.to \in Ranks
  BY DEF IInv, Issued
<1>4. \/ /\ InDispatch(r)' = InDispatch(r) /\ CallOf(r)' = CallOf(r)
         /\ notify'[r] = notify[r] /\ taken'[r] = taken[r]
      \/ \A s \in Ranks : ~Waits(r, s) /\ Taken(r, s)'
  BY <1>1 DEF Waits, Taken
<1>5. \A d \in Ranks : CallOf(d) \in Nat
  BY CallArithmetic DEF IInv
<1> QED BY <1>1, <1>2, <1>3, <1>4, <1>5, WordsMove

LEMMA PassEntryWords ==
  ASSUME IInv, WordsInv, NEW r \in Ranks, PassEntry(r)
  PROVE  WordsInv'
<1>1. /\ stage[r] = "enter" /\ stage' = [stage EXCEPT ![r] = "work"]
      /\ UNCHANGED <<setup, kernels, notify, counted, taken, reduction, inbox, counts>>
      /\ UNCHANGED notifyVars
  BY DEF PassEntry, notifyVars
<1>2. OnMain(r)
  BY <1>1 DEF IInv, InStep
<1>3. stage'[r] = "work" /\ \A q \in Ranks \ {r} : kernels'[q] = kernels[q] /\ stage'[q] = stage[q]
  BY <1>1 DEF IInv, CountTypes
<1>4. CallOf(r)' = CallOf(r) /\ OnMain(r)' = OnMain(r) /\ Kind(r)' = Kind(r)
  BY <1>1 DEF CallOf, OnMain, Kind, Prog
<1>5. InDispatch(r)' = InDispatch(r)
  BY <1>1, <1>3, <1>4 DEF InDispatch
<1>6. \A k \in Nat : Told(r, k) => Told(r, k)'
  BY <1>1, <1>3 DEF Told
<1>7. NotifyPlace(r)'
  BY <1>1, <1>2, <1>3, <1>4 DEF WordsInv, NotifyPlace
<1>8. Counting(r)'
  <2>1. PICK k : k = CallOf(r)
    OBVIOUS
  <2>2. Counting(r) /\ NotifyPlace(r) /\ CallOf(r)' = k
    BY <1>4, <2>1 DEF WordsInv
  <2>3. Reduced(k, r, counted[r])' = Reduced(k, r, counted[r])
    BY <1>1, RoutingFixed DEF Reduced
  <2>4. MainRuns(r, {"dispatch"})' => notify[r] = "count"
    BY <1>1, <1>4, <2>2 DEF MainRuns, NotifyPlace
  <2>5. ZeroReduction' = ZeroReduction
    BY DEF ZeroReduction
  <2> QED BY <1>1, <2>1, <2>2, <2>3, <2>4, <2>5 DEF Counting
<1> QED BY <1>1, <1>3, <1>4, <1>5, <1>6, <1>7, <1>8, WordsPlace

\* A rank whose notify warps are through is on its way to the end of the kernel.
LEMMA CountingDone ==
  ASSUME WordsInv, NEW r \in Ranks, setup' = setup, UNCHANGED notifyVars, notify[r] = "done",
         stage'[r] # "enter", ~MainRuns(r, {"dispatch"})'
  PROVE  NotifyPlace(r)' /\ Counting(r)'
<1>1. UNCHANGED <<notify, counted, reduction>> /\ ZeroReduction' = ZeroReduction
  BY DEF notifyVars, ZeroReduction
<1>2. NotifyPlace(r)'
  BY <1>1 DEF NotifyPlace
<1>3. Counting(r)'
  BY <1>1 DEF WordsInv, Counting
<1> QED BY <1>2, <1>3

LEMMA ArriveWords ==
  ASSUME IInv, WordsInv, NEW r \in Ranks, Arrive(r)
  PROVE  WordsInv'
<1>1. /\ stage[r] = "work" /\ OnMain(r) /\ notify[r] = "done" /\ stage' = [stage EXCEPT ![r] = "leave"]
      /\ UNCHANGED <<setup, kernels, notify>> /\ UNCHANGED notifyVars
  BY DEF Arrive, notifyVars
<1>2. stage'[r] = "leave" /\ \A q \in Ranks \ {r} : kernels'[q] = kernels[q] /\ stage'[q] = stage[q]
  BY <1>1 DEF IInv, CountTypes
<1>3. CallOf(r)' = CallOf(r) /\ OnMain(r)' = OnMain(r) /\ Kind(r)' = Kind(r)
  BY <1>1 DEF CallOf, OnMain, Kind, Prog
<1>4. InDispatch(r)' = InDispatch(r)
  BY <1>1, <1>2, <1>3 DEF InDispatch
<1>5. \A k \in Nat : Told(r, k) => Told(r, k)'
  BY <1>1, <1>2 DEF Told
<1>6. NotifyPlace(r)' /\ Counting(r)'
  <2>1. ~MainRuns(r, {"dispatch"})' /\ stage'[r] # "enter"
    BY <1>2 DEF MainRuns
  <2> QED BY <1>1, <2>1, CountingDone
<1> QED BY <1>1, <1>2, <1>3, <1>4, <1>5, <1>6, WordsPlace

\* A kernel starts or ends with the notify warps through.
LEMMA KernelWords ==
  ASSUME IInv, WordsInv, NEW r \in Ranks, NEW st \in {"idle", "work"}, NEW n \in Nat,
         setup' = setup, UNCHANGED notifyVars,
         stage' = [stage EXCEPT ![r] = st], kernels' = [kernels EXCEPT ![r] = n],
         notify[r] = "done", n = kernels[r] \/ n = kernels[r] + 1,
         kernels[r] % 2 = 0 => stage[r] = "leave",
         st = "work" => n % 2 # 0, st = "idle" => n = kernels[r] + 1
  PROVE  WordsInv'
<1>1. /\ stage'[r] = st /\ kernels'[r] = n
      /\ \A q \in Ranks \ {r} : kernels'[q] = kernels[q] /\ stage'[q] = stage[q]
  BY DEF IInv, CountTypes
<1>2. notify'[r] = "done"
  BY DEF notifyVars
<1>3. ~InDispatch(r)' /\ ~MainRuns(r, {"dispatch"})'
  BY <1>1 DEF InDispatch, MainRuns, OnMain
<1>4. NotifyPlace(r)' /\ Counting(r)'
  BY <1>1, <1>3, CountingDone
<1>5. \A k \in Nat : Told(r, k) => Told(r, k)'
  <2>1. kernels[r] \in Nat
    BY DEF IInv, CountTypes
  <2> QED BY <1>1, <1>2, <2>1 DEF Told
<1> QED BY <1>1, <1>3, <1>4, <1>5, WordsPlace

LEMMA EndMainWords ==
  ASSUME IInv, WordsInv, NEW r \in Ranks, EndMain(r)
  PROVE  WordsInv'
<1>1. /\ stage[r] = "leave" /\ stage' = [stage EXCEPT ![r] = "idle"]
      /\ kernels' = [kernels EXCEPT ![r] = @ + 1] /\ setup' = setup /\ UNCHANGED notifyVars
  BY DEF EndMain
<1>2. notify[r] = "done"
  BY <1>1 DEF WordsInv, NotifyPlace
<1>3. kernels[r] \in Nat
  BY DEF IInv, CountTypes
<1>4. kernels' = [kernels EXCEPT ![r] = kernels[r] + 1] /\ kernels[r] + 1 \in Nat
  BY <1>1, <1>3
<1> QED BY <1>1, <1>2, <1>3, <1>4, KernelWords

LEMMA StartEpilogueWords ==
  ASSUME IInv, WordsInv, NEW r \in Ranks, StartEpilogue(r)
  PROVE  WordsInv'
<1>1. /\ stage[r] = "idle" /\ ~OnMain(r) /\ stage' = [stage EXCEPT ![r] = "work"]
      /\ kernels' = kernels /\ setup' = setup /\ UNCHANGED notifyVars
  BY DEF StartEpilogue
<1>2. notify[r] = "done"
  BY <1>1 DEF WordsInv, NotifyPlace
<1>3. kernels[r] \in Nat /\ kernels[r] % 2 # 0
  BY <1>1 DEF IInv, CountTypes, OnMain
<1>4. kernels' = [kernels EXCEPT ![r] = kernels[r]]
  BY <1>1 DEF IInv, CountTypes
<1> QED BY <1>1, <1>2, <1>3, <1>4, KernelWords

LEMMA EndEpilogueWords ==
  ASSUME IInv, WordsInv, NEW r \in Ranks, EndEpilogue(r)
  PROVE  WordsInv'
<1>1. /\ stage[r] = "work" /\ ~OnMain(r) /\ stage' = [stage EXCEPT ![r] = "idle"]
      /\ kernels' = [kernels EXCEPT ![r] = @ + 1] /\ setup' = setup /\ UNCHANGED notifyVars
  BY DEF EndEpilogue
<1>2. notify[r] = "done"
  BY <1>1 DEF WordsInv, NotifyPlace
<1>3. kernels[r] \in Nat /\ kernels[r] % 2 # 0
  BY <1>1 DEF IInv, CountTypes, OnMain
<1>4. kernels' = [kernels EXCEPT ![r] = kernels[r] + 1] /\ kernels[r] + 1 \in Nat
  BY <1>1, <1>3
<1> QED BY <1>1, <1>2, <1>3, <1>4, KernelWords


-----------------------------------------------------------------------------
(* Steps of the notify warps. *)

\* What stays while no rank moves.
LEMMA Still ==
  ASSUME UNCHANGED <<setup, kernels, stage>>
  PROVE  /\ Prog' = Prog /\ Calls' = Calls
         /\ \A r : /\ CallOf(r)' = CallOf(r) /\ OnMain(r)' = OnMain(r) /\ Kind(r)' = Kind(r)
                   /\ InDispatch(r)' = InDispatch(r)
                   /\ MainRuns(r, {"dispatch"})' = MainRuns(r, {"dispatch"})
         /\ \A k, s, d : Owed(k, s, d)' = Owed(k, s, d) /\ Due(k, s, d)' = Due(k, s, d)
         /\ \A k, r, S : Reduced(k, r, S)' = Reduced(k, r, S)
         /\ ZeroReduction' = ZeroReduction /\ NotTaken' = NotTaken
<1>1. /\ Prog' = Prog /\ Calls' = Calls
      /\ \A k, s, d : /\ FromTo(k, s, d)' = FromTo(k, s, d) /\ ExpertFrom(k, s, d)' = ExpertFrom(k, s, d)
                      /\ Count(k, s, d)' = Count(k, s, d) /\ ExpertCount(k, s, d)' = ExpertCount(k, s, d)
                      /\ Owed(k, s, d)' = Owed(k, s, d)
  BY RoutingFixed
<1>2. \A r : CallOf(r)' = CallOf(r) /\ OnMain(r)' = OnMain(r) /\ Kind(r)' = Kind(r)
  BY <1>1 DEF CallOf, OnMain, Kind
<1>3. \A r : InDispatch(r)' = InDispatch(r) /\ MainRuns(r, {"dispatch"})' = MainRuns(r, {"dispatch"})
  BY <1>2 DEF InDispatch, MainRuns
<1>4. \A k, s, d : Due(k, s, d)' = Due(k, s, d)
  BY <1>1 DEF Due
<1>5. \A k, r, S : Reduced(k, r, S)' = Reduced(k, r, S)
  BY <1>1 DEF Reduced
<1>6. ZeroReduction' = ZeroReduction /\ NotTaken' = NotTaken
  BY DEF ZeroReduction, NotTaken
<1> QED BY <1>1, <1>2, <1>3, <1>4, <1>5, <1>6

\* The parts of the invariant that a step of rank r's notify warps leaves alone.
LEMMA OthersStill ==
  ASSUME WordsInv, NEW r \in Ranks, UNCHANGED <<setup, kernels, stage>>,
         \A q \in Ranks \ {r} : /\ notify'[q] = notify[q] /\ counted'[q] = counted[q]
                                /\ taken'[q] = taken[q] /\ reduction'[q] = reduction[q],
         notify[r] # "count" => notify'[r] # "count"
  PROVE  /\ \A q \in Ranks \ {r} : NotifyPlace(q)' /\ Counting(q)'
         /\ \A s \in Ranks : \A k : Told(s, k) => Told(s, k)'
         /\ \A d \in Ranks \ {r} : \A s \in Ranks : Waits(d, s)' = Waits(d, s) /\ Taken(d, s)'
<1>1. /\ \A q : /\ CallOf(q)' = CallOf(q) /\ OnMain(q)' = OnMain(q) /\ Kind(q)' = Kind(q)
                /\ InDispatch(q)' = InDispatch(q)
                /\ MainRuns(q, {"dispatch"})' = MainRuns(q, {"dispatch"})
      /\ ZeroReduction' = ZeroReduction /\ NotTaken' = NotTaken
      /\ \A k, q, S : Reduced(k, q, S)' = Reduced(k, q, S)
      /\ \A k, s, d : Due(k, s, d)' = Due(k, s, d)
  BY Still
<1>2. ASSUME NEW q \in Ranks \ {r}
      PROVE  NotifyPlace(q)' /\ Counting(q)'
  <2>1. NotifyPlace(q) /\ Counting(q)
    BY DEF WordsInv
  <2>2. NotifyPlace(q)'
    BY <1>1, <2>1 DEF NotifyPlace
  <2>3. PICK k, S : k = CallOf(q) /\ S = counted[q]
    OBVIOUS
  <2>4. CallOf(q)' = k /\ counted'[q] = S /\ Reduced(k, q, S)' = Reduced(k, q, S)
    BY <1>1, <2>3
  <2>5. Counting(q)'
    BY <1>1, <2>1, <2>3, <2>4 DEF Counting
  <2> QED BY <2>2, <2>5
<1>3. \A s \in Ranks : \A k : Told(s, k) => Told(s, k)'
  BY DEF Told
<1>4. \A d \in Ranks \ {r} : \A s \in Ranks : Waits(d, s)' = Waits(d, s)
  BY <1>1 DEF Waits
<1>5. ASSUME NEW d \in Ranks \ {r}, NEW s \in Ranks
      PROVE  Taken(d, s)'
  <2>1. Taken(d, s)
    BY DEF WordsInv
  <2>2. PICK k : k = CallOf(d)
    OBVIOUS
  <2>3. CallOf(d)' = k /\ Due(k, s, d)' = Due(k, s, d)
    BY <1>1, <2>2
  <2> QED BY <1>1, <1>3, <2>1, <2>2, <2>3 DEF Taken
<1> QED BY <1>2, <1>3, <1>4, <1>5

\* One more SM: the tokens of the SMs so far and its own.
LEMMA OneMoreSM ==
  ASSUME NEW F, IsFiniteSet(F), NEW S, NEW sm, sm \notin S
  PROVE  Cardinality({t \in F : t % NumSMs \in S \cup {sm}}) =
           Cardinality({t \in F : t % NumSMs \in S}) + Cardinality({t \in F : t % NumSMs = sm})
<1> DEFINE P == {t \in F : t % NumSMs \in S}
           Q == {t \in F : t % NumSMs = sm}
<1>1. IsFiniteSet(P) /\ IsFiniteSet(Q)
  BY FS_Subset
<1>2. P \cap Q = {} /\ {t \in F : t % NumSMs \in S \cup {sm}} = P \cup Q
  OBVIOUS
<1>3. Cardinality(P \cup Q) = Cardinality(P) + Cardinality(Q) - Cardinality(P \cap Q)
  BY <1>1, FS_Union
<1>4. Cardinality(P) \in Nat /\ Cardinality(Q) \in Nat /\ Cardinality(P \cap Q) = 0
  BY <1>1, <1>2, FS_CardinalityType, FS_EmptySet
<1> HIDE DEF P, Q
<1>5. Cardinality(P \cup Q) = Cardinality(P) + Cardinality(Q)
  BY <1>3, <1>4
<1> QED BY <1>2, <1>5 DEF P, Q

LEMMA NotifyCountWords ==
  ASSUME IInv, WordsInv, NEW r \in Ranks, Running(r), NEW sm \in SMs, NotifyCount(r, sm)
  PROVE  WordsInv'
<1> DEFINE k == CallOf(r)
           S == counted[r]
           old == reduction[r]
<1>1. /\ UNCHANGED <<setup, kernels, stage, notify, taken, inbox, counts>>
      /\ MainRuns(r, {"dispatch"}) /\ sm \in SMs \ S
      /\ counted' = [counted EXCEPT ![r] = S \cup {sm}]
  BY DEF NotifyCount
<1>2. k \in Calls /\ setup \in Setups
  BY RunningCall DEF IInv, CountTypes
<1>3. notify[r] = "count" /\ old = Reduced(k, r, S) /\ S \subseteq SMs
  BY <1>1 DEF WordsInv, Counting
<1>4. /\ \A d : Cardinality({t \in FromTo(k, r, d) : t % NumSMs \in S \cup {sm}}) =
                Cardinality({t \in FromTo(k, r, d) : t % NumSMs \in S})
                + Cardinality({t \in FromTo(k, r, d) : t % NumSMs = sm})
      /\ \A e : Cardinality({t \in ExpertFrom(k, r, e) : t % NumSMs \in S \cup {sm}}) =
                Cardinality({t \in ExpertFrom(k, r, e) : t % NumSMs \in S})
                + Cardinality({t \in ExpertFrom(k, r, e) : t % NumSMs = sm})
  BY <1>1, <1>2, CountFacts, OneMoreSM
<1>5. Cardinality(S \cup {sm}) = Cardinality(S) + 1
  <2>1. IsFiniteSet(SMs)
    BY SizesAssumption, FS_Interval DEF SMs
  <2>2. IsFiniteSet(S)
    BY <1>3, <2>1, FS_Subset
  <2> QED BY <1>1, <2>2, FS_AddElement
<1>6. reduction' = [reduction EXCEPT ![r] = Reduced(k, r, S \cup {sm})]
  <2>1. \A d : Cardinality({t \in {u \in DOMAIN Rows(k, r) : u % NumSMs = sm} : d \in Dsts(Rows(k, r)[t])})
               = Cardinality({t \in FromTo(k, r, d) : t % NumSMs = sm})
    <3>1. \A d : {t \in {u \in DOMAIN Rows(k, r) : u % NumSMs = sm} : d \in Dsts(Rows(k, r)[t])}
                 = {t \in FromTo(k, r, d) : t % NumSMs = sm}
      BY DEF FromTo
    <3> QED BY <3>1
  <2>2. \A e : Cardinality({t \in {u \in DOMAIN Rows(k, r) : u % NumSMs = sm} :
                              \E l \in DOMAIN Rows(k, r)[t] : Rows(k, r)[t][l] = e})
               = Cardinality({t \in ExpertFrom(k, r, e) : t % NumSMs = sm})
    <3>1. \A e : {t \in {u \in DOMAIN Rows(k, r) : u % NumSMs = sm} :
                    \E l \in DOMAIN Rows(k, r)[t] : Rows(k, r)[t][l] = e}
                 = {t \in ExpertFrom(k, r, e) : t % NumSMs = sm}
      BY DEF ExpertFrom
    <3> QED BY <3>1
  <2>3. reduction' = [reduction EXCEPT ![r] =
           [sms |-> old.sms + 1,
            rank |-> [d \in Ranks |-> old.rank[d] + Cardinality({t \in {u \in DOMAIN Rows(k, r) : u % NumSMs = sm} : d \in Dsts(Rows(k, r)[t])})],
            expert |-> [e \in Experts |-> old.expert[e] + Cardinality({t \in {u \in DOMAIN Rows(k, r) : u % NumSMs = sm} :
                              \E l \in DOMAIN Rows(k, r)[t] : Rows(k, r)[t][l] = e})]]]
    BY DEF NotifyCount
  <2>4. [sms |-> old.sms + 1,
         rank |-> [d \in Ranks |-> old.rank[d] + Cardinality({t \in {u \in DOMAIN Rows(k, r) : u % NumSMs = sm} : d \in Dsts(Rows(k, r)[t])})],
         expert |-> [e \in Experts |-> old.expert[e] + Cardinality({t \in {u \in DOMAIN Rows(k, r) : u % NumSMs = sm} :
                              \E l \in DOMAIN Rows(k, r)[t] : Rows(k, r)[t][l] = e})]]
        = Reduced(k, r, S \cup {sm})
    <3>1. /\ old.sms = Cardinality(S)
          /\ \A d \in Ranks : old.rank[d] = Cardinality({t \in FromTo(k, r, d) : t % NumSMs \in S})
          /\ \A e \in Experts : old.expert[e] = Cardinality({t \in ExpertFrom(k, r, e) : t % NumSMs \in S})
      BY <1>3 DEF Reduced
    <3> HIDE DEF k, S, old
    <3>2. Cardinality(S \cup {sm}) = old.sms + 1
      BY <1>5, <3>1
    <3>3. \A d \in Ranks : Cardinality({t \in FromTo(k, r, d) : t % NumSMs \in S \cup {sm}})
             = old.rank[d] + Cardinality({t \in {u \in DOMAIN Rows(k, r) : u % NumSMs = sm} : d \in Dsts(Rows(k, r)[t])})
      BY <1>4, <2>1, <3>1
    <3>4. \A e \in Experts : Cardinality({t \in ExpertFrom(k, r, e) : t % NumSMs \in S \cup {sm}})
             = old.expert[e] + Cardinality({t \in {u \in DOMAIN Rows(k, r) : u % NumSMs = sm} :
                              \E l \in DOMAIN Rows(k, r)[t] : Rows(k, r)[t][l] = e})
      BY <1>4, <2>2, <3>1
    <3> QED BY <3>2, <3>3, <3>4, Zenon DEF Reduced
  <2> QED BY <2>3, <2>4, Zenon
<1> HIDE DEF k, S, old
<1>7. /\ reduction'[r] = Reduced(k, r, S \cup {sm}) /\ counted'[r] = S \cup {sm}
      /\ \A q \in Ranks \ {r} : reduction'[q] = reduction[q] /\ counted'[q] = counted[q]
      /\ DOMAIN counted' = Ranks /\ DOMAIN reduction' = Ranks
  BY <1>1, <1>6 DEF WordsInv, WordTypes
<1>8. /\ \A q \in Ranks \ {r} : NotifyPlace(q)' /\ Counting(q)'
      /\ \A s \in Ranks : \A j : Told(s, j) => Told(s, j)'
  BY <1>1, <1>7, OthersStill
<1>9. /\ \A q : CallOf(q)' = CallOf(q) /\ OnMain(q)' = OnMain(q) /\ Kind(q)' = Kind(q) /\ InDispatch(q)' = InDispatch(q)
      /\ \A j, s, d : Owed(j, s, d)' = Owed(j, s, d) /\ Due(j, s, d)' = Due(j, s, d)
      /\ \A j, q, X : Reduced(j, q, X)' = Reduced(j, q, X)
      /\ Prog' = Prog /\ Calls' = Calls
  BY <1>1, Still
<1>10. NotifyPlace(r)' /\ Counting(r)'
  <2>1. NotifyPlace(r)'
    BY <1>1, <1>9 DEF WordsInv, NotifyPlace
  <2>2. CallOf(r)' = k
    BY <1>9 DEF k
  <2>3. counted'[r] \subseteq SMs
    BY <1>3, <1>7
  <2>4. PICK j, X : j = k /\ X = S \cup {sm}
    OBVIOUS
  <2>5. CallOf(r)' = j /\ counted'[r] = X /\ Reduced(j, r, X)' = Reduced(j, r, X)
    BY <1>7, <1>9, <2>2, <2>4
  <2>6. reduction'[r] = Reduced(j, r, X)
    BY <1>7, <2>4
  <2>7. notify'[r] = "count"
    BY <1>1, <1>3
  <2> QED BY <2>1, <2>3, <2>5, <2>6, <2>7 DEF Counting
<1>11. \A d, s : WordClean(d, s)' = WordClean(d, s) /\ Waits(d, s)' = Waits(d, s)
  BY <1>1, <1>9 DEF WordClean, Waits
<1>12. \A m \in counts' : OnTheWay(m)'
  BY <1>1, <1>9, <1>11 DEF WordsInv, OnTheWay
<1>13. ASSUME NEW d \in Ranks, NEW s \in Ranks
       PROVE  InWord(d, s)' /\ Taken(d, s)'
  <2>1. PICK j : j = CallOf(d)
    OBVIOUS
  <2>2. CallOf(d)' = j /\ Owed(j, s, d)' = Owed(j, s, d) /\ Due(j, s, d)' = Due(j, s, d)
    BY <1>9, <2>1
  <2>3. InWord(d, s) /\ Taken(d, s)
    BY DEF WordsInv
  <2>4. InWord(d, s)'
    BY <1>1, <1>8, <1>11, <2>1, <2>2, <2>3 DEF InWord, Holds
  <2>5. Taken(d, s)'
    BY <1>1, <1>8, <1>9, <2>1, <2>2, <2>3 DEF Taken
  <2> QED BY <2>4, <2>5
<1>14. WordTypes'
  BY <1>1, <1>7 DEF WordsInv, WordTypes
<1> QED BY <1>8, <1>10, <1>12, <1>13, <1>14 DEF WordsInv


LEMMA ExpertOf == \A d \in Ranks : \A x \in LocalExperts : d * NumExpertsPerRank + x \in Experts
<1> SUFFICES ASSUME NEW d \in Ranks, NEW x \in LocalExperts
             PROVE  d * NumExpertsPerRank + x \in Experts
  OBVIOUS
<1>1. NumExpertsPerRank \in Nat /\ NumRanks \in Nat /\ d \in Nat /\ d + 1 <= NumRanks
      /\ x \in Nat /\ x <= NumExpertsPerRank - 1
  BY SizesAssumption DEF Ranks, LocalExperts
<1>2. (d + 1) * NumExpertsPerRank <= NumRanks * NumExpertsPerRank
  BY <1>1
<1>3. (d + 1) * NumExpertsPerRank = d * NumExpertsPerRank + NumExpertsPerRank
  BY <1>1
<1>4. d * NumExpertsPerRank \in Nat /\ NumRanks * NumExpertsPerRank \in Nat
  BY <1>1
<1> QED BY <1>1, <1>2, <1>3, <1>4 DEF Experts

\* When all SMs have arrived the reduction words hold the full counts.
LEMMA AllCounted ==
  ASSUME setup \in Setups, NEW k \in Calls, NEW r \in Ranks, NEW S, S \subseteq SMs,
         Reduced(k, r, S).sms = NumSMs
  PROVE  /\ S = SMs
         /\ \A d \in Ranks : Reduced(k, r, S).rank[d] = Count(k, r, d)
         /\ \A e \in Experts : Reduced(k, r, S).expert[e] = ExpertCount(k, r, e)
<1>1. NumSMs \in Nat /\ NumSMs >= 1
  BY SizesAssumption
<1>2. IsFiniteSet(SMs) /\ Cardinality(SMs) = NumSMs
  <2>1. 0 \in Int /\ NumSMs - 1 \in Int /\ ~(0 > NumSMs - 1) /\ NumSMs - 1 - 0 + 1 = NumSMs
    BY <1>1
  <2> QED BY <2>1, FS_Interval DEF SMs
<1>3. S = SMs
  <2>1. Cardinality(S) = NumSMs
    BY DEF Reduced
  <2> QED BY <1>2, <2>1, FS_Subset
<1>4. \A t \in Nat : t % NumSMs \in SMs
  BY <1>1 DEF SMs
<1>5. \A d : {t \in FromTo(k, r, d) : t % NumSMs \in S} = FromTo(k, r, d)
  BY <1>3, <1>4, CountFacts
<1>6. \A e : {t \in ExpertFrom(k, r, e) : t % NumSMs \in S} = ExpertFrom(k, r, e)
  BY <1>3, <1>4, CountFacts
<1>7. /\ \A d \in Ranks : Reduced(k, r, S).rank[d] = Cardinality({t \in FromTo(k, r, d) : t % NumSMs \in S})
      /\ \A e \in Experts : Reduced(k, r, S).expert[e] = Cardinality({t \in ExpertFrom(k, r, e) : t % NumSMs \in S})
  BY DEF Reduced
<1> QED BY <1>3, <1>5, <1>6, <1>7 DEF Count, ExpertCount

LEMMA NotifySendWords ==
  ASSUME IInv, WordsInv, NEW r \in Ranks, Running(r), NotifySend(r)
  PROVE  WordsInv'
<1> DEFINE k == CallOf(r)
<1>1. /\ UNCHANGED <<setup, kernels, stage, counted, taken, inbox>>
      /\ MainRuns(r, {"dispatch"}) /\ notify[r] = "count" /\ reduction[r].sms = NumSMs
      /\ reduction' = [reduction EXCEPT ![r] = ZeroReduction]
      /\ counts' = counts \cup CountPuts(r)
      /\ notify' = [notify EXCEPT ![r] = "wait"]
  BY DEF NotifySend
<1>2. k \in Calls /\ setup \in Setups /\ k \in Nat /\ kernels[r] = 2 * k - 2 /\ Prog[k].kind = "dispatch"
      /\ stage[r] = "work" /\ OnMain(r)
  BY <1>1, RunningCall, CallArithmetic DEF IInv, CountTypes, MainRuns, Kind
<1>3. counted[r] \subseteq SMs /\ reduction[r] = Reduced(k, r, counted[r])
  BY <1>1 DEF WordsInv, Counting
<1>4. /\ counted[r] = SMs
      /\ \A d \in Ranks : reduction[r].rank[d] = Count(k, r, d)
      /\ \A e \in Experts : reduction[r].expert[e] = ExpertCount(k, r, e)
  BY <1>1, <1>2, <1>3, AllCounted
<1>5. \A m \in CountPuts(r) : \E d \in Ranks : m = Owed(k, r, d)
  BY <1>4, ExpertOf DEF CountPuts, Owed
<1>6. ~Told(r, k)
  BY <1>1, <1>2 DEF Told
<1>7. ASSUME NEW d \in Ranks
      PROVE  InDispatch(d) /\ CallOf(d) = k /\ WordClean(d, r) /\ Waits(d, r)
  <2>1. stage[d] \in {"enter", "work", "leave"} /\ OnMain(d) /\ CallOf(d) = k
    BY <1>2, SameMain
  <2>2. InDispatch(d)
    BY <1>2, <2>1 DEF InDispatch, Kind
  <2>3. InWord(d, r) /\ Taken(d, r)
    BY DEF WordsInv
  <2>4. WordClean(d, r)
    BY <1>6, <2>1, <2>3 DEF InWord
  <2>5. taken[d][r] = NotTaken
    BY <1>6, <2>1, <2>2, <2>3 DEF Taken
  <2>6. notify[d] # "done"
    BY <2>2, <2>3, <2>5 DEF Taken
  <2> QED BY <2>1, <2>2, <2>4, <2>5, <2>6 DEF Waits
<1>8. /\ notify'[r] = "wait" /\ reduction'[r] = ZeroReduction
      /\ \A q \in Ranks \ {r} : notify'[q] = notify[q] /\ reduction'[q] = reduction[q]
  BY <1>1 DEF WordsInv, WordTypes
<1>9. /\ \A q \in Ranks \ {r} : NotifyPlace(q)' /\ Counting(q)'
      /\ \A s \in Ranks : \A j : Told(s, j) => Told(s, j)'
      /\ \A d \in Ranks \ {r} : \A s \in Ranks : Waits(d, s)' = Waits(d, s) /\ Taken(d, s)'
  BY <1>1, <1>8, OthersStill
<1>10. /\ Prog' = Prog /\ Calls' = Calls /\ ZeroReduction' = ZeroReduction
       /\ \A q : /\ CallOf(q)' = CallOf(q) /\ OnMain(q)' = OnMain(q) /\ Kind(q)' = Kind(q)
                 /\ InDispatch(q)' = InDispatch(q)
                 /\ MainRuns(q, {"dispatch"})' = MainRuns(q, {"dispatch"})
       /\ \A j, s, d : Owed(j, s, d)' = Owed(j, s, d) /\ Due(j, s, d)' = Due(j, s, d)
  BY <1>1, Still
<1>11. NotifyPlace(r)'
  BY <1>1, <1>2, <1>8, <1>10 DEF NotifyPlace, MainRuns
<1>12. Counting(r)'
  BY <1>1, <1>4, <1>8, <1>10 DEF Counting
<1>13. \A d \in Ranks : \A s \in Ranks : WordClean(d, s)' = WordClean(d, s) /\ (Waits(d, s) => Waits(d, s)')
  <2>1. \A d, s : WordClean(d, s)' = WordClean(d, s)
    BY <1>1 DEF WordClean
  <2>2. \A s \in Ranks : Waits(r, s) => Waits(r, s)'
    BY <1>1, <1>8, <1>10 DEF Waits, NotTaken
  <2> QED BY <1>9, <2>1, <2>2
<1>14. ASSUME NEW m \in counts'
       PROVE  OnTheWay(m)'
  <2>1. CASE m \in counts
    <3>1. OnTheWay(m) /\ m.from \in Ranks /\ m.to \in Ranks
      BY <2>1 DEF WordsInv, IInv, Issued
    <3>2. notify'[m.from] # "count"
      BY <1>8, <3>1 DEF OnTheWay
    <3> QED BY <1>10, <1>13, <3>1, <3>2 DEF OnTheWay
  <2>2. CASE m \in CountPuts(r)
    <3>1. PICK d \in Ranks : m = Owed(k, r, d)
      BY <1>5, <2>2
    <3>2. m.from = r /\ m.to = d /\ m.call = k
      BY <3>1 DEF Owed
    <3> HIDE DEF k
    <3>3. m = Owed(m.call, m.from, m.to)
      BY <3>1, <3>2
    <3>4. WordClean(d, r)' /\ Waits(d, r)'
      BY <1>7, <1>13
    <3>5. m.call \in Calls /\ Prog[m.call].kind = "dispatch"
      BY <1>2, <3>2
    <3>6. m = Owed(m.call, m.from, m.to)'
      BY <1>10, <3>3
    <3> QED BY <1>8, <1>10, <3>2, <3>4, <3>5, <3>6 DEF OnTheWay
  <2> QED BY <1>1, <2>1, <2>2
<1>15. ASSUME NEW d \in Ranks, NEW s \in Ranks
       PROVE  InWord(d, s)' /\ Taken(d, s)'
  <2>1. PICK j : j = CallOf(d)
    OBVIOUS
  <2>2. CallOf(d)' = j /\ Owed(j, s, d)' = Owed(j, s, d) /\ Due(j, s, d)' = Due(j, s, d)
    BY <1>10, <2>1
  <2>3. InWord(d, s) /\ Taken(d, s)
    BY DEF WordsInv
  <2>4. InWord(d, s)'
    BY <1>1, <1>9, <1>13, <2>1, <2>2, <2>3 DEF InWord, Holds
  <2>5. notify'[d] = "done" => notify[d] = "done"
    BY <1>8
  <2>6. Taken(d, s)'
    BY <1>1, <1>9, <1>10, <2>1, <2>2, <2>3, <2>5 DEF Taken, NotTaken
  <2> QED BY <2>4, <2>6
<1>16. WordTypes'
  BY <1>1 DEF WordsInv, WordTypes
<1> QED BY <1>9, <1>11, <1>12, <1>14, <1>15, <1>16 DEF WordsInv

\* One pair of words is set, the others stay.
Inboxes(X) == [Ranks -> [rank : [Ranks -> Int], expert : [Ranks -> X]]]
WordsSet(g, t, f, a, b) == [g EXCEPT ![t].rank[f] = a, ![t].expert[f] = b]
WordsKept(h, g, t, f) ==
  \A d, s \in Ranks : d # t \/ s # f => h[d].rank[s] = g[d].rank[s] /\ h[d].expert[s] = g[d].expert[s]

LEMMA OneWord ==
  ASSUME NEW X, NEW g \in Inboxes(X),
         NEW t \in Ranks, NEW f \in Ranks, NEW a \in Int, NEW b \in X, NEW h,
         h = WordsSet(g, t, f, a, b)
  PROVE  h[t].rank[f] = a /\ h[t].expert[f] = b /\ WordsKept(h, g, t, f) /\ h \in Inboxes(X)
<1> USE DEF Inboxes, WordsSet, WordsKept
<1> DEFINE W == [rank : [Ranks -> Int], expert : [Ranks -> X]]
<1>1. g[t] \in W /\ g[t] = [rank |-> g[t].rank, expert |-> g[t].expert]
  OBVIOUS
<1>2. PICK w : w = [rank |-> [g[t].rank EXCEPT ![f] = a], expert |-> [g[t].expert EXCEPT ![f] = b]]
  OBVIOUS
<1>3. w \in W /\ w.rank = [g[t].rank EXCEPT ![f] = a] /\ w.expert = [g[t].expert EXCEPT ![f] = b]
  BY <1>2
<1>4. h = [g EXCEPT ![t] = w]
  <2>1. PICK v : v = [g[t] EXCEPT !.rank[f] = a]
    OBVIOUS
  <2>2. v = [rank |-> [g[t].rank EXCEPT ![f] = a], expert |-> g[t].expert]
    BY <1>1, <2>1
  <2>3. [v EXCEPT !.expert[f] = b] = w
    <3>1. PICK ra, ea : ra = [g[t].rank EXCEPT ![f] = a] /\ ea = [g[t].expert EXCEPT ![f] = b]
      OBVIOUS
    <3>2. w = [rank |-> ra, expert |-> ea] /\ v = [rank |-> ra, expert |-> g[t].expert]
      BY <1>2, <2>2, <3>1
    <3>3. v.expert = g[t].expert /\ DOMAIN v = {"rank", "expert"}
      BY <3>2
    <3>4. [v EXCEPT !.expert[f] = b] = [v EXCEPT !.expert = ea]
      BY <3>1, <3>3
    <3>5. [v EXCEPT !.expert = ea] = [rank |-> ra, expert |-> ea]
      BY <3>2
    <3> QED BY <3>2, <3>4, <3>5
  <2>4. PICK j : j = [g EXCEPT ![t].rank[f] = a]
    OBVIOUS
  <2>5. j = [g EXCEPT ![t] = v] /\ j[t] = v
    BY <2>1, <2>4
  <2>6. h = [j EXCEPT ![t].expert[f] = b]
    BY <2>4
  <2>7. h = [j EXCEPT ![t] = w]
    BY <2>3, <2>5, <2>6
  <2> QED BY <2>5, <2>7
<1>5. h[t] = w /\ \A d \in Ranks \ {t} : h[d] = g[d]
  BY <1>4
<1>6. h \in [Ranks -> W]
  BY <1>3, <1>4
<1>7. \A s \in Ranks : s # f => w.rank[s] = g[t].rank[s] /\ w.expert[s] = g[t].expert[s]
  BY <1>3
<1>8. w.rank[f] = a /\ w.expert[f] = b
  BY <1>1, <1>3
<1> QED BY <1>5, <1>6, <1>7, <1>8

LEMMA LandCountsWords ==
  ASSUME IInv, WordsInv, NEW m \in counts, LandCounts(m)
  PROVE  WordsInv'
<1> DEFINE f == m.from
           t == m.to
           k == m.call
<1>1. /\ UNCHANGED <<setup, kernels, stage, notify, counted, taken, reduction>>
      /\ inbox' = [inbox EXCEPT ![t].rank[f] = m.rank, ![t].expert[f] = m.expert]
      /\ counts' = counts \ {m}
  BY DEF LandCounts
<1>2. /\ f \in Ranks /\ t \in Ranks /\ stage[f] = "work" /\ OnMain(f) /\ k = CallOf(f) /\ k \in Nat
      /\ kernels[f] = 2 * k - 2
  BY CallArithmetic DEF IInv, Issued
<1>3. /\ k \in Calls /\ Prog[k].kind = "dispatch" /\ m = Owed(k, f, t) /\ notify[f] # "count"
      /\ WordClean(t, f) /\ Waits(t, f)
  BY DEF WordsInv, OnTheWay
<1>4. CallOf(t) = k /\ Told(f, k)
  <2>1. CallOf(t) = k
    BY <1>2, SameMain
  <2> QED BY <1>2, <1>3, <2>1 DEF Told
<1>5. ASSUME NEW n \in counts, n.from = f, n.to = t
      PROVE  n = m
  <2>1. n.call = k
    BY <1>2, <1>5 DEF IInv, Issued
  <2>2. n = Owed(n.call, n.from, n.to)
    BY DEF WordsInv, OnTheWay
  <2> QED BY <1>3, <1>5, <2>1, <2>2
<1>6. m.rank \in Int /\ m.expert \in [LocalExperts -> Int]
  <2>1. m.rank = Encode(Count(k, f, t))
        /\ m.expert = [x \in LocalExperts |-> Encode(ExpertCount(k, f, t * NumExpertsPerRank + x))]
    BY <1>3 DEF Owed
  <2>2. setup \in Setups
    BY DEF IInv, CountTypes
  <2> QED BY <1>2, <1>3, <2>1, <2>2, CountFacts, EncodeFacts
<1> HIDE DEF f, t, k
<1>7. /\ inbox'[t].rank[f] = m.rank /\ inbox'[t].expert[f] = m.expert
      /\ \A d, s \in Ranks : d # t \/ s # f => /\ inbox'[d].rank[s] = inbox[d].rank[s]
                                               /\ inbox'[d].expert[s] = inbox[d].expert[s]
      /\ inbox' \in [Ranks -> [rank : [Ranks -> Int], expert : [Ranks -> [LocalExperts -> Int]]]]
  <2>1. inbox \in [Ranks -> [rank : [Ranks -> Int], expert : [Ranks -> [LocalExperts -> Int]]]]
    BY DEF WordsInv, WordTypes
  <2> DEFINE X == [LocalExperts -> Int]
             h == inbox'
  <2>2. inbox \in Inboxes(X) /\ m.expert \in X /\ m.rank \in Int
    BY <1>6, <2>1 DEF Inboxes
  <2>3. h = WordsSet(inbox, t, f, m.rank, m.expert)
    BY <1>1 DEF WordsSet
  <2> HIDE DEF X, h
  <2>4. /\ h[t].rank[f] = m.rank /\ h[t].expert[f] = m.expert
        /\ WordsKept(h, inbox, t, f) /\ h \in Inboxes(X)
    BY <1>2, <2>2, <2>3, OneWord
  <2> QED BY <2>4 DEF X, h, Inboxes, WordsKept
<1>8. /\ Prog' = Prog /\ Calls' = Calls
      /\ \A q : /\ CallOf(q)' = CallOf(q) /\ OnMain(q)' = OnMain(q) /\ Kind(q)' = Kind(q)
                /\ InDispatch(q)' = InDispatch(q)
      /\ \A j, s, d : Owed(j, s, d)' = Owed(j, s, d) /\ Due(j, s, d)' = Due(j, s, d)
  BY <1>1, Still
<1>9. /\ \A q \in Ranks \ {f} : NotifyPlace(q)' /\ Counting(q)'
      /\ \A s \in Ranks : \A j : Told(s, j) => Told(s, j)'
      /\ \A d \in Ranks \ {f} : \A s \in Ranks : Waits(d, s)' = Waits(d, s) /\ Taken(d, s)'
  BY <1>1, <1>2, OthersStill
<1>10. PICK q \in Ranks : q # f
  BY <1>2, SizesAssumption DEF Ranks
<1>11. /\ \A p \in Ranks \ {q} : NotifyPlace(p)' /\ Counting(p)'
       /\ \A d \in Ranks \ {q} : \A s \in Ranks : Waits(d, s)' = Waits(d, s) /\ Taken(d, s)'
  BY <1>1, OthersStill
<1>12. \A d, s \in Ranks : d # t \/ s # f => WordClean(d, s)' = WordClean(d, s)
  BY <1>7 DEF WordClean
<1>13. \A d, s \in Ranks : Waits(d, s)' = Waits(d, s) /\ Taken(d, s)'
  BY <1>9, <1>10, <1>11
<1>14. ASSUME NEW n \in counts'
       PROVE  OnTheWay(n)'
  <2>1. n \in counts /\ n # m
    BY <1>1
  <2>2. OnTheWay(n) /\ n.from \in Ranks /\ n.to \in Ranks
    BY <2>1 DEF WordsInv, IInv, Issued
  <2>3. ~(n.from = f /\ n.to = t)
    BY <1>5, <2>1
  <2> QED BY <1>1, <1>8, <1>12, <1>13, <2>2, <2>3 DEF OnTheWay
<1>15. ASSUME NEW d \in Ranks, NEW s \in Ranks
       PROVE  InWord(d, s)'
  <2>1. PICK j : j = CallOf(d)
    OBVIOUS
  <2>2. CallOf(d)' = j /\ Owed(j, s, d)' = Owed(j, s, d)
    BY <1>8, <2>1
  <2>3. CASE d = t /\ s = f
    <3>1. j = k /\ Told(f, k)' /\ Waits(t, f)'
      BY <1>2, <1>3, <1>4, <1>9, <1>13, <2>1, <2>3
    <3>2. Holds(t, f, Owed(j, f, t))'
      BY <1>3, <1>7, <2>2, <2>3, <3>1 DEF Holds
    <3>3. Waits(d, s)' /\ Told(s, j)'
      BY <1>3, <1>4, <1>9, <1>13, <2>3, <3>1
    <3>4. Holds(d, s, Owed(j, s, d))'
      BY <2>3, <3>2
    <3> QED BY <2>2, <3>3, <3>4 DEF InWord
  <2>4. CASE d # t \/ s # f
    <3>1. InWord(d, s)
      BY DEF WordsInv
    <3>2. Holds(d, s, Owed(j, s, d)) => Holds(d, s, Owed(j, s, d))'
      BY <1>7, <2>2, <2>4 DEF Holds
    <3> QED BY <1>9, <1>12, <1>13, <2>1, <2>2, <2>4, <3>1, <3>2 DEF InWord
  <2> QED BY <2>3, <2>4
<1>16. WordTypes'
  BY <1>1, <1>7 DEF WordsInv, WordTypes
<1>17. \A p \in Ranks : NotifyPlace(p)' /\ Counting(p)'
  BY <1>9, <1>10, <1>11
<1> QED BY <1>13, <1>14, <1>15, <1>16, <1>17 DEF WordsInv


LEMMA NotifyTakeWords ==
  ASSUME IInv, WordsInv, NEW r \in Ranks, Running(r), NEW s \in Ranks, NotifyTake(r, s)
  PROVE  WordsInv'
<1> DEFINE zero == [e \in LocalExperts |-> 0]
           word == [n |-> Encode(inbox[r].rank[s]),
                    e |-> [e \in LocalExperts |-> Encode(inbox[r].expert[s][e])]]
           X == [LocalExperts -> Int]
<1>1. /\ UNCHANGED <<setup, kernels, stage, notify, counted, reduction, counts>>
      /\ MainRuns(r, {"dispatch"}) /\ notify[r] = "wait" /\ taken[r][s] = NotTaken
      /\ IsReady(inbox[r].rank[s])
      /\ taken' = [taken EXCEPT ![r][s] = word]
      /\ inbox' = WordsSet(inbox, r, s, 0, zero)
  BY DEF NotifyTake, WordsSet
<1>2. PICK k : k = CallOf(r)
  OBVIOUS
<1>3. k \in Calls /\ setup \in Setups
  BY <1>2, RunningCall DEF IInv, CountTypes
<1>4. Holds(r, s, Owed(k, s, r)) /\ Told(s, k)
  <2>1. ~WordClean(r, s)
    BY <1>1, EncodeFacts DEF WordClean
  <2> QED BY <1>2, <2>1 DEF WordsInv, InWord
<1>5. word = Due(k, s, r)
  <2>1. /\ inbox[r].rank[s] = Encode(Count(k, s, r))
        /\ inbox[r].expert[s] = [x \in LocalExperts |-> Encode(ExpertCount(k, s, r * NumExpertsPerRank + x))]
    BY <1>4 DEF Holds, Owed
  <2>2. /\ Encode(Encode(Count(k, s, r))) = Count(k, s, r)
        /\ \A x : Encode(Encode(ExpertCount(k, s, x))) = ExpertCount(k, s, x)
    BY <1>3, CountFacts, EncodeFacts
  <2>3. Encode(inbox[r].rank[s]) = Count(k, s, r)
    BY <2>1, <2>2
  <2>4. \A x \in LocalExperts : Encode(inbox[r].expert[s][x]) = ExpertCount(k, s, r * NumExpertsPerRank + x)
    BY <2>1, <2>2
  <2> QED BY <2>3, <2>4, Zenon DEF Due
<1>6. word # NotTaken
  <2>1. Count(k, s, r) \in Nat
    BY <1>3, CountFacts
  <2>2. word.n = Count(k, s, r) /\ NotTaken.n = -1
    BY <1>5 DEF Due, NotTaken
  <2> QED BY <2>1, <2>2
<1> HIDE DEF word
<1>7. /\ taken'[r][s] = word /\ DOMAIN taken' = Ranks
      /\ \A q \in Ranks : DOMAIN taken'[q] = Ranks
      /\ \A q, p \in Ranks : q # r \/ p # s => taken'[q][p] = taken[q][p]
      /\ \A q \in Ranks \ {r} : taken'[q] = taken[q]
  BY <1>1 DEF WordsInv, WordTypes
<1>8. /\ inbox'[r].rank[s] = 0 /\ inbox'[r].expert[s] = zero
      /\ WordsKept(inbox', inbox, r, s)
      /\ inbox' \in [Ranks -> [rank : [Ranks -> Int], expert : [Ranks -> [LocalExperts -> Int]]]]
  <2>1. inbox \in Inboxes(X) /\ zero \in X /\ 0 \in Int
    BY DEF WordsInv, WordTypes, Inboxes
  <2> DEFINE h == inbox'
  <2>2. h = WordsSet(inbox, r, s, 0, zero)
    BY <1>1
  <2> HIDE DEF X, h, zero
  <2>3. h[r].rank[s] = 0 /\ h[r].expert[s] = zero /\ WordsKept(h, inbox, r, s) /\ h \in Inboxes(X)
    BY <2>1, <2>2, OneWord
  <2> QED BY <2>3 DEF X, h, Inboxes
<1>9. /\ Prog' = Prog /\ Calls' = Calls /\ NotTaken' = NotTaken
      /\ \A q : /\ CallOf(q)' = CallOf(q) /\ OnMain(q)' = OnMain(q) /\ Kind(q)' = Kind(q)
                /\ InDispatch(q)' = InDispatch(q)
      /\ \A j, p, d : Owed(j, p, d)' = Owed(j, p, d) /\ Due(j, p, d)' = Due(j, p, d)
  BY <1>1, Still
<1>10. /\ \A q \in Ranks \ {r} : NotifyPlace(q)' /\ Counting(q)'
       /\ \A p \in Ranks : \A j : Told(p, j) => Told(p, j)'
       /\ \A d \in Ranks \ {r} : \A p \in Ranks : Waits(d, p)' = Waits(d, p) /\ Taken(d, p)'
  BY <1>1, <1>7, OthersStill
<1>11. NotifyPlace(r)'
  BY <1>1, <1>9 DEF WordsInv, NotifyPlace
<1>12. Counting(r)'
  <2>1. MainRuns(r, {"dispatch"})' = MainRuns(r, {"dispatch"}) /\ ZeroReduction' = ZeroReduction
    BY <1>1, Still
  <2> QED BY <1>1, <2>1 DEF WordsInv, Counting
<1>13. \A p \in Ranks : p # s => Waits(r, p)' = Waits(r, p)
  BY <1>1, <1>7, <1>9 DEF Waits
<1>14. \A d, p \in Ranks : d # r \/ p # s => WordClean(d, p)' = WordClean(d, p) /\ Waits(d, p)' = Waits(d, p)
  BY <1>8, <1>10, <1>13 DEF WordClean, WordsKept
<1>15. ASSUME NEW m \in counts'
       PROVE  OnTheWay(m)'
  <2>1. OnTheWay(m) /\ m.from \in Ranks /\ m.to \in Ranks
    BY <1>1 DEF WordsInv, IInv, Issued
  <2>2. ~(m.to = r /\ m.from = s)
    BY <1>1, <2>1, EncodeFacts DEF OnTheWay, WordClean
  <2> QED BY <1>1, <1>9, <1>14, <2>1, <2>2 DEF OnTheWay
<1>16. ASSUME NEW d \in Ranks, NEW p \in Ranks
       PROVE  InWord(d, p)'
  <2>1. CASE d = r /\ p = s
    BY <1>8, <2>1 DEF InWord, WordClean
  <2>2. CASE d # r \/ p # s
    <3>1. PICK j : j = CallOf(d)
      OBVIOUS
    <3>2. CallOf(d)' = j /\ Owed(j, p, d)' = Owed(j, p, d)
      BY <1>9, <3>1
    <3>3. InWord(d, p)
      BY DEF WordsInv
    <3>4. Holds(d, p, Owed(j, p, d)) => Holds(d, p, Owed(j, p, d))'
      BY <1>8, <2>2, <3>2 DEF Holds, WordsKept
    <3> QED BY <1>10, <1>14, <2>2, <3>1, <3>2, <3>3, <3>4 DEF InWord
  <2> QED BY <2>1, <2>2
<1>17. ASSUME NEW p \in Ranks
       PROVE  Taken(r, p)'
  <2>1. CallOf(r)' = k /\ Due(k, p, r)' = Due(k, p, r)
    BY <1>2, <1>9
  <2>2. notify'[r] # "done"
    BY <1>1
  <2>3. CASE p = s
    <3>1. taken'[r][p] = Due(k, p, r)' /\ Told(p, k)'
      BY <1>4, <1>5, <1>7, <1>10, <2>1, <2>3
    <3> QED BY <2>1, <2>2, <3>1 DEF Taken
  <2>4. CASE p # s
    <3>1. Taken(r, p) /\ taken'[r][p] = taken[r][p]
      BY <1>7, <2>4 DEF WordsInv
    <3> QED BY <1>2, <1>9, <1>10, <2>1, <2>2, <3>1 DEF Taken
  <2> QED BY <2>3, <2>4
<1>18. WordTypes'
  BY <1>1, <1>7, <1>8 DEF WordsInv, WordTypes
<1>19. \A d, p \in Ranks : Taken(d, p)'
  BY <1>10, <1>17
<1> QED BY <1>10, <1>11, <1>12, <1>15, <1>16, <1>18, <1>19 DEF WordsInv

LEMMA NotifyFinishWords ==
  ASSUME IInv, WordsInv, NEW r \in Ranks, NotifyFinish(r)
  PROVE  WordsInv'
<1>1. /\ UNCHANGED <<setup, kernels, stage, counted, taken, reduction, inbox, counts>>
      /\ MainRuns(r, {"dispatch"}) /\ notify[r] = "wait"
      /\ \A s \in Ranks : taken[r][s] # NotTaken
      /\ notify' = [notify EXCEPT ![r] = "done"]
  BY DEF NotifyFinish
<1>2. notify'[r] = "done" /\ \A q \in Ranks \ {r} : notify'[q] = notify[q]
  BY <1>1 DEF WordsInv, WordTypes
<1>3. WordTypes'
  BY <1>1 DEF WordsInv, WordTypes
<1>4. /\ Prog' = Prog /\ Calls' = Calls /\ NotTaken' = NotTaken /\ ZeroReduction' = ZeroReduction
      /\ \A q : /\ CallOf(q)' = CallOf(q) /\ OnMain(q)' = OnMain(q) /\ Kind(q)' = Kind(q)
                /\ InDispatch(q)' = InDispatch(q) /\ MainRuns(q, {"dispatch"})' = MainRuns(q, {"dispatch"})
      /\ \A j, p, d : Owed(j, p, d)' = Owed(j, p, d) /\ Due(j, p, d)' = Due(j, p, d)
  BY <1>1, Still
<1>5. /\ \A q \in Ranks \ {r} : NotifyPlace(q)' /\ Counting(q)'
      /\ \A p \in Ranks : \A j : Told(p, j) => Told(p, j)'
      /\ \A d \in Ranks \ {r} : \A p \in Ranks : Waits(d, p)' = Waits(d, p) /\ Taken(d, p)'
  BY <1>1, <1>2, OthersStill
<1>6. NotifyPlace(r)' /\ Counting(r)'
  <2>1. stage[r] = "work"
    BY <1>1 DEF MainRuns
  <2>2. NotifyPlace(r)'
    BY <1>1, <1>2, <2>1 DEF NotifyPlace
  <2>3. Counting(r)'
    BY <1>1, <1>2, <1>4 DEF WordsInv, Counting
  <2> QED BY <2>2, <2>3
<1>7. \A p \in Ranks : ~Waits(r, p)
  BY <1>1 DEF Waits
<1>8. \A d, p : WordClean(d, p)' = WordClean(d, p)
  BY <1>1 DEF WordClean
<1>9. \A d, p \in Ranks : Waits(d, p) => Waits(d, p)'
  BY <1>5, <1>7
<1>10. ASSUME NEW m \in counts'
       PROVE  OnTheWay(m)'
  <2>1. OnTheWay(m) /\ m.from \in Ranks /\ m.to \in Ranks
    BY <1>1 DEF WordsInv, IInv, Issued
  <2>2. notify'[m.from] # "count"
    BY <1>2, <2>1 DEF OnTheWay
  <2> QED BY <1>4, <1>8, <1>9, <2>1, <2>2 DEF OnTheWay
<1>11. ASSUME NEW d \in Ranks, NEW p \in Ranks
       PROVE  InWord(d, p)'
  <2>1. PICK j : j = CallOf(d)
    OBVIOUS
  <2>2. CallOf(d)' = j /\ Owed(j, p, d)' = Owed(j, p, d)
    BY <1>4, <2>1
  <2>3. InWord(d, p)
    BY DEF WordsInv
  <2> QED BY <1>1, <1>5, <1>8, <1>9, <2>1, <2>2, <2>3 DEF InWord, Holds
<1>12. ASSUME NEW p \in Ranks
       PROVE  Taken(r, p)'
  <2>1. PICK j : j = CallOf(r)
    OBVIOUS
  <2>2. CallOf(r)' = j /\ Due(j, p, r)' = Due(j, p, r)
    BY <1>4, <2>1
  <2>3. Taken(r, p)
    BY DEF WordsInv
  <2> QED BY <1>1, <1>4, <1>5, <2>1, <2>2, <2>3 DEF Taken
<1>13. \A d, p \in Ranks : Taken(d, p)'
  BY <1>5, <1>12
<1> QED BY <1>3, <1>5, <1>6, <1>10, <1>11, <1>13 DEF WordsInv

LEMMA WordsStep == IInv /\ WordsInv /\ [Next]_vars => WordsInv'
<1> SUFFICES ASSUME IInv, WordsInv, [Next]_vars
             PROVE  WordsInv'
  OBVIOUS
<1>1. ASSUME NEW r \in Ranks, Host(r)
      PROVE  WordsInv'
  BY <1>1, WordsQuiet DEF Host, HostCall, HostPoll, notifyVars, wordVars
<1>2. ASSUME NEW r \in Ranks, Running(r), Notify(r)
      PROVE  WordsInv'
  BY <1>2, NotifyCountWords, NotifySendWords, NotifyTakeWords, NotifyFinishWords DEF Notify
<1>3. ASSUME NEW r \in Ranks, Running(r), Main(r)
      PROVE  WordsInv'
  <2>1. ASSUME NEW t, NEW d, SendToken(r, t, d)
        PROVE  WordsInv'
    BY <2>1, WordsQuiet DEF SendToken, notifyVars, wordVars
  <2>2. ASSUME NEW i, SendBack(r, i)
        PROVE  WordsInv'
    BY <2>2, WordsQuiet DEF SendBack, notifyVars, wordVars
  <2> QED BY <1>3, <2>1, <2>2, StartMainWords, PassEntryWords, ArriveWords, EndMainWords DEF Main
<1>4. ASSUME NEW r \in Ranks, Running(r), Epilogue(r)
      PROVE  WordsInv'
  <2>1. ASSUME NEW i, CopyToken(r, i)
        PROVE  WordsInv'
    BY <2>1, WordsQuiet DEF CopyToken, notifyVars, wordVars
  <2>2. ASSUME NEW i, ReduceToken(r, i)
        PROVE  WordsInv'
    BY <2>2, WordsQuiet DEF ReduceToken, notifyVars, wordVars
  <2> QED BY <1>4, <2>1, <2>2, StartEpilogueWords, EndEpilogueWords DEF Epilogue
<1>5. ASSUME NEW m \in stores, LandStore(m)
      PROVE  WordsInv'
  BY <1>5, WordsQuiet DEF LandStore, notifyVars, wordVars
<1>6. ASSUME NEW m \in counts, LandCounts(m)
      PROVE  WordsInv'
  BY <1>6, LandCountsWords
<1>7. CASE UNCHANGED vars
  BY <1>7, WordsQuiet DEF vars, wordVars
<1> QED BY <1>1, <1>2, <1>3, <1>4, <1>5, <1>6, <1>7 DEF Next


-----------------------------------------------------------------------------
(***************************************************************************)
(* The invariant of the slots.  A sender's warps draw them in any order,   *)
(* or find them in the handle: no two tokens for a rank get the same one,  *)
(* and together they take the first places of the sender's region there.   *)
(***************************************************************************)

\* A token and a destination: what a warp of call k sends from rank s.
PairsOf(k, s) == UNION {{<<t, d>> : d \in Dsts(Rows(k, s)[t])} : t \in DOMAIN Rows(k, s)}
PairsTo(P, d) == {p \in P : p[2] = d}

Sending(r) == stage[r] \in {"work", "leave"} /\ OnMain(r) /\ Kind(r) \in AnyDispatch
Draws(r)   == Sending(r) /\ ~ReusesSlots(CallOf(r))

DoneInv(r) ==
  /\ Sending(r) => done[r] \subseteq PairsOf(CallOf(r), r)
  /\ Sending(r) /\ stage[r] = "leave" => done[r] = PairsOf(CallOf(r), r)
  /\ stage[r] = "enter" => done[r] = {}
SenderInv(r) ==
  sender[r] = [d \in Ranks |-> IF Draws(r) THEN Cardinality(PairsTo(done[r], d)) ELSE 0]

SlotDomain(s, k) ==
  IF kernels[s] >= 2 * k - 1 \/ (kernels[s] = 2 * k - 2 /\ stage[s] # "idle" /\ setup.deterministic)
  THEN PairsOf(k, s)
  ELSE IF kernels[s] = 2 * k - 2 /\ stage[s] \in {"work", "leave"} THEN done[s] ELSE {}
SlotsApart(k, s, slot) ==
  /\ \A p \in DOMAIN slot : slot[p] \in 0 .. Count(k, s, p[2]) - 1
  /\ \A p, q \in DOMAIN slot : p[2] = q[2] /\ slot[p] = slot[q] => p = q
SlotsBelow(slot, next) == \A p \in DOMAIN slot : slot[p] < next[p[2]]
SlotsInv(s, k) ==
  Prog[k].kind = "dispatch" =>
    /\ DOMAIN handle[s][k].slot = SlotDomain(s, k)
    /\ SlotsApart(k, s, handle[s][k].slot)
    /\ kernels[s] = 2 * k - 2 /\ Draws(s) => SlotsBelow(handle[s][k].slot, sender[s])

SInv ==
  /\ DOMAIN sender = Ranks
  /\ \A r \in Ranks : DoneInv(r) /\ SenderInv(r) /\ \A k \in Calls : SlotsInv(r, k)

LEMMA PairsFacts ==
  ASSUME setup \in Setups, NEW k \in Calls, NEW s \in Ranks
  PROVE  /\ \A p \in PairsOf(k, s) : p = <<p[1], p[2]>> /\ p[1] \in FromTo(k, s, p[2]) /\ p[2] \in Ranks
         /\ \A t, d : t \in FromTo(k, s, d) => <<t, d>> \in PairsOf(k, s)
         /\ IsFiniteSet(PairsOf(k, s))
         /\ \A d : Cardinality(PairsTo(PairsOf(k, s), d)) = Count(k, s, d)
<1>1. ASSUME NEW p \in PairsOf(k, s)
      PROVE  p = <<p[1], p[2]>> /\ p[1] \in FromTo(k, s, p[2]) /\ p[2] \in Ranks
  <2>1. PICK t \in DOMAIN Rows(k, s) : p \in {<<t, d>> : d \in Dsts(Rows(k, s)[t])}
    BY DEF PairsOf
  <2>2. PICK d \in Dsts(Rows(k, s)[t]) : p = <<t, d>>
    BY <2>1
  <2>3. d \in Ranks
    BY <2>2, RowFacts
  <2> QED BY <2>2, <2>3 DEF FromTo
<1>2. ASSUME NEW t, NEW d, t \in FromTo(k, s, d)
      PROVE  <<t, d>> \in PairsOf(k, s)
  BY <1>2 DEF PairsOf, FromTo
<1>3. IsFiniteSet(PairsOf(k, s))
  <2>1. PairsOf(k, s) \subseteq (1 .. NumMaxTokensPerRank) \X Ranks
    <3>1. \A p \in PairsOf(k, s) : p[1] \in 1 .. NumMaxTokensPerRank
      BY <1>1, CountFacts
    <3> QED BY <1>1, <3>1
  <2>2. IsFiniteSet((1 .. NumMaxTokensPerRank) \X Ranks)
    <3>1. IsFiniteSet(1 .. NumMaxTokensPerRank) /\ IsFiniteSet(Ranks)
      BY SizesAssumption, FS_Interval DEF Ranks
    <3> QED BY <3>1, FS_Product
  <2> QED BY <2>1, <2>2, FS_Subset
<1>4. ASSUME NEW d
      PROVE  Cardinality(PairsTo(PairsOf(k, s), d)) = Count(k, s, d)
  <2> DEFINE F == FromTo(k, s, d)
             P == PairsTo(PairsOf(k, s), d)
             f == [t \in F |-> <<t, d>>]
  <2>1. \A t \in F : <<t, d>> \in P
    BY <1>2 DEF PairsTo
  <2>2. \A p \in P : p[1] \in F /\ p = <<p[1], d>>
    BY <1>1 DEF PairsTo
  <2> HIDE DEF F, P
  <2>3. f \in [F -> P]
    BY <2>1
  <2>4. \A a, b \in F : f[a] = f[b] => a = b
    OBVIOUS
  <2>5. \A p \in P : \E t \in F : f[t] = p
    BY <2>2
  <2>6. f \in Bijection(F, P)
    BY <2>3, <2>4, <2>5 DEF Bijection, Injection, Surjection, IsInjective
  <2>7. ExistsBijection(F, P) /\ IsFiniteSet(F)
    BY <2>6, CountFacts DEF ExistsBijection, F
  <2> QED BY <2>7, FS_Bijection DEF Count, F, P
<1> QED BY <1>1, <1>2, <1>3, <1>4

\* The prologue's slots are counted up in the order of the tokens.
LEMMA PrologueApart ==
  ASSUME setup \in Setups, NEW k \in Calls, NEW s \in Ranks
  PROVE  /\ DOMAIN PrologueSlots(Rows(k, s)) = PairsOf(k, s)
         /\ SlotsApart(k, s, PrologueSlots(Rows(k, s)))
<1> DEFINE slot == PrologueSlots(Rows(k, s))
           Below(d, t) == {u \in FromTo(k, s, d) : u < t}
<1>1. DOMAIN slot = PairsOf(k, s)
  BY DEF PrologueSlots, PairsOf
<1>2. \A p \in PairsOf(k, s) : slot[p] = Cardinality(Below(p[2], p[1]))
  <2>1. \A p \in PairsOf(k, s) : slot[p] = Cardinality({t \in DOMAIN Rows(k, s) : t < p[1] /\ p[2] \in Dsts(Rows(k, s)[t])})
    BY DEF PrologueSlots, PairsOf
  <2>2. \A p : {t \in DOMAIN Rows(k, s) : t < p[1] /\ p[2] \in Dsts(Rows(k, s)[t])} = Below(p[2], p[1])
    BY DEF FromTo
  <2> QED BY <2>1, <2>2
<1>3. ASSUME NEW d, NEW T, IsFiniteSet(T), T \subseteq Nat, NEW t \in T
      PROVE  /\ Cardinality({u \in T : u < t}) \in Nat
             /\ Cardinality({u \in T : u < t}) < Cardinality(T)
  <2>1. {u \in T : u < t} \subseteq T /\ {u \in T : u < t} # T
    BY <1>3
  <2>2. IsFiniteSet({u \in T : u < t}) /\ Cardinality({u \in T : u < t}) <= Cardinality(T)
        /\ Cardinality({u \in T : u < t}) # Cardinality(T)
    BY <1>3, <2>1, FS_Subset
  <2>3. Cardinality({u \in T : u < t}) \in Nat /\ Cardinality(T) \in Nat
    BY <1>3, <2>2, FS_CardinalityType
  <2> QED BY <2>2, <2>3
<1>4. ASSUME NEW p \in PairsOf(k, s)
      PROVE  slot[p] \in 0 .. Count(k, s, p[2]) - 1
  <2>1. p[1] \in FromTo(k, s, p[2]) /\ IsFiniteSet(FromTo(k, s, p[2])) /\ FromTo(k, s, p[2]) \subseteq Nat
        /\ Count(k, s, p[2]) \in Nat
    BY PairsFacts, CountFacts
  <2>2. Cardinality(Below(p[2], p[1])) \in Nat /\ Cardinality(Below(p[2], p[1])) < Count(k, s, p[2])
    BY <1>3, <2>1 DEF Count
  <2> QED BY <1>2, <2>1, <2>2
<1>5. ASSUME NEW d, NEW a \in FromTo(k, s, d), NEW b \in FromTo(k, s, d), a < b
      PROVE  Cardinality(Below(d, a)) # Cardinality(Below(d, b))
  <2>1. IsFiniteSet(FromTo(k, s, d)) /\ FromTo(k, s, d) \subseteq Nat
    BY CountFacts
  <2>2. IsFiniteSet(Below(d, b)) /\ Below(d, b) \subseteq Nat /\ a \in Below(d, b)
    BY <1>5, <2>1, FS_Subset
  <2>3. {u \in Below(d, b) : u < a} = Below(d, a)
    BY <1>5, <2>1
  <2>4. /\ Cardinality({u \in Below(d, b) : u < a}) \in Nat
        /\ Cardinality({u \in Below(d, b) : u < a}) < Cardinality(Below(d, b))
        /\ Cardinality(Below(d, b)) \in Nat
    BY <1>3, <2>2, FS_CardinalityType
  <2> HIDE DEF Below
  <2> QED BY <2>3, <2>4
<1>6. ASSUME NEW p \in PairsOf(k, s), NEW q \in PairsOf(k, s), p[2] = q[2], slot[p] = slot[q]
      PROVE  p = q
  <2>1. /\ p = <<p[1], p[2]>> /\ q = <<q[1], p[2]>>
        /\ p[1] \in FromTo(k, s, p[2]) /\ q[1] \in FromTo(k, s, p[2]) /\ FromTo(k, s, p[2]) \subseteq Nat
    BY <1>6, PairsFacts, CountFacts
  <2>2. Cardinality(Below(p[2], p[1])) = Cardinality(Below(p[2], q[1]))
    BY <1>2, <1>6
  <2> HIDE DEF Below
  <2>3. ~(p[1] < q[1]) /\ ~(q[1] < p[1])
    BY <1>5, <2>1, <2>2
  <2> QED BY <2>1, <2>3
<1> HIDE DEF slot
<1>7. SlotsApart(k, s, slot)
  BY <1>1, <1>4, <1>6 DEF SlotsApart
<1> QED BY <1>1, <1>7 DEF slot

LEMMA SInit == Init => SInv
<1> SUFFICES ASSUME Init
             PROVE  SInv
  OBVIOUS
<1>1. \A r \in Ranks : stage[r] = "idle" /\ kernels[r] = 0 /\ done[r] = {} /\ sender[r] = [d \in Ranks |-> 0]
  BY DEF Init
<1>2. \A r \in Ranks : DoneInv(r) /\ SenderInv(r)
  BY <1>1 DEF DoneInv, SenderInv, Sending, Draws
<1>3. \A k \in Calls : k \in Nat /\ k >= 1
  <2>1. Prog \in Seq(Call)
    BY SetupsAssumption DEF Prog, Init
  <2> QED BY <2>1 DEF Calls
<1>4. \A r \in Ranks : \A k \in Calls : DOMAIN handle[r][k].slot = {}
  BY DEF Init, NoHandle
<1>5. \A r \in Ranks : \A k \in Calls : SlotDomain(r, k) = {}
  BY <1>1, <1>3 DEF SlotDomain
<1>6. \A r \in Ranks : \A k \in Calls : SlotsInv(r, k)
  BY <1>1, <1>4, <1>5 DEF SlotsInv, SlotsApart, Draws, Sending
<1> QED BY <1>2, <1>6 DEF SInv, Init


LEMMA SlotsMove ==
  ASSUME SInv, NEW r \in Ranks, setup' = setup, DOMAIN sender' = Ranks,
         \A q \in Ranks \ {r} : /\ kernels'[q] = kernels[q] /\ stage'[q] = stage[q]
                                /\ done'[q] = done[q] /\ sender'[q] = sender[q]
                                /\ \A k \in Calls : handle'[q][k].slot = handle[q][k].slot,
         DoneInv(r)', SenderInv(r)', \A k \in Calls : SlotsInv(r, k)'
  PROVE  SInv'
<1>1. /\ Prog' = Prog /\ Calls' = Calls
      /\ \A k, s : Rows(k, s)' = Rows(k, s)
      /\ \A k, s, d : Count(k, s, d)' = Count(k, s, d)
      /\ \A k : ReusesSlots(k)' = ReusesSlots(k)
  BY RoutingFixed
<1>2. \A k, s : PairsOf(k, s)' = PairsOf(k, s)
  BY <1>1 DEF PairsOf
<1>3. \A q \in Ranks \ {r} : /\ CallOf(q)' = CallOf(q) /\ OnMain(q)' = OnMain(q) /\ Kind(q)' = Kind(q)
                             /\ Sending(q)' = Sending(q) /\ Draws(q)' = Draws(q)
  BY <1>1 DEF CallOf, OnMain, Kind, Sending, Draws
<1>4. ASSUME NEW q \in Ranks \ {r}
      PROVE  DoneInv(q)' /\ SenderInv(q)'
  <2>1. DoneInv(q) /\ SenderInv(q)
    BY DEF SInv
  <2>2. PICK j : j = CallOf(q)
    OBVIOUS
  <2>3. CallOf(q)' = j /\ PairsOf(j, q)' = PairsOf(j, q)
    BY <1>2, <1>3, <2>2
  <2>4. DoneInv(q)'
    BY <1>3, <2>1, <2>2, <2>3 DEF DoneInv
  <2>5. SenderInv(q)'
    BY <1>3, <2>1 DEF SenderInv, PairsTo
  <2> QED BY <2>4, <2>5
<1>5. ASSUME NEW q \in Ranks \ {r}, NEW k \in Calls
      PROVE  SlotsInv(q, k)'
  <2>1. SlotsInv(q, k)
    BY DEF SInv
  <2>2. SlotDomain(q, k)' = SlotDomain(q, k)
    BY <1>2 DEF SlotDomain
  <2>3. handle'[q][k].slot = handle[q][k].slot
    OBVIOUS
  <2> QED BY <1>1, <1>3, <2>1, <2>2, <2>3 DEF SlotsInv, SlotsApart, SlotsBelow
<1> QED BY <1>1, <1>4, <1>5 DEF SInv

LEMMA SlotsQuiet ==
  ASSUME SInv, UNCHANGED <<setup, kernels, stage, done, sender>>,
         \A q \in Ranks : \A k \in Calls : handle'[q][k].slot = handle[q][k].slot
  PROVE  SInv'
<1>1. /\ Prog' = Prog /\ Calls' = Calls
      /\ \A k, s : Rows(k, s)' = Rows(k, s)
      /\ \A k, s, d : Count(k, s, d)' = Count(k, s, d)
      /\ \A k : ReusesSlots(k)' = ReusesSlots(k)
  BY RoutingFixed
<1>2. \A k, s : PairsOf(k, s)' = PairsOf(k, s)
  BY <1>1 DEF PairsOf
<1>3. \A q : /\ CallOf(q)' = CallOf(q) /\ OnMain(q)' = OnMain(q) /\ Kind(q)' = Kind(q)
             /\ Sending(q)' = Sending(q) /\ Draws(q)' = Draws(q)
  BY <1>1 DEF CallOf, OnMain, Kind, Sending, Draws
<1>4. ASSUME NEW r \in Ranks
      PROVE  DoneInv(r)' /\ SenderInv(r)'
  <2>1. DoneInv(r) /\ SenderInv(r)
    BY DEF SInv
  <2>2. PICK j : j = CallOf(r)
    OBVIOUS
  <2>3. CallOf(r)' = j /\ PairsOf(j, r)' = PairsOf(j, r)
    BY <1>2, <1>3, <2>2
  <2>4. DoneInv(r)'
    BY <1>3, <2>1, <2>2, <2>3 DEF DoneInv
  <2>5. SenderInv(r)'
    BY <1>3, <2>1 DEF SenderInv, PairsTo
  <2> QED BY <2>4, <2>5
<1>5. ASSUME NEW r \in Ranks, NEW k \in Calls
      PROVE  SlotsInv(r, k)'
  <2>1. SlotsInv(r, k)
    BY DEF SInv
  <2>2. SlotDomain(r, k)' = SlotDomain(r, k)
    BY <1>2 DEF SlotDomain
  <2> QED BY <1>1, <1>3, <2>1, <2>2 DEF SlotsInv, SlotsApart, SlotsBelow
<1> QED BY <1>1, <1>4, <1>5 DEF SInv

\* The slots of a call stay in order while they and their domain stay.
LEMMA SlotsStay ==
  ASSUME setup' = setup, NEW r \in Ranks, NEW k \in Calls, SlotsInv(r, k),
         handle'[r][k].slot = handle[r][k].slot,
         Prog[k].kind = "dispatch" => SlotDomain(r, k)' = SlotDomain(r, k),
         Prog[k].kind = "dispatch" /\ kernels'[r] = 2 * k - 2 /\ Draws(r)' =>
           \/ kernels[r] = 2 * k - 2 /\ Draws(r) /\ sender'[r] = sender[r]
           \/ SlotDomain(r, k) = {}
  PROVE  SlotsInv(r, k)'
<1>1. Prog' = Prog /\ \A s, d : Count(k, s, d)' = Count(k, s, d)
  BY RoutingFixed
<1> QED BY <1>1 DEF SlotsInv, SlotsApart, SlotsBelow

\* What the invariants say of rank r's kernel and a call.
LEMMA PlaceFacts ==
  ASSUME IInv, NEW r \in Ranks
  PROVE  /\ kernels[r] \in Nat /\ CallOf(r) \in Nat /\ stage[r] \in {"idle", "enter", "work", "leave"}
         /\ setup \in Setups /\ DOMAIN done = Ranks /\ DOMAIN handle = Ranks
         /\ \A k \in Calls : k \in Nat /\ k >= 1
         /\ OnMain(r) => kernels[r] = 2 * CallOf(r) - 2
         /\ ~OnMain(r) => kernels[r] = 2 * CallOf(r) - 1 /\ stage[r] \in {"idle", "work"}
         /\ \A q \in Ranks : DOMAIN handle[q] = Calls /\ \A k \in Calls : DOMAIN handle[q][k] = HandleFields
<1>1. Prog \in Seq(Call)
  BY SetupsAssumption DEF Prog, IInv, CountTypes
<1>2. \A k \in Calls : k \in Nat /\ k >= 1
  BY <1>1 DEF Calls
<1> QED BY <1>2, CallArithmetic DEF IInv, CountTypes, InStep

LEMMA StartMainSlots ==
  ASSUME IInv, SInv, NEW r \in Ranks, Running(r), StartMain(r)
  PROVE  SInv'
<1>1. /\ stage[r] = "idle" /\ OnMain(r) /\ UNCHANGED <<setup, kernels, sender>>
      /\ stage' = [stage EXCEPT ![r] = "enter"] /\ done' = [done EXCEPT ![r] = {}]
      /\ handle' = IF Kind(r) = "dispatch" /\ setup.deterministic
                   THEN [handle EXCEPT ![r][CallOf(r)].slot = PrologueSlots(Rows(CallOf(r), r))] ELSE handle
  BY DEF StartMain
<1>2. PICK k \in Calls : k = CallOf(r)
  BY RunningCall DEF IInv
<1>3. /\ stage'[r] = "enter" /\ done'[r] = {} /\ kernels[r] = 2 * k - 2 /\ k \in Nat /\ setup \in Setups
      /\ \A q \in Ranks \ {r} : stage'[q] = stage[q] /\ done'[q] = done[q]
  BY <1>1, <1>2, PlaceFacts DEF IInv, CountTypes
<1>4. ~Sending(r) /\ ~Draws(r) /\ ~Sending(r)' /\ ~Draws(r)'
  BY <1>1, <1>3 DEF Sending, Draws
<1>5. /\ \A q \in Ranks : \A j \in Calls : q # r \/ j # k => handle'[q][j].slot = handle[q][j].slot
      /\ handle'[r][k].slot = IF Kind(r) = "dispatch" /\ setup.deterministic
                              THEN PrologueSlots(Rows(k, r)) ELSE handle[r][k].slot
  BY <1>1, <1>2, PlaceFacts DEF HandleFields
<1>6. DoneInv(r)'
  BY <1>3, <1>4 DEF DoneInv
<1>7. SenderInv(r)'
  BY <1>1, <1>4 DEF SenderInv, SInv
<1>8. ASSUME NEW j \in Calls
      PROVE  SlotsInv(r, j)'
  <2>1. SlotsInv(r, j) /\ j \in Nat
    BY PlaceFacts DEF SInv
  <2>2. \A q, s : PairsOf(q, s)' = PairsOf(q, s)
    BY <1>1, RoutingFixed DEF PairsOf
  <2>3. CASE j # k
    <3>1. kernels[r] # 2 * j - 2
      BY <1>3, <2>1, <2>3
    <3>2. SlotDomain(r, j)' = SlotDomain(r, j)
      BY <1>1, <2>2, <3>1 DEF SlotDomain
    <3> QED BY <1>1, <1>4, <1>5, <2>1, <2>3, <3>2, SlotsStay
  <2>4. CASE j = k /\ ~(Kind(r) = "dispatch" /\ setup.deterministic)
    <3>1. Prog[j].kind = "dispatch" => SlotDomain(r, j)' = SlotDomain(r, j)
      BY <1>1, <1>2, <1>3, <2>2, <2>4 DEF SlotDomain, Kind
    <3> QED BY <1>1, <1>4, <1>5, <2>1, <2>4, <3>1, SlotsStay
  <2>5. CASE j = k /\ Kind(r) = "dispatch" /\ setup.deterministic
    <3>1. handle'[r][k].slot = PrologueSlots(Rows(k, r))
      BY <1>5, <2>5
    <3>2. SlotDomain(r, k)' = PairsOf(k, r)
      BY <1>1, <1>3, <2>2, <2>5 DEF SlotDomain
    <3>3. DOMAIN PrologueSlots(Rows(k, r)) = PairsOf(k, r) /\ SlotsApart(k, r, PrologueSlots(Rows(k, r)))
      BY <1>3, PrologueApart
    <3>4. \A s, d : Count(k, s, d)' = Count(k, s, d)
      BY <1>1, RoutingFixed
    <3>5. SlotsApart(k, r, handle[r][k].slot)'
      BY <3>1, <3>3, <3>4 DEF SlotsApart
    <3>6. DOMAIN handle'[r][k].slot = SlotDomain(r, k)'
      BY <3>1, <3>2, <3>3
    <3> QED BY <1>4, <2>5, <3>5, <3>6 DEF SlotsInv
  <2> QED BY <2>3, <2>4, <2>5
<1> QED BY <1>1, <1>3, <1>5, <1>6, <1>7, <1>8, SlotsMove DEF SInv

\* A move of a rank that leaves the slots and the senders alone.
LEMMA SlotsPlace ==
  ASSUME IInv, SInv, NEW r \in Ranks, UNCHANGED <<setup, sender>>,
         \A q \in Ranks \ {r} : kernels'[q] = kernels[q] /\ stage'[q] = stage[q] /\ done'[q] = done[q],
         \A q \in Ranks : \A k \in Calls : handle'[q][k].slot = handle[q][k].slot,
         DoneInv(r)',
         Draws(r)' => Draws(r) /\ done'[r] = done[r],
         ~Draws(r)' => ~Draws(r),
         \A k \in Calls : Prog[k].kind = "dispatch" =>
           /\ SlotDomain(r, k)' = SlotDomain(r, k)
           /\ kernels'[r] = 2 * k - 2 /\ Draws(r)' => kernels[r] = 2 * k - 2
  PROVE  SInv'
<1>1. SenderInv(r)'
  <2>1. SenderInv(r) /\ sender' = sender
    BY DEF SInv
  <2>2. CASE Draws(r)'
    <3>1. \A d : Cardinality(PairsTo(done[r], d))' = Cardinality(PairsTo(done[r], d))
      BY <2>2 DEF PairsTo
    <3> QED BY <2>1, <2>2, <3>1 DEF SenderInv
  <2>3. CASE ~Draws(r)'
    BY <2>1, <2>3 DEF SenderInv
  <2> QED BY <2>2, <2>3
<1>2. \A k \in Calls : SlotsInv(r, k)'
  BY SlotsStay DEF SInv
<1> QED BY <1>1, <1>2, SlotsMove DEF SInv

LEMMA PassEntrySlots ==
  ASSUME IInv, SInv, NEW r \in Ranks, PassEntry(r)
  PROVE  SInv'
<1>1. /\ stage[r] = "enter" /\ stage' = [stage EXCEPT ![r] = "work"]
      /\ UNCHANGED <<setup, kernels, done, sender, handle>>
  BY DEF PassEntry, tokenVars
<1>2. /\ stage'[r] = "work" /\ done[r] = {} /\ setup \in Setups
      /\ \A q \in Ranks \ {r} : stage'[q] = stage[q]
  BY <1>1 DEF SInv, DoneInv, IInv, CountTypes
<1>3. ~Draws(r) /\ ~Sending(r)
  BY <1>1 DEF Draws, Sending
<1>4. DoneInv(r)'
  BY <1>1, <1>2 DEF DoneInv
<1>5. SenderInv(r)'
  <2>1. \A d : PairsTo({}, d) = {} /\ Cardinality({}) = 0
    BY FS_EmptySet DEF PairsTo
  <2>2. \A d : Cardinality(PairsTo(done[r], d))' = 0
    BY <1>1, <1>2, <2>1 DEF PairsTo
  <2>3. sender'[r] = [d \in Ranks |-> 0]
    BY <1>1, <1>3 DEF SInv, SenderInv
  <2> QED BY <2>2, <2>3 DEF SenderInv
<1>6. ASSUME NEW k \in Calls
      PROVE  SlotsInv(r, k)'
  <2>1. \A q, s : PairsOf(q, s)' = PairsOf(q, s)
    BY <1>1, RoutingFixed DEF PairsOf
  <2>2. SlotDomain(r, k)' = SlotDomain(r, k)
    BY <1>1, <1>2, <2>1 DEF SlotDomain
  <2>3. kernels[r] = 2 * k - 2 /\ Draws(r)' => SlotDomain(r, k) = {}
    <3>1. kernels[r] \in Nat /\ k \in Nat
      BY PlaceFacts
    <3>3. Draws(r)' => ~setup.deterministic
      BY <1>1 DEF Draws, ReusesSlots
    <3> QED BY <1>1, <3>1, <3>3 DEF SlotDomain
  <2> QED BY <1>1, <2>2, <2>3, SlotsStay DEF SInv
<1> QED BY <1>1, <1>2, <1>4, <1>5, <1>6, SlotsMove DEF SInv


LEMMA ItemsArePairs ==
  ASSUME NEW r, OnMain(r), Kind(r) \in AnyDispatch
  PROVE  Items(r) = PairsOf(CallOf(r), r)
BY DEF Items, PairsOf

\* One more pair for a destination.
LEMMA OneMorePair ==
  ASSUME setup \in Setups, NEW k \in Calls, NEW r \in Ranks,
         NEW P, P \subseteq PairsOf(k, r), NEW p \in PairsOf(k, r) \ P
  PROVE  /\ \A d : Cardinality(PairsTo(P, d)) \in Nat
         /\ Cardinality(PairsTo(P, p[2])) < Count(k, r, p[2])
         /\ \A d : Cardinality(PairsTo(P \cup {p}, d)) =
                     Cardinality(PairsTo(P, d)) + (IF d = p[2] THEN 1 ELSE 0)
<1>1. IsFiniteSet(PairsOf(k, r)) /\ \A d : Cardinality(PairsTo(PairsOf(k, r), d)) = Count(k, r, d)
  BY PairsFacts
<1>2. ASSUME NEW Q, Q \subseteq PairsOf(k, r), NEW d
      PROVE  IsFiniteSet(PairsTo(Q, d)) /\ Cardinality(PairsTo(Q, d)) \in Nat
  <2>1. PairsTo(Q, d) \subseteq PairsOf(k, r)
    BY <1>2 DEF PairsTo
  <2> QED BY <1>1, <2>1, FS_Subset, FS_CardinalityType
<1>3. Cardinality(PairsTo(P, p[2])) < Count(k, r, p[2])
  <2>1. /\ PairsTo(P, p[2]) \subseteq PairsTo(PairsOf(k, r), p[2])
        /\ PairsTo(P, p[2]) # PairsTo(PairsOf(k, r), p[2])
    BY DEF PairsTo
  <2>2. IsFiniteSet(PairsTo(PairsOf(k, r), p[2]))
    BY <1>2
  <2>3. /\ Cardinality(PairsTo(P, p[2])) <= Cardinality(PairsTo(PairsOf(k, r), p[2]))
        /\ Cardinality(PairsTo(P, p[2])) # Cardinality(PairsTo(PairsOf(k, r), p[2]))
    BY <2>1, <2>2, FS_Subset
  <2>4. Cardinality(PairsTo(P, p[2])) \in Nat /\ Cardinality(PairsTo(PairsOf(k, r), p[2])) \in Nat
    BY <1>2
  <2>5. Cardinality(PairsTo(PairsOf(k, r), p[2])) = Count(k, r, p[2])
    BY <1>1
  <2> QED BY <2>3, <2>4, <2>5
<1>4. ASSUME NEW d
      PROVE  Cardinality(PairsTo(P \cup {p}, d)) = Cardinality(PairsTo(P, d)) + (IF d = p[2] THEN 1 ELSE 0)
  <2>1. IsFiniteSet(PairsTo(P, d)) /\ Cardinality(PairsTo(P, d)) \in Nat
    BY <1>2
  <2>2. CASE d = p[2]
    <3>1. PairsTo(P \cup {p}, d) = PairsTo(P, d) \cup {p} /\ p \notin PairsTo(P, d)
      BY <2>2 DEF PairsTo
    <3>2. Cardinality(PairsTo(P, d) \cup {p}) = Cardinality(PairsTo(P, d)) + 1
      BY <2>1, <3>1, FS_AddElement
    <3> QED BY <2>2, <3>1, <3>2
  <2>3. CASE d # p[2]
    <3>1. PairsTo(P \cup {p}, d) = PairsTo(P, d)
      BY <2>3 DEF PairsTo
    <3> QED BY <2>1, <2>3, <3>1
  <2> QED BY <2>2, <2>3
<1> QED BY <1>2, <1>3, <1>4

LEMMA SendTokenSlots ==
  ASSUME IInv, SInv, NEW r \in Ranks, Running(r), NEW t, NEW d, SendToken(r, t, d)
  PROVE  SInv'
<1> DEFINE p == <<t, d>>
<1>1. PICK k \in Calls : k = CallOf(r)
  BY RunningCall DEF IInv
<1>2. /\ UNCHANGED <<setup, kernels, stage>> /\ MainRuns(r, AnyDispatch)
      /\ p \in Items(r) \ done[r] /\ done' = [done EXCEPT ![r] = @ \cup {p}]
  BY DEF SendToken
<1>3. stage[r] = "work" /\ OnMain(r) /\ Kind(r) \in AnyDispatch /\ Sending(r)
  BY <1>2 DEF MainRuns, Sending
<1>4. k \in Nat /\ kernels[r] = 2 * k - 2 /\ setup \in Setups
  BY <1>1, <1>3, PlaceFacts
<1>5. p \in PairsOf(k, r) \ done[r] /\ done[r] \subseteq PairsOf(k, r) /\ d \in Ranks
  <2>1. p \in PairsOf(k, r)
    BY <1>1, <1>2, <1>3, ItemsArePairs
  <2>2. p[2] \in Ranks
    BY <1>4, <2>1, PairsFacts
  <2> QED BY <1>1, <1>2, <1>3, <2>1, <2>2 DEF SInv, DoneInv
<1>6. done'[r] = done[r] \cup {p} /\ \A q \in Ranks \ {r} : done'[q] = done[q]
  BY <1>2, PlaceFacts
<1>7. /\ CallOf(r)' = k /\ Sending(r)' /\ Draws(r)' = Draws(r) /\ stage'[r] = "work"
      /\ \A j, s : PairsOf(j, s)' = PairsOf(j, s)
      /\ \A j, s, x : Count(j, s, x)' = Count(j, s, x)
      /\ Prog' = Prog
  <2>1. CallOf(r)' = CallOf(r) /\ OnMain(r)' = OnMain(r) /\ Kind(r)' = Kind(r) /\ Prog' = Prog
    BY <1>2, RoutingFixed DEF CallOf, OnMain, Kind
  <2>2. \A j, s : PairsOf(j, s)' = PairsOf(j, s)
    BY <1>2, RoutingFixed DEF PairsOf
  <2>3. \A j, s, x : Count(j, s, x)' = Count(j, s, x)
    BY <1>2, RoutingFixed
  <2>4. Sending(r)' /\ Draws(r)' = Draws(r)
    <3>1. Sending(r)' = Sending(r)
      BY <1>2, <2>1 DEF Sending
    <3>2. ReusesSlots(CallOf(r))' = ReusesSlots(CallOf(r))
      BY <1>2, <2>1 DEF ReusesSlots
    <3> QED BY <1>3, <3>1, <3>2 DEF Draws
  <2> QED BY <1>1, <1>2, <1>3, <2>1, <2>2, <2>3, <2>4
<1>8. DoneInv(r)'
  <2>1. PairsOf(CallOf(r), r)' = PairsOf(k, r)
    BY <1>1, <1>2, <1>7 DEF PairsOf
  <2> QED BY <1>5, <1>6, <1>7, <2>1 DEF DoneInv
<1> HIDE DEF p
<1>9. \A j \in Calls : j # k => SlotDomain(r, j)' = SlotDomain(r, j)
  <2>1. \A j \in Calls : j # k => kernels[r] # 2 * j - 2
    BY <1>4, PlaceFacts
  <2> QED BY <1>2, <1>7, <2>1 DEF SlotDomain
<1>10. CASE ReusesSlots(k)
  <2>1. sender' = sender /\ handle' = handle /\ ~Draws(r)
    BY <1>1, <1>10 DEF SendToken, Draws
  <2>2. Prog[k].kind = "dispatch" => SlotDomain(r, k)' = SlotDomain(r, k)
    BY <1>2, <1>4, <1>7, <1>10 DEF SlotDomain, ReusesSlots
  <2> QED BY <1>2, <1>6, <1>7, <1>8, <1>9, <2>1, <2>2, SlotsPlace
<1>11. CASE ~ReusesSlots(k)
  <2>1. Prog[k].kind = "dispatch" /\ ~setup.deterministic /\ Draws(r)
    BY <1>1, <1>3, <1>11 DEF ReusesSlots, Kind, AnyDispatch, Draws
  <2>2. PICK n : n = sender[r][d]
    OBVIOUS
  <2>3. /\ sender' = [sender EXCEPT ![r][d] = @ + 1]
        /\ handle' = [handle EXCEPT ![r][k].slot = Extend(@, p, n)]
    BY <1>1, <1>11, <2>2 DEF SendToken, p
  <2>4. sender[r] = [x \in Ranks |-> Cardinality(PairsTo(done[r], x))]
    BY <2>1 DEF SInv, SenderInv
  <2>5. p[2] = d
    BY DEF p
  <2>6. /\ n = Cardinality(PairsTo(done[r], d)) /\ n \in Nat /\ n < Count(k, r, d)
        /\ \A x : Cardinality(PairsTo(done[r] \cup {p}, x)) = Cardinality(PairsTo(done[r], x)) + (IF x = d THEN 1 ELSE 0)
        /\ \A x : Cardinality(PairsTo(done[r], x)) \in Nat
    <3>1. n = Cardinality(PairsTo(done[r], d))
      BY <1>5, <2>2, <2>4
    <3>2. PICK P : P = done[r]
      OBVIOUS
    <3>3. P \subseteq PairsOf(k, r) /\ p \in PairsOf(k, r) \ P
      BY <1>5, <3>2
    <3>4. /\ \A x : Cardinality(PairsTo(P, x)) \in Nat
          /\ Cardinality(PairsTo(P, p[2])) < Count(k, r, p[2])
          /\ \A x : Cardinality(PairsTo(P \cup {p}, x)) = Cardinality(PairsTo(P, x)) + (IF x = p[2] THEN 1 ELSE 0)
      BY <1>4, <3>3, OneMorePair
    <3> QED BY <2>5, <3>1, <3>2, <3>4
  <2>7. /\ DOMAIN sender' = Ranks /\ \A q \in Ranks \ {r} : sender'[q] = sender[q]
        /\ sender'[r] = [sender[r] EXCEPT ![d] = n + 1]
    BY <2>2, <2>3 DEF SInv
  <2>8. SenderInv(r)'
    <3>1. \A x \in Ranks : sender'[r][x] = Cardinality(PairsTo(done[r] \cup {p}, x))
      <4>1. \A x \in Ranks : sender'[r][x] = IF x = d THEN n + 1 ELSE sender[r][x]
        BY <1>5, <2>4, <2>7
      <4>2. \A x \in Ranks : sender[r][x] = Cardinality(PairsTo(done[r], x))
        BY <2>4
      <4> QED BY <2>6, <4>1, <4>2
    <3>2. sender'[r] = [x \in Ranks |-> sender'[r][x]]
      BY <2>4, <2>7
    <3>3. \A x : Cardinality(PairsTo(done[r], x))' = Cardinality(PairsTo(done[r] \cup {p}, x))
      BY <1>6 DEF PairsTo
    <3> QED BY <1>7, <2>1, <3>1, <3>2, <3>3 DEF SenderInv
  <2>9. PICK old : old = handle[r][k].slot
    OBVIOUS
  <2>10. /\ handle'[r][k].slot = Extend(old, p, n)
         /\ \A q \in Ranks : \A j \in Calls : q # r \/ j # k => handle'[q][j].slot = handle[q][j].slot
    BY <2>3, <2>9, PlaceFacts DEF HandleFields
  <2>11. /\ DOMAIN old = done[r] /\ SlotsApart(k, r, old) /\ SlotsBelow(old, sender[r])
    <3>1. SlotDomain(r, k) = done[r]
      BY <1>3, <1>4, <2>1 DEF SlotDomain
    <3> QED BY <1>4, <2>1, <2>9, <3>1 DEF SInv, SlotsInv
  <2>12. PICK new : new = Extend(old, p, n)
    OBVIOUS
  <2>13. /\ DOMAIN new = done[r] \cup {p} /\ new[p] = n /\ p \notin done[r]
         /\ \A q \in done[r] : new[q] = old[q]
    BY <1>5, <2>11, <2>12 DEF Extend
  <2>14. SlotsApart(k, r, new)
    <3>1. \A q \in done[r] : new[q] \in 0 .. Count(k, r, q[2]) - 1
      BY <2>11, <2>13 DEF SlotsApart
    <3>2. new[p] \in 0 .. Count(k, r, p[2]) - 1
      <4>1. Count(k, r, d) \in Nat
        BY <1>4, CountFacts
      <4> QED BY <2>5, <2>6, <2>13, <4>1
    <3>3. \A q \in done[r] : q[2] = d => new[q] < n
      BY <2>2, <2>11, <2>13 DEF SlotsBelow
    <3>4. \A q \in done[r] : q[2] = p[2] => new[q] # new[p]
      <4>1. \A q \in done[r] : new[q] \in Int
        BY <3>1
      <4> QED BY <2>5, <2>6, <2>13, <3>3, <4>1
    <3>5. \A a, b \in done[r] : a[2] = b[2] /\ new[a] = new[b] => a = b
      BY <2>11, <2>13 DEF SlotsApart
    <3> QED BY <2>13, <3>1, <3>2, <3>4, <3>5 DEF SlotsApart
  <2>15. SlotsBelow(new, sender'[r])
    <3>1. \A x \in Ranks : sender'[r][x] = sender[r][x] + (IF x = d THEN 1 ELSE 0) /\ sender[r][x] \in Nat
      BY <2>2, <2>4, <2>6, <2>7
    <3>2. \A q \in done[r] : q[2] \in Ranks
      BY <1>4, <1>5, PairsFacts
    <3>3. \A q \in done[r] : new[q] \in Int /\ new[q] < sender[r][q[2]]
      BY <2>11, <2>13 DEF SlotsBelow, SlotsApart
    <3>4. \A q \in done[r] : new[q] < sender'[r][q[2]]
      BY <3>1, <3>2, <3>3
    <3>5. new[p] < sender'[r][p[2]]
      <4>1. sender'[r][d] = n + 1
        BY <1>5, <2>2, <2>6, <3>1
      <4> QED BY <2>5, <2>6, <2>13, <4>1
    <3> QED BY <2>13, <3>4, <3>5 DEF SlotsBelow
  <2>16. SlotsInv(r, k)'
    <3>1. SlotDomain(r, k)' = done[r] \cup {p}
      BY <1>2, <1>3, <1>4, <1>6, <2>1 DEF SlotDomain
    <3>2. SlotsApart(k, r, new)'
      BY <1>7, <2>14 DEF SlotsApart
    <3>3. handle'[r][k].slot = new
      BY <2>10, <2>12
    <3> QED BY <2>13, <2>15, <3>1, <3>2, <3>3 DEF SlotsInv, SlotsApart
  <2>17. \A j \in Calls : SlotsInv(r, j)'
    <3>1. ASSUME NEW j \in Calls, j # k
          PROVE  SlotsInv(r, j)'
      <4>1. kernels'[r] # 2 * j - 2
        BY <1>2, <1>4, <3>1, PlaceFacts
      <4> QED BY <1>2, <1>9, <2>10, <3>1, <4>1, SlotsStay DEF SInv
    <3> QED BY <2>16, <3>1
  <2> QED BY <1>2, <1>6, <1>8, <2>7, <2>8, <2>10, <2>17, SlotsMove
<1> QED BY <1>10, <1>11


LEMMA ArriveSlots ==
  ASSUME IInv, SInv, NEW r \in Ranks, Arrive(r)
  PROVE  SInv'
<1>1. /\ stage[r] = "work" /\ OnMain(r) /\ done[r] = Items(r) /\ stage' = [stage EXCEPT ![r] = "leave"]
      /\ UNCHANGED <<setup, kernels, done, sender, handle>>
  BY DEF Arrive, tokenVars
<1>2. stage'[r] = "leave" /\ \A q \in Ranks \ {r} : stage'[q] = stage[q]
  BY <1>1 DEF IInv, CountTypes
<1>3. PICK k : k = CallOf(r)
  OBVIOUS
<1>4. CallOf(r)' = k /\ OnMain(r)' = OnMain(r) /\ Kind(r)' = Kind(r)
  BY <1>1, <1>3 DEF CallOf, OnMain, Kind, Prog
<1>5. \A j, s : PairsOf(j, s)' = PairsOf(j, s)
  BY <1>1, RoutingFixed DEF PairsOf
<1>6. Sending(r)' = Sending(r) /\ Draws(r)' = Draws(r)
  <2>1. Sending(r)' = Sending(r)
    BY <1>1, <1>2, <1>4 DEF Sending
  <2>2. ReusesSlots(k)' = ReusesSlots(k)
    BY <1>1, RoutingFixed
  <2> QED BY <1>3, <1>4, <2>1, <2>2 DEF Draws
<1>7. DoneInv(r)'
  <2>1. Sending(r) => done[r] = PairsOf(k, r)
    BY <1>1, <1>3, ItemsArePairs DEF Sending
  <2> QED BY <1>1, <1>2, <1>4, <1>5, <1>6, <2>1 DEF DoneInv
<1>8. \A j \in Calls : SlotDomain(r, j)' = SlotDomain(r, j)
  BY <1>1, <1>2, <1>5 DEF SlotDomain
<1> QED BY <1>1, <1>2, <1>6, <1>7, <1>8, SlotsPlace

\* A step of a kernel that does not send tokens of a dispatch.
LEMMA NotSending ==
  ASSUME IInv, SInv, NEW r \in Ranks, UNCHANGED <<setup, kernels, stage, sender>>,
         stage[r] = "work", ~Sending(r),
         \A q \in Ranks \ {r} : done'[q] = done[q],
         \A q \in Ranks : \A k \in Calls : handle'[q][k].slot = handle[q][k].slot
  PROVE  SInv'
<1>1. CallOf(r)' = CallOf(r) /\ OnMain(r)' = OnMain(r) /\ Kind(r)' = Kind(r) /\ Sending(r)' = Sending(r)
  <2>1. CallOf(r)' = CallOf(r) /\ OnMain(r)' = OnMain(r) /\ Kind(r)' = Kind(r)
    BY DEF CallOf, OnMain, Kind, Prog
  <2> QED BY <2>1 DEF Sending
<1>2. ~Draws(r) /\ ~Draws(r)'
  BY <1>1 DEF Draws
<1>3. DoneInv(r)'
  BY <1>1 DEF DoneInv
<1>4. \A j, s : PairsOf(j, s)' = PairsOf(j, s)
  BY RoutingFixed DEF PairsOf
<1>5. ASSUME NEW k \in Calls, Prog[k].kind = "dispatch"
      PROVE  SlotDomain(r, k)' = SlotDomain(r, k)
  <2>1. k \in Nat /\ (OnMain(r) => kernels[r] = 2 * CallOf(r) - 2)
        /\ (~OnMain(r) => kernels[r] = 2 * CallOf(r) - 1) /\ CallOf(r) \in Nat
    BY PlaceFacts
  <2>2. kernels[r] # 2 * k - 2
    <3>1. CASE OnMain(r)
      <4>1. CallOf(r) # k
        BY <1>5, <3>1 DEF Sending, Kind, AnyDispatch
      <4> QED BY <2>1, <3>1, <4>1
    <3>2. CASE ~OnMain(r)
      BY <2>1, <3>2
    <3> QED BY <3>1, <3>2
  <2> QED BY <1>4, <2>2 DEF SlotDomain
<1> QED BY <1>2, <1>3, <1>5, SlotsPlace

LEMMA SendBackSlots ==
  ASSUME IInv, SInv, NEW r \in Ranks, NEW i, SendBack(r, i)
  PROVE  SInv'
<1>1. /\ UNCHANGED <<setup, kernels, stage, sender, handle>> /\ done' = [done EXCEPT ![r] = @ \cup {i}]
      /\ MainRuns(r, {"combine"})
  BY DEF SendBack
<1>2. stage[r] = "work" /\ ~Sending(r)
  BY <1>1 DEF MainRuns, Sending, AnyDispatch
<1> QED BY <1>1, <1>2, NotSending

LEMMA EpilogueSlots ==
  ASSUME IInv, SInv, NEW r \in Ranks, Running(r), NEW i
  PROVE  /\ CopyToken(r, i) => SInv'
         /\ ReduceToken(r, i) => SInv'
<1> DEFINE k == CallOf(r)
<1>0. k \in Calls
  BY RunningCall DEF IInv
<1>1. ASSUME CopyToken(r, i)
      PROVE  SInv'
  <2>1. /\ UNCHANGED <<setup, kernels, stage, sender>> /\ done' = [done EXCEPT ![r] = @ \cup {i}]
        /\ EpilogueRuns(r, AnyDispatch)
    BY <1>1 DEF CopyToken
  <2>2. stage[r] = "work" /\ ~Sending(r)
    BY <2>1 DEF EpilogueRuns, Sending
  <2>3. PICK s \in Ranks : CopyFrom(r, i, s)
    BY <1>1 DEF CopyToken
  <2>4. PICK md, y, z : handle' = [handle EXCEPT ![r][k].meta = Extend(@, i, md),
                                                ![r][k].recv = y, ![r][k].epsum = z]
    BY <2>3 DEF CopyFrom
  <2> HIDE DEF k
  <2>5. \A q \in Ranks : \A j \in Calls : handle'[q][j].slot = handle[q][j].slot
    BY <1>0, <2>4, PlaceFacts DEF HandleFields
  <2> QED BY <2>1, <2>2, <2>5, NotSending
<1>2. ASSUME ReduceToken(r, i)
      PROVE  SInv'
  <2>1. /\ UNCHANGED <<setup, kernels, stage, sender>> /\ done' = [done EXCEPT ![r] = @ \cup {i}]
        /\ EpilogueRuns(r, {"combine"})
    BY <1>2 DEF ReduceToken
  <2>2. stage[r] = "work" /\ ~Sending(r)
    BY <2>1 DEF EpilogueRuns, Sending
  <2>3. \E x : handle' = [handle EXCEPT ![r][k].sums = x]
    BY <1>2 DEF ReduceToken
  <2>4. PICK x : handle' = [handle EXCEPT ![r][k].sums = x]
    BY <2>3
  <2> HIDE DEF k
  <2>5. \A q \in Ranks : \A j \in Calls : handle'[q][j].slot = handle[q][j].slot
    BY <1>0, <2>4, PlaceFacts DEF HandleFields
  <2> QED BY <2>1, <2>2, <2>5, NotSending
<1> QED BY <1>1, <1>2

LEMMA EndMainSlots ==
  ASSUME IInv, SInv, NEW r \in Ranks, EndMain(r)
  PROVE  SInv'
<1>1. /\ stage[r] = "leave" /\ stage' = [stage EXCEPT ![r] = "idle"]
      /\ kernels' = [kernels EXCEPT ![r] = @ + 1]
      /\ sender' = IF Kind(r) \in AnyDispatch /\ ~ReusesSlots(CallOf(r))
                   THEN [sender EXCEPT ![r] = [d \in Ranks |-> 0]] ELSE sender
      /\ UNCHANGED <<setup, done, handle>>
  BY DEF EndMain
<1>2. PICK k \in Nat : k = CallOf(r) /\ kernels[r] = 2 * k - 2 /\ kernels[r] \in Nat /\ OnMain(r) /\ setup \in Setups
  BY <1>1, PlaceFacts
<1>3. /\ stage'[r] = "idle" /\ kernels'[r] = kernels[r] + 1
      /\ \A q \in Ranks \ {r} : stage'[q] = stage[q] /\ kernels'[q] = kernels[q]
  BY <1>1 DEF IInv, CountTypes
<1>4. \A j, s : PairsOf(j, s)' = PairsOf(j, s)
  BY <1>1, RoutingFixed DEF PairsOf
<1>5. ~Sending(r)' /\ ~Draws(r)' /\ DoneInv(r)'
  BY <1>3 DEF Sending, Draws, DoneInv
<1>6. /\ DOMAIN sender' = Ranks /\ \A q \in Ranks \ {r} : sender'[q] = sender[q]
      /\ sender'[r] = [d \in Ranks |-> 0]
  <2>1. CASE Kind(r) \in AnyDispatch /\ ~ReusesSlots(CallOf(r))
    BY <1>1, <2>1 DEF SInv
  <2>2. CASE ~(Kind(r) \in AnyDispatch /\ ~ReusesSlots(CallOf(r)))
    <3>1. ~Draws(r)
      BY <2>2 DEF Draws, Sending
    <3>2. sender' = sender
      BY <1>1, <2>2
    <3> QED BY <3>1, <3>2 DEF SInv, SenderInv
  <2> QED BY <2>1, <2>2
<1>7. SenderInv(r)'
  BY <1>5, <1>6 DEF SenderInv
<1>8. ASSUME NEW j \in Calls
      PROVE  SlotsInv(r, j)'
  <2>1. j \in Nat
    BY PlaceFacts
  <2>2. ASSUME Prog[j].kind = "dispatch"
        PROVE  SlotDomain(r, j)' = SlotDomain(r, j)
    <3>1. CASE j = k
      <4>1. Sending(r)
        BY <1>1, <1>2, <2>2, <3>1 DEF Sending, Kind, AnyDispatch
      <4>2. done[r] = PairsOf(k, r)
        BY <1>1, <1>2, <4>1 DEF SInv, DoneInv
      <4> QED BY <1>1, <1>2, <1>3, <1>4, <3>1, <4>2 DEF SlotDomain
    <3>2. CASE j # k
      <4>1. /\ kernels[r] # 2 * j - 2 /\ kernels'[r] # 2 * j - 2
            /\ (kernels'[r] >= 2 * j - 1) = (kernels[r] >= 2 * j - 1)
        BY <1>2, <1>3, <2>1, <3>2
      <4> QED BY <1>1, <1>4, <4>1 DEF SlotDomain
    <3> QED BY <3>1, <3>2
  <2> QED BY <1>1, <1>5, <2>2, SlotsStay DEF SInv
<1> QED BY <1>1, <1>3, <1>5, <1>6, <1>7, <1>8, SlotsMove

LEMMA StartEpilogueSlots ==
  ASSUME IInv, SInv, NEW r \in Ranks, StartEpilogue(r)
  PROVE  SInv'
<1>1. /\ ~OnMain(r) /\ stage' = [stage EXCEPT ![r] = "work"] /\ done' = [done EXCEPT ![r] = {}]
      /\ UNCHANGED <<setup, kernels, sender, handle>>
  BY DEF StartEpilogue
<1>2. stage'[r] = "work" /\ \A q \in Ranks \ {r} : stage'[q] = stage[q] /\ done'[q] = done[q]
  BY <1>1 DEF IInv, CountTypes
<1>3. ~Sending(r) /\ ~Draws(r) /\ ~Sending(r)' /\ ~Draws(r)'
  BY <1>1 DEF Sending, Draws, OnMain
<1>4. DoneInv(r)'
  BY <1>2, <1>3 DEF DoneInv
<1>5. \A k \in Calls : SlotDomain(r, k)' = SlotDomain(r, k)
  <2>1. \A j, s : PairsOf(j, s)' = PairsOf(j, s)
    BY <1>1, RoutingFixed DEF PairsOf
  <2>2. kernels[r] = 2 * CallOf(r) - 1 /\ CallOf(r) \in Nat
    BY <1>1, PlaceFacts
  <2>3. \A k \in Calls : kernels[r] # 2 * k - 2
    BY <2>2, PlaceFacts
  <2> QED BY <1>1, <2>1, <2>3 DEF SlotDomain
<1> QED BY <1>1, <1>2, <1>3, <1>4, <1>5, SlotsPlace

LEMMA EndEpilogueSlots ==
  ASSUME IInv, SInv, NEW r \in Ranks, EndEpilogue(r)
  PROVE  SInv'
<1>1. /\ ~OnMain(r) /\ stage' = [stage EXCEPT ![r] = "idle"]
      /\ kernels' = [kernels EXCEPT ![r] = @ + 1] /\ UNCHANGED <<setup, done, sender, handle>>
  BY DEF EndEpilogue, tokenVars
<1>2. /\ stage'[r] = "idle" /\ kernels'[r] = kernels[r] + 1
      /\ \A q \in Ranks \ {r} : stage'[q] = stage[q] /\ kernels'[q] = kernels[q]
  BY <1>1 DEF IInv, CountTypes
<1>3. ~Draws(r) /\ ~Sending(r)' /\ ~Draws(r)' /\ DoneInv(r)'
  BY <1>1, <1>2 DEF Sending, Draws, DoneInv
<1>4. \A k \in Calls : SlotDomain(r, k)' = SlotDomain(r, k)
  <2>1. \A j, s : PairsOf(j, s)' = PairsOf(j, s)
    BY <1>1, RoutingFixed DEF PairsOf
  <2>2. kernels[r] = 2 * CallOf(r) - 1 /\ CallOf(r) \in Nat
    BY <1>1, PlaceFacts
  <2>3. \A k \in Calls : kernels[r] # 2 * k - 2 /\ (kernels'[r] >= 2 * k - 1) = (kernels[r] >= 2 * k - 1)
    BY <1>2, <2>2, PlaceFacts
  <2> QED BY <1>1, <1>2, <2>1, <2>3 DEF SlotDomain
<1> QED BY <1>1, <1>2, <1>3, <1>4, SlotsPlace

LEMMA SStep == IInv /\ SInv /\ [Next]_vars => SInv'
<1> SUFFICES ASSUME IInv, SInv, [Next]_vars
             PROVE  SInv'
  OBVIOUS
<1>1. ASSUME NEW r \in Ranks, HostCall(r)
      PROVE  SInv'
  <2> DEFINE k == call[r] + 1
  <2>1. /\ UNCHANGED <<setup, kernels, stage, done, sender>> /\ k \in Calls
        /\ \/ handle' = handle
           \/ \E x, y : handle' = [handle EXCEPT ![r][k].num = x, ![r][k].alloc = y]
    <3>1. UNCHANGED <<setup, kernels, stage, done, sender>> /\ call[r] < Len(Prog)
      BY <1>1 DEF HostCall, tokenVars
    <3>2. k \in Calls
      <4>1. Prog \in Seq(Call) /\ call[r] \in Nat
        BY SetupsAssumption DEF Prog, IInv, CountTypes
      <4> QED BY <3>1, <4>1 DEF Calls
    <3>3. \/ handle' = handle
          \/ \E x, y : handle' = [handle EXCEPT ![r][k].num = x, ![r][k].alloc = y]
      BY <1>1 DEF HostCall
    <3> QED BY <3>1, <3>2, <3>3
  <2>2. CASE handle' = handle
    BY <2>1, <2>2, SlotsQuiet
  <2>3. ASSUME NEW x, NEW y, handle' = [handle EXCEPT ![r][k].num = x, ![r][k].alloc = y]
        PROVE  SInv'
    <3> HIDE DEF k
    <3>1. \A q \in Ranks : \A j \in Calls : handle'[q][j].slot = handle[q][j].slot
      BY <2>1, <2>3, PlaceFacts DEF HandleFields
    <3> QED BY <2>1, <3>1, SlotsQuiet
  <2> QED BY <2>1, <2>2, <2>3
<1>2. ASSUME NEW r \in Ranks, HostPoll(r)
      PROVE  SInv'
  <2> DEFINE k == call[r]
  <2>1. /\ UNCHANGED <<setup, kernels, stage, done, sender>> /\ polling[r]
        /\ \E x, y : handle' = [handle EXCEPT ![r][k].num = x, ![r][k].alloc = y]
    BY <1>2 DEF HostPoll, tokenVars
  <2>2. k \in Calls
    <3>1. Prog \in Seq(Call) /\ call[r] \in Nat /\ call[r] >= 1 /\ call[r] <= Len(Prog)
      BY <2>1, SetupsAssumption DEF Prog, IInv, CountTypes, Ahead
    <3> QED BY <3>1 DEF Calls
  <2>3. PICK x, y : handle' = [handle EXCEPT ![r][k].num = x, ![r][k].alloc = y]
    BY <2>1
  <2> HIDE DEF k
  <2>4. \A q \in Ranks : \A j \in Calls : handle'[q][j].slot = handle[q][j].slot
    BY <2>2, <2>3, PlaceFacts DEF HandleFields
  <2> QED BY <2>1, <2>4, SlotsQuiet
<1>3. ASSUME NEW r \in Ranks, Running(r), Notify(r)
      PROVE  SInv'
  <2>1. ASSUME NEW sm \in SMs, NotifyCount(r, sm)
        PROVE  SInv'
    BY <2>1, SlotsQuiet DEF NotifyCount, tokenVars
  <2>2. ASSUME NotifySend(r)
        PROVE  SInv'
    BY <2>2, SlotsQuiet DEF NotifySend, tokenVars
  <2>3. ASSUME NEW s \in Ranks, NotifyTake(r, s)
        PROVE  SInv'
    BY <2>3, SlotsQuiet DEF NotifyTake, tokenVars
  <2>4. ASSUME NotifyFinish(r)
        PROVE  SInv'
    <3> DEFINE k == CallOf(r)
    <3>1. /\ UNCHANGED <<setup, kernels, stage, done, sender>>
          /\ \E x, y : handle' = [handle EXCEPT ![r][k].psum = x, ![r][k].epsum = y]
      BY <2>4 DEF NotifyFinish, tokenVars
    <3>2. PICK x, y : handle' = [handle EXCEPT ![r][k].psum = x, ![r][k].epsum = y]
      BY <3>1
    <3>3. k \in Calls
      BY <1>3, RunningCall DEF IInv
    <3> HIDE DEF k
    <3>4. \A q \in Ranks : \A j \in Calls : handle'[q][j].slot = handle[q][j].slot
      BY <3>2, <3>3, PlaceFacts DEF HandleFields
    <3> QED BY <3>1, <3>4, SlotsQuiet
  <2> QED BY <1>3, <2>1, <2>2, <2>3, <2>4 DEF Notify
<1>4. ASSUME NEW r \in Ranks, Running(r), Main(r)
      PROVE  SInv'
  BY <1>4, StartMainSlots, PassEntrySlots, SendTokenSlots, SendBackSlots, ArriveSlots, EndMainSlots DEF Main
<1>5. ASSUME NEW r \in Ranks, Running(r), Epilogue(r)
      PROVE  SInv'
  BY <1>5, StartEpilogueSlots, EpilogueSlots, EndEpilogueSlots DEF Epilogue
<1>6. ASSUME NEW m \in stores, LandStore(m)
      PROVE  SInv'
  BY <1>6, SlotsQuiet DEF LandStore
<1>7. ASSUME NEW m \in counts, LandCounts(m)
      PROVE  SInv'
  BY <1>7, SlotsQuiet DEF LandCounts, tokenVars
<1>8. CASE UNCHANGED vars
  BY <1>8, SlotsQuiet DEF vars
<1> QED BY <1>1, <1>2, <1>3, <1>4, <1>5, <1>6, <1>7, <1>8 DEF Next, Host


\* Every count that has been told is on its way, or in its word, or taken, and nowhere
\* twice; slots are drawn from 0 up, none twice.
THEOREM CountsInOnePlace == Spec => [](WordsInv /\ SInv)
<1>1. Init => WordsInv /\ SInv
  BY WordsInit, SInit
<1>2. IInv /\ (WordsInv /\ SInv) /\ [Next]_vars => (WordsInv /\ SInv)'
  BY WordsStep, SStep
<1> QED BY Invariance, <1>1, <1>2, PTL DEF Spec

LEMMA CleanFromInv == IInv /\ WordsInv /\ SInv => WordsClean
<1> SUFFICES ASSUME IInv, WordsInv, SInv, NEW r \in Ranks, stage[r] = "idle"
             PROVE  /\ reduction[r] = ZeroReduction
                    /\ inbox[r] = ZeroWords
                    /\ sender[r] = [d \in Ranks |-> 0]
  BY DEF WordsClean
<1>1. reduction[r] = ZeroReduction
  BY DEF WordsInv, NotifyPlace, Counting
<1>2. sender[r] = [d \in Ranks |-> 0]
  <2>1. ~Draws(r)
    BY DEF Draws, Sending
  <2> QED BY <2>1 DEF SInv, SenderInv
<1>3. inbox[r] = ZeroWords
  <2>1. inbox[r] \in [rank : [Ranks -> Int], expert : [Ranks -> [LocalExperts -> Int]]]
    BY DEF WordsInv, WordTypes
  <2>2. \A s \in Ranks : WordClean(r, s)
    BY DEF WordsInv, InWord, Waits, InDispatch
  <2>3. inbox[r].rank = [s \in Ranks |-> 0]
    BY <2>1, <2>2 DEF WordClean
  <2>4. inbox[r].expert = [s \in Ranks |-> [e \in LocalExperts |-> 0]]
    <3>1. inbox[r].expert \in [Ranks -> [LocalExperts -> Int]]
      BY <2>1
    <3>2. \A s \in Ranks : inbox[r].expert[s] = [e \in LocalExperts |-> 0]
      BY <2>2 DEF WordClean
    <3> QED BY <3>1, <3>2
  <2>5. inbox[r] = [rank |-> inbox[r].rank, expert |-> inbox[r].expert]
    BY <2>1
  <2> QED BY <2>3, <2>4, <2>5, Zenon DEF ZeroWords
<1> QED BY <1>1, <1>2, <1>3

\* Any number of ranks, experts and tokens, any program: between two kernels of a rank its
\* reduction words, the counts in its inbox and its slot counters are back to zero, so that
\* the next call can go by them.
THEOREM WordsBackToZero == Spec => []WordsClean
<1> QED BY Invariance, CountsInOnePlace, CleanFromInv, PTL


-----------------------------------------------------------------------------
(***************************************************************************)
(* The numbers that a dispatch announces.                                  *)
(***************************************************************************)

\* Tokens that dispatch k routes to rank r from the ranks of S, and to its expert x.
ReceivedFrom(k, r, S) == Cardinality({p \in RoutedTo(k, r) : p[1] \in S})
ExpertTotal(k, r, x)  == Cardinality(RoutedToExpert(k, r * NumExpertsPerRank + x))
AlignedTotals(k, r)   == [x \in LocalExperts |-> Align(ExpertTotal(k, r, x))]

LEMMA DivideBack ==
  ASSUME NEW N \in Nat, NEW m \in Nat, NEW x \in Nat, x < N
  PROVE  (m * N + x) \div N = m /\ (m * N + x) % N = x /\ m * N + x \in Nat
OBVIOUS

LEMMA LocalExpertRank ==
  ASSUME NEW r \in Ranks, NEW x \in LocalExperts
  PROVE  RankOf(r * NumExpertsPerRank + x) = r /\ LocalIdx(r * NumExpertsPerRank + x) = x
<1> DEFINE e == r * NumExpertsPerRank + x
<1>1. /\ NumExpertsPerRank \in Nat /\ r \in Nat /\ x \in Nat /\ x < NumExpertsPerRank
  BY SizesAssumption DEF Ranks, LocalExperts
<1>2. e \div NumExpertsPerRank = r /\ e % NumExpertsPerRank = x /\ e \in Nat
  BY ONLY <1>1, DivideBack
<1> HIDE DEF e
<1>3. e >= 0
  BY <1>2
<1>4. RankOf(e) = r /\ LocalIdx(e) = x
  BY ONLY <1>2, <1>3 DEF RankOf, LocalIdx
<1> QED BY <1>4 DEF e

LEMMA RoutedFacts ==
  ASSUME setup \in Setups, NEW k \in Calls, NEW r \in Ranks
  PROVE  /\ \A p : p \in RoutedTo(k, r) <=> \E s \in Ranks : \E t \in FromTo(k, s, r) : p = <<s, t>>
         /\ \A x \in LocalExperts : \A p :
              p \in RoutedToExpert(k, r * NumExpertsPerRank + x) <=>
                \E s \in Ranks : \E t \in ExpertFrom(k, s, r * NumExpertsPerRank + x) : p = <<s, t>>
<1>1. ASSUME NEW s \in Ranks
      PROVE  \A t : t \in FromTo(k, s, r) <=> <<s, t>> \in RoutedTo(k, r)
  <2>1. FromTo(k, s, r) \subseteq 1 .. NumMaxTokensPerRank
    BY CountFacts
  <2> QED BY <2>1 DEF RoutedTo, FromTo
<1>2. \A p \in RoutedTo(k, r) : p[1] \in Ranks /\ p = <<p[1], p[2]>>
  BY DEF RoutedTo
<1>3. ASSUME NEW x \in LocalExperts, NEW s \in Ranks
      PROVE  \A t : t \in ExpertFrom(k, s, r * NumExpertsPerRank + x)
                      <=> <<s, t>> \in RoutedToExpert(k, r * NumExpertsPerRank + x)
  <2> DEFINE e == r * NumExpertsPerRank + x
  <2>1. RankOf(e) = r /\ r # -1
    BY LocalExpertRank DEF Ranks
  <2> HIDE DEF e
  <2>2. \A t \in DOMAIN Rows(k, s) : DOMAIN Rows(k, s)[t] = Lanes
    BY RowFacts
  <2>3. \A t : t \in ExpertFrom(k, s, e) => t \in FromTo(k, s, r)
    BY <2>1 DEF ExpertFrom, FromTo, Dsts
  <2>4. \A t : t \in FromTo(k, s, r) => t \in DOMAIN Rows(k, s)
    BY DEF FromTo
  <2>5. \A t : t \in ExpertFrom(k, s, e) <=> t \in FromTo(k, s, r) /\ \E l \in Lanes : Rows(k, s)[t][l] = e
    BY <2>2, <2>3, <2>4 DEF ExpertFrom
  <2> QED BY <1>1, <2>1, <2>5 DEF RoutedToExpert, e
<1>4. \A x \in LocalExperts : RoutedToExpert(k, r * NumExpertsPerRank + x) \subseteq RoutedTo(k, r)
  BY LocalExpertRank DEF RoutedToExpert
<1>5. \A p : p \in RoutedTo(k, r) <=> \E s \in Ranks : \E t \in FromTo(k, s, r) : p = <<s, t>>
  BY <1>1, <1>2
<1>6. ASSUME NEW x \in LocalExperts
      PROVE  \A p : p \in RoutedToExpert(k, r * NumExpertsPerRank + x) <=>
                \E s \in Ranks : \E t \in ExpertFrom(k, s, r * NumExpertsPerRank + x) : p = <<s, t>>
  BY <1>2, <1>3, <1>4
<1> QED BY <1>5, <1>6

\* P holds what the senders of S send, each its own, and f says how much that is.
PairedUp(P, S, F, f) ==
  /\ S \subseteq Ranks
  /\ \A s \in S : IsFiniteSet(F[s]) /\ f[s] = Cardinality(F[s])
  /\ \A p : p \in P <=> \E s \in S : \E t \in F[s] : p = <<s, t>>

\* Counts of the senders add up.
LEMMA AddUp ==
  ASSUME NEW S, NEW F, NEW f, NEW P, PairedUp(P, S, F, f)
  PROVE  IsFiniteSet(P) /\ Sum(f, S) = Cardinality(P) /\ Cardinality(P) \in Nat
<1> DEFINE A == [s \in S |-> {s} \X F[s]]
<1>0. /\ S \in SUBSET Ranks
      /\ \A s \in S : IsFiniteSet(F[s]) /\ f[s] = Cardinality(F[s])
      /\ \A p : p \in P <=> \E s \in S : \E t \in F[s] : p = <<s, t>>
  BY DEF PairedUp
<1>1. IsFiniteSet(S)
  <2>1. IsFiniteSet(Ranks)
    BY SizesAssumption, FS_Interval DEF Ranks
  <2> QED BY <1>0, <2>1, FS_Subset
<1>2. ASSUME NEW s \in S
      PROVE  IsFiniteSet(A[s]) /\ f[s] = Cardinality(A[s])
  <2>1. IsFiniteSet({s}) /\ Cardinality({s}) = 1
    BY FS_Singleton
  <2>2. PICK G : G = F[s]
    OBVIOUS
  <2>3. IsFiniteSet(G) /\ Cardinality(G) \in Nat /\ f[s] = Cardinality(G)
    BY <1>0, <2>2, FS_CardinalityType
  <2>4. IsFiniteSet({s} \X G) /\ Cardinality({s} \X G) = Cardinality({s}) * Cardinality(G)
    BY <2>1, <2>3, FS_Product
  <2>5. Cardinality({s} \X G) = f[s]
    BY <2>1, <2>3, <2>4
  <2>6. A[s] = {s} \X G
    BY <2>2
  <2> QED BY <2>4, <2>5, <2>6
<1>3. \A x, y \in S : x # y => A[x] \cap A[y] = {}
  OBVIOUS
<1>4. UnionOf(A, S) = P
  <2>1. \A p : p \in UnionOf(A, S) <=> \E s \in S : p \in {s} \X F[s]
    BY DEF UnionOf
  <2>2. \A p : \A s \in S : p \in {s} \X F[s] <=> \E t \in F[s] : p = <<s, t>>
    OBVIOUS
  <2> QED BY <1>0, <2>1, <2>2
<1> HIDE DEF A
<1>5. IsFiniteSet(UnionOf(A, S)) /\ Sum(f, S) = Cardinality(UnionOf(A, S))
  BY <1>1, <1>2, <1>3, SumOfSizes
<1> QED BY <1>4, <1>5, FS_CardinalityType

LEMMA ReceivedSums ==
  ASSUME setup \in Setups, NEW k \in Calls, NEW r \in Ranks, NEW S \in SUBSET Ranks,
         NEW f, \A s \in S : f[s] = Count(k, s, r)
  PROVE  Sum(f, S) = ReceivedFrom(k, r, S) /\ ReceivedFrom(k, r, S) \in Nat
<1> DEFINE P == {p \in RoutedTo(k, r) : p[1] \in S}
           F == [s \in S |-> FromTo(k, s, r)]
<1>1. \A p : p \in P <=> \E s \in S : \E t \in F[s] : p = <<s, t>>
  BY RoutedFacts
<1>2. \A s \in S : IsFiniteSet(F[s]) /\ f[s] = Cardinality(F[s])
  BY CountFacts DEF Count
<1> HIDE DEF F, P
<1>3. PairedUp(P, S, F, f)
  BY <1>1, <1>2 DEF PairedUp
<1>4. Sum(f, S) = Cardinality(P) /\ Cardinality(P) \in Nat
  BY ONLY <1>3, AddUp
<1> QED BY <1>4 DEF P, ReceivedFrom

LEMMA ExpertSums ==
  ASSUME setup \in Setups, NEW k \in Calls, NEW r \in Ranks, NEW x \in LocalExperts,
         NEW f, \A s \in Ranks : f[s] = ExpertCount(k, s, r * NumExpertsPerRank + x)
  PROVE  Sum(f, Ranks) = ExpertTotal(k, r, x) /\ ExpertTotal(k, r, x) \in Nat
<1> DEFINE e == r * NumExpertsPerRank + x
           F == [s \in Ranks |-> ExpertFrom(k, s, e)]
<1>1. \A p : p \in RoutedToExpert(k, e) <=> \E s \in Ranks : \E t \in F[s] : p = <<s, t>>
  BY RoutedFacts
<1>2. \A s \in Ranks : IsFiniteSet(F[s]) /\ f[s] = Cardinality(F[s])
  BY CountFacts DEF ExpertCount
<1> HIDE DEF F, e
<1> DEFINE P == RoutedToExpert(k, e)
<1> HIDE DEF P
<1>3. PairedUp(P, Ranks, F, f)
  BY <1>1, <1>2 DEF PairedUp, P
<1>4. Sum(f, Ranks) = Cardinality(P) /\ Cardinality(P) \in Nat
  BY ONLY <1>3, AddUp
<1> QED BY <1>4 DEF ExpertTotal, e, P

-----------------------------------------------------------------------------
(***************************************************************************)
(* The invariant of the announced numbers.  The prefix sums are right from *)
(* the moment the notify warps are through; the host has its numbers from  *)
(* a poll that cannot end before that, because its words were cleared when *)
(* the call began and nobody but those warps writes them.                  *)
(***************************************************************************)

\* The notify warps of rank r are through with dispatch k.
Finished(r, k) == \/ kernels[r] >= 2 * k - 1
                  \/ kernels[r] = 2 * k - 2 /\ stage[r] \in {"work", "leave"} /\ notify[r] = "done"

\* The host of rank r has begun call k, and waits for nothing in it.
Polled(r, k) == call[r] > k \/ (call[r] = k /\ ~polling[r])

PsumInv(r, k) ==
  Prog[k].kind = "dispatch" /\ Finished(r, k) =>
    \A s \in Ranks : handle[r][k].psum[s] = ReceivedFrom(k, r, 0 .. s)

HostRight(k, r) == [rank |-> [s \in Ranks |-> Encode(Count(k, s, r))],
                    expert |-> [x \in LocalExperts |-> Encode(AlignedTotals(k, r)[x])]]
PollInv(r) ==
  polling[r] =>
    /\ call[r] \in Calls /\ Prog[call[r]].kind = "dispatch" /\ Prog[call[r]].sync
    /\ \/ hostWords[r] = ZeroHost
       \/ Finished(r, call[r]) /\ hostWords[r] = HostRight(call[r], r)

NumInv(r, k) ==
  Polled(r, k) =>
    LET h == handle[r][k] IN
    /\ Prog[k].kind = "dispatch" /\ Prog[k].sync =>
         /\ Finished(r, k)
         /\ h.num = ReceivedFrom(k, r, Ranks)
         /\ h.alloc = IF Prog[k].expand THEN Sum(AlignedTotals(k, r), LocalExperts) ELSE h.num
    /\ Prog[k].kind = "dispatch" /\ ~Prog[k].sync =>
         h.num = WorstCase /\ h.alloc = WorstAlloc(Prog[k].expand)
    /\ Prog[k].kind = "cached" =>
         h.num = handle[r][Prog[k].of].num /\ h.alloc = handle[r][Prog[k].of].num

CInv ==
  /\ DOMAIN hostWords = Ranks
  /\ \A r \in Ranks : PollInv(r)
  /\ \A r \in Ranks : \A k \in Calls : PsumInv(r, k) /\ NumInv(r, k)

LEMMA NumbersFixed ==
  ASSUME setup' = setup
  PROVE  /\ \A k, r, S : ReceivedFrom(k, r, S)' = ReceivedFrom(k, r, S)
         /\ \A k, r : AlignedTotals(k, r)' = AlignedTotals(k, r) /\ HostRight(k, r)' = HostRight(k, r)
         /\ \A k, r : Sum(AlignedTotals(k, r), LocalExperts)' = Sum(AlignedTotals(k, r), LocalExperts)
<1>1. \A k, s, d : Rows(k, s)' = Rows(k, s) /\ Count(k, s, d)' = Count(k, s, d)
  BY RoutingFixed
<1>2. \A k, r : RoutedTo(k, r)' = RoutedTo(k, r)
  BY <1>1 DEF RoutedTo
<1>3. \A k, e : RoutedToExpert(k, e)' = RoutedToExpert(k, e)
  BY <1>1, <1>2 DEF RoutedToExpert
<1>4. \A k, r, S : ReceivedFrom(k, r, S)' = ReceivedFrom(k, r, S)
  BY <1>2 DEF ReceivedFrom
<1>5. \A k, r, x : ExpertTotal(k, r, x)' = ExpertTotal(k, r, x)
  BY <1>3 DEF ExpertTotal
<1>6. \A k, r : AlignedTotals(k, r)' = AlignedTotals(k, r)
  BY <1>5 DEF AlignedTotals
<1>7. \A k, r : HostRight(k, r)' = HostRight(k, r)
  BY <1>1, <1>6 DEF HostRight
<1>8. \A k, r : Sum(AlignedTotals(k, r), LocalExperts)' = Sum(AlignedTotals(k, r), LocalExperts)
  BY <1>6
<1> QED BY <1>4, <1>6, <1>7, <1>8

LEMMA CachedCall ==
  ASSUME setup \in Setups, NEW k \in Calls, Prog[k].kind = "cached"
  PROVE  /\ Prog[k].of \in Calls /\ Prog[k].of \in Nat /\ Prog[k].of < k /\ Home(k) = Prog[k].of
         /\ Prog[Prog[k].of].kind = "dispatch" /\ ~Prog[Prog[k].of].expand /\ ~Expanded(k)
<1>1. /\ Prog \in Seq(Call) /\ Prog[k].of \in 1 .. k - 1
      /\ Prog[Prog[k].of].kind = "dispatch" /\ ~Prog[Prog[k].of].expand
  BY SetupsAssumption DEF Prog, Calls
<1>2. k \in Nat /\ Prog[k].of \in Calls /\ Prog[k].of \in Nat /\ Prog[k].of < k
  BY <1>1 DEF Calls
<1>3. Home(k) = Prog[k].of
  BY <1>1 DEF Home, Source
<1> QED BY <1>1, <1>2, <1>3 DEF Expanded

LEMMA CInit == Init => CInv
<1> SUFFICES ASSUME Init
             PROVE  CInv
  OBVIOUS
<1>1. DOMAIN hostWords = Ranks /\ \A r \in Ranks : PollInv(r)
  BY DEF Init, PollInv
<1>2. Prog \in Seq(Call)
  BY SetupsAssumption DEF Init, Prog
<1>3. ASSUME NEW r \in Ranks, NEW k \in Calls
      PROVE  PsumInv(r, k) /\ NumInv(r, k)
  <2>1. k \in Nat /\ k >= 1
    BY <1>2 DEF Calls
  <2>2. ~Finished(r, k) /\ ~Polled(r, k)
    BY <2>1 DEF Init, Finished, Polled
  <2> QED BY <2>2 DEF PsumInv, NumInv
<1> QED BY <1>1, <1>3 DEF CInv

\* A step that touches neither the host nor the numbers, and finishes no exchange.
LEMMA CountsFrame ==
  ASSUME IInv, CInv, UNCHANGED <<setup, call, polling, hostWords>>,
         \A q \in Ranks : \A j \in Calls : /\ handle'[q][j].num = handle[q][j].num
                                           /\ handle'[q][j].alloc = handle[q][j].alloc
                                           /\ handle'[q][j].psum = handle[q][j].psum
                                           /\ Prog[j].kind = "dispatch" => Finished(q, j)' = Finished(q, j)
  PROVE  CInv'
<1>1. /\ Prog' = Prog /\ Calls' = Calls /\ setup \in Setups
      /\ \A k, r, S : ReceivedFrom(k, r, S)' = ReceivedFrom(k, r, S)
      /\ \A k, r : HostRight(k, r)' = HostRight(k, r)
      /\ \A k, r : Sum(AlignedTotals(k, r), LocalExperts)' = Sum(AlignedTotals(k, r), LocalExperts)
  BY RoutingFixed, NumbersFixed DEF IInv, CountTypes
<1>2. \A r \in Ranks : PollInv(r)'
  BY <1>1 DEF CInv, PollInv
<1>3. \A r \in Ranks : \A k \in Calls : PsumInv(r, k)'
  BY <1>1 DEF CInv, PsumInv
<1>4. ASSUME NEW r \in Ranks, NEW k \in Calls
      PROVE  NumInv(r, k)'
  <2>1. Polled(r, k)' = Polled(r, k) /\ NumInv(r, k)
    BY DEF Polled, CInv
  <2>2. Prog[k].kind = "cached" => Prog[k].of \in Calls
    BY <1>1, CachedCall
  <2> QED BY <1>1, <2>1, <2>2 DEF NumInv
<1> QED BY <1>1, <1>2, <1>3, <1>4 DEF CInv

\* A step of rank r that leaves handles alone, or only adds what is no number to them.
LEMMA CountsMove ==
  ASSUME IInv, CInv, NEW r \in Ranks, UNCHANGED <<setup, call, polling, hostWords>>,
         \A q \in Ranks \ {r} : kernels'[q] = kernels[q] /\ stage'[q] = stage[q] /\ notify'[q] = notify[q],
         \A q \in Ranks : \A j \in Calls : /\ handle'[q][j].num = handle[q][j].num
                                           /\ handle'[q][j].alloc = handle[q][j].alloc
                                           /\ handle'[q][j].psum = handle[q][j].psum,
         \A j \in Calls : Prog[j].kind = "dispatch" => Finished(r, j)' = Finished(r, j)
  PROVE  CInv'
<1>1. \A q \in Ranks \ {r} : \A j \in Calls : Finished(q, j)' = Finished(q, j)
  BY DEF Finished
<1>2. \A q \in Ranks : \A j \in Calls : Prog[j].kind = "dispatch" => Finished(q, j)' = Finished(q, j)
  BY <1>1
<1> QED BY <1>2, CountsFrame

LEMMA StartMainCounts ==
  ASSUME IInv, WordsInv, CInv, NEW r \in Ranks, Running(r), StartMain(r)
  PROVE  CInv'
<1>1. /\ stage[r] = "idle" /\ OnMain(r) /\ UNCHANGED <<setup, call, polling, hostWords, kernels>>
      /\ stage' = [stage EXCEPT ![r] = "enter"]
      /\ \E x : notify' = [notify EXCEPT ![r] = x]
      /\ handle' = IF Kind(r) = "dispatch" /\ setup.deterministic
                   THEN [handle EXCEPT ![r][CallOf(r)].slot = PrologueSlots(Rows(CallOf(r), r))] ELSE handle
  BY DEF StartMain, hostVars
<1>2. PICK k \in Calls : k = CallOf(r)
  BY RunningCall DEF IInv
<1>3. \A q \in Ranks : \A j \in Calls : /\ handle'[q][j].num = handle[q][j].num
                                        /\ handle'[q][j].alloc = handle[q][j].alloc
                                        /\ handle'[q][j].psum = handle[q][j].psum
  BY <1>1, <1>2, PlaceFacts DEF HandleFields
<1>4. stage'[r] = "enter" /\ \A q \in Ranks \ {r} : stage'[q] = stage[q] /\ notify'[q] = notify[q]
  BY <1>1 DEF IInv, CountTypes, WordsInv, WordTypes
<1>5. \A j \in Calls : Finished(r, j)' = Finished(r, j)
  BY <1>1, <1>4 DEF Finished
<1> QED BY <1>1, <1>3, <1>4, <1>5, CountsMove

LEMMA PassEntryCounts ==
  ASSUME IInv, WordsInv, CInv, NEW r \in Ranks, PassEntry(r)
  PROVE  CInv'
<1>1. /\ stage[r] = "enter" /\ stage' = [stage EXCEPT ![r] = "work"]
      /\ UNCHANGED <<setup, call, polling, hostWords, kernels, notify, handle>>
  BY DEF PassEntry, hostVars, notifyVars
<1>2. stage'[r] = "work" /\ \A q \in Ranks \ {r} : stage'[q] = stage[q]
  BY <1>1 DEF IInv, CountTypes
<1>3. ASSUME NEW j \in Calls, Prog[j].kind = "dispatch", kernels[r] = 2 * j - 2
      PROVE  notify[r] # "done"
  <2>1. OnMain(r) /\ kernels[r] = 2 * CallOf(r) - 2 /\ CallOf(r) \in Nat /\ j \in Nat
    BY <1>1, PlaceFacts
  <2>2. j = CallOf(r)
    BY <1>3, <2>1
  <2> QED BY <1>1, <1>3, <2>2 DEF WordsInv, NotifyPlace, Kind
<1>4. \A j \in Calls : Prog[j].kind = "dispatch" => Finished(r, j)' = Finished(r, j)
  BY <1>1, <1>2, <1>3 DEF Finished
<1> QED BY <1>1, <1>2, <1>4, CountsMove

LEMMA ArriveCounts ==
  ASSUME IInv, WordsInv, CInv, NEW r \in Ranks, Arrive(r)
  PROVE  CInv'
<1>1. /\ stage[r] = "work" /\ stage' = [stage EXCEPT ![r] = "leave"]
      /\ UNCHANGED <<setup, call, polling, hostWords, kernels, notify, handle>>
  BY DEF Arrive, hostVars, notifyVars
<1>2. stage'[r] = "leave" /\ \A q \in Ranks \ {r} : stage'[q] = stage[q]
  BY <1>1 DEF IInv, CountTypes
<1>3. \A j \in Calls : Finished(r, j)' = Finished(r, j)
  BY <1>1, <1>2 DEF Finished
<1> QED BY <1>1, <1>2, <1>3, CountsMove

LEMMA EndMainCounts ==
  ASSUME IInv, WordsInv, CInv, NEW r \in Ranks, EndMain(r)
  PROVE  CInv'
<1>1. /\ stage[r] = "leave" /\ stage' = [stage EXCEPT ![r] = "idle"]
      /\ kernels' = [kernels EXCEPT ![r] = @ + 1]
      /\ UNCHANGED <<setup, call, polling, hostWords, notify, handle>>
  BY DEF EndMain, hostVars, notifyVars
<1>2. /\ stage'[r] = "idle" /\ kernels'[r] = kernels[r] + 1 /\ kernels[r] \in Nat
      /\ \A q \in Ranks \ {r} : stage'[q] = stage[q] /\ kernels'[q] = kernels[q]
  BY <1>1 DEF IInv, CountTypes
<1>3. notify[r] = "done"
  BY <1>1 DEF WordsInv, NotifyPlace
<1>4. \A j \in Calls : Finished(r, j)' = Finished(r, j)
  <2>1. OnMain(r) /\ kernels[r] = 2 * CallOf(r) - 2 /\ CallOf(r) \in Nat
    BY <1>1, PlaceFacts
  <2>2. \A j \in Calls : j \in Nat
    BY PlaceFacts
  <2>3. ASSUME NEW j \in Calls
        PROVE  (kernels[r] + 1 >= 2 * j - 1) = (kernels[r] >= 2 * j - 2)
    BY <1>2, <2>2
  <2>4. ASSUME NEW j \in Calls
        PROVE  (kernels[r] >= 2 * j - 1 \/ kernels[r] = 2 * j - 2) = (kernels[r] >= 2 * j - 2)
    BY <1>2, <2>2
  <2> QED BY <1>1, <1>2, <1>3, <2>3, <2>4 DEF Finished
<1> QED BY <1>1, <1>2, <1>4, CountsMove

LEMMA StartEpilogueCounts ==
  ASSUME IInv, CInv, NEW r \in Ranks, StartEpilogue(r)
  PROVE  CInv'
<1>1. /\ ~OnMain(r) /\ stage' = [stage EXCEPT ![r] = "work"]
      /\ UNCHANGED <<setup, call, polling, hostWords, kernels, notify, handle>>
  BY DEF StartEpilogue, hostVars, notifyVars
<1>2. \A q \in Ranks \ {r} : stage'[q] = stage[q]
  BY <1>1 DEF IInv, CountTypes
<1>3. \A j \in Calls : kernels[r] # 2 * j - 2
  <2>1. kernels[r] = 2 * CallOf(r) - 1 /\ CallOf(r) \in Nat
    BY <1>1, PlaceFacts
  <2> QED BY <2>1, PlaceFacts
<1>4. \A j \in Calls : Finished(r, j)' = Finished(r, j)
  BY <1>1, <1>3 DEF Finished
<1> QED BY <1>1, <1>2, <1>4, CountsMove

LEMMA EndEpilogueCounts ==
  ASSUME IInv, CInv, NEW r \in Ranks, EndEpilogue(r)
  PROVE  CInv'
<1>1. /\ ~OnMain(r) /\ stage' = [stage EXCEPT ![r] = "idle"]
      /\ kernels' = [kernels EXCEPT ![r] = @ + 1]
      /\ UNCHANGED <<setup, call, polling, hostWords, notify, handle>>
  BY DEF EndEpilogue, hostVars, notifyVars
<1>2. /\ stage'[r] = "idle" /\ kernels'[r] = kernels[r] + 1 /\ kernels[r] \in Nat
      /\ \A q \in Ranks \ {r} : stage'[q] = stage[q] /\ kernels'[q] = kernels[q]
  BY <1>1 DEF IInv, CountTypes
<1>3. \A j \in Calls : kernels[r] # 2 * j - 2 /\ (kernels'[r] >= 2 * j - 1) = (kernels[r] >= 2 * j - 1)
  <2>1. kernels[r] = 2 * CallOf(r) - 1 /\ CallOf(r) \in Nat
    BY <1>1, PlaceFacts
  <2> QED BY <1>2, <2>1, PlaceFacts
<1>4. \A j \in Calls : Finished(r, j)' = Finished(r, j)
  BY <1>1, <1>2, <1>3 DEF Finished
<1> QED BY <1>1, <1>2, <1>4, CountsMove

\* Steps that change no number in a handle.
NumbersStay == \A q \in Ranks : \A j \in Calls : /\ handle'[q][j].num = handle[q][j].num
                                                 /\ handle'[q][j].alloc = handle[q][j].alloc
                                                 /\ handle'[q][j].psum = handle[q][j].psum

LEMMA HandleCounts ==
  ASSUME IInv, CInv, UNCHANGED <<setup, call, polling, hostWords, kernels, stage, notify>>,
         NumbersStay
  PROVE  CInv'
<1>1. \A q, j : Finished(q, j)' = Finished(q, j)
  BY DEF Finished
<1> QED BY <1>1, CountsFrame DEF NumbersStay

LEMMA TokenCounts ==
  ASSUME IInv, CInv, NEW r \in Ranks, Running(r)
  PROVE  /\ \A t, d : SendToken(r, t, d) => CInv'
         /\ \A i : SendBack(r, i) \/ CopyToken(r, i) \/ ReduceToken(r, i) => CInv'
<1>1. PICK k \in Calls : k = CallOf(r)
  BY RunningCall DEF IInv
<1>0. DOMAIN handle = Ranks /\ \A q \in Ranks : DOMAIN handle[q] = Calls /\ \A j \in Calls : DOMAIN handle[q][j] = HandleFields
  BY PlaceFacts
<1>2. ASSUME NEW t, NEW d, SendToken(r, t, d)
      PROVE  CInv'
  <2>1. /\ UNCHANGED <<setup, call, polling, hostWords, kernels, stage, notify>>
        /\ \/ handle' = handle
           \/ \E x : handle' = [handle EXCEPT ![r][CallOf(r)].slot = x]
    BY <1>2 DEF SendToken, hostVars, notifyVars
  <2>2. CASE handle' = handle
    BY <2>1, <2>2, HandleCounts DEF NumbersStay
  <2>3. ASSUME NEW x, handle' = [handle EXCEPT ![r][k].slot = x]
        PROVE  CInv'
    <3>1. NumbersStay
      BY ONLY <1>0, <2>3, r \in Ranks, k \in Calls DEF HandleFields, NumbersStay
    <3> QED BY <2>1, <3>1, HandleCounts
  <2> QED BY <1>1, <2>1, <2>2, <2>3
<1>3. ASSUME NEW i, SendBack(r, i)
      PROVE  CInv'
  <2>1. UNCHANGED <<setup, call, polling, hostWords, kernels, stage, notify>> /\ handle' = handle
    BY <1>3 DEF SendBack, hostVars, notifyVars
  <2> QED BY <2>1, HandleCounts DEF NumbersStay
<1>4. ASSUME NEW i, CopyToken(r, i)
      PROVE  CInv'
  <2>1. PICK s \in Ranks : CopyFrom(r, i, s)
    BY <1>4 DEF CopyToken
  <2>2. UNCHANGED <<setup, call, polling, hostWords, kernels, stage, notify>>
    BY <1>4 DEF CopyToken, hostVars, notifyVars
  <2> DEFINE j == CallOf(r)
  <2>3. j \in Calls
    BY <1>1
  <2>4. PICK md, y, z : handle' = [handle EXCEPT ![r][j].meta = Extend(@, i, md),
                                                 ![r][j].recv = y, ![r][j].epsum = z]
    BY <2>1 DEF CopyFrom
  <2> HIDE DEF j
  <2>5. NumbersStay
    BY ONLY <1>0, <2>3, <2>4, r \in Ranks DEF HandleFields, NumbersStay
  <2> QED BY <2>2, <2>5, HandleCounts
<1>5. ASSUME NEW i, ReduceToken(r, i)
      PROVE  CInv'
  <2>1. /\ UNCHANGED <<setup, call, polling, hostWords, kernels, stage, notify>>
        /\ \E x : handle' = [handle EXCEPT ![r][CallOf(r)].sums = x]
    BY <1>5 DEF ReduceToken, hostVars, notifyVars
  <2>2. PICK x : handle' = [handle EXCEPT ![r][k].sums = x]
    BY <1>1, <2>1
  <2>3. NumbersStay
    BY ONLY <1>0, <2>2, r \in Ranks, k \in Calls DEF HandleFields, NumbersStay
  <2> QED BY <2>1, <2>3, HandleCounts
<1> QED BY <1>2, <1>3, <1>4, <1>5

LEMMA NotifyCounts ==
  ASSUME IInv, WordsInv, CInv, NEW r \in Ranks
  PROVE  /\ \A sm : NotifyCount(r, sm) => CInv'
         /\ NotifySend(r) => CInv'
         /\ \A s : NotifyTake(r, s) => CInv'
<1>1. ASSUME UNCHANGED <<setup, call, polling, hostWords, kernels, stage, notify, handle>>
      PROVE  CInv'
  <2>1. \A q, j : Finished(q, j)' = Finished(q, j)
    BY <1>1 DEF Finished
  <2> QED BY <1>1, <2>1, CountsFrame
<1>2. ASSUME NEW sm, NotifyCount(r, sm)
      PROVE  CInv'
  BY <1>1, <1>2 DEF NotifyCount, hostVars
<1>3. ASSUME NEW s, NotifyTake(r, s)
      PROVE  CInv'
  BY <1>1, <1>3 DEF NotifyTake, hostVars
<1>4. ASSUME NotifySend(r)
      PROVE  CInv'
  <2>1. /\ UNCHANGED <<setup, call, polling, hostWords, kernels, stage, handle>>
        /\ notify[r] = "count" /\ notify' = [notify EXCEPT ![r] = "wait"]
    BY <1>4 DEF NotifySend, hostVars
  <2>2. notify'[r] = "wait" /\ \A q \in Ranks \ {r} : notify'[q] = notify[q]
    BY <2>1 DEF WordsInv, WordTypes
  <2>3. \A j \in Calls : Finished(r, j)' = Finished(r, j)
    BY <2>1, <2>2 DEF Finished
  <2> QED BY <2>1, <2>2, <2>3, CountsMove
<1> QED BY <1>2, <1>3, <1>4

LEMMA CountsPlace ==
  ASSUME IInv, CInv, NEW r \in Ranks, setup' = setup, DOMAIN hostWords' = Ranks,
         \A q \in Ranks \ {r} :
           /\ call'[q] = call[q] /\ polling'[q] = polling[q] /\ hostWords'[q] = hostWords[q]
           /\ kernels'[q] = kernels[q] /\ stage'[q] = stage[q] /\ notify'[q] = notify[q]
           /\ \A j \in Calls : /\ handle'[q][j].num = handle[q][j].num
                               /\ handle'[q][j].alloc = handle[q][j].alloc
                               /\ handle'[q][j].psum = handle[q][j].psum,
         PollInv(r)', \A k \in Calls : PsumInv(r, k)' /\ NumInv(r, k)'
  PROVE  CInv'
<1>1. /\ Prog' = Prog /\ Calls' = Calls /\ setup \in Setups
      /\ \A k, q, S : ReceivedFrom(k, q, S)' = ReceivedFrom(k, q, S)
      /\ \A k, q : HostRight(k, q)' = HostRight(k, q)
      /\ \A k, q : Sum(AlignedTotals(k, q), LocalExperts)' = Sum(AlignedTotals(k, q), LocalExperts)
  BY RoutingFixed, NumbersFixed DEF IInv, CountTypes
<1>2. \A q \in Ranks \ {r} : \A j : Finished(q, j)' = Finished(q, j) /\ Polled(q, j)' = Polled(q, j)
  BY DEF Finished, Polled
<1>3. ASSUME NEW q \in Ranks \ {r}
      PROVE  PollInv(q)'
  <2>1. PollInv(q)
    BY DEF CInv
  <2>2. PICK c : c = call[q]
    OBVIOUS
  <2>3. c = call'[q] /\ Finished(q, c)' = Finished(q, c)
    BY <1>2, <2>2
  <2> QED BY <1>1, <2>1, <2>2, <2>3 DEF PollInv
<1>4. ASSUME NEW q \in Ranks \ {r}, NEW k \in Calls
      PROVE  PsumInv(q, k)' /\ NumInv(q, k)'
  <2>1. PsumInv(q, k) /\ NumInv(q, k)
    BY DEF CInv
  <2>2. PsumInv(q, k)'
    BY <1>1, <1>2, <2>1 DEF PsumInv
  <2>3. Prog[k].kind = "cached" => Prog[k].of \in Calls
    BY <1>1, CachedCall
  <2>4. NumInv(q, k)'
    BY <1>1, <1>2, <2>1, <2>3 DEF NumInv
  <2> QED BY <2>2, <2>4
<1> QED BY <1>1, <1>3, <1>4 DEF CInv

LEMMA AlignNat == \A n \in Nat : Align(n) \in Nat /\ Align(n) >= n
<1>1. ExpertAlignment \in Nat /\ ExpertAlignment >= 1
  BY SizesAssumption
<1> SUFFICES ASSUME NEW n \in Nat
             PROVE  Align(n) \in Nat /\ Align(n) >= n
  OBVIOUS
<1> DEFINE A == ExpertAlignment
           m == n + A - 1
<1>2. m \in Nat /\ m \div A \in Nat /\ m % A \in Nat /\ m % A < A /\ m = A * (m \div A) + (m % A)
  BY <1>1
<1>3. A * (m \div A) = (m \div A) * A /\ (m \div A) * A \in Nat
  BY <1>1, <1>2
<1>4. Align(n) = (m \div A) * A
  BY DEF Align
<1> QED BY <1>1, <1>2, <1>3, <1>4

LEMMA NotifyFinishCounts ==
  ASSUME IInv, WordsInv, CInv, NEW r \in Ranks, Running(r), NotifyFinish(r)
  PROVE  CInv'
<1> DEFINE kk == CallOf(r)
<1>1. PICK k \in Calls : k = kk
  BY RunningCall DEF IInv
<1>2. /\ stage[r] = "work" /\ OnMain(r) /\ Prog[k].kind = "dispatch" /\ notify[r] = "wait"
      /\ \A s \in Ranks : taken[r][s] # NotTaken
      /\ notify' = [notify EXCEPT ![r] = "done"]
      /\ UNCHANGED <<setup, call, polling, kernels, stage>>
      /\ setup \in Setups
  BY <1>1 DEF NotifyFinish, MainRuns, Kind, IInv, CountTypes
<1>3. /\ k \in Nat /\ k >= 1 /\ kernels[r] = 2 * k - 2
      /\ notify'[r] = "done" /\ \A q \in Ranks \ {r} : notify'[q] = notify[q]
  BY <1>1, <1>2, PlaceFacts DEF WordsInv, WordTypes
<1>4. \A s \in Ranks : taken[r][s] = Due(k, s, r)
  <2>1. InDispatch(r)
    BY <1>1, <1>2 DEF InDispatch, Kind
  <2> QED BY <1>1, <1>2, <2>1 DEF WordsInv, Taken
<1>4a. \A s \in Ranks : /\ taken[r][s].n = Count(k, s, r)
                       /\ \A x \in LocalExperts : taken[r][s].e[x] = ExpertCount(k, s, r * NumExpertsPerRank + x)
  <2>1. \A s \in Ranks : /\ Due(k, s, r).n = Count(k, s, r)
                         /\ \A x \in LocalExperts : Due(k, s, r).e[x] = ExpertCount(k, s, r * NumExpertsPerRank + x)
    BY DEF Due
  <2> QED BY <1>4, <2>1
<1> DEFINE num == [s \in Ranks |-> taken[r][s].n]
           totalOf(e) == Sum([s \in Ranks |-> taken[r][s].e[e]], Ranks)
           total == [e \in LocalExperts |-> totalOf(e)]
           aligned == [e \in LocalExperts |-> Align(total[e])]
           psum == [s \in Ranks |-> Sum(num, 0 .. s)]
<1>5. \A s \in Ranks : psum[s] = ReceivedFrom(k, r, 0 .. s)
  <2>1. \A s \in Ranks : num[s] = Count(k, s, r)
    BY <1>4a
  <2> HIDE DEF num
  <2>2. ASSUME NEW s \in Ranks
        PROVE  psum[s] = ReceivedFrom(k, r, 0 .. s)
    <3>1. 0 .. s \in SUBSET Ranks
      BY SizesAssumption DEF Ranks
    <3>2. \A q \in 0 .. s : num[q] = Count(k, q, r)
      BY <2>1, <3>1
    <3>3. Sum(num, 0 .. s) = ReceivedFrom(k, r, 0 .. s)
      BY <1>2, <3>1, <3>2, ReceivedSums
    <3> QED BY <3>3
  <2> QED BY <2>2
<1>6. aligned = AlignedTotals(k, r)
  <2>1. ASSUME NEW x \in LocalExperts
        PROVE  totalOf(x) = ExpertTotal(k, r, x)
    <3> DEFINE f == [s \in Ranks |-> taken[r][s].e[x]]
    <3>1. \A s \in Ranks : f[s] = ExpertCount(k, s, r * NumExpertsPerRank + x)
      BY <1>4a
    <3> HIDE DEF f
    <3>2. Sum(f, Ranks) = ExpertTotal(k, r, x)
      BY <1>2, <3>1, ExpertSums
    <3> QED BY <3>2 DEF f
  <2> HIDE DEF totalOf
  <2>2. \A x \in LocalExperts : aligned[x] = Align(ExpertTotal(k, r, x))
    BY <2>1
  <2> QED BY <2>2 DEF AlignedTotals
<1>7. /\ hostWords' = IF Prog[k].sync
                      THEN [hostWords EXCEPT ![r] = [rank |-> [s \in Ranks |-> Encode(num[s])],
                                                     expert |-> [e \in LocalExperts |-> Encode(aligned[e])]]]
                      ELSE hostWords
      /\ \E y : handle' = [handle EXCEPT ![r][k].psum = psum, ![r][k].epsum = y]
  BY <1>1 DEF NotifyFinish
<1>8. [rank |-> [s \in Ranks |-> Encode(num[s])],
       expert |-> [e \in LocalExperts |-> Encode(aligned[e])]] = HostRight(k, r)
  <2>1. \A s \in Ranks : num[s] = Count(k, s, r)
    BY <1>4a
  <2> HIDE DEF num, aligned
  <2>2. [s \in Ranks |-> Encode(num[s])] = [s \in Ranks |-> Encode(Count(k, s, r))]
    BY <2>1
  <2>3. [e \in LocalExperts |-> Encode(aligned[e])] = [x \in LocalExperts |-> Encode(AlignedTotals(k, r)[x])]
    BY <1>6
  <2> QED BY <2>2, <2>3, Zenon DEF HostRight
<1> HIDE DEF num, aligned, psum, kk
<1>9. /\ DOMAIN hostWords' = Ranks
      /\ \A q \in Ranks \ {r} : hostWords'[q] = hostWords[q]
      /\ Prog[k].sync => hostWords'[r] = HostRight(k, r)
      /\ ~Prog[k].sync => hostWords'[r] = hostWords[r]
  BY <1>7, <1>8 DEF CInv
<1>10. /\ \A q \in Ranks : \A j \in Calls : /\ handle'[q][j].num = handle[q][j].num
                                            /\ handle'[q][j].alloc = handle[q][j].alloc
       /\ \A q \in Ranks : \A j \in Calls : q # r \/ j # k => handle'[q][j].psum = handle[q][j].psum
       /\ handle'[r][k].psum = psum
  <2>1. DOMAIN handle = Ranks /\ \A q \in Ranks : DOMAIN handle[q] = Calls /\ \A j \in Calls : DOMAIN handle[q][j] = HandleFields
    BY PlaceFacts
  <2>2. PICK y : handle' = [handle EXCEPT ![r][k].psum = psum, ![r][k].epsum = y]
    BY <1>7
  <2> QED BY ONLY <2>1, <2>2, r \in Ranks, k \in Calls DEF HandleFields
<1>11. /\ ~Finished(r, k) /\ Finished(r, k)'
       /\ \A j \in Calls : j # k => Finished(r, j)' = Finished(r, j)
  <2>1. \A j \in Calls : j \in Nat /\ (j # k => kernels[r] # 2 * j - 2)
    <3>1. \A j \in Calls : j \in Nat
      BY PlaceFacts
    <3> QED BY ONLY <1>3, <3>1, k \in Calls
  <2> QED BY <1>2, <1>3, <2>1 DEF Finished
<1>12. /\ Prog' = Prog /\ Calls' = Calls
       /\ \A j, q, S : ReceivedFrom(j, q, S)' = ReceivedFrom(j, q, S)
       /\ \A j, q : HostRight(j, q)' = HostRight(j, q)
       /\ \A j, q : Sum(AlignedTotals(j, q), LocalExperts)' = Sum(AlignedTotals(j, q), LocalExperts)
  BY <1>2, RoutingFixed, NumbersFixed
<1>13. PollInv(r)'
  <2>1. SUFFICES ASSUME polling[r]
                 PROVE  PollInv(r)'
    BY <1>2 DEF PollInv
  <2>2. PICK c : c = call[r]
    OBVIOUS
  <2>3. /\ c \in Calls /\ Prog[c].kind = "dispatch" /\ Prog[c].sync /\ c \in Nat
        /\ hostWords[r] = ZeroHost \/ (Finished(r, c) /\ hostWords[r] = HostRight(c, r))
    BY <2>1, <2>2, PlaceFacts DEF CInv, PollInv
  <2>4. CASE c = k
    BY <1>2, <1>9, <1>11, <1>12, <2>2, <2>3, <2>4 DEF PollInv
  <2>5. CASE c # k
    <3>1. k < c
      <4>1. kernels[r] < 2 * c - 1
        BY <1>2, <2>1, <2>2 DEF IInv, Ahead, Enqueued
      <4> QED BY <1>3, <2>3, <2>5, <4>1
    <3>2. ~Prog[k].sync
      BY <1>2, <1>3, <1>11, <2>2, <2>3, <3>1 DEF CInv, NumInv, Polled
    <3>3. ZeroHost' = ZeroHost
      BY DEF ZeroHost
    <3> QED BY <1>2, <1>9, <1>11, <1>12, <2>2, <2>3, <2>5, <3>2, <3>3 DEF PollInv
  <2> QED BY <2>4, <2>5
<1>14. ASSUME NEW j \in Calls
       PROVE  PsumInv(r, j)' /\ NumInv(r, j)'
  <2>1. PsumInv(r, j) /\ NumInv(r, j)
    BY DEF CInv
  <2>2. PsumInv(r, j)'
    BY <1>5, <1>10, <1>11, <1>12, <2>1 DEF PsumInv
  <2>3. Prog[j].kind = "cached" => Prog[j].of \in Calls
    BY <1>2, CachedCall
  <2>4. Polled(r, j)' = Polled(r, j) /\ (Finished(r, j) => Finished(r, j)')
    BY <1>2, <1>11 DEF Polled
  <2>5. NumInv(r, j)'
    BY <1>10, <1>12, <2>1, <2>3, <2>4 DEF NumInv
  <2> QED BY <2>2, <2>5
<1>15. \A q \in Ranks \ {r} : \A j \in Calls : handle'[q][j].psum = handle[q][j].psum
  BY <1>10
<1> QED BY <1>2, <1>3, <1>9, <1>10, <1>13, <1>14, <1>15, CountsPlace

LEMMA HostCallCounts ==
  ASSUME IInv, CInv, NEW r \in Ranks, HostCall(r)
  PROVE  CInv'
<1>1. PICK k : k = call[r] + 1
  OBVIOUS
<1>2. /\ ~polling[r] /\ call[r] < Len(Prog) /\ UNCHANGED <<setup, kernels, stage, notify>>
      /\ call' = [call EXCEPT ![r] = k]
      /\ polling' = [polling EXCEPT ![r] = Prog[k].kind = "dispatch" /\ Prog[k].sync]
      /\ hostWords' = IF Prog[k].kind = "combine" THEN hostWords
                      ELSE [hostWords EXCEPT ![r] = ZeroHost]
  BY <1>1 DEF HostCall, notifyVars
<1>3. /\ setup \in Setups /\ k \in Calls /\ k \in Nat /\ call[r] = k - 1 /\ Prog[k] \in Call
      /\ \A j \in Calls : j \in Nat
  <2>1. Prog \in Seq(Call) /\ call[r] \in Nat /\ setup \in Setups
    BY SetupsAssumption DEF Prog, IInv, CountTypes
  <2> QED BY <1>1, <1>2, <2>1 DEF Calls
<1>4. Prog[k].sync \in BOOLEAN /\ Prog[k].kind \in {"dispatch", "cached", "combine"}
  BY <1>3 DEF Call
<1>5. /\ call'[r] = k /\ (polling'[r] <=> Prog[k].kind = "dispatch" /\ Prog[k].sync)
      /\ \A q \in Ranks \ {r} : call'[q] = call[q] /\ polling'[q] = polling[q]
  BY <1>2 DEF IInv, CountTypes
<1>6. /\ DOMAIN hostWords' = Ranks
      /\ Prog[k].kind # "combine" => hostWords'[r] = ZeroHost
      /\ \A q \in Ranks \ {r} : hostWords'[q] = hostWords[q]
  BY <1>2 DEF CInv
<1>7. \E n, a :
        /\ \A q \in Ranks : \A j \in Calls :
             /\ handle'[q][j].psum = handle[q][j].psum
             /\ q # r \/ j # k => handle'[q][j].num = handle[q][j].num /\ handle'[q][j].alloc = handle[q][j].alloc
        /\ handle'[r][k].num = n /\ handle'[r][k].alloc = a
        /\ Prog[k].kind = "dispatch" /\ ~Prog[k].sync => n = WorstCase /\ a = WorstAlloc(Prog[k].expand)
        /\ Prog[k].kind = "cached" => n = handle[r][Prog[k].of].num /\ a = n
  <2>1. DOMAIN handle = Ranks /\ \A q \in Ranks : DOMAIN handle[q] = Calls /\ \A j \in Calls : DOMAIN handle[q][j] = HandleFields
    BY PlaceFacts
  <2>2. CASE Prog[k].kind = "dispatch" /\ ~Prog[k].sync
    <3>1. handle' = [handle EXCEPT ![r][k].num = WorstCase, ![r][k].alloc = WorstAlloc(Prog[k].expand)]
      BY <1>1, <2>2 DEF HostCall
    <3>2. PICK n, a : n = WorstCase /\ a = WorstAlloc(Prog[k].expand)
      OBVIOUS
    <3>3. handle' = [handle EXCEPT ![r][k].num = n, ![r][k].alloc = a]
      BY <3>1, <3>2
    <3>4. /\ \A q \in Ranks : \A j \in Calls :
               /\ handle'[q][j].psum = handle[q][j].psum
               /\ q # r \/ j # k => handle'[q][j].num = handle[q][j].num /\ handle'[q][j].alloc = handle[q][j].alloc
          /\ handle'[r][k].num = n /\ handle'[r][k].alloc = a
      BY ONLY <2>1, <3>3, <1>3, r \in Ranks DEF HandleFields
    <3> QED BY <2>2, <3>2, <3>4
  <2>3. CASE Prog[k].kind = "cached"
    <3>1. handle' = [handle EXCEPT ![r][k].num = handle[r][Prog[k].of].num,
                                   ![r][k].alloc = handle[r][Prog[k].of].num]
      BY <1>1, <2>3 DEF HostCall
    <3>2. PICK n : n = handle[r][Prog[k].of].num
      OBVIOUS
    <3>3. handle' = [handle EXCEPT ![r][k].num = n, ![r][k].alloc = n]
      BY <3>1, <3>2
    <3>4. /\ \A q \in Ranks : \A j \in Calls :
               /\ handle'[q][j].psum = handle[q][j].psum
               /\ q # r \/ j # k => handle'[q][j].num = handle[q][j].num /\ handle'[q][j].alloc = handle[q][j].alloc
          /\ handle'[r][k].num = n /\ handle'[r][k].alloc = n
      BY ONLY <2>1, <3>3, <1>3, r \in Ranks DEF HandleFields
    <3> QED BY <2>3, <3>2, <3>4
  <2>4. CASE ~(Prog[k].kind = "dispatch" /\ ~Prog[k].sync) /\ Prog[k].kind # "cached"
    <3>1. handle' = handle
      BY <1>1, <2>4 DEF HostCall
    <3> QED BY <2>4, <3>1
  <2> QED BY <2>2, <2>3, <2>4
<1>8. /\ Prog' = Prog /\ Calls' = Calls /\ ZeroHost' = ZeroHost
      /\ \A j, q, S : ReceivedFrom(j, q, S)' = ReceivedFrom(j, q, S)
      /\ \A j, q : Sum(AlignedTotals(j, q), LocalExperts)' = Sum(AlignedTotals(j, q), LocalExperts)
  BY <1>2, RoutingFixed, NumbersFixed DEF ZeroHost
<1>9. \A j : Finished(r, j)' = Finished(r, j)
  BY <1>2 DEF Finished
<1>10. PollInv(r)'
  BY <1>3, <1>5, <1>6, <1>8 DEF PollInv
<1>11. ASSUME NEW j \in Calls
       PROVE  PsumInv(r, j)' /\ NumInv(r, j)'
  <2>1. PsumInv(r, j) /\ NumInv(r, j)
    BY DEF CInv
  <2>2. PsumInv(r, j)'
    BY <1>7, <1>8, <1>9, <2>1 DEF PsumInv
  <2>3. Prog[j].kind = "cached" => Prog[j].of \in Calls /\ Prog[j].of < j /\ Prog[j].of \in Nat
    BY <1>3, CachedCall
  <2>4. NumInv(r, j)'
    <3>1. CASE j < k
      <4>1. Polled(r, j)
        <5>1. j \in Nat /\ k \in Nat /\ call[r] = k - 1 /\ ~polling[r]
          BY <1>2, <1>3
        <5>2. call[r] > j \/ call[r] = j
          BY ONLY <3>1, <5>1
        <5> QED BY <5>1, <5>2 DEF Polled
      <4>2. handle'[r][j].num = handle[r][j].num /\ handle'[r][j].alloc = handle[r][j].alloc
        BY <1>3, <1>7, <3>1
      <4>3. Prog[j].kind = "cached" => handle'[r][Prog[j].of].num = handle[r][Prog[j].of].num
        BY <1>3, <1>7, <2>3, <3>1
      <4>4. /\ Prog[j].kind = "dispatch" /\ Prog[j].sync =>
                 /\ Finished(r, j)
                 /\ handle'[r][j].num = ReceivedFrom(j, r, Ranks)
                 /\ handle'[r][j].alloc = IF Prog[j].expand THEN Sum(AlignedTotals(j, r), LocalExperts)
                                          ELSE handle'[r][j].num
            /\ Prog[j].kind = "dispatch" /\ ~Prog[j].sync =>
                 handle'[r][j].num = WorstCase /\ handle'[r][j].alloc = WorstAlloc(Prog[j].expand)
        BY <2>1, <4>1, <4>2 DEF NumInv
      <4>5. Prog[j].kind = "cached" => /\ handle'[r][j].num = handle'[r][Prog[j].of].num
                                       /\ handle'[r][j].alloc = handle'[r][Prog[j].of].num
        BY <2>1, <4>1, <4>2, <4>3 DEF NumInv
      <4> QED BY <1>8, <1>9, <4>4, <4>5 DEF NumInv
    <3>2. CASE j = k
      <4>1. Polled(r, j)' => ~(Prog[k].kind = "dispatch" /\ Prog[k].sync)
        BY <1>3, <1>5, <3>2 DEF Polled
      <4>2. Prog[k].kind = "cached" => handle'[r][Prog[k].of].num = handle[r][Prog[k].of].num
        BY <1>3, <1>7, <2>3, <3>2
      <4>3. WorstCase' = WorstCase /\ WorstAlloc(Prog[k].expand)' = WorstAlloc(Prog[k].expand)
        BY <1>8 DEF WorstCase, WorstAlloc
      <4> QED BY <1>7, <1>8, <3>2, <4>1, <4>2, <4>3 DEF NumInv
    <3>3. CASE j > k
      <4>1. ~(k > j) /\ k # j
        BY <1>3, <3>3
      <4>2. ~Polled(r, j)'
        BY <1>5, <4>1 DEF Polled
      <4> QED BY <4>2 DEF NumInv
    <3> QED BY <1>3, <3>1, <3>2, <3>3
  <2> QED BY <2>2, <2>4
<1>12. \A q \in Ranks \ {r} : \A j \in Calls : /\ handle'[q][j].num = handle[q][j].num
                                               /\ handle'[q][j].alloc = handle[q][j].alloc
                                               /\ handle'[q][j].psum = handle[q][j].psum
  BY <1>7
<1> QED BY <1>2, <1>5, <1>6, <1>10, <1>11, <1>12, CountsPlace

LEMMA HostPollCounts ==
  ASSUME IInv, CInv, NEW r \in Ranks, HostPoll(r)
  PROVE  CInv'
<1>1. PICK k : k = call[r]
  OBVIOUS
<1> DEFINE w == hostWords[r]
           num == Sum([s \in Ranks |-> Encode(w.rank[s])], Ranks)
           alloc == IF Prog[k].expand
                    THEN Sum([e \in LocalExperts |-> Encode(w.expert[e])], LocalExperts) ELSE num
<1>2. /\ polling[r] /\ polling' = [polling EXCEPT ![r] = FALSE]
      /\ UNCHANGED <<setup, call, hostWords, kernels, stage, notify>>
      /\ \A s \in Ranks : IsReady(w.rank[s])
      /\ handle' = [handle EXCEPT ![r][k].num = num, ![r][k].alloc = alloc]
  BY <1>1 DEF HostPoll, notifyVars
<1>3. /\ setup \in Setups /\ k \in Calls /\ k \in Nat /\ Prog[k].kind = "dispatch" /\ Prog[k].sync
      /\ \A j \in Calls : j \in Nat
  BY <1>1, <1>2, PlaceFacts DEF CInv, PollInv
<1>4. Finished(r, k) /\ w = HostRight(k, r)
  <2>1. w # ZeroHost
    <3>1. 0 \in Ranks
      BY SizesAssumption DEF Ranks
    <3>2. ZeroHost.rank[0] = 0
      BY <3>1 DEF ZeroHost
    <3> QED BY <1>2, <3>1, <3>2, EncodeFacts
  <2> QED BY <1>1, <1>2, <2>1 DEF CInv, PollInv
<1>5. num = ReceivedFrom(k, r, Ranks)
  <2> DEFINE f == [s \in Ranks |-> Encode(w.rank[s])]
  <2>1. \A s \in Ranks : f[s] = Count(k, s, r)
    <3>1. \A s \in Ranks : w.rank[s] = Encode(Count(k, s, r))
      BY <1>4 DEF HostRight
    <3>2. \A s \in Ranks : Count(k, s, r) \in Nat
      BY <1>3, CountFacts
    <3> QED BY <3>1, <3>2, EncodeFacts
  <2> HIDE DEF f, w
  <2>2. Ranks \in SUBSET Ranks
    OBVIOUS
  <2>3. Sum(f, Ranks) = ReceivedFrom(k, r, Ranks)
    BY <1>3, <2>1, <2>2, ReceivedSums
  <2> QED BY <2>3 DEF f
<1>6. alloc = IF Prog[k].expand THEN Sum(AlignedTotals(k, r), LocalExperts) ELSE num
  <2> DEFINE f == [e \in LocalExperts |-> Encode(w.expert[e])]
  <2>1. \A x \in LocalExperts : f[x] = AlignedTotals(k, r)[x]
    <3>1. \A x \in LocalExperts : w.expert[x] = Encode(AlignedTotals(k, r)[x])
      BY <1>4 DEF HostRight
    <3>2. \A x \in LocalExperts : ExpertTotal(k, r, x) \in Nat
      <4>1. ASSUME NEW x \in LocalExperts
            PROVE  ExpertTotal(k, r, x) \in Nat
        <5> DEFINE g == [s \in Ranks |-> ExpertCount(k, s, r * NumExpertsPerRank + x)]
        <5>1. \A s \in Ranks : g[s] = ExpertCount(k, s, r * NumExpertsPerRank + x)
          OBVIOUS
        <5> HIDE DEF g
        <5> QED BY <1>3, <5>1, ExpertSums
      <4> QED BY <4>1
    <3>3. \A x \in LocalExperts : AlignedTotals(k, r)[x] \in Nat
      BY <3>2, AlignNat DEF AlignedTotals
    <3> QED BY <3>1, <3>3, EncodeFacts
  <2>2. f = AlignedTotals(k, r)
    BY <2>1 DEF AlignedTotals
  <2> HIDE DEF num, w
  <2> QED BY <2>2
<1> HIDE DEF num, alloc, w
<1>7. /\ \A q \in Ranks : \A j \in Calls :
           /\ handle'[q][j].psum = handle[q][j].psum
           /\ q # r \/ j # k => handle'[q][j].num = handle[q][j].num /\ handle'[q][j].alloc = handle[q][j].alloc
      /\ handle'[r][k].num = num /\ handle'[r][k].alloc = alloc
  <2>1. DOMAIN handle = Ranks /\ \A q \in Ranks : DOMAIN handle[q] = Calls /\ \A j \in Calls : DOMAIN handle[q][j] = HandleFields
    BY PlaceFacts
  <2>2. PICK n, a : n = num /\ a = alloc
    OBVIOUS
  <2>3. handle' = [handle EXCEPT ![r][k].num = n, ![r][k].alloc = a]
    BY <1>2, <2>2
  <2>4. /\ \A q \in Ranks : \A j \in Calls :
             /\ handle'[q][j].psum = handle[q][j].psum
             /\ q # r \/ j # k => handle'[q][j].num = handle[q][j].num /\ handle'[q][j].alloc = handle[q][j].alloc
        /\ handle'[r][k].num = n /\ handle'[r][k].alloc = a
    BY ONLY <2>1, <2>3, <1>3, r \in Ranks DEF HandleFields
  <2> QED BY <2>2, <2>4
<1>8. /\ Prog' = Prog /\ Calls' = Calls
      /\ \A j, q, S : ReceivedFrom(j, q, S)' = ReceivedFrom(j, q, S)
      /\ \A j, q : Sum(AlignedTotals(j, q), LocalExperts)' = Sum(AlignedTotals(j, q), LocalExperts)
  BY <1>2, RoutingFixed, NumbersFixed
<1>9. /\ ~polling'[r] /\ call'[r] = k /\ \A q \in Ranks \ {r} : polling'[q] = polling[q]
      /\ \A j : Finished(r, j)' = Finished(r, j)
  BY <1>1, <1>2 DEF Finished, IInv, CountTypes
<1>10. PollInv(r)'
  BY <1>9 DEF PollInv
<1>11. ASSUME NEW j \in Calls
       PROVE  PsumInv(r, j)' /\ NumInv(r, j)'
  <2>1. PsumInv(r, j) /\ NumInv(r, j)
    BY DEF CInv
  <2>2. PsumInv(r, j)'
    BY <1>7, <1>8, <1>9, <2>1 DEF PsumInv
  <2>3. NumInv(r, j)'
    <3>1. CASE j < k
      <4>1. Polled(r, j)
        BY <1>1, <1>3, <3>1 DEF Polled
      <4>2. handle'[r][j].num = handle[r][j].num /\ handle'[r][j].alloc = handle[r][j].alloc
        BY <1>3, <1>7, <3>1
      <4>3. Prog[j].kind = "cached" => Prog[j].of \in Calls /\ Prog[j].of < j /\ Prog[j].of \in Nat
        BY <1>3, CachedCall
      <4>4. Prog[j].kind = "cached" => handle'[r][Prog[j].of].num = handle[r][Prog[j].of].num
        BY <1>3, <1>7, <3>1, <4>3
      <4> QED BY <1>8, <1>9, <2>1, <4>1, <4>2, <4>4 DEF NumInv
    <3>2. CASE j = k
      BY <1>3, <1>4, <1>5, <1>6, <1>7, <1>8, <1>9, <3>2 DEF NumInv
    <3>3. CASE j > k
      <4>1. ~(k > j) /\ k # j
        BY <1>3, <3>3
      <4>2. ~Polled(r, j)'
        BY <1>9, <4>1 DEF Polled
      <4> QED BY <4>2 DEF NumInv
    <3> QED BY <1>3, <3>1, <3>2, <3>3
  <2> QED BY <2>2, <2>3
<1>12. \A q \in Ranks \ {r} : \A j \in Calls : /\ handle'[q][j].num = handle[q][j].num
                                               /\ handle'[q][j].alloc = handle[q][j].alloc
                                               /\ handle'[q][j].psum = handle[q][j].psum
  BY <1>7
<1>13. DOMAIN hostWords' = Ranks
  BY <1>2 DEF CInv
<1> QED BY <1>2, <1>9, <1>10, <1>11, <1>12, <1>13, CountsPlace

LEMMA CStep == IInv /\ WordsInv /\ CInv /\ [Next]_vars => CInv'
<1> SUFFICES ASSUME IInv, WordsInv, CInv, [Next]_vars
             PROVE  CInv'
  OBVIOUS
<1>1. ASSUME NEW r \in Ranks, Host(r)
      PROVE  CInv'
  BY <1>1, HostCallCounts, HostPollCounts DEF Host
<1>2. ASSUME NEW r \in Ranks, Running(r), Notify(r)
      PROVE  CInv'
  BY <1>2, NotifyCounts, NotifyFinishCounts DEF Notify
<1>3. ASSUME NEW r \in Ranks, Running(r), Main(r)
      PROVE  CInv'
  BY <1>3, StartMainCounts, PassEntryCounts, TokenCounts, ArriveCounts, EndMainCounts DEF Main
<1>4. ASSUME NEW r \in Ranks, Running(r), Epilogue(r)
      PROVE  CInv'
  BY <1>4, StartEpilogueCounts, TokenCounts, EndEpilogueCounts DEF Epilogue
<1>5. ASSUME UNCHANGED <<setup, call, polling, hostWords, kernels, stage, notify, handle>>
      PROVE  CInv'
  BY <1>5, HandleCounts DEF NumbersStay
<1>6. ASSUME NEW m \in stores, LandStore(m)
      PROVE  CInv'
  BY <1>5, <1>6 DEF LandStore, hostVars, notifyVars
<1>7. ASSUME NEW m \in counts, LandCounts(m)
      PROVE  CInv'
  BY <1>5, <1>7 DEF LandCounts, hostVars
<1>8. CASE UNCHANGED vars
  BY <1>5, <1>8 DEF vars
<1> QED BY <1>1, <1>2, <1>3, <1>4, <1>6, <1>7, <1>8 DEF Next

\* The host's words, its numbers and the prefix sums of all calls are those of the program.
THEOREM NumbersInPlace == Spec => []CInv
<1>1. IInv /\ (WordsInv /\ SInv) /\ CInv /\ [Next]_vars => CInv'
  BY CStep
<1> QED BY Invariance, CountsInOnePlace, CInit, <1>1, PTL DEF Spec

LEMMA CountsFromInv == IInv /\ CInv => CountsExact
<1> SUFFICES ASSUME IInv, CInv, NEW r \in Ranks, NEW k \in Calls, Prog[k].kind = "dispatch"
             PROVE  /\ Prog[k].sync /\ (call[r] > k \/ (call[r] = k /\ ~polling[r])) =>
                         handle[r][k].num = ReceivedFrom(k, r, Ranks)
                    /\ kernels[r] >= 2 * k - 1 =>
                         \A s \in Ranks : handle[r][k].psum[s] = ReceivedFrom(k, r, 0 .. s)
  BY DEF CountsExact, ReceivedFrom
<1>1. PsumInv(r, k) /\ NumInv(r, k)
  BY DEF CInv
<1> QED BY <1>1 DEF PsumInv, NumInv, Polled, Finished

\* Any number of ranks, experts and tokens, any program: the number of tokens that the host
\* allocates for, and the prefix sums that the epilogue goes by, are what was routed.
THEOREM NumbersExact == Spec => []CountsExact
<1> QED BY Invariance, NumbersInPlace, CountsFromInv, PTL

-----------------------------------------------------------------------------
(***************************************************************************)
(* The invariant of the tokens.  Once its warp has sent a token it is on   *)
(* its way or in its place of the receiver's buffer, for as long as the    *)
(* receiver is in the call: slots keep the tokens of a sender apart, and   *)
(* nothing of another call arrives.                                        *)
(***************************************************************************)

\* Rank s has sent pair p of the dispatch k.
Sent(s, k, p) == \/ kernels[s] >= 2 * k - 1
                 \/ kernels[s] = 2 * k - 2 /\ stage[s] \in {"work", "leave"} /\ p \in done[s]

Slot(s, k, p) == handle[s][Home(k)].slot[p]
Post(s, k, p) == [from |-> s, to |-> p[2], at |-> <<s, Slot(s, k, p)>>,
                  token |-> Token(k, s, p[1], Rows(k, s)[p[1]])]

Posted(m) ==
  Prog[m.token.call].kind \in AnyDispatch =>
    \E p \in PairsOf(m.token.call, m.from) :
      Sent(m.from, m.token.call, p) /\ m = Post(m.from, m.token.call, p)
Delivered(s, k, p) ==
  CallOf(p[2]) = k /\ Sent(s, k, p) =>
    \/ Post(s, k, p) \in stores
    \/ buffer[p[2]][<<s, Slot(s, k, p)>>] = Post(s, k, p).token

TInv ==
  /\ DOMAIN buffer = Ranks /\ \A d \in Ranks : DOMAIN buffer[d] = Places
  /\ \A m \in stores : Posted(m)
  /\ \A s \in Ranks : \A k \in Calls : Prog[k].kind \in AnyDispatch =>
       \A p \in PairsOf(k, s) : Delivered(s, k, p)

\* What a step does to what has been sent: it stays sent, in its slot, and nothing is added.
SentStays(s) ==
  \A k \in Calls : Prog[k].kind \in AnyDispatch => \A p \in PairsOf(k, s) :
    Sent(s, k, p) => Sent(s, k, p)' /\ Slot(s, k, p)' = Slot(s, k, p)
NoneSent(s) ==
  \A k \in Calls : Prog[k].kind \in AnyDispatch => \A p \in PairsOf(k, s) :
    Sent(s, k, p)' => Sent(s, k, p)
History == \A s \in Ranks : SentStays(s) /\ NoneSent(s)

LEMMA SlotsFixed ==
  ASSUME IInv, setup' = setup, NEW s \in Ranks,
         \A j \in Calls : handle'[s][j].slot = handle[s][j].slot
  PROVE  \A k \in Calls : Home(k) \in Calls /\ \A p : Slot(s, k, p)' = Slot(s, k, p)
<1>1. setup \in Setups
  BY DEF IInv, CountTypes
<1>2. \A k \in Calls : Home(k) \in Calls /\ Home(k)' = Home(k)
  BY <1>1, HomeIsDispatch, RoutingFixed DEF Home, Source, Prog
<1> QED BY <1>2 DEF Slot

LEMMA QuietHistory ==
  ASSUME IInv, setup' = setup, NEW s \in Ranks,
         kernels'[s] = kernels[s], stage'[s] = stage[s], done'[s] = done[s],
         \A j \in Calls : handle'[s][j].slot = handle[s][j].slot
  PROVE  SentStays(s) /\ NoneSent(s)
<1>1. \A k \in Calls : \A p : Slot(s, k, p)' = Slot(s, k, p)
  BY SlotsFixed
<1>2. \A k, p : Sent(s, k, p)' = Sent(s, k, p)
  BY DEF Sent
<1> QED BY <1>1, <1>2 DEF SentStays, NoneSent

\* Where the stage of a dispatch cannot tell what is sent.
LEMMA SentFacts ==
  ASSUME IInv, SInv, NEW r \in Ranks, NEW k \in Calls, Prog[k].kind \in AnyDispatch, NEW p \in PairsOf(k, r)
  PROVE  /\ k \in Nat /\ k >= 1 /\ Home(k) \in Calls /\ Home(k) \in Nat /\ Home(k) <= k
         /\ ~OnMain(r) => (Sent(r, k, p) <=> kernels[r] >= 2 * k - 1)
         /\ stage[r] \in {"idle", "enter"} => (Sent(r, k, p) <=> kernels[r] >= 2 * k - 1)
         /\ stage[r] = "leave" => (Sent(r, k, p) <=> kernels[r] >= 2 * k - 2)
<1>1. setup \in Setups /\ k \in Nat /\ k >= 1 /\ kernels[r] \in Nat
  BY PlaceFacts
<1>2. Home(k) \in Calls /\ Home(k) \in Nat /\ Home(k) <= k
  <2>1. Home(k) \in Calls /\ (Prog[k].kind = "dispatch" => Home(k) = k) /\ (Prog[k].kind # "dispatch" => Home(k) < k)
    BY <1>1, HomeIsDispatch
  <2>2. Home(k) \in Nat
    BY <2>1, PlaceFacts
  <2> QED BY <1>1, <2>1, <2>2
<1>3. ASSUME ~OnMain(r)
      PROVE  Sent(r, k, p) <=> kernels[r] >= 2 * k - 1
  <2>1. kernels[r] = 2 * CallOf(r) - 1 /\ CallOf(r) \in Nat
    BY <1>3, PlaceFacts
  <2>2. kernels[r] # 2 * k - 2
    BY <1>1, <2>1
  <2> QED BY <2>2 DEF Sent
<1>4. ASSUME stage[r] \in {"idle", "enter"}
      PROVE  Sent(r, k, p) <=> kernels[r] >= 2 * k - 1
  BY <1>4 DEF Sent
<1>5. ASSUME stage[r] = "leave"
      PROVE  Sent(r, k, p) <=> kernels[r] >= 2 * k - 2
  <2>1. CASE kernels[r] = 2 * k - 2
    <3>1. OnMain(r) /\ kernels[r] = 2 * CallOf(r) - 2 /\ CallOf(r) \in Nat
      BY <1>5, PlaceFacts
    <3>2. CallOf(r) = k
      BY <1>1, <2>1, <3>1
    <3>3. Sending(r)
      BY <1>5, <3>1, <3>2 DEF Sending, Kind
    <3>4. done[r] = PairsOf(k, r)
      BY <1>5, <3>2, <3>3 DEF SInv, DoneInv
    <3> QED BY <1>1, <1>5, <2>1, <3>4 DEF Sent
  <2>2. CASE kernels[r] # 2 * k - 2
    BY <1>1, <2>2 DEF Sent
  <2> QED BY <2>1, <2>2
<1> QED BY <1>1, <1>2, <1>3, <1>4, <1>5

\* A rank whose step sends nothing leaves the history of all ranks as it is.
LEMMA HistoryOf ==
  ASSUME IInv, NEW r \in Ranks, setup' = setup,
         \A q \in Ranks \ {r} : /\ kernels'[q] = kernels[q] /\ stage'[q] = stage[q] /\ done'[q] = done[q]
                                /\ \A j \in Calls : handle'[q][j].slot = handle[q][j].slot,
         SentStays(r), NoneSent(r)
  PROVE  History
<1>1. \A q \in Ranks \ {r} : SentStays(q) /\ NoneSent(q)
  BY QuietHistory
<1> QED BY <1>1 DEF History

LEMMA MoveHistory ==
  ASSUME IInv, NEW r \in Ranks, setup' = setup,
         \A q \in Ranks \ {r} : kernels'[q] = kernels[q] /\ stage'[q] = stage[q] /\ done'[q] = done[q],
         \A q \in Ranks : \A j \in Calls : handle'[q][j].slot = handle[q][j].slot,
         \A k \in Calls : Prog[k].kind \in AnyDispatch => \A p \in PairsOf(k, r) : Sent(r, k, p)' <=> Sent(r, k, p)
  PROVE  History
<1>1. \A k \in Calls : \A p : Slot(r, k, p)' = Slot(r, k, p)
  BY SlotsFixed
<1>2. SentStays(r) /\ NoneSent(r)
  BY <1>1 DEF SentStays, NoneSent
<1> QED BY <1>2, HistoryOf

LEMMA StartMainHistory ==
  ASSUME IInv, SInv, NEW r \in Ranks, Running(r), StartMain(r)
  PROVE  History
<1>1. /\ stage[r] = "idle" /\ OnMain(r) /\ UNCHANGED <<setup, kernels>>
      /\ stage' = [stage EXCEPT ![r] = "enter"] /\ done' = [done EXCEPT ![r] = {}]
      /\ handle' = IF Kind(r) = "dispatch" /\ setup.deterministic
                   THEN [handle EXCEPT ![r][CallOf(r)].slot = PrologueSlots(Rows(CallOf(r), r))] ELSE handle
  BY DEF StartMain
<1>2. PICK k \in Calls : k = CallOf(r)
  BY RunningCall DEF IInv
<1>3. /\ stage'[r] = "enter" /\ kernels[r] = 2 * k - 2 /\ k \in Nat
      /\ \A q \in Ranks \ {r} : stage'[q] = stage[q] /\ done'[q] = done[q]
  BY <1>1, <1>2, PlaceFacts DEF IInv, CountTypes
<1>4. /\ \A q \in Ranks : \A j \in Calls : q # r \/ j # k => handle'[q][j].slot = handle[q][j].slot
  BY <1>1, <1>2, PlaceFacts DEF HandleFields
<1>5. ASSUME NEW j \in Calls, Prog[j].kind \in AnyDispatch, NEW p \in PairsOf(j, r)
      PROVE  /\ Sent(r, j, p)' <=> Sent(r, j, p)
             /\ Sent(r, j, p) => Slot(r, j, p)' = Slot(r, j, p)
  <2>1. /\ j \in Nat /\ Home(j) \in Calls /\ Home(j) \in Nat /\ Home(j) <= j
        /\ Sent(r, j, p) <=> kernels[r] >= 2 * j - 1
    BY <1>1, <1>5, SentFacts
  <2>2. Sent(r, j, p)' <=> kernels[r] >= 2 * j - 1
    BY <1>1, <1>3 DEF Sent
  <2>3. Sent(r, j, p) => Home(j) # k
    BY <1>3, <2>1
  <2>4. Home(j)' = Home(j)
    BY <1>1 DEF Home, Source, Prog
  <2> QED BY <1>4, <2>1, <2>2, <2>3, <2>4 DEF Slot
<1>6. SentStays(r) /\ NoneSent(r)
  BY <1>5 DEF SentStays, NoneSent
<1> QED BY <1>1, <1>3, <1>4, <1>6, HistoryOf

LEMMA PassEntryHistory ==
  ASSUME IInv, SInv, NEW r \in Ranks, PassEntry(r)
  PROVE  History
<1>1. /\ stage[r] = "enter" /\ stage' = [stage EXCEPT ![r] = "work"]
      /\ UNCHANGED <<setup, kernels, done, handle>>
  BY DEF PassEntry, tokenVars
<1>2. done[r] = {} /\ \A q \in Ranks \ {r} : stage'[q] = stage[q]
  BY <1>1 DEF SInv, DoneInv, IInv, CountTypes
<1>3. \A k \in Calls : Prog[k].kind \in AnyDispatch => \A p \in PairsOf(k, r) : Sent(r, k, p)' <=> Sent(r, k, p)
  BY <1>1, <1>2 DEF Sent
<1> QED BY <1>1, <1>2, <1>3, MoveHistory

LEMMA ArriveHistory ==
  ASSUME IInv, SInv, NEW r \in Ranks, Arrive(r)
  PROVE  History
<1>1. /\ stage[r] = "work" /\ stage' = [stage EXCEPT ![r] = "leave"]
      /\ UNCHANGED <<setup, kernels, done, handle>>
  BY DEF Arrive, tokenVars
<1>2. stage'[r] = "leave" /\ \A q \in Ranks \ {r} : stage'[q] = stage[q]
  BY <1>1 DEF IInv, CountTypes
<1>3. \A k \in Calls : Prog[k].kind \in AnyDispatch => \A p \in PairsOf(k, r) : Sent(r, k, p)' <=> Sent(r, k, p)
  BY <1>1, <1>2 DEF Sent
<1> QED BY <1>1, <1>2, <1>3, MoveHistory

LEMMA EndMainHistory ==
  ASSUME IInv, SInv, NEW r \in Ranks, EndMain(r)
  PROVE  History
<1>1. /\ stage[r] = "leave" /\ stage' = [stage EXCEPT ![r] = "idle"]
      /\ kernels' = [kernels EXCEPT ![r] = @ + 1] /\ UNCHANGED <<setup, done, handle>>
  BY DEF EndMain
<1>2. PICK k \in Nat : kernels[r] = 2 * k - 2
  BY <1>1, PlaceFacts
<1>3. /\ stage'[r] = "idle" /\ kernels'[r] = kernels[r] + 1
      /\ \A q \in Ranks \ {r} : stage'[q] = stage[q] /\ kernels'[q] = kernels[q]
  BY <1>1 DEF IInv, CountTypes
<1>4. ASSUME NEW j \in Calls, Prog[j].kind \in AnyDispatch, NEW p \in PairsOf(j, r)
      PROVE  Sent(r, j, p)' <=> Sent(r, j, p)
  <2>1. j \in Nat /\ (Sent(r, j, p) <=> kernels[r] >= 2 * j - 2)
    BY <1>1, <1>4, SentFacts
  <2>2. Sent(r, j, p)' <=> kernels[r] + 1 >= 2 * j - 1
    BY <1>3 DEF Sent
  <2> QED BY <1>2, <2>1, <2>2
<1> QED BY <1>1, <1>3, <1>4, MoveHistory

LEMMA StartEpilogueHistory ==
  ASSUME IInv, SInv, NEW r \in Ranks, StartEpilogue(r)
  PROVE  History
<1>1. /\ ~OnMain(r) /\ stage' = [stage EXCEPT ![r] = "work"] /\ done' = [done EXCEPT ![r] = {}]
      /\ UNCHANGED <<setup, kernels, handle>>
  BY DEF StartEpilogue
<1>2. \A q \in Ranks \ {r} : stage'[q] = stage[q] /\ done'[q] = done[q]
  BY <1>1 DEF IInv, CountTypes
<1>3. ASSUME NEW j \in Calls, Prog[j].kind \in AnyDispatch, NEW p \in PairsOf(j, r)
      PROVE  Sent(r, j, p)' <=> Sent(r, j, p)
  <2>1. kernels[r] = 2 * CallOf(r) - 1 /\ CallOf(r) \in Nat /\ j \in Nat
    BY <1>1, PlaceFacts
  <2>2. kernels[r] # 2 * j - 2
    BY <2>1
  <2> QED BY <1>1, <2>2 DEF Sent
<1> QED BY <1>1, <1>2, <1>3, MoveHistory

LEMMA EndEpilogueHistory ==
  ASSUME IInv, SInv, NEW r \in Ranks, EndEpilogue(r)
  PROVE  History
<1>1. /\ ~OnMain(r) /\ stage' = [stage EXCEPT ![r] = "idle"]
      /\ kernels' = [kernels EXCEPT ![r] = @ + 1] /\ UNCHANGED <<setup, done, handle>>
  BY DEF EndEpilogue, tokenVars
<1>2. PICK k \in Nat : kernels[r] = 2 * k - 1
  BY <1>1, PlaceFacts
<1>3. /\ stage'[r] = "idle" /\ kernels'[r] = kernels[r] + 1
      /\ \A q \in Ranks \ {r} : stage'[q] = stage[q] /\ kernels'[q] = kernels[q]
  BY <1>1 DEF IInv, CountTypes
<1>4. ASSUME NEW j \in Calls, Prog[j].kind \in AnyDispatch, NEW p \in PairsOf(j, r)
      PROVE  Sent(r, j, p)' <=> Sent(r, j, p)
  <2>1. j \in Nat /\ (Sent(r, j, p) <=> kernels[r] >= 2 * j - 1)
    BY <1>1, <1>4, SentFacts
  <2>2. Sent(r, j, p)' <=> kernels[r] + 1 >= 2 * j - 1
    BY <1>3 DEF Sent
  <2> QED BY <1>2, <2>1, <2>2
<1> QED BY <1>1, <1>3, <1>4, MoveHistory

\* Steps of a kernel that sends no tokens of a dispatch.
LEMMA WorkHistory ==
  ASSUME IInv, NEW r \in Ranks, UNCHANGED <<setup, kernels, stage>>, ~Sending(r), stage[r] = "work",
         \A q \in Ranks \ {r} : done'[q] = done[q],
         \A q \in Ranks : \A j \in Calls : handle'[q][j].slot = handle[q][j].slot
  PROVE  History
<1>1. ASSUME NEW j \in Calls, Prog[j].kind \in AnyDispatch, NEW p \in PairsOf(j, r)
      PROVE  Sent(r, j, p)' <=> Sent(r, j, p)
  <2>1. /\ j \in Nat /\ CallOf(r) \in Nat /\ (OnMain(r) => kernels[r] = 2 * CallOf(r) - 2)
        /\ (~OnMain(r) => kernels[r] = 2 * CallOf(r) - 1)
    BY PlaceFacts
  <2>2. kernels[r] # 2 * j - 2
    <3>1. CASE OnMain(r)
      <4>1. CallOf(r) # j
        BY <1>1, <3>1 DEF Sending, Kind
      <4> QED BY <2>1, <3>1, <4>1
    <3>2. CASE ~OnMain(r)
      BY <2>1, <3>2
    <3> QED BY <3>1, <3>2
  <2> QED BY <2>2 DEF Sent
<1> QED BY <1>1, MoveHistory

\* Steps that change no slot, and steps that change no tensor, in a handle.
SlotsKept   == \A q \in Ranks : \A j \in Calls : handle'[q][j].slot = handle[q][j].slot
TensorsKept == \A q \in Ranks : \A j \in Calls : /\ handle'[q][j].meta = handle[q][j].meta
                                                 /\ handle'[q][j].recv = handle[q][j].recv
                                                 /\ handle'[q][j].epsum = handle[q][j].epsum
SumsKept    == \A q \in Ranks : \A j \in Calls : handle'[q][j].sums = handle[q][j].sums

LEMMA HostHandle ==
  ASSUME IInv, NEW r \in Ranks, Host(r)
  PROVE  SlotsKept /\ TensorsKept /\ SumsKept
<1>0. /\ DOMAIN handle = Ranks
      /\ \A q \in Ranks : DOMAIN handle[q] = Calls /\ \A j \in Calls : DOMAIN handle[q][j] = HandleFields
      /\ Prog \in Seq(Call) /\ call[r] \in Nat
  BY PlaceFacts, SetupsAssumption DEF IInv, CountTypes, Prog
<1>1. ASSUME NEW k \in Calls, NEW x, NEW y, handle' = [handle EXCEPT ![r][k].num = x, ![r][k].alloc = y]
      PROVE  SlotsKept /\ TensorsKept /\ SumsKept
  BY ONLY <1>0, <1>1, r \in Ranks DEF HandleFields, SlotsKept, TensorsKept, SumsKept
<1>2. ASSUME handle' = handle
      PROVE  SlotsKept /\ TensorsKept /\ SumsKept
  BY <1>2 DEF SlotsKept, TensorsKept, SumsKept
<1>3. ASSUME HostCall(r)
      PROVE  SlotsKept /\ TensorsKept /\ SumsKept
  <2> DEFINE k == call[r] + 1
  <2>1. /\ k \in Calls
        /\ \/ handle' = handle
           \/ \E x, y : handle' = [handle EXCEPT ![r][k].num = x, ![r][k].alloc = y]
    <3>1. call[r] < Len(Prog)
      BY <1>3 DEF HostCall
    <3>2. k \in Calls
      BY <1>0, <3>1 DEF Calls
    <3> QED BY <1>3, <3>2 DEF HostCall
  <2>2. CASE handle' = handle
    BY <1>2, <2>2
  <2>3. ASSUME NEW x, NEW y, handle' = [handle EXCEPT ![r][k].num = x, ![r][k].alloc = y]
        PROVE  SlotsKept /\ TensorsKept /\ SumsKept
    <3> HIDE DEF k
    <3> QED BY <1>1, <2>1, <2>3
  <2> QED BY <2>1, <2>2, <2>3
<1>4. ASSUME HostPoll(r)
      PROVE  SlotsKept /\ TensorsKept /\ SumsKept
  <2> DEFINE k == call[r]
  <2>1. polling[r] /\ \E x, y : handle' = [handle EXCEPT ![r][k].num = x, ![r][k].alloc = y]
    BY <1>4 DEF HostPoll
  <2>2. k \in Calls
    <3>1. call[r] >= 1 /\ call[r] <= Len(Prog)
      BY <2>1 DEF IInv, Ahead
    <3> QED BY <1>0, <3>1 DEF Calls
  <2>3. PICK x, y : handle' = [handle EXCEPT ![r][k].num = x, ![r][k].alloc = y]
    BY <2>1
  <2> HIDE DEF k
  <2> QED BY <1>1, <2>2, <2>3
<1> QED BY <1>3, <1>4 DEF Host

LEMMA EpilogueHandle ==
  ASSUME IInv, NEW r \in Ranks, Running(r), NEW i
  PROVE  /\ CopyToken(r, i) => SlotsKept /\ SumsKept
         /\ ReduceToken(r, i) => SlotsKept /\ TensorsKept
<1> DEFINE k == CallOf(r)
<1>0. /\ DOMAIN handle = Ranks
      /\ \A q \in Ranks : DOMAIN handle[q] = Calls /\ \A j \in Calls : DOMAIN handle[q][j] = HandleFields
      /\ k \in Calls
  BY PlaceFacts, RunningCall DEF IInv
<1>1. ASSUME CopyToken(r, i)
      PROVE  SlotsKept /\ SumsKept
  <2>1. PICK s \in Ranks : CopyFrom(r, i, s)
    BY <1>1 DEF CopyToken
  <2>2. PICK md, y, z : handle' = [handle EXCEPT ![r][k].meta = Extend(@, i, md),
                                                ![r][k].recv = y, ![r][k].epsum = z]
    BY <2>1 DEF CopyFrom
  <2> HIDE DEF k
  <2> QED BY ONLY <1>0, <2>2, r \in Ranks DEF HandleFields, SlotsKept, SumsKept
<1>2. ASSUME ReduceToken(r, i)
      PROVE  SlotsKept /\ TensorsKept
  <2>1. \E x : handle' = [handle EXCEPT ![r][k].sums = x]
    BY <1>2 DEF ReduceToken
  <2>2. PICK x : handle' = [handle EXCEPT ![r][k].sums = x]
    BY <2>1
  <2> HIDE DEF k
  <2> QED BY ONLY <1>0, <2>2, r \in Ranks DEF HandleFields, SlotsKept, TensorsKept
<1> QED BY <1>1, <1>2

LEMMA NotifyHandle ==
  ASSUME IInv, NEW r \in Ranks, Running(r), NotifyFinish(r)
  PROVE  /\ SlotsKept /\ SumsKept
         /\ \A q \in Ranks : \A j \in Calls : /\ handle'[q][j].meta = handle[q][j].meta
                                              /\ handle'[q][j].recv = handle[q][j].recv
         /\ \A q \in Ranks : \A j \in Calls : q # r \/ j # CallOf(r) => handle'[q][j].epsum = handle[q][j].epsum
<1> DEFINE k == CallOf(r)
<1>0. /\ DOMAIN handle = Ranks
      /\ \A q \in Ranks : DOMAIN handle[q] = Calls /\ \A j \in Calls : DOMAIN handle[q][j] = HandleFields
      /\ k \in Calls
  BY PlaceFacts, RunningCall DEF IInv
<1>1. \E x, y : handle' = [handle EXCEPT ![r][k].psum = x, ![r][k].epsum = y]
  BY DEF NotifyFinish
<1>2. PICK x, y : handle' = [handle EXCEPT ![r][k].psum = x, ![r][k].epsum = y]
  BY <1>1
<1> HIDE DEF k
<1>3. /\ SlotsKept /\ SumsKept
      /\ \A q \in Ranks : \A j \in Calls : /\ handle'[q][j].meta = handle[q][j].meta
                                           /\ handle'[q][j].recv = handle[q][j].recv
      /\ \A q \in Ranks : \A j \in Calls : q # r \/ j # k => handle'[q][j].epsum = handle[q][j].epsum
  BY ONLY <1>0, <1>2, r \in Ranks DEF HandleFields, SlotsKept, SumsKept
<1> QED BY <1>3 DEF k

\* The history of all steps but a dispatch warp's.
LEMMA QuietStepHistory ==
  ASSUME IInv, UNCHANGED <<setup, kernels, stage, done>>, SlotsKept
  PROVE  History
BY QuietHistory DEF History, SlotsKept

LEMMA HostHistory ==
  ASSUME IInv, NEW r \in Ranks, Host(r)
  PROVE  History
<1>1. UNCHANGED <<setup, kernels, stage, done>>
  BY DEF Host, HostCall, HostPoll, tokenVars
<1> QED BY <1>1, HostHandle, QuietStepHistory

LEMMA NotifyHistory ==
  ASSUME IInv, NEW r \in Ranks, Running(r), Notify(r)
  PROVE  History
<1>1. UNCHANGED <<setup, kernels, stage, done>>
  BY DEF Notify, NotifyCount, NotifySend, NotifyTake, NotifyFinish, tokenVars
<1>2. SlotsKept
  <2>1. handle' = handle => SlotsKept
    BY DEF SlotsKept
  <2> QED BY <2>1, NotifyHandle DEF Notify, NotifyCount, NotifySend, NotifyTake
<1> QED BY <1>1, <1>2, QuietStepHistory

LEMMA EpilogueHistory ==
  ASSUME IInv, NEW r \in Ranks, Running(r), NEW i, CopyToken(r, i) \/ ReduceToken(r, i)
  PROVE  History
<1>1. /\ UNCHANGED <<setup, kernels, stage>> /\ done' = [done EXCEPT ![r] = @ \cup {i}]
      /\ stage[r] = "work" /\ ~OnMain(r)
  BY DEF CopyToken, ReduceToken, EpilogueRuns
<1>2. ~Sending(r) /\ SlotsKept
  BY <1>1, EpilogueHandle DEF Sending
<1> QED BY <1>1, <1>2, WorkHistory DEF SlotsKept

LEMMA SendBackHistory ==
  ASSUME IInv, NEW r \in Ranks, NEW i, SendBack(r, i)
  PROVE  History
<1>1. /\ UNCHANGED <<setup, kernels, stage, handle>> /\ done' = [done EXCEPT ![r] = @ \cup {i}]
      /\ MainRuns(r, {"combine"})
  BY DEF SendBack
<1>2. ~Sending(r) /\ stage[r] = "work"
  BY <1>1 DEF MainRuns, Sending, AnyDispatch
<1> QED BY <1>1, <1>2, WorkHistory

LEMMA SameRouting ==
  ASSUME setup \in Setups, NEW k \in Calls, NEW s \in Ranks
  PROVE  /\ Rows(Home(k), s) = Rows(k, s) /\ PairsOf(Home(k), s) = PairsOf(k, s)
         /\ \A d : FromTo(Home(k), s, d) = FromTo(k, s, d) /\ Count(Home(k), s, d) = Count(k, s, d)
<1>1. Rows(Home(k), s) = Rows(k, s)
  BY HomeIsDispatch DEF Rows
<1> QED BY <1>1 DEF PairsOf, FromTo, Count

\* A token that is sent has a slot of its own among those of its sender at its receiver.
LEMMA SentSlot ==
  ASSUME IInv, SInv, NEW s \in Ranks, NEW k \in Calls, Prog[k].kind \in AnyDispatch,
         NEW p \in PairsOf(k, s), Sent(s, k, p)
  PROVE  /\ Slot(s, k, p) \in 0 .. Count(k, s, p[2]) - 1
         /\ \A q \in PairsOf(k, s) : Sent(s, k, q) /\ q[2] = p[2] /\ Slot(s, k, q) = Slot(s, k, p) => q = p
<1>1. PICK j \in Calls : j = Home(k)
  BY SentFacts
<1>2. /\ setup \in Setups /\ k \in Nat /\ j \in Nat /\ j <= k /\ kernels[s] \in Nat
      /\ Prog[j].kind = "dispatch" /\ PairsOf(j, s) = PairsOf(k, s) /\ Count(j, s, p[2]) = Count(k, s, p[2])
  BY <1>1, PlaceFacts, SentFacts, HomeIsDispatch, SameRouting
<1>3. PICK slot : slot = handle[s][j].slot
  OBVIOUS
<1>4. DOMAIN slot = SlotDomain(s, j) /\ SlotsApart(j, s, slot)
  BY <1>2, <1>3 DEF SInv, SlotsInv
<1>5. ASSUME NEW q \in PairsOf(k, s), Sent(s, k, q)
      PROVE  q \in DOMAIN slot /\ Slot(s, k, q) = slot[q]
  <2>1. Slot(s, k, q) = slot[q]
    BY <1>1, <1>3 DEF Slot
  <2>2. CASE kernels[s] >= 2 * j - 1
    BY <1>2, <1>4, <2>1, <2>2 DEF SlotDomain
  <2>3. CASE ~(kernels[s] >= 2 * j - 1)
    <3>1. kernels[s] = 2 * j - 2 /\ stage[s] \in {"work", "leave"} /\ q \in done[s]
      BY <1>2, <1>5, <2>3 DEF Sent
    <3> QED BY <1>2, <1>4, <1>5, <2>1, <3>1 DEF SlotDomain
  <2> QED BY <2>2, <2>3
<1>6. p \in DOMAIN slot /\ Slot(s, k, p) = slot[p]
  BY <1>5
<1>7. Slot(s, k, p) \in 0 .. Count(k, s, p[2]) - 1
  BY <1>2, <1>4, <1>6 DEF SlotsApart
<1>8. ASSUME NEW q \in PairsOf(k, s), Sent(s, k, q), q[2] = p[2], Slot(s, k, q) = Slot(s, k, p)
      PROVE  q = p
  BY <1>4, <1>5, <1>6, <1>8 DEF SlotsApart
<1> QED BY <1>7, <1>8

LEMMA StoreFacts ==
  ASSUME IInv, NEW m \in stores
  PROVE  /\ m.from \in Ranks /\ m.to \in Ranks /\ m.token.call \in Calls
         /\ CallOf(m.from) = m.token.call /\ CallOf(m.to) = m.token.call
         /\ stage[m.from] = "work" /\ OnMain(m.from)
<1>1. /\ m.from \in Ranks /\ m.to \in Ranks /\ stage[m.from] = "work" /\ OnMain(m.from)
      /\ CallOf(m.from) = m.token.call
  BY DEF IInv, Issued
<1>2. Running(m.from)
  <2>1. kernels[m.from] < Enqueued(m.from) /\ call[m.from] <= Len(Prog) /\ kernels[m.from] \in Nat /\ call[m.from] \in Nat
    BY <1>1 DEF IInv, Ahead, CountTypes
  <2>2. Prog \in Seq(Call)
    BY SetupsAssumption DEF IInv, CountTypes, Prog
  <2>3. Len(Prog) \in Nat
    BY <2>2
  <2> QED BY <2>1, <2>3 DEF Running, Enqueued
<1>3. m.token.call \in Calls
  BY <1>1, <1>2, RunningCall DEF IInv
<1>4. CallOf(m.to) = m.token.call
  BY OwnedFromInv DEF PutsOwned
<1> QED BY <1>1, <1>3, <1>4

\* Who has sent in a call has left its first barrier.
LEMMA SentBehindBarrier ==
  ASSUME IInv, NEW s \in Ranks, NEW k \in Nat, NEW p, Sent(s, k, p), NEW d \in Ranks
  PROVE  left[s] >= 2 * k - 1 /\ entered[d] >= 2 * k - 1
<1>1. /\ kernels[s] \in Nat /\ left[s] \in Nat /\ entered[d] \in Nat /\ left[s] = LeftBy(s) /\ left[s] <= entered[d]
      /\ CallOf(s) \in Nat /\ OnMain(s) => kernels[s] = 2 * CallOf(s) - 2
  BY PlaceFacts DEF IInv, InStep, CountTypes
<1>2. left[s] >= 2 * k - 1
  <2>1. CASE kernels[s] >= 2 * k - 1
    <3>1. left[s] >= kernels[s]
      BY <1>1 DEF LeftBy
    <3> QED BY <1>1, <2>1, <3>1
  <2>2. CASE ~(kernels[s] >= 2 * k - 1)
    <3>1. kernels[s] = 2 * k - 2 /\ stage[s] \in {"work", "leave"}
      BY <2>2 DEF Sent
    <3>2. left[s] = kernels[s] + 1
      BY <1>1, <3>1 DEF LeftBy
    <3> QED BY <1>1, <3>1, <3>2
  <2> QED BY <2>1, <2>2
<1> QED BY <1>1, <1>2

LEMMA TInit == Init => TInv
<1> SUFFICES ASSUME Init
             PROVE  TInv
  OBVIOUS
<1>1. DOMAIN buffer = Ranks /\ (\A d \in Ranks : DOMAIN buffer[d] = Places) /\ \A m \in stores : Posted(m)
  BY DEF Init
<1>2. \A k \in Calls : k \in Nat /\ k >= 1
  <2>1. Prog \in Seq(Call)
    BY SetupsAssumption DEF Init, Prog
  <2> QED BY <2>1 DEF Calls
<1>3. \A s \in Ranks : \A k \in Calls : \A p : ~Sent(s, k, p)
  BY <1>2 DEF Init, Sent
<1> QED BY <1>1, <1>3 DEF TInv, Delivered

LEMMA RanksHaveRegions == Ranks \subseteq Regions
<1>1. NumRanks \in Nat /\ NumTopk \in Nat
  BY SizesAssumption
<1>2. PICK m \in {NumRanks, NumTopk} : \A y \in {NumRanks, NumTopk} : m >= y
  <2>1. CASE NumRanks >= NumTopk
    BY <1>1, <2>1
  <2>2. CASE ~(NumRanks >= NumTopk)
    <3>1. NumTopk >= NumRanks
      BY <1>1, <2>2
    <3> QED BY <1>1, <3>1
  <2> QED BY <2>1, <2>2
<1>3. Max({NumRanks, NumTopk}) \in {NumRanks, NumTopk} /\ Max({NumRanks, NumTopk}) >= NumRanks
  BY <1>2 DEF Max
<1> QED BY <1>1, <1>3 DEF Ranks, Regions

LEMMA TokensFixed ==
  ASSUME setup' = setup
  PROVE  /\ \A k, s : PairsOf(k, s)' = PairsOf(k, s)
         /\ \A k, s, p : Slot(s, k, p)' = Slot(s, k, p) => Post(s, k, p)' = Post(s, k, p)
         /\ Prog' = Prog /\ Calls' = Calls /\ Places' = Places
<1>1. \A k, s : Rows(k, s)' = Rows(k, s) /\ Prog' = Prog /\ Calls' = Calls
  BY RoutingFixed
<1>2. \A k, s : PairsOf(k, s)' = PairsOf(k, s)
  BY <1>1 DEF PairsOf
<1>3. \A k, s, p : Slot(s, k, p)' = Slot(s, k, p) => Post(s, k, p)' = Post(s, k, p)
  BY <1>1 DEF Post, Token
<1> QED BY <1>1, <1>2, <1>3

\* The tokens on their way stay what they are.
LEMMA PostedStays ==
  ASSUME IInv, TInv, setup' = setup, \A s \in Ranks : SentStays(s), NEW m \in stores
  PROVE  Posted(m)'
<1>1. m.from \in Ranks /\ m.token.call \in Calls /\ Posted(m)
  BY StoreFacts DEF TInv
<1>2. /\ Prog' = Prog /\ \A k, s : PairsOf(k, s)' = PairsOf(k, s)
      /\ \A k, s, p : Slot(s, k, p)' = Slot(s, k, p) => Post(s, k, p)' = Post(s, k, p)
  BY TokensFixed
<1>3. PICK s \in Ranks, k \in Calls : s = m.from /\ k = m.token.call
  BY <1>1
<1>4. ASSUME Prog[k].kind \in AnyDispatch
      PROVE  \E p \in PairsOf(k, s)' : Sent(s, k, p)' /\ m = Post(s, k, p)'
  <2>1. PICK p \in PairsOf(k, s) : Sent(s, k, p) /\ m = Post(s, k, p)
    BY <1>1, <1>3, <1>4 DEF Posted
  <2>2. Sent(s, k, p)' /\ Slot(s, k, p)' = Slot(s, k, p)
    BY <1>4, <2>1 DEF SentStays
  <2>3. Post(s, k, p)' = Post(s, k, p)
    BY <1>2, <2>2
  <2> QED BY <1>2, <2>1, <2>2, <2>3
<1> QED BY <1>2, <1>3, <1>4 DEF Posted

\* A step that sends and delivers nothing; who goes on to another call finds nothing sent in it.
LEMMA TokensFrame ==
  ASSUME IInv, TInv, History, UNCHANGED <<setup, buffer, stores>>,
         \A s \in Ranks : \A k \in Calls : \A p \in PairsOf(k, s) :
           CallOf(p[2])' = k /\ Sent(s, k, p) => CallOf(p[2]) = k
  PROVE  TInv'
<1>1. /\ Prog' = Prog /\ Calls' = Calls /\ Places' = Places /\ \A k, s : PairsOf(k, s)' = PairsOf(k, s)
      /\ \A k, s, p : Slot(s, k, p)' = Slot(s, k, p) => Post(s, k, p)' = Post(s, k, p)
  BY TokensFixed
<1>2. \A m \in stores' : Posted(m)'
  BY PostedStays DEF History
<1>3. ASSUME NEW s \in Ranks, NEW k \in Calls, Prog[k].kind \in AnyDispatch, NEW p \in PairsOf(k, s)
      PROVE  Delivered(s, k, p)'
  <2> SUFFICES ASSUME CallOf(p[2])' = k, Sent(s, k, p)'
               PROVE  \/ Post(s, k, p)' \in stores'
                      \/ buffer'[p[2]][<<s, Slot(s, k, p)'>>] = Post(s, k, p)'.token
    BY DEF Delivered
  <2>1. Sent(s, k, p) /\ Slot(s, k, p)' = Slot(s, k, p) /\ Post(s, k, p)' = Post(s, k, p)
    BY <1>1, <1>3 DEF History, SentStays, NoneSent
  <2>2. CallOf(p[2]) = k
    BY <2>1
  <2> QED BY <1>3, <2>1, <2>2 DEF TInv, Delivered
<1> QED BY <1>1, <1>2, <1>3 DEF TInv

LEMMA TokensQuiet ==
  ASSUME IInv, TInv, History, UNCHANGED <<setup, kernels, buffer, stores>>
  PROVE  TInv'
<1>1. \A d : CallOf(d)' = CallOf(d)
  BY DEF CallOf
<1> QED BY <1>1, TokensFrame

LEMMA EndMainTokens ==
  ASSUME IInv, SInv, TInv, NEW r \in Ranks, EndMain(r)
  PROVE  TInv'
<1>1. /\ kernels' = [kernels EXCEPT ![r] = @ + 1] /\ UNCHANGED <<setup, buffer, stores>> /\ stage[r] = "leave"
  BY DEF EndMain
<1>2. PICK n \in Nat : kernels[r] = 2 * n
  <2>1. kernels[r] = 2 * CallOf(r) - 2 /\ CallOf(r) \in Nat /\ kernels[r] \in Nat
    BY <1>1, PlaceFacts
  <2>2. CallOf(r) - 1 \in Nat /\ kernels[r] = 2 * (CallOf(r) - 1)
    BY <2>1
  <2> QED BY <2>2
<1>3. \A q \in Ranks : CallOf(q)' = CallOf(q)
  <2>1. kernels'[r] = 2 * n + 1 /\ \A q \in Ranks \ {r} : kernels'[q] = kernels[q]
    BY <1>1, <1>2 DEF IInv, CountTypes
  <2>2. (2 * n + 1) \div 2 = (2 * n) \div 2
    OBVIOUS
  <2> QED BY <1>2, <2>1, <2>2 DEF CallOf
<1>4. \A s \in Ranks : \A k \in Calls : \A p \in PairsOf(k, s) : p[2] \in Ranks
  BY PairsFacts DEF IInv, CountTypes
<1> QED BY <1>1, <1>3, <1>4, EndMainHistory, TokensFrame

LEMMA EndEpilogueTokens ==
  ASSUME IInv, SInv, TInv, NEW r \in Ranks, EndEpilogue(r)
  PROVE  TInv'
<1>1. /\ kernels' = [kernels EXCEPT ![r] = @ + 1] /\ UNCHANGED <<setup, buffer, stores>> /\ ~OnMain(r)
  BY DEF EndEpilogue, tokenVars
<1>2. PICK c \in Nat : kernels[r] = 2 * c - 1 /\ c = CallOf(r)
  BY <1>1, PlaceFacts
<1>3. /\ CallOf(r)' = c + 1 /\ \A q \in Ranks \ {r} : CallOf(q)' = CallOf(q)
  <2>1. kernels'[r] = 2 * c /\ \A q \in Ranks \ {r} : kernels'[q] = kernels[q]
    BY <1>1, <1>2 DEF IInv, CountTypes
  <2>2. (2 * c) \div 2 = c
    OBVIOUS
  <2> QED BY <2>1, <2>2 DEF CallOf
<1>4. entered[r] = 2 * c
  BY <1>1, <1>2 DEF IInv, InStep, EnteredBy
<1>5. ASSUME NEW s \in Ranks, NEW k \in Calls, NEW p \in PairsOf(k, s), CallOf(p[2])' = k, Sent(s, k, p)
      PROVE  CallOf(p[2]) = k
  <2>1. p[2] \in Ranks /\ k \in Nat
    BY PairsFacts, PlaceFacts
  <2>2. entered[r] >= 2 * k - 1
    BY <1>5, <2>1, SentBehindBarrier
  <2>3. k # c + 1
    BY <1>4, <2>1, <2>2
  <2> QED BY <1>3, <1>5, <2>1, <2>3
<1> QED BY <1>1, <1>5, EndEpilogueHistory, TokensFrame

\* What a dispatch warp's step does: one more pair is sent, the others keep their slots.
LEMMA SendTokenHistory ==
  ASSUME IInv, SInv, NEW r \in Ranks, Running(r), NEW t, NEW d, SendToken(r, t, d),
         NEW k \in Calls, k = CallOf(r), NEW p, p = <<t, d>>
  PROVE  /\ Prog[k].kind \in AnyDispatch /\ p \in PairsOf(k, r)
         /\ \A s \in Ranks : SentStays(s)
         /\ Sent(r, k, p)' /\ stores' = stores \cup {Post(r, k, p)'}
         /\ \A s \in Ranks : \A i \in Calls : Prog[i].kind \in AnyDispatch => \A q \in PairsOf(i, s) :
              Sent(s, i, q)' => Sent(s, i, q) \/ (s = r /\ i = k /\ q = p)
<1>1. k = CallOf(r)
  OBVIOUS
<1>2. /\ UNCHANGED <<setup, kernels, stage>> /\ MainRuns(r, AnyDispatch)
      /\ p \in Items(r) \ done[r] /\ done' = [done EXCEPT ![r] = @ \cup {p}]
  BY DEF SendToken
<1>3. stage[r] = "work" /\ OnMain(r) /\ Prog[k].kind \in AnyDispatch
  BY <1>1, <1>2 DEF MainRuns, Kind
<1>4. /\ k \in Nat /\ kernels[r] = 2 * k - 2 /\ setup \in Setups
      /\ \A q \in Ranks \ {r} : done'[q] = done[q]
      /\ done'[r] = done[r] \cup {p}
  BY <1>1, <1>2, <1>3, PlaceFacts
<1>5. p \in PairsOf(k, r)
  BY <1>1, <1>2, <1>3, ItemsArePairs DEF Kind
<1>6. PICK j \in Calls : j = Home(k) /\ j \in Nat /\ j <= k /\ (Prog[k].kind = "dispatch" => j = k)
                         /\ (Prog[k].kind = "cached" => j < k)
  <2>1. Home(k) \in Calls /\ (Prog[k].kind = "dispatch" => Home(k) = k) /\ (Prog[k].kind # "dispatch" => Home(k) < k)
    BY <1>4, HomeIsDispatch
  <2>2. Home(k) \in Nat
    BY <2>1, PlaceFacts
  <2> QED BY <1>4, <2>1, <2>2
<1>7. Sent(r, k, p)'
  BY <1>2, <1>3, <1>4 DEF Sent
<1>8. /\ \A q \in Ranks : \A i \in Calls : q # r \/ i # k => handle'[q][i].slot = handle[q][i].slot
      /\ \A q : p # q /\ q \in DOMAIN handle[r][k].slot => handle'[r][k].slot[q] = handle[r][k].slot[q]
      /\ handle'[r][j].slot[p] = (IF ReusesSlots(k) THEN handle[r][j].slot[p] ELSE sender[r][d])
  <2>1. CASE ReusesSlots(k)
    <3>1. handle' = handle
      BY <1>1, <2>1 DEF SendToken
    <3> QED BY <2>1, <3>1
  <2>2. CASE ~ReusesSlots(k)
    <3>1. j = k
      BY <1>3, <1>6, <2>2 DEF ReusesSlots, AnyDispatch
    <3>2. PICK n : n = sender[r][d]
      OBVIOUS
    <3>3. handle' = [handle EXCEPT ![r][k].slot = Extend(@, p, n)]
      BY <1>1, <2>2, <3>2 DEF SendToken
    <3>4. /\ handle'[r][k].slot = Extend(handle[r][k].slot, p, n)
          /\ \A q \in Ranks : \A i \in Calls : q # r \/ i # k => handle'[q][i].slot = handle[q][i].slot
      BY <3>3, PlaceFacts DEF HandleFields
    <3>5. Extend(handle[r][k].slot, p, n)[p] = n
      BY DEF Extend
    <3> QED BY <2>2, <3>1, <3>2, <3>4, <3>5 DEF Extend
  <2> QED BY <2>1, <2>2
<1>9. stores' = stores \cup {Post(r, k, p)'}
  <2>1. stores' = stores \cup {[from |-> r, to |-> d,
                                at |-> <<r, IF ReusesSlots(k) THEN handle[r][j].slot[p] ELSE sender[r][d]>>,
                                token |-> Token(k, r, t, Rows(k, r)[t])]}
    BY <1>1, <1>6 DEF SendToken
  <2>2. Slot(r, k, p)' = handle'[r][j].slot[p] /\ Rows(k, r)' = Rows(k, r)
    BY <1>2, <1>6, RoutingFixed DEF Slot, Home, Source, Prog
  <2>3. p[1] = t /\ p[2] = d
    OBVIOUS
  <2>4. Post(r, k, p)' = [from |-> r, to |-> d,
                                at |-> <<r, IF ReusesSlots(k) THEN handle[r][j].slot[p] ELSE sender[r][d]>>,
                                token |-> Token(k, r, t, Rows(k, r)[t])]
    BY <1>8, <2>2, <2>3 DEF Post, Token
  <2> QED BY <2>1, <2>4
<1>10. \A s \in Ranks \ {r} : SentStays(s) /\ NoneSent(s)
  BY <1>2, <1>4, <1>8, QuietHistory
<1>11. ASSUME NEW i \in Calls, Prog[i].kind \in AnyDispatch, NEW q \in PairsOf(i, r)
       PROVE  /\ Sent(r, i, q) => Sent(r, i, q)' /\ Slot(r, i, q)' = Slot(r, i, q)
              /\ Sent(r, i, q)' => Sent(r, i, q) \/ (i = k /\ q = p)
  <2>1. /\ i \in Nat /\ Home(i) \in Calls /\ Home(i) \in Nat /\ Home(i) <= i
        /\ setup \in Setups /\ (Prog[i].kind = "dispatch" => Home(i) = i)
    <3>1. i \in Nat /\ Home(i) \in Calls /\ Home(i) \in Nat /\ Home(i) <= i
      BY <1>11, SentFacts
    <3> QED BY <1>4, <3>1, HomeIsDispatch
  <2>2. i # k => kernels[r] # 2 * i - 2
    BY <1>4, <2>1
  <2>3. Sent(r, i, q)' => Sent(r, i, q) \/ (i = k /\ q = p)
    BY <1>2, <1>4, <2>2 DEF Sent
  <2>4. Sent(r, i, q) => Sent(r, i, q)'
    BY <1>2, <1>4 DEF Sent
  <2>5. Home(i)' = Home(i)
    BY <1>2 DEF Home, Source, Prog
  <2>6. ASSUME Sent(r, i, q)
        PROVE  handle'[r][Home(i)].slot[q] = handle[r][Home(i)].slot[q]
    <3>1. CASE Home(i) # k
      BY <1>8, <2>1, <3>1
    <3>2. CASE Home(i) = k
      <4>1. i = k
        BY <1>4, <2>1, <2>6, <3>2 DEF Sent
      <4>2. q \in done[r]
        BY <1>4, <2>6, <4>1 DEF Sent
      <4>3. q # p
        BY <1>2, <4>2
      <4>4. q \in DOMAIN handle[r][k].slot
        <5>1. Prog[k].kind = "dispatch"
          BY <2>1, <3>2, HomeIsDispatch
        <5>2. DOMAIN handle[r][k].slot = SlotDomain(r, k)
          BY <5>1 DEF SInv, SlotsInv
        <5> QED BY <1>3, <1>4, <1>11, <4>1, <4>2, <5>2 DEF SlotDomain
      <4> QED BY <1>8, <3>2, <4>3, <4>4
    <3> QED BY <3>1, <3>2
  <2> QED BY <2>3, <2>4, <2>5, <2>6 DEF Slot
<1>12. SentStays(r)
  BY <1>11 DEF SentStays
<1>13. ASSUME NEW s \in Ranks, NEW i \in Calls, Prog[i].kind \in AnyDispatch, NEW q \in PairsOf(i, s), Sent(s, i, q)'
       PROVE  Sent(s, i, q) \/ (s = r /\ i = k /\ q = p)
  <2>1. CASE s = r
    BY <1>11, <1>13, <2>1
  <2>2. CASE s # r
    BY <1>10, <1>13, <2>2 DEF NoneSent
  <2> QED BY <2>1, <2>2
<1> QED BY <1>1, <1>3, <1>5, <1>7, <1>9, <1>10, <1>12, <1>13

LEMMA SendTokenTokens ==
  ASSUME IInv, SInv, TInv, NEW r \in Ranks, Running(r), NEW t, NEW d, SendToken(r, t, d)
  PROVE  TInv'
<1>0. PICK p : p = <<t, d>>
  OBVIOUS
<1>1. PICK k \in Calls : k = CallOf(r)
  BY RunningCall DEF IInv
<1>2. /\ Prog[k].kind \in AnyDispatch /\ p \in PairsOf(k, r)
      /\ \A s \in Ranks : SentStays(s)
      /\ Sent(r, k, p)' /\ stores' = stores \cup {Post(r, k, p)'}
      /\ \A s \in Ranks : \A i \in Calls : Prog[i].kind \in AnyDispatch => \A q \in PairsOf(i, s) :
           Sent(s, i, q)' => Sent(s, i, q) \/ (s = r /\ i = k /\ q = p)
  BY <1>0, <1>1, SendTokenHistory
<1>3. UNCHANGED <<setup, kernels, buffer>>
  BY DEF SendToken
<1>4. /\ Prog' = Prog /\ Calls' = Calls /\ Places' = Places /\ \A i, s : PairsOf(i, s)' = PairsOf(i, s)
      /\ \A s, i, q : Slot(s, i, q)' = Slot(s, i, q) => Post(s, i, q)' = Post(s, i, q)
  BY <1>3, TokensFixed
<1>5. \A m \in stores : Posted(m)'
  BY <1>2, <1>3, PostedStays
<1>6. PICK m : m = Post(r, k, p)'
  OBVIOUS
<1>7. Posted(m)'
  <2>1. m.from = r /\ m.token.call = k
    BY <1>6 DEF Post, Token
  <2> QED BY <1>2, <1>4, <1>6, <2>1 DEF Posted
<1>8. ASSUME NEW s \in Ranks, NEW i \in Calls, Prog[i].kind \in AnyDispatch, NEW q \in PairsOf(i, s)
      PROVE  Delivered(s, i, q)'
  <2> SUFFICES ASSUME CallOf(q[2])' = i, Sent(s, i, q)'
               PROVE  \/ Post(s, i, q)' \in stores'
                      \/ buffer'[q[2]][<<s, Slot(s, i, q)'>>] = Post(s, i, q)'.token
    BY DEF Delivered
  <2>1. CASE s = r /\ i = k /\ q = p
    BY <1>2, <2>1
  <2>2. CASE ~(s = r /\ i = k /\ q = p)
    <3>1. Sent(s, i, q)
      BY <1>2, <1>8, <2>2
    <3>2. Slot(s, i, q)' = Slot(s, i, q) /\ Post(s, i, q)' = Post(s, i, q)
      BY <1>2, <1>4, <1>8, <3>1 DEF SentStays
    <3>3. CallOf(q[2]) = i
      BY <1>3 DEF CallOf
    <3> QED BY <1>2, <1>3, <1>8, <3>1, <3>2, <3>3 DEF TInv, Delivered
  <2> QED BY <2>1, <2>2
<1> QED BY <1>2, <1>3, <1>4, <1>5, <1>6, <1>7, <1>8 DEF TInv

LEMMA SendBackTokens ==
  ASSUME IInv, SInv, TInv, NEW r \in Ranks, Running(r), NEW x, SendBack(r, x)
  PROVE  TInv'
<1>1. PICK k \in Calls : k = CallOf(r)
  BY RunningCall DEF IInv
<1>2. UNCHANGED <<setup, kernels, buffer>> /\ Prog[k].kind = "combine"
  BY <1>1 DEF SendBack, MainRuns, Kind
<1>3. History
  BY SendBackHistory
<1>4. PICK new : stores' = stores \cup new /\ \A m \in new : m.token.call = k
  <2> DEFINE md == handle[r][Home(k)].meta[x]
             Put(region, sum) == [from |-> r, to |-> md.rank, at |-> <<region, md.tok - 1>>,
                                  token |-> Partial(k, sum)]
             new == IF Expanded(k) /\ ~setup.multiple
                    THEN {Put(l - 1, SumOfLane(r, k, x, l)) : l \in ExpandedLanes(r, k, x)}
                    ELSE {Put(IF UseRankLayout THEN r ELSE md.lane - 1, LocalSum(r, k, x))}
  <2>1. stores' = stores \cup new
    BY <1>1 DEF SendBack
  <2>2. \A region, sum : Put(region, sum).token.call = k
    BY DEF Partial
  <2> HIDE DEF Put
  <2>3. \A m \in new : m.token.call = k
    BY <2>2
  <2> HIDE DEF new
  <2> QED BY <2>1, <2>3
<1>5. /\ Prog' = Prog /\ Calls' = Calls /\ Places' = Places /\ \A i, s : PairsOf(i, s)' = PairsOf(i, s)
      /\ \A s, i, q : Slot(s, i, q)' = Slot(s, i, q) => Post(s, i, q)' = Post(s, i, q)
  BY <1>2, TokensFixed
<1>6. \A m \in stores' : Posted(m)'
  <2>1. \A m \in stores : Posted(m)'
    BY <1>2, <1>3, PostedStays DEF History
  <2>2. \A m \in new : Posted(m)'
    BY <1>2, <1>4, <1>5 DEF Posted, AnyDispatch
  <2> QED BY <1>4, <2>1, <2>2
<1>7. ASSUME NEW s \in Ranks, NEW i \in Calls, Prog[i].kind \in AnyDispatch, NEW q \in PairsOf(i, s)
      PROVE  Delivered(s, i, q)'
  <2> SUFFICES ASSUME CallOf(q[2])' = i, Sent(s, i, q)'
               PROVE  \/ Post(s, i, q)' \in stores'
                      \/ buffer'[q[2]][<<s, Slot(s, i, q)'>>] = Post(s, i, q)'.token
    BY DEF Delivered
  <2>1. Sent(s, i, q) /\ Slot(s, i, q)' = Slot(s, i, q) /\ Post(s, i, q)' = Post(s, i, q)
    BY <1>3, <1>5, <1>7 DEF History, SentStays, NoneSent
  <2>2. CallOf(q[2]) = i
    BY <1>2 DEF CallOf
  <2> QED BY <1>2, <1>4, <1>7, <2>1, <2>2 DEF TInv, Delivered
<1> QED BY <1>2, <1>5, <1>6, <1>7 DEF TInv

\* A store that lands overwrites nothing that is still to be read.
LEMMA LandStoreTokens ==
  ASSUME IInv, SInv, TInv, NEW m \in stores, LandStore(m)
  PROVE  TInv'
<1>1. /\ UNCHANGED <<setup, kernels, stage, done, handle>>
      /\ buffer' = [buffer EXCEPT ![m.to][m.at] = m.token] /\ stores' = stores \ {m}
  BY DEF LandStore
<1>2. History
  BY <1>1, QuietStepHistory DEF SlotsKept
<1>3. /\ Prog' = Prog /\ Calls' = Calls /\ Places' = Places /\ \A i, s : PairsOf(i, s)' = PairsOf(i, s)
      /\ \A s, i, q : Slot(s, i, q)' = Slot(s, i, q) => Post(s, i, q)' = Post(s, i, q)
  BY <1>1, TokensFixed
<1>4. \A x \in stores' : Posted(x)'
  BY <1>1, <1>2, PostedStays DEF History
<1>5. PICK k \in Calls : m.to \in Ranks /\ m.from \in Ranks /\ k = m.token.call /\ CallOf(m.to) = k
  BY StoreFacts
<1>6. /\ DOMAIN buffer = Ranks /\ (\A x \in Ranks : DOMAIN buffer[x] = Places) /\ Posted(m)
      /\ DOMAIN buffer' = Ranks /\ (\A x \in Ranks : DOMAIN buffer'[x] = Places)
  BY <1>1 DEF TInv
<1>7. \A x \in Ranks : \A y : <<x, y>> # <<m.to, m.at>> => buffer'[x][y] = buffer[x][y]
  BY <1>1, <1>5, <1>6
<1>8. ASSUME NEW s \in Ranks, NEW i \in Calls, Prog[i].kind \in AnyDispatch, NEW q \in PairsOf(i, s)
      PROVE  Delivered(s, i, q)'
  <2> SUFFICES ASSUME CallOf(q[2])' = i, Sent(s, i, q)'
               PROVE  \/ Post(s, i, q)' \in stores'
                      \/ buffer'[q[2]][<<s, Slot(s, i, q)'>>] = Post(s, i, q)'.token
    BY DEF Delivered
  <2>1. Sent(s, i, q) /\ Slot(s, i, q)' = Slot(s, i, q) /\ Post(s, i, q)' = Post(s, i, q)
    BY <1>2, <1>3, <1>8 DEF History, SentStays, NoneSent
  <2>2. CallOf(q[2]) = i
    BY <1>1 DEF CallOf
  <2>3. PICK post, at : post = Post(s, i, q) /\ at = <<s, Slot(s, i, q)>>
    OBVIOUS
  <2>4. /\ post \in stores \/ buffer[q[2]][at] = post.token
        /\ post.to = q[2] /\ post.at = at /\ post.from = s /\ post.token.call = i
    <3>1. post \in stores \/ buffer[q[2]][at] = post.token
      BY <1>8, <2>1, <2>2, <2>3 DEF TInv, Delivered
    <3>2. post.to = q[2] /\ post.at = at /\ post.from = s /\ post.token.call = i
      BY <2>3 DEF Post, Token
    <3> QED BY <3>1, <3>2
  <2>5. q[2] \in Ranks /\ setup \in Setups
    BY PairsFacts, PlaceFacts
  <2>6. ASSUME q[2] = m.to, at = m.at
        PROVE  m = post
    <3>1. i = k
      BY <1>5, <2>2, <2>6
    <3>2. PICK p \in PairsOf(k, m.from) : Sent(m.from, k, p) /\ m = Post(m.from, k, p)
      BY <1>5, <1>6, <1>8, <3>1 DEF Posted
    <3>3. m.at = <<m.from, Slot(m.from, k, p)>> /\ m.to = p[2]
      BY <3>2 DEF Post
    <3>4. m.from = s /\ Slot(s, k, p) = Slot(s, i, q) /\ p[2] = q[2]
      BY <2>3, <2>6, <3>3
    <3>5. p = q
      BY <1>8, <2>1, <3>1, <3>2, <3>4, SentSlot
    <3> QED BY <2>3, <3>1, <3>2, <3>4, <3>5
  <2>7. CASE post = m
    <3>1. at \in Places
      <4>1. Slot(s, i, q) \in 0 .. Count(i, s, q[2]) - 1
        BY <1>8, <2>1, SentSlot
      <4>2. Count(i, s, q[2]) \in Nat /\ Count(i, s, q[2]) <= NumMaxTokensPerRank /\ NumMaxTokensPerRank \in Nat
        BY <2>5, CountFacts, SizesAssumption
      <4>3. Slot(s, i, q) \in 0 .. NumMaxTokensPerRank - 1
        BY <4>1, <4>2
      <4> QED BY <2>3, <4>3, RanksHaveRegions DEF Places
    <3>2. buffer'[m.to][at] = m.token
      BY <1>1, <1>5, <1>6, <2>4, <2>7, <3>1
    <3> QED BY <2>1, <2>3, <2>4, <2>7, <3>2
  <2>8. CASE post # m
    <3>1. post \in stores => post \in stores'
      BY <1>1, <2>8
    <3>2. buffer[q[2]][at] = post.token => buffer'[q[2]][at] = post.token
      BY <1>7, <2>5, <2>6, <2>8
    <3> QED BY <2>1, <2>3, <2>4, <3>1, <3>2
  <2> QED BY <2>7, <2>8
<1> QED BY <1>3, <1>4, <1>6, <1>8 DEF TInv

LEMMA TStep == IInv /\ SInv /\ TInv /\ [Next]_vars => TInv'
<1> SUFFICES ASSUME IInv, SInv, TInv, [Next]_vars
             PROVE  TInv'
  OBVIOUS
<1>1. ASSUME NEW r \in Ranks, Host(r)
      PROVE  TInv'
  <2>1. UNCHANGED <<setup, kernels, buffer, stores>>
    BY <1>1 DEF Host, HostCall, HostPoll, tokenVars
  <2> QED BY <1>1, <2>1, HostHistory, TokensQuiet
<1>2. ASSUME NEW r \in Ranks, Running(r), Notify(r)
      PROVE  TInv'
  <2>1. UNCHANGED <<setup, kernels, buffer, stores>>
    BY <1>2 DEF Notify, NotifyCount, NotifySend, NotifyTake, NotifyFinish, tokenVars
  <2> QED BY <1>2, <2>1, NotifyHistory, TokensQuiet
<1>3. ASSUME NEW r \in Ranks, Running(r), Main(r)
      PROVE  TInv'
  <2>1. ASSUME StartMain(r)
        PROVE  TInv'
    <3>1. UNCHANGED <<setup, kernels, buffer, stores>>
      BY <2>1 DEF StartMain
    <3> QED BY <1>3, <2>1, <3>1, StartMainHistory, TokensQuiet
  <2>2. ASSUME PassEntry(r)
        PROVE  TInv'
    <3>1. UNCHANGED <<setup, kernels, buffer, stores>>
      BY <2>2 DEF PassEntry, tokenVars
    <3> QED BY <2>2, <3>1, PassEntryHistory, TokensQuiet
  <2>3. ASSUME Arrive(r)
        PROVE  TInv'
    <3>1. UNCHANGED <<setup, kernels, buffer, stores>>
      BY <2>3 DEF Arrive, tokenVars
    <3> QED BY <2>3, <3>1, ArriveHistory, TokensQuiet
  <2> QED BY <1>3, <2>1, <2>2, <2>3, SendTokenTokens, SendBackTokens, EndMainTokens DEF Main
<1>4. ASSUME NEW r \in Ranks, Running(r), Epilogue(r)
      PROVE  TInv'
  <2>1. ASSUME StartEpilogue(r)
        PROVE  TInv'
    <3>1. UNCHANGED <<setup, kernels, buffer, stores>>
      BY <2>1 DEF StartEpilogue
    <3> QED BY <2>1, <3>1, StartEpilogueHistory, TokensQuiet
  <2>2. ASSUME NEW i, CopyToken(r, i) \/ ReduceToken(r, i)
        PROVE  TInv'
    <3>1. UNCHANGED <<setup, kernels, buffer, stores>>
      BY <2>2 DEF CopyToken, ReduceToken
    <3> QED BY <1>4, <2>2, <3>1, EpilogueHistory, TokensQuiet
  <2> QED BY <1>4, <2>1, <2>2, EndEpilogueTokens DEF Epilogue
<1>5. ASSUME NEW m \in stores, LandStore(m)
      PROVE  TInv'
  BY <1>5, LandStoreTokens
<1>6. ASSUME UNCHANGED <<setup, kernels, stage, done, handle, buffer, stores>>
      PROVE  TInv'
  BY <1>6, QuietStepHistory, TokensQuiet DEF SlotsKept
<1>7. ASSUME NEW m \in counts, LandCounts(m)
      PROVE  TInv'
  BY <1>6, <1>7 DEF LandCounts, tokenVars
<1>8. CASE UNCHANGED vars
  BY <1>6, <1>8 DEF vars
<1> QED BY <1>1, <1>2, <1>3, <1>4, <1>5, <1>7, <1>8 DEF Next

\* A token that has been sent in a call is on its way or in its own place of the
\* receiver's buffer, for as long as the receiver is in that call.
THEOREM TokensInPlace == Spec => []TInv
<1>1. IInv /\ (WordsInv /\ SInv) /\ TInv /\ [Next]_vars => TInv'
  BY TStep
<1> QED BY Invariance, CountsInOnePlace, TInit, <1>1, PTL DEF Spec

=============================================================================
