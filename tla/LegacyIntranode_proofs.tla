----------------------- MODULE LegacyIntranode_proofs -----------------------
(***************************************************************************)
(* Proofs about LegacyIntranode, for any number of ranks, any programs and *)
(* any routing.  The words that count up and down are a barrier; it keeps  *)
(* the ranks so close together that the words of a call are no other's     *)
(* (Together), and with it the invariant of the data is inductive          *)
(* (FullInv): dispatches deliver every token in its row, and combines add  *)
(* up what has been returned.                                              *)
(***************************************************************************)
EXTENDS LegacyIntranode_inv, FiniteSetTheorems, WellFoundedInduction, TLAPS

-----------------------------------------------------------------------------
(* Induction.                                                              *)

\* A set of natural numbers has a least one.
LEMMA LeastNumber ==
  ASSUME NEW T, T \subseteq Nat, T # {}
  PROVE  \E x \in T : \A y \in T : x <= y
<1>1. PICK x \in T : \A y \in T : ~(<<y, x>> \in OpToRel(<, Nat))
  BY NatLessThanWellFounded, WFMin
<1>2. \A y \in T : ~(y < x)
  BY <1>1 DEF OpToRel
<1> QED BY <1>2

\* What holds for 0 and passes from each number to the next holds for all.
LEMMA Induction ==
  ASSUME NEW T, 0 \in T, \A n \in Nat : n \in T => n + 1 \in T
  PROVE  \A n \in Nat : n \in T
<1> SUFFICES ASSUME NEW n \in Nat, n \notin T
             PROVE  FALSE
  OBVIOUS
<1>1. PICK x \in Nat \ T : \A y \in Nat \ T : x <= y
  BY LeastNumber
<1> QED BY <1>1

-----------------------------------------------------------------------------
(* Sums.                                                                   *)

\* How the library defines a sum: by a function on all subsets that takes one element off.
Pick(s) == CHOOSE x \in s : TRUE
IsIter(g, f, S) ==
  g = [s \in SUBSET S |-> IF s = {} THEN 0 ELSE f[Pick(s)] + g[s \ {Pick(s)}]]

LEMMA SumIter ==
  ASSUME NEW f, NEW S
  PROVE  Sum(f, S) = (CHOOSE g : IsIter(g, f, S))[S]
BY DEF Sum, MapThenSumSet, MapThenFoldSet, IsIter, Pick

\* The same function, on the subsets of at most n elements.
Small(S, n) == {s \in SUBSET S : Cardinality(s) <= n}
IsPart(g, f, S, n) ==
  g = [s \in Small(S, n) |-> IF s = {} THEN 0 ELSE f[Pick(s)] + g[s \ {Pick(s)}]]

LEMMA PickIn == ASSUME NEW s, s # {} PROVE Pick(s) \in s
BY DEF Pick

LEMMA LessOne ==
  ASSUME NEW s, IsFiniteSet(s), s # {}
  PROVE  /\ IsFiniteSet(s \ {Pick(s)}) /\ Cardinality(s \ {Pick(s)}) = Cardinality(s) - 1
         /\ Cardinality(s) \in Nat /\ Cardinality(s) > 0
BY PickIn, FS_RemoveElement, FS_CardinalityType, FS_EmptySet

\* The recursion of the sum has a solution over the subsets of a finite set.
LEMMA IterExists ==
  ASSUME NEW f, NEW S, IsFiniteSet(S)
  PROVE  \E g : IsIter(g, f, S)
<1> DEFINE T == {n \in Nat : \E g : IsPart(g, f, S, n)}
<1>0. \A s \in SUBSET S : IsFiniteSet(s) /\ Cardinality(s) \in Nat /\ Cardinality(s) <= Cardinality(S)
  BY FS_Subset, FS_CardinalityType
<1>1. 0 \in T
  <2>1. \A s \in Small(S, 0) : s = {}
    BY <1>0, FS_EmptySet DEF Small
  <2> QED BY <2>1 DEF IsPart
<1>2. ASSUME NEW n \in Nat, n \in T
      PROVE  n + 1 \in T
  <2>1. PICK g : IsPart(g, f, S, n)
    BY <1>2
  <2> DEFINE h == [s \in Small(S, n + 1) |-> IF s = {} THEN 0 ELSE f[Pick(s)] + g[s \ {Pick(s)}]]
  <2>2. ASSUME NEW s \in Small(S, n)
        PROVE  s \in Small(S, n + 1) /\ h[s] = g[s]
    <3>1. s \in Small(S, n + 1)
      BY <1>0 DEF Small
    <3> QED BY <3>1, <2>1 DEF IsPart
  <2>3. ASSUME NEW s \in Small(S, n + 1), s # {}
        PROVE  h[s \ {Pick(s)}] = g[s \ {Pick(s)}]
    <3>1. s \ {Pick(s)} \in Small(S, n)
      BY <1>0, <2>3, LessOne DEF Small
    <3> QED BY <2>2, <3>1
  <2>5. IsPart(h, f, S, n + 1)
    BY <2>3 DEF IsPart
  <2> QED BY <2>5
<1>3. Cardinality(S) \in T
  BY <1>0, <1>1, <1>2, Induction
<1> QED BY <1>3, <1>0 DEF IsPart, IsIter, Small

\* Solutions over a set and over one within it agree.
LEMMA IterAgree ==
  ASSUME NEW f, NEW S, IsFiniteSet(S), NEW R \in SUBSET S, NEW g, NEW h,
         IsIter(g, f, S), IsIter(h, f, R)
  PROVE  g[R] = h[R]
<1> DEFINE T == {n \in Nat : \A s \in SUBSET R : Cardinality(s) <= n => g[s] = h[s]}
<1>0. \A s \in SUBSET R : IsFiniteSet(s) /\ Cardinality(s) \in Nat
  BY FS_Subset, FS_CardinalityType
<1>a. \A s \in SUBSET R : /\ g[s] = IF s = {} THEN 0 ELSE f[Pick(s)] + g[s \ {Pick(s)}]
                          /\ h[s] = IF s = {} THEN 0 ELSE f[Pick(s)] + h[s \ {Pick(s)}]
  BY DEF IsIter
<1>1. 0 \in T
  <2>1. ASSUME NEW s \in SUBSET R, Cardinality(s) <= 0
        PROVE  g[s] = h[s]
    <3> QED BY <1>a, <1>0, <2>1, FS_EmptySet
  <2> QED BY <2>1
<1>2. ASSUME NEW n \in Nat, n \in T
      PROVE  n + 1 \in T
  <2>1. ASSUME NEW s \in SUBSET R, Cardinality(s) <= n + 1, s # {}
        PROVE  g[s] = h[s]
    <3>2. g[s \ {Pick(s)}] = h[s \ {Pick(s)}]
      BY <1>2, <1>0, <2>1, LessOne
    <3> QED BY <1>a, <2>1, <3>2
  <2> QED BY <2>1, <1>a
<1>3. Cardinality(R) \in T
  BY <1>0, <1>1, <1>2, Induction
<1> QED BY <1>3, <1>0

\* The library's sum satisfies its recursive equation.
LEMMA SumSolves ==
  ASSUME NEW f, NEW S, IsFiniteSet(S)
  PROVE  \E g : IsIter(g, f, S) /\ Sum(f, S) = g[S]
BY IterExists, SumIter

LEMMA SumEmpty == \A f : Sum(f, {}) = 0
<1> TAKE f
<1>1. PICK g : IsIter(g, f, {}) /\ Sum(f, {}) = g[{}]
  BY SumSolves, FS_EmptySet
<1> QED BY <1>1 DEF IsIter

\* One element of the set taken off.
LEMMA SumPick ==
  ASSUME NEW f, NEW S, IsFiniteSet(S), S # {}
  PROVE  Sum(f, S) = f[Pick(S)] + Sum(f, S \ {Pick(S)})
<1> DEFINE R == S \ {Pick(S)}
<1>2. PICK g : IsIter(g, f, S) /\ Sum(f, S) = g[S]
  BY SumSolves
<1>3. PICK h : IsIter(h, f, R) /\ Sum(f, R) = h[R]
  BY LessOne, SumSolves
<1>5. g[S] = f[Pick(S)] + g[R]
  BY <1>2 DEF IsIter
<1> QED BY <1>2, <1>3, LessOne, IterAgree, <1>5

\* Whatever contains the empty set and with each set all that have one element more
\* contains every finite set.
LEMMA FiniteInduction ==
  ASSUME NEW S, IsFiniteSet(S), NEW T, {} \in T,
         \A R \in SUBSET S : R \in T => \A x \in S \ R : R \cup {x} \in T
  PROVE  S \in T
<1> DEFINE C == {n \in Nat : \A R \in SUBSET S : Cardinality(R) <= n => R \in T}
<1>0. \A R \in SUBSET S : IsFiniteSet(R) /\ Cardinality(R) \in Nat
  BY FS_Subset, FS_CardinalityType
<1>1. 0 \in C
  <2>1. \A R \in SUBSET S : Cardinality(R) <= 0 => R = {}
    BY <1>0, FS_EmptySet
  <2> QED BY <2>1
<1>2. ASSUME NEW n \in Nat, n \in C
      PROVE  n + 1 \in C
  <2>1. ASSUME NEW R \in SUBSET S, Cardinality(R) <= n + 1, R # {}
        PROVE  R \in T
    <3> DEFINE Q == R \ {Pick(R)}
    <3>2. Q \in T
      BY <1>2, <1>0, <2>1, LessOne
    <3>3. Pick(R) \in S \ Q /\ Q \cup {Pick(R)} = R
      BY <2>1, PickIn
    <3> QED BY <1>0, <2>1, LessOne, <3>2, <3>3
  <2> QED BY <2>1
<1>3. Cardinality(S) \in C /\ S \in SUBSET S /\ Cardinality(S) <= Cardinality(S)
  <2> HIDE DEF C
  <2> QED BY <1>0, <1>1, <1>2, Induction
<1> QED BY <1>3

LEMMA SumInt ==
  ASSUME NEW f, NEW S, IsFiniteSet(S), \A x \in S : f[x] \in Int
  PROVE  Sum(f, S) \in Int
<1> DEFINE C == {n \in Nat : \A R \in SUBSET S : Cardinality(R) <= n => Sum(f, R) \in Int}
<1>0. \A R \in SUBSET S : IsFiniteSet(R) /\ Cardinality(R) \in Nat
  BY FS_Subset, FS_CardinalityType
<1>1. 0 \in C
  BY <1>0, FS_EmptySet, SumEmpty
<1>2. ASSUME NEW n \in Nat, n \in C
      PROVE  n + 1 \in C
  <2>1. ASSUME NEW R \in SUBSET S, Cardinality(R) <= n + 1, R # {}
        PROVE  Sum(f, R) \in Int
    <3>1. Sum(f, R \ {Pick(R)}) \in Int
      BY <1>0, <1>2, <2>1, LessOne
    <3> QED BY <1>0, <2>1, <3>1, PickIn, SumPick
  <2> QED BY <2>1, SumEmpty
<1>3. Cardinality(S) \in C /\ S \in SUBSET S /\ Cardinality(S) <= Cardinality(S)
  <2> HIDE DEF C
  <2> QED BY <1>0, <1>1, <1>2, Induction
<1> QED BY <1>3

\* The order of a sum does not matter: any element may be taken out.
LEMMA SumAdd ==
  ASSUME NEW f, NEW S, IsFiniteSet(S), NEW x, x \notin S, \A y \in S \cup {x} : f[y] \in Int
  PROVE  Sum(f, S \cup {x}) = f[x] + Sum(f, S)
<1> DEFINE U == S \cup {x}
           C == {n \in Nat : \A R \in SUBSET U : \A y \in U \ R :
                   Cardinality(R) <= n => Sum(f, R \cup {y}) = f[y] + Sum(f, R)}
<1>0. /\ IsFiniteSet(U)
      /\ \A R \in SUBSET U : IsFiniteSet(R) /\ Cardinality(R) \in Nat /\ Sum(f, R) \in Int
  BY FS_AddElement, FS_Subset, FS_CardinalityType, SumInt
<1>1. 0 \in C
  <2>1. ASSUME NEW y \in U
        PROVE  Sum(f, {} \cup {y}) = f[y] + Sum(f, {})
    <3>1. IsFiniteSet({y}) /\ {y} # {} /\ Pick({y}) = y /\ {y} \ {y} = {} /\ {} \cup {y} = {y}
      BY FS_Singleton, PickIn
    <3> QED BY <3>1, SumPick
  <2>2. \A R \in SUBSET U : Cardinality(R) <= 0 => R = {}
    BY <1>0, FS_EmptySet
  <2> QED BY <2>1, <2>2
<1>2. ASSUME NEW n \in Nat, n \in C
      PROVE  n + 1 \in C
  <2>1. ASSUME NEW R \in SUBSET U, NEW y \in U \ R, Cardinality(R) <= n + 1
        PROVE  Sum(f, R \cup {y}) = f[y] + Sum(f, R)
    <3> DEFINE V == R \cup {y}
               p == Pick(V)
               Q == R \ {p}
    <3>2. Sum(f, V) = f[p] + Sum(f, V \ {p})
      BY <1>0, PickIn, SumPick
    <3>3. CASE p = y
      BY <3>3, <3>2
    <3>4. CASE p # y
      <4>1. p \in R /\ V \ {p} = Q \cup {y} /\ Q \cup {p} = R /\ Q \in SUBSET U /\ y \in U \ Q /\ p \in U \ Q
        BY <1>0, PickIn, <3>4
      <4>2. Cardinality(Q) <= n
        <5>0. IsFiniteSet(R) /\ p \in R
          BY <1>0, <4>1
        <5>1. Cardinality(Q) = Cardinality(R) - 1
          BY <5>0, FS_RemoveElement
        <5> QED BY <1>0, <2>1, <4>1, <5>1
      <4>3. Sum(f, Q \cup {y}) = f[y] + Sum(f, Q)
        BY <1>2, <4>1, <4>2
      <4>4. Sum(f, Q \cup {p}) = f[p] + Sum(f, Q)
        BY <1>2, <4>1, <4>2
      <4>5. f[y] \in Int /\ f[p] \in Int /\ Sum(f, Q) \in Int
        BY <1>0, <4>1
      <4> QED BY <4>5, <3>2, <4>1, <4>3, <4>4
    <3> QED BY <3>3, <3>4
  <2> QED BY <2>1
<1>3. Cardinality(S) \in C /\ S \in SUBSET U /\ Cardinality(S) <= Cardinality(S)
  <2> HIDE DEF C
  <2> QED BY <1>0, <1>1, <1>2, Induction
<1> QED BY <1>3

\* A sum depends on the terms only.
LEMMA SumCong ==
  ASSUME NEW S, IsFiniteSet(S), NEW f, NEW g, \A x \in S : f[x] = g[x] /\ f[x] \in Int
  PROVE  Sum(f, S) = Sum(g, S)
<1> DEFINE T == {R \in SUBSET S : Sum(f, R) = Sum(g, R)}
<1>2. ASSUME NEW R \in SUBSET S, R \in T, NEW x \in S \ R
      PROVE  R \cup {x} \in T
  BY FS_Subset, SumAdd, <1>2
<1>3. S \in T
  BY SumEmpty, <1>2, FiniteInduction
<1> QED BY <1>3

\* A sum of natural numbers is one.
LEMMA SumNat ==
  ASSUME NEW S, IsFiniteSet(S), NEW f, \A x \in S : f[x] \in Nat
  PROVE  Sum(f, S) \in Nat
<1> DEFINE T == {R \in SUBSET S : Sum(f, R) \in Nat}
<1>1. {} \in T
  BY SumEmpty
<1>2. ASSUME NEW R \in SUBSET S, R \in T, NEW x \in S \ R
      PROVE  R \cup {x} \in T
  BY FS_Subset, SumAdd, <1>2
<1> QED BY <1>1, <1>2, FiniteInduction

\* A sum grows by no more than its terms.
LEMMA SumBound ==
  ASSUME NEW S, IsFiniteSet(S), NEW f, NEW g, NEW c \in Nat,
         \A x \in S : f[x] \in Nat /\ g[x] \in Nat /\ f[x] <= g[x] + c
  PROVE  Sum(f, S) <= Sum(g, S) + c * Cardinality(S) /\ Sum(f, S) \in Nat /\ Sum(g, S) \in Nat
<1> DEFINE T == {R \in SUBSET S : Sum(f, R) <= Sum(g, R) + c * Cardinality(R)}
<1>1. {} \in T
  BY SumEmpty, FS_EmptySet
<1>2. ASSUME NEW R \in SUBSET S, R \in T, NEW x \in S \ R
      PROVE  R \cup {x} \in T
  <2>1. IsFiniteSet(R) /\ \A y \in R \cup {x} : f[y] \in Int /\ g[y] \in Int
    BY FS_Subset
  <2>3. Cardinality(R) \in Nat /\ Cardinality(R \cup {x}) = Cardinality(R) + 1
    BY <2>1, FS_AddElement, FS_CardinalityType
  <2>4. Sum(f, R) \in Nat /\ Sum(g, R) \in Nat
    BY <2>1, SumNat
  <2> QED BY <2>4, <2>3, <1>2, <2>1, SumAdd
<1> QED BY <1>1, <1>2, FiniteInduction, SumNat

\* The sizes of disjoint sets add up to the size of their union.
UnionOf(A, S) == UNION {A[x] : x \in S}
\* Sizes of disjoint sets add up to the size of their union.
LEMMA SumOfSizes ==
  ASSUME NEW S, IsFiniteSet(S), NEW A, NEW f,
         \A x \in S : IsFiniteSet(A[x]) /\ f[x] = Cardinality(A[x]),
         \A x, y \in S : x # y => A[x] \cap A[y] = {}
  PROVE  IsFiniteSet(UnionOf(A, S)) /\ Sum(f, S) = Cardinality(UnionOf(A, S))
<1> DEFINE T == {R \in SUBSET S : IsFiniteSet(UnionOf(A, R)) /\ Sum(f, R) = Cardinality(UnionOf(A, R))}
<1>1. {} \in T
  BY SumEmpty, FS_EmptySet DEF UnionOf
<1>2. ASSUME NEW R \in SUBSET S, R \in T, NEW x \in S \ R
      PROVE  R \cup {x} \in T
  <2> DEFINE U == UnionOf(A, R)
  <2>2. Sum(f, R \cup {x}) = f[x] + Sum(f, R)
    BY FS_Subset, FS_CardinalityType, SumAdd
  <2>3. UnionOf(A, R \cup {x}) = U \cup A[x] /\ U \cap A[x] = {}
    BY <1>2 DEF UnionOf
  <2>4. IsFiniteSet(U) /\ IsFiniteSet(A[x]) /\ Sum(f, R) = Cardinality(U) /\ f[x] = Cardinality(A[x])
    BY <1>2
  <2> HIDE DEF U
  <2>5. /\ IsFiniteSet(U \cup A[x])
        /\ Cardinality(U \cup A[x]) = Cardinality(U) + Cardinality(A[x]) - Cardinality(U \cap A[x])
    BY <2>4, FS_Union
  <2>6. Cardinality(U) \in Nat /\ Cardinality(A[x]) \in Nat /\ Cardinality(U \cap A[x]) = 0
    BY <2>3, <2>4, FS_CardinalityType, FS_EmptySet
  <2>7. Cardinality(U \cup A[x]) = f[x] + Sum(f, R)
    BY <2>4, <2>5, <2>6
  <2> QED BY <1>2, <2>2, <2>3, <2>5, <2>7
<1> QED BY <1>1, <1>2, FiniteInduction

-----------------------------------------------------------------------------
(* Programs.                                                               *)

LEMMA ProgramFacts ==
  ASSUME NEW p \in Setups, NEW k \in DOMAIN p
  PROVE  /\ DOMAIN p = 1 .. Len(p) /\ Len(p) \in Nat /\ k \in 1 .. Len(p)
         /\ p[k].kind \in Kinds /\ p[k].rows \in [Ranks -> Seq(SUBSET Experts)]
         /\ p[k].channels \in Nat \ {0} /\ p[k].send \in Nat \ {0}
         /\ p[k].recv \in Nat /\ p[k].send < p[k].recv /\ p[k].worst \in Nat
         /\ p[k].worst # 0 => p[k].worst >= Sum([r \in Ranks |-> Len(p[k].rows[r])], Ranks)
         /\ p[k].kind # "dispatch" =>
              /\ p[k].of \in 1 .. k - 1 /\ p[k].of \in DOMAIN p
              /\ p[p[k].of].kind \in (IF p[k].kind = "cached" THEN {"dispatch"} ELSE {"dispatch", "cached"})
              /\ p[k].channels = p[p[k].of].channels
<1> DEFINE C == [kind : Kinds, of : Nat, rows : [Ranks -> Seq(SUBSET Experts)],
                 channels : Nat \ {0}, send : Nat \ {0}, recv : Nat, worst : Nat]
<1>1. p \in Seq(C)
  BY ProgramsAssumption
<1>2. p[k] \in C /\ DOMAIN p = 1 .. Len(p) /\ Len(p) \in Nat
  <2> HIDE DEF C
  <2> QED BY <1>1
<1>3. /\ p[k].send < p[k].recv
      /\ p[k].worst # 0 => p[k].worst >= Sum([r \in Ranks |-> Len(p[k].rows[r])], Ranks)
      /\ p[k].kind # "dispatch" =>
           /\ p[k].of \in 1 .. k - 1
           /\ p[p[k].of].kind \in (IF p[k].kind = "cached" THEN {"dispatch"} ELSE {"dispatch", "cached"})
           /\ p[k].channels = p[p[k].of].channels
  BY ProgramsAssumption
<1> QED BY <1>2, <1>3

\* The dispatch whose routing a call uses is a call before it, with the same channels.
LEMMA HomeFacts ==
  ASSUME NEW p \in Setups, NEW k \in DOMAIN p
  PROVE  /\ HomeOf(p, k) \in DOMAIN p /\ p[HomeOf(p, k)].kind = "dispatch"
         /\ p[HomeOf(p, k)].channels = p[k].channels
         /\ HomeOf(p, k) \in 1 .. k
         /\ HomeOf(p, HomeOf(p, k)) = HomeOf(p, k)
         /\ p[k].kind = "dispatch" => HomeOf(p, k) = k
         /\ p[k].kind # "dispatch" => /\ HomeOf(p, k) <= p[k].of /\ HomeOf(p, p[k].of) = HomeOf(p, k)
                                      /\ p[k].of < k /\ p[k].of \in DOMAIN p
         /\ p[k].kind = "cached" => HomeOf(p, k) = p[k].of
<1>1. CASE p[k].kind = "dispatch"
  <2>4. k \in 1 .. k
    BY ProgramFacts
  <2> QED BY <1>1, <2>4 DEF HomeOf, SourceOf
<1>2. CASE p[k].kind # "dispatch"
  <2> DEFINE m == p[k].of
  <2>2. m \in DOMAIN p /\ m \in 1 .. k - 1 /\ p[m].channels = p[k].channels /\ k \in Nat
        /\ (p[k].kind = "cached" => p[m].kind = "dispatch")
        /\ p[m].kind \in {"dispatch", "cached"}
    <3>1. /\ m \in 1 .. k - 1 /\ m \in DOMAIN p /\ p[k].channels = p[m].channels
          /\ p[m].kind \in (IF p[k].kind = "cached" THEN {"dispatch"} ELSE {"dispatch", "cached"})
      BY <1>2, ProgramFacts
    <3> QED BY <3>1, ProgramFacts
  <2>3. HomeOf(p, k) = SourceOf(p, m)
    BY <1>2 DEF HomeOf, SourceOf
  <2> HIDE DEF m
  <2>4. CASE p[m].kind = "dispatch"
    <3> QED BY <1>2, <2>2, <2>3, <2>4 DEF m, HomeOf, SourceOf
  <2>5. CASE p[m].kind = "cached"
    <3> DEFINE h == p[m].of
    <3>1. SourceOf(p, m) = h
      BY <2>5 DEF SourceOf
    <3>2. h \in DOMAIN p /\ h \in 1 .. m - 1 /\ p[h].channels = p[m].channels /\ p[h].kind = "dispatch"
      BY <2>2, <2>5, ProgramFacts
    <3> HIDE DEF h
    <3>3. SourceOf(p, h) = h
      BY <3>2 DEF SourceOf
    <3> QED BY <1>2, <2>2, <2>3, <2>5, <3>1, <3>2, <3>3 DEF m, HomeOf
  <2> QED BY <2>2, <2>4, <2>5
<1> QED BY <1>1, <1>2

LEMMA RowsFacts ==
  ASSUME NEW p \in Setups, NEW k \in DOMAIN p, NEW s \in Ranks
  PROVE  /\ RowsOf(p, k, s) \in Seq(SUBSET Experts) /\ Len(RowsOf(p, k, s)) \in Nat
         /\ DOMAIN RowsOf(p, k, s) = 1 .. Len(RowsOf(p, k, s))
         /\ RowsOf(p, HomeOf(p, k), s) = RowsOf(p, k, s)
         /\ p[k].kind # "dispatch" => RowsOf(p, p[k].of, s) = RowsOf(p, k, s)
<1>2. p[HomeOf(p, k)].rows \in [Ranks -> Seq(SUBSET Experts)]
  BY HomeFacts, ProgramFacts
<1> QED BY HomeFacts, <1>2 DEF RowsOf

-----------------------------------------------------------------------------
(* Channels.                                                               *)

LEMMA TimesMonotone ==
  ASSUME NEW a \in Nat, NEW b \in Nat, NEW c \in Nat, b <= c
  PROVE  a * b <= a * c /\ a * b \in Nat /\ a * c \in Nat
OBVIOUS

LEMMA CeilCovers ==
  ASSUME NEW n \in Nat, NEW m \in Nat \ {0}
  PROVE  CeilDiv(n, m) \in Nat /\ CeilDiv(n, m) * m >= n
BY DEF CeilDiv

\* The channels cut a rank's tokens into consecutive pieces, in order and without a gap.
LEMMA EdgeFacts ==
  ASSUME NEW p \in Setups, NEW k \in DOMAIN p, NEW s \in Ranks
  PROVE  LET n == Len(RowsOf(p, k, s)) IN
         /\ n \in Nat
         /\ \A c \in 0 .. p[k].channels : Edge(p, k, s, c) \in 1 .. n + 1
         /\ Edge(p, k, s, 0) = 1 /\ Edge(p, k, s, p[k].channels) = n + 1
         /\ \A c \in ChannelsOf(p, k) : /\ ChannelEnd(n, p[k].channels, c) = Edge(p, k, s, c + 1)
                                        /\ c \in 0 .. p[k].channels /\ c + 1 \in 0 .. p[k].channels
         /\ \A c, e \in 0 .. p[k].channels : c <= e => Edge(p, k, s, c) <= Edge(p, k, s, e)
<1> DEFINE n == Len(RowsOf(p, k, s))
           m == p[k].channels
           a == CeilDiv(n, m)
<1>1. n \in Nat /\ m \in Nat \ {0}
  BY RowsFacts, ProgramFacts
<1>2. a \in Nat /\ a * m >= n
  BY <1>1, CeilCovers
<1>4. \A c : Edge(p, k, s, c) = 1 + (IF a * c < n THEN a * c ELSE n)
  BY DEF Edge, ChannelStart, Smaller
<1>5. \A c : ChannelEnd(n, m, c) = IF Edge(p, k, s, c) + a < n + 1 THEN Edge(p, k, s, c) + a ELSE n + 1
  BY DEF Edge, ChannelEnd, Smaller
<1> HIDE DEF a
<1>6. ASSUME NEW c \in 0 .. m
      PROVE  Edge(p, k, s, c) \in 1 .. n + 1
  BY <1>1, <1>2, <1>4
<1>8. ASSUME NEW c \in ChannelsOf(p, k)
      PROVE  /\ ChannelEnd(n, m, c) = Edge(p, k, s, c + 1)
             /\ c \in 0 .. m /\ c + 1 \in 0 .. m
  <2>1. c \in Nat /\ c + 1 \in 0 .. m /\ c \in 0 .. m
    BY <1>1 DEF ChannelsOf
  <2> QED BY <1>1, <1>2, <1>4, <1>5, <2>1
<1>9. ASSUME NEW c \in 0 .. m, NEW e \in 0 .. m, c <= e
      PROVE  Edge(p, k, s, c) <= Edge(p, k, s, e)
  <2>1. a * c <= a * e /\ a * c \in Nat /\ a * e \in Nat
    BY <1>1, <1>2, <1>9, TimesMonotone
  <2> QED BY <1>1, <1>4, <2>1
<1> QED BY <1>1, <1>6, <1>2, <1>4, <1>8, <1>9

\* Every token is in one channel.
LEMMA ChannelOf ==
  ASSUME NEW p \in Setups, NEW k \in DOMAIN p, NEW s \in Ranks, NEW t \in DOMAIN RowsOf(p, k, s)
  PROVE  \E c \in ChannelsOf(p, k) : t \in OfChannel(p, k, s, c)
<1> DEFINE n == Len(RowsOf(p, k, s))
           m == p[k].channels
           T == {e \in Nat : e <= m /\ t < Edge(p, k, s, e)}
<1>1. n \in Nat /\ m \in Nat \ {0} /\ t \in 1 .. n
  <2>1. m \in Nat \ {0}
    BY ProgramFacts
  <2> QED BY <2>1, RowsFacts
<1>2. m \in T
  BY <1>1, EdgeFacts
<1>3. PICK e \in T : \A y \in T : e <= y
  BY <1>2, LeastNumber DEF T
<1>8. t \in OfChannel(p, k, s, e - 1)
  BY <1>1, <1>3, EdgeFacts DEF OfChannel, ChannelsOf
<1> QED BY <1>1, <1>3, EdgeFacts, <1>8 DEF ChannelsOf

\* A token is in one channel.
LEMMA OneChannel ==
  ASSUME NEW p \in Setups, NEW k \in DOMAIN p, NEW s \in Ranks, NEW t,
         NEW c \in ChannelsOf(p, k), NEW e \in ChannelsOf(p, k),
         t \in OfChannel(p, k, s, c), t \in OfChannel(p, k, s, e)
  PROVE  c = e
BY EdgeFacts, RowsFacts DEF OfChannel

-----------------------------------------------------------------------------
(* Counting tokens.                                                        *)

LEMMA RoutedFacts ==
  ASSUME NEW p \in Setups, NEW k \in DOMAIN p, NEW s \in Ranks, NEW d
  PROVE  /\ RoutedTo(p, k, s, d) \subseteq 1 .. Len(RowsOf(p, k, s))
         /\ RoutedTo(p, k, s, d) \subseteq Nat \ {0}
         /\ IsFiniteSet(RoutedTo(p, k, s, d)) /\ Cardinality(RoutedTo(p, k, s, d)) \in Nat
         /\ \A t : {u \in RoutedTo(p, k, s, d) : u < t} \subseteq RoutedTo(p, k, s, d)
<1>3. IsFiniteSet(1 .. Len(RowsOf(p, k, s)))
  BY RowsFacts, FS_Interval
<1> QED BY RowsFacts, <1>3, FS_Subset, FS_CardinalityType DEF RoutedTo, TokensToRank

\* Counting the tokens for a rank that come before a token: one more for each of them.
LEMMA BelowFacts ==
  ASSUME NEW p \in Setups, NEW k \in DOMAIN p, NEW s \in Ranks, NEW d
  PROVE  LET R == RoutedTo(p, k, s, d)
             B0(t) == Below(p, k, s, d, t)
         IN  /\ \A t \in Nat : B0(t) \in Nat
             /\ B0(1) = 0
             /\ B0(0) = 0
             /\ \A t \in Nat : B0(t + 1) = B0(t) + (IF t \in R THEN 1 ELSE 0)
             /\ \A a, b \in Nat : a <= b => B0(a) <= B0(b)
             /\ \A t \in R, b \in Nat : t < b => B0(t) < B0(b)
             /\ B0(Len(RowsOf(p, k, s)) + 1) = Cardinality(R)
<1> DEFINE R == RoutedTo(p, k, s, d)
           B0(t) == Below(p, k, s, d, t)
           S(t) == {u \in R : u < t}
<1>1. /\ R \subseteq 1 .. Len(RowsOf(p, k, s)) /\ IsFiniteSet(R)
      /\ Len(RowsOf(p, k, s)) \in Nat /\ \A t : S(t) \subseteq R
      /\ R \subseteq Nat \ {0}
  BY RowsFacts, RoutedFacts
<1>2. \A t : B0(t) = Cardinality(S(t)) /\ IsFiniteSet(S(t))
  BY <1>1, FS_Subset DEF Below
<1>n. \A u \in R : u \in Nat /\ u > 0
  BY <1>1
<1> HIDE DEF R, B0
<1>3. \A t \in Nat : B0(t) \in Nat
  BY <1>2, FS_CardinalityType
<1>4. B0(1) = 0 /\ B0(0) = 0
  BY <1>n, <1>2, FS_EmptySet
<1>5. ASSUME NEW t \in Nat
      PROVE  B0(t + 1) = B0(t) + (IF t \in R THEN 1 ELSE 0)
  <2>1. ASSUME t \in R PROVE S(t + 1) = S(t) \cup {t}
    <3>1. \A u \in R : u < t + 1 <=> u < t \/ u = t
      BY <1>n
    <3> QED BY <2>1, <3>1
  <2>2. ASSUME t \notin R PROVE S(t + 1) = S(t)
    BY <1>n, <2>2
  <2>3. t \notin S(t)
    BY <1>n
  <2>4. Cardinality(S(t) \cup {t}) = Cardinality(S(t)) + 1
    BY <1>2, <2>3, FS_AddElement
  <2>5. Cardinality(S(t)) \in Nat
    BY <1>2, FS_CardinalityType
  <2>7. CASE t \in R
    BY <2>1, <2>7, <2>4, <1>2
  <2>8. CASE t \notin R
    BY <2>2, <2>8, <2>5, <1>2
  <2> QED BY <2>7, <2>8
<1>6. ASSUME NEW a \in Nat, NEW b \in Nat, a <= b
      PROVE  B0(a) <= B0(b)
  <2>1. S(a) \subseteq S(b)
    BY <1>n, <1>6
  <2> QED BY <1>2, <2>1, FS_Subset
<1>7. ASSUME NEW t \in R, NEW b \in Nat, t < b
      PROVE  B0(t) < B0(b)
  <2>1. t \in Nat /\ t + 1 \in Nat /\ t + 1 <= b
    BY <1>1, <1>7
  <2> QED BY <1>3, <2>1, <1>5, <1>6
<1>8. B0(Len(RowsOf(p, k, s)) + 1) = Cardinality(R)
  <2>1. \A u \in R : u < Len(RowsOf(p, k, s)) + 1
    BY <1>1
  <2> QED BY <1>2, <2>1
<1> QED BY <1>3, <1>4, <1>5, <1>6, <1>7, <1>8 DEF R, B0

\* Every number below is that of a token.
LEMMA BelowReached ==
  ASSUME NEW p \in Setups, NEW k \in DOMAIN p, NEW s \in Ranks, NEW d, NEW b \in Nat, NEW j \in Nat,
         j < Below(p, k, s, d, b)
  PROVE  \E t \in RoutedTo(p, k, s, d) : t < b /\ Below(p, k, s, d, t) = j
<1> DEFINE B0(t) == Below(p, k, s, d, t)
           T == {x \in Nat : j < B0(x)}
<1>0. /\ \A t \in Nat : B0(t) \in Nat
      /\ B0(0) = 0
      /\ \A t \in Nat : B0(t + 1) = B0(t) + (IF t \in RoutedTo(p, k, s, d) THEN 1 ELSE 0)
  BY BelowFacts
<1> HIDE DEF B0
<1>2. PICK x \in T : \A y \in T : x <= y
  BY LeastNumber DEF B0
<1>3. x \in Nat /\ x # 0 /\ j < B0(x) /\ x <= b
  BY <1>0, <1>2 DEF B0
<1>4. x - 1 \in Nat /\ x - 1 \notin T /\ (x - 1) + 1 = x
  BY <1>2, <1>3
<1>5. B0(x - 1) <= j /\ B0(x - 1) \in Nat
  BY <1>0, <1>4
<1> QED BY <1>3, <1>5, <1>0, <1>4 DEF B0

\* The number of tokens in an interval.
Between(p, k, s, d, a, b) == {u \in RoutedTo(p, k, s, d) : a <= u /\ u < b}
LEMMA CountBetween ==
  ASSUME NEW p \in Setups, NEW k \in DOMAIN p, NEW s \in Ranks, NEW d, NEW a \in Nat, NEW b \in Nat, a <= b
  PROVE  /\ IsFiniteSet(Between(p, k, s, d, a, b))
         /\ Cardinality(Between(p, k, s, d, a, b)) = Below(p, k, s, d, b) - Below(p, k, s, d, a)
<1> DEFINE R == RoutedTo(p, k, s, d)
           S == {u \in R : a <= u /\ u < b}
           A == {u \in R : u < a}
           C == {u \in R : u < b}
<1>1. IsFiniteSet(R) /\ R \subseteq Nat
  BY RoutedFacts
<1>n. \A u \in R : u \in Nat
  BY <1>1
<1> HIDE DEF R
<1>2. IsFiniteSet(S) /\ IsFiniteSet(A) /\ IsFiniteSet(C)
  BY <1>1, FS_Subset
<1>3. C = A \cup S /\ A \cap S = {}
  BY <1>n
<1>4. Cardinality(A) = Below(p, k, s, d, a) /\ Cardinality(C) = Below(p, k, s, d, b)
  BY DEF Below, R
<1> HIDE DEF S, A, C
<1>5. Cardinality(C) = Cardinality(A) + Cardinality(S) - Cardinality(A \cap S)
  BY <1>2, <1>3, FS_Union
<1>6. Cardinality(A) \in Nat /\ Cardinality(S) \in Nat /\ Cardinality(A \cap S) = 0
  BY <1>2, <1>3, FS_CardinalityType, FS_EmptySet
<1> QED BY <1>2, <1>4, <1>5, <1>6 DEF S, R, Between

-----------------------------------------------------------------------------
(* Places in a queue.                                                      *)

LEMMA ChannelBounds ==
  ASSUME NEW p \in Setups, NEW k \in DOMAIN p, NEW s \in Ranks, NEW c \in ChannelsOf(p, k)
  PROVE  /\ Edge(p, k, s, c) \in Nat \ {0} /\ Edge(p, k, s, c + 1) \in Nat \ {0}
         /\ Edge(p, k, s, c) <= Edge(p, k, s, c + 1)
         /\ Edge(p, k, s, c + 1) <= Len(RowsOf(p, k, s)) + 1
         /\ Len(RowsOf(p, k, s)) \in Nat
BY EdgeFacts, RowsFacts

\* The n-th place of a queue: 0 at the channel's start, one more for each token that goes through it.
LEMMA NthFacts ==
  ASSUME NEW p \in Setups, NEW k \in DOMAIN p, NEW s \in Ranks, NEW d, NEW c \in ChannelsOf(p, k)
  PROVE  LET N(t) == Nth(p, k, s, d, c, t)
             lo == Edge(p, k, s, c)
             hi == Edge(p, k, s, c + 1)
         IN  /\ N(lo) = 0 /\ N(hi) = Many(p, k, s, d, c) /\ Many(p, k, s, d, c) \in Nat
             /\ \A t \in Nat : N(t) \in Int
             /\ \A t \in lo .. hi : t \in Nat /\ N(t) \in 0 .. Many(p, k, s, d, c)
             /\ \A a, b \in Nat : a <= b => N(a) <= N(b)
             /\ \A t \in RoutedTo(p, k, s, d), b \in Nat : t < b => N(t) < N(b)
             /\ \A t \in InChannel(p, k, s, d, c) :
                  /\ t \in RoutedTo(p, k, s, d) /\ t \in lo .. hi /\ t < hi /\ t \in OfChannel(p, k, s, c)
                  /\ t \in Nat /\ N(t) \in Nat /\ N(t) < Many(p, k, s, d, c)
             /\ \A t, u \in InChannel(p, k, s, d, c) : N(t) = N(u) => t = u
             /\ \A t \in Nat : N(t + 1) = N(t) + (IF t \in RoutedTo(p, k, s, d) THEN 1 ELSE 0)
<1> DEFINE N(t) == Nth(p, k, s, d, c, t)
           lo == Edge(p, k, s, c)
           hi == Edge(p, k, s, c + 1)
           M == Many(p, k, s, d, c)
           R == RoutedTo(p, k, s, d)
           B0(t) == Below(p, k, s, d, t)
<1>1. lo \in Nat /\ hi \in Nat /\ lo <= hi
  BY ChannelBounds
<1>2. /\ \A t \in Nat : B0(t) \in Nat
      /\ \A t \in Nat : B0(t + 1) = B0(t) + (IF t \in R THEN 1 ELSE 0)
      /\ \A a, b \in Nat : a <= b => B0(a) <= B0(b)
      /\ \A t \in R, b \in Nat : t < b => B0(t) < B0(b)
  BY BelowFacts, ZenonT(30)
<1>3. R \subseteq Nat
  BY RoutedFacts
<1>4. \A t : N(t) = B0(t) - B0(lo)
  BY DEF Nth
<1>5. M = N(hi)
  BY DEF Many
<1>6. InChannel(p, k, s, d, c) = {t \in R : lo <= t /\ t < hi}
  BY DEF InChannel
<1>7. OfChannel(p, k, s, c) = lo .. hi - 1
  BY DEF OfChannel
<1> HIDE DEF N, lo, hi, M, R, B0
<1>8. N(lo) = 0 /\ N(hi) = M /\ M \in Nat /\ (\A t \in Nat : N(t) \in Int)
  BY <1>1, <1>2, <1>4, <1>5, SMTT(30)
<1>9. \A t \in lo .. hi : t \in Nat /\ N(t) \in 0 .. M
  BY <1>1, <1>2, <1>4, <1>5, SMTT(30)
<1>11. \A t \in R, b \in Nat : t < b => N(t) < N(b)
  BY <1>1, <1>2, <1>3, <1>4
<1>12. \A t \in InChannel(p, k, s, d, c) :
         /\ t \in R /\ t \in lo .. hi /\ t < hi /\ t \in OfChannel(p, k, s, c)
         /\ t \in Nat /\ N(t) \in Nat /\ N(t) < M
  <2> SUFFICES ASSUME NEW t \in InChannel(p, k, s, d, c)
               PROVE  /\ t \in R /\ t \in lo .. hi /\ t < hi /\ t \in OfChannel(p, k, s, c)
                      /\ t \in Nat /\ N(t) \in Nat /\ N(t) < M
    OBVIOUS
  <2>2. t \in Nat
    BY <1>3, <1>6
  <2> QED BY <1>7, <1>8, <1>6, <2>2, <1>1, <1>9, <1>11
<1>13. \A t, u \in InChannel(p, k, s, d, c) : N(t) = N(u) => t = u
  BY <1>8, <1>11, <1>12
<1>14. ASSUME NEW t \in Nat
       PROVE  N(t + 1) = N(t) + (IF t \in R THEN 1 ELSE 0)
  <2>1. B0(t + 1) = B0(t) + (IF t \in R THEN 1 ELSE 0) /\ B0(t) \in Nat /\ B0(lo) \in Nat
    BY <1>1, <1>2
  <2> QED BY <2>1, <1>4
<1> QED BY <1>8, <1>9, <1>1, <1>2, <1>4, <1>11, <1>12, <1>13, <1>14 DEF N, lo, hi, M, R

\* Every place below the number of a queue's tokens belongs to one of them.
LEMMA NthReached ==
  ASSUME NEW p \in Setups, NEW k \in DOMAIN p, NEW s \in Ranks, NEW d, NEW c \in ChannelsOf(p, k),
         NEW b \in Edge(p, k, s, c) .. Edge(p, k, s, c + 1),
         NEW j \in Nat, j < Nth(p, k, s, d, c, b)
  PROVE  \E t \in InChannel(p, k, s, d, c) : t < b /\ Nth(p, k, s, d, c, t) = j
<1> DEFINE lo == Edge(p, k, s, c)
           hi == Edge(p, k, s, c + 1)
           R == RoutedTo(p, k, s, d)
           B0(t) == Below(p, k, s, d, t)
<1>1. lo \in Nat /\ hi \in Nat /\ lo <= hi
  BY ChannelBounds
<1>2. /\ \A t \in Nat : B0(t) \in Nat
      /\ \A x, y \in Nat : x <= y => B0(x) <= B0(y)
      /\ \A t \in R, y \in Nat : t < y => B0(t) < B0(y)
  BY BelowFacts
<1>3. R \subseteq Nat /\ b \in Nat /\ b <= hi
  BY <1>1, RoutedFacts
<1>5. j + B0(lo) \in Nat /\ j + B0(lo) < B0(b)
  BY <1>1, <1>2, <1>3 DEF Nth
<1>6. PICK t \in R : t < b /\ B0(t) = j + B0(lo)
  BY <1>3, <1>5, BelowReached
<1> QED BY <1>1, <1>2, <1>6, <1>3 DEF InChannel, Nth

\* The tokens of a rank are those of its channels.
LEMMA RoutedInChannel ==
  ASSUME NEW p \in Setups, NEW k \in DOMAIN p, NEW s \in Ranks, NEW d, NEW t \in RoutedTo(p, k, s, d)
  PROVE  \E c \in ChannelsOf(p, k) : t \in InChannel(p, k, s, d, c)
BY ChannelOf, ChannelBounds DEF RoutedTo, TokensToRank, OfChannel, InChannel

-----------------------------------------------------------------------------
(* Rows of the received tokens.                                            *)

LEMMA RanksFinite == IsFiniteSet(Ranks) /\ NumRanks \in Nat /\ NumRanks >= 2 /\ \A r \in Ranks : r \in Nat /\ r < NumRanks
<1>1. NumRanks \in Nat /\ NumRanks >= 2
  BY SizesAssumption
<1> QED BY <1>1, FS_Interval DEF Ranks

LEMMA PreFacts ==
  ASSUME NEW p \in Setups, NEW k \in DOMAIN p, NEW d
  PROVE  LET P0(s) == Pre(p, k, s, d)
         IN  /\ P0(0) = 0
             /\ \A s \in 0 .. NumRanks : P0(s) \in Nat
             /\ \A s \in Ranks : P0(s + 1) = P0(s) + Cardinality(RoutedTo(p, k, s, d))
<1> DEFINE f == [i \in Ranks |-> Cardinality(RoutedTo(p, k, i, d))]
<1>0. NumRanks \in Nat /\ NumRanks >= 2
  BY SizesAssumption
<1>1. \A i \in Ranks : f[i] \in Nat /\ f[i] = Cardinality(RoutedTo(p, k, i, d))
  BY RoutedFacts
<1>2. \A s : Pre(p, k, s, d) = Sum(f, 0 .. s - 1)
  BY DEF Pre
<1> HIDE DEF f
<1>4. ASSUME NEW s \in 0 .. NumRanks
      PROVE  Pre(p, k, s, d) \in Nat
  <2>1. IsFiniteSet(0 .. s - 1) /\ \A i \in 0 .. s - 1 : f[i] \in Nat
    BY <1>0, <1>1, FS_Interval DEF Ranks
  <2> QED BY <1>2, <2>1, SumNat
<1>5. ASSUME NEW s \in Ranks
      PROVE  Pre(p, k, s + 1, d) = Pre(p, k, s, d) + Cardinality(RoutedTo(p, k, s, d))
  <2>0. s \in Nat /\ s < NumRanks
    BY RanksFinite
  <2>1. IsFiniteSet(0 .. s - 1) /\ s \notin 0 .. s - 1 /\ 0 .. (s + 1) - 1 = (0 .. s - 1) \cup {s}
    BY <2>0, FS_Interval
  <2>2. \A i \in (0 .. s - 1) \cup {s} : f[i] \in Int
    BY <1>0, <1>1, <2>0 DEF Ranks
  <2>3. Sum(f, (0 .. s - 1) \cup {s}) = f[s] + Sum(f, 0 .. s - 1)
    BY <2>1, <2>2, SumAdd
  <2>7. Pre(p, k, s + 1, d) = f[s] + Pre(p, k, s, d)
    BY <2>1, <2>3, <1>2
  <2> QED BY <1>1, <1>4, <1>0, <2>0, <2>7
<1> QED BY <1>2, SumEmpty, <1>4, <1>5

LEMMA PreMonotone ==
  ASSUME NEW p \in Setups, NEW k \in DOMAIN p, NEW d
  PROVE  \A b \in 0 .. NumRanks : \A a \in 0 .. b : Pre(p, k, a, d) <= Pre(p, k, b, d)
<1> DEFINE P0(s) == Pre(p, k, s, d)
           T == {b \in Nat : b <= NumRanks => \A a \in 0 .. b : P0(a) <= P0(b)}
<1>0. NumRanks \in Nat
  BY SizesAssumption
<1>1. /\ \A s \in 0 .. NumRanks : P0(s) \in Nat
      /\ \A s \in Ranks : P0(s + 1) = P0(s) + Cardinality(RoutedTo(p, k, s, d))
  BY PreFacts
<1>2. \A s \in Ranks : Cardinality(RoutedTo(p, k, s, d)) \in Nat
  BY RoutedFacts
<1> HIDE DEF P0
<1>3. 0 \in T
  BY <1>0, <1>1
<1>4. ASSUME NEW b \in Nat, b \in T
      PROVE  b + 1 \in T
  BY <1>0, <1>1, <1>2, <1>4 DEF Ranks
<1>5. \A b \in Nat : b \in T
  BY <1>3, <1>4, Induction
<1> QED BY <1>0, <1>5 DEF P0

\* Rows of a source begin behind those of the sources before and end before those behind.
LEMMA RowFacts ==
  ASSUME NEW p \in Setups, NEW k \in DOMAIN p, NEW d, NEW s \in Ranks
  PROVE  /\ Pre(p, k, s, d) \in Nat /\ Pre(p, k, s + 1, d) \in Nat /\ Pre(p, k, NumRanks, d) \in Nat
         /\ Pre(p, k, s + 1, d) <= Pre(p, k, NumRanks, d)
         /\ \A t \in Nat : Row(p, k, s, d, t) \in Nat /\ Row(p, k, s, d, t) >= Pre(p, k, s, d)
         /\ \A t \in RoutedTo(p, k, s, d) : /\ Row(p, k, s, d, t) < Pre(p, k, s + 1, d)
                                            /\ Row(p, k, s, d, t) \in 0 .. Pre(p, k, NumRanks, d) - 1
<1>3. \A t \in Nat : Below(p, k, s, d, t) \in Nat
  BY BelowFacts
<1>5. ASSUME NEW t \in RoutedTo(p, k, s, d)
      PROVE  Row(p, k, s, d, t) < Pre(p, k, s + 1, d) /\ Row(p, k, s, d, t) \in 0 .. Pre(p, k, NumRanks, d) - 1
  <2> DEFINE n == Len(RowsOf(p, k, s)) + 1
  <2>1. n \in Nat /\ t < n /\ t \in Nat
    BY RoutedFacts, RowsFacts
  <2>2. Below(p, k, s, d, n) = Cardinality(RoutedTo(p, k, s, d))
    BY BelowFacts
  <2> HIDE DEF n
  <2>3. Below(p, k, s, d, t) < Below(p, k, s, d, n)
    BY <2>1, BelowFacts
  <2> QED BY RanksFinite, PreFacts, PreMonotone, <2>2, <2>3, <1>3, <2>1 DEF Row
<1> QED BY RanksFinite, PreFacts, PreMonotone, <1>3, <1>5 DEF Row

\* Every row is that of a token.
LEMMA RowReached ==
  ASSUME NEW p \in Setups, NEW k \in DOMAIN p, NEW d, NEW i \in 0 .. Pre(p, k, NumRanks, d) - 1
  PROVE  \E s \in Ranks : \E t \in RoutedTo(p, k, s, d) : Row(p, k, s, d, t) = i
<1> DEFINE T == {e \in Nat : e <= NumRanks /\ i < Pre(p, k, e, d)}
<1>0. NumRanks \in Nat /\ NumRanks \in 0 .. NumRanks
  BY RanksFinite
<1>1. Pre(p, k, NumRanks, d) \in Nat /\ Pre(p, k, 0, d) = 0
  BY <1>0, PreFacts
<1>2. i \in Nat /\ i < Pre(p, k, NumRanks, d)
  BY <1>1
<1>3. NumRanks \in T
  BY <1>0, <1>2
<1>4. PICK e \in T : \A y \in T : e <= y
  BY <1>3, LeastNumber
<1> DEFINE s == e - 1
<1>6. s \in Ranks /\ s \in Nat /\ s + 1 = e /\ s \notin T /\ s \in 0 .. NumRanks
  BY <1>0, <1>4, <1>1, <1>2 DEF Ranks
<1> HIDE DEF s
<1>7. /\ Pre(p, k, s, d) \in Nat /\ Pre(p, k, s, d) <= i
      /\ Pre(p, k, e, d) = Pre(p, k, s, d) + Cardinality(RoutedTo(p, k, s, d))
      /\ Cardinality(RoutedTo(p, k, s, d)) \in Nat
  <2>2. Pre(p, k, s, d) <= i
    BY <1>0, <1>2, <1>6, PreFacts
  <2> QED BY <1>6, PreFacts, <2>2, RoutedFacts
<1>8. Below(p, k, s, d, Len(RowsOf(p, k, s)) + 1) = Cardinality(RoutedTo(p, k, s, d))
      /\ Len(RowsOf(p, k, s)) + 1 \in Nat
  BY <1>6, BelowFacts, RowsFacts
<1>10. PICK t \in RoutedTo(p, k, s, d) : Below(p, k, s, d, t) = i - Pre(p, k, s, d)
  BY <1>6, <1>8, <1>2, <1>1, <1>4, <1>7, BelowReached
<1> QED BY <1>6, <1>2, <1>7, <1>10 DEF Row

\* A token's row counts the tokens that come before it, by rank and then by token.
LEMMA PairCount ==
  ASSUME NEW x, NEW S, IsFiniteSet(S)
  PROVE  IsFiniteSet({x} \X S) /\ Cardinality({x} \X S) = Cardinality(S)
<1>1. IsFiniteSet({x}) /\ Cardinality({x}) = 1
  BY FS_Singleton
<1> QED BY <1>1, FS_Product, FS_CardinalityType

\* The tokens of the ranks before s.
RoutedBefore(p, k, s, d) == UNION {{i} \X RoutedTo(p, k, i, d) : i \in 0 .. s - 1}
\* What the prefix matrix adds up.
LEMMA PreCounts ==
  ASSUME NEW p \in Setups, NEW k \in DOMAIN p, NEW d, NEW s \in 0 .. NumRanks
  PROVE  IsFiniteSet(RoutedBefore(p, k, s, d)) /\ Cardinality(RoutedBefore(p, k, s, d)) = Pre(p, k, s, d)
<1> DEFINE A == [i \in 0 .. s - 1 |-> {i} \X RoutedTo(p, k, i, d)]
           f == [i \in Ranks |-> Cardinality(RoutedTo(p, k, i, d))]
           S == 0 .. s - 1
<1>2. S \subseteq Ranks /\ IsFiniteSet(S)
  BY RanksFinite, FS_Interval DEF Ranks
<1>3. ASSUME NEW x \in S
      PROVE  IsFiniteSet(A[x]) /\ f[x] = Cardinality(A[x])
  BY <1>2, RoutedFacts, PairCount
<1>4. ASSUME NEW x \in S, NEW y \in S, x # y
      PROVE  A[x] \cap A[y] = {}
  BY <1>4
<1>5. UnionOf(A, S) = RoutedBefore(p, k, s, d)
  BY DEF UnionOf, RoutedBefore
<1>6. Pre(p, k, s, d) = Sum(f, S)
  BY DEF Pre
<1> HIDE DEF A, f, S
<1> QED BY <1>5, <1>6, <1>2, <1>3, <1>4, SumOfSizes

\* The row of a token is the number of tokens received before it.
LEMMA RowCounts ==
  ASSUME NEW p \in Setups, NEW k \in DOMAIN p, NEW d, NEW s \in Ranks, NEW t
  PROVE  LET All == UNION {{i} \X RoutedTo(p, k, i, d) : i \in Ranks}
         IN  Cardinality({x \in All : x[1] < s \/ (x[1] = s /\ x[2] < t)}) = Row(p, k, s, d, t)
<1> DEFINE All == UNION {{i} \X RoutedTo(p, k, i, d) : i \in Ranks}
           S == {u \in RoutedTo(p, k, s, d) : u < t}
           X == {x \in All : x[1] < s \/ (x[1] = s /\ x[2] < t)}
           Y == RoutedBefore(p, k, s, d)
           Z == {s} \X S
<1>1. s \in Nat /\ s < NumRanks /\ NumRanks \in Nat /\ s \in 0 .. NumRanks
  BY RanksFinite
<1>2. X = Y \cup Z
  BY <1>1, RanksFinite DEF RoutedBefore, Ranks
<1>3. Y \cap Z = {}
  BY <1>1 DEF RoutedBefore
<1>4. IsFiniteSet(Y) /\ Cardinality(Y) = Pre(p, k, s, d)
  BY <1>1, PreCounts
<1>5. IsFiniteSet(Z) /\ Cardinality(Z) = Below(p, k, s, d, t)
  <2>1. IsFiniteSet(S)
    BY RoutedFacts, FS_Subset
  <2>2. Cardinality(S) = Below(p, k, s, d, t)
    BY DEF Below
  <2> HIDE DEF S
  <2> QED BY <2>1, <2>2, PairCount
<1> HIDE DEF X, Y, Z
<1>6. Cardinality(Y \cup Z) = Cardinality(Y) + Cardinality(Z) - Cardinality(Y \cap Z)
  BY <1>4, <1>5, FS_Union
<1>7. Cardinality(Y) \in Nat /\ Cardinality(Z) \in Nat /\ Cardinality(Y \cap Z) = 0
  BY <1>3, <1>4, <1>5, FS_CardinalityType, FS_EmptySet
<1>8. Cardinality(X) = Row(p, k, s, d, t)
  BY <1>2, <1>4, <1>5, <1>6, <1>7 DEF Row
<1> QED BY <1>8 DEF X

\* Every row below the number received is the row of one token.
LEMMA AllCounted ==
  ASSUME NEW p \in Setups, NEW k \in DOMAIN p, NEW d
  PROVE  Cardinality(UNION {{i} \X RoutedTo(p, k, i, d) : i \in Ranks}) = Pre(p, k, NumRanks, d)
<1>1. NumRanks \in 0 .. NumRanks /\ 0 .. NumRanks - 1 = Ranks
  BY RanksFinite DEF Ranks
<1> QED BY <1>1, PreCounts DEF RoutedBefore

\* No more tokens come than there are, which worst-case mode makes room for.
LEMMA WorstCovers ==
  ASSUME NEW p \in Setups, NEW k \in DOMAIN p, NEW d, p[k].kind = "dispatch", p[k].worst # 0
  PROVE  Pre(p, k, NumRanks, d) <= p[k].worst
<1> DEFINE f == [i \in Ranks |-> Cardinality(RoutedTo(p, k, i, d))]
           g == [r \in Ranks |-> Len(p[k].rows[r])]
<1>1. Pre(p, k, NumRanks, d) = Sum(f, Ranks)
  BY RanksFinite DEF Pre, Ranks
<1>2. p[k].worst >= Sum(g, Ranks) /\ p[k].worst \in Nat
  BY ProgramFacts
<1>3. ASSUME NEW x \in Ranks
      PROVE  f[x] \in Nat /\ g[x] \in Nat /\ f[x] <= g[x] + 0
  <2>3. Len(RowsOf(p, k, x)) \in Nat /\ RoutedTo(p, k, x, d) \subseteq 1 .. Len(RowsOf(p, k, x))
    BY RowsFacts, RoutedFacts
  <2>4. IsFiniteSet(1 .. Len(RowsOf(p, k, x))) /\ Cardinality(1 .. Len(RowsOf(p, k, x))) = Len(RowsOf(p, k, x))
    BY <2>3, FS_Interval
  <2> QED BY HomeFacts, <2>3, <2>4, FS_Subset, RoutedFacts DEF RowsOf
<1> HIDE DEF f, g
<1>5. Sum(f, Ranks) <= Sum(g, Ranks) + 0 * Cardinality(Ranks) /\ Sum(f, Ranks) \in Nat /\ Sum(g, Ranks) \in Nat
  BY <1>3, RanksFinite, FS_CardinalityType, SumBound
<1> QED BY <1>1, <1>2, RanksFinite, FS_CardinalityType, <1>5

-----------------------------------------------------------------------------
(* Addresses.                                                              *)

LEMMA Mixed ==
  ASSUME NEW n \in Nat \ {0}, NEW a \in Nat, NEW i \in 0 .. n - 1
  PROVE  /\ a * n + i \in Nat
         /\ \A m \in Nat : a < m => a * n + i < m * n /\ m * n \in Nat
         /\ \A b \in Nat, j \in 0 .. n - 1 : a * n + i = b * n + j => a = b /\ i = j
OBVIOUS

QueueCount(p, k) == p[k].channels * NumRanks
LEMMA QueueFacts ==
  ASSUME NEW p \in Setups, NEW k \in DOMAIN p, NEW c \in ChannelsOf(p, k), NEW s \in Ranks
  PROVE  /\ QueueIdx(c, s) \in 0 .. QueueCount(p, k) - 1
         /\ QueueCount(p, k) \in Nat \ {0}
         /\ \A e \in ChannelsOf(p, k), q \in Ranks : QueueIdx(c, s) = QueueIdx(e, q) => c = e /\ s = q
<1>2. p[k].channels \in Nat \ {0} /\ c \in Nat /\ c < p[k].channels
  <2>1. p[k].channels \in Nat \ {0}
    BY ProgramFacts
  <2> QED BY <2>1 DEF ChannelsOf
<1>4. ASSUME NEW e \in ChannelsOf(p, k), NEW q \in Ranks, QueueIdx(c, s) = QueueIdx(e, q)
      PROVE  c = e /\ s = q
  BY <1>2, <1>4, RanksFinite, Mixed DEF ChannelsOf, Ranks, QueueIdx
<1> QED BY RanksFinite, <1>2, Mixed, <1>4 DEF QueueCount, QueueIdx, Ranks

FieldsOf(p, k) == IF p[k].kind = "combine" THEN 0 .. 1 ELSE 0 .. 3
\* Heads, tails and offsets of different queues, and of different kinds, are different words.
LEMMA FieldFacts ==
  ASSUME NEW p \in Setups, NEW k \in DOMAIN p, NEW n \in FieldsOf(p, k),
         NEW c \in ChannelsOf(p, k), NEW s \in Ranks
  PROVE  /\ FieldOf(p, k, n, c, s) \in Nat /\ BaseOf(p, k) \in Nat /\ NumWordsOf(p, k) \in Nat
         /\ FieldOf(p, k, n, c, s) >= BaseOf(p, k)
         /\ FieldOf(p, k, n, c, s) < BaseOf(p, k) + NumWordsOf(p, k)
         /\ \A m \in FieldsOf(p, k), e \in ChannelsOf(p, k), q \in Ranks :
              FieldOf(p, k, n, c, s) = FieldOf(p, k, m, e, q) => n = m /\ c = e /\ s = q
<1> DEFINE M == QueueCount(p, k)
<1>0. NumRanks \in Nat /\ p[k].channels \in Nat
  BY RanksFinite, ProgramFacts
<1>1. M \in Nat \ {0}
  BY QueueFacts
<1>2. BaseOf(p, k) \in Nat
  BY <1>0 DEF BaseOf, NumCells
<1>3. \A m \in 0 .. 4 : m * p[k].channels * NumRanks = m * M
  BY <1>0 DEF QueueCount
<1>5. \A m \in FieldsOf(p, k) : m \in 0 .. 4 /\ m \in Nat /\ m < (IF p[k].kind = "combine" THEN 2 ELSE 4)
  BY DEF FieldsOf
<1>7. \A e \in ChannelsOf(p, k), q \in Ranks : QueueIdx(e, q) \in 0 .. M - 1
  BY QueueFacts
<1> HIDE DEF M
<1> DEFINE b == BaseOf(p, k)
           w == IF p[k].kind = "combine" THEN 2 ELSE 4
<1>8. /\ n * M + QueueIdx(c, s) \in Nat
      /\ n * M + QueueIdx(c, s) < w * M /\ w * M \in Nat
  BY <1>5, <1>7, <1>1, Mixed
<1>9. FieldOf(p, k, n, c, s) = b + (n * M) + QueueIdx(c, s) /\ n * M \in Nat /\ QueueIdx(c, s) \in Nat
  BY <1>1, <1>5, <1>3, <1>7 DEF FieldOf
<1>10. ASSUME NEW m \in FieldsOf(p, k), NEW e \in ChannelsOf(p, k), NEW q \in Ranks,
              FieldOf(p, k, n, c, s) = FieldOf(p, k, m, e, q)
       PROVE  n = m /\ c = e /\ s = q
  BY <1>1, <1>5, <1>3, <1>7, <1>2, <1>9, <1>10, Mixed, QueueFacts DEF FieldOf
<1>11. b \in Nat /\ NumWordsOf(p, k) = w * M
  BY <1>2, <1>3 DEF NumWordsOf
<1> HIDE DEF b, w
<1> QED BY <1>10, <1>11, <1>8, <1>9 DEF b

CellsOf(p, k) == BaseOf(p, k) + NumWordsOf(p, k) + QueueCount(p, k) * p[k].recv
\* Slots of different queues, or that are less than a queue's length apart, are different words.
LEMMA SlotFacts ==
  ASSUME NEW p \in Setups, NEW k \in DOMAIN p, NEW c \in ChannelsOf(p, k), NEW s \in Ranks, NEW x \in Nat
  PROVE  /\ SlotOf(p, k, c, s, x) \in Nat /\ BaseOf(p, k) + NumWordsOf(p, k) \in Nat
         /\ SlotOf(p, k, c, s, x) >= BaseOf(p, k) + NumWordsOf(p, k)
         /\ SlotOf(p, k, c, s, x) < CellsOf(p, k) /\ CellsOf(p, k) \in Nat
         /\ p[k].recv \in Nat \ {0}
         /\ \A e \in ChannelsOf(p, k), q \in Ranks, y \in Nat :
              SlotOf(p, k, c, s, x) = SlotOf(p, k, e, q, y) => c = e /\ s = q /\ x % p[k].recv = y % p[k].recv
<1> DEFINE b == BaseOf(p, k) + NumWordsOf(p, k)
           R == p[k].recv
<1>1. R \in Nat \ {0}
  <2>1. p[k].recv \in Nat /\ p[k].send < p[k].recv /\ p[k].send \in Nat
    BY ProgramFacts
  <2> QED BY <2>1
<1>2. b \in Nat
  <2>1. 0 \in FieldsOf(p, k)
    BY DEF FieldsOf
  <2> QED BY <2>1, FieldFacts
<1>3. \A e \in ChannelsOf(p, k), q \in Ranks : QueueIdx(e, q) \in Nat /\ QueueIdx(e, q) < QueueCount(p, k)
  BY QueueFacts
<1>5. \A y \in Nat : y % R \in 0 .. R - 1
  BY <1>1
<1>6. \A e, q, y : SlotOf(p, k, e, q, y) = b + QueueIdx(e, q) * R + (y % R)
  BY DEF SlotOf
<1> HIDE DEF b, R
<1>8. /\ QueueIdx(c, s) * R + (x % R) \in Nat
      /\ QueueIdx(c, s) * R + (x % R) < QueueCount(p, k) * R /\ QueueCount(p, k) * R \in Nat
      /\ QueueIdx(c, s) * R \in Nat
  <2> DEFINE a == QueueIdx(c, s)
             i == x % R
             m == QueueCount(p, k)
  <2>1. a \in Nat /\ m \in Nat /\ a < m /\ i \in 0 .. R - 1
    BY <1>3, QueueFacts, <1>5
  <2> HIDE DEF a, i, m
  <2> QED BY <1>1, <2>1, Mixed DEF a, i, m
<1>9. SlotOf(p, k, c, s, x) = b + QueueIdx(c, s) * R + (x % R) /\ x % R \in Nat
  BY <1>5, <1>6
<1>11. ASSUME NEW e \in ChannelsOf(p, k), NEW q \in Ranks, NEW y \in Nat,
              SlotOf(p, k, c, s, x) = SlotOf(p, k, e, q, y)
       PROVE  c = e /\ s = q /\ x % R = y % R
  <2>1. SlotOf(p, k, e, q, y) = b + QueueIdx(e, q) * R + (y % R) /\ y % R \in 0 .. R - 1 /\ QueueIdx(e, q) * R \in Nat
    <3>2. QueueIdx(e, q) * R \in Nat
      BY <1>1, <1>3
    <3> QED BY <1>5, <1>6, <3>2
  <2>3. QueueIdx(c, s) \in Nat /\ QueueIdx(e, q) \in Nat /\ x % R \in 0 .. R - 1
    BY <1>3, <1>5
  <2> QED BY <1>1, <2>1, <1>2, <1>8, <1>9, <1>11, <2>3, Mixed, QueueFacts
<1> QED BY <1>1, <1>2, <1>8, <1>9, <1>11 DEF b, R, CellsOf

\* Places in a queue that lie less than its size apart have slots of their own.
LEMMA SlotsApart ==
  ASSUME NEW R \in Nat \ {0}, NEW x \in Nat, NEW y \in Nat, x < y, y < x + R
  PROVE  x % R # y % R
<1> SUFFICES ASSUME x % R = y % R
             PROVE  FALSE
  OBVIOUS
<1> DEFINE a == x \div R
           b == y \div R
           i == x % R
<1>1. /\ a \in Nat /\ b \in Nat /\ i \in 0 .. R - 1
      /\ x = R * a + i /\ y = R * b + i
  OBVIOUS
<1> HIDE DEF a, b, i
<1>3. CASE a >= b
  BY <1>1, <1>3, TimesMonotone
<1>4. CASE a < b
  BY <1>1, <1>4, TimesMonotone
<1> QED BY <1>1, <1>3, <1>4

\* Cells of the counts.
LEMMA CountCells ==
  ASSUME NEW i \in Ranks, NEW d \in Ranks
  PROVE  /\ i * NumRanks + d \in 0 .. NumCells - 1 /\ NumCells \in Nat
         /\ (i * NumRanks + d) % NumRanks = d /\ (i * NumRanks + d) \div NumRanks = i
         /\ \A j \in Ranks, e \in Ranks : i * NumRanks + d = j * NumRanks + e => i = j /\ d = e
         /\ \A e \in LocalExperts : /\ ExpertAt(i, e) \in Nat /\ ExpertAt(i, e) >= NumCells
                                    /\ ExpertAt(i, e) < ExpertAt(NumRanks, 0)
         /\ \A j \in Ranks : \A e, f \in LocalExperts : ExpertAt(i, e) = ExpertAt(j, f) => i = j /\ e = f
<1>1. NumRanks \in Nat \ {0} /\ i \in Nat /\ i < NumRanks /\ d \in 0 .. NumRanks - 1
  BY RanksFinite DEF Ranks
<1>3. i * NumRanks + d \in Nat /\ i * NumRanks + d < NumRanks * NumRanks /\ NumRanks * NumRanks \in Nat
  BY <1>1, Mixed
<1>4. ASSUME NEW j \in Ranks, NEW e \in Ranks, i * NumRanks + d = j * NumRanks + e
      PROVE  i = j /\ d = e
  BY <1>1, <1>4, Mixed DEF Ranks
<1>6. ASSUME NEW e \in LocalExperts
      PROVE  ExpertAt(i, e) \in Nat /\ ExpertAt(i, e) >= NumCells /\ ExpertAt(i, e) < ExpertAt(NumRanks, 0)
  BY <1>1, SizesAssumption, Mixed, <1>3 DEF LocalExperts, ExpertAt, NumCells
<1>7. ASSUME NEW j \in Ranks, NEW e \in LocalExperts, NEW f \in LocalExperts, ExpertAt(i, e) = ExpertAt(j, f)
      PROVE  i = j /\ e = f
  BY RanksFinite, <1>1, SizesAssumption, <1>3, <1>7, Mixed DEF LocalExperts, NumCells, ExpertAt
<1> QED BY <1>3, <1>4, <1>1, Mixed, <1>6, <1>7 DEF NumCells

Notifying == {"open", "write", "exchange", "clean", "close"}

\* Which kernel a rank is in fits how far it is in it; only a dispatch that is not cached
\* goes through the second of three barriers.
Shape ==
  /\ kernels \in [Ranks -> Nat]
  /\ stage \in [Ranks -> {"idle", "run"} \cup Notifying]
  /\ signal \in [Ranks -> [Ranks -> Int]]
  /\ \A r \in Ranks :
       /\ stage[r] \in {"write", "exchange"} => Now(r).kind = "dispatch"
       /\ stage[r] \in Notifying => IsNotify(r)
       /\ stage[r] = "run" => ~IsNotify(r)

\* A word is how far its two ranks are apart, although nobody ever resets it.
WordsCount ==
  \A q, i \in Ranks : signal[q][i] = EnteredBy(q) - EnteredBy(i)

IInv == Shape /\ WordsCount

-----------------------------------------------------------------------------
(* Counting barriers.                                                      *)

LEMMA KernelArithmetic ==
  ASSUME NEW n \in Nat
  PROVE  /\ n \div 2 \in Nat /\ n % 2 \in {0, 1}
         /\ n % 2 = 0 => (n + 1) % 2 # 0 /\ (n + 1) \div 2 = n \div 2
         /\ n % 2 # 0 => (n + 1) % 2 = 0 /\ (n + 1) \div 2 = n \div 2 + 1
OBVIOUS

LEMMA OneCallMore ==
  ASSUME NEW k \in Nat
  PROVE  /\ BarriersUpTo(k) \in Nat
         /\ prog[k + 1].kind = "dispatch" => BarriersUpTo(k + 1) = BarriersUpTo(k) + 3
         /\ prog[k + 1].kind # "dispatch" => BarriersUpTo(k + 1) = BarriersUpTo(k) + 2
<1> DEFINE S == {m \in 1 .. k : prog[m].kind = "dispatch"}
           T == {m \in 1 .. k + 1 : prog[m].kind = "dispatch"}
<1>1. IsFiniteSet(S)
  <2>1. IsFiniteSet(1 .. k)
    BY FS_Interval
  <2>2. S \subseteq 1 .. k
    OBVIOUS
  <2>3. QED
    BY <2>1, <2>2, FS_Subset
<1>2. Cardinality(S) \in Nat
  BY <1>1, FS_CardinalityType
<1>3. k + 1 \notin S
  OBVIOUS
<1>4. BarriersUpTo(k) = 2 * k + Cardinality(S) /\ BarriersUpTo(k + 1) = 2 * (k + 1) + Cardinality(T)
  BY DEF BarriersUpTo
<1>5. prog[k + 1].kind = "dispatch" => Cardinality(T) = Cardinality(S) + 1
  <2>1. prog[k + 1].kind = "dispatch" => T = S \cup {k + 1}
    OBVIOUS
  <2>2. QED
    BY <1>1, <1>3, <2>1, FS_AddElement
<1>6. prog[k + 1].kind # "dispatch" => T = S
  OBVIOUS
<1> HIDE DEF S, T
<1>7. QED
  BY <1>2, <1>4, <1>5, <1>6

\* The position of a rank, by the barriers before its call and those of its call.
Positioned(r) ==
  \E before, upTo \in Nat :
    /\ before = BarriersUpTo(CallOf(r) - 1) /\ upTo = BarriersUpTo(CallOf(r))
    /\ upTo = before + (IF Now(r).kind = "dispatch" THEN 3 ELSE 2)
    /\ ~IsNotify(r) => EnteredBy(r) = upTo /\ LeftBy(r) = upTo
    /\ stage[r] = "idle" /\ IsNotify(r) => EnteredBy(r) = before /\ LeftBy(r) = before
    /\ stage[r] = "open" => EnteredBy(r) = before + 1 /\ LeftBy(r) = before
    /\ stage[r] = "write" => EnteredBy(r) = before + 1 /\ LeftBy(r) = before + 1
    /\ stage[r] = "exchange" => EnteredBy(r) = upTo - 1 /\ LeftBy(r) = upTo - 2
    /\ stage[r] = "clean" => EnteredBy(r) = upTo - 1 /\ LeftBy(r) = upTo - 1
    /\ stage[r] = "close" => EnteredBy(r) = upTo /\ LeftBy(r) = upTo - 1

LEMMA Position == Shape => \A r \in Ranks : Positioned(r)
<1> SUFFICES ASSUME Shape, NEW r \in Ranks
             PROVE  Positioned(r)
  OBVIOUS
<1> DEFINE before == BarriersUpTo(CallOf(r) - 1)
           upTo   == BarriersUpTo(CallOf(r))
<1>1. before \in Nat /\ upTo \in Nat /\ upTo = before + (IF Now(r).kind = "dispatch" THEN 3 ELSE 2)
  <2> DEFINE k == CallOf(r) - 1
  <2>1. k \in Nat /\ CallOf(r) = k + 1
    BY KernelArithmetic DEF Shape, CallOf
  <2>2. BarriersUpTo(k) \in Nat
        /\ BarriersUpTo(k + 1) = BarriersUpTo(k) + (IF prog[k + 1].kind = "dispatch" THEN 3 ELSE 2)
    <3> HIDE DEF k
    <3>1. QED
      BY <2>1, OneCallMore
  <2>3. QED
    BY <2>1, <2>2 DEF Now
<1>2. /\ stage[r] \in Notifying => IsNotify(r)
      /\ stage[r] \in {"idle", "run"} \cup Notifying
  BY DEF Shape
<1>3. /\ ~IsNotify(r) => EnteredBy(r) = upTo
      /\ IsNotify(r) /\ stage[r] = "idle" => EnteredBy(r) = before
      /\ IsNotify(r) /\ stage[r] \in {"open", "write"} => EnteredBy(r) = before + 1
      /\ IsNotify(r) /\ stage[r] = "close" => EnteredBy(r) = upTo
      /\ IsNotify(r) /\ stage[r] \in {"exchange", "clean"} => EnteredBy(r) = upTo - 1
  <2>1. ~IsNotify(r) => EnteredBy(r) = upTo
    BY DEF EnteredBy
  <2>2. IsNotify(r) /\ stage[r] = "idle" => EnteredBy(r) = before
    BY DEF EnteredBy
  <2>3. IsNotify(r) /\ stage[r] \in {"open", "write"} => EnteredBy(r) = before + 1
    BY DEF EnteredBy
  <2>4. IsNotify(r) /\ stage[r] = "close" => EnteredBy(r) = upTo
    BY DEF EnteredBy
  <2>5. IsNotify(r) /\ stage[r] \in {"exchange", "clean"} => EnteredBy(r) = upTo - 1
    BY DEF EnteredBy
  <2>6. QED
    BY <2>1, <2>2, <2>3, <2>4, <2>5
<1>4. LeftBy(r) = IF stage[r] \in {"open", "exchange", "close"} THEN EnteredBy(r) - 1 ELSE EnteredBy(r)
  BY DEF LeftBy
<1>5. /\ before = BarriersUpTo(CallOf(r) - 1) /\ upTo = BarriersUpTo(CallOf(r))
  OBVIOUS
<1> HIDE DEF before, upTo
<1>6. /\ ~IsNotify(r) => EnteredBy(r) = upTo /\ LeftBy(r) = upTo
      /\ stage[r] = "idle" /\ IsNotify(r) => EnteredBy(r) = before /\ LeftBy(r) = before
      /\ stage[r] = "open" => EnteredBy(r) = before + 1 /\ LeftBy(r) = before
      /\ stage[r] = "write" => EnteredBy(r) = before + 1 /\ LeftBy(r) = before + 1
      /\ stage[r] = "exchange" => EnteredBy(r) = upTo - 1 /\ LeftBy(r) = upTo - 2
      /\ stage[r] = "clean" => EnteredBy(r) = upTo - 1 /\ LeftBy(r) = upTo - 1
      /\ stage[r] = "close" => EnteredBy(r) = upTo /\ LeftBy(r) = upTo - 1
  BY <1>1, <1>2, <1>3, <1>4 DEF Notifying
<1>7. QED
  BY <1>1, <1>5, <1>6 DEF Positioned

LEMMA PositionNext == Shape' => (\A r \in Ranks : Positioned(r))'
BY Position, PTL

LEMMA EnteredType ==
  ASSUME Shape, NEW r \in Ranks
  PROVE  EnteredBy(r) \in Int /\ LeftBy(r) \in Int
<1>1. Positioned(r)
  BY Position
<1>2. stage[r] \in {"idle", "run"} \cup Notifying /\ (stage[r] = "run" => ~IsNotify(r))
  BY DEF Shape
<1>3. QED
  BY <1>1, <1>2 DEF Positioned, Notifying

\* A rank that does nothing stays where it is.
LEMMA OthersStay ==
  ASSUME NEW q \in Ranks, prog' = prog, kernels'[q] = kernels[q], stage'[q] = stage[q]
  PROVE  EnteredBy(q)' = EnteredBy(q) /\ LeftBy(q)' = LeftBy(q)
BY DEF EnteredBy, LeftBy, BarriersUpTo, CallOf, IsNotify

-----------------------------------------------------------------------------
(* What a step of the program is to the barrier.                           *)

Enters(r) ==
  /\ Arrive(r)
  /\ LeftBy(r) = EnteredBy(r)
  /\ EnteredBy(r)' = EnteredBy(r) + 1 /\ LeftBy(r)' = LeftBy(r)
  /\ \A q \in Ranks \ {r} : EnteredBy(q)' = EnteredBy(q) /\ LeftBy(q)' = LeftBy(q)

Leaves(r) ==
  /\ AllArrived(r) /\ signal' = signal
  /\ LeftBy(r)' = LeftBy(r) + 1 /\ LeftBy(r)' = EnteredBy(r)
  /\ EnteredBy(r)' = EnteredBy(r)
  /\ \A q \in Ranks \ {r} : EnteredBy(q)' = EnteredBy(q) /\ LeftBy(q)' = LeftBy(q)

Stutters ==
  /\ signal' = signal
  /\ \A q \in Ranks : EnteredBy(q)' = EnteredBy(q) /\ LeftBy(q)' = LeftBy(q)

\* Whatever leaves the control state alone.
LEMMA Quiet ==
  ASSUME Shape, prog' = prog, kernels' = kernels, stage' = stage, signal' = signal
  PROVE  Shape' /\ Stutters
<1>1. Shape'
  BY DEF Shape, Now, CallOf, IsNotify
<1>2. QED
  BY <1>1, OthersStay DEF Stutters

\* A step from one stage to the next in the same kernel.
LEMMA Moved ==
  ASSUME Shape, NEW r \in Ranks, NEW s \in {"run"} \cup Notifying,
         prog' = prog, kernels' = kernels, stage' = [stage EXCEPT ![r] = s],
         signal' \in [Ranks -> [Ranks -> Int]],
         s \in {"write", "exchange"} => Now(r).kind = "dispatch",
         s \in Notifying => IsNotify(r),
         s = "run" => ~IsNotify(r)
  PROVE  /\ Shape'
         /\ \A q \in Ranks \ {r} : EnteredBy(q)' = EnteredBy(q) /\ LeftBy(q)' = LeftBy(q)
<1>1. Shape'
  BY DEF Shape, Now, CallOf, IsNotify
<1>2. \A q \in Ranks \ {r} : kernels'[q] = kernels[q] /\ stage'[q] = stage[q]
  BY DEF Shape
<1>3. QED
  BY <1>1, <1>2, OthersStay

LEMMA ArriveType ==
  ASSUME Shape, NEW r \in Ranks, Arrive(r)
  PROVE  signal' \in [Ranks -> [Ranks -> Int]]
BY DEF Shape, Arrive

\* A barrier is entered.
LEMMA Entering ==
  ASSUME Shape, NEW r \in Ranks, Arrive(r), prog' = prog, kernels' = kernels, IsNotify(r),
         NEW s, stage' = [stage EXCEPT ![r] = s],
         \/ stage[r] = "idle" /\ s = "open"
         \/ stage[r] = "write" /\ s = "exchange"
         \/ stage[r] = "clean" /\ s = "close"
  PROVE  Shape' /\ Enters(r)
<1>1. signal' \in [Ranks -> [Ranks -> Int]]
  BY ArriveType
<1>2. s \in {"open", "exchange", "close"}
      /\ (s = "exchange" => Now(r).kind = "dispatch")
  BY DEF Shape
<1>3. Shape' /\ \A q \in Ranks \ {r} : EnteredBy(q)' = EnteredBy(q) /\ LeftBy(q)' = LeftBy(q)
  BY <1>1, <1>2, Moved DEF Notifying
<1>4. stage'[r] = s
  BY DEF Shape
<1>5. /\ BarriersUpTo(CallOf(r) - 1)' = BarriersUpTo(CallOf(r) - 1)
      /\ BarriersUpTo(CallOf(r))' = BarriersUpTo(CallOf(r))
      /\ Now(r)' = Now(r)
  BY DEF BarriersUpTo, CallOf, Now
<1>6. EnteredBy(r)' = EnteredBy(r) + 1 /\ LeftBy(r)' = LeftBy(r) /\ LeftBy(r) = EnteredBy(r)
  <2>1. Positioned(r) /\ Positioned(r)'
    BY <1>3, Position, PositionNext
  <2>2. QED
    BY <1>4, <1>5, <2>1 DEF Positioned, Shape
<1>7. QED
  BY <1>3, <1>6 DEF Enters

\* A barrier is left.
LEMMA Leaving ==
  ASSUME Shape, NEW r \in Ranks, PassBarrier(r)
  PROVE  Shape' /\ Leaves(r)
<1> DEFINE s == stage'[r]
<1>0. /\ prog' = prog /\ signal' = signal /\ AllArrived(r)
      /\ stage[r] \in {"open", "exchange", "close"} /\ IsNotify(r)
      /\ stage[r] = "exchange" => Now(r).kind = "dispatch"
  BY DEF PassBarrier, Shape, Notifying
<1>1. /\ stage[r] = "open" /\ Now(r).kind = "dispatch" => stage' = [stage EXCEPT ![r] = "write"]
      /\ stage[r] = "open" /\ Now(r).kind # "dispatch" => stage' = [stage EXCEPT ![r] = "clean"]
      /\ stage[r] = "exchange" => stage' = [stage EXCEPT ![r] = "clean"]
      /\ stage[r] = "close" => /\ stage' = [stage EXCEPT ![r] = "idle"]
                               /\ kernels' = [kernels EXCEPT ![r] = @ + 1]
      /\ stage[r] # "close" => kernels' = kernels
  BY DEF PassBarrier
<1>2. CASE stage[r] # "close"
  <2>1. /\ Shape'
        /\ \A q \in Ranks \ {r} : EnteredBy(q)' = EnteredBy(q) /\ LeftBy(q)' = LeftBy(q)
    <3>1. ASSUME NEW n \in {"write", "clean"}, stage' = [stage EXCEPT ![r] = n],
                 n = "write" => Now(r).kind = "dispatch"
          PROVE  /\ Shape'
                 /\ \A q \in Ranks \ {r} : EnteredBy(q)' = EnteredBy(q) /\ LeftBy(q)' = LeftBy(q)
      <4>1. signal' \in [Ranks -> [Ranks -> Int]]
        BY <1>0 DEF Shape
      <4>2. QED
        BY <1>0, <1>1, <1>2, <3>1, <4>1, Moved DEF Notifying
    <3>2. QED
      BY <1>0, <1>1, <1>2, <3>1
  <2>2. /\ BarriersUpTo(CallOf(r) - 1)' = BarriersUpTo(CallOf(r) - 1)
        /\ BarriersUpTo(CallOf(r))' = BarriersUpTo(CallOf(r))
        /\ Now(r)' = Now(r)
    BY <1>0, <1>1, <1>2 DEF BarriersUpTo, CallOf, Now
  <2>3. Positioned(r) /\ Positioned(r)'
    BY <2>1, Position, PositionNext
  <2>4. /\ stage[r] = "open" /\ Now(r).kind = "dispatch" => stage'[r] = "write"
        /\ stage[r] = "open" /\ Now(r).kind # "dispatch" => stage'[r] = "clean"
        /\ stage[r] = "exchange" => stage'[r] = "clean"
    BY <1>1 DEF Shape
  <2>5. LeftBy(r)' = LeftBy(r) + 1 /\ LeftBy(r)' = EnteredBy(r) /\ EnteredBy(r)' = EnteredBy(r)
    BY <1>0, <1>2, <2>2, <2>3, <2>4 DEF Positioned
  <2>6. QED
    BY <1>0, <2>1, <2>5 DEF Leaves
<1>3. CASE stage[r] = "close"
  <2>1. /\ kernels[r] \in Nat /\ kernels'[r] = kernels[r] + 1 /\ stage'[r] = "idle"
        /\ \A q \in Ranks \ {r} : kernels'[q] = kernels[q] /\ stage'[q] = stage[q]
    BY <1>1, <1>3 DEF Shape
  <2>2. CallOf(r)' = CallOf(r) /\ ~IsNotify(r)'
    BY <1>0, <2>1, KernelArithmetic DEF CallOf, IsNotify
  <2>3. Shape'
    <3>1. /\ kernels' \in [Ranks -> Nat] /\ signal' \in [Ranks -> [Ranks -> Int]]
          /\ stage' \in [Ranks -> {"idle", "run"} \cup Notifying]
      BY <1>0, <1>1, <1>3 DEF Shape
    <3>2. ASSUME NEW q \in Ranks \ {r}
          PROVE  /\ stage'[q] \in {"write", "exchange"} => Now(q)'.kind = "dispatch"
                 /\ stage'[q] \in Notifying => IsNotify(q)'
                 /\ stage'[q] = "run" => ~IsNotify(q)'
      BY <1>0, <2>1 DEF Shape, Now, CallOf, IsNotify
    <3>3. /\ stage'[r] \notin {"write", "exchange"} /\ stage'[r] \notin Notifying
          /\ stage'[r] # "run"
      BY <2>1 DEF Notifying
    <3>4. QED
      BY <3>1, <3>2, <3>3 DEF Shape
  <2>4. BarriersUpTo(CallOf(r))' = BarriersUpTo(CallOf(r))
    BY <1>0, <2>2 DEF BarriersUpTo
  <2>5. Positioned(r) /\ Positioned(r)'
    BY <2>3, Position, PositionNext
  <2>6. LeftBy(r)' = LeftBy(r) + 1 /\ LeftBy(r)' = EnteredBy(r) /\ EnteredBy(r)' = EnteredBy(r)
    BY <1>3, <2>2, <2>4, <2>5 DEF Positioned
  <2>7. \A q \in Ranks \ {r} : EnteredBy(q)' = EnteredBy(q) /\ LeftBy(q)' = LeftBy(q)
    BY <1>0, <2>1, OthersStay
  <2>8. QED
    BY <1>0, <2>3, <2>6, <2>7 DEF Leaves
<1>4. QED
  BY <1>2, <1>3

\* The second kernel of a call starts: nothing changes for the barrier.
LEMMA Starting ==
  ASSUME Shape, NEW r \in Ranks, StartRun(r)
  PROVE  Shape' /\ Stutters
<1>1. /\ prog' = prog /\ kernels' = kernels /\ signal' = signal
      /\ stage[r] = "idle" /\ ~IsNotify(r) /\ stage' = [stage EXCEPT ![r] = "run"]
  BY DEF StartRun, hostVars
<1>2. signal' \in [Ranks -> [Ranks -> Int]]
  BY <1>1 DEF Shape
<1>3. Shape' /\ \A q \in Ranks \ {r} : EnteredBy(q)' = EnteredBy(q) /\ LeftBy(q)' = LeftBy(q)
  BY <1>1, <1>2, Moved DEF Notifying
<1>4. BarriersUpTo(CallOf(r))' = BarriersUpTo(CallOf(r)) /\ ~IsNotify(r)'
  BY <1>1 DEF BarriersUpTo, CallOf, IsNotify
<1>5. Positioned(r) /\ Positioned(r)'
  BY <1>3, Position, PositionNext
<1>6. EnteredBy(r)' = EnteredBy(r) /\ LeftBy(r)' = LeftBy(r)
  BY <1>1, <1>4, <1>5 DEF Positioned
<1>7. QED
  BY <1>1, <1>3, <1>6 DEF Stutters

\* The second kernel ends, and with it the call.
LEMMA Ending ==
  ASSUME Shape, NEW r \in Ranks, stage[r] = "run", prog' = prog, signal' = signal,
         kernels' = [kernels EXCEPT ![r] = @ + 1], stage' = [stage EXCEPT ![r] = "idle"]
  PROVE  Shape' /\ Stutters
<1>1. /\ kernels[r] \in Nat /\ kernels'[r] = kernels[r] + 1 /\ stage'[r] = "idle" /\ ~IsNotify(r)
      /\ \A q \in Ranks \ {r} : kernels'[q] = kernels[q] /\ stage'[q] = stage[q]
  BY DEF Shape
<1>2. CallOf(r)' = CallOf(r) + 1 /\ IsNotify(r)' /\ CallOf(r) \in Nat
  BY <1>1, KernelArithmetic DEF CallOf, IsNotify
<1>3. Shape'
  BY <1>1, <1>2 DEF Shape, Now, CallOf, IsNotify, Notifying
<1>4. BarriersUpTo(CallOf(r) - 1)' = BarriersUpTo(CallOf(r))
  <2>1. CallOf(r)' - 1 = CallOf(r)
    BY <1>2
  <2>2. QED
    BY <2>1 DEF BarriersUpTo
<1>5. Positioned(r) /\ Positioned(r)'
  BY <1>3, Position, PositionNext
<1>6. EnteredBy(r)' = EnteredBy(r) /\ LeftBy(r)' = LeftBy(r)
  BY <1>1, <1>2, <1>4, <1>5 DEF Positioned
<1>7. \A q \in Ranks \ {r} : EnteredBy(q)' = EnteredBy(q) /\ LeftBy(q)' = LeftBy(q)
  BY <1>1, OthersStay
<1>8. QED
  BY <1>3, <1>6, <1>7 DEF Stutters

-----------------------------------------------------------------------------
(* Every step enters a barrier, leaves one, or is none of its business.    *)

LEMMA NotifySteps ==
  ASSUME Shape, NEW r \in Ranks, NotifyStep(r), stage[r] \notin {"idle", "run"}
  PROVE  Shape' /\ (Enters(r) \/ Leaves(r))
<1>0. IsNotify(r)
  BY DEF Shape
<1>1. CASE PassBarrier(r)
  BY <1>1, Leaving
<1>2. CASE WriteCounts(r)
  <2>1. /\ stage[r] = "write" /\ stage' = [stage EXCEPT ![r] = "exchange"] /\ Arrive(r)
        /\ prog' = prog /\ kernels' = kernels
    BY <1>2 DEF WriteCounts
  <2>2. QED
    BY <1>0, <2>1, Entering
<1>3. CASE Collect(r)
  <2>1. /\ stage[r] = "clean" /\ stage' = [stage EXCEPT ![r] = "close"] /\ Arrive(r)
        /\ prog' = prog /\ kernels' = kernels
    BY <1>3 DEF Collect
  <2>2. QED
    BY <1>0, <2>1, Entering
<1>4. CASE Clean(r)
  <2>1. /\ stage[r] = "clean" /\ stage' = [stage EXCEPT ![r] = "close"] /\ Arrive(r)
        /\ prog' = prog /\ kernels' = kernels
    BY <1>4 DEF Clean
  <2>2. QED
    BY <1>0, <2>1, Entering
<1>5. QED
  BY <1>1, <1>2, <1>3, <1>4 DEF NotifyStep

LEMMA StartSteps ==
  ASSUME Shape, NEW r \in Ranks, StartNotify(r)
  PROVE  Shape' /\ Enters(r)
<1>1. /\ stage[r] = "idle" /\ IsNotify(r) /\ stage' = [stage EXCEPT ![r] = "open"] /\ Arrive(r)
      /\ prog' = prog /\ kernels' = kernels
  BY DEF StartNotify
<1>2. QED
  BY <1>1, Entering

LEMMA DispatchSteps ==
  ASSUME Shape, NEW r \in Ranks, stage[r] = "run", DispatchStep(r)
  PROVE  Shape' /\ Stutters
<1>1. CASE EndDispatch(r)
  <2>1. /\ prog' = prog /\ signal' = signal
        /\ kernels' = [kernels EXCEPT ![r] = @ + 1] /\ stage' = [stage EXCEPT ![r] = "idle"]
    BY <1>1 DEF EndDispatch
  <2>2. QED
    BY <2>1, Ending
<1>2. ASSUME NEW s \in Ranks, ReadOffsets(r, s)
      PROVE  Shape' /\ Stutters
  <2>1. prog' = prog /\ kernels' = kernels /\ stage' = stage /\ signal' = signal
    BY <1>2 DEF ReadOffsets
  <2>2. QED
    BY <2>1, Quiet
<1>3. ASSUME NEW c, NEW i \in Ranks,
             SendChunk(r, c, i) \/ ReleaseTail(r, c, i) \/ CopyChunk(r, c, i) \/ MoveHead(r, c, i)
      PROVE  Shape' /\ Stutters
  <2>1. prog' = prog /\ kernels' = kernels /\ stage' = stage /\ signal' = signal
    BY <1>3 DEF SendChunk, ReleaseTail, CopyChunk, MoveHead
  <2>2. QED
    BY <2>1, Quiet
<1>4. QED
  BY <1>1, <1>2, <1>3 DEF DispatchStep

LEMMA CombineSteps ==
  ASSUME Shape, NEW r \in Ranks, stage[r] = "run", CombineStep(r)
  PROVE  Shape' /\ Stutters
<1>1. CASE EndCombine(r)
  <2>1. /\ prog' = prog /\ signal' = signal
        /\ kernels' = [kernels EXCEPT ![r] = @ + 1] /\ stage' = [stage EXCEPT ![r] = "idle"]
    BY <1>1 DEF EndCombine
  <2>2. QED
    BY <2>1, Ending
<1>2. ASSUME NEW c, NEW i \in Ranks,
             SendBack(r, c, i) \/ ReleaseTail(r, c, i) \/ Update(r, c, i)
      PROVE  Shape' /\ Stutters
  <2>1. prog' = prog /\ kernels' = kernels /\ stage' = stage /\ signal' = signal
    BY <1>2 DEF SendBack, ReleaseTail, Update
  <2>2. QED
    BY <2>1, Quiet
<1>3. ASSUME NEW c, NEW w \in Warps, Reduce(r, c, w)
      PROVE  Shape' /\ Stutters
  <2>1. prog' = prog /\ kernels' = kernels /\ stage' = stage /\ signal' = signal
    BY <1>3 DEF Reduce
  <2>2. QED
    BY <2>1, Quiet
<1>4. QED
  BY <1>1, <1>2, <1>3 DEF CombineStep

LEMMA Steps ==
  ASSUME Shape, [Next]_vars
  PROVE  Shape' /\ ((\E r \in Ranks : Enters(r) \/ Leaves(r)) \/ Stutters)
<1>1. ASSUME NEW r \in Ranks, HostRun(r)
      PROVE  Shape' /\ Stutters
  <2>1. prog' = prog /\ kernels' = kernels /\ stage' = stage /\ signal' = signal
    BY <1>1 DEF HostRun
  <2>2. QED
    BY <2>1, Quiet
<1>2. ASSUME NEW r \in Ranks, Step(r)
      PROVE  Shape' /\ (Enters(r) \/ Leaves(r) \/ Stutters)
  BY <1>2, StartSteps, Starting, NotifySteps, DispatchSteps, CombineSteps DEF Step, Runs
<1>3. CASE UNCHANGED vars
  <2>1. prog' = prog /\ kernels' = kernels /\ stage' = stage /\ signal' = signal
    BY <1>3 DEF vars
  <2>2. QED
    BY <2>1, Quiet
<1>4. QED
  BY <1>1, <1>2, <1>3 DEF Next

-----------------------------------------------------------------------------
(* The invariant and the refinement.                                       *)

LEMMA IInvInit == Init => IInv
<1> SUFFICES ASSUME Init
             PROVE  IInv
  OBVIOUS
<1>1. Shape
  BY DEF Init, Shape, IsNotify, Notifying
<1>2. \A r \in Ranks : CallOf(r) - 1 = 0 /\ IsNotify(r) /\ stage[r] = "idle"
  BY DEF Init, CallOf, IsNotify
<1>3. \A q, r \in Ranks : EnteredBy(q) = EnteredBy(r) /\ EnteredBy(q) \in Nat
  BY <1>1, <1>2, Position DEF Positioned
<1>4. WordsCount
  BY <1>3 DEF Init, WordsCount
<1>5. QED
  BY <1>1, <1>4 DEF IInv

LEMMA IInvStep == IInv /\ [Next]_vars => IInv'
<1> SUFFICES ASSUME IInv, [Next]_vars
             PROVE  IInv'
  OBVIOUS
<1>0. Shape /\ WordsCount
  BY DEF IInv
<1>1. Shape' /\ ((\E r \in Ranks : Enters(r) \/ Leaves(r)) \/ Stutters)
  BY <1>0, Steps
<1>2. \A q \in Ranks : EnteredBy(q) \in Int
  BY <1>0, EnteredType
<1>3. ASSUME NEW r \in Ranks, Enters(r)
      PROVE  WordsCount'
  <2>1. \A q, i \in Ranks : signal'[q][i] =
           signal[q][i] + (IF q = r THEN 1 ELSE 0) - (IF i = r THEN 1 ELSE 0)
    BY <1>3 DEF Enters, Arrive
  <2>2. \A q \in Ranks : EnteredBy(q)' = EnteredBy(q) + (IF q = r THEN 1 ELSE 0)
    BY <1>2, <1>3 DEF Enters
  <2>3. ASSUME NEW q \in Ranks, NEW i \in Ranks
        PROVE  signal'[q][i] = EnteredBy(q)' - EnteredBy(i)'
    <3>1. signal[q][i] = EnteredBy(q) - EnteredBy(i)
      BY <1>0 DEF WordsCount
    <3>2. /\ signal'[q][i] = signal[q][i] + (IF q = r THEN 1 ELSE 0) - (IF i = r THEN 1 ELSE 0)
          /\ EnteredBy(q)' = EnteredBy(q) + (IF q = r THEN 1 ELSE 0)
          /\ EnteredBy(i)' = EnteredBy(i) + (IF i = r THEN 1 ELSE 0)
      BY <2>1, <2>2
    <3>3. EnteredBy(q) \in Int /\ EnteredBy(i) \in Int
      BY <1>2
    <3>4. QED
      BY <3>1, <3>2, <3>3
  <2>4. QED
    BY <2>3 DEF WordsCount
<1>4. ASSUME NEW r \in Ranks, Leaves(r)
      PROVE  WordsCount'
  <2>1. \A q \in Ranks : EnteredBy(q)' = EnteredBy(q)
    BY <1>4 DEF Leaves
  <2>2. signal' = signal
    BY <1>4 DEF Leaves
  <2>3. QED
    BY <1>0, <2>1, <2>2 DEF WordsCount
<1>5. ASSUME Stutters
      PROVE  WordsCount'
  <2>1. \A q \in Ranks : EnteredBy(q)' = EnteredBy(q)
    BY <1>5 DEF Stutters
  <2>2. signal' = signal
    BY <1>5 DEF Stutters
  <2>3. QED
    BY <1>0, <2>1, <2>2 DEF WordsCount
<1>6. QED
  BY <1>1, <1>3, <1>4, <1>5 DEF IInv

\* Every word of every rank is the distance of two ranks, in all programs.
THEOREM Invariance == Spec => []IInv
BY IInvInit, IInvStep, PTL DEF Spec

\* The counting words, through all the calls of a program, are a barrier.
THEOREM Refinement == Spec => BarrierSpec
<1>1. Init => B!Init
  <2> SUFFICES ASSUME Init
               PROVE  B!Init
    OBVIOUS
  <2>1. Shape
    BY IInvInit DEF IInv
  <2>2. \A r \in Ranks : CallOf(r) - 1 = 0 /\ IsNotify(r) /\ stage[r] = "idle"
    BY DEF Init, CallOf, IsNotify
  <2>3. BarriersUpTo(0) = 0
    <3>1. {m \in 1 .. 0 : prog[m].kind = "dispatch"} = {}
      OBVIOUS
    <3>2. QED
      BY <3>1, FS_EmptySet DEF BarriersUpTo
  <2>4. \A r \in Ranks : EnteredBy(r) = 0 /\ LeftBy(r) = 0
    BY <2>1, <2>2, <2>3, Position DEF Positioned
  <2>5. QED
    BY <2>4 DEF B!Init
<1>2. IInv /\ [Next]_vars => [B!Next]_B!vars
  <2> SUFFICES ASSUME IInv, [Next]_vars
               PROVE  [B!Next]_B!vars
    OBVIOUS
  <2> DEFINE entered == [r \in Ranks |-> EnteredBy(r)]
             left    == [r \in Ranks |-> LeftBy(r)]
  <2>0. Shape /\ WordsCount
    BY DEF IInv
  <2>1. (\E r \in Ranks : Enters(r) \/ Leaves(r)) \/ Stutters
    BY <2>0, Steps
  <2>2. \A q \in Ranks : EnteredBy(q) \in Int /\ LeftBy(q) \in Int
    BY <2>0, EnteredType
  <2>3. ASSUME NEW r \in Ranks, Enters(r)
        PROVE  B!Enter(r)
    <3>1. entered' = [entered EXCEPT ![r] = @ + 1]
      BY <2>3 DEF Enters
    <3>2. left' = left
      BY <2>3 DEF Enters
    <3>3. entered[r] = left[r]
      BY <2>3 DEF Enters
    <3>4. QED
      BY <3>1, <3>2, <3>3 DEF B!Enter
  <2>4. ASSUME NEW r \in Ranks, Leaves(r)
        PROVE  B!Leave(r)
    <3>1. entered' = entered
      BY <2>4 DEF Leaves
    <3>2. left' = [left EXCEPT ![r] = @ + 1]
      BY <2>4 DEF Leaves
    <3>3. left[r] < entered[r]
      BY <2>2, <2>4 DEF Leaves
    <3>4. \A q \in Ranks \ {r} : entered[q] >= entered[r]
      BY <2>0, <2>2, <2>4 DEF Leaves, AllArrived, WordsCount
    <3>5. QED
      BY <3>1, <3>2, <3>3, <3>4 DEF B!Leave
  <2>5. CASE Stutters
    <3>1. entered' = entered /\ left' = left
      BY <2>5 DEF Stutters
    <3>2. QED
      BY <3>1 DEF B!vars
  <2>6. QED
    BY <2>1, <2>3, <2>4, <2>5 DEF B!Next
<1>3. QED
  BY <1>1, <1>2, Invariance, PTL DEF Spec, B!Spec, BarrierSpec

-----------------------------------------------------------------------------
(* The memory of a rank.                                                   *)

LEMMA GreatestNumber ==
  ASSUME NEW S, IsFiniteSet(S), S # {}, \A x \in S : x \in Nat
  PROVE  \E x \in S : \A y \in S : y <= x
<1> DEFINE T == {R \in SUBSET S : R = {} \/ \E x \in R : \A y \in R : y <= x}
<1>1. {} \in T
  OBVIOUS
<1>2. ASSUME NEW R \in SUBSET S, R \in T, NEW z \in S \ R
      PROVE  R \cup {z} \in T
  BY <1>2
<1> HIDE DEF T
<1>4. S \in T
  BY <1>1, <1>2, FiniteInduction
<1> QED BY <1>4 DEF T

\* All words that a call uses are there.
LEMMA AddressFacts ==
  ASSUME prog \in Setups
  PROVE  /\ \A a \in Nat : \A k \in DOMAIN prog : a < CellsOf(prog, k) => a \in Addresses
         /\ \A a \in Nat : a < ExpertAt(NumRanks, 0) => a \in Addresses
         /\ ExpertAt(NumRanks, 0) \in Nat
<1> DEFINE S == {Cells(k) : k \in Calls} \cup {ExpertAt(NumRanks, 0)}
<1>1. ExpertAt(NumRanks, 0) \in Nat
  BY RanksFinite, SizesAssumption DEF ExpertAt, NumCells
<1>3. ASSUME NEW k \in DOMAIN prog
      PROVE  CellsOf(prog, k) \in Nat
  <2>3. 0 \in ChannelsOf(prog, k) /\ 0 \in Ranks
    <3>1. prog[k].channels \in Nat \ {0}
      BY ProgramFacts
    <3> QED BY RanksFinite, <3>1 DEF ChannelsOf, Ranks
  <2> QED BY <2>3, SlotFacts
<1>4. IsFiniteSet(S)
  <2>1. Len(prog) \in Nat /\ DOMAIN prog = 1 .. Len(prog)
    BY ProgramsAssumption
  <2>3. IsFiniteSet({Cells(k) : k \in Calls})
    <3> DEFINE T == {Cells(k) : k \in Calls}
               f == [k \in Calls |-> Cells(k)]
    <3>1. f \in Surjection(Calls, T)
      BY DEF Surjection
    <3> HIDE DEF T, f
    <3> QED BY <2>1, FS_Interval, <3>1, FS_Surjection DEF T, Calls
  <2> QED BY <2>3, FS_AddElement
<1>5. \A x \in S : x \in Nat
  BY <1>1, <1>3 DEF Calls, Cells, CellsOf, Base, BaseOf, NumWords, NumWordsOf, QueueCount
<1>7. Max(S) \in S /\ \A y \in S : y <= Max(S)
  BY <1>5, <1>4, GreatestNumber DEF Max, S
<1>8. Addresses = 0 .. Max(S) - 1
  BY DEF Addresses
<1>9. \A k \in DOMAIN prog : CellsOf(prog, k) \in S
  BY DEF Calls, Cells, CellsOf, Base, BaseOf, NumWords, NumWordsOf, QueueCount
<1>10. ExpertAt(NumRanks, 0) \in S /\ Max(S) \in Nat
  BY <1>5, <1>7
<1> HIDE DEF S
<1> QED BY <1>1, <1>3, <1>7, <1>8, <1>9, <1>10

\* The cells of a queue.
QueueCells(p, k, c, s) ==
  {FieldOf(p, k, n, c, s) : n \in FieldsOf(p, k)} \cup {SlotOf(p, k, c, s, x) : x \in Nat}

LEMMA CellKinds ==
  ASSUME NEW p \in Setups, NEW k \in DOMAIN p, NEW c \in ChannelsOf(p, k), NEW s \in Ranks
  PROVE  /\ HeadOf(p, k, c, s) \in QueueCells(p, k, c, s) /\ TailOf(p, k, c, s) \in QueueCells(p, k, c, s)
         /\ HeadOf(p, k, c, s) # TailOf(p, k, c, s)
         /\ \A x \in Nat : /\ SlotOf(p, k, c, s, x) \in QueueCells(p, k, c, s)
                           /\ \A n \in FieldsOf(p, k) : SlotOf(p, k, c, s, x) # FieldOf(p, k, n, c, s)
                           /\ SlotOf(p, k, c, s, x) # HeadOf(p, k, c, s)
                           /\ SlotOf(p, k, c, s, x) # TailOf(p, k, c, s)
         /\ Dispatches(p, k) =>
              /\ FieldOf(p, k, 0, c, s) \in QueueCells(p, k, c, s) /\ FieldOf(p, k, 1, c, s) \in QueueCells(p, k, c, s)
              /\ FieldOf(p, k, 0, c, s) # FieldOf(p, k, 1, c, s)
              /\ HeadOf(p, k, c, s) \notin {FieldOf(p, k, 0, c, s), FieldOf(p, k, 1, c, s)}
              /\ TailOf(p, k, c, s) \notin {FieldOf(p, k, 0, c, s), FieldOf(p, k, 1, c, s)}
BY FieldFacts, SlotFacts DEF FieldsOf, HeadOf, TailOf, Dispatches, AnyDispatch, QueueCells

LEMMA QueueCellsFacts ==
  ASSUME NEW p \in Setups, NEW k \in DOMAIN p, NEW c \in ChannelsOf(p, k), NEW s \in Ranks
  PROVE  /\ \A a \in QueueCells(p, k, c, s) : a \in Nat /\ a >= BaseOf(p, k) /\ a < CellsOf(p, k)
         /\ \A e \in ChannelsOf(p, k), q \in Ranks :
              (c # e \/ s # q) => QueueCells(p, k, c, s) \cap QueueCells(p, k, e, q) = {}
BY SlotFacts, FieldFacts DEF FieldsOf, QueueCells

\* ... and where all of them are.
LEMMA CellsIn ==
  ASSUME prog \in Setups, NEW k \in DOMAIN prog
  PROVE  /\ \A c \in ChannelsOf(prog, k), s \in Ranks : QueueCells(prog, k, c, s) \subseteq Addresses
         /\ Dispatches(prog, k) => \A c \in ChannelsOf(prog, k), s \in Ranks :
              QueueCells(prog, k, c, s) \cap 0 .. NumCells - 1 = {}
         /\ 0 .. NumCells - 1 \subseteq Addresses
         /\ \A i, d \in Ranks : i * NumRanks + d \in Addresses
         /\ \A i \in Ranks, e \in LocalExperts : ExpertAt(i, e) \in Addresses
<1>1. ASSUME NEW c \in ChannelsOf(prog, k), NEW s \in Ranks
      PROVE  QueueCells(prog, k, c, s) \subseteq Addresses
  BY QueueCellsFacts, AddressFacts
<1>2. ASSUME Dispatches(prog, k), NEW c \in ChannelsOf(prog, k), NEW s \in Ranks
      PROVE  QueueCells(prog, k, c, s) \cap 0 .. NumCells - 1 = {}
  BY <1>2, QueueCellsFacts, CountCells DEF Dispatches, AnyDispatch, BaseOf
<1>3. 0 \in Ranks /\ 0 \in LocalExperts
  BY RanksFinite, SizesAssumption DEF Ranks, LocalExperts
<1> QED BY <1>1, <1>2, <1>3, CountCells, AddressFacts

\* The model's names for what the program says.
LEMMA Bridge ==
  /\ \A k : Source(k) = SourceOf(prog, k) /\ Home(k) = HomeOf(prog, k)
  /\ \A k, r : Rows(k, r) = RowsOf(prog, k, r)
  /\ \A k : Channels(k) = ChannelsOf(prog, k) /\ Queues(k) = QueuesOf(prog, k)
            /\ Base(k) = BaseOf(prog, k) /\ NumWords(k) = NumWordsOf(prog, k)
  /\ \A k, c, s : /\ StartAt(k, c, s) = FieldOf(prog, k, 0, c, s)
                  /\ EndAt(k, c, s) = FieldOf(prog, k, 1, c, s)
                  /\ HeadAt(k, c, s) = HeadOf(prog, k, c, s)
                  /\ TailAt(k, c, s) = TailOf(prog, k, c, s)
  /\ \A k, c, s, n : SlotAt(k, c, s, n) = SlotOf(prog, k, c, s, n)
  /\ Calls = DOMAIN prog
<1>1. \A k : Source(k) = SourceOf(prog, k)
  BY DEF Source, SourceOf
<1>2. \A k : Home(k) = HomeOf(prog, k)
  BY <1>1 DEF Home, HomeOf
<1>3. \A k, r : Rows(k, r) = RowsOf(prog, k, r)
  BY <1>2 DEF Rows, RowsOf
<1>4. \A k : Channels(k) = ChannelsOf(prog, k) /\ Queues(k) = QueuesOf(prog, k)
             /\ Base(k) = BaseOf(prog, k) /\ NumWords(k) = NumWordsOf(prog, k)
  BY DEF Channels, ChannelsOf, Queues, QueuesOf, Base, BaseOf, NumWords, NumWordsOf
<1>8. \A k, c, s, n : SlotAt(k, c, s, n) = SlotOf(prog, k, c, s, n)
  BY <1>4 DEF SlotAt, SlotOf
<1> QED BY <1>1, <1>2, <1>3, <1>4, <1>8 DEF Calls, StartAt, EndAt, HeadAt, TailAt, HeadOf, TailOf, FieldAt,
   FieldOf

-----------------------------------------------------------------------------
(* A queue of dispatch, step by step, whatever the rest of the state.      *)

LEMMA QueueFrame ==
  ASSUME NEW p \in Setups, NEW k \in DOMAIN p, NEW s \in Ranks, NEW d \in Ranks, NEW c \in ChannelsOf(p, k),
         Dispatches(p, k), NEW started, NEW tok, NEW head, NEW rel, NEW m, NEW m2,
         QueueOK(p, k, s, d, c, started, tok, head, rel, m),
         \A a \in QueueCells(p, k, c, s) : m2[a] = m[a]
  PROVE  QueueOK(p, k, s, d, c, started, tok, head, rel, m2)
BY CellKinds, NthFacts DEF QueueOK

\* The queue just cleaned is empty.
LEMMA QueueCleaned ==
  ASSUME NEW p \in Setups, NEW k \in DOMAIN p, NEW s \in Ranks, NEW d \in Ranks, NEW c \in ChannelsOf(p, k),
         Dispatches(p, k), NEW m, \A n \in FieldsOf(p, k) : m[FieldOf(p, k, n, c, s)].int = 0
  PROVE  QueueOK(p, k, s, d, c, FALSE, Edge(p, k, s, c), 0, FALSE, m)
<1>3. p[k].recv \in Nat
  BY ProgramFacts
<1>4. \A t \in InChannel(p, k, s, d, c) : ~(t < Edge(p, k, s, c))
  <2>1. \A t \in InChannel(p, k, s, d, c) : t \in Nat /\ t >= Edge(p, k, s, c) /\ Edge(p, k, s, c) \in Nat
    BY NthFacts, ChannelBounds DEF InChannel
  <2> QED BY <2>1
<1> QED BY NthFacts, <1>3, <1>4 DEF QueueOK, Dispatches, AnyDispatch, FieldsOf, HeadOf, TailOf

\* The sender has stored the two offsets.
LEMMA QueueStarted ==
  ASSUME NEW p \in Setups, NEW k \in DOMAIN p, NEW s \in Ranks, NEW d \in Ranks, NEW c \in ChannelsOf(p, k),
         Dispatches(p, k), NEW tok, NEW head, NEW rel, NEW m, NEW m2,
         QueueOK(p, k, s, d, c, FALSE, tok, head, rel, m),
         m2[FieldOf(p, k, 0, c, s)].int = -Below(p, k, s, d, Edge(p, k, s, c)) - 1,
         m2[FieldOf(p, k, 1, c, s)].int = -Below(p, k, s, d, Edge(p, k, s, c + 1)) - 1,
         \A a \in QueueCells(p, k, c, s) \ {FieldOf(p, k, 0, c, s), FieldOf(p, k, 1, c, s)} : m2[a] = m[a]
  PROVE  QueueOK(p, k, s, d, c, TRUE, tok, head, rel, m2)
BY CellKinds, NthFacts DEF FieldsOf, QueueOK

\* Two places less than a queue apart do not share their slot.
LEMMA SlotsDiffer ==
  ASSUME NEW p \in Setups, NEW k \in DOMAIN p, NEW c \in ChannelsOf(p, k), NEW s \in Ranks,
         NEW x \in Nat, NEW y \in Nat, x < y, y < x + p[k].recv
  PROVE  SlotOf(p, k, c, s, x) # SlotOf(p, k, c, s, y)
BY SlotFacts, SlotsApart

\* The sender puts a token behind those in the queue; the slot is free as it has seen the head.
LEMMA QueueFilled ==
  ASSUME NEW p \in Setups, NEW k \in DOMAIN p, NEW s \in Ranks, NEW d \in Ranks, NEW c \in ChannelsOf(p, k),
         Dispatches(p, k), NEW started, NEW head \in Nat, NEW rel, NEW m, NEW m2,
         NEW tok \in Edge(p, k, s, c) .. Edge(p, k, s, c + 1),
         NEW tok2 \in Edge(p, k, s, c) .. Edge(p, k, s, c + 1), tok <= tok2,
         m[TailOf(p, k, c, s)].int \in Int,
         QueueOK(p, k, s, d, c, started, tok, head, rel, m),
         Nth(p, k, s, d, c, tok2) - head <= p[k].recv,
         \A t \in InChannel(p, k, s, d, c) : tok <= t /\ t < tok2 =>
           m2[SlotOf(p, k, c, s, Nth(p, k, s, d, c, t))].item = TokenOf(p, k, s, d, t),
         \A a \in QueueCells(p, k, c, s) :
           (\A t \in InChannel(p, k, s, d, c) : tok <= t /\ t < tok2 =>
              a # SlotOf(p, k, c, s, Nth(p, k, s, d, c, t))) => m2[a] = m[a]
  PROVE  QueueOK(p, k, s, d, c, started, tok2, head, TRUE, m2)
<1> DEFINE N(t) == Nth(p, k, s, d, c, t)
           I == InChannel(p, k, s, d, c)
           S(x) == SlotOf(p, k, c, s, x)
<1>1. /\ tok \in Nat /\ tok2 \in Nat /\ N(tok) \in Nat /\ N(tok2) \in Nat /\ N(tok) <= N(tok2)
  BY NthFacts
<1>2. \A t \in I : t \in Nat /\ N(t) \in Nat /\ t \in RoutedTo(p, k, s, d) /\ \A b \in Nat : t < b => N(t) < N(b)
  BY NthFacts
<1>5. ASSUME NEW t \in I, t < tok, N(t) >= head
      PROVE  m2[S(N(t))].item = TokenOf(p, k, s, d, t)
  <2>2. ASSUME NEW u \in I, tok <= u, u < tok2
        PROVE  S(N(t)) # S(N(u))
    <3>3. p[k].recv \in Nat
      BY ProgramFacts
    <3> HIDE DEF N
    <3> QED BY <1>2, <1>1, <1>5, <2>2, <3>3, SlotsDiffer DEF N
  <2> QED BY <1>5, <2>2, <1>2, CellKinds DEF QueueOK
<1>6. ASSUME NEW t \in I, t < tok2, N(t) >= head
      PROVE  m2[S(N(t))].item = TokenOf(p, k, s, d, t)
  BY <1>2, <1>5, <1>6, <1>1
<1> QED BY CellKinds, <1>2, <1>6, <1>1 DEF QueueOK, FieldsOf

\* The sender moves the tail over what it has put there.
LEMMA QueueReleased ==
  ASSUME NEW p \in Setups, NEW k \in DOMAIN p, NEW s \in Ranks, NEW d \in Ranks, NEW c \in ChannelsOf(p, k),
         Dispatches(p, k), NEW started, NEW head \in Nat, NEW rel, NEW m, NEW m2,
         NEW tok \in Edge(p, k, s, c) .. Edge(p, k, s, c + 1),
         m[TailOf(p, k, c, s)].int \in Int,
         QueueOK(p, k, s, d, c, started, tok, head, rel, m),
         m2[TailOf(p, k, c, s)].int = Nth(p, k, s, d, c, tok),
         \A a \in QueueCells(p, k, c, s) \ {TailOf(p, k, c, s)} : m2[a] = m[a]
  PROVE  /\ QueueOK(p, k, s, d, c, started, tok, head, FALSE, m2)
         /\ m2[TailOf(p, k, c, s)].int >= m[TailOf(p, k, c, s)].int
<1>3. Nth(p, k, s, d, c, tok) \in Nat
  <2>1. Nth(p, k, s, d, c, tok) \in 0 .. Many(p, k, s, d, c) /\ Many(p, k, s, d, c) \in Nat
    BY NthFacts
  <2> QED BY <2>1
<1> QED BY CellKinds, NthFacts, <1>3 DEF QueueOK

\* The receiver moves the head over what it has copied.
LEMMA QueueMoved ==
  ASSUME NEW p \in Setups, NEW k \in DOMAIN p, NEW s \in Ranks, NEW d \in Ranks, NEW c \in ChannelsOf(p, k),
         Dispatches(p, k), NEW started, NEW head \in Nat, NEW head2 \in Nat, NEW rel, NEW m, NEW m2,
         NEW tok \in Edge(p, k, s, c) .. Edge(p, k, s, c + 1),
         QueueOK(p, k, s, d, c, started, tok, head, rel, m),
         head <= head2, head2 <= m[TailOf(p, k, c, s)].int,
         m2[HeadOf(p, k, c, s)].int = head2,
         \A a \in QueueCells(p, k, c, s) \ {HeadOf(p, k, c, s)} : m2[a] = m[a]
  PROVE  QueueOK(p, k, s, d, c, started, tok, head2, rel, m2)
<1>3. Nth(p, k, s, d, c, tok) \in Nat /\ p[k].recv \in Nat
  <2>1. Nth(p, k, s, d, c, tok) \in 0 .. Many(p, k, s, d, c) /\ Many(p, k, s, d, c) \in Nat
    BY NthFacts
  <2>2. p[k].recv \in Nat
    BY ProgramFacts
  <2> QED BY <2>1, <2>2
<1>4. Nth(p, k, s, d, c, tok) - head2 <= p[k].recv
  BY <1>3 DEF QueueOK
<1> QED BY CellKinds, <1>4, NthFacts DEF QueueOK

-----------------------------------------------------------------------------
(* The rows that dispatch fills.                                           *)

LEMMA RowNth ==
  ASSUME NEW p \in Setups, NEW k \in DOMAIN p, NEW s \in Ranks, NEW d \in Ranks, NEW c \in ChannelsOf(p, k), NEW t \in Nat
  PROVE  /\ Row(p, k, s, d, t) = Row(p, k, s, d, Edge(p, k, s, c)) + Nth(p, k, s, d, c, t)
         /\ Row(p, k, s, d, Edge(p, k, s, c)) \in Nat
         /\ Row(p, k, s, d, Edge(p, k, s, c)) = Pre(p, k, s, d) + Below(p, k, s, d, Edge(p, k, s, c))
<1>2. Below(p, k, s, d, t) \in Nat /\ Below(p, k, s, d, Edge(p, k, s, c)) \in Nat
  BY ChannelBounds, BelowFacts
<1>3. Pre(p, k, s, d) \in Nat
  BY RowFacts
<1> QED BY <1>2, <1>3 DEF Row, Nth

\* Two tokens have two rows, whatever their sources and channels.
LEMMA RowsDiffer ==
  ASSUME NEW p \in Setups, NEW k \in DOMAIN p, NEW d \in Ranks,
         NEW s \in Ranks, NEW c \in ChannelsOf(p, k), NEW t \in InChannel(p, k, s, d, c),
         NEW q \in Ranks, NEW e \in ChannelsOf(p, k), NEW u \in InChannel(p, k, q, d, e),
         s # q \/ c # e
  PROVE  Row(p, k, s, d, t) # Row(p, k, q, d, u)
<1>1. t \in RoutedTo(p, k, s, d) /\ u \in RoutedTo(p, k, q, d) /\ t \in Nat /\ u \in Nat
      /\ t \in OfChannel(p, k, s, c) /\ u \in OfChannel(p, k, q, e)
  BY NthFacts
<1>2. ASSUME NEW a \in Ranks, NEW b \in Ranks, NEW x \in RoutedTo(p, k, a, d), NEW y \in RoutedTo(p, k, b, d), a < b
      PROVE  Row(p, k, a, d, x) # Row(p, k, b, d, y)
  <2>1. x \in Nat /\ y \in Nat
    BY RoutedFacts
  <2> QED BY <2>1, RowFacts, RanksFinite, <1>2, PreMonotone
<1>3. CASE s = q
  <2>2. ASSUME NEW x \in RoutedTo(p, k, s, d), NEW y \in RoutedTo(p, k, s, d), x < y
        PROVE  Row(p, k, s, d, x) # Row(p, k, s, d, y)
    <3>2. Below(p, k, s, d, x) \in Nat /\ Below(p, k, s, d, y) \in Nat /\ Below(p, k, s, d, x) < Below(p, k, s, d, y)
      BY <2>2, RoutedFacts, BelowFacts
    <3> QED BY <3>2, RowFacts DEF Row
  <2> QED BY <1>1, <1>3, <2>2, OneChannel
<1>4. CASE s # q
  BY RanksFinite, <1>4, <1>1, <1>2
<1> QED BY <1>3, <1>4

LEMMA PlaceReached ==
  ASSUME NEW p \in Setups, NEW k \in DOMAIN p, NEW s \in Ranks, NEW d, NEW c \in ChannelsOf(p, k)
  PROVE  \A b \in Edge(p, k, s, c) .. Edge(p, k, s, c + 1) : \A j \in Nat : j < Nth(p, k, s, d, c, b) =>
           \E t \in InChannel(p, k, s, d, c) : t < b /\ Nth(p, k, s, d, c, t) = j
BY NthReached

ChunkIs(p, k, c, s, m, off, head, tail, new) ==
  /\ DOMAIN new = off .. off + tail - head - 1
  /\ \A i \in off .. off + tail - head - 1 : new[i] = m[SlotOf(p, k, c, s, head + i - off)].item

\* A chunk is copied out of the queue: rows off .. off + n - 1 from the places head .. .
ChunkReady(p, k, s, d, c, started, tok, head, rel, m, recv, tail, off, new) ==
  /\ p \in Setups /\ k \in DOMAIN p /\ s \in Ranks /\ d \in Ranks /\ c \in ChannelsOf(p, k) /\ Dispatches(p, k)
  /\ head \in Nat /\ tail \in Nat /\ tok \in Edge(p, k, s, c) .. Edge(p, k, s, c + 1)
  /\ QueueOK(p, k, s, d, c, started, tok, head, rel, m) /\ tail = m[TailOf(p, k, c, s)].int
  /\ TakenOK(p, k, s, d, c, head, recv)
  /\ off = Row(p, k, s, d, Edge(p, k, s, c)) + head
  /\ ChunkIs(p, k, c, s, m, off, head, tail, new)
ChunkDone(p, k, s, d, c, head, recv, tail, off, new) ==
  /\ TakenOK(p, k, s, d, c, tail, Put(recv, new))
  /\ \A i \in off .. off + tail - head - 1 :
        /\ i - Row(p, k, s, d, Edge(p, k, s, c)) \in Nat
        /\ \E t \in InChannel(p, k, s, d, c) : Row(p, k, s, d, t) = i
\* What lies between head and tail is what the receiver expects there.
LEMMA ChunkTaken ==
  ASSUME NEW p, NEW k, NEW s, NEW d, NEW c, NEW started, NEW tok, NEW head, NEW rel, NEW m,
         NEW recv, NEW tail, NEW off, NEW new,
         ChunkReady(p, k, s, d, c, started, tok, head, rel, m, recv, tail, off, new)
  PROVE  ChunkDone(p, k, s, d, c, head, recv, tail, off, new)
<1> /\ p \in Setups /\ k \in DOMAIN p /\ s \in Ranks /\ d \in Ranks /\ c \in ChannelsOf(p, k) /\ Dispatches(p, k)
    /\ head \in Nat /\ tail \in Nat /\ tok \in Edge(p, k, s, c) .. Edge(p, k, s, c + 1)
    /\ QueueOK(p, k, s, d, c, started, tok, head, rel, m) /\ tail = m[TailOf(p, k, c, s)].int
    /\ TakenOK(p, k, s, d, c, head, recv)
    /\ off = Row(p, k, s, d, Edge(p, k, s, c)) + head
    /\ ChunkIs(p, k, c, s, m, off, head, tail, new)
  BY DEF ChunkReady
<1> DEFINE lo == Edge(p, k, s, c)
           R0 == Row(p, k, s, d, lo)
           N(t) == Nth(p, k, s, d, c, t)
           I == InChannel(p, k, s, d, c)
<1>1. R0 \in Nat /\ \A t \in Nat : Row(p, k, s, d, t) = R0 + N(t)
  BY RowNth
<1>2. \A t \in I : t \in Nat /\ N(t) \in Nat
  BY NthFacts
<1>3. N(tok) \in Nat /\ tail <= N(tok)
  BY NthFacts DEF QueueOK
<1>4. off = R0 + head /\ off \in Nat
  BY <1>1
<1>5. ASSUME NEW t \in I, N(t) < tail
      PROVE  /\ Row(p, k, s, d, t) \in DOMAIN Put(recv, new)
             /\ Put(recv, new)[Row(p, k, s, d, t)] = TokenOf(p, k, s, d, t)
  <2>1. t \in Nat /\ N(t) \in Nat /\ Row(p, k, s, d, t) = R0 + N(t)
    BY <1>1, <1>2
  <2>2. CASE N(t) < head
    BY <2>2, <1>1, <1>4, <2>1 DEF TakenOK, ChunkIs, Put
  <2>3. CASE N(t) >= head
    <3>1. R0 + N(t) \in off .. off + tail - head - 1 /\ head + (R0 + N(t)) - off = N(t)
      BY <1>1, <1>4, <1>5, <2>1, <2>3
    <3>3. m[SlotOf(p, k, c, s, N(t))].item = TokenOf(p, k, s, d, t)
      BY <2>3, <1>2, NthFacts, <1>3, <1>5, <2>1 DEF QueueOK
    <3> QED BY <2>1, <3>1, <3>3 DEF Put, ChunkIs
  <2> QED BY <2>2, <2>3, <2>1
<1>6. ASSUME NEW i \in off .. off + tail - head - 1
      PROVE  i - R0 \in Nat /\ \E t \in I : Row(p, k, s, d, t) = i
  BY <1>1, <1>4, <1>3, PlaceReached, <1>2
<1> QED BY <1>6, <1>5 DEF ChunkDone, TakenOK

\* A later row does not disturb those that were written.
LEMMA TakenFrame ==
  ASSUME NEW p \in Setups, NEW k \in DOMAIN p, NEW s \in Ranks, NEW d \in Ranks, NEW c \in ChannelsOf(p, k),
         NEW taken, NEW recv, NEW new, TakenOK(p, k, s, d, c, taken, recv),
         \A t \in InChannel(p, k, s, d, c) : Row(p, k, s, d, t) \notin DOMAIN new
  PROVE  TakenOK(p, k, s, d, c, taken, Put(recv, new))
BY DEF TakenOK, Put

-----------------------------------------------------------------------------
(* A queue of combine, step by step.                                       *)

LEMMA BackFrame ==
  ASSUME NEW p \in Setups, NEW k \in DOMAIN p, NEW s \in Ranks, NEW d \in Ranks, NEW c \in ChannelsOf(p, k),
         NEW sent, NEW sums, NEW m, NEW m2,
         BackOK(p, k, s, d, c, sent, sums, m),
         \A a \in QueueCells(p, k, c, s) : m2[a] = m[a]
  PROVE  BackOK(p, k, s, d, c, sent, sums, m2)
BY CellKinds, NthFacts DEF BackOK

\* The way back, cleaned: nothing in it.
LEMMA BackCleaned ==
  ASSUME NEW p \in Setups, NEW k \in DOMAIN p, NEW s \in Ranks, NEW d \in Ranks, NEW c \in ChannelsOf(p, k),
         Combines(p, k), NEW sums, NEW m, \A n \in FieldsOf(p, k) : m[FieldOf(p, k, n, c, s)].int = 0
  PROVE  BackOK(p, k, s, d, c, 0, sums, m)
BY NthFacts DEF Combines, FieldsOf, HeadOf, TailOf, BackOK

\* A rank puts a returned token behind those it has returned.
LEMMA BackFilled ==
  ASSUME NEW p \in Setups, NEW k \in DOMAIN p, NEW s \in Ranks, NEW d \in Ranks, NEW c \in ChannelsOf(p, k),
         NEW sent \in Nat, NEW sums, NEW m, NEW m2, NEW n \in Nat,
         m[HeadOf(p, k, c, s)].int \in Int, m[TailOf(p, k, c, s)].int \in Int,
         BackOK(p, k, s, d, c, sent, sums, m),
         sent + n - m[HeadOf(p, k, c, s)].int <= p[k].recv,
         \A t \in InChannel(p, k, d, s, c) : sent <= Nth(p, k, d, s, c, t) /\ Nth(p, k, d, s, c, t) < sent + n =>
           m2[SlotOf(p, k, c, s, Nth(p, k, d, s, c, t))].item = Returned(k, s, d, t),
         \A a \in QueueCells(p, k, c, s) :
           (\A x \in sent .. sent + n - 1 : a # SlotOf(p, k, c, s, x)) => m2[a] = m[a]
  PROVE  BackOK(p, k, s, d, c, sent + n, sums, m2)
<1>2. /\ m2[HeadOf(p, k, c, s)] = m[HeadOf(p, k, c, s)]
      /\ m2[TailOf(p, k, c, s)] = m[TailOf(p, k, c, s)]
  BY CellKinds
<1>4. ASSUME NEW t \in InChannel(p, k, d, s, c), t \notin sums
      PROVE  /\ Nth(p, k, d, s, c, t) >= m2[HeadOf(p, k, c, s)].int
             /\ Nth(p, k, d, s, c, t) < sent + n =>
                  m2[SlotOf(p, k, c, s, Nth(p, k, d, s, c, t))].item = Returned(k, s, d, t)
  <2> DEFINE x == Nth(p, k, d, s, c, t)
  <2>1. x >= m[HeadOf(p, k, c, s)].int /\ x \in Nat
    BY NthFacts, <1>4 DEF BackOK
  <2>2. CASE x < sent
    <3>2. p[k].recv \in Nat
      BY ProgramFacts
    <3>3. ASSUME NEW y \in sent .. sent + n - 1
          PROVE  SlotOf(p, k, c, s, x) # SlotOf(p, k, c, s, y)
      BY <2>1, <2>2, <3>2, SlotsDiffer
    <3> QED BY <1>2, <2>1, <1>4, <2>2, <3>3, CellKinds DEF BackOK
  <2>3. CASE x >= sent
    BY <1>2, <2>1, <2>3
  <2> QED BY <2>1, <2>2, <2>3
<1> QED BY <1>4, <1>2 DEF BackOK

\* A rank moves the tail over what it has put there.
LEMMA BackReleased ==
  ASSUME NEW p \in Setups, NEW k \in DOMAIN p, NEW s \in Ranks, NEW d \in Ranks, NEW c \in ChannelsOf(p, k),
         NEW sent \in Nat, NEW sums, NEW m, NEW m2,
         m[TailOf(p, k, c, s)].int \in Int,
         BackOK(p, k, s, d, c, sent, sums, m),
         m2[TailOf(p, k, c, s)].int = sent,
         \A a \in QueueCells(p, k, c, s) \ {TailOf(p, k, c, s)} : m2[a] = m[a]
  PROVE  /\ BackOK(p, k, s, d, c, sent, sums, m2)
         /\ m2[TailOf(p, k, c, s)].int >= m[TailOf(p, k, c, s)].int
BY CellKinds, NthFacts DEF BackOK

\* The head follows the slowest warp, so no token still to be added is given up.
LEMMA BackMoved ==
  ASSUME NEW p \in Setups, NEW k \in DOMAIN p, NEW s \in Ranks, NEW d \in Ranks, NEW c \in ChannelsOf(p, k),
         NEW sent, NEW sums, NEW m, NEW m2,
         BackOK(p, k, s, d, c, sent, sums, m),
         \A t \in InChannel(p, k, d, s, c) : t \notin sums => Nth(p, k, d, s, c, t) >= m2[HeadOf(p, k, c, s)].int,
         \A a \in QueueCells(p, k, c, s) \ {HeadOf(p, k, c, s)} : m2[a] = m[a]
  PROVE  BackOK(p, k, s, d, c, sent, sums, m2)
BY CellKinds, NthFacts DEF BackOK

-----------------------------------------------------------------------------
(* The warps take turns.                                                   *)

LEMMA TurnFacts ==
  ASSUME NEW p \in Setups, NEW k \in DOMAIN p, NEW d \in Ranks, NEW c \in ChannelsOf(p, k)
  PROVE  LET T(t) == TurnOf(p, k, d, c, t)
             lo == Edge(p, k, d, c)
         IN  /\ lo \in Nat /\ NumCombineWarps \in Nat \ {0}
             /\ \A t \in Nat : t >= lo => T(t) \in Warps
             /\ \A t \in Nat : t >= lo => T(t + NumCombineWarps) = T(t)
             /\ \A t, u \in Nat : lo <= t /\ t <= u /\ u < t + NumCombineWarps /\ T(t) = T(u) => t = u
             /\ \A w \in Warps : lo + w - 1 \in Nat /\ T(lo + w - 1) = w
             /\ \A t \in Nat : t >= lo => lo + T(t) - 1 <= t
<1> DEFINE W == NumCombineWarps
           lo == Edge(p, k, d, c)
           T(t) == TurnOf(p, k, d, c, t)
<1>1. W \in Nat \ {0}
  BY SizesAssumption
<1>2. lo \in Nat
  BY ChannelBounds
<1>3. \A t \in Int : T(t) = ((t - lo) % W) + 1
  BY DEF TurnOf
<1>4. Warps = 1 .. W
  BY DEF Warps
<1> HIDE DEF W, lo, T
<1>5. ASSUME NEW x \in Nat
      PROVE  x \div W \in Nat /\ x % W \in 0 .. W - 1 /\ x = (x \div W) * W + (x % W) /\ x % W <= x
  BY <1>1
<1>6. ASSUME NEW x \in Nat, NEW y \in Nat, x <= y, y < x + W, x % W = y % W
      PROVE  x = y
  <2> SUFFICES ASSUME x # y
               PROVE  FALSE
    OBVIOUS
  <2>1. x < y
    BY <1>6
  <2> QED BY <1>6, <1>1, <2>1, SlotsApart
<1>7. ASSUME NEW x \in Nat
      PROVE  (x + W) % W = x % W
  <2> DEFINE a == x \div W
             i == x % W
             b == (x + W) \div W
             j == (x + W) % W
  <2>1. a \in Nat /\ i \in 0 .. W - 1 /\ x = a * W + i
    BY <1>5
  <2>3. b \in Nat /\ j \in 0 .. W - 1 /\ x + W = b * W + j
    BY <1>5, <1>1
  <2> HIDE DEF a, b, i, j
  <2>6. i = j
    BY <1>1, <2>1, <2>3, Mixed
  <2> QED BY <2>6 DEF i, j
<1>8. ASSUME NEW t \in Nat, t >= lo
      PROVE  t - lo \in Nat /\ T(t) \in Warps /\ T(t + W) = T(t) /\ lo + T(t) - 1 <= t
  <2>1. t - lo \in Nat
    BY <1>2, <1>8
  <2>2. (t - lo) % W \in 0 .. W - 1 /\ (t - lo) % W <= t - lo
    BY <1>5, <2>1
  <2>4. T(t + W) = T(t)
    <3>1. t + W - lo = (t - lo) + W
      BY <1>1, <1>2
    <3>4. (t + W - lo) % W = (t - lo) % W
      BY <3>1, <1>7, <2>1
    <3> QED BY <1>1, <1>2, <1>3, <3>4
  <2>5. lo + T(t) - 1 <= t
    <3>1. T(t) = ((t - lo) % W) + 1
      BY <1>1, <1>2, <1>3
    <3> DEFINE i == (t - lo) % W
    <3> HIDE DEF i, T
    <3> QED BY <1>2, <1>1, <2>2, <3>1
  <2> QED BY <2>1, <1>1, <1>3, <1>4, <2>2, <2>4, <2>5
<1>9. ASSUME NEW t \in Nat, NEW u \in Nat, lo <= t, t <= u, u < t + W, T(t) = T(u)
      PROVE  t = u
  <2> DEFINE x == t - lo
             y == u - lo
  <2>1. x \in Nat /\ y \in Nat /\ x <= y /\ y < x + W
    BY <1>1, <1>2, <1>9
  <2>2. x % W = y % W
    BY <1>5, <2>1, <1>3, <1>9, <1>1
  <2> HIDE DEF x, y
  <2> QED BY <1>2, <1>6, <2>1, <2>2 DEF x, y
<1>10. ASSUME NEW w \in Warps
       PROVE  lo + w - 1 \in Nat /\ T(lo + w - 1) = w
  <2>3. T(lo + w - 1) = ((lo + w - 1 - lo) % W) + 1
    BY <1>1, <1>2, <1>4, <1>3
  <2> QED BY <1>1, <1>2, <1>4, <2>3
<1> QED BY <1>1, <1>2, <1>8, <1>9, <1>10 DEF W, lo, T

\* What a warp knows of the heads, and what has been added up, before and after a token.
LEMMA WarpStarted ==
  ASSUME NEW p \in Setups, NEW k \in DOMAIN p, NEW d \in Ranks, NEW c \in ChannelsOf(p, k), NEW w \in Warps,
         NEW v, v.tok = Edge(p, k, d, c) + w - 1, v.retired = (v.tok >= Edge(p, k, d, c + 1)),
         \A s \in Ranks : v.heads[s] = 0
  PROVE  WarpOK(p, k, d, c, w, v)
BY TurnFacts, SizesAssumption, NthFacts DEF Warps, WarpOK

\* A warp goes on to the token one round of warps later.
LEMMA WarpMoved ==
  ASSUME NEW p \in Setups, NEW k \in DOMAIN p, NEW d \in Ranks, NEW c \in ChannelsOf(p, k), NEW w \in Warps,
         NEW v, NEW v2, v.tok \in Nat, WarpOK(p, k, d, c, w, v), v.tok \in OfChannel(p, k, d, c),
         NEW head, FixedOK(p, k, d, head),
         \A s \in Ranks : v.tok \in RoutedTo(p, k, d, s) => head[<<v.tok, s>>] = Nth(p, k, d, s, c, v.tok),
         \A s \in Ranks : v.tok \notin RoutedTo(p, k, d, s) => head[<<v.tok, s>>] \in Int /\ head[<<v.tok, s>>] < 0,
         v2.tok = v.tok + NumCombineWarps, v2.retired = (v2.tok >= Edge(p, k, d, c + 1)),
         \A s \in Ranks : v2.heads[s] = IF head[<<v.tok, s>>] < 0 THEN -head[<<v.tok, s>>] - 1
                                        ELSE head[<<v.tok, s>>] + 1
  PROVE  WarpOK(p, k, d, c, w, v2) /\ \A s \in Ranks : v2.heads[s] \in Nat
<1> DEFINE t == v.tok
           lo == Edge(p, k, d, c)
<1>1. t \in Nat /\ lo \in Nat /\ t >= lo /\ NumCombineWarps \in Nat \ {0}
  BY TurnFacts DEF WarpOK
<1>4. ASSUME NEW s \in Ranks
      PROVE  /\ v2.heads[s] \in Nat
             /\ \A u \in InChannel(p, k, d, s, c) : u >= v2.tok => Nth(p, k, d, s, c, u) >= v2.heads[s]
  <2>0. \A u \in InChannel(p, k, d, s, c) : u \in Nat /\ Nth(p, k, d, s, c, u) \in Nat
    BY NthFacts
  <2>1. CASE t \in RoutedTo(p, k, d, s)
    <3>2. Nth(p, k, d, s, c, t) \in Nat
      BY <2>0, ChannelBounds, <1>1, <2>1 DEF InChannel, OfChannel
    <3>3. v2.heads[s] = Nth(p, k, d, s, c, t) + 1
      <4>2. ~(head[<<t, s>>] < 0)
        BY <3>2, <2>1
      <4> QED BY <2>1, <4>2
    <3>4. ASSUME NEW u \in InChannel(p, k, d, s, c), u >= v2.tok
          PROVE  Nth(p, k, d, s, c, u) >= v2.heads[s]
      BY <1>1, <2>0, <3>4, <2>1, NthFacts, <3>2, <3>3
    <3> QED BY <3>2, <3>3, <3>4
  <2>2. CASE t \notin RoutedTo(p, k, d, s)
    <3>1. v2.heads[s] = IF NoMore(p, k, d, s, c, t) THEN BigHead ELSE Nth(p, k, d, s, c, t)
      BY <2>2 DEF FixedOK
    <3>2. CASE NoMore(p, k, d, s, c, t)
      BY <1>1, <2>0, <3>2, <3>1 DEF BigHead, NoMore
    <3>3. CASE ~NoMore(p, k, d, s, c, t)
      <4>2. Nth(p, k, d, s, c, t) \in Nat
        <5>1. t \in lo .. Edge(p, k, d, c + 1)
          BY ChannelBounds, <1>1 DEF OfChannel
        <5>2. Nth(p, k, d, s, c, t) \in 0 .. Many(p, k, d, s, c) /\ Many(p, k, d, s, c) \in Nat
          BY <5>1, NthFacts
        <5> QED BY <5>2
      <4> QED BY <3>1, <3>3, <1>1, <2>0, NthFacts, <4>2
    <3> QED BY <3>2, <3>3
  <2> QED BY <2>1, <2>2
<1> QED BY <1>1, TurnFacts, <1>4 DEF WarpOK

LEMMA AddedStarted ==
  ASSUME NEW p \in Setups, NEW k \in DOMAIN p, NEW d \in Ranks, NEW c \in ChannelsOf(p, k), NEW ws,
         \A w \in Warps : ws[<<c, w>>].tok = Edge(p, k, d, c) + w - 1
  PROVE  AddedOK(p, k, d, c, ws, {})
<1> SUFFICES ASSUME NEW t \in OfChannel(p, k, d, c)
             PROVE  ~(t < ws[<<c, TurnOf(p, k, d, c, t)>>].tok)
  BY DEF AddedOK
<1>1. t \in Nat /\ Edge(p, k, d, c) \in Nat /\ t >= Edge(p, k, d, c)
  BY ChannelBounds DEF OfChannel
<1> QED BY <1>1, TurnFacts, SizesAssumption DEF Warps

\* Exactly the tokens that the warps are past have been added.
LEMMA AddedMoved ==
  ASSUME NEW p \in Setups, NEW k \in DOMAIN p, NEW d \in Ranks, NEW c \in ChannelsOf(p, k), NEW w \in Warps,
         NEW ws, NEW ws2, NEW sums, ws[<<c, w>>].tok \in Nat, WarpOK(p, k, d, c, w, ws[<<c, w>>]),
         AddedOK(p, k, d, c, ws, sums),
         ws2[<<c, w>>].tok = ws[<<c, w>>].tok + NumCombineWarps,
         \A x \in Warps \ {w} : ws2[<<c, x>>] = ws[<<c, x>>]
  PROVE  AddedOK(p, k, d, c, ws2, sums \cup {ws[<<c, w>>].tok})
<1> DEFINE tok == ws[<<c, w>>].tok
<1> SUFFICES ASSUME NEW t \in OfChannel(p, k, d, c)
             PROVE  (t \in sums \cup {tok}) = (t < ws2[<<c, TurnOf(p, k, d, c, t)>>].tok)
  BY DEF AddedOK
<1>1. t \in Nat /\ Edge(p, k, d, c) \in Nat /\ t >= Edge(p, k, d, c)
  BY ChannelBounds DEF OfChannel
<1>4. (t \in sums) = (t < ws[<<c, TurnOf(p, k, d, c, t)>>].tok)
  BY DEF AddedOK
<1>5. CASE TurnOf(p, k, d, c, t) = w
  BY <1>4, <1>5, <1>1, SizesAssumption, TurnFacts DEF WarpOK
<1>6. CASE TurnOf(p, k, d, c, t) # w
  BY SizesAssumption, <1>6, <1>1, TurnFacts, <1>4 DEF WarpOK
<1> QED BY <1>5, <1>6

-----------------------------------------------------------------------------
(* Calls that share their routing.                                         *)

LEMMA SameRouting ==
  ASSUME NEW p \in Setups, NEW k \in DOMAIN p, NEW h, h = HomeOf(p, k) \/ (p[k].kind # "dispatch" /\ h = p[k].of)
  PROVE  /\ h \in DOMAIN p /\ p[h].channels = p[k].channels
         /\ ChannelsOf(p, h) = ChannelsOf(p, k) /\ QueuesOf(p, h) = QueuesOf(p, k)
         /\ \A s \in Ranks : RowsOf(p, h, s) = RowsOf(p, k, s)
         /\ \A s \in Ranks : \A d : RoutedTo(p, h, s, d) = RoutedTo(p, k, s, d)
         /\ \A s \in Ranks : \A c : Edge(p, h, s, c) = Edge(p, k, s, c)
         /\ \A s \in Ranks : \A d, t : Below(p, h, s, d, t) = Below(p, k, s, d, t)
         /\ \A s \in Ranks : \A d, c : /\ InChannel(p, h, s, d, c) = InChannel(p, k, s, d, c)
                                       /\ Many(p, h, s, d, c) = Many(p, k, s, d, c)
                                       /\ \A t : Nth(p, h, s, d, c, t) = Nth(p, k, s, d, c, t)
         /\ \A d, s : Pre(p, h, s, d) = Pre(p, k, s, d)
         /\ \A s \in Ranks : \A d, t : Row(p, h, s, d, t) = Row(p, k, s, d, t)
<1>6. \A s \in Ranks : \A d, t : Below(p, h, s, d, t) = Below(p, k, s, d, t)
  BY RowsFacts DEF Below, RoutedTo
<1> QED BY HomeFacts, ProgramFacts, RowsFacts, <1>6 DEF InChannel, Nth, Many, Row, ChannelsOf, QueuesOf, Edge,
   Pre, RoutedTo

-----------------------------------------------------------------------------
(* The barriers keep the ranks together.                                   *)

LEMMA TogetherInit == Init => Together
BY IInvInit, Position DEF IInv, Init, CallOf, IsNotify, Positioned, Together

LEMMA TogetherStep ==
  ASSUME IInv, Together, [Next]_vars
  PROVE  Together'
BY Steps, EnteredType DEF IInv, Enters, Together, Leaves, AllArrived, WordsCount, Stutters

\* Later calls have at least as many barriers before them.
LEMMA BarriersMonotone ==
  ASSUME NEW j \in Nat, NEW k \in Nat, j <= k
  PROVE  BarriersUpTo(j) \in Nat /\ BarriersUpTo(k) \in Nat /\ BarriersUpTo(j) <= BarriersUpTo(k)
<1> DEFINE T == {i \in Nat : BarriersUpTo(j) <= BarriersUpTo(j + i)}
<1>1. \A i \in Nat : BarriersUpTo(i) \in Nat /\ BarriersUpTo(i) <= BarriersUpTo(i + 1)
  BY OneCallMore
<1>2. 0 \in T
  BY <1>1
<1>3. ASSUME NEW i \in Nat, i \in T
      PROVE  i + 1 \in T
  BY <1>1, <1>3
<1> HIDE DEF T
<1>4. \A i \in Nat : i \in T
  BY <1>2, <1>3, Induction
<1>5. k - j \in Nat /\ j + (k - j) = k
  OBVIOUS
<1> QED BY <1>1, <1>4, <1>5 DEF T

\* Where a rank is, relative to call k.
LEMMA WhereFacts ==
  ASSUME Shape, NEW r \in Ranks, NEW k \in Nat \ {0}
  PROVE  /\ kernels[r] >= 2 * k - 1 => LeftBy(r) >= BarriersUpTo(k)
         /\ ~Cleans(r, k) => EnteredBy(r) <= BarriersUpTo(k) - 1
         /\ Passed(kernels[r], stage[r], k) => LeftBy(r) >= BarriersUpTo(k - 1) + 1
         /\ ~Opens(r, k) => EnteredBy(r) <= BarriersUpTo(k - 1)
         /\ prog[k].kind = "dispatch" /\ (Cleans(r, k) \/ (kernels[r] = 2 * k - 2 /\ stage[r] = "clean")) =>
              LeftBy(r) >= BarriersUpTo(k - 1) + 2
         /\ prog[k].kind = "dispatch" /\ ~Writes(r, k) => EnteredBy(r) <= BarriersUpTo(k - 1) + 1
         /\ LeftBy(r) \in Int /\ EnteredBy(r) \in Int /\ BarriersUpTo(k) \in Nat /\ BarriersUpTo(k - 1) \in Nat
<1> DEFINE n == kernels[r]
           a == CallOf(r)
           before == BarriersUpTo(a - 1)
           upTo == BarriersUpTo(a)
<1>1. n \in Nat /\ a \in Nat \ {0} /\ (IsNotify(r) => n = 2 * a - 2) /\ (~IsNotify(r) => n = 2 * a - 1)
  <2>1. n \in Nat
    BY DEF Shape
  <2>2. n \div 2 \in Nat /\ n = 2 * (n \div 2) + (n % 2) /\ n % 2 \in {0, 1}
    BY <2>1
  <2> QED BY <2>1, <2>2 DEF CallOf, IsNotify
<1>3. /\ before \in Nat /\ upTo \in Nat /\ upTo = before + (IF prog[a].kind = "dispatch" THEN 3 ELSE 2)
      /\ ~IsNotify(r) => EnteredBy(r) = upTo /\ LeftBy(r) = upTo
      /\ stage[r] = "idle" /\ IsNotify(r) => EnteredBy(r) = before /\ LeftBy(r) = before
      /\ stage[r] = "open" => EnteredBy(r) = before + 1 /\ LeftBy(r) = before
      /\ stage[r] = "write" => EnteredBy(r) = before + 1 /\ LeftBy(r) = before + 1
      /\ stage[r] = "exchange" => EnteredBy(r) = upTo - 1 /\ LeftBy(r) = upTo - 2
      /\ stage[r] = "clean" => EnteredBy(r) = upTo - 1 /\ LeftBy(r) = upTo - 1
      /\ stage[r] = "close" => EnteredBy(r) = upTo /\ LeftBy(r) = upTo - 1
  BY Position DEF Positioned, Now
<1>6. /\ BarriersUpTo(k - 1) \in Nat /\ BarriersUpTo(k) \in Nat
      /\ BarriersUpTo(k) = BarriersUpTo(k - 1) + (IF prog[k].kind = "dispatch" THEN 3 ELSE 2)
  BY OneCallMore
<1>7. EnteredBy(r) \in Int /\ LeftBy(r) \in Int
  BY EnteredType
<1> DEFINE st == stage[r]
           Bk == BarriersUpTo(k)
           Bj == BarriersUpTo(k - 1)
           E == EnteredBy(r)
           L == LeftBy(r)
           disp == prog[a].kind = "dispatch"
           dk == prog[k].kind = "dispatch"
           notify == IsNotify(r)
<1>10. /\ n >= 2 * k - 1 => L >= Bk
       /\ ~Cleaned(n, st, k) => E <= Bk - 1
       /\ Passed(n, st, k) => L >= Bj + 1
       /\ ~Opened(n, st, k) => E <= Bj
       /\ dk /\ (Cleaned(n, st, k) \/ (n = 2 * k - 2 /\ st = "clean")) => L >= Bj + 2
       /\ dk /\ ~Wrote(n, st, k) => E <= Bj + 1
  <2>1. /\ notify => L >= before /\ E <= upTo /\ L <= upTo
        /\ ~notify => L = upTo /\ E = upTo
        /\ L >= before /\ E <= upTo
    BY <1>3, <1>7 DEF Notifying, E, L, Shape
  <2>2. CASE a > k
    BY <1>1, <2>2, <1>3, BarriersMonotone, <1>6, <1>7, <2>1 DEF Bk, Bj, E, L, Cleaned, Opened, Wrote
  <2>3. CASE a < k
    BY <1>1, <2>3, <1>3, BarriersMonotone, <1>6, <1>7, <2>1 DEF Bk, Bj, E, L, Passed, Cleaned
  <2>4. CASE a = k
    BY <1>1, <1>6, <2>1, <2>4, <1>3 DEF Cleaned, Opened, Wrote, Notifying, Passed, Shape, Now
  <2> QED BY <1>1, <2>2, <2>3, <2>4
<1> QED BY <1>6, <1>7, <1>10 DEF Cleans, Opens, Writes

\* No two ranks are in calls, or stages of one, that the barriers keep apart.
LEMMA Apart ==
  ASSUME Shape, Together, NEW r \in Ranks, NEW q \in Ranks, NEW k \in Nat \ {0}
  PROVE  /\ kernels[r] >= 2 * k - 1 => Cleans(q, k)
         /\ Passed(kernels[r], stage[r], k) => Opens(q, k)
         /\ prog[k].kind = "dispatch" /\ (Cleans(r, k) \/ (kernels[r] = 2 * k - 2 /\ stage[r] = "clean")) =>
              Writes(q, k)
BY WhereFacts DEF Together

\* While a rank is between the kernels of call k or in the second, all are in that call.
LEMMA WorkApart ==
  ASSUME Shape, Together, NEW r \in Ranks, NEW k \in Nat \ {0}, kernels[r] = 2 * k - 1
  PROVE  /\ \A q \in Ranks : Cleans(q, k) /\ Opens(q, k) /\ Writes(q, k)
         /\ \A q \in Ranks, j \in Nat \ {0} : Lives(q, j) => j = k
         /\ \A q \in Ranks, j \in Nat \ {0} : Works(q, j) => j = k
         /\ \A s, d \in Ranks, j \in Nat \ {0} : Writes(s, j) => Cleans(d, j)
         /\ \A q \in Ranks, j \in Nat \ {0} : j < k => Dones(q, j) /\ Opens(q, j)
         /\ \A q \in Ranks, j \in Nat \ {0} : j > k => ~Cleans(q, j) /\ ~Starts(q, j) /\ ~Dones(q, j)
<1>0. \A q \in Ranks : kernels[q] \in Nat
  BY DEF Shape
<1>1. \A q \in Ranks : Cleans(q, k)
  BY <1>0, Apart
<1>3. ASSUME NEW q \in Ranks, NEW j \in Nat \ {0}, Passed(kernels[q], stage[q], j)
      PROVE  j <= k
  BY <1>3, Apart DEF Opens, Opened
<1>4. \A q \in Ranks, j \in Nat \ {0} : (Cleans(q, j) \/ Writes(q, j)) => Passed(kernels[q], stage[q], j)
  BY DEF Cleans, Cleaned, Writes, Wrote, Passed
<1>5. \A q \in Ranks, j \in Nat \ {0} : j < k => kernels[q] >= 2 * j
  BY <1>0, <1>1 DEF Cleans, Cleaned
<1>6. \A q \in Ranks, j \in Nat \ {0} : kernels[q] >= 2 * j => Dones(q, j) /\ Opens(q, j) /\ Cleans(q, j)
  BY <1>0 DEF Dones, Done, Opens, Opened, Cleans, Cleaned
<1>7. \A q \in Ranks, j \in Nat \ {0} : (Starts(q, j) \/ Dones(q, j)) => Cleans(q, j)
  BY <1>0 DEF Starts, Started, Dones, Done, Cleans, Cleaned
<1>8. \A q \in Ranks, j \in Nat \ {0} : Works(q, j) => Lives(q, j)
  BY <1>0 DEF Works, Running, Lives, Live, Cleaned, Done
<1>12. \A q \in Ranks : Opens(q, k) /\ Writes(q, k)
  BY <1>1 DEF Cleans, Cleaned, Opens, Opened, Writes, Wrote
<1> QED BY <1>1, <1>5, <1>6, <1>7, <1>8, <1>3, <1>4, <1>12 DEF Lives, Live, Cleans, Dones

\* While a rank is past the first barrier of call k and has not cleaned yet.
LEMMA NotifyApart ==
  ASSUME Shape, Together, NEW r \in Ranks, NEW k \in Nat \ {0}, kernels[r] = 2 * k - 2, stage[r] \in {"write", "clean"}
  PROVE  /\ \A q \in Ranks : Opens(q, k)
         /\ \A q \in Ranks, j \in Nat \ {0} : j < k => Dones(q, j) /\ Cleans(q, j)
         /\ \A q \in Ranks, j \in Nat \ {0} : j > k => ~Cleans(q, j) /\ ~Writes(q, j)
         /\ \A q \in Ranks, j \in Nat \ {0} : j >= k => ~Starts(q, j) /\ ~Dones(q, j)
         /\ \A j \in Nat \ {0} : ~Lives(r, j)
         /\ \A q \in Ranks, j \in Nat \ {0} : Lives(q, j) => j = k
         /\ prog[k].kind = "dispatch" /\ stage[r] = "write" => \A q \in Ranks : ~Cleans(q, k)
         /\ prog[k].kind = "dispatch" /\ stage[r] = "clean" => \A q \in Ranks : Writes(q, k)
         /\ ~Cleans(r, k)
<1>0. \A q \in Ranks : kernels[q] \in Nat
  BY DEF Shape
<1>1. Passed(kernels[r], stage[r], k) /\ ~Cleans(r, k)
  BY <1>0 DEF Passed, Cleans, Cleaned
<1>2. \A q \in Ranks : Opens(q, k)
  BY <1>1, Apart
<1>4. \A q \in Ranks, j \in Nat \ {0} : j < k => Dones(q, j) /\ Cleans(q, j)
  BY <1>0, <1>2 DEF Dones, Done, Cleans, Cleaned, Opens, Opened
<1>5. ASSUME NEW q \in Ranks, NEW j \in Nat \ {0}, Passed(kernels[q], stage[q], j)
      PROVE  j <= k
  <2>1. Opens(r, j)
    BY <1>5, Apart
  <2>2. kernels[r] >= 2 * j - 2
    BY <2>1 DEF Opens, Opened
  <2> QED BY <2>2
<1>7. \A q \in Ranks, j \in Nat \ {0} : j > k => ~Cleans(q, j) /\ ~Writes(q, j)
  BY <1>5 DEF Cleans, Cleaned, Writes, Wrote, Passed
<1>10. \A j \in Nat \ {0} : ~Lives(r, j)
  BY <1>0 DEF Lives, Live, Cleaned, Done
<1>11. \A q \in Ranks, j \in Nat \ {0} : Lives(q, j) => j = k
  BY <1>4, <1>7 DEF Lives, Live, Cleans, Dones
<1>12. ASSUME prog[k].kind = "dispatch", stage[r] = "write"
       PROVE  \A q \in Ranks : ~Cleans(q, k)
  BY <1>0, <1>12, Apart DEF Writes, Wrote
<1>13. ASSUME prog[k].kind = "dispatch", stage[r] = "clean"
       PROVE  \A q \in Ranks : Writes(q, k)
  BY <1>13, Apart
<1> QED BY <1>1, <1>2, <1>4, <1>7, <1>0, Apart, <1>10, <1>11, <1>12, <1>13 DEF Starts, Started, Dones, Done

-----------------------------------------------------------------------------
(* What a step leaves alone.                                               *)

Still == prog' = prog /\ kernels' = kernels /\ stage' = stage
KeepNums    == \A r \in Ranks, k \in DOMAIN prog :
  handle'[r][k].num = handle[r][k].num /\ handle'[r][k].experts = handle[r][k].experts
KeepPrefix  == \A r \in Ranks, k \in DOMAIN prog : handle'[r][k].channelPrefix = handle[r][k].channelPrefix
KeepTensor  == \A r \in Ranks, k \in DOMAIN prog : handle'[r][k].rankPrefix = handle[r][k].rankPrefix
KeepChannel == \A r \in Ranks, k \in DOMAIN prog : handle'[r][k].recvChannel = handle[r][k].recvChannel
KeepHead    == \A r \in Ranks, k \in DOMAIN prog : handle'[r][k].head = handle[r][k].head
KeepRecv    == \A r \in Ranks, k \in DOMAIN prog : handle'[r][k].recv = handle[r][k].recv
KeepSums    == \A r \in Ranks, k \in DOMAIN prog : handle'[r][k].sums = handle[r][k].sums
KeepHandles == KeepNums /\ KeepPrefix /\ KeepTensor /\ KeepChannel /\ KeepHead /\ KeepRecv /\ KeepSums

LEMMA KeepAll == ASSUME handle' = handle PROVE KeepHandles
BY DEF KeepHandles, KeepNums, KeepPrefix, KeepTensor, KeepChannel, KeepHead, KeepRecv, KeepSums

\* Nobody moves from one phase to the next.
LEMMA StillPhases ==
  ASSUME Still
  PROVE  \A r \in Ranks : \A k : /\ Opens(r, k)' = Opens(r, k) /\ Writes(r, k)' = Writes(r, k)
                                 /\ Cleans(r, k)' = Cleans(r, k) /\ Starts(r, k)' = Starts(r, k)
                                 /\ Works(r, k)' = Works(r, k) /\ Dones(r, k)' = Dones(r, k)
                                 /\ Lives(r, k)' = Lives(r, k)
BY DEF Still, Opens, Writes, Cleans, Starts, Works, Dones, Lives

\* The phases that matter for the data, as before for everybody.
SamePhases ==
  /\ prog' = prog
  /\ \A r \in Ranks, k \in DOMAIN prog :
       /\ Opens(r, k)' = Opens(r, k) /\ Starts(r, k)' = Starts(r, k)
       /\ Cleans(r, k)' = Cleans(r, k)
       /\ (prog[k].kind = "dispatch" => Writes(r, k)' = Writes(r, k))
       /\ Works(r, k)' = Works(r, k) /\ Dones(r, k)' = Dones(r, k)
       /\ Lives(r, k)' = Lives(r, k)

LEMMA StillSame == ASSUME Still PROVE SamePhases
BY StillPhases DEF SamePhases, Still

LEMMA NumsFrame ==
  ASSUME prog' = prog, call' = call, polling' = polling, KeepNums, NumsInv PROVE NumsInv'
BY DEF KeepNums, NumsInv
LEMMA EmptyFrame ==
  ASSUME SamePhases, KeepRecv, KeepChannel, KeepHead, KeepSums, EmptyInv PROVE EmptyInv'
BY DEF SamePhases, KeepRecv, KeepChannel, KeepHead, KeepSums, EmptyInv
LEMMA PrefixFrame == ASSUME SamePhases, KeepPrefix, PrefixInv PROVE PrefixInv'
BY DEF SamePhases, KeepPrefix, PrefixInv
LEMMA CountsFrame == ASSUME SamePhases, mem' = mem, CountsInv PROVE CountsInv'
BY DEF SamePhases, CountsInv
LEMMA MatrixFrame == ASSUME SamePhases, mem' = mem, MatrixInv PROVE MatrixInv'
BY DEF SamePhases, MatrixInv
LEMMA TensorFrame == ASSUME SamePhases, KeepTensor, TensorInv PROVE TensorInv'
BY DEF Cell, ItemSet, SamePhases, KeepTensor, TensorInv
LEMMA SenderFrame == ASSUME SamePhases, sender' = sender, SenderInv PROVE SenderInv'
BY DEF SamePhases, SenderInv
LEMMA HeadsFrame == ASSUME SamePhases, sender' = sender, KeepHead, HeadsInv PROVE HeadsInv'
BY DEF SamePhases, NextTok, KeepHead, HeadsInv
LEMMA HeadDomainFrame == ASSUME prog' = prog, KeepHead, HeadDomainInv PROVE HeadDomainInv'
BY DEF KeepHead, HeadDomainInv
LEMMA QueueInvFrame ==
  ASSUME SamePhases, sender' = sender, receiver' = receiver, mem' = mem, QueueInv PROVE QueueInv'
BY DEF SamePhases, NextTok, Releasing, HeadNow, QueueInv
LEMMA ReceiverFrame ==
  ASSUME SamePhases, receiver' = receiver, mem' = mem, ReceiverInv PROVE ReceiverInv'
BY DEF SamePhases, ReceiverInv
LEMMA TakenInvFrame ==
  ASSUME SamePhases, receiver' = receiver, KeepRecv, TakenInv PROVE TakenInv'
BY DEF SamePhases, Taken, KeepRecv, TakenInv
LEMMA OffsetFrame ==
  ASSUME SamePhases, receiver' = receiver, KeepChannel, OffsetInv PROVE OffsetInv'
BY DEF SamePhases, HasOffsets, KeepChannel, OffsetInv
LEMMA ItemsFrame == ASSUME prog' = prog, KeepRecv, ItemsInv PROVE ItemsInv'
BY DEF ItemSet, KeepRecv, ItemsInv
LEMMA RecvFrame == ASSUME SamePhases, KeepRecv, RecvInv PROVE RecvInv'
BY DEF SamePhases, KeepRecv, RecvInv
LEMMA FixedFrame == ASSUME prog \in Setups, SamePhases, KeepHead, FixedInv PROVE FixedInv'
BY HomeFacts DEF SamePhases, KeepHead, FixedInv
LEMMA ReturnFrame == ASSUME SamePhases, sender' = sender, ReturnInv PROVE ReturnInv'
BY DEF SamePhases, ReturnInv
LEMMA BackInvFrame ==
  ASSUME SamePhases, sender' = sender, mem' = mem, KeepSums, BackInv PROVE BackInv'
BY DEF SamePhases, SentBack, KeepSums, BackInv
LEMMA WarpFrame == ASSUME SamePhases, warp' = warp, WarpInv PROVE WarpInv'
BY DEF SamePhases, WarpInv
LEMMA AddedFrame == ASSUME SamePhases, warp' = warp, KeepSums, AddedInv PROVE AddedInv'
BY DEF SamePhases, KeepSums, AddedInv
LEMMA UpdaterFrame ==
  ASSUME SamePhases, updater' = updater, mem' = mem, UpdaterInv PROVE UpdaterInv'
BY DEF SamePhases, UpdaterInv
LEMMA SumsFrame == ASSUME SamePhases, KeepSums, SumsInv PROVE SumsInv'
BY DEF SamePhases, KeepSums, SumsInv

-----------------------------------------------------------------------------
(* All of it together.                                                     *)

TypesInv    == MemInv /\ HandlesInv /\ QueuesInv /\ ItemsInv /\ EmptyInv
NotifyInv   == PrefixInv /\ CountsInv /\ MatrixInv /\ TensorInv
TravelInv   == SenderInv /\ HeadsInv /\ HeadDomainInv /\ QueueInv /\ ReceiverInv /\ TakenInv /\ OffsetInv /\ RecvInv
ComebackInv == FixedInv /\ ReturnInv /\ BackInv /\ WarpInv /\ AddedInv /\ UpdaterInv /\ SumsInv
DataInv == prog \in Setups /\ HostInv /\ NumsInv /\ TypesInv /\ NotifyInv /\ TravelInv /\ ComebackInv

LEMMA DataParts ==
  ASSUME DataInv
  PROVE  /\ prog \in Setups /\ HostInv /\ NumsInv
         /\ MemInv /\ HandlesInv /\ QueuesInv /\ ItemsInv /\ EmptyInv
         /\ PrefixInv /\ CountsInv /\ MatrixInv /\ TensorInv
         /\ SenderInv /\ HeadsInv /\ HeadDomainInv /\ QueueInv /\ ReceiverInv /\ TakenInv /\ OffsetInv /\ RecvInv
         /\ FixedInv /\ ReturnInv /\ BackInv /\ WarpInv /\ AddedInv /\ UpdaterInv /\ SumsInv
BY DEF DataInv, TypesInv, NotifyInv, TravelInv, ComebackInv

\* Where a rank is whose kernel is under way.
LEMMA Underway ==
  ASSUME Shape, prog \in Setups, HostInv, NEW r \in Ranks, stage[r] # "idle" \/ kernels[r] < Enqueued(r)
  PROVE  /\ CallOf(r) \in DOMAIN prog /\ CallOf(r) \in Nat \ {0} /\ CallOf(r) <= call[r]
         /\ polling[r] /\ CallOf(r) = call[r] => IsNotify(r)
         /\ kernels[r] < Enqueued(r)
         /\ IsNotify(r) => kernels[r] = 2 * CallOf(r) - 2
         /\ ~IsNotify(r) => kernels[r] = 2 * CallOf(r) - 1
<1>2. kernels[r] \in Nat /\ Enqueued(r) = EnqueuedBy(call[r], polling[r])
  BY DEF Shape, Enqueued, EnqueuedBy
<1>3. kernels[r] < EnqueuedBy(call[r], polling[r])
  BY <1>2 DEF HostOK, HostInv
<1>4. call[r] \in 0 .. Len(prog) /\ polling[r] \in BOOLEAN
  BY DEF HostOK, HostInv
<1>6. DOMAIN prog = 1 .. Len(prog) /\ Len(prog) \in Nat
  BY ProgramsAssumption
<1>7. /\ kernels[r] % 2 = 0 => kernels[r] = 2 * (kernels[r] \div 2 + 1) - 2
      /\ kernels[r] % 2 # 0 => kernels[r] = 2 * (kernels[r] \div 2 + 1) - 1
      /\ kernels[r] \div 2 \in Nat
  <2> DEFINE n == kernels[r]
  <2>1. n \in Nat
    BY <1>2
  <2> HIDE DEF n
  <2>2. /\ n % 2 = 0 => n = 2 * (n \div 2 + 1) - 2
        /\ n % 2 # 0 => n = 2 * (n \div 2 + 1) - 1
        /\ n \div 2 \in Nat
    BY <2>1
  <2> QED BY <2>2 DEF n
<1>8. /\ kernels[r] \div 2 + 1 <= call[r]
      /\ polling[r] /\ kernels[r] \div 2 + 1 = call[r] => kernels[r] % 2 = 0
  <2>1. CASE polling[r]
    BY <1>3, <2>1, <1>2, <1>4, <1>7 DEF EnqueuedBy
  <2>2. CASE ~polling[r]
    <3>1. kernels[r] < 2 * call[r]
      BY <1>3, <2>2 DEF EnqueuedBy
    <3> QED BY <1>2, <1>4, <1>7, <2>2, <3>1, SMTT(30)
  <2> QED BY <1>4, <2>1, <2>2
<1>9. kernels[r] \div 2 + 1 \in DOMAIN prog /\ kernels[r] \div 2 + 1 \in Nat \ {0}
  BY <1>4, <1>6, <1>7, <1>8
<1> QED BY <1>2, <1>3, <1>7, <1>8, <1>9 DEF CallOf, IsNotify

\* A running kernel is of a call of the program, and its queues are there.
LEMMA RunFacts ==
  ASSUME Shape, DataInv, NEW r \in Ranks, NEW k, k = CallOf(r), stage[r] = "run"
  PROVE  /\ k \in DOMAIN prog /\ k \in Nat \ {0} /\ kernels[r] = 2 * k - 1
         /\ Works(r, k) /\ Starts(r, k) /\ ~Dones(r, k) /\ Lives(r, k)
         /\ Now(r) = prog[k]
BY DataParts, Underway DEF Shape, Works, Running, Starts, Started, Dones, Done, Lives, Live, Cleaned, Now

-----------------------------------------------------------------------------
(* The handles, a field at a time.                                         *)

LEMMA HandleChange ==
  ASSUME HandlesInv, prog' = prog, NEW r \in Ranks, NEW k \in DOMAIN prog, NEW h, HandleOK(h),
         handle' = [handle EXCEPT ![r] = [handle[r] EXCEPT ![k] = h]]
  PROVE  /\ HandlesInv' /\ handle'[r][k] = h
         /\ \A q \in Ranks, j \in DOMAIN prog : (q # r \/ j # k) => handle'[q][j] = handle[q][j]
BY DEF HandlesInv

WithPrefix(r, k, v) == [handle EXCEPT ![r][k].channelPrefix = v]
WithTensor(r, k, v) == [handle EXCEPT ![r][k].rankPrefix = v]
WithChannel(r, k, v) == [handle EXCEPT ![r][k].recvChannel = v]
WithHead(r, k, v) == [handle EXCEPT ![r][k].head = v]
WithRecv(r, k, v) == [handle EXCEPT ![r][k].recv = v]
WithSums(r, k, v) == [handle EXCEPT ![r][k].sums = v]

LEMMA PrefixSet ==
  ASSUME HandlesInv, prog' = prog, NEW r \in Ranks, NEW k \in DOMAIN prog, NEW v,
         handle' = WithPrefix(r, k, v)
  PROVE  /\ HandlesInv' /\ handle'[r][k].channelPrefix = v
         /\ \A q \in Ranks, j \in DOMAIN prog : (q # r \/ j # k) => handle'[q][j].channelPrefix = handle[q][j].channelPrefix
         /\ KeepNums /\ KeepTensor /\ KeepChannel /\ KeepHead /\ KeepRecv /\ KeepSums
<1> DEFINE h == [handle[r][k] EXCEPT !.channelPrefix = v]
<1>1. HandleOK(handle[r][k])
  BY DEF HandlesInv
<1>2. HandleOK(h) /\ h.channelPrefix = v /\ h.num = handle[r][k].num /\ h.experts = handle[r][k].experts /\ h.rankPrefix = handle[r][k].rankPrefix /\ h.recvChannel = handle[r][k].recvChannel /\ h.head = handle[r][k].head /\ h.recv = handle[r][k].recv /\ h.sums = handle[r][k].sums
  BY <1>1 DEF HandleOK
<1>3. handle' = [handle EXCEPT ![r] = [handle[r] EXCEPT ![k] = h]]
  BY DEF WithPrefix
<1> HIDE DEF h
<1>4. /\ HandlesInv' /\ handle'[r][k] = h
      /\ \A q \in Ranks, j \in DOMAIN prog : (q # r \/ j # k) => handle'[q][j] = handle[q][j]
  BY <1>2, <1>3, HandleChange
<1> QED BY <1>2, <1>4 DEF KeepNums, KeepTensor, KeepChannel, KeepHead, KeepRecv, KeepSums

LEMMA TensorSet ==
  ASSUME HandlesInv, prog' = prog, NEW r \in Ranks, NEW k \in DOMAIN prog, NEW v,
         handle' = WithTensor(r, k, v)
  PROVE  /\ HandlesInv' /\ handle'[r][k].rankPrefix = v
         /\ \A q \in Ranks, j \in DOMAIN prog : (q # r \/ j # k) => handle'[q][j].rankPrefix = handle[q][j].rankPrefix
         /\ KeepNums /\ KeepPrefix /\ KeepChannel /\ KeepHead /\ KeepRecv /\ KeepSums
<1> DEFINE h == [handle[r][k] EXCEPT !.rankPrefix = v]
<1>1. HandleOK(handle[r][k])
  BY DEF HandlesInv
<1>2. HandleOK(h) /\ h.rankPrefix = v /\ h.num = handle[r][k].num /\ h.experts = handle[r][k].experts /\ h.channelPrefix = handle[r][k].channelPrefix /\ h.recvChannel = handle[r][k].recvChannel /\ h.head = handle[r][k].head /\ h.recv = handle[r][k].recv /\ h.sums = handle[r][k].sums
  BY <1>1 DEF HandleOK
<1>3. handle' = [handle EXCEPT ![r] = [handle[r] EXCEPT ![k] = h]]
  BY DEF WithTensor
<1> HIDE DEF h
<1>4. /\ HandlesInv' /\ handle'[r][k] = h
      /\ \A q \in Ranks, j \in DOMAIN prog : (q # r \/ j # k) => handle'[q][j] = handle[q][j]
  BY <1>2, <1>3, HandleChange
<1> QED BY <1>2, <1>4 DEF KeepNums, KeepPrefix, KeepChannel, KeepHead, KeepRecv, KeepSums

LEMMA ChannelSet ==
  ASSUME HandlesInv, prog' = prog, NEW r \in Ranks, NEW k \in DOMAIN prog, NEW v,
         handle' = WithChannel(r, k, v)
  PROVE  /\ HandlesInv' /\ handle'[r][k].recvChannel = v
         /\ \A q \in Ranks, j \in DOMAIN prog : (q # r \/ j # k) => handle'[q][j].recvChannel = handle[q][j].recvChannel
         /\ KeepNums /\ KeepPrefix /\ KeepTensor /\ KeepHead /\ KeepRecv /\ KeepSums
<1> DEFINE h == [handle[r][k] EXCEPT !.recvChannel = v]
<1>1. HandleOK(handle[r][k])
  BY DEF HandlesInv
<1>2. HandleOK(h) /\ h.recvChannel = v /\ h.num = handle[r][k].num /\ h.experts = handle[r][k].experts /\ h.rankPrefix = handle[r][k].rankPrefix /\ h.channelPrefix = handle[r][k].channelPrefix /\ h.head = handle[r][k].head /\ h.recv = handle[r][k].recv /\ h.sums = handle[r][k].sums
  BY <1>1 DEF HandleOK
<1>3. handle' = [handle EXCEPT ![r] = [handle[r] EXCEPT ![k] = h]]
  BY DEF WithChannel
<1> HIDE DEF h
<1>4. /\ HandlesInv' /\ handle'[r][k] = h
      /\ \A q \in Ranks, j \in DOMAIN prog : (q # r \/ j # k) => handle'[q][j] = handle[q][j]
  BY <1>2, <1>3, HandleChange
<1> QED BY <1>2, <1>4 DEF KeepNums, KeepPrefix, KeepTensor, KeepHead, KeepRecv, KeepSums

LEMMA HeadSet ==
  ASSUME HandlesInv, prog' = prog, NEW r \in Ranks, NEW k \in DOMAIN prog, NEW v,
         handle' = WithHead(r, k, v)
  PROVE  /\ HandlesInv' /\ handle'[r][k].head = v
         /\ \A q \in Ranks, j \in DOMAIN prog : (q # r \/ j # k) => handle'[q][j].head = handle[q][j].head
         /\ KeepNums /\ KeepPrefix /\ KeepTensor /\ KeepChannel /\ KeepRecv /\ KeepSums
<1> DEFINE h == [handle[r][k] EXCEPT !.head = v]
<1>1. HandleOK(handle[r][k])
  BY DEF HandlesInv
<1>2. HandleOK(h) /\ h.head = v /\ h.num = handle[r][k].num /\ h.experts = handle[r][k].experts /\ h.rankPrefix = handle[r][k].rankPrefix /\ h.channelPrefix = handle[r][k].channelPrefix /\ h.recvChannel = handle[r][k].recvChannel /\ h.recv = handle[r][k].recv /\ h.sums = handle[r][k].sums
  BY <1>1 DEF HandleOK
<1>3. handle' = [handle EXCEPT ![r] = [handle[r] EXCEPT ![k] = h]]
  BY DEF WithHead
<1> HIDE DEF h
<1>4. /\ HandlesInv' /\ handle'[r][k] = h
      /\ \A q \in Ranks, j \in DOMAIN prog : (q # r \/ j # k) => handle'[q][j] = handle[q][j]
  BY <1>2, <1>3, HandleChange
<1> QED BY <1>2, <1>4 DEF KeepNums, KeepPrefix, KeepTensor, KeepChannel, KeepRecv, KeepSums

LEMMA RecvSet ==
  ASSUME HandlesInv, prog' = prog, NEW r \in Ranks, NEW k \in DOMAIN prog, NEW v,
         handle' = WithRecv(r, k, v)
  PROVE  /\ HandlesInv' /\ handle'[r][k].recv = v
         /\ \A q \in Ranks, j \in DOMAIN prog : (q # r \/ j # k) => handle'[q][j].recv = handle[q][j].recv
         /\ KeepNums /\ KeepPrefix /\ KeepTensor /\ KeepChannel /\ KeepHead /\ KeepSums
<1> DEFINE h == [handle[r][k] EXCEPT !.recv = v]
<1>1. HandleOK(handle[r][k])
  BY DEF HandlesInv
<1>2. HandleOK(h) /\ h.recv = v /\ h.num = handle[r][k].num /\ h.experts = handle[r][k].experts /\ h.rankPrefix = handle[r][k].rankPrefix /\ h.channelPrefix = handle[r][k].channelPrefix /\ h.recvChannel = handle[r][k].recvChannel /\ h.head = handle[r][k].head /\ h.sums = handle[r][k].sums
  BY <1>1 DEF HandleOK
<1>3. handle' = [handle EXCEPT ![r] = [handle[r] EXCEPT ![k] = h]]
  BY DEF WithRecv
<1> HIDE DEF h
<1>4. /\ HandlesInv' /\ handle'[r][k] = h
      /\ \A q \in Ranks, j \in DOMAIN prog : (q # r \/ j # k) => handle'[q][j] = handle[q][j]
  BY <1>2, <1>3, HandleChange
<1> QED BY <1>2, <1>4 DEF KeepNums, KeepPrefix, KeepTensor, KeepChannel, KeepHead, KeepSums

LEMMA SumsSet ==
  ASSUME HandlesInv, prog' = prog, NEW r \in Ranks, NEW k \in DOMAIN prog, NEW v,
         handle' = WithSums(r, k, v)
  PROVE  /\ HandlesInv' /\ handle'[r][k].sums = v
         /\ \A q \in Ranks, j \in DOMAIN prog : (q # r \/ j # k) => handle'[q][j].sums = handle[q][j].sums
         /\ KeepNums /\ KeepPrefix /\ KeepTensor /\ KeepChannel /\ KeepHead /\ KeepRecv
<1> DEFINE h == [handle[r][k] EXCEPT !.sums = v]
<1>1. HandleOK(handle[r][k])
  BY DEF HandlesInv
<1>2. HandleOK(h) /\ h.sums = v /\ h.num = handle[r][k].num /\ h.experts = handle[r][k].experts /\ h.rankPrefix = handle[r][k].rankPrefix /\ h.channelPrefix = handle[r][k].channelPrefix /\ h.recvChannel = handle[r][k].recvChannel /\ h.head = handle[r][k].head /\ h.recv = handle[r][k].recv
  BY <1>1 DEF HandleOK
<1>3. handle' = [handle EXCEPT ![r] = [handle[r] EXCEPT ![k] = h]]
  BY DEF WithSums
<1> HIDE DEF h
<1>4. /\ HandlesInv' /\ handle'[r][k] = h
      /\ \A q \in Ranks, j \in DOMAIN prog : (q # r \/ j # k) => handle'[q][j] = handle[q][j]
  BY <1>2, <1>3, HandleChange
<1> QED BY <1>2, <1>4 DEF KeepNums, KeepPrefix, KeepTensor, KeepChannel, KeepHead, KeepRecv

LEMMA HandlesFrame == ASSUME HandlesInv, prog' = prog, handle' = handle PROVE HandlesInv'
BY DEF HandlesInv

LEMMA HostFrame ==
  ASSUME Still, HostInv, call' = call, polling' = polling, counter' = counter PROVE HostInv'
BY DEF HostInv, Still

LEMMA MemFrame == ASSUME MemInv, prog' = prog, mem' = mem PROVE MemInv'
BY DEF Cell, ItemSet, Addresses, Calls, Cells, Base, NumWords, MemInv

LEMMA QueuesFrame ==
  ASSUME QueuesInv, Still, sender' = sender, receiver' = receiver, warp' = warp, updater' = updater
  PROVE  QueuesInv'
BY DEF QueuesInv, Still, Works

-----------------------------------------------------------------------------
(* A step of a kernel that is under way: what it need not look at.         *)

LEMMA CallNumbers ==
  ASSUME NEW p \in Setups
  PROVE  \A j \in DOMAIN p : j \in Nat \ {0} /\ j \in Nat /\ j \in Int
BY ProgramFacts

LEMMA WorksOne ==
  ASSUME NEW r \in Ranks, NEW k \in Nat, kernels[r] = 2 * k - 1
  PROVE  \A j \in Nat : Works(r, j) => j = k
BY DEF Works, Running

\* One sender's registers change.
LEMMA SenderStep ==
  ASSUME Shape, prog \in Setups, QueuesInv, Still, NEW r \in Ranks, NEW k \in DOMAIN prog, Works(r, k),
         NEW f \in [QueuesOf(prog, k) -> SenderSet], sender' = [sender EXCEPT ![r] = f],
         receiver' = receiver, warp' = warp, updater' = updater
  PROVE  /\ QueuesInv' /\ sender'[r] = f /\ \A q \in Ranks \ {r} : sender'[q] = sender[q]
         /\ \A q \in Ranks, j \in DOMAIN prog : \A e, i :
              (q # r \/ j # k \/ f[<<e, i>>] = sender[r][<<e, i>>]) =>
                /\ NextTok(q, j, e, i)' = NextTok(q, j, e, i)
                /\ Releasing(q, j, e, i)' = Releasing(q, j, e, i)
                /\ SentBack(q, j, e, i)' = SentBack(q, j, e, i)
<1>7. \A q \in Ranks, j \in DOMAIN prog : Starts(q, j) /\ ~Dones(q, j) => Works(q, j)
  BY CallNumbers DEF Starts, Started, Dones, Done, Works, Running, Shape
<1>8. ASSUME NEW q \in Ranks, NEW j \in DOMAIN prog, NEW e, NEW i,
             q # r \/ j # k \/ f[<<e, i>>] = sender[r][<<e, i>>]
      PROVE  /\ NextTok(q, j, e, i)' = NextTok(q, j, e, i)
             /\ Releasing(q, j, e, i)' = Releasing(q, j, e, i)
             /\ SentBack(q, j, e, i)' = SentBack(q, j, e, i)
  BY CallNumbers, <1>8, StillPhases, <1>7 DEF Still, NextTok, Releasing, SentBack, Works, Running, QueuesInv
<1> QED BY CallNumbers, StillPhases, <1>8 DEF QueuesInv, Works, Running, Still

\* One receiver's registers change.
LEMMA ReceiverStep ==
  ASSUME Shape, prog \in Setups, QueuesInv, Still, NEW r \in Ranks, NEW k \in DOMAIN prog, Works(r, k), Dispatches(prog, k),
         NEW f \in [QueuesOf(prog, k) -> ReceiverSet], receiver' = [receiver EXCEPT ![r] = f],
         sender' = sender, warp' = warp, updater' = updater
  PROVE  /\ QueuesInv' /\ receiver'[r] = f /\ \A q \in Ranks \ {r} : receiver'[q] = receiver[q]
         /\ \A q \in Ranks, j \in DOMAIN prog : \A e, i :
              (q # r \/ j # k \/ f[<<e, i>>] = receiver[r][<<e, i>>]) =>
                /\ HeadNow(q, j, e, i)' = HeadNow(q, j, e, i)
                /\ Taken(q, j, e, i)' = Taken(q, j, e, i)
                /\ HasOffsets(q, j, e, i)' = HasOffsets(q, j, e, i)
<1>3. \A j \in DOMAIN prog : Works(r, j) => j = k
  BY CallNumbers DEF Works, Running
<1>7. \A q \in Ranks, j \in DOMAIN prog : Starts(q, j) /\ ~Dones(q, j) => Works(q, j)
  BY CallNumbers DEF Starts, Started, Dones, Done, Works, Running, Shape
<1>8. ASSUME NEW q \in Ranks, NEW j \in DOMAIN prog, NEW e, NEW i,
             q # r \/ j # k \/ f[<<e, i>>] = receiver[r][<<e, i>>]
      PROVE  /\ HeadNow(q, j, e, i)' = HeadNow(q, j, e, i)
             /\ Taken(q, j, e, i)' = Taken(q, j, e, i)
             /\ HasOffsets(q, j, e, i)' = HasOffsets(q, j, e, i)
  BY <1>3, <1>8, StillPhases, <1>7 DEF Still, HeadNow, Taken, HasOffsets, QueuesInv
<1> QED BY <1>3, StillPhases, <1>8 DEF QueuesInv, Works, Running, Still

\* Memory of rank d gets the cells of new.
LEMMA MemStep ==
  ASSUME prog \in Setups, MemInv, prog' = prog, NEW d \in Ranks, NEW new,
         DOMAIN new \subseteq Addresses, \A a \in DOMAIN new : new[a] \in Cell,
         mem' = [mem EXCEPT ![d] = Put(mem[d], new)]
  PROVE  /\ MemInv'
         /\ \A q \in Ranks \ {d} : mem'[q] = mem[q]
         /\ \A a \in Addresses : mem'[d][a] = IF a \in DOMAIN new THEN new[a] ELSE mem[d][a]
<1>6. Cell' = Cell /\ Addresses' = Addresses
  BY DEF Cell, ItemSet, Addresses, Calls, Cells, Base, NumWords
<1> QED BY <1>6 DEF MemInv, Put

\* One word of one rank's memory changes.
LEMMA MemOne ==
  ASSUME prog \in Setups, MemInv, prog' = prog, NEW d \in Ranks, NEW x \in Addresses, NEW v \in Cell,
         mem' = [mem EXCEPT ![d][x] = v]
  PROVE  /\ MemInv'
         /\ \A q \in Ranks \ {d} : mem'[q] = mem[q]
         /\ mem'[d][x] = v /\ \A a \in Addresses \ {x} : mem'[d][a] = mem[d][a]
<1>6. Cell' = Cell /\ Addresses' = Addresses
  BY DEF Cell, ItemSet, Addresses, Calls, Cells, Base, NumWords
<1> QED BY <1>6 DEF MemInv

LEMMA MemTypes ==
  ASSUME MemInv
  PROVE  \A d \in Ranks, a \in Addresses : mem[d][a].int \in Int /\ mem[d][a].item \in ItemSet /\ mem[d][a] \in Cell
BY DEF MemInv, Cell

LEMMA Words ==
  /\ \A n \in Int : Word(n).int = n /\ (0 \in Ranks => Word(n) \in Cell)
  /\ \A it \in ItemSet : Slot(it) \in Cell /\ Slot(it).item = it
BY DEF Word, Slot, Cell, ItemSet, NoItem, Item

\* Whatever runs, no call of the other kind is under way, and no counts.
LEMMA DispatchElsewhere ==
  ASSUME Shape, Together, prog \in Setups, Still, NEW r \in Ranks, NEW k \in DOMAIN prog, k \in Nat \ {0},
         kernels[r] = 2 * k - 1, Dispatches(prog, k)
  PROVE  CountsInv' /\ ReturnInv' /\ BackInv' /\ WarpInv' /\ AddedInv' /\ UpdaterInv'
<1>0. \A j \in DOMAIN prog : j \in Nat \ {0}
  BY ProgramFacts, SMTT(30)
<1> QED BY <1>0, WorkApart, StillPhases DEF WarpInv, AddedInv, UpdaterInv, ReturnInv, BackInv, CountsInv,
   Combines, Dispatches, AnyDispatch, Still

\* A step of a running combine is none of the business of dispatches, which none runs now.
LEMMA CombineElsewhere ==
  ASSUME Shape, Together, prog \in Setups, Still, NEW r \in Ranks, NEW k \in DOMAIN prog, k \in Nat \ {0},
         kernels[r] = 2 * k - 1, Combines(prog, k)
  PROVE  /\ CountsInv' /\ MatrixInv' /\ SenderInv' /\ QueueInv' /\ ReceiverInv'
         /\ HeadsInv /\ KeepHead => HeadsInv'
         /\ TakenInv /\ KeepRecv => TakenInv'
         /\ OffsetInv /\ KeepChannel => OffsetInv'
<1>0. \A j \in DOMAIN prog : j \in Nat \ {0}
  BY ProgramFacts, SMTT(30)
<1>3. ~Dispatches(prog, k) /\ prog' = prog
  BY DEF Combines, Dispatches, AnyDispatch, Still
<1>6. \A q \in Ranks, j \in DOMAIN prog : Starts(q, j) /\ ~Dones(q, j) => Works(q, j)
  BY <1>0 DEF Starts, Started, Dones, Done, Works, Running, Shape
<1>8. /\ HeadsInv /\ KeepHead => HeadsInv'
      /\ TakenInv /\ KeepRecv => TakenInv'
      /\ OffsetInv /\ KeepChannel => OffsetInv'
  BY <1>3, <1>0, WorkApart, StillPhases, <1>6 DEF HeadsInv, KeepHead, TakenInv, KeepRecv, OffsetInv,
     KeepChannel, NextTok, Taken, HasOffsets
<1> QED BY <1>0, WorkApart, StillPhases, <1>3, <1>8 DEF SenderInv, QueueInv, ReceiverInv, CountsInv, MatrixInv

\* Heads that combine will read are those of an earlier call.
LEMMA FixedElsewhere ==
  ASSUME Shape, Together, prog \in Setups, Still, FixedInv, NEW r \in Ranks, NEW k \in DOMAIN prog, k \in Nat \ {0},
         kernels[r] = 2 * k - 1, Dispatches(prog, k),
         \A q \in Ranks, j \in DOMAIN prog : (q # r \/ j # k) => handle'[q][j].head = handle[q][j].head
  PROVE  FixedInv'
BY CallNumbers, HomeFacts, StillPhases DEF Combines, Dispatches, AnyDispatch, Opens, Opened, FixedInv, Still

LEMMA MatrixStep ==
  ASSUME prog \in Setups, Still, MatrixInv,
         \A d \in Ranks : \A a \in 0 .. NumCells - 1 : mem'[d][a] = mem[d][a]
  PROVE  MatrixInv'
BY CountCells, StillPhases DEF Still, MatrixOK, MatrixInv

\* A dispatch changes one queue and touches no word of another.
LEMMA QueueStep ==
  ASSUME Shape, Together, prog \in Setups, QueueInv, Still, NEW r \in Ranks, NEW k \in DOMAIN prog, k \in Nat \ {0},
         kernels[r] = 2 * k - 1, Dispatches(prog, k),
         NEW s0 \in Ranks, NEW d0 \in Ranks, NEW c0 \in ChannelsOf(prog, k),
         \A d \in Ranks, a \in Addresses : (d # d0 \/ a \notin QueueCells(prog, k, c0, s0)) => mem'[d][a] = mem[d][a],
         \A s, d \in Ranks, c \in ChannelsOf(prog, k) : (s # s0 \/ d # d0 \/ c # c0) =>
           /\ NextTok(s, k, c, d)' = NextTok(s, k, c, d)
           /\ Releasing(s, k, c, d)' = Releasing(s, k, c, d)
           /\ HeadNow(d, k, c, s)' = HeadNow(d, k, c, s),
         Lives(d0, k) => QueueOK(prog, k, s0, d0, c0, Starts(s0, k), NextTok(s0, k, c0, d0)', HeadNow(d0, k, c0, s0)',
                                 Releasing(s0, k, c0, d0)', mem'[d0])
  PROVE  QueueInv'
<1>0. \A j \in DOMAIN prog : j \in Nat \ {0}
  BY ProgramFacts
<1>4. ASSUME NEW s \in Ranks, NEW d \in Ranks, NEW c \in ChannelsOf(prog, k), Lives(d, k), s # s0 \/ d # d0 \/ c # c0
      PROVE  QueueOK(prog, k, s, d, c, Starts(s, k), NextTok(s, k, c, d)', HeadNow(d, k, c, s)',
                     Releasing(s, k, c, d)', mem'[d])
  BY <1>4, QueueCellsFacts, CellsIn, QueueFrame DEF QueueInv
<1>5. ASSUME NEW s \in Ranks, NEW d \in Ranks, NEW c \in ChannelsOf(prog, k), Lives(d, k)
      PROVE  QueueOK(prog, k, s, d, c, Starts(s, k), NextTok(s, k, c, d)', HeadNow(d, k, c, s)',
                     Releasing(s, k, c, d)', mem'[d])
  BY <1>4, <1>5
<1>6. ASSUME NEW s \in Ranks, NEW d \in Ranks, NEW j \in DOMAIN prog, NEW c \in ChannelsOf(prog, j), Lives(d, j)
      PROVE  QueueOK(prog, j, s, d, c, Starts(s, j), NextTok(s, j, c, d)', HeadNow(d, j, c, s)',
                     Releasing(s, j, c, d)', mem'[d])
  BY <1>0, WorkApart, <1>5, <1>6
<1> QED BY StillPhases, <1>6 DEF QueueInv, Still

-----------------------------------------------------------------------------
(* The steps of a running dispatch.                                        *)

LEMMA DispatchFacts ==
  ASSUME Shape, Together, DataInv, NEW r \in Ranks, NEW k, k = CallOf(r), Runs(r, AnyDispatch)
  PROVE  /\ k \in DOMAIN prog /\ k \in Nat \ {0} /\ kernels[r] = 2 * k - 1
         /\ Works(r, k) /\ Starts(r, k) /\ ~Dones(r, k) /\ Lives(r, k) /\ Dispatches(prog, k)
         /\ \A q \in Ranks : Cleans(q, k)
         /\ \A q \in Ranks, j \in DOMAIN prog : Works(q, j) => j = k
         /\ \A q \in Ranks : Lives(q, k) = ~Dones(q, k)
         /\ sender[r] \in [QueuesOf(prog, k) -> SenderSet]
         /\ receiver[r] \in [QueuesOf(prog, k) -> ReceiverSet]
         /\ \A c \in ChannelsOf(prog, k), d \in Ranks : <<c, d>> \in QueuesOf(prog, k)
<1>3. Dispatches(prog, k)
  BY RunFacts DEF Dispatches, Runs
<1> QED BY RunFacts, <1>3, DataParts, CallNumbers, WorkApart DEF QueuesOf, QueuesInv, Lives, Live, Cleans,
   Dones, Runs

\* What a sender, its queue and its receiver know of each other.
LEMMA QueueNow ==
  ASSUME Shape, Together, DataInv, NEW k \in DOMAIN prog, Dispatches(prog, k),
         NEW s \in Ranks, NEW d \in Ranks, NEW c \in ChannelsOf(prog, k), Lives(d, k)
  PROVE  /\ QueueOK(prog, k, s, d, c, Starts(s, k), NextTok(s, k, c, d), HeadNow(d, k, c, s), Releasing(s, k, c, d), mem[d])
         /\ NextTok(s, k, c, d) \in Edge(prog, k, s, c) .. Edge(prog, k, s, c + 1)
         /\ HeadNow(d, k, c, s) \in Nat
         /\ mem[d][TailOf(prog, k, c, s)].int \in Int /\ mem[d][HeadOf(prog, k, c, s)].int \in Int
<1>1. prog \in Setups /\ QueueInv /\ SenderInv /\ QueuesInv /\ MemInv
  BY DataParts
<1>4. Starts(s, k) /\ ~Dones(s, k) => Works(s, k)
  BY <1>1, CallNumbers DEF Starts, Started, Dones, Done, Works, Running, Shape
<1>8. HeadNow(d, k, c, s) \in Nat
  BY <1>1 DEF QueuesInv, QueuesOf, ReceiverSet, HeadNow
<1> QED BY <1>1, <1>4, ChannelBounds, <1>8, CellsIn, CellKinds, MemTypes DEF QueueInv, NextTok, SenderInv,
   SenderOK

\* A step of the senders or receivers of dispatch that leaves the rest alone.
LEMMA DispatchFrame ==
  ASSUME Shape, Together, DataInv, NEW r \in Ranks, NEW k \in DOMAIN prog, k \in Nat \ {0},
         kernels[r] = 2 * k - 1, Dispatches(prog, k), Still, call' = call, polling' = polling, counter' = counter,
         KeepNums, KeepPrefix, KeepTensor, KeepSums,
         \A q \in Ranks, j \in DOMAIN prog : (q # r \/ j # k) => handle'[q][j].head = handle[q][j].head,
         \A d \in Ranks : \A a \in 0 .. NumCells - 1 : mem'[d][a] = mem[d][a]
  PROVE  prog' \in Setups /\ HostInv' /\ NumsInv' /\ NotifyInv' /\ ComebackInv'
BY DataParts, StillSame, HostFrame, NumsFrame, DispatchElsewhere, FixedElsewhere, MatrixStep, PrefixFrame,
   TensorFrame, SumsFrame DEF Still, NotifyInv, ComebackInv

\* The sender's release keeps all of it.
LEMMA ReleaseStep ==
  ASSUME Shape, Together, DataInv, NEW r \in Ranks, NEW k, k = CallOf(r), Runs(r, AnyDispatch),
         NEW c \in ChannelsOf(prog, k), NEW d \in Ranks, ReleaseTail(r, c, d)
  PROVE  DataInv'
<1>0. /\ prog \in Setups /\ MemInv /\ HandlesInv /\ QueuesInv /\ ItemsInv /\ EmptyInv
      /\ SenderInv /\ HeadsInv /\ HeadDomainInv /\ QueueInv /\ ReceiverInv /\ TakenInv /\ OffsetInv /\ RecvInv
  BY DataParts
<1>1. /\ k \in DOMAIN prog /\ k \in Nat \ {0} /\ kernels[r] = 2 * k - 1
      /\ Works(r, k) /\ Starts(r, k) /\ ~Dones(r, k) /\ Dispatches(prog, k)
      /\ sender[r] \in [QueuesOf(prog, k) -> SenderSet]
      /\ <<c, d>> \in QueuesOf(prog, k)
      /\ \A q \in Ranks, j \in DOMAIN prog : Works(q, j) => j = k
      /\ \A q \in Ranks : Lives(q, k) = ~Dones(q, k)
  BY DispatchFacts
<1> DEFINE v == sender[r][<<c, d>>]
           w == [v EXCEPT !.todo = "send"]
           f == [sender[r] EXCEPT ![<<c, d>>] = w]
           x == TailOf(prog, k, c, r)
<1>2. v \in SenderSet /\ v.todo = "release" /\ v.tail \in Nat
  BY <1>1 DEF ReleaseTail, SenderSet
<1>3. w \in SenderSet /\ w.tok = v.tok /\ w.tail = v.tail /\ w.todo = "send"
  BY <1>2 DEF SenderSet
<1>4. f \in [QueuesOf(prog, k) -> SenderSet] /\ f[<<c, d>>] = w
      /\ \A y \in QueuesOf(prog, k) : y # <<c, d>> => f[y] = sender[r][y]
  BY <1>1, <1>3
<1>5. /\ Still /\ call' = call /\ polling' = polling /\ counter' = counter
      /\ receiver' = receiver /\ warp' = warp /\ updater' = updater /\ handle' = handle
      /\ sender' = [sender EXCEPT ![r] = f]
      /\ mem' = [mem EXCEPT ![d][x] = Word(v.tail)]
  BY Bridge DEF ReleaseTail, hostVars, Still
<1>6. prog' = prog /\ KeepHandles /\ SamePhases /\ KeepNums /\ KeepPrefix /\ KeepTensor /\ KeepSums
      /\ KeepHead /\ KeepRecv /\ KeepChannel
  BY <1>5, KeepAll, StillSame DEF Still, KeepHandles
<1>7. x \in Addresses /\ x \notin 0 .. NumCells - 1 /\ Word(v.tail) \in Cell /\ Word(v.tail).int = v.tail
  BY <1>0, <1>1, CellKinds, CellsIn, RanksFinite, <1>2, Words DEF Ranks
<1> HIDE DEF v, w, f, x
<1>8. /\ MemInv' /\ \A q \in Ranks \ {d} : mem'[q] = mem[q]
      /\ mem'[d][x] = Word(v.tail) /\ \A a \in Addresses \ {x} : mem'[d][a] = mem[d][a]
  BY <1>0, <1>5, <1>6, <1>7, MemOne, ZenonT(30)
<1>8a. /\ prog \in Setups /\ QueuesInv /\ Still /\ k \in DOMAIN prog /\ Works(r, k)
       /\ f \in [QueuesOf(prog, k) -> SenderSet] /\ sender' = [sender EXCEPT ![r] = f]
       /\ receiver' = receiver /\ warp' = warp /\ updater' = updater
  BY <1>0, <1>1, <1>4, <1>5
<1>9. /\ QueuesInv' /\ sender'[r] = f /\ \A q \in Ranks \ {r} : sender'[q] = sender[q]
      /\ \A q \in Ranks, j \in DOMAIN prog : \A e, i :
           (q # r \/ j # k \/ f[<<e, i>>] = sender[r][<<e, i>>]) =>
             /\ NextTok(q, j, e, i)' = NextTok(q, j, e, i)
             /\ Releasing(q, j, e, i)' = Releasing(q, j, e, i)
             /\ SentBack(q, j, e, i)' = SentBack(q, j, e, i)
  BY <1>8a, SenderStep, ZenonT(30)
<1>10. \A e \in ChannelsOf(prog, k), i \in Ranks : (e # c \/ i # d) => f[<<e, i>>] = sender[r][<<e, i>>]
  BY <1>4 DEF QueuesOf
<1>11. \A q \in Ranks, j \in DOMAIN prog : /\ Works(q, j)' = Works(q, j) /\ Starts(q, j)' = Starts(q, j)
                                           /\ Dones(q, j)' = Dones(q, j)
  BY <1>6 DEF SamePhases
<1>12. /\ NextTok(r, k, c, d) = v.tok /\ NextTok(r, k, c, d)' = v.tok
       /\ Releasing(r, k, c, d)' = FALSE
  BY <1>1, <1>3, <1>4, <1>9, <1>11 DEF NextTok, Releasing, v
<1>13. \A q \in Ranks, i \in Ranks, j \in DOMAIN prog : \A e \in ChannelsOf(prog, j) : NextTok(q, j, e, i)' = NextTok(q, j, e, i)
  <2> TAKE q \in Ranks, i \in Ranks, j \in DOMAIN prog
  <2> TAKE e \in ChannelsOf(prog, j)
  <2>1. CASE q = r /\ j = k /\ e = c /\ i = d
    BY <1>12, <2>1
  <2>2. CASE q # r \/ j # k
    BY <1>9, <2>2
  <2>3. CASE q = r /\ j = k /\ (e # c \/ i # d)
    <3>1. f[<<e, i>>] = sender[r][<<e, i>>] /\ j = k
      BY <1>10, <2>3
    <3> QED BY <1>9, <3>1
  <2> QED BY <2>1, <2>2, <2>3
<1>14. \A q, j, e, i : /\ HeadNow(q, j, e, i)' = HeadNow(q, j, e, i)
                       /\ Taken(q, j, e, i)' = Taken(q, j, e, i) /\ HasOffsets(q, j, e, i)' = HasOffsets(q, j, e, i)
  BY <1>5, <1>6 DEF Still, Works, Starts, Dones, HeadNow, Taken, HasOffsets
<1>15. v.tail = Nth(prog, k, r, d, c, v.tok) /\ v.tok \in Edge(prog, k, r, c) .. Edge(prog, k, r, c + 1)
  BY <1>0, <1>1 DEF SenderInv, SenderOK, v
<1>16. Lives(d, k) =>
         /\ QueueOK(prog, k, r, d, c, Starts(r, k), v.tok, HeadNow(d, k, c, r), FALSE, mem'[d])
         /\ mem'[d][x].int >= mem[d][x].int
  <2> SUFFICES ASSUME Lives(d, k)
               PROVE  /\ QueueOK(prog, k, r, d, c, Starts(r, k), v.tok, HeadNow(d, k, c, r), FALSE, mem'[d])
                      /\ mem'[d][x].int >= mem[d][x].int
    OBVIOUS
  <2>1. /\ QueueOK(prog, k, r, d, c, Starts(r, k), v.tok, HeadNow(d, k, c, r), Releasing(r, k, c, d), mem[d])
        /\ HeadNow(d, k, c, r) \in Nat /\ mem[d][TailOf(prog, k, c, r)].int \in Int
    BY <1>1, <1>12, QueueNow
  <2>3. /\ mem'[d][TailOf(prog, k, c, r)].int = Nth(prog, k, r, d, c, v.tok)
        /\ \A a \in QueueCells(prog, k, c, r) \ {TailOf(prog, k, c, r)} : mem'[d][a] = mem[d][a]
    BY <1>7, <1>8, <1>15, <1>0, <1>1, CellsIn DEF x
  <2> DEFINE st == Starts(r, k)
             he == HeadNow(d, k, c, r)
             re == Releasing(r, k, c, d)
             m1 == mem[d]
             m2 == mem'[d]
             to == v.tok
  <2> QED BY <1>0, <1>1, <1>15, <2>1, <2>3, QueueReleased DEF x
<1>17. QueueInv'
  <2>1. \A i \in Ranks, a \in Addresses : (i # d \/ a \notin QueueCells(prog, k, c, r)) => mem'[i][a] = mem[i][a]
    BY <1>0, <1>1, CellKinds, <1>8 DEF x
  <2>2. \A s, i \in Ranks, e \in ChannelsOf(prog, k) : (s # r \/ i # d \/ e # c) =>
           /\ NextTok(s, k, e, i)' = NextTok(s, k, e, i)
           /\ Releasing(s, k, e, i)' = Releasing(s, k, e, i)
           /\ HeadNow(i, k, e, s)' = HeadNow(i, k, e, s)
    <3> TAKE s \in Ranks, i \in Ranks, e \in ChannelsOf(prog, k)
    <3>1. (s # r \/ i # d \/ e # c) => (s # r \/ f[<<e, i>>] = sender[r][<<e, i>>])
      BY <1>10
    <3> QED BY <3>1, <1>1, <1>9, <1>14
  <2>3. Lives(d, k) => QueueOK(prog, k, r, d, c, Starts(r, k), NextTok(r, k, c, d)', HeadNow(d, k, c, r)',
                               Releasing(r, k, c, d)', mem'[d])
    BY <1>12, <1>14, <1>16
  <2>4. QueueInv /\ Still /\ k \in DOMAIN prog /\ k \in Nat \ {0} /\ kernels[r] = 2 * k - 1 /\ Dispatches(prog, k)
    BY <1>0, <1>1, <1>5
  <2> QED BY <1>0, <2>1, <2>2, <2>3, <2>4, QueueStep
<1>18. SenderInv'
  BY <1>0, <1>1, <1>3, <1>4, <1>9, <1>10, <1>6, <1>11 DEF SenderInv, v, SenderOK
<1>19. HeadsInv'
  BY <1>0, <1>6, <1>13 DEF HeadsInv, KeepHead
<1>20. ReceiverInv'
  <2>1. ASSUME NEW s \in Ranks, NEW i \in Ranks, NEW j \in DOMAIN prog, NEW e \in ChannelsOf(prog, j),
               Dispatches(prog, j), Works(i, j)
        PROVE  ReceiverOK(prog, j, s, i, e, receiver[i][<<e, s>>], Starts(s, j), mem'[i][TailOf(prog, j, e, s)].int)
    <3>1. ReceiverOK(prog, j, s, i, e, receiver[i][<<e, s>>], Starts(s, j), mem[i][TailOf(prog, j, e, s)].int) /\ j = k
      BY <1>0, <1>1, <2>1 DEF ReceiverInv
    <3>3. i = d => Lives(d, k)
      BY <1>1, <2>1, <3>1 DEF Works, Running, Dones, Done
    <3>4. /\ mem'[i][TailOf(prog, k, e, s)].int \in Int /\ mem[i][TailOf(prog, k, e, s)].int \in Int
          /\ mem'[i][TailOf(prog, k, e, s)].int >= mem[i][TailOf(prog, k, e, s)].int
      <4>2. CASE i = d /\ TailOf(prog, k, e, s) = x
        BY <1>2, <1>7, <1>8, <1>16, <3>3, <1>0, <2>1, <3>1, CellsIn, CellKinds, MemTypes, <4>2
      <4>3. CASE i # d \/ TailOf(prog, k, e, s) # x
        BY <1>8, <1>0, <2>1, <3>1, CellsIn, CellKinds, MemTypes, <4>3
      <4> QED BY <4>2, <4>3
    <3>5. receiver[i][<<e, s>>].tail \in Nat
      <4>1. receiver[i] \in [QueuesOf(prog, j) -> ReceiverSet] /\ <<e, s>> \in QueuesOf(prog, j)
        BY <1>0, <2>1 DEF QueuesInv, QueuesOf
      <4> QED BY <4>1 DEF ReceiverSet
    <3> DEFINE t1 == mem[i][TailOf(prog, k, e, s)].int
               t2 == mem'[i][TailOf(prog, k, e, s)].int
    <3> QED BY <3>1, <3>5, <3>4 DEF ReceiverOK
  <2> QED BY <1>5, <1>6, <1>11, <2>1 DEF ReceiverInv
<1>21. TakenInv' /\ OffsetInv'
  BY <1>0, <1>6, <1>14 DEF TakenInv, OffsetInv, KeepRecv, KeepChannel
<1>22. HeadDomainInv' /\ RecvInv' /\ ItemsInv' /\ EmptyInv' /\ HandlesInv'
  BY <1>0, <1>5, <1>6, HeadDomainFrame, RecvFrame, ItemsFrame, EmptyFrame, HandlesFrame
<1>23. prog' \in Setups /\ HostInv' /\ NumsInv' /\ NotifyInv' /\ ComebackInv'
  BY <1>0, <1>1, CellsIn, <1>7, <1>8, <1>5, <1>6, DispatchFrame
<1> QED BY <1>8, <1>9, <1>17, <1>18, <1>19, <1>20, <1>21, <1>22, <1>23 DEF DataInv, TypesInv, TravelInv

LEMMA EmptyStep ==
  ASSUME SamePhases, EmptyInv, NEW r \in Ranks, NEW k \in DOMAIN prog, Starts(r, k),
         \A q \in Ranks, j \in DOMAIN prog : (q # r \/ j # k) =>
           /\ handle'[q][j].recv = handle[q][j].recv /\ handle'[q][j].recvChannel = handle[q][j].recvChannel
           /\ handle'[q][j].head = handle[q][j].head /\ handle'[q][j].sums = handle[q][j].sums
  PROVE  EmptyInv'
BY DEF SamePhases, EmptyInv

\* The receivers of others, and their tails, as they were.
LEMMA ReceiverRest ==
  ASSUME prog \in Setups, Still, ReceiverInv, NEW r \in Ranks, NEW k \in DOMAIN prog,
         \A q \in Ranks, j \in DOMAIN prog : Works(q, j) => j = k,
         \A q \in Ranks \ {r} : receiver'[q] = receiver[q],
         \A s, d \in Ranks : \A c \in ChannelsOf(prog, k) : mem'[d][TailOf(prog, k, c, s)] = mem[d][TailOf(prog, k, c, s)],
         \A s \in Ranks : \A c \in ChannelsOf(prog, k) :
           \/ receiver'[r][<<c, s>>] = receiver[r][<<c, s>>]
           \/ Works(r, k) => ReceiverOK(prog, k, s, r, c, receiver'[r][<<c, s>>], Starts(s, k), mem[r][TailOf(prog, k, c, s)].int)
  PROVE  ReceiverInv'
BY StillPhases DEF Still, ReceiverInv

\* What a receiver that copies knows.
LEMMA ReceiverNow ==
  ASSUME Shape, Together, DataInv, NEW r \in Ranks, NEW k, k = CallOf(r), Runs(r, AnyDispatch),
         NEW c \in ChannelsOf(prog, k), NEW s \in Ranks, NEW q, q = receiver[r][<<c, s>>]
  PROVE  /\ q \in ReceiverSet /\ HeadNow(r, k, c, s) = q.head
         /\ ReceiverOK(prog, k, s, r, c, q, Starts(s, k), mem[r][TailOf(prog, k, c, s)].int)
         /\ mem[r][TailOf(prog, k, c, s)].int \in q.head .. Many(prog, k, s, r, c)
         /\ Row(prog, k, s, r, Edge(prog, k, s, c)) \in Nat /\ Many(prog, k, s, r, c) \in Nat
         /\ q.head \in Nat /\ q.tail \in Nat /\ q.offset \in Nat /\ q.left \in Nat
<1>1. /\ k \in DOMAIN prog /\ Works(r, k) /\ Dispatches(prog, k) /\ Lives(r, k)
      /\ receiver[r] \in [QueuesOf(prog, k) -> ReceiverSet] /\ <<c, s>> \in QueuesOf(prog, k)
  BY DispatchFacts
<1>3. HeadNow(r, k, c, s) = q.head
  BY <1>1 DEF HeadNow
<1>7. Row(prog, k, s, r, Edge(prog, k, s, c)) \in Nat
  BY DataParts, <1>1, ChannelBounds, RowFacts
<1> QED BY <1>1, <1>3, DataParts, QueueNow, NthFacts, <1>7 DEF ReceiverInv, QueueOK, ReceiverSet

\* The receiver's move of the head keeps all of it.
LEMMA MoveStep ==
  ASSUME Shape, Together, DataInv, NEW r \in Ranks, NEW k, k = CallOf(r), Runs(r, AnyDispatch),
         NEW c \in ChannelsOf(prog, k), NEW s \in Ranks, MoveHead(r, c, s)
  PROVE  DataInv'
<1>0. /\ prog \in Setups /\ MemInv /\ HandlesInv /\ QueuesInv /\ ItemsInv /\ EmptyInv
      /\ SenderInv /\ HeadsInv /\ HeadDomainInv /\ QueueInv /\ ReceiverInv /\ TakenInv /\ OffsetInv /\ RecvInv
  BY DataParts
<1>1. /\ k \in DOMAIN prog /\ k \in Nat \ {0} /\ kernels[r] = 2 * k - 1
      /\ Works(r, k) /\ Starts(r, k) /\ ~Dones(r, k) /\ Dispatches(prog, k) /\ Lives(r, k)
      /\ receiver[r] \in [QueuesOf(prog, k) -> ReceiverSet]
      /\ <<c, s>> \in QueuesOf(prog, k)
      /\ \A q \in Ranks, j \in DOMAIN prog : Works(q, j) => j = k
  BY DispatchFacts
<1> DEFINE q == receiver[r][<<c, s>>]
           n == q.tail - q.head
           w == [head |-> q.tail, tail |-> q.tail, offset |-> q.offset + n, left |-> q.left - n, todo |-> "copy"]
           f == [receiver[r] EXCEPT ![<<c, s>>] = w]
           x == HeadOf(prog, k, c, s)
           tail == mem[r][TailOf(prog, k, c, s)].int
           R0 == Row(prog, k, s, r, Edge(prog, k, s, c))
           M0 == Many(prog, k, s, r, c)
<1>2. /\ HeadNow(r, k, c, s) = q.head
      /\ q.todo = "move" /\ Starts(s, k)
      /\ q.offset = R0 + q.head /\ q.left = M0 - q.head /\ q.head < q.tail /\ q.tail <= tail
      /\ tail \in q.head .. M0 /\ R0 \in Nat /\ M0 \in Nat
      /\ q.head \in Nat /\ q.tail \in Nat /\ q.offset \in Nat /\ q.left \in Nat
  BY ReceiverNow DEF MoveHead, ReceiverOK
<1>3. /\ w \in ReceiverSet /\ w.head = q.tail /\ w.tail = q.tail /\ w.todo = "copy"
      /\ w.offset = R0 + q.tail /\ w.left = M0 - q.tail
  BY <1>2 DEF ReceiverSet
<1>4. f \in [QueuesOf(prog, k) -> ReceiverSet] /\ f[<<c, s>>] = w
      /\ \A y \in QueuesOf(prog, k) : y # <<c, s>> => f[y] = receiver[r][y]
  BY <1>1, <1>3
<1>5. /\ Still /\ call' = call /\ polling' = polling /\ counter' = counter
      /\ sender' = sender /\ warp' = warp /\ updater' = updater /\ handle' = handle
      /\ receiver' = [receiver EXCEPT ![r] = f]
      /\ mem' = [mem EXCEPT ![r][x] = Word(q.tail)]
  BY Bridge DEF MoveHead, hostVars, Still
<1>6. prog' = prog /\ SamePhases /\ KeepNums /\ KeepPrefix /\ KeepTensor /\ KeepSums
      /\ KeepHead /\ KeepRecv /\ KeepChannel
  BY <1>5, KeepAll, StillSame DEF Still, KeepHandles
<1>7. /\ x \in Addresses /\ x \notin 0 .. NumCells - 1 /\ Word(q.tail) \in Cell /\ Word(q.tail).int = q.tail
      /\ x \in QueueCells(prog, k, c, s)
  <2>3. 0 \in Ranks
    BY RanksFinite DEF Ranks
  <2> QED BY <1>2, <1>0, <1>1, CellKinds, CellsIn, <2>3, Words
<1> HIDE DEF q, n, w, f, x, tail, R0, M0
<1>8. /\ MemInv' /\ \A i \in Ranks \ {r} : mem'[i] = mem[i]
      /\ mem'[r][x] = Word(q.tail) /\ \A a \in Addresses \ {x} : mem'[r][a] = mem[r][a]
  <2> DEFINE y == Word(q.tail)
  <2>1. /\ prog \in Setups /\ MemInv /\ prog' = prog /\ x \in Addresses /\ y \in Cell
        /\ mem' = [mem EXCEPT ![r][x] = y]
    BY <1>0, <1>5, <1>6, <1>7
  <2>2. /\ MemInv' /\ \A i \in Ranks \ {r} : mem'[i] = mem[i]
        /\ mem'[r][x] = y /\ \A a \in Addresses \ {x} : mem'[r][a] = mem[r][a]
    <3> HIDE DEF y
    <3>2. mem'[r][x] = y
      BY <2>1 DEF MemInv
    <3> QED BY <2>1, MemOne, <3>2
  <2> QED BY <2>2
<1>8a. /\ prog \in Setups /\ QueuesInv /\ Still /\ k \in DOMAIN prog /\ Works(r, k) /\ Dispatches(prog, k)
       /\ f \in [QueuesOf(prog, k) -> ReceiverSet] /\ receiver' = [receiver EXCEPT ![r] = f]
       /\ sender' = sender /\ warp' = warp /\ updater' = updater
  BY <1>0, <1>1, <1>4, <1>5
<1>9. /\ QueuesInv' /\ receiver'[r] = f /\ \A i \in Ranks \ {r} : receiver'[i] = receiver[i]
      /\ \A i \in Ranks, j \in DOMAIN prog : \A e, y :
           (i # r \/ j # k \/ f[<<e, y>>] = receiver[r][<<e, y>>]) =>
             /\ HeadNow(i, j, e, y)' = HeadNow(i, j, e, y)
             /\ Taken(i, j, e, y)' = Taken(i, j, e, y)
             /\ HasOffsets(i, j, e, y)' = HasOffsets(i, j, e, y)
  BY <1>8a, ReceiverStep, ZenonT(30)
<1>10. \A e \in ChannelsOf(prog, k), y \in Ranks : (e # c \/ y # s) => f[<<e, y>>] = receiver[r][<<e, y>>]
  BY <1>4 DEF QueuesOf
<1>12. HeadNow(r, k, c, s)' = q.tail /\ Taken(r, k, c, s)' = Taken(r, k, c, s) /\ HasOffsets(r, k, c, s)' = HasOffsets(r, k, c, s)
  BY <1>4, <1>9, <1>1, <1>6, <1>3, <1>2 DEF q, HeadNow, Taken, HasOffsets, SamePhases
<1>13. \A i \in Ranks, y \in Ranks, j \in DOMAIN prog : \A e \in ChannelsOf(prog, j) :
         Taken(i, j, e, y)' = Taken(i, j, e, y) /\ HasOffsets(i, j, e, y)' = HasOffsets(i, j, e, y)
  <2> TAKE i \in Ranks, y \in Ranks, j \in DOMAIN prog
  <2> TAKE e \in ChannelsOf(prog, j)
  <2>1. CASE i = r /\ j = k /\ e = c /\ y = s
    BY <1>12, <2>1
  <2>2. CASE i # r \/ j # k
    BY <1>9, <2>2, ZenonT(30)
  <2>3. CASE i = r /\ j = k /\ (e # c \/ y # s)
    <3>1. f[<<e, y>>] = receiver[r][<<e, y>>] /\ j = k
      BY <1>10, <2>3
    <3> QED BY <1>9, <3>1
  <2> QED BY <2>1, <2>2, <2>3
<1>16. QueueOK(prog, k, s, r, c, Starts(s, k), NextTok(s, k, c, r), q.tail, Releasing(s, k, c, r), mem'[r])
  <2>3. /\ mem'[r][HeadOf(prog, k, c, s)].int = q.tail
        /\ \A a \in QueueCells(prog, k, c, s) \ {HeadOf(prog, k, c, s)} : mem'[r][a] = mem[r][a]
    BY <1>7, <1>8, <1>0, <1>1, CellsIn DEF x
  <2> DEFINE st == Starts(s, k)
             h1 == q.head
             h2 == q.tail
             re == Releasing(s, k, c, r)
             m1 == mem[r]
             m2 == mem'[r]
             to == NextTok(s, k, c, r)
  <2>4. /\ QueueOK(prog, k, s, r, c, st, to, h1, re, m1) /\ h1 \in Nat /\ h2 \in Nat
        /\ to \in Edge(prog, k, s, c) .. Edge(prog, k, s, c + 1)
        /\ h1 <= h2 /\ h2 <= m1[TailOf(prog, k, c, s)].int
        /\ m2[HeadOf(prog, k, c, s)].int = h2
        /\ \A a \in QueueCells(prog, k, c, s) \ {HeadOf(prog, k, c, s)} : m2[a] = m1[a]
    <3>1. h1 \in Nat /\ h2 \in Nat /\ h1 <= h2 /\ h2 <= m1[TailOf(prog, k, c, s)].int
      BY <1>2 DEF tail
    <3> QED BY <1>1, <1>2, QueueNow, <2>3, <3>1
  <2> QED BY <1>0, <1>1, <2>4, QueueMoved
<1>17. QueueInv'
  <2>2. \A y, i \in Ranks, e \in ChannelsOf(prog, k) : (y # s \/ i # r \/ e # c) =>
           /\ NextTok(y, k, e, i)' = NextTok(y, k, e, i)
           /\ Releasing(y, k, e, i)' = Releasing(y, k, e, i)
           /\ HeadNow(i, k, e, y)' = HeadNow(i, k, e, y)
    <3> TAKE y \in Ranks, i \in Ranks, e \in ChannelsOf(prog, k)
    <3>1. (y # s \/ i # r \/ e # c) => (i # r \/ f[<<e, y>>] = receiver[r][<<e, y>>])
      BY <1>10
    <3> QED BY <3>1, <1>1, <1>9, <1>5, <1>6 DEF NextTok, Releasing, SamePhases
  <2> QED BY <1>0, <1>7, <1>8, <2>2, <1>1, <1>5, <1>6, <1>12, <1>16, QueueStep DEF NextTok, Releasing,
     SamePhases
<1>18. SenderInv' /\ HeadsInv'
  BY <1>0, <1>5, <1>6, SenderFrame, HeadsFrame
<1>20. ReceiverInv'
  <2>1. \A y, i \in Ranks : \A e \in ChannelsOf(prog, k) : mem'[i][TailOf(prog, k, e, y)] = mem[i][TailOf(prog, k, e, y)]
    <3> TAKE y, i \in Ranks
    <3> TAKE e \in ChannelsOf(prog, k)
    <3>2. TailOf(prog, k, e, y) # x
      BY <1>0, <1>1, CellKinds, <1>7, CellsIn, QueueCellsFacts DEF x
    <3> QED BY <1>8, <1>0, <1>1, CellsIn, CellKinds, <3>2
  <2> QED BY <1>0, <2>1, <1>4, <1>9, <1>2, <1>3, <1>10, <1>1, <1>5, ReceiverRest DEF ReceiverOK, R0, M0
<1>21. TakenInv' /\ OffsetInv'
  BY <1>0, <1>6, <1>13 DEF TakenInv, OffsetInv, KeepRecv, KeepChannel
<1>22. HeadDomainInv' /\ RecvInv' /\ ItemsInv' /\ EmptyInv' /\ HandlesInv'
  BY <1>0, <1>5, <1>6, HeadDomainFrame, RecvFrame, ItemsFrame, EmptyFrame, HandlesFrame
<1>23. prog' \in Setups /\ HostInv' /\ NumsInv' /\ NotifyInv' /\ ComebackInv'
  BY <1>0, <1>1, CellsIn, <1>7, <1>8, <1>5, <1>6, DispatchFrame
<1> QED BY <1>8, <1>9, <1>17, <1>18, <1>20, <1>21, <1>22, <1>23 DEF DataInv, TypesInv, TravelInv

LEMMA QueueSame ==
  ASSUME SamePhases, QueueInv, mem' = mem,
         \A s, d \in Ranks, k \in DOMAIN prog : \A c \in ChannelsOf(prog, k) :
           /\ NextTok(s, k, c, d)' = NextTok(s, k, c, d) /\ Releasing(s, k, c, d)' = Releasing(s, k, c, d)
           /\ HeadNow(d, k, c, s)' = HeadNow(d, k, c, s)
  PROVE  QueueInv'
BY DEF SamePhases, QueueInv

\* The receiver's copy keeps all of it.
LEMMA CopyStep ==
  ASSUME Shape, Together, DataInv, NEW r \in Ranks, NEW k, k = CallOf(r), Runs(r, AnyDispatch),
         NEW c \in ChannelsOf(prog, k), NEW s \in Ranks, CopyChunk(r, c, s)
  PROVE  DataInv'
<1>0. /\ prog \in Setups /\ MemInv /\ HandlesInv /\ QueuesInv /\ ItemsInv /\ EmptyInv
      /\ SenderInv /\ HeadsInv /\ HeadDomainInv /\ QueueInv /\ ReceiverInv /\ TakenInv /\ OffsetInv /\ RecvInv
  BY DataParts
<1>1. /\ k \in DOMAIN prog /\ k \in Nat \ {0} /\ kernels[r] = 2 * k - 1
      /\ Works(r, k) /\ Starts(r, k) /\ ~Dones(r, k) /\ Dispatches(prog, k) /\ Lives(r, k)
      /\ receiver[r] \in [QueuesOf(prog, k) -> ReceiverSet]
      /\ <<c, s>> \in QueuesOf(prog, k)
      /\ \A q \in Ranks, j \in DOMAIN prog : Works(q, j) => j = k
  BY DispatchFacts
<1> DEFINE q == receiver[r][<<c, s>>]
           tail == mem[r][TailOf(prog, k, c, s)].int
           w == [q EXCEPT !.tail = tail, !.todo = "move"]
           f == [receiver[r] EXCEPT ![<<c, s>>] = w]
           R0 == Row(prog, k, s, r, Edge(prog, k, s, c))
           M0 == Many(prog, k, s, r, c)
           new == [i \in q.offset .. q.offset + tail - q.head - 1 |->
                     mem[r][SlotOf(prog, k, c, s, q.head + i - q.offset)].item]
           recv == handle[r][k].recv
           recv2 == Put(recv, new)
<1>2. /\ HeadNow(r, k, c, s) = q.head
      /\ q.todo = "copy" /\ Starts(s, k) /\ q \in ReceiverSet
      /\ q.offset = R0 + q.head /\ q.left = M0 - q.head /\ q.head < tail
      /\ tail \in q.head .. M0 /\ tail \in Nat /\ R0 \in Nat /\ M0 \in Nat
      /\ q.head \in Nat /\ q.tail \in Nat /\ q.offset \in Nat /\ q.left \in Nat
  <2>1. q.todo = "copy" /\ tail # q.head
    BY Bridge DEF CopyChunk
  <2> QED BY <2>1, ReceiverNow DEF ReceiverOK
<1>3. w \in ReceiverSet /\ w.head = q.head /\ w.tail = tail /\ w.todo = "move" /\ w.offset = q.offset /\ w.left = q.left
  BY <1>2 DEF ReceiverSet
<1>4. f \in [QueuesOf(prog, k) -> ReceiverSet] /\ f[<<c, s>>] = w
      /\ \A y \in QueuesOf(prog, k) : y # <<c, s>> => f[y] = receiver[r][y]
  BY <1>1, <1>3
<1>5. /\ Still /\ call' = call /\ polling' = polling /\ counter' = counter
      /\ sender' = sender /\ warp' = warp /\ updater' = updater /\ mem' = mem
      /\ receiver' = [receiver EXCEPT ![r] = f]
      /\ handle' = [handle EXCEPT ![r][k].recv = recv2]
  BY Bridge DEF CopyChunk, hostVars, Still
<1>6. prog' = prog /\ SamePhases
  BY <1>5, StillSame DEF Still
<1> HIDE DEF q, w, f, tail, R0, M0, new, recv, recv2
<1>7. /\ HandlesInv' /\ handle'[r][k].recv = recv2
      /\ \A i \in Ranks, j \in DOMAIN prog : (i # r \/ j # k) => handle'[i][j].recv = handle[i][j].recv
      /\ KeepNums /\ KeepPrefix /\ KeepTensor /\ KeepChannel /\ KeepHead /\ KeepSums
  <2>2. handle' = WithRecv(r, k, recv2)
    BY <1>0, <1>1, <1>5, <1>6 DEF WithRecv
  <2> QED BY <1>0, <1>1, <1>5, <1>6, <2>2, RecvSet
<1>8a. /\ prog \in Setups /\ QueuesInv /\ Still /\ k \in DOMAIN prog /\ Works(r, k) /\ Dispatches(prog, k)
       /\ f \in [QueuesOf(prog, k) -> ReceiverSet] /\ receiver' = [receiver EXCEPT ![r] = f]
       /\ sender' = sender /\ warp' = warp /\ updater' = updater
  BY <1>0, <1>1, <1>4, <1>5
<1>9. /\ QueuesInv' /\ receiver'[r] = f /\ \A i \in Ranks \ {r} : receiver'[i] = receiver[i]
      /\ \A i \in Ranks, j \in DOMAIN prog : \A e, y :
           (i # r \/ j # k \/ f[<<e, y>>] = receiver[r][<<e, y>>]) =>
             /\ HeadNow(i, j, e, y)' = HeadNow(i, j, e, y)
             /\ Taken(i, j, e, y)' = Taken(i, j, e, y)
             /\ HasOffsets(i, j, e, y)' = HasOffsets(i, j, e, y)
  BY <1>8a, ReceiverStep, ZenonT(30)
<1>10. \A e \in ChannelsOf(prog, k), y \in Ranks : (e # c \/ y # s) => f[<<e, y>>] = receiver[r][<<e, y>>]
  BY <1>4 DEF QueuesOf
<1>11. \A i \in Ranks, j \in DOMAIN prog : /\ Works(i, j)' = Works(i, j) /\ Starts(i, j)' = Starts(i, j)
                                           /\ Dones(i, j)' = Dones(i, j)
  BY <1>6 DEF SamePhases
<1>12. /\ HeadNow(r, k, c, s)' = HeadNow(r, k, c, s) /\ HasOffsets(r, k, c, s)' = HasOffsets(r, k, c, s)
       /\ Taken(r, k, c, s) = q.head /\ Taken(r, k, c, s)' = tail
  BY <1>4, <1>9, <1>1, <1>6, <1>11, <1>3, <1>2 DEF q, HeadNow, Taken, HasOffsets
<1>13. \A i \in Ranks, y \in Ranks, j \in DOMAIN prog : \A e \in ChannelsOf(prog, j) :
         /\ HeadNow(i, j, e, y)' = HeadNow(i, j, e, y) /\ HasOffsets(i, j, e, y)' = HasOffsets(i, j, e, y)
         /\ (i # r \/ j # k \/ e # c \/ y # s) => Taken(i, j, e, y)' = Taken(i, j, e, y)
  <2> TAKE i \in Ranks, y \in Ranks, j \in DOMAIN prog
  <2> TAKE e \in ChannelsOf(prog, j)
  <2>1. CASE i = r /\ j = k /\ e = c /\ y = s
    BY <1>12, <2>1
  <2>2. CASE i # r \/ j # k
    BY <1>9, <2>2, ZenonT(30)
  <2>3. CASE i = r /\ j = k /\ (e # c \/ y # s)
    <3>1. f[<<e, y>>] = receiver[r][<<e, y>>] /\ j = k
      BY <1>10, <2>3
    <3> QED BY <1>9, <3>1
  <2> QED BY <2>1, <2>2, <2>3
<1>15. /\ TakenOK(prog, k, s, r, c, tail, recv2)
       /\ \A i \in DOMAIN new : i - R0 \in Nat /\ \E t \in InChannel(prog, k, s, r, c) : Row(prog, k, s, r, t) = i
  <2> DEFINE st == Starts(s, k)
             h1 == q.head
             of == q.offset
             re == Releasing(s, k, c, r)
             m1 == mem[r]
             to == NextTok(s, k, c, r)
  <2>3. /\ QueueOK(prog, k, s, r, c, st, to, h1, re, m1) /\ h1 \in Nat
        /\ to \in Edge(prog, k, s, c) .. Edge(prog, k, s, c + 1)
        /\ tail \in Nat /\ tail = m1[TailOf(prog, k, c, s)].int
        /\ TakenOK(prog, k, s, r, c, h1, recv)
        /\ of = Row(prog, k, s, r, Edge(prog, k, s, c)) + h1
        /\ recv2 = Put(recv, [i \in of .. of + tail - h1 - 1 |-> m1[SlotOf(prog, k, c, s, h1 + i - of)].item])
        /\ new = [i \in of .. of + tail - h1 - 1 |-> m1[SlotOf(prog, k, c, s, h1 + i - of)].item]
    BY <1>2, <1>1, QueueNow, <1>0, <1>12 DEF tail, R0, recv2, new, TakenInv, recv
  <2>4. /\ TakenOK(prog, k, s, r, c, tail, recv2)
        /\ \A i \in of .. of + tail - h1 - 1 :
              /\ i - Row(prog, k, s, r, Edge(prog, k, s, c)) \in Nat
              /\ \E t \in InChannel(prog, k, s, r, c) : Row(prog, k, s, r, t) = i
    <3> HIDE DEF st, h1, of, re, m1, to
    <3>2. ChunkReady(prog, k, s, r, c, st, to, h1, re, m1, recv, tail, of, new)
      BY <1>0, <1>1, <2>3 DEF ChunkReady, ChunkIs
    <3> QED BY <3>2, ChunkTaken DEF ChunkDone, recv2
  <2> QED BY <2>4, <2>3 DEF R0
<1>17. QueueInv'
  BY <1>13, <1>5, <1>6, <1>11, <1>0, QueueSame DEF NextTok, Releasing
<1>18. SenderInv' /\ HeadsInv'
  BY <1>0, <1>5, <1>6, <1>7, SenderFrame, HeadsFrame
<1>20. ReceiverInv'
  BY <1>5, <1>4, <1>9, <1>2, <1>3, <1>10, <1>0, <1>1, ReceiverRest DEF ReceiverOK, R0, M0, tail
<1>21. TakenInv'
  BY <1>0, <1>7, <1>13, <1>12, <1>15, <1>1, RowsDiffer, TakenFrame, <1>6 DEF TakenInv, recv2, recv
<1>22. RecvInv'
  BY <1>15, <1>0, <1>1, RowFacts, <1>7, <1>6, <1>11 DEF recv2, Put, InChannel, RecvInv, recv, RecvOK
<1>23. ItemsInv'
  <2>1. \A i \in DOMAIN new : new[i] \in ItemSet
    <3> SUFFICES ASSUME NEW i \in DOMAIN new
                 PROVE  new[i] \in ItemSet
      OBVIOUS
    <3>2. q.head + i - q.offset \in Nat
      BY <1>2 DEF new
    <3> QED BY <1>0, <1>1, <3>2, CellsIn, CellKinds, MemTypes DEF new
  <2>3. ASSUME NEW i \in Ranks, NEW j \in DOMAIN prog, NEW y \in DOMAIN handle'[i][j].recv
        PROVE  handle'[i][j].recv[y] \in ItemSet
    BY <1>7, <1>0, <1>1, <2>1, <2>3 DEF ItemsInv, recv, recv2, Put
  <2> QED BY <1>6, <2>3 DEF ItemsInv, ItemSet
<1>24. HeadDomainInv' /\ OffsetInv'
  BY <1>0, <1>6, <1>7, <1>13, HeadDomainFrame DEF OffsetInv, KeepChannel
<1>25. EmptyInv'
  BY <1>7, <1>0, <1>1, <1>6, EmptyStep DEF KeepChannel, KeepHead, KeepSums
<1>26. prog' \in Setups /\ HostInv' /\ NumsInv' /\ NotifyInv' /\ ComebackInv'
  BY <1>5, <1>7, <1>1, DispatchFrame DEF KeepHead
<1>27. MemInv'
  BY <1>0, <1>5, <1>6, MemFrame
<1> QED BY <1>7, <1>9, <1>17, <1>18, <1>20, <1>21, <1>22, <1>23, <1>24, <1>25, <1>26, <1>27 DEF DataInv, TypesInv, TravelInv

\* The offsets that a sender announced, and what a receiver makes of them.
LEMMA Announced ==
  ASSUME Shape, Together, DataInv, NEW r \in Ranks, NEW k, k = CallOf(r), Runs(r, AnyDispatch),
         NEW s \in Ranks, NEW c \in ChannelsOf(prog, k), mem[r][FieldOf(prog, k, 0, c, s)].int # 0
  PROVE  /\ Starts(s, k)
         /\ -mem[r][FieldOf(prog, k, 0, c, s)].int - 1 = Below(prog, k, s, r, Edge(prog, k, s, c))
         /\ -mem[r][FieldOf(prog, k, 1, c, s)].int - 1 = Below(prog, k, s, r, Edge(prog, k, s, c + 1))
         /\ Below(prog, k, s, r, Edge(prog, k, s, c)) \in Nat
         /\ Below(prog, k, s, r, Edge(prog, k, s, c + 1)) \in Nat
<1>6. Below(prog, k, s, r, Edge(prog, k, s, c)) \in Nat /\ Below(prog, k, s, r, Edge(prog, k, s, c + 1)) \in Nat
  BY DispatchFacts, DataParts, ChannelBounds, BelowFacts
<1> DEFINE a == Below(prog, k, s, r, Edge(prog, k, s, c))
           b == Below(prog, k, s, r, Edge(prog, k, s, c + 1))
           x == mem[r][FieldOf(prog, k, 0, c, s)].int
           y == mem[r][FieldOf(prog, k, 1, c, s)].int
<1> QED BY DispatchFacts, DataParts, QueueNow, <1>6 DEF QueueOK

\* The base that a receiver reads from the prefix matrix is the row its source begins at.
LEMMA RankBase ==
  ASSUME Shape, Together, DataInv, NEW r \in Ranks, NEW k, k = CallOf(r), Runs(r, AnyDispatch), NEW s \in Ranks
  PROVE  (IF s > 0 THEN mem[r][(s - 1) * NumRanks + r].int ELSE 0) = Pre(prog, k, s, r)
<1>3. s \in Nat /\ (s > 0 => s - 1 \in Ranks /\ (s - 1) + 1 = s)
  BY RanksFinite DEF Ranks
<1> QED BY <1>3, DispatchFacts, DataParts, PreFacts DEF MatrixOK, MatrixInv

\* The queue of one sender, as its receiver has it after reading the offsets.
LEMMA OffsetsRead ==
  ASSUME Shape, Together, DataInv, NEW r \in Ranks, NEW k, k = CallOf(r), Runs(r, AnyDispatch),
         NEW s \in Ranks, NEW c \in ChannelsOf(prog, k), mem[r][FieldOf(prog, k, 0, c, s)].int # 0,
         NEW w, w = [head |-> 0, tail |-> 0,
                     offset |-> (-mem[r][FieldOf(prog, k, 0, c, s)].int - 1)
                                + (IF s > 0 THEN mem[r][(s - 1) * NumRanks + r].int ELSE 0),
                     left |-> (-mem[r][FieldOf(prog, k, 1, c, s)].int - 1) - (-mem[r][FieldOf(prog, k, 0, c, s)].int - 1),
                     todo |-> "copy"]
  PROVE  /\ w \in ReceiverSet /\ w.head = 0 /\ w.tail = 0 /\ w.todo = "copy"
         /\ ReceiverOK(prog, k, s, r, c, w, Starts(s, k), mem[r][TailOf(prog, k, c, s)].int)
BY Announced, RankBase, DispatchFacts, DataParts, RowFacts, NthFacts DEF Row, Many, Nth, ReceiverSet, ReceiverOK

\* The receiver's reading of the two offsets keeps all of it.
LEMMA ReadStep ==
  ASSUME Shape, Together, DataInv, NEW r \in Ranks, NEW k, k = CallOf(r), Runs(r, AnyDispatch),
         NEW s \in Ranks, ReadOffsets(r, s)
  PROVE  DataInv'
<1>0. /\ prog \in Setups /\ MemInv /\ HandlesInv /\ QueuesInv /\ ItemsInv /\ EmptyInv
      /\ SenderInv /\ HeadsInv /\ HeadDomainInv /\ QueueInv /\ ReceiverInv /\ TakenInv /\ OffsetInv /\ RecvInv
  BY DataParts
<1>1. /\ k \in DOMAIN prog /\ k \in Nat \ {0} /\ kernels[r] = 2 * k - 1
      /\ Works(r, k) /\ Starts(r, k) /\ ~Dones(r, k) /\ Dispatches(prog, k) /\ Lives(r, k)
      /\ receiver[r] \in [QueuesOf(prog, k) -> ReceiverSet]
      /\ \A q \in Ranks, j \in DOMAIN prog : Works(q, j) => j = k
  BY DispatchFacts
<1> DEFINE Start(c) == -mem[r][FieldOf(prog, k, 0, c, s)].int - 1
           End(c) == -mem[r][FieldOf(prog, k, 1, c, s)].int - 1
           base == IF s > 0 THEN mem[r][(s - 1) * NumRanks + r].int ELSE 0
           queues == ChannelsOf(prog, k) \X {s}
           g == [q \in queues |-> [head |-> 0, tail |-> 0, offset |-> Start(q[1]) + base,
                                   left |-> End(q[1]) - Start(q[1]), todo |-> "copy"]]
           f == Put(receiver[r], g)
           starts == [q \in queues |-> Start(q[1])]
           chan == handle[r][k].recvChannel
           chan2 == Put(chan, starts)
<1>2. \A c \in ChannelsOf(prog, k) : /\ receiver[r][<<c, s>>].todo = "offsets" /\ mem[r][FieldOf(prog, k, 0, c, s)].int # 0
                                     /\ receiver[r][<<c, s>>].head = 0
  BY Bridge, <1>0, <1>1 DEF ReadOffsets, ReceiverInv, ReceiverOK
<1>3. \A c \in ChannelsOf(prog, k) :
        /\ g[<<c, s>>] \in ReceiverSet /\ g[<<c, s>>].head = 0 /\ g[<<c, s>>].tail = 0 /\ g[<<c, s>>].todo = "copy"
        /\ ReceiverOK(prog, k, s, r, c, g[<<c, s>>], Starts(s, k), mem[r][TailOf(prog, k, c, s)].int)
        /\ starts[<<c, s>>] = Below(prog, k, s, r, Edge(prog, k, s, c))
  BY <1>2, OffsetsRead, Announced
<1>4. DOMAIN g = queues /\ DOMAIN starts = queues
  OBVIOUS
<1>5. /\ Still /\ call' = call /\ polling' = polling /\ counter' = counter
      /\ sender' = sender /\ warp' = warp /\ updater' = updater /\ mem' = mem
      /\ receiver' = [receiver EXCEPT ![r] = f]
      /\ handle' = WithChannel(r, k, chan2)
  BY Bridge DEF ReadOffsets, hostVars, Still, WithChannel
<1>6. prog' = prog /\ SamePhases
  BY <1>5, StillSame DEF Still
<1> HIDE DEF g, starts
<1>7. /\ HandlesInv' /\ handle'[r][k].recvChannel = chan2
      /\ \A i \in Ranks, j \in DOMAIN prog : (i # r \/ j # k) => handle'[i][j].recvChannel = handle[i][j].recvChannel
      /\ KeepNums /\ KeepPrefix /\ KeepTensor /\ KeepHead /\ KeepRecv /\ KeepSums
  BY <1>0, <1>1, <1>5, <1>6, ChannelSet
<1>8. /\ f \in [QueuesOf(prog, k) -> ReceiverSet]
      /\ \A c \in ChannelsOf(prog, k) : f[<<c, s>>] = g[<<c, s>>]
      /\ \A c \in ChannelsOf(prog, k), y \in Ranks \ {s} : f[<<c, y>>] = receiver[r][<<c, y>>]
  BY <1>3, <1>1, <1>4 DEF QueuesOf, Put
<1> HIDE DEF f
<1>9. /\ QueuesInv' /\ receiver'[r] = f /\ \A i \in Ranks \ {r} : receiver'[i] = receiver[i]
      /\ \A i \in Ranks, j \in DOMAIN prog : \A e, y :
           (i # r \/ j # k \/ f[<<e, y>>] = receiver[r][<<e, y>>]) =>
             /\ HeadNow(i, j, e, y)' = HeadNow(i, j, e, y)
             /\ Taken(i, j, e, y)' = Taken(i, j, e, y)
             /\ HasOffsets(i, j, e, y)' = HasOffsets(i, j, e, y)
  <2>1. /\ prog \in Setups /\ QueuesInv /\ Still /\ k \in DOMAIN prog /\ Works(r, k) /\ Dispatches(prog, k)
        /\ f \in [QueuesOf(prog, k) -> ReceiverSet] /\ receiver' = [receiver EXCEPT ![r] = f]
        /\ sender' = sender /\ warp' = warp /\ updater' = updater
    BY <1>0, <1>1, <1>5, <1>8
  <2> QED BY <2>1, ReceiverStep
<1>13. \A i \in Ranks, y \in Ranks, j \in DOMAIN prog : \A e \in ChannelsOf(prog, j) :
         /\ HeadNow(i, j, e, y)' = HeadNow(i, j, e, y) /\ Taken(i, j, e, y)' = Taken(i, j, e, y)
         /\ (i # r \/ j # k \/ y # s) => HasOffsets(i, j, e, y)' = HasOffsets(i, j, e, y)
  <2> TAKE i \in Ranks, y \in Ranks, j \in DOMAIN prog
  <2> TAKE e \in ChannelsOf(prog, j)
  <2>1. CASE i = r /\ j = k /\ y = s
    BY <1>3, <1>8, <1>9, <1>2, <1>1, <1>6, <2>1 DEF HeadNow, Taken, SamePhases
  <2>2. CASE i # r \/ j # k
    BY <1>9, <2>2, ZenonT(30)
  <2>3. CASE i = r /\ j = k /\ y # s
    <3>1. f[<<e, y>>] = receiver[r][<<e, y>>] /\ j = k
      BY <1>8, <2>3
    <3> QED BY <1>9, <3>1
  <2> QED BY <2>1, <2>2, <2>3
<1>17. QueueInv'
  BY <1>13, <1>5, <1>6, <1>0, QueueSame DEF NextTok, Releasing, SamePhases
<1>18. SenderInv' /\ HeadsInv'
  BY <1>0, <1>5, <1>6, <1>7, SenderFrame, HeadsFrame
<1>20. ReceiverInv'
  BY <1>5, <1>8, <1>9, <1>3, <1>0, <1>1, ReceiverRest
<1>21. TakenInv'
  BY <1>0, <1>6, <1>7, <1>13 DEF TakenInv, KeepRecv
<1>22. RecvInv' /\ ItemsInv' /\ HeadDomainInv'
  BY <1>0, <1>6, <1>7, RecvFrame, ItemsFrame, HeadDomainFrame
<1>24. OffsetInv'
  BY <1>3, <1>4, <1>7, <1>0, <1>13, <1>6 DEF Put, OffsetOK, OffsetInv
<1>25. EmptyInv'
  BY <1>7, <1>0, <1>1, <1>6, EmptyStep DEF KeepRecv, KeepHead, KeepSums
<1>26. prog' \in Setups /\ HostInv' /\ NumsInv' /\ NotifyInv' /\ ComebackInv'
  <2>1. \A i \in Ranks : \A a \in 0 .. NumCells - 1 : mem'[i][a] = mem[i][a]
    BY <1>5
  <2>2. \A i \in Ranks, j \in DOMAIN prog : handle'[i][j].head = handle[i][j].head
    BY <1>7 DEF KeepHead
  <2> QED BY <1>1, <1>5, <1>7, <2>1, <2>2, DispatchFrame
<1>27. MemInv'
  BY <1>0, <1>5, <1>6, MemFrame
<1> QED BY <1>7, <1>9, <1>17, <1>18, <1>20, <1>21, <1>22, <1>24, <1>25, <1>26, <1>27 DEF DataInv, TypesInv, TravelInv

\* The tokens that a sender looks at in one round, and those of them that it sends.
RoundOf(p, k, s, d, c, tok) ==
  {t \in tok .. Edge(p, k, s, c + 1) - 1 :
     Cardinality({u \in tok .. t - 1 : InRank(RowsOf(p, k, s)[u], d)}) < p[k].send}
SentOf(p, k, s, d, round) == {t \in round : InRank(RowsOf(p, k, s)[t], d)}
RoundIs(p, k, s, d, c, tok, tok2, round) ==
  /\ tok2 \in Edge(p, k, s, c) .. Edge(p, k, s, c + 1) /\ tok < tok2 /\ Max(round) + 1 = tok2
  /\ round = tok .. tok2 - 1
  /\ SentOf(p, k, s, d, round) = {t \in InChannel(p, k, s, d, c) : tok <= t /\ t < tok2}
  /\ Nth(p, k, s, d, c, tok2) - Nth(p, k, s, d, c, tok) <= p[k].send
  /\ Cardinality(SentOf(p, k, s, d, round)) = Nth(p, k, s, d, c, tok2) - Nth(p, k, s, d, c, tok)
  /\ \A t \in SentOf(p, k, s, d, round) :
       Cardinality({u \in SentOf(p, k, s, d, round) : u < t}) = Nth(p, k, s, d, c, t) - Nth(p, k, s, d, c, tok)
\* The tokens of a round of the sender: those that go to the rank get consecutive places.
LEMMA RoundFacts ==
  ASSUME NEW p \in Setups, NEW k \in DOMAIN p, NEW s \in Ranks, NEW d \in Ranks, NEW c \in ChannelsOf(p, k),
         NEW tok \in Edge(p, k, s, c) .. Edge(p, k, s, c + 1), NEW round, round = RoundOf(p, k, s, d, c, tok), round # {}
  PROVE  \E tok2 : RoundIs(p, k, s, d, c, tok, tok2, round)
<1> DEFINE lo == Edge(p, k, s, c)
           hi == Edge(p, k, s, c + 1)
           N(t) == Nth(p, k, s, d, c, t)
           R == RoutedTo(p, k, s, d)
           rows == RowsOf(p, k, s)
           sent == SentOf(p, k, s, d, round)
<1>1. lo \in Nat \ {0} /\ hi \in Nat \ {0} /\ lo <= hi /\ hi <= Len(rows) + 1 /\ Len(rows) \in Nat
      /\ DOMAIN rows = 1 .. Len(rows) /\ p[k].send \in Nat \ {0} /\ tok \in Nat \ {0} /\ lo <= tok /\ tok <= hi
  <2>3. p[k].send \in Nat \ {0}
    BY ProgramFacts
  <2> QED BY ChannelBounds, RowsFacts, <2>3
<1>3. ASSUME NEW a \in Nat, NEW b \in Nat, a <= b
      PROVE  Cardinality({u \in R : a <= u /\ u < b}) = N(b) - N(a)
  <2>2. Below(p, k, s, d, b) \in Nat /\ Below(p, k, s, d, a) \in Nat /\ Below(p, k, s, d, lo) \in Nat
    BY <1>1, BelowFacts
  <2>3. N(b) - N(a) = Below(p, k, s, d, b) - Below(p, k, s, d, a)
    BY <2>2 DEF Nth
  <2> QED BY <1>3, CountBetween, <2>3 DEF Between
<1>4. /\ \A t \in Nat : N(t) \in Int /\ N(t + 1) = N(t) + (IF t \in R THEN 1 ELSE 0)
      /\ \A a, b \in Nat : a <= b => N(a) <= N(b)
  <2>2. \A t \in Nat : N(t + 1) = N(t) + (IF t \in R THEN 1 ELSE 0)
    BY NthFacts, ZenonT(30)
  <2> QED BY NthFacts, <2>2
<1>5. ASSUME NEW t \in tok .. hi - 1
      PROVE  Cardinality({u \in tok .. t - 1 : InRank(rows[u], d)}) = N(t) - N(tok)
  <2> QED BY <1>3, <1>1, <1>5, RoutedFacts DEF RoutedTo, TokensToRank
<1>6. round = {t \in tok .. hi - 1 : N(t) - N(tok) < p[k].send}
  BY <1>5 DEF RoundOf
<1>7. \E m \in round : \A y \in round : y <= m
  <2>1. IsFiniteSet(round)
    <3>1. IsFiniteSet(tok .. hi - 1)
      BY <1>1, FS_Interval
    <3> QED BY <3>1, <1>6, FS_Subset
  <2>2. \A x \in round : x \in Nat
    BY <1>1, <1>6
  <2> QED BY <2>1, <2>2, GreatestNumber
<1> DEFINE m == Max(round)
<1>8. m \in round /\ \A y \in round : y <= m
  BY <1>1, <1>6, <1>7 DEF Max
<1> HIDE DEF m
<1>9. m \in Nat /\ tok <= m /\ m <= hi - 1 /\ N(m) - N(tok) < p[k].send
  BY <1>1, <1>6, <1>8
<1> DEFINE tok2 == m + 1
<1>10. tok2 \in Nat /\ tok < tok2 /\ tok2 \in lo .. hi
  BY <1>1, <1>9
<1>11. round = tok .. tok2 - 1
  <2>2. \A t \in tok .. tok2 - 1 : t \in round
    <3> TAKE t \in tok .. tok2 - 1
    <3>1. t \in Nat /\ t <= m /\ t \in tok .. hi - 1
      BY <1>1, <1>9
    <3>2. N(t) <= N(m) /\ N(t) \in Int /\ N(m) \in Int /\ N(tok) \in Int
      BY <1>1, <1>4, <1>9, <3>1
    <3> HIDE DEF N
    <3> QED BY <1>6, <3>1, <1>1, <1>9, <3>2
  <2> QED BY <1>1, <1>6, <1>8, <1>9, <2>2
<1>12. sent = {t \in R : tok <= t /\ t < tok2} /\ sent = {t \in InChannel(p, k, s, d, c) : tok <= t /\ t < tok2}
  BY <1>1, <1>10, <1>11, RoutedFacts DEF SentOf, RoutedTo, TokensToRank, InChannel
<1>14. \A t \in sent : Cardinality({u \in sent : u < t}) = N(t) - N(tok)
  BY <1>12, RoutedFacts, <1>10, <1>1, <1>3
<1>15. N(tok2) - N(tok) <= p[k].send
  <2>1. N(m + 1) = N(m) + (IF m \in R THEN 1 ELSE 0) /\ N(m) \in Int /\ N(tok) \in Int
    BY <1>1, <1>4, <1>9
  <2> HIDE DEF N, R
  <2> QED BY <1>1, <1>9, <2>1
<1> QED BY <1>10, <1>11, <1>12, <1>1, <1>3, <1>14, <1>15 DEF RoundIs, m

\* Tokens of one round have slots of their own.
LEMMA SentApart ==
  ASSUME NEW p \in Setups, NEW k \in DOMAIN p, NEW s \in Ranks, NEW d \in Ranks, NEW c \in ChannelsOf(p, k),
         NEW tok \in Edge(p, k, s, c) .. Edge(p, k, s, c + 1), NEW tok2, NEW round, RoundIs(p, k, s, d, c, tok, tok2, round),
         NEW t \in SentOf(p, k, s, d, round), NEW u \in SentOf(p, k, s, d, round),
         SlotOf(p, k, c, s, Nth(p, k, s, d, c, t)) = SlotOf(p, k, c, s, Nth(p, k, s, d, c, u))
  PROVE  t = u
<1> DEFINE N(x) == Nth(p, k, s, d, c, x)
<1>1. /\ tok2 \in Edge(p, k, s, c) .. Edge(p, k, s, c + 1) /\ N(tok2) - N(tok) <= p[k].send
      /\ \A x \in {t, u} : x \in InChannel(p, k, s, d, c) /\ tok <= x /\ x < tok2
  BY DEF RoundIs
<1>6. \A x \in {t, u} : N(x) \in Nat /\ N(tok) <= N(x) /\ N(x) < N(tok2)
  BY <1>1, ChannelBounds, NthFacts
<1>7. p[k].send \in Nat /\ p[k].recv \in Nat /\ p[k].send < p[k].recv
  BY ProgramFacts
<1>8. N(tok) \in Int /\ N(tok2) \in Int
  BY <1>1, ChannelBounds, NthFacts
<1>12. N(t) = N(u)
  BY <1>1, <1>6, <1>7, <1>8, SlotsDiffer
<1> QED BY <1>1, <1>12, NthFacts

\* What SendChunk puts into the memory of the receiver.
ChunkCells(p, k, s, d, c, round, tail) ==
  LET sent == SentOf(p, k, s, d, round)
      N(t) == tail + Cardinality({u \in sent : u < t})
  IN  [a \in {SlotOf(p, k, c, s, N(t)) : t \in sent} |->
         LET t == CHOOSE u \in sent : SlotOf(p, k, c, s, N(u)) = a
         IN  Slot(TokenOf(p, k, s, d, t))]
\* The slots that a round fills.
LEMMA CellsFacts ==
  ASSUME NEW p \in Setups, NEW k \in DOMAIN p, NEW s \in Ranks, NEW d \in Ranks, NEW c \in ChannelsOf(p, k),
         NEW tok \in Edge(p, k, s, c) .. Edge(p, k, s, c + 1), NEW tok2, NEW round, RoundIs(p, k, s, d, c, tok, tok2, round),
         NEW tail, tail = Nth(p, k, s, d, c, tok), NEW g, g = ChunkCells(p, k, s, d, c, round, tail)
  PROVE  /\ DOMAIN g = {SlotOf(p, k, c, s, Nth(p, k, s, d, c, t)) : t \in SentOf(p, k, s, d, round)}
         /\ \A t \in SentOf(p, k, s, d, round) :
              g[SlotOf(p, k, c, s, Nth(p, k, s, d, c, t))] = Slot(TokenOf(p, k, s, d, t))
         /\ \A t \in SentOf(p, k, s, d, round) :
              tail + Cardinality({u \in SentOf(p, k, s, d, round) : u < t}) = Nth(p, k, s, d, c, t)
<1> DEFINE sent == SentOf(p, k, s, d, round)
           N(t) == Nth(p, k, s, d, c, t)
           M(t) == tail + Cardinality({u \in sent : u < t})
           S(t) == SlotOf(p, k, c, s, N(t))
<1>1. \A t \in sent : M(t) = N(t)
  <2> TAKE t \in sent
  <2>5. N(t) \in Int /\ N(tok) \in Int
    BY ChannelBounds, NthFacts DEF RoundIs
  <2> HIDE DEF N
  <2> QED BY <2>5 DEF N, RoundIs
<1>4. DOMAIN g = {S(t) : t \in sent}
  BY <1>1 DEF ChunkCells, S
<1>5. ASSUME NEW t \in sent
      PROVE  g[S(t)] = Slot(TokenOf(p, k, s, d, t))
  BY <1>1, <1>5, SentApart DEF ChunkCells, S
<1> QED BY <1>1, <1>4, <1>5

LEMMA TokenTypes ==
  ASSUME NEW p \in Setups, NEW k \in DOMAIN p, NEW s \in Ranks, NEW d \in Ranks, NEW t \in RoutedTo(p, k, s, d)
  PROVE  TokenOf(p, k, s, d, t) \in ItemSet
BY CallNumbers, RoutedFacts DEF LocalTopk, TokenOf, Item, ItemSet

\* A round of sender r, channel c, for rank d, in the words of the program.
SendWords(r, k, c, d, round) ==
  LET v == sender[r][<<c, d>>]
      sent == SentOf(prog, k, r, d, round)
      N(t) == v.tail + Cardinality({u \in sent : u < t})
  IN  /\ mem' = [mem EXCEPT ![d] = Put(mem[d], ChunkCells(prog, k, r, d, c, round, v.tail))]
      /\ handle' = WithHead(r, k, Put(handle[r][k].head, [p \in round \X {d} |-> IF p[1] \in sent THEN N(p[1]) ELSE -1]))
      /\ sender' = [sender EXCEPT ![r][<<c, d>>] =
           [tok |-> Max(round) + 1, tail |-> v.tail + Cardinality(sent), todo |-> "release"]]

\* What a sender's round does to queue, heads and registers.
LEMMA SendMeans ==
  ASSUME Shape, Together, DataInv, NEW r \in Ranks, NEW k, k = CallOf(r), Runs(r, AnyDispatch),
         NEW c \in ChannelsOf(prog, k), NEW d \in Ranks, SendChunk(r, c, d)
  PROVE  \E round : /\ round = RoundOf(prog, k, r, d, c, sender[r][<<c, d>>].tok) /\ round # {}
                    /\ SendWords(r, k, c, d, round)
<1>2. Round(k, r, c, d) = RoundOf(prog, k, r, d, c, sender[r][<<c, d>>].tok)
  <2>2. Rows(k, r) = RowsOf(prog, k, r)
    BY Bridge
  <2> QED BY DispatchFacts, DataParts, EdgeFacts, <2>2 DEF Round, RoundOf
<1> DEFINE round == Round(k, r, c, d)
           rows == Rows(k, r)
           sent == {t \in round : InRank(rows[t], d)}
<1>5. SendWords(r, k, c, d, round)
  <2> DEFINE v == sender[r][<<c, d>>]
             N(t) == v.tail + Cardinality({u \in sent : u < t})
             Topk(t) == IF prog[k].kind = "dispatch" THEN LocalTopk(rows[t], d) ELSE {}
  <2>1. /\ mem' = [mem EXCEPT ![d] = Put(mem[d], [a \in {SlotAt(k, c, r, N(t)) : t \in sent} |->
             Slot(Item(k, r, r, CHOOSE u \in sent : SlotAt(k, c, r, N(u)) = a,
                       Topk(CHOOSE u \in sent : SlotAt(k, c, r, N(u)) = a)))])]
        /\ handle' = [handle EXCEPT ![r][k].head = Put(handle[r][k].head, [p \in round \X {d} |->
                        IF p[1] \in sent THEN N(p[1]) ELSE -1])]
        /\ sender' = [sender EXCEPT ![r][<<c, d>>] =
             [tok |-> Max(round) + 1, tail |-> v.tail + Cardinality(sent), todo |-> "release"]]
    BY DEF SendChunk
  <2>2. [a \in {SlotAt(k, c, r, N(t)) : t \in sent} |->
             Slot(Item(k, r, r, CHOOSE u \in sent : SlotAt(k, c, r, N(u)) = a,
                       Topk(CHOOSE u \in sent : SlotAt(k, c, r, N(u)) = a)))]
        = ChunkCells(prog, k, r, d, c, round, v.tail)
    <3> DEFINE S(n) == SlotOf(prog, k, c, r, n)
    <3>3. \A t : Topk(t) = IF prog[k].kind = "dispatch" THEN LocalTopk(RowsOf(prog, k, r)[t], d) ELSE {}
      BY Bridge DEF SentOf
    <3> HIDE DEF Topk
    <3>6. [a \in {S(N(t)) : t \in sent} |-> Slot(TokenOf(prog, k, r, d, CHOOSE u \in sent : S(N(u)) = a))]
          = ChunkCells(prog, k, r, d, c, round, v.tail)
      BY DEF ChunkCells, SentOf, Rows, RowsOf, Home, HomeOf, Source, SourceOf
    <3> QED BY <3>3, <3>6 DEF SlotAt, SlotOf, Base, BaseOf, NumWords, NumWordsOf, TokenOf
  <2> QED BY Bridge, <2>1, <2>2 DEF SendWords, WithHead, SentOf
<1> QED BY <1>2, <1>5 DEF SendChunk

\* The heads after a round.
NewHeads(p, k, s, d, c, round, new) ==
  /\ DOMAIN new = round \X {d}
  /\ \A t \in round : new[<<t, d>>] = IF t \in SentOf(p, k, s, d, round) THEN Nth(p, k, s, d, c, t) ELSE -1
\* The send heads after a round.
LEMMA HeadsAfter ==
  ASSUME NEW p \in Setups, NEW k \in DOMAIN p, NEW s \in Ranks, NEW d \in Ranks, NEW c \in ChannelsOf(p, k),
         NEW tok \in Edge(p, k, s, c) .. Edge(p, k, s, c + 1), NEW tok2, NEW round, RoundIs(p, k, s, d, c, tok, tok2, round),
         NEW head, NEW new, NewHeads(p, k, s, d, c, round, new)
  PROVE  /\ HeadsOK(p, k, s, c, d, tok, head) => HeadsOK(p, k, s, c, d, tok2, Put(head, new))
         /\ \A e \in ChannelsOf(p, k), i \in Ranks : \A x \in Edge(p, k, s, e) .. Edge(p, k, s, e + 1) :
              (e # c \/ i # d) /\ HeadsOK(p, k, s, e, i, x, head) => HeadsOK(p, k, s, e, i, x, Put(head, new))
         /\ DOMAIN head \subseteq (DOMAIN RowsOf(p, k, s)) \X Ranks => DOMAIN Put(head, new) \subseteq (DOMAIN RowsOf(p, k, s)) \X Ranks
<1> DEFINE lo == Edge(p, k, s, c)
           hi == Edge(p, k, s, c + 1)
           N(t) == Nth(p, k, s, d, c, t)
           R == RoutedTo(p, k, s, d)
           sent == SentOf(p, k, s, d, round)
           head2 == Put(head, new)
<1>1. /\ tok2 \in lo .. hi /\ tok < tok2 /\ round = tok .. tok2 - 1
      /\ sent = {t \in InChannel(p, k, s, d, c) : tok <= t /\ t < tok2}
  BY DEF RoundIs
<1>2. lo \in Nat \ {0} /\ hi \in Nat \ {0} /\ lo <= hi /\ hi <= Len(RowsOf(p, k, s)) + 1 /\ Len(RowsOf(p, k, s)) \in Nat
  BY ChannelBounds
<1>4. \A t \in round : t \in lo .. hi - 1 /\ t \in Nat /\ t \in DOMAIN RowsOf(p, k, s) /\ t >= tok
  BY <1>1, <1>2, RowsFacts
<1>5. \A x : /\ x \in DOMAIN new => x \in DOMAIN head2 /\ head2[x] = new[x]
             /\ x \notin DOMAIN new /\ x \in DOMAIN head => x \in DOMAIN head2 /\ head2[x] = head[x]
  BY DEF Put
<1>6. \A t \in round : (t \in R <=> t \in sent)
  BY <1>1, <1>2, <1>4 DEF InChannel
<1> HIDE DEF R, lo, hi, sent, head2, N
<1>8. ASSUME HeadsOK(p, k, s, c, d, tok, head)
      PROVE  HeadsOK(p, k, s, c, d, tok2, head2)
  BY <1>1, <1>2, <1>4, <1>8, <1>5, <1>6 DEF HeadsOK, lo, R, N, sent, NewHeads
<1>9. ASSUME NEW e \in ChannelsOf(p, k), NEW i \in Ranks, NEW x \in Edge(p, k, s, e) .. Edge(p, k, s, e + 1),
             e # c \/ i # d, HeadsOK(p, k, s, e, i, x, head)
      PROVE  HeadsOK(p, k, s, e, i, x, head2)
  <2>1. \A t \in Edge(p, k, s, e) .. x - 1 : <<t, i>> \notin DOMAIN new
    <3> SUFFICES ASSUME NEW t \in Edge(p, k, s, e) .. x - 1, t \in round, i = d
                 PROVE  FALSE
      BY DEF NewHeads
    <3>3. t \in OfChannel(p, k, s, e)
      BY ChannelBounds DEF OfChannel
    <3> QED BY <1>9, <1>4, <3>3, OneChannel DEF OfChannel, lo, hi
  <2> QED BY <1>5, <1>9, <2>1 DEF HeadsOK
<1>10. ASSUME DOMAIN head \subseteq (DOMAIN RowsOf(p, k, s)) \X Ranks
       PROVE  DOMAIN head2 \subseteq (DOMAIN RowsOf(p, k, s)) \X Ranks
  BY <1>4, <1>10 DEF NewHeads, head2, Put
<1> QED BY <1>8, <1>9, <1>10 DEF head2

\* The sender after a round, and the cells it has filled.
SendReady(r, k, c, d, v) ==
  /\ v \in SenderSet /\ v.todo = "send" /\ v.tok \in Edge(prog, k, r, c) .. Edge(prog, k, r, c + 1)
  /\ v.tail = Nth(prog, k, r, d, c, v.tok)
  /\ NextTok(r, k, c, d) = v.tok /\ Releasing(r, k, c, d) = FALSE
  /\ prog[k].recv - (v.tail - mem[d][HeadOf(prog, k, c, r)].int) >= prog[k].send
  /\ \E round, tok2 : RoundIs(prog, k, r, d, c, v.tok, tok2, round) /\ SendWords(r, k, c, d, round)
LEMMA SendFacts ==
  ASSUME Shape, Together, DataInv, NEW r \in Ranks, NEW k, k = CallOf(r), Runs(r, AnyDispatch),
         NEW c \in ChannelsOf(prog, k), NEW d \in Ranks, NEW v, v = sender[r][<<c, d>>], SendChunk(r, c, d)
  PROVE  SendReady(r, k, c, d, v)
<1>4. v.todo = "send" /\ HasRoom(k, r, c, d, prog[k].send)
  BY DEF SendChunk
<1>6. PICK round : /\ round = RoundOf(prog, k, r, d, c, v.tok) /\ round # {}
                   /\ SendWords(r, k, c, d, round)
  BY SendMeans
<1> QED BY DispatchFacts, DataParts, <1>4, Bridge, <1>6, RoundFacts DEF SenderOK, SendReady, HasRoom, NextTok,
   Releasing, SenderInv

\* The cells of a round: tokens, in the slots of one queue.
LEMMA RoundCells ==
  ASSUME prog \in Setups, NEW k \in DOMAIN prog, Dispatches(prog, k), NEW r \in Ranks, NEW d \in Ranks, NEW c \in ChannelsOf(prog, k),
         NEW tok \in Edge(prog, k, r, c) .. Edge(prog, k, r, c + 1), NEW tok2, NEW round, RoundIs(prog, k, r, d, c, tok, tok2, round),
         NEW tail, tail = Nth(prog, k, r, d, c, tok), NEW g, g = ChunkCells(prog, k, r, d, c, round, tail)
  PROVE  /\ DOMAIN g \subseteq Addresses /\ DOMAIN g \subseteq QueueCells(prog, k, c, r) /\ \A a \in DOMAIN g : g[a] \in Cell
         /\ HeadOf(prog, k, c, r) \notin DOMAIN g /\ TailOf(prog, k, c, r) \notin DOMAIN g
         /\ \A t \in InChannel(prog, k, r, d, c) : tok <= t /\ t < tok2 =>
              /\ SlotOf(prog, k, c, r, Nth(prog, k, r, d, c, t)) \in DOMAIN g
              /\ g[SlotOf(prog, k, c, r, Nth(prog, k, r, d, c, t))].item = TokenOf(prog, k, r, d, t)
         /\ \A a \in DOMAIN g : \E t \in InChannel(prog, k, r, d, c) :
              tok <= t /\ t < tok2 /\ a = SlotOf(prog, k, c, r, Nth(prog, k, r, d, c, t))
<1> DEFINE sent == SentOf(prog, k, r, d, round)
           S(t) == SlotOf(prog, k, c, r, Nth(prog, k, r, d, c, t))
<1>1. sent = {t \in InChannel(prog, k, r, d, c) : tok <= t /\ t < tok2}
  BY DEF RoundIs
<1>2. /\ DOMAIN g = {S(t) : t \in sent}
      /\ \A t \in sent : g[S(t)] = Slot(TokenOf(prog, k, r, d, t))
  BY CellsFacts, SMTT(30)
<1>5. \A t \in sent : /\ S(t) \in QueueCells(prog, k, c, r)
                      /\ S(t) # HeadOf(prog, k, c, r) /\ S(t) # TailOf(prog, k, c, r)
  BY <1>1, NthFacts, CellKinds
<1> HIDE DEF sent, S
<1> QED BY CellsIn, <1>2, <1>5, <1>1, NthFacts, TokenTypes, Words DEF S

\* The queue after a round.
LEMMA SendQueue ==
  ASSUME Shape, Together, DataInv, NEW r \in Ranks, NEW k \in DOMAIN prog, Dispatches(prog, k),
         NEW c \in ChannelsOf(prog, k), NEW d \in Ranks, Lives(d, k), NEW v, NEW tok2, NEW round, NEW g, NEW m2,
         NextTok(r, k, c, d) = v.tok, v.tok \in Edge(prog, k, r, c) .. Edge(prog, k, r, c + 1),
         v.tail = Nth(prog, k, r, d, c, v.tok),
         prog[k].recv - (v.tail - mem[d][HeadOf(prog, k, c, r)].int) >= prog[k].send,
         RoundIs(prog, k, r, d, c, v.tok, tok2, round), g = ChunkCells(prog, k, r, d, c, round, v.tail),
         \A a \in Addresses : m2[a] = IF a \in DOMAIN g THEN g[a] ELSE mem[d][a]
  PROVE  QueueOK(prog, k, r, d, c, Starts(r, k), tok2, HeadNow(d, k, c, r), TRUE, m2)
<1> DEFINE st == Starts(r, k)
           he == HeadNow(d, k, c, r)
           re == Releasing(r, k, c, d)
           m1 == mem[d]
           tok == v.tok
           tail == v.tail
           S(t) == SlotOf(prog, k, c, r, Nth(prog, k, r, d, c, t))
<1>0. prog \in Setups
  BY DataParts
<1>1. /\ QueueOK(prog, k, r, d, c, st, tok, he, re, m1) /\ he \in Nat
      /\ m1[TailOf(prog, k, c, r)].int \in Int
  BY QueueNow
<1>3. /\ tok2 \in Edge(prog, k, r, c) .. Edge(prog, k, r, c + 1) /\ tok < tok2
      /\ Nth(prog, k, r, d, c, tok2) - Nth(prog, k, r, d, c, tok) <= prog[k].send
  BY DEF RoundIs
<1>4. Nth(prog, k, r, d, c, tok2) - he <= prog[k].recv
  <2> DEFINE n1 == Nth(prog, k, r, d, c, tok)
             n2 == Nth(prog, k, r, d, c, tok2)
  <2>1. n1 \in Int /\ n2 \in Int
    BY <1>0, <1>3, NthFacts
  <2>2. prog[k].recv \in Nat /\ prog[k].send \in Nat
    BY <1>0, ProgramFacts
  <2>3. prog[k].recv - (n1 - he) >= prog[k].send /\ n2 - n1 <= prog[k].send
    BY <1>1, <1>3 DEF QueueOK
  <2> HIDE DEF n1, n2, he
  <2> QED BY <1>1, <2>1, <2>2, <2>3 DEF n2
<1>5. /\ tok \in Edge(prog, k, r, c) .. Edge(prog, k, r, c + 1) /\ tail = Nth(prog, k, r, d, c, tok)
      /\ RoundIs(prog, k, r, d, c, tok, tok2, round) /\ g = ChunkCells(prog, k, r, d, c, round, tail)
  OBVIOUS
<1> HIDE DEF st, he, re, m1, tok, tail
<1>7. \A t \in InChannel(prog, k, r, d, c) : tok <= t /\ t < tok2 => m2[S(t)].item = TokenOf(prog, k, r, d, t)
  BY <1>0, <1>5, RoundCells
<1>9. \A a \in QueueCells(prog, k, c, r) :
        (\A t \in InChannel(prog, k, r, d, c) : tok <= t /\ t < tok2 => a # S(t)) => m2[a] = m1[a]
  BY <1>0, <1>5, RoundCells, CellsIn DEF m1
<1>10. tok <= tok2
  BY <1>3, <1>5 DEF tok
<1> QED BY <1>0, <1>1, <1>3, <1>4, <1>5, <1>7, <1>9, <1>10, QueueFilled DEF st, he

\* A round of the sender keeps all of it.
LEMMA SendStep ==
  ASSUME Shape, Together, DataInv, NEW r \in Ranks, NEW k, k = CallOf(r), Runs(r, AnyDispatch),
         NEW c \in ChannelsOf(prog, k), NEW d \in Ranks, SendChunk(r, c, d)
  PROVE  DataInv'
<1>0. /\ prog \in Setups /\ MemInv /\ HandlesInv /\ QueuesInv /\ ItemsInv /\ EmptyInv
      /\ SenderInv /\ HeadsInv /\ HeadDomainInv /\ QueueInv /\ ReceiverInv /\ TakenInv /\ OffsetInv /\ RecvInv
  BY DataParts
<1>1. /\ k \in DOMAIN prog /\ k \in Nat \ {0} /\ kernels[r] = 2 * k - 1
      /\ Works(r, k) /\ Starts(r, k) /\ ~Dones(r, k) /\ Dispatches(prog, k)
      /\ sender[r] \in [QueuesOf(prog, k) -> SenderSet]
      /\ <<c, d>> \in QueuesOf(prog, k)
      /\ \A q \in Ranks, j \in DOMAIN prog : Works(q, j) => j = k
  BY DispatchFacts
<1> DEFINE v == sender[r][<<c, d>>]
<1>2. /\ v \in SenderSet /\ v.todo = "send" /\ v.tok \in Edge(prog, k, r, c) .. Edge(prog, k, r, c + 1)
      /\ v.tail = Nth(prog, k, r, d, c, v.tok)
      /\ NextTok(r, k, c, d) = v.tok /\ Releasing(r, k, c, d) = FALSE
      /\ prog[k].recv - (v.tail - mem[d][HeadOf(prog, k, c, r)].int) >= prog[k].send
      /\ \E round, tok2 : RoundIs(prog, k, r, d, c, v.tok, tok2, round) /\ SendWords(r, k, c, d, round)
  <2>1. SendReady(r, k, c, d, v)
    BY SendFacts
  <2> QED BY <2>1 DEF SendReady
<1>3. PICK round, tok2 : RoundIs(prog, k, r, d, c, v.tok, tok2, round) /\ SendWords(r, k, c, d, round)
  BY <1>2
<1> DEFINE tok == v.tok
           sent == SentOf(prog, k, r, d, round)
           g == ChunkCells(prog, k, r, d, c, round, v.tail)
           new == [p \in round \X {d} |-> IF p[1] \in sent THEN v.tail + Cardinality({u \in sent : u < p[1]}) ELSE -1]
           head == handle[r][k].head
           head2 == Put(head, new)
           w == [tok |-> tok2, tail |-> Nth(prog, k, r, d, c, tok2), todo |-> "release"]
           f == [sender[r] EXCEPT ![<<c, d>>] = w]
<1>4. /\ tok \in Edge(prog, k, r, c) .. Edge(prog, k, r, c + 1) /\ RoundIs(prog, k, r, d, c, tok, tok2, round)
      /\ tok2 \in Edge(prog, k, r, c) .. Edge(prog, k, r, c + 1) /\ Max(round) + 1 = tok2
      /\ Cardinality(sent) = Nth(prog, k, r, d, c, tok2) - Nth(prog, k, r, d, c, tok)
      /\ \A t \in sent : Cardinality({u \in sent : u < t}) = Nth(prog, k, r, d, c, t) - Nth(prog, k, r, d, c, tok)
      /\ \A t \in sent : t \in Nat
  BY <1>0, <1>1, NthFacts, <1>2, <1>3 DEF RoundIs
<1>5. /\ Nth(prog, k, r, d, c, tok2) \in Nat /\ Nth(prog, k, r, d, c, tok) \in Nat /\ tok2 \in Nat
      /\ \A t \in Nat : Nth(prog, k, r, d, c, t) \in Int
  <2>1. /\ \A t \in Edge(prog, k, r, c) .. Edge(prog, k, r, c + 1) : t \in Nat /\ Nth(prog, k, r, d, c, t) \in 0 .. Many(prog, k, r, d, c)
        /\ Many(prog, k, r, d, c) \in Nat /\ \A t \in Nat : Nth(prog, k, r, d, c, t) \in Int
    BY <1>0, <1>1, NthFacts
  <2> QED BY <1>4, <2>1
<1>6. w \in SenderSet /\ w.tok = tok2 /\ w.tail = Nth(prog, k, r, d, c, tok2) /\ w.todo = "release"
  BY <1>5 DEF SenderSet
<1>7. f \in [QueuesOf(prog, k) -> SenderSet] /\ f[<<c, d>>] = w
      /\ \A y \in QueuesOf(prog, k) : y # <<c, d>> => f[y] = sender[r][y]
  BY <1>1, <1>6
<1>8. w = [tok |-> Max(round) + 1, tail |-> v.tail + Cardinality(sent), todo |-> "release"]
  BY <1>2, <1>4, <1>5
<1>9. /\ Still /\ call' = call /\ polling' = polling /\ counter' = counter
      /\ receiver' = receiver /\ warp' = warp /\ updater' = updater
      /\ sender' = [sender EXCEPT ![r] = f]
      /\ mem' = [mem EXCEPT ![d] = Put(mem[d], g)]
      /\ handle' = WithHead(r, k, head2)
  BY <1>3, <1>8 DEF SendChunk, hostVars, Still, SendWords
<1>10. prog' = prog /\ SamePhases
  BY <1>9, StillSame DEF Still
<1>11. DOMAIN new = round \X {d}
       /\ \A t \in round : new[<<t, d>>] = IF t \in sent THEN Nth(prog, k, r, d, c, t) ELSE -1
  BY <1>4, <1>5, <1>2
<1>12. \A a \in DOMAIN g : a \in Addresses /\ a \in QueueCells(prog, k, c, r) /\ g[a] \in Cell
       /\ \A e \in ChannelsOf(prog, k), y \in Ranks : TailOf(prog, k, e, y) \notin DOMAIN g
  <2> DEFINE tail == v.tail
  <2>3. ASSUME NEW e \in ChannelsOf(prog, k), NEW y \in Ranks
        PROVE  TailOf(prog, k, e, y) \notin DOMAIN g
    BY <1>0, <1>1, <1>4, <1>2, RoundCells, CellKinds, QueueCellsFacts
  <2> QED BY <1>0, <1>1, <1>4, <1>2, RoundCells, <2>3
<1> HIDE DEF v, tok, sent, g, new, head, head2, w, f
<1>14. /\ MemInv' /\ \A q \in Ranks \ {d} : mem'[q] = mem[q]
       /\ \A a \in Addresses : mem'[d][a] = IF a \in DOMAIN g THEN g[a] ELSE mem[d][a]
  BY <1>12, <1>0, <1>9, <1>10, MemStep
<1>15. /\ HandlesInv' /\ handle'[r][k].head = head2
       /\ \A i \in Ranks, j \in DOMAIN prog : (i # r \/ j # k) => handle'[i][j].head = handle[i][j].head
       /\ KeepNums /\ KeepPrefix /\ KeepTensor /\ KeepChannel /\ KeepRecv /\ KeepSums
  BY <1>0, <1>1, <1>9, <1>10, HeadSet
<1>16a. /\ prog \in Setups /\ QueuesInv /\ Still /\ k \in DOMAIN prog /\ Works(r, k)
       /\ f \in [QueuesOf(prog, k) -> SenderSet] /\ sender' = [sender EXCEPT ![r] = f]
       /\ receiver' = receiver /\ warp' = warp /\ updater' = updater
  BY <1>0, <1>1, <1>7, <1>9
<1>16. /\ QueuesInv' /\ sender'[r] = f /\ \A q \in Ranks \ {r} : sender'[q] = sender[q]
      /\ \A q \in Ranks, j \in DOMAIN prog : \A e, i :
           (q # r \/ j # k \/ f[<<e, i>>] = sender[r][<<e, i>>]) =>
             /\ NextTok(q, j, e, i)' = NextTok(q, j, e, i)
             /\ Releasing(q, j, e, i)' = Releasing(q, j, e, i)
             /\ SentBack(q, j, e, i)' = SentBack(q, j, e, i)
  BY <1>16a, SenderStep, ZenonT(30)
<1>17. \A e \in ChannelsOf(prog, k), i \in Ranks : (e # c \/ i # d) => f[<<e, i>>] = sender[r][<<e, i>>]
  BY <1>7 DEF QueuesOf
<1>18. \A q \in Ranks, j \in DOMAIN prog : /\ Works(q, j)' = Works(q, j) /\ Starts(q, j)' = Starts(q, j)
                                           /\ Dones(q, j)' = Dones(q, j)
  BY <1>10 DEF SamePhases
<1>19. NextTok(r, k, c, d)' = tok2 /\ Releasing(r, k, c, d)' = TRUE
  BY <1>1, <1>6, <1>7, <1>16, <1>18 DEF NextTok, Releasing
<1>20. \A q, j, e, i : /\ HeadNow(q, j, e, i)' = HeadNow(q, j, e, i)
  BY <1>9 DEF Still, Works, HeadNow
<1>21. QueueInv'
  <2>2. \A s, i \in Ranks, e \in ChannelsOf(prog, k) : (s # r \/ i # d \/ e # c) =>
           /\ NextTok(s, k, e, i)' = NextTok(s, k, e, i)
           /\ Releasing(s, k, e, i)' = Releasing(s, k, e, i)
           /\ HeadNow(i, k, e, s)' = HeadNow(i, k, e, s)
    <3> TAKE s \in Ranks, i \in Ranks, e \in ChannelsOf(prog, k)
    <3> QED BY <1>17, <1>1, <1>16, <1>20
  <2>3. Lives(d, k) => QueueOK(prog, k, r, d, c, Starts(r, k), NextTok(r, k, c, d)', HeadNow(d, k, c, r)',
                               Releasing(r, k, c, d)', mem'[d])
    BY <1>19, <1>20, <1>2, <1>3, <1>14, <1>1, SendQueue DEF v, g
  <2>4. QueueInv /\ Still /\ k \in DOMAIN prog /\ k \in Nat \ {0} /\ kernels[r] = 2 * k - 1 /\ Dispatches(prog, k)
    BY <1>0, <1>1, <1>9
  <2> QED BY <1>0, <1>12, <1>14, <2>2, <2>3, <2>4, QueueStep
<1>22. SenderInv'
  BY <1>0, <1>1, <1>4, <1>6, <1>7, <1>16, <1>17, <1>10, <1>18, SMTT(30) DEF SenderInv, SenderOK
<1>23. /\ HeadsOK(prog, k, r, c, d, tok, head) => HeadsOK(prog, k, r, c, d, tok2, head2)
       /\ \A e \in ChannelsOf(prog, k), i \in Ranks : \A x \in Edge(prog, k, r, e) .. Edge(prog, k, r, e + 1) :
            (e # c \/ i # d) /\ HeadsOK(prog, k, r, e, i, x, head) => HeadsOK(prog, k, r, e, i, x, head2)
       /\ DOMAIN head \subseteq (DOMAIN RowsOf(prog, k, r)) \X Ranks => DOMAIN head2 \subseteq (DOMAIN RowsOf(prog, k, r)) \X Ranks
  <2>1. NewHeads(prog, k, r, d, c, round, new)
    BY <1>11 DEF sent, NewHeads
  <2> QED BY <1>0, <1>1, <1>4, <2>1, HeadsAfter DEF head2
<1>24. HeadsInv'
  <2>1. ASSUME NEW s \in Ranks, NEW i \in Ranks, NEW j \in DOMAIN prog, NEW e \in ChannelsOf(prog, j), Dispatches(prog, j)
        PROVE  HeadsOK(prog, j, s, e, i, NextTok(s, j, e, i)', handle'[s][j].head)
    <3>1. HeadsOK(prog, j, s, e, i, NextTok(s, j, e, i), handle[s][j].head)
      BY <1>0, <2>1 DEF HeadsInv
    <3>2. CASE s # r \/ j # k
      BY <1>15, <1>16, <3>2, <3>1
    <3>3. CASE s = r /\ j = k /\ e = c /\ i = d
      BY <1>15, <1>19, <1>2, <3>1, <3>3, <1>23 DEF tok, head
    <3>4. CASE s = r /\ j = k /\ (e # c \/ i # d)
      BY <3>4, <1>1, <1>15, <1>16, <1>17, <1>0, <3>1, <1>23 DEF NextTok, SenderInv, SenderOK, head
    <3> QED BY <3>2, <3>3, <3>4
  <2> QED BY <1>10, <2>1 DEF HeadsInv
<1>25. HeadDomainInv'
  BY <1>0, <1>15, <1>23, <1>10 DEF HeadDomainInv, head
<1>26. ReceiverInv'
  BY <1>0, <1>1, CellsIn, CellKinds, <1>12, <1>14, <1>9, ReceiverRest
<1>27. TakenInv' /\ OffsetInv' /\ RecvInv' /\ ItemsInv'
  BY <1>0, <1>9, <1>10, <1>15, TakenInvFrame, OffsetFrame, RecvFrame, ItemsFrame
<1>28. EmptyInv'
  BY <1>15, <1>0, <1>1, <1>10, EmptyStep DEF KeepChannel, KeepRecv, KeepSums
<1>29. prog' \in Setups /\ HostInv' /\ NumsInv' /\ NotifyInv' /\ ComebackInv'
  BY <1>0, <1>1, CellsIn, <1>12, <1>14, <1>9, <1>15, DispatchFrame
<1> QED BY <1>14, <1>15, <1>16, <1>21, <1>22, <1>24, <1>25, <1>26, <1>27, <1>28, <1>29 DEF DataInv, TypesInv, TravelInv

\* So does every step of a running dispatch.
LEMMA DispatchStepKeeps ==
  ASSUME Shape, Together, DataInv, NEW r \in Ranks, Runs(r, AnyDispatch), DispatchStep(r), ~EndDispatch(r)
  PROVE  DataInv'
BY ReadStep, Bridge, SendStep, ReleaseStep, CopyStep, MoveStep DEF DispatchStep

-----------------------------------------------------------------------------
(* The steps of a running combine.                                         *)

\* A dispatch that all ranks have behind them.
Past(j) == j \in DOMAIN prog /\ Dispatches(prog, j) /\ \A q \in Ranks : Dones(q, j) /\ Starts(q, j)
\* What a running combine can rely on.
LEMMA CombineFacts ==
  ASSUME Shape, Together, DataInv, NEW r \in Ranks, NEW k, k = CallOf(r), Runs(r, {"combine"})
  PROVE  /\ k \in DOMAIN prog /\ k \in Nat \ {0} /\ kernels[r] = 2 * k - 1
         /\ Works(r, k) /\ Starts(r, k) /\ ~Dones(r, k) /\ Lives(r, k) /\ Combines(prog, k)
         /\ \A q \in Ranks, j \in DOMAIN prog : Works(q, j) => j = k
         /\ \A q \in Ranks : Opens(q, k)
         /\ sender[r] \in [QueuesOf(prog, k) -> SenderSet]
         /\ warp[r] \in [ChannelsOf(prog, k) \X Warps -> WarpSet]
         /\ updater[r] \in [QueuesOf(prog, k) -> UpdaterSet]
         /\ \A c \in ChannelsOf(prog, k), d \in Ranks : <<c, d>> \in QueuesOf(prog, k)
         /\ Past(HomeOf(prog, k)) /\ Past(prog[k].of)
<1>2. /\ k \in DOMAIN prog /\ k \in Nat \ {0} /\ kernels[r] = 2 * k - 1
      /\ Works(r, k) /\ Starts(r, k) /\ ~Dones(r, k) /\ Lives(r, k)
      /\ Now(r) = prog[k]
  BY RunFacts DEF Runs
<1>3. Combines(prog, k)
  BY <1>2 DEF Combines, Runs
<1>4. prog \in Setups /\ QueuesInv
  BY DataParts
<1>8. ASSUME NEW j \in {HomeOf(prog, k), prog[k].of}
      PROVE  Past(j)
  <2>1. prog[k].kind = "combine"
    BY <1>3 DEF Combines
  <2>3. prog[prog[k].of].kind \in AnyDispatch
    BY <1>2, <1>4, <2>1, ProgramFacts DEF AnyDispatch
  <2> QED BY <1>2, <1>4, CallNumbers, WorkApart, <2>1, HomeFacts, <2>3 DEF Past, Dispatches, Dones, Done,
     Starts, Started, AnyDispatch
<1> QED BY <1>2, <1>3, <1>4, CallNumbers, WorkApart, <1>8 DEF QueuesOf, QueuesInv

\* A step of combine that keeps its part of the invariant keeps the rest.
LEMMA CombineFrame ==
  ASSUME Shape, Together, DataInv, NEW r \in Ranks, NEW k, k = CallOf(r), Runs(r, {"combine"}),
         Still, call' = call, polling' = polling, counter' = counter, receiver' = receiver,
         KeepNums, KeepPrefix, KeepTensor, KeepChannel, KeepHead, KeepRecv,
         \A q \in Ranks, j \in DOMAIN prog : (q # r \/ j # k) => handle'[q][j].sums = handle[q][j].sums,
         MemInv', HandlesInv', QueuesInv', ReturnInv', BackInv', WarpInv', AddedInv', UpdaterInv', SumsInv'
  PROVE  DataInv'
<1>0. /\ prog \in Setups /\ HostInv /\ NumsInv /\ ItemsInv /\ EmptyInv
      /\ PrefixInv /\ TensorInv /\ HeadsInv /\ HeadDomainInv /\ TakenInv /\ OffsetInv /\ RecvInv /\ FixedInv
  BY DataParts
<1>1. k \in DOMAIN prog /\ k \in Nat \ {0} /\ kernels[r] = 2 * k - 1 /\ Combines(prog, k) /\ Starts(r, k)
  BY CombineFacts
<1>2. prog' = prog /\ SamePhases
  BY StillSame DEF Still
<1>5. ItemsInv' /\ PrefixInv' /\ TensorInv' /\ HeadDomainInv' /\ RecvInv' /\ FixedInv'
  BY <1>0, <1>2, ItemsFrame, PrefixFrame, TensorFrame, HeadDomainFrame, RecvFrame, FixedFrame
<1>6. EmptyInv'
  BY <1>0, <1>1, <1>2, EmptyStep DEF KeepChannel, KeepRecv, KeepHead
<1> QED BY <1>0, <1>2, HostFrame, NumsFrame, <1>1, CombineElsewhere, <1>5, <1>6 DEF DataInv, TypesInv,
   NotifyInv, TravelInv, ComebackInv

\* What a sender, its queue and its receiver know of each other.
LEMMA BackNow ==
  ASSUME Shape, Together, DataInv, NEW k \in DOMAIN prog, Combines(prog, k),
         NEW s \in Ranks, NEW d \in Ranks, NEW c \in ChannelsOf(prog, k), Lives(d, k)
  PROVE  /\ BackOK(prog, k, s, d, c, SentBack(s, k, c, d), DOMAIN handle[d][k].sums, mem[d])
         /\ SentBack(s, k, c, d) \in Nat /\ SentBack(s, k, c, d) <= Many(prog, k, d, s, c)
         /\ mem[d][TailOf(prog, k, c, s)].int \in Nat /\ mem[d][HeadOf(prog, k, c, s)].int \in Int
<1>1. prog \in Setups /\ BackInv /\ ReturnInv /\ QueuesInv /\ MemInv
  BY DataParts
<1>6. Works(s, k) => sender[s][<<c, d>>].tail \in Nat /\ sender[s][<<c, d>>].tail <= Many(prog, k, d, s, c)
  BY <1>1 DEF QueuesInv, QueuesOf, SenderSet, ReturnInv, ReturnOK
<1>7. SentBack(s, k, c, d) \in Nat /\ SentBack(s, k, c, d) <= Many(prog, k, d, s, c)
  BY <1>1, CallNumbers, NthFacts, <1>6 DEF SentBack, Starts, Started, Dones, Done, Works, Running, Shape
<1> QED BY <1>1, <1>7, CellsIn, CellKinds, MemTypes DEF BackInv, BackOK

\* A combine changes one queue and touches no word of another.
LEMMA BackStep ==
  ASSUME Shape, Together, prog \in Setups, BackInv, Still, KeepSums, NEW r \in Ranks, NEW k \in DOMAIN prog, k \in Nat \ {0},
         kernels[r] = 2 * k - 1, Combines(prog, k),
         NEW s0 \in Ranks, NEW d0 \in Ranks, NEW c0 \in ChannelsOf(prog, k),
         \A d \in Ranks, a \in Addresses : (d # d0 \/ a \notin QueueCells(prog, k, c0, s0)) => mem'[d][a] = mem[d][a],
         \A s, d \in Ranks, c \in ChannelsOf(prog, k) : (s # s0 \/ d # d0 \/ c # c0) =>
           SentBack(s, k, c, d)' = SentBack(s, k, c, d),
         Lives(d0, k) => BackOK(prog, k, s0, d0, c0, SentBack(s0, k, c0, d0)', DOMAIN handle[d0][k].sums, mem'[d0])
  PROVE  BackInv'
<1>0. \A j \in DOMAIN prog : j \in Nat \ {0}
  BY ProgramFacts
<1>4. ASSUME NEW s \in Ranks, NEW d \in Ranks, NEW c \in ChannelsOf(prog, k), Lives(d, k), s # s0 \/ d # d0 \/ c # c0
      PROVE  BackOK(prog, k, s, d, c, SentBack(s, k, c, d)', DOMAIN handle[d][k].sums, mem'[d])
  BY <1>4, QueueCellsFacts, CellsIn, BackFrame DEF BackInv
<1>5. ASSUME NEW s \in Ranks, NEW d \in Ranks, NEW c \in ChannelsOf(prog, k), Lives(d, k)
      PROVE  BackOK(prog, k, s, d, c, SentBack(s, k, c, d)', DOMAIN handle[d][k].sums, mem'[d])
  BY <1>4, <1>5
<1>6. ASSUME NEW s \in Ranks, NEW d \in Ranks, NEW j \in DOMAIN prog, NEW c \in ChannelsOf(prog, j), Lives(d, j)
      PROVE  BackOK(prog, j, s, d, c, SentBack(s, j, c, d)', DOMAIN handle[d][j].sums, mem'[d])
  BY <1>0, WorkApart, <1>5, <1>6
<1> QED BY StillPhases, <1>6 DEF BackInv, KeepSums, Still

\* The tails that the updaters have seen only grow.
LEMMA TailsUp ==
  ASSUME prog \in Setups, MemInv, QueuesInv, UpdaterInv, Still, updater' = updater, NEW k,
         \A q \in Ranks, j \in DOMAIN prog : Works(q, j) => j = k,
         \A s, d \in Ranks : \A c \in ChannelsOf(prog, k) : Works(d, k) =>
           /\ mem'[d][TailOf(prog, k, c, s)].int \in Int
           /\ mem'[d][TailOf(prog, k, c, s)].int >= mem[d][TailOf(prog, k, c, s)].int
  PROVE  UpdaterInv'
<1>1. ASSUME NEW s \in Ranks, NEW d \in Ranks, NEW j \in DOMAIN prog, NEW c \in ChannelsOf(prog, j), Combines(prog, j), Works(d, j)
      PROVE  updater[d][<<c, s>>].tail <= mem'[d][TailOf(prog, j, c, s)].int
  <2>2. updater[d] \in [QueuesOf(prog, j) -> UpdaterSet] /\ <<c, s>> \in QueuesOf(prog, j)
    BY <1>1 DEF QueuesInv, QueuesOf
  <2> QED BY <1>1, <2>2, CellsIn, CellKinds, MemTypes DEF UpdaterInv, UpdaterSet
<1> QED BY <1>1, StillPhases DEF UpdaterInv, Still

\* A word of the memory of rank d is stored.
Stores(d, x, n) == mem' = [mem EXCEPT ![d][x] = Word(n)]
LEMMA StoreStep ==
  ASSUME prog \in Setups, MemInv, prog' = prog, NEW d \in Ranks, NEW x \in Addresses, NEW n \in Int, Stores(d, x, n)
  PROVE  /\ MemInv' /\ \A q \in Ranks \ {d} : mem'[q] = mem[q]
         /\ mem'[d][x].int = n /\ \A a \in Addresses \ {x} : mem'[d][a] = mem[d][a]
<1> DEFINE y == Word(n)
<1>2. y \in Cell /\ y.int = n
  BY RanksFinite, Words DEF Ranks
<1>3. mem' = [mem EXCEPT ![d][x] = y]
  BY DEF Stores
<1> HIDE DEF y
<1>5. mem'[d][x] = y
  BY <1>3 DEF MemInv
<1> QED BY <1>2, <1>3, MemOne, <1>5

\* The release of returned tokens keeps all of it.
LEMMA BackReleaseStep ==
  ASSUME Shape, Together, DataInv, NEW r \in Ranks, NEW k, k = CallOf(r), Runs(r, {"combine"}),
         NEW c \in ChannelsOf(prog, k), NEW d \in Ranks, ReleaseTail(r, c, d)
  PROVE  DataInv'
<1>0. /\ prog \in Setups /\ MemInv /\ HandlesInv /\ QueuesInv
      /\ ReturnInv /\ BackInv /\ WarpInv /\ AddedInv /\ UpdaterInv /\ SumsInv
  BY DataParts
<1>1. /\ k \in DOMAIN prog /\ k \in Nat \ {0} /\ kernels[r] = 2 * k - 1
      /\ Works(r, k) /\ Starts(r, k) /\ ~Dones(r, k) /\ Combines(prog, k)
      /\ sender[r] \in [QueuesOf(prog, k) -> SenderSet] /\ <<c, d>> \in QueuesOf(prog, k)
      /\ \A q \in Ranks, j \in DOMAIN prog : Works(q, j) => j = k
  BY CombineFacts
<1> DEFINE v == sender[r][<<c, d>>]
           w == [v EXCEPT !.todo = "send"]
           f == [sender[r] EXCEPT ![<<c, d>>] = w]
           x == TailOf(prog, k, c, r)
<1>2. v \in SenderSet /\ v.tail \in Nat
  BY <1>1 DEF SenderSet
<1>3. w \in SenderSet /\ w.tok = v.tok /\ w.tail = v.tail
  BY <1>2 DEF SenderSet
<1>4. f \in [QueuesOf(prog, k) -> SenderSet] /\ f[<<c, d>>] = w
      /\ \A y \in QueuesOf(prog, k) : y # <<c, d>> => f[y] = sender[r][y]
  BY <1>1, <1>3
<1>5. /\ Still /\ call' = call /\ polling' = polling /\ counter' = counter
      /\ receiver' = receiver /\ warp' = warp /\ updater' = updater /\ handle' = handle
      /\ sender' = [sender EXCEPT ![r] = f]
      /\ Stores(d, x, v.tail)
  BY Bridge DEF ReleaseTail, hostVars, Still, Stores
<1>6. prog' = prog /\ KeepHandles /\ SamePhases /\ KeepNums /\ KeepPrefix /\ KeepTensor /\ KeepSums
      /\ KeepHead /\ KeepRecv /\ KeepChannel
  BY <1>5, KeepAll, StillSame DEF Still, KeepHandles
<1>7. x \in Addresses /\ x \in QueueCells(prog, k, c, r)
  BY <1>0, <1>1, CellKinds, CellsIn
<1> HIDE DEF v, w, f, x
<1>8. /\ MemInv' /\ \A q \in Ranks \ {d} : mem'[q] = mem[q]
      /\ mem'[d][x].int = v.tail /\ \A a \in Addresses \ {x} : mem'[d][a] = mem[d][a]
  BY <1>0, <1>2, <1>5, <1>6, <1>7, StoreStep
<1>8a. /\ prog \in Setups /\ QueuesInv /\ Still /\ k \in DOMAIN prog /\ Works(r, k)
       /\ f \in [QueuesOf(prog, k) -> SenderSet] /\ sender' = [sender EXCEPT ![r] = f]
       /\ receiver' = receiver /\ warp' = warp /\ updater' = updater
  BY <1>0, <1>1, <1>4, <1>5
<1>9. /\ QueuesInv' /\ sender'[r] = f /\ \A q \in Ranks \ {r} : sender'[q] = sender[q]
      /\ \A q \in Ranks, j \in DOMAIN prog : \A e, i :
           (q # r \/ j # k \/ f[<<e, i>>] = sender[r][<<e, i>>]) =>
             /\ NextTok(q, j, e, i)' = NextTok(q, j, e, i)
             /\ Releasing(q, j, e, i)' = Releasing(q, j, e, i)
             /\ SentBack(q, j, e, i)' = SentBack(q, j, e, i)
  BY <1>8a, SenderStep
<1>10. \A e \in ChannelsOf(prog, k), i \in Ranks : (e # c \/ i # d) => f[<<e, i>>] = sender[r][<<e, i>>]
  BY <1>4 DEF QueuesOf
<1>12. SentBack(r, k, c, d) = v.tail /\ SentBack(r, k, c, d)' = v.tail
  BY <1>1, <1>3, <1>4, <1>9, <1>6 DEF SentBack, v, SamePhases
<1>13. Lives(d, k) =>
         /\ BackOK(prog, k, r, d, c, v.tail, DOMAIN handle[d][k].sums, mem'[d])
         /\ mem'[d][x].int \in Int /\ mem'[d][x].int >= mem[d][x].int
  <2> SUFFICES ASSUME Lives(d, k)
               PROVE  /\ BackOK(prog, k, r, d, c, v.tail, DOMAIN handle[d][k].sums, mem'[d])
                      /\ mem'[d][x].int \in Int /\ mem'[d][x].int >= mem[d][x].int
    OBVIOUS
  <2> DEFINE m1 == mem[d]
             m2 == mem'[d]
             su == DOMAIN handle[d][k].sums
             to == v.tail
  <2>1. BackOK(prog, k, r, d, c, to, su, m1) /\ m1[TailOf(prog, k, c, r)].int \in Int
    BY <1>1, <1>12, BackNow
  <2>3. /\ m2[TailOf(prog, k, c, r)].int = to /\ to \in Nat
        /\ \A a \in QueueCells(prog, k, c, r) \ {TailOf(prog, k, c, r)} : m2[a] = m1[a]
    BY <1>2, <1>7, <1>8, <1>0, <1>1, CellsIn DEF x
  <2>4. /\ BackOK(prog, k, r, d, c, to, su, m2)
        /\ m2[TailOf(prog, k, c, r)].int >= m1[TailOf(prog, k, c, r)].int
    BY <1>0, <1>1, <2>1, <2>3, BackReleased
  <2> QED BY <2>3, <2>4 DEF x
<1>14. BackInv'
  <2>2. \A s, i \in Ranks, e \in ChannelsOf(prog, k) : (s # r \/ i # d \/ e # c) =>
           SentBack(s, k, e, i)' = SentBack(s, k, e, i)
    <3> TAKE s \in Ranks, i \in Ranks, e \in ChannelsOf(prog, k)
    <3> QED BY <1>1, <1>9, <1>10
  <2> QED BY <1>0, <1>7, <1>8, <2>2, <1>12, <1>13, <1>1, <1>5, <1>6, BackStep
<1>15. ReturnInv'
  BY <1>0, <1>1, <1>3, <1>4, <1>9, <1>10, <1>6 DEF ReturnInv, v, ReturnOK, SamePhases
<1>16. UpdaterInv'
  <2>1. \A s, i \in Ranks : \A e \in ChannelsOf(prog, k) : Works(i, k) =>
           /\ mem'[i][TailOf(prog, k, e, s)].int \in Int
           /\ mem'[i][TailOf(prog, k, e, s)].int >= mem[i][TailOf(prog, k, e, s)].int
    <3> TAKE s, i \in Ranks
    <3> TAKE e \in ChannelsOf(prog, k)
    <3>3. CASE i = d /\ TailOf(prog, k, e, s) = x
      BY <1>1, <1>13, <3>3 DEF Works, Running, Lives, Live, Cleaned, Done
    <3>4. CASE i # d \/ TailOf(prog, k, e, s) # x
      BY <1>8, <1>0, <1>1, CellsIn, CellKinds, MemTypes, <3>4
    <3> QED BY <3>3, <3>4
  <2> QED BY <1>0, <1>1, <1>5, <2>1, TailsUp
<1> QED BY <1>5, <1>6, <1>8, <1>9, <1>14, <1>15, <1>16, <1>0, HandlesFrame, WarpFrame, AddedFrame, SumsFrame,
   CombineFrame

-----------------------------------------------------------------------------
(* The rows that a rank returns.                                           *)

LEMMA ChannelRowsFacts ==
  ASSUME Shape, Together, DataInv, NEW r \in Ranks, NEW k \in DOMAIN prog, Combines(prog, k), Dones(r, HomeOf(prog, k)),
         NEW c \in ChannelsOf(prog, k), NEW d \in Ranks,
         NEW rows, rows = ChannelRows(k, handle[r][Home(k)], r, c, d)
  PROVE  /\ rows.first = Row(prog, k, d, r, Edge(prog, k, d, c))
         /\ rows.after = Row(prog, k, d, r, Edge(prog, k, d, c)) + Many(prog, k, d, r, c)
<1> DEFINE h == HomeOf(prog, k)
           g == handle[r][h]
<1>0. prog \in Setups /\ TensorInv /\ OffsetInv
  BY DataParts
<1>1. /\ h \in DOMAIN prog /\ prog[h].kind = "dispatch" /\ prog[h].channels = prog[k].channels
      /\ \A s \in Ranks : \A i, t : Below(prog, h, s, i, t) = Below(prog, k, s, i, t)
      /\ \A s \in Ranks : \A e : Edge(prog, h, s, e) = Edge(prog, k, s, e)
      /\ \A i, s : Pre(prog, h, s, i) = Pre(prog, k, s, i)
  BY <1>0, HomeFacts, SameRouting
<1>2. h \in Nat \ {0} /\ prog[k].channels \in Nat \ {0} /\ NumRanks \in Nat /\ NumRanks >= 2
  BY <1>0, <1>1, CallNumbers, ProgramFacts, RanksFinite
<1>3. Cleans(r, h) /\ Dispatches(prog, h)
  BY <1>1, <1>2 DEF Cleans, Cleaned, Dones, Done, Dispatches, AnyDispatch, Shape
<1>4. \A i \in Ranks : g.rankPrefix[i * NumRanks + r].int = Pre(prog, k, i + 1, r)
  BY <1>0, <1>1, <1>3 DEF TensorInv, MatrixOK
<1>6. RankStart(g, r, d) = Pre(prog, k, d, r) /\ RankEnd(g, r, d) = Pre(prog, k, d + 1, r)
  <2>2. d \in Nat /\ d < NumRanks
    BY RanksFinite
  <2>3. CASE d > 0
    BY <1>2, <2>2, <2>3, <1>4 DEF Ranks, RankStart, RankEnd
  <2>4. CASE ~(d > 0)
    BY <1>0, <2>2, <2>4, PreFacts, <1>4 DEF RankStart, RankEnd
  <2> QED BY <2>3, <2>4
<1> DEFINE b1 == Below(prog, k, d, r, Edge(prog, k, d, c))
           b2 == Below(prog, k, d, r, Edge(prog, k, d, c + 1))
           p1 == Pre(prog, k, d, r)
           p2 == Pre(prog, k, d + 1, r)
           next == IF c = prog[k].channels - 1 THEN RankEnd(g, r, d) - RankStart(g, r, d) ELSE g.recvChannel[<<c + 1, d>>]
<1>8. /\ p1 \in Nat /\ p2 \in Nat /\ p2 = p1 + Cardinality(RoutedTo(prog, k, d, r))
      /\ Cardinality(RoutedTo(prog, k, d, r)) \in Nat
  BY <1>0, PreFacts, RowFacts, RoutedFacts
<1>9. b1 \in Nat /\ b2 \in Nat
  BY <1>0, ChannelBounds, BelowFacts
<1>10. next = b2
  <2>2. CASE c = prog[k].channels - 1
    <3>1. c + 1 = prog[k].channels
      BY <1>2, <2>2
    <3>3. b2 = Cardinality(RoutedTo(prog, k, d, r))
      BY <1>0, <3>1, EdgeFacts, BelowFacts
    <3> QED BY <1>6, <1>8, <2>2, <3>3
  <2>3. CASE c # prog[k].channels - 1
    BY <1>2, <2>3, <1>1, <1>0, <1>3 DEF ChannelsOf, HasOffsets, OffsetInv, OffsetOK
  <2> QED BY <2>2, <2>3
<1>11. rows.first = p1 + b1 /\ rows.after = p1 + b2
  BY <1>1, <1>0, <1>3, <1>6, Bridge, <1>10 DEF ChannelRows, ChannelsOf, HasOffsets, OffsetInv, OffsetOK
<1>12. Many(prog, k, d, r, c) = b2 - b1 /\ Row(prog, k, d, r, Edge(prog, k, d, c)) = p1 + b1
  BY DEF Many, Nth, Row
<1> HIDE DEF b1, b2, p1
<1> QED BY <1>8, <1>9, <1>11, <1>12

\* What SendBack puts into the memory of the token's rank: n rows of x, from row tok on.
BackCells(p, k, r, c, tok, tail, n, x) ==
  [a \in {SlotOf(p, k, c, r, tail + i) : i \in 0 .. n - 1} |->
     LET i == CHOOSE j \in 0 .. n - 1 : SlotOf(p, k, c, r, tail + j) = a
     IN  Slot(Item(k, r, x[tok + i].src, x[tok + i].tok, {}))]
\* Cells g are those of the n tokens from place tail on, returned.
Fills(p, k, r, d, c, tail, n, g) ==
  /\ \A a \in DOMAIN g : /\ a \in QueueCells(p, k, c, r) /\ g[a] \in Cell
                         /\ \E y \in tail .. tail + n - 1 : a = SlotOf(p, k, c, r, y)
  /\ \A t \in InChannel(p, k, d, r, c) : tail <= Nth(p, k, d, r, c, t) /\ Nth(p, k, d, r, c, t) < tail + n =>
       /\ SlotOf(p, k, c, r, Nth(p, k, d, r, c, t)) \in DOMAIN g
       /\ g[SlotOf(p, k, c, r, Nth(p, k, d, r, c, t))].item = Returned(k, r, d, t)
\* x has the rows that came from rank d.
HasRows(p, k, r, d, c, x) == \A t \in InChannel(p, k, d, r, c) :
  x[Row(p, k, d, r, t)].src = d /\ x[Row(p, k, d, r, t)].tok = t

\* The slots that a round of returns fills.
LEMMA BackCellsFill ==
  ASSUME NEW p \in Setups, NEW k \in DOMAIN p, NEW r \in Ranks, NEW d \in Ranks, NEW c \in ChannelsOf(p, k),
         NEW tok, NEW tail \in Nat, NEW n \in Nat, n < p[k].recv, tail + n <= Many(p, k, d, r, c),
         tok = Row(p, k, d, r, Edge(p, k, d, c)) + tail, NEW x, HasRows(p, k, r, d, c, x),
         NEW g, g = BackCells(p, k, r, c, tok, tail, n, x)
  PROVE  Fills(p, k, r, d, c, tail, n, g)
<1> DEFINE S(i) == SlotOf(p, k, c, r, tail + i)
           N(t) == Nth(p, k, d, r, c, t)
           R0 == Row(p, k, d, r, Edge(p, k, d, c))
           In == InChannel(p, k, d, r, c)
           I == 0 .. n - 1
           G(i) == Slot(Item(k, r, x[tok + i].src, x[tok + i].tok, {}))
<1>1. p[k].recv \in Nat /\ k \in Nat
  BY ProgramFacts, CallNumbers
<1>2. ASSUME NEW i \in I, NEW j \in I, i < j PROVE S(i) # S(j)
  BY <1>1, <1>2, SlotsDiffer
<1>5. \A i \in I : S(i) \in DOMAIN g /\ g[S(i)] = G(i)
  BY <1>2 DEF BackCells
<1>6. \A a \in DOMAIN g : \E i \in I : a = S(i)
  BY DEF BackCells
<1>7. /\ \A t \in In : t \in Nat /\ N(t) \in Nat /\ N(t) < Many(p, k, d, r, c)
      /\ \A t, u \in In : N(t) = N(u) => t = u
      /\ Many(p, k, d, r, c) \in Nat /\ N(Edge(p, k, d, c + 1)) = Many(p, k, d, r, c)
  BY NthFacts
<1>8. Edge(p, k, d, c) <= Edge(p, k, d, c + 1) /\ Edge(p, k, d, c) \in Nat /\ Edge(p, k, d, c + 1) \in Nat
  BY ChannelBounds
<1>10. \A t \in In : Returned(k, r, d, t) \in ItemSet
  BY <1>1, <1>7 DEF Returned, Item, ItemSet
<1>11. \A i \in I : \E t \in In : N(t) = tail + i
  BY <1>7, <1>8, PlaceReached
<1>12. \A i \in I : \A t \in In : N(t) = tail + i => G(i) = Slot(Returned(k, r, d, t))
  BY <1>7, RowNth DEF HasRows, Returned
<1> HIDE DEF S, N, R0, In, I, G
<1>14. \A i \in I : g[S(i)] \in Cell
  BY <1>5, <1>10, <1>11, <1>12, Words
<1>16. ASSUME NEW t \in In, tail <= N(t), N(t) < tail + n
       PROVE  SlotOf(p, k, c, r, N(t)) \in DOMAIN g /\ g[SlotOf(p, k, c, r, N(t))].item = Returned(k, r, d, t)
  BY <1>7, <1>16, <1>5, <1>12, <1>10, Words DEF I, S
<1> QED BY <1>16, <1>6, CellKinds, <1>14 DEF Fills, N, In, I, S

\* What a rank returns, in the words of the program.
Returns(r, k, c, d, v, n, g) ==
  /\ v \in SenderSet /\ v.tail \in Nat /\ v.tok \in Nat /\ n \in Nat /\ v.tail + n <= Many(prog, k, d, r, c)
  /\ v.tok = Row(prog, k, d, r, Edge(prog, k, d, c)) + v.tail
  /\ prog[k].recv - (v.tail - mem[d][HeadOf(prog, k, c, r)].int) >= n
  /\ Fills(prog, k, r, d, c, v.tail, n, g)
  /\ mem' = [mem EXCEPT ![d] = Put(mem[d], g)]
  /\ sender' = [sender EXCEPT ![r][<<c, d>>] = [tok |-> v.tok + n, tail |-> v.tail + n, todo |-> "release"]]

\* What a round of returns does to queue and registers.
LEMMA SendBackMeans ==
  ASSUME Shape, Together, DataInv, NEW r \in Ranks, NEW k, k = CallOf(r), Runs(r, {"combine"}),
         NEW c \in ChannelsOf(prog, k), NEW d \in Ranks, SendBack(r, c, d)
  PROVE  \E n, g : Returns(r, k, c, d, sender[r][<<c, d>>], n, g)
<1>0. prog \in Setups /\ TakenInv /\ ReturnInv
  BY DataParts
<1>1. /\ k \in DOMAIN prog /\ k \in Nat \ {0} /\ kernels[r] = 2 * k - 1
      /\ Works(r, k) /\ Starts(r, k) /\ ~Dones(r, k) /\ Lives(r, k) /\ Combines(prog, k)
      /\ \A q \in Ranks, j \in DOMAIN prog : Works(q, j) => j = k
      /\ \A q \in Ranks : Opens(q, k)
      /\ sender[r] \in [QueuesOf(prog, k) -> SenderSet]
      /\ warp[r] \in [ChannelsOf(prog, k) \X Warps -> WarpSet]
      /\ updater[r] \in [QueuesOf(prog, k) -> UpdaterSet]
      /\ \A e \in ChannelsOf(prog, k), i \in Ranks : <<e, i>> \in QueuesOf(prog, k)
      /\ Past(HomeOf(prog, k)) /\ Past(prog[k].of)
  BY CombineFacts
<1> DEFINE v == sender[r][<<c, d>>]
           o == prog[k].of
           rows == ChannelRows(k, handle[r][Home(k)], r, c, d)
           n == Smaller(prog[k].send, rows.after - v.tok)
           x == handle[r][o].recv
           R0 == Row(prog, k, d, r, Edge(prog, k, d, c))
           M0 == Many(prog, k, d, r, c)
           g == BackCells(prog, k, r, c, v.tok, v.tail, n, x)
<1>3. v \in SenderSet /\ v.tail \in Nat /\ v.tok \in Nat
  BY <1>1 DEF SenderSet
<1>4. v.tail <= M0 /\ v.tok = R0 + v.tail
  BY <1>0, <1>1 DEF ReturnInv, ReturnOK
<1>6. R0 \in Nat /\ M0 \in Nat
  BY <1>0, <1>1, ChannelBounds, RowFacts, NthFacts
<1>7. prog[k].send \in Nat /\ prog[k].recv \in Nat /\ prog[k].send < prog[k].recv
  BY <1>0, <1>1, ProgramFacts
<1>8. v.tok < rows.after /\ HasRoom(k, r, c, d, n)
  BY DEF SendBack
<1>9. n \in Nat /\ n < prog[k].recv /\ v.tail + n <= M0
  BY <1>3, <1>4, <1>0, <1>1, ChannelRowsFacts, <1>6, <1>7, <1>8 DEF Smaller, Past
<1>11. HasRows(prog, k, r, d, c, x)
  <2>1. prog \in Setups /\ k \in DOMAIN prog /\ prog[k].kind # "dispatch"
    BY <1>0, <1>1 DEF Combines
  <2>3. TakenOK(prog, o, d, r, c, Taken(r, o, c, d), x) /\ Taken(r, o, c, d) = Many(prog, o, d, r, c)
    BY <1>0, <1>1, <2>1, SameRouting DEF TakenInv, Taken, Past
  <2>4. \A t \in InChannel(prog, k, d, r, c) : Nth(prog, k, d, r, c, t) < M0
    BY <1>0, <1>1, NthFacts
  <2>6. \A t : TokenOf(prog, o, d, r, t).src = d /\ TokenOf(prog, o, d, r, t).tok = t
    BY DEF TokenOf, Item
  <2> QED BY <2>1, SameRouting, <2>3, <2>4, <2>6 DEF HasRows, TakenOK
<1>12. Fills(prog, k, r, d, c, v.tail, n, g)
  BY <1>3, <1>4, <1>9, <1>11, <1>0, <1>1, BackCellsFill
<1>14. mem' = [mem EXCEPT ![d] = Put(mem[d], g)]
  <2> DEFINE j0 == CallOf(r)
             af == ChannelRows(j0, handle[r][Home(j0)], r, c, d).after
             n0 == Smaller(prog[j0].send, af - v.tok)
             x0 == handle[r][prog[j0].of].recv
  <2>1. mem' = [mem EXCEPT ![d] = Put(mem[d], BackCells(prog, j0, r, c, v.tok, v.tail, n0, x0))]
    BY DEF SendBack, BackCells, SlotAt, SlotOf, Base, BaseOf, NumWords, NumWordsOf
  <2>2. j0 = k /\ n0 = n /\ x0 = x
    OBVIOUS
  <2> HIDE DEF j0, n0, x0, n, x, v
  <2> QED BY <2>1, <2>2
<1>15. Returns(r, k, c, d, v, n, g)
  BY <1>3, <1>4, <1>9, <1>8, Bridge, <1>12, <1>14 DEF Returns, M0, R0, SendBack, HasRoom
<1> HIDE DEF n, g
<1> QED BY <1>15

\* A round of returns keeps all of it.
LEMMA SendBackStep ==
  ASSUME Shape, Together, DataInv, NEW r \in Ranks, NEW k, k = CallOf(r), Runs(r, {"combine"}),
         NEW c \in ChannelsOf(prog, k), NEW d \in Ranks, SendBack(r, c, d)
  PROVE  DataInv'
<1>0. /\ prog \in Setups /\ MemInv /\ HandlesInv /\ QueuesInv
      /\ ReturnInv /\ BackInv /\ WarpInv /\ AddedInv /\ UpdaterInv /\ SumsInv
  BY DataParts
<1>1. /\ k \in DOMAIN prog /\ k \in Nat \ {0} /\ kernels[r] = 2 * k - 1
      /\ Works(r, k) /\ Starts(r, k) /\ ~Dones(r, k) /\ Combines(prog, k)
      /\ sender[r] \in [QueuesOf(prog, k) -> SenderSet] /\ <<c, d>> \in QueuesOf(prog, k)
      /\ \A q \in Ranks, j \in DOMAIN prog : Works(q, j) => j = k
  BY CombineFacts
<1> DEFINE v == sender[r][<<c, d>>]
<1>2. PICK n, g : Returns(r, k, c, d, v, n, g)
  BY SendBackMeans
<1> DEFINE w == [tok |-> v.tok + n, tail |-> v.tail + n, todo |-> "release"]
           f == [sender[r] EXCEPT ![<<c, d>>] = w]
           M0 == Many(prog, k, d, r, c)
           R0 == Row(prog, k, d, r, Edge(prog, k, d, c))
<1>3. /\ v \in SenderSet /\ v.tail \in Nat /\ v.tok \in Nat /\ n \in Nat /\ v.tail + n <= M0
      /\ v.tok = R0 + v.tail
      /\ prog[k].recv - (v.tail - mem[d][HeadOf(prog, k, c, r)].int) >= n
      /\ Fills(prog, k, r, d, c, v.tail, n, g)
      /\ mem' = [mem EXCEPT ![d] = Put(mem[d], g)]
      /\ sender' = [sender EXCEPT ![r][<<c, d>>] = w]
  BY <1>2 DEF Returns
<1>4. R0 \in Nat /\ M0 \in Nat
  BY <1>0, <1>1, ChannelBounds, RowFacts, NthFacts
<1>5. w \in SenderSet /\ w.tail = v.tail + n /\ w.tok = R0 + w.tail /\ w.tail <= M0
  BY <1>3, <1>4 DEF SenderSet
<1>6. f \in [QueuesOf(prog, k) -> SenderSet] /\ f[<<c, d>>] = w
      /\ \A y \in QueuesOf(prog, k) : y # <<c, d>> => f[y] = sender[r][y]
  BY <1>1, <1>5
<1>7. /\ Still /\ call' = call /\ polling' = polling /\ counter' = counter
      /\ receiver' = receiver /\ warp' = warp /\ updater' = updater /\ handle' = handle
      /\ sender' = [sender EXCEPT ![r] = f]
  BY <1>3 DEF SendBack, hostVars, Still
<1> HIDE DEF v, w, f, M0, R0
<1>8. prog' = prog /\ KeepHandles /\ SamePhases /\ KeepNums /\ KeepPrefix /\ KeepTensor /\ KeepSums
      /\ KeepHead /\ KeepRecv /\ KeepChannel
  BY <1>7, KeepAll, StillSame DEF Still, KeepHandles
<1>9. QueueCells(prog, k, c, r) \subseteq Addresses
  BY <1>0, <1>1, CellsIn
<1>10. /\ DOMAIN g \subseteq Addresses /\ DOMAIN g \subseteq QueueCells(prog, k, c, r) /\ \A a \in DOMAIN g : g[a] \in Cell
       /\ \A a \in DOMAIN g : \E y \in v.tail .. v.tail + n - 1 : a = SlotOf(prog, k, c, r, y)
  BY <1>3, <1>9 DEF Fills
<1>11. /\ MemInv' /\ \A q \in Ranks \ {d} : mem'[q] = mem[q]
       /\ \A a \in Addresses : mem'[d][a] = IF a \in DOMAIN g THEN g[a] ELSE mem[d][a]
  BY <1>0, <1>3, <1>8, <1>10, MemStep
<1>12. /\ prog \in Setups /\ QueuesInv /\ Still /\ k \in DOMAIN prog /\ Works(r, k)
       /\ f \in [QueuesOf(prog, k) -> SenderSet] /\ sender' = [sender EXCEPT ![r] = f]
       /\ receiver' = receiver /\ warp' = warp /\ updater' = updater
  BY <1>0, <1>1, <1>6, <1>7
<1>13. /\ QueuesInv' /\ sender'[r] = f /\ \A q \in Ranks \ {r} : sender'[q] = sender[q]
       /\ \A q \in Ranks, j \in DOMAIN prog : \A e, i :
            (q # r \/ j # k \/ f[<<e, i>>] = sender[r][<<e, i>>]) =>
              /\ NextTok(q, j, e, i)' = NextTok(q, j, e, i)
              /\ Releasing(q, j, e, i)' = Releasing(q, j, e, i)
              /\ SentBack(q, j, e, i)' = SentBack(q, j, e, i)
  BY <1>12, SenderStep
<1>14. \A e \in ChannelsOf(prog, k), i \in Ranks : (e # c \/ i # d) => f[<<e, i>>] = sender[r][<<e, i>>]
  BY <1>6 DEF QueuesOf
<1>18. Lives(d, k) => BackOK(prog, k, r, d, c, v.tail + n, DOMAIN handle[d][k].sums, mem'[d])
  <2> SUFFICES ASSUME Lives(d, k)
               PROVE  BackOK(prog, k, r, d, c, v.tail + n, DOMAIN handle[d][k].sums, mem'[d])
    OBVIOUS
  <2> DEFINE m1 == mem[d]
             m2 == mem'[d]
             su == DOMAIN handle[d][k].sums
             to == v.tail
  <2>1. /\ BackOK(prog, k, r, d, c, to, su, m1)
        /\ m1[TailOf(prog, k, c, r)].int \in Int /\ m1[HeadOf(prog, k, c, r)].int \in Int
    BY <1>1, <1>5, <1>6, <1>13, <1>8, BackNow DEF SentBack, v, SamePhases
  <2>2. to + n - m1[HeadOf(prog, k, c, r)].int <= prog[k].recv
    <3>1. prog[k].recv \in Nat
      BY <1>0, <1>1, ProgramFacts
    <3> QED BY <1>3, <2>1, <3>1
  <2> QED BY <1>3, <1>0, <1>1, <2>1, <2>2, <1>10, <1>11, <1>9, BackFilled DEF Fills
<1>19. BackInv'
  <2>2. \A s, i \in Ranks, e \in ChannelsOf(prog, k) : (s # r \/ i # d \/ e # c) =>
           SentBack(s, k, e, i)' = SentBack(s, k, e, i)
    <3> TAKE s \in Ranks, i \in Ranks, e \in ChannelsOf(prog, k)
    <3> QED BY <1>1, <1>13, <1>14
  <2>3. Lives(d, k) => BackOK(prog, k, r, d, c, SentBack(r, k, c, d)', DOMAIN handle[d][k].sums, mem'[d])
    BY <1>1, <1>5, <1>6, <1>13, <1>8, <1>18 DEF SentBack, v, SamePhases
  <2> QED BY <1>0, <1>10, <1>11, <2>2, <2>3, <1>1, <1>7, <1>8, BackStep
<1>20. ReturnInv'
  BY <1>0, <1>1, <1>5, <1>6, <1>13, <1>14, <1>8 DEF ReturnInv, ReturnOK, M0, R0, SamePhases
<1>21. UpdaterInv'
  <2>1. \A s, i \in Ranks : \A e \in ChannelsOf(prog, k) :
           /\ mem'[i][TailOf(prog, k, e, s)].int \in Int
           /\ mem'[i][TailOf(prog, k, e, s)].int >= mem[i][TailOf(prog, k, e, s)].int
    <3> TAKE s, i \in Ranks
    <3> TAKE e \in ChannelsOf(prog, k)
    <3>1. TailOf(prog, k, e, s) \in Addresses /\ TailOf(prog, k, e, s) \in QueueCells(prog, k, e, s)
      BY <1>0, <1>1, CellsIn, CellKinds
    <3>3. TailOf(prog, k, e, s) \notin DOMAIN g
      BY <1>0, <1>1, CellKinds, <1>3, <1>9, <1>10, QueueCellsFacts, <3>1
    <3> QED BY <1>0, <3>1, MemTypes, <1>11, <3>3
  <2> QED BY <1>0, <1>1, <1>7, <2>1, TailsUp
<1> QED BY <1>7, <1>8, <1>11, <1>13, <1>19, <1>20, <1>21, <1>0, HandlesFrame, WarpFrame, AddedFrame, SumsFrame,
   CombineFrame

\* Warps and updaters of one rank move on.
LEMMA WarpStep ==
  ASSUME Shape, prog \in Setups, QueuesInv, Still, NEW r \in Ranks, NEW k \in DOMAIN prog, Works(r, k), Combines(prog, k),
         NEW f \in [ChannelsOf(prog, k) \X Warps -> WarpSet], warp' = [warp EXCEPT ![r] = f],
         NEW g \in [QueuesOf(prog, k) -> UpdaterSet], updater' = [updater EXCEPT ![r] = g],
         sender' = sender, receiver' = receiver
  PROVE  /\ QueuesInv' /\ warp'[r] = f /\ updater'[r] = g
         /\ \A q \in Ranks \ {r} : warp'[q] = warp[q] /\ updater'[q] = updater[q]
<1>2. warp'[r] = f /\ updater'[r] = g /\ \A q \in Ranks \ {r} : warp'[q] = warp[q] /\ updater'[q] = updater[q]
  BY DEF QueuesInv
<1>3. \A j \in DOMAIN prog : Works(r, j) => j = k
  BY CallNumbers DEF Works, Running
<1>7. ASSUME NEW q \in Ranks, stage[q] # "run"
      PROVE  sender[q] = <<>> /\ receiver[q] = <<>> /\ warp'[q] = <<>> /\ updater'[q] = <<>>
  BY <1>2, <1>7 DEF QueuesInv, Works, Running
<1>8. ASSUME NEW q \in Ranks, NEW j \in DOMAIN prog, Works(q, j)
      PROVE  /\ warp'[q] \in (IF Combines(prog, j) THEN [ChannelsOf(prog, j) \X Warps -> WarpSet] ELSE {<<>>})
             /\ updater'[q] \in (IF Combines(prog, j) THEN [QueuesOf(prog, j) -> UpdaterSet] ELSE {<<>>})
  BY <1>2, <1>3, <1>8 DEF QueuesInv
<1>9. ASSUME NEW q \in Ranks, NEW j \in DOMAIN prog, Works(q, j)
      PROVE  /\ sender[q] \in [QueuesOf(prog, j) -> SenderSet]
             /\ receiver[q] \in (IF Dispatches(prog, j) THEN [QueuesOf(prog, j) -> ReceiverSet] ELSE {<<>>})
  BY <1>9 DEF QueuesInv
<1>11. QueuesInv'
  <2>3. \A q \in Ranks, j \in DOMAIN prog : Works(q, j)' =>
          /\ sender'[q] \in [QueuesOf(prog, j) -> SenderSet]
          /\ receiver'[q] \in (IF Dispatches(prog, j) THEN [QueuesOf(prog, j) -> ReceiverSet] ELSE {<<>>})
          /\ warp'[q] \in (IF Combines(prog, j) THEN [ChannelsOf(prog, j) \X Warps -> WarpSet] ELSE {<<>>})
          /\ updater'[q] \in (IF Combines(prog, j) THEN [QueuesOf(prog, j) -> UpdaterSet] ELSE {<<>>})
    BY StillPhases, <1>8, <1>9
  <2> QED BY <1>7, <2>3 DEF QueuesInv, Still
<1> QED BY <1>2, <1>11

\* A token that has not been added up yet is not behind the head of its warp.
LEMMA WarpBehind ==
  ASSUME Shape, Together, DataInv, NEW r \in Ranks, NEW k, k = CallOf(r), Runs(r, {"combine"}),
         NEW c \in ChannelsOf(prog, k), NEW s \in Ranks, NEW t \in InChannel(prog, k, r, s, c), t \notin DOMAIN handle[r][k].sums
  PROVE  \E w \in Warps : ~warp[r][<<c, w>>].retired /\ Nth(prog, k, r, s, c, t) >= warp[r][<<c, w>>].heads[s]
<1>0. prog \in Setups /\ WarpInv /\ AddedInv
  BY DataParts
<1>1. k \in DOMAIN prog /\ Works(r, k) /\ Combines(prog, k) /\ warp[r] \in [ChannelsOf(prog, k) \X Warps -> WarpSet]
  BY CombineFacts
<1> DEFINE w == TurnOf(prog, k, r, c, t)
           v == warp[r][<<c, w>>]
<1>2. t \in OfChannel(prog, k, r, c) /\ t \in Nat /\ t < Edge(prog, k, r, c + 1) /\ t >= Edge(prog, k, r, c)
  BY <1>0, <1>1, NthFacts DEF InChannel
<1>3. w \in Warps
  BY <1>0, <1>1, <1>2, TurnFacts
<1>4. WarpOK(prog, k, r, c, w, v)
  BY <1>0, <1>1, <1>3 DEF WarpInv
<1>6. ~(t < v.tok)
  BY <1>2, <1>0, <1>1 DEF AddedOK, AddedInv
<1>8. t >= v.tok /\ ~(v.tok >= Edge(prog, k, r, c + 1))
  BY <1>2, <1>6, <1>0, <1>1, <1>3, ChannelBounds DEF WarpSet
<1> QED BY <1>3, <1>4, <1>8 DEF WarpOK

\* What a head updater does, in the words of the program.
Updates(r, k, c, s, last) ==
  /\ last \in Nat
  /\ updater' = [updater EXCEPT ![r][<<c, s>>] = [tail |-> mem[r][TailOf(prog, k, c, s)].int, last |-> last]]
  /\ \/ mem' = mem
     \/ /\ Stores(r, HeadOf(prog, k, c, s), last)
        /\ \A t \in InChannel(prog, k, r, s, c) : t \notin DOMAIN handle[r][k].sums => Nth(prog, k, r, s, c, t) >= last
\* What the updating warp does: the least head of the warps that are not through.
LEMMA UpdateMeans ==
  ASSUME Shape, Together, DataInv, NEW r \in Ranks, NEW k, k = CallOf(r), Runs(r, {"combine"}),
         NEW c \in ChannelsOf(prog, k), NEW s \in Ranks, Update(r, c, s)
  PROVE  \E last : Updates(r, k, c, s, last)
<1>1. /\ k \in DOMAIN prog /\ Works(r, k) /\ Combines(prog, k)
      /\ warp[r] \in [ChannelsOf(prog, k) \X Warps -> WarpSet]
      /\ updater[r] \in [QueuesOf(prog, k) -> UpdaterSet] /\ <<c, s>> \in QueuesOf(prog, k)
  BY CombineFacts
<1> DEFINE u == updater[r][<<c, s>>]
           live == {v \in Warps : ~warp[r][<<c, v>>].retired}
           heads == {warp[r][<<c, w>>].heads[s] : w \in live}
           tail == mem[r][TailAt(k, c, s)].int
           last == IF Min(heads) > u.last THEN Min(heads) ELSE u.last
<1>2. /\ heads # {} /\ updater' = [updater EXCEPT ![r][<<c, s>>] = [tail |-> tail, last |-> last]]
      /\ mem' = IF last = u.last THEN mem ELSE [mem EXCEPT ![r][HeadAt(k, c, s)] = Word(last)]
  BY DEF Update
<1>3. heads \subseteq Nat
  <2>2. \A w \in Warps : warp[r][<<c, w>>].heads[s] \in Nat
    BY <1>1 DEF WarpSet
  <2> QED BY <2>2
<1>5. u.last \in Nat /\ Min(heads) \in Nat
  BY <1>1, <1>3, <1>2, LeastNumber DEF UpdaterSet, Min
<1>6. \A t \in InChannel(prog, k, r, s, c) : t \notin DOMAIN handle[r][k].sums => Nth(prog, k, r, s, c, t) >= Min(heads)
  <2> TAKE t \in InChannel(prog, k, r, s, c)
  <2> HAVE t \notin DOMAIN handle[r][k].sums
  <2>1. PICK w \in Warps : ~warp[r][<<c, w>>].retired /\ Nth(prog, k, r, s, c, t) >= warp[r][<<c, w>>].heads[s]
    BY WarpBehind
  <2>2. warp[r][<<c, w>>].heads[s] \in heads
    BY <2>1
  <2> HIDE DEF heads
  <2> QED BY <1>3, <1>2, LeastNumber, <1>5, <2>1, <2>2, DataParts, <1>1, NthFacts DEF Min
<1> HIDE DEF heads, u
<1>8. last \in Nat /\ (last # u.last => last = Min(heads))
  BY <1>5
<1> HIDE DEF last
<1> QED BY <1>2, <1>6, Bridge, <1>8 DEF Updates, Stores

\* An update of the head keeps all of it.
LEMMA UpdateStep ==
  ASSUME Shape, Together, DataInv, NEW r \in Ranks, NEW k, k = CallOf(r), Runs(r, {"combine"}),
         NEW c \in ChannelsOf(prog, k), NEW s \in Ranks, Update(r, c, s)
  PROVE  DataInv'
<1>0. /\ prog \in Setups /\ MemInv /\ HandlesInv /\ QueuesInv
      /\ ReturnInv /\ BackInv /\ WarpInv /\ AddedInv /\ UpdaterInv /\ SumsInv
  BY DataParts
<1>1. /\ k \in DOMAIN prog /\ k \in Nat \ {0} /\ kernels[r] = 2 * k - 1
      /\ Works(r, k) /\ Starts(r, k) /\ ~Dones(r, k) /\ Lives(r, k) /\ Combines(prog, k)
      /\ \A q \in Ranks, j \in DOMAIN prog : Works(q, j) => j = k
      /\ warp[r] \in [ChannelsOf(prog, k) \X Warps -> WarpSet]
      /\ updater[r] \in [QueuesOf(prog, k) -> UpdaterSet] /\ <<c, s>> \in QueuesOf(prog, k)
  BY CombineFacts
<1>2. PICK last : Updates(r, k, c, s, last)
  BY UpdateMeans
<1> DEFINE x == HeadOf(prog, k, c, s)
           y == TailOf(prog, k, c, s)
           w == [tail |-> mem[r][y].int, last |-> last]
           f == [updater[r] EXCEPT ![<<c, s>>] = w]
           sums == DOMAIN handle[r][k].sums
<1>3. /\ Still /\ call' = call /\ polling' = polling /\ counter' = counter
      /\ sender' = sender /\ receiver' = receiver /\ warp' = warp /\ handle' = handle
  BY DEF Update, hostVars, Still
<1>4. BackOK(prog, k, s, r, c, SentBack(s, k, c, r), sums, mem[r]) /\ mem[r][y].int \in Nat
  BY <1>0, <1>1, BackNow
<1>5. last \in Nat /\ updater' = [updater EXCEPT ![r] = f] /\ f \in [QueuesOf(prog, k) -> UpdaterSet]
      /\ f[<<c, s>>] = w /\ \A e \in QueuesOf(prog, k) : e # <<c, s>> => f[e] = updater[r][e]
  BY <1>2, <1>4, <1>1 DEF Updates, UpdaterSet
<1>6. prog' = prog /\ KeepHandles /\ SamePhases /\ KeepNums /\ KeepPrefix /\ KeepTensor /\ KeepSums
      /\ KeepHead /\ KeepRecv /\ KeepChannel
  BY <1>3, KeepAll, StillSame DEF Still, KeepHandles
<1>7. /\ x \in Addresses /\ x \in QueueCells(prog, k, c, s)
      /\ \A e \in ChannelsOf(prog, k), i \in Ranks : TailOf(prog, k, e, i) \in Addresses /\ TailOf(prog, k, e, i) # x
  BY <1>0, <1>1, CellKinds, QueueCellsFacts, CellsIn
<1> HIDE DEF x, y, w, f, sums
<1>8. /\ MemInv' /\ (\A q \in Ranks \ {r} : mem'[q] = mem[q]) /\ (\A a \in Addresses \ {x} : mem'[r][a] = mem[r][a])
      /\ \/ mem'[r][x] = mem[r][x]
         \/ mem'[r][x].int = last /\ \A t \in InChannel(prog, k, r, s, c) : t \notin sums => Nth(prog, k, r, s, c, t) >= last
  BY <1>0, <1>6, MemFrame, <1>2, <1>5, <1>7, StoreStep DEF Updates, x, sums
<1>9. QueuesInv' /\ updater'[r] = f /\ \A q \in Ranks \ {r} : updater'[q] = updater[q]
  <2> DEFINE g == warp[r]
  <2>1. g \in [ChannelsOf(prog, k) \X Warps -> WarpSet] /\ warp' = [warp EXCEPT ![r] = g]
    BY <1>0, <1>1, <1>3 DEF QueuesInv
  <2> HIDE DEF g
  <2>2. /\ prog \in Setups /\ QueuesInv /\ Still /\ k \in DOMAIN prog /\ Works(r, k) /\ Combines(prog, k)
        /\ f \in [QueuesOf(prog, k) -> UpdaterSet] /\ updater' = [updater EXCEPT ![r] = f]
        /\ sender' = sender /\ receiver' = receiver
    BY <1>0, <1>1, <1>3, <1>5
  <2> QED BY <2>1, <2>2, WarpStep, ZenonT(30)
<1>10. BackOK(prog, k, s, r, c, SentBack(s, k, c, r), sums, mem'[r])
  <2> DEFINE m1 == mem[r]
             m2 == mem'[r]
             to == SentBack(s, k, c, r)
  <2>1. \A a \in QueueCells(prog, k, c, s) \ {HeadOf(prog, k, c, s)} : m2[a] = m1[a]
    BY <1>0, <1>1, <1>8, CellsIn DEF x
  <2>2. \A t \in InChannel(prog, k, r, s, c) : t \notin sums => Nth(prog, k, r, s, c, t) >= m2[HeadOf(prog, k, c, s)].int
    BY <1>4, <1>8 DEF BackOK, x
  <2>3. BackOK(prog, k, s, r, c, to, sums, m1)
    BY <1>4
  <2> HIDE DEF m1, m2, to
  <2> QED BY <1>0, <1>1, <2>1, <2>2, <2>3, BackMoved DEF m2, to
<1>12. BackInv'
  BY <1>7, <1>8, <1>3, StillPhases, <1>10, <1>0, <1>1, <1>6, BackStep DEF sums, SentBack, Still
<1>13. UpdaterInv'
  <2>1. ASSUME NEW i \in Ranks, NEW d \in Ranks, NEW j \in DOMAIN prog, NEW e \in ChannelsOf(prog, j), Combines(prog, j), Works(d, j)
        PROVE  updater'[d][<<e, i>>].tail <= mem'[d][TailOf(prog, j, e, i)].int
    <3>4. CASE d = r /\ e = c /\ i = s
      BY <1>5, <1>9, <1>4, <1>0, <1>1, <2>1, <1>8, <1>7, <3>4 DEF w, y, UpdaterInv
    <3>5. CASE d # r \/ e # c \/ i # s
      BY <1>5, <1>9, <2>1, <1>0, <1>1, <3>5, <1>8, <1>7 DEF QueuesOf, UpdaterInv
    <3> QED BY <3>4, <3>5
  <2> QED BY <1>6, <2>1, <1>3, StillPhases DEF UpdaterInv
<1> QED BY <1>3, <1>6, <1>8, <1>9, <1>12, <1>13, <1>0, HandlesFrame, ReturnFrame, WarpFrame, AddedFrame,
   SumsFrame, CombineFrame

\* What a warp finds when it adds up its next token t, by the heads hd.
AddsUp(r, k, c, t, hd) ==
  /\ t \in Nat /\ t \in OfChannel(prog, k, r, c) /\ t \in DOMAIN RowsOf(prog, k, r) /\ t \notin DOMAIN handle[r][k].sums
  /\ FixedOK(prog, k, r, hd)
  /\ \A s \in Ranks : t \in RoutedTo(prog, k, r, s) =>
       /\ hd[<<t, s>>] = Nth(prog, k, r, s, c, t) /\ Nth(prog, k, r, s, c, t) \in Nat
       /\ updater[r][<<c, s>>].tail > hd[<<t, s>>] =>
            mem[r][SlotOf(prog, k, c, s, hd[<<t, s>>])].item = Returned(k, s, r, t)
  /\ \A s \in Ranks : t \notin RoutedTo(prog, k, r, s) => hd[<<t, s>>] \in Int /\ hd[<<t, s>>] < 0

\* When the tails are behind a token's places, its terms lie there.
LEMMA ReduceFinds ==
  ASSUME Shape, Together, DataInv, NEW r \in Ranks, NEW k, k = CallOf(r), Runs(r, {"combine"}),
         NEW c \in ChannelsOf(prog, k), NEW w \in Warps, NEW t, t = warp[r][<<c, w>>].tok, t < Edge(prog, k, r, c + 1),
         NEW hd, hd = handle[r][HomeOf(prog, k)].head
  PROVE  AddsUp(r, k, c, t, hd)
<1>0. prog \in Setups /\ HeadsInv /\ FixedInv /\ WarpInv /\ AddedInv /\ UpdaterInv /\ MemInv
  BY DataParts
<1>1. /\ k \in DOMAIN prog /\ Works(r, k) /\ Lives(r, k) /\ Combines(prog, k) /\ \A q \in Ranks : Opens(q, k)
      /\ warp[r] \in [ChannelsOf(prog, k) \X Warps -> WarpSet]
      /\ updater[r] \in [QueuesOf(prog, k) -> UpdaterSet] /\ \A s \in Ranks : <<c, s>> \in QueuesOf(prog, k)
      /\ Past(HomeOf(prog, k))
  BY CombineFacts
<1> DEFINE h == HomeOf(prog, k)
           v == warp[r][<<c, w>>]
           sums == DOMAIN handle[r][k].sums
<1>3. WarpOK(prog, k, r, c, w, v) /\ AddedOK(prog, k, r, c, warp[r], sums)
  BY <1>0, <1>1 DEF WarpInv, AddedInv
<1>4. v \in WarpSet /\ t \in Nat
  BY <1>1 DEF WarpSet
<1>6. t >= Edge(prog, k, r, c) /\ TurnOf(prog, k, r, c, t) = w
  BY <1>3 DEF WarpOK
<1>7. t \in OfChannel(prog, k, r, c) /\ t \in DOMAIN RowsOf(prog, k, r)
  BY <1>4, <1>0, <1>1, ChannelBounds, RowsFacts, <1>6 DEF OfChannel
<1>8. t \notin sums
  <2>1. (t \in sums) = (t < warp[r][<<c, TurnOf(prog, k, r, c, t)>>].tok)
    BY <1>3, <1>7 DEF AddedOK
  <2> HIDE DEF sums
  <2> QED BY <1>4, <1>6, <2>1
<1>10. /\ ChannelsOf(prog, h) = ChannelsOf(prog, k)
       /\ \A q \in Ranks : \A s : RoutedTo(prog, h, q, s) = RoutedTo(prog, k, q, s)
       /\ \A q \in Ranks : \A e : Edge(prog, h, q, e) = Edge(prog, k, q, e)
       /\ \A q \in Ranks : \A s, e : \A u : Nth(prog, h, q, s, e, u) = Nth(prog, k, q, s, e, u)
  <2>1. prog \in Setups /\ k \in DOMAIN prog /\ h = HomeOf(prog, k)
    BY <1>0, <1>1
  <2> HIDE DEF h
  <2>2. ChannelsOf(prog, h) = ChannelsOf(prog, k) /\ \A q \in Ranks : \A e : Edge(prog, h, q, e) = Edge(prog, k, q, e)
    BY <2>1, SameRouting
  <2>3. \A q \in Ranks : \A s : RoutedTo(prog, h, q, s) = RoutedTo(prog, k, q, s)
    BY <2>1, SameRouting
  <2> QED BY <2>2, <2>3, <2>1, SameRouting
<1>11. \A s \in Ranks : HeadsOK(prog, h, r, c, s, NextTok(r, h, c, s), hd) /\ NextTok(r, h, c, s) = Edge(prog, k, r, c + 1)
  BY <1>0, <1>1, <1>10 DEF HeadsInv, NextTok, Past
<1>12. t \in Edge(prog, h, r, c) .. Edge(prog, k, r, c + 1) - 1
  BY <1>4, <1>0, <1>1, ChannelBounds, RowsFacts, <1>6, <1>10
<1>13. \A s \in Ranks : /\ t \in RoutedTo(prog, k, r, s) => hd[<<t, s>>] = Nth(prog, k, r, s, c, t)
                        /\ t \notin RoutedTo(prog, k, r, s) => hd[<<t, s>>] \in Int /\ hd[<<t, s>>] < 0
  BY <1>10, <1>11, <1>12 DEF HeadsOK
<1>14. ASSUME NEW s \in Ranks, t \in RoutedTo(prog, k, r, s)
       PROVE  /\ Nth(prog, k, r, s, c, t) \in Nat
              /\ updater[r][<<c, s>>].tail > hd[<<t, s>>] =>
                   mem[r][SlotOf(prog, k, c, s, hd[<<t, s>>])].item = Returned(k, s, r, t)
  <2>1. t \in InChannel(prog, k, r, s, c)
    BY <1>6, <1>14 DEF InChannel
  <2>2. Nth(prog, k, r, s, c, t) \in Nat
    BY <1>0, <1>1, <2>1, NthFacts
  <2>3. /\ BackOK(prog, k, s, r, c, SentBack(s, k, c, r), sums, mem[r])
        /\ SentBack(s, k, c, r) \in Nat /\ mem[r][TailOf(prog, k, c, s)].int \in Nat
    BY <1>0, <1>1, BackNow
  <2>4. mem[r][TailOf(prog, k, c, s)].int <= SentBack(s, k, c, r)
    BY <2>3 DEF BackOK
  <2>5. updater[r][<<c, s>>].tail \in Nat /\ updater[r][<<c, s>>].tail <= mem[r][TailOf(prog, k, c, s)].int
    BY <1>0, <1>1 DEF UpdaterInv, UpdaterSet
  <2>6. updater[r][<<c, s>>].tail > hd[<<t, s>>] => Nth(prog, k, r, s, c, t) < SentBack(s, k, c, r)
    BY <1>13, <1>14, <2>2, <2>3, <2>4, <2>5
  <2> QED BY <1>13, <1>14, <2>2, <2>6, <1>8, <2>1, <2>3 DEF BackOK
<1> QED BY <1>4, <1>7, <1>8, <1>0, <1>1, <1>13, <1>14 DEF AddsUp, FixedInv

\* What Reduce does, in the words of the program.
Sum1(k, r, t) == [i \in {t} |-> [s \in {q \in Ranks : InRank(RowsOf(prog, k, r)[t], q)} |-> Returned(k, s, r, t)]]
Reduces(r, k, c, w, t, hd) ==
  /\ t = warp[r][<<c, w>>].tok /\ AddsUp(r, k, c, t, hd)
  /\ handle' = WithSums(r, k, Put(handle[r][k].sums, Sum1(k, r, t)))
  /\ warp' = [warp EXCEPT ![r][<<c, w>>] =
       [tok |-> t + NumCombineWarps, retired |-> t + NumCombineWarps >= Edge(prog, k, r, c + 1),
        heads |-> [s \in Ranks |-> IF hd[<<t, s>>] < 0 THEN -hd[<<t, s>>] - 1 ELSE hd[<<t, s>>] + 1]]]
LEMMA ReduceMeans ==
  ASSUME Shape, Together, DataInv, NEW r \in Ranks, NEW k, k = CallOf(r), Runs(r, {"combine"}),
         NEW c \in ChannelsOf(prog, k), NEW w \in Warps, Reduce(r, c, w)
  PROVE  \E t, hd : Reduces(r, k, c, w, t, hd)
<1>1. k \in DOMAIN prog
  BY CombineFacts
<1> DEFINE t == warp[r][<<c, w>>].tok
           hd == handle[r][HomeOf(prog, k)].head
           from == {s \in Ranks : hd[<<t, s>>] >= 0}
           after == Edge(prog, k, r, c + 1)
           to == {q \in Ranks : InRank(RowsOf(prog, k, r)[t], q)}
<1>2. Home(k) = HomeOf(prog, k) /\ ChannelEnd(Len(Rows(k, r)), prog[k].channels, c) = after
  BY DataParts, <1>1, Bridge, EdgeFacts
<1> DEFINE h2 == [s \in Ranks |-> handle[r][Home(k)].head[<<t, s>>]]
           f2 == {s \in Ranks : h2[s] >= 0}
           cells == [s \in f2 |-> mem[r][SlotAt(k, c, s, h2[s])].item]
<1>3. /\ t < after /\ \A s \in f2 : updater[r][<<c, s>>].tail > h2[s]
      /\ handle' = [handle EXCEPT ![r][k].sums = Put(handle[r][k].sums, [i \in {t} |-> cells])]
      /\ warp' = [warp EXCEPT ![r][<<c, w>>] =
           [tok |-> t + NumCombineWarps, retired |-> t + NumCombineWarps >= after,
            heads |-> [s \in Ranks |-> IF h2[s] < 0 THEN -h2[s] - 1 ELSE h2[s] + 1]]]
  BY <1>2 DEF Reduce
<1>4. AddsUp(r, k, c, t, hd)
  BY <1>3, ReduceFinds DEF t, hd
<1>5. \A s \in Ranks : h2[s] = hd[<<t, s>>]
  BY <1>2
<1>8. f2 = to
  <2>1. \A s \in Ranks : (t \in RoutedTo(prog, k, r, s) => h2[s] >= 0) /\ (t \notin RoutedTo(prog, k, r, s) => ~(h2[s] >= 0))
    <3> TAKE s \in Ranks
    <3>1. t \in RoutedTo(prog, k, r, s) => hd[<<t, s>>] \in Nat
      BY <1>4 DEF AddsUp
    <3> HIDE DEF h2, hd, t
    <3> QED BY <3>1, <1>4, <1>5 DEF AddsUp
  <2> HIDE DEF h2, t
  <2> QED BY <1>4, <2>1 DEF RoutedTo, TokensToRank, AddsUp
<1>12. [i \in {t} |-> cells] = Sum1(k, r, t)
  BY <1>8, <1>3, <1>5, <1>4, Bridge DEF Sum1, AddsUp, RoutedTo, TokensToRank
<1> HIDE DEF cells, h2, f2, to, hd
<1>13. Reduces(r, k, c, w, t, hd)
  BY <1>3, <1>4, <1>5, <1>12 DEF Reduces, WithSums
<1> QED BY <1>13

\* A warp's addition of a token keeps all of it.
LEMMA ReduceStep ==
  ASSUME Shape, Together, DataInv, NEW r \in Ranks, NEW k, k = CallOf(r), Runs(r, {"combine"}),
         NEW c \in ChannelsOf(prog, k), NEW w \in Warps, Reduce(r, c, w)
  PROVE  DataInv'
<1>0. /\ prog \in Setups /\ MemInv /\ HandlesInv /\ QueuesInv
      /\ ReturnInv /\ BackInv /\ WarpInv /\ AddedInv /\ UpdaterInv /\ SumsInv
  BY DataParts
<1>1. /\ k \in DOMAIN prog /\ k \in Nat \ {0} /\ kernels[r] = 2 * k - 1
      /\ Works(r, k) /\ ~Dones(r, k) /\ Combines(prog, k)
      /\ \A q \in Ranks, j \in DOMAIN prog : Works(q, j) => j = k
      /\ warp[r] \in [ChannelsOf(prog, k) \X Warps -> WarpSet]
      /\ updater[r] \in [QueuesOf(prog, k) -> UpdaterSet]
  BY CombineFacts
<1>2. PICK t, hd : Reduces(r, k, c, w, t, hd)
  BY ReduceMeans
<1> DEFINE v == warp[r][<<c, w>>]
           v2 == [tok |-> t + NumCombineWarps, retired |-> t + NumCombineWarps >= Edge(prog, k, r, c + 1),
                  heads |-> [s \in Ranks |-> IF hd[<<t, s>>] < 0 THEN -hd[<<t, s>>] - 1 ELSE hd[<<t, s>>] + 1]]
           f == [warp[r] EXCEPT ![<<c, w>>] = v2]
           old == handle[r][k].sums
           new == Put(old, Sum1(k, r, t))
<1>3. /\ Still /\ call' = call /\ polling' = polling /\ counter' = counter
      /\ sender' = sender /\ receiver' = receiver /\ updater' = updater /\ mem' = mem
  BY DEF Reduce, hostVars, Still
<1>4. /\ t = v.tok /\ t \in Nat /\ t \in OfChannel(prog, k, r, c) /\ t \in DOMAIN RowsOf(prog, k, r) /\ t \notin DOMAIN old
      /\ FixedOK(prog, k, r, hd)
      /\ \A s \in Ranks : t \in RoutedTo(prog, k, r, s) => hd[<<t, s>>] = Nth(prog, k, r, s, c, t)
      /\ \A s \in Ranks : t \notin RoutedTo(prog, k, r, s) => hd[<<t, s>>] \in Int /\ hd[<<t, s>>] < 0
  BY <1>2 DEF Reduces, AddsUp
<1>5. WarpOK(prog, k, r, c, w, v) /\ v \in WarpSet
  BY <1>0, <1>1 DEF WarpInv
<1>6. WarpOK(prog, k, r, c, w, v2) /\ \A s \in Ranks : v2.heads[s] \in Nat
  <2>1. /\ v2.tok = v.tok + NumCombineWarps /\ v2.retired = (v2.tok >= Edge(prog, k, r, c + 1))
        /\ \A s \in Ranks : v2.heads[s] = IF hd[<<v.tok, s>>] < 0 THEN -hd[<<v.tok, s>>] - 1 ELSE hd[<<v.tok, s>>] + 1
    BY <1>4
  <2> HIDE DEF v, v2
  <2>3. /\ prog \in Setups /\ k \in DOMAIN prog /\ r \in Ranks /\ c \in ChannelsOf(prog, k) /\ w \in Warps
        /\ WarpOK(prog, k, r, c, w, v) /\ FixedOK(prog, k, r, hd)
    BY <1>0, <1>1, <1>4, <1>5
  <2> QED BY <2>1, <1>4, <2>3, WarpMoved
<1>7. v2 \in WarpSet
  <2>1. v2.heads \in [Ranks -> Nat]
    BY <1>6
  <2> QED BY <1>4, <2>1, SizesAssumption DEF WarpSet
<1>8. /\ f \in [ChannelsOf(prog, k) \X Warps -> WarpSet] /\ warp' = [warp EXCEPT ![r] = f]
      /\ f[<<c, w>>] = v2 /\ \A x \in ChannelsOf(prog, k) \X Warps : x # <<c, w>> => f[x] = warp[r][x]
  BY <1>2, <1>1, <1>7 DEF Reduces
<1>9. /\ HandlesInv' /\ handle'[r][k].sums = new
      /\ \A q \in Ranks, j \in DOMAIN prog : (q # r \/ j # k) => handle'[q][j].sums = handle[q][j].sums
      /\ KeepNums /\ KeepPrefix /\ KeepTensor /\ KeepChannel /\ KeepHead /\ KeepRecv
  BY <1>0, <1>1, <1>2, <1>3, SumsSet DEF Reduces, Still
<1>10. /\ DOMAIN new = DOMAIN old \cup {t} /\ \A u \in DOMAIN old : new[u] = old[u]
       /\ new[t] = [s \in {q \in Ranks : InRank(RowsOf(prog, k, r)[t], q)} |-> Returned(k, s, r, t)]
  BY <1>4 DEF Put, Sum1
<1> DEFINE sums == DOMAIN old
<1> HIDE DEF f, new, old, v2, v
<1>11. prog' = prog /\ SamePhases /\ \A q \in Ranks : \A j : Works(q, j)' = Works(q, j)
  BY <1>3, StillPhases, StillSame DEF Still
<1>12. QueuesInv' /\ warp'[r] = f /\ \A q \in Ranks \ {r} : warp'[q] = warp[q]
  <2> DEFINE g == updater[r]
  <2>1. g \in [QueuesOf(prog, k) -> UpdaterSet] /\ updater' = [updater EXCEPT ![r] = g]
    BY <1>0, <1>1, <1>3 DEF QueuesInv
  <2> HIDE DEF g
  <2>3. /\ QueuesInv' /\ warp'[r] = f /\ updater'[r] = g
        /\ \A q \in Ranks \ {r} : warp'[q] = warp[q] /\ updater'[q] = updater[q]
    BY <2>1, <1>0, <1>1, <1>3, <1>8, WarpStep
  <2> QED BY <2>3
<1>13. WarpInv'
  <2>1. ASSUME NEW d \in Ranks, NEW j \in DOMAIN prog, NEW e \in ChannelsOf(prog, j), NEW x \in Warps, Combines(prog, j), Works(d, j)
        PROVE  WarpOK(prog, j, d, e, x, warp'[d][<<e, x>>])
    BY <1>0, <1>1, <2>1, <1>6, <1>8, <1>12 DEF WarpInv
  <2> QED BY <1>11, <2>1 DEF WarpInv
<1>14. ASSUME NEW e \in ChannelsOf(prog, k)
       PROVE  AddedOK(prog, k, r, e, f, sums \cup {t})
  <2>1. AddedOK(prog, k, r, e, warp[r], sums)
    BY <1>0, <1>1, <1>14 DEF AddedInv, old
  <2>2. CASE e = c
    <3> HIDE DEF sums
    <3> QED BY <1>4, <2>2, <1>0, <1>1, <1>8, <1>5, <2>1, AddedMoved DEF v, v2
  <2>3. CASE e # c
    <3>1. ASSUME NEW u \in OfChannel(prog, k, r, e)
          PROVE  (u \in sums \cup {t}) = (u < f[<<e, TurnOf(prog, k, r, e, u)>>].tok)
      <4>1. u # t
        BY <1>0, <1>1, <1>4, <2>3, <3>1, OneChannel
      <4>2. TurnOf(prog, k, r, e, u) \in Warps
        BY <1>0, <1>1, <3>1, ChannelBounds, TurnFacts DEF OfChannel
      <4> QED BY <4>1, <1>8, <2>3, <4>2, <2>1, <3>1 DEF AddedOK
    <3> QED BY <3>1 DEF AddedOK
  <2> QED BY <2>2, <2>3
<1>15. AddedInv'
  <2>1. ASSUME NEW d \in Ranks, NEW j \in DOMAIN prog, NEW e \in ChannelsOf(prog, j), Combines(prog, j), Works(d, j)
        PROVE  AddedOK(prog, j, d, e, warp'[d], DOMAIN handle'[d][j].sums)
    BY <1>0, <1>1, <2>1, <1>9, <1>10, <1>12, <1>14, ZenonT(30) DEF AddedInv
  <2> QED BY <1>11, <2>1 DEF AddedInv
<1>16. BackInv'
  BY <1>0, <1>9, <1>10, <1>3, StillPhases, <1>11 DEF BackInv, old, BackOK, SentBack, Still
<1>17. SumsInv'
  <2>1. ASSUME NEW d \in Ranks, NEW j \in DOMAIN prog, Combines(prog, j)
        PROVE  /\ SumsOK(prog, j, d, handle'[d][j].sums)
               /\ Dones(d, j) => DOMAIN handle'[d][j].sums = DOMAIN RowsOf(prog, j, d)
    <3>2. CASE d = r /\ j = k
      <4> QED BY <1>1, <1>9, <3>2, <1>4, <1>10, <1>0, <2>1 DEF SumsOK, old, SumsInv
    <3>3. CASE d # r \/ j # k
      BY <1>9, <2>1, <1>0, <3>3 DEF SumsInv
    <3> QED BY <3>2, <3>3
  <2> QED BY <1>11, <2>1, <1>3, StillPhases DEF SumsInv
<1> QED BY <1>3, <1>9, <1>12, <1>13, <1>15, <1>16, <1>17, <1>0, <1>11, MemFrame, ReturnFrame, UpdaterFrame,
   CombineFrame

\* So does every step of a running combine.
LEMMA CombineStepKeeps ==
  ASSUME Shape, Together, DataInv, NEW r \in Ranks, Runs(r, {"combine"}), CombineStep(r), ~EndCombine(r)
  PROVE  DataInv'
BY Bridge, SendBackStep, BackReleaseStep, UpdateStep, ReduceStep DEF CombineStep

-----------------------------------------------------------------------------
(* The end of a call.                                                      *)

Ends(r, k) ==
  /\ kernels[r] = 2 * k - 1 /\ stage[r] = "run" /\ prog' = prog
  /\ kernels' = [kernels EXCEPT ![r] = @ + 1] /\ stage' = [stage EXCEPT ![r] = "idle"]

\* A kernel that ends changes only its rank's phase.
LEMMA EndPhases ==
  ASSUME Shape, NEW r \in Ranks, NEW k \in Nat \ {0}, Ends(r, k)
  PROVE  /\ kernels'[r] = kernels[r] + 1 /\ stage'[r] = "idle"
         /\ \A q \in Ranks \ {r} : kernels'[q] = kernels[q] /\ stage'[q] = stage[q]
         /\ \A q \in Ranks, j \in Nat \ {0} : /\ Opens(q, j)' = Opens(q, j) /\ Writes(q, j)' = Writes(q, j)
                                              /\ Cleans(q, j)' = Cleans(q, j) /\ Starts(q, j)' = Starts(q, j)
         /\ \A q \in Ranks, j \in Nat \ {0} : (q # r \/ j # k) =>
              Works(q, j)' = Works(q, j) /\ Dones(q, j)' = Dones(q, j) /\ Lives(q, j)' = Lives(q, j)
         /\ ~Works(r, k)' /\ Dones(r, k)' /\ ~Lives(r, k)'
         /\ \A q \in Ranks, j \in Nat \ {0} : Starts(q, j) /\ ~Dones(q, j) => Works(q, j)
<1>1. /\ kernels[r] \in Nat /\ kernels'[r] = kernels[r] + 1 /\ stage'[r] = "idle" /\ kernels[r] = 2 * k - 1 /\ stage[r] = "run"
      /\ \A q \in Ranks \ {r} : kernels'[q] = kernels[q] /\ stage'[q] = stage[q]
      /\ \A q \in Ranks : kernels[q] \in Nat
  BY DEF Ends, Shape
<1>3. \A q \in Ranks, j \in Nat \ {0} : (q # r \/ j # k) =>
        Works(q, j)' = Works(q, j) /\ Dones(q, j)' = Dones(q, j) /\ Lives(q, j)' = Lives(q, j)
  BY <1>1 DEF Works, Running, Dones, Done, Lives, Live, Cleaned
<1>4. ~Works(r, k)' /\ Dones(r, k)' /\ ~Lives(r, k)'
  BY <1>1 DEF Works, Running, Dones, Done, Lives, Live
<1>5. \A q \in Ranks, j \in Nat \ {0} : Starts(q, j) /\ ~Dones(q, j) => Works(q, j)
  BY <1>1 DEF Starts, Started, Dones, Done, Works, Running
<1> QED BY <1>1, <1>3, <1>4, <1>5 DEF Opens, Opened, Writes, Wrote, Cleans, Cleaned, Starts, Started

\* What the others see of a sender or a receiver.
SameView(q, j, c, d) ==
  /\ Dispatches(prog, j) => /\ NextTok(q, j, c, d)' = NextTok(q, j, c, d) /\ Taken(q, j, c, d)' = Taken(q, j, c, d)
                            /\ Releasing(q, j, c, d)' <=> Releasing(q, j, c, d)
                            /\ HasOffsets(q, j, c, d)' <=> HasOffsets(q, j, c, d)
  /\ Combines(prog, j) => SentBack(q, j, c, d)' = SentBack(q, j, c, d)

LEMMA EndViews ==
  ASSUME Shape, NEW r \in Ranks, NEW k \in Nat \ {0}, Ends(r, k),
         \A q \in Ranks \ {r} : sender'[q] = sender[q] /\ receiver'[q] = receiver[q]
  PROVE  /\ \A q \in Ranks, j \in Nat \ {0} : \A c, d : (q # r \/ j # k) => SameView(q, j, c, d)
         /\ \A q \in Ranks, j \in Nat \ {0} : \A c, s : (q # r \/ j # k) => HeadNow(q, j, c, s)' = HeadNow(q, j, c, s)
<1>3. ASSUME NEW q \in Ranks, NEW j \in Nat \ {0}, q # r \/ j # k
      PROVE  Works(q, j) => sender'[q] = sender[q] /\ receiver'[q] = receiver[q]
  BY <1>3 DEF Works, Running, Ends
<1>4. prog' = prog
  BY DEF Ends
<1>5. ASSUME NEW q \in Ranks, NEW j \in Nat \ {0}, NEW c, NEW d, q # r \/ j # k
      PROVE  /\ NextTok(q, j, c, d)' = NextTok(q, j, c, d) /\ (Releasing(q, j, c, d)' <=> Releasing(q, j, c, d))
             /\ SentBack(q, j, c, d)' = SentBack(q, j, c, d)
  BY EndPhases, <1>3, <1>4, <1>5 DEF NextTok, Releasing, SentBack
<1>6. ASSUME NEW q \in Ranks, NEW j \in Nat \ {0}, NEW c, NEW s, q # r \/ j # k
      PROVE  /\ HeadNow(q, j, c, s)' = HeadNow(q, j, c, s) /\ (HasOffsets(q, j, c, s)' <=> HasOffsets(q, j, c, s))
             /\ Taken(q, j, c, s)' = Taken(q, j, c, s)
  BY EndPhases, <1>3, <1>4, <1>6 DEF HeadNow, HasOffsets, Taken
<1> QED BY <1>5, <1>6 DEF SameView

\* A call that ends keeps what nobody's tensors are about.
LEMMA EndFrame ==
  ASSUME Shape, Together, DataInv, NEW r \in Ranks, NEW k \in DOMAIN prog, Ends(r, k),
         call' = call, polling' = polling, counter' = counter, mem' = mem,
         \A q \in Ranks \ {r} : sender'[q] = sender[q] /\ receiver'[q] = receiver[q],
         \A q \in Ranks \ {r} : warp'[q] = warp[q] /\ updater'[q] = updater[q],
         \A c \in ChannelsOf(prog, k), d \in Ranks : SameView(r, k, c, d),
         KeepNums, KeepPrefix, KeepTensor, KeepChannel, KeepHead, KeepSums,
         \A q \in Ranks, j \in DOMAIN prog : (q # r \/ j # k) => handle'[q][j].recv = handle[q][j].recv
  PROVE  /\ prog' \in Setups /\ HostInv' /\ NumsInv' /\ MemInv' /\ EmptyInv' /\ NotifyInv'
         /\ SenderInv' /\ HeadsInv' /\ HeadDomainInv' /\ QueueInv' /\ ReceiverInv' /\ OffsetInv'
         /\ FixedInv' /\ ReturnInv' /\ BackInv' /\ WarpInv' /\ AddedInv' /\ UpdaterInv'
<1>0. /\ prog \in Setups /\ HostInv /\ NumsInv /\ MemInv /\ EmptyInv /\ PrefixInv /\ CountsInv /\ MatrixInv /\ TensorInv
      /\ SenderInv /\ HeadsInv /\ HeadDomainInv /\ QueueInv /\ ReceiverInv /\ OffsetInv
      /\ FixedInv /\ ReturnInv /\ BackInv /\ WarpInv /\ AddedInv /\ UpdaterInv
  BY DataParts
<1>1. \A j \in DOMAIN prog : j \in Nat \ {0}
  BY <1>0, CallNumbers
<1>2. /\ prog' = prog /\ kernels[r] = 2 * k - 1 /\ stage[r] = "run"
      /\ kernels'[r] = kernels[r] + 1 /\ stage'[r] = "idle" /\ kernels[r] \in Nat
      /\ \A q \in Ranks \ {r} : kernels'[q] = kernels[q] /\ stage'[q] = stage[q]
  BY <1>1, EndPhases DEF Ends, Shape
<1>3. /\ \A q \in Ranks, j \in DOMAIN prog : /\ Opens(q, j)' = Opens(q, j) /\ Writes(q, j)' = Writes(q, j)
                                             /\ Cleans(q, j)' = Cleans(q, j) /\ Starts(q, j)' = Starts(q, j)
      /\ \A q \in Ranks, j \in DOMAIN prog : (q # r \/ j # k) =>
           Works(q, j)' = Works(q, j) /\ Dones(q, j)' = Dones(q, j) /\ Lives(q, j)' = Lives(q, j)
      /\ ~Works(r, k)' /\ ~Lives(r, k)'
  BY <1>1, EndPhases
<1>4. \A q \in Ranks, j \in DOMAIN prog : (Works(q, j)' => Works(q, j) /\ (q # r \/ j # k)) /\ (Lives(q, j)' => Lives(q, j) /\ (q # r \/ j # k))
  BY <1>3
<1>5. \A q \in Ranks, j \in DOMAIN prog : Works(q, j)' => q # r
  BY <1>2 DEF Works, Running
<1>6. \A q \in Ranks, j \in DOMAIN prog : \A c \in ChannelsOf(prog, j), d \in Ranks : SameView(q, j, c, d)
  BY <1>1, EndViews
<1>8. HostInv'
  <2>1. ASSUME NEW q \in Ranks
        PROVE  HostOK(prog, q, call[q], polling[q], counter[q], kernels'[q], stage'[q])
    <3>1. HostOK(prog, q, call[q], polling[q], counter[q], kernels[q], stage[q])
      BY <1>0 DEF HostInv
    <3>2. CASE q # r
      BY <1>2, <3>1, <3>2
    <3>3. CASE q = r
      <4>2. kernels'[r] <= EnqueuedBy(call[r], polling[r])
        BY <1>2, <3>1, <3>3 DEF HostOK, EnqueuedBy
      <4>3. \A j \in Nat \ {0} : Cleaned(kernels'[r], stage'[r], j) <=> Cleaned(kernels[r], stage[r], j)
        BY <1>1, <1>2 DEF Cleaned
      <4>4. polling[r] => call[r] \in Nat \ {0}
        BY <3>1, <3>3 DEF HostOK
      <4> QED BY <1>1, <1>2, <3>1, <3>3, <4>2, <4>3, <4>4 DEF HostOK
    <3> QED BY <3>2, <3>3
  <2> QED BY <1>2, <2>1 DEF HostInv
<1>9. NumsInv' /\ MemInv' /\ HeadDomainInv'
  BY <1>0, <1>2, NumsFrame, MemFrame, HeadDomainFrame
<1>10. EmptyInv'
  BY <1>1, <1>2, <1>0, <1>3 DEF Starts, Started, EmptyInv, KeepChannel, KeepHead, KeepSums
<1>11. PrefixInv' /\ CountsInv'
  BY <1>0, <1>2, <1>3 DEF PrefixInv, KeepPrefix, CountsInv
<1>12. MatrixInv'
  BY <1>0, <1>2, <1>4 DEF MatrixInv
<1>13. TensorInv'
  <2>1. Cell' = Cell
    BY DEF Cell, ItemSet
  <2> QED BY <1>0, <1>2, <1>3, <2>1 DEF TensorInv, KeepTensor
<1>14. SenderInv' /\ ReturnInv'
  BY <1>0, <1>2, <1>4, <1>5 DEF SenderInv, ReturnInv
<1>15. HeadsInv'
  BY <1>6, <1>0, <1>2 DEF SameView, HeadsInv, KeepHead
<1>16. QueueInv'
  BY <1>0, <1>4, <1>6, <1>3, <1>1, EndViews, <1>2 DEF QueueInv, SameView, QueueOK
<1>17. ReceiverInv'
  BY <1>0, <1>2, <1>3, <1>4, <1>5 DEF ReceiverInv
<1>18. OffsetInv'
  BY <1>6, <1>0, <1>2 DEF SameView, OffsetInv, KeepChannel
<1>19. FixedInv'
  BY <1>0, HomeFacts, <1>2, <1>3 DEF FixedInv, KeepHead
<1>20. BackInv'
  BY <1>6, <1>0, <1>2, <1>4 DEF SameView, BackInv, KeepSums
<1>21. WarpInv' /\ AddedInv' /\ UpdaterInv'
  BY <1>0, <1>2, <1>4, <1>5 DEF WarpInv, AddedInv, KeepSums, UpdaterInv
<1> QED BY <1>0, <1>2, <1>8, <1>9, <1>10, <1>11, <1>12, <1>13, <1>14, <1>15, <1>16, <1>17, <1>18, <1>19, <1>20, <1>21 DEF NotifyInv

LEMMA EndQueues ==
  ASSUME Shape, prog \in Setups, QueuesInv, NEW r \in Ranks, NEW k \in DOMAIN prog, Ends(r, k),
         sender' = [q \in Ranks |-> IF q = r THEN <<>> ELSE sender[q]],
         receiver' = [q \in Ranks |-> IF q = r THEN <<>> ELSE receiver[q]],
         warp' = [q \in Ranks |-> IF q = r THEN <<>> ELSE warp[q]],
         updater' = [q \in Ranks |-> IF q = r THEN <<>> ELSE updater[q]]
  PROVE  QueuesInv'
<1>4. ASSUME NEW q \in Ranks
      PROVE  stage'[q] # "run" => sender'[q] = <<>> /\ receiver'[q] = <<>> /\ warp'[q] = <<>> /\ updater'[q] = <<>>
  BY CallNumbers, EndPhases DEF QueuesInv
<1>5. ASSUME NEW q \in Ranks, NEW j \in DOMAIN prog, Works(q, j)'
      PROVE  /\ sender'[q] \in [QueuesOf(prog, j) -> SenderSet]
             /\ receiver'[q] \in (IF Dispatches(prog, j) THEN [QueuesOf(prog, j) -> ReceiverSet] ELSE {<<>>})
             /\ warp'[q] \in (IF Combines(prog, j) THEN [ChannelsOf(prog, j) \X Warps -> WarpSet] ELSE {<<>>})
             /\ updater'[q] \in (IF Combines(prog, j) THEN [QueuesOf(prog, j) -> UpdaterSet] ELSE {<<>>})
  BY CallNumbers, EndPhases, <1>5 DEF QueuesInv, Works, Running
<1> QED BY <1>4, <1>5 DEF QueuesInv, Ends

\* A rank that has read all of its queues has all of its rows.
LEMMA AllRows ==
  ASSUME NEW p \in Setups, NEW k \in DOMAIN p, NEW d \in Ranks, NEW recv,
         \A s \in Ranks : \A c \in ChannelsOf(p, k) : TakenOK(p, k, s, d, c, Many(p, k, s, d, c), recv)
  PROVE  0 .. Pre(p, k, NumRanks, d) - 1 \subseteq DOMAIN recv
BY RowReached, RoutedInChannel, NthFacts DEF TakenOK

\* The queues of a rank whose dispatch is at its end.
LEMMA EndedQueues ==
  ASSUME Shape, Together, DataInv, NEW r \in Ranks, NEW k, k = CallOf(r), Runs(r, AnyDispatch), EndDispatch(r)
  PROVE  \A c \in ChannelsOf(prog, k), d \in Ranks :
           /\ NextTok(r, k, c, d) = Edge(prog, k, r, c + 1) /\ ~Releasing(r, k, c, d)
           /\ Taken(r, k, c, d) = Many(prog, k, d, r, c) /\ HasOffsets(r, k, c, d)
<1>0. prog \in Setups /\ SenderInv /\ ReceiverInv
  BY DataParts
<1>1. /\ k \in DOMAIN prog /\ Works(r, k) /\ Starts(r, k) /\ ~Dones(r, k) /\ Dispatches(prog, k)
      /\ sender[r] \in [QueuesOf(prog, k) -> SenderSet] /\ receiver[r] \in [QueuesOf(prog, k) -> ReceiverSet]
      /\ \A c \in ChannelsOf(prog, k), d \in Ranks : <<c, d>> \in QueuesOf(prog, k)
  BY DispatchFacts
<1> SUFFICES ASSUME NEW c \in ChannelsOf(prog, k), NEW d \in Ranks
             PROVE  /\ NextTok(r, k, c, d) = Edge(prog, k, r, c + 1) /\ ~Releasing(r, k, c, d)
                    /\ Taken(r, k, c, d) = Many(prog, k, d, r, c) /\ HasOffsets(r, k, c, d)
  OBVIOUS
<1> DEFINE v == sender[r][<<c, d>>]
           w == receiver[r][<<c, d>>]
<1>4. /\ v.todo = "send" /\ v.tok >= Edge(prog, k, r, c + 1)
      /\ w.todo = "copy" /\ w.left <= 0
  BY <1>0, <1>1, EdgeFacts, Bridge DEF EndDispatch
<1>6. Edge(prog, k, r, c + 1) \in Nat /\ Many(prog, k, d, r, c) \in Nat /\ w.head \in Nat /\ w.left \in Nat
  BY <1>0, <1>1, ChannelBounds, NthFacts DEF ReceiverSet
<1>8. w.head = Many(prog, k, d, r, c)
  BY <1>4, <1>0, <1>1, <1>6 DEF ReceiverOK, SenderInv, ReceiverInv
<1> QED BY <1>1, <1>4, <1>0, <1>6, <1>8 DEF NextTok, Releasing, Taken, HasOffsets, SenderOK, SenderInv,
   ReceiverInv

\* The end of a dispatch keeps all of it: every receiver is through with its queue.
LEMMA EndDispatchStep ==
  ASSUME Shape, Together, DataInv, NEW r \in Ranks, NEW k, k = CallOf(r), Runs(r, AnyDispatch), EndDispatch(r)
  PROVE  DataInv'
<1>0. prog \in Setups /\ HandlesInv /\ QueuesInv /\ ItemsInv /\ MatrixInv /\ TakenInv /\ RecvInv /\ SumsInv
  BY DataParts
<1>1. /\ k \in DOMAIN prog /\ k \in Nat \ {0} /\ kernels[r] = 2 * k - 1
      /\ Works(r, k) /\ Starts(r, k) /\ ~Dones(r, k) /\ Lives(r, k) /\ Dispatches(prog, k) /\ stage[r] = "run"
  BY DispatchFacts DEF Works, Running
<1> DEFINE n == mem[r][(NumRanks - 1) * NumRanks + r].int
           marks == prog[k].kind = "dispatch" /\ prog[k].worst # 0
           old == handle[r][k].recv
           new == [i \in n .. prog[k].worst - 1 |-> NoItem]
<1>2. /\ prog' = prog /\ kernels' = [kernels EXCEPT ![r] = @ + 1] /\ stage' = [stage EXCEPT ![r] = "idle"]
      /\ call' = call /\ polling' = polling /\ counter' = counter /\ mem' = mem /\ warp' = warp /\ updater' = updater
      /\ sender' = [sender EXCEPT ![r] = <<>>] /\ receiver' = [receiver EXCEPT ![r] = <<>>]
  BY DEF EndDispatch, hostVars
<1>4. Ends(r, k)
  BY <1>1, <1>2 DEF Ends
<1>5. \A q \in Ranks, j \in DOMAIN prog : /\ Starts(q, j)' = Starts(q, j)
                                          /\ (q # r \/ j # k) => Works(q, j)' = Works(q, j) /\ Dones(q, j)' = Dones(q, j)
  BY <1>0, <1>1, <1>4, EndPhases, CallNumbers
<1>6. /\ sender = [q \in Ranks |-> sender[q]] /\ receiver = [q \in Ranks |-> receiver[q]]
      /\ warp = [q \in Ranks |-> warp[q]] /\ updater = [q \in Ranks |-> updater[q]]
      /\ warp[r] = <<>> /\ updater[r] = <<>>
  BY <1>0, <1>1 DEF QueuesInv, Dispatches, Combines, AnyDispatch
<1>8. ~Works(r, k)' /\ Dones(r, k)' /\ ~Lives(r, k)' /\ stage'[r] = "idle" /\ \A q \in Ranks \ {r} : stage'[q] = stage[q]
  BY <1>1, <1>4, EndPhases
<1>9. \A c \in ChannelsOf(prog, k), d \in Ranks :
        /\ NextTok(r, k, c, d) = Edge(prog, k, r, c + 1) /\ ~Releasing(r, k, c, d)
        /\ Taken(r, k, c, d) = Many(prog, k, d, r, c) /\ HasOffsets(r, k, c, d)
  BY EndedQueues
<1>10. \A c \in ChannelsOf(prog, k), d \in Ranks : SameView(r, k, c, d)
  BY <1>1, <1>5, <1>2, <1>8, <1>9 DEF NextTok, Releasing, Taken, HasOffsets, Combines, Dispatches, AnyDispatch,
     SameView
<1>11. /\ HandlesInv' /\ handle'[r][k].recv = (IF marks THEN Put(old, new) ELSE old)
       /\ \A q \in Ranks, j \in DOMAIN prog : (q # r \/ j # k) => handle'[q][j].recv = handle[q][j].recv
       /\ KeepNums /\ KeepPrefix /\ KeepTensor /\ KeepChannel /\ KeepHead /\ KeepSums
  <2>1. CASE marks
    <3>1. HandlesInv /\ prog' = prog /\ k \in DOMAIN prog /\ handle' = WithRecv(r, k, Put(old, new))
      BY <1>0, <1>1, <1>2, <2>1 DEF EndDispatch, Marks, WithRecv
    <3> HIDE DEF old, new
    <3> QED BY <2>1, <3>1, RecvSet
  <2>2. CASE ~marks
    BY <1>0, <1>2, <2>2, HandlesFrame, KeepAll DEF KeepHandles, EndDispatch, Marks, WithRecv
  <2> QED BY <2>1, <2>2
<1>12. n = Pre(prog, k, NumRanks, r) /\ n \in Nat
  <2>2. NumRanks - 1 \in Ranks /\ NumRanks - 1 + 1 = NumRanks
    BY RanksFinite DEF Ranks
  <2> QED BY <1>0, <1>1, <2>2, RowFacts DEF MatrixOK, MatrixInv
<1> HIDE DEF n
<1>13. \A s \in Ranks, c \in ChannelsOf(prog, k) : TakenOK(prog, k, s, r, c, Many(prog, k, s, r, c), old)
  BY <1>0, <1>1, <1>9 DEF TakenInv
<1>14. DOMAIN old = 0 .. n - 1
  <2>1. DOMAIN old \subseteq 0 .. n - 1
    BY <1>0, <1>1, <1>12 DEF RecvInv, RecvOK
  <2> HIDE DEF old
  <2> QED BY <1>12, <2>1, <1>0, <1>1, <1>13, AllRows
<1>15. DOMAIN new \cap DOMAIN old = {} /\ \A i \in DOMAIN new : new[i] = NoItem
  BY <1>12, <1>14
<1>16. TakenInv'
  <2>1. ASSUME NEW s \in Ranks, NEW d \in Ranks, NEW j \in DOMAIN prog, NEW c \in ChannelsOf(prog, j), Dispatches(prog, j)
        PROVE  TakenOK(prog, j, s, d, c, Taken(d, j, c, s)', handle'[d][j].recv)
    <3>2. Taken(d, j, c, s)' = Taken(d, j, c, s)
      BY <1>0, CallNumbers, <1>1, <1>4, <1>2, <1>6, <1>10, EndViews, <2>1 DEF SameView
    <3>3. CASE d = r /\ j = k /\ marks
      <4> HIDE DEF new
      <4> QED BY <1>11, <3>2, <3>3, <1>0, <1>1, <2>1, <1>12, RowFacts, <1>14, <1>15, TakenFrame DEF InChannel,
         TakenInv
    <3>4. CASE ~(d = r /\ j = k /\ marks)
      BY <1>11, <2>1, <1>0, <3>2, <3>4 DEF TakenInv
    <3> QED BY <3>3, <3>4
  <2> QED BY <1>2, <2>1 DEF TakenInv
<1>17. RecvInv'
  <2>1. ASSUME NEW d \in Ranks, NEW j \in DOMAIN prog, Dispatches(prog, j)
        PROVE  RecvOK(prog, j, d, Dones(d, j)' /\ prog[j].kind = "dispatch" /\ prog[j].worst # 0, handle'[d][j].recv)
    <3>2. CASE d # r \/ j # k
      BY <1>5, <1>11, <2>1, <1>0, <3>2 DEF RecvInv
    <3>3. CASE d = r /\ j = k /\ ~marks
      BY <1>11, <1>0, <2>1, <3>3 DEF RecvOK, RecvInv
    <3>4. CASE d = r /\ j = k /\ marks
      <4>1. n <= prog[k].worst /\ prog[k].worst \in Nat
        BY <1>0, <1>1, <1>12, <3>4, WorstCovers, ProgramFacts
      <4>2. DOMAIN Put(old, new) = 0 .. prog[k].worst - 1
        BY <1>12, <1>14, <4>1 DEF Put
      <4>3. \A i \in n .. prog[k].worst - 1 : Put(old, new)[i] = NoItem
        BY DEF Put
      <4> HIDE DEF old, new
      <4> QED BY <1>8, <1>11, <1>12, <3>4, <4>2, <4>3 DEF RecvOK
    <3> QED BY <3>2, <3>3, <3>4
  <2> QED BY <1>2, <2>1 DEF RecvInv
<1>18. ItemsInv'
  <2>1. NoItem \in ItemSet
    BY RanksFinite DEF Ranks, NoItem, Item, ItemSet
  <2>2. ASSUME NEW d \in Ranks, NEW j \in DOMAIN prog, NEW i \in DOMAIN handle'[d][j].recv
        PROVE  handle'[d][j].recv[i] \in ItemSet
    BY <1>11, <2>2, <1>0, <1>1, <1>15, <2>1 DEF Put, ItemsInv
  <2> QED BY <1>2, <2>2 DEF ItemsInv, ItemSet
<1>19. SumsInv'
  BY <1>1, <1>5, <1>0, <1>2, <1>11 DEF Combines, Dispatches, AnyDispatch, SumsInv, KeepSums
<1>20. QueuesInv'
  BY <1>2, <1>6, <1>0, <1>1, <1>4, EndQueues
<1>21. /\ prog' \in Setups /\ HostInv' /\ NumsInv' /\ MemInv' /\ EmptyInv' /\ NotifyInv'
       /\ SenderInv' /\ HeadsInv' /\ HeadDomainInv' /\ QueueInv' /\ ReceiverInv' /\ OffsetInv'
       /\ FixedInv' /\ ReturnInv' /\ BackInv' /\ WarpInv' /\ AddedInv' /\ UpdaterInv'
  BY <1>2, <1>1, <1>4, <1>6, <1>10, <1>11, EndFrame
<1> QED BY <1>11, <1>16, <1>17, <1>18, <1>19, <1>20, <1>21 DEF DataInv, TypesInv, TravelInv, ComebackInv

\* The end of a combine keeps all of it: every warp is through with its tokens.
LEMMA EndCombineStep ==
  ASSUME Shape, Together, DataInv, NEW r \in Ranks, NEW k, k = CallOf(r), Runs(r, {"combine"}), EndCombine(r)
  PROVE  DataInv'
<1>0. /\ prog \in Setups /\ HandlesInv /\ QueuesInv /\ ItemsInv /\ TakenInv /\ RecvInv /\ SumsInv
      /\ ReturnInv /\ WarpInv /\ AddedInv
  BY DataParts
<1>1. /\ k \in DOMAIN prog /\ k \in Nat \ {0} /\ kernels[r] = 2 * k - 1
      /\ Works(r, k) /\ Starts(r, k) /\ ~Dones(r, k) /\ Combines(prog, k) /\ stage[r] = "run"
      /\ sender[r] \in [QueuesOf(prog, k) -> SenderSet]
      /\ warp[r] \in [ChannelsOf(prog, k) \X Warps -> WarpSet]
      /\ \A c \in ChannelsOf(prog, k), d \in Ranks : <<c, d>> \in QueuesOf(prog, k)
  BY CombineFacts DEF Works, Running
<1>2. /\ prog' = prog /\ kernels' = [kernels EXCEPT ![r] = @ + 1] /\ stage' = [stage EXCEPT ![r] = "idle"]
      /\ call' = call /\ polling' = polling /\ counter' = counter /\ mem' = mem /\ receiver' = receiver /\ handle' = handle
      /\ sender' = [sender EXCEPT ![r] = <<>>] /\ warp' = [warp EXCEPT ![r] = <<>>] /\ updater' = [updater EXCEPT ![r] = <<>>]
  BY DEF EndCombine, hostVars
<1>4. Ends(r, k)
  BY <1>1, <1>2 DEF Ends
<1>5. /\ \A q \in Ranks, j \in DOMAIN prog : (q # r \/ j # k) => Dones(q, j)' = Dones(q, j)
      /\ Dones(r, k)' /\ Starts(r, k)'
  BY <1>0, <1>1, <1>4, EndPhases, CallNumbers
<1>6. ~Dispatches(prog, k)
  BY <1>1 DEF Combines, Dispatches, AnyDispatch
<1>7. /\ sender' = [q \in Ranks |-> IF q = r THEN <<>> ELSE sender[q]]
      /\ receiver' = [q \in Ranks |-> IF q = r THEN <<>> ELSE receiver[q]]
      /\ warp' = [q \in Ranks |-> IF q = r THEN <<>> ELSE warp[q]]
      /\ updater' = [q \in Ranks |-> IF q = r THEN <<>> ELSE updater[q]]
  BY <1>0, <1>1, <1>6, <1>2 DEF QueuesInv
<1>8. ASSUME NEW c \in ChannelsOf(prog, k), NEW d \in Ranks
      PROVE  SameView(r, k, c, d)
  <2>1. Past(HomeOf(prog, k))
    BY CombineFacts
  <2> DEFINE v == sender[r][<<c, d>>]
             rows == ChannelRows(k, handle[r][Home(k)], r, c, d)
  <2>3. rows.after = Row(prog, k, d, r, Edge(prog, k, d, c)) + Many(prog, k, d, r, c)
    BY <1>1, <2>1, ChannelRowsFacts DEF rows, Past
  <2>4. v.tok >= rows.after
    BY <1>1, Bridge DEF EndCombine
  <2>6. v.tail \in Nat /\ v.tok \in Nat /\ Many(prog, k, d, r, c) \in Nat /\ Row(prog, k, d, r, Edge(prog, k, d, c)) \in Nat
    BY <1>0, <1>1, ChannelBounds, NthFacts, RowFacts DEF SenderSet
  <2> HIDE DEF v, rows
  <2> QED BY <1>6, <1>1, <2>3, <2>4, <1>0, <2>6, <1>2, <1>5 DEF SameView, SentBack, v, ReturnInv, ReturnOK
<1>9. DOMAIN handle[r][k].sums = DOMAIN RowsOf(prog, k, r)
  <2>2. ASSUME NEW t \in DOMAIN RowsOf(prog, k, r)
        PROVE  t \in DOMAIN handle[r][k].sums
    <3>1. PICK c \in ChannelsOf(prog, k) : t \in OfChannel(prog, k, r, c)
      BY <1>0, <1>1, ChannelOf
    <3> DEFINE w == TurnOf(prog, k, r, c, t)
               v == warp[r][<<c, w>>]
    <3>4. w \in Warps
      BY <1>0, <1>1, <3>1, ChannelBounds, TurnFacts DEF OfChannel
    <3>6. v.tok \in Nat /\ v.tok >= Edge(prog, k, r, c + 1)
      BY <1>0, <1>1, Bridge, <3>4 DEF WarpOK, WarpSet, WarpInv, EndCombine
    <3>7. (t \in DOMAIN handle[r][k].sums) = (t < v.tok)
      BY <1>0, <1>1, <3>1 DEF AddedInv, AddedOK
    <3> HIDE DEF v
    <3> QED BY <1>0, <1>1, ChannelBounds, <3>1, <3>6, <3>7 DEF OfChannel
  <2> QED BY <1>0, <1>1, <2>2 DEF SumsInv, SumsOK
<1>10. HandlesInv' /\ ItemsInv' /\ KeepNums /\ KeepPrefix /\ KeepTensor /\ KeepChannel /\ KeepHead /\ KeepRecv /\ KeepSums
  BY <1>0, <1>2, HandlesFrame, KeepAll, ItemsFrame DEF KeepHandles
<1>11. TakenInv'
  <2>1. \A d, s \in Ranks, j \in DOMAIN prog : \A c \in ChannelsOf(prog, j) : Dispatches(prog, j) =>
          Taken(d, j, c, s)' = Taken(d, j, c, s)
    BY <1>2, <1>1, <1>4, EndViews, <1>0, <1>6, CallNumbers DEF SameView
  <2> QED BY <1>0, <1>2, <2>1 DEF TakenInv
<1>12. RecvInv'
  BY <1>5, <1>6, <1>0, <1>2 DEF RecvInv
<1>13. SumsInv'
  BY <1>0, <1>2, <1>5, <1>9 DEF SumsInv
<1>14. QueuesInv'
  BY <1>0, <1>1, <1>4, <1>7, EndQueues
<1> QED BY <1>10, <1>11, <1>12, <1>13, <1>14, <1>2, <1>1, <1>4, <1>8, EndFrame DEF DataInv, TypesInv, TravelInv,
   ComebackInv

-----------------------------------------------------------------------------
(* The start of a call.                                                    *)

Begins(r, k) ==
  /\ kernels[r] = 2 * k - 1 /\ stage[r] = "idle" /\ kernels[r] < Enqueued(r)
  /\ prog' = prog /\ kernels' = kernels /\ stage' = [stage EXCEPT ![r] = "run"]

\* A kernel that starts changes only its rank's phase.
LEMMA BeginPhases ==
  ASSUME Shape, NEW r \in Ranks, NEW k \in Nat \ {0}, Begins(r, k)
  PROVE  /\ stage'[r] = "run" /\ \A q \in Ranks \ {r} : stage'[q] = stage[q]
         /\ \A q \in Ranks, j \in Nat \ {0} : /\ Opens(q, j)' = Opens(q, j) /\ Writes(q, j)' = Writes(q, j)
                                              /\ Cleans(q, j)' = Cleans(q, j) /\ Dones(q, j)' = Dones(q, j)
                                              /\ Lives(q, j)' = Lives(q, j)
         /\ \A q \in Ranks, j \in Nat \ {0} : (q # r \/ j # k) =>
              Works(q, j)' = Works(q, j) /\ Starts(q, j)' = Starts(q, j)
         /\ Works(r, k)' /\ Starts(r, k)' /\ ~Works(r, k) /\ ~Starts(r, k) /\ ~Dones(r, k) /\ Lives(r, k)
         /\ \A q \in Ranks, j \in Nat \ {0} : Starts(q, j) /\ ~Dones(q, j) => Works(q, j)
         /\ \A j \in Nat \ {0} : ~Works(r, j)
<1>1. /\ stage'[r] = "run" /\ kernels[r] = 2 * k - 1 /\ stage[r] = "idle" /\ kernels' = kernels
      /\ \A q \in Ranks \ {r} : stage'[q] = stage[q]
      /\ \A q \in Ranks : kernels[q] \in Nat
  BY DEF Begins, Shape
<1>3. \A q \in Ranks, j \in Nat \ {0} : (q # r \/ j # k) => Works(q, j)' = Works(q, j) /\ Starts(q, j)' = Starts(q, j)
  BY <1>1 DEF Works, Running, Starts, Started
<1>4. Works(r, k)' /\ Starts(r, k)' /\ ~Works(r, k) /\ ~Starts(r, k) /\ ~Dones(r, k) /\ Lives(r, k)
  BY <1>1 DEF Works, Running, Starts, Started, Dones, Done, Lives, Live, Cleaned
<1>5. /\ \A q \in Ranks, j \in Nat \ {0} : Starts(q, j) /\ ~Dones(q, j) => Works(q, j)
      /\ \A j \in Nat \ {0} : ~Works(r, j)
  BY <1>1 DEF Starts, Started, Dones, Done, Works, Running
<1> QED BY <1>1, <1>3, <1>4, <1>5 DEF Opens, Opened, Writes, Wrote, Cleans, Cleaned, Dones, Done, Lives, Live

\* A sender and a receiver that have not done anything yet.
Fresh(r, k) == \A c \in ChannelsOf(prog, k), d \in Ranks :
  /\ sender'[r][<<c, d>>].todo = "send" /\ sender'[r][<<c, d>>].tail = 0
  /\ Dispatches(prog, k) => /\ sender'[r][<<c, d>>].tok = Edge(prog, k, r, c)
                            /\ receiver'[r][<<c, d>>].head = 0 /\ receiver'[r][<<c, d>>].todo = "offsets"
LEMMA BeginViews ==
  ASSUME Shape, NEW r \in Ranks, NEW k \in Nat \ {0}, Begins(r, k), Fresh(r, k),
         \A q \in Ranks \ {r} : sender'[q] = sender[q] /\ receiver'[q] = receiver[q]
  PROVE  \A q \in Ranks, j \in Nat \ {0} : \A c \in ChannelsOf(prog, j), d \in Ranks :
           SameView(q, j, c, d) /\ (Dispatches(prog, j) => HeadNow(q, j, c, d)' = HeadNow(q, j, c, d))
<1>2. prog' = prog
  BY DEF Begins
<1> SUFFICES ASSUME NEW q \in Ranks, NEW j \in Nat \ {0}, NEW c \in ChannelsOf(prog, j), NEW d \in Ranks
             PROVE  SameView(q, j, c, d) /\ (Dispatches(prog, j) => HeadNow(q, j, c, d)' = HeadNow(q, j, c, d))
  OBVIOUS
<1>3. CASE q # r \/ j # k
  BY BeginPhases, <1>3, <1>2 DEF NextTok, Releasing, SentBack, HeadNow, HasOffsets, Taken, SameView
<1>4. CASE q = r /\ j = k
  BY BeginPhases, <1>2, <1>4 DEF Fresh, NextTok, Releasing, HeadNow, HasOffsets, Taken, SentBack, SameView
<1> QED BY <1>3, <1>4

LEMMA HostKept ==
  ASSUME NEW p \in Setups, NEW r, NEW cl, NEW po, NEW ctr, NEW n, NEW st, NEW n2, NEW st2, HostOK(p, r, cl, po, ctr, n, st),
         n2 <= EnqueuedBy(cl, po), st2 # "idle" => n2 < EnqueuedBy(cl, po),
         \A j \in Nat \ {0} : Cleaned(n2, st2, j) <=> Cleaned(n, st, j)
  PROVE  HostOK(p, r, cl, po, ctr, n2, st2)
BY CallNumbers DEF HostOK

\* What a start leaves alone.
LEMMA BeginFrame ==
  ASSUME Shape, Together, DataInv, NEW r \in Ranks, NEW k \in DOMAIN prog, Begins(r, k), Fresh(r, k),
         call' = call, polling' = polling, counter' = counter, handle' = handle,
         \A q \in Ranks \ {r} : sender'[q] = sender[q] /\ receiver'[q] = receiver[q],
         Dispatches(prog, k) => \A d \in Ranks : \A a \in 0 .. NumCells - 1 : mem'[d][a] = mem[d][a]
  PROVE  /\ prog' \in Setups /\ HostInv' /\ NumsInv' /\ HandlesInv' /\ ItemsInv' /\ EmptyInv' /\ NotifyInv'
         /\ HeadsInv' /\ HeadDomainInv' /\ TakenInv' /\ OffsetInv' /\ RecvInv' /\ FixedInv' /\ SumsInv'
<1>0. /\ prog \in Setups /\ HostInv /\ NumsInv /\ HandlesInv /\ ItemsInv /\ EmptyInv /\ PrefixInv /\ CountsInv /\ MatrixInv /\ TensorInv
      /\ HeadsInv /\ HeadDomainInv /\ TakenInv /\ OffsetInv /\ RecvInv /\ FixedInv /\ SumsInv
  BY DataParts
<1>1. \A j \in DOMAIN prog : j \in Nat \ {0}
  BY <1>0, CallNumbers
<1>2. /\ prog' = prog /\ kernels[r] = 2 * k - 1 /\ kernels' = kernels /\ kernels[r] < Enqueued(r)
      /\ stage'[r] = "run" /\ stage[r] = "idle" /\ \A q \in Ranks \ {r} : stage'[q] = stage[q]
  BY <1>1, BeginPhases DEF Begins
<1>3. /\ \A q \in Ranks, j \in DOMAIN prog : /\ Opens(q, j)' = Opens(q, j) /\ Writes(q, j)' = Writes(q, j)
                                             /\ Cleans(q, j)' = Cleans(q, j) /\ Dones(q, j)' = Dones(q, j)
                                             /\ Lives(q, j)' = Lives(q, j)
      /\ \A q \in Ranks, j \in DOMAIN prog : Starts(q, j) => Starts(q, j)'
  BY <1>1, BeginPhases
<1>4. \A q \in Ranks, j \in DOMAIN prog : \A c \in ChannelsOf(prog, j), d \in Ranks : SameView(q, j, c, d)
  BY <1>1, BeginViews
<1>7. HostInv'
  <2>1. ASSUME NEW q \in Ranks
        PROVE  HostOK(prog, q, call[q], polling[q], counter[q], kernels[q], stage'[q])
    BY <1>0, <1>2, <1>1, HostKept DEF HostInv, EnqueuedBy, Enqueued, HostOK, Cleaned
  <2> QED BY <1>2, <2>1 DEF HostInv
<1>8. NumsInv' /\ HandlesInv' /\ ItemsInv' /\ HeadDomainInv'
  BY <1>0, <1>2, KeepAll, NumsFrame, HandlesFrame, ItemsFrame, HeadDomainFrame DEF KeepHandles
<1>9. EmptyInv'
  BY <1>0, <1>2, <1>3 DEF EmptyInv
<1>10. PrefixInv' /\ CountsInv'
  BY <1>0, <1>2, <1>3, <1>1, WorkApart DEF PrefixInv, CountsInv
<1>11. MatrixInv'
  BY <1>0, <1>1, <1>2, WorkApart, CountCells, <1>3 DEF MatrixInv, MatrixOK
<1>12. TensorInv'
  BY <1>0, <1>2, <1>3 DEF Cell, ItemSet, TensorInv
<1>13. HeadsInv'
  BY <1>4, <1>0, <1>2 DEF SameView, HeadsInv
<1>14. TakenInv'
  BY <1>4, <1>0, <1>2 DEF SameView, TakenInv
<1>15. OffsetInv'
  BY <1>4, <1>0, <1>2 DEF SameView, OffsetInv
<1>16. RecvInv' /\ SumsInv'
  BY <1>0, <1>2, <1>3 DEF RecvInv, SumsInv
<1>17. FixedInv'
  BY <1>0, <1>2, <1>3 DEF FixedInv
<1> QED BY <1>0, <1>2, <1>7, <1>8, <1>9, <1>10, <1>11, <1>12, <1>13, <1>14, <1>15, <1>16, <1>17 DEF NotifyInv

\* The threads of a call that starts: senders, receivers, warps and updaters.
Threads(r, f, g, h, u) ==
  /\ sender' = [sender EXCEPT ![r] = f] /\ receiver' = [receiver EXCEPT ![r] = g]
  /\ warp' = [warp EXCEPT ![r] = h] /\ updater' = [updater EXCEPT ![r] = u]
ThreadsOf(k, f, g, h, u) ==
  /\ f \in [QueuesOf(prog, k) -> SenderSet]
  /\ g \in (IF Dispatches(prog, k) THEN [QueuesOf(prog, k) -> ReceiverSet] ELSE {<<>>})
  /\ h \in (IF Combines(prog, k) THEN [ChannelsOf(prog, k) \X Warps -> WarpSet] ELSE {<<>>})
  /\ u \in (IF Combines(prog, k) THEN [QueuesOf(prog, k) -> UpdaterSet] ELSE {<<>>})
LEMMA BeginQueues ==
  ASSUME Shape, prog \in Setups, QueuesInv, NEW r \in Ranks, NEW k \in DOMAIN prog, Begins(r, k),
         NEW f, NEW g, NEW h, NEW u, Threads(r, f, g, h, u), ThreadsOf(k, f, g, h, u)
  PROVE  /\ QueuesInv' /\ sender'[r] = f /\ receiver'[r] = g /\ warp'[r] = h /\ updater'[r] = u
         /\ \A q \in Ranks \ {r} : sender'[q] = sender[q] /\ receiver'[q] = receiver[q]
         /\ \A q \in Ranks \ {r} : warp'[q] = warp[q] /\ updater'[q] = updater[q]
<1>3. /\ sender'[r] = f /\ receiver'[r] = g /\ warp'[r] = h /\ updater'[r] = u
      /\ \A q \in Ranks \ {r} : sender'[q] = sender[q] /\ receiver'[q] = receiver[q]
      /\ \A q \in Ranks \ {r} : warp'[q] = warp[q] /\ updater'[q] = updater[q]
      /\ sender' = [q \in Ranks |-> sender'[q]] /\ receiver' = [q \in Ranks |-> receiver'[q]]
      /\ warp' = [q \in Ranks |-> warp'[q]] /\ updater' = [q \in Ranks |-> updater'[q]]
  BY DEF Threads, QueuesInv
<1>4. /\ prog' = prog /\ stage'[r] = "run" /\ \A q \in Ranks \ {r} : stage'[q] = stage[q]
      /\ \A q \in Ranks \ {r}, j \in DOMAIN prog : Works(q, j)' = Works(q, j)
  <2> QED BY CallNumbers, BeginPhases DEF Begins
<1>5. \A j \in DOMAIN prog : Works(r, j)' => j = k
  BY CallNumbers DEF Works, Running, Begins
<1>6. ASSUME NEW q \in Ranks
      PROVE  stage'[q] # "run" => sender'[q] = <<>> /\ receiver'[q] = <<>> /\ warp'[q] = <<>> /\ updater'[q] = <<>>
  BY <1>3, <1>4 DEF QueuesInv
<1>7. ASSUME NEW q \in Ranks, NEW j \in DOMAIN prog, Works(q, j)'
      PROVE  /\ sender'[q] \in [QueuesOf(prog, j) -> SenderSet]
             /\ receiver'[q] \in (IF Dispatches(prog, j) THEN [QueuesOf(prog, j) -> ReceiverSet] ELSE {<<>>})
             /\ warp'[q] \in (IF Combines(prog, j) THEN [ChannelsOf(prog, j) \X Warps -> WarpSet] ELSE {<<>>})
             /\ updater'[q] \in (IF Combines(prog, j) THEN [QueuesOf(prog, j) -> UpdaterSet] ELSE {<<>>})
  BY <1>3, <1>5, <1>7, <1>4 DEF ThreadsOf, QueuesInv
<1> QED BY <1>3, <1>4, <1>6, <1>7 DEF QueuesInv

\* Cells g announce, to rank d, the ranges of all channels of rank r.
Announces(k, r, d, g) ==
  /\ \A a \in DOMAIN g : /\ g[a] \in Cell
                         /\ \E c \in ChannelsOf(prog, k) : a \in {FieldOf(prog, k, 0, c, r), FieldOf(prog, k, 1, c, r)}
  /\ \A c \in ChannelsOf(prog, k) :
       /\ FieldOf(prog, k, 0, c, r) \in DOMAIN g /\ FieldOf(prog, k, 1, c, r) \in DOMAIN g
       /\ g[FieldOf(prog, k, 0, c, r)].int = -Below(prog, k, r, d, Edge(prog, k, r, c)) - 1
       /\ g[FieldOf(prog, k, 1, c, r)].int = -Below(prog, k, r, d, Edge(prog, k, r, c + 1)) - 1
\* The offsets that a sender stores are those its notify kernel has counted.
LEMMA OffsetsFacts ==
  ASSUME prog \in Setups, PrefixInv, NEW r \in Ranks, NEW k \in DOMAIN prog, Dispatches(prog, k), Opens(r, HomeOf(prog, k)),
         NEW d \in Ranks, NEW g, g = Offsets(k, r, d)
  PROVE  Announces(k, r, d, g)
<1> DEFINE h == HomeOf(prog, k)
           prefix == handle[r][h].channelPrefix
           Lo(c) == IF c > 0 THEN prefix[<<c - 1, d>>] ELSE 0
           A(c) == FieldOf(prog, k, 0, c, r)
           Z(c) == FieldOf(prog, k, 1, c, r)
           fa == [a \in {A(c) : c \in ChannelsOf(prog, k)} |->
                    LET c == CHOOSE x \in ChannelsOf(prog, k) : A(x) = a IN Word(-Lo(c) - 1)]
           fz == [a \in {Z(c) : c \in ChannelsOf(prog, k)} |->
                    LET c == CHOOSE x \in ChannelsOf(prog, k) : Z(x) = a IN Word(-prefix[<<c, d>>] - 1)]
<1>1. g = Put(fa, fz)
  BY DEF Offsets, StartAt, EndAt, FieldAt, FieldOf, Base, BaseOf, Channels, ChannelsOf, Home, HomeOf, Source, SourceOf
<1>2. \A c, e \in ChannelsOf(prog, k) : /\ A(c) = A(e) => c = e
                                        /\ Z(c) = Z(e) => c = e
                                        /\ A(c) # Z(e)
  BY FieldFacts DEF FieldsOf
<1>3. \A c \in ChannelsOf(prog, k) : prefix[<<c, d>>] = Below(prog, k, r, d, Edge(prog, k, r, c + 1))
  <2>2. PrefixOK(prog, h, r, prefix)
    BY HomeFacts DEF PrefixInv
  <2>3. prog \in Setups /\ k \in DOMAIN prog /\ h = HomeOf(prog, k)
    OBVIOUS
  <2> HIDE DEF h, prefix
  <2> TAKE c \in ChannelsOf(prog, k)
  <2> QED BY <2>2, <2>3, SameRouting DEF PrefixOK, QueuesOf
<1>4. \A c \in ChannelsOf(prog, k) : Lo(c) = Below(prog, k, r, d, Edge(prog, k, r, c))
  <2> TAKE c \in ChannelsOf(prog, k)
  <2>1. CASE c > 0
    <3>1. c - 1 \in ChannelsOf(prog, k) /\ c - 1 + 1 = c
      <4>1. prog[k].channels \in Nat
        BY ProgramFacts
      <4> QED BY <2>1, <4>1 DEF ChannelsOf
    <3> HIDE DEF prefix
    <3> QED BY <1>3, <2>1, <3>1
  <2>2. CASE ~(c > 0)
    BY ProgramFacts, <2>2, EdgeFacts, BelowFacts DEF ChannelsOf
  <2> QED BY <2>1, <2>2
<1> HIDE DEF Lo, A, Z, prefix
<1>5. /\ DOMAIN g = {A(c) : c \in ChannelsOf(prog, k)} \cup {Z(c) : c \in ChannelsOf(prog, k)}
      /\ \A c \in ChannelsOf(prog, k) : g[A(c)] = Word(-Lo(c) - 1) /\ g[Z(c)] = Word(-prefix[<<c, d>>] - 1)
  <2>2. \A c \in ChannelsOf(prog, k) : fa[A(c)] = Word(-Lo(c) - 1) /\ fz[Z(c)] = Word(-prefix[<<c, d>>] - 1)
    BY <1>2
  <2>4. DOMAIN fa = {A(c) : c \in ChannelsOf(prog, k)} /\ DOMAIN fz = {Z(c) : c \in ChannelsOf(prog, k)}
    OBVIOUS
  <2> HIDE DEF fa, fz
  <2> QED BY <1>1, <2>2, <1>2, <2>4 DEF Put
<1>6. \A c \in ChannelsOf(prog, k) : /\ Below(prog, k, r, d, Edge(prog, k, r, c)) \in Nat
                                     /\ Below(prog, k, r, d, Edge(prog, k, r, c + 1)) \in Nat
  BY ChannelBounds, BelowFacts
<1>7. \A n \in Int : Word(n).int = n /\ Word(n) \in Cell
  BY Words, RanksFinite DEF Ranks
<1> HIDE DEF fa, fz
<1>8. \A c \in ChannelsOf(prog, k) : /\ A(c) \in DOMAIN g /\ Z(c) \in DOMAIN g /\ g[A(c)] \in Cell /\ g[Z(c)] \in Cell
                                     /\ g[A(c)].int = -Below(prog, k, r, d, Edge(prog, k, r, c)) - 1
                                     /\ g[Z(c)].int = -Below(prog, k, r, d, Edge(prog, k, r, c + 1)) - 1
  <2> TAKE c \in ChannelsOf(prog, k)
  <2>1. Lo(c) \in Nat /\ prefix[<<c, d>>] \in Nat
    BY <1>3, <1>4, <1>6
  <2> QED BY <1>3, <1>4, <1>7, <2>1, <1>5
<1> QED BY <1>8, <1>5 DEF Announces, A, Z

LEMMA BeginFacts ==
  ASSUME Shape, Together, DataInv, NEW r \in Ranks, NEW k, k = CallOf(r), stage[r] = "idle", StartRun(r)
  PROVE  /\ k \in DOMAIN prog /\ k \in Nat \ {0} /\ Begins(r, k)
         /\ \A q \in Ranks, j \in DOMAIN prog : Lives(q, j) \/ Works(q, j) => j = k
         /\ \A q \in Ranks, j \in DOMAIN prog : j <= k => Opens(q, j)
         /\ \A q \in Ranks, j \in DOMAIN prog : j < k => Dones(q, j)
         /\ call' = call /\ polling' = polling /\ counter' = counter /\ handle' = handle
<1>3. \A j \in DOMAIN prog : j \in Nat \ {0}
  BY DataParts, CallNumbers
<1> QED BY DataParts, Underway, <1>3, WorkApart DEF Begins, StartRun, hostVars

\* The start of a dispatch keeps all of it.
LEMMA StartDispatchStep ==
  ASSUME Shape, Together, DataInv, NEW r \in Ranks, NEW k, k = CallOf(r), stage[r] = "idle", StartRun(r), Dispatches(prog, k)
  PROVE  DataInv'
<1>0. /\ prog \in Setups /\ MemInv /\ QueuesInv /\ PrefixInv /\ SenderInv /\ QueueInv /\ ReceiverInv
      /\ ReturnInv /\ BackInv /\ WarpInv /\ AddedInv /\ UpdaterInv
  BY DataParts
<1>1. /\ k \in DOMAIN prog /\ k \in Nat \ {0} /\ Begins(r, k)
      /\ \A q \in Ranks, j \in DOMAIN prog : Lives(q, j) \/ Works(q, j) => j = k
      /\ \A q \in Ranks, j \in DOMAIN prog : j <= k => Opens(q, j)
      /\ call' = call /\ polling' = polling /\ counter' = counter /\ handle' = handle
  BY BeginFacts
<1>2. ~Combines(prog, k)
  BY DEF Combines, Dispatches, AnyDispatch
<1> DEFINE f == [q \in QueuesOf(prog, k) |-> [tok |-> Edge(prog, k, r, q[1]), tail |-> 0, todo |-> "send"]]
           g == [q \in QueuesOf(prog, k) |-> [head |-> 0, tail |-> 0, offset |-> 0, left |-> 0, todo |-> "offsets"]]
           new == [d \in Ranks |-> Offsets(k, r, d)]
<1>3. /\ mem' = [d \in Ranks |-> Put(mem[d], new[d])]
      /\ sender' = [sender EXCEPT ![r] = f] /\ receiver' = [receiver EXCEPT ![r] = g]
      /\ warp' = warp /\ updater' = updater
  BY Bridge, <1>2 DEF Combines, StartRun, Edge
<1>4. \A c \in ChannelsOf(prog, k), d \in Ranks :
        /\ f[<<c, d>>].tok = Edge(prog, k, r, c) /\ f[<<c, d>>].tail = 0 /\ f[<<c, d>>].todo = "send"
        /\ g[<<c, d>>].head = 0 /\ g[<<c, d>>].todo = "offsets"
  BY DEF QueuesOf
<1>5. f \in [QueuesOf(prog, k) -> SenderSet] /\ g \in [QueuesOf(prog, k) -> ReceiverSet]
  BY <1>0, <1>1, ChannelBounds DEF QueuesOf, SenderSet, ReceiverSet
<1> HIDE DEF f, g
<1>6. /\ QueuesInv' /\ sender'[r] = f /\ receiver'[r] = g
      /\ \A q \in Ranks \ {r} : sender'[q] = sender[q] /\ receiver'[q] = receiver[q]
  <2>3. ThreadsOf(k, f, g, <<>>, <<>>) /\ Threads(r, f, g, <<>>, <<>>)
    BY <1>2, <1>3, <1>5, <1>0, <1>1 DEF ThreadsOf, Threads, QueuesInv, Begins
  <2> QED BY <1>0, <1>1, <2>3, BeginQueues
<1>7. \A d \in Ranks : Announces(k, r, d, new[d])
  BY <1>0, <1>1, HomeFacts, OffsetsFacts
<1> HIDE DEF new
<1>8. \A d \in Ranks : \A a \in DOMAIN new[d] : \E c \in ChannelsOf(prog, k) :
        a \in {FieldOf(prog, k, 0, c, r), FieldOf(prog, k, 1, c, r)} /\ a \in QueueCells(prog, k, c, r)
  BY <1>0, <1>1, CellKinds, <1>7 DEF Announces
<1>9. \A d \in Ranks : /\ DOMAIN mem[d] = Addresses /\ DOMAIN new[d] \subseteq Addresses
                       /\ \A a : mem'[d][a] = IF a \in Addresses THEN IF a \in DOMAIN new[d] THEN new[d][a] ELSE mem[d][a] ELSE mem'[d][a]
                       /\ DOMAIN mem'[d] = Addresses
  BY <1>0, <1>1, <1>8, CellsIn, <1>3 DEF MemInv, Put
<1>10. MemInv'
  <2>1. Cell' = Cell /\ Addresses' = Addresses
    BY <1>1 DEF Begins, Cell, ItemSet, Addresses, Calls, Cells, Base, NumWords
  <2>2. ASSUME NEW d \in Ranks
        PROVE  mem'[d] \in [Addresses -> Cell]
    <3>1. mem'[d] = Put(mem[d], new[d]) /\ mem[d] \in [Addresses -> Cell] /\ DOMAIN new[d] \subseteq Addresses
      BY <1>0, <1>3, <1>9 DEF MemInv
    <3> QED BY <3>1, <1>7 DEF Put, Announces
  <2> QED BY <2>1, <2>2, <1>3 DEF MemInv
<1>11. \A d \in Ranks : \A a \in 0 .. NumCells - 1 : mem'[d][a] = mem[d][a]
  BY <1>0, <1>1, <1>8, <1>9, CellsIn
<1>12. \A d, s \in Ranks, c \in ChannelsOf(prog, k) : \A a \in QueueCells(prog, k, c, s) :
         /\ s # r => mem'[d][a] = mem[d][a]
         /\ s = r /\ a \notin {FieldOf(prog, k, 0, c, r), FieldOf(prog, k, 1, c, r)} => mem'[d][a] = mem[d][a]
  BY <1>0, <1>1, CellsIn, <1>8, QueueCellsFacts, <1>9
<1>13. Fresh(r, k)
  <2>1. \A c \in ChannelsOf(prog, k), d \in Ranks :
          /\ sender'[r][<<c, d>>].todo = "send" /\ sender'[r][<<c, d>>].tail = 0 /\ sender'[r][<<c, d>>].tok = Edge(prog, k, r, c)
          /\ receiver'[r][<<c, d>>].head = 0 /\ receiver'[r][<<c, d>>].todo = "offsets"
    <3> TAKE c \in ChannelsOf(prog, k), d \in Ranks
    <3> QED BY <1>4, <1>6
  <2> QED BY <2>1 DEF Fresh
<1>15. /\ \A q \in Ranks, j \in DOMAIN prog : Lives(q, j)' = Lives(q, j)
       /\ \A q \in Ranks, j \in DOMAIN prog : (q # r \/ j # k) => Works(q, j)' = Works(q, j) /\ Starts(q, j)' = Starts(q, j)
       /\ Works(r, k)' /\ Starts(r, k)' /\ ~Starts(r, k)
       /\ \A q \in Ranks, j \in DOMAIN prog : Works(q, j)' => j = k
  BY <1>1, <1>0, CallNumbers, <1>6, <1>13, BeginViews, BeginPhases
<1>16. prog' = prog
  BY <1>1 DEF Begins
<1>17. SenderInv'
  <2>1. ASSUME NEW s \in Ranks, NEW d \in Ranks, NEW j \in DOMAIN prog, NEW c \in ChannelsOf(prog, j), Dispatches(prog, j), Works(s, j)'
        PROVE  SenderOK(prog, j, s, c, d, sender'[s][<<c, d>>])
    <3>2. CASE s = r
      <4>2. sender'[r][<<c, d>>].tok = Edge(prog, k, r, c) /\ sender'[r][<<c, d>>].tail = 0
        BY <1>4, <1>6, <2>1, <1>15
      <4> QED BY <1>15, <2>1, <3>2, <1>0, <1>1, ChannelBounds, NthFacts, <4>2 DEF SenderOK
    <3>3. CASE s # r
      BY <1>0, <1>6, <1>15, <2>1, <3>3 DEF SenderInv
    <3> QED BY <3>2, <3>3
  <2> QED BY <1>16, <2>1 DEF SenderInv
<1>18. QueueInv'
  <2>1. ASSUME NEW s \in Ranks, NEW d \in Ranks, NEW j \in DOMAIN prog, NEW c \in ChannelsOf(prog, j), Dispatches(prog, j), Lives(d, j)'
        PROVE  QueueOK(prog, j, s, d, c, Starts(s, j)', NextTok(s, j, c, d)', HeadNow(d, j, c, s)', Releasing(s, j, c, d)', mem'[d])
    <3> DEFINE tok == NextTok(s, k, c, d)
               head == HeadNow(d, k, c, s)
               rel == Releasing(s, k, c, d)
               m == mem[d]
               m2 == mem'[d]
    <3>1. j = k /\ Lives(d, k)
      BY <1>1, <1>15, <2>1
    <3>3. NextTok(s, k, c, d)' = tok /\ HeadNow(d, k, c, s)' = head /\ (Releasing(s, k, c, d)' <=> rel)
      BY <1>0, CallNumbers, <1>1, <1>6, <1>13, BeginViews, <2>1, <3>1 DEF SameView
    <3>4. CASE s # r
      <4> DEFINE b == Starts(s, k)
      <4>1. Starts(s, k)' <=> b
        BY <1>15, <3>1, <3>4
      <4>2. QueueOK(prog, k, s, d, c, b, tok, head, rel, m) /\ \A a \in QueueCells(prog, k, c, s) : m2[a] = m[a]
        BY <1>12, <2>1, <3>1, <1>0, <3>4 DEF QueueInv
      <4> HIDE DEF b, tok, head, rel, m, m2
      <4>3. QueueOK(prog, k, s, d, c, b, tok, head, rel, m2)
        BY <1>0, <1>1, <2>1, <3>1, <4>2, QueueFrame
      <4> QED BY <3>1, <3>3, <4>1, <4>3 DEF QueueOK, m2
    <3>5. CASE s = r
      <4>1. QueueOK(prog, k, r, d, c, FALSE, tok, head, rel, m)
        BY <1>15, <1>0, <2>1, <3>1, <3>5 DEF Starts, Started, QueueInv
      <4>2. /\ m2[FieldOf(prog, k, 0, c, r)].int = -Below(prog, k, r, d, Edge(prog, k, r, c)) - 1
            /\ m2[FieldOf(prog, k, 1, c, r)].int = -Below(prog, k, r, d, Edge(prog, k, r, c + 1)) - 1
        BY <1>7, <2>1, <3>1, <1>9 DEF Announces
      <4>3. \A a \in QueueCells(prog, k, c, r) \ {FieldOf(prog, k, 0, c, r), FieldOf(prog, k, 1, c, r)} : m2[a] = m[a]
        BY <1>12, <2>1, <3>1
      <4> HIDE DEF tok, head, rel, m, m2
      <4>4. QueueOK(prog, k, r, d, c, TRUE, tok, head, rel, m2)
        BY <1>0, <1>1, <2>1, <3>1, <4>1, <4>2, <4>3, QueueStarted
      <4> QED BY <1>15, <3>1, <3>3, <3>5, <4>4 DEF QueueOK, m2
    <3> QED BY <3>4, <3>5
  <2> QED BY <1>16, <2>1 DEF QueueInv
<1>19. ReceiverInv'
  BY <1>15, <1>4, <1>6, <1>0, <1>1, CellKinds, <1>12, <1>16 DEF ReceiverOK, ReceiverInv
<1>20. ReturnInv' /\ BackInv' /\ WarpInv' /\ AddedInv' /\ UpdaterInv'
  BY <1>1, <1>2, <1>15, <1>16 DEF ReturnInv, BackInv, WarpInv, AddedInv, UpdaterInv
<1> QED BY <1>6, <1>10, <1>17, <1>18, <1>19, <1>20, <1>1, <1>11, <1>13, BeginFrame DEF DataInv, TypesInv,
   TravelInv, ComebackInv

\* The start of a combine keeps all of it.
LEMMA StartCombineStep ==
  ASSUME Shape, Together, DataInv, NEW r \in Ranks, NEW k, k = CallOf(r), stage[r] = "idle", StartRun(r), Combines(prog, k)
  PROVE  DataInv'
<1>0. /\ prog \in Setups /\ MemInv /\ QueuesInv /\ EmptyInv /\ ReturnInv /\ BackInv /\ WarpInv /\ AddedInv /\ UpdaterInv
  BY DataParts
<1>1. /\ k \in DOMAIN prog /\ k \in Nat \ {0} /\ Begins(r, k)
      /\ \A q \in Ranks, j \in DOMAIN prog : Lives(q, j) \/ Works(q, j) => j = k
      /\ \A q \in Ranks, j \in DOMAIN prog : j < k => Dones(q, j)
      /\ call' = call /\ polling' = polling /\ counter' = counter /\ handle' = handle
  BY BeginFacts
<1>2. ~Dispatches(prog, k)
  BY DEF Combines, Dispatches, AnyDispatch
<1> DEFINE rows(c, d) == ChannelRows(k, handle[r][Home(k)], r, c, d)
           f == [q \in QueuesOf(prog, k) |-> [tok |-> rows(q[1], q[2]).first, tail |-> 0, todo |-> "send"]]
           w == [v \in ChannelsOf(prog, k) \X Warps |->
                   [tok |-> Edge(prog, k, r, v[1]) + v[2] - 1, heads |-> [s \in Ranks |-> 0],
                    retired |-> Edge(prog, k, r, v[1]) + v[2] - 1 >= Edge(prog, k, r, v[1] + 1)]]
           u == [q \in QueuesOf(prog, k) |-> [tail |-> 0, last |-> 0]]
<1>3. /\ mem' = mem /\ receiver' = receiver
      /\ sender' = [sender EXCEPT ![r] = f] /\ warp' = [warp EXCEPT ![r] = w] /\ updater' = [updater EXCEPT ![r] = u]
  <2> DEFINE w2 == [v \in Channels(k) \X Warps |->
                      LET first == ChannelStart(Len(Rows(k, r)), prog[k].channels, v[1]) + v[2] - 1
                      IN  [tok |-> first, heads |-> [s \in Ranks |-> 0],
                           retired |-> first >= ChannelEnd(Len(Rows(k, r)), prog[k].channels, v[1])]]
  <2>4. /\ mem' = mem /\ receiver' = receiver
        /\ sender' = [sender EXCEPT ![r] = [q \in Queues(k) |-> [tok |-> rows(q[1], q[2]).first, tail |-> 0, todo |-> "send"]]]
        /\ warp' = [warp EXCEPT ![r] = w2] /\ updater' = [updater EXCEPT ![r] = [q \in Queues(k) |-> [tail |-> 0, last |-> 0]]]
    BY DEF StartRun, Combines
  <2>5. w2 = w
    BY Bridge, <1>0, <1>1, EdgeFacts DEF Edge
  <2> QED BY Bridge, <2>4, <2>5
<1>4. \A c \in ChannelsOf(prog, k), d \in Ranks :
        f[<<c, d>>].tok = Row(prog, k, d, r, Edge(prog, k, d, c)) /\ f[<<c, d>>].tail = 0 /\ f[<<c, d>>].todo = "send"
  BY <1>0, <1>1, HomeFacts, ProgramFacts, ChannelRowsFacts DEF QueuesOf, Combines
<1>5. \A c \in ChannelsOf(prog, k), x \in Warps :
        /\ w[<<c, x>>].tok = Edge(prog, k, r, c) + x - 1 /\ w[<<c, x>>].tok \in Nat
        /\ w[<<c, x>>].retired = (w[<<c, x>>].tok >= Edge(prog, k, r, c + 1))
        /\ \A s \in Ranks : w[<<c, x>>].heads[s] = 0
  BY <1>0, <1>1, TurnFacts
<1>6. ThreadsOf(k, f, receiver[r], w, u)
  <2>1. f \in [QueuesOf(prog, k) -> SenderSet]
    <3>1. ASSUME NEW q \in QueuesOf(prog, k)
          PROVE  f[q] \in SenderSet
      <4>1. PICK c \in ChannelsOf(prog, k), d \in Ranks : q = <<c, d>>
        BY DEF QueuesOf
      <4>2. Row(prog, k, d, r, Edge(prog, k, d, c)) \in Nat
        BY <1>0, <1>1, <4>1, RowNth
      <4> QED BY <1>4, <4>1, <4>2 DEF SenderSet
    <3> QED BY <3>1
  <2>2. w \in [ChannelsOf(prog, k) \X Warps -> WarpSet]
    BY <1>0, <1>1, TurnFacts DEF WarpSet
  <2>3. u \in [QueuesOf(prog, k) -> UpdaterSet]
    BY DEF UpdaterSet
  <2> HIDE DEF f, w, u
  <2> QED BY <1>2, <2>1, <2>2, <2>3, <1>0, <1>1 DEF ThreadsOf, QueuesInv, Begins
<1>7. \A q \in QueuesOf(prog, k) : u[q].tail = 0
  OBVIOUS
<1> HIDE DEF f, w, u
<1>8. /\ QueuesInv' /\ sender'[r] = f /\ warp'[r] = w /\ updater'[r] = u
      /\ \A q \in Ranks \ {r} : sender'[q] = sender[q] /\ receiver'[q] = receiver[q]
      /\ \A q \in Ranks \ {r} : warp'[q] = warp[q] /\ updater'[q] = updater[q]
  <2>2. Threads(r, f, receiver[r], w, u)
    BY <1>3, <1>0 DEF Threads, QueuesInv
  <2> QED BY <1>6, <2>2, <1>0, <1>1, BeginQueues
<1>9. Fresh(r, k)
  BY <1>8, <1>4, <1>2 DEF Fresh
<1>11. /\ \A q \in Ranks, j \in DOMAIN prog : Lives(q, j)' = Lives(q, j)
       /\ \A q \in Ranks, j \in DOMAIN prog : (q # r \/ j # k) => Works(q, j)' = Works(q, j)
       /\ ~Starts(r, k) /\ Lives(r, k)
       /\ \A q \in Ranks, j \in DOMAIN prog : Works(q, j)' => j = k
  BY <1>1, <1>0, CallNumbers, <1>8, <1>9, BeginViews, BeginPhases
<1>12. prog' = prog
  BY <1>1 DEF Begins
<1>13. MemInv'
  BY <1>0, <1>3, <1>12, MemFrame
<1>14. SenderInv' /\ QueueInv' /\ ReceiverInv'
  BY <1>1, <1>2, <1>11, <1>12 DEF SenderInv, QueueInv, ReceiverInv
<1>15. ReturnInv'
  BY <1>11, <1>0, <1>1, NthFacts, RowNth, <1>4, <1>8, <1>12 DEF ReturnOK, ReturnInv
<1>16. BackInv'
  BY <1>0, CallNumbers, <1>1, <1>8, <1>9, BeginViews, <1>3, <1>11, <1>12 DEF SameView, BackInv
<1>17. WarpInv'
  BY <1>11, <1>5, <1>8, <1>0, <1>1, WarpStarted, <1>12 DEF WarpInv
<1>18. AddedInv'
  BY <1>11, <1>5, <1>0, <1>1, AddedStarted, <1>8, <1>12 DEF EmptyInv, AddedInv
<1>19. UpdaterInv'
  BY <1>11, <1>1, BackNow, <1>7, <1>8, <1>0, <1>3, <1>12 DEF QueuesOf, UpdaterInv
<1>20. /\ prog' \in Setups /\ HostInv' /\ NumsInv' /\ HandlesInv' /\ ItemsInv' /\ EmptyInv' /\ NotifyInv'
       /\ HeadsInv' /\ HeadDomainInv' /\ TakenInv' /\ OffsetInv' /\ RecvInv' /\ FixedInv' /\ SumsInv'
  BY <1>1, <1>2, <1>8, <1>9, BeginFrame
<1> QED BY <1>8, <1>13, <1>14, <1>15, <1>16, <1>17, <1>18, <1>19, <1>20 DEF DataInv, TypesInv, TravelInv, ComebackInv

-----------------------------------------------------------------------------
(* The notify kernels.                                                     *)

LEMMA PassPhases ==
  ASSUME Shape, prog \in Setups, HostInv, NEW r \in Ranks, PassBarrier(r)
  PROVE  /\ SamePhases /\ \A q \in Ranks : stage'[q] = "run" <=> stage[q] = "run"
         /\ \A q \in Ranks, j \in Nat \ {0} : Cleaned(kernels'[q], stage'[q], j) <=> Cleaned(kernels[q], stage[q], j)
         /\ \A q \in Ranks \ {r} : kernels'[q] = kernels[q] /\ stage'[q] = stage[q]
         /\ kernels'[r] \in kernels[r] .. kernels[r] + 1 /\ (stage'[r] # "idle" => kernels'[r] = kernels[r])
         /\ stage[r] # "idle"
<1> DEFINE k == CallOf(r)
<1>1. stage[r] \in {"open", "exchange", "close"} /\ prog' = prog
  BY DEF PassBarrier
<1>2. k \in Nat \ {0} /\ k \in DOMAIN prog /\ kernels[r] = 2 * k - 2
  BY <1>1, Underway DEF Shape, Notifying
<1>3. /\ stage[r] = "open" /\ prog[k].kind = "dispatch" => stage'[r] = "write" /\ kernels' = kernels
      /\ stage[r] = "open" /\ prog[k].kind # "dispatch" => stage'[r] = "clean" /\ kernels' = kernels
      /\ stage[r] = "exchange" => stage'[r] = "clean" /\ kernels' = kernels
      /\ stage[r] = "close" => stage'[r] = "idle" /\ kernels'[r] = kernels[r] + 1
      /\ \A q \in Ranks \ {r} : kernels'[q] = kernels[q] /\ stage'[q] = stage[q]
  BY DEF PassBarrier, Shape, Now
<1>4. \A q \in Ranks : kernels[q] \in Nat
  BY DEF Shape
<1> HIDE DEF k
<1>5. \A j \in DOMAIN prog : j \in Nat \ {0}
  BY CallNumbers
<1>7. ASSUME NEW q \in Ranks, NEW j \in DOMAIN prog
      PROVE  /\ Opens(q, j)' = Opens(q, j) /\ Starts(q, j)' = Starts(q, j) /\ Cleans(q, j)' = Cleans(q, j)
             /\ Works(q, j)' = Works(q, j) /\ Dones(q, j)' = Dones(q, j) /\ Lives(q, j)' = Lives(q, j)
             /\ prog[j].kind = "dispatch" => Writes(q, j)' = Writes(q, j)
  <2>1. CASE q # r
    BY <1>3, <2>1 DEF Opens, Opened, Starts, Started, Cleans, Cleaned, Works, Running, Dones, Done, Lives, Live, Writes, Wrote
  <2>2. CASE q = r
    <3>2. Starts(r, j)' = Starts(r, j) /\ Works(r, j)' = Works(r, j)
      BY <1>1, <1>2, <1>3, <1>5 DEF Starts, Started, Works, Running
    <3>3. Dones(r, j)' = Dones(r, j) /\ Lives(r, j)' = Lives(r, j)
      BY <1>1, <1>2, <1>3, <1>5 DEF Dones, Done, Lives, Live, Cleaned
    <3> QED BY <2>2, <1>1, <1>2, <1>3, <1>5, <3>2, <3>3 DEF Opens, Opened, Cleans, Cleaned, Writes, Wrote
  <2> QED BY <2>1, <2>2
<1> QED BY <1>1, <1>2, <1>3, <1>4, <1>7 DEF Cleaned, SamePhases

\* The kernels between the barriers have no threads that the model follows.
LEMMA NoThreads ==
  ASSUME QueuesInv, SamePhases, \A q \in Ranks : stage'[q] = "run" <=> stage[q] = "run",
         sender' = sender, receiver' = receiver, warp' = warp, updater' = updater
  PROVE  QueuesInv'
BY DEF SamePhases, QueuesInv

\* So does a barrier of a notify kernel that is passed.
LEMMA PassStep ==
  ASSUME Shape, DataInv, NEW r \in Ranks, PassBarrier(r)
  PROVE  DataInv'
<1>0. /\ prog \in Setups /\ HostInv /\ NumsInv
      /\ MemInv /\ HandlesInv /\ QueuesInv /\ ItemsInv /\ EmptyInv
      /\ PrefixInv /\ CountsInv /\ MatrixInv /\ TensorInv
      /\ SenderInv /\ HeadsInv /\ HeadDomainInv /\ QueueInv /\ ReceiverInv /\ TakenInv /\ OffsetInv /\ RecvInv
      /\ FixedInv /\ ReturnInv /\ BackInv /\ WarpInv /\ AddedInv /\ UpdaterInv /\ SumsInv
  BY DataParts
<1>1. /\ SamePhases /\ \A q \in Ranks : stage'[q] = "run" <=> stage[q] = "run"
      /\ \A q \in Ranks, j \in Nat \ {0} : Cleaned(kernels'[q], stage'[q], j) <=> Cleaned(kernels[q], stage[q], j)
      /\ \A q \in Ranks \ {r} : kernels'[q] = kernels[q] /\ stage'[q] = stage[q]
      /\ kernels'[r] \in kernels[r] .. kernels[r] + 1 /\ (stage'[r] # "idle" => kernels'[r] = kernels[r])
      /\ stage[r] # "idle"
  BY <1>0, PassPhases
<1>2. /\ prog' = prog /\ call' = call /\ polling' = polling /\ counter' = counter /\ mem' = mem /\ handle' = handle
      /\ sender' = sender /\ receiver' = receiver /\ warp' = warp /\ updater' = updater
  BY DEF PassBarrier, hostVars, queueVars
<1>3. KeepTensor /\ KeepPrefix /\ KeepNums /\ KeepHead /\ KeepRecv /\ KeepChannel /\ KeepSums
  BY <1>2, KeepAll DEF KeepHandles
<1>4. HostInv'
  <2>1. ASSUME NEW q \in Ranks
        PROVE  HostOK(prog, q, call[q], polling[q], counter[q], kernels'[q], stage'[q])
    <3>1. HostOK(prog, q, call[q], polling[q], counter[q], kernels[q], stage[q])
      BY <1>0 DEF HostInv
    <3>2. CASE q # r
      BY <1>1, <3>1, <3>2
    <3>3. CASE q = r
      <4>1. kernels[r] \in Nat /\ EnqueuedBy(call[r], polling[r]) \in Int
        BY <3>1, <3>3 DEF Shape, HostOK, EnqueuedBy
      <4> QED BY <1>0, <3>1, <3>3, <1>1, <4>1, HostKept DEF HostOK
    <3> QED BY <3>2, <3>3
  <2> QED BY <1>2, <2>1 DEF HostInv
<1>5. NumsInv' /\ HandlesInv' /\ MemInv' /\ ItemsInv' /\ HeadDomainInv'
  BY <1>0, <1>2, <1>3, NumsFrame, HandlesFrame, MemFrame, ItemsFrame, HeadDomainFrame
<1>6. QueuesInv' /\ EmptyInv'
  BY <1>0, <1>1, <1>2, <1>3, NoThreads, EmptyFrame
<1>7. NotifyInv'
  BY <1>0, <1>1, <1>2, <1>3, PrefixFrame, CountsFrame, MatrixFrame, TensorFrame DEF NotifyInv
<1>8. SenderInv' /\ HeadsInv' /\ QueueInv' /\ ReceiverInv'
  BY <1>0, <1>1, <1>2, <1>3, SenderFrame, HeadsFrame, QueueInvFrame, ReceiverFrame
<1>9. TakenInv' /\ OffsetInv' /\ RecvInv'
  BY <1>0, <1>1, <1>2, <1>3, TakenInvFrame, OffsetFrame, RecvFrame
<1>10. FixedInv' /\ ReturnInv' /\ BackInv' /\ WarpInv'
  BY <1>0, <1>1, <1>2, <1>3, FixedFrame, ReturnFrame, BackInvFrame, WarpFrame
<1>11. AddedInv' /\ UpdaterInv' /\ SumsInv'
  BY <1>0, <1>1, <1>2, <1>3, AddedFrame, UpdaterFrame, SumsFrame
<1> QED BY <1>0, <1>2, <1>4, <1>5, <1>6, <1>7, <1>8, <1>9, <1>10, <1>11 DEF DataInv, TypesInv, TravelInv, ComebackInv

-----------------------------------------------------------------------------
(* A step that neither starts nor ends the kernel that moves tokens.       *)

RunPhases ==
  /\ prog' = prog /\ \A q \in Ranks : stage'[q] = "run" <=> stage[q] = "run"
  /\ \A q \in Ranks, j \in DOMAIN prog :
       Starts(q, j)' = Starts(q, j) /\ Works(q, j)' = Works(q, j) /\ Dones(q, j)' = Dones(q, j)
Threadless == sender' = sender /\ receiver' = receiver /\ warp' = warp /\ updater' = updater

LEMMA RunFrame ==
  ASSUME RunPhases, Threadless, QueuesInv, SenderInv, ReceiverInv, UpdaterInv, ReturnInv, WarpInv,
         mem' = mem \/ \A q \in Ranks, j \in DOMAIN prog : ~Works(q, j)
  PROVE  QueuesInv' /\ SenderInv' /\ ReceiverInv' /\ UpdaterInv' /\ ReturnInv' /\ WarpInv'
<1>1. QueuesInv'
  BY DEF RunPhases, Threadless, QueuesInv
<1> QED BY <1>1 DEF RunPhases, Threadless, SenderInv, ReturnInv, WarpInv, ReceiverInv, UpdaterInv

LEMMA RunHandles ==
  ASSUME RunPhases, Threadless, KeepRecv, KeepChannel, KeepSums,
         TakenInv, OffsetInv, RecvInv, AddedInv, SumsInv, ItemsInv
  PROVE  TakenInv' /\ OffsetInv' /\ RecvInv' /\ AddedInv' /\ SumsInv' /\ ItemsInv'
BY DEF RunPhases, Threadless, Taken, HasOffsets, KeepRecv, TakenInv, KeepChannel, OffsetInv, RecvInv, ItemsInv,
   KeepSums, AddedInv, SumsInv

LEMMA RunHeads ==
  ASSUME RunPhases, Threadless, KeepHead, KeepRecv, KeepChannel, KeepSums, EmptyInv, HeadsInv, HeadDomainInv
  PROVE  EmptyInv' /\ HeadsInv' /\ HeadDomainInv'
BY DEF RunPhases, Threadless, NextTok, EmptyInv, KeepHead, KeepRecv, KeepChannel, KeepSums, HeadsInv,
   HeadDomainInv

LEMMA NotifyFrame ==
  ASSUME DataInv, RunPhases, Threadless, KeepRecv, KeepChannel, KeepSums,
         mem' = mem \/ \A q \in Ranks, j \in DOMAIN prog : ~Works(q, j)
  PROVE  /\ prog' \in Setups /\ QueuesInv' /\ ItemsInv' /\ SenderInv' /\ ReceiverInv' /\ TakenInv' /\ OffsetInv' /\ RecvInv'
         /\ ReturnInv' /\ WarpInv' /\ AddedInv' /\ UpdaterInv' /\ SumsInv'
         /\ KeepHead => EmptyInv' /\ HeadsInv' /\ HeadDomainInv'
BY DataParts, RunFrame, RunHandles, RunHeads DEF RunPhases

-----------------------------------------------------------------------------
(* The heads as combine wants them.                                        *)

HeadsAll(p, k, r, head) ==
  /\ \A c \in ChannelsOf(p, k), d \in Ranks : HeadsOK(p, k, r, c, d, Edge(p, k, r, c + 1), head)
  /\ (DOMAIN head) \subseteq ((DOMAIN RowsOf(p, k, r)) \X Ranks)

LEMMA ChannelFound ==
  ASSUME prog \in Setups, NEW k \in DOMAIN prog, NEW r \in Ranks, NEW c \in ChannelsOf(prog, k),
         NEW t, t \in OfChannel(prog, k, r, c)
  PROVE  ChannelOfToken(k, Len(RowsOf(prog, k, r)), t) = c
BY EdgeFacts, OneChannel DEF Channels, ChannelsOf, Edge, OfChannel, ChannelOfToken

\* What a table of heads says of each of its entries.
LEMMA HeadEntries ==
  ASSUME prog \in Setups, NEW k \in DOMAIN prog, NEW r \in Ranks, NEW head, HeadsAll(prog, k, r, head)
  PROVE  /\ \A c \in ChannelsOf(prog, k), d \in Ranks : \A t \in OfChannel(prog, k, r, c) :
              /\ <<t, d>> \in DOMAIN head /\ head[<<t, d>>] \in Int
              /\ t \in RoutedTo(prog, k, r, d) => head[<<t, d>>] = Nth(prog, k, r, d, c, t)
              /\ t \in RoutedTo(prog, k, r, d) <=> head[<<t, d>>] >= 0
         /\ \A x \in DOMAIN head : /\ x = <<x[1], x[2]>> /\ x[1] \in DOMAIN RowsOf(prog, k, r) /\ x[2] \in Ranks
                                   /\ \E c \in ChannelsOf(prog, k) : x[1] \in OfChannel(prog, k, r, c)
<1>1. ASSUME NEW c \in ChannelsOf(prog, k), NEW d \in Ranks, NEW t \in OfChannel(prog, k, r, c)
      PROVE  /\ <<t, d>> \in DOMAIN head /\ head[<<t, d>>] \in Int
             /\ t \in RoutedTo(prog, k, r, d) => head[<<t, d>>] = Nth(prog, k, r, d, c, t)
             /\ t \in RoutedTo(prog, k, r, d) <=> head[<<t, d>>] >= 0
  <2>1. HeadsOK(prog, k, r, c, d, Edge(prog, k, r, c + 1), head)
    BY DEF HeadsAll
  <2> QED BY ChannelBounds, NthFacts, <2>1 DEF HeadsOK, OfChannel, InChannel
<1>2. ASSUME NEW x \in DOMAIN head
      PROVE  /\ x = <<x[1], x[2]>> /\ x[1] \in DOMAIN RowsOf(prog, k, r) /\ x[2] \in Ranks
             /\ \E c \in ChannelsOf(prog, k) : x[1] \in OfChannel(prog, k, r, c)
  BY ChannelOf DEF HeadsAll
<1> QED BY <1>1, <1>2

\* The later entries of a channel are those of its later tokens.
Later(k, n, head, t, d) ==
  {u \in DOMAIN head : /\ u[2] = d /\ u[1] > t /\ head[u] >= 0
                       /\ ChannelOfToken(k, n, u[1]) = ChannelOfToken(k, n, t)}
\* Going backwards, the last head seen is that of the next token for the rank.
LEMMA LaterTokens ==
  ASSUME prog \in Setups, NEW k \in DOMAIN prog, NEW r \in Ranks, NEW head, HeadsAll(prog, k, r, head),
         NEW c \in ChannelsOf(prog, k), NEW d \in Ranks, NEW t, t \in OfChannel(prog, k, r, c),
         NEW later, later = Later(k, Len(RowsOf(prog, k, r)), head, t, d)
  PROVE  /\ \A x \in later : x = <<x[1], d>> /\ x[1] \in InChannel(prog, k, r, d, c) /\ x[1] > t
         /\ \A x \in later : head[x] = Nth(prog, k, r, d, c, x[1])
         /\ \A u \in InChannel(prog, k, r, d, c) : u > t => <<u, d>> \in later
<1> DEFINE n == Len(RowsOf(prog, k, r))
<1>3. ASSUME NEW x \in later
      PROVE  /\ x = <<x[1], d>> /\ x[1] \in InChannel(prog, k, r, d, c) /\ x[1] > t
             /\ head[x] = Nth(prog, k, r, d, c, x[1])
  BY HeadEntries, ChannelFound, ChannelBounds DEF Later, OfChannel, InChannel
<1>4. ASSUME NEW u \in InChannel(prog, k, r, d, c), u > t
      PROVE  <<u, d>> \in later
  BY NthFacts, ChannelFound, HeadEntries, <1>4 DEF Later
<1> QED BY <1>3, <1>4

\* What combine's notify kernel writes for a token that does not go to a rank.
LEMMA FixedEntry ==
  ASSUME prog \in Setups, NEW k \in DOMAIN prog, NEW r \in Ranks, NEW head, HeadsAll(prog, k, r, head),
         NEW c \in ChannelsOf(prog, k), NEW d \in Ranks, NEW t, t \in OfChannel(prog, k, r, c),
         NEW later, later = Later(k, Len(RowsOf(prog, k, r)), head, t, d), t \notin RoutedTo(prog, k, r, d)
  PROVE  /\ later = {} => NoMore(prog, k, r, d, c, t)
         /\ later # {} => ~NoMore(prog, k, r, d, c, t) /\ Min({head[u] : u \in later}) = Nth(prog, k, r, d, c, t)
         /\ Nth(prog, k, r, d, c, t) \in Nat /\ BigHead \in Nat
<1>1. /\ \A x \in later : x = <<x[1], d>> /\ x[1] \in InChannel(prog, k, r, d, c) /\ x[1] > t
      /\ \A x \in later : head[x] = Nth(prog, k, r, d, c, x[1])
      /\ \A u \in InChannel(prog, k, r, d, c) : u > t => <<u, d>> \in later
  BY LaterTokens
<1> DEFINE N(u) == Nth(prog, k, r, d, c, u)
           lo == Edge(prog, k, r, c)
           hi == Edge(prog, k, r, c + 1)
<1>2. /\ lo \in Nat /\ hi \in Nat /\ t \in lo .. hi /\ t \in Nat /\ t < hi
  BY ChannelBounds DEF OfChannel
<1>3. /\ \A u \in InChannel(prog, k, r, d, c) : u \in RoutedTo(prog, k, r, d) /\ u \in Nat /\ N(u) \in Nat /\ N(u) < N(hi) /\ u < hi
      /\ N(t) \in Nat /\ N(hi) \in Int
      /\ \A a, b \in Nat : a <= b => N(a) <= N(b)
      /\ \A u \in RoutedTo(prog, k, r, d), b \in Nat : u < b => N(u) < N(b)
  <2>3. \A a, b \in Nat : a <= b => N(a) <= N(b)
    BY NthFacts
  <2>4. \A u \in RoutedTo(prog, k, r, d), b \in Nat : u < b => N(u) < N(b)
    BY NthFacts
  <2> QED BY NthFacts, <1>2, <2>3, <2>4
<1>4. later = {} => NoMore(prog, k, r, d, c, t)
  BY <1>1, <1>2, <1>3 DEF NoMore
<1>5. ASSUME later # {}
      PROVE  ~NoMore(prog, k, r, d, c, t) /\ Min({head[u] : u \in later}) = N(t)
  <2>1. PICK x \in later : TRUE
    BY <1>5
  <2>4. N(t) < N(hi)
    BY <1>2, <1>3, <1>1, <2>1
  <2>5. PICK u \in InChannel(prog, k, r, d, c) : N(u) = N(t)
    <3>2. \A j \in Nat : j < N(hi) => \E u \in InChannel(prog, k, r, d, c) : u < hi /\ N(u) = j
      <4> QED BY <1>2, PlaceReached
    <3> QED BY <1>3, <2>4, <3>2
  <2>7. <<u, d>> \in later /\ head[<<u, d>>] = N(t)
    BY <1>1, <1>2, <1>3, <2>5
  <2> DEFINE S == {head[y] : y \in later}
  <2> HIDE DEF S
  <2> QED BY <1>2, <1>3, <1>1, <2>1, <2>7 DEF S, NoMore, Min
<1> QED BY <1>3, <1>4, <1>5 DEF BigHead

\* ... for all tokens, even if an earlier combine by the same handle has been there.
LEMMA HeadsFixed ==
  ASSUME prog \in Setups, NEW k \in DOMAIN prog, NEW r \in Ranks, NEW head, HeadsAll(prog, k, r, head),
         NEW new, new = FixHeads(k, Len(RowsOf(prog, k, r)), head)
  PROVE  HeadsAll(prog, k, r, new) /\ FixedOK(prog, k, r, new)
<1> DEFINE n == Len(RowsOf(prog, k, r))
<1>4. ASSUME NEW c \in ChannelsOf(prog, k), NEW d \in Ranks, NEW t \in OfChannel(prog, k, r, c)
      PROVE  /\ <<t, d>> \in DOMAIN new
             /\ t \in RoutedTo(prog, k, r, d) => new[<<t, d>>] = Nth(prog, k, r, d, c, t)
             /\ t \notin RoutedTo(prog, k, r, d) =>
                  /\ new[<<t, d>>] \in Int /\ new[<<t, d>>] < 0
                  /\ -new[<<t, d>>] - 1 = IF NoMore(prog, k, r, d, c, t) THEN BigHead ELSE Nth(prog, k, r, d, c, t)
  <2>1. /\ <<t, d>> \in DOMAIN head /\ head[<<t, d>>] \in Int
        /\ t \in RoutedTo(prog, k, r, d) => head[<<t, d>>] = Nth(prog, k, r, d, c, t)
        /\ t \in RoutedTo(prog, k, r, d) <=> head[<<t, d>>] >= 0
    BY HeadEntries
  <2> DEFINE later == Later(k, n, head, t, d)
             least == Min({head[u] : u \in later})
  <2>2. new[<<t, d>>] = CASE head[<<t, d>>] >= 0 -> head[<<t, d>>]
                          [] head[<<t, d>>] < 0 /\ later = {} -> -BigHead - 1
                          [] OTHER -> -least - 1
    BY <2>1 DEF FixHeads, Later
  <2>3. ASSUME t \notin RoutedTo(prog, k, r, d)
        PROVE  /\ later = {} => NoMore(prog, k, r, d, c, t)
               /\ later # {} => ~NoMore(prog, k, r, d, c, t) /\ least = Nth(prog, k, r, d, c, t)
               /\ Nth(prog, k, r, d, c, t) \in Nat /\ BigHead \in Nat
    BY <2>3, FixedEntry
  <2> HIDE DEF later, least
  <2>4. ASSUME t \notin RoutedTo(prog, k, r, d)
        PROVE  /\ new[<<t, d>>] \in Int /\ new[<<t, d>>] < 0
               /\ -new[<<t, d>>] - 1 = IF NoMore(prog, k, r, d, c, t) THEN BigHead ELSE Nth(prog, k, r, d, c, t)
    BY <2>1, <2>2, <2>4, <2>3
  <2> QED BY <2>1, <2>2, <2>4 DEF FixHeads
<1> QED BY <1>4 DEF HeadsOK, OfChannel, HeadsAll, FixedOK, FixHeads

-----------------------------------------------------------------------------
(* The notify kernels: the start.                                          *)

\* The words and counts of all ranks as they were.
LEMMA QuietMemory ==
  ASSUME RunPhases, Threadless, mem' = mem, KeepTensor, KeepSums, CountsInv, MatrixInv, TensorInv, QueueInv, BackInv,
         \A q \in Ranks, j \in DOMAIN prog : Cleans(q, j)' = Cleans(q, j) /\ Lives(q, j)' = Lives(q, j) /\ Writes(q, j)' = Writes(q, j)
  PROVE  CountsInv' /\ MatrixInv' /\ TensorInv' /\ QueueInv' /\ BackInv'
BY DEF RunPhases, CountsInv, MatrixInv, TensorInv, KeepTensor, Threadless, NextTok, SentBack, Releasing,
   HeadNow, QueueInv, KeepSums, BackInv

LEMMA StartPhases ==
  ASSUME Shape, prog \in Setups, HostInv, NEW r \in Ranks, NEW k, k = CallOf(r), StartNotify(r)
  PROVE  /\ k \in DOMAIN prog /\ k \in Nat \ {0} /\ kernels[r] = 2 * k - 2 /\ RunPhases
         /\ \A q \in Ranks, j \in Nat \ {0} : Cleaned(kernels'[q], stage'[q], j) <=> Cleaned(kernels[q], stage[q], j)
         /\ \A q \in Ranks, j \in DOMAIN prog : /\ Cleans(q, j)' = Cleans(q, j) /\ Lives(q, j)' = Lives(q, j)
                                                /\ Writes(q, j)' = Writes(q, j)
         /\ \A q \in Ranks, j \in DOMAIN prog : (q # r \/ j # k) => Opens(q, j)' = Opens(q, j)
         /\ \A j \in DOMAIN prog : Opens(r, j) \/ j < k => Dones(r, j) /\ Starts(r, j)
         /\ \A q \in Ranks \ {r} : stage'[q] = stage[q]
         /\ kernels' = kernels /\ stage'[r] = "open" /\ kernels[r] < EnqueuedBy(call[r], polling[r])
<1>1. /\ stage[r] = "idle" /\ IsNotify(r) /\ kernels[r] < Enqueued(r)
      /\ prog' = prog /\ kernels' = kernels /\ stage' = [stage EXCEPT ![r] = "open"]
  BY DEF StartNotify
<1>2. k \in DOMAIN prog /\ k \in Nat \ {0} /\ kernels[r] = 2 * k - 2
  BY <1>1, Underway
<1>3. stage'[r] = "open" /\ \A q \in Ranks \ {r} : stage'[q] = stage[q]
  BY <1>1 DEF Shape
<1>6. ASSUME NEW q \in Ranks, NEW j \in DOMAIN prog
      PROVE  /\ Starts(q, j)' = Starts(q, j) /\ Works(q, j)' = Works(q, j) /\ Dones(q, j)' = Dones(q, j)
             /\ Cleans(q, j)' = Cleans(q, j) /\ Lives(q, j)' = Lives(q, j) /\ Writes(q, j)' = Writes(q, j)
             /\ (q # r \/ j # k) => Opens(q, j)' = Opens(q, j)
  <2>1. Starts(q, j)' = Starts(q, j) /\ Works(q, j)' = Works(q, j) /\ Dones(q, j)' = Dones(q, j)
    BY <1>1, <1>3 DEF Starts, Started, Works, Running, Dones, Done
  <2> QED BY <2>1, <1>1, <1>3, <1>2, CallNumbers DEF Cleans, Cleaned, Lives, Live, Done, Writes, Wrote, Opens,
     Opened
<1>7. \A j \in DOMAIN prog : Opens(r, j) \/ j < k => Dones(r, j) /\ Starts(r, j)
  BY <1>1, <1>2, CallNumbers DEF Opens, Opened, Dones, Done, Starts, Started
<1> QED BY <1>1, <1>2, <1>3, <1>6, <1>7 DEF Enqueued, EnqueuedBy, Cleaned, RunPhases

\* What the start of a notify kernel leaves alone.
LEMMA StartFrame ==
  ASSUME Shape, DataInv, NEW r \in Ranks, NEW k, k = CallOf(r), StartNotify(r),
         HandlesInv', KeepNums, KeepTensor, KeepChannel, KeepRecv, KeepSums
  PROVE  /\ prog' \in Setups /\ HostInv' /\ NumsInv' /\ MemInv' /\ HandlesInv' /\ QueuesInv' /\ ItemsInv'
         /\ CountsInv' /\ MatrixInv' /\ TensorInv'
         /\ SenderInv' /\ QueueInv' /\ ReceiverInv' /\ TakenInv' /\ OffsetInv' /\ RecvInv'
         /\ ReturnInv' /\ BackInv' /\ WarpInv' /\ AddedInv' /\ UpdaterInv' /\ SumsInv'
         /\ KeepHead => EmptyInv' /\ HeadsInv' /\ HeadDomainInv'
<1>0. /\ prog \in Setups /\ HostInv /\ NumsInv /\ MemInv /\ CountsInv /\ MatrixInv /\ TensorInv /\ QueueInv /\ BackInv
  BY DataParts
<1>1. /\ k \in DOMAIN prog /\ k \in Nat \ {0} /\ kernels[r] = 2 * k - 2 /\ RunPhases
      /\ \A q \in Ranks, j \in Nat \ {0} : Cleaned(kernels'[q], stage'[q], j) <=> Cleaned(kernels[q], stage[q], j)
      /\ \A q \in Ranks, j \in DOMAIN prog : /\ Cleans(q, j)' = Cleans(q, j) /\ Lives(q, j)' = Lives(q, j)
                                             /\ Writes(q, j)' = Writes(q, j)
      /\ \A q \in Ranks \ {r} : stage'[q] = stage[q]
      /\ kernels' = kernels /\ stage'[r] = "open" /\ kernels[r] < EnqueuedBy(call[r], polling[r])
  BY <1>0, StartPhases
<1>3. HostInv'
  <2>1. ASSUME NEW q \in Ranks
        PROVE  HostOK(prog, q, call[q], polling[q], counter[q], kernels'[q], stage'[q])
    BY <1>0, <1>1, HostKept DEF HostInv, HostOK
  <2> QED BY <2>1 DEF HostInv, StartNotify, hostVars, queueVars, Threadless
<1> QED BY <1>3, <1>0, NumsFrame, MemFrame, <1>1, NotifyFrame, QuietMemory DEF StartNotify, hostVars, queueVars,
   Threadless

\* ... when it keeps the heads too: then no combine opens.
LEMMA FixedKept ==
  ASSUME Shape, DataInv, NEW r \in Ranks, NEW k, k = CallOf(r), StartNotify(r), ~Combines(prog, k), KeepHead
  PROVE  FixedInv'
<1>1. /\ k \in DOMAIN prog /\ prog' = prog
      /\ \A q \in Ranks, j \in DOMAIN prog : (q # r \/ j # k) => Opens(q, j)' = Opens(q, j)
  <2>1. prog' = prog
    BY DEF StartNotify
  <2> QED BY <2>1, DataParts, StartPhases
<1>2. ASSUME NEW q \in Ranks, NEW j \in DOMAIN prog, Combines(prog, j), Opens(q, j)'
      PROVE  FixedOK(prog, j, q, handle'[q][HomeOf(prog, j)].head)
  BY <1>1, <1>2, DataParts, HomeFacts DEF FixedInv, KeepHead
<1> QED BY <1>1, <1>2 DEF FixedInv

\* The start of a dispatch's notify kernel keeps all of it.
LEMMA StartNotifyStep ==
  ASSUME Shape, DataInv, NEW r \in Ranks, NEW k, k = CallOf(r), StartNotify(r), ~Combines(prog, k)
  PROVE  DataInv'
<1>0. prog \in Setups /\ HostInv /\ HandlesInv /\ PrefixInv
  BY DataParts
<1>1. /\ k \in DOMAIN prog /\ prog' = prog
      /\ \A q \in Ranks, j \in DOMAIN prog : (q # r \/ j # k) => Opens(q, j)' = Opens(q, j)
  <2>1. prog' = prog
    BY DEF StartNotify
  <2> QED BY <2>1, <1>0, StartPhases
<1>2. prog[k].kind \in {"dispatch", "cached"}
  <2>1. prog[k].kind \in Kinds
    BY <1>0, <1>1, ProgramFacts
  <2> QED BY <2>1 DEF Combines, Kinds
<1>3. HandlesInv' /\ KeepNums /\ KeepTensor /\ KeepChannel /\ KeepHead /\ KeepRecv /\ KeepSums /\ PrefixInv'
  <2>1. CASE prog[k].kind = "cached"
    BY <2>1, <1>0, <1>1, HandlesFrame, KeepAll DEF StartNotify, Now, KeepHandles, PrefixInv
  <2>2. CASE prog[k].kind = "dispatch"
    <3> DEFINE v == ChannelPrefix(k, Rows(k, r))
    <3>1. handle' = WithPrefix(r, k, v)
      BY <2>2 DEF StartNotify, Now, WithPrefix
    <3> HIDE DEF v
    <3>3. PrefixOK(prog, k, r, v)
      <4>1. \A q \in QueuesOf(prog, k) :
              ChannelEnd(Len(RowsOf(prog, k, r)), prog[k].channels, q[1]) = Edge(prog, k, r, q[1] + 1)
        BY <1>0, <1>1, EdgeFacts DEF QueuesOf
      <4>2. v = [q \in QueuesOf(prog, k) |-> Cardinality({t \in RoutedTo(prog, k, r, q[2]) :
                   t < ChannelEnd(Len(RowsOf(prog, k, r)), prog[k].channels, q[1])})]
        BY DEF v, ChannelPrefix, Queues, Channels, QueuesOf, ChannelsOf, RoutedTo, Rows, RowsOf, Home, HomeOf, Source, SourceOf
      <4> QED BY <4>1, <4>2 DEF PrefixOK, Below
    <3> QED BY <1>0, <1>1, <3>1, PrefixSet, <3>3 DEF PrefixInv
  <2> QED BY <1>2, <2>1, <2>2
<1> QED BY <1>3, FixedKept, StartFrame DEF DataInv, TypesInv, NotifyInv, TravelInv, ComebackInv

\* Calls with one routing agree on what the heads should be.
LEMMA HeadsShared ==
  ASSUME NEW p \in Setups, NEW k \in DOMAIN p, NEW h, h = HomeOf(p, k), NEW r \in Ranks, NEW head
  PROVE  /\ HeadsAll(p, h, r, head) <=> HeadsAll(p, k, r, head)
         /\ FixedOK(p, h, r, head) <=> FixedOK(p, k, r, head)
<1>1. ChannelsOf(p, h) = ChannelsOf(p, k) /\ \A c : Edge(p, h, r, c) = Edge(p, k, r, c)
  BY SameRouting
<1>2. \A d : RoutedTo(p, h, r, d) = RoutedTo(p, k, r, d)
  BY SameRouting
<1>5. ASSUME NEW c \in ChannelsOf(p, k), NEW d \in Ranks
      PROVE  HeadsOK(p, h, r, c, d, Edge(p, h, r, c + 1), head) <=> HeadsOK(p, k, r, c, d, Edge(p, k, r, c + 1), head)
  BY <1>1, <1>2, SameRouting DEF HeadsOK
<1> QED BY <1>1, SameRouting, <1>5, <1>2 DEF HeadsAll, FixedOK, NoMore, OfChannel

LEMMA CombineNotifyFacts ==
  ASSUME Shape, DataInv, NEW r \in Ranks, NEW k, k = CallOf(r), StartNotify(r), Combines(prog, k),
         NEW h, h = HomeOf(prog, k)
  PROVE  /\ k \in DOMAIN prog /\ h \in DOMAIN prog /\ Dispatches(prog, h) /\ Starts(r, h) /\ Dones(r, h)
         /\ HandlesInv' /\ KeepNums /\ KeepPrefix /\ KeepTensor /\ KeepChannel /\ KeepRecv /\ KeepSums
         /\ \A q \in Ranks, j \in DOMAIN prog : (q # r \/ j # h) => handle'[q][j].head = handle[q][j].head
         /\ HeadsAll(prog, h, r, handle'[r][h].head) /\ FixedOK(prog, h, r, handle'[r][h].head)
<1>0. prog \in Setups /\ HostInv /\ HandlesInv /\ HeadsInv /\ HeadDomainInv
  BY DataParts
<1>1. /\ k \in DOMAIN prog /\ k \in Nat \ {0}
      /\ \A j \in DOMAIN prog : Opens(r, j) \/ j < k => Dones(r, j) /\ Starts(r, j)
  BY <1>0, StartPhases
<1>3. h \in DOMAIN prog /\ prog[h].kind = "dispatch" /\ h < k /\ h \in Nat
  BY <1>0, <1>1, HomeFacts, ProgramFacts, CallNumbers DEF Combines
<1> DEFINE n == Len(RowsOf(prog, k, r))
           old == handle[r][h].head
           new == FixHeads(k, n, old)
<1>5. HeadsAll(prog, h, r, old)
  BY <1>1, <1>3, <1>0 DEF NextTok, HeadsInv, HeadDomainInv, HeadsAll, Dispatches, AnyDispatch
<1>6. handle' = WithHead(r, h, new)
  BY Bridge DEF Combines, Now, StartNotify, WithHead
<1> HIDE DEF old, new, n
<1> QED BY <1>1, <1>3, <1>0, <1>5, HeadsShared, HeadsFixed, <1>6, HeadSet DEF new, n, Dispatches, AnyDispatch,
   StartNotify

\* The start of a combine's notify kernel, with the heads it fixes, keeps all of it.
LEMMA StartNotifyCombine ==
  ASSUME Shape, DataInv, NEW r \in Ranks, NEW k, k = CallOf(r), StartNotify(r), Combines(prog, k)
  PROVE  DataInv'
<1> DEFINE h == HomeOf(prog, k)
<1>0. prog \in Setups /\ HostInv /\ HeadsInv /\ HeadDomainInv /\ FixedInv /\ EmptyInv /\ PrefixInv
  BY DataParts
<1>1. /\ RunPhases
      /\ \A q \in Ranks, j \in DOMAIN prog : (q # r \/ j # k) => Opens(q, j)' = Opens(q, j)
  BY <1>0, StartPhases
<1>2. prog' = prog /\ Threadless
  BY DEF StartNotify, queueVars, Threadless
<1>3. /\ k \in DOMAIN prog /\ h \in DOMAIN prog /\ Dispatches(prog, h) /\ Starts(r, h) /\ Dones(r, h)
      /\ HandlesInv' /\ KeepNums /\ KeepPrefix /\ KeepTensor /\ KeepChannel /\ KeepRecv /\ KeepSums
      /\ \A q \in Ranks, j \in DOMAIN prog : (q # r \/ j # h) => handle'[q][j].head = handle[q][j].head
      /\ HeadsAll(prog, h, r, handle'[r][h].head) /\ FixedOK(prog, h, r, handle'[r][h].head)
  BY CombineNotifyFacts
<1>4. PrefixInv'
  BY <1>1, <1>0, <1>2, <1>3 DEF Combines, PrefixInv, KeepPrefix
<1> HIDE DEF h
<1>5. EmptyInv'
  BY <1>0, <1>1, <1>3 DEF RunPhases, EmptyInv, KeepRecv, KeepChannel, KeepSums
<1>7. HeadsInv'
  BY <1>3, <1>0, <1>2, <1>1 DEF NextTok, HeadsAll, HeadsInv, RunPhases, Threadless
<1>8. HeadDomainInv'
  BY <1>3, <1>0, <1>2 DEF HeadsAll, HeadDomainInv
<1>9. FixedInv'
  BY <1>0, HomeFacts, <1>3, HeadsShared, <1>1, <1>2 DEF h, FixedInv
<1> QED BY <1>4, <1>5, <1>7, <1>8, <1>9, <1>3, StartFrame DEF DataInv, TypesInv, NotifyInv, TravelInv,
   ComebackInv

-----------------------------------------------------------------------------
(* The notify kernels: the counts are told.                                *)

LEMMA WriteFacts ==
  ASSUME Shape, Together, DataInv, NEW r \in Ranks, NEW k, k = CallOf(r), WriteCounts(r)
  PROVE  /\ k \in DOMAIN prog /\ k \in Nat \ {0} /\ prog[k].kind = "dispatch" /\ RunPhases
         /\ \A q \in Ranks, j \in Nat \ {0} : Cleaned(kernels'[q], stage'[q], j) <=> Cleaned(kernels[q], stage[q], j)
         /\ \A q \in Ranks, j \in DOMAIN prog : /\ Opens(q, j)' = Opens(q, j)
                                                /\ Cleans(q, j)' = Cleans(q, j) /\ Lives(q, j)' = Lives(q, j)
         /\ \A q \in Ranks, j \in DOMAIN prog : (q # r \/ j # k) => Writes(q, j)' = Writes(q, j)
         /\ \A q \in Ranks, j \in DOMAIN prog : ~Lives(q, j) /\ ~Works(q, j)
         /\ \A q, d \in Ranks, j \in DOMAIN prog : Writes(q, j) /\ ~Cleans(d, j) => j = k
         /\ \A q \in Ranks \ {r} : stage'[q] = stage[q]
         /\ kernels' = kernels /\ stage'[r] = "exchange" /\ stage[r] = "write"
<1>1. /\ stage[r] = "write" /\ prog' = prog /\ kernels' = kernels /\ stage' = [stage EXCEPT ![r] = "exchange"]
  BY DEF WriteCounts
<1>2. k \in DOMAIN prog /\ k \in Nat \ {0} /\ kernels[r] = 2 * k - 2
  BY DataParts, <1>1, Underway DEF Shape, Notifying
<1>3. prog[k].kind = "dispatch"
  BY <1>1 DEF Shape, Now
<1>4. stage'[r] = "exchange" /\ \A q \in Ranks \ {r} : stage'[q] = stage[q]
  BY <1>1 DEF Shape
<1>5. \A j \in DOMAIN prog : j \in Nat \ {0}
  BY DataParts, CallNumbers
<1>7. ASSUME NEW q \in Ranks, NEW j \in DOMAIN prog
      PROVE  /\ Starts(q, j)' = Starts(q, j) /\ Works(q, j)' = Works(q, j) /\ Dones(q, j)' = Dones(q, j)
             /\ Cleans(q, j)' = Cleans(q, j) /\ Lives(q, j)' = Lives(q, j) /\ Opens(q, j)' = Opens(q, j)
             /\ (q # r \/ j # k) => Writes(q, j)' = Writes(q, j)
  <2>2. Cleans(q, j)' = Cleans(q, j) /\ Lives(q, j)' = Lives(q, j) /\ Opens(q, j)' = Opens(q, j)
    BY <1>1, <1>4 DEF Cleans, Cleaned, Lives, Live, Done, Opens, Opened
  <2> QED BY <1>1, <1>4, <2>2, <1>2, <1>5 DEF Starts, Started, Works, Running, Dones, Done, Writes, Wrote
<1>9. /\ \A q \in Ranks, j \in Nat \ {0} : j < k => Dones(q, j) /\ Cleans(q, j)
      /\ \A q \in Ranks, j \in Nat \ {0} : j > k => ~Cleans(q, j) /\ ~Writes(q, j)
      /\ \A q \in Ranks, j \in Nat \ {0} : j >= k => ~Starts(q, j) /\ ~Dones(q, j)
      /\ \A q \in Ranks, j \in Nat \ {0} : Lives(q, j) => j = k
      /\ \A q \in Ranks : ~Cleans(q, k)
  BY <1>1, <1>2, <1>3, NotifyApart
<1>10. ASSUME NEW q \in Ranks, NEW j \in DOMAIN prog
       PROVE  ~Lives(q, j) /\ ~Works(q, j)
  BY <1>5, <1>2, <1>9 DEF Lives, Live, Cleans, Shape, Works, Running, Starts, Started, Dones, Done
<1> QED BY <1>1, <1>2, <1>3, <1>4, <1>7, <1>10, <1>5, <1>9 DEF Cleaned, RunPhases

\* Cells g tell rank d how many tokens of rank r will come, for it and for its experts.
Tells(k, r, d, g) ==
  /\ \A a \in DOMAIN g : g[a] \in Cell /\ a \in Addresses /\ (a = r * NumRanks + d \/ \E e \in LocalExperts : a = ExpertAt(r, e))
  /\ r * NumRanks + d \in DOMAIN g /\ g[r * NumRanks + d].int = Cardinality(RoutedTo(prog, k, r, d))
  /\ \A e \in LocalExperts :
       /\ ExpertAt(r, e) \in DOMAIN g
       /\ g[ExpertAt(r, e)].int = Cardinality(TokensToExpert(RowsOf(prog, k, r), d * NumExpertsPerRank + e))

\* What a rank tells another of its counts.
LEMMA Told ==
  ASSUME prog \in Setups, NEW r \in Ranks, NEW k \in DOMAIN prog, NEW d \in Ranks, NEW g,
         g = Put([a \in {r * NumRanks + d} |-> Word(Cardinality(TokensToRank(RowsOf(prog, k, r), d)))],
                 [a \in {ExpertAt(r, e) : e \in LocalExperts} |->
                    Word(Cardinality(TokensToExpert(RowsOf(prog, k, r), d * NumExpertsPerRank + a - ExpertAt(r, 0))))])
  PROVE  Tells(k, r, d, g)
<1> DEFINE x == r * NumRanks + d
           E == {ExpertAt(r, e) : e \in LocalExperts}
           rows == RowsOf(prog, k, r)
           fx == [a \in {x} |-> Word(Cardinality(TokensToRank(rows, d)))]
           fe == [a \in E |-> Word(Cardinality(TokensToExpert(rows, d * NumExpertsPerRank + a - ExpertAt(r, 0))))]
<1>3. x \notin E
  BY CountCells
<1>4. ASSUME NEW e \in LocalExperts
      PROVE  d * NumExpertsPerRank + ExpertAt(r, e) - ExpertAt(r, 0) = d * NumExpertsPerRank + e
  BY SizesAssumption, RanksFinite, CountCells DEF LocalExperts, ExpertAt
<1>5. \A v : IsFiniteSet(TokensToExpert(rows, v)) /\ Cardinality(TokensToExpert(rows, v)) \in Nat
  <2> TAKE v
  <2>2. IsFiniteSet(1 .. Len(rows))
    <3> DEFINE n == Len(rows)
    <3>1. n \in Int
      BY RowsFacts
    <3> HIDE DEF n
    <3> QED BY <3>1, FS_Interval DEF n
  <2> QED BY <2>2, RowsFacts, FS_Subset, FS_CardinalityType DEF TokensToExpert
<1>8. g = Put(fx, fe)
  OBVIOUS
<1>9. DOMAIN fx = {x} /\ DOMAIN fe = E
  OBVIOUS
<1>10. fx[x].int = Cardinality(RoutedTo(prog, k, r, d)) /\ fx[x] \in Cell
  BY RoutedFacts, SizesAssumption, Words DEF RoutedTo, Ranks
<1>11. \A e \in LocalExperts : /\ fe[ExpertAt(r, e)] = Word(Cardinality(TokensToExpert(rows, d * NumExpertsPerRank + e)))
  BY <1>4
<1> HIDE DEF fx, fe
<1>13. /\ DOMAIN g = {x} \cup E
       /\ \A a \in DOMAIN g : g[a] = IF a \in E THEN fe[a] ELSE fx[a]
  BY <1>8, <1>9 DEF Put
<1> HIDE DEF x, rows
<1> QED BY <1>10, <1>5, SizesAssumption, Words, <1>11, <1>3, <1>13, CellsIn DEF Tells, x, rows, Ranks

\* The telling of the counts keeps all of it.
LEMMA WriteStep ==
  ASSUME Shape, Together, DataInv, NEW r \in Ranks, NEW k, k = CallOf(r), WriteCounts(r)
  PROVE  DataInv'
<1>0. /\ prog \in Setups /\ HostInv /\ NumsInv /\ MemInv /\ HandlesInv /\ PrefixInv /\ CountsInv /\ TensorInv /\ FixedInv
  BY DataParts
<1>1. /\ k \in DOMAIN prog /\ k \in Nat \ {0} /\ prog[k].kind = "dispatch" /\ RunPhases
      /\ \A q \in Ranks, j \in Nat \ {0} : Cleaned(kernels'[q], stage'[q], j) <=> Cleaned(kernels[q], stage[q], j)
      /\ \A q \in Ranks, j \in DOMAIN prog : /\ Opens(q, j)' = Opens(q, j)
                                             /\ Cleans(q, j)' = Cleans(q, j) /\ Lives(q, j)' = Lives(q, j)
      /\ \A q \in Ranks, j \in DOMAIN prog : (q # r \/ j # k) => Writes(q, j)' = Writes(q, j)
      /\ \A q \in Ranks, j \in DOMAIN prog : ~Lives(q, j) /\ ~Works(q, j)
      /\ \A q, d \in Ranks, j \in DOMAIN prog : Writes(q, j) /\ ~Cleans(d, j) => j = k
      /\ \A q \in Ranks \ {r} : stage'[q] = stage[q]
      /\ kernels' = kernels /\ stage'[r] = "exchange" /\ stage[r] = "write"
  BY WriteFacts
<1>2. /\ prog' = prog /\ call' = call /\ polling' = polling /\ counter' = counter /\ handle' = handle /\ Threadless
  BY DEF WriteCounts, hostVars, queueVars, Threadless
<1> DEFINE new(d) == Put([a \in {r * NumRanks + d} |-> Word(Cardinality(TokensToRank(RowsOf(prog, k, r), d)))],
                         [a \in {ExpertAt(r, e) : e \in LocalExperts} |->
                            Word(Cardinality(TokensToExpert(RowsOf(prog, k, r), d * NumExpertsPerRank + a - ExpertAt(r, 0))))])
<1>3. mem' = [d \in Ranks |-> Put(mem[d], new(d))]
  BY DEF WriteCounts, Rows, RowsOf, Home, HomeOf, Source, SourceOf
<1>4. \A d \in Ranks : Tells(k, r, d, new(d))
  BY <1>0, <1>1, Told
<1> HIDE DEF new
<1>5. \A d \in Ranks : /\ mem'[d] \in [Addresses -> Cell]
                       /\ \A a \in Addresses : mem'[d][a] = IF a \in DOMAIN new(d) THEN new(d)[a] ELSE mem[d][a]
  BY <1>0, <1>3, <1>4 DEF MemInv, Tells, Put
<1>6. MemInv'
  BY <1>2, <1>3, <1>5 DEF Cell, ItemSet, Addresses, Calls, Cells, Base, NumWords, MemInv
<1>7. CountsInv'
  BY <1>0, <1>1, CellsIn, <1>4, <1>5, CountCells, <1>2 DEF Tells, CountsOK, CountsInv
<1>8. MatrixInv' /\ QueueInv' /\ BackInv'
  BY <1>1, <1>2 DEF MatrixInv, QueueInv, BackInv
<1>10. TensorInv' /\ PrefixInv' /\ FixedInv'
  BY <1>0, <1>1, <1>2 DEF TensorInv, PrefixInv, FixedInv
<1>11. HostInv'
  BY <1>0, <1>1, HostKept, <1>2 DEF HostInv, HostOK
<1>12. NumsInv' /\ HandlesInv'
  BY <1>0, <1>2, KeepAll, NumsFrame, HandlesFrame DEF KeepHandles
<1>13. /\ prog' \in Setups /\ QueuesInv' /\ ItemsInv' /\ SenderInv' /\ ReceiverInv' /\ TakenInv' /\ OffsetInv' /\ RecvInv'
       /\ ReturnInv' /\ WarpInv' /\ AddedInv' /\ UpdaterInv' /\ SumsInv'
       /\ EmptyInv' /\ HeadsInv' /\ HeadDomainInv'
  BY <1>1, <1>2, KeepAll, NotifyFrame DEF KeepHandles
<1> QED BY <1>6, <1>7, <1>8, <1>10, <1>11, <1>12, <1>13 DEF DataInv, TypesInv, NotifyInv, TravelInv, ComebackInv

-----------------------------------------------------------------------------
(* The notify kernels: words are cleaned for the kernel that follows.      *)

Closes(r) == stage[r] = "clean" /\ prog' = prog /\ kernels' = kernels /\ stage' = [stage EXCEPT ![r] = "close"]

LEMMA CleanFacts ==
  ASSUME Shape, Together, prog \in Setups, HostInv, NEW r \in Ranks, NEW k, k = CallOf(r), Closes(r)
  PROVE  /\ k \in DOMAIN prog /\ k \in Nat \ {0} /\ kernels[r] = 2 * k - 2 /\ RunPhases
         /\ k <= call[r] /\ stage'[r] = "close" /\ \A q \in Ranks \ {r} : stage'[q] = stage[q]
         /\ \A q \in Ranks, j \in DOMAIN prog : /\ Opens(q, j)' = Opens(q, j) /\ Writes(q, j)' = Writes(q, j)
                                                /\ (q # r \/ j # k) => Cleans(q, j)' = Cleans(q, j) /\ Lives(q, j)' = Lives(q, j)
         /\ Cleans(r, k)' /\ Lives(r, k)' /\ ~Cleans(r, k)
         /\ \A q \in Ranks, j \in DOMAIN prog : ~Works(q, j)
         /\ \A q \in Ranks : ~Starts(q, k) /\ ~Dones(q, k)
         /\ \A q \in Ranks, j \in DOMAIN prog : Lives(q, j)' => j = k
         /\ \A q \in Ranks, j \in DOMAIN prog : j < k => Cleans(q, j)
         /\ \A q, d \in Ranks, j \in DOMAIN prog : Writes(q, j) /\ ~Cleans(d, j) => j = k
         /\ prog[k].kind = "dispatch" => \A q \in Ranks : Writes(q, k)
<1>1. /\ stage[r] = "clean" /\ prog' = prog /\ kernels' = kernels /\ stage' = [stage EXCEPT ![r] = "close"]
  BY DEF Closes
<1>2. k \in DOMAIN prog /\ k \in Nat \ {0} /\ kernels[r] = 2 * k - 2 /\ k <= call[r]
  BY <1>1, Underway DEF Shape, Notifying
<1>3. stage'[r] = "close" /\ \A q \in Ranks \ {r} : stage'[q] = stage[q]
  BY <1>1 DEF Shape
<1>4. \A j \in DOMAIN prog : j \in Nat \ {0}
  BY CallNumbers
<1>6. ASSUME NEW q \in Ranks, NEW j \in DOMAIN prog
      PROVE  /\ Starts(q, j)' = Starts(q, j) /\ Works(q, j)' = Works(q, j) /\ Dones(q, j)' = Dones(q, j)
             /\ Opens(q, j)' = Opens(q, j) /\ Writes(q, j)' = Writes(q, j)
             /\ (q # r \/ j # k) => Cleans(q, j)' = Cleans(q, j) /\ Lives(q, j)' = Lives(q, j)
  <2>3. (q # r \/ j # k) => Cleans(q, j)' = Cleans(q, j)
    BY <1>1, <1>2, <1>3, <1>4 DEF Cleans, Cleaned
  <2>4. (q # r \/ j # k) => Lives(q, j)' = Lives(q, j)
    BY <1>1, <1>2, <1>3, <1>4 DEF Lives, Live, Cleaned, Done
  <2> QED BY <1>1, <1>3, <2>3, <2>4 DEF Starts, Started, Works, Running, Dones, Done, Opens, Opened, Writes,
     Wrote
<1>10. \A q \in Ranks, j \in DOMAIN prog : ~Works(q, j)
  BY <1>4, <1>2, <1>1, NotifyApart DEF Works, Running, Starts, Started, Dones, Done, Shape
<1> QED BY <1>2, <1>3, <1>6, <1>1, NotifyApart, <1>10, <1>4 DEF Cleans, Cleaned, Lives, Live, Done, RunPhases

\* What the memory m of rank r is like once the words of call k are clean.
WordsClean(k, r, m) ==
  /\ m \in [Addresses -> Cell]
  /\ \A c \in ChannelsOf(prog, k), s \in Ranks : \A n \in FieldsOf(prog, k) : m[FieldOf(prog, k, n, c, s)].int = 0
  /\ Dispatches(prog, k) => MatrixOK(prog, k, r, m)

\* Zeroed words are queues that are cleaned.
LEMMA ZerosClean ==
  ASSUME prog \in Setups, NEW k \in DOMAIN prog, NEW m \in [Addresses -> Cell], NEW m2,
         m2 = Put(m, Zeros(BaseOf(prog, k), NumWordsOf(prog, k)))
  PROVE  /\ m2 \in [Addresses -> Cell]
         /\ \A c \in ChannelsOf(prog, k), s \in Ranks : \A n \in FieldsOf(prog, k) : m2[FieldOf(prog, k, n, c, s)].int = 0
         /\ Dispatches(prog, k) => \A a \in 0 .. NumCells - 1 : m2[a] = m[a]
<1> DEFINE b == BaseOf(prog, k)
           w == NumWordsOf(prog, k)
           z == Zeros(b, w)
<1>1. b \in Nat /\ w \in Nat /\ \A a \in b .. b + w - 1 : a \in Addresses
  <2>0. 0 \in Ranks
    BY SizesAssumption DEF Ranks
  <2>1. 0 \in ChannelsOf(prog, k)
    <3>1. prog[k].channels \in Nat \ {0}
      BY ProgramFacts
    <3> QED BY <3>1 DEF ChannelsOf
  <2>2. b \in Nat /\ w \in Nat
    BY <2>0, <2>1, FieldFacts DEF FieldsOf
  <2>3. SlotOf(prog, k, 0, 0, 0) \in Nat /\ SlotOf(prog, k, 0, 0, 0) >= b + w /\ SlotOf(prog, k, 0, 0, 0) < CellsOf(prog, k)
        /\ CellsOf(prog, k) \in Nat
    BY <2>0, <2>1, SlotFacts
  <2> HIDE DEF b, w
  <2> QED BY <2>2, AddressFacts, <2>3
<1>2. DOMAIN z = b .. b + w - 1 /\ \A a \in b .. b + w - 1 : z[a] = Word(0)
  BY DEF Zeros
<1> HIDE DEF z
<1>4. m2 = Put(m, z)
  BY DEF z
<1> HIDE DEF b, w
<1>5. /\ m2 \in [Addresses -> Cell]
      /\ \A a \in Addresses : m2[a] = IF a \in b .. b + w - 1 THEN Word(0) ELSE m[a]
  BY <1>1, <1>2, SizesAssumption, Words, <1>4 DEF Put, Ranks
<1>6. ASSUME NEW c \in ChannelsOf(prog, k), NEW s \in Ranks, NEW n \in FieldsOf(prog, k)
      PROVE  m2[FieldOf(prog, k, n, c, s)].int = 0
  BY FieldFacts, <1>1, SizesAssumption, Words, <1>5 DEF b, w, Ranks
<1>7. ASSUME Dispatches(prog, k), NEW a \in 0 .. NumCells - 1
      PROVE  m2[a] = m[a]
  BY <1>7, CellsIn, <1>1, <1>5 DEF b, BaseOf, Dispatches, AnyDispatch
<1> QED BY <1>5, <1>6, <1>7

\* All that follows from the words being clean.
LEMMA CleanFrame ==
  ASSUME Shape, Together, DataInv, NEW r \in Ranks, NEW k, k = CallOf(r), Closes(r), Threadless,
         call' = call, polling' = polling, HostInv', HandlesInv', TensorInv',
         KeepNums, KeepPrefix, KeepChannel, KeepHead, KeepRecv, KeepSums,
         NEW m, WordsClean(k, r, m), mem' = [mem EXCEPT ![r] = m]
  PROVE  DataInv'
<1>0. /\ prog \in Setups /\ HostInv /\ NumsInv /\ MemInv /\ PrefixInv /\ CountsInv /\ MatrixInv /\ QueueInv /\ BackInv /\ FixedInv
  BY DataParts
<1>1. /\ k \in DOMAIN prog /\ k \in Nat \ {0} /\ RunPhases
      /\ \A q \in Ranks, j \in DOMAIN prog : /\ Opens(q, j)' = Opens(q, j) /\ Writes(q, j)' = Writes(q, j)
                                             /\ (q # r \/ j # k) => Cleans(q, j)' = Cleans(q, j) /\ Lives(q, j)' = Lives(q, j)
      /\ Cleans(r, k)' /\ Lives(r, k)' /\ ~Cleans(r, k)
      /\ \A q \in Ranks, j \in DOMAIN prog : ~Works(q, j)
      /\ \A q \in Ranks : ~Starts(q, k) /\ ~Dones(q, k)
      /\ \A q \in Ranks, j \in DOMAIN prog : Lives(q, j)' => j = k
      /\ \A q, d \in Ranks, j \in DOMAIN prog : Writes(q, j) /\ ~Cleans(d, j) => j = k
  BY <1>0, CleanFacts
<1>2. prog' = prog
  BY DEF Closes
<1>3. mem'[r] = m /\ \A q \in Ranks \ {r} : mem'[q] = mem[q]
  BY <1>0 DEF MemInv
<1>4. MemInv'
  BY <1>2, <1>0 DEF Cell, ItemSet, Addresses, Calls, Cells, Base, NumWords, WordsClean, MemInv
<1>5. /\ prog' \in Setups /\ QueuesInv' /\ ItemsInv' /\ SenderInv' /\ ReceiverInv' /\ TakenInv' /\ OffsetInv' /\ RecvInv'
      /\ ReturnInv' /\ WarpInv' /\ AddedInv' /\ UpdaterInv' /\ SumsInv'
      /\ EmptyInv' /\ HeadsInv' /\ HeadDomainInv'
  BY <1>1, NotifyFrame
<1>6. NumsInv'
  BY <1>0, <1>2, NumsFrame
<1>7. PrefixInv'
  BY <1>0, <1>1, <1>2 DEF PrefixInv, KeepPrefix
<1>8. CountsInv'
  BY <1>1, <1>0, <1>3, <1>2 DEF CountsInv
<1>9. MatrixInv'
  BY <1>1, <1>3, <1>0, <1>2 DEF WordsClean, MatrixInv
<1>11. QueueInv'
  <2>1. ASSUME NEW s \in Ranks, NEW d \in Ranks, NEW j \in DOMAIN prog, NEW c \in ChannelsOf(prog, j),
               Dispatches(prog, j), Lives(d, j)'
        PROVE  QueueOK(prog, j, s, d, c, Starts(s, j), NextTok(s, j, c, d), HeadNow(d, j, c, s), Releasing(s, j, c, d), mem'[d])
    <3>1. j = k
      BY <1>1, <2>1
    <3>2. CASE d = r
      <4>1. /\ Starts(s, k) = FALSE /\ NextTok(s, k, c, r) = Edge(prog, k, s, c)
            /\ HeadNow(r, k, c, s) = 0 /\ Releasing(s, k, c, r) = FALSE
        BY <1>1 DEF Starts, NextTok, HeadNow, Releasing
      <4>2. QueueOK(prog, k, s, r, c, FALSE, Edge(prog, k, s, c), 0, FALSE, m)
        BY <2>1, <3>1, <1>0, <1>1, QueueCleaned DEF WordsClean
      <4> QED BY <1>3, <3>1, <3>2, <4>1, <4>2
    <3>3. CASE d # r
      BY <1>1, <1>3, <2>1, <3>3, <1>0 DEF QueueInv
    <3> QED BY <3>2, <3>3
  <2> QED BY <1>2, <1>1, <2>1 DEF QueueInv, RunPhases, Threadless, NextTok, SentBack, Releasing, HeadNow
<1>12. BackInv'
  BY <1>1, <1>0, BackCleaned, <1>3, <1>2 DEF SentBack, WordsClean, BackInv, KeepSums, RunPhases, Threadless,
     NextTok, Releasing, HeadNow
<1>13. FixedInv'
  BY <1>0, HomeFacts, <1>1, <1>2 DEF FixedInv, KeepHead
<1> QED BY <1>4, <1>5, <1>6, <1>7, <1>8, <1>9, <1>11, <1>12, <1>13 DEF DataInv, TypesInv, NotifyInv, TravelInv, ComebackInv

LEMMA CellOf ==
  ASSUME NEW a \in 0 .. NumCells - 1
  PROVE  a \div NumRanks \in Ranks /\ a % NumRanks \in Ranks /\ a \in Nat
BY SizesAssumption, TimesMonotone DEF NumCells, Ranks

\* The sums of the counts, over the ranks, are where the tokens of each rank begin.
LEMMA MatrixRight ==
  ASSUME prog \in Setups, NEW r \in Ranks, NEW k \in DOMAIN prog, NEW m \in [Addresses -> Cell],
         \A s \in Ranks : CountsOK(prog, k, s, r, m)
  PROVE  /\ PrefixMatrix(m) \in [0 .. NumCells - 1 -> Cell]
         /\ MatrixOK(prog, k, r, PrefixMatrix(m))
<1> DEFINE f(x) == [i \in Ranks |-> m[i * NumRanks + x].int]
<1>1. \A x \in Ranks : \A i \in Ranks : f(x)[i] \in Int
  BY CellsIn DEF Cell
<1>2. \A i \in Ranks : i \in Nat /\ i + 1 \in Nat /\ IsFiniteSet(0 .. i) /\ 0 .. i \subseteq Ranks /\ (i + 1) - 1 = i
  <2> TAKE i \in Ranks
  <2>2. IsFiniteSet(0 .. i)
    BY RanksFinite, FS_Interval
  <2> QED BY RanksFinite, <2>2 DEF Ranks
<1>3. \A n \in Int : Word(n) \in Cell /\ Word(n).int = n
  BY SizesAssumption, Words DEF Ranks
<1>4. PrefixMatrix(m) = [a \in 0 .. NumCells - 1 |-> Word(Sum(f(a % NumRanks), 0 .. a \div NumRanks))]
  BY DEF PrefixMatrix
<1> HIDE DEF f
<1>6. PrefixMatrix(m) \in [0 .. NumCells - 1 -> Cell]
  BY CellOf, <1>1, <1>2, SumInt, <1>3, <1>4
<1>7. ASSUME NEW i \in Ranks
      PROVE  PrefixMatrix(m)[i * NumRanks + r].int = Pre(prog, k, i + 1, r)
  <2>2. PrefixMatrix(m)[i * NumRanks + r] = Word(Sum(f(r), 0 .. i))
    BY <1>4, CountCells
  <2> DEFINE g == [j \in Ranks |-> Cardinality(RoutedTo(prog, k, j, r))]
  <2>4. \A j \in 0 .. i : f(r)[j] = g[j] /\ f(r)[j] \in Int
    BY <1>2, <1>1 DEF CountsOK, f
  <2> HIDE DEF g
  <2>5. Sum(f(r), 0 .. i) = Sum(g, 0 .. i)
    BY <1>2, <2>4, SumCong
  <2> QED BY <1>3, <1>1, <1>2, SumInt, <2>2, <2>5 DEF Pre, g
<1> QED BY <1>6, <1>7 DEF MatrixOK

LEMMA CounterTyped ==
  ASSUME NEW p \in Setups, NEW k \in DOMAIN p, NEW r \in Ranks
  PROVE  RightCounter(p, k, r) \in [n : Int, e : [LocalExperts -> Int]]
<1>1. Pre(p, k, NumRanks, r) \in Int
  <2>1. Pre(p, k, NumRanks, r) \in Nat
    BY RowFacts
  <2> QED BY <2>1
<1>2. ASSUME NEW e \in LocalExperts
      PROVE  Align(Sum([s \in Ranks |-> Cardinality(TokensToExpert(RowsOf(p, k, s), r * NumExpertsPerRank + e))], Ranks)) \in Int
  <2> DEFINE x == r * NumExpertsPerRank + e
             f == [s \in Ranks |-> Cardinality(TokensToExpert(RowsOf(p, k, s), x))]
             n == Sum(f, Ranks)
  <2>1. \A s \in Ranks : f[s] \in Int
    BY RowsFacts, FS_Interval, FS_Subset, FS_CardinalityType DEF TokensToExpert
  <2> HIDE DEF f
  <2> HIDE DEF n
  <2> QED BY SizesAssumption, <2>1, RanksFinite, SumInt DEF n, f, x, Align, CeilDiv
<1> QED BY <1>1, <1>2 DEF RightCounter

LEMMA HostCleaned ==
  ASSUME NEW p \in Setups, NEW r \in Ranks, NEW cl, NEW po, NEW ctr, NEW ctr2, NEW n \in Nat, NEW k \in Nat \ {0}, n = 2 * k - 2,
         HostOK(p, r, cl, po, ctr, n, "clean"), ctr2 \in [n : Int, e : [LocalExperts -> Int]],
         po => (IF cl = k THEN ctr2 = RightCounter(p, k, r) ELSE ctr2 = ctr)
  PROVE  HostOK(p, r, cl, po, ctr2, n, "close")
<1>5. cl \in Nat
  BY ProgramsAssumption DEF HostOK
<1> QED BY <1>5 DEF HostOK, Cleaned

\* Every rank has a host.
HostShape == DOMAIN call = Ranks /\ DOMAIN polling = Ranks /\ DOMAIN counter = Ranks

\* Adding up the counts and cleaning the words behind them keeps all of it.
LEMMA CollectStep ==
  ASSUME Shape, Together, HostShape, DataInv, NEW r \in Ranks, NEW k, k = CallOf(r), Collect(r)
  PROVE  DataInv'
<1>0. /\ prog \in Setups /\ HostInv /\ MemInv /\ HandlesInv /\ CountsInv /\ TensorInv
  BY DataParts
<1>1. Closes(r) /\ Threadless /\ call' = call /\ polling' = polling /\ prog' = prog
  BY DEF Collect, Closes, Threadless, queueVars
<1>2. /\ k \in DOMAIN prog /\ k \in Nat \ {0} /\ kernels[r] = 2 * k - 2 /\ RunPhases
      /\ k <= call[r] /\ stage'[r] = "close" /\ \A q \in Ranks \ {r} : stage'[q] = stage[q]
      /\ \A q \in Ranks, j \in DOMAIN prog : (q # r \/ j # k) => Cleans(q, j)' = Cleans(q, j)
      /\ Cleans(r, k)' /\ ~Cleans(r, k)
      /\ prog[k].kind = "dispatch" => \A q \in Ranks : Writes(q, k)
  BY <1>0, <1>1, CleanFacts
<1>3. prog[k].kind = "dispatch" /\ Dispatches(prog, k) /\ stage[r] = "clean" /\ BaseOf(prog, k) = NumCells
  BY DEF Collect, Now, Dispatches, AnyDispatch, BaseOf
<1> DEFINE mat == PrefixMatrix(mem[r])
           m1 == Put(mem[r], mat)
           m2 == Put(m1, Zeros(BaseOf(prog, k), NumWordsOf(prog, k)))
           ctr == [n |-> mat[(NumRanks - 1) * NumRanks + r].int,
                   e |-> [e \in LocalExperts |->
                            Align(Sum([s \in Ranks |-> mem[r][ExpertAt(s, e)].int], Ranks))]]
<1>4. mem' = [mem EXCEPT ![r] = m2]
  BY Bridge, <1>3 DEF Collect
<1>5. counter' = [counter EXCEPT ![r] = ctr] /\ handle' = WithTensor(r, k, mat)
  BY DEF Collect, WithTensor
<1>8. mat \in [0 .. NumCells - 1 -> Cell] /\ MatrixOK(prog, k, r, mat)
  BY <1>0, <1>2, <1>3, MatrixRight DEF CountsInv, MemInv
<1>9. ctr = RightCounter(prog, k, r)
  <2>1. mat[(NumRanks - 1) * NumRanks + r].int = Pre(prog, k, NumRanks, r)
    <3>1. NumRanks - 1 \in Ranks /\ (NumRanks - 1) + 1 = NumRanks
      BY SizesAssumption DEF Ranks
    <3> QED BY <3>1, <1>8 DEF MatrixOK
  <2>2. ASSUME NEW e \in LocalExperts
        PROVE  [s \in Ranks |-> mem[r][ExpertAt(s, e)].int]
                 = [s \in Ranks |-> Cardinality(TokensToExpert(RowsOf(prog, k, s), r * NumExpertsPerRank + e))]
    BY <1>0, <1>2, <1>3 DEF CountsOK, CountsInv
  <2> HIDE DEF mat
  <2> QED BY <2>1, <2>2 DEF RightCounter
<1> HIDE DEF mat, ctr
<1>10. WordsClean(k, r, m2)
  <2>1. m1 \in [Addresses -> Cell] /\ \A a \in 0 .. NumCells - 1 : m1[a] = mat[a]
    BY <1>0, <1>2, CellsIn, <1>8 DEF Put, MemInv
  <2> HIDE DEF m1
  <2>2. /\ m2 \in [Addresses -> Cell]
        /\ \A c \in ChannelsOf(prog, k), s \in Ranks : \A n \in FieldsOf(prog, k) : m2[FieldOf(prog, k, n, c, s)].int = 0
        /\ Dispatches(prog, k) => \A a \in 0 .. NumCells - 1 : m2[a] = m1[a]
    BY <1>0, <1>2, <2>1, ZerosClean
  <2> HIDE DEF m2
  <2> QED BY <2>2, CountCells, <1>3, <1>8, <2>1 DEF WordsClean, MatrixOK
<1> HIDE DEF m2
<1>12. TensorInv'
  <2>1. ASSUME NEW d \in Ranks, NEW j \in DOMAIN prog, prog[j].kind = "dispatch", Cleans(d, j)'
        PROVE  /\ handle'[d][j].rankPrefix \in [0 .. NumCells - 1 -> Cell]
               /\ MatrixOK(prog, j, d, handle'[d][j].rankPrefix)
    BY <1>8, <1>0, <1>1, <1>2, <1>5, TensorSet, <2>1 DEF TensorInv
  <2> QED BY <1>1, <2>1 DEF TensorInv, Cell, ItemSet
<1>13. HostInv'
  <2>1. ASSUME NEW q \in Ranks
        PROVE  HostOK(prog, q, call[q], polling[q], counter'[q], kernels[q], stage'[q])
    <3>1. HostOK(prog, q, call[q], polling[q], counter[q], kernels[q], stage[q])
      BY <1>0 DEF HostInv
    <3>2. CASE q # r
      BY <1>2, <3>2, <1>5, <3>1 DEF HostShape
    <3>3. CASE q = r
      <4>1. polling[r] => call[r] = k
        BY <3>1, <3>3, <1>0, <1>2, ProgramFacts, <1>3, OneModeAssumption DEF HostOK, Polls, Cleans
      <4> QED BY <1>2, <3>3, <1>0, <1>5, <1>9, CounterTyped, <1>3, <3>1, <4>1, HostCleaned DEF HostShape, Shape
    <3> QED BY <3>2, <3>3
  <2> QED BY <1>1, <2>1 DEF HostInv, Closes
<1> QED BY <1>1, <1>4, <1>10, <1>0, <1>2, <1>5, TensorSet, <1>12, <1>13, CleanFrame

\* The cleaning of a cached dispatch or a combine keeps all of it.
LEMMA CleanStep ==
  ASSUME Shape, Together, DataInv, NEW r \in Ranks, NEW k, k = CallOf(r), Clean(r)
  PROVE  DataInv'
<1>0. /\ prog \in Setups /\ HostInv /\ MemInv /\ HandlesInv /\ TensorInv
  BY DataParts
<1>1. Closes(r) /\ Threadless /\ call' = call /\ polling' = polling /\ prog' = prog /\ counter' = counter /\ handle' = handle
  BY DEF Clean, Closes, Threadless, queueVars, hostVars
<1>2. /\ k \in DOMAIN prog /\ k \in Nat \ {0} /\ kernels[r] = 2 * k - 2 /\ RunPhases
      /\ k <= call[r] /\ stage'[r] = "close" /\ \A q \in Ranks \ {r} : stage'[q] = stage[q]
      /\ \A q \in Ranks, j \in DOMAIN prog : (q # r \/ j # k) => Cleans(q, j)' = Cleans(q, j)
      /\ \A q \in Ranks, j \in DOMAIN prog : j < k => Cleans(q, j)
  BY <1>0, <1>1, CleanFacts
<1>3. prog[k].kind # "dispatch" /\ stage[r] = "clean" /\ Now(r) = prog[k]
  BY DEF Clean, Now
<1> DEFINE h == HomeOf(prog, k)
           m1 == IF prog[k].kind = "cached" THEN Put(mem[r], handle[r][h].rankPrefix) ELSE mem[r]
           m2 == Put(m1, Zeros(BaseOf(prog, k), NumWordsOf(prog, k)))
<1>4. mem' = [mem EXCEPT ![r] = m2]
  BY Bridge, <1>3 DEF Clean
<1>7. handle[r][h].rankPrefix \in [0 .. NumCells - 1 -> Cell] /\ MatrixOK(prog, h, r, handle[r][h].rankPrefix)
  BY <1>0, <1>2, <1>3, HomeFacts, ProgramFacts, CallNumbers DEF TensorInv
<1>8. MatrixOK(prog, k, r, handle[r][h].rankPrefix)
  BY <1>0, <1>2, SameRouting, <1>7 DEF MatrixOK
<1> HIDE DEF h
<1>9. /\ m1 \in [Addresses -> Cell]
      /\ prog[k].kind = "cached" => \A a \in 0 .. NumCells - 1 : m1[a] = handle[r][h].rankPrefix[a]
  BY <1>0, <1>2, CellsIn, <1>7 DEF Put, MemInv
<1> HIDE DEF m1
<1>10. WordsClean(k, r, m2)
  BY <1>0, <1>2, <1>9, ZerosClean, CountCells, <1>3, <1>8 DEF Dispatches, AnyDispatch, MatrixOK, WordsClean
<1> HIDE DEF m2
<1>13. HostInv'
  <2>1. ASSUME NEW q \in Ranks
        PROVE  HostOK(prog, q, call[q], polling[q], counter[q], kernels[q], stage'[q])
    <3>1. HostOK(prog, q, call[q], polling[q], counter[q], kernels[q], stage[q])
      BY <1>0 DEF HostInv
    <3>2. CASE q # r
      BY <1>2, <3>1, <3>2
    <3>3. CASE q = r
      <4>1. counter[r] \in [n : Int, e : [LocalExperts -> Int]] /\ (polling[r] => Polls(prog, call[r]))
        BY <3>1, <3>3 DEF HostOK
      <4> QED BY <1>2, <3>3, <1>0, <4>1, <1>3, <3>1, HostCleaned DEF Polls, Shape
    <3> QED BY <3>2, <3>3
  <2> QED BY <1>1, <2>1 DEF HostInv, Closes
<1> QED BY <1>1, <1>4, <1>10, <1>0, HandlesFrame, KeepAll, <1>2, <1>3, <1>13, CleanFrame DEF KeepHandles,
   TensorInv

-----------------------------------------------------------------------------
(* The host.                                                               *)

\* The next call to wait for.
LEMMA AheadFacts ==
  ASSUME prog \in Setups, NEW cl \in 0 .. Len(prog), NEW k, k = Ahead(cl)
  PROVE  /\ k \in cl .. Len(prog) /\ cl \in Nat /\ k \in Nat /\ Len(prog) \in Nat /\ DOMAIN prog = 1 .. Len(prog)
         /\ cl < Len(prog) => k > cl
         /\ \A j \in DOMAIN prog : Polls(prog, j) /\ j > cl /\ j <= k => j = k /\ cl < Len(prog) /\ Waits(k)
<1>1. Len(prog) \in Nat /\ DOMAIN prog = 1 .. Len(prog) /\ cl \in Nat
  BY ProgramsAssumption
<1> DEFINE S == {m \in cl + 1 .. Len(prog) : Waits(m)} \cup {Len(prog)}
<1> DEFINE n == Len(prog)
<1>0. n \in Nat /\ cl \in Nat /\ cl <= n
  BY <1>1
<1>2. \A m \in S : m \in Nat /\ m >= cl /\ m <= Len(prog) /\ (cl < Len(prog) => m > cl)
  BY <1>0
<1>3. Len(prog) \in S /\ S \subseteq Nat
  BY <1>2
<1>4. k = Min(S)
  BY DEF Ahead
<1>5. \A j \in DOMAIN prog : Polls(prog, j) /\ j > cl => j \in S /\ cl < Len(prog) /\ Waits(j)
  BY <1>1 DEF Polls, Waits
<1> HIDE DEF S
<1>7. k \in S /\ \A y \in S : k <= y
  BY <1>4, <1>3, LeastNumber DEF Min
<1> QED BY <1>1, <1>2, <1>7, <1>5

\* What the host allocates for a call.
NumOf(r, m) == IF polling[r] /\ m = call[r] THEN counter[r].n ELSE handle[r][m].num
AllocatedOf(r, m) ==
  IF prog[m].kind = "combine" THEN Len(Rows(m, r))
  ELSE IF Waits(Source(m)) THEN NumOf(r, Source(m)) ELSE prog[Source(m)].worst

LEMMA HostHandles ==
  ASSUME prog \in Setups, HandlesInv, NEW r \in Ranks, HostRun(r), NEW k, k = Ahead(call[r])
  PROVE  /\ HandlesInv' /\ KeepTensor /\ KeepPrefix /\ KeepHead /\ KeepRecv /\ KeepChannel /\ KeepSums
         /\ \A q \in Ranks \ {r}, j \in DOMAIN prog : handle'[q][j] = handle[q][j]
         /\ \A j \in DOMAIN prog :
              /\ j \in call[r] + 1 .. k => handle'[r][j].num = AllocatedOf(r, j)
              /\ j \notin call[r] + 1 .. k /\ polling[r] /\ j = call[r] =>
                   handle'[r][j].num = counter[r].n /\ handle'[r][j].experts = counter[r].e
              /\ j \notin call[r] + 1 .. k /\ ~(polling[r] /\ j = call[r]) => handle'[r][j] = handle[r][j]
<1> DEFINE calls == call[r] + 1 .. k
           New(j) == CASE j \in calls -> [handle[r][j] EXCEPT !.num = AllocatedOf(r, j)]
                       [] polling[r] /\ j = call[r] -> [handle[r][j] EXCEPT !.num = NumOf(r, j), !.experts = counter[r].e]
                       [] OTHER -> handle[r][j]
<1> DEFINE f == [j \in DOMAIN prog |->
                   CASE j \in call[r] + 1 .. Ahead(call[r]) ->
                          [handle[r][j] EXCEPT !.num =
                             IF prog[j].kind = "combine" THEN Len(Rows(j, r))
                             ELSE IF Waits(Source(j))
                                  THEN IF polling[r] /\ Source(j) = call[r] THEN counter[r].n ELSE handle[r][Source(j)].num
                                  ELSE prog[Source(j)].worst]
                     [] polling[r] /\ j = call[r] ->
                          [handle[r][j] EXCEPT !.num = IF polling[r] /\ j = call[r] THEN counter[r].n ELSE handle[r][j].num,
                                               !.experts = counter[r].e]
                     [] OTHER -> handle[r][j]]
<1>c. f = [j \in DOMAIN prog |-> New(j)]
  BY DEF AllocatedOf, NumOf
<1>1. prog' = prog /\ handle' = [handle EXCEPT ![r] = [j \in DOMAIN prog |-> New(j)]]
  BY <1>c DEF HostRun, Calls, HandlesInv
<1> HIDE DEF f
<1>3. /\ \A j \in DOMAIN prog : handle'[r][j] = New(j)
      /\ \A q \in Ranks \ {r} : handle'[q] = handle[q]
      /\ handle' = [q \in Ranks |-> [j \in DOMAIN prog |-> handle'[q][j]]]
  <2> HIDE DEF New
  <2> QED BY <1>1 DEF HandlesInv
<1>4. ASSUME NEW j \in DOMAIN prog
      PROVE  /\ HandleOK(New(j))
             /\ New(j).rankPrefix = handle[r][j].rankPrefix /\ New(j).channelPrefix = handle[r][j].channelPrefix
             /\ New(j).head = handle[r][j].head /\ New(j).recv = handle[r][j].recv
             /\ New(j).recvChannel = handle[r][j].recvChannel /\ New(j).sums = handle[r][j].sums
             /\ j \in calls => New(j).num = AllocatedOf(r, j)
             /\ j \notin calls /\ polling[r] /\ j = call[r] => New(j).num = counter[r].n /\ New(j).experts = counter[r].e
             /\ j \notin calls /\ ~(polling[r] /\ j = call[r]) => New(j) = handle[r][j]
  <2> DEFINE h == handle[r][j]
  <2>1. h = [num |-> h.num, experts |-> h.experts, rankPrefix |-> h.rankPrefix,
             channelPrefix |-> h.channelPrefix, recvChannel |-> h.recvChannel,
             head |-> h.head, recv |-> h.recv, sums |-> h.sums]
    BY DEF HandlesInv, HandleOK
  <2> HIDE DEF h
  <2>2. CASE j \in calls
    BY <2>2, <2>1 DEF h, HandleOK
  <2>3. CASE j \notin calls /\ polling[r] /\ j = call[r]
    BY <2>3, <2>1 DEF h, NumOf, HandleOK
  <2>4. CASE j \notin calls /\ ~(polling[r] /\ j = call[r])
    BY <2>4, <2>1 DEF h, HandleOK
  <2> QED BY <2>2, <2>3, <2>4
<1> HIDE DEF New
<1>5. HandlesInv'
  BY <1>3, <1>4, <1>1 DEF HandlesInv, HandleOK
<1> QED BY <1>3, <1>5, <1>4 DEF KeepTensor, KeepPrefix, KeepHead, KeepRecv, KeepChannel, KeepSums

\* The answer that the host was waiting for is there and right.
LEMMA Answered ==
  ASSUME HostInv, NEW r \in Ranks, polling[r], CountsThere(r)
  PROVE  /\ counter[r] = RightCounter(prog, call[r], r) /\ Cleaned(kernels[r], stage[r], call[r]) /\ Polls(prog, call[r])
BY DEF HostInv, HostOK, CountsThere, NoCount

\* The host goes on to the next call it has to wait for.
LEMMA HostState ==
  ASSUME Shape, HostShape, prog \in Setups, HostInv, NEW r \in Ranks, HostRun(r), NEW k, k = Ahead(call[r])
  PROVE  HostInv'
<1>1. /\ prog' = prog /\ kernels' = kernels /\ stage' = stage /\ CountsThere(r)
      /\ call'[r] = k /\ \A q \in Ranks \ {r} : call'[q] = call[q]
  BY DEF HostRun, HostShape
<1>4. /\ (\E m \in call[r] + 1 .. k : prog[m].kind = "dispatch") => counter'[r] = NoCount
      /\ counter'[r] = NoCount \/ counter'[r] = counter[r]
      /\ \A q \in Ranks \ {r} : counter'[q] = counter[q]
  BY DEF HostShape, HostRun
<1> DEFINE n == kernels[r]
           st == stage[r]
           cl == call[r]
           po == polling[r]
<1>5. /\ cl \in 0 .. Len(prog) /\ po \in BOOLEAN /\ counter[r] \in [n : Int, e : [LocalExperts -> Int]]
      /\ n <= EnqueuedBy(cl, po) /\ (st # "idle" => n < EnqueuedBy(cl, po))
      /\ \A j \in DOMAIN prog : Polls(prog, j) /\ j <= cl /\ (po => j < cl) => Cleaned(n, st, j)
  BY DEF HostInv, HostOK
<1>6. /\ k \in cl .. Len(prog) /\ cl \in Nat /\ k \in Nat /\ Len(prog) \in Nat /\ DOMAIN prog = 1 .. Len(prog)
      /\ cl < Len(prog) => k > cl
      /\ \A j \in DOMAIN prog : Polls(prog, j) /\ j > cl /\ j <= k => j = k /\ cl < Len(prog) /\ Waits(k)
  BY <1>5, AheadFacts
<1>7. n \in Nat
  BY DEF Shape
<1> DEFINE po2 == cl < Len(prog) /\ Waits(k)
<1>8. po2 \in BOOLEAN /\ polling'[r] = po2
  BY DEF HostRun, HostShape
<1> HIDE DEF n, st, cl, po, po2
<1>11. ASSUME po2
       PROVE  k >= 1 /\ Polls(prog, k) /\ counter'[r] = IF Cleaned(n, st, k) THEN RightCounter(prog, k, r) ELSE NoCount
  BY <1>6, <1>11, <1>4, <1>5, <1>7 DEF po2, Waits, Polls, cl, EnqueuedBy, Cleaned
<1>12. ASSUME NEW j \in DOMAIN prog, Polls(prog, j), j <= k, po2 => j < k
       PROVE  Cleaned(n, st, j)
  BY <1>6, <1>12, <1>1, Answered, <1>5 DEF po2, n, st, po, cl
<1>13. HostOK(prog, r, k, po2, counter'[r], n, st)
  BY <1>6, <1>4, <1>5, <1>7, <1>8, <1>11, <1>12 DEF HostOK, EnqueuedBy, po2, NoCount
<1>14. ASSUME NEW q \in Ranks
       PROVE  HostOK(prog, q, call'[q], polling'[q], counter'[q], kernels[q], stage[q])
  BY <1>1, <1>8, <1>13, <1>4 DEF n, st, HostInv, HostRun, HostShape
<1> QED BY <1>1, <1>14 DEF HostInv

\* The numbers that the host takes are those of the routing.
LEMMA HostNums ==
  ASSUME Shape, HostShape, prog \in Setups, HostInv, NumsInv, HandlesInv, NEW r \in Ranks, HostRun(r), NEW k, k = Ahead(call[r])
  PROVE  NumsInv'
<1> DEFINE cl == call[r]
           po == polling[r]
           po2 == cl < Len(prog) /\ Waits(k)
<1>1. /\ prog' = prog /\ CountsThere(r)
      /\ call'[r] = k /\ \A q \in Ranks \ {r} : call'[q] = call[q]
  BY DEF HostRun, HostShape
<1>2. polling'[r] = po2 /\ \A q \in Ranks \ {r} : polling'[q] = polling[q]
  BY DEF HostRun, HostShape
<1>4. /\ k \in cl .. Len(prog) /\ cl \in Nat /\ k \in Nat /\ Len(prog) \in Nat /\ DOMAIN prog = 1 .. Len(prog)
      /\ \A j \in DOMAIN prog : Polls(prog, j) /\ j > cl /\ j <= k => j = k /\ cl < Len(prog) /\ Waits(k)
  BY AheadFacts DEF HostInv, HostOK
<1>5. /\ \A q \in Ranks \ {r}, j \in DOMAIN prog : handle'[q][j] = handle[q][j]
      /\ \A j \in DOMAIN prog :
           /\ j \in cl + 1 .. k => handle'[r][j].num = AllocatedOf(r, j)
           /\ j \notin cl + 1 .. k /\ po /\ j = cl =>
                handle'[r][j].num = counter[r].n /\ handle'[r][j].experts = counter[r].e
           /\ j \notin cl + 1 .. k /\ ~(po /\ j = cl) => handle'[r][j] = handle[r][j]
  BY HostHandles
<1>6. po => counter[r] = RightCounter(prog, cl, r) /\ Polls(prog, cl)
  BY <1>1, Answered
<1>7. \A j \in DOMAIN prog : NumsOK(prog, r, cl, po, j, handle[r][j].num, handle[r][j].experts)
  BY DEF NumsInv
<1>8. \A m \in DOMAIN prog : NumOf(r, m) = IF po /\ m = cl THEN counter[r].n ELSE handle[r][m].num
  BY DEF NumOf
<1> HIDE DEF cl, po, po2
<1>9. ASSUME NEW j \in DOMAIN prog, j <= k
      PROVE  NumsOK(prog, r, k, po2, j, handle'[r][j].num, handle'[r][j].experts)
  <2>1. j \in Nat
    BY <1>4
  <2>2. ASSUME Polls(prog, j), po2 => j < k
        PROVE  j <= cl
    BY <1>4, <1>9, <2>1, <2>2 DEF po2
  <2>3. CASE j <= cl /\ ~(po /\ j = cl)
    BY <1>4, <1>5, <2>1, <2>3, <1>7 DEF NumsOK
  <2>4. CASE po /\ j = cl
    BY <1>4, <1>5, <2>1, <2>4, <1>6 DEF Polls, NumsOK
  <2>5. CASE j > cl
    <3>2. ASSUME prog[j].kind = "dispatch", ~Polls(prog, j)
          PROVE  handle'[r][j].num = prog[j].worst
      BY <3>2, <1>4, <1>5, <1>9, <2>1, <2>5 DEF Source, Waits, Polls, AllocatedOf
    <3>3. ASSUME prog[j].kind = "cached"
          PROVE  handle'[r][j].num \in Int /\ handle'[r][j].num >= Pre(prog, j, NumRanks, r)
      <4> DEFINE h == prog[j].of
      <4>1. Source(j) = h /\ h \in DOMAIN prog /\ h \in 1 .. j - 1 /\ h = HomeOf(prog, j) /\ prog[h].kind = "dispatch"
        BY <3>3, ProgramFacts, HomeFacts DEF Source
      <4>3. Pre(prog, h, NumRanks, r) \in Nat
        BY <4>1, RowFacts
      <4>5. CASE Waits(h)
        <5>3. NumOf(r, h) = RightCounter(prog, h, r).n
          BY <1>6, <1>8, <4>1, <1>4, <1>9, <2>1, <4>5, <1>7 DEF NumsOK, Waits, Polls
        <5> QED BY <4>1, SameRouting, <4>3, <1>4, <1>5, <1>9, <2>1, <2>5, <3>3, <4>5, <5>3 DEF RightCounter,
           AllocatedOf
      <4>6. CASE ~Waits(h)
        <5>3. prog[h].worst \in Nat
          BY <4>1, ProgramFacts
        <5> QED BY <4>1, SameRouting, <4>3, <1>4, <1>5, <1>9, <2>1, <2>5, <3>3, <4>6, WorstCovers, <5>3
           DEF Waits, AllocatedOf
      <4> QED BY <4>5, <4>6
    <3> QED BY <3>2, <3>3, <1>4, <2>1, <2>2, <2>5 DEF NumsOK
  <2> QED BY <1>4, <2>1, <2>3, <2>4, <2>5
<1>10. ASSUME NEW q \in Ranks, NEW j \in DOMAIN prog
       PROVE  NumsOK(prog, q, call'[q], polling'[q], j, handle'[q][j].num, handle'[q][j].experts)
  BY <1>1, <1>2, <1>9, <1>5 DEF NumsOK, NumsInv
<1> QED BY <1>1, <1>10 DEF NumsInv

\* A step of the host keeps all of it.
LEMMA HostStep ==
  ASSUME Shape, Together, HostShape, DataInv, NEW r \in Ranks, HostRun(r)
  PROVE  DataInv'
<1>0. /\ prog \in Setups /\ HostInv /\ NumsInv
      /\ MemInv /\ HandlesInv /\ QueuesInv /\ ItemsInv /\ EmptyInv
      /\ PrefixInv /\ CountsInv /\ MatrixInv /\ TensorInv
      /\ SenderInv /\ HeadsInv /\ HeadDomainInv /\ QueueInv /\ ReceiverInv /\ TakenInv /\ OffsetInv /\ RecvInv
      /\ FixedInv /\ ReturnInv /\ BackInv /\ WarpInv /\ AddedInv /\ UpdaterInv /\ SumsInv
  BY DataParts
<1>1. /\ prog' = prog /\ kernels' = kernels /\ stage' = stage /\ mem' = mem
      /\ sender' = sender /\ receiver' = receiver /\ warp' = warp /\ updater' = updater
  BY DEF HostRun, queueVars
<1>2. Still /\ SamePhases
  BY <1>1, StillSame DEF Still
<1>3. HandlesInv' /\ KeepTensor /\ KeepPrefix /\ KeepHead /\ KeepRecv /\ KeepChannel /\ KeepSums
  BY <1>0, HostHandles
<1>4. HostInv' /\ NumsInv'
  BY <1>0, HostState, HostNums
<1>5. MemInv' /\ ItemsInv' /\ HeadDomainInv' /\ QueuesInv' /\ EmptyInv'
  BY <1>0, <1>1, <1>2, <1>3, MemFrame, ItemsFrame, HeadDomainFrame, QueuesFrame, EmptyFrame
<1>6. NotifyInv'
  BY <1>0, <1>1, <1>2, <1>3, PrefixFrame, CountsFrame, MatrixFrame, TensorFrame DEF NotifyInv
<1>7. SenderInv' /\ HeadsInv' /\ QueueInv' /\ ReceiverInv'
  BY <1>0, <1>1, <1>2, <1>3, SenderFrame, HeadsFrame, QueueInvFrame, ReceiverFrame
<1>8. TakenInv' /\ OffsetInv' /\ RecvInv'
  BY <1>0, <1>1, <1>2, <1>3, TakenInvFrame, OffsetFrame, RecvFrame
<1>9. FixedInv' /\ ReturnInv' /\ BackInv' /\ WarpInv'
  BY <1>0, <1>1, <1>2, <1>3, FixedFrame, ReturnFrame, BackInvFrame, WarpFrame
<1>10. AddedInv' /\ UpdaterInv' /\ SumsInv'
  BY <1>0, <1>1, <1>2, <1>3, AddedFrame, UpdaterFrame, SumsFrame
<1> QED BY <1>0, <1>1, <1>3, <1>4, <1>5, <1>6, <1>7, <1>8, <1>9, <1>10 DEF DataInv, TypesInv, TravelInv, ComebackInv

-----------------------------------------------------------------------------
(* All steps.                                                              *)

\* Nothing has begun.
LEMMA InitPhases ==
  ASSUME Init
  PROVE  /\ DOMAIN prog \subseteq Nat \ {0} /\ \A k \in DOMAIN prog : ~(k <= 0)
         /\ \A r \in Ranks, k \in DOMAIN prog :
              /\ ~Opens(r, k) /\ ~Writes(r, k) /\ ~Cleans(r, k) /\ ~Starts(r, k)
              /\ ~Works(r, k) /\ ~Dones(r, k) /\ ~Lives(r, k)
<1>1. prog \in Setups /\ \A r \in Ranks : kernels[r] = 0 /\ stage[r] = "idle"
  BY DEF Init
<1>2. \A k \in DOMAIN prog : k \in Nat \ {0}
  BY <1>1, ProgramFacts
<1>3. ASSUME NEW r \in Ranks, NEW k \in DOMAIN prog
      PROVE  /\ ~Opens(r, k) /\ ~Writes(r, k) /\ ~Cleans(r, k) /\ ~Starts(r, k)
             /\ ~Works(r, k) /\ ~Dones(r, k) /\ ~Lives(r, k)
  BY <1>1, <1>2 DEF Opens, Writes, Cleans, Starts, Works, Dones, Lives,
                    Opened, Wrote, Cleaned, Started, Running, Done, Live
<1> QED BY <1>2, <1>3

\* All of it holds at the start.
LEMMA DataInit == Init => HostShape /\ DataInv
<1> SUFFICES ASSUME Init PROVE HostShape /\ DataInv
  OBVIOUS
<1>1. /\ prog \in Setups
      /\ call = [r \in Ranks |-> 0] /\ polling = [r \in Ranks |-> FALSE] /\ counter = [r \in Ranks |-> NoCount]
      /\ kernels = [r \in Ranks |-> 0] /\ stage = [r \in Ranks |-> "idle"]
      /\ mem = [r \in Ranks |-> [a \in Addresses |-> Word(0)]]
      /\ sender = [r \in Ranks |-> <<>>] /\ receiver = [r \in Ranks |-> <<>>]
      /\ warp = [r \in Ranks |-> <<>>] /\ updater = [r \in Ranks |-> <<>>]
      /\ handle = [r \in Ranks |-> [k \in DOMAIN prog |-> NoHandle]]
  BY DEF Init, Calls
<1>2. /\ DOMAIN prog \subseteq Nat \ {0} /\ \A k \in DOMAIN prog : ~(k <= 0)
      /\ \A r \in Ranks, k \in DOMAIN prog :
           /\ ~Opens(r, k) /\ ~Writes(r, k) /\ ~Cleans(r, k) /\ ~Starts(r, k)
           /\ ~Works(r, k) /\ ~Dones(r, k) /\ ~Lives(r, k)
  BY InitPhases
<1>4. \A r \in Ranks, k \in DOMAIN prog :
        handle[r][k].recv = <<>> /\ handle[r][k].recvChannel = <<>> /\ handle[r][k].head = <<>> /\ handle[r][k].sums = <<>>
  BY <1>1 DEF NoHandle
<1>5. DOMAIN <<>> = {}
  OBVIOUS
<1>9. MemInv
  BY SizesAssumption, <1>1 DEF NoItem, Item, ItemSet, Ranks, Word, Cell, MemInv
<1>10. HandlesInv
  BY <1>1 DEF HandleOK, NoHandle, HandlesInv
<1>11. QueuesInv
  BY <1>1, <1>2 DEF QueuesInv
<1>12. ItemsInv /\ EmptyInv
  BY <1>4, <1>5 DEF ItemsInv, EmptyInv
<1>13. NotifyInv
  BY <1>2 DEF PrefixInv, CountsInv, MatrixInv, TensorInv, NotifyInv
<1>14. SenderInv /\ QueueInv /\ ReceiverInv /\ OffsetInv
  BY <1>2 DEF SenderInv, QueueInv, ReceiverInv, OffsetInv, HasOffsets
<1>15. HeadsInv
  BY <1>2, <1>1, ChannelBounds DEF HeadsInv, NextTok, HeadsOK
<1>16. HeadDomainInv
  BY <1>4, <1>5 DEF HeadDomainInv
<1>17. TakenInv
  BY <1>2, <1>1, NthFacts DEF TakenInv, Taken, TakenOK
<1>18. RecvInv
  BY <1>2, <1>4, <1>5 DEF RecvInv, RecvOK
<1>19. FixedInv /\ ReturnInv /\ BackInv /\ WarpInv
  BY <1>2 DEF FixedInv, ReturnInv, BackInv, WarpInv
<1>20. AddedInv /\ UpdaterInv
  BY <1>2 DEF AddedInv, UpdaterInv
<1>21. SumsInv
  BY <1>2, <1>4, <1>5 DEF SumsInv, SumsOK
<1>22. TypesInv /\ TravelInv /\ ComebackInv
  BY <1>9, <1>10, <1>11, <1>12, <1>14, <1>15, <1>16, <1>17, <1>18, <1>19, <1>20, <1>21
     DEF TypesInv, TravelInv, ComebackInv
<1> QED BY <1>1, ProgramsAssumption, <1>2, <1>13, <1>22 DEF DataInv, HostShape, NumsInv, NumsOK, NoCount,
   HostOK, EnqueuedBy, HostInv

LEMMA HostShapeStep == HostShape /\ [Next]_vars => HostShape'
<1> SUFFICES ASSUME HostShape, [Next]_vars PROVE HostShape'
  OBVIOUS
<1>1. CASE UNCHANGED vars
  BY <1>1 DEF vars, HostShape
<1>2. ASSUME NEW r \in Ranks, HostRun(r)
      PROVE  HostShape'
  BY <1>2 DEF HostRun, HostShape
<1>3. ASSUME NEW r \in Ranks, Step(r)
      PROVE  HostShape'
  <2>1. CASE Collect(r)
    BY <2>1 DEF Collect, HostShape
  <2>2. CASE ~Collect(r)
    <3>1. UNCHANGED hostVars
      <4>1. CASE StartNotify(r) \/ StartRun(r)
        BY <4>1 DEF StartNotify, StartRun
      <4>2. CASE NotifyStep(r)
        BY <2>2, <4>2 DEF NotifyStep, PassBarrier, WriteCounts, Clean
      <4>3. CASE DispatchStep(r)
        <5>1. EndDispatch(r) => UNCHANGED hostVars
          BY DEF EndDispatch
        <5>2. \A s : ReadOffsets(r, s) => UNCHANGED hostVars
          BY DEF ReadOffsets
        <5>3. \A c, i : SendChunk(r, c, i) => UNCHANGED hostVars
          BY DEF SendChunk
        <5> QED BY <4>3, <5>1, <5>2, <5>3, ZenonT(30) DEF DispatchStep, ReleaseTail, CopyChunk, MoveHead
      <4>4. CASE CombineStep(r)
        <5>1. EndCombine(r) => UNCHANGED hostVars
          BY DEF EndCombine
        <5>2. \A c, i : SendBack(r, c, i) => UNCHANGED hostVars
          BY DEF SendBack
        <5>4. \A c, w : Reduce(r, c, w) => UNCHANGED hostVars
          BY DEF Reduce
        <5> QED BY <4>4, <5>1, <5>2, <5>4, ZenonT(30) DEF CombineStep, ReleaseTail, Update
      <4> QED BY <1>3, <4>1, <4>2, <4>3, <4>4 DEF Step
    <3> QED BY <3>1 DEF hostVars, HostShape
  <2> QED BY <2>1, <2>2
<1> QED BY <1>1, <1>2, <1>3 DEF Next

\* The steps of a dispatch.
LEMMA DispatchData ==
  ASSUME Shape, Together, DataInv, NEW r \in Ranks, Runs(r, AnyDispatch), DispatchStep(r)
  PROVE  DataInv'
BY Bridge, EndDispatchStep, ReadStep, SendStep, ReleaseStep, CopyStep, MoveStep DEF DispatchStep

\* The steps of a combine.
LEMMA CombineData ==
  ASSUME Shape, Together, DataInv, NEW r \in Ranks, Runs(r, {"combine"}), CombineStep(r)
  PROVE  DataInv'
BY Bridge, EndCombineStep, SendBackStep, BackReleaseStep, UpdateStep, ReduceStep DEF CombineStep

\* The steps of the notify kernels.
LEMMA NotifyData ==
  ASSUME Shape, Together, HostShape, DataInv, NEW r \in Ranks, NotifyStep(r)
  PROVE  DataInv'
BY PassStep, WriteStep, CollectStep, CleanStep DEF NotifyStep

\* The starts.
LEMMA StartData ==
  ASSUME Shape, Together, DataInv, NEW r \in Ranks, stage[r] = "idle", StartNotify(r) \/ StartRun(r)
  PROVE  DataInv'
<1> DEFINE k == CallOf(r)
<1>1. k = CallOf(r)
  OBVIOUS
<1> HIDE DEF k
<1>2. ASSUME StartNotify(r), Combines(prog, k) PROVE DataInv'
  BY <1>1, <1>2, StartNotifyCombine
<1>3. ASSUME StartNotify(r), ~Combines(prog, k) PROVE DataInv'
  BY <1>1, <1>3, StartNotifyStep
<1>4. ASSUME StartRun(r) PROVE DataInv'
  <2>2. Dispatches(prog, k) \/ Combines(prog, k)
    <3> QED BY <1>1, <1>4, BeginFacts, ProgramFacts DEF Kinds, Dispatches, Combines, AnyDispatch, DataInv
  <2>3. CASE Dispatches(prog, k)
    BY <1>1, <1>4, <2>3, StartDispatchStep
  <2>4. CASE Combines(prog, k)
    BY <1>1, <1>4, <2>4, StartCombineStep
  <2> QED BY <2>2, <2>3, <2>4
<1> QED BY <1>2, <1>3, <1>4

\* Nothing happens.
LEMMA QuietData ==
  ASSUME Shape, DataInv, UNCHANGED vars
  PROVE  DataInv'
<1>0. /\ prog \in Setups /\ HostInv /\ NumsInv
      /\ MemInv /\ HandlesInv /\ QueuesInv /\ ItemsInv /\ EmptyInv
      /\ PrefixInv /\ CountsInv /\ MatrixInv /\ TensorInv
      /\ SenderInv /\ HeadsInv /\ HeadDomainInv /\ QueueInv /\ ReceiverInv /\ TakenInv /\ OffsetInv /\ RecvInv
      /\ FixedInv /\ ReturnInv /\ BackInv /\ WarpInv /\ AddedInv /\ UpdaterInv /\ SumsInv
  BY DataParts
<1>1. /\ prog' = prog /\ kernels' = kernels /\ stage' = stage /\ mem' = mem /\ handle' = handle
      /\ sender' = sender /\ receiver' = receiver /\ warp' = warp /\ updater' = updater
      /\ call' = call /\ polling' = polling /\ counter' = counter
  BY DEF vars
<1>2. Still /\ SamePhases
  BY <1>1, StillSame DEF Still
<1>3. HandlesInv' /\ KeepTensor /\ KeepPrefix /\ KeepHead /\ KeepRecv /\ KeepChannel /\ KeepSums /\ KeepNums
  BY <1>0, <1>1 DEF HandlesInv, HandleOK, KeepTensor, KeepPrefix, KeepHead, KeepRecv, KeepChannel, KeepSums, KeepNums
<1>4. HostInv' /\ NumsInv'
  BY <1>0, <1>1, <1>3, NumsFrame DEF HostInv
<1>5. MemInv' /\ ItemsInv' /\ HeadDomainInv' /\ QueuesInv' /\ EmptyInv'
  BY <1>0, <1>1, <1>2, <1>3, MemFrame, ItemsFrame, HeadDomainFrame, QueuesFrame, EmptyFrame
<1>6. NotifyInv'
  BY <1>0, <1>1, <1>2, <1>3, PrefixFrame, CountsFrame, MatrixFrame, TensorFrame DEF NotifyInv
<1>7. SenderInv' /\ HeadsInv' /\ QueueInv' /\ ReceiverInv'
  BY <1>0, <1>1, <1>2, <1>3, SenderFrame, HeadsFrame, QueueInvFrame, ReceiverFrame
<1>8. TakenInv' /\ OffsetInv' /\ RecvInv'
  BY <1>0, <1>1, <1>2, <1>3, TakenInvFrame, OffsetFrame, RecvFrame
<1>9. FixedInv' /\ ReturnInv' /\ BackInv' /\ WarpInv'
  BY <1>0, <1>1, <1>2, <1>3, FixedFrame, ReturnFrame, BackInvFrame, WarpFrame
<1>10. AddedInv' /\ UpdaterInv' /\ SumsInv'
  BY <1>0, <1>1, <1>2, <1>3, AddedFrame, UpdaterFrame, SumsFrame
<1> QED BY <1>0, <1>1, <1>3, <1>4, <1>5, <1>6, <1>7, <1>8, <1>9, <1>10 DEF DataInv, TypesInv, TravelInv, ComebackInv

\* Every step keeps all of it.
LEMMA DataStep ==
  ASSUME Shape, Together, HostShape, DataInv, [Next]_vars
  PROVE  DataInv'
BY QuietData, HostStep, StartData, NotifyData, DispatchData, CombineData DEF Step, Next

\* All of it, in every state.
FullInv == IInv /\ Together /\ HostShape /\ DataInv

\* All of it in every state, for any number of ranks and channels, any lengths of the queues and any
\* program of dispatches, cached dispatches and combines.
THEOREM DataInvariance == Spec => []FullInv
<1>1. Init => FullInv
  BY IInvInit, TogetherInit, DataInit DEF FullInv
<1>2. FullInv /\ [Next]_vars => FullInv'
  BY IInvStep, TogetherStep, HostShapeStep, DataStep DEF FullInv, IInv
<1> QED BY <1>1, <1>2, PTL DEF Spec

-----------------------------------------------------------------------------
(* What it says of the calls that have ended.                              *)

\* Whoever has been routed to a rank is in its row when the call has ended.
LEMMA Arrived ==
  ASSUME DataInv, NEW r \in Ranks, NEW k \in DOMAIN prog, Dones(r, k), Dispatches(prog, k),
         NEW s \in Ranks, NEW t \in RoutedTo(prog, k, s, r)
  PROVE  /\ Row(prog, k, s, r, t) \in DOMAIN handle[r][k].recv
         /\ handle[r][k].recv[Row(prog, k, s, r, t)] = TokenOf(prog, k, s, r, t)
<1>2. PICK c \in ChannelsOf(prog, k) : t \in InChannel(prog, k, s, r, c)
  BY DataParts, RoutedInChannel
<1>4. Taken(r, k, c, s) = Many(prog, k, s, r, c)
  BY DEF Taken, Starts, Started, Dones, Done
<1> QED BY <1>2, <1>4, DataParts, NthFacts DEF TakenOK, TakenInv

\* A rank has ended no call that its host has not begun, nor one whose counts it waits for.
LEMMA EndedCalls ==
  ASSUME Shape, DataInv, NEW r \in Ranks, NEW k \in DOMAIN prog, Dones(r, k)
  PROVE  k <= call[r] /\ (polling[r] => k < call[r])
<1>1. /\ call[r] \in 0 .. Len(prog) /\ polling[r] \in BOOLEAN /\ kernels[r] <= EnqueuedBy(call[r], polling[r])
      /\ prog \in Setups
  BY DataParts DEF HostInv, HostOK
<1>2. kernels[r] \in Nat /\ k \in Nat /\ call[r] \in Nat /\ kernels[r] >= 2 * k
  <2>1. DOMAIN prog = 1 .. Len(prog) /\ Len(prog) \in Nat
    BY <1>1, ProgramsAssumption
  <2> QED BY <1>1, <2>1 DEF Shape, Dones, Done
<1> QED BY <1>1, <1>2 DEF EnqueuedBy

\* Rows taken, row by row, are the tokens routed to the rank.
LEMMA DispatchSays == ASSUME FullInv PROVE DispatchExact
<1>0. /\ prog \in Setups /\ Shape /\ DataInv /\ NumsInv /\ RecvInv
  BY DataParts DEF FullInv, IInv
<1>1. SUFFICES ASSUME NEW r \in Ranks, NEW k \in DOMAIN prog, kernels[r] >= 2 * k, Dispatches(prog, k)
      PROVE  LET h == handle[r][k]
                 n == Cardinality(Routed(k, r))
                 Topk(s, t) == IF prog[k].kind = "dispatch" THEN LocalTopk(Rows(k, s)[t], r) ELSE {}
             IN  /\ \A p \in Routed(k, r) :
                      h.recv[Before(k, r, p[1], p[2])] = Item(k, p[1], p[1], p[2], Topk(p[1], p[2]))
                 /\ IF Marks(k)
                    THEN DOMAIN h.recv = 0 .. h.num - 1 /\ \A i \in n .. h.num - 1 : h.recv[i].topk = {}
                    ELSE h.num >= n /\ DOMAIN h.recv = 0 .. n - 1
                 /\ Waits(k) => h.num = n /\
                      \A e \in LocalExperts :
                        h.experts[e] = Align(Sum([s \in Ranks |->
                          Cardinality(TokensToExpert(Rows(k, s), r * NumExpertsPerRank + e))], Ranks))
  BY DEF DispatchExact, Ended, Calls, Dispatches
<1>2. Dones(r, k)
  BY <1>1 DEF Dones, Done
<1> DEFINE h == handle[r][k]
           n == Cardinality(Routed(k, r))
           m == Pre(prog, k, NumRanks, r)
<1>4. n = m
  BY <1>0, Bridge, AllCounted DEF Routed, RoutedTo
<1>6. k <= call[r] /\ (polling[r] => k < call[r])
  BY <1>0, <1>2, EndedCalls
<1>7. NumsOK(prog, r, call[r], polling[r], k, h.num, h.experts)
  BY <1>0 DEF NumsInv
<1>8. RecvOK(prog, k, r, Marks(k), h.recv)
  BY <1>0, <1>1, <1>2 DEF RecvInv, Marks, RecvOK
<1>9. m \in Nat
  BY <1>0, PreFacts, RanksFinite
<1>10. ASSUME NEW p \in Routed(k, r)
       PROVE  h.recv[Before(k, r, p[1], p[2])] =
                Item(k, p[1], p[1], p[2], IF prog[k].kind = "dispatch" THEN LocalTopk(Rows(k, p[1])[p[2]], r) ELSE {})
  BY Bridge, <1>0, <1>1, <1>2, Arrived, RowCounts DEF TokenOf, Before, Routed, RoutedTo
<1>11. CASE Marks(k)
  BY <1>6, <1>7, <1>11, <1>8, <1>4, <1>10 DEF NumsOK, Marks, Polls, RecvOK, NoItem, Item, Waits
<1>12. CASE ~Marks(k)
  <2>2. \A i \in 0 .. m - 1 : i \in DOMAIN h.recv
    BY <1>0, RowReached, <1>1, <1>2, Arrived
  <2>3. DOMAIN h.recv = 0 .. m - 1
    BY <1>8, <1>12, <2>2 DEF RecvOK
  <2>4. CASE Polls(prog, k)
    BY <1>6, <1>7, <2>4, Bridge, <1>4, <1>9, <1>10, <1>12, <2>3 DEF NumsOK, RightCounter
  <2>5. CASE ~Polls(prog, k)
    BY <1>1, <1>12, <2>5, <1>6, <1>7, <1>4, <1>10, <2>3 DEF Polls, Waits, Marks, Dispatches, AnyDispatch, NumsOK
  <2> QED BY <2>4, <2>5
<1> QED BY <1>11, <1>12

\* A sum has one term of each rank that the token went to.
LEMMA CombineSays == ASSUME FullInv PROVE CombineExact
BY DataParts, Bridge DEF FullInv, CombineExact, Ended, Calls, SumsInv, Combines, Dones, Done, SumsOK, Returned

\* Every variable has its type.
LEMMA TypeSays == ASSUME FullInv PROVE TypeOK
<1>0. /\ prog \in Setups /\ Shape /\ DataInv /\ HostInv /\ MemInv /\ QueuesInv /\ ItemsInv
  BY DataParts DEF FullInv, IInv
<1>1. ASSUME NEW r \in Ranks
      PROVE  /\ call[r] \in 0 .. Len(prog) /\ polling[r] \in BOOLEAN
             /\ counter[r] \in [n : Int, e : [LocalExperts -> Int]]
             /\ kernels[r] \in 0 .. 2 * Len(prog) /\ (stage[r] # "idle" => kernels[r] < 2 * Len(prog))
  <2>2. Len(prog) \in Nat /\ kernels[r] \in Nat
    BY <1>0, ProgramsAssumption DEF Shape
  <2> QED BY <1>0, <2>2 DEF EnqueuedBy, HostInv, HostOK
<1>2. ASSUME NEW r \in Ranks
      PROVE  /\ stage[r] \in {"idle", "open", "write", "exchange", "clean", "close", "run"}
             /\ signal[r] \in [Ranks -> Int]
             /\ mem[r] \in [Addresses -> [int : Int, item : ItemSet]]
             /\ \A k \in Calls : \A i \in DOMAIN handle[r][k].recv : handle[r][k].recv[i] \in ItemSet
  BY <1>0, Bridge DEF Shape, Notifying, MemInv, Cell, ItemsInv
<1>3. ASSUME NEW r \in Ranks
      PROVE  /\ \A q \in DOMAIN sender[r] : sender[r][q] \in SenderSet
             /\ \A q \in DOMAIN receiver[r] : receiver[r][q] \in ReceiverSet
             /\ \A v \in DOMAIN warp[r] : warp[r][v] \in WarpSet
             /\ \A q \in DOMAIN updater[r] : updater[r][q] \in UpdaterSet
  <2>1. CASE stage[r] # "run"
    BY <1>0, <2>1 DEF QueuesInv
  <2>2. CASE stage[r] = "run"
    <3> DEFINE k == CallOf(r)
    <3>1. k = CallOf(r)
      OBVIOUS
    <3> HIDE DEF k
    <3>4. /\ sender[r] \in [QueuesOf(prog, k) -> SenderSet]
          /\ receiver[r] \in (IF Dispatches(prog, k) THEN [QueuesOf(prog, k) -> ReceiverSet] ELSE {<<>>})
          /\ warp[r] \in (IF Combines(prog, k) THEN [ChannelsOf(prog, k) \X Warps -> WarpSet] ELSE {<<>>})
          /\ updater[r] \in (IF Combines(prog, k) THEN [QueuesOf(prog, k) -> UpdaterSet] ELSE {<<>>})
      BY <1>0, <2>2, <3>1, RunFacts DEF QueuesInv, Works, Running
    <3> QED BY <3>4
  <2> QED BY <2>1, <2>2
<1> QED BY <1>0, <1>1, <1>2, <1>3 DEF TypeOK, SenderSet, ReceiverSet, WarpSet, UpdaterSet

\* An ended dispatch, cached or not, has received every token routed to the rank once, in the row that
\* its source and place give, and its counts are those of the routing.
THEOREM DispatchesExact == Spec => []DispatchExact
BY DataInvariance, DispatchSays, PTL

\* An ended combine has added, for every token, what each rank returned that the token went to, in
\* this very call.
THEOREM CombinesExact == Spec => []CombineExact
BY DataInvariance, CombineSays, PTL

\* Every word, handle, register and counter keeps its type.
THEOREM TypeCorrect == Spec => []TypeOK
BY DataInvariance, TypeSays, PTL

=============================================================================
