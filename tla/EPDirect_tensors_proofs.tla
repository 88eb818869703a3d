---------------------- MODULE EPDirect_tensors_proofs ----------------------
(***************************************************************************)
(* Proofs about the tensors of EPDirect, on top of those about its counts  *)
(* and its tokens.  The epilogue finds each token where the numbers say,   *)
(* and what it writes is exactly what was routed there (EInv).  It also    *)
(* keeps where it wrote (LInv): so a combine sends back one term for each  *)
(* expert of a token, which is on its way or in a place of its own in the  *)
(* source's buffer (BInv) until the source adds it up (RInv).  At the end, *)
(* the types of all variables (Shapes, HInv, TypesKept).                   *)
(***************************************************************************)
EXTENDS EPDirect_proofs

-----------------------------------------------------------------------------
(***************************************************************************)
(* The invariant of the tensors.  The epilogue's item i is one token, by   *)
(* the sender whose region i falls in and by the slot there, so that the   *)
(* items of a call are the tokens routed to the rank, each once.           *)
(***************************************************************************)

\* What rank r receives in call k begins, for sender s, behind what the senders before sent.
Base(k, r, s) == ReceivedFrom(k, r, 0 .. s - 1)
IsItem(r, k, i, s, t) ==
  /\ s \in Ranks /\ t \in FromTo(k, s, r)
  /\ i = Base(k, r, s) + Slot(s, k, <<t, r>>)

\* The items that the epilogue of call k is through with.
Copied(r, k) == IF kernels[r] >= 2 * k THEN 0 .. ReceivedFrom(k, r, Ranks) - 1
                ELSE IF kernels[r] = 2 * k - 1 /\ stage[r] = "work" THEN done[r] ELSE {}

SourceRow(r, k, i) == LET md == handle[r][k].meta[i] IN Rows(k, md.rank)[md.tok]
ItemToken(r, k, i) == LET md == handle[r][k].meta[i] IN Token(k, md.rank, md.tok, SourceRow(r, k, i))

MetaInv(r, k) ==
  LET meta == handle[r][k].meta
  IN  /\ DOMAIN meta = Copied(r, k)
      /\ \A i \in DOMAIN meta : IsItem(r, k, i, meta[i].rank, meta[i].tok)

PlainInv(r, k) ==
  ~Expanded(k) =>
    /\ DOMAIN handle[r][k].recv = Copied(r, k)
    /\ \A i \in Copied(r, k) : handle[r][k].recv[i] = ItemToken(r, k, i)

\* Where the segment of local expert x begins, and the items that go there.
Start(k, r, x)  == Sum(AlignedTotals(k, r), 0 .. x - 1)
Having(r, k, x) == {i \in DOMAIN handle[r][k].meta :
                      \E l \in Lanes : SourceRow(r, k, i)[l] = r * NumExpertsPerRank + x}
Segment(r, k, x) == Start(k, r, x) .. handle[r][k].epsum[x] - 1

ExpandInv(r, k) ==
  Expanded(k) /\ Prog[k].kind = "dispatch" =>
    LET h == handle[r][k]
    IN  /\ ~Finished(r, k) => DOMAIN h.recv = {}
        /\ Finished(r, k) =>
             /\ DOMAIN h.recv = UNION {Segment(r, k, x) : x \in LocalExperts}
             /\ \A x \in LocalExperts :
                  /\ h.epsum[x] = Start(k, r, x) + Cardinality(Having(r, k, x))
                  /\ \A p \in Segment(r, k, x) : \E i \in Having(r, k, x) : h.recv[p] = ItemToken(r, k, i)
                  /\ \A i \in Having(r, k, x) : \E p \in Segment(r, k, x) : h.recv[p] = ItemToken(r, k, i)

TensorInv(r, k) == MetaInv(r, k) /\ PlainInv(r, k) /\ ExpandInv(r, k)

EInv ==
  \A r \in Ranks : \A k \in Calls : Prog[k].kind \in AnyDispatch => TensorInv(r, k)

\* As many different numbers below n as there are: all of them.
LEMMA Onto ==
  ASSUME NEW T, IsFiniteSet(T), NEW n \in Nat, Cardinality(T) = n,
         NEW f, \A x \in T : f[x] \in 0 .. n - 1,
         \A x, y \in T : f[x] = f[y] => x = y
  PROVE  \A j \in 0 .. n - 1 : \E x \in T : f[x] = j
<1> DEFINE N == 0 .. n - 1
           g == [x \in T |-> f[x]]
<1>1. IsFiniteSet(N) /\ Cardinality(N) = n
  <2>1. 0 \in Int /\ n - 1 \in Int /\ n - 1 - 0 + 1 = n /\ (0 > n - 1 => n = 0)
    OBVIOUS
  <2> QED BY <2>1, FS_Interval
<1>2. g \in [T -> N] /\ \A x \in T : g[x] = f[x]
  OBVIOUS
<1> HIDE DEF g, N
<1>3. g \in Injection(T, N)
  BY <1>2 DEF Injection, IsInjective
<1>4. g \in Surjection(T, N)
  BY <1>1, <1>3, FS_Injection
<1>5. \A j \in N : \E x \in T : g[x] = j
  BY <1>4 DEF Surjection
<1> QED BY <1>2, <1>5 DEF N

-----------------------------------------------------------------------------
(* Behind the barrier of a dispatch everything has been sent and has landed. *)

LEMMA AllSent ==
  ASSUME IInv, SInv, NEW r \in Ranks, NEW k \in Calls, Prog[k].kind \in AnyDispatch, kernels[r] >= 2 * k - 1,
         NEW s \in Ranks, NEW p \in PairsOf(k, s)
  PROVE  Sent(s, k, p)
<1>1. /\ k \in Nat /\ kernels[r] \in Nat /\ kernels[s] \in Nat
      /\ left[r] <= entered[s] /\ left[r] = LeftBy(r) /\ entered[s] = EnteredBy(s)
      /\ stage[s] \in {"idle", "enter", "work", "leave"}
  BY PlaceFacts DEF IInv, InStep
<1>a. CallOf(r) \in Nat /\ (OnMain(r) => kernels[r] = 2 * CallOf(r) - 2)
  BY PlaceFacts
<1>2. left[r] >= 2 * k
  <2>1. CASE OnMain(r)
    <3>1. kernels[r] >= 2 * k
      BY <1>1, <1>a, <2>1
    <3> QED BY <1>1, <3>1 DEF LeftBy
  <2>2. CASE ~OnMain(r)
    BY <1>1, <2>2 DEF LeftBy
  <2> QED BY <2>1, <2>2
<1>3. EnteredBy(s) >= 2 * k
  <2>1. entered[s] \in Nat /\ left[r] \in Nat
    BY DEF IInv, CountTypes
  <2> QED BY <1>1, <1>2, <2>1
<1>4. CASE stage[s] = "leave"
  <2>1. OnMain(s)
    BY <1>4, PlaceFacts
  <2>2. kernels[s] >= 2 * k - 2
    BY <1>1, <1>3, <1>4, <2>1 DEF EnteredBy
  <2> QED BY <1>4, <2>2, SentFacts
<1>5. CASE stage[s] # "leave"
  <2>1. kernels[s] >= 2 * k - 1
    BY <1>1, <1>3, <1>5 DEF EnteredBy
  <2> QED BY <2>1 DEF Sent
<1> QED BY <1>4, <1>5

LEMMA AllLanded ==
  ASSUME IInv, SInv, TInv, NEW r \in Ranks, ~OnMain(r), NEW k \in Calls, k = CallOf(r),
         Prog[k].kind \in AnyDispatch, NEW s \in Ranks, NEW t \in FromTo(k, s, r)
  PROVE  buffer[r][<<s, Slot(s, k, <<t, r>>)>>] = Token(k, s, t, Rows(k, s)[t])
<1>1. kernels[r] = 2 * k - 1 /\ kernels[r] \in Nat /\ k \in Nat /\ setup \in Setups
  BY PlaceFacts
<1>a. kernels[r] >= 2 * k - 1
  BY <1>1
<1>2. PICK p \in PairsOf(k, s) : p = <<t, r>>
  BY <1>1, PairsFacts
<1>3. Sent(s, k, p)
  BY <1>a, AllSent
<1>4. p[1] = t /\ p[2] = r
  BY <1>2
<1>5. Post(s, k, p) \notin stores
  <2>1. ASSUME Post(s, k, p) \in stores
        PROVE  FALSE
    <3>1. Post(s, k, p).to = r
      BY <1>4 DEF Post
    <3> QED BY <2>1, <3>1, OwnedFromInv DEF PutsOwned
  <2> QED BY <2>1
<1>6. buffer[r][<<s, Slot(s, k, p)>>] = Post(s, k, p).token
  BY <1>3, <1>4, <1>5 DEF TInv, Delivered
<1>7. Post(s, k, p).token = Token(k, s, t, Rows(k, s)[t])
  BY <1>4 DEF Post
<1> QED BY <1>2, <1>6, <1>7

-----------------------------------------------------------------------------
(* Items and tokens. *)

LEMMA BaseFacts ==
  ASSUME setup \in Setups, NEW k \in Calls, NEW r \in Ranks
  PROVE  /\ \A S \in SUBSET Ranks : ReceivedFrom(k, r, S) \in Nat
         /\ \A S, R \in SUBSET Ranks : S \subseteq R => ReceivedFrom(k, r, S) <= ReceivedFrom(k, r, R)
         /\ \A s \in Ranks : ReceivedFrom(k, r, 0 .. s) = Base(k, r, s) + Count(k, s, r)
         /\ Base(k, r, 0) = 0
<1> DEFINE P(S) == {p \in RoutedTo(k, r) : p[1] \in S}
           f == [s \in Ranks |-> Count(k, s, r)]
<1>1. \A S \in SUBSET Ranks : /\ Sum(f, S) = ReceivedFrom(k, r, S) /\ ReceivedFrom(k, r, S) \in Nat
  <2>1. \A s \in Ranks : f[s] = Count(k, s, r)
    OBVIOUS
  <2> HIDE DEF f
  <2> QED BY <2>1, ReceivedSums
<1>2. IsFiniteSet(RoutedTo(k, r))
  <2>1. IsFiniteSet(Ranks) /\ IsFiniteSet(1 .. NumMaxTokensPerRank)
    BY SizesAssumption, FS_Interval DEF Ranks
  <2>2. IsFiniteSet(Ranks \X (1 .. NumMaxTokensPerRank))
    BY <2>1, FS_Product
  <2> QED BY <2>2, FS_Subset DEF RoutedTo
<1>3. ASSUME NEW S \in SUBSET Ranks, NEW R \in SUBSET Ranks, S \subseteq R
      PROVE  ReceivedFrom(k, r, S) <= ReceivedFrom(k, r, R)
  <2>1. P(S) \in SUBSET P(R) /\ P(R) \in SUBSET RoutedTo(k, r)
    BY <1>3
  <2>2. IsFiniteSet(P(R))
    BY <1>2, <2>1, FS_Subset
  <2>3. Cardinality(P(S)) <= Cardinality(P(R))
    BY <2>1, <2>2, FS_Subset
  <2> QED BY <2>3 DEF ReceivedFrom
<1>4. ASSUME NEW s \in Ranks
      PROVE  ReceivedFrom(k, r, 0 .. s) = Base(k, r, s) + Count(k, s, r)
  <2>1. NumRanks \in Nat /\ s \in Nat /\ s <= NumRanks - 1
    BY SizesAssumption DEF Ranks
  <2>2. /\ 0 .. s = (0 .. s - 1) \cup {s} /\ s \notin 0 .. s - 1
        /\ 0 .. s - 1 \in SUBSET Ranks /\ 0 .. s \in SUBSET Ranks
    BY <2>1 DEF Ranks
  <2>3. IsFiniteSet(0 .. s - 1)
    BY <2>1, FS_Interval
  <2>4. \A y \in Ranks : f[y] \in Int
    BY CountFacts
  <2>5. f[s] = Count(k, s, r)
    OBVIOUS
  <2> HIDE DEF f
  <2>6. Sum(f, (0 .. s - 1) \cup {s}) = f[s] + Sum(f, 0 .. s - 1)
    BY <2>2, <2>3, <2>4, SumAdd
  <2>7. Sum(f, 0 .. s) = ReceivedFrom(k, r, 0 .. s) /\ Sum(f, 0 .. s - 1) = Base(k, r, s)
    BY <1>1, <2>2 DEF Base
  <2>8. Count(k, s, r) \in Int /\ Base(k, r, s) \in Int
    BY <1>1, <2>2, CountFacts DEF Base
  <2>9. Sum(f, 0 .. s) = f[s] + Sum(f, 0 .. s - 1)
    BY ONLY <2>2, <2>6
  <2>10. ReceivedFrom(k, r, 0 .. s) = Count(k, s, r) + Base(k, r, s)
    BY ONLY <2>5, <2>7, <2>9
  <2> QED BY <2>8, <2>10
<1>5. Base(k, r, 0) = 0
  <2>1. 0 .. 0 - 1 = {} /\ {p \in RoutedTo(k, r) : p[1] \in {}} = {} /\ Cardinality({}) = 0
    BY FS_EmptySet
  <2> QED BY <2>1 DEF Base, ReceivedFrom
<1> QED BY <1>1, <1>3, <1>4, <1>5

\* The items of sender s follow those of the senders before.
LEMMA RegionFacts ==
  ASSUME setup \in Setups, NEW k \in Calls, NEW r \in Ranks, NEW s \in Ranks
  PROVE  /\ Base(k, r, s) \in Nat /\ Count(k, s, r) \in Nat
         /\ Base(k, r, s) + Count(k, s, r) <= ReceivedFrom(k, r, Ranks)
         /\ \A q \in Ranks : s < q => Base(k, r, s) + Count(k, s, r) <= Base(k, r, q)
<1>1. NumRanks \in Nat /\ s \in Nat /\ s <= NumRanks - 1
  BY SizesAssumption DEF Ranks
<1>2. 0 .. s \in SUBSET Ranks /\ 0 .. s - 1 \in SUBSET Ranks
  BY <1>1 DEF Ranks
<1>3. Base(k, r, s) \in Nat /\ Count(k, s, r) \in Nat
  BY <1>2, BaseFacts, CountFacts DEF Base
<1>4. ReceivedFrom(k, r, 0 .. s) = Base(k, r, s) + Count(k, s, r)
  BY BaseFacts
<1>5. ReceivedFrom(k, r, 0 .. s) <= ReceivedFrom(k, r, Ranks)
  BY <1>2, BaseFacts
<1>6. ASSUME NEW q \in Ranks, s < q
      PROVE  ReceivedFrom(k, r, 0 .. s) <= Base(k, r, q)
  <2>1. q \in Nat /\ q <= NumRanks - 1
    BY <1>1 DEF Ranks
  <2>2. 0 .. s \subseteq 0 .. q - 1 /\ 0 .. q - 1 \in SUBSET Ranks
    BY <1>1, <1>6, <2>1 DEF Ranks
  <2> QED BY <1>2, <2>2, BaseFacts DEF Base
<1> QED BY <1>3, <1>4, <1>5, <1>6

LEMMA SameReceived ==
  ASSUME setup \in Setups, NEW k \in Calls, NEW r \in Ranks
  PROVE  /\ RoutedTo(Home(k), r) = RoutedTo(k, r)
         /\ \A S : ReceivedFrom(Home(k), r, S) = ReceivedFrom(k, r, S)
<1>1. \A s \in Ranks : Rows(Home(k), s) = Rows(k, s)
  BY SameRouting
<1>2. RoutedTo(Home(k), r) = RoutedTo(k, r)
  BY <1>1 DEF RoutedTo
<1> QED BY <1>2 DEF ReceivedFrom

\* The slots of a sender are as many as its tokens: every place of its region has one.
LEMMA SlotOnto ==
  ASSUME IInv, SInv, NEW r \in Ranks, NEW k \in Calls, Prog[k].kind \in AnyDispatch, kernels[r] >= 2 * k - 1,
         NEW s \in Ranks
  PROVE  /\ \A t \in FromTo(k, s, r) : Slot(s, k, <<t, r>>) \in 0 .. Count(k, s, r) - 1
         /\ \A t, u \in FromTo(k, s, r) : Slot(s, k, <<t, r>>) = Slot(s, k, <<u, r>>) => t = u
         /\ \A j \in 0 .. Count(k, s, r) - 1 : \E t \in FromTo(k, s, r) : Slot(s, k, <<t, r>>) = j
<1> DEFINE T == FromTo(k, s, r)
           n == Count(k, s, r)
           f == [t \in T |-> Slot(s, k, <<t, r>>)]
<1>0. setup \in Setups
  BY PlaceFacts
<1>1. ASSUME NEW t \in T
      PROVE  /\ Slot(s, k, <<t, r>>) \in 0 .. n - 1
             /\ \A u \in T : Slot(s, k, <<t, r>>) = Slot(s, k, <<u, r>>) => t = u
  <2>1. PICK p \in PairsOf(k, s) : p = <<t, r>>
    BY <1>0, PairsFacts
  <2>2. Sent(s, k, p) /\ p[2] = r
    BY <2>1, AllSent
  <2>3. Slot(s, k, p) \in 0 .. Count(k, s, p[2]) - 1
    BY <2>2, SentSlot
  <2>4. ASSUME NEW u \in T, Slot(s, k, <<t, r>>) = Slot(s, k, <<u, r>>)
        PROVE  t = u
    <3>1. PICK q \in PairsOf(k, s) : q = <<u, r>>
      BY <1>0, PairsFacts
    <3>2. Sent(s, k, q) /\ q[2] = p[2] /\ Slot(s, k, q) = Slot(s, k, p)
      BY <2>1, <2>2, <2>4, <3>1, AllSent
    <3>3. q = p
      BY <2>2, <3>2, SentSlot
    <3> QED BY <2>1, <3>1, <3>3
  <2> QED BY <2>1, <2>2, <2>3, <2>4
<1>2. IsFiniteSet(T) /\ n \in Nat /\ Cardinality(T) = n
  BY <1>0, CountFacts DEF Count
<1>3. \A t \in T : f[t] = Slot(s, k, <<t, r>>)
  OBVIOUS
<1> HIDE DEF T, n, f
<1>4. (\A x \in T : f[x] \in 0 .. n - 1) /\ (\A x, y \in T : f[x] = f[y] => x = y)
  BY <1>1, <1>3
<1>5. \A j \in 0 .. n - 1 : \E x \in T : f[x] = j
  BY <1>2, <1>4, Onto
<1>6. /\ \A t \in T : Slot(s, k, <<t, r>>) \in 0 .. n - 1
      /\ \A t, u \in T : Slot(s, k, <<t, r>>) = Slot(s, k, <<u, r>>) => t = u
      /\ \A j \in 0 .. n - 1 : \E t \in T : Slot(s, k, <<t, r>>) = j
  BY <1>1, <1>3, <1>5
<1> QED BY <1>6 DEF T, n

\* Every token has an item of its own, and the items are the first numbers.
LEMMA ItemRange ==
  ASSUME IInv, SInv, NEW r \in Ranks, NEW k \in Calls, Prog[k].kind \in AnyDispatch, kernels[r] >= 2 * k - 1,
         NEW i, NEW s, NEW t, IsItem(r, k, i, s, t)
  PROVE  /\ i \in 0 .. ReceivedFrom(k, r, Ranks) - 1
         /\ Base(k, r, s) \in Nat /\ Count(k, s, r) \in Nat
         /\ Base(k, r, s) <= i /\ i < Base(k, r, s) + Count(k, s, r)
<1>0. setup \in Setups /\ s \in Ranks /\ t \in FromTo(k, s, r) /\ i = Base(k, r, s) + Slot(s, k, <<t, r>>)
  BY PlaceFacts DEF IsItem
<1>1. Slot(s, k, <<t, r>>) \in 0 .. Count(k, s, r) - 1
  BY <1>0, SlotOnto
<1>2. /\ Base(k, r, s) \in Nat /\ Count(k, s, r) \in Nat
      /\ Base(k, r, s) + Count(k, s, r) <= ReceivedFrom(k, r, Ranks)
  BY <1>0, RegionFacts
<1>3. ReceivedFrom(k, r, Ranks) \in Nat
  BY <1>0, BaseFacts
<1> QED BY <1>0, <1>1, <1>2, <1>3

LEMMA ItemUnique ==
  ASSUME IInv, SInv, NEW r \in Ranks, NEW k \in Calls, Prog[k].kind \in AnyDispatch, kernels[r] >= 2 * k - 1,
         NEW i, NEW s, NEW t, IsItem(r, k, i, s, t), NEW q, NEW u, IsItem(r, k, i, q, u)
  PROVE  s = q /\ t = u
<1>0. setup \in Setups /\ s \in Ranks /\ q \in Ranks /\ s \in Nat /\ q \in Nat
  BY PlaceFacts, SizesAssumption DEF IsItem, Ranks
<1>1. /\ i \in Nat
      /\ Base(k, r, s) \in Nat /\ Count(k, s, r) \in Nat
      /\ Base(k, r, s) <= i /\ i < Base(k, r, s) + Count(k, s, r)
      /\ Base(k, r, q) \in Nat /\ Count(k, q, r) \in Nat
      /\ Base(k, r, q) <= i /\ i < Base(k, r, q) + Count(k, q, r)
  BY ItemRange
<1>2. /\ s < q => Base(k, r, s) + Count(k, s, r) <= Base(k, r, q)
      /\ q < s => Base(k, r, q) + Count(k, q, r) <= Base(k, r, s)
  BY <1>0, RegionFacts
<1>3. s = q
  BY <1>0, <1>1, <1>2
<1>4. /\ t \in FromTo(k, s, r) /\ u \in FromTo(k, s, r)
      /\ i = Base(k, r, s) + Slot(s, k, <<t, r>>) /\ i = Base(k, r, s) + Slot(s, k, <<u, r>>)
  BY <1>3 DEF IsItem
<1>5. Slot(s, k, <<t, r>>) \in Int /\ Slot(s, k, <<u, r>>) \in Int
  BY <1>0, <1>4, SlotOnto
<1>6. Slot(s, k, <<t, r>>) = Slot(s, k, <<u, r>>)
  BY <1>1, <1>4, <1>5
<1> QED BY <1>0, <1>3, <1>4, <1>6, SlotOnto

LEMMA ItemOfToken ==
  ASSUME IInv, SInv, NEW r \in Ranks, NEW k \in Calls, Prog[k].kind \in AnyDispatch, kernels[r] >= 2 * k - 1,
         NEW s \in Ranks, NEW t \in FromTo(k, s, r)
  PROVE  /\ IsItem(r, k, Base(k, r, s) + Slot(s, k, <<t, r>>), s, t)
         /\ Base(k, r, s) + Slot(s, k, <<t, r>>) \in 0 .. ReceivedFrom(k, r, Ranks) - 1
<1>1. IsItem(r, k, Base(k, r, s) + Slot(s, k, <<t, r>>), s, t)
  BY DEF IsItem
<1> QED BY <1>1, ItemRange

-----------------------------------------------------------------------------
(* The epilogue knows how many tokens have come, and from whom. *)

EpilogueAt(r, k) == kernels[r] >= 2 * k - 1 /\ (kernels[r] = 2 * k - 1 => stage[r] = "work")

LEMMA HomeNumbers ==
  ASSUME IInv, CInv, NEW r \in Ranks, NEW k \in Calls, EpilogueAt(r, k)
  PROVE  /\ Home(k) \in Calls /\ Prog[Home(k)].kind = "dispatch"
         /\ Finished(r, Home(k)) /\ Polled(r, Home(k))
<1>1. /\ setup \in Setups /\ k \in Nat /\ kernels[r] \in Nat
  BY PlaceFacts
<1>2. Home(k) \in Calls /\ Prog[Home(k)].kind = "dispatch" /\ Home(k) \in Nat /\ Home(k) <= k
  <2>1. /\ Home(k) \in Calls /\ Prog[Home(k)].kind = "dispatch"
        /\ (Prog[k].kind # "dispatch" => Home(k) < k) /\ (Prog[k].kind = "dispatch" => Home(k) = k)
    BY <1>1, HomeIsDispatch
  <2>2. Home(k) \in Nat
    BY <2>1, PlaceFacts
  <2> QED BY <1>1, <2>1, <2>2
<1>3. Finished(r, Home(k))
  <2>1. kernels[r] >= 2 * Home(k) - 1
    BY <1>1, <1>2 DEF EpilogueAt
  <2> QED BY <2>1 DEF Finished
<1>4. Polled(r, Home(k))
  <2>1. /\ kernels[r] <= Enqueued(r) /\ (stage[r] # "idle" => kernels[r] < Enqueued(r))
        /\ call[r] \in Nat /\ polling[r] \in BOOLEAN
    BY DEF IInv, Ahead, CountTypes
  <2>2. kernels[r] >= 2 * k - 1 /\ (kernels[r] = 2 * k - 1 => stage[r] # "idle")
    BY DEF EpilogueAt
  <2>3. CASE polling[r]
    <3>1. Enqueued(r) = 2 * call[r] - 1
      BY <2>3 DEF Enqueued
    <3>2. call[r] > k
      BY <1>1, <2>1, <2>2, <3>1
    <3>3. call[r] > Home(k)
      BY <1>1, <1>2, <2>1, <3>2
    <3> QED BY <3>3 DEF Polled
  <2>4. CASE ~polling[r]
    <3>1. Enqueued(r) = 2 * call[r]
      BY <2>4 DEF Enqueued
    <3>2. call[r] >= k
      BY <1>1, <2>1, <2>2, <3>1
    <3>3. call[r] > Home(k) \/ call[r] = Home(k)
      BY <1>1, <1>2, <2>1, <3>2
    <3> QED BY <2>4, <3>3 DEF Polled
  <2> QED BY <2>3, <2>4
<1> QED BY <1>2, <1>3, <1>4

LEMMA HomePsum ==
  ASSUME IInv, CInv, NEW r \in Ranks, NEW k \in Calls, EpilogueAt(r, k)
  PROVE  \A s \in Ranks : handle[r][Home(k)].psum[s] = ReceivedFrom(k, r, 0 .. s)
<1>1. setup \in Setups
  BY PlaceFacts
<1>2. \A s \in Ranks : handle[r][Home(k)].psum[s] = ReceivedFrom(Home(k), r, 0 .. s)
  BY HomeNumbers DEF CInv, PsumInv
<1> QED BY <1>1, <1>2, SameReceived

LEMMA NumRight ==
  ASSUME IInv, CInv, NEW r \in Ranks, NEW k \in Calls, EpilogueAt(r, k)
  PROVE  NumRecv(r, k) = ReceivedFrom(k, r, Ranks) /\ ReceivedFrom(k, r, Ranks) \in Nat
<1>1. setup \in Setups
  BY PlaceFacts
<1>2. NumRanks - 1 \in Ranks /\ 0 .. NumRanks - 1 = Ranks
  BY SizesAssumption DEF Ranks
<1>3. handle[r][Home(k)].psum[NumRanks - 1] = ReceivedFrom(k, r, Ranks)
  BY <1>2, HomePsum
<1>4. handle[r][Home(k)].num = WorstCase \/ handle[r][Home(k)].num = ReceivedFrom(k, r, Ranks)
  <2>1. NumInv(r, Home(k)) /\ Polled(r, Home(k)) /\ Prog[Home(k)].kind = "dispatch"
    BY HomeNumbers DEF CInv
  <2>2. ReceivedFrom(Home(k), r, Ranks) = ReceivedFrom(k, r, Ranks)
    BY <1>1, SameReceived
  <2> QED BY <2>1, <2>2 DEF NumInv
<1>5. ReceivedFrom(k, r, Ranks) \in Nat
  BY <1>1, BaseFacts
<1> QED BY <1>3, <1>4, <1>5 DEF NumRecv

\* What the epilogue finds for item i in the region that the prefix sums name.
LEMMA ItemFound ==
  ASSUME IInv, SInv, TInv, CInv, NEW r \in Ranks, ~OnMain(r), stage[r] = "work",
         NEW k \in Calls, k = CallOf(r), Prog[k].kind \in AnyDispatch,
         NEW i \in 0 .. NumRecv(r, k) - 1, NEW s \in Ranks, InRegion(handle[r][Home(k)].psum, i, s)
  PROVE  \E t \in FromTo(k, s, r) :
           /\ IsItem(r, k, i, s, t)
           /\ buffer[r][<<s, i - RegionStart(handle[r][Home(k)].psum, s)>>] = Token(k, s, t, Rows(k, s)[t])
<1> DEFINE psum == handle[r][Home(k)].psum
<1>1. /\ kernels[r] = 2 * k - 1 /\ kernels[r] \in Nat /\ k \in Nat /\ setup \in Setups
  BY PlaceFacts
<1>2. EpilogueAt(r, k) /\ kernels[r] >= 2 * k - 1
  BY <1>1 DEF EpilogueAt
<1>3. \A q \in Ranks : psum[q] = ReceivedFrom(k, r, 0 .. q)
  BY <1>2, HomePsum
<1>4. s \in Nat /\ s <= NumRanks - 1 /\ NumRanks \in Nat
  BY SizesAssumption DEF Ranks
<1> HIDE DEF psum
<1>5. /\ RegionStart(psum, s) = Base(k, r, s)
      /\ i >= Base(k, r, s)
  <2>1. CASE s = 0
    <3>1. Base(k, r, s) = 0
      BY <1>1, <2>1, BaseFacts
    <3>2. i \in Nat
      BY <1>2, NumRight
    <3> QED BY <2>1, <3>1, <3>2 DEF RegionStart
  <2>2. CASE s # 0
    <3>1. s - 1 \in Ranks /\ s - 1 \in 0 .. s - 1
      BY <1>4, <2>2 DEF Ranks
    <3>2. psum[s - 1] = Base(k, r, s)
      BY <1>3, <3>1 DEF Base
    <3>3. psum[s - 1] <= i
      BY <3>1 DEF InRegion, psum
    <3>4. Base(k, r, s) \in Nat /\ i \in Nat
      BY <1>1, <1>2, NumRight, RegionFacts
    <3> QED BY <2>2, <3>2, <3>3, <3>4 DEF RegionStart
  <2> QED BY <2>1, <2>2
<1>6. i < Base(k, r, s) + Count(k, s, r)
  <2>1. i < psum[s]
    BY DEF InRegion, psum
  <2> QED BY <1>1, <1>3, <2>1, BaseFacts
<1>7. i \in Nat /\ Base(k, r, s) \in Nat /\ Count(k, s, r) \in Nat
  BY <1>1, <1>2, NumRight, RegionFacts
<1>8. PICK j \in 0 .. Count(k, s, r) - 1 : i = Base(k, r, s) + j /\ i - Base(k, r, s) = j
  BY <1>5, <1>6, <1>7
<1>9. PICK t \in FromTo(k, s, r) : Slot(s, k, <<t, r>>) = j
  BY <1>2, SlotOnto
<1>10. IsItem(r, k, i, s, t)
  BY <1>8, <1>9 DEF IsItem
<1>11. buffer[r][<<s, Slot(s, k, <<t, r>>)>>] = Token(k, s, t, Rows(k, s)[t])
  BY AllLanded
<1>12. i - RegionStart(psum, s) = Slot(s, k, <<t, r>>)
  BY <1>5, <1>8, <1>9
<1> QED BY <1>10, <1>11, <1>12 DEF psum

-----------------------------------------------------------------------------
(* Steps that copy no token leave the tensors' invariant alone. *)

LEMMA TensorsFixed ==
  ASSUME setup' = setup
  PROVE  /\ Prog' = Prog /\ Calls' = Calls
         /\ \A k : Expanded(k)' = Expanded(k)
         /\ \A k, s : Rows(k, s)' = Rows(k, s)
         /\ \A k, r, s : Base(k, r, s)' = Base(k, r, s) /\ FromTo(k, s, r)' = FromTo(k, s, r)
         /\ \A k, r, x : Start(k, r, x)' = Start(k, r, x)
         /\ \A k, r : ReceivedFrom(k, r, Ranks)' = ReceivedFrom(k, r, Ranks)
<1>1. \A k, r : AlignedTotals(k, r)' = AlignedTotals(k, r)
  BY NumbersFixed
<1>2. \A k, r, x : Start(k, r, x)' = Start(k, r, x)
  BY <1>1 DEF Start
<1>3. \A k, r, s : Base(k, r, s)' = Base(k, r, s)
  BY NumbersFixed DEF Base
<1> QED BY <1>2, <1>3, RoutingFixed, NumbersFixed

LEMMA ItemStays ==
  ASSUME IInv, SInv, setup' = setup, \A s \in Ranks : SentStays(s),
         NEW r \in Ranks, NEW k \in Calls, Prog[k].kind \in AnyDispatch, kernels[r] >= 2 * k - 1,
         NEW i, NEW s, NEW t, IsItem(r, k, i, s, t)
  PROVE  IsItem(r, k, i, s, t)'
<1>1. s \in Ranks /\ t \in FromTo(k, s, r) /\ i = Base(k, r, s) + Slot(s, k, <<t, r>>) /\ setup \in Setups
  BY PlaceFacts DEF IsItem
<1>2. PICK p \in PairsOf(k, s) : p = <<t, r>>
  BY <1>1, PairsFacts
<1>3. Slot(s, k, p)' = Slot(s, k, p)
  BY <1>1, AllSent DEF SentStays
<1>4. p' = p
  BY <1>2
<1>5. Slot(s, k, <<t, r>>)' = Slot(s, k, <<t, r>>)
  BY <1>2, <1>3
<1>6. Base(k, r, s)' = Base(k, r, s) /\ FromTo(k, s, r)' = FromTo(k, s, r)
  BY TensorsFixed
<1> QED BY <1>1, <1>5, <1>6 DEF IsItem

LEMMA CopiedBehindBarrier ==
  ASSUME IInv, NEW r \in Ranks, NEW k \in Calls, Copied(r, k) # {}
  PROVE  kernels[r] >= 2 * k - 1
<1>1. k \in Nat /\ kernels[r] \in Nat
  BY PlaceFacts
<1>2. kernels[r] >= 2 * k \/ kernels[r] = 2 * k - 1
  BY DEF Copied
<1> QED BY <1>1, <1>2

LEMMA TensorFrame ==
  ASSUME IInv, SInv, EInv, setup' = setup, \A s \in Ranks : SentStays(s),
         NEW r \in Ranks, NEW k \in Calls, Prog[k].kind \in AnyDispatch,
         handle'[r][k].meta = handle[r][k].meta, handle'[r][k].recv = handle[r][k].recv,
         handle'[r][k].epsum = handle[r][k].epsum,
         Copied(r, k)' = Copied(r, k),
         Prog[k].kind = "dispatch" => Finished(r, k)' = Finished(r, k)
  PROVE  TensorInv(r, k)'
<1>1. MetaInv(r, k) /\ PlainInv(r, k) /\ ExpandInv(r, k)
  BY DEF EInv, TensorInv
<1>2. /\ Prog' = Prog /\ Expanded(k)' = Expanded(k) /\ \A s : Rows(k, s)' = Rows(k, s)
      /\ \A x : Start(k, r, x)' = Start(k, r, x)
  BY TensorsFixed
<1>3. MetaInv(r, k)'
  <2>1. ASSUME NEW i \in Copied(r, k), NEW s, NEW t, IsItem(r, k, i, s, t)
        PROVE  IsItem(r, k, i, s, t)'
    BY <2>1, ItemStays, CopiedBehindBarrier
  <2>2. PICK meta : meta = handle[r][k].meta
    OBVIOUS
  <2>3. DOMAIN meta = Copied(r, k) /\ \A i \in DOMAIN meta : IsItem(r, k, i, meta[i].rank, meta[i].tok)
    BY <1>1, <2>2 DEF MetaInv
  <2>4. \A i \in DOMAIN meta : IsItem(r, k, i, meta[i].rank, meta[i].tok)'
    BY <2>1, <2>3
  <2> QED BY <2>2, <2>3, <2>4 DEF MetaInv
<1>4. \A i : SourceRow(r, k, i)' = SourceRow(r, k, i) /\ ItemToken(r, k, i)' = ItemToken(r, k, i)
  BY <1>2 DEF SourceRow, ItemToken
<1>5. PlainInv(r, k)'
  BY <1>1, <1>2, <1>4 DEF PlainInv
<1>6. \A x : Having(r, k, x)' = Having(r, k, x)
  BY <1>4 DEF Having
<1>7. \A x : Segment(r, k, x)' = Segment(r, k, x)
  BY <1>2 DEF Segment
<1>8. ExpandInv(r, k)'
  BY <1>1, <1>2, <1>4, <1>6, <1>7 DEF ExpandInv
<1> QED BY <1>3, <1>5, <1>8 DEF TensorInv

\* What leaves all tensors alone.
LEMMA TensorsFrame ==
  ASSUME IInv, SInv, EInv, setup' = setup, \A s \in Ranks : SentStays(s), TensorsKept,
         \A r \in Ranks : \A k \in Calls : Prog[k].kind \in AnyDispatch =>
           /\ Copied(r, k)' = Copied(r, k)
           /\ Prog[k].kind = "dispatch" => Finished(r, k)' = Finished(r, k)
  PROVE  EInv'
<1>1. Prog' = Prog /\ Calls' = Calls
  BY TensorsFixed
<1>2. ASSUME NEW r \in Ranks, NEW k \in Calls, Prog[k].kind \in AnyDispatch
      PROVE  TensorInv(r, k)'
  BY <1>2, TensorFrame DEF TensorsKept
<1> QED BY <1>1, <1>2 DEF EInv, AnyDispatch

\* A kernel that begins, passes a barrier or ends does not change whether the notify warps
\* of a dispatch are through.
LEMMA FinishedStays ==
  ASSUME IInv, WordsInv, NEW r \in Ranks,
         StartMain(r) \/ PassEntry(r) \/ Arrive(r) \/ EndMain(r) \/ StartEpilogue(r) \/ EndEpilogue(r),
         NEW j \in Calls, Prog[j].kind = "dispatch"
  PROVE  Finished(r, j)' = Finished(r, j)
<1>1. /\ kernels[r] \in Nat /\ CallOf(r) \in Nat /\ j \in Nat /\ setup \in Setups
      /\ (OnMain(r) => kernels[r] = 2 * CallOf(r) - 2) /\ (~OnMain(r) => kernels[r] = 2 * CallOf(r) - 1)
      /\ DOMAIN stage = Ranks /\ DOMAIN kernels = Ranks
  BY PlaceFacts DEF IInv, CountTypes
<1>2. CASE StartMain(r)
  <2>1. kernels' = kernels /\ stage[r] = "idle" /\ stage'[r] = "enter"
    BY <1>1, <1>2 DEF StartMain
  <2> QED BY <2>1 DEF Finished
<1>3. CASE PassEntry(r)
  <2>1. kernels' = kernels /\ notify' = notify /\ stage[r] = "enter" /\ stage'[r] = "work"
    BY <1>1, <1>3 DEF PassEntry, notifyVars
  <2>2. ASSUME kernels[r] = 2 * j - 2
        PROVE  notify[r] # "done"
    <3>1. OnMain(r)
      BY <2>1, PlaceFacts
    <3>2. j = CallOf(r)
      BY <1>1, <2>2, <3>1
    <3> QED BY <2>1, <3>2 DEF WordsInv, NotifyPlace, Kind
  <2> QED BY <2>1, <2>2 DEF Finished
<1>4. CASE Arrive(r)
  <2>1. kernels' = kernels /\ notify' = notify /\ stage[r] = "work" /\ stage'[r] = "leave"
    BY <1>1, <1>4 DEF Arrive, notifyVars
  <2> QED BY <2>1 DEF Finished
<1>5. CASE EndMain(r)
  <2>1. /\ kernels'[r] = kernels[r] + 1 /\ notify' = notify /\ stage[r] = "leave" /\ stage'[r] = "idle"
    BY <1>1, <1>5 DEF EndMain, notifyVars
  <2>2. notify[r] = "done"
    BY <2>1 DEF WordsInv, NotifyPlace
  <2>3. (kernels[r] + 1 >= 2 * j - 1) = (kernels[r] >= 2 * j - 1 \/ kernels[r] = 2 * j - 2)
    BY <1>1
  <2>4. OnMain(r) /\ kernels[r] + 1 # 2 * j - 2
    BY <1>1, <2>1, PlaceFacts
  <2> QED BY <2>1, <2>2, <2>3, <2>4 DEF Finished
<1>6. CASE StartEpilogue(r)
  <2>1. kernels' = kernels /\ ~OnMain(r)
    BY <1>6 DEF StartEpilogue
  <2>2. kernels[r] # 2 * j - 2
    BY <1>1, <2>1
  <2> QED BY <2>1, <2>2 DEF Finished
<1>7. CASE EndEpilogue(r)
  <2>1. kernels'[r] = kernels[r] + 1 /\ ~OnMain(r) /\ stage'[r] = "idle"
    BY <1>1, <1>7 DEF EndEpilogue
  <2>2. kernels[r] # 2 * j - 2 /\ (kernels[r] + 1 >= 2 * j - 1) = (kernels[r] >= 2 * j - 1)
    BY <1>1, <2>1
  <2> QED BY <2>1, <2>2 DEF Finished
<1> QED BY <1>2, <1>3, <1>4, <1>5, <1>6, <1>7

LEMMA RankTensors ==
  ASSUME IInv, SInv, EInv, NEW r \in Ranks, setup' = setup, \A s \in Ranks : SentStays(s), TensorsKept,
         \A q \in Ranks \ {r} : /\ kernels'[q] = kernels[q] /\ stage'[q] = stage[q]
                                /\ done'[q] = done[q] /\ notify'[q] = notify[q],
         \A k \in Calls : Prog[k].kind \in AnyDispatch =>
           /\ Copied(r, k)' = Copied(r, k)
           /\ Prog[k].kind = "dispatch" => Finished(r, k)' = Finished(r, k)
  PROVE  EInv'
<1>1. \A q \in Ranks \ {r} : \A k \in Calls : Copied(q, k)' = Copied(q, k) /\ Finished(q, k)' = Finished(q, k)
  BY TensorsFixed DEF Copied, Finished
<1> QED BY <1>1, TensorsFrame

\* In its first kernel a rank copies nothing.
LEMMA MainCopied ==
  ASSUME IInv, setup' = setup, NEW r \in Ranks, OnMain(r), kernels'[r] = kernels[r], NEW k \in Calls
  PROVE  Copied(r, k)' = Copied(r, k)
<1>1. kernels[r] = 2 * CallOf(r) - 2 /\ CallOf(r) \in Nat /\ k \in Nat
  BY PlaceFacts
<1>2. kernels[r] # 2 * k - 1
  BY <1>1
<1> QED BY <1>2, TensorsFixed DEF Copied

LEMMA SteadyTensors ==
  ASSUME IInv, SInv, EInv, UNCHANGED <<setup, kernels, stage, done, notify>>, SlotsKept, TensorsKept
  PROVE  EInv'
<1>1. \A r \in Ranks : \A k \in Calls : Copied(r, k)' = Copied(r, k) /\ Finished(r, k)' = Finished(r, k)
  BY TensorsFixed DEF Copied, Finished
<1>2. \A s \in Ranks : SentStays(s)
  BY QuietStepHistory DEF History
<1> QED BY <1>1, <1>2, TensorsFrame

LEMMA HandleStands == handle' = handle => SlotsKept /\ TensorsKept
BY DEF SlotsKept, TensorsKept

LEMMA HostTensors ==
  ASSUME IInv, SInv, EInv, NEW r \in Ranks, Host(r)
  PROVE  EInv'
<1>1. UNCHANGED <<setup, kernels, stage, done, notify>>
  BY DEF Host, HostCall, HostPoll, tokenVars, notifyVars
<1> QED BY <1>1, HostHandle, SteadyTensors

LEMMA NotifyTensors ==
  ASSUME IInv, WordsInv, SInv, EInv, NEW r \in Ranks
  PROVE  /\ \A sm : NotifyCount(r, sm) => EInv'
         /\ NotifySend(r) => EInv'
         /\ \A s : NotifyTake(r, s) => EInv'
<1>1. ASSUME UNCHANGED <<setup, kernels, stage, done, notify, handle>>
      PROVE  EInv'
  BY <1>1, HandleStands, SteadyTensors
<1>2. ASSUME NEW sm, NotifyCount(r, sm)
      PROVE  EInv'
  BY <1>1, <1>2 DEF NotifyCount, tokenVars
<1>3. ASSUME NEW s, NotifyTake(r, s)
      PROVE  EInv'
  BY <1>1, <1>3 DEF NotifyTake, tokenVars
<1>4. ASSUME NotifySend(r)
      PROVE  EInv'
  <2>1. /\ UNCHANGED <<setup, kernels, stage, done, handle>>
        /\ notify[r] = "count" /\ notify' = [notify EXCEPT ![r] = "wait"]
    BY <1>4 DEF NotifySend, tokenVars
  <2>2. notify'[r] = "wait" /\ \A q \in Ranks \ {r} : notify'[q] = notify[q]
    BY <2>1 DEF WordsInv, WordTypes
  <2>3. \A k \in Calls : Copied(r, k)' = Copied(r, k) /\ Finished(r, k)' = Finished(r, k)
    BY <2>1, <2>2, TensorsFixed DEF Copied, Finished
  <2>4. \A s \in Ranks : SentStays(s)
    BY <2>1, HandleStands, QuietStepHistory DEF History
  <2> QED BY <2>1, <2>2, <2>3, <2>4, HandleStands, RankTensors
<1> QED BY <1>2, <1>3, <1>4

LEMMA StartMainTensors ==
  ASSUME IInv, WordsInv, SInv, EInv, NEW r \in Ranks, Running(r), StartMain(r)
  PROVE  EInv'
<1>1. /\ stage[r] = "idle" /\ OnMain(r) /\ UNCHANGED <<setup, kernels>>
      /\ stage' = [stage EXCEPT ![r] = "enter"] /\ done' = [done EXCEPT ![r] = {}]
      /\ \E x : notify' = [notify EXCEPT ![r] = x]
      /\ handle' = IF Kind(r) = "dispatch" /\ setup.deterministic
                   THEN [handle EXCEPT ![r][CallOf(r)].slot = PrologueSlots(Rows(CallOf(r), r))] ELSE handle
  BY DEF StartMain
<1>2. PICK k \in Calls : k = CallOf(r)
  BY RunningCall DEF IInv
<1>3. TensorsKept
  BY <1>1, <1>2, PlaceFacts DEF HandleFields, TensorsKept
<1>4. \A q \in Ranks \ {r} : /\ kernels'[q] = kernels[q] /\ stage'[q] = stage[q]
                             /\ done'[q] = done[q] /\ notify'[q] = notify[q]
  BY <1>1 DEF IInv, CountTypes, WordsInv, WordTypes
<1>5. \A s \in Ranks : SentStays(s)
  BY StartMainHistory DEF History
<1>6. \A j \in Calls : Copied(r, j)' = Copied(r, j)
  BY <1>1, MainCopied
<1> QED BY <1>1, <1>3, <1>4, <1>5, <1>6, FinishedStays, RankTensors

LEMMA BarrierTensors ==
  ASSUME IInv, WordsInv, SInv, EInv, NEW r \in Ranks, PassEntry(r) \/ Arrive(r)
  PROVE  EInv'
<1>1. /\ UNCHANGED <<setup, kernels, done, notify, handle>> /\ stage[r] \in {"enter", "work"} /\ OnMain(r)
      /\ \E x : stage' = [stage EXCEPT ![r] = x]
  <2>1. stage[r] = "enter" => OnMain(r)
    BY PlaceFacts
  <2> QED BY <2>1 DEF PassEntry, Arrive, tokenVars, notifyVars
<1>2. \A q \in Ranks \ {r} : stage'[q] = stage[q]
  BY <1>1 DEF IInv, CountTypes
<1>3. \A s \in Ranks : SentStays(s)
  BY PassEntryHistory, ArriveHistory DEF History
<1>4. \A j \in Calls : Copied(r, j)' = Copied(r, j)
  BY <1>1, MainCopied
<1> QED BY <1>1, <1>2, <1>3, <1>4, FinishedStays, HandleStands, RankTensors

LEMMA SendTokenTensors ==
  ASSUME IInv, SInv, EInv, NEW r \in Ranks, Running(r), NEW t, NEW d, SendToken(r, t, d)
  PROVE  EInv'
<1>1. PICK k \in Calls : k = CallOf(r)
  BY RunningCall DEF IInv
<1>2. /\ UNCHANGED <<setup, kernels, stage, notify>> /\ OnMain(r)
      /\ done' = [done EXCEPT ![r] = @ \cup {<<t, d>>}]
      /\ \/ handle' = handle
         \/ \E x : handle' = [handle EXCEPT ![r][CallOf(r)].slot = x]
  BY DEF SendToken, notifyVars, MainRuns
<1>3. TensorsKept
  <2>1. DOMAIN handle = Ranks /\ \A q \in Ranks : DOMAIN handle[q] = Calls /\ \A j \in Calls : DOMAIN handle[q][j] = HandleFields
    BY PlaceFacts
  <2>2. ASSUME NEW x, handle' = [handle EXCEPT ![r][k].slot = x]
        PROVE  TensorsKept
    BY ONLY <2>1, <2>2, r \in Ranks, k \in Calls DEF HandleFields, TensorsKept
  <2> QED BY <1>1, <1>2, <2>2, HandleStands
<1>4. \A q \in Ranks \ {r} : done'[q] = done[q]
  BY <1>2 DEF IInv, CountTypes
<1>5. \A s \in Ranks : SentStays(s)
  <2>1. PICK p : p = <<t, d>>
    OBVIOUS
  <2> QED BY <1>1, <2>1, SendTokenHistory
<1>6. \A j \in Calls : Copied(r, j)' = Copied(r, j) /\ Finished(r, j)' = Finished(r, j)
  BY <1>2, MainCopied DEF Finished
<1> QED BY <1>2, <1>3, <1>4, <1>5, <1>6, RankTensors

LEMMA SendBackTensors ==
  ASSUME IInv, SInv, EInv, NEW r \in Ranks, NEW i, SendBack(r, i)
  PROVE  EInv'
<1>1. /\ UNCHANGED <<setup, kernels, stage, notify, handle>> /\ OnMain(r)
      /\ done' = [done EXCEPT ![r] = @ \cup {i}]
  BY DEF SendBack, notifyVars, MainRuns
<1>2. \A q \in Ranks \ {r} : done'[q] = done[q]
  BY <1>1 DEF IInv, CountTypes
<1>3. \A s \in Ranks : SentStays(s)
  BY SendBackHistory DEF History
<1>4. \A j \in Calls : Copied(r, j)' = Copied(r, j) /\ Finished(r, j)' = Finished(r, j)
  BY <1>1, MainCopied DEF Finished
<1> QED BY <1>1, <1>2, <1>3, <1>4, HandleStands, RankTensors

LEMMA EndMainTensors ==
  ASSUME IInv, WordsInv, SInv, EInv, NEW r \in Ranks, EndMain(r)
  PROVE  EInv'
<1>1. /\ stage[r] = "leave" /\ stage' = [stage EXCEPT ![r] = "idle"]
      /\ kernels' = [kernels EXCEPT ![r] = @ + 1]
      /\ UNCHANGED <<setup, done, notify, handle>>
  BY DEF EndMain, notifyVars
<1>2. /\ stage'[r] = "idle" /\ kernels'[r] = kernels[r] + 1
      /\ \A q \in Ranks \ {r} : stage'[q] = stage[q] /\ kernels'[q] = kernels[q]
      /\ OnMain(r) /\ CallOf(r) \in Nat /\ kernels[r] = 2 * CallOf(r) - 2
  BY <1>1, PlaceFacts DEF IInv, CountTypes
<1>3. ASSUME NEW j \in Calls
      PROVE  Copied(r, j)' = Copied(r, j)
  <2>1. j \in Nat
    BY PlaceFacts
  <2>2. kernels[r] # 2 * j - 1 /\ (kernels[r] + 1 >= 2 * j) = (kernels[r] >= 2 * j)
    BY <1>2, <2>1
  <2> QED BY <1>1, <1>2, <2>2, TensorsFixed DEF Copied
<1>4. \A s \in Ranks : SentStays(s)
  BY EndMainHistory DEF History
<1> QED BY <1>1, <1>2, <1>3, <1>4, FinishedStays, HandleStands, RankTensors

LEMMA StartEpilogueTensors ==
  ASSUME IInv, WordsInv, SInv, EInv, NEW r \in Ranks, StartEpilogue(r)
  PROVE  EInv'
<1>1. /\ stage[r] = "idle" /\ stage' = [stage EXCEPT ![r] = "work"] /\ done' = [done EXCEPT ![r] = {}]
      /\ UNCHANGED <<setup, kernels, notify, handle>>
  BY DEF StartEpilogue, notifyVars
<1>2. /\ stage'[r] = "work" /\ done'[r] = {}
      /\ \A q \in Ranks \ {r} : stage'[q] = stage[q] /\ done'[q] = done[q]
  BY <1>1 DEF IInv, CountTypes
<1>3. \A j \in Calls : Copied(r, j)' = Copied(r, j)
  BY <1>1, <1>2, TensorsFixed DEF Copied
<1>4. \A s \in Ranks : SentStays(s)
  BY StartEpilogueHistory DEF History
<1> QED BY <1>1, <1>2, <1>3, <1>4, FinishedStays, HandleStands, RankTensors

\* The epilogue ends when it is through with all items: what it has copied is all there is.
LEMMA EndEpilogueTensors ==
  ASSUME IInv, WordsInv, SInv, CInv, EInv, NEW r \in Ranks, EndEpilogue(r)
  PROVE  EInv'
<1>1. /\ stage[r] = "work" /\ ~OnMain(r) /\ done[r] = Items(r)
      /\ stage' = [stage EXCEPT ![r] = "idle"] /\ kernels' = [kernels EXCEPT ![r] = @ + 1]
      /\ UNCHANGED <<setup, done, notify, handle>>
  BY DEF EndEpilogue, tokenVars, notifyVars
<1>2. /\ stage'[r] = "idle" /\ kernels'[r] = kernels[r] + 1
      /\ \A q \in Ranks \ {r} : stage'[q] = stage[q] /\ kernels'[q] = kernels[q]
      /\ CallOf(r) \in Nat /\ kernels[r] = 2 * CallOf(r) - 1
  BY <1>1, PlaceFacts DEF IInv, CountTypes
<1>3. ASSUME NEW j \in Calls, Prog[j].kind \in AnyDispatch
      PROVE  Copied(r, j)' = Copied(r, j)
  <2>1. j \in Nat /\ ReceivedFrom(j, r, Ranks)' = ReceivedFrom(j, r, Ranks)
    BY <1>1, PlaceFacts, TensorsFixed
  <2>2. CASE j = CallOf(r)
    <3>1. EpilogueAt(r, j)
      BY <1>1, <1>2, <2>1, <2>2 DEF EpilogueAt
    <3>2. done[r] = 0 .. ReceivedFrom(j, r, Ranks) - 1
      <4>1. Items(r) = 0 .. NumRecv(r, j) - 1
        BY <1>1, <1>3, <2>2 DEF Items, Kind, AnyDispatch
      <4> QED BY <1>1, <3>1, <4>1, NumRight
    <3>3. Copied(r, j) = done[r]
      BY <1>1, <1>2, <2>1, <2>2 DEF Copied
    <3>4. kernels'[r] >= 2 * j
      BY <1>2, <2>1, <2>2
    <3>5. Copied(r, j)' = 0 .. ReceivedFrom(j, r, Ranks) - 1
      BY <2>1, <3>4 DEF Copied
    <3> QED BY <3>2, <3>3, <3>5
  <2>3. CASE j # CallOf(r)
    <3>1. kernels[r] # 2 * j - 1 /\ (kernels[r] + 1 >= 2 * j) = (kernels[r] >= 2 * j)
      BY <1>2, <2>1, <2>3
    <3> QED BY <1>1, <1>2, <2>1, <3>1 DEF Copied
  <2> QED BY <2>2, <2>3
<1>4. \A s \in Ranks : SentStays(s)
  BY EndEpilogueHistory DEF History
<1> QED BY <1>1, <1>2, <1>3, <1>4, FinishedStays, HandleStands, RankTensors

LEMMA ReduceTokenTensors ==
  ASSUME IInv, SInv, EInv, NEW r \in Ranks, Running(r), NEW t, ReduceToken(r, t)
  PROVE  EInv'
<1>1. PICK k \in Calls : k = CallOf(r)
  BY RunningCall DEF IInv
<1>2. /\ UNCHANGED <<setup, kernels, stage, notify>> /\ ~OnMain(r) /\ Prog[k].kind = "combine"
      /\ done' = [done EXCEPT ![r] = @ \cup {t}]
  BY <1>1 DEF ReduceToken, notifyVars, EpilogueRuns, Kind
<1>3. \A q \in Ranks \ {r} : done'[q] = done[q]
  BY <1>2 DEF IInv, CountTypes
<1>4. \A s \in Ranks : SentStays(s)
  BY EpilogueHistory DEF History
<1>5. ASSUME NEW j \in Calls, Prog[j].kind \in AnyDispatch
      PROVE  Copied(r, j)' = Copied(r, j) /\ Finished(r, j)' = Finished(r, j)
  <2>1. j \in Nat /\ k \in Nat /\ kernels[r] = 2 * k - 1 /\ j # k
    BY <1>1, <1>2, <1>5, PlaceFacts DEF AnyDispatch
  <2>2. kernels[r] # 2 * j - 1
    BY <2>1
  <2> QED BY <1>2, <2>2, TensorsFixed DEF Copied, Finished
<1> QED BY <1>2, <1>3, <1>4, <1>5, EpilogueHandle, RankTensors

-----------------------------------------------------------------------------
(* Where the experts' segments begin. *)

LEMMA TotalsNat ==
  ASSUME setup \in Setups, NEW k \in Calls, NEW r \in Ranks, NEW x \in LocalExperts
  PROVE  /\ ExpertTotal(k, r, x) \in Nat
         /\ AlignedTotals(k, r)[x] = Align(ExpertTotal(k, r, x))
         /\ Align(ExpertTotal(k, r, x)) \in Nat /\ Align(ExpertTotal(k, r, x)) >= ExpertTotal(k, r, x)
<1> DEFINE f == [s \in Ranks |-> ExpertCount(k, s, r * NumExpertsPerRank + x)]
<1>1. \A s \in Ranks : f[s] = ExpertCount(k, s, r * NumExpertsPerRank + x)
  OBVIOUS
<1> HIDE DEF f
<1>2. ExpertTotal(k, r, x) \in Nat
  BY <1>1, ExpertSums
<1> QED BY <1>2, AlignNat DEF AlignedTotals

LEMMA StartFacts ==
  ASSUME setup \in Setups, NEW k \in Calls, NEW r \in Ranks
  PROVE  /\ Start(k, r, 0) = 0
         /\ Start(k, r, NumExpertsPerRank) = Sum(AlignedTotals(k, r), LocalExperts)
         /\ \A x \in LocalExperts : /\ Start(k, r, x) \in Nat
                                    /\ Start(k, r, x + 1) = Start(k, r, x) + Align(ExpertTotal(k, r, x))
         /\ \A x \in LocalExperts : \A n \in 0 .. NumExpertsPerRank :
              x < n => Start(k, r, x) + Align(ExpertTotal(k, r, x)) <= Start(k, r, n)
<1> DEFINE f == AlignedTotals(k, r)
           N == NumExpertsPerRank
<1>0. N \in Nat /\ N >= 1 /\ LocalExperts = 0 .. N - 1
  BY SizesAssumption DEF LocalExperts
<1>1. Start(k, r, 0) = 0
  <2>1. 0 .. 0 - 1 = {}
    OBVIOUS
  <2> QED BY <2>1, SumEmpty DEF Start
<1>2. Start(k, r, N) = Sum(f, LocalExperts)
  BY <1>0 DEF Start
<1>3. \A x \in LocalExperts : /\ f[x] = Align(ExpertTotal(k, r, x)) /\ f[x] \in Nat
  BY TotalsNat
<1>4. \A n \in 0 .. N : Start(k, r, n) = Sum(f, 0 .. n - 1)
  BY DEF Start
<1> HIDE DEF f, N
<1>5. ASSUME NEW n \in 0 .. N
      PROVE  Start(k, r, n) \in Nat
  <2>1. 0 .. n - 1 \subseteq LocalExperts /\ IsFiniteSet(0 .. n - 1)
    BY <1>0, FS_Interval
  <2> QED BY <1>3, <1>4, <2>1, SumNat
<1>6. ASSUME NEW x \in LocalExperts
      PROVE  Start(k, r, x + 1) = Start(k, r, x) + f[x]
  <2>1. x \in Nat /\ x \in 0 .. N /\ x + 1 \in 0 .. N
    BY <1>0
  <2>2. 0 .. (x + 1) - 1 = (0 .. x - 1) \cup {x} /\ x \notin 0 .. x - 1 /\ (0 .. x - 1) \cup {x} \subseteq LocalExperts
    BY <1>0, <2>1
  <2>3. IsFiniteSet(0 .. x - 1) /\ \A y \in (0 .. x - 1) \cup {x} : f[y] \in Int
    <3>1. IsFiniteSet(0 .. x - 1)
      BY <2>1, FS_Interval
    <3> QED BY <1>3, <2>2, <3>1
  <2>4. Sum(f, (0 .. x - 1) \cup {x}) = f[x] + Sum(f, 0 .. x - 1)
    BY <2>2, <2>3, SumAdd
  <2>5. Start(k, r, x + 1) = f[x] + Start(k, r, x)
    BY <1>4, <2>1, <2>2, <2>4
  <2>6. f[x] \in Nat /\ Start(k, r, x) \in Nat
    BY <1>3, <1>5, <2>1
  <2> QED BY <2>5, <2>6
<1> DEFINE T == {n \in Nat : n <= N => \A x \in LocalExperts : x < n => Start(k, r, x) + f[x] <= Start(k, r, n)}
<1>7. 0 \in T
  BY <1>0
<1>8. ASSUME NEW n \in Nat, n \in T
      PROVE  n + 1 \in T
  <2> SUFFICES ASSUME n + 1 <= N, NEW x \in LocalExperts, x < n + 1
               PROVE  Start(k, r, x) + f[x] <= Start(k, r, n + 1)
    OBVIOUS
  <2>1. n \in LocalExperts /\ x \in Nat /\ n \in 0 .. N /\ x \in 0 .. N /\ n + 1 \in 0 .. N
    BY <1>0
  <2>2. /\ Start(k, r, n + 1) = Start(k, r, n) + f[n]
        /\ f[n] \in Nat /\ f[x] \in Nat /\ Start(k, r, n) \in Nat /\ Start(k, r, x) \in Nat
    BY <1>3, <1>5, <1>6, <2>1
  <2>3. CASE x < n
    <3>1. Start(k, r, x) + f[x] <= Start(k, r, n)
      BY <1>0, <1>8, <2>1, <2>3
    <3> QED BY <2>2, <3>1
  <2>4. CASE x = n
    BY <2>2, <2>4
  <2> QED BY <2>1, <2>3, <2>4
<1> HIDE DEF T
<1>9. \A n \in Nat : n \in T
  BY <1>7, <1>8, Induction
<1>10. \A x \in LocalExperts : \A n \in 0 .. N : x < n => Start(k, r, x) + f[x] <= Start(k, r, n)
  <2>1. \A n \in 0 .. N : n \in T
    BY <1>0, <1>9
  <2> QED BY <1>0, <2>1 DEF T
<1>11. \A x \in LocalExperts : x \in 0 .. N
  BY <1>0
<1> QED BY <1>1, <1>2, <1>3, <1>5, <1>6, <1>10, <1>11 DEF f, N

\* Item i of H is token g[i] of sender f[i], which has expert x among its experts.
ItemsFor(r, k, x, H, f, g) ==
  \A i \in H : /\ IsItem(r, k, i, f[i], g[i])
               /\ \E l \in Lanes : Rows(k, f[i])[g[i]][l] = r * NumExpertsPerRank + x
AllItems(r, k, x, H, f, g) ==
  \A p \in RoutedToExpert(k, r * NumExpertsPerRank + x) : \E i \in H : f[i] = p[1] /\ g[i] = p[2]

\* Items for an expert are tokens routed to it, each once: no more than there are.
LEMMA ItemsFit ==
  ASSUME IInv, NEW r \in Ranks, NEW k \in Calls, NEW x \in LocalExperts,
         NEW H, NEW f, NEW g, ItemsFor(r, k, x, H, f, g)
  PROVE  /\ IsFiniteSet(H) /\ Cardinality(H) \in Nat /\ Cardinality(H) <= ExpertTotal(k, r, x)
         /\ AllItems(r, k, x, H, f, g) => Cardinality(H) = ExpertTotal(k, r, x)
<1> DEFINE e == r * NumExpertsPerRank + x
           Q == RoutedToExpert(k, e)
           h == [i \in H |-> <<f[i], g[i]>>]
<1>0. setup \in Setups
  BY PlaceFacts
<1>z. \A i \in H : IsItem(r, k, i, f[i], g[i]) /\ \E l \in Lanes : Rows(k, f[i])[g[i]][l] = e
  BY DEF ItemsFor
<1>1. ASSUME NEW i \in H
      PROVE  h[i] \in Q
  <2>1. f[i] \in Ranks /\ g[i] \in FromTo(k, f[i], r)
    BY <1>z DEF IsItem
  <2>2. g[i] \in ExpertFrom(k, f[i], e)
    <3>1. g[i] \in DOMAIN Rows(k, f[i]) /\ DOMAIN Rows(k, f[i])[g[i]] = Lanes
      BY <1>0, <2>1, RowFacts DEF FromTo
    <3> QED BY <1>z, <3>1 DEF ExpertFrom
  <2>3. <<f[i], g[i]>> \in Q
    BY <1>0, <2>1, <2>2, RoutedFacts
  <2> QED BY <2>3
<1>2. ASSUME NEW i \in H, NEW j \in H, h[i] = h[j]
      PROVE  i = j
  <2>1. f[i] = f[j] /\ g[i] = g[j]
    BY <1>2
  <2> QED BY <1>z, <2>1 DEF IsItem
<1>3. IsFiniteSet(Q) /\ Cardinality(Q) = ExpertTotal(k, r, x)
  <2>1. IsFiniteSet(Ranks) /\ IsFiniteSet(1 .. NumMaxTokensPerRank)
    <3>1. NumRanks - 1 \in Int /\ NumMaxTokensPerRank \in Int /\ 0 \in Int /\ 1 \in Int
      BY SizesAssumption
    <3> QED BY ONLY <3>1, FS_Interval DEF Ranks
  <2>2. IsFiniteSet(Ranks \X (1 .. NumMaxTokensPerRank))
    BY <2>1, FS_Product
  <2>3. IsFiniteSet(Q)
    BY <2>2, FS_Subset DEF RoutedToExpert, RoutedTo
  <2> QED BY <2>3 DEF ExpertTotal
<1>a. \A p \in Q : p = <<p[1], p[2]>>
  BY DEF RoutedToExpert, RoutedTo
<1>b. \A i \in H : h[i] = <<f[i], g[i]>>
  OBVIOUS
<1>c. h \in [H -> Q]
  BY <1>1
<1> HIDE DEF e, Q, h
<1>4. h \in Injection(H, Q)
  BY <1>2, <1>c DEF Injection, IsInjective
<1>5. IsFiniteSet(H) /\ Cardinality(H) <= Cardinality(Q) /\ (Cardinality(H) = Cardinality(Q) <=> h \in Surjection(H, Q))
  BY <1>3, <1>4, FS_Injection
<1>6. ASSUME AllItems(r, k, x, H, f, g)
      PROVE  h \in Surjection(H, Q)
  <2>a. \A p \in Q : \E i \in H : f[i] = p[1] /\ g[i] = p[2]
    BY <1>6 DEF AllItems, Q, e
  <2>1. \A p \in Q : \E i \in H : h[i] = p
    BY <1>a, <1>b, <2>a
  <2> QED BY <1>c, <2>1 DEF Surjection
<1>7. Cardinality(H) \in Nat
  BY <1>5, FS_CardinalityType
<1> QED BY <1>3, <1>5, <1>6, <1>7 DEF Q, e

LEMMA EInit == Init => EInv
<1> SUFFICES ASSUME Init
             PROVE  EInv
  OBVIOUS
<1>1. /\ kernels = [r \in Ranks |-> 0] /\ stage = [r \in Ranks |-> "idle"]
      /\ handle = [r \in Ranks |-> [k \in Calls |-> NoHandle]]
      /\ setup \in Setups /\ Prog \in Seq(Call)
  BY SetupsAssumption DEF Init, Prog
<1>2. ASSUME NEW r \in Ranks, NEW k \in Calls, Prog[k].kind \in AnyDispatch
      PROVE  TensorInv(r, k)
  <2>1. /\ kernels[r] = 0 /\ stage[r] = "idle" /\ k \in Nat /\ k >= 1
        /\ handle[r][k].meta = <<>> /\ handle[r][k].recv = <<>>
    BY <1>1 DEF Calls, NoHandle
  <2>2. Copied(r, k) = {} /\ ~Finished(r, k)
    BY <2>1 DEF Copied, Finished
  <2> QED BY <2>1, <2>2 DEF TensorInv, MetaInv, PlainInv, ExpandInv
<1> QED BY <1>2 DEF EInv

LEMMA NotifyFinishTensors ==
  ASSUME IInv, WordsInv, SInv, EInv, NEW r \in Ranks, Running(r), NotifyFinish(r)
  PROVE  EInv'
<1>1. PICK k \in Calls : k = CallOf(r)
  BY RunningCall DEF IInv
<1>2. /\ stage[r] = "work" /\ OnMain(r) /\ Prog[k].kind = "dispatch" /\ notify[r] = "wait"
      /\ notify' = [notify EXCEPT ![r] = "done"]
      /\ UNCHANGED <<setup, kernels, stage, done>>
      /\ setup \in Setups
  BY <1>1 DEF NotifyFinish, MainRuns, Kind, tokenVars, IInv, CountTypes
<1>3. /\ k \in Nat /\ k >= 1 /\ kernels[r] = 2 * k - 2 /\ kernels[r] \in Nat
      /\ notify'[r] = "done" /\ \A q \in Ranks \ {r} : notify'[q] = notify[q]
  BY <1>1, <1>2, PlaceFacts DEF WordsInv, WordTypes
<1>4. /\ SlotsKept
      /\ \A q \in Ranks : \A j \in Calls : /\ handle'[q][j].meta = handle[q][j].meta
                                           /\ handle'[q][j].recv = handle[q][j].recv
      /\ \A q \in Ranks : \A j \in Calls : q # r \/ j # k => handle'[q][j].epsum = handle[q][j].epsum
  BY <1>1, NotifyHandle
<1>5. \A s \in Ranks : SentStays(s)
  BY <1>2, <1>4, QuietStepHistory DEF History
<1>6. /\ ~Finished(r, k) /\ Copied(r, k) = {} /\ Copied(r, k)' = {}
      /\ \A q \in Ranks : \A j \in Calls : q # r \/ j # k => Finished(q, j)' = Finished(q, j)
      /\ \A q \in Ranks : \A j \in Calls : Copied(q, j)' = Copied(q, j)
  <2>1. \A j \in Calls : j \in Nat /\ (j # k => kernels[r] # 2 * j - 2)
    <3>1. \A j \in Calls : j \in Nat
      BY PlaceFacts
    <3> QED BY ONLY <1>3, <3>1, k \in Calls
  <2>2. \A q \in Ranks : \A j \in Calls : Copied(q, j)' = Copied(q, j)
    BY <1>2, TensorsFixed DEF Copied
  <2>3. Copied(r, k) = {}
    BY <1>3 DEF Copied
  <2> QED BY <1>2, <1>3, <2>1, <2>2, <2>3 DEF Finished
<1>7. \A x \in LocalExperts : handle'[r][k].epsum[x] = Start(k, r, x)
  <2> DEFINE totalOf(e) == Sum([s \in Ranks |-> taken[r][s].e[e]], Ranks)
             total == [e \in LocalExperts |-> totalOf(e)]
             aligned == [e \in LocalExperts |-> Align(total[e])]
             epsum == [e \in LocalExperts |-> Sum(aligned, 0 .. e - 1)]
  <2>1. \A s \in Ranks : \A x \in LocalExperts : taken[r][s].e[x] = ExpertCount(k, s, r * NumExpertsPerRank + x)
    <3>1. InDispatch(r) /\ \A s \in Ranks : taken[r][s] # NotTaken
      BY <1>1, <1>2 DEF InDispatch, Kind, NotifyFinish
    <3>2. \A s \in Ranks : taken[r][s] = Due(k, s, r)
      BY <1>1, <3>1 DEF WordsInv, Taken
    <3>3. \A s \in Ranks : \A x \in LocalExperts : Due(k, s, r).e[x] = ExpertCount(k, s, r * NumExpertsPerRank + x)
      BY DEF Due
    <3> QED BY <3>2, <3>3
  <2>2. aligned = AlignedTotals(k, r)
    <3>1. ASSUME NEW x \in LocalExperts
          PROVE  totalOf(x) = ExpertTotal(k, r, x)
      <4> DEFINE f == [s \in Ranks |-> taken[r][s].e[x]]
      <4>1. \A s \in Ranks : f[s] = ExpertCount(k, s, r * NumExpertsPerRank + x)
        BY <2>1
      <4> HIDE DEF f
      <4>2. Sum(f, Ranks) = ExpertTotal(k, r, x)
        BY <1>2, <4>1, ExpertSums
      <4> QED BY <4>2 DEF f
    <3> HIDE DEF totalOf
    <3>2. \A x \in LocalExperts : aligned[x] = Align(ExpertTotal(k, r, x))
      BY <3>1
    <3> QED BY <3>2 DEF AlignedTotals
  <2>3. \E y : handle' = [handle EXCEPT ![r][k].psum = y, ![r][k].epsum = epsum]
    BY <1>1 DEF NotifyFinish
  <2>4. \A x \in LocalExperts : epsum[x] = Start(k, r, x)
    BY <2>2 DEF Start
  <2> HIDE DEF epsum
  <2>5. handle'[r][k].epsum = epsum
    <3>1. DOMAIN handle = Ranks /\ \A q \in Ranks : DOMAIN handle[q] = Calls /\ \A j \in Calls : DOMAIN handle[q][j] = HandleFields
      BY PlaceFacts
    <3>2. PICK y : handle' = [handle EXCEPT ![r][k].psum = y, ![r][k].epsum = epsum]
      BY <2>3
    <3> QED BY ONLY <3>1, <3>2, r \in Ranks, k \in Calls DEF HandleFields
  <2> QED BY <2>4, <2>5
<1>8. /\ Prog' = Prog /\ Calls' = Calls /\ Expanded(k)' = Expanded(k)
      /\ \A x : Start(k, r, x)' = Start(k, r, x)
  BY <1>2, TensorsFixed
<1>9. TensorInv(r, k)'
  <2>1. MetaInv(r, k) /\ PlainInv(r, k) /\ ExpandInv(r, k)
    BY <1>2 DEF EInv, TensorInv, AnyDispatch
  <2>2. DOMAIN handle'[r][k].meta = {}
    BY <1>4, <1>6, <2>1 DEF MetaInv
  <2>3. MetaInv(r, k)'
    BY <1>6, <2>2 DEF MetaInv
  <2>4. PlainInv(r, k)'
    BY <1>4, <1>6, <1>8, <2>1 DEF PlainInv
  <2>5. Expanded(k) => DOMAIN handle'[r][k].recv = {}
    BY <1>2, <1>4, <1>6, <2>1 DEF ExpandInv
  <2>6. ASSUME NEW x \in LocalExperts
        PROVE  Having(r, k, x)' = {} /\ Segment(r, k, x)' = {} /\ Start(k, r, x) \in Nat
    <3>1. Start(k, r, x) \in Nat
      BY <1>2, StartFacts
    <3>2. Having(r, k, x)' = {}
      BY <2>2 DEF Having
    <3>3. Segment(r, k, x)' = Start(k, r, x) .. Start(k, r, x) - 1
      BY <1>7, <1>8 DEF Segment
    <3>4. Start(k, r, x) .. Start(k, r, x) - 1 = {}
      BY <3>1
    <3> QED BY <3>1, <3>2, <3>3, <3>4
  <2>7. Finished(r, k)'
    BY <1>2, <1>3 DEF Finished
  <2>8. \A x \in LocalExperts : handle'[r][k].epsum[x] = Start(k, r, x)' + Cardinality(Having(r, k, x)')
    <3> SUFFICES ASSUME NEW x \in LocalExperts
                 PROVE  handle'[r][k].epsum[x] = Start(k, r, x)' + Cardinality(Having(r, k, x)')
      OBVIOUS
    <3>1. Start(k, r, x)' = Start(k, r, x) /\ Start(k, r, x) \in Nat /\ Cardinality(Having(r, k, x)') = 0
      BY <1>8, <2>6, FS_EmptySet
    <3>2. Start(k, r, x)' + Cardinality(Having(r, k, x)') = Start(k, r, x) + 0
      BY <3>1
    <3> QED BY <1>7, <3>1, <3>2
  <2>9. UNION {Segment(r, k, x)' : x \in LocalExperts} = {}
    BY <2>6
  <2>10. ExpandInv(r, k)'
    BY <1>8, <2>5, <2>6, <2>7, <2>8, <2>9 DEF ExpandInv
  <2> QED BY <2>3, <2>4, <2>10 DEF TensorInv
<1>10. ASSUME NEW q \in Ranks, NEW j \in Calls, Prog[j].kind \in AnyDispatch, q # r \/ j # k
       PROVE  TensorInv(q, j)'
  BY <1>2, <1>4, <1>5, <1>6, <1>10, TensorFrame
<1> QED BY <1>8, <1>9, <1>10 DEF EInv, AnyDispatch

-----------------------------------------------------------------------------
(* The epilogue copies a token. *)

\* The local experts of rank r that a row names.
ExpertsIn(row, r) == {y \in LocalExperts : \E l \in Lanes : row[l] = r * NumExpertsPerRank + y}

LEMMA DivMod ==
  ASSUME NEW N \in Nat, N >= 1, NEW e \in Nat
  PROVE  e = ((e \div N) * N) + (e % N) /\ (e % N) \in 0 .. N - 1 /\ e \div N \in Nat
OBVIOUS

LEMMA ExpertOfRank ==
  ASSUME NEW e \in Experts \cup {-1}, NEW r \in Ranks
  PROVE  RankOf(e) = r <=> LocalIdx(e) \in LocalExperts /\ e = r * NumExpertsPerRank + LocalIdx(e)
<1>1. NumExpertsPerRank \in Nat /\ NumExpertsPerRank >= 1 /\ r \in Nat /\ NumRanks \in Nat
  BY SizesAssumption DEF Ranks
<1>2. ASSUME RankOf(e) = r
      PROVE  LocalIdx(e) \in LocalExperts /\ e = r * NumExpertsPerRank + LocalIdx(e)
  <2>1. e \in Nat /\ e \div NumExpertsPerRank = r
    <3>1. e # -1 => e \in Nat
      BY DEF Experts
    <3>2. e >= 0
      BY <1>1, <1>2 DEF RankOf
    <3> QED BY <1>2, <3>1, <3>2 DEF RankOf
  <2> DEFINE N == NumExpertsPerRank
  <2>2. e = ((e \div N) * N) + (e % N) /\ (e % N) \in 0 .. N - 1
    <3>1. N \in Nat /\ N >= 1 /\ e \in Nat
      BY <1>1, <2>1
    <3> HIDE DEF N
    <3> QED BY ONLY <3>1, DivMod
  <2>3. LocalIdx(e) = e % N /\ LocalExperts = 0 .. N - 1
    BY DEF LocalIdx, LocalExperts
  <2>4. e = (r * N) + (e % N)
    BY ONLY <2>1, <2>2
  <2> HIDE DEF N
  <2>5. LocalIdx(e) \in LocalExperts /\ e = r * N + LocalIdx(e)
    BY ONLY <2>2, <2>3, <2>4, Zenon
  <2> QED BY <2>5 DEF N
<1>3. ASSUME LocalIdx(e) \in LocalExperts, e = r * NumExpertsPerRank + LocalIdx(e)
      PROVE  RankOf(e) = r
  BY <1>3, LocalExpertRank
<1> QED BY <1>2, <1>3

LEMMA UsedExperts ==
  ASSUME NEW row \in Row, NEW r \in Ranks
  PROVE  {LocalIdx(row[l]) : l \in LanesTo(row, r)} = ExpertsIn(row, r)
<1>0. DOMAIN row = Lanes /\ \A l \in Lanes : row[l] \in Experts \cup {-1}
  BY DEF Row
<1>1. ASSUME NEW l \in LanesTo(row, r)
      PROVE  LocalIdx(row[l]) \in ExpertsIn(row, r)
  <2>1. l \in Lanes /\ RankOf(row[l]) = r
    BY <1>0 DEF LanesTo
  <2>2. LocalIdx(row[l]) \in LocalExperts /\ row[l] = r * NumExpertsPerRank + LocalIdx(row[l])
    BY <1>0, <2>1, ExpertOfRank
  <2> QED BY <2>1, <2>2 DEF ExpertsIn
<1>2. ASSUME NEW y \in ExpertsIn(row, r)
      PROVE  y \in {LocalIdx(row[l]) : l \in LanesTo(row, r)}
  <2>1. PICK l \in Lanes : row[l] = r * NumExpertsPerRank + y
    BY DEF ExpertsIn
  <2>2. RankOf(row[l]) = r /\ LocalIdx(row[l]) = y
    BY <2>1, LocalExpertRank DEF ExpertsIn
  <2>3. l \in LanesTo(row, r)
    BY <1>0, <2>2 DEF LanesTo
  <2> QED BY <2>2, <2>3
<1> QED BY <1>1, <1>2

\* Handle h becomes g: item i is token t of rank s, and goes to its place in the tensor or
\* to the next place of each of its experts' segments.
CopiedTo(h, g, r, k, i, s, t) ==
  LET row == Rows(k, s)[t]
      new == {h.epsum[y] : y \in ExpertsIn(row, r)}
      x   == Token(k, s, t, row)
  IN  /\ DOMAIN g.meta = DOMAIN h.meta \cup {i}
      /\ g.meta[i].rank = s /\ g.meta[i].tok = t
      /\ g.meta[i].lane = MasterLane(LanesTo(row, r))
      /\ g.meta[i].place = [l \in Lanes |-> IF l \in LanesTo(row, r) /\ Expanded(k)
                                            THEN h.epsum[LocalIdx(row[l])] ELSE -1]
      /\ \A j \in DOMAIN h.meta \ {i} : g.meta[j] = h.meta[j]
      /\ ~Expanded(k) => /\ DOMAIN g.recv = DOMAIN h.recv \cup {i} /\ g.recv[i] = x
                         /\ \A j \in DOMAIN h.recv \ {i} : g.recv[j] = h.recv[j]
      /\ Expanded(k) => /\ DOMAIN g.recv = DOMAIN h.recv \cup new
                        /\ \A p \in new : g.recv[p] = x
                        /\ \A p \in DOMAIN h.recv \ new : g.recv[p] = h.recv[p]
                        /\ \A y \in LocalExperts :
                             g.epsum[y] = IF y \in ExpertsIn(row, r) THEN h.epsum[y] + 1 ELSE h.epsum[y]

LEMMA CopyFacts ==
  ASSUME IInv, SInv, TInv, CInv, NEW r \in Ranks, Running(r), NEW i, CopyToken(r, i),
         NEW k \in Calls, k = CallOf(r)
  PROVE  /\ \E s \in Ranks : \E t \in FromTo(k, s, r) :
              IsItem(r, k, i, s, t) /\ CopiedTo(handle[r][k], handle'[r][k], r, k, i, s, t)
         /\ \A q \in Ranks : \A j \in Calls : q # r \/ j # k =>
              /\ handle'[q][j].meta = handle[q][j].meta
              /\ handle'[q][j].recv = handle[q][j].recv
              /\ handle'[q][j].epsum = handle[q][j].epsum
<1> DEFINE c == CallOf(r)
<1>a. c = k /\ c \in Calls
  OBVIOUS
<1>1. /\ stage[r] = "work" /\ ~OnMain(r) /\ Prog[c].kind \in AnyDispatch
      /\ i \in Items(r) \ done[r] /\ setup \in Setups
  BY PlaceFacts DEF CopyToken, EpilogueRuns, Kind
<1>2. i \in 0 .. NumRecv(r, c) - 1
  BY <1>1 DEF Items, Kind, AnyDispatch
<1>3. PICK s \in Ranks : InRegion(handle[r][Home(c)].psum, i, s) /\ CopyFrom(r, i, s)
  BY DEF CopyToken
<1>4. PICK t \in FromTo(c, s, r) :
        /\ IsItem(r, c, i, s, t)
        /\ buffer[r][<<s, i - RegionStart(handle[r][Home(c)].psum, s)>>] = Token(c, s, t, Rows(c, s)[t])
  BY <1>1, <1>2, <1>3, ItemFound
<1>0. /\ DOMAIN handle = Ranks
      /\ \A q \in Ranks : DOMAIN handle[q] = Calls /\ \A j \in Calls : DOMAIN handle[q][j] = HandleFields
  BY PlaceFacts
<1> DEFINE x == buffer[r][<<s, i - RegionStart(handle[r][Home(c)].psum, s)>>]
           mine == LanesTo(x.row, r)
           epsum == handle[r][c].epsum
           place == [l \in DOMAIN x.row |-> IF l \in mine /\ Expanded(c)
                                            THEN epsum[LocalIdx(x.row[l])] ELSE -1]
           used == {LocalIdx(x.row[l]) : l \in mine}
           md == [tok |-> x.tok, rank |-> s, lane |-> MasterLane(mine), place |-> place]
           recv == handle[r][c].recv
           spread == [p \in DOMAIN recv \cup {place[l] : l \in mine} |->
                        IF \E l \in mine : place[l] = p THEN x ELSE recv[p]]
           more == [e \in LocalExperts |-> IF e \in used THEN epsum[e] + 1 ELSE epsum[e]]
<1>5. handle' = [handle EXCEPT
        ![r][c].meta = Extend(@, i, md),
        ![r][c].recv = IF ~Expanded(c) THEN Extend(@, i, x) ELSE spread,
        ![r][c].epsum = IF ~Expanded(c) THEN @
                        ELSE [e \in LocalExperts |-> IF e \in used THEN @[e] + 1 ELSE @[e]]]
  BY <1>3 DEF CopyFrom
<1>6. x = Token(c, s, t, Rows(c, s)[t]) /\ x.tok = t /\ x.row = Rows(c, s)[t]
  BY <1>4 DEF Token
<1>7. x.row \in Row /\ DOMAIN x.row = Lanes
  BY <1>1, <1>4, <1>6, RowFacts DEF FromTo
<1>8. used = ExpertsIn(x.row, r)
  BY <1>7, UsedExperts
<1>9. Expanded(c) => {place[l] : l \in mine} = {epsum[y] : y \in used}
  <2>1. mine \subseteq DOMAIN x.row
    BY DEF LanesTo
  <2> HIDE DEF mine, x
  <2> QED BY <2>1
<1>10. Expanded(c) => /\ DOMAIN spread = DOMAIN recv \cup {epsum[y] : y \in used}
                      /\ \A p \in {epsum[y] : y \in used} : spread[p] = x
                      /\ \A p \in DOMAIN recv \ {epsum[y] : y \in used} : spread[p] = recv[p]
  <2> HIDE DEF place, used, x, mine
  <2> QED BY <1>9
<1>11. /\ md.rank = s /\ md.tok = t /\ md.lane = MasterLane(LanesTo(Rows(c, s)[t], r))
       /\ md.place = [l \in Lanes |-> IF l \in LanesTo(Rows(c, s)[t], r) /\ Expanded(c)
                                       THEN handle[r][c].epsum[LocalIdx(Rows(c, s)[t][l])] ELSE -1]
  <2>1. md.lane = MasterLane(mine) /\ mine = LanesTo(Rows(c, s)[t], r)
    BY <1>6
  <2>2. /\ md.place = place
        /\ place = [l \in Lanes |-> IF l \in LanesTo(Rows(c, s)[t], r) /\ Expanded(c)
                                     THEN epsum[LocalIdx(Rows(c, s)[t][l])] ELSE -1]
    BY <1>6, <1>7
  <2> QED BY <1>6, <2>1, <2>2
<1> HIDE DEF x, mine, place, used, md, spread
<1>12. /\ handle'[r][c].meta = Extend(handle[r][c].meta, i, md)
       /\ ~Expanded(c) => handle'[r][c].recv = Extend(recv, i, x)
       /\ Expanded(c) => handle'[r][c].recv = spread /\ handle'[r][c].epsum = more
       /\ \A q \in Ranks : \A j \in Calls : q # r \/ j # c =>
              /\ handle'[q][j].meta = handle[q][j].meta
              /\ handle'[q][j].recv = handle[q][j].recv
              /\ handle'[q][j].epsum = handle[q][j].epsum
  BY ONLY <1>0, <1>5, r \in Ranks, c \in Calls DEF HandleFields
<1>13. CopiedTo(handle[r][c], handle'[r][c], r, c, i, s, t)
  <2>1. /\ DOMAIN handle'[r][c].meta = DOMAIN handle[r][c].meta \cup {i}
        /\ handle'[r][c].meta[i] = md
        /\ \A j \in DOMAIN handle[r][c].meta \ {i} : handle'[r][c].meta[j] = handle[r][c].meta[j]
    BY <1>12 DEF Extend
  <2>2. ~Expanded(c) => /\ DOMAIN handle'[r][c].recv = DOMAIN recv \cup {i} /\ handle'[r][c].recv[i] = x
                        /\ \A j \in DOMAIN recv \ {i} : handle'[r][c].recv[j] = recv[j]
    BY <1>12 DEF Extend
  <2>3. Expanded(c) => \A y \in LocalExperts :
                         handle'[r][c].epsum[y] = IF y \in used THEN epsum[y] + 1 ELSE epsum[y]
    BY <1>12
  <2> QED BY <1>6, <1>8, <1>10, <1>11, <1>12, <2>1, <2>2, <2>3 DEF CopiedTo
<1>14. /\ \E q \in Ranks : \E u \in FromTo(c, q, r) :
             IsItem(r, c, i, q, u) /\ CopiedTo(handle[r][c], handle'[r][c], r, c, i, q, u)
       /\ \A q \in Ranks : \A j \in Calls : q # r \/ j # c =>
              /\ handle'[q][j].meta = handle[q][j].meta
              /\ handle'[q][j].recv = handle[q][j].recv
              /\ handle'[q][j].epsum = handle[q][j].epsum
  BY <1>4, <1>12, <1>13
<1> HIDE DEF c
<1> QED BY <1>a, <1>14

\* Segments: that of y begins at st[y], is filled up to e[y] with the tokens of the items
\* H[y], and has room up to the next one's beginning.
FilledUp(L, st, e, H, recv, tok) ==
  /\ DOMAIN recv = UNION {st[y] .. e[y] - 1 : y \in L}
  /\ \A y \in L : /\ e[y] = st[y] + Cardinality(H[y])
                  /\ \A p \in st[y] .. e[y] - 1 : \E j \in H[y] : recv[p] = tok[j]
                  /\ \A j \in H[y] : \E p \in st[y] .. e[y] - 1 : recv[p] = tok[j]

\* Item i is added to the segments of U.
Refilled(L, U, st, e, e2, H, H2, recv, recv2, tok, tok2, i) ==
  /\ U \in SUBSET L
  /\ \A y \in L : st[y] \in Nat /\ IsFiniteSet(H[y]) /\ i \notin H[y]
  /\ \A y \in L, z \in U : y # z => e[z] \notin st[y] .. e[y] - 1
  /\ \A y \in U : H2[y] = H[y] \cup {i} /\ e2[y] = e[y] + 1
  /\ \A y \in L \ U : H2[y] = H[y] /\ e2[y] = e[y]
  /\ \A y \in L : \A j \in H[y] : tok2[j] = tok[j]
  /\ DOMAIN recv2 = DOMAIN recv \cup {e[y] : y \in U}
  /\ \A p \in {e[y] : y \in U} : recv2[p] = tok2[i]
  /\ \A p \in DOMAIN recv \ {e[y] : y \in U} : recv2[p] = recv[p]

LEMMA FillMore ==
  ASSUME NEW L, NEW U, NEW st, NEW e, NEW e2, NEW H, NEW H2, NEW recv, NEW recv2,
         NEW tok, NEW tok2, NEW i,
         FilledUp(L, st, e, H, recv, tok), Refilled(L, U, st, e, e2, H, H2, recv, recv2, tok, tok2, i)
  PROVE  FilledUp(L, st, e2, H2, recv2, tok2)
<1>a. /\ U \in SUBSET L
      /\ \A y \in L : st[y] \in Nat /\ IsFiniteSet(H[y]) /\ i \notin H[y]
      /\ \A y \in L, z \in U : y # z => e[z] \notin st[y] .. e[y] - 1
      /\ \A y \in U : H2[y] = H[y] \cup {i} /\ e2[y] = e[y] + 1
      /\ \A y \in L \ U : H2[y] = H[y] /\ e2[y] = e[y]
      /\ \A y \in L : \A j \in H[y] : tok2[j] = tok[j]
      /\ DOMAIN recv2 = DOMAIN recv \cup {e[y] : y \in U}
      /\ \A p \in {e[y] : y \in U} : recv2[p] = tok2[i]
      /\ \A p \in DOMAIN recv \ {e[y] : y \in U} : recv2[p] = recv[p]
  BY DEF Refilled
<1> USE <1>a
<1> DEFINE S(y) == st[y] .. e[y] - 1
           S2(y) == st[y] .. e2[y] - 1
           new == {e[y] : y \in U}
<1>0. /\ DOMAIN recv = UNION {S(y) : y \in L}
      /\ \A y \in L : /\ e[y] = st[y] + Cardinality(H[y])
                      /\ \A p \in S(y) : \E j \in H[y] : recv[p] = tok[j]
                      /\ \A j \in H[y] : \E p \in S(y) : recv[p] = tok[j]
  BY DEF FilledUp
<1>1. \A y \in L : Cardinality(H[y]) \in Nat /\ st[y] \in Nat /\ e[y] \in Nat /\ e[y] >= st[y]
  <2>1. \A y \in L : Cardinality(H[y]) \in Nat /\ st[y] \in Nat
    BY FS_CardinalityType
  <2> QED BY <1>0, <2>1
<1>2. \A y \in U : e2[y] = e[y] + 1 /\ y \in L
  OBVIOUS
<1>3. \A y \in U : S2(y) = S(y) \cup {e[y]}
  <2> SUFFICES ASSUME NEW y \in U
               PROVE  S2(y) = S(y) \cup {e[y]}
    OBVIOUS
  <2>1. e2[y] = e[y] + 1 /\ st[y] \in Nat /\ e[y] \in Nat /\ e[y] >= st[y]
    BY <1>1, <1>2
  <2> QED BY <2>1
<1>4. \A y \in L \ U : S2(y) = S(y)
  OBVIOUS
<1>5. \A y \in L : e2[y] = st[y] + Cardinality(H2[y])
  <2>1. ASSUME NEW y \in U
        PROVE  e2[y] = st[y] + Cardinality(H2[y])
    <3>1. H2[y] = H[y] \cup {i} /\ i \notin H[y] /\ IsFiniteSet(H[y])
      OBVIOUS
    <3>a. Cardinality(H[y] \cup {i}) = Cardinality(H[y]) + 1
      BY <3>1, FS_AddElement
    <3>2. Cardinality(H2[y]) = Cardinality(H[y]) + 1
      BY <3>1, <3>a
    <3> QED BY <1>0, <1>1, <1>2, <3>2
  <2>2. ASSUME NEW y \in L \ U
        PROVE  e2[y] = st[y] + Cardinality(H2[y])
    BY <1>0
  <2> QED BY <2>1, <2>2
<1>6. ASSUME NEW y \in L, NEW p \in S(y)
      PROVE  p \in DOMAIN recv /\ p \notin new
  <2>1. p \in DOMAIN recv
    BY <1>0
  <2>2. ASSUME NEW z \in U, p = e[z]
        PROVE  FALSE
    <3>1. y = z
      BY <1>6, <2>2
    <3>2. p < e[y]
      BY <1>1, <1>6
    <3> QED BY <1>1, <2>2, <3>1, <3>2
  <2> QED BY <2>1, <2>2
<1> HIDE DEF S, S2, new
<1>7. \A y \in L : \A p \in S(y) : recv2[p] = recv[p]
  BY <1>6 DEF new
<1>8. \A p \in new : recv2[p] = tok2[i]
  BY DEF new
<1>9. DOMAIN recv2 = UNION {S2(y) : y \in L}
  <2>1. \A p : p \in DOMAIN recv2 <=> (\E y \in L : p \in S(y)) \/ p \in new
    BY <1>0 DEF new
  <2>2. \A p : p \in new <=> \E y \in U : p = e[y]
    BY DEF new
  <2>3. \A p : (\E y \in L : p \in S2(y)) <=> (\E y \in L : p \in S(y)) \/ (\E y \in U : p = e[y])
    BY <1>2, <1>3, <1>4
  <2>4. \A p : p \in UNION {S2(y) : y \in L} <=> \E y \in L : p \in S2(y)
    OBVIOUS
  <2>5. \A p : p \in DOMAIN recv2 <=> p \in UNION {S2(y) : y \in L}
    BY ONLY <2>1, <2>2, <2>3, <2>4
  <2> QED BY ONLY <2>5
<1>10. ASSUME NEW y \in L, NEW p \in S2(y)
       PROVE  \E j \in H2[y] : recv2[p] = tok2[j]
  <2>1. CASE p \in S(y)
    <3>1. PICK j \in H[y] : recv[p] = tok[j]
      BY <1>0, <2>1
    <3>2. j \in H2[y] /\ tok2[j] = tok[j] /\ recv2[p] = recv[p]
      BY <1>7, <2>1, <3>1
    <3> QED BY <3>1, <3>2
  <2>2. CASE p \notin S(y)
    <3>1. y \in U /\ p = e[y]
      BY <1>3, <1>4, <1>10, <2>2
    <3>2. recv2[p] = tok2[i] /\ i \in H2[y]
      BY <1>8, <3>1 DEF new
    <3> QED BY <3>2
  <2> QED BY <2>1, <2>2
<1>11. ASSUME NEW y \in L, NEW j \in H2[y]
       PROVE  \E p \in S2(y) : recv2[p] = tok2[j]
  <2>1. CASE j \in H[y]
    <3>1. PICK p \in S(y) : recv[p] = tok[j]
      BY <1>0, <2>1
    <3>2. p \in S2(y) /\ tok2[j] = tok[j] /\ recv2[p] = recv[p]
      BY <1>3, <1>4, <1>7, <2>1, <3>1
    <3> QED BY <3>1, <3>2
  <2>2. CASE j \notin H[y]
    <3>1. y \in U /\ j = i
      BY <1>11, <2>2
    <3>2. e[y] \in S2(y) /\ e[y] \in new
      BY <1>3, <3>1 DEF new
    <3>3. recv2[e[y]] = tok2[j]
      BY <1>8, <3>1, <3>2
    <3> QED BY <3>2, <3>3
  <2> QED BY <2>1, <2>2
<1> QED BY <1>5, <1>9, <1>10, <1>11 DEF FilledUp, S2

\* The items of an expert in a handle are tokens routed to it, and another one finds room.
LEMMA RoomFor ==
  ASSUME IInv, NEW r \in Ranks, NEW k \in Calls, MetaInv(r, k), NEW y \in LocalExperts
  PROVE  /\ IsFiniteSet(Having(r, k, y)) /\ Cardinality(Having(r, k, y)) \in Nat
         /\ Cardinality(Having(r, k, y)) <= ExpertTotal(k, r, y)
         /\ \A i, s, t : /\ i \notin DOMAIN handle[r][k].meta
                         /\ IsItem(r, k, i, s, t)
                         /\ y \in ExpertsIn(Rows(k, s)[t], r)
                         => Cardinality(Having(r, k, y)) < ExpertTotal(k, r, y)
<1> DEFINE meta == handle[r][k].meta
           H == Having(r, k, y)
           e == r * NumExpertsPerRank + y
<1>0. setup \in Setups /\ ExpertTotal(k, r, y) \in Nat
  BY PlaceFacts, TotalsNat
<1>1. \A j \in H : /\ j \in DOMAIN meta /\ IsItem(r, k, j, meta[j].rank, meta[j].tok)
                   /\ \E l \in Lanes : Rows(k, meta[j].rank)[meta[j].tok][l] = e
  BY DEF MetaInv, Having, SourceRow
<1> HIDE DEF meta, H, e
<1>2. IsFiniteSet(H) /\ Cardinality(H) \in Nat /\ Cardinality(H) <= ExpertTotal(k, r, y)
  <2> DEFINE f == [j \in H |-> meta[j].rank]
             g == [j \in H |-> meta[j].tok]
  <2>1. \A j \in H : /\ IsItem(r, k, j, f[j], g[j])
                     /\ \E l \in Lanes : Rows(k, f[j])[g[j]][l] = r * NumExpertsPerRank + y
    BY <1>1 DEF e
  <2> HIDE DEF f, g
  <2>2. ItemsFor(r, k, y, H, f, g)
    BY <2>1 DEF ItemsFor
  <2> QED BY <2>2, ItemsFit
<1>3. ASSUME NEW i, NEW s, NEW t, i \notin DOMAIN meta, IsItem(r, k, i, s, t), y \in ExpertsIn(Rows(k, s)[t], r)
      PROVE  Cardinality(H) < ExpertTotal(k, r, y)
  <2> DEFINE G == H \cup {i}
             f == [j \in G |-> IF j = i THEN s ELSE meta[j].rank]
             g == [j \in G |-> IF j = i THEN t ELSE meta[j].tok]
  <2>1. \A j \in G : /\ IsItem(r, k, j, f[j], g[j])
                     /\ \E l \in Lanes : Rows(k, f[j])[g[j]][l] = e
    <3>1. ASSUME NEW j \in H
          PROVE  f[j] = meta[j].rank /\ g[j] = meta[j].tok
      BY <1>1, <1>3
    <3>2. f[i] = s /\ g[i] = t
      OBVIOUS
    <3>3. \E l \in Lanes : Rows(k, s)[t][l] = e
      BY <1>3 DEF ExpertsIn, e
    <3> HIDE DEF f, g
    <3> QED BY <1>1, <1>3, <3>1, <3>2, <3>3
  <2>2. i \notin H
    BY <1>1, <1>3
  <2>3. Cardinality(G) = Cardinality(H) + 1
    BY <1>2, <2>2, FS_AddElement
  <2> HIDE DEF f, g, G
  <2>a. ItemsFor(r, k, y, G, f, g)
    BY <2>1 DEF ItemsFor, e
  <2>4. IsFiniteSet(G) /\ Cardinality(G) \in Nat /\ Cardinality(G) <= ExpertTotal(k, r, y)
    BY <2>a, ItemsFit
  <2> QED BY <1>0, <1>2, <2>3, <2>4
<1> QED BY <1>2, <1>3 DEF H, meta

LEMMA SegmentsApart ==
  ASSUME setup \in Setups, NEW k \in Calls, NEW r \in Ranks, NEW x \in LocalExperts, NEW y \in LocalExperts, x # y,
         NEW p \in Nat, Start(k, r, x) <= p, p < Start(k, r, x) + Align(ExpertTotal(k, r, x)),
         Start(k, r, y) <= p, p < Start(k, r, y) + Align(ExpertTotal(k, r, y))
  PROVE  FALSE
<1>1. /\ x \in Nat /\ y \in Nat /\ x \in 0 .. NumExpertsPerRank /\ y \in 0 .. NumExpertsPerRank
  BY SizesAssumption DEF LocalExperts
<1>2. /\ Start(k, r, x) \in Nat /\ Start(k, r, y) \in Nat
      /\ Align(ExpertTotal(k, r, x)) \in Nat /\ Align(ExpertTotal(k, r, y)) \in Nat
      /\ (x < y => Start(k, r, x) + Align(ExpertTotal(k, r, x)) <= Start(k, r, y))
      /\ (y < x => Start(k, r, y) + Align(ExpertTotal(k, r, y)) <= Start(k, r, x))
  BY <1>1, StartFacts, TotalsNat
<1> QED BY <1>1, <1>2

LEMMA CopyTokenTensors ==
  ASSUME IInv, SInv, TInv, CInv, EInv, NEW r \in Ranks, Running(r), NEW i, CopyToken(r, i)
  PROVE  EInv'
<1>1. PICK k \in Calls : k = CallOf(r)
  BY RunningCall DEF IInv
<1>2. /\ stage[r] = "work" /\ ~OnMain(r) /\ Prog[k].kind \in AnyDispatch
      /\ i \in Items(r) \ done[r]
      /\ UNCHANGED <<setup, kernels, stage, notify>>
      /\ done' = [done EXCEPT ![r] = @ \cup {i}]
  BY <1>1 DEF CopyToken, EpilogueRuns, Kind, notifyVars
<1>3. /\ setup \in Setups /\ k \in Nat /\ kernels[r] \in Nat /\ kernels[r] = 2 * k - 1 /\ kernels[r] >= 2 * k - 1
      /\ DOMAIN done = Ranks
  BY <1>1, <1>2, PlaceFacts
<1>4. \A s \in Ranks : SentStays(s)
  BY EpilogueHistory DEF History
<1>a. PICK s \in Ranks : \E t \in FromTo(k, s, r) :
        IsItem(r, k, i, s, t) /\ CopiedTo(handle[r][k], handle'[r][k], r, k, i, s, t)
  BY <1>1, CopyFacts
<1>5. PICK t \in FromTo(k, s, r) :
        IsItem(r, k, i, s, t) /\ CopiedTo(handle[r][k], handle'[r][k], r, k, i, s, t)
  BY <1>a
<1>6. \A q \in Ranks : \A j \in Calls : q # r \/ j # k =>
         /\ handle'[q][j].meta = handle[q][j].meta
         /\ handle'[q][j].recv = handle[q][j].recv
         /\ handle'[q][j].epsum = handle[q][j].epsum
  BY <1>1, CopyFacts
<1>7. /\ Copied(r, k) = done[r] /\ Copied(r, k)' = done[r] \cup {i}
      /\ \A q \in Ranks : \A j \in Calls : q # r \/ j # k => Copied(q, j)' = Copied(q, j)
      /\ \A q \in Ranks : \A j \in Calls : Finished(q, j)' = Finished(q, j)
      /\ Finished(r, k)
  <2>1. ~(kernels[r] >= 2 * k)
    BY <1>3
  <2>2. done'[r] = done[r] \cup {i} /\ \A q \in Ranks \ {r} : done'[q] = done[q]
    BY <1>2, <1>3
  <2>3. \A j \in Calls : j # k => kernels[r] # 2 * j - 1
    <3>1. \A j \in Calls : j \in Nat
      BY PlaceFacts
    <3> QED BY ONLY <1>3, <3>1, k \in Calls
  <2>4. Copied(r, k) = done[r] /\ Copied(r, k)' = done[r] \cup {i}
    BY <1>2, <1>3, <2>1, <2>2 DEF Copied
  <2>5. \A q \in Ranks : \A j \in Calls : q # r \/ j # k => Copied(q, j)' = Copied(q, j)
    BY <1>2, <2>2, <2>3, TensorsFixed DEF Copied
  <2> QED BY <1>2, <1>3, <2>4, <2>5 DEF Finished
<1>8. /\ Prog' = Prog /\ Calls' = Calls /\ Expanded(k)' = Expanded(k)
      /\ \A q : Rows(k, q)' = Rows(k, q)
      /\ \A x : Start(k, r, x)' = Start(k, r, x)
  BY <1>2, TensorsFixed
<1>9. ASSUME NEW q \in Ranks, NEW j \in Calls, Prog[j].kind \in AnyDispatch, q # r \/ j # k
      PROVE  TensorInv(q, j)'
  BY <1>2, <1>4, <1>6, <1>7, <1>9, TensorFrame
<1>10. PICK h, g, row, x : /\ h = handle[r][k] /\ g = handle'[r][k]
                           /\ row = Rows(k, s)[t] /\ x = Token(k, s, t, row)
  OBVIOUS
<1>11. /\ DOMAIN g.meta = DOMAIN h.meta \cup {i}
       /\ g.meta[i].rank = s /\ g.meta[i].tok = t
       /\ \A j \in DOMAIN h.meta \ {i} : g.meta[j] = h.meta[j]
       /\ ~Expanded(k) => /\ DOMAIN g.recv = DOMAIN h.recv \cup {i} /\ g.recv[i] = x
                          /\ \A j \in DOMAIN h.recv \ {i} : g.recv[j] = h.recv[j]
       /\ Expanded(k) => /\ DOMAIN g.recv = DOMAIN h.recv \cup {h.epsum[y] : y \in ExpertsIn(row, r)}
                         /\ \A p \in {h.epsum[y] : y \in ExpertsIn(row, r)} : g.recv[p] = x
                         /\ \A p \in DOMAIN h.recv \ {h.epsum[y] : y \in ExpertsIn(row, r)} : g.recv[p] = h.recv[p]
                         /\ \A y \in LocalExperts :
                              g.epsum[y] = IF y \in ExpertsIn(row, r) THEN h.epsum[y] + 1 ELSE h.epsum[y]
  BY <1>5, <1>10 DEF CopiedTo
<1>12. MetaInv(r, k) /\ PlainInv(r, k) /\ ExpandInv(r, k)
  BY <1>2 DEF EInv, TensorInv
<1>13. /\ DOMAIN h.meta = done[r] /\ i \notin DOMAIN h.meta
       /\ \A j \in DOMAIN h.meta : IsItem(r, k, j, h.meta[j].rank, h.meta[j].tok)
  BY <1>2, <1>7, <1>10, <1>12 DEF MetaInv
<1>14. MetaInv(r, k)'
  <2>1. \A j, a, b : IsItem(r, k, j, a, b) => IsItem(r, k, j, a, b)'
    BY <1>2, <1>3, <1>4, ItemStays
  <2>2. \A j \in DOMAIN g.meta : IsItem(r, k, j, g.meta[j].rank, g.meta[j].tok)
    BY <1>5, <1>11, <1>13
  <2>3. DOMAIN g.meta = Copied(r, k)'
    BY <1>7, <1>11, <1>13
  <2> QED BY <1>10, <2>1, <2>2, <2>3 DEF MetaInv
<1>15. /\ \A j \in DOMAIN h.meta : SourceRow(r, k, j)' = SourceRow(r, k, j) /\ ItemToken(r, k, j)' = ItemToken(r, k, j)
       /\ SourceRow(r, k, i)' = row /\ ItemToken(r, k, i)' = x
  <2>1. ASSUME NEW j \in DOMAIN h.meta
        PROVE  SourceRow(r, k, j)' = SourceRow(r, k, j) /\ ItemToken(r, k, j)' = ItemToken(r, k, j)
    <3>1. g.meta[j] = h.meta[j]
      BY <1>11, <1>13
    <3> QED BY <1>8, <1>10, <3>1 DEF SourceRow, ItemToken
  <2>2. SourceRow(r, k, i)' = row
    BY <1>8, <1>10, <1>11 DEF SourceRow
  <2>3. ItemToken(r, k, i)' = x
    BY <1>10, <1>11, <2>2 DEF ItemToken
  <2> QED BY <2>1, <2>2, <2>3
<1>16. PlainInv(r, k)'
  <2> SUFFICES ASSUME ~Expanded(k)
               PROVE  /\ DOMAIN g.recv = Copied(r, k)'
                      /\ \A j \in Copied(r, k)' : g.recv[j] = ItemToken(r, k, j)'
    BY <1>8, <1>10 DEF PlainInv
  <2>1. DOMAIN h.recv = done[r] /\ \A j \in done[r] : h.recv[j] = ItemToken(r, k, j)
    BY <1>7, <1>10, <1>12 DEF PlainInv
  <2> QED BY <1>7, <1>11, <1>13, <1>15, <2>1
<1>17. ExpandInv(r, k)'
  <2> SUFFICES ASSUME Expanded(k), Prog[k].kind = "dispatch"
               PROVE  ExpandInv(r, k)'
    BY <1>8 DEF ExpandInv
  <2> DEFINE L == LocalExperts
             U == ExpertsIn(row, r)
             st == [y \in L |-> Start(k, r, y)]
             H == [y \in L |-> Having(r, k, y)]
             tok == [j \in DOMAIN h.meta |-> ItemToken(r, k, j)]
  <2>1. FilledUp(L, st, h.epsum, H, h.recv, tok)
    <3>1. /\ DOMAIN h.recv = UNION {Segment(r, k, y) : y \in L}
          /\ \A y \in L : /\ h.epsum[y] = Start(k, r, y) + Cardinality(Having(r, k, y))
                          /\ \A p \in Segment(r, k, y) : \E j \in Having(r, k, y) : h.recv[p] = ItemToken(r, k, j)
                          /\ \A j \in Having(r, k, y) : \E p \in Segment(r, k, y) : h.recv[p] = ItemToken(r, k, j)
      BY <1>7, <1>10, <1>12 DEF ExpandInv
    <3>2. \A y \in L : /\ st[y] = Start(k, r, y) /\ H[y] = Having(r, k, y)
                       /\ Segment(r, k, y) = st[y] .. h.epsum[y] - 1
      BY <1>10 DEF Segment
    <3>3. \A y \in L : \A j \in H[y] : tok[j] = ItemToken(r, k, j)
      BY <1>10 DEF Having
    <3> HIDE DEF st, H, tok, L
    <3>a. {st[y] .. h.epsum[y] - 1 : y \in L} = {Segment(r, k, y) : y \in L}
      BY <3>2
    <3>4. DOMAIN h.recv = UNION {st[y] .. h.epsum[y] - 1 : y \in L}
      BY <3>1, <3>a
    <3>5. ASSUME NEW y \in L
          PROVE  /\ h.epsum[y] = st[y] + Cardinality(H[y])
                 /\ \A p \in st[y] .. h.epsum[y] - 1 : \E j \in H[y] : h.recv[p] = tok[j]
                 /\ \A j \in H[y] : \E p \in st[y] .. h.epsum[y] - 1 : h.recv[p] = tok[j]
      <4>1. /\ st[y] = Start(k, r, y) /\ H[y] = Having(r, k, y)
            /\ st[y] .. h.epsum[y] - 1 = Segment(r, k, y) /\ \A j \in H[y] : tok[j] = ItemToken(r, k, j)
        BY <3>2, <3>3
      <4>2. h.epsum[y] = st[y] + Cardinality(H[y])
        BY <3>1, <4>1
      <4>3. \A p \in Segment(r, k, y) : \E j \in H[y] : h.recv[p] = tok[j]
        BY <3>1, <4>1
      <4>4. \A j \in H[y] : \E p \in Segment(r, k, y) : h.recv[p] = tok[j]
        BY <3>1, <4>1
      <4> QED BY <4>1, <4>2, <4>3, <4>4
    <3> QED BY <3>4, <3>5 DEF FilledUp
  <2>2. PICK H2, tok2 : /\ H2 = [y \in L |-> Having(r, k, y)']
                        /\ tok2 = [j \in DOMAIN g.meta |-> ItemToken(r, k, j)']
    OBVIOUS
  <2>3. ASSUME NEW y \in L
        PROVE  /\ st[y] \in Nat /\ IsFiniteSet(H[y]) /\ i \notin H[y]
               /\ H[y] \subseteq DOMAIN h.meta
               /\ \A j \in H[y] : tok2[j] = tok[j]
               /\ y \in U => H2[y] = H[y] \cup {i}
               /\ y \notin U => H2[y] = H[y]
    <3>1. st[y] \in Nat
      BY <1>3, StartFacts
    <3>2. IsFiniteSet(H[y])
      BY <1>12, RoomFor
    <3>3. H[y] = {j \in DOMAIN h.meta : \E l \in Lanes : SourceRow(r, k, j)[l] = r * NumExpertsPerRank + y}
      BY <1>10 DEF Having
    <3>4. H2[y] = {j \in DOMAIN g.meta : \E l \in Lanes : SourceRow(r, k, j)'[l] = r * NumExpertsPerRank + y}
      BY <1>10, <2>2 DEF Having
    <3>5. y \in U <=> \E l \in Lanes : row[l] = r * NumExpertsPerRank + y
      BY DEF ExpertsIn
    <3>6. \A j \in H[y] : tok2[j] = tok[j]
      BY <1>11, <1>13, <1>15, <2>2, <3>3
    <3> HIDE DEF U, H, L, st, tok
    <3>7. (y \in U => H2[y] = H[y] \cup {i}) /\ (y \notin U => H2[y] = H[y])
      BY <1>11, <1>13, <1>15, <3>3, <3>4, <3>5
    <3> QED BY <1>13, <3>1, <3>2, <3>3, <3>6, <3>7
  <2>4. ASSUME NEW y \in L, NEW z \in U, y # z
        PROVE  h.epsum[z] \notin st[y] .. h.epsum[y] - 1
    <3> SUFFICES ASSUME NEW p \in st[y] .. h.epsum[y] - 1, p = h.epsum[z]
                 PROVE  FALSE
      OBVIOUS
    <3>1. z \in L
      BY DEF ExpertsIn
    <3>2. /\ h.epsum[y] = Start(k, r, y) + Cardinality(Having(r, k, y))
          /\ h.epsum[z] = Start(k, r, z) + Cardinality(Having(r, k, z))
      BY <1>7, <1>10, <1>12, <3>1 DEF ExpandInv
    <3>3. /\ Cardinality(Having(r, k, y)) \in Nat /\ Cardinality(Having(r, k, z)) \in Nat
          /\ Cardinality(Having(r, k, y)) <= ExpertTotal(k, r, y)
      BY <1>12, <3>1, RoomFor
    <3>4. Cardinality(Having(r, k, z)) < ExpertTotal(k, r, z)
      BY <1>5, <1>10, <1>12, <1>13, <3>1, RoomFor
    <3>5. /\ ExpertTotal(k, r, y) \in Nat /\ ExpertTotal(k, r, z) \in Nat
          /\ Align(ExpertTotal(k, r, y)) \in Nat /\ Align(ExpertTotal(k, r, z)) \in Nat
          /\ Align(ExpertTotal(k, r, y)) >= ExpertTotal(k, r, y)
          /\ Align(ExpertTotal(k, r, z)) >= ExpertTotal(k, r, z)
      BY <1>3, <3>1, TotalsNat
    <3>6. Start(k, r, y) \in Nat /\ Start(k, r, z) \in Nat /\ st[y] = Start(k, r, y)
      BY <1>3, <3>1, StartFacts
    <3>7. /\ p \in Nat /\ Start(k, r, y) <= p /\ p < Start(k, r, y) + Align(ExpertTotal(k, r, y))
          /\ Start(k, r, z) <= p /\ p < Start(k, r, z) + Align(ExpertTotal(k, r, z))
      <4> HIDE DEF st
      <4> QED BY <3>2, <3>3, <3>4, <3>5, <3>6
    <3> QED BY <1>3, <2>4, <3>1, <3>7, SegmentsApart
  <2>5. /\ U \in SUBSET L
        /\ \A y \in U : g.epsum[y] = h.epsum[y] + 1
        /\ \A y \in L \ U : g.epsum[y] = h.epsum[y]
        /\ DOMAIN g.recv = DOMAIN h.recv \cup {h.epsum[y] : y \in U}
        /\ \A p \in {h.epsum[y] : y \in U} : g.recv[p] = tok2[i]
        /\ \A p \in DOMAIN h.recv \ {h.epsum[y] : y \in U} : g.recv[p] = h.recv[p]
    <3>1. U \in SUBSET L
      BY DEF ExpertsIn
    <3>2. tok2[i] = x
      BY <1>11, <1>15, <2>2
    <3> QED BY <1>11, <3>1, <3>2
  <2> HIDE DEF L, U, st, H, tok
  <2>6. FilledUp(L, st, g.epsum, H2, g.recv, tok2)
    <3>1. \A y \in L : st[y] \in Nat /\ IsFiniteSet(H[y]) /\ i \notin H[y]
      BY <2>3
    <3>2. \A y \in L, z \in U : y # z => h.epsum[z] \notin st[y] .. h.epsum[y] - 1
      BY <2>4
    <3>3. \A y \in U : H2[y] = H[y] \cup {i} /\ g.epsum[y] = h.epsum[y] + 1
      BY <2>3, <2>5
    <3>4. \A y \in L \ U : H2[y] = H[y] /\ g.epsum[y] = h.epsum[y]
      BY <2>3, <2>5
    <3>5. \A y \in L : \A j \in H[y] : tok2[j] = tok[j]
      BY <2>3
    <3>6. PICK e, e2, recv, recv2 : e = h.epsum /\ e2 = g.epsum /\ recv = h.recv /\ recv2 = g.recv
      OBVIOUS
    <3>7. FilledUp(L, st, e, H, recv, tok)
      BY <2>1, <3>6
    <3>8. \A y \in L, z \in U : y # z => e[z] \notin st[y] .. e[y] - 1
      BY <3>2, <3>6
    <3>9. /\ \A y \in U : H2[y] = H[y] \cup {i} /\ e2[y] = e[y] + 1
          /\ \A y \in L \ U : H2[y] = H[y] /\ e2[y] = e[y]
      BY <3>3, <3>4, <3>6
    <3>10. /\ U \in SUBSET L
           /\ DOMAIN recv2 = DOMAIN recv \cup {e[y] : y \in U}
           /\ \A p \in {e[y] : y \in U} : recv2[p] = tok2[i]
           /\ \A p \in DOMAIN recv \ {e[y] : y \in U} : recv2[p] = recv[p]
      BY <2>5, <3>6
    <3>11. Refilled(L, U, st, e, e2, H, H2, recv, recv2, tok, tok2, i)
      BY ONLY <3>1, <3>5, <3>8, <3>9, <3>10 DEF Refilled
    <3>12. FilledUp(L, st, e2, H2, recv2, tok2)
      BY ONLY <3>7, <3>11, FillMore
    <3> QED BY <3>6, <3>12
  <2>7. /\ DOMAIN g.recv = UNION {Segment(r, k, y)' : y \in L}
        /\ \A y \in L : /\ g.epsum[y] = Start(k, r, y)' + Cardinality(Having(r, k, y)')
                        /\ \A p \in Segment(r, k, y)' : \E j \in Having(r, k, y)' : g.recv[p] = ItemToken(r, k, j)'
                        /\ \A j \in Having(r, k, y)' : \E p \in Segment(r, k, y)' : g.recv[p] = ItemToken(r, k, j)'
    <3>1. \A y \in L : /\ st[y] = Start(k, r, y)' /\ H2[y] = Having(r, k, y)'
                       /\ Segment(r, k, y)' = st[y] .. g.epsum[y] - 1
      BY <1>8, <1>10, <2>2 DEF Segment, st
    <3>2. \A y \in L : \A j \in H2[y] : tok2[j] = ItemToken(r, k, j)'
      BY <1>10, <2>2, <3>1 DEF Having
    <3>3. UNION {st[y] .. g.epsum[y] - 1 : y \in L} = UNION {Segment(r, k, y)' : y \in L}
      BY <3>1
    <3>4. /\ DOMAIN g.recv = UNION {st[y] .. g.epsum[y] - 1 : y \in L}
          /\ \A y \in L : /\ g.epsum[y] = st[y] + Cardinality(H2[y])
                          /\ \A p \in st[y] .. g.epsum[y] - 1 : \E j \in H2[y] : g.recv[p] = tok2[j]
                          /\ \A j \in H2[y] : \E p \in st[y] .. g.epsum[y] - 1 : g.recv[p] = tok2[j]
      BY <2>6 DEF FilledUp
    <3>5. ASSUME NEW y \in L
          PROVE  /\ g.epsum[y] = Start(k, r, y)' + Cardinality(Having(r, k, y)')
                 /\ \A p \in Segment(r, k, y)' : \E j \in Having(r, k, y)' : g.recv[p] = ItemToken(r, k, j)'
                 /\ \A j \in Having(r, k, y)' : \E p \in Segment(r, k, y)' : g.recv[p] = ItemToken(r, k, j)'
      <4>1. /\ st[y] = Start(k, r, y)' /\ H2[y] = Having(r, k, y)' /\ Segment(r, k, y)' = st[y] .. g.epsum[y] - 1
            /\ \A j \in H2[y] : tok2[j] = ItemToken(r, k, j)'
        BY <3>1, <3>2
      <4> QED BY <3>4, <4>1
    <3> QED BY <3>3, <3>4, <3>5
  <2>8. Finished(r, k)'
    BY <1>7
  <2> QED BY <1>10, <2>7, <2>8 DEF ExpandInv, L
<1> QED BY <1>8, <1>9, <1>14, <1>16, <1>17 DEF EInv, TensorInv, AnyDispatch

LEMMA EStep == IInv /\ WordsInv /\ SInv /\ TInv /\ CInv /\ EInv /\ [Next]_vars => EInv'
<1> SUFFICES ASSUME IInv, WordsInv, SInv, TInv, CInv, EInv, [Next]_vars
             PROVE  EInv'
  OBVIOUS
<1>1. ASSUME NEW r \in Ranks, Host(r)
      PROVE  EInv'
  BY <1>1, HostTensors
<1>2. ASSUME NEW r \in Ranks, Running(r), Notify(r)
      PROVE  EInv'
  BY <1>2, NotifyTensors, NotifyFinishTensors DEF Notify
<1>3. ASSUME NEW r \in Ranks, Running(r), Main(r)
      PROVE  EInv'
  BY <1>3, StartMainTensors, BarrierTensors, SendTokenTensors, SendBackTensors, EndMainTensors DEF Main
<1>4. ASSUME NEW r \in Ranks, Running(r), Epilogue(r)
      PROVE  EInv'
  BY <1>4, StartEpilogueTensors, CopyTokenTensors, ReduceTokenTensors, EndEpilogueTensors DEF Epilogue
<1>5. ASSUME UNCHANGED <<setup, kernels, stage, done, notify, handle>>
      PROVE  EInv'
  BY <1>5, HandleStands, SteadyTensors
<1>6. ASSUME NEW m \in stores, LandStore(m)
      PROVE  EInv'
  BY <1>5, <1>6 DEF LandStore, notifyVars
<1>7. ASSUME NEW m \in counts, LandCounts(m)
      PROVE  EInv'
  BY <1>5, <1>7 DEF LandCounts, tokenVars
<1>8. CASE UNCHANGED vars
  BY <1>5, <1>8 DEF vars
<1> QED BY <1>1, <1>2, <1>3, <1>4, <1>6, <1>7, <1>8 DEF Next

\* What the epilogues have put into the tensors is one token per item, every token routed to
\* the rank is one item, and an expert's segment holds the tokens for this expert.
THEOREM TensorsInPlace == Spec => []EInv
<1>1. IInv /\ (WordsInv /\ SInv) /\ TInv /\ CInv /\ EInv /\ [Next]_vars => EInv'
  BY EStep
<1> QED BY Invariance, CountsInOnePlace, TokensInPlace, NumbersInPlace, EInit, <1>1, PTL DEF Spec

-----------------------------------------------------------------------------
(* What an ended dispatch has left behind. *)

\* Every item was copied, and names the token that it is.
LEMMA EndedItems ==
  ASSUME IInv, SInv, EInv, NEW r \in Ranks, NEW k \in Calls, Prog[k].kind \in AnyDispatch, Ended(r, k)
  PROVE  /\ kernels[r] >= 2 * k - 1 /\ Finished(r, k)
         /\ Copied(r, k) = 0 .. ReceivedFrom(k, r, Ranks) - 1
         /\ DOMAIN handle[r][k].meta = 0 .. ReceivedFrom(k, r, Ranks) - 1
         /\ \A i \in DOMAIN handle[r][k].meta :
              IsItem(r, k, i, handle[r][k].meta[i].rank, handle[r][k].meta[i].tok)
         /\ MetaInv(r, k) /\ PlainInv(r, k) /\ ExpandInv(r, k)
<1>1. MetaInv(r, k) /\ PlainInv(r, k) /\ ExpandInv(r, k)
  BY DEF EInv, TensorInv
<1>2. kernels[r] \in Nat /\ k \in Nat /\ kernels[r] >= 2 * k
  BY PlaceFacts DEF Ended
<1>3. kernels[r] >= 2 * k - 1
  BY <1>2
<1> QED BY <1>1, <1>2, <1>3 DEF Copied, MetaInv, Finished

\* The items of a call are those of the dispatch whose routing it takes.
LEMMA HomeItem ==
  ASSUME setup \in Setups, NEW k \in Calls, NEW r \in Ranks, NEW i, NEW s, NEW t
  PROVE  IsItem(r, k, i, s, t) <=> IsItem(r, Home(k), i, s, t)
<1>1. Home(Home(k)) = Home(k)
  BY HomeIsDispatch
<1>2. Rows(Home(k), s) = Rows(k, s)
  BY <1>1 DEF Rows
<1>3. FromTo(Home(k), s, r) = FromTo(k, s, r)
  BY <1>2 DEF FromTo
<1>4. Base(Home(k), r, s) = Base(k, r, s)
  BY SameReceived DEF Base
<1>5. Slot(s, Home(k), <<t, r>>) = Slot(s, k, <<t, r>>)
  BY <1>1 DEF Slot
<1> QED BY <1>3, <1>4, <1>5 DEF IsItem

LEMMA OrderFromInv == IInv /\ SInv /\ EInv => CachedKeepsOrder
<1> SUFFICES ASSUME IInv, SInv, EInv, NEW r \in Ranks, NEW k \in Calls, Ended(r, k), Prog[k].kind = "cached",
                    NEW i \in DOMAIN handle[r][k].recv
             PROVE  /\ handle[r][k].recv[i].tok = handle[r][Prog[k].of].meta[i].tok
                    /\ handle[r][k].recv[i].src = handle[r][Prog[k].of].meta[i].rank
  BY DEF CachedKeepsOrder
<1>0. setup \in Setups /\ kernels[r] \in Nat /\ k \in Nat
  BY PlaceFacts
<1>1. PICK h \in Calls : h = Prog[k].of /\ h = Home(k) /\ h \in Nat /\ h < k /\ Prog[h].kind = "dispatch" /\ ~Expanded(k)
  BY <1>0, CachedCall
<1>2. Prog[k].kind \in AnyDispatch /\ Prog[h].kind \in AnyDispatch /\ Ended(r, h)
  BY <1>0, <1>1 DEF AnyDispatch, Ended
<1>3. ReceivedFrom(h, r, Ranks) = ReceivedFrom(k, r, Ranks)
  BY <1>0, <1>1, SameReceived
<1>4. /\ kernels[r] >= 2 * k - 1
      /\ i \in 0 .. ReceivedFrom(k, r, Ranks) - 1
      /\ handle[r][k].recv[i] = ItemToken(r, k, i)
      /\ IsItem(r, k, i, handle[r][k].meta[i].rank, handle[r][k].meta[i].tok)
  <2>1. /\ kernels[r] >= 2 * k - 1 /\ PlainInv(r, k)
        /\ Copied(r, k) = 0 .. ReceivedFrom(k, r, Ranks) - 1
        /\ DOMAIN handle[r][k].meta = 0 .. ReceivedFrom(k, r, Ranks) - 1
        /\ \A j \in DOMAIN handle[r][k].meta :
             IsItem(r, k, j, handle[r][k].meta[j].rank, handle[r][k].meta[j].tok)
    BY <1>2, EndedItems
  <2> QED BY <1>1, <2>1 DEF PlainInv
<1>5. IsItem(r, h, i, handle[r][h].meta[i].rank, handle[r][h].meta[i].tok)
  <2>1. /\ DOMAIN handle[r][h].meta = 0 .. ReceivedFrom(h, r, Ranks) - 1
        /\ \A j \in DOMAIN handle[r][h].meta :
             IsItem(r, h, j, handle[r][h].meta[j].rank, handle[r][h].meta[j].tok)
    BY <1>2, EndedItems
  <2> QED BY <1>3, <1>4, <2>1
<1>6. IsItem(r, k, i, handle[r][h].meta[i].rank, handle[r][h].meta[i].tok)
  BY <1>0, <1>1, <1>5, HomeItem
<1>7. handle[r][k].meta[i].rank = handle[r][h].meta[i].rank /\ handle[r][k].meta[i].tok = handle[r][h].meta[i].tok
  BY <1>2, <1>4, <1>6, ItemUnique
<1>8. /\ handle[r][k].recv[i].tok = handle[r][k].meta[i].tok
      /\ handle[r][k].recv[i].src = handle[r][k].meta[i].rank
  BY <1>4 DEF ItemToken, Token
<1> QED BY <1>1, <1>7, <1>8

\* Any number of ranks, experts and tokens, any program: whatever order a cached dispatch's
\* warps and epilogues run in, its tokens are in the order of the first one's.
THEOREM CachedInOrder == Spec => []CachedKeepsOrder
<1> QED BY Invariance, CountsInOnePlace, TensorsInPlace, OrderFromInv, PTL

-----------------------------------------------------------------------------
(* The tensor that the host allocates has room for all that comes. *)

\* Align goes to the next multiple, and leaves multiples in front of it alone.
LEMMA AlignBounds == \A n \in Nat : Align(n) \in Nat /\ Align(n) >= n /\ Align(n) <= n + (ExpertAlignment - 1)
<1>1. ExpertAlignment \in Nat /\ ExpertAlignment >= 1
  BY SizesAssumption
<1> SUFFICES ASSUME NEW n \in Nat
             PROVE  Align(n) <= n + (ExpertAlignment - 1)
  BY AlignNat
<1> DEFINE A == ExpertAlignment
           m == n + A - 1
<1>2. m \in Nat /\ m = n + (A - 1)
  BY <1>1
<1>3. m = ((m \div A) * A) + (m % A) /\ (m % A) \in Nat /\ (m \div A) * A \in Nat
  <2> HIDE DEF m, A
  <2>1. A \in Nat /\ A >= 1
    BY <1>1 DEF A
  <2>2. m = ((m \div A) * A) + (m % A) /\ (m % A) \in 0 .. A - 1 /\ m \div A \in Nat
    BY <1>2, <2>1, DivMod
  <2>3. (m \div A) * A \in Nat
    BY <2>1, <2>2
  <2> QED BY <2>1, <2>2, <2>3
<1>4. Align(n) = (m \div A) * A
  BY DEF Align
<1> QED BY <1>2, <1>3, <1>4

LEMMA AlignBehind ==
  ASSUME NEW a \in Nat, NEW n \in Nat
  PROVE  Align(a * ExpertAlignment + n) = a * ExpertAlignment + Align(n)
<1> DEFINE A == ExpertAlignment
           m == n + A - 1
           q == m \div A
           s == m % A
<1>1. A \in Nat /\ A >= 1
  BY SizesAssumption
<1>2. m \in Nat
  BY <1>1
<1> HIDE DEF m, A
<1>3. m = (q * A) + s /\ s \in Nat /\ s < A /\ q \in Nat
  <2>1. m = ((m \div A) * A) + (m % A) /\ (m % A) \in 0 .. A - 1 /\ m \div A \in Nat
    BY <1>1, <1>2, DivMod
  <2> QED BY <1>1, <2>1
<1> HIDE DEF q, s
<1>4. a * A + m = ((a + q) * A) + s /\ a * A \in Nat /\ q * A \in Nat /\ a + q \in Nat
  BY <1>1, <1>3
<1>5. (a * A + m) \div A = a + q
  <2>1. (((a + q) * A) + s) \div A = a + q
    BY ONLY <1>1, <1>3, <1>4, DivideBack
  <2> QED BY <1>4, <2>1
<1>6. Align(n) = q * A
  BY DEF Align, m, q, A
<1>7. Align(a * A + n) = ((a * A + m) \div A) * A
  <2>1. (a * A + n) + A - 1 = a * A + m
    BY <1>1, <1>4 DEF m
  <2>2. Align(a * A + n) = (((a * A + n) + A - 1) \div A) * A
    BY DEF Align, A
  <2> QED BY <2>1, <2>2
<1>8. (a + q) * A = a * A + q * A
  BY <1>1, <1>3
<1>9. Align(a * A + n) = a * A + Align(n)
  BY <1>5, <1>6, <1>7, <1>8
<1> QED BY <1>9 DEF A

\* No more tokens come than WorstCase, and each goes to no more experts than it has lanes.
LEMMA RoutedBounds ==
  ASSUME setup \in Setups, NEW k \in Calls, NEW r \in Ranks
  PROVE  /\ ReceivedFrom(k, r, Ranks) <= WorstCase /\ WorstCase \in Nat
         /\ Sum([x \in LocalExperts |-> ExpertTotal(k, r, x)], LocalExperts)
              <= WorstCase * (IF NumTopk < NumExpertsPerRank THEN NumTopk ELSE NumExpertsPerRank)
<1> DEFINE W == Ranks \X (1 .. NumMaxTokensPerRank)
           E == NumExpertsPerRank
           P(x) == RoutedToExpert(k, r * E + x)
           A == [x \in LocalExperts |-> {x} \X P(x)]
           U == UnionOf(A, LocalExperts)
           f == [x \in LocalExperts |-> ExpertTotal(k, r, x)]
<1>1. /\ NumRanks \in Nat /\ NumRanks >= 2 /\ NumMaxTokensPerRank \in Nat /\ NumMaxTokensPerRank >= 1
      /\ E \in Nat /\ E >= 1 /\ NumTopk \in Nat /\ NumTopk >= 1
  BY SizesAssumption
<1>2. /\ IsFiniteSet(Ranks) /\ Cardinality(Ranks) = NumRanks
      /\ IsFiniteSet(1 .. NumMaxTokensPerRank) /\ Cardinality(1 .. NumMaxTokensPerRank) = NumMaxTokensPerRank
      /\ IsFiniteSet(LocalExperts) /\ Cardinality(LocalExperts) = E
      /\ IsFiniteSet(Lanes) /\ Cardinality(Lanes) = NumTopk
  <2>1. 0 \in Int /\ 1 \in Int /\ NumRanks - 1 \in Int /\ NumMaxTokensPerRank \in Int /\ E - 1 \in Int /\ NumTopk \in Int
    BY <1>1
  <2>2. IsFiniteSet(0 .. NumRanks - 1) /\ Cardinality(0 .. NumRanks - 1) = NumRanks
    BY <1>1, <2>1, FS_Interval
  <2>3. IsFiniteSet(1 .. NumMaxTokensPerRank) /\ Cardinality(1 .. NumMaxTokensPerRank) = NumMaxTokensPerRank
    BY <1>1, <2>1, FS_Interval
  <2>4. IsFiniteSet(0 .. E - 1) /\ Cardinality(0 .. E - 1) = E
    BY <1>1, <2>1, FS_Interval
  <2>5. IsFiniteSet(1 .. NumTopk) /\ Cardinality(1 .. NumTopk) = NumTopk
    BY <1>1, <2>1, FS_Interval
  <2> QED BY <2>2, <2>3, <2>4, <2>5 DEF Ranks, LocalExperts, Lanes
<1>3. IsFiniteSet(W) /\ Cardinality(W) = NumRanks * NumMaxTokensPerRank /\ Cardinality(W) = WorstCase /\ WorstCase \in Nat
  <2>1. IsFiniteSet(W) /\ Cardinality(W) = NumRanks * NumMaxTokensPerRank
    BY <1>2, FS_Product
  <2> QED BY <1>1, <2>1 DEF WorstCase
<1>4. ReceivedFrom(k, r, Ranks) <= WorstCase
  <2>1. {p \in RoutedTo(k, r) : p[1] \in Ranks} \in SUBSET W
    BY DEF RoutedTo
  <2> DEFINE Z == {p \in RoutedTo(k, r) : p[1] \in Ranks}
  <2> HIDE DEF Z, W
  <2>2. Z \in SUBSET W
    BY <2>1 DEF Z
  <2>3. Cardinality(Z) <= Cardinality(W)
    BY <1>3, <2>2, FS_Subset
  <2> QED BY <1>3, <2>3 DEF Z, ReceivedFrom
<1>5. ASSUME NEW x \in LocalExperts
      PROVE  P(x) \in SUBSET W /\ IsFiniteSet(P(x)) /\ ExpertTotal(k, r, x) = Cardinality(P(x))
  <2>1. P(x) \in SUBSET W
    BY DEF RoutedToExpert, RoutedTo
  <2> QED BY <1>3, <2>1, FS_Subset DEF ExpertTotal
<1>6. ASSUME NEW x \in LocalExperts, NEW p \in P(x)
      PROVE  \E l \in Lanes : Rows(k, p[1])[p[2]][l] = r * E + x
  BY DEF RoutedToExpert
<1>7. IsFiniteSet(U) /\ Sum(f, LocalExperts) = Cardinality(U)
  <2>1. ASSUME NEW x \in LocalExperts
        PROVE  IsFiniteSet(A[x]) /\ f[x] = Cardinality(A[x])
    <3>1. PICK G : G = P(x)
      OBVIOUS
    <3>2. IsFiniteSet(G) /\ Cardinality(G) \in Nat /\ f[x] = Cardinality(G) /\ A[x] = {x} \X G
      BY <1>5, <3>1, FS_CardinalityType
    <3> HIDE DEF A, f
    <3>3. IsFiniteSet({x}) /\ Cardinality({x}) = 1
      BY FS_Singleton
    <3>4. IsFiniteSet({x} \X G) /\ Cardinality({x} \X G) = 1 * Cardinality(G)
      BY <3>2, <3>3, FS_Product
    <3> QED BY <3>2, <3>4
  <2>2. \A x, y \in LocalExperts : x # y => A[x] \cap A[y] = {}
    OBVIOUS
  <2> HIDE DEF A, f
  <2> QED BY <1>2, <2>1, <2>2, SumOfSizes
<1>8. \A u \in U : /\ u[1] \in LocalExperts /\ u[2] \in W /\ u = <<u[1], u[2]>>
                   /\ u[2] \in P(u[1])
  <2>1. \A u \in U : \E x \in LocalExperts : u \in {x} \X P(x)
    BY DEF UnionOf
  <2>2. \A x \in LocalExperts : P(x) \in SUBSET W
    BY <1>5
  <2> HIDE DEF U, W, P
  <2> QED BY <2>1, <2>2
<1>9. Cardinality(U) <= E * Cardinality(W)
  <2> HIDE DEF U, W, P
  <2>1. U \in SUBSET (LocalExperts \X W)
    BY <1>8
  <2>2. IsFiniteSet(LocalExperts \X W) /\ Cardinality(LocalExperts \X W) = E * Cardinality(W)
    BY <1>2, <1>3, FS_Product
  <2>3. Cardinality(U) <= Cardinality(LocalExperts \X W)
    BY <2>1, <2>2, FS_Subset
  <2> QED BY <2>2, <2>3
<1>10. Cardinality(U) <= NumTopk * Cardinality(W)
  <2> DEFINE Has(u, l) == Rows(k, u[2][1])[u[2][2]][l] = r * E + u[1]
             g == [u \in U |-> <<CHOOSE l \in Lanes : Has(u, l), u[2]>>]
  <2>1. \A u \in U : \E l \in Lanes : Has(u, l)
    BY <1>6, <1>8
  <2>2. \A u \in U : g[u][1] \in Lanes /\ Has(u, g[u][1]) /\ g[u][2] = u[2] /\ g[u] \in Lanes \X W
    <3> HIDE DEF Has, U, W
    <3>1. \A u \in U : (CHOOSE l \in Lanes : Has(u, l)) \in Lanes /\ Has(u, CHOOSE l \in Lanes : Has(u, l))
      BY <2>1
    <3> QED BY <1>8, <3>1
  <2>3. ASSUME NEW u \in U, NEW v \in U, g[u] = g[v]
        PROVE  u = v
    <3> HIDE DEF g, U, W, Has
    <3>1. u[2] = v[2] /\ g[u][1] = g[v][1]
      <4>1. g[u][2] = u[2] /\ g[v][2] = v[2]
        BY <2>2
      <4> QED BY <2>3, <4>1
    <3>2. r * E + u[1] = r * E + v[1]
      <4>1. Has(u, g[u][1]) /\ Has(v, g[v][1])
        BY <2>2
      <4> QED BY <3>1, <4>1 DEF Has
    <3>3. r * E \in Nat /\ u[1] \in Nat /\ v[1] \in Nat
      BY <1>1, <1>8 DEF Ranks, LocalExperts
    <3>4. u[1] = v[1]
      BY <3>2, <3>3
    <3> QED BY <1>8, <3>1, <3>4
  <2>4. g \in [U -> Lanes \X W]
    <3>1. DOMAIN g = U /\ g = [u \in U |-> g[u]]
      OBVIOUS
    <3> HIDE DEF g, U, W
    <3> QED BY <2>2, <3>1
  <2> HIDE DEF g, U, W
  <2>5. g \in Injection(U, Lanes \X W)
    BY <2>3, <2>4 DEF Injection, IsInjective
  <2>6. IsFiniteSet(Lanes \X W) /\ Cardinality(Lanes \X W) = NumTopk * Cardinality(W)
    BY <1>2, <1>3, FS_Product
  <2>7. Cardinality(U) <= Cardinality(Lanes \X W)
    BY <2>5, <2>6, FS_Injection
  <2> QED BY <2>6, <2>7
<1> HIDE DEF U, W, f
<1>11. Cardinality(U) <= WorstCase * NumTopk /\ Cardinality(U) <= WorstCase * E
  <2>1. E * Cardinality(W) = WorstCase * E /\ NumTopk * Cardinality(W) = WorstCase * NumTopk
    BY <1>1, <1>3
  <2> QED BY <1>9, <1>10, <2>1
<1>12. Sum(f, LocalExperts) <= WorstCase * (IF NumTopk < NumExpertsPerRank THEN NumTopk ELSE NumExpertsPerRank)
  BY <1>7, <1>11
<1> QED BY <1>3, <1>4, <1>12 DEF f

\* What the host allocates without waiting is enough, expanded or not.
LEMMA WorstIsEnough ==
  ASSUME setup \in Setups, NEW k \in Calls, NEW r \in Ranks
  PROVE  /\ WorstAlloc(FALSE) \in Nat /\ ReceivedFrom(k, r, Ranks) <= WorstAlloc(FALSE)
         /\ WorstAlloc(TRUE) \in Nat /\ Sum(AlignedTotals(k, r), LocalExperts) <= WorstAlloc(TRUE)
<1> DEFINE f == AlignedTotals(k, r)
           g == [x \in LocalExperts |-> ExpertTotal(k, r, x)]
           A == ExpertAlignment
           E == NumExpertsPerRank
           M == IF NumTopk < NumExpertsPerRank THEN NumTopk ELSE NumExpertsPerRank
<1>1. A - 1 \in Nat /\ E \in Nat /\ M \in Nat /\ WorstCase \in Nat /\ ReceivedFrom(k, r, Ranks) <= WorstCase
  <2>1. A - 1 \in Nat /\ E \in Nat /\ M \in Nat
    BY SizesAssumption
  <2> QED BY <2>1, RoutedBounds
<1>2. IsFiniteSet(LocalExperts) /\ Cardinality(LocalExperts) = E
  <2>1. 0 \in Int /\ E - 1 \in Int /\ E >= 1 /\ E \in Nat
    BY SizesAssumption
  <2> HIDE DEF E
  <2>2. IsFiniteSet(0 .. E - 1) /\ Cardinality(0 .. E - 1) = E
    BY ONLY <2>1, FS_Interval
  <2> QED BY <2>2 DEF LocalExperts, E
<1>3. \A x \in LocalExperts : f[x] \in Nat /\ g[x] \in Nat /\ f[x] <= g[x] + (A - 1)
  <2>1. \A x \in LocalExperts : f[x] = Align(ExpertTotal(k, r, x)) /\ ExpertTotal(k, r, x) \in Nat
    BY TotalsNat
  <2> QED BY <2>1, AlignBounds
<1>4. Sum(g, LocalExperts) <= WorstCase * M
  BY RoutedBounds
<1> HIDE DEF f, g, M
<1>5. /\ Sum(f, LocalExperts) <= Sum(g, LocalExperts) + (A - 1) * E
      /\ Sum(f, LocalExperts) \in Nat /\ Sum(g, LocalExperts) \in Nat
  BY <1>1, <1>2, <1>3, SumBound
<1>6. /\ WorstCase * M \in Nat /\ (A - 1) * E \in Nat
  BY <1>1
<1>7. WorstCase * M + (A - 1) * E \in Nat
  BY <1>6
<1>8. WorstAlloc(TRUE) = Align(WorstCase * M + (A - 1) * E)
  BY DEF WorstAlloc, M
<1>9. WorstAlloc(TRUE) \in Nat /\ WorstAlloc(TRUE) >= WorstCase * M + (A - 1) * E
  BY <1>7, <1>8, AlignBounds
<1>10. Sum(f, LocalExperts) <= WorstAlloc(TRUE)
  <2> DEFINE a == WorstCase * M
             b == (A - 1) * E
  <2>1. /\ Sum(g, LocalExperts) <= a /\ Sum(f, LocalExperts) <= Sum(g, LocalExperts) + b
        /\ WorstAlloc(TRUE) >= a + b /\ WorstAlloc(TRUE) \in Nat /\ a \in Nat /\ b \in Nat
        /\ Sum(f, LocalExperts) \in Nat /\ Sum(g, LocalExperts) \in Nat
    BY <1>4, <1>5, <1>6, <1>9
  <2> HIDE DEF a, b
  <2>2. PICK w \in Nat : w = WorstAlloc(TRUE)
    BY <2>1
  <2>3. PICK u \in Nat : u = Sum(f, LocalExperts)
    BY <2>1
  <2>4. PICK v \in Nat : v = Sum(g, LocalExperts)
    BY <2>1
  <2>5. v <= a /\ u <= v + b /\ w >= a + b /\ a \in Nat /\ b \in Nat
    BY <2>1, <2>2, <2>3, <2>4
  <2>6. u <= w
    BY ONLY <2>5, u \in Nat, v \in Nat, w \in Nat
  <2> QED BY <2>2, <2>3, <2>6
<1>11. WorstAlloc(FALSE) = WorstCase
  BY DEF WorstAlloc
<1> QED BY <1>1, <1>9, <1>10, <1>11 DEF f

LEMMA AllocFits ==
  ASSUME IInv, CInv, NEW r \in Ranks, NEW k \in Calls, Prog[k].kind \in AnyDispatch, Ended(r, k)
  PROVE  /\ handle[r][k].alloc \in Nat
         /\ ~Expanded(k) => ReceivedFrom(k, r, Ranks) <= handle[r][k].alloc
         /\ Expanded(k) => Sum(AlignedTotals(k, r), LocalExperts) <= handle[r][k].alloc
<1>0. setup \in Setups /\ kernels[r] \in Nat /\ k \in Nat /\ kernels[r] >= 2 * k
  BY PlaceFacts DEF Ended
<1>1. Polled(r, k)
  <2>1. /\ kernels[r] <= Enqueued(r)
        /\ call[r] \in Nat /\ polling[r] \in BOOLEAN
    BY DEF IInv, Ahead, CountTypes
  <2>2. CASE polling[r]
    <3>1. Enqueued(r) = 2 * call[r] - 1
      BY <2>2 DEF Enqueued
    <3>2. call[r] > k
      BY <1>0, <2>1, <3>1
    <3> QED BY <3>2 DEF Polled
  <2>3. CASE ~polling[r]
    <3>1. Enqueued(r) = 2 * call[r]
      BY <2>3 DEF Enqueued
    <3>2. call[r] > k \/ call[r] = k
      BY <1>0, <2>1, <3>1
    <3> QED BY <2>3, <3>2 DEF Polled
  <2> QED BY <2>1, <2>2, <2>3
<1>2. NumInv(r, k)
  BY DEF CInv
<1>3. /\ ReceivedFrom(k, r, Ranks) \in Nat /\ Sum(AlignedTotals(k, r), LocalExperts) \in Nat
  <2>1. ReceivedFrom(k, r, Ranks) \in Nat
    BY <1>0, BaseFacts
  <2>2. \A x \in LocalExperts : AlignedTotals(k, r)[x] \in Nat
    BY <1>0, TotalsNat
  <2>3. IsFiniteSet(LocalExperts)
    <3>1. 0 \in Int /\ NumExpertsPerRank - 1 \in Int
      BY SizesAssumption
    <3>2. IsFiniteSet(0 .. NumExpertsPerRank - 1)
      BY <3>1, FS_Interval
    <3> QED BY <3>2 DEF LocalExperts
  <2> QED BY <2>1, <2>2, <2>3, SumNat
<1>4. CASE Prog[k].kind = "dispatch" /\ Prog[k].sync
  <2>1. Home(k) = k
    BY <1>0, <1>4, HomeIsDispatch
  <2>2. Expanded(k) = Prog[k].expand
    BY <2>1 DEF Expanded
  <2>3. /\ handle[r][k].num = ReceivedFrom(k, r, Ranks)
        /\ handle[r][k].alloc = IF Prog[k].expand THEN Sum(AlignedTotals(k, r), LocalExperts) ELSE handle[r][k].num
    BY <1>1, <1>2, <1>4 DEF NumInv
  <2> QED BY <1>3, <2>2, <2>3
<1>5. CASE Prog[k].kind = "dispatch" /\ ~Prog[k].sync
  <2>a. Prog[k].expand \in BOOLEAN
    <3>1. Prog \in Seq(Call)
      BY <1>0, SetupsAssumption DEF Prog
    <3>2. Prog[k] \in Call
      BY <3>1 DEF Calls
    <3> QED BY <3>2 DEF Call
  <2>1. Home(k) = k /\ Prog[k].expand \in BOOLEAN
    BY <1>0, <1>5, <2>a, HomeIsDispatch
  <2>2. Expanded(k) = Prog[k].expand
    BY <2>1 DEF Expanded
  <2>3. handle[r][k].alloc = WorstAlloc(Prog[k].expand)
    BY <1>1, <1>2, <1>5 DEF NumInv
  <2>4. /\ WorstAlloc(FALSE) \in Nat /\ ReceivedFrom(k, r, Ranks) <= WorstAlloc(FALSE)
        /\ WorstAlloc(TRUE) \in Nat /\ Sum(AlignedTotals(k, r), LocalExperts) <= WorstAlloc(TRUE)
    BY <1>0, WorstIsEnough
  <2>5. CASE Prog[k].expand = TRUE
    BY <2>2, <2>3, <2>4, <2>5
  <2>6. CASE Prog[k].expand = FALSE
    BY <2>2, <2>3, <2>4, <2>6
  <2> QED BY <2>1, <2>5, <2>6
<1>6. CASE Prog[k].kind = "cached"
  <2>1. PICK h \in Calls : h = Prog[k].of /\ h = Home(k) /\ h < k /\ h \in Nat /\ Prog[h].kind = "dispatch"
                           /\ ~Expanded(k) /\ ~Prog[h].expand
    BY <1>0, <1>6, CachedCall
  <2>2. handle[r][k].alloc = handle[r][h].num
    BY <1>1, <1>2, <1>6, <2>1 DEF NumInv
  <2>3. Polled(r, h)
    <3>1. call[r] \in Nat
      BY DEF IInv, CountTypes
    <3> QED BY <1>0, <1>1, <2>1, <3>1 DEF Polled
  <2>4. NumInv(r, h)
    BY DEF CInv
  <2>5. ReceivedFrom(h, r, Ranks) = ReceivedFrom(k, r, Ranks)
    BY <1>0, <2>1, SameReceived
  <2>6. CASE Prog[h].sync
    <3>1. handle[r][h].num = ReceivedFrom(h, r, Ranks)
      BY <2>1, <2>3, <2>4, <2>6 DEF NumInv
    <3> QED BY <1>3, <2>1, <2>2, <2>5, <3>1
  <2>7. CASE ~Prog[h].sync
    <3>1. handle[r][h].num = WorstCase
      BY <2>1, <2>3, <2>4, <2>7 DEF NumInv
    <3>2. WorstCase \in Nat /\ ReceivedFrom(k, r, Ranks) <= WorstCase
      BY <1>0, RoutedBounds
    <3> QED BY <2>1, <2>2, <3>1, <3>2
  <2> QED BY <2>6, <2>7
<1> QED BY <1>4, <1>5, <1>6 DEF AnyDispatch

-----------------------------------------------------------------------------
(* The tensors of an ended dispatch. *)

LEMMA EndedTokens ==
  ASSUME IInv, SInv, EInv, NEW r \in Ranks, NEW k \in Calls, Prog[k].kind \in AnyDispatch, Ended(r, k),
         NEW meta, meta = handle[r][k].meta
  PROVE  /\ DOMAIN meta = 0 .. ReceivedFrom(k, r, Ranks) - 1
         /\ \A i \in DOMAIN meta :
              /\ meta[i].rank \in Ranks /\ meta[i].tok \in FromTo(k, meta[i].rank, r)
              /\ SourceRow(r, k, i) = Rows(k, meta[i].rank)[meta[i].tok]
              /\ ItemToken(r, k, i) = Token(k, meta[i].rank, meta[i].tok, Rows(k, meta[i].rank)[meta[i].tok])
         /\ \A s \in Ranks : \A t \in FromTo(k, s, r) :
              \E i \in DOMAIN meta : meta[i].rank = s /\ meta[i].tok = t
<1>1. /\ kernels[r] >= 2 * k - 1
      /\ DOMAIN meta = 0 .. ReceivedFrom(k, r, Ranks) - 1
      /\ \A i \in DOMAIN meta : IsItem(r, k, i, meta[i].rank, meta[i].tok)
  BY EndedItems
<1>2. ASSUME NEW i \in DOMAIN meta
      PROVE  /\ meta[i].rank \in Ranks /\ meta[i].tok \in FromTo(k, meta[i].rank, r)
             /\ SourceRow(r, k, i) = Rows(k, meta[i].rank)[meta[i].tok]
             /\ ItemToken(r, k, i) = Token(k, meta[i].rank, meta[i].tok, Rows(k, meta[i].rank)[meta[i].tok])
  <2>1. meta[i].rank \in Ranks /\ meta[i].tok \in FromTo(k, meta[i].rank, r)
    BY <1>1 DEF IsItem
  <2>2. SourceRow(r, k, i) = Rows(k, meta[i].rank)[meta[i].tok]
    BY DEF SourceRow
  <2> QED BY <2>1, <2>2 DEF ItemToken
<1>3. ASSUME NEW s \in Ranks, NEW t \in FromTo(k, s, r)
      PROVE  \E i \in DOMAIN meta : meta[i].rank = s /\ meta[i].tok = t
  <2>1. PICK i \in DOMAIN meta : IsItem(r, k, i, s, t)
    BY <1>1, ItemOfToken
  <2>2. IsItem(r, k, i, meta[i].rank, meta[i].tok)
    BY <1>1
  <2>3. meta[i].rank = s /\ meta[i].tok = t
    BY <1>1, <2>1, <2>2, ItemUnique
  <2> QED BY <2>3
<1> QED BY <1>1, <1>2, <1>3

\* Not expanded: all tokens that are routed to the rank, one place each.
PlainExact(r, k, recv) ==
  /\ DOMAIN recv = 0 .. ReceivedFrom(k, r, Ranks) - 1
  /\ \A p \in DOMAIN recv : \E s \in Ranks : \E t \in FromTo(k, s, r) : recv[p] = Token(k, s, t, Rows(k, s)[t])
  /\ \A s \in Ranks : \A t \in FromTo(k, s, r) : \E p \in DOMAIN recv : recv[p] = Token(k, s, t, Rows(k, s)[t])

LEMMA PlainTensor ==
  ASSUME IInv, SInv, EInv, NEW r \in Ranks, NEW k \in Calls, Prog[k].kind \in AnyDispatch, Ended(r, k),
         ~Expanded(k)
  PROVE  PlainExact(r, k, handle[r][k].recv)
<1> DEFINE recv == handle[r][k].recv
<1>1. PICK meta : meta = handle[r][k].meta
  OBVIOUS
<1>2. /\ DOMAIN meta = 0 .. ReceivedFrom(k, r, Ranks) - 1
      /\ \A i \in DOMAIN meta :
              /\ meta[i].rank \in Ranks /\ meta[i].tok \in FromTo(k, meta[i].rank, r)
              /\ ItemToken(r, k, i) = Token(k, meta[i].rank, meta[i].tok, Rows(k, meta[i].rank)[meta[i].tok])
      /\ \A s \in Ranks : \A t \in FromTo(k, s, r) :
              \E i \in DOMAIN meta : meta[i].rank = s /\ meta[i].tok = t
  BY <1>1, EndedTokens
<1>3. DOMAIN recv = DOMAIN meta /\ \A i \in DOMAIN meta : recv[i] = ItemToken(r, k, i)
  <2>1. PlainInv(r, k) /\ Copied(r, k) = 0 .. ReceivedFrom(k, r, Ranks) - 1
    BY EndedItems
  <2> QED BY <1>2, <2>1 DEF PlainInv
<1> HIDE DEF recv
<1>4. \A p \in DOMAIN recv : \E s \in Ranks : \E t \in FromTo(k, s, r) : recv[p] = Token(k, s, t, Rows(k, s)[t])
  BY <1>2, <1>3
<1>5. ASSUME NEW s \in Ranks, NEW t \in FromTo(k, s, r)
      PROVE  \E p \in DOMAIN recv : recv[p] = Token(k, s, t, Rows(k, s)[t])
  <2>1. PICK i \in DOMAIN meta : meta[i].rank = s /\ meta[i].tok = t
    BY <1>2
  <2>2. recv[i] = Token(k, s, t, Rows(k, s)[t])
    BY <1>2, <1>3, <2>1
  <2> QED BY <1>3, <2>2
<1> QED BY <1>2, <1>3, <1>4, <1>5 DEF PlainExact, recv

\* Expanded: the segment of an expert, where its tokens are, one place each.
PartExact(r, k, x, recv, S) ==
  /\ \A p \in S : \E s \in Ranks : \E t \in FromTo(k, s, r) :
       recv[p] = Token(k, s, t, Rows(k, s)[t]) /\ \E l \in Lanes : Rows(k, s)[t][l] = r * NumExpertsPerRank + x
  /\ \A s \in Ranks : \A t \in FromTo(k, s, r) :
       (\E l \in Lanes : Rows(k, s)[t][l] = r * NumExpertsPerRank + x) =>
         \E p \in S : recv[p] = Token(k, s, t, Rows(k, s)[t])

LEMMA ExpandTensor ==
  ASSUME IInv, SInv, EInv, NEW r \in Ranks, NEW k \in Calls, Prog[k].kind \in AnyDispatch, Ended(r, k),
         Expanded(k)
  PROVE  /\ DOMAIN handle[r][k].recv = UNION {Segment(r, k, x) : x \in LocalExperts}
         /\ \A x \in LocalExperts :
              /\ handle[r][k].epsum[x] = Start(k, r, x) + ExpertTotal(k, r, x)
              /\ PartExact(r, k, x, handle[r][k].recv, Segment(r, k, x))
<1> DEFINE recv == handle[r][k].recv
           epsum == handle[r][k].epsum
<1>0. setup \in Setups
  BY PlaceFacts
<1>1. PICK meta : meta = handle[r][k].meta
  OBVIOUS
<1>2. /\ DOMAIN meta = 0 .. ReceivedFrom(k, r, Ranks) - 1
      /\ \A i \in DOMAIN meta :
              /\ meta[i].rank \in Ranks /\ meta[i].tok \in FromTo(k, meta[i].rank, r)
              /\ SourceRow(r, k, i) = Rows(k, meta[i].rank)[meta[i].tok]
              /\ ItemToken(r, k, i) = Token(k, meta[i].rank, meta[i].tok, Rows(k, meta[i].rank)[meta[i].tok])
      /\ \A s \in Ranks : \A t \in FromTo(k, s, r) :
              \E i \in DOMAIN meta : meta[i].rank = s /\ meta[i].tok = t
  BY <1>1, EndedTokens
<1>3. Prog[k].kind = "dispatch"
  BY <1>0, CachedCall DEF AnyDispatch
<1>4. /\ DOMAIN recv = UNION {Segment(r, k, x) : x \in LocalExperts}
      /\ \A x \in LocalExperts :
           /\ epsum[x] = Start(k, r, x) + Cardinality(Having(r, k, x))
           /\ \A p \in Segment(r, k, x) : \E i \in Having(r, k, x) : recv[p] = ItemToken(r, k, i)
           /\ \A i \in Having(r, k, x) : \E p \in Segment(r, k, x) : recv[p] = ItemToken(r, k, i)
  <2>1. ExpandInv(r, k) /\ Finished(r, k)
    BY EndedItems
  <2> QED BY <1>3, <2>1 DEF ExpandInv
<1> HIDE DEF recv, epsum
<1>5. ASSUME NEW x \in LocalExperts
      PROVE  \A i : i \in Having(r, k, x) <=>
               /\ i \in DOMAIN meta
               /\ \E l \in Lanes : Rows(k, meta[i].rank)[meta[i].tok][l] = r * NumExpertsPerRank + x
  <2>1. \A i : i \in Having(r, k, x) <=>
               i \in DOMAIN meta /\ \E l \in Lanes : SourceRow(r, k, i)[l] = r * NumExpertsPerRank + x
    BY <1>1 DEF Having
  <2> QED BY <1>2, <2>1
<1>6. ASSUME NEW x \in LocalExperts
      PROVE  Cardinality(Having(r, k, x)) = ExpertTotal(k, r, x)
  <2> DEFINE H == Having(r, k, x)
             f == [i \in H |-> meta[i].rank]
             g == [i \in H |-> meta[i].tok]
             e == r * NumExpertsPerRank + x
  <2>1. \A i \in H : i \in DOMAIN meta /\ f[i] = meta[i].rank /\ g[i] = meta[i].tok
    BY <1>5
  <2>2. \A i \in H : IsItem(r, k, i, f[i], g[i]) /\ \E l \in Lanes : Rows(k, f[i])[g[i]][l] = e
    <3>1. \A i \in DOMAIN meta : IsItem(r, k, i, meta[i].rank, meta[i].tok)
      BY <1>1, EndedItems
    <3> HIDE DEF f, g
    <3> QED BY <1>5, <2>1, <3>1
  <2>3. \A p \in RoutedToExpert(k, e) : \E i \in H : f[i] = p[1] /\ g[i] = p[2]
    <3> SUFFICES ASSUME NEW p \in RoutedToExpert(k, e)
                 PROVE  \E i \in H : f[i] = p[1] /\ g[i] = p[2]
      OBVIOUS
    <3>1. p \in RoutedTo(k, r) /\ \E l \in Lanes : Rows(k, p[1])[p[2]][l] = e
      BY LocalExpertRank DEF RoutedToExpert
    <3>2. p[1] \in Ranks /\ p[2] \in FromTo(k, p[1], r)
      BY <3>1 DEF RoutedTo, FromTo
    <3>3. PICK i \in DOMAIN meta : meta[i].rank = p[1] /\ meta[i].tok = p[2]
      BY <1>2, <3>2
    <3>4. i \in H
      BY <1>5, <3>1, <3>3
    <3> HIDE DEF f, g
    <3> QED BY <2>1, <3>3, <3>4
  <2> HIDE DEF H, f, g
  <2>a. ItemsFor(r, k, x, H, f, g)
    BY <2>2 DEF ItemsFor
  <2>b. AllItems(r, k, x, H, f, g)
    BY <2>3 DEF AllItems
  <2>c. /\ IsFiniteSet(H) /\ Cardinality(H) \in Nat /\ Cardinality(H) <= ExpertTotal(k, r, x)
        /\ AllItems(r, k, x, H, f, g) => Cardinality(H) = ExpertTotal(k, r, x)
    BY ONLY IInv, r \in Ranks, k \in Calls, x \in LocalExperts, <2>a, ItemsFit
  <2>4. Cardinality(H) = ExpertTotal(k, r, x)
    BY ONLY <2>b, <2>c
  <2> QED BY <2>4 DEF H
<1>7. ASSUME NEW x \in LocalExperts
      PROVE  PartExact(r, k, x, recv, Segment(r, k, x))
  <2> DEFINE S == Segment(r, k, x)
             Into(s, t) == \E l \in Lanes : Rows(k, s)[t][l] = r * NumExpertsPerRank + x
  <2>1. ASSUME NEW p \in S
        PROVE  \E s \in Ranks : \E t \in FromTo(k, s, r) : recv[p] = Token(k, s, t, Rows(k, s)[t]) /\ Into(s, t)
    <3>1. PICK i \in Having(r, k, x) : recv[p] = ItemToken(r, k, i)
      BY <1>4
    <3>2. i \in DOMAIN meta /\ Into(meta[i].rank, meta[i].tok)
      BY <1>5
    <3> HIDE DEF Into
    <3> QED BY <1>2, <3>1, <3>2
  <2>2. ASSUME NEW s \in Ranks, NEW t \in FromTo(k, s, r), Into(s, t)
        PROVE  \E p \in S : recv[p] = Token(k, s, t, Rows(k, s)[t])
    <3>1. PICK i \in DOMAIN meta : meta[i].rank = s /\ meta[i].tok = t
      BY <1>2
    <3>2. i \in Having(r, k, x)
      BY <1>5, <2>2, <3>1
    <3>3. PICK p \in S : recv[p] = ItemToken(r, k, i)
      BY <1>4, <3>2
    <3>4. ItemToken(r, k, i) = Token(k, s, t, Rows(k, s)[t])
      BY <1>2, <3>1
    <3> QED BY <3>3, <3>4
  <2> QED BY <2>1, <2>2 DEF PartExact
<1> QED BY <1>4, <1>6, <1>7 DEF recv, epsum

\* Segments begin at multiples of the alignment: where the aligned end of the one before is.
LEMMA StartMultiple ==
  ASSUME setup \in Setups, NEW k \in Calls, NEW r \in Ranks
  PROVE  \A x \in LocalExperts : \E a \in Nat : Start(k, r, x) = a * ExpertAlignment
<1> DEFINE A == ExpertAlignment
           N == NumExpertsPerRank
           T == {n \in Nat : n < N => \E a \in Nat : Start(k, r, n) = a * A}
<1>0. N \in Nat /\ N >= 1 /\ LocalExperts = 0 .. N - 1 /\ A \in Nat /\ A >= 1
  BY SizesAssumption DEF LocalExperts
<1>1. 0 \in T
  <2>1. Start(k, r, 0) = 0
    BY StartFacts
  <2>2. 0 = 0 * A
    BY <1>0
  <2> QED BY <2>1, <2>2
<1>2. ASSUME NEW n \in Nat, n \in T
      PROVE  n + 1 \in T
  <2> SUFFICES ASSUME n + 1 < N
               PROVE  \E a \in Nat : Start(k, r, n + 1) = a * A
    OBVIOUS
  <2>1. n \in LocalExperts /\ n < N
    BY <1>0
  <2>2. PICK a \in Nat : Start(k, r, n) = a * A
    BY <1>2, <2>1
  <2>3. Start(k, r, n + 1) = Start(k, r, n) + Align(ExpertTotal(k, r, n))
    BY <2>1, StartFacts
  <2>4. PICK t \in Nat : t = ExpertTotal(k, r, n)
    BY <2>1, TotalsNat
  <2>5. PICK b \in Nat : b = (t + A - 1) \div A
    <3>1. t + A - 1 \in Nat
      BY <1>0
    <3> HIDE DEF A
    <3> QED BY <1>0, <3>1, DivMod
  <2>6. Align(t) = b * A
    BY <2>5 DEF Align
  <2> HIDE DEF A
  <2>7. (a + b) * A = a * A + b * A /\ a + b \in Nat
    BY <1>0
  <2> QED BY <2>2, <2>3, <2>4, <2>6, <2>7
<1> HIDE DEF T
<1>3. \A n \in Nat : n \in T
  BY <1>1, <1>2, Induction
<1>4. \A x \in LocalExperts : x \in Nat /\ x < N
  BY <1>0
<1> QED BY <1>3, <1>4 DEF T

LEMMA SegmentsFound ==
  ASSUME IInv, SInv, EInv, NEW r \in Ranks, NEW k \in Calls, Prog[k].kind \in AnyDispatch, Ended(r, k),
         Expanded(k), NEW x \in LocalExperts
  PROVE  /\ SegmentStart(handle[r][k], x) = Start(k, r, x)
         /\ Segment(r, k, x) \subseteq Nat
         /\ \A p \in Nat : (r * NumExpertsPerRank + x) \in SegmentOf(handle[r][k], r, p) <=> p \in Segment(r, k, x)
<1> DEFINE h == handle[r][k]
<1>0. setup \in Setups /\ NumExpertsPerRank \in Nat /\ LocalExperts = 0 .. NumExpertsPerRank - 1
  BY PlaceFacts, SizesAssumption DEF LocalExperts
<1>1. \A y \in LocalExperts :
        /\ h.epsum[y] = Start(k, r, y) + ExpertTotal(k, r, y)
        /\ Start(k, r, y) \in Nat /\ ExpertTotal(k, r, y) \in Nat
        /\ Start(k, r, y + 1) = Start(k, r, y) + Align(ExpertTotal(k, r, y))
  BY <1>0, ExpandTensor, StartFacts, TotalsNat
<1> HIDE DEF h
<1>2. ASSUME NEW y \in LocalExperts
      PROVE  SegmentStart(h, y) = Start(k, r, y)
  <2>1. CASE y = 0
    <3>1. Start(k, r, 0) = 0
      BY <1>0, StartFacts
    <3> QED BY <2>1, <3>1 DEF SegmentStart
  <2>2. CASE y # 0
    <3>1. PICK z \in LocalExperts : z = y - 1 /\ z + 1 = y
      BY <1>0, <2>2
    <3>2. PICK a \in Nat : Start(k, r, z) = a * ExpertAlignment
      BY <1>0, StartMultiple
    <3>3. PICK t \in Nat : t = ExpertTotal(k, r, z)
      BY <1>1
    <3>4. h.epsum[z] = a * ExpertAlignment + t
      BY <1>1, <3>2, <3>3
    <3>5. Align(h.epsum[z]) = a * ExpertAlignment + Align(t)
      BY <3>4, AlignBehind
    <3>6. Start(k, r, y) = a * ExpertAlignment + Align(t)
      BY <1>1, <3>1, <3>2, <3>3
    <3>7. SegmentStart(h, y) = Align(h.epsum[z])
      BY <2>2, <3>1 DEF SegmentStart
    <3> QED BY <3>5, <3>6, <3>7
  <2> QED BY <2>1, <2>2
<1>3. h.epsum[x] \in Nat /\ Start(k, r, x) \in Nat /\ Segment(r, k, x) = Start(k, r, x) .. h.epsum[x] - 1
  BY <1>1 DEF Segment, h
<1>4. Segment(r, k, x) \subseteq Nat
  BY <1>3
<1>5. ASSUME NEW p \in Nat
      PROVE  (r * NumExpertsPerRank + x) \in SegmentOf(h, r, p) <=> p \in Segment(r, k, x)
  <2>1. p \in Segment(r, k, x) <=> Start(k, r, x) <= p /\ p < h.epsum[x]
    BY <1>3
  <2>2. \A y \in LocalExperts : r * NumExpertsPerRank + y = r * NumExpertsPerRank + x <=> y = x
    BY <1>0, SizesAssumption DEF Ranks
  <2>3. (r * NumExpertsPerRank + x) \in SegmentOf(h, r, p) <=>
          \E y \in LocalExperts : /\ SegmentStart(h, y) <= p /\ p < h.epsum[y]
                                  /\ r * NumExpertsPerRank + y = r * NumExpertsPerRank + x
    BY DEF SegmentOf
  <2> QED BY <1>2, <2>1, <2>2, <2>3
<1> QED BY <1>2, <1>4, <1>5 DEF h

\* What DispatchExact says of one call's tensor, in two halves.
Allotted(r, k) ==
  /\ DOMAIN handle[r][k].recv \subseteq 0 .. handle[r][k].alloc - 1
  /\ \A p \in DOMAIN handle[r][k].recv : \E s \in Ranks : \E t \in FromTo(k, s, r) :
       handle[r][k].recv[p] = Token(k, s, t, Rows(k, s)[t])
TokensAt(recv, places) == {<<recv[p].src, recv[p].tok>> : p \in places}
FilledBy(r, k, e) == {p \in DOMAIN handle[r][k].recv : e \in SegmentOf(handle[r][k], r, p)}

LEMMA PlainDelivered ==
  ASSUME IInv, SInv, CInv, EInv, NEW r \in Ranks, NEW k \in Calls, Prog[k].kind \in AnyDispatch, Ended(r, k),
         ~Expanded(k)
  PROVE  /\ Allotted(r, k)
         /\ TokensAt(handle[r][k].recv, DOMAIN handle[r][k].recv) = RoutedTo(k, r)
         /\ DOMAIN handle[r][k].recv = 0 .. Cardinality(RoutedTo(k, r)) - 1
<1> DEFINE recv == handle[r][k].recv
<1>0. setup \in Setups
  BY PlaceFacts
<1>1. /\ DOMAIN recv = 0 .. ReceivedFrom(k, r, Ranks) - 1
      /\ \A p \in DOMAIN recv : \E s \in Ranks : \E t \in FromTo(k, s, r) : recv[p] = Token(k, s, t, Rows(k, s)[t])
      /\ \A s \in Ranks : \A t \in FromTo(k, s, r) : \E p \in DOMAIN recv : recv[p] = Token(k, s, t, Rows(k, s)[t])
  BY PlainTensor DEF PlainExact
<1>2. ReceivedFrom(k, r, Ranks) = Cardinality(RoutedTo(k, r))
  <2>1. {p \in RoutedTo(k, r) : p[1] \in Ranks} = RoutedTo(k, r)
    BY DEF RoutedTo
  <2> QED BY <2>1 DEF ReceivedFrom
<1>3. DOMAIN recv \subseteq 0 .. handle[r][k].alloc - 1
  <2>1. /\ handle[r][k].alloc \in Nat /\ ReceivedFrom(k, r, Ranks) <= handle[r][k].alloc
        /\ ReceivedFrom(k, r, Ranks) \in Nat
    BY <1>0, AllocFits, BaseFacts
  <2> QED BY <1>1, <2>1
<1> HIDE DEF recv
<1>4. \A s, t : Token(k, s, t, Rows(k, s)[t]).src = s /\ Token(k, s, t, Rows(k, s)[t]).tok = t
  BY DEF Token
<1>5. \A q : q \in RoutedTo(k, r) <=> \E s \in Ranks : \E t \in FromTo(k, s, r) : q = <<s, t>>
  BY <1>0, RoutedFacts
<1>6. TokensAt(recv, DOMAIN recv) = RoutedTo(k, r)
  <2>1. ASSUME NEW p \in DOMAIN recv
        PROVE  <<recv[p].src, recv[p].tok>> \in RoutedTo(k, r)
    <3>1. PICK s \in Ranks : \E t \in FromTo(k, s, r) : recv[p] = Token(k, s, t, Rows(k, s)[t])
      BY <1>1
    <3>2. PICK t \in FromTo(k, s, r) : recv[p] = Token(k, s, t, Rows(k, s)[t])
      BY <3>1
    <3>3. recv[p].src = s /\ recv[p].tok = t
      BY <1>4, <3>2
    <3> QED BY <1>5, <3>3
  <2>2. ASSUME NEW q \in RoutedTo(k, r)
        PROVE  \E p \in DOMAIN recv : q = <<recv[p].src, recv[p].tok>>
    <3>1. PICK s \in Ranks : \E t \in FromTo(k, s, r) : q = <<s, t>>
      BY <1>5
    <3>2. PICK t \in FromTo(k, s, r) : q = <<s, t>>
      BY <3>1
    <3>3. PICK p \in DOMAIN recv : recv[p] = Token(k, s, t, Rows(k, s)[t])
      BY <1>1
    <3>4. recv[p].src = s /\ recv[p].tok = t
      BY <1>4, <3>3
    <3> QED BY <3>2, <3>4
  <2> QED BY <2>1, <2>2 DEF TokensAt
<1> QED BY <1>1, <1>2, <1>3, <1>6 DEF Allotted, recv

LEMMA ExpandDelivered ==
  ASSUME IInv, SInv, CInv, EInv, NEW r \in Ranks, NEW k \in Calls, Prog[k].kind \in AnyDispatch, Ended(r, k),
         Expanded(k)
  PROVE  /\ Allotted(r, k)
         /\ \A x \in LocalExperts :
              LET e == r * NumExpertsPerRank + x
              IN  /\ TokensAt(handle[r][k].recv, FilledBy(r, k, e)) = RoutedToExpert(k, e)
                  /\ Cardinality(FilledBy(r, k, e)) = Cardinality(RoutedToExpert(k, e))
<1> DEFINE recv == handle[r][k].recv
           E(x) == r * NumExpertsPerRank + x
           S(x) == Segment(r, k, x)
<1>0. /\ setup \in Setups /\ NumExpertsPerRank \in Nat /\ NumExpertsPerRank \in 0 .. NumExpertsPerRank
      /\ \A x \in LocalExperts : x < NumExpertsPerRank
  BY PlaceFacts, SizesAssumption DEF LocalExperts
<1>1. /\ DOMAIN recv = UNION {S(x) : x \in LocalExperts}
      /\ \A x \in LocalExperts :
           /\ handle[r][k].epsum[x] = Start(k, r, x) + ExpertTotal(k, r, x)
           /\ PartExact(r, k, x, recv, S(x))
  BY ExpandTensor
<1>2. \A x \in LocalExperts :
        /\ Start(k, r, x) \in Nat /\ ExpertTotal(k, r, x) \in Nat
        /\ ExpertTotal(k, r, x) <= Align(ExpertTotal(k, r, x)) /\ Align(ExpertTotal(k, r, x)) \in Nat
        /\ Start(k, r, x) + Align(ExpertTotal(k, r, x)) <= Start(k, r, NumExpertsPerRank)
        /\ S(x) = Start(k, r, x) .. (Start(k, r, x) + ExpertTotal(k, r, x)) - 1
  BY <1>0, <1>1, StartFacts, TotalsNat DEF Segment
<1>3. /\ handle[r][k].alloc \in Nat
      /\ Start(k, r, NumExpertsPerRank) \in Nat /\ Start(k, r, NumExpertsPerRank) <= handle[r][k].alloc
  <2>1. handle[r][k].alloc \in Nat /\ Sum(AlignedTotals(k, r), LocalExperts) <= handle[r][k].alloc
    BY AllocFits
  <2>2. Start(k, r, NumExpertsPerRank) = Sum(AlignedTotals(k, r), LocalExperts)
    BY <1>0, StartFacts
  <2>3. Sum(AlignedTotals(k, r), LocalExperts) \in Nat
    <3>1. \A x \in LocalExperts : AlignedTotals(k, r)[x] \in Nat
      BY <1>0, TotalsNat
    <3>2. IsFiniteSet(LocalExperts)
      <4>1. 0 \in Int /\ NumExpertsPerRank - 1 \in Int
        BY SizesAssumption
      <4>2. IsFiniteSet(0 .. NumExpertsPerRank - 1)
        BY <4>1, FS_Interval
      <4> QED BY <4>2 DEF LocalExperts
    <3> QED BY <3>1, <3>2, SumNat
  <2> QED BY <2>1, <2>2, <2>3
<1> HIDE DEF recv, S
<1>4. Allotted(r, k)
  <2>1. ASSUME NEW p \in DOMAIN recv
        PROVE  /\ p \in 0 .. handle[r][k].alloc - 1
               /\ \E s \in Ranks : \E t \in FromTo(k, s, r) : recv[p] = Token(k, s, t, Rows(k, s)[t])
    <3>1. PICK x \in LocalExperts : p \in S(x)
      BY <1>1
    <3>2. p \in 0 .. handle[r][k].alloc - 1
      BY <1>2, <1>3, <3>1
    <3>3. PartExact(r, k, x, recv, S(x))
      BY <1>1
    <3> QED BY <3>1, <3>2, <3>3 DEF PartExact
  <2> QED BY <2>1 DEF Allotted, recv
<1>5. ASSUME NEW x \in LocalExperts
      PROVE  FilledBy(r, k, E(x)) = S(x)
  <2>1. S(x) \subseteq DOMAIN recv
    BY <1>1
  <2>2. \A p \in Nat : E(x) \in SegmentOf(handle[r][k], r, p) <=> p \in S(x)
    BY SegmentsFound DEF S
  <2>3. DOMAIN recv \subseteq Nat
    <3>1. \A y \in LocalExperts : S(y) \subseteq Nat
      BY SegmentsFound DEF S
    <3> QED BY <1>1, <3>1
  <2> HIDE DEF E
  <2> QED BY <2>1, <2>2, <2>3 DEF FilledBy, recv
<1>6. \A s, t : Token(k, s, t, Rows(k, s)[t]).src = s /\ Token(k, s, t, Rows(k, s)[t]).tok = t
  BY DEF Token
<1>7. ASSUME NEW x \in LocalExperts
      PROVE  TokensAt(recv, S(x)) = RoutedToExpert(k, E(x))
  <2> DEFINE Into(s, t) == \E l \in Lanes : Rows(k, s)[t][l] = E(x)
  <2>1. /\ \A p \in S(x) : \E s \in Ranks : \E t \in FromTo(k, s, r) :
             recv[p] = Token(k, s, t, Rows(k, s)[t]) /\ Into(s, t)
        /\ \A s \in Ranks : \A t \in FromTo(k, s, r) : Into(s, t) =>
             \E p \in S(x) : recv[p] = Token(k, s, t, Rows(k, s)[t])
    BY <1>1 DEF PartExact
  <2>2. \A q : q \in RoutedToExpert(k, E(x)) <=> \E s \in Ranks : \E t \in FromTo(k, s, r) : Into(s, t) /\ q = <<s, t>>
    <3>1. \A q : q \in RoutedToExpert(k, E(x)) <=> q \in RoutedTo(k, r) /\ Into(q[1], q[2])
      BY LocalExpertRank DEF RoutedToExpert
    <3>2. \A q : q \in RoutedTo(k, r) <=> \E s \in Ranks : \E t \in FromTo(k, s, r) : q = <<s, t>>
      BY <1>0, RoutedFacts
    <3>3. \A s, t : <<s, t>>[1] = s /\ <<s, t>>[2] = t
      OBVIOUS
    <3> HIDE DEF Into, E
    <3> QED BY <3>1, <3>2, <3>3
  <2> HIDE DEF Into, E
  <2>3. ASSUME NEW p \in S(x)
        PROVE  <<recv[p].src, recv[p].tok>> \in RoutedToExpert(k, E(x))
    <3>1. PICK s \in Ranks : \E t \in FromTo(k, s, r) : recv[p] = Token(k, s, t, Rows(k, s)[t]) /\ Into(s, t)
      BY <2>1
    <3>2. PICK t \in FromTo(k, s, r) : recv[p] = Token(k, s, t, Rows(k, s)[t]) /\ Into(s, t)
      BY <3>1
    <3>3. recv[p].src = s /\ recv[p].tok = t
      BY <1>6, <3>2
    <3> QED BY <2>2, <3>2, <3>3
  <2>4. ASSUME NEW q \in RoutedToExpert(k, E(x))
        PROVE  \E p \in S(x) : q = <<recv[p].src, recv[p].tok>>
    <3>1. PICK s \in Ranks : \E t \in FromTo(k, s, r) : Into(s, t) /\ q = <<s, t>>
      BY <2>2
    <3>2. PICK t \in FromTo(k, s, r) : Into(s, t) /\ q = <<s, t>>
      BY <3>1
    <3>3. PICK p \in S(x) : recv[p] = Token(k, s, t, Rows(k, s)[t])
      BY <2>1, <3>2
    <3>4. recv[p].src = s /\ recv[p].tok = t
      BY <1>6, <3>3
    <3> QED BY <3>2, <3>4
  <2> QED BY <2>3, <2>4 DEF TokensAt
<1>8. ASSUME NEW x \in LocalExperts
      PROVE  Cardinality(S(x)) = Cardinality(RoutedToExpert(k, E(x)))
  <2> DEFINE a == Start(k, r, x)
             n == ExpertTotal(k, r, x)
  <2>1. a \in Nat /\ n \in Nat /\ S(x) = a .. (a + n) - 1
    BY <1>2
  <2>2. n = Cardinality(RoutedToExpert(k, E(x)))
    BY DEF ExpertTotal
  <2> HIDE DEF a, n
  <2>3. a \in Int /\ (a + n) - 1 \in Int
    BY <2>1
  <2>4. Cardinality(a .. (a + n) - 1) = IF a > (a + n) - 1 THEN 0 ELSE ((a + n) - 1) - a + 1
    BY ONLY <2>3, FS_Interval
  <2>5. Cardinality(S(x)) = n
    BY <2>1, <2>4
  <2> QED BY <2>2, <2>5
<1>9. ASSUME NEW x \in LocalExperts
      PROVE  /\ TokensAt(recv, FilledBy(r, k, E(x))) = RoutedToExpert(k, E(x))
             /\ Cardinality(FilledBy(r, k, E(x))) = Cardinality(RoutedToExpert(k, E(x)))
  BY <1>5, <1>7, <1>8
<1> QED BY <1>4, <1>9 DEF recv

LEMMA DispatchFromInv == IInv /\ SInv /\ CInv /\ EInv => DispatchExact
<1> SUFFICES ASSUME IInv, SInv, CInv, EInv, NEW r \in Ranks, NEW k \in Calls,
                    Ended(r, k), Prog[k].kind \in AnyDispatch
             PROVE  /\ DOMAIN handle[r][k].recv \subseteq 0 .. handle[r][k].alloc - 1
                    /\ \A p \in DOMAIN handle[r][k].recv :
                         /\ handle[r][k].recv[p].tok \in DOMAIN Rows(k, handle[r][k].recv[p].src)
                         /\ handle[r][k].recv[p] = Token(k, handle[r][k].recv[p].src, handle[r][k].recv[p].tok,
                              Rows(k, handle[r][k].recv[p].src)[handle[r][k].recv[p].tok])
                    /\ IF Expanded(k)
                       THEN \A x \in LocalExperts :
                              LET e == r * NumExpertsPerRank + x
                              IN  /\ TokensAt(handle[r][k].recv, FilledBy(r, k, e)) = RoutedToExpert(k, e)
                                  /\ Cardinality(FilledBy(r, k, e)) = Cardinality(RoutedToExpert(k, e))
                       ELSE /\ TokensAt(handle[r][k].recv, DOMAIN handle[r][k].recv) = RoutedTo(k, r)
                            /\ DOMAIN handle[r][k].recv = 0 .. Cardinality(RoutedTo(k, r)) - 1
  BY DEF DispatchExact, TokensAt, FilledBy
<1>1. Allotted(r, k)
  BY PlainDelivered, ExpandDelivered
<1>2. ASSUME NEW p \in DOMAIN handle[r][k].recv
      PROVE  /\ handle[r][k].recv[p].tok \in DOMAIN Rows(k, handle[r][k].recv[p].src)
             /\ handle[r][k].recv[p] = Token(k, handle[r][k].recv[p].src, handle[r][k].recv[p].tok,
                  Rows(k, handle[r][k].recv[p].src)[handle[r][k].recv[p].tok])
  <2>1. PICK s \in Ranks : \E t \in FromTo(k, s, r) : handle[r][k].recv[p] = Token(k, s, t, Rows(k, s)[t])
    BY <1>1 DEF Allotted
  <2>2. PICK t \in FromTo(k, s, r) : handle[r][k].recv[p] = Token(k, s, t, Rows(k, s)[t])
    BY <2>1
  <2>3. handle[r][k].recv[p].src = s /\ handle[r][k].recv[p].tok = t
    BY <2>2 DEF Token
  <2>4. t \in DOMAIN Rows(k, s)
    BY DEF FromTo
  <2> QED BY <2>2, <2>3, <2>4
<1>3. Expanded(k) => \A x \in LocalExperts :
              LET e == r * NumExpertsPerRank + x
              IN  /\ TokensAt(handle[r][k].recv, FilledBy(r, k, e)) = RoutedToExpert(k, e)
                  /\ Cardinality(FilledBy(r, k, e)) = Cardinality(RoutedToExpert(k, e))
  BY ExpandDelivered
<1>4. ~Expanded(k) => /\ TokensAt(handle[r][k].recv, DOMAIN handle[r][k].recv) = RoutedTo(k, r)
                      /\ DOMAIN handle[r][k].recv = 0 .. Cardinality(RoutedTo(k, r)) - 1
  BY PlainDelivered
<1> QED BY <1>1, <1>2, <1>3, <1>4 DEF Allotted

\* Any number of ranks, experts and tokens, any program, any order of warps, stores and
\* counts: a dispatch delivers every token that is routed to the rank once, with its row and
\* from this call, in the tensor that was allocated, and expanded in its expert's segment.
THEOREM DispatchDelivers == Spec => []DispatchExact
<1> QED BY Invariance, CountsInOnePlace, TensorsInPlace, NumbersInPlace, DispatchFromInv, PTL

-----------------------------------------------------------------------------
(***************************************************************************)
(* The invariants of combine.  What the copy epilogue leaves in a handle   *)
(* names, for every received token, the places of its copies (LInv); so    *)
(* the sum that is sent back holds one term for each expert of the rank,   *)
(* and it is on its way or in a place of its own in the source's buffer    *)
(* until the source adds it up (BInv); what is added up holds one term for *)
(* each expert of the token (RInv).                                        *)
(***************************************************************************)

\* The metadata of a received token: its master lane, and (expanded) for each lane of this
\* rank a place in the expert's segment where the token is.
Placed(r, k, i, l) ==
  LET row == SourceRow(r, k, i)
      p   == handle[r][k].meta[i].place[l]
  IN  IF RankOf(row[l]) = r /\ Expanded(k)
      THEN p \in Segment(r, k, LocalIdx(row[l])) /\ handle[r][k].recv[p] = ItemToken(r, k, i)
      ELSE p = -1
LaneInv(r, k) ==
  \A i \in DOMAIN handle[r][k].meta :
    /\ handle[r][k].meta[i].lane = MasterLane(LanesTo(SourceRow(r, k, i), r))
    /\ DOMAIN handle[r][k].meta[i].place = Lanes
    /\ \A l \in Lanes : Placed(r, k, i, l)
LInv == \A r \in Ranks : \A k \in Calls : Prog[k].kind = "dispatch" => LaneInv(r, k)

\* What comes back for token t of rank s in combine k: one sum per lane of ReduceLanes, in
\* the region of the lane or of its rank, with the terms of the lanes in Cover.
PerLane(k) == Expanded(k) /\ ~setup.multiple
ReduceLanes(k, row) == IF PerLane(k) THEN {l \in DOMAIN row : row[l] >= 0} ELSE DedupLanes(row)
Cover(k, row, l)    == IF PerLane(k) THEN {l} ELSE LanesTo(row, RankOf(row[l]))
Region(row, l)      == IF UseRankLayout THEN RankOf(row[l]) ELSE l - 1
TermOf(k, s, t, row, l) == <<k, RankOf(row[l]), s, t, row[l]>>
TermsOf(k, s, t, row, lanes) == {TermOf(k, s, t, row, l) : l \in lanes}

\* A sum that holds every term of T once.
SumOnce(sum, T) == sum \in Seq(AllTerms) /\ Range(sum) = T /\ IsInjective(sum)
Returned(k, s, t, lanes, sum) == SumOnce(sum, TermsOf(k, s, t, Rows(k, s)[t], lanes))

BackPost(m, k, s, t, l) ==
  LET row == Rows(k, s)[t]
  IN  /\ m.to = s /\ m.from = RankOf(row[l]) /\ m.at = <<Region(row, l), t - 1>>
      /\ m.token = Partial(k, m.token.sum) /\ Returned(k, s, t, Cover(k, row, l), m.token.sum)
BackPosted(m) ==
  Prog[m.token.call].kind = "combine" =>
    \E t \in DOMAIN Rows(m.token.call, m.to) :
      \E l \in ReduceLanes(m.token.call, Rows(m.token.call, m.to)[t]) : BackPost(m, m.token.call, m.to, t, l)

\* Rank d has sent back what it received as token t of rank s.
SentBack(d, k, s, t) ==
  \E i \in DOMAIN handle[d][Home(k)].meta :
    /\ handle[d][Home(k)].meta[i].rank = s /\ handle[d][Home(k)].meta[i].tok = t
    /\ Sent(d, k, i)
BackDelivered(k, s, t, l) ==
  LET row == Rows(k, s)[t]
      at  == <<Region(row, l), t - 1>>
  IN  CallOf(s) = k /\ SentBack(RankOf(row[l]), k, s, t) =>
        \/ \E m \in stores : m.to = s /\ m.at = at
        \/ Returned(k, s, t, Cover(k, row, l), buffer[s][at].sum)
\* In the last barrier of a combine a rank has sent back all that it had received.
BackDone(d) ==
  stage[d] = "leave" /\ Kind(d) = "combine" => done[d] = DOMAIN handle[d][Home(CallOf(d))].meta
BInv ==
  /\ \A d \in Ranks : BackDone(d)
  /\ \A m \in stores : BackPosted(m)
  /\ \A k \in Calls : Prog[k].kind = "combine" =>
       \A s \in Ranks : \A t \in DOMAIN Rows(k, s) : \A l \in ReduceLanes(k, Rows(k, s)[t]) :
         BackDelivered(k, s, t, l)

\* The tokens that rank r has added up in combine k.
Summed(r, k) == IF kernels[r] >= 2 * k THEN DOMAIN Rows(k, r)
                ELSE IF kernels[r] = 2 * k - 1 /\ stage[r] = "work" THEN done[r] ELSE {}
Masked(row) == {l \in Lanes : row[l] = -1}
SumsInv(r, k) ==
  LET sums == handle[r][k].sums
  IN  /\ DOMAIN sums = Summed(r, k) /\ Summed(r, k) \subseteq DOMAIN Rows(k, r)
      /\ \A t \in DOMAIN sums : Returned(k, r, t, Lanes \ Masked(Rows(k, r)[t]), sums[t])
RInv == \A r \in Ranks : \A k \in Calls : Prog[k].kind = "combine" => SumsInv(r, k)

-----------------------------------------------------------------------------
(* Joined sums: the same recursion as that of Sum, over sequences. *)

JoinOver(f, S) == FoldFunctionOnSet(LAMBDA x, y : x \o y, <<>>, f, S)
IsJoinIter(g, f, S) ==
  g = [s \in SUBSET S |-> IF s = {} THEN <<>> ELSE f[Pick(s)] \o g[s \ {Pick(s)}]]
IsJoinPart(g, f, S, n) ==
  g = [s \in Small(S, n) |-> IF s = {} THEN <<>> ELSE f[Pick(s)] \o g[s \ {Pick(s)}]]

LEMMA JoinIter ==
  ASSUME NEW f, NEW S
  PROVE  JoinOver(f, S) = (CHOOSE g : IsJoinIter(g, f, S))[S]
BY DEF JoinOver, FoldFunctionOnSet, MapThenFoldSet, IsJoinIter, Pick

LEMMA JoinIterExists ==
  ASSUME NEW f, NEW S, IsFiniteSet(S)
  PROVE  \E g : IsJoinIter(g, f, S)
<1> DEFINE T == {n \in Nat : \E g : IsJoinPart(g, f, S, n)}
<1>0. \A s \in SUBSET S : IsFiniteSet(s) /\ Cardinality(s) \in Nat /\ Cardinality(s) <= Cardinality(S)
  BY FS_Subset, FS_CardinalityType
<1>1. 0 \in T
  <2>1. \A s \in Small(S, 0) : s = {}
    BY <1>0, FS_EmptySet DEF Small
  <2>2. IsJoinPart([s \in Small(S, 0) |-> <<>>], f, S, 0)
    BY <2>1 DEF IsJoinPart
  <2> QED BY <2>2
<1>2. ASSUME NEW n \in Nat, n \in T
      PROVE  n + 1 \in T
  <2>1. PICK g : IsJoinPart(g, f, S, n)
    BY <1>2
  <2> DEFINE h == [s \in Small(S, n + 1) |-> IF s = {} THEN <<>> ELSE f[Pick(s)] \o g[s \ {Pick(s)}]]
  <2>2. ASSUME NEW s \in Small(S, n)
        PROVE  s \in Small(S, n + 1) /\ h[s] = g[s]
    <3>1. s \in Small(S, n + 1)
      BY <1>0 DEF Small
    <3>2. g[s] = IF s = {} THEN <<>> ELSE f[Pick(s)] \o g[s \ {Pick(s)}]
      BY <2>1 DEF IsJoinPart
    <3> QED BY <3>1, <3>2
  <2>3. ASSUME NEW s \in Small(S, n + 1), s # {}
        PROVE  h[s \ {Pick(s)}] = g[s \ {Pick(s)}]
    <3>1. s \ {Pick(s)} \in Small(S, n)
      BY <1>0, <2>3, LessOne DEF Small
    <3> QED BY <2>2, <3>1
  <2>4. h = [s \in Small(S, n + 1) |-> IF s = {} THEN <<>> ELSE f[Pick(s)] \o h[s \ {Pick(s)}]]
    BY <2>3, Zenon
  <2>5. IsJoinPart(h, f, S, n + 1)
    BY <2>4 DEF IsJoinPart
  <2> QED BY <2>5
<1>3. Cardinality(S) \in T
  <2> HIDE DEF T
  <2> QED BY <1>0, <1>1, <1>2, Induction
<1>4. Small(S, Cardinality(S)) = SUBSET S
  BY <1>0 DEF Small
<1> QED BY <1>3, <1>4 DEF IsJoinPart, IsJoinIter

LEMMA JoinIterAgree ==
  ASSUME NEW f, NEW S, IsFiniteSet(S), NEW R \in SUBSET S, NEW g, NEW h,
         IsJoinIter(g, f, S), IsJoinIter(h, f, R)
  PROVE  g[R] = h[R]
<1> DEFINE T == {n \in Nat : \A s \in SUBSET R : Cardinality(s) <= n => g[s] = h[s]}
<1>0. \A s \in SUBSET R : IsFiniteSet(s) /\ Cardinality(s) \in Nat
  BY FS_Subset, FS_CardinalityType
<1>a. \A s \in SUBSET R : /\ g[s] = IF s = {} THEN <<>> ELSE f[Pick(s)] \o g[s \ {Pick(s)}]
                          /\ h[s] = IF s = {} THEN <<>> ELSE f[Pick(s)] \o h[s \ {Pick(s)}]
  BY DEF IsJoinIter
<1>1. 0 \in T
  <2>1. ASSUME NEW s \in SUBSET R, Cardinality(s) <= 0
        PROVE  g[s] = h[s]
    <3>1. s = {}
      BY <1>0, <2>1, FS_EmptySet
    <3> QED BY <1>a, <3>1
  <2> QED BY <2>1
<1>2. ASSUME NEW n \in Nat, n \in T
      PROVE  n + 1 \in T
  <2>1. ASSUME NEW s \in SUBSET R, Cardinality(s) <= n + 1, s # {}
        PROVE  g[s] = h[s]
    <3>1. Cardinality(s \ {Pick(s)}) <= n /\ s \ {Pick(s)} \in SUBSET R
      BY <1>0, <2>1, LessOne
    <3>2. g[s \ {Pick(s)}] = h[s \ {Pick(s)}]
      BY <1>2, <3>1
    <3> QED BY <1>a, <2>1, <3>2
  <2>2. g[{}] = h[{}]
    BY <1>a
  <2> QED BY <2>1, <2>2
<1>3. Cardinality(R) \in T
  <2> HIDE DEF T
  <2> QED BY <1>0, <1>1, <1>2, Induction
<1>4. Cardinality(R) <= Cardinality(R)
  BY <1>0
<1> QED BY <1>3, <1>4

LEMMA JoinSolves ==
  ASSUME NEW f, NEW S, IsFiniteSet(S)
  PROVE  \E g : IsJoinIter(g, f, S) /\ JoinOver(f, S) = g[S]
BY JoinIterExists, JoinIter

LEMMA JoinEmpty == \A f : JoinOver(f, {}) = <<>>
<1> TAKE f
<1>1. PICK g : IsJoinIter(g, f, {}) /\ JoinOver(f, {}) = g[{}]
  BY JoinSolves, FS_EmptySet
<1>2. g[{}] = <<>>
  BY <1>1 DEF IsJoinIter
<1> QED BY <1>1, <1>2

LEMMA JoinPick ==
  ASSUME NEW f, NEW S, IsFiniteSet(S), S # {}
  PROVE  JoinOver(f, S) = f[Pick(S)] \o JoinOver(f, S \ {Pick(S)})
<1> DEFINE R == S \ {Pick(S)}
<1>1. IsFiniteSet(R) /\ R \in SUBSET S
  BY LessOne
<1>2. PICK g : IsJoinIter(g, f, S) /\ JoinOver(f, S) = g[S]
  BY JoinSolves
<1>3. PICK h : IsJoinIter(h, f, R) /\ JoinOver(f, R) = h[R]
  BY <1>1, JoinSolves
<1>4. g[R] = h[R]
  BY <1>1, <1>2, <1>3, JoinIterAgree
<1>5. g[S] = f[Pick(S)] \o g[R]
  BY <1>2 DEF IsJoinIter
<1> QED BY <1>2, <1>3, <1>4, <1>5

\* Two sequences without a common element, each without repetition, one after the other.
LEMMA JoinTwo ==
  ASSUME NEW A, NEW a \in Seq(A), NEW b \in Seq(A),
         IsInjective(a), IsInjective(b), Range(a) \cap Range(b) = {}
  PROVE  a \o b \in Seq(A) /\ Range(a \o b) = Range(a) \cup Range(b) /\ IsInjective(a \o b)
<1> DEFINE c == a \o b
           m == Len(a)
           n == Len(b)
<1>1. /\ c \in Seq(A) /\ m \in Nat /\ n \in Nat
      /\ DOMAIN a = 1 .. m /\ DOMAIN b = 1 .. n /\ DOMAIN c = 1 .. m + n
      /\ \A i \in 1 .. m + n : c[i] = IF i <= m THEN a[i] ELSE b[i - m]
  OBVIOUS
<1> HIDE DEF c, m, n
<1>2. ASSUME NEW i \in 1 .. m + n
      PROVE  \/ i \in 1 .. m /\ c[i] = a[i]
             \/ i - m \in 1 .. n /\ c[i] = b[i - m]
  BY <1>1
<1>3. Range(c) \subseteq Range(a) \cup Range(b)
  BY <1>1, <1>2 DEF Range
<1>4. Range(a) \subseteq Range(c)
  <2>1. ASSUME NEW i \in 1 .. m
        PROVE  i \in 1 .. m + n /\ c[i] = a[i]
    BY <1>1
  <2> QED BY <1>1, <2>1 DEF Range
<1>5. Range(b) \subseteq Range(c)
  <2>1. ASSUME NEW i \in 1 .. n
        PROVE  m + i \in 1 .. m + n /\ c[m + i] = b[i]
    <3>1. m + i \in 1 .. m + n /\ ~(m + i <= m) /\ m + i - m = i
      BY <1>1
    <3> QED BY <1>1, <3>1
  <2> QED BY <1>1, <2>1 DEF Range
<1>6. ASSUME NEW i \in 1 .. m + n, NEW j \in 1 .. m + n, c[i] = c[j]
      PROVE  i = j
  <2>1. CASE i \in 1 .. m /\ j \in 1 .. m
    <3>1. a[i] = a[j]
      BY <1>1, <1>6, <2>1
    <3> QED BY <1>1, <2>1, <3>1 DEF IsInjective
  <2>2. CASE i \notin 1 .. m /\ j \notin 1 .. m
    <3>1. i - m \in 1 .. n /\ j - m \in 1 .. n /\ b[i - m] = b[j - m]
      BY <1>2, <1>6, <2>2
    <3>2. i - m = j - m
      BY <1>1, <3>1 DEF IsInjective
    <3> QED BY <1>1, <3>2
  <2>3. CASE i \in 1 .. m /\ j \notin 1 .. m
    <3>a. c[i] = a[i] /\ j - m \in 1 .. n /\ c[j] = b[j - m]
      BY <1>1, <1>2, <2>3
    <3>1. c[i] \in Range(a) /\ c[j] \in Range(b)
      BY <1>1, <2>3, <3>a DEF Range
    <3> QED BY <1>6, <3>1
  <2>4. CASE i \notin 1 .. m /\ j \in 1 .. m
    <3>a. c[j] = a[j] /\ i - m \in 1 .. n /\ c[i] = b[i - m]
      BY <1>1, <1>2, <2>4
    <3>1. c[j] \in Range(a) /\ c[i] \in Range(b)
      BY <1>1, <2>4, <3>a DEF Range
    <3> QED BY <1>6, <3>1
  <2> QED BY <2>1, <2>2, <2>3, <2>4
<1>7. IsInjective(c)
  BY <1>1, <1>6 DEF IsInjective
<1> QED BY <1>1, <1>3, <1>4, <1>5, <1>7 DEF c

\* Parts without a common term, each term once, joined: all terms, each once.
Parts(f, S, A) ==
  /\ \A x \in S : f[x] \in Seq(A) /\ IsInjective(f[x])
  /\ \A x, y \in S : x # y => Range(f[x]) \cap Range(f[y]) = {}
JoinOf(f, R, A, sum) ==
  sum \in Seq(A) /\ IsInjective(sum) /\ Range(sum) = UNION {Range(f[x]) : x \in R}

LEMMA JoinParts ==
  ASSUME NEW A, NEW S, IsFiniteSet(S), NEW f, Parts(f, S, A)
  PROVE  JoinOf(f, S, A, JoinOver(f, S))
<1> DEFINE C == {n \in Nat : \A R \in SUBSET S : Cardinality(R) <= n => JoinOf(f, R, A, JoinOver(f, R))}
<1>0. \A R \in SUBSET S : IsFiniteSet(R) /\ Cardinality(R) \in Nat
  BY FS_Subset, FS_CardinalityType
<1>e. JoinOf(f, {}, A, JoinOver(f, {}))
  <2>1. <<>> \in Seq(A) /\ DOMAIN <<>> = {}
    OBVIOUS
  <2> QED BY <2>1, JoinEmpty DEF JoinOf, Range, IsInjective
<1>1. 0 \in C
  <2>1. \A R \in SUBSET S : Cardinality(R) <= 0 => R = {}
    BY <1>0, FS_EmptySet
  <2> QED BY <1>e, <2>1
<1>2. ASSUME NEW n \in Nat, n \in C
      PROVE  n + 1 \in C
  <2>1. ASSUME NEW R \in SUBSET S, Cardinality(R) <= n + 1, R # {}
        PROVE  JoinOf(f, R, A, JoinOver(f, R))
    <3>1. PICK x, Q : x = Pick(R) /\ Q = R \ {x}
      OBVIOUS
    <3>2. x \in R /\ x \in S /\ Q \in SUBSET S /\ Cardinality(Q) <= n /\ R = Q \cup {x} /\ x \notin Q
      BY <1>0, <2>1, <3>1, LessOne, PickIn
    <3>3. JoinOf(f, Q, A, JoinOver(f, Q))
      BY <1>2, <3>2
    <3>4. JoinOver(f, R) = f[x] \o JoinOver(f, Q)
      BY <1>0, <2>1, <3>1, JoinPick
    <3>5. PICK a, b : a = f[x] /\ b = JoinOver(f, Q)
      OBVIOUS
    <3>6. a \in Seq(A) /\ b \in Seq(A) /\ IsInjective(a) /\ IsInjective(b)
      BY <3>2, <3>3, <3>5 DEF Parts, JoinOf
    <3>7. Range(b) = UNION {Range(f[y]) : y \in Q}
      BY <3>3, <3>5 DEF JoinOf
    <3>8. Range(a) \cap Range(b) = {}
      BY <3>2, <3>5, <3>7 DEF Parts
    <3>9. a \o b \in Seq(A) /\ Range(a \o b) = Range(a) \cup Range(b) /\ IsInjective(a \o b)
      BY <3>6, <3>8, JoinTwo
    <3>10. Range(a) \cup Range(b) = UNION {Range(f[y]) : y \in R}
      BY <3>2, <3>5, <3>7
    <3> QED BY <3>4, <3>5, <3>9, <3>10 DEF JoinOf
  <2> QED BY <1>e, <2>1
<1>3. Cardinality(S) \in C /\ S \in SUBSET S /\ Cardinality(S) <= Cardinality(S)
  <2> HIDE DEF C
  <2> QED BY <1>0, <1>1, <1>2, Induction
<1> QED BY <1>3

LEMMA JoinedParts ==
  ASSUME NEW A, NEW f, IsFiniteSet(DOMAIN f), Parts(f, DOMAIN f, A)
  PROVE  JoinOf(f, DOMAIN f, A, Joined(f))
<1>1. Joined(f) = JoinOver(f, DOMAIN f)
  BY DEF Joined, JoinOver
<1> QED BY <1>1, JoinParts

-----------------------------------------------------------------------------
(* The places in the handle: LInv is inductive. *)

LEMMA LanesFrame ==
  ASSUME setup' = setup, NEW r \in Ranks, NEW k \in Calls, LaneInv(r, k),
         handle'[r][k].meta = handle[r][k].meta, handle'[r][k].recv = handle[r][k].recv,
         handle'[r][k].epsum = handle[r][k].epsum
  PROVE  LaneInv(r, k)'
<1>1. /\ Expanded(k)' = Expanded(k)
      /\ \A s : Rows(k, s)' = Rows(k, s)
      /\ \A x : Start(k, r, x)' = Start(k, r, x)
  BY TensorsFixed
<1>2. \A i : SourceRow(r, k, i)' = SourceRow(r, k, i) /\ ItemToken(r, k, i)' = ItemToken(r, k, i)
  BY <1>1 DEF SourceRow, ItemToken
<1>3. \A x : Segment(r, k, x)' = Segment(r, k, x)
  BY <1>1 DEF Segment
<1>4. \A i, l : Placed(r, k, i, l) => Placed(r, k, i, l)'
  BY <1>1, <1>2, <1>3 DEF Placed
<1> QED BY <1>2, <1>4 DEF LaneInv

LEMMA LInit == Init => LInv
<1> SUFFICES ASSUME Init, NEW r \in Ranks, NEW k \in Calls
             PROVE  LaneInv(r, k)
  BY DEF LInv
<1>1. handle[r][k].meta = <<>>
  BY DEF Init, NoHandle
<1> QED BY <1>1 DEF LaneInv

\* The next place in the segment of an expert of a token that is not yet copied is taken by
\* no other token.
LEMMA FreePlace ==
  ASSUME IInv, NEW r \in Ranks, NEW k \in Calls, Prog[k].kind = "dispatch", Expanded(k), Finished(r, k),
         MetaInv(r, k), ExpandInv(r, k),
         NEW i, NEW s, NEW t, i \notin DOMAIN handle[r][k].meta, IsItem(r, k, i, s, t),
         NEW z \in ExpertsIn(Rows(k, s)[t], r), NEW y \in LocalExperts
  PROVE  handle[r][k].epsum[z] \notin Segment(r, k, y)
<1> DEFINE h == handle[r][k]
<1>0. setup \in Setups
  BY PlaceFacts
<1> SUFFICES ASSUME NEW p \in Segment(r, k, y), p = h.epsum[z]
             PROVE  FALSE
  OBVIOUS
<1>1. z \in LocalExperts
  BY DEF ExpertsIn
<1>2. /\ h.epsum[y] = Start(k, r, y) + Cardinality(Having(r, k, y))
      /\ h.epsum[z] = Start(k, r, z) + Cardinality(Having(r, k, z))
  BY <1>1 DEF ExpandInv
<1>3. /\ Cardinality(Having(r, k, y)) \in Nat /\ Cardinality(Having(r, k, z)) \in Nat
      /\ Cardinality(Having(r, k, y)) <= ExpertTotal(k, r, y)
  BY <1>1, RoomFor
<1>4. Cardinality(Having(r, k, z)) < ExpertTotal(k, r, z)
  BY <1>1, RoomFor
<1>5. /\ ExpertTotal(k, r, y) \in Nat /\ ExpertTotal(k, r, z) \in Nat
      /\ Align(ExpertTotal(k, r, y)) \in Nat /\ Align(ExpertTotal(k, r, z)) \in Nat
      /\ Align(ExpertTotal(k, r, y)) >= ExpertTotal(k, r, y)
      /\ Align(ExpertTotal(k, r, z)) >= ExpertTotal(k, r, z)
  BY <1>0, <1>1, TotalsNat
<1>6. Start(k, r, y) \in Nat /\ Start(k, r, z) \in Nat
  BY <1>0, <1>1, StartFacts
<1>7. /\ p \in Nat /\ Start(k, r, y) <= p /\ p < Start(k, r, y) + Cardinality(Having(r, k, y))
      /\ p = Start(k, r, z) + Cardinality(Having(r, k, z))
  BY <1>2, <1>3, <1>6 DEF Segment
<1>8. y # z
  BY <1>6, <1>7, <1>3
<1>9. /\ Start(k, r, y) <= p /\ p < Start(k, r, y) + Align(ExpertTotal(k, r, y))
      /\ Start(k, r, z) <= p /\ p < Start(k, r, z) + Align(ExpertTotal(k, r, z))
  BY <1>3, <1>4, <1>5, <1>6, <1>7
<1> QED BY <1>0, <1>1, <1>7, <1>8, <1>9, SegmentsApart

\* A step either leaves the tensors alone, or is the end of the count or a copy; and it leaves
\* the sums alone but in a reduction.
LEMMA KeptOrFilled ==
  ASSUME IInv, [Next]_vars
  PROVE  /\ setup' = setup
         /\ \/ TensorsKept
            \/ \E r \in Ranks : Running(r) /\ (NotifyFinish(r) \/ \E i : CopyToken(r, i))
         /\ SumsKept \/ \E r \in Ranks : Running(r) /\ \E t : ReduceToken(r, t)
<1>0. handle' = handle => TensorsKept /\ SumsKept
  BY HandleStands DEF SumsKept
<1>1. ASSUME NEW r \in Ranks, Host(r)
      PROVE  setup' = setup /\ TensorsKept /\ SumsKept
  BY <1>1, HostHandle DEF Host, HostCall, HostPoll
<1>2. ASSUME NEW r \in Ranks, Running(r), Notify(r)
      PROVE  setup' = setup /\ (TensorsKept \/ NotifyFinish(r)) /\ SumsKept
  BY <1>0, <1>2, NotifyHandle DEF Notify, NotifyCount, NotifySend, NotifyTake, NotifyFinish
<1>3. ASSUME NEW r \in Ranks, Running(r), Main(r)
      PROVE  setup' = setup /\ TensorsKept /\ SumsKept
  <2>1. PICK k \in Calls : k = CallOf(r)
    BY <1>3, RunningCall DEF IInv
  <2>2. DOMAIN handle = Ranks /\ \A q \in Ranks : DOMAIN handle[q] = Calls /\ \A j \in Calls : DOMAIN handle[q][j] = HandleFields
    BY PlaceFacts
  <2>3. ASSUME NEW x, handle' = [handle EXCEPT ![r][k].slot = x]
        PROVE  TensorsKept /\ SumsKept
    BY ONLY <2>2, <2>3, r \in Ranks, k \in Calls DEF HandleFields, TensorsKept, SumsKept
  <2>4. StartMain(r) => setup' = setup /\ TensorsKept /\ SumsKept
    BY <1>0, <2>1, <2>3 DEF StartMain
  <2>5. PassEntry(r) \/ Arrive(r) \/ EndMain(r) => setup' = setup /\ handle' = handle
    BY DEF PassEntry, Arrive, EndMain
  <2>6. \A t, d : SendToken(r, t, d) => setup' = setup /\ TensorsKept /\ SumsKept
    <3> SUFFICES ASSUME NEW t, NEW d, SendToken(r, t, d)
                 PROVE  setup' = setup /\ TensorsKept /\ SumsKept
      OBVIOUS
    <3>1. setup' = setup /\ (handle' = handle \/ \E x : handle' = [handle EXCEPT ![r][CallOf(r)].slot = x])
      BY DEF SendToken
    <3> QED BY <1>0, <2>1, <2>3, <3>1
  <2>7. \A i : SendBack(r, i) => setup' = setup /\ handle' = handle
    BY DEF SendBack
  <2> QED BY <1>0, <1>3, <2>4, <2>5, <2>6, <2>7 DEF Main
<1>4. ASSUME NEW r \in Ranks, Running(r), Epilogue(r)
      PROVE  /\ setup' = setup /\ (TensorsKept \/ \E i : CopyToken(r, i))
             /\ SumsKept \/ \E t : ReduceToken(r, t)
  <2>1. \A i : ReduceToken(r, i) => setup' = setup /\ TensorsKept
    BY <1>4, EpilogueHandle DEF ReduceToken
  <2>2. \A i : CopyToken(r, i) => setup' = setup /\ SumsKept
    BY <1>4, EpilogueHandle DEF CopyToken
  <2>3. StartEpilogue(r) \/ EndEpilogue(r) => setup' = setup /\ handle' = handle
    BY DEF StartEpilogue, EndEpilogue
  <2> QED BY <1>0, <1>4, <2>1, <2>2, <2>3 DEF Epilogue
<1>5. ASSUME NEW m, LandStore(m) \/ LandCounts(m)
      PROVE  setup' = setup /\ TensorsKept /\ SumsKept
  BY <1>0, <1>5 DEF LandStore, LandCounts
<1>6. UNCHANGED vars => setup' = setup /\ TensorsKept /\ SumsKept
  BY <1>0 DEF vars
<1> QED BY <1>1, <1>2, <1>3, <1>4, <1>5, <1>6 DEF Next

\* The end of the count finds nothing copied.
LEMMA NotifyFinishLanes ==
  ASSUME IInv, EInv, LInv, NEW r \in Ranks, Running(r), NotifyFinish(r)
  PROVE  LInv'
<1>1. PICK k \in Calls : k = CallOf(r)
  BY RunningCall DEF IInv
<1>2. OnMain(r) /\ Prog[k].kind = "dispatch" /\ setup' = setup
  BY <1>1 DEF NotifyFinish, MainRuns, Kind
<1>3. /\ \A q \in Ranks : \A j \in Calls : /\ handle'[q][j].meta = handle[q][j].meta
                                           /\ handle'[q][j].recv = handle[q][j].recv
      /\ \A q \in Ranks : \A j \in Calls : q # r \/ j # k => handle'[q][j].epsum = handle[q][j].epsum
  BY <1>1, NotifyHandle
<1>4. DOMAIN handle[r][k].meta = {}
  <2>1. MetaInv(r, k)
    BY <1>2 DEF EInv, TensorInv, AnyDispatch
  <2>2. kernels[r] = 2 * k - 2 /\ k \in Nat
    BY <1>1, <1>2, PlaceFacts
  <2> QED BY <2>1, <2>2 DEF MetaInv, Copied
<1>5. LaneInv(r, k)'
  BY <1>3, <1>4 DEF LaneInv
<1>6. Prog' = Prog /\ Calls' = Calls
  BY <1>2, TensorsFixed
<1>7. ASSUME NEW q \in Ranks, NEW j \in Calls, Prog[j].kind = "dispatch", q # r \/ j # k
      PROVE  LaneInv(q, j)'
  BY <1>2, <1>3, <1>7, LanesFrame DEF LInv
<1> QED BY <1>5, <1>6, <1>7 DEF LInv

\* A copy adds an item with its places, which no other item has.
LEMMA CopyTokenLanes ==
  ASSUME IInv, SInv, TInv, CInv, EInv, LInv, NEW r \in Ranks, Running(r), NEW i, CopyToken(r, i)
  PROVE  LInv'
<1>1. PICK k \in Calls : k = CallOf(r)
  BY RunningCall DEF IInv
<1>2. /\ ~OnMain(r) /\ stage[r] = "work" /\ Prog[k].kind \in AnyDispatch /\ setup' = setup
      /\ i \notin done[r] /\ setup \in Setups
  BY <1>1, PlaceFacts DEF CopyToken, EpilogueRuns, Kind
<1>3. PICK s \in Ranks : \E t \in FromTo(k, s, r) :
        IsItem(r, k, i, s, t) /\ CopiedTo(handle[r][k], handle'[r][k], r, k, i, s, t)
  BY <1>1, CopyFacts
<1>4. PICK t \in FromTo(k, s, r) :
        IsItem(r, k, i, s, t) /\ CopiedTo(handle[r][k], handle'[r][k], r, k, i, s, t)
  BY <1>3
<1>5. \A q \in Ranks : \A j \in Calls : q # r \/ j # k =>
        /\ handle'[q][j].meta = handle[q][j].meta
        /\ handle'[q][j].recv = handle[q][j].recv
        /\ handle'[q][j].epsum = handle[q][j].epsum
  BY <1>1, CopyFacts
<1>6. /\ Prog' = Prog /\ Calls' = Calls /\ Expanded(k)' = Expanded(k)
      /\ \A q : Rows(k, q)' = Rows(k, q)
      /\ \A x : Start(k, r, x)' = Start(k, r, x)
  BY <1>2, TensorsFixed
<1>7. ASSUME NEW q \in Ranks, NEW j \in Calls, Prog[j].kind = "dispatch", q # r \/ j # k
      PROVE  LaneInv(q, j)'
  BY <1>2, <1>5, <1>7, LanesFrame DEF LInv
<1>8. ASSUME Prog[k].kind = "dispatch"
      PROVE  LaneInv(r, k)'
  <2>0. PICK h, g, row, x : /\ h = handle[r][k] /\ g = handle'[r][k]
                            /\ row = Rows(k, s)[t] /\ x = Token(k, s, t, row)
    OBVIOUS
  <2>1. /\ DOMAIN g.meta = DOMAIN h.meta \cup {i}
        /\ g.meta[i].rank = s /\ g.meta[i].tok = t
        /\ g.meta[i].lane = MasterLane(LanesTo(row, r))
        /\ g.meta[i].place = [l \in Lanes |-> IF l \in LanesTo(row, r) /\ Expanded(k)
                                              THEN h.epsum[LocalIdx(row[l])] ELSE -1]
        /\ \A j \in DOMAIN h.meta \ {i} : g.meta[j] = h.meta[j]
        /\ Expanded(k) => /\ DOMAIN g.recv = DOMAIN h.recv \cup {h.epsum[y] : y \in ExpertsIn(row, r)}
                          /\ \A p \in {h.epsum[y] : y \in ExpertsIn(row, r)} : g.recv[p] = x
                          /\ \A p \in DOMAIN h.recv \ {h.epsum[y] : y \in ExpertsIn(row, r)} : g.recv[p] = h.recv[p]
                          /\ \A y \in LocalExperts :
                               g.epsum[y] = IF y \in ExpertsIn(row, r) THEN h.epsum[y] + 1 ELSE h.epsum[y]
    BY <1>4, <2>0 DEF CopiedTo
  <2>2. MetaInv(r, k) /\ ExpandInv(r, k) /\ LaneInv(r, k)
    BY <1>8, <1>2 DEF EInv, TensorInv, LInv
  <2>3. kernels[r] = 2 * k - 1 /\ k \in Nat
    BY <1>1, <1>2, PlaceFacts
  <2>4. Finished(r, k) /\ DOMAIN h.meta = done[r] /\ i \notin DOMAIN h.meta
    BY <1>2, <2>0, <2>2, <2>3 DEF Finished, MetaInv, Copied
  <2>5. row \in Row /\ DOMAIN row = Lanes /\ \A l \in Lanes : row[l] \in Experts \cup {-1}
    <3>1. row \in Row
      BY <1>2, <1>4, <2>0, RowFacts DEF FromTo
    <3> QED BY <3>1 DEF Row
  <2>6. \A l \in Lanes : RankOf(row[l]) = r <=> l \in LanesTo(row, r)
    BY <2>5 DEF LanesTo
  <2>7. {LocalIdx(row[l]) : l \in LanesTo(row, r)} = ExpertsIn(row, r)
    BY <2>5, UsedExperts
  <2>8. /\ \A j \in DOMAIN h.meta : SourceRow(r, k, j)' = SourceRow(r, k, j) /\ ItemToken(r, k, j)' = ItemToken(r, k, j)
        /\ SourceRow(r, k, i)' = row /\ ItemToken(r, k, i)' = x
    <3>1. ASSUME NEW j \in DOMAIN h.meta
          PROVE  SourceRow(r, k, j)' = SourceRow(r, k, j) /\ ItemToken(r, k, j)' = ItemToken(r, k, j)
      <4>1. g.meta[j] = h.meta[j]
        BY <2>1, <2>4
      <4> QED BY <1>6, <2>0, <4>1 DEF SourceRow, ItemToken
    <3>2. SourceRow(r, k, i)' = row
      BY <1>6, <2>0, <2>1 DEF SourceRow
    <3>3. ItemToken(r, k, i)' = x
      BY <2>0, <2>1, <3>2 DEF ItemToken
    <3> QED BY <3>1, <3>2, <3>3
  <2>9. ASSUME Expanded(k), NEW y \in LocalExperts
        PROVE  /\ h.epsum[y] \in Nat /\ Start(k, r, y) \in Nat /\ h.epsum[y] >= Start(k, r, y)
               /\ \A p \in Segment(r, k, y) : p \in Segment(r, k, y)'
               /\ y \in ExpertsIn(row, r) => h.epsum[y] \in Segment(r, k, y)'
    <3>1. Start(k, r, y) \in Nat
      BY <1>2, StartFacts
    <3>2. Cardinality(Having(r, k, y)) \in Nat
      BY <2>2, RoomFor
    <3>3. h.epsum[y] = Start(k, r, y) + Cardinality(Having(r, k, y))
      BY <1>8, <2>0, <2>2, <2>4, <2>9 DEF ExpandInv
    <3>4. /\ Segment(r, k, y) = Start(k, r, y) .. h.epsum[y] - 1
          /\ Segment(r, k, y)' = Start(k, r, y) .. g.epsum[y] - 1
      BY <1>6, <2>0 DEF Segment
    <3>5. g.epsum[y] = IF y \in ExpertsIn(row, r) THEN h.epsum[y] + 1 ELSE h.epsum[y]
      BY <2>1, <2>9
    <3> QED BY <3>1, <3>2, <3>3, <3>4, <3>5
  <2>10. ASSUME NEW j \in DOMAIN h.meta, NEW l \in Lanes
         PROVE  Placed(r, k, j, l)'
    <3>1. PICK p : p = h.meta[j].place[l] /\ p = g.meta[j].place[l]
      BY <2>1, <2>4
    <3>2. Placed(r, k, j, l) /\ SourceRow(r, k, j)' = SourceRow(r, k, j) /\ ItemToken(r, k, j)' = ItemToken(r, k, j)
      BY <2>0, <2>2, <2>8 DEF LaneInv
    <3>3. CASE RankOf(SourceRow(r, k, j)[l]) = r /\ Expanded(k)
      <4>1. PICK y : y = LocalIdx(SourceRow(r, k, j)[l])
        OBVIOUS
      <4>2. p \in Segment(r, k, y) /\ h.recv[p] = ItemToken(r, k, j)
        BY <2>0, <3>1, <3>2, <3>3, <4>1 DEF Placed
      <4>3. y \in LocalExperts
        <5>1. SourceRow(r, k, j)[l] \in Experts \cup {-1}
          <6>1. IsItem(r, k, j, h.meta[j].rank, h.meta[j].tok)
            BY <2>0, <2>2 DEF MetaInv
          <6>2. h.meta[j].rank \in Ranks /\ h.meta[j].tok \in DOMAIN Rows(k, h.meta[j].rank)
            BY <6>1 DEF IsItem, FromTo
          <6>3. Rows(k, h.meta[j].rank)[h.meta[j].tok] \in Row
            BY <1>2, <6>2, RowFacts
          <6> QED BY <2>0, <6>3 DEF SourceRow, Row
        <5> QED BY <3>3, <4>1, <5>1, ExpertOfRank
      <4>4. p \in Segment(r, k, y)'
        BY <2>9, <3>3, <4>2, <4>3
      <4>5. p \in DOMAIN h.recv
        BY <1>8, <2>0, <2>2, <2>4, <3>3, <4>2, <4>3 DEF ExpandInv
      <4>6. \A z \in ExpertsIn(row, r) : h.epsum[z] # p
        BY <1>4, <1>8, <2>0, <2>2, <2>4, <3>3, <4>2, <4>3, FreePlace
      <4>7. g.recv[p] = h.recv[p]
        BY <2>1, <3>3, <4>5, <4>6
      <4>8. (p \in Segment(r, k, LocalIdx(SourceRow(r, k, j)[l])) /\ handle[r][k].recv[p] = ItemToken(r, k, j))'
        <5>1. LocalIdx(SourceRow(r, k, j)'[l]) = y
          BY <3>2, <4>1
        <5> QED BY <2>0, <3>2, <4>2, <4>4, <4>7, <5>1
      <4>9. p = handle'[r][k].meta[j].place[l]
        BY <2>0, <3>1
      <4>10. RankOf(SourceRow(r, k, j)'[l]) = r /\ Expanded(k)'
        BY <1>6, <3>2, <3>3
      <4> QED BY <4>8, <4>9, <4>10 DEF Placed
    <3>4. CASE ~(RankOf(SourceRow(r, k, j)[l]) = r /\ Expanded(k))
      <4>1. p = -1
        BY <2>0, <3>1, <3>2, <3>4 DEF Placed
      <4> QED BY <1>6, <2>0, <3>1, <3>2, <3>4, <4>1 DEF Placed
    <3> QED BY <3>3, <3>4
  <2>11. ASSUME NEW l \in Lanes
         PROVE  Placed(r, k, i, l)'
    <3>1. PICK p : /\ p = g.meta[i].place[l]
                   /\ p = IF l \in LanesTo(row, r) /\ Expanded(k) THEN h.epsum[LocalIdx(row[l])] ELSE -1
      BY <2>1
    <3>2. CASE l \in LanesTo(row, r) /\ Expanded(k)
      <4>1. PICK y : y = LocalIdx(row[l]) /\ y \in ExpertsIn(row, r) /\ y \in LocalExperts
        BY <2>7, <3>2 DEF ExpertsIn
      <4>2. p = h.epsum[y] /\ p \in Segment(r, k, y)'
        BY <2>9, <3>1, <3>2, <4>1
      <4>3. g.recv[p] = x
        BY <2>1, <3>2, <4>1, <4>2
      <4>4. (p \in Segment(r, k, LocalIdx(SourceRow(r, k, i)[l])) /\ handle[r][k].recv[p] = ItemToken(r, k, i))'
        BY <2>0, <2>8, <4>1, <4>2, <4>3
      <4>5. p = handle'[r][k].meta[i].place[l] /\ RankOf(SourceRow(r, k, i)'[l]) = r /\ Expanded(k)'
        BY <1>6, <2>0, <2>6, <2>8, <3>1, <3>2
      <4> QED BY <4>4, <4>5 DEF Placed
    <3>3. CASE ~(l \in LanesTo(row, r) /\ Expanded(k))
      <4>1. p = -1
        BY <3>1, <3>3
      <4> QED BY <1>6, <2>0, <2>6, <2>8, <3>1, <3>3, <4>1 DEF Placed
    <3> QED BY <3>2, <3>3
  <2>12. \A j \in DOMAIN g.meta : /\ g.meta[j].lane = MasterLane(LanesTo(SourceRow(r, k, j)', r))
                                  /\ DOMAIN g.meta[j].place = Lanes
    <3>1. \A j \in DOMAIN h.meta : /\ h.meta[j].lane = MasterLane(LanesTo(SourceRow(r, k, j), r))
                                   /\ DOMAIN h.meta[j].place = Lanes
      BY <2>0, <2>2 DEF LaneInv
    <3>2. \A j \in DOMAIN h.meta : /\ g.meta[j].lane = MasterLane(LanesTo(SourceRow(r, k, j)', r))
                                   /\ DOMAIN g.meta[j].place = Lanes
      BY <2>1, <2>4, <2>8, <3>1
    <3>3. g.meta[i].lane = MasterLane(LanesTo(SourceRow(r, k, i)', r)) /\ DOMAIN g.meta[i].place = Lanes
      BY <2>1, <2>8
    <3> QED BY <2>1, <3>2, <3>3
  <2>13. \A j \in DOMAIN g.meta : \A l \in Lanes : Placed(r, k, j, l)'
    BY <2>1, <2>10, <2>11
  <2> QED BY <2>0, <2>12, <2>13 DEF LaneInv
<1> QED BY <1>6, <1>7, <1>8 DEF LInv

LEMMA LStep == IInv /\ SInv /\ TInv /\ CInv /\ EInv /\ LInv /\ [Next]_vars => LInv'
<1> SUFFICES ASSUME IInv, SInv, TInv, CInv, EInv, LInv, [Next]_vars
             PROVE  LInv'
  OBVIOUS
<1>1. setup' = setup
  BY KeptOrFilled
<1>2. Prog' = Prog /\ Calls' = Calls
  BY <1>1, TensorsFixed
<1>3. ASSUME TensorsKept
      PROVE  LInv'
  <2>1. ASSUME NEW r \in Ranks, NEW k \in Calls, Prog[k].kind = "dispatch"
        PROVE  LaneInv(r, k)'
    BY <1>1, <1>3, <2>1, LanesFrame DEF LInv, TensorsKept
  <2> QED BY <1>2, <2>1 DEF LInv
<1> QED BY <1>3, KeptOrFilled, NotifyFinishLanes, CopyTokenLanes

\* What the count and the copies of an ended dispatch have left stays.
LEMMA EndedStay ==
  ASSUME IInv, SInv, TInv, CInv, [Next]_vars, NEW r \in Ranks, NEW j \in Calls, Ended(r, j)
  PROVE  /\ handle'[r][j].meta = handle[r][j].meta
         /\ handle'[r][j].recv = handle[r][j].recv
         /\ handle'[r][j].epsum = handle[r][j].epsum
<1>1. ASSUME NEW q \in Ranks, Running(q), NotifyFinish(q)
      PROVE  /\ handle'[r][j].meta = handle[r][j].meta
             /\ handle'[r][j].recv = handle[r][j].recv
             /\ handle'[r][j].epsum = handle[r][j].epsum
  <2>1. q # r \/ j # CallOf(q)
    <3>1. OnMain(q)
      BY <1>1 DEF NotifyFinish, MainRuns
    <3> QED BY <3>1, PlaceFacts DEF Ended
  <2> QED BY <1>1, <2>1, NotifyHandle
<1>2. ASSUME NEW q \in Ranks, Running(q), NEW i, CopyToken(q, i)
      PROVE  /\ handle'[r][j].meta = handle[r][j].meta
             /\ handle'[r][j].recv = handle[r][j].recv
             /\ handle'[r][j].epsum = handle[r][j].epsum
  <2>0. PICK k \in Calls : k = CallOf(q)
    BY <1>2, RunningCall DEF IInv
  <2>1. q # r \/ j # k
    <3>1. ~OnMain(q)
      BY <1>2 DEF CopyToken, EpilogueRuns
    <3> QED BY <2>0, <3>1, PlaceFacts DEF Ended
  <2> QED BY <1>2, <2>0, <2>1, CopyFacts
<1> QED BY <1>1, <1>2, KeptOrFilled DEF TensorsKept

-----------------------------------------------------------------------------
(* What is sent back for a received token. *)

\* The calls behind a combine.
LEMMA CombineCall ==
  ASSUME setup \in Setups, NEW k \in Calls, Prog[k].kind = "combine"
  PROVE  /\ Source(k) \in Calls /\ Source(k) \in Nat /\ Source(k) < k /\ Prog[Source(k)].kind \in AnyDispatch
         /\ Home(k) \in Calls /\ Home(k) \in Nat /\ Home(k) < k /\ Prog[Home(k)].kind = "dispatch"
         /\ Home(Source(k)) = Home(k) /\ Home(Home(k)) = Home(k) /\ k \in Nat
         /\ Expanded(k) => Source(k) = Home(k)
         /\ Expanded(Source(k)) = Expanded(k) /\ Expanded(Home(k)) = Expanded(k)
         /\ \A s : Rows(Source(k), s) = Rows(k, s) /\ Rows(Home(k), s) = Rows(k, s)
<1>1. /\ Prog \in Seq(Call) /\ k \in 1 .. Len(Prog) /\ Calls = 1 .. Len(Prog) /\ Len(Prog) \in Nat
      /\ Prog[k].of \in 1 .. k - 1 /\ Prog[Prog[k].of].kind # "combine"
  BY SetupsAssumption DEF Calls, Prog
<1>2. Source(k) = Prog[k].of
  BY DEF Source
<1>3. Source(k) \in Calls /\ Source(k) \in Nat /\ Source(k) < k /\ k \in Nat
  BY <1>1, <1>2
<1>4. Prog[Source(k)].kind \in {"dispatch", "cached", "combine"}
  <2>1. Prog[Source(k)] \in Call
    BY <1>1, <1>3
  <2> QED BY <2>1 DEF Call
<1>5. Prog[Source(k)].kind \in AnyDispatch
  BY <1>1, <1>2, <1>4 DEF AnyDispatch
<1>6. /\ Home(k) \in Calls /\ Prog[Home(k)].kind = "dispatch" /\ Home(Home(k)) = Home(k) /\ Home(k) < k
  BY HomeIsDispatch
<1>7. Home(k) \in Nat
  BY <1>1, <1>6
<1>8. CASE Prog[Source(k)].kind = "dispatch"
  <2>1. Home(k) = Source(k)
    BY <1>8 DEF Home, Source
  <2> QED BY <1>3, <1>5, <1>6, <1>7, <2>1 DEF Expanded, Rows
<1>9. CASE Prog[Source(k)].kind = "cached"
  <2>1. Home(Source(k)) = Prog[Source(k)].of /\ Prog[Prog[Source(k)].of].kind = "dispatch" /\ ~Expanded(Source(k))
    BY <1>3, <1>9, CachedCall
  <2>2. Home(k) = Prog[Source(k)].of
    BY <1>9 DEF Home, Source
  <2> QED BY <1>3, <1>5, <1>6, <1>7, <2>1, <2>2 DEF Expanded, Rows
<1> QED BY <1>5, <1>8, <1>9 DEF AnyDispatch

\* The lanes of a row to a rank, and no expert twice.
LEMMA RowDistinct ==
  ASSUME setup \in Setups, NEW k \in Calls, NEW s \in Ranks, NEW t \in DOMAIN Rows(k, s)
  PROVE  \A l, m \in Lanes : Rows(k, s)[t][l] = Rows(k, s)[t][m] /\ Rows(k, s)[t][l] # -1 => l = m
<1>1. Home(k) \in DOMAIN setup.prog
  BY HomeIsDispatch DEF Calls, Prog
<1>2. DistinctExperts(setup.prog[Home(k)].rows[s][t])
  BY <1>1, SetupsAssumption DEF Rows, Prog
<1> QED BY <1>2 DEF DistinctExperts, Rows, Prog

LEMMA RowLanes ==
  ASSUME NEW row \in Row
  PROVE  /\ DOMAIN row = Lanes /\ IsFiniteSet(Lanes)
         /\ \A l \in Lanes : row[l] \in Experts \cup {-1}
         /\ \A l \in Lanes : row[l] # -1 => row[l] \in Experts /\ RankOf(row[l]) \in Ranks
         /\ RankOf(-1) = -1 /\ -1 \notin Experts /\ -1 \notin Ranks
         /\ \A d : LanesTo(row, d) \subseteq Lanes /\ IsFiniteSet(LanesTo(row, d))
         /\ \A d \in Ranks : \A l \in Lanes : l \in LanesTo(row, d) <=> row[l] # -1 /\ RankOf(row[l]) = d
<1>1. DOMAIN row = Lanes /\ \A l \in Lanes : row[l] \in Experts \cup {-1}
  BY DEF Row
<1>2. IsFiniteSet(Lanes)
  <2>1. NumTopk \in Nat
    BY SizesAssumption
  <2>2. 1 \in Int /\ NumTopk \in Int
    BY <2>1
  <2> QED BY <2>2, FS_Interval DEF Lanes
<1>3. RankOf(-1) = -1
  BY DEF RankOf
<1>4. -1 \notin Ranks /\ -1 \notin Experts
  <2>1. -1 \notin Nat
    OBVIOUS
  <2> QED BY SizesAssumption DEF Ranks, Experts
<1>5. \A l \in Lanes : row[l] # -1 => row[l] \in Experts /\ RankOf(row[l]) \in Ranks
  BY <1>1, RankOfExpert
<1>6. \A d : LanesTo(row, d) \subseteq Lanes
  BY <1>1 DEF LanesTo
<1>7. \A d : IsFiniteSet(LanesTo(row, d))
  BY <1>2, <1>6, FS_Subset
<1>8. \A d \in Ranks : \A l \in Lanes : l \in LanesTo(row, d) <=> row[l] # -1 /\ RankOf(row[l]) = d
  BY <1>1, <1>3, <1>4 DEF LanesTo
<1> QED BY <1>1, <1>2, <1>3, <1>4, <1>5, <1>6, <1>7, <1>8

\* Terms for experts without repetition: one term for each.
LEMMA TermsOnce ==
  ASSUME NEW k \in Nat, NEW r \in Ranks, NEW s \in Ranks, NEW t \in Nat, NEW x, x.src = s, x.tok = t,
         NEW es \in Seq(Experts), IsInjective(es)
  PROVE  SumOnce(Terms(k, r, x, es), {<<k, r, s, t, e>> : e \in Range(es)})
<1> DEFINE sum == Terms(k, r, x, es)
<1>1. Len(es) \in Nat /\ DOMAIN es = 1 .. Len(es) /\ \A j \in 1 .. Len(es) : es[j] \in Experts
  OBVIOUS
<1>2. sum = [j \in 1 .. Len(es) |-> <<k, r, s, t, es[j]>>]
  BY <1>1 DEF Terms
<1> HIDE DEF sum
<1>3. \A j \in 1 .. Len(es) : <<k, r, s, t, es[j]>> \in AllTerms
  BY <1>1 DEF AllTerms
<1>4. sum \in Seq(AllTerms)
  BY <1>1, <1>2, <1>3
<1>5. Range(sum) = {<<k, r, s, t, e>> : e \in Range(es)}
  <2>1. DOMAIN sum = 1 .. Len(es) /\ \A j \in 1 .. Len(es) : sum[j] = <<k, r, s, t, es[j]>>
    BY <1>2
  <2> QED BY <1>1, <2>1 DEF Range
<1>6. IsInjective(sum)
  <2>1. DOMAIN sum = 1 .. Len(es) /\ \A j \in 1 .. Len(es) : sum[j] = <<k, r, s, t, es[j]>>
    BY <1>2
  <2> QED BY <1>1, <2>1 DEF IsInjective
<1> QED BY <1>4, <1>5, <1>6 DEF SumOnce, sum

\* The experts of a rank in a row, each once.
LEMMA ExpertsOnce ==
  ASSUME NEW row \in Row, \A l, m \in Lanes : row[l] = row[m] /\ row[l] # -1 => l = m, NEW d \in Ranks
  PROVE  /\ LocalExpertsOf(row, d) \in Seq(Experts) /\ IsInjective(LocalExpertsOf(row, d))
         /\ Range(LocalExpertsOf(row, d)) = {row[l] : l \in LanesTo(row, d)}
<1> DEFINE D == LanesTo(row, d)
           f == [l \in D |-> <<row[l]>>]
<1>1. IsFiniteSet(D) /\ \A l \in D : l \in Lanes /\ row[l] # -1 /\ row[l] \in Experts
  BY RowLanes
<1> HIDE DEF D
<1>2. \A l \in D : f[l] = <<row[l]>> /\ DOMAIN f[l] = {1} /\ f[l][1] = row[l]
  OBVIOUS
<1>3. DOMAIN f = D
  OBVIOUS
<1> HIDE DEF f
<1>4. \A l \in D : f[l] \in Seq(Experts)
  <2>1. \A e \in Experts : <<e>> \in Seq(Experts)
    OBVIOUS
  <2>2. \A l \in D : f[l] = <<row[l]>>
    BY <1>2
  <2> QED BY ONLY <1>1, <2>1, <2>2
<1>5. \A l \in D : IsInjective(f[l]) /\ Range(f[l]) = {row[l]}
  BY <1>2 DEF IsInjective, Range
<1>6. \A l, m \in D : l # m => Range(f[l]) \cap Range(f[m]) = {}
  <2>1. \A l, m \in D : l # m => row[l] # row[m]
    BY <1>1
  <2> QED BY <1>5, <2>1
<1>7. Parts(f, D, Experts)
  BY <1>4, <1>5, <1>6 DEF Parts
<1>8. JoinOf(f, D, Experts, Joined(f))
  <2>1. IsFiniteSet(DOMAIN f) /\ Parts(f, DOMAIN f, Experts)
    BY <1>1, <1>3, <1>7
  <2>2. JoinOf(f, DOMAIN f, Experts, Joined(f))
    BY <2>1, JoinedParts
  <2> QED BY <1>3, <2>2
<1>9. UNION {Range(f[l]) : l \in D} = {row[l] : l \in D}
  BY <1>5
<1>10. LocalExpertsOf(row, d) = Joined(f)
  BY DEF LocalExpertsOf, f, D
<1> QED BY <1>8, <1>9, <1>10 DEF JoinOf, D

\* An item of an ended dispatch, as the combine of its tokens finds it.
LEMMA BackItem ==
  ASSUME IInv, SInv, EInv, LInv, NEW d \in Ranks, NEW k \in Calls, Prog[k].kind = "combine", Ended(d, Source(k)),
         Ended(d, Home(k)), NEW i \in DOMAIN handle[d][Home(k)].meta,
         NEW s, s = handle[d][Home(k)].meta[i].rank, NEW t, t = handle[d][Home(k)].meta[i].tok
  PROVE  /\ s \in Ranks /\ t \in DOMAIN Rows(k, s) /\ t \in Nat /\ Rows(k, s)[t] \in Row
         /\ d \in Dsts(Rows(k, s)[t])
         /\ IsItem(d, Home(k), i, s, t)
         /\ SourceRow(d, Home(k), i) = Rows(k, s)[t]
         /\ handle[d][Home(k)].meta[i].lane = MasterLane(LanesTo(Rows(k, s)[t], d))
         /\ DOMAIN handle[d][Home(k)].meta[i].place = Lanes
         /\ \A l \in Lanes : Placed(d, Home(k), i, l)
         /\ ~Expanded(k) => /\ handle[d][Source(k)].recv[i].src = s /\ handle[d][Source(k)].recv[i].tok = t
                            /\ handle[d][Source(k)].recv[i].row = Rows(k, s)[t]
<1>0. setup \in Setups
  BY PlaceFacts
<1>1. /\ Source(k) \in Calls /\ Prog[Source(k)].kind \in AnyDispatch
      /\ Home(k) \in Calls /\ Prog[Home(k)].kind = "dispatch" /\ Prog[Home(k)].kind \in AnyDispatch
      /\ Home(Source(k)) = Home(k) /\ Home(Home(k)) = Home(k)
      /\ Expanded(Source(k)) = Expanded(k)
      /\ \A q : Rows(Source(k), q) = Rows(k, q) /\ Rows(Home(k), q) = Rows(k, q)
  BY <1>0, CombineCall DEF AnyDispatch
<1> DEFINE h == Home(k)
           c == Source(k)
<1>2. /\ DOMAIN handle[d][h].meta = 0 .. ReceivedFrom(h, d, Ranks) - 1
      /\ IsItem(d, h, i, s, t)
  BY <1>1, EndedItems
<1>3. s \in Ranks /\ t \in DOMAIN Rows(k, s) /\ d \in Dsts(Rows(k, s)[t])
  BY <1>1, <1>2 DEF IsItem, FromTo
<1>4. t \in Nat /\ Rows(k, s)[t] \in Row
  BY <1>0, <1>3, RowFacts
<1>5. SourceRow(d, h, i) = Rows(k, s)[t]
  BY <1>1 DEF SourceRow
<1>6. LaneInv(d, h)
  BY <1>1 DEF LInv
<1>7. ASSUME ~Expanded(k)
      PROVE  /\ handle[d][c].recv[i].src = s /\ handle[d][c].recv[i].tok = t
             /\ handle[d][c].recv[i].row = Rows(k, s)[t]
  <2>1. /\ kernels[d] >= 2 * c - 1 /\ PlainInv(d, c)
        /\ Copied(d, c) = 0 .. ReceivedFrom(c, d, Ranks) - 1
        /\ DOMAIN handle[d][c].meta = 0 .. ReceivedFrom(c, d, Ranks) - 1
        /\ \A j \in DOMAIN handle[d][c].meta :
             IsItem(d, c, j, handle[d][c].meta[j].rank, handle[d][c].meta[j].tok)
    BY <1>1, EndedItems
  <2>2. ReceivedFrom(h, d, Ranks) = ReceivedFrom(c, d, Ranks)
    BY <1>0, <1>1, SameReceived
  <2>3. /\ handle[d][c].recv[i] = ItemToken(d, c, i)
        /\ IsItem(d, c, i, handle[d][c].meta[i].rank, handle[d][c].meta[i].tok)
    BY <1>1, <1>2, <1>7, <2>1, <2>2 DEF PlainInv
  <2>4. IsItem(d, c, i, s, t)
    BY <1>0, <1>1, <1>2, HomeItem
  <2>5. handle[d][c].meta[i].rank = s /\ handle[d][c].meta[i].tok = t
    BY <1>1, <2>1, <2>3, <2>4, ItemUnique
  <2> QED BY <1>1, <2>3, <2>5 DEF ItemToken, SourceRow, Token
<1> QED BY <1>2, <1>3, <1>4, <1>5, <1>6, <1>7 DEF LaneInv

\* Expanded: a place of an ended dispatch is in one segment.
LEMMA OneSegment ==
  ASSUME IInv, SInv, EInv, NEW d \in Ranks, NEW k \in Calls, Prog[k].kind = "dispatch", Ended(d, k), Expanded(k),
         NEW y \in LocalExperts, NEW p \in Segment(d, k, y)
  PROVE  p \in Nat /\ SegmentOf(handle[d][k], d, p) = {d * NumExpertsPerRank + y}
<1>0. setup \in Setups
  BY PlaceFacts
<1>1. Prog[k].kind \in AnyDispatch
  BY DEF AnyDispatch
<1>2. \A x \in LocalExperts : /\ Segment(d, k, x) \subseteq Nat
                              /\ \A q \in Nat : (d * NumExpertsPerRank + x) \in SegmentOf(handle[d][k], d, q) <=> q \in Segment(d, k, x)
  BY <1>1, SegmentsFound
<1>3. \A x \in LocalExperts : p \in Segment(d, k, x) => x = y
  <2> SUFFICES ASSUME NEW x \in LocalExperts, p \in Segment(d, k, x), x # y
               PROVE  FALSE
    OBVIOUS
  <2>1. p \in Nat
    BY <1>2
  <2>2. ASSUME NEW z \in LocalExperts, p \in Segment(d, k, z)
        PROVE  Start(k, d, z) <= p /\ p < Start(k, d, z) + Align(ExpertTotal(k, d, z))
    <3>1. handle[d][k].epsum[z] = Start(k, d, z) + ExpertTotal(k, d, z)
      BY <1>1, ExpandTensor
    <3>2. Start(k, d, z) \in Nat
      BY <1>0, StartFacts
    <3>3. /\ ExpertTotal(k, d, z) \in Nat
          /\ Align(ExpertTotal(k, d, z)) \in Nat /\ Align(ExpertTotal(k, d, z)) >= ExpertTotal(k, d, z)
      BY <1>0, TotalsNat
    <3> QED BY <2>1, <2>2, <3>1, <3>2, <3>3 DEF Segment
  <2> QED BY <1>0, <2>1, <2>2, SegmentsApart
<1>4. SegmentOf(handle[d][k], d, p) \subseteq {d * NumExpertsPerRank + x : x \in LocalExperts}
  BY DEF SegmentOf
<1>5. p \in Nat
  BY <1>2
<1> QED BY <1>2, <1>3, <1>4, <1>5

LEMMA LaneTerm ==
  ASSUME NEW k, NEW s, NEW t, NEW d \in Ranks, NEW row \in Row, NEW D, D \subseteq LanesTo(row, d)
  PROVE  {TermOf(k, s, t, row, l) : l \in D} = {<<k, d, s, t, e>> : e \in {row[l] : l \in D}}
<1>1. \A l \in D : TermOf(k, s, t, row, l) = <<k, d, s, t, row[l]>>
  BY DEF TermOf, LanesTo
<1> QED BY <1>1

\* The lanes of a received token, and for each the token in its expert's segment.
LaneCopied(d, k, i, l, e) ==
  LET p == handle[d][Home(k)].meta[i].place[l]
  IN  /\ handle[d][Home(k)].recv[p] = ItemToken(d, Home(k), i)
      /\ SegmentOf(handle[d][Home(k)], d, p) = {e}
LEMMA LaneToken ==
  ASSUME IInv, SInv, EInv, LInv, NEW d \in Ranks, NEW k \in Calls, Prog[k].kind = "combine", Ended(d, Source(k)),
         Ended(d, Home(k)), NEW i \in DOMAIN handle[d][Home(k)].meta, Expanded(k),
         NEW s, s = handle[d][Home(k)].meta[i].rank, NEW t, t = handle[d][Home(k)].meta[i].tok
  PROVE  /\ ExpandedLanes(d, k, i) = LanesTo(Rows(k, s)[t], d)
         /\ \A l \in LanesTo(Rows(k, s)[t], d) : LaneCopied(d, k, i, l, Rows(k, s)[t][l])
<1>0. setup \in Setups
  BY PlaceFacts
<1>1. /\ Home(k) \in Calls /\ Prog[Home(k)].kind = "dispatch" /\ Expanded(Home(k)) /\ Source(k) = Home(k)
      /\ k \in Nat
  BY <1>0, CombineCall
<1>2. PICK h : h = Home(k)
  OBVIOUS
<1>3. PICK row : row = Rows(k, s)[t]
  OBVIOUS
<1>4. /\ s \in Ranks /\ t \in Nat /\ row \in Row
      /\ SourceRow(d, h, i) = row
      /\ DOMAIN handle[d][h].meta[i].place = Lanes
      /\ \A l \in Lanes : Placed(d, h, i, l)
  BY <1>2, <1>3, BackItem
<1>5. PICK place : place = handle[d][h].meta[i].place
  OBVIOUS
<1>6. \A l \in Lanes : row[l] \in Experts \cup {-1} /\ (l \in LanesTo(row, d) <=> RankOf(row[l]) = d)
  BY <1>4 DEF LanesTo, Row
<1>7. ASSUME NEW l \in LanesTo(row, d)
      PROVE  /\ place[l] \in Nat /\ handle[d][h].recv[place[l]] = ItemToken(d, h, i)
             /\ SegmentOf(handle[d][h], d, place[l]) = {row[l]}
  <2>1. l \in Lanes /\ RankOf(row[l]) = d
    BY <1>4, <1>6 DEF LanesTo, Row
  <2>2. PICK y \in LocalExperts : y = LocalIdx(row[l]) /\ row[l] = d * NumExpertsPerRank + y
    BY <1>6, <2>1, ExpertOfRank
  <2>3. place[l] \in Segment(d, h, y) /\ handle[d][h].recv[place[l]] = ItemToken(d, h, i)
    BY <1>1, <1>2, <1>4, <1>5, <2>1, <2>2 DEF Placed
  <2>4. place[l] \in Nat /\ SegmentOf(handle[d][h], d, place[l]) = {d * NumExpertsPerRank + y}
    BY <1>1, <1>2, <2>3, OneSegment
  <2> QED BY <2>2, <2>3, <2>4
<1>8. \A l \in Lanes : l \notin LanesTo(row, d) => place[l] = -1
  BY <1>4, <1>5, <1>6 DEF Placed
<1>9. ExpandedLanes(d, k, i) = LanesTo(row, d)
  <2>1. ExpandedLanes(d, k, i) = {l \in Lanes : place[l] >= 0}
    BY <1>2, <1>4, <1>5 DEF ExpandedLanes
  <2>2. LanesTo(row, d) \subseteq Lanes
    BY <1>4, RowLanes
  <2>3. \A l \in LanesTo(row, d) : place[l] \in Nat
    BY <1>7
  <2>4. ~(-1 >= 0) /\ \A n \in Nat : n >= 0
    OBVIOUS
  <2> QED BY <1>8, <2>1, <2>2, <2>3, <2>4
<1> QED BY <1>2, <1>3, <1>5, <1>7, <1>9 DEF LaneCopied

\* The sum of a lane: one term, of the lane's expert.
LEMMA LaneSum ==
  ASSUME IInv, SInv, EInv, LInv, NEW d \in Ranks, NEW k \in Calls, Prog[k].kind = "combine", Ended(d, Source(k)),
         Ended(d, Home(k)), NEW i \in DOMAIN handle[d][Home(k)].meta, Expanded(k),
         NEW s, s = handle[d][Home(k)].meta[i].rank, NEW t, t = handle[d][Home(k)].meta[i].tok,
         NEW l \in LanesTo(Rows(k, s)[t], d), NEW one, one = {l}
  PROVE  Returned(k, s, t, one, SumOfLane(d, k, i, l))
<1>0. setup \in Setups
  BY PlaceFacts
<1>1. k \in Nat /\ Source(k) = Home(k)
  BY <1>0, CombineCall
<1>2. PICK h : h = Home(k)
  OBVIOUS
<1>3. PICK row : row = Rows(k, s)[t]
  OBVIOUS
<1>4. s \in Ranks /\ t \in Nat /\ row \in Row
  BY <1>3, BackItem
<1>5. PICK place : place = handle[d][h].meta[i].place
  OBVIOUS
<1>6. l \in LanesTo(row, d)
  BY <1>3
<1>7. /\ handle[d][h].recv[place[l]] = ItemToken(d, h, i)
      /\ SegmentOf(handle[d][h], d, place[l]) = {row[l]}
  <2>1. LaneCopied(d, k, i, l, Rows(k, s)[t][l])
    BY LaneToken
  <2> QED BY <1>2, <1>3, <1>5, <2>1 DEF LaneCopied
<1>11. PICK x : x = handle[d][h].recv[place[l]]
  OBVIOUS
<1>12. x.src = s /\ x.tok = t
  BY <1>2, <1>7, <1>11 DEF ItemToken, Token
<1>13. PICK e : e = row[l]
  OBVIOUS
<1>14. e \in Experts
  BY <1>4, <1>6, <1>13, RowLanes
<1>15. SumOfLane(d, k, i, l) = Terms(k, d, x, <<e>>)
  <2>1. SegmentOf(handle[d][h], d, place[l]) = {e}
    BY <1>7, <1>13
  <2>2. (CHOOSE y \in {e} : TRUE) = e /\ {e} # {}
    OBVIOUS
  <2> QED BY <1>1, <1>2, <1>5, <1>11, <2>1, <2>2 DEF SumOfLane
<1>16. <<e>> \in Seq(Experts) /\ IsInjective(<<e>>) /\ Range(<<e>>) = {e}
  <2>1. <<e>> \in Seq(Experts)
    BY <1>14
  <2> QED BY <2>1 DEF IsInjective, Range
<1>17. PICK es \in Seq(Experts) : es = <<e>> /\ IsInjective(es) /\ Range(es) = {e}
  BY <1>16
<1>18. SumOnce(Terms(k, d, x, es), {<<k, d, s, t, f>> : f \in Range(es)})
  BY <1>1, <1>4, <1>12, <1>17, TermsOnce
<1>19. {TermOf(k, s, t, row, m) : m \in {l}} = {<<k, d, s, t, f>> : f \in {e}}
  <2>1. TermOf(k, s, t, row, l) = <<k, d, s, t, e>>
    BY <1>6, <1>13 DEF TermOf, LanesTo
  <2> QED BY <2>1
<1>20. PICK T : T = {TermOf(k, s, t, row, m) : m \in {l}}
  OBVIOUS
<1>21. SumOnce(Terms(k, d, x, es), T)
  BY <1>17, <1>18, <1>19, <1>20
<1>22. T = TermsOf(k, s, t, row, {l})
  BY <1>20 DEF TermsOf
<1> QED BY <1>3, <1>15, <1>17, <1>21, <1>22 DEF Returned

\* The sum of a rank: one term for each of its experts in the row.
LEMMA RankSum ==
  ASSUME IInv, SInv, EInv, LInv, NEW d \in Ranks, NEW k \in Calls, Prog[k].kind = "combine", Ended(d, Source(k)),
         Ended(d, Home(k)), NEW i \in DOMAIN handle[d][Home(k)].meta,
         NEW s, s = handle[d][Home(k)].meta[i].rank, NEW t, t = handle[d][Home(k)].meta[i].tok
  PROVE  Returned(k, s, t, LanesTo(Rows(k, s)[t], d), LocalSum(d, k, i))
<1>0. setup \in Setups
  BY PlaceFacts
<1>1. k \in Nat
  BY <1>0, CombineCall
<1>3. PICK row : row = Rows(k, s)[t]
  OBVIOUS
<1>4. /\ s \in Ranks /\ t \in Nat /\ row \in Row /\ t \in DOMAIN Rows(k, s)
      /\ ~Expanded(k) => /\ handle[d][Source(k)].recv[i].src = s /\ handle[d][Source(k)].recv[i].tok = t
                         /\ handle[d][Source(k)].recv[i].row = row
  BY <1>3, BackItem
<1>5. \A l, m \in Lanes : row[l] = row[m] /\ row[l] # -1 => l = m
  BY <1>0, <1>3, <1>4, RowDistinct
<1>6. ASSUME ~Expanded(k)
      PROVE  Returned(k, s, t, LanesTo(row, d), LocalSum(d, k, i))
  <2>1. PICK x : x = handle[d][Source(k)].recv[i]
    OBVIOUS
  <2>2. x.src = s /\ x.tok = t /\ x.row = row
    BY <1>4, <1>6, <2>1
  <2>3. PICK es : es = LocalExpertsOf(row, d)
    OBVIOUS
  <2>4. es \in Seq(Experts) /\ IsInjective(es) /\ Range(es) = {row[l] : l \in LanesTo(row, d)}
    BY <1>4, <1>5, <2>3, ExpertsOnce
  <2>5. LocalSum(d, k, i) = Terms(k, d, x, es)
    BY <1>6, <2>1, <2>2, <2>3 DEF LocalSum
  <2>6. SumOnce(Terms(k, d, x, es), {<<k, d, s, t, e>> : e \in Range(es)})
    BY <1>1, <1>4, <2>2, <2>4, TermsOnce
  <2>7. {TermOf(k, s, t, row, l) : l \in LanesTo(row, d)} = {<<k, d, s, t, e>> : e \in {row[l] : l \in LanesTo(row, d)}}
    BY <1>4, LaneTerm
  <2>8. PICK T : T = {TermOf(k, s, t, row, l) : l \in LanesTo(row, d)}
    OBVIOUS
  <2>9. SumOnce(LocalSum(d, k, i), T)
    BY <2>4, <2>5, <2>6, <2>7, <2>8
  <2>10. T = TermsOf(k, s, t, row, LanesTo(row, d))
    BY <2>8 DEF TermsOf
  <2> QED BY <1>3, <2>9, <2>10 DEF Returned
<1>7. ASSUME Expanded(k)
      PROVE  Returned(k, s, t, LanesTo(row, d), LocalSum(d, k, i))
  <2>1. /\ ExpandedLanes(d, k, i) = LanesTo(row, d)
        /\ \A l \in LanesTo(row, d) : Returned(k, s, t, {l}, SumOfLane(d, k, i, l))
    <3>1. ExpandedLanes(d, k, i) = LanesTo(Rows(k, s)[t], d)
      BY <1>7, LaneToken
    <3>2. ASSUME NEW l \in LanesTo(Rows(k, s)[t], d), NEW one, one = {l}
          PROVE  Returned(k, s, t, one, SumOfLane(d, k, i, l))
      BY <1>7, <3>2, LaneSum
    <3> QED BY <1>3, <3>1, <3>2
  <2>2. PICK D : D = LanesTo(row, d) /\ IsFiniteSet(D) /\ D \subseteq Lanes
    BY <1>4, RowLanes
  <2>3. PICK f : f = [l \in D |-> SumOfLane(d, k, i, l)]
    OBVIOUS
  <2>4. DOMAIN f = D
    BY <2>3
  <2>5. \A l \in D : SumOnce(f[l], {TermOf(k, s, t, row, l)})
    <3> SUFFICES ASSUME NEW l \in D
                 PROVE  SumOnce(f[l], {TermOf(k, s, t, row, l)})
      OBVIOUS
    <3>1. Returned(k, s, t, {l}, f[l])
      BY <2>1, <2>2, <2>3
    <3>2. PICK T : T = {TermOf(k, s, t, row, m) : m \in {l}}
      OBVIOUS
    <3>3. SumOnce(f[l], T)
      BY <1>3, <3>1, <3>2 DEF Returned, TermsOf
    <3>4. T = {TermOf(k, s, t, row, l)}
      BY <3>2
    <3> QED BY <3>3, <3>4
  <2>6. \A l, m \in D : l # m => TermOf(k, s, t, row, l) # TermOf(k, s, t, row, m)
    <3>1. \A l \in D : row[l] # -1
      BY <1>4, <2>2, RowLanes
    <3>2. \A l, m \in D : l # m => row[l] # row[m]
      BY <1>5, <2>2, <3>1
    <3>3. ASSUME NEW l \in D, NEW m \in D, TermOf(k, s, t, row, l) = TermOf(k, s, t, row, m)
          PROVE  row[l] = row[m]
      BY <3>3 DEF TermOf
    <3> QED BY <3>2, <3>3
  <2>7. Parts(f, D, AllTerms)
    <3>1. \A l \in D : f[l] \in Seq(AllTerms) /\ IsInjective(f[l]) /\ Range(f[l]) = {TermOf(k, s, t, row, l)}
      BY <2>5 DEF SumOnce
    <3>2. ASSUME NEW l \in D, NEW m \in D, l # m
          PROVE  Range(f[l]) \cap Range(f[m]) = {}
      <4>1. PICK a, b : a = TermOf(k, s, t, row, l) /\ b = TermOf(k, s, t, row, m)
        OBVIOUS
      <4>2. a # b
        BY <2>6, <3>2, <4>1
      <4> QED BY <3>1, <4>1, <4>2
    <3> QED BY <3>1, <3>2 DEF Parts
  <2>8. JoinOf(f, D, AllTerms, Joined(f))
    <3>1. IsFiniteSet(DOMAIN f) /\ Parts(f, DOMAIN f, AllTerms)
      BY <2>2, <2>4, <2>7
    <3>2. JoinOf(f, DOMAIN f, AllTerms, Joined(f))
      BY <3>1, JoinedParts
    <3> QED BY <2>4, <3>2
  <2>9. UNION {Range(f[l]) : l \in D} = {TermOf(k, s, t, row, l) : l \in D}
    <3>1. \A l \in D : Range(f[l]) = {TermOf(k, s, t, row, l)}
      BY <2>5 DEF SumOnce
    <3> QED BY <3>1
  <2>10. LocalSum(d, k, i) = Joined(f)
    BY <1>7, <2>1, <2>2, <2>3 DEF LocalSum
  <2>11. PICK T : T = {TermOf(k, s, t, row, l) : l \in D}
    OBVIOUS
  <2>12. SumOnce(LocalSum(d, k, i), T)
    BY <2>8, <2>9, <2>10, <2>11 DEF JoinOf, SumOnce
  <2>13. T = TermsOf(k, s, t, row, D)
    BY <2>11 DEF TermsOf
  <2> QED BY <1>3, <2>2, <2>12, <2>13 DEF Returned
<1> QED BY <1>3, <1>6, <1>7

-----------------------------------------------------------------------------
(* The lanes that come back, each to a place of its own. *)

LEMMA HighestLane ==
  ASSUME NEW S, S \subseteq Lanes, S # {}
  PROVE  MasterLane(S) \in S
<1>1. NumTopk \in Nat
  BY SizesAssumption
<1>2. PICK T : T = {NumTopk - l : l \in S}
  OBVIOUS
<1>3. T \subseteq Nat /\ T # {} /\ \A l \in S : l \in Nat
  <2>1. \A l \in 1 .. NumTopk : l \in Nat /\ NumTopk - l \in Nat
    BY ONLY <1>1
  <2>2. \A l \in S : l \in Nat /\ NumTopk - l \in Nat
    BY <2>1 DEF Lanes
  <2> QED BY <1>2, <2>2
<1>4. PICK x \in T : \A y \in T : x <= y
  BY <1>3, LeastNumber
<1>5. PICK m \in S : x = NumTopk - m
  BY <1>2
<1>6. \A l \in S : NumTopk - l \in T
  BY <1>2
<1>7. \A l \in S : m >= l
  BY <1>1, <1>3, <1>4, <1>5, <1>6
<1>8. (CHOOSE y \in S : \A l \in S : y >= l) \in S
  BY <1>7
<1> QED BY <1>8 DEF MasterLane, Max

LEMMA LanesHaveRegions == \A l \in Lanes : l - 1 \in Regions
<1>1. NumRanks \in Nat /\ NumTopk \in Nat
  BY SizesAssumption
<1>2. PICK m \in {NumRanks, NumTopk} : \A y \in {NumRanks, NumTopk} : m >= y
  <2>1. CASE NumRanks >= NumTopk
    BY <1>1, <2>1
  <2>2. CASE ~(NumRanks >= NumTopk)
    <3>1. NumTopk >= NumRanks
      BY <1>1, <2>2
    <3> QED BY <1>1, <3>1
  <2> QED BY <2>1, <2>2
<1>3. Max({NumRanks, NumTopk}) \in {NumRanks, NumTopk} /\ Max({NumRanks, NumTopk}) >= NumTopk
  BY <1>2 DEF Max
<1> QED BY <1>1, <1>3 DEF Lanes, Regions

\* The lanes by which the sums of a token come back.
LEMMA ReduceFacts ==
  ASSUME NEW k, NEW row \in Row
  PROVE  /\ ReduceLanes(k, row) \subseteq Lanes /\ IsFiniteSet(ReduceLanes(k, row))
         /\ \A l \in ReduceLanes(k, row) :
              /\ row[l] # -1 /\ RankOf(row[l]) \in Ranks /\ RankOf(row[l]) \in Dsts(row)
              /\ Region(row, l) \in Regions
              /\ l \in Cover(k, row, l) /\ Cover(k, row, l) \subseteq LanesTo(row, RankOf(row[l]))
              /\ ~PerLane(k) => l = MasterLane(LanesTo(row, RankOf(row[l])))
         /\ \A d \in Dsts(row) : LanesTo(row, d) # {} /\ (~PerLane(k) => MasterLane(LanesTo(row, d)) \in ReduceLanes(k, row))
         /\ \A d \in Dsts(row) : MasterLane(LanesTo(row, d)) \in LanesTo(row, d)
         /\ PerLane(k) => \A l \in Lanes : row[l] # -1 => l \in ReduceLanes(k, row)
<1>1. /\ DOMAIN row = Lanes /\ IsFiniteSet(Lanes)
      /\ \A l \in Lanes : row[l] \in Experts \cup {-1}
      /\ \A l \in Lanes : row[l] # -1 => row[l] \in Experts /\ RankOf(row[l]) \in Ranks
      /\ RankOf(-1) = -1 /\ -1 \notin Experts /\ -1 \notin Ranks
      /\ \A d : LanesTo(row, d) \subseteq Lanes /\ IsFiniteSet(LanesTo(row, d))
      /\ \A d \in Ranks : \A l \in Lanes : l \in LanesTo(row, d) <=> row[l] # -1 /\ RankOf(row[l]) = d
  BY RowLanes
<1>2. Dsts(row) \subseteq Ranks
  BY DestinationsAreRanks
<1>3. \A d \in Dsts(row) : LanesTo(row, d) # {} /\ MasterLane(LanesTo(row, d)) \in LanesTo(row, d)
  <2>1. \A d \in Dsts(row) : LanesTo(row, d) # {}
    BY DEF Dsts, LanesTo
  <2> QED BY <1>1, <2>1, HighestLane
<1>4. \A l \in Lanes : row[l] # -1 => RankOf(row[l]) \in Dsts(row)
  BY <1>1 DEF Dsts
<1>5. \A l \in Lanes : row[l] # -1 <=> row[l] >= 0
  <2>1. Experts \subseteq Nat
    BY SizesAssumption DEF Experts
  <2>2. ~(-1 >= 0) /\ \A n \in Nat : n >= 0 /\ n # -1
    OBVIOUS
  <2> QED BY <1>1, <2>1, <2>2
<1>6. PerLane(k) => /\ ReduceLanes(k, row) = {l \in Lanes : row[l] # -1}
                    /\ \A l : Cover(k, row, l) = {l}
  BY <1>1, <1>5 DEF ReduceLanes, Cover
<1>7. ~PerLane(k) => /\ ReduceLanes(k, row) = {MasterLane(LanesTo(row, d)) : d \in Dsts(row)}
                     /\ \A l : Cover(k, row, l) = LanesTo(row, RankOf(row[l]))
  BY DEF ReduceLanes, Cover, DedupLanes
<1>8. \A l \in Lanes : row[l] # -1 => Region(row, l) \in Regions
  BY <1>1, RanksHaveRegions, LanesHaveRegions DEF Region
<1>9. ~PerLane(k) => \A l \in ReduceLanes(k, row) : /\ l \in Lanes /\ row[l] # -1
                                                    /\ l = MasterLane(LanesTo(row, RankOf(row[l])))
  BY <1>1, <1>2, <1>3, <1>7
<1>10. ReduceLanes(k, row) \subseteq Lanes
  BY <1>6, <1>9
<1>11. \A l \in ReduceLanes(k, row) : row[l] # -1
  BY <1>6, <1>9
<1>12. \A l \in ReduceLanes(k, row) : l \in Cover(k, row, l) /\ Cover(k, row, l) \subseteq LanesTo(row, RankOf(row[l]))
  BY <1>1, <1>6, <1>7, <1>10, <1>11
<1>13. IsFiniteSet(ReduceLanes(k, row))
  BY <1>1, <1>10, FS_Subset
<1>14. \A d \in Dsts(row) : ~PerLane(k) => MasterLane(LanesTo(row, d)) \in ReduceLanes(k, row)
  BY <1>7
<1>15. PerLane(k) => \A l \in Lanes : row[l] # -1 => l \in ReduceLanes(k, row)
  BY <1>6
<1>16. \A l \in ReduceLanes(k, row) :
         RankOf(row[l]) \in Ranks /\ RankOf(row[l]) \in Dsts(row) /\ Region(row, l) \in Regions
  BY <1>1, <1>4, <1>8, <1>10, <1>11
<1> QED BY <1>3, <1>9, <1>10, <1>11, <1>12, <1>13, <1>14, <1>15, <1>16

\* No two of them have the same region.
LEMMA RegionApart ==
  ASSUME NEW k, NEW row \in Row, NEW l \in ReduceLanes(k, row), NEW m \in ReduceLanes(k, row),
         Region(row, l) = Region(row, m)
  PROVE  l = m
<1>1. /\ l \in Lanes /\ m \in Lanes
      /\ ~PerLane(k) => /\ l = MasterLane(LanesTo(row, RankOf(row[l])))
                        /\ m = MasterLane(LanesTo(row, RankOf(row[m])))
  BY ReduceFacts
<1>2. l \in Int /\ m \in Int
  BY <1>1, SizesAssumption DEF Lanes
<1>3. CASE UseRankLayout
  <2>1. ~PerLane(k)
    BY <1>3 DEF UseRankLayout, PerLane
  <2>2. RankOf(row[l]) = RankOf(row[m])
    BY <1>3 DEF Region
  <2> QED BY <1>1, <2>1, <2>2
<1>4. CASE ~UseRankLayout
  <2>1. l - 1 = m - 1
    BY <1>4 DEF Region
  <2> QED BY <1>2, <2>1
<1> QED BY <1>3, <1>4

\* The place in the buffer is one, and tells the token and the lane.
LEMMA PlaceApart ==
  ASSUME setup \in Setups, NEW k \in Calls, NEW s \in Ranks, NEW t \in DOMAIN Rows(k, s), NEW u \in DOMAIN Rows(k, s),
         NEW l \in ReduceLanes(k, Rows(k, s)[t]), NEW m \in ReduceLanes(k, Rows(k, s)[u])
  PROVE  /\ <<Region(Rows(k, s)[t], l), t - 1>> \in Places
         /\ <<Region(Rows(k, s)[t], l), t - 1>> = <<Region(Rows(k, s)[u], m), u - 1>> => t = u /\ l = m
<1>1. /\ Rows(k, s)[t] \in Row /\ Rows(k, s)[u] \in Row
      /\ t \in Nat /\ u \in Nat /\ t >= 1 /\ t <= NumMaxTokensPerRank
  <2>1. /\ Len(Rows(k, s)) \in Nat /\ DOMAIN Rows(k, s) = 1 .. Len(Rows(k, s))
        /\ Len(Rows(k, s)) <= NumMaxTokensPerRank
    BY RowFacts
  <2>2. Rows(k, s)[t] \in Row /\ Rows(k, s)[u] \in Row
    BY RowFacts
  <2> QED BY <2>1, <2>2, SizesAssumption
<1>2. Region(Rows(k, s)[t], l) \in Regions
  BY <1>1, ReduceFacts
<1>3. t - 1 \in 0 .. NumMaxTokensPerRank - 1
  BY <1>1, SizesAssumption
<1>4. ASSUME Region(Rows(k, s)[t], l) = Region(Rows(k, s)[u], m), t - 1 = u - 1
      PROVE  t = u /\ l = m
  <2>1. t = u
    BY <1>1, <1>4
  <2> QED BY <1>1, <1>4, <2>1, RegionApart
<1> QED BY <1>2, <1>3, <1>4 DEF Places

-----------------------------------------------------------------------------
(* What a step does to what has been sent back. *)

\* How rank d's kernels, its stage and what it is through with change in a step.
Turn(d) ==
  \/ kernels'[d] = kernels[d] /\ stage'[d] = stage[d] /\ done'[d] = done[d]
  \/ kernels'[d] = kernels[d] /\ stage'[d] = "enter" /\ OnMain(d)
  \/ kernels'[d] = kernels[d] /\ stage'[d] = "work" /\ stage[d] = "enter" /\ done'[d] = done[d]
  \/ kernels'[d] = kernels[d] /\ stage'[d] = "work" /\ OnMain(d) /\ Kind(d) \in AnyDispatch
  \/ kernels'[d] = kernels[d] /\ stage'[d] = "work" /\ ~OnMain(d) /\ stage[d] = "idle" /\ done'[d] = {}
  \/ kernels'[d] = kernels[d] /\ stage'[d] = "work" /\ ~OnMain(d) /\ Kind(d) \in AnyDispatch
  \/ Running(d) /\ \E i : SendBack(d, i)
  \/ Running(d) /\ \E t : ReduceToken(d, t)
  \/ Arrive(d)
  \/ EndMain(d)
  \/ EndEpilogue(d)

LEMMA StepMoves ==
  ASSUME IInv, [Next]_vars, NEW d \in Ranks
  PROVE  Turn(d)
<1>0. kernels \in [Ranks -> Nat] /\ DOMAIN stage = Ranks /\ DOMAIN done = Ranks
  BY DEF IInv, CountTypes
<1>1. UNCHANGED <<kernels, stage, done>> => Turn(d)
  BY DEF Turn
<1>2. ASSUME NEW r \in Ranks, Host(r) \/ Notify(r)
      PROVE  Turn(d)
  <2>1. UNCHANGED <<kernels, stage, done>>
    BY <1>2 DEF Host, HostCall, HostPoll, Notify, NotifyCount, NotifySend, NotifyTake, NotifyFinish, tokenVars
  <2> QED BY <1>1, <2>1
<1>3. ASSUME NEW r \in Ranks, Running(r), Main(r)
      PROVE  Turn(d)
  <2>1. ASSUME StartMain(r)
        PROVE  Turn(d)
    <3>1. kernels' = kernels /\ stage' = [stage EXCEPT ![r] = "enter"] /\ done' = [done EXCEPT ![r] = {}] /\ OnMain(r)
      BY <2>1 DEF StartMain
    <3> QED BY <1>0, <3>1 DEF Turn
  <2>2. ASSUME PassEntry(r)
        PROVE  Turn(d)
    <3>1. kernels' = kernels /\ stage' = [stage EXCEPT ![r] = "work"] /\ done' = done /\ stage[r] = "enter"
      BY <2>2 DEF PassEntry, tokenVars
    <3> QED BY <1>0, <3>1 DEF Turn
  <2>3. ASSUME NEW t, NEW u, SendToken(r, t, u)
        PROVE  Turn(d)
    <3>1. /\ kernels' = kernels /\ stage' = stage /\ done' = [done EXCEPT ![r] = @ \cup {<<t, u>>}]
          /\ stage[r] = "work" /\ OnMain(r) /\ Kind(r) \in AnyDispatch
      BY <2>3 DEF SendToken, MainRuns
    <3> QED BY <1>0, <3>1 DEF Turn
  <2>4. ASSUME NEW i, SendBack(r, i)
        PROVE  Turn(d)
    <3>1. kernels' = kernels /\ stage' = stage /\ done' = [done EXCEPT ![r] = @ \cup {i}]
      BY <2>4 DEF SendBack
    <3>2. CASE r = d
      BY <1>3, <2>4, <3>2 DEF Turn
    <3>3. CASE r # d
      BY <1>0, <3>1, <3>3 DEF Turn
    <3> QED BY <3>2, <3>3
  <2>5. ASSUME Arrive(r)
        PROVE  Turn(d)
    <3>1. kernels' = kernels /\ stage' = [stage EXCEPT ![r] = "leave"] /\ done' = done
      BY <2>5 DEF Arrive, tokenVars
    <3> QED BY <1>0, <2>5, <3>1 DEF Turn
  <2>6. ASSUME EndMain(r)
        PROVE  Turn(d)
    <3>1. kernels' = [kernels EXCEPT ![r] = @ + 1] /\ stage' = [stage EXCEPT ![r] = "idle"] /\ done' = done
      BY <2>6 DEF EndMain
    <3> QED BY <1>0, <2>6, <3>1 DEF Turn
  <2> QED BY <1>3, <2>1, <2>2, <2>3, <2>4, <2>5, <2>6 DEF Main
<1>4. ASSUME NEW r \in Ranks, Running(r), Epilogue(r)
      PROVE  Turn(d)
  <2>1. ASSUME StartEpilogue(r)
        PROVE  Turn(d)
    <3>1. kernels' = kernels /\ stage' = [stage EXCEPT ![r] = "work"] /\ done' = [done EXCEPT ![r] = {}]
          /\ ~OnMain(r) /\ stage[r] = "idle"
      BY <2>1 DEF StartEpilogue
    <3> QED BY <1>0, <3>1 DEF Turn
  <2>2. ASSUME NEW i, CopyToken(r, i) \/ ReduceToken(r, i)
        PROVE  Turn(d)
    <3>1. /\ kernels' = kernels /\ stage' = stage /\ done' = [done EXCEPT ![r] = @ \cup {i}]
          /\ stage[r] = "work" /\ ~OnMain(r) /\ (Kind(r) \in AnyDispatch \/ ReduceToken(r, i))
      BY <2>2 DEF CopyToken, ReduceToken, EpilogueRuns
    <3>2. CASE r = d
      BY <1>4, <3>1, <3>2 DEF Turn
    <3>3. CASE r # d
      BY <1>0, <3>1, <3>3 DEF Turn
    <3> QED BY <3>2, <3>3
  <2>3. ASSUME EndEpilogue(r)
        PROVE  Turn(d)
    <3>1. kernels' = [kernels EXCEPT ![r] = @ + 1] /\ stage' = [stage EXCEPT ![r] = "idle"] /\ done' = done
      BY <2>3 DEF EndEpilogue, tokenVars
    <3> QED BY <1>0, <2>3, <3>1 DEF Turn
  <2> QED BY <1>4, <2>1, <2>2, <2>3 DEF Epilogue
<1>5. ASSUME NEW m, LandStore(m) \/ LandCounts(m)
      PROVE  Turn(d)
  BY <1>1, <1>5 DEF LandStore, LandCounts, tokenVars
<1>6. UNCHANGED vars => Turn(d)
  BY <1>1 DEF vars
<1> QED BY <1>2, <1>3, <1>4, <1>5, <1>6 DEF Next

LEMMA MoveCases ==
  ASSUME IInv, NEW d \in Ranks, Turn(d)
  PROVE  /\ kernels'[d] \in Nat /\ (kernels'[d] = kernels[d] \/ (kernels'[d] = kernels[d] + 1 /\ stage'[d] = "idle"))
         /\ stage'[d] = "leave" =>
              \/ kernels'[d] = kernels[d] /\ stage[d] = "leave" /\ done'[d] = done[d]
              \/ kernels'[d] = kernels[d] /\ stage[d] = "work" /\ OnMain(d) /\ done'[d] = done[d] /\ done[d] = Items(d)
<1>0. kernels \in [Ranks -> Nat] /\ DOMAIN stage = Ranks /\ DOMAIN done = Ranks
  BY DEF IInv, CountTypes
<1>1. ASSUME NEW i, SendBack(d, i) \/ ReduceToken(d, i)
      PROVE  kernels'[d] = kernels[d] /\ stage'[d] = "work"
  BY <1>1 DEF SendBack, MainRuns, ReduceToken, EpilogueRuns
<1>2. ASSUME Arrive(d)
      PROVE  kernels'[d] = kernels[d] /\ stage'[d] = "leave" /\ stage[d] = "work" /\ OnMain(d) /\ done'[d] = done[d] /\ done[d] = Items(d)
  BY <1>0, <1>2 DEF Arrive, tokenVars
<1>3. ASSUME EndMain(d) \/ EndEpilogue(d)
      PROVE  kernels'[d] = kernels[d] + 1 /\ stage'[d] = "idle"
  BY <1>0, <1>3 DEF EndMain, EndEpilogue
<1> QED BY <1>0, <1>1, <1>2, <1>3 DEF Turn

\* A combine's items, in its first kernel and behind it.
LEMMA BackItems ==
  ASSUME IInv, SInv, CInv, EInv, NEW d \in Ranks, NEW k \in Calls, Prog[k].kind = "combine", kernels[d] >= 2 * k - 2
  PROVE  /\ Ended(d, Source(k)) /\ Ended(d, Home(k))
         /\ OnMain(d) /\ k = CallOf(d) => Items(d) = DOMAIN handle[d][Home(k)].meta
<1>0. setup \in Setups /\ kernels[d] \in Nat
  BY PlaceFacts
<1>1. /\ Source(k) \in Nat /\ Source(k) < k /\ Home(k) \in Calls /\ Home(k) \in Nat /\ Home(k) < k /\ k \in Nat
      /\ Prog[Home(k)].kind = "dispatch" /\ Home(Home(k)) = Home(k)
  BY <1>0, CombineCall
<1>2. Ended(d, Source(k)) /\ Ended(d, Home(k))
  BY <1>0, <1>1 DEF Ended
<1>3. EpilogueAt(d, Home(k))
  BY <1>0, <1>1, <1>2 DEF EpilogueAt, Ended
<1>4. NumRecv(d, Home(k)) = ReceivedFrom(Home(k), d, Ranks)
  BY <1>1, <1>3, NumRight
<1>5. NumRecv(d, k) = NumRecv(d, Home(k))
  BY <1>1 DEF NumRecv
<1>6. DOMAIN handle[d][Home(k)].meta = 0 .. ReceivedFrom(Home(k), d, Ranks) - 1
  BY <1>1, <1>2, EndedItems DEF AnyDispatch
<1>7. OnMain(d) /\ k = CallOf(d) => Items(d) = 0 .. NumRecv(d, k) - 1
  BY DEF Items, Kind, AnyDispatch
<1> QED BY <1>2, <1>4, <1>5, <1>6, <1>7

\* What rank d has received in the dispatch of combine k stays once it may send it back.
LEMMA BackMetaStays ==
  ASSUME IInv, SInv, TInv, CInv, EInv, [Next]_vars, NEW d \in Ranks, NEW k \in Calls, Prog[k].kind = "combine",
         kernels'[d] >= 2 * k - 2, kernels'[d] = kernels[d] \/ stage'[d] # "idle" \/ kernels'[d] >= 2 * k - 1
  PROVE  /\ kernels[d] >= 2 * k - 2 /\ Ended(d, Home(k)) /\ Home(k)' = Home(k) /\ Prog' = Prog /\ Calls' = Calls
         /\ handle'[d][Home(k)].meta = handle[d][Home(k)].meta
<1>1. k \in Nat /\ kernels[d] \in Nat /\ setup \in Setups
  BY PlaceFacts
<1>2. kernels'[d] \in Nat /\ (kernels'[d] = kernels[d] \/ (kernels'[d] = kernels[d] + 1 /\ stage'[d] = "idle"))
  BY StepMoves, MoveCases
<1>3. kernels[d] >= 2 * k - 2
  BY <1>1, <1>2
<1>4. Ended(d, Home(k))
  BY <1>3, BackItems
<1>5. Prog' = Prog /\ Calls' = Calls /\ Home(k)' = Home(k)
  BY KeptOrFilled DEF Home, Source, Prog, Calls
<1>6. Home(k) \in Calls
  BY <1>1, CombineCall
<1> QED BY <1>3, <1>4, <1>5, <1>6, EndedStay

\* Nothing is sent back but by a combine warp.
LEMMA NoneBack ==
  ASSUME IInv, SInv, TInv, CInv, EInv, BInv, [Next]_vars, NEW d \in Ranks, NEW k \in Calls, Prog[k].kind = "combine",
         NEW s, NEW t, SentBack(d, k, s, t)'
  PROVE  \/ SentBack(d, k, s, t)
         \/ \E i : Running(d) /\ SendBack(d, i)
<1>1. k \in Nat /\ kernels[d] \in Nat /\ setup \in Setups
      /\ (OnMain(d) => kernels[d] = 2 * CallOf(d) - 2) /\ (~OnMain(d) => kernels[d] = 2 * CallOf(d) - 1)
      /\ CallOf(d) \in Nat
  BY PlaceFacts
<1>2. PICK i : /\ i \in DOMAIN handle'[d][Home(k)'].meta
               /\ handle'[d][Home(k)'].meta[i].rank = s /\ handle'[d][Home(k)'].meta[i].tok = t
               /\ Sent(d, k, i)'
  BY DEF SentBack
<1>3. kernels'[d] \in Nat /\ (kernels'[d] = kernels[d] \/ (kernels'[d] = kernels[d] + 1 /\ stage'[d] = "idle"))
  BY StepMoves, MoveCases
<1>4. \/ kernels'[d] >= 2 * k - 1
      \/ kernels'[d] = 2 * k - 2 /\ stage'[d] \in {"work", "leave"} /\ i \in done'[d]
  BY <1>2 DEF Sent
<1>5. /\ Home(k)' = Home(k) /\ handle'[d][Home(k)].meta = handle[d][Home(k)].meta
  BY <1>1, <1>3, <1>4, BackMetaStays
<1>6. i \in DOMAIN handle[d][Home(k)].meta
  BY <1>2, <1>5
<1>7. Sent(d, k, i) => SentBack(d, k, s, t)
  BY <1>2, <1>5 DEF SentBack
<1>8. kernels[d] >= 2 * k - 1 => Sent(d, k, i)
  BY DEF Sent
<1>9. CASE kernels'[d] = kernels[d] /\ stage'[d] = stage[d] /\ done'[d] = done[d]
  BY <1>4, <1>7, <1>9 DEF Sent
<1>10. CASE kernels'[d] = kernels[d] /\ stage'[d] = "enter"
  BY <1>4, <1>7, <1>8, <1>10
<1>11. CASE kernels'[d] = kernels[d] /\ stage'[d] = "work" /\ stage[d] = "enter" /\ done'[d] = done[d]
  <2>1. done[d] = {}
    BY <1>11 DEF SInv, DoneInv
  <2> QED BY <1>4, <1>7, <1>8, <1>11, <2>1
<1>12. CASE kernels'[d] = kernels[d] /\ stage'[d] = "work" /\ OnMain(d) /\ Kind(d) \in AnyDispatch
  <2>1. kernels[d] # 2 * k - 2
    <3>1. k # CallOf(d)
      BY <1>12 DEF Kind, AnyDispatch
    <3> QED BY <1>1, <1>12, <3>1
  <2> QED BY <1>4, <1>7, <1>8, <1>12, <2>1
<1>13. CASE kernels'[d] = kernels[d] /\ stage'[d] = "work" /\ ~OnMain(d)
  <2>1. kernels[d] # 2 * k - 2
    BY <1>1, <1>13
  <2> QED BY <1>4, <1>7, <1>8, <1>13, <2>1
<1>14. CASE Arrive(d)
  <2>1. kernels'[d] = kernels[d] /\ stage[d] = "work" /\ done'[d] = done[d]
    BY <1>14 DEF Arrive, tokenVars
  <2> QED BY <1>4, <1>7, <2>1 DEF Sent
<1>15. CASE EndMain(d)
  <2>1. kernels'[d] = kernels[d] + 1 /\ stage[d] = "leave" /\ OnMain(d)
    <3>1. kernels'[d] = kernels[d] + 1 /\ stage[d] = "leave"
      BY <1>15 DEF EndMain, IInv, CountTypes
    <3> QED BY <3>1, PlaceFacts
  <2>2. CASE kernels[d] >= 2 * k - 1
    BY <1>7, <1>8, <2>2
  <2>3. CASE ~(kernels[d] >= 2 * k - 1)
    <3>1. kernels[d] = 2 * k - 2
      BY <1>1, <1>4, <2>1, <2>3
    <3>2. k = CallOf(d)
      BY <1>1, <2>1, <3>1
    <3>3. done[d] = DOMAIN handle[d][Home(k)].meta
      BY <2>1, <3>2 DEF BInv, BackDone, Kind
    <3> QED BY <1>6, <1>7, <2>1, <3>1, <3>3 DEF Sent
  <2> QED BY <2>2, <2>3
<1>16. CASE EndEpilogue(d)
  <2>1. kernels'[d] = kernels[d] + 1 /\ ~OnMain(d) /\ stage'[d] = "idle"
    BY <1>16 DEF EndEpilogue, IInv, CountTypes
  <2>2. kernels[d] >= 2 * k - 1
    BY <1>1, <1>4, <2>1
  <2> QED BY <1>7, <1>8, <2>2
<1>17. ASSUME NEW x, ReduceToken(d, x)
       PROVE  kernels'[d] = kernels[d] /\ stage'[d] = "work" /\ ~OnMain(d)
  BY <1>17 DEF ReduceToken, EpilogueRuns
<1> QED BY <1>9, <1>10, <1>11, <1>12, <1>13, <1>14, <1>15, <1>16, <1>17, StepMoves DEF Turn

LEMMA BackDoneStep ==
  ASSUME IInv, SInv, TInv, CInv, EInv, BInv, [Next]_vars, NEW d \in Ranks
  PROVE  BackDone(d)'
<1> SUFFICES ASSUME stage'[d] = "leave", Kind(d)' = "combine"
             PROVE  done'[d] = DOMAIN handle'[d][Home(CallOf(d))'].meta
  BY DEF BackDone
<1>1. \/ kernels'[d] = kernels[d] /\ stage[d] = "leave" /\ done'[d] = done[d]
      \/ kernels'[d] = kernels[d] /\ stage[d] = "work" /\ OnMain(d) /\ done'[d] = done[d] /\ done[d] = Items(d)
  BY StepMoves, MoveCases
<1>2. PICK k : k = CallOf(d)
  OBVIOUS
<1>3. CallOf(d)' = k
  BY <1>1, <1>2 DEF CallOf
<1>4. Prog' = Prog /\ setup' = setup
  BY KeptOrFilled DEF Prog
<1>5. Prog[k].kind = "combine" /\ Kind(d) = "combine"
  BY <1>2, <1>3, <1>4 DEF Kind
<1>6. OnMain(d) /\ kernels[d] = 2 * k - 2 /\ kernels[d] \in Nat /\ k \in Nat
  BY <1>1, <1>2, PlaceFacts
<1>7. k \in Calls
  <2>1. Running(d)
    <3>1. /\ kernels[d] < Enqueued(d) /\ call[d] <= Len(Prog) /\ call[d] \in Nat
          /\ Len(Prog) \in Nat
      BY <1>1, SetupsAssumption DEF IInv, Ahead, CountTypes, Prog
    <3> QED BY <1>6, <3>1 DEF Running, Enqueued
  <2> QED BY <1>2, <2>1, RunningCall DEF IInv
<1>8. handle'[d][Home(k)].meta = handle[d][Home(k)].meta /\ Home(k)' = Home(k)
  BY <1>1, <1>5, <1>6, <1>7, BackMetaStays
<1>9. Home(CallOf(d))' = Home(k)
  BY <1>3, <1>4 DEF Home, Source, Prog
<1>10. Items(d) = DOMAIN handle[d][Home(k)].meta
  BY <1>2, <1>5, <1>6, <1>7, BackItems
<1>11. stage[d] = "leave" => done[d] = DOMAIN handle[d][Home(k)].meta
  BY <1>2, <1>5 DEF BInv, BackDone
<1> QED BY <1>1, <1>8, <1>9, <1>10, <1>11

LEMMA BackFixed ==
  ASSUME setup' = setup
  PROVE  /\ Prog' = Prog /\ Calls' = Calls /\ \A k, s : Rows(k, s)' = Rows(k, s)
         /\ \A k, row : ReduceLanes(k, row)' = ReduceLanes(k, row)
         /\ \A row, l : Region(row, l)' = Region(row, l)
         /\ \A k, row, l : Cover(k, row, l)' = Cover(k, row, l)
         /\ \A k, s, t, lanes, sum : Returned(k, s, t, lanes, sum)' <=> Returned(k, s, t, lanes, sum)
         /\ \A m : BackPosted(m)' <=> BackPosted(m)
<1>1. /\ Prog' = Prog /\ Calls' = Calls
      /\ \A k : Expanded(k)' = Expanded(k)
      /\ \A k, s : Rows(k, s)' = Rows(k, s)
  BY TensorsFixed
<1>2. \A k : PerLane(k)' <=> PerLane(k)
  BY <1>1 DEF PerLane
<1>3. \A k, row : ReduceLanes(k, row)' = ReduceLanes(k, row)
  BY <1>2 DEF ReduceLanes
<1>4. \A row, l : Region(row, l)' = Region(row, l)
  BY DEF Region, UseRankLayout
<1>5. \A k, row, l : Cover(k, row, l)' = Cover(k, row, l)
  BY <1>2 DEF Cover
<1>6. \A k, s, t, lanes, sum : Returned(k, s, t, lanes, sum)' <=> Returned(k, s, t, lanes, sum)
  BY <1>1 DEF Returned
<1>7. \A m, k, s, t, l : BackPost(m, k, s, t, l)' <=> BackPost(m, k, s, t, l)
  BY <1>1, <1>4, <1>5, <1>6 DEF BackPost
<1>8. \A m : BackPosted(m)' <=> BackPosted(m)
  BY <1>1, <1>3, <1>7 DEF BackPosted
<1> QED BY <1>1, <1>3, <1>4, <1>5, <1>6, <1>8

\* Who goes on to a combine finds nothing sent back in it.
LEMMA BackBehindBarrier ==
  ASSUME IInv, [Next]_vars, NEW k \in Calls, NEW s \in Ranks, NEW d \in Ranks, NEW t,
         SentBack(d, k, s, t), CallOf(s)' = k
  PROVE  CallOf(s) = k
<1>1. k \in Nat /\ kernels[s] \in Nat
  BY PlaceFacts
<1>2. entered[s] >= 2 * k - 1
  <2>1. PICK i : Sent(d, k, i)
    BY DEF SentBack
  <2> QED BY <1>1, <2>1, SentBehindBarrier
<1>3. entered[s] = EnteredBy(s) /\ (~OnMain(s) => entered[s] = kernels[s] + 1)
  BY DEF IInv, InStep, EnteredBy
<1>4. kernels'[s] \in Nat /\ (kernels'[s] = kernels[s] \/ kernels'[s] = kernels[s] + 1)
  BY StepMoves, MoveCases
<1>5. CASE kernels'[s] = kernels[s]
  BY <1>5 DEF CallOf
<1>6. CASE kernels'[s] = kernels[s] + 1 /\ OnMain(s)
  <2>1. kernels[s] = 2 * CallOf(s) - 2 /\ CallOf(s) \in Nat
    BY <1>6, PlaceFacts
  <2>2. PICK c \in Nat : c = CallOf(s)
    BY <2>1
  <2>3. kernels'[s] \div 2 + 1 = c
    BY ONLY <1>6, <2>1, <2>2
  <2> QED BY <2>2, <2>3 DEF CallOf
<1>7. CASE kernels'[s] = kernels[s] + 1 /\ ~OnMain(s)
  <2>1. kernels[s] = 2 * CallOf(s) - 1 /\ CallOf(s) \in Nat
    BY <1>7, PlaceFacts
  <2>2. PICK c \in Nat : c = CallOf(s)
    BY <2>1
  <2>3. kernels'[s] \div 2 + 1 = c + 1
    BY ONLY <1>7, <2>1, <2>2
  <2>4. k = c + 1
    BY <2>3 DEF CallOf
  <2> QED BY <1>1, <1>2, <1>3, <1>7, <2>1, <2>2, <2>4
<1> QED BY <1>4, <1>5, <1>6, <1>7

\* What has been sent back is there before the step.
LEMMA BackKept ==
  ASSUME IInv, BInv, [Next]_vars, NEW k \in Calls, Prog[k].kind = "combine", NEW s \in Ranks,
         NEW t \in DOMAIN Rows(k, s), NEW l \in ReduceLanes(k, Rows(k, s)[t]),
         SentBack(RankOf(Rows(k, s)[t][l]), k, s, t), CallOf(s)' = k,
         NEW at, at = <<Region(Rows(k, s)[t], l), t - 1>>
  PROVE  /\ CallOf(s) = k
         /\ \/ \E m \in stores : m.to = s /\ m.at = at
            \/ Returned(k, s, t, Cover(k, Rows(k, s)[t], l), buffer[s][at].sum)
<1>1. RankOf(Rows(k, s)[t][l]) \in Ranks
  <2>1. Rows(k, s)[t] \in Row
    BY PlaceFacts, RowFacts
  <2> QED BY <2>1, ReduceFacts
<1>2. CallOf(s) = k
  BY <1>1, BackBehindBarrier
<1>3. BackDelivered(k, s, t, l)
  BY DEF BInv
<1> QED BY <1>2, <1>3 DEF BackDelivered

LEMMA StepTokens ==
  ASSUME IInv, [Next]_vars
  PROVE  \/ UNCHANGED <<buffer, stores>>
         \/ \E m \in stores : LandStore(m)
         \/ \E r \in Ranks : Running(r) /\ \E t, d : SendToken(r, t, d)
         \/ \E r \in Ranks : Running(r) /\ \E i : SendBack(r, i)
<1>1. ASSUME NEW r \in Ranks, Host(r) \/ Notify(r) \/ Epilogue(r)
      PROVE  UNCHANGED <<buffer, stores>>
  BY <1>1 DEF Host, HostCall, HostPoll, Notify, NotifyCount, NotifySend, NotifyTake, NotifyFinish, tokenVars,
              Epilogue, StartEpilogue, CopyToken, ReduceToken, EndEpilogue
<1>2. ASSUME NEW r \in Ranks, Main(r)
      PROVE  \/ UNCHANGED <<buffer, stores>>
             \/ \E t, d : SendToken(r, t, d)
             \/ \E i : SendBack(r, i)
  BY <1>2 DEF Main, StartMain, PassEntry, Arrive, EndMain, tokenVars
<1>3. \A m : LandCounts(m) => UNCHANGED <<buffer, stores>>
  BY DEF LandCounts, tokenVars
<1>4. UNCHANGED vars => UNCHANGED <<buffer, stores>>
  BY DEF vars
<1> QED BY <1>1, <1>2, <1>3, <1>4 DEF Next

\* A combine warp's step: it sends what makes up the token's sums of this rank.
SentFor(new, k, r, s, t) ==
  /\ \A m \in new : m.token.call = k /\ BackPosted(m)
  /\ \A l \in ReduceLanes(k, Rows(k, s)[t]) : RankOf(Rows(k, s)[t][l]) = r =>
       \E m \in new : m.to = s /\ m.at = <<Region(Rows(k, s)[t], l), t - 1>>

LEMMA BackPosts ==
  ASSUME NEW m, NEW k \in Calls, Prog[k].kind = "combine", NEW s \in Ranks, NEW t \in DOMAIN Rows(k, s),
         NEW l \in ReduceLanes(k, Rows(k, s)[t]), BackPost(m, k, s, t, l)
  PROVE  m.to = s /\ m.at = <<Region(Rows(k, s)[t], l), t - 1>> /\ m.token.call = k /\ BackPosted(m)
<1>1. m.to = s /\ m.at = <<Region(Rows(k, s)[t], l), t - 1>> /\ m.token = Partial(k, m.token.sum)
  BY DEF BackPost
<1>2. m.token.call = k
  BY <1>1 DEF Partial
<1> QED BY <1>1, <1>2 DEF BackPosted

LEMMA SendBackPosts ==
  ASSUME IInv, SInv, CInv, EInv, LInv, NEW r \in Ranks, NEW k \in Calls, k = CallOf(r), NEW i, SendBack(r, i),
         NEW s, s = handle[r][Home(k)].meta[i].rank, NEW t, t = handle[r][Home(k)].meta[i].tok
  PROVE  /\ Prog[k].kind = "combine" /\ s \in Ranks /\ t \in DOMAIN Rows(k, s)
         /\ \E new : stores' = stores \cup new /\ SentFor(new, k, r, s, t)
<1>1. Prog[k].kind = "combine" /\ OnMain(r) /\ i \in Items(r)
  BY DEF SendBack, MainRuns, Kind
<1>2. kernels[r] = 2 * k - 2 /\ k \in Nat /\ setup \in Setups
  BY <1>1, PlaceFacts
<1>3. Ended(r, Source(k)) /\ Ended(r, Home(k)) /\ i \in DOMAIN handle[r][Home(k)].meta
  BY <1>1, <1>2, BackItems
<1>4. PICK row : row = Rows(k, s)[t]
  OBVIOUS
<1>5. /\ s \in Ranks /\ t \in DOMAIN Rows(k, s) /\ row \in Row /\ r \in Dsts(row)
      /\ handle[r][Home(k)].meta[i].lane = MasterLane(LanesTo(row, r))
  BY <1>1, <1>3, <1>4, BackItem
<1>6. /\ ReduceLanes(k, row) \subseteq Lanes
      /\ \A l \in ReduceLanes(k, row) :
              /\ row[l] # -1
              /\ ~PerLane(k) => l = MasterLane(LanesTo(row, RankOf(row[l])))
      /\ \A d \in Dsts(row) : ~PerLane(k) => MasterLane(LanesTo(row, d)) \in ReduceLanes(k, row)
      /\ \A d \in Dsts(row) : MasterLane(LanesTo(row, d)) \in LanesTo(row, d)
      /\ PerLane(k) => \A l \in Lanes : row[l] # -1 => l \in ReduceLanes(k, row)
  BY <1>5, ReduceFacts
<1>7. /\ \A l \in Lanes : l \in LanesTo(row, r) <=> row[l] # -1 /\ RankOf(row[l]) = r
      /\ LanesTo(row, r) \subseteq Lanes
  BY <1>5, RowLanes
<1> DEFINE Put(region, sum) == [from |-> r, to |-> s, at |-> <<region, t - 1>>, token |-> Partial(k, sum)]
<1>8. stores' = stores \cup
           (IF PerLane(k) THEN {Put(l - 1, SumOfLane(r, k, i, l)) : l \in ExpandedLanes(r, k, i)}
            ELSE {Put(IF UseRankLayout THEN r ELSE handle[r][Home(k)].meta[i].lane - 1, LocalSum(r, k, i))})
  BY DEF SendBack, PerLane
<1>9. CASE PerLane(k)
  <2>1. /\ ExpandedLanes(r, k, i) = LanesTo(row, r)
        /\ \A l \in LanesTo(row, r) : Returned(k, s, t, {l}, SumOfLane(r, k, i, l))
    <3>1. Expanded(k)
      BY <1>9 DEF PerLane
    <3>2. ExpandedLanes(r, k, i) = LanesTo(Rows(k, s)[t], r)
      BY <1>1, <1>3, <3>1, LaneToken
    <3>3. ASSUME NEW l \in LanesTo(Rows(k, s)[t], r), NEW one, one = {l}
          PROVE  Returned(k, s, t, one, SumOfLane(r, k, i, l))
      BY <1>1, <1>3, <3>1, <3>3, LaneSum
    <3> QED BY <1>4, <3>2, <3>3
  <2>2. PICK D, f : D = LanesTo(row, r) /\ f = [l \in D |-> SumOfLane(r, k, i, l)]
    OBVIOUS
  <2>3. \A l \in D : /\ l \in ReduceLanes(k, row) /\ RankOf(row[l]) = r
                     /\ Cover(k, row, l) = {l} /\ Region(row, l) = l - 1
                     /\ Returned(k, s, t, Cover(k, row, l), f[l])
    <3>1. ~UseRankLayout
      BY <1>9 DEF PerLane, UseRankLayout
    <3>2. \A l : Cover(k, row, l) = {l} /\ Region(row, l) = l - 1
      BY <1>9, <3>1 DEF Cover, Region
    <3> QED BY <1>6, <1>7, <1>9, <2>1, <2>2, <3>2
  <2>4. PICK new : new = {Put(Region(row, l), f[l]) : l \in D}
    OBVIOUS
  <2>5. stores' = stores \cup new
    <3>1. {Put(l - 1, SumOfLane(r, k, i, l)) : l \in ExpandedLanes(r, k, i)} = new
      BY <2>1, <2>2, <2>3, <2>4
    <3> QED BY <1>8, <1>9, <3>1
  <2>6. \A l \in D : /\ Put(Region(row, l), f[l]).to = s
                     /\ Put(Region(row, l), f[l]).at = <<Region(row, l), t - 1>>
                     /\ Put(Region(row, l), f[l]).token.call = k
                     /\ BackPosted(Put(Region(row, l), f[l]))
    <3> SUFFICES ASSUME NEW l \in D, NEW m, m = Put(Region(row, l), f[l])
                 PROVE  m.to = s /\ m.at = <<Region(row, l), t - 1>> /\ m.token.call = k /\ BackPosted(m)
      OBVIOUS
    <3>1. m.to = s /\ m.from = r /\ m.at = <<Region(row, l), t - 1>> /\ m.token = Partial(k, f[l])
      OBVIOUS
    <3> HIDE DEF Put
    <3>2. l \in ReduceLanes(k, row) /\ RankOf(row[l]) = r /\ Returned(k, s, t, Cover(k, row, l), f[l])
      BY <2>3
    <3>3. BackPost(m, k, s, t, l)
      <4>1. m.token.sum = f[l]
        BY <3>1 DEF Partial
      <4> QED BY <1>4, <3>1, <3>2, <4>1 DEF BackPost
    <3>4. l \in ReduceLanes(k, Rows(k, s)[t])
      BY <1>4, <3>2
    <3>5. BackPosted(m) /\ m.token.call = k
      BY <1>1, <1>5, <3>3, <3>4, BackPosts
    <3> QED BY <3>1, <3>5
  <2> HIDE DEF Put
  <2>7. \A l \in ReduceLanes(k, row) : RankOf(row[l]) = r => l \in D
    BY <1>6, <1>7, <2>2
  <2>8. SentFor(new, k, r, s, t)
    <3>1. \A m \in new : m.token.call = k /\ BackPosted(m)
      BY <2>4, <2>6
    <3>2. \A l \in D : \E m \in new : m.to = s /\ m.at = <<Region(row, l), t - 1>>
      BY <2>4, <2>6
    <3> QED BY <1>4, <2>7, <3>1, <3>2 DEF SentFor
  <2> QED BY <1>1, <1>5, <2>5, <2>8
<1>10. CASE ~PerLane(k)
  <2>1. PICK l : l = MasterLane(LanesTo(row, r))
    OBVIOUS
  <2>2. l \in ReduceLanes(k, row) /\ l \in LanesTo(row, r) /\ RankOf(row[l]) = r
    BY <1>5, <1>6, <1>7, <1>10, <2>1
  <2>3. PICK sum : sum = LocalSum(r, k, i)
    OBVIOUS
  <2>4. Returned(k, s, t, Cover(k, row, l), sum)
    <3>1. Cover(k, row, l) = LanesTo(row, r)
      BY <1>10, <2>2 DEF Cover
    <3> QED BY <1>1, <1>3, <1>4, <2>3, <3>1, RankSum
  <2>5. PICK m : m = Put(Region(row, l), sum)
    OBVIOUS
  <2>6. stores' = stores \cup {m}
    <3>1. (IF UseRankLayout THEN r ELSE handle[r][Home(k)].meta[i].lane - 1) = Region(row, l)
      BY <1>5, <2>1, <2>2 DEF Region
    <3> QED BY <1>8, <1>10, <2>3, <2>5, <3>1
  <2>7. m.to = s /\ m.at = <<Region(row, l), t - 1>> /\ m.token.call = k /\ BackPosted(m)
    <3>1. m.to = s /\ m.from = r /\ m.at = <<Region(row, l), t - 1>> /\ m.token = Partial(k, sum)
      BY <2>5
    <3> HIDE DEF Put
    <3>2. BackPost(m, k, s, t, l)
      <4>1. m.token.sum = sum
        BY <3>1 DEF Partial
      <4> QED BY <1>4, <2>2, <2>4, <3>1, <4>1 DEF BackPost
    <3>3. l \in ReduceLanes(k, Rows(k, s)[t])
      BY <1>4, <2>2
    <3>4. BackPosted(m) /\ m.token.call = k
      BY <1>1, <1>5, <3>2, <3>3, BackPosts
    <3> QED BY <3>1, <3>4
  <2>8. \A x \in ReduceLanes(k, row) : RankOf(row[x]) = r => x = l
    BY <1>6, <1>10, <2>1
  <2>9. SentFor({m}, k, r, s, t)
    BY <1>4, <2>7, <2>8 DEF SentFor
  <2> QED BY <1>1, <1>5, <2>6, <2>9
<1> QED BY <1>9, <1>10

LEMMA SendBackSent ==
  ASSUME IInv, NEW r \in Ranks, NEW k \in Calls, k = CallOf(r), NEW i, SendBack(r, i), NEW d \in Ranks, NEW j \in Calls,
         NEW s, NEW t, SentBack(d, j, s, t)'
  PROVE  \/ SentBack(d, j, s, t)
         \/ /\ d = r /\ j = k
            /\ s = handle[r][Home(k)].meta[i].rank /\ t = handle[r][Home(k)].meta[i].tok
<1>1. /\ UNCHANGED <<setup, kernels, stage, handle>> /\ done' = [done EXCEPT ![r] = @ \cup {i}] /\ OnMain(r)
  BY DEF SendBack, MainRuns
<1>2. Home(j)' = Home(j) /\ Home(k)' = Home(k)
  BY <1>1 DEF Home, Source, Prog
<1>3. PICK x : /\ x \in DOMAIN handle[d][Home(j)].meta
               /\ handle[d][Home(j)].meta[x].rank = s /\ handle[d][Home(j)].meta[x].tok = t
               /\ Sent(d, j, x)'
  BY <1>1, <1>2 DEF SentBack
<1>4. Sent(d, j, x) => SentBack(d, j, s, t)
  BY <1>3 DEF SentBack
<1>5. CASE d # r
  <2>1. done'[d] = done[d]
    BY <1>1, <1>5, PlaceFacts
  <2> QED BY <1>1, <1>3, <1>4, <2>1 DEF Sent
<1>6. CASE d = r /\ x # i
  <2>1. x \in done'[d] => x \in done[d]
    BY <1>1, <1>6, PlaceFacts
  <2> QED BY <1>1, <1>3, <1>4, <2>1 DEF Sent
<1>7. CASE d = r /\ x = i
  <2>1. Sent(d, j, x) \/ kernels[r] = 2 * j - 2
    BY <1>1, <1>3, <1>7 DEF Sent
  <2>2. kernels[r] = 2 * k - 2 /\ k \in Nat /\ j \in Nat
    BY <1>1, PlaceFacts
  <2>3. kernels[r] = 2 * j - 2 => j = k
    BY <2>2
  <2> QED BY <1>3, <1>4, <1>7, <2>1, <2>3
<1> QED BY <1>5, <1>6, <1>7

LEMMA SendBackBack ==
  ASSUME IInv, SInv, TInv, CInv, EInv, LInv, BInv, [Next]_vars, NEW r \in Ranks, Running(r), NEW i, SendBack(r, i)
  PROVE  BInv'
<1>1. PICK k \in Calls : k = CallOf(r)
  BY RunningCall DEF IInv
<1>2. PICK s : s = handle[r][Home(k)].meta[i].rank
  OBVIOUS
<1>3. PICK t : t = handle[r][Home(k)].meta[i].tok
  OBVIOUS
<1>4. Prog[k].kind = "combine" /\ s \in Ranks /\ t \in DOMAIN Rows(k, s)
  BY <1>1, <1>2, <1>3, SendBackPosts
<1>5. PICK new : stores' = stores \cup new /\ SentFor(new, k, r, s, t)
  BY <1>1, <1>2, <1>3, SendBackPosts
<1>6. setup' = setup /\ buffer' = buffer
  BY DEF SendBack
<1>7. /\ Prog' = Prog /\ Calls' = Calls /\ (\A j, q : Rows(j, q)' = Rows(j, q))
      /\ (\A j, row : ReduceLanes(j, row)' = ReduceLanes(j, row))
      /\ (\A row, l : Region(row, l)' = Region(row, l))
      /\ (\A j, row, l : Cover(j, row, l)' = Cover(j, row, l))
      /\ (\A j, q, u, lanes, sum : Returned(j, q, u, lanes, sum)' <=> Returned(j, q, u, lanes, sum))
      /\ \A m : BackPosted(m)' <=> BackPosted(m)
  BY <1>6, BackFixed
<1>8. \A m \in stores' : BackPosted(m)'
  BY <1>5, <1>7 DEF BInv, SentFor
<1>9. ASSUME NEW j \in Calls, Prog[j].kind = "combine", NEW q \in Ranks, NEW u \in DOMAIN Rows(j, q),
             NEW l \in ReduceLanes(j, Rows(j, q)[u])
      PROVE  BackDelivered(j, q, u, l)'
  <2> SUFFICES ASSUME CallOf(q)' = j, SentBack(RankOf(Rows(j, q)[u][l]), j, q, u)'
               PROVE  \/ \E m \in stores' : m.to = q /\ m.at = <<Region(Rows(j, q)[u], l), u - 1>>
                      \/ Returned(j, q, u, Cover(j, Rows(j, q)[u], l), buffer[q][<<Region(Rows(j, q)[u], l), u - 1>>].sum)
    BY <1>6, <1>7 DEF BackDelivered
  <2>1. PICK d : d = RankOf(Rows(j, q)[u][l])
    OBVIOUS
  <2>2. d \in Ranks
    <3>1. Rows(j, q)[u] \in Row
      BY PlaceFacts, RowFacts
    <3> QED BY <2>1, <3>1, ReduceFacts
  <2>3. SentBack(d, j, q, u)'
    BY <1>7, <2>1
  <2>4. CASE SentBack(d, j, q, u)
    BY <1>5, <1>9, <2>1, <2>4, BackKept
  <2>5. CASE d = r /\ j = k /\ q = s /\ u = t
    BY <1>5, <2>1, <2>5 DEF SentFor
  <2> QED BY <1>1, <1>2, <1>3, <2>2, <2>3, <2>4, <2>5, SendBackSent
<1>10. \A d \in Ranks : BackDone(d)'
  BY BackDoneStep
<1> QED BY <1>7, <1>8, <1>9, <1>10 DEF BInv

\* Steps that send nothing back.
LEMMA OtherBack ==
  ASSUME IInv, SInv, TInv, CInv, EInv, BInv, [Next]_vars, ~(\E r \in Ranks : Running(r) /\ \E i : SendBack(r, i)),
         \A m \in stores' : BackPosted(m),
         \A s \in Ranks : \A k \in Calls : CallOf(s) = k /\ Prog[k].kind = "combine" =>
           \A t \in DOMAIN Rows(k, s) : \A l \in ReduceLanes(k, Rows(k, s)[t]) :
             LET at == <<Region(Rows(k, s)[t], l), t - 1>>
             IN  \/ \E m \in stores : m.to = s /\ m.at = at
                 \/ Returned(k, s, t, Cover(k, Rows(k, s)[t], l), buffer[s][at].sum)
                 => \/ \E m \in stores' : m.to = s /\ m.at = at
                    \/ Returned(k, s, t, Cover(k, Rows(k, s)[t], l), buffer'[s][at].sum)
  PROVE  BInv'
<1>1. setup' = setup
  BY KeptOrFilled
<1>2. /\ Prog' = Prog /\ Calls' = Calls /\ (\A j, q : Rows(j, q)' = Rows(j, q))
      /\ (\A j, row : ReduceLanes(j, row)' = ReduceLanes(j, row))
      /\ (\A row, l : Region(row, l)' = Region(row, l))
      /\ (\A j, row, l : Cover(j, row, l)' = Cover(j, row, l))
      /\ (\A j, q, u, lanes, sum : Returned(j, q, u, lanes, sum)' <=> Returned(j, q, u, lanes, sum))
      /\ \A m : BackPosted(m)' <=> BackPosted(m)
  BY <1>1, BackFixed
<1>3. \A m \in stores' : BackPosted(m)'
  BY <1>2
<1>4. ASSUME NEW j \in Calls, Prog[j].kind = "combine", NEW q \in Ranks, NEW u \in DOMAIN Rows(j, q),
             NEW l \in ReduceLanes(j, Rows(j, q)[u])
      PROVE  BackDelivered(j, q, u, l)'
  <2>0. PICK at : at = <<Region(Rows(j, q)[u], l), u - 1>>
    OBVIOUS
  <2>1. PICK d : d = RankOf(Rows(j, q)[u][l])
    OBVIOUS
  <2> SUFFICES ASSUME CallOf(q)' = j, SentBack(d, j, q, u)'
               PROVE  \/ \E m \in stores' : m.to = q /\ m.at = at
                      \/ Returned(j, q, u, Cover(j, Rows(j, q)[u], l), buffer'[q][at].sum)
    BY <1>2, <2>0, <2>1 DEF BackDelivered
  <2>2. d \in Ranks
    <3>1. Rows(j, q)[u] \in Row
      BY PlaceFacts, RowFacts
    <3> QED BY <2>1, <3>1, ReduceFacts
  <2>3. SentBack(d, j, q, u)
    BY <1>4, <2>2, NoneBack
  <2>4. /\ CallOf(q) = j
        /\ \/ \E m \in stores : m.to = q /\ m.at = at
           \/ Returned(j, q, u, Cover(j, Rows(j, q)[u], l), buffer[q][at].sum)
    BY <1>4, <2>0, <2>1, <2>3, BackKept
  <2> QED BY <1>4, <2>0, <2>4
<1>5. \A d \in Ranks : BackDone(d)'
  BY BackDoneStep
<1> QED BY <1>2, <1>3, <1>4, <1>5 DEF BInv

LEMMA LandStoreBack ==
  ASSUME IInv, SInv, TInv, CInv, EInv, BInv, [Next]_vars, ~(\E r \in Ranks : Running(r) /\ \E i : SendBack(r, i)),
         NEW m \in stores, LandStore(m)
  PROVE  BInv'
<1>1. buffer' = [buffer EXCEPT ![m.to][m.at] = m.token] /\ stores' = stores \ {m}
  BY DEF LandStore
<1>2. PICK k \in Calls : m.to \in Ranks /\ k = m.token.call /\ CallOf(m.to) = k
  BY StoreFacts
<1>3. DOMAIN buffer = Ranks /\ (\A x \in Ranks : DOMAIN buffer[x] = Places) /\ setup \in Setups
  <2>1. setup \in Setups
    BY <1>2, PlaceFacts
  <2> QED BY <2>1 DEF TInv
<1>4. /\ \A x \in Ranks : \A y : <<x, y>> # <<m.to, m.at>> => buffer'[x][y] = buffer[x][y]
      /\ m.at \in Places => buffer'[m.to][m.at] = m.token
  BY <1>1, <1>2, <1>3
<1>5. \A n \in stores' : BackPosted(n)
  BY <1>1 DEF BInv
<1>6. ASSUME NEW s \in Ranks, NEW j \in Calls, CallOf(s) = j, Prog[j].kind = "combine", NEW t \in DOMAIN Rows(j, s),
             NEW l \in ReduceLanes(j, Rows(j, s)[t]), NEW at, at = <<Region(Rows(j, s)[t], l), t - 1>>,
             \/ \E n \in stores : n.to = s /\ n.at = at
             \/ Returned(j, s, t, Cover(j, Rows(j, s)[t], l), buffer[s][at].sum)
      PROVE  \/ \E n \in stores' : n.to = s /\ n.at = at
             \/ Returned(j, s, t, Cover(j, Rows(j, s)[t], l), buffer'[s][at].sum)
  <2>1. CASE m.to = s /\ m.at = at
    <3>1. j = k
      BY <1>2, <1>6, <2>1
    <3>2. PICK u \in DOMAIN Rows(j, s) : \E y \in ReduceLanes(j, Rows(j, s)[u]) : BackPost(m, j, s, u, y)
      BY <1>2, <1>6, <2>1, <3>1 DEF BInv, BackPosted
    <3>3. PICK y \in ReduceLanes(j, Rows(j, s)[u]) : BackPost(m, j, s, u, y)
      BY <3>2
    <3>4. /\ m.at = <<Region(Rows(j, s)[u], y), u - 1>>
          /\ Returned(j, s, u, Cover(j, Rows(j, s)[u], y), m.token.sum)
      BY <3>3 DEF BackPost
    <3>5. at \in Places /\ u = t /\ y = l
      BY <1>3, <1>6, <2>1, <3>4, PlaceApart
    <3>6. buffer'[s][at] = m.token
      BY <1>4, <2>1, <3>5
    <3> QED BY <3>4, <3>5, <3>6
  <2>2. CASE ~(m.to = s /\ m.at = at)
    <3>1. buffer'[s][at] = buffer[s][at]
      BY <1>4, <2>2
    <3>2. \A n \in stores : n.to = s /\ n.at = at => n \in stores'
      BY <1>1, <2>2
    <3> QED BY <1>6, <3>1, <3>2
  <2> QED BY <2>1, <2>2
<1>7. \A s \in Ranks : \A j \in Calls : CallOf(s) = j /\ Prog[j].kind = "combine" =>
           \A t \in DOMAIN Rows(j, s) : \A l \in ReduceLanes(j, Rows(j, s)[t]) :
             LET at == <<Region(Rows(j, s)[t], l), t - 1>>
             IN  \/ \E n \in stores : n.to = s /\ n.at = at
                 \/ Returned(j, s, t, Cover(j, Rows(j, s)[t], l), buffer[s][at].sum)
                 => \/ \E n \in stores' : n.to = s /\ n.at = at
                    \/ Returned(j, s, t, Cover(j, Rows(j, s)[t], l), buffer'[s][at].sum)
  BY <1>6
<1> QED BY <1>5, <1>7, OtherBack

LEMMA BInit == Init => BInv
<1> SUFFICES ASSUME Init
             PROVE  BInv
  OBVIOUS
<1>1. stores = {} /\ \A d \in Ranks : stage[d] = "idle" /\ kernels[d] = 0
  BY DEF Init
<1>2. \A k \in Calls : k \in Nat /\ k >= 1
  <2>1. Prog \in Seq(Call)
    BY SetupsAssumption DEF Init, Prog
  <2> QED BY <2>1 DEF Calls
<1>3. ASSUME NEW k \in Calls, NEW s \in Ranks, NEW d \in Ranks, NEW t, SentBack(d, k, s, t)
      PROVE  FALSE
  <2>1. PICK i : Sent(d, k, i)
    BY <1>3 DEF SentBack
  <2> QED BY <1>1, <1>2, <2>1 DEF Sent
<1>4. ASSUME NEW k \in Calls, NEW s \in Ranks, NEW t \in DOMAIN Rows(k, s), NEW l \in ReduceLanes(k, Rows(k, s)[t])
      PROVE  BackDelivered(k, s, t, l)
  <2>1. RankOf(Rows(k, s)[t][l]) \in Ranks
    <3>1. Rows(k, s)[t] \in Row
      BY RowFacts DEF Init
    <3> QED BY <3>1, ReduceFacts
  <2> QED BY <1>3, <2>1 DEF BackDelivered
<1> QED BY <1>1, <1>4 DEF BInv, BackDone

LEMMA BStep == IInv /\ SInv /\ TInv /\ CInv /\ EInv /\ LInv /\ BInv /\ [Next]_vars => BInv'
<1> SUFFICES ASSUME IInv, SInv, TInv, CInv, EInv, LInv, BInv, [Next]_vars
             PROVE  BInv'
  OBVIOUS
<1>1. CASE \E r \in Ranks : Running(r) /\ \E i : SendBack(r, i)
  BY <1>1, SendBackBack
<1> SUFFICES ASSUME ~(\E r \in Ranks : Running(r) /\ \E i : SendBack(r, i))
             PROVE  BInv'
  BY <1>1
<1>2. CASE \E m \in stores : LandStore(m)
  BY <1>2, LandStoreBack
<1>3. ASSUME buffer' = buffer, stores \subseteq stores', \A m \in stores' \ stores : BackPosted(m)
      PROVE  BInv'
  BY <1>3, OtherBack DEF BInv
<1>4. CASE UNCHANGED <<buffer, stores>>
  BY <1>3, <1>4
<1>5. ASSUME NEW r \in Ranks, Running(r), NEW t, NEW d, SendToken(r, t, d)
      PROVE  BInv'
  <2>1. PICK k \in Calls : k = CallOf(r)
    BY <1>5, RunningCall DEF IInv
  <2>2. Prog[k].kind \in AnyDispatch /\ buffer' = buffer
    BY <1>5, <2>1 DEF SendToken, MainRuns, Kind
  <2>3. PICK m : stores' = stores \cup {m} /\ m.token.call = k
    <3>1. PICK slot : stores' = stores \cup {[from |-> r, to |-> d, at |-> <<r, slot>>,
                                              token |-> Token(k, r, t, Rows(k, r)[t])]}
      BY <1>5, <2>1 DEF SendToken
    <3>2. PICK m : m = [from |-> r, to |-> d, at |-> <<r, slot>>, token |-> Token(k, r, t, Rows(k, r)[t])]
      OBVIOUS
    <3>3. m.token.call = k
      BY <3>2 DEF Token
    <3> QED BY <3>1, <3>2, <3>3
  <2>4. BackPosted(m)
    BY <2>2, <2>3 DEF BackPosted, AnyDispatch
  <2> QED BY <1>3, <2>2, <2>3, <2>4
<1> QED BY <1>2, <1>4, <1>5, StepTokens

-----------------------------------------------------------------------------
(* What the reduce epilogue finds, and what it leaves. *)

\* Once a rank is in the second kernel of a combine, all ranks have sent back what they got.
LEMMA AllBack ==
  ASSUME IInv, SInv, CInv, EInv, BInv, NEW r \in Ranks, NEW k \in Calls, Prog[k].kind = "combine",
         k = CallOf(r), ~OnMain(r), NEW t \in DOMAIN Rows(k, r), NEW d \in Dsts(Rows(k, r)[t])
  PROVE  SentBack(d, k, r, t)
<1>0. setup \in Setups /\ k \in Nat /\ kernels[r] \in Nat /\ kernels[r] = 2 * k - 1
  BY PlaceFacts
<1>1. d \in Ranks
  BY <1>0, RowFacts
<1>2. /\ Home(k) \in Calls /\ Prog[Home(k)].kind \in AnyDispatch
      /\ Rows(Home(k), r) = Rows(k, r)
  BY <1>0, CombineCall DEF AnyDispatch
<1>3. /\ kernels[d] \in Nat /\ left[r] \in Nat /\ entered[d] \in Nat
      /\ left[r] <= entered[d] /\ left[r] = LeftBy(r) /\ entered[d] = EnteredBy(d)
      /\ stage[d] \in {"idle", "enter", "work", "leave"}
  BY <1>1, PlaceFacts DEF IInv, InStep, CountTypes
<1>4. left[r] = 2 * k
  BY <1>0, <1>3 DEF LeftBy
<1>5. \/ kernels[d] >= 2 * k - 1
      \/ kernels[d] = 2 * k - 2 /\ stage[d] = "leave" /\ OnMain(d)
  <2>1. CASE stage[d] = "leave" /\ OnMain(d)
    <3>1. kernels[d] + 2 >= 2 * k
      BY <1>3, <1>4, <2>1 DEF EnteredBy
    <3> QED BY <1>0, <1>3, <2>1, <3>1
  <2>2. CASE ~(stage[d] = "leave" /\ OnMain(d))
    <3>1. kernels[d] + 1 >= 2 * k
      BY <1>0, <1>3, <1>4, <2>2 DEF EnteredBy
    <3> QED BY <1>0, <1>3, <3>1
  <2> QED BY <2>1, <2>2
<1>6. kernels[d] >= 2 * k - 2
  BY <1>0, <1>3, <1>5
<1>7. Ended(d, Home(k))
  BY <1>1, <1>6, BackItems
<1>8. /\ kernels[d] >= 2 * Home(k) - 1
      /\ DOMAIN handle[d][Home(k)].meta = 0 .. ReceivedFrom(Home(k), d, Ranks) - 1
      /\ \A i \in DOMAIN handle[d][Home(k)].meta :
           IsItem(d, Home(k), i, handle[d][Home(k)].meta[i].rank, handle[d][Home(k)].meta[i].tok)
  BY <1>1, <1>2, <1>7, EndedItems
<1>9. t \in FromTo(Home(k), r, d)
  BY <1>2 DEF FromTo
<1>10. PICK i : i \in 0 .. ReceivedFrom(Home(k), d, Ranks) - 1 /\ IsItem(d, Home(k), i, r, t)
  BY <1>1, <1>2, <1>8, <1>9, ItemOfToken
<1>11. handle[d][Home(k)].meta[i].rank = r /\ handle[d][Home(k)].meta[i].tok = t
  BY <1>1, <1>2, <1>8, <1>10, ItemUnique
<1>12. Sent(d, k, i)
  <2>1. CASE kernels[d] >= 2 * k - 1
    BY <2>1 DEF Sent
  <2>2. CASE kernels[d] = 2 * k - 2 /\ stage[d] = "leave" /\ OnMain(d)
    <3>1. k = CallOf(d)
      BY <1>0, <1>1, <2>2, PlaceFacts
    <3>2. done[d] = DOMAIN handle[d][Home(k)].meta
      BY <1>1, <2>2, <3>1 DEF BInv, BackDone, Kind
    <3> QED BY <1>8, <1>10, <2>2, <3>2 DEF Sent
  <2> QED BY <1>5, <2>1, <2>2
<1> QED BY <1>8, <1>10, <1>11, <1>12 DEF SentBack

LEMMA AllReturned ==
  ASSUME IInv, SInv, CInv, EInv, BInv, NEW r \in Ranks, NEW k \in Calls, Prog[k].kind = "combine",
         k = CallOf(r), ~OnMain(r), NEW t \in DOMAIN Rows(k, r), NEW l \in ReduceLanes(k, Rows(k, r)[t])
  PROVE  Returned(k, r, t, Cover(k, Rows(k, r)[t], l), buffer[r][<<Region(Rows(k, r)[t], l), t - 1>>].sum)
<1>1. Rows(k, r)[t] \in Row
  BY PlaceFacts, RowFacts
<1>2. PICK d : d = RankOf(Rows(k, r)[t][l])
  OBVIOUS
<1>3. d \in Dsts(Rows(k, r)[t])
  BY <1>1, <1>2, ReduceFacts
<1>4. SentBack(d, k, r, t)
  BY <1>3, AllBack
<1>5. \A m \in stores : m.to # r
  BY OwnedFromInv DEF PutsOwned
<1>6. BackDelivered(k, r, t, l)
  BY DEF BInv
<1> QED BY <1>2, <1>4, <1>5, <1>6 DEF BackDelivered

\* The covers of a token's lanes are apart, and make up its lanes.
LEMMA CoversApart ==
  ASSUME NEW k, NEW row \in Row
  PROVE  /\ \A l, m \in ReduceLanes(k, row) : \A x : x \in Cover(k, row, l) /\ x \in Cover(k, row, m) => l = m
         /\ \A l \in ReduceLanes(k, row) : \A x \in Cover(k, row, l) : x \in Lanes /\ row[x] # -1
         /\ \A x \in Lanes : row[x] # -1 => \E l \in ReduceLanes(k, row) : x \in Cover(k, row, l)
<1>1. /\ ReduceLanes(k, row) \subseteq Lanes
      /\ \A l \in ReduceLanes(k, row) :
           /\ RankOf(row[l]) \in Ranks
           /\ l \in Cover(k, row, l) /\ Cover(k, row, l) \subseteq LanesTo(row, RankOf(row[l]))
           /\ ~PerLane(k) => l = MasterLane(LanesTo(row, RankOf(row[l])))
      /\ \A d \in Dsts(row) : ~PerLane(k) => MasterLane(LanesTo(row, d)) \in ReduceLanes(k, row)
      /\ \A d \in Dsts(row) : MasterLane(LanesTo(row, d)) \in LanesTo(row, d)
      /\ PerLane(k) => \A l \in Lanes : row[l] # -1 => l \in ReduceLanes(k, row)
  BY ReduceFacts
<1>2. /\ DOMAIN row = Lanes
      /\ \A l \in Lanes : row[l] # -1 => RankOf(row[l]) \in Ranks
      /\ -1 \notin Ranks
      /\ \A d : LanesTo(row, d) \subseteq Lanes
      /\ \A d \in Ranks : \A l \in Lanes : l \in LanesTo(row, d) <=> row[l] # -1 /\ RankOf(row[l]) = d
  BY RowLanes
<1>3. \A l \in ReduceLanes(k, row) : \A x \in Cover(k, row, l) : x \in Lanes /\ row[x] # -1 /\ RankOf(row[x]) = RankOf(row[l])
  BY <1>1, <1>2
<1>4. ASSUME NEW l \in ReduceLanes(k, row), NEW m \in ReduceLanes(k, row), NEW x,
             x \in Cover(k, row, l), x \in Cover(k, row, m)
      PROVE  l = m
  <2>1. CASE PerLane(k)
    BY <1>4, <2>1 DEF Cover
  <2>2. CASE ~PerLane(k)
    <3>1. RankOf(row[l]) = RankOf(row[m])
      BY <1>3, <1>4
    <3> QED BY <1>1, <2>2, <3>1
  <2> QED BY <2>1, <2>2
<1>5. ASSUME NEW x \in Lanes, row[x] # -1
      PROVE  \E l \in ReduceLanes(k, row) : x \in Cover(k, row, l)
  <2>1. CASE PerLane(k)
    BY <1>1, <1>5, <2>1
  <2>2. CASE ~PerLane(k)
    <3>1. PICK d : d = RankOf(row[x])
      OBVIOUS
    <3>2. d \in Ranks /\ d \in Dsts(row) /\ x \in LanesTo(row, d)
      BY <1>2, <1>5, <3>1 DEF Dsts
    <3>3. PICK l \in ReduceLanes(k, row) : l = MasterLane(LanesTo(row, d)) /\ l \in LanesTo(row, d)
      BY <1>1, <2>2, <3>2
    <3>4. RankOf(row[l]) = d
      BY <1>1, <1>2, <3>2, <3>3
    <3> QED BY <2>2, <3>2, <3>4 DEF Cover
  <2> QED BY <2>1, <2>2
<1> QED BY <1>3, <1>4, <1>5

LEMMA ReducedSum ==
  ASSUME setup \in Setups, NEW k \in Calls, NEW r \in Ranks, NEW t \in DOMAIN Rows(k, r),
         NEW row, row = Rows(k, r)[t], NEW f, DOMAIN f = ReduceLanes(k, row),
         \A l \in DOMAIN f : Returned(k, r, t, Cover(k, row, l), f[l])
  PROVE  Returned(k, r, t, Lanes \ Masked(row), Joined(f))
<1>1. row \in Row
  BY RowFacts
<1>2. /\ \A l, m \in ReduceLanes(k, row) : \A x : x \in Cover(k, row, l) /\ x \in Cover(k, row, m) => l = m
      /\ \A l \in ReduceLanes(k, row) : \A x \in Cover(k, row, l) : x \in Lanes /\ row[x] # -1
      /\ \A x \in Lanes : row[x] # -1 => \E l \in ReduceLanes(k, row) : x \in Cover(k, row, l)
  BY <1>1, CoversApart
<1>3. \A x, y \in Lanes : row[x] = row[y] /\ row[x] # -1 => x = y
  BY RowDistinct
<1>4. \A l \in DOMAIN f : /\ f[l] \in Seq(AllTerms) /\ IsInjective(f[l])
                          /\ Range(f[l]) = TermsOf(k, r, t, row, Cover(k, row, l))
  BY DEF Returned, SumOnce
<1>5. \A x, y \in Lanes : TermOf(k, r, t, row, x) = TermOf(k, r, t, row, y) => row[x] = row[y]
  BY DEF TermOf
<1>6. \A lanes : \A z : z \in TermsOf(k, r, t, row, lanes) <=> \E x \in lanes : z = TermOf(k, r, t, row, x)
  BY DEF TermsOf
<1>7. \A l, m \in DOMAIN f : l # m => Range(f[l]) \cap Range(f[m]) = {}
  <2> SUFFICES ASSUME NEW l \in DOMAIN f, NEW m \in DOMAIN f, NEW z, z \in Range(f[l]), z \in Range(f[m])
               PROVE  l = m
    OBVIOUS
  <2>1. PICK x \in Cover(k, row, l) : z = TermOf(k, r, t, row, x)
    BY <1>4, <1>6
  <2>2. PICK y \in Cover(k, row, m) : z = TermOf(k, r, t, row, y)
    BY <1>4, <1>6
  <2>3. x \in Lanes /\ y \in Lanes /\ row[x] # -1
    BY <1>2, <2>1, <2>2
  <2>4. x = y
    BY <1>3, <1>5, <2>1, <2>2, <2>3
  <2> QED BY <1>2, <2>1, <2>2, <2>4
<1>8. Parts(f, DOMAIN f, AllTerms)
  BY <1>4, <1>7 DEF Parts
<1>9. IsFiniteSet(DOMAIN f)
  BY <1>1, ReduceFacts
<1>10. JoinOf(f, DOMAIN f, AllTerms, Joined(f))
  BY <1>8, <1>9, JoinedParts
<1>11. /\ Joined(f) \in Seq(AllTerms) /\ IsInjective(Joined(f))
       /\ Range(Joined(f)) = UNION {Range(f[l]) : l \in DOMAIN f}
  BY <1>10 DEF JoinOf
<1>12. Range(Joined(f)) = TermsOf(k, r, t, row, Lanes \ Masked(row))
  <2>1. \A z : z \in Range(Joined(f)) <=> \E l \in DOMAIN f : z \in Range(f[l])
    BY <1>11
  <2>2. \A z : z \in Range(Joined(f)) <=> \E l \in ReduceLanes(k, row) : \E x \in Cover(k, row, l) : z = TermOf(k, r, t, row, x)
    BY <1>4, <1>6, <2>1
  <2>3. \A x : x \in Lanes \ Masked(row) <=> x \in Lanes /\ row[x] # -1
    BY DEF Masked
  <2>4. \A x : x \in Lanes \ Masked(row) <=> \E l \in ReduceLanes(k, row) : x \in Cover(k, row, l)
    BY <1>2, <2>3
  <2>5. \A z : z \in TermsOf(k, r, t, row, Lanes \ Masked(row)) <=> \E x \in Lanes \ Masked(row) : z = TermOf(k, r, t, row, x)
    BY <1>6
  <2>6. \A z : z \in Range(Joined(f)) <=> z \in TermsOf(k, r, t, row, Lanes \ Masked(row))
    BY <2>2, <2>4, <2>5
  <2> QED BY <2>6
<1> QED BY <1>11, <1>12 DEF Returned, SumOnce

-----------------------------------------------------------------------------
(* The sums: RInv is inductive. *)

\* Every move but a reduction leaves the tokens of a combine that are added up.
LEMMA SummedStays ==
  ASSUME IInv, SInv, setup' = setup, NEW d \in Ranks, Turn(d), NEW k \in Calls, Prog[k].kind = "combine",
         ~(\E t : Running(d) /\ ReduceToken(d, t) /\ k = CallOf(d))
  PROVE  Summed(d, k)' = Summed(d, k)
<1>0. /\ kernels[d] \in Nat /\ CallOf(d) \in Nat /\ k \in Nat /\ stage[d] \in {"idle", "enter", "work", "leave"}
      /\ (OnMain(d) => kernels[d] = 2 * CallOf(d) - 2)
      /\ (~OnMain(d) => kernels[d] = 2 * CallOf(d) - 1 /\ stage[d] \in {"idle", "work"})
  BY PlaceFacts
<1>1. Rows(k, d)' = Rows(k, d)
  BY BackFixed
<1>2. kernels[d] = 2 * k - 1 => ~OnMain(d) /\ k = CallOf(d) /\ Kind(d) = "combine" /\ stage[d] \in {"idle", "work"}
  BY <1>0 DEF Kind
<1>3. kernels[d] # 2 * k - 1 /\ kernels'[d] = kernels[d] => Summed(d, k)' = Summed(d, k)
  BY <1>1 DEF Summed
<1>4. kernels'[d] = kernels[d] /\ stage'[d] = stage[d] /\ done'[d] = done[d] => Summed(d, k)' = Summed(d, k)
  BY <1>1 DEF Summed
<1>5. CASE kernels'[d] = kernels[d] /\ (OnMain(d) \/ Kind(d) \in AnyDispatch \/ stage[d] \in {"enter", "leave"})
  BY <1>2, <1>3, <1>5 DEF AnyDispatch
<1>6. CASE kernels'[d] = kernels[d] /\ stage'[d] = "work" /\ stage[d] = "idle" /\ done'[d] = {}
  BY <1>1, <1>6 DEF Summed
<1>7. ASSUME NEW i, SendBack(d, i)
      PROVE  kernels'[d] = kernels[d] /\ OnMain(d)
  BY <1>7 DEF SendBack, MainRuns
<1>8. ASSUME NEW t, Running(d), ReduceToken(d, t)
      PROVE  kernels'[d] = kernels[d] /\ kernels[d] # 2 * k - 1
  BY <1>2, <1>8 DEF ReduceToken
<1>9. ASSUME Arrive(d)
      PROVE  kernels'[d] = kernels[d] /\ OnMain(d)
  BY <1>9 DEF Arrive, tokenVars
<1>10. CASE EndMain(d)
  <2>1. kernels'[d] = kernels[d] + 1 /\ stage'[d] = "idle" /\ stage[d] = "leave"
    BY <1>10 DEF EndMain, IInv, CountTypes
  <2>2. OnMain(d) /\ kernels[d] # 2 * k - 1
    BY <1>0, <1>2, <2>1
  <2>3. Summed(d, k)' = (IF kernels[d] + 1 >= 2 * k THEN DOMAIN Rows(k, d) ELSE {})
    BY <1>1, <2>1 DEF Summed
  <2>4. Summed(d, k) = (IF kernels[d] >= 2 * k THEN DOMAIN Rows(k, d) ELSE {})
    BY <2>2 DEF Summed
  <2>5. kernels[d] + 1 >= 2 * k <=> kernels[d] >= 2 * k
    BY <1>0, <2>2
  <2> QED BY <2>3, <2>4, <2>5
<1>11. CASE EndEpilogue(d)
  <2>1. kernels'[d] = kernels[d] + 1 /\ stage'[d] = "idle" /\ ~OnMain(d) /\ stage[d] = "work" /\ done[d] = Items(d)
    BY <1>11 DEF EndEpilogue, IInv, CountTypes
  <2>2. kernels[d] = 2 * CallOf(d) - 1
    BY <1>0, <2>1
  <2>3. CASE k = CallOf(d)
    <3>1. done[d] = DOMAIN Rows(k, d)
      BY <2>1, <2>3 DEF Items, Kind, AnyDispatch
    <3>2. Summed(d, k) = DOMAIN Rows(k, d)
      BY <1>0, <2>1, <2>2, <2>3, <3>1 DEF Summed
    <3>3. kernels'[d] >= 2 * k
      BY <1>0, <2>1, <2>2, <2>3
    <3> QED BY <1>1, <3>2, <3>3 DEF Summed
  <2>4. CASE k # CallOf(d)
    <3>1. kernels[d] # 2 * k - 1 /\ kernels'[d] # 2 * k - 1 /\ (kernels'[d] >= 2 * k <=> kernels[d] >= 2 * k)
      BY <1>0, <2>1, <2>2, <2>4
    <3> QED BY <1>1, <3>1 DEF Summed
  <2> QED BY <2>3, <2>4
<1> QED BY <1>2, <1>3, <1>4, <1>5, <1>6, <1>7, <1>8, <1>9, <1>10, <1>11 DEF Turn

\* What a reduction adds up.
LEMMA Reduction ==
  ASSUME IInv, SInv, CInv, EInv, BInv, NEW r \in Ranks, NEW t, Running(r), ReduceToken(r, t),
         NEW k, k = CallOf(r)
  PROVE  /\ k \in Calls /\ Prog[k].kind = "combine" /\ t \in DOMAIN Rows(k, r)
         /\ kernels[r] = 2 * k - 1 /\ stage[r] = "work" /\ kernels' = kernels /\ stage' = stage
         /\ done'[r] = done[r] \cup {t}
         /\ \E sum : /\ Returned(k, r, t, Lanes \ Masked(Rows(k, r)[t]), sum)
                     /\ handle' = [handle EXCEPT ![r][k].sums = Extend(@, t, sum)]
<1>0. setup \in Setups /\ DOMAIN done = Ranks
  BY PlaceFacts
<1>1. ~OnMain(r) /\ stage[r] = "work" /\ Prog[k].kind = "combine" /\ t \in Items(r)
  BY DEF ReduceToken, EpilogueRuns, Kind
<1>2. k \in Calls /\ kernels[r] = 2 * k - 1
  BY <1>1, PlaceFacts, RunningCall DEF IInv
<1>3. t \in DOMAIN Rows(k, r)
  BY <1>1 DEF Items, Kind, AnyDispatch
<1>4. PICK row : row = Rows(k, r)[t]
  OBVIOUS
<1>5. PICK f : f = [l \in ReduceLanes(k, row) |-> buffer[r][<<Region(row, l), t - 1>>].sum]
  OBVIOUS
<1>6. handle' = [handle EXCEPT ![r][k].sums = Extend(@, t, Joined(f))]
  BY <1>4, <1>5 DEF ReduceToken, ReduceLanes, PerLane, Region
<1>7. \A l \in ReduceLanes(k, row) : Returned(k, r, t, Cover(k, row, l), buffer[r][<<Region(row, l), t - 1>>].sum)
  BY <1>1, <1>2, <1>3, <1>4, AllReturned
<1>8. DOMAIN f = ReduceLanes(k, row) /\ \A l \in DOMAIN f : Returned(k, r, t, Cover(k, row, l), f[l])
  BY <1>5, <1>7
<1>9. Returned(k, r, t, Lanes \ Masked(row), Joined(f))
  BY <1>0, <1>2, <1>3, <1>4, <1>8, ReducedSum
<1>10. Returned(k, r, t, Lanes \ Masked(Rows(k, r)[t]), Joined(f))
  BY <1>4, <1>9
<1>11. kernels' = kernels /\ stage' = stage /\ done'[r] = done[r] \cup {t}
  BY <1>0 DEF ReduceToken
<1> QED BY <1>1, <1>2, <1>3, <1>6, <1>10, <1>11

LEMMA OtherSums ==
  ASSUME IInv, NEW q \in Ranks, NEW t, Running(q), ReduceToken(q, t),
         NEW r \in Ranks, NEW k \in Calls, q # r \/ k # CallOf(q)
  PROVE  handle'[r][k].sums = handle[r][k].sums
<1>1. PICK j : j = CallOf(q)
  OBVIOUS
<1>2. j \in Calls /\ ~(q = r /\ j = k)
  BY <1>1, RunningCall DEF IInv
<1>3. PICK f : handle' = [handle EXCEPT ![q][j].sums = Extend(@, t, Joined(f))]
  BY <1>1 DEF ReduceToken
<1>4. DOMAIN handle = Ranks /\ DOMAIN handle[q] = Calls
  BY PlaceFacts
<1> QED BY <1>2, <1>3, <1>4

LEMMA SumsFrame ==
  ASSUME setup' = setup, NEW r \in Ranks, NEW k \in Calls, SumsInv(r, k),
         handle'[r][k].sums = handle[r][k].sums, Summed(r, k)' = Summed(r, k)
  PROVE  SumsInv(r, k)'
<1>1. /\ Rows(k, r)' = Rows(k, r)
      /\ \A t, lanes, sum : Returned(k, r, t, lanes, sum)' <=> Returned(k, r, t, lanes, sum)
  BY BackFixed
<1>2. \A row : Masked(row)' = Masked(row)
  BY DEF Masked
<1>3. \A t, sum : Returned(k, r, t, Lanes \ Masked(Rows(k, r)[t]), sum) =>
                  Returned(k, r, t, Lanes \ Masked(Rows(k, r)[t]), sum)'
  BY <1>1, <1>2
<1> QED BY <1>1, <1>3 DEF SumsInv

LEMMA RInit == Init => RInv
<1> SUFFICES ASSUME Init, NEW r \in Ranks, NEW k \in Calls
             PROVE  SumsInv(r, k)
  BY DEF RInv
<1>1. handle[r][k].sums = <<>> /\ kernels[r] = 0
  BY DEF Init, NoHandle
<1>2. k \in Nat /\ k >= 1
  <2>1. Prog \in Seq(Call)
    BY SetupsAssumption DEF Init, Prog
  <2> QED BY <2>1 DEF Calls
<1>3. Summed(r, k) = {}
  BY <1>1, <1>2 DEF Summed
<1> QED BY <1>1, <1>3 DEF SumsInv

LEMMA RStep == IInv /\ SInv /\ CInv /\ EInv /\ BInv /\ RInv /\ [Next]_vars => RInv'
<1> SUFFICES ASSUME IInv, SInv, CInv, EInv, BInv, RInv, [Next]_vars
             PROVE  RInv'
  OBVIOUS
<1>0. setup' = setup
  BY KeptOrFilled
<1> SUFFICES ASSUME NEW r \in Ranks, NEW k \in Calls, Prog[k].kind = "combine"
             PROVE  SumsInv(r, k)'
  BY <1>0, BackFixed DEF RInv
<1>1. SumsInv(r, k)
  BY DEF RInv
<1>2. CASE \E t : Running(r) /\ ReduceToken(r, t) /\ k = CallOf(r)
  <2>1. PICK t : Running(r) /\ ReduceToken(r, t) /\ k = CallOf(r)
    BY <1>2
  <2>2. /\ t \in DOMAIN Rows(k, r)
        /\ kernels[r] = 2 * k - 1 /\ stage[r] = "work" /\ kernels' = kernels /\ stage' = stage
        /\ done'[r] = done[r] \cup {t}
    BY <2>1, Reduction
  <2>3. PICK sum : /\ Returned(k, r, t, Lanes \ Masked(Rows(k, r)[t]), sum)
                   /\ handle' = [handle EXCEPT ![r][k].sums = Extend(@, t, sum)]
    BY <2>1, Reduction
  <2>4. k \in Nat
    BY PlaceFacts
  <2>5. PICK old : old = handle[r][k].sums
    OBVIOUS
  <2>6. handle'[r][k].sums = Extend(old, t, sum)
    <3>1. DOMAIN handle = Ranks /\ DOMAIN handle[r] = Calls /\ DOMAIN handle[r][k] = HandleFields
      BY PlaceFacts
    <3>2. "sums" \in HandleFields
      BY DEF HandleFields
    <3> QED BY <2>3, <2>5, <3>1, <3>2
  <2>7. /\ DOMAIN Extend(old, t, sum) = DOMAIN old \cup {t}
        /\ Extend(old, t, sum)[t] = sum
        /\ \A y \in DOMAIN old : y # t => Extend(old, t, sum)[y] = old[y]
    BY DEF Extend
  <2>8. ~(kernels[r] >= 2 * k)
    BY <2>2, <2>4
  <2>9. Summed(r, k) = done[r]
    BY <2>2, <2>8 DEF Summed
  <2>10. Summed(r, k)' = done[r] \cup {t}
    BY <2>2, <2>8 DEF Summed
  <2>11. /\ DOMAIN old = done[r] /\ done[r] \subseteq DOMAIN Rows(k, r)
         /\ \A y \in DOMAIN old : Returned(k, r, y, Lanes \ Masked(Rows(k, r)[y]), old[y])
    BY <1>1, <2>5, <2>9 DEF SumsInv
  <2>12. /\ Rows(k, r)' = Rows(k, r)
         /\ \A y, lanes, s : Returned(k, r, y, lanes, s)' <=> Returned(k, r, y, lanes, s)
    BY <1>0, BackFixed
  <2>13. PICK new : new = Extend(old, t, sum)
    OBVIOUS
  <2>14. \A y \in DOMAIN new : Returned(k, r, y, Lanes \ Masked(Rows(k, r)[y]), new[y])
    BY <2>3, <2>7, <2>11, <2>13
  <2>15. \A y, s : Returned(k, r, y, Lanes \ Masked(Rows(k, r)[y]), s) =>
                   Returned(k, r, y, Lanes \ Masked(Rows(k, r)[y]), s)'
    BY <2>12 DEF Masked
  <2>16. handle'[r][k].sums = new /\ DOMAIN new = Summed(r, k)' /\ DOMAIN new \subseteq DOMAIN Rows(k, r)'
    BY <2>2, <2>6, <2>7, <2>10, <2>11, <2>12, <2>13
  <2> QED BY <2>14, <2>15, <2>16 DEF SumsInv
<1>3. CASE ~(\E t : Running(r) /\ ReduceToken(r, t) /\ k = CallOf(r))
  <2>1. Turn(r)
    BY StepMoves
  <2>2. Summed(r, k)' = Summed(r, k)
    BY <1>0, <1>3, <2>1, SummedStays
  <2>3. handle'[r][k].sums = handle[r][k].sums
    <3>1. ASSUME NEW q \in Ranks, NEW t, Running(q), ReduceToken(q, t)
          PROVE  handle'[r][k].sums = handle[r][k].sums
      <4>1. q # r \/ k # CallOf(q)
        BY <1>3, <3>1
      <4> QED BY <3>1, <4>1, OtherSums
    <3> QED BY <3>1, KeptOrFilled DEF SumsKept
  <2> QED BY <1>0, <1>1, <2>2, <2>3, SumsFrame
<1> QED BY <1>2, <1>3

-----------------------------------------------------------------------------
(* CombineExact. *)

ExpertTermsOf(k, r, t, experts) == {<<k, RankOf(e), r, t, e>> : e \in experts}

\* A sum that holds each of a row's terms once is as long as the row has experts.
LEMMA ExpertTerms ==
  ASSUME NEW row \in Row, \A x, y \in Lanes : row[x] = row[y] /\ row[x] # -1 => x = y,
         NEW k, NEW r, NEW t, NEW sum, SumOnce(sum, TermsOf(k, r, t, row, Lanes \ Masked(row))),
         NEW experts, experts = {row[l] : l \in DOMAIN row} \ {-1}
  PROVE  Range(sum) = ExpertTermsOf(k, r, t, experts) /\ Len(sum) = Cardinality(experts)
<1>1. sum \in Seq(AllTerms) /\ Range(sum) = TermsOf(k, r, t, row, Lanes \ Masked(row)) /\ IsInjective(sum)
  BY DEF SumOnce
<1>2. DOMAIN row = Lanes
  BY RowLanes
<1>3. \A l : l \in Lanes \ Masked(row) <=> l \in Lanes /\ row[l] # -1
  BY DEF Masked
<1>4. \A e : e \in experts <=> \E l \in Lanes \ Masked(row) : e = row[l]
  BY <1>2, <1>3
<1>5. \A z : z \in Range(sum) <=> \E l \in Lanes \ Masked(row) : z = <<k, RankOf(row[l]), r, t, row[l]>>
  BY <1>1 DEF TermsOf, TermOf
<1>6. \A z : z \in Range(sum) <=> \E e \in experts : z = <<k, RankOf(e), r, t, e>>
  BY <1>4, <1>5
<1>7. Range(sum) = {sum[j] : j \in DOMAIN sum}
  BY DEF Range
<1>8. Range(sum) = ExpertTermsOf(k, r, t, experts)
  BY <1>6 DEF ExpertTermsOf
<1>9. Len(sum) \in Nat /\ DOMAIN sum = 1 .. Len(sum)
  BY <1>1
<1>10. PICK g : g = [j \in 1 .. Len(sum) |-> sum[j][5]]
  OBVIOUS
<1>11. \A j \in 1 .. Len(sum) : g[j] \in experts /\ sum[j] = <<k, RankOf(g[j]), r, t, g[j]>>
  <2> SUFFICES ASSUME NEW j \in 1 .. Len(sum)
               PROVE  g[j] \in experts /\ sum[j] = <<k, RankOf(g[j]), r, t, g[j]>>
    OBVIOUS
  <2>1. sum[j] \in Range(sum)
    BY <1>9 DEF Range
  <2>2. PICK e \in experts : sum[j] = <<k, RankOf(e), r, t, e>>
    BY <1>6, <2>1
  <2>3. g[j] = e
    BY <1>10, <2>2
  <2> QED BY <2>2, <2>3
<1>12. \A i, j \in 1 .. Len(sum) : g[i] = g[j] => i = j
  BY <1>1, <1>9, <1>11 DEF IsInjective
<1>13. \A e \in experts : \E j \in 1 .. Len(sum) : g[j] = e
  <2> SUFFICES ASSUME NEW e \in experts
               PROVE  \E j \in 1 .. Len(sum) : g[j] = e
    OBVIOUS
  <2>1. PICK j \in 1 .. Len(sum) : sum[j] = <<k, RankOf(e), r, t, e>>
    BY <1>6, <1>7, <1>9
  <2> QED BY <1>10, <2>1
<1>14. DOMAIN g = 1 .. Len(sum) /\ g \in [1 .. Len(sum) -> experts]
  BY <1>10, <1>11
<1>15. g \in Bijection(1 .. Len(sum), experts)
  BY <1>12, <1>13, <1>14 DEF Bijection, Injection, Surjection, IsInjective
<1>16. ExistsBijection(1 .. Len(sum), experts)
  BY <1>15 DEF ExistsBijection
<1>17. IsFiniteSet(1 .. Len(sum)) /\ Cardinality(1 .. Len(sum)) = Len(sum)
  <2>1. 1 \in Int /\ Len(sum) \in Int
    BY <1>9
  <2>2. IsFiniteSet(1 .. Len(sum)) /\ Cardinality(1 .. Len(sum)) = IF 1 > Len(sum) THEN 0 ELSE Len(sum) - 1 + 1
    BY <2>1, FS_Interval
  <2> QED BY <1>9, <2>2
<1>18. Cardinality(experts) = Cardinality(1 .. Len(sum))
  BY <1>16, <1>17, FS_Bijection
<1> QED BY <1>8, <1>17, <1>18

LEMMA CombineFromInv == IInv /\ RInv => CombineExact
<1> SUFFICES ASSUME IInv, RInv, NEW r \in Ranks, NEW k \in Calls, Ended(r, k), Prog[k].kind = "combine",
                    NEW t \in DOMAIN Rows(k, r)
             PROVE  LET row == Rows(k, r)[t]
                        experts == {row[l] : l \in DOMAIN row} \ {-1}
                        sum == handle[r][k].sums[t]
                    IN  /\ {sum[j] : j \in DOMAIN sum} = {<<k, RankOf(e), r, t, e>> : e \in experts}
                        /\ Len(sum) = Cardinality(experts)
  BY DEF CombineExact
<1>0. PICK row, sum : row = Rows(k, r)[t] /\ sum = handle[r][k].sums[t]
  OBVIOUS
<1> DEFINE experts == {row[l] : l \in DOMAIN row} \ {-1}
<1>1. setup \in Setups
  BY PlaceFacts
<1>2. SumsInv(r, k)
  BY DEF RInv
<1>3. Summed(r, k) = DOMAIN Rows(k, r)
  BY DEF Summed, Ended
<1>4. Returned(k, r, t, Lanes \ Masked(Rows(k, r)[t]), sum)
  BY <1>0, <1>2, <1>3 DEF SumsInv
<1>5. SumOnce(sum, TermsOf(k, r, t, row, Lanes \ Masked(row)))
  BY <1>0, <1>4 DEF Returned
<1>6. row \in Row
  BY <1>0, <1>1, RowFacts
<1>7. \A x, y \in Lanes : row[x] = row[y] /\ row[x] # -1 => x = y
  BY <1>0, <1>1, RowDistinct
<1>8. Range(sum) = ExpertTermsOf(k, r, t, experts) /\ Len(sum) = Cardinality(experts)
  BY <1>5, <1>6, <1>7, ExpertTerms
<1>9. {sum[j] : j \in DOMAIN sum} = {<<k, RankOf(e), r, t, e>> : e \in experts}
  BY <1>8 DEF Range, ExpertTermsOf
<1> QED BY <1>0, <1>8, <1>9

\* The metadata that the copy epilogue leaves in a handle names each received token's master
\* lane and, expanded, the places of its copies; what a rank sends back in a combine holds one
\* term for each expert of the token there, in a place of the source's buffer that nothing
\* else is written to before the source has added it up; and what is added up holds one term
\* for each expert of the token.
THEOREM SumsInPlace == Spec => [](LInv /\ BInv /\ RInv)
<1>1. Init => LInv /\ BInv /\ RInv
  BY LInit, BInit, RInit
<1>2. IInv /\ SInv /\ TInv /\ CInv /\ EInv /\ LInv /\ [Next]_vars => LInv'
  BY LStep
<1>3. IInv /\ SInv /\ TInv /\ CInv /\ EInv /\ LInv /\ BInv /\ [Next]_vars => BInv'
  BY BStep
<1>4. IInv /\ SInv /\ CInv /\ EInv /\ BInv /\ RInv /\ [Next]_vars => RInv'
  BY RStep
<1> QED BY Invariance, CountsInOnePlace, TokensInPlace, NumbersInPlace, TensorsInPlace, <1>1, <1>2, <1>3, <1>4, PTL DEF Spec

\* Any number of ranks, experts, tokens and top-k choices without repetition, any program,
\* setup and interleaving: a combine that has ended returns for every token the sum over its
\* experts, each once, made of this call's values, by whichever rank or lane it came back.
THEOREM CombineReturns == Spec => []CombineExact
BY Invariance, SumsInPlace, CombineFromInv, PTL

-----------------------------------------------------------------------------
(***************************************************************************)
(* TypeOK.  Most of it follows from the invariants; what they do not keep  *)
(* is the shape of the words that only some steps read (Shapes).           *)
(***************************************************************************)

HostWordSet == [rank : [Ranks -> Int], expert : [LocalExperts -> Int]]
TakenSet    == [n : Int, e : [LocalExperts -> Nat]]
PerRank(f)  == f = [r \in Ranks |-> f[r]]

Shapes ==
  /\ PerRank(counted) /\ PerRank(reduction) /\ PerRank(sender)
  /\ hostWords \in [Ranks -> HostWordSet]
  /\ taken \in [Ranks -> [Ranks -> TakenSet]]
  /\ stats \in [Ranks -> [LocalExperts -> Nat]]
  /\ buffer \in [Ranks -> [Places -> TokenSet]]

LEMMA RanksFinite == IsFiniteSet(Ranks)
<1>1. 0 \in Int /\ NumRanks - 1 \in Int
  BY SizesAssumption
<1> QED BY <1>1, FS_Interval DEF Ranks

\* What is on its way is a token for a place of the buffer.
LEMMA StoredTokens ==
  ASSUME IInv, SInv, TInv, BInv, NEW m \in stores
  PROVE  m.to \in Ranks /\ m.from \in Ranks /\ m.at \in Places /\ m.token \in TokenSet
<1>0. setup \in Setups /\ 0 \in Ranks
  BY SizesAssumption DEF IInv, CountTypes, Ranks
<1>1. PICK k \in Calls : k = m.token.call /\ m.to \in Ranks /\ m.from \in Ranks
  BY StoreFacts
<1>2. k \in Nat /\ Prog[k] \in Call
  <2>1. Prog \in Seq(Call)
    BY <1>0, SetupsAssumption DEF Prog
  <2> QED BY <2>1 DEF Calls
<1>3. CASE Prog[k].kind \in AnyDispatch
  <2>1. PICK p \in PairsOf(k, m.from) : Sent(m.from, k, p) /\ m = Post(m.from, k, p)
    BY <1>1, <1>3 DEF TInv, Posted
  <2>2. PICK s \in Ranks : s = m.from
    BY <1>1
  <2>3. PICK slot : slot = Slot(s, k, p)
    OBVIOUS
  <2>4. slot \in 0 .. Count(k, s, p[2]) - 1
    BY <1>3, <2>1, <2>2, <2>3, SentSlot
  <2>5. Count(k, s, p[2]) \in Nat /\ Count(k, s, p[2]) <= NumMaxTokensPerRank /\ p[1] \in Nat
        /\ p[1] \in DOMAIN Rows(k, s)
    <3>1. p[1] \in FromTo(k, s, p[2])
      BY <1>0, <2>1, <2>2, PairsFacts
    <3>2. Count(k, s, p[2]) \in Nat /\ Count(k, s, p[2]) <= NumMaxTokensPerRank /\ FromTo(k, s, p[2]) \subseteq Nat
      BY <1>0, CountFacts
    <3> QED BY <3>1, <3>2 DEF FromTo
  <2>6. slot \in 0 .. NumMaxTokensPerRank - 1
    BY <2>4, <2>5, SizesAssumption
  <2>7. m.at = <<s, slot>> /\ m.token = Token(k, s, p[1], Rows(k, s)[p[1]])
    BY <2>1, <2>2, <2>3 DEF Post
  <2>8. m.at \in Places
    BY <2>6, <2>7, RanksHaveRegions DEF Places
  <2>9. PICK row \in Row : row = Rows(k, s)[p[1]]
    BY <1>0, <2>5, RowFacts
  <2>10. row \in Seq(Experts \cup {-1})
    BY <2>9, SizesAssumption DEF Row, Lanes
  <2>11. Token(k, s, p[1], row) \in TokenSet
    <3>1. << >> \in Seq(Nat \X Ranks \X Ranks \X Nat \X Experts)
      OBVIOUS
    <3> QED BY <1>2, <2>5, <2>10, <3>1 DEF Token, TokenSet
  <2> QED BY <1>1, <2>7, <2>8, <2>9, <2>11
<1>4. CASE Prog[k].kind = "combine"
  <2>1. PICK s \in Ranks : s = m.to
    BY <1>1
  <2>2. PICK t \in DOMAIN Rows(k, s) : \E l \in ReduceLanes(k, Rows(k, s)[t]) : BackPost(m, k, s, t, l)
    BY <1>1, <1>4, <2>1 DEF BInv, BackPosted
  <2>3. PICK l \in ReduceLanes(k, Rows(k, s)[t]) : BackPost(m, k, s, t, l)
    BY <2>2
  <2>4. m.at \in Places
    BY <1>0, <2>3, PlaceApart DEF BackPost
  <2>5. PICK sum \in Seq(AllTerms) : m.token = Partial(k, sum)
    BY <2>3 DEF BackPost, Returned, SumOnce
  <2>6. Partial(k, sum) \in TokenSet
    <3>1. << >> \in Seq(Experts \cup {-1})
      OBVIOUS
    <3> QED BY <1>0, <1>2, <3>1 DEF Partial, TokenSet, AllTerms
  <2> QED BY <1>1, <2>4, <2>5, <2>6
<1> QED BY <1>2, <1>3, <1>4 DEF Call, AnyDispatch

LEMMA ShapesInit == Init => Shapes
<1> SUFFICES ASSUME Init
             PROVE  Shapes
  OBVIOUS
<1>1. 0 \in Ranks /\ 0 \in Nat
  BY SizesAssumption DEF Ranks
<1>2. PerRank(counted) /\ PerRank(reduction) /\ PerRank(sender)
  BY DEF Init, PerRank
<1>3. ZeroHost \in HostWordSet /\ NotTaken \in TakenSet
  BY DEF ZeroHost, HostWordSet, NotTaken, TakenSet
<1>4. NoToken \in TokenSet
  <2>1. << >> \in Seq(Experts \cup {-1}) /\ << >> \in Seq(Nat \X Ranks \X Ranks \X Nat \X Experts)
    OBVIOUS
  <2> QED BY <1>1, <2>1 DEF NoToken, Partial, TokenSet
<1>5. hostWords \in [Ranks -> HostWordSet]
  BY <1>3 DEF Init
<1>6. taken \in [Ranks -> [Ranks -> TakenSet]]
  BY <1>3 DEF Init
<1>7. stats \in [Ranks -> [LocalExperts -> Nat]]
  BY DEF Init
<1>8. buffer \in [Ranks -> [Places -> TokenSet]]
  BY <1>4 DEF Init
<1> QED BY <1>2, <1>5, <1>6, <1>7, <1>8 DEF Shapes

\* A step of a rank's own words.
LEMMA PerRankStep ==
  ASSUME NEW f, NEW g, PerRank(f), NEW r \in Ranks, NEW v, g = f \/ g = [f EXCEPT ![r] = v]
  PROVE  PerRank(g)
<1>1. DOMAIN f = Ranks
  BY Zenon DEF PerRank
<1>2. ASSUME g = [f EXCEPT ![r] = v]
      PROVE  PerRank(g)
  <2>1. g = [q \in Ranks |-> IF q = r THEN v ELSE f[q]]
    BY <1>1, <1>2
  <2>2. \A q \in Ranks : g[q] = IF q = r THEN v ELSE f[q]
    BY <2>1
  <2> QED BY <2>1, <2>2 DEF PerRank
<1> QED BY <1>2

LEMMA NotifyFinishShapes ==
  ASSUME Shapes, NEW r \in Ranks, NotifyFinish(r)
  PROVE  Shapes'
<1> DEFINE k == CallOf(r)
           total == [e \in LocalExperts |-> Sum([s \in Ranks |-> taken[r][s].e[e]], Ranks)]
           aligned == [e \in LocalExperts |-> Align(total[e])]
           num == [s \in Ranks |-> taken[r][s].n]
<1>1. /\ UNCHANGED <<counted, taken, reduction, sender, buffer>>
      /\ stats' = [stats EXCEPT ![r] = [e \in LocalExperts |-> @[e] + total[e]]]
      /\ hostWords' = IF Prog[k].sync
                      THEN [hostWords EXCEPT ![r] =
                              [rank |-> [s \in Ranks |-> Encode(num[s])],
                               expert |-> [e \in LocalExperts |-> Encode(aligned[e])]]]
                      ELSE hostWords
  BY DEF NotifyFinish, tokenVars
<1>2. \A s \in Ranks : taken[r][s] \in TakenSet
  BY DEF Shapes
<1>3. \A e \in LocalExperts : total[e] \in Nat
  <2> SUFFICES ASSUME NEW e \in LocalExperts
               PROVE  Sum([s \in Ranks |-> taken[r][s].e[e]], Ranks) \in Nat
    OBVIOUS
  <2>1. PICK f : f = [s \in Ranks |-> taken[r][s].e[e]]
    OBVIOUS
  <2>2. \A s \in Ranks : f[s] \in Nat
    BY <1>2, <2>1 DEF TakenSet
  <2>3. Sum(f, Ranks) \in Nat
    BY <2>2, RanksFinite, SumNat
  <2> QED BY <2>1, <2>3
<1>4. \A e \in LocalExperts : aligned[e] \in Nat
  <2> HIDE DEF total
  <2> QED BY <1>3, AlignNat
<1>5. \A s \in Ranks : num[s] \in Int
  BY <1>2 DEF TakenSet
<1> HIDE DEF total, aligned, num
<1>6. stats' \in [Ranks -> [LocalExperts -> Nat]]
  <2>1. PICK row : row = [e \in LocalExperts |-> stats[r][e] + total[e]]
    OBVIOUS
  <2>2. stats[r] \in [LocalExperts -> Nat]
    BY DEF Shapes
  <2>3. row \in [LocalExperts -> Nat]
    BY <1>3, <2>1, <2>2
  <2>4. stats' = [stats EXCEPT ![r] = row]
    BY <1>1, <2>1
  <2> QED BY <2>3, <2>4 DEF Shapes
<1>7. hostWords' \in [Ranks -> HostWordSet]
  <2>1. PICK w : w = [rank |-> [s \in Ranks |-> Encode(num[s])],
                      expert |-> [e \in LocalExperts |-> Encode(aligned[e])]]
    OBVIOUS
  <2>2. /\ \A s \in Ranks : Encode(num[s]) \in Int
        /\ \A e \in LocalExperts : Encode(aligned[e]) \in Int
    BY <1>4, <1>5 DEF Encode
  <2>3. w \in HostWordSet
    BY <2>1, <2>2 DEF HostWordSet
  <2>4. hostWords' = hostWords \/ hostWords' = [hostWords EXCEPT ![r] = w]
    BY <1>1, <2>1
  <2> QED BY <2>3, <2>4 DEF Shapes
<1> QED BY <1>1, <1>6, <1>7 DEF Shapes

\* What a step does to the words whose shapes are kept.
WordsChange ==
  \E r \in Ranks :
    /\ \E v : counted' = counted \/ counted' = [counted EXCEPT ![r] = v]
    /\ \E v : reduction' = reduction \/ reduction' = [reduction EXCEPT ![r] = v]
    /\ \E v : sender' = sender \/ sender' = [sender EXCEPT ![r] = v]
    /\ hostWords' = hostWords \/ hostWords' = [hostWords EXCEPT ![r] = ZeroHost]
    /\ \/ taken' = taken
       \/ taken' = [taken EXCEPT ![r] = [s \in Ranks |-> NotTaken]]
       \/ \E s \in Ranks : \E w \in TakenSet : taken' = [taken EXCEPT ![r][s] = w]
    /\ stats' = stats
    /\ buffer' = buffer \/ \E m \in stores : buffer' = [buffer EXCEPT ![m.to][m.at] = m.token]

LEMMA NotifyTakeChange ==
  ASSUME WordsInv, NEW r \in Ranks, NEW s \in Ranks, NotifyTake(r, s)
  PROVE  WordsChange
<1>1. PICK w : w = [n |-> Encode(inbox[r].rank[s]),
                    e |-> [e \in LocalExperts |-> Encode(inbox[r].expert[s][e])]]
  OBVIOUS
<1>2. UNCHANGED <<counted, reduction, sender, hostWords, stats, buffer>> /\ taken' = [taken EXCEPT ![r][s] = w]
  BY <1>1 DEF NotifyTake, hostVars, tokenVars
<1>3. /\ inbox[r].rank[s] \in Int
      /\ \A e \in LocalExperts : inbox[r].expert[s][e] \in Int /\ IsReady(inbox[r].expert[s][e])
  BY DEF WordsInv, WordTypes, NotifyTake
<1>4. w \in TakenSet
  <2>1. /\ Encode(inbox[r].rank[s]) \in Int
        /\ \A e \in LocalExperts : Encode(inbox[r].expert[s][e]) \in Nat
    BY <1>3 DEF Encode, IsReady
  <2> QED BY <1>1, <2>1 DEF TakenSet
<1> QED BY <1>2, <1>4 DEF WordsChange

LEMMA StepWords ==
  ASSUME WordsInv, [Next]_vars
  PROVE  WordsChange \/ \E r \in Ranks : NotifyFinish(r)
<1>0. 0 \in Ranks
  BY SizesAssumption DEF Ranks
<1>1. UNCHANGED <<counted, reduction, sender, hostWords, taken, stats, buffer>> => WordsChange
  BY <1>0 DEF WordsChange
<1>2. ASSUME NEW r \in Ranks, HostCall(r)
      PROVE  WordsChange
  <2>1. UNCHANGED <<counted, reduction, sender, taken, stats, buffer>>
        /\ (hostWords' = hostWords \/ hostWords' = [hostWords EXCEPT ![r] = ZeroHost])
    BY <1>2 DEF HostCall, notifyVars, tokenVars
  <2> QED BY <2>1 DEF WordsChange
<1>3. ASSUME NEW r \in Ranks, HostPoll(r)
      PROVE  WordsChange
  BY <1>1, <1>3 DEF HostPoll, notifyVars, tokenVars
<1>4. ASSUME NEW r \in Ranks, NEW sm, NotifyCount(r, sm)
      PROVE  WordsChange
  <2>1. PICK v : reduction' = [reduction EXCEPT ![r] = v]
    BY <1>4 DEF NotifyCount
  <2>2. PICK c : counted' = [counted EXCEPT ![r] = c]
    BY <1>4 DEF NotifyCount
  <2>3. UNCHANGED <<sender, hostWords, taken, stats, buffer>>
    BY <1>4 DEF NotifyCount, hostVars, tokenVars
  <2> QED BY <2>1, <2>2, <2>3 DEF WordsChange
<1>5. ASSUME NEW r \in Ranks, NotifySend(r)
      PROVE  WordsChange
  <2>1. UNCHANGED <<counted, sender, hostWords, taken, stats, buffer>>
        /\ reduction' = [reduction EXCEPT ![r] = ZeroReduction]
    BY <1>5 DEF NotifySend, hostVars, tokenVars
  <2> QED BY <2>1 DEF WordsChange
<1>6. ASSUME NEW r \in Ranks, StartMain(r)
      PROVE  WordsChange
  <2>1. /\ UNCHANGED <<reduction, sender, hostWords, stats, buffer>>
        /\ counted' = [counted EXCEPT ![r] = {}]
        /\ taken' = [taken EXCEPT ![r] = [s \in Ranks |-> NotTaken]]
    BY <1>6 DEF StartMain, hostVars
  <2> QED BY <2>1 DEF WordsChange
<1>7. ASSUME NEW r \in Ranks, NEW t, NEW d, SendToken(r, t, d)
      PROVE  WordsChange
  <2>1. UNCHANGED <<counted, reduction, hostWords, taken, stats, buffer>>
    BY <1>7 DEF SendToken, hostVars, notifyVars
  <2>2. sender' = sender \/ sender' = [sender EXCEPT ![r][d] = @ + 1]
    BY <1>7 DEF SendToken
  <2>3. \E v : sender' = sender \/ sender' = [sender EXCEPT ![r] = v]
    BY <2>2
  <2> QED BY <2>1, <2>3 DEF WordsChange
<1>8. ASSUME NEW r \in Ranks, NEW i, SendBack(r, i)
      PROVE  WordsChange
  BY <1>1, <1>8 DEF SendBack, hostVars, notifyVars
<1>9. ASSUME NEW r \in Ranks, PassEntry(r) \/ Arrive(r)
      PROVE  WordsChange
  BY <1>1, <1>9 DEF PassEntry, Arrive, hostVars, notifyVars, tokenVars
<1>10. ASSUME NEW r \in Ranks, EndMain(r)
       PROVE  WordsChange
  <2>1. UNCHANGED <<counted, reduction, hostWords, taken, stats, buffer>>
        /\ (sender' = sender \/ sender' = [sender EXCEPT ![r] = [d \in Ranks |-> 0]])
    BY <1>10 DEF EndMain, hostVars, notifyVars
  <2>2. \E v : sender' = sender \/ sender' = [sender EXCEPT ![r] = v]
    BY <2>1
  <2> QED BY <2>1, <2>2 DEF WordsChange
<1>11. ASSUME NEW r \in Ranks, Epilogue(r)
       PROVE  WordsChange
  BY <1>1, <1>11 DEF Epilogue, StartEpilogue, CopyToken, ReduceToken, EndEpilogue, hostVars, notifyVars, tokenVars
<1>12. ASSUME NEW m \in stores, LandStore(m)
       PROVE  WordsChange
  <2>1. UNCHANGED <<counted, reduction, sender, hostWords, taken, stats>>
        /\ buffer' = [buffer EXCEPT ![m.to][m.at] = m.token]
    BY <1>12 DEF LandStore, hostVars, notifyVars
  <2> QED BY <1>0, <2>1 DEF WordsChange
<1>13. ASSUME NEW m, LandCounts(m)
       PROVE  WordsChange
  BY <1>1, <1>13 DEF LandCounts, hostVars, tokenVars
<1>14. UNCHANGED vars => WordsChange
  BY <1>1 DEF vars
<1>15. ASSUME NEW r \in Ranks, Notify(r)
       PROVE  WordsChange \/ NotifyFinish(r)
  BY <1>4, <1>5, <1>15, NotifyTakeChange DEF Notify
<1>16. ASSUME NEW r \in Ranks, Main(r)
       PROVE  WordsChange
  BY <1>6, <1>7, <1>8, <1>9, <1>10, <1>16 DEF Main
<1> QED BY <1>2, <1>3, <1>11, <1>12, <1>13, <1>14, <1>15, <1>16 DEF Next, Host

LEMMA ShapesStep == IInv /\ WordsInv /\ SInv /\ TInv /\ BInv /\ Shapes /\ [Next]_vars => Shapes'
<1> SUFFICES ASSUME IInv, WordsInv, SInv, TInv, BInv, Shapes, [Next]_vars
             PROVE  Shapes'
  OBVIOUS
<1>1. CASE \E r \in Ranks : NotifyFinish(r)
  BY <1>1, NotifyFinishShapes
<1>2. CASE WordsChange
  <2>1. PICK r \in Ranks :
          /\ \E v : counted' = counted \/ counted' = [counted EXCEPT ![r] = v]
          /\ \E v : reduction' = reduction \/ reduction' = [reduction EXCEPT ![r] = v]
          /\ \E v : sender' = sender \/ sender' = [sender EXCEPT ![r] = v]
          /\ hostWords' = hostWords \/ hostWords' = [hostWords EXCEPT ![r] = ZeroHost]
          /\ \/ taken' = taken
             \/ taken' = [taken EXCEPT ![r] = [s \in Ranks |-> NotTaken]]
             \/ \E s \in Ranks : \E w \in TakenSet : taken' = [taken EXCEPT ![r][s] = w]
          /\ stats' = stats
          /\ buffer' = buffer \/ \E m \in stores : buffer' = [buffer EXCEPT ![m.to][m.at] = m.token]
    BY <1>2 DEF WordsChange
  <2>2. PerRank(counted')
    <3>1. PICK v : counted' = counted \/ counted' = [counted EXCEPT ![r] = v]
      BY <2>1
    <3> QED BY <3>1, PerRankStep DEF Shapes
  <2>3. PerRank(reduction')
    <3>1. PICK v : reduction' = reduction \/ reduction' = [reduction EXCEPT ![r] = v]
      BY <2>1
    <3> QED BY <3>1, PerRankStep DEF Shapes
  <2>4. PerRank(sender')
    <3>1. PICK v : sender' = sender \/ sender' = [sender EXCEPT ![r] = v]
      BY <2>1
    <3> QED BY <3>1, PerRankStep DEF Shapes
  <2>5. hostWords' \in [Ranks -> HostWordSet]
    <3>1. ZeroHost \in HostWordSet
      BY DEF ZeroHost, HostWordSet
    <3> QED BY <2>1, <3>1 DEF Shapes
  <2>6. taken' \in [Ranks -> [Ranks -> TakenSet]]
    <3>1. NotTaken \in TakenSet
      BY DEF NotTaken, TakenSet
    <3>2. taken \in [Ranks -> [Ranks -> TakenSet]]
      BY DEF Shapes
    <3>3. CASE taken' = [taken EXCEPT ![r] = [s \in Ranks |-> NotTaken]]
      BY <3>1, <3>2, <3>3
    <3>4. ASSUME NEW s \in Ranks, NEW w \in TakenSet, taken' = [taken EXCEPT ![r][s] = w]
          PROVE  taken' \in [Ranks -> [Ranks -> TakenSet]]
      BY <3>2, <3>4
    <3> QED BY <2>1, <3>2, <3>3, <3>4
  <2>7. buffer' \in [Ranks -> [Places -> TokenSet]]
    <3>1. buffer \in [Ranks -> [Places -> TokenSet]]
      BY DEF Shapes
    <3>2. ASSUME NEW m \in stores, buffer' = [buffer EXCEPT ![m.to][m.at] = m.token]
          PROVE  buffer' \in [Ranks -> [Places -> TokenSet]]
      <4>1. m.to \in Ranks /\ m.at \in Places /\ m.token \in TokenSet
        BY StoredTokens
      <4>2. PICK to, at, x : to = m.to /\ at = m.at /\ x = m.token
        OBVIOUS
      <4>3. to \in Ranks /\ at \in Places /\ x \in TokenSet /\ buffer' = [buffer EXCEPT ![to][at] = x]
        BY <3>2, <4>1, <4>2
      <4> QED BY <3>1, <4>3
    <3> QED BY <2>1, <3>1, <3>2
  <2>8. PerRank(counted)' /\ PerRank(reduction)' /\ PerRank(sender)'
    BY <2>2, <2>3, <2>4 DEF PerRank
  <2> QED BY <2>1, <2>5, <2>6, <2>7, <2>8 DEF Shapes
<1> QED BY <1>1, <1>2, StepWords

\* A rank at work is in a call of the program.
LEMMA AtWork ==
  ASSUME IInv, NEW r \in Ranks, stage[r] # "idle"
  PROVE  CallOf(r) \in Calls
<1>1. kernels[r] < Enqueued(r) /\ call[r] <= Len(Prog) /\ kernels[r] \in Nat /\ call[r] \in Nat
  BY DEF IInv, Ahead, CountTypes
<1>2. Prog \in Seq(Call)
  BY SetupsAssumption DEF IInv, CountTypes, Prog
<1>3. Len(Prog) \in Nat
  BY <1>2
<1>4. Running(r)
  BY <1>1, <1>3 DEF Running, Enqueued
<1> QED BY <1>4, RunningCall DEF IInv

LEMMA SMsFinite == IsFiniteSet(SMs) /\ Cardinality(SMs) = NumSMs
<1>1. 0 \in Int /\ NumSMs - 1 \in Int /\ NumSMs \in Nat /\ NumSMs >= 1
  BY SizesAssumption
<1>2. IsFiniteSet(SMs) /\ Cardinality(SMs) = IF 0 > NumSMs - 1 THEN 0 ELSE NumSMs - 1 - 0 + 1
  BY <1>1, FS_Interval DEF SMs
<1> QED BY <1>1, <1>2

ReductionSet == [sms : 0 .. NumSMs, rank : [Ranks -> Nat], expert : [Experts -> Nat]]

LEMMA ReductionTyped ==
  ASSUME IInv, WordsInv, NEW r \in Ranks
  PROVE  reduction[r] \in ReductionSet
<1>0. NumSMs \in Nat
  BY SizesAssumption
<1>1. CASE notify[r] = "count"
  <2>1. stage[r] \in {"enter", "work"} /\ OnMain(r) /\ setup \in Setups
    BY <1>1 DEF WordsInv, NotifyPlace, IInv, CountTypes
  <2>2. PICK k \in Calls : k = CallOf(r)
    BY <2>1, AtWork
  <2>3. PICK S \in SUBSET SMs : reduction[r] = Reduced(k, r, S)
    BY <1>1, <2>2 DEF WordsInv, Counting
  <2>4. Cardinality(S) \in Nat /\ Cardinality(S) <= NumSMs
    BY SMsFinite, FS_Subset, FS_CardinalityType
  <2>5. \A d : Cardinality({t \in FromTo(k, r, d) : t % NumSMs \in S}) \in Nat
    <3> SUFFICES ASSUME NEW d
                 PROVE  Cardinality({t \in FromTo(k, r, d) : t % NumSMs \in S}) \in Nat
      OBVIOUS
    <3>1. IsFiniteSet(FromTo(k, r, d))
      BY <2>1, CountFacts
    <3>2. {t \in FromTo(k, r, d) : t % NumSMs \in S} \subseteq FromTo(k, r, d)
      OBVIOUS
    <3> QED BY <3>1, <3>2, FS_Subset, FS_CardinalityType
  <2>6. \A e : Cardinality({t \in ExpertFrom(k, r, e) : t % NumSMs \in S}) \in Nat
    <3> SUFFICES ASSUME NEW e
                 PROVE  Cardinality({t \in ExpertFrom(k, r, e) : t % NumSMs \in S}) \in Nat
      OBVIOUS
    <3>1. IsFiniteSet(ExpertFrom(k, r, e))
      BY <2>1, CountFacts
    <3>2. {t \in ExpertFrom(k, r, e) : t % NumSMs \in S} \subseteq ExpertFrom(k, r, e)
      OBVIOUS
    <3> QED BY <3>1, <3>2, FS_Subset, FS_CardinalityType
  <2>7. Cardinality(S) \in 0 .. NumSMs
    BY <1>0, <2>4
  <2> QED BY <2>3, <2>5, <2>6, <2>7 DEF Reduced, ReductionSet
<1>2. CASE notify[r] # "count"
  <2>1. reduction[r] = ZeroReduction
    BY <1>2 DEF WordsInv, Counting
  <2> QED BY <1>0, <2>1 DEF ZeroReduction, ReductionSet
<1> QED BY <1>1, <1>2

LEMMA SenderTyped ==
  ASSUME IInv, SInv, NEW r \in Ranks
  PROVE  sender[r] \in [Ranks -> 0 .. NumMaxTokensPerRank]
<1>0. NumMaxTokensPerRank \in Nat
  BY SizesAssumption
<1>1. sender[r] = [d \in Ranks |-> IF Draws(r) THEN Cardinality(PairsTo(done[r], d)) ELSE 0]
  BY DEF SInv, SenderInv
<1>2. ASSUME Draws(r), NEW d \in Ranks
      PROVE  Cardinality(PairsTo(done[r], d)) \in 0 .. NumMaxTokensPerRank
  <2>1. stage[r] # "idle" /\ setup \in Setups /\ done[r] \subseteq PairsOf(CallOf(r), r)
    BY <1>2 DEF Draws, Sending, SInv, DoneInv, IInv, CountTypes
  <2>2. PICK k \in Calls : k = CallOf(r)
    BY <2>1, AtWork
  <2>3. IsFiniteSet(PairsOf(k, r)) /\ Cardinality(PairsTo(PairsOf(k, r), d)) = Count(k, r, d)
    BY <2>1, PairsFacts
  <2>4. Count(k, r, d) <= NumMaxTokensPerRank /\ Count(k, r, d) \in Nat
    BY <2>1, CountFacts
  <2>5. PairsTo(done[r], d) \subseteq PairsTo(PairsOf(k, r), d) /\ PairsTo(PairsOf(k, r), d) \subseteq PairsOf(k, r)
    BY <2>1, <2>2 DEF PairsTo
  <2>6. IsFiniteSet(PairsTo(PairsOf(k, r), d))
    BY <2>3, <2>5, FS_Subset
  <2>7. /\ Cardinality(PairsTo(done[r], d)) <= Cardinality(PairsTo(PairsOf(k, r), d))
        /\ Cardinality(PairsTo(done[r], d)) \in Nat
    BY <2>5, <2>6, FS_Subset, FS_CardinalityType
  <2>8. PICK n \in Nat : n = Cardinality(PairsTo(done[r], d)) /\ n <= Count(k, r, d)
    BY <2>3, <2>7
  <2>9. n \in 0 .. NumMaxTokensPerRank
    BY <1>0, <2>4, <2>8
  <2> QED BY <2>8, <2>9
<1> QED BY <1>0, <1>1, <1>2

-----------------------------------------------------------------------------
(***************************************************************************)
(* The handles.  What the other invariants do not keep of them (HInv):     *)
(* sizes and prefix sums are numbers, the metadata of an item has its      *)
(* fields, and a call's handle has no more than the call writes.           *)
(***************************************************************************)

\* What no other invariant keeps of a handle.
HandleRest(r, k) ==
  LET h == handle[r][k]
  IN  /\ h.num \in Nat /\ h.alloc \in Nat
      /\ h.psum \in [Ranks -> Nat] /\ h.epsum \in [LocalExperts -> Nat]
      /\ \A i \in DOMAIN h.meta : h.meta[i] \in MetaSet
      /\ Prog[k].kind # "dispatch" => DOMAIN h.slot = {}
      /\ Prog[k].kind = "combine" => DOMAIN h.recv = {} /\ DOMAIN h.meta = {}
      /\ Prog[k].kind # "combine" => DOMAIN h.sums = {}
\* A combine's warps are through with items that there are.
BackBegun(r) ==
  stage[r] = "work" /\ OnMain(r) /\ Kind(r) = "combine" =>
    done[r] \subseteq DOMAIN handle[r][Home(CallOf(r))].meta
HInv == \A r \in Ranks : BackBegun(r) /\ \A k \in Calls : HandleRest(r, k)

LEMMA HInit == Init => HInv
<1> SUFFICES ASSUME Init
             PROVE  HInv
  OBVIOUS
<1>1. \A r \in Ranks : BackBegun(r)
  BY DEF Init, BackBegun
<1>2. ASSUME NEW r \in Ranks, NEW k \in Calls
      PROVE  HandleRest(r, k)
  <2>1. handle[r][k] = NoHandle
    BY DEF Init
  <2> QED BY <2>1 DEF NoHandle, HandleRest
<1> QED BY <1>1, <1>2 DEF HInv

\* One handle of one rank is written.
LEMMA RestWritten ==
  ASSUME HInv, setup' = setup, NEW r \in Ranks, NEW k \in Calls,
         \A q \in Ranks : \A j \in Calls : q # r \/ j # k => handle'[q][j] = handle[q][j],
         HandleRest(r, k)'
  PROVE  \A q \in Ranks : \A j \in Calls' : HandleRest(q, j)'
<1>1. Prog' = Prog /\ Calls' = Calls
  BY TensorsFixed
<1> SUFFICES ASSUME NEW q \in Ranks, NEW j \in Calls, q # r \/ j # k
             PROVE  HandleRest(q, j)'
  BY <1>1
<1>2. HandleRest(q, j) /\ handle'[q][j] = handle[q][j]
  BY DEF HInv
<1> QED BY <1>1, <1>2 DEF HandleRest

LEMMA RestKept ==
  ASSUME HInv, setup' = setup, handle' = handle
  PROVE  \A q \in Ranks : \A j \in Calls' : HandleRest(q, j)'
<1>1. Prog' = Prog /\ Calls' = Calls
  BY TensorsFixed
<1> QED BY <1>1 DEF HInv, HandleRest

\* The sizes, the slots, the prefix sums or the sums of a handle are written.
LEMMA SizesWritten ==
  ASSUME IInv, HInv, setup' = setup, NEW r \in Ranks, NEW k \in Calls, NEW n \in Nat, NEW a \in Nat,
         handle' = [handle EXCEPT ![r][k].num = n, ![r][k].alloc = a]
  PROVE  \A q \in Ranks : \A j \in Calls' : HandleRest(q, j)'
<1>1. DOMAIN handle = Ranks /\ \A q \in Ranks : DOMAIN handle[q] = Calls /\ \A j \in Calls : DOMAIN handle[q][j] = HandleFields
  BY PlaceFacts
<1>2. \A q \in Ranks : \A j \in Calls : q # r \/ j # k => handle'[q][j] = handle[q][j]
  BY ONLY <1>1, handle' = [handle EXCEPT ![r][k].num = n, ![r][k].alloc = a], r \in Ranks, k \in Calls
<1>3. /\ handle'[r][k].num = n /\ handle'[r][k].alloc = a
      /\ handle'[r][k].psum = handle[r][k].psum /\ handle'[r][k].epsum = handle[r][k].epsum
      /\ handle'[r][k].meta = handle[r][k].meta /\ handle'[r][k].slot = handle[r][k].slot
      /\ handle'[r][k].recv = handle[r][k].recv /\ handle'[r][k].sums = handle[r][k].sums
  BY ONLY <1>1, handle' = [handle EXCEPT ![r][k].num = n, ![r][k].alloc = a], r \in Ranks, k \in Calls DEF HandleFields
<1>4. Prog' = Prog
  BY TensorsFixed
<1>5. HandleRest(r, k)'
  BY <1>3, <1>4 DEF HInv, HandleRest
<1> QED BY <1>2, <1>5, RestWritten

LEMMA SlotsWritten ==
  ASSUME IInv, HInv, setup' = setup, NEW r \in Ranks, NEW k \in Calls, NEW x, Prog[k].kind = "dispatch",
         handle' = [handle EXCEPT ![r][k].slot = x]
  PROVE  \A q \in Ranks : \A j \in Calls' : HandleRest(q, j)'
<1>1. DOMAIN handle = Ranks /\ \A q \in Ranks : DOMAIN handle[q] = Calls /\ \A j \in Calls : DOMAIN handle[q][j] = HandleFields
  BY PlaceFacts
<1>2. \A q \in Ranks : \A j \in Calls : q # r \/ j # k => handle'[q][j] = handle[q][j]
  BY ONLY <1>1, handle' = [handle EXCEPT ![r][k].slot = x], r \in Ranks, k \in Calls
<1>3. /\ handle'[r][k].num = handle[r][k].num /\ handle'[r][k].alloc = handle[r][k].alloc
      /\ handle'[r][k].psum = handle[r][k].psum /\ handle'[r][k].epsum = handle[r][k].epsum
      /\ handle'[r][k].meta = handle[r][k].meta
      /\ handle'[r][k].recv = handle[r][k].recv /\ handle'[r][k].sums = handle[r][k].sums
  BY ONLY <1>1, handle' = [handle EXCEPT ![r][k].slot = x], r \in Ranks, k \in Calls DEF HandleFields
<1>4. Prog' = Prog
  BY TensorsFixed
<1>5. HandleRest(r, k)'
  BY <1>3, <1>4 DEF HInv, HandleRest
<1> QED BY <1>2, <1>5, RestWritten

LEMMA PrefixWritten ==
  ASSUME IInv, HInv, setup' = setup, NEW r \in Ranks, NEW k \in Calls,
         NEW p \in [Ranks -> Nat], NEW e \in [LocalExperts -> Nat],
         handle' = [handle EXCEPT ![r][k].psum = p, ![r][k].epsum = e]
  PROVE  \A q \in Ranks : \A j \in Calls' : HandleRest(q, j)'
<1>1. DOMAIN handle = Ranks /\ \A q \in Ranks : DOMAIN handle[q] = Calls /\ \A j \in Calls : DOMAIN handle[q][j] = HandleFields
  BY PlaceFacts
<1>2. \A q \in Ranks : \A j \in Calls : q # r \/ j # k => handle'[q][j] = handle[q][j]
  BY ONLY <1>1, handle' = [handle EXCEPT ![r][k].psum = p, ![r][k].epsum = e], r \in Ranks, k \in Calls
<1>3. /\ handle'[r][k].num = handle[r][k].num /\ handle'[r][k].alloc = handle[r][k].alloc
      /\ handle'[r][k].psum = p /\ handle'[r][k].epsum = e
      /\ handle'[r][k].meta = handle[r][k].meta /\ handle'[r][k].slot = handle[r][k].slot
      /\ handle'[r][k].recv = handle[r][k].recv /\ handle'[r][k].sums = handle[r][k].sums
  BY ONLY <1>1, handle' = [handle EXCEPT ![r][k].psum = p, ![r][k].epsum = e], r \in Ranks, k \in Calls DEF HandleFields
<1>4. Prog' = Prog
  BY TensorsFixed
<1>5. HandleRest(r, k)'
  BY <1>3, <1>4 DEF HInv, HandleRest
<1> QED BY <1>2, <1>5, RestWritten

LEMMA SumsWritten ==
  ASSUME IInv, HInv, setup' = setup, NEW r \in Ranks, NEW k \in Calls, NEW x, Prog[k].kind = "combine",
         handle' = [handle EXCEPT ![r][k].sums = x]
  PROVE  \A q \in Ranks : \A j \in Calls' : HandleRest(q, j)'
<1>1. DOMAIN handle = Ranks /\ \A q \in Ranks : DOMAIN handle[q] = Calls /\ \A j \in Calls : DOMAIN handle[q][j] = HandleFields
  BY PlaceFacts
<1>2. \A q \in Ranks : \A j \in Calls : q # r \/ j # k => handle'[q][j] = handle[q][j]
  BY ONLY <1>1, handle' = [handle EXCEPT ![r][k].sums = x], r \in Ranks, k \in Calls
<1>3. /\ handle'[r][k].num = handle[r][k].num /\ handle'[r][k].alloc = handle[r][k].alloc
      /\ handle'[r][k].psum = handle[r][k].psum /\ handle'[r][k].epsum = handle[r][k].epsum
      /\ handle'[r][k].meta = handle[r][k].meta /\ handle'[r][k].slot = handle[r][k].slot
      /\ handle'[r][k].recv = handle[r][k].recv
  BY ONLY <1>1, handle' = [handle EXCEPT ![r][k].sums = x], r \in Ranks, k \in Calls DEF HandleFields
<1>4. Prog' = Prog
  BY TensorsFixed
<1>5. HandleRest(r, k)'
  BY <1>3, <1>4 DEF HInv, HandleRest
<1> QED BY <1>2, <1>5, RestWritten

LEMMA HostRest ==
  ASSUME IInv, CInv, HInv, NEW r \in Ranks, Host(r)
  PROVE  \A q \in Ranks : \A j \in Calls' : HandleRest(q, j)'
<1>0. setup' = setup /\ setup \in Setups
  BY PlaceFacts DEF Host, HostCall, HostPoll
<1>1. ASSUME HostCall(r)
      PROVE  \A q \in Ranks : \A j \in Calls' : HandleRest(q, j)'
  <2>1. PICK k : k = call[r] + 1
    OBVIOUS
  <2>2. k \in Calls /\ Prog[k] \in Call
    <3>1. Prog \in Seq(Call) /\ call[r] \in Nat /\ call[r] < Len(Prog)
      BY <1>1, SetupsAssumption DEF Prog, IInv, CountTypes, HostCall
    <3> QED BY <2>1, <3>1 DEF Calls
  <2>3. CASE Prog[k].kind = "dispatch" /\ ~Prog[k].sync
    <3>1. handle' = [handle EXCEPT ![r][k].num = WorstCase, ![r][k].alloc = WorstAlloc(Prog[k].expand)]
      BY <1>1, <2>1, <2>3 DEF HostCall
    <3>2. Prog[k].expand \in BOOLEAN
      BY <2>2 DEF Call
    <3>3. WorstCase \in Nat /\ WorstAlloc(FALSE) \in Nat /\ WorstAlloc(TRUE) \in Nat
      BY <1>0, <2>2, RoutedBounds, WorstIsEnough
    <3>4. PICK n \in Nat, a \in Nat : n = WorstCase /\ a = WorstAlloc(Prog[k].expand)
      BY <3>2, <3>3
    <3>5. handle' = [handle EXCEPT ![r][k].num = n, ![r][k].alloc = a]
      BY <3>1, <3>4
    <3> QED BY <1>0, <2>2, <3>5, SizesWritten
  <2>4. CASE Prog[k].kind = "cached"
    <3>1. handle' = [handle EXCEPT ![r][k].num = handle[r][Prog[k].of].num,
                                   ![r][k].alloc = handle[r][Prog[k].of].num]
      BY <1>1, <2>1, <2>4 DEF HostCall
    <3>2. Prog[k].of \in Calls
      BY <1>0, <2>2, <2>4, CachedCall
    <3>3. PICK n \in Nat : n = handle[r][Prog[k].of].num
      BY <3>2 DEF HInv, HandleRest
    <3>4. handle' = [handle EXCEPT ![r][k].num = n, ![r][k].alloc = n]
      BY <3>1, <3>3
    <3> QED BY <1>0, <2>2, <3>4, SizesWritten
  <2>5. CASE ~(Prog[k].kind = "dispatch" /\ ~Prog[k].sync) /\ Prog[k].kind # "cached"
    <3>1. handle' = handle
      BY <1>1, <2>1, <2>5 DEF HostCall
    <3> QED BY <1>0, <3>1, RestKept
  <2> QED BY <2>3, <2>4, <2>5
<1>2. ASSUME HostPoll(r)
      PROVE  \A q \in Ranks : \A j \in Calls' : HandleRest(q, j)'
  <2>1. PICK k : k = call[r]
    OBVIOUS
  <2>2. PICK w : w = hostWords[r]
    OBVIOUS
  <2>3. polling[r] /\ k \in Calls
    BY <1>2, <2>1 DEF HostPoll, CInv, PollInv
  <2>4. w = ZeroHost \/ w = HostRight(k, r)
    BY <2>1, <2>2, <2>3 DEF CInv, PollInv
  <2>5. PICK f, g : f = [s \in Ranks |-> Encode(w.rank[s])] /\ g = [e \in LocalExperts |-> Encode(w.expert[e])]
    OBVIOUS
  <2>6. /\ \A s \in Ranks : IsReady(w.rank[s])
        /\ \A e \in LocalExperts : IsReady(w.expert[e])
        /\ handle' = [handle EXCEPT ![r][k].num = Sum(f, Ranks),
                                    ![r][k].alloc = IF Prog[k].expand THEN Sum(g, LocalExperts) ELSE Sum(f, Ranks)]
    BY <1>2, <2>1, <2>2, <2>5 DEF HostPoll
  <2>7. (\A s \in Ranks : w.rank[s] \in Int) /\ (\A e \in LocalExperts : w.expert[e] \in Int)
    <3>1. CASE w = ZeroHost
      BY <3>1 DEF ZeroHost
    <3>2. CASE w = HostRight(k, r)
      <4>1. \A s \in Ranks : Count(k, s, r) \in Nat
        BY <1>0, <2>3, CountFacts
      <4>2. \A e \in LocalExperts : AlignedTotals(k, r)[e] \in Nat
        BY <1>0, <2>3, TotalsNat
      <4>3. /\ \A s \in Ranks : w.rank[s] = Encode(Count(k, s, r))
            /\ \A e \in LocalExperts : w.expert[e] = Encode(AlignedTotals(k, r)[e])
        BY <3>2 DEF HostRight
      <4>4. \A n \in Nat : Encode(n) \in Int
        BY DEF Encode
      <4> QED BY <4>1, <4>2, <4>3, <4>4
    <3> QED BY <2>4, <3>1, <3>2
  <2>8. (\A s \in Ranks : f[s] \in Nat) /\ (\A e \in LocalExperts : g[e] \in Nat)
    <3>1. \A x \in Int : IsReady(x) => Encode(x) \in Nat
      BY DEF IsReady, Encode
    <3> QED BY <2>5, <2>6, <2>7, <3>1
  <2>9. Sum(f, Ranks) \in Nat
    BY <2>8, RanksFinite, SumNat
  <2>10. IsFiniteSet(LocalExperts)
    <3>1. 0 \in Int /\ NumExpertsPerRank - 1 \in Int
      BY SizesAssumption
    <3> QED BY <3>1, FS_Interval DEF LocalExperts
  <2>11. Sum(g, LocalExperts) \in Nat
    BY <2>8, <2>10, SumNat
  <2>12. PICK n \in Nat, a \in Nat :
           n = Sum(f, Ranks) /\ a = IF Prog[k].expand THEN Sum(g, LocalExperts) ELSE Sum(f, Ranks)
    BY <2>9, <2>11
  <2>13. handle' = [handle EXCEPT ![r][k].num = n, ![r][k].alloc = a]
    BY <2>6, <2>12
  <2> QED BY <1>0, <2>3, <2>13, SizesWritten
<1> QED BY <1>1, <1>2 DEF Host

LEMMA NotifyFinishRest ==
  ASSUME IInv, WordsInv, HInv, NEW r \in Ranks, Running(r), NotifyFinish(r)
  PROVE  \A q \in Ranks : \A j \in Calls' : HandleRest(q, j)'
<1>1. PICK k \in Calls : k = CallOf(r)
  BY RunningCall DEF IInv
<1>2. /\ stage[r] = "work" /\ OnMain(r) /\ Prog[k].kind = "dispatch" /\ setup' = setup
      /\ \A s \in Ranks : taken[r][s] # NotTaken
      /\ setup \in Setups
  BY <1>1, PlaceFacts DEF NotifyFinish, MainRuns, Kind
<1>3. \A s \in Ranks : taken[r][s] = Due(k, s, r)
  <2>1. InDispatch(r)
    BY <1>1, <1>2 DEF InDispatch, Kind
  <2> QED BY <1>1, <1>2, <2>1 DEF WordsInv, Taken
<1>4. \A s \in Ranks : /\ taken[r][s].n \in Nat
                       /\ \A x \in LocalExperts : taken[r][s].e[x] \in Nat
  <2>1. \A s \in Ranks : /\ Due(k, s, r).n = Count(k, s, r)
                         /\ \A x \in LocalExperts : Due(k, s, r).e[x] = ExpertCount(k, s, r * NumExpertsPerRank + x)
    BY DEF Due
  <2>2. \A s \in Ranks : Count(k, s, r) \in Nat /\ \A x : ExpertCount(k, s, x) \in Nat
    BY <1>2, CountFacts
  <2> QED BY <1>3, <2>1, <2>2
<1> DEFINE num == [s \in Ranks |-> taken[r][s].n]
           total == [e \in LocalExperts |-> Sum([s \in Ranks |-> taken[r][s].e[e]], Ranks)]
           aligned == [e \in LocalExperts |-> Align(total[e])]
           p == [s \in Ranks |-> Sum(num, 0 .. s)]
           e0 == [e \in LocalExperts |-> Sum(aligned, 0 .. e - 1)]
<1>5. handle' = [handle EXCEPT ![r][k].psum = p, ![r][k].epsum = e0]
  BY <1>1 DEF NotifyFinish
<1>6. \A e \in LocalExperts : total[e] \in Nat
  <2> SUFFICES ASSUME NEW e \in LocalExperts
               PROVE  Sum([s \in Ranks |-> taken[r][s].e[e]], Ranks) \in Nat
    OBVIOUS
  <2>1. PICK f : f = [s \in Ranks |-> taken[r][s].e[e]]
    OBVIOUS
  <2>2. \A s \in Ranks : f[s] \in Nat
    BY <1>4, <2>1
  <2>3. Sum(f, Ranks) \in Nat
    BY <2>2, RanksFinite, SumNat
  <2> QED BY <2>1, <2>3
<1>7. \A e \in LocalExperts : aligned[e] \in Nat
  <2> HIDE DEF total
  <2> QED BY <1>6, AlignNat
<1>8. \A s \in Ranks : num[s] \in Nat
  BY <1>4
<1> HIDE DEF num, total, aligned
<1>9. p \in [Ranks -> Nat]
  <2> SUFFICES ASSUME NEW s \in Ranks
               PROVE  Sum(num, 0 .. s) \in Nat
    OBVIOUS
  <2>1. 0 .. s \subseteq Ranks
    BY SizesAssumption DEF Ranks
  <2>2. IsFiniteSet(0 .. s) /\ \A x \in 0 .. s : num[x] \in Nat
    BY <1>8, <2>1, RanksFinite, FS_Subset
  <2> QED BY <2>2, SumNat
<1>10. e0 \in [LocalExperts -> Nat]
  <2> SUFFICES ASSUME NEW e \in LocalExperts
               PROVE  Sum(aligned, 0 .. e - 1) \in Nat
    OBVIOUS
  <2>0. NumExpertsPerRank \in Nat
    BY SizesAssumption
  <2>1. 0 .. e - 1 \subseteq LocalExperts /\ e \in Int
    BY <2>0 DEF LocalExperts
  <2>2. 0 \in Int /\ e - 1 \in Int
    BY <2>1
  <2>3. IsFiniteSet(0 .. e - 1) /\ \A x \in 0 .. e - 1 : aligned[x] \in Nat
    BY <1>7, <2>1, <2>2, FS_Interval
  <2> QED BY <2>3, SumNat
<1> HIDE DEF p, e0
<1> QED BY <1>1, <1>2, <1>5, <1>9, <1>10, PrefixWritten

\* A token is copied: an item and its metadata are added, and prefix sums go on.
LEMMA CopyRest ==
  ASSUME IInv, SInv, TInv, CInv, HInv, NEW r \in Ranks, Running(r), NEW i, CopyToken(r, i)
  PROVE  \A q \in Ranks : \A j \in Calls' : HandleRest(q, j)'
<1> DEFINE c == CallOf(r)
<1>k. c \in Calls
  BY RunningCall DEF IInv
<1>1. /\ stage[r] = "work" /\ ~OnMain(r) /\ Prog[c].kind \in AnyDispatch
      /\ i \in Items(r) \ done[r] /\ setup \in Setups /\ setup' = setup
  BY <1>k, PlaceFacts DEF CopyToken, EpilogueRuns, Kind
<1>2. i \in 0 .. NumRecv(r, c) - 1
  BY <1>1 DEF Items, Kind, AnyDispatch
<1>3. PICK s \in Ranks : InRegion(handle[r][Home(c)].psum, i, s) /\ CopyFrom(r, i, s)
  BY DEF CopyToken
<1>4. PICK t \in FromTo(c, s, r) :
        /\ IsItem(r, c, i, s, t)
        /\ buffer[r][<<s, i - RegionStart(handle[r][Home(c)].psum, s)>>] = Token(c, s, t, Rows(c, s)[t])
  BY <1>k, <1>1, <1>2, <1>3, ItemFound
<1>0. /\ DOMAIN handle = Ranks
      /\ \A q \in Ranks : DOMAIN handle[q] = Calls /\ \A j \in Calls : DOMAIN handle[q][j] = HandleFields
  BY PlaceFacts
<1>h. HandleRest(r, c)
  BY <1>k DEF HInv
<1> DEFINE x == buffer[r][<<s, i - RegionStart(handle[r][Home(c)].psum, s)>>]
           mine == LanesTo(x.row, r)
           epsum == handle[r][c].epsum
           place == [l \in DOMAIN x.row |-> IF l \in mine /\ Expanded(c)
                                            THEN epsum[LocalIdx(x.row[l])] ELSE -1]
           used == {LocalIdx(x.row[l]) : l \in mine}
           md == [tok |-> x.tok, rank |-> s, lane |-> MasterLane(mine), place |-> place]
           recv == handle[r][c].recv
           spread == [p \in DOMAIN recv \cup {place[l] : l \in mine} |->
                        IF \E l \in mine : place[l] = p THEN x ELSE recv[p]]
           more == [e \in LocalExperts |-> IF e \in used THEN epsum[e] + 1 ELSE epsum[e]]
<1>5. handle' = [handle EXCEPT
        ![r][c].meta = Extend(@, i, md),
        ![r][c].recv = IF ~Expanded(c) THEN Extend(@, i, x) ELSE spread,
        ![r][c].epsum = IF ~Expanded(c) THEN @
                        ELSE [e \in LocalExperts |-> IF e \in used THEN @[e] + 1 ELSE @[e]]]
  BY <1>3 DEF CopyFrom
<1> HIDE DEF c
<1>6. x.tok = t /\ x.row = Rows(c, s)[t] /\ t \in 1 .. NumMaxTokensPerRank
  <2>1. x = Token(c, s, t, Rows(c, s)[t])
    BY <1>4
  <2>2. FromTo(c, s, r) \subseteq 1 .. NumMaxTokensPerRank
    BY <1>1, <1>k, CountFacts
  <2> QED BY <1>4, <2>1, <2>2 DEF Token
<1>7. PICK row \in Row : row = x.row /\ r \in Dsts(row)
  BY <1>1, <1>4, <1>6, <1>k, RowFacts DEF FromTo
<1>8. mine \subseteq Lanes /\ mine # {}
  <2>1. DOMAIN row = Lanes
    BY <1>7 DEF Row
  <2> QED BY <1>7, <2>1 DEF LanesTo, Dsts
<1>9. MasterLane(mine) \in Lanes
  <2> HIDE DEF mine
  <2> QED BY <1>8, HighestLane
<1>10. epsum \in [LocalExperts -> Nat]
  BY <1>h DEF HandleRest
<1>11. place \in [Lanes -> Nat \cup {-1}]
  <2>1. DOMAIN row = Lanes /\ \A l \in Lanes : row[l] \in Experts \cup {-1}
    BY DEF Row
  <2>2. ASSUME NEW l \in mine
        PROVE  epsum[LocalIdx(row[l])] \in Nat
    <3>1. l \in Lanes /\ RankOf(row[l]) = r
      BY <1>7, <1>8, <2>2 DEF LanesTo
    <3>2. LocalIdx(row[l]) \in LocalExperts
      BY <2>1, <3>1, ExpertOfRank
    <3> QED BY <1>10, <3>2
  <2>3. place = [l \in Lanes |-> IF l \in mine /\ Expanded(c) THEN epsum[LocalIdx(row[l])] ELSE -1]
    BY <1>7, <2>1
  <2> HIDE DEF mine, epsum, place
  <2> QED BY <2>2, <2>3
<1>12. md \in MetaSet
  <2> HIDE DEF mine, place
  <2> QED BY <1>6, <1>9, <1>11 DEF MetaSet
<1> HIDE DEF x, mine, place, used, md, spread, epsum
<1>13. more \in [LocalExperts -> Nat]
  BY <1>10
<1>14. /\ handle'[r][c].meta = Extend(handle[r][c].meta, i, md)
       /\ handle'[r][c].epsum = IF Expanded(c) THEN more ELSE epsum
       /\ handle'[r][c].num = handle[r][c].num /\ handle'[r][c].alloc = handle[r][c].alloc
       /\ handle'[r][c].psum = handle[r][c].psum
       /\ handle'[r][c].slot = handle[r][c].slot /\ handle'[r][c].sums = handle[r][c].sums
       /\ \A q \in Ranks : \A j \in Calls : q # r \/ j # c => handle'[q][j] = handle[q][j]
  BY ONLY <1>0, <1>5, r \in Ranks, c \in Calls DEF HandleFields, epsum
<1>15. \A y \in DOMAIN handle'[r][c].meta : handle'[r][c].meta[y] \in MetaSet
  <2>1. \A y \in DOMAIN handle[r][c].meta : handle[r][c].meta[y] \in MetaSet
    BY <1>h DEF HandleRest
  <2> QED BY <1>12, <1>14, <2>1 DEF Extend
<1>16. handle'[r][c].epsum \in [LocalExperts -> Nat]
  <2> HIDE DEF more
  <2> QED BY <1>10, <1>13, <1>14
<1>17. Prog' = Prog /\ MetaSet' = MetaSet
  BY <1>1, TensorsFixed DEF MetaSet
<1>18. PICK k \in Calls : k = c
  BY <1>k
<1>19. /\ \A y \in DOMAIN handle'[r][k].meta : handle'[r][k].meta[y] \in MetaSet'
       /\ handle'[r][k].epsum \in [LocalExperts -> Nat]
       /\ handle'[r][k].num = handle[r][k].num /\ handle'[r][k].alloc = handle[r][k].alloc
       /\ handle'[r][k].psum = handle[r][k].psum
       /\ handle'[r][k].slot = handle[r][k].slot /\ handle'[r][k].sums = handle[r][k].sums
       /\ \A q \in Ranks : \A j \in Calls : q # r \/ j # k => handle'[q][j] = handle[q][j]
       /\ Prog' = Prog /\ Prog[k].kind # "combine" /\ HandleRest(r, k)
  BY <1>h, <1>1, <1>14, <1>15, <1>16, <1>17, <1>18 DEF AnyDispatch
<1>20. HandleRest(r, k)'
  BY <1>19 DEF HandleRest
<1> QED BY <1>1, <1>19, <1>20, RestWritten

\* A token is added up.
LEMMA ReduceRest ==
  ASSUME IInv, SInv, CInv, EInv, BInv, HInv, NEW r \in Ranks, NEW t, Running(r), ReduceToken(r, t)
  PROVE  \A q \in Ranks : \A j \in Calls' : HandleRest(q, j)'
<1>1. PICK k \in Calls : k = CallOf(r)
  BY RunningCall DEF IInv
<1>2. Prog[k].kind = "combine" /\ setup' = setup
  <2>1. setup' = setup
    BY DEF ReduceToken
  <2> QED BY <1>1, <2>1, Reduction
<1>3. PICK sum : /\ Returned(k, r, t, Lanes \ Masked(Rows(k, r)[t]), sum)
                 /\ handle' = [handle EXCEPT ![r][k].sums = Extend(@, t, sum)]
  BY <1>1, Reduction
<1>4. PICK x : x = Extend(handle[r][k].sums, t, sum)
  OBVIOUS
<1>5. handle' = [handle EXCEPT ![r][k].sums = x]
  BY <1>3, <1>4
<1> QED BY <1>1, <1>2, <1>5, SumsWritten

\* Slots are computed ahead, or one is drawn.
LEMMA SlotRest ==
  ASSUME IInv, HInv, NEW r \in Ranks, Running(r), StartMain(r) \/ \E t, d : SendToken(r, t, d)
  PROVE  \A q \in Ranks : \A j \in Calls' : HandleRest(q, j)'
<1>1. PICK k \in Calls : k = CallOf(r)
  BY RunningCall DEF IInv
<1>2. setup' = setup
  BY DEF StartMain, SendToken
<1>3. handle' = handle \/ (Prog[k].kind = "dispatch" /\ \E x : handle' = [handle EXCEPT ![r][k].slot = x])
  <2>1. CASE StartMain(r)
    BY <1>1, <2>1 DEF StartMain, Kind
  <2>2. CASE \E t, d : SendToken(r, t, d)
    <3>1. PICK t, d : SendToken(r, t, d)
      BY <2>2
    <3>2. CASE ReusesSlots(k)
      BY <1>1, <3>1, <3>2 DEF SendToken
    <3>3. CASE ~ReusesSlots(k)
      <4>1. Prog[k].kind = "dispatch"
        BY <1>1, <3>1, <3>3 DEF SendToken, MainRuns, AnyDispatch, ReusesSlots, Kind
      <4> QED BY <1>1, <3>1, <3>3, <4>1 DEF SendToken
    <3> QED BY <3>2, <3>3
  <2> QED BY <2>1, <2>2
<1>4. CASE handle' = handle
  BY <1>2, <1>4, RestKept
<1>5. ASSUME Prog[k].kind = "dispatch", NEW x, handle' = [handle EXCEPT ![r][k].slot = x]
      PROVE  \A q \in Ranks : \A j \in Calls' : HandleRest(q, j)'
  BY <1>1, <1>2, <1>5, SlotsWritten
<1> QED BY <1>3, <1>4, <1>5

LEMMA RestStep ==
  IInv /\ WordsInv /\ SInv /\ TInv /\ CInv /\ EInv /\ BInv /\ HInv /\ [Next]_vars =>
    \A q \in Ranks : \A j \in Calls' : HandleRest(q, j)'
<1> SUFFICES ASSUME IInv, WordsInv, SInv, TInv, CInv, EInv, BInv, HInv, [Next]_vars
             PROVE  \A q \in Ranks : \A j \in Calls' : HandleRest(q, j)'
  OBVIOUS
<1>1. ASSUME NEW r \in Ranks, Host(r)
      PROVE  \A q \in Ranks : \A j \in Calls' : HandleRest(q, j)'
  BY <1>1, HostRest
<1>2. ASSUME NEW r \in Ranks, Running(r), Notify(r)
      PROVE  \A q \in Ranks : \A j \in Calls' : HandleRest(q, j)'
  <2>1. NotifyFinish(r) \/ (setup' = setup /\ handle' = handle)
    BY <1>2 DEF Notify, NotifyCount, NotifySend, NotifyTake
  <2> QED BY <1>2, <2>1, NotifyFinishRest, RestKept
<1>3. ASSUME NEW r \in Ranks, Running(r), Main(r)
      PROVE  \A q \in Ranks : \A j \in Calls' : HandleRest(q, j)'
  <2>1. \/ StartMain(r) \/ \E t, d : SendToken(r, t, d)
        \/ setup' = setup /\ handle' = handle
    BY <1>3 DEF Main, PassEntry, SendBack, Arrive, EndMain
  <2> QED BY <1>3, <2>1, SlotRest, RestKept
<1>4. ASSUME NEW r \in Ranks, Running(r), Epilogue(r)
      PROVE  \A q \in Ranks : \A j \in Calls' : HandleRest(q, j)'
  <2>1. \/ \E i : CopyToken(r, i)
        \/ \E t : ReduceToken(r, t)
        \/ setup' = setup /\ handle' = handle
    BY <1>4 DEF Epilogue, StartEpilogue, EndEpilogue
  <2> QED BY <1>4, <2>1, CopyRest, ReduceRest, RestKept
<1>5. CASE (\E m \in stores : LandStore(m)) \/ (\E m \in counts : LandCounts(m)) \/ UNCHANGED vars
  <2>1. setup' = setup /\ handle' = handle
    BY <1>5 DEF LandStore, LandCounts, vars
  <2> QED BY <2>1, RestKept
<1> QED BY <1>1, <1>2, <1>3, <1>4, <1>5 DEF Next

\* In its first kernel a combine's rank goes through what it had received.
LEMMA BackBegunStep ==
  ASSUME IInv, SInv, TInv, CInv, EInv, HInv, [Next]_vars, NEW r \in Ranks
  PROVE  BackBegun(r)'
<1> SUFFICES ASSUME stage'[r] = "work", OnMain(r)', Kind(r)' = "combine"
             PROVE  done'[r] \subseteq DOMAIN handle'[r][Home(CallOf(r))'].meta
  BY DEF BackBegun
<1>1. Turn(r) /\ setup' = setup
  BY StepMoves, KeptOrFilled
<1>2. /\ kernels'[r] = kernels[r] /\ kernels[r] \in Nat
      /\ CallOf(r)' = CallOf(r) /\ OnMain(r) /\ Kind(r) = "combine"
  <2>1. kernels'[r] = kernels[r]
    BY <1>1, MoveCases
  <2>2. Prog' = Prog
    BY <1>1, TensorsFixed
  <2> QED BY <2>1, <2>2, PlaceFacts DEF CallOf, OnMain, Kind
<1>3. \/ stage[r] = "work" /\ done'[r] = done[r]
      \/ stage[r] = "enter" /\ done'[r] = done[r]
      \/ Running(r) /\ \E i : SendBack(r, i)
  <2>2. DOMAIN stage = Ranks
    BY DEF IInv, CountTypes
  <2>3. CASE \E t : ReduceToken(r, t)
    BY <1>2, <2>3 DEF ReduceToken, EpilogueRuns
  <2>4. CASE Arrive(r)
    BY <2>2, <2>4 DEF Arrive
  <2>5. CASE EndMain(r)
    BY <2>2, <2>5 DEF EndMain
  <2>6. CASE EndEpilogue(r)
    BY <2>2, <2>6 DEF EndEpilogue
  <2> QED BY <1>1, <1>2, <2>3, <2>4, <2>5, <2>6 DEF Turn, AnyDispatch
<1>4. stage[r] # "idle"
  BY <1>3 DEF SendBack, MainRuns
<1>5. PICK k \in Calls : k = CallOf(r)
  BY <1>4, AtWork
<1>6. Prog[k].kind = "combine" /\ kernels[r] = 2 * k - 2 /\ k \in Nat
  BY <1>2, <1>5, PlaceFacts DEF Kind
<1>7. /\ handle'[r][Home(k)].meta = handle[r][Home(k)].meta /\ Home(k)' = Home(k)
      /\ Items(r) = DOMAIN handle[r][Home(k)].meta
  <2>1. kernels'[r] >= 2 * k - 2 /\ kernels[r] >= 2 * k - 2
    BY <1>2, <1>6
  <2> QED BY <1>2, <1>5, <1>6, <2>1, BackMetaStays, BackItems
<1>8. done'[r] \subseteq DOMAIN handle[r][Home(k)].meta
  <2>1. CASE stage[r] = "work" /\ done'[r] = done[r]
    BY <1>2, <1>5, <2>1 DEF HInv, BackBegun
  <2>2. CASE stage[r] = "enter" /\ done'[r] = done[r]
    BY <2>2 DEF SInv, DoneInv
  <2>3. CASE Running(r) /\ \E i : SendBack(r, i)
    <3>1. PICK i : SendBack(r, i)
      BY <2>3
    <3>2. stage[r] = "work" /\ i \in Items(r) /\ done' = [done EXCEPT ![r] = @ \cup {i}]
      BY <3>1 DEF SendBack, MainRuns
    <3>3. DOMAIN done = Ranks
      BY PlaceFacts
    <3>4. done[r] \subseteq DOMAIN handle[r][Home(k)].meta
      BY <1>2, <1>5, <3>2 DEF HInv, BackBegun
    <3> QED BY <1>7, <3>2, <3>3, <3>4
  <2> QED BY <1>3, <2>1, <2>2, <2>3
<1>9. PICK h \in Calls : h = Home(k)
  <2>1. setup \in Setups
    BY PlaceFacts
  <2> QED BY <1>5, <2>1, HomeIsDispatch
<1>10. Home(CallOf(r))' = h
  <2>1. Home(CallOf(r))' = Home(k)'
    BY <1>2, <1>5 DEF Home, Source
  <2> QED BY <1>7, <1>9, <2>1
<1> QED BY <1>7, <1>8, <1>9, <1>10

LEMMA HStep ==
  IInv /\ WordsInv /\ SInv /\ TInv /\ CInv /\ EInv /\ BInv /\ HInv /\ [Next]_vars => HInv'
<1> SUFFICES ASSUME IInv, WordsInv, SInv, TInv, CInv, EInv, BInv, HInv, [Next]_vars
             PROVE  HInv'
  OBVIOUS
<1>1. \A q \in Ranks : \A j \in Calls' : HandleRest(q, j)'
  BY RestStep
<1>2. \A r \in Ranks : BackBegun(r)'
  BY BackBegunStep
<1> QED BY <1>1, <1>2 DEF HInv

\* A slot in a handle is that of a token for a rank, within the sender's region there.
LEMMA SlotTyped ==
  ASSUME IInv, SInv, NEW r \in Ranks, NEW k \in Calls, Prog[k].kind = "dispatch",
         NEW p \in DOMAIN handle[r][k].slot
  PROVE  p \in Nat \X Ranks /\ handle[r][k].slot[p] \in 0 .. NumMaxTokensPerRank - 1
<1>0. setup \in Setups /\ kernels[r] \in Nat /\ k \in Nat /\ k >= 1
  BY PlaceFacts
<1>1. p \in SlotDomain(r, k) /\ handle[r][k].slot[p] \in 0 .. Count(k, r, p[2]) - 1
  BY DEF SInv, SlotsInv, SlotsApart
<1>2. p \in PairsOf(k, r)
  <2>1. CASE kernels[r] = 2 * k - 2 /\ stage[r] \in {"work", "leave"} /\ p \in done[r]
    <3>1. OnMain(r) /\ CallOf(r) = k
      BY <1>0, <2>1 DEF OnMain, CallOf
    <3>2. Sending(r)
      BY <2>1, <3>1 DEF Sending, Kind, AnyDispatch
    <3> QED BY <2>1, <3>1, <3>2 DEF SInv, DoneInv
  <2> QED BY <1>1, <2>1 DEF SlotDomain
<1>3. p = <<p[1], p[2]>> /\ p[1] \in FromTo(k, r, p[2]) /\ p[2] \in Ranks
  BY <1>0, <1>2, PairsFacts
<1>4. FromTo(k, r, p[2]) \subseteq Nat /\ Count(k, r, p[2]) \in Nat /\ Count(k, r, p[2]) <= NumMaxTokensPerRank
  BY <1>0, CountFacts
<1>5. p[1] \in Nat /\ p \in Nat \X Ranks
  BY <1>3, <1>4
<1>6. PICK n : n = handle[r][k].slot[p]
  OBVIOUS
<1>7. PICK c \in Nat : c = Count(k, r, p[2])
  BY <1>4
<1>8. n \in 0 .. NumMaxTokensPerRank - 1
  BY <1>1, <1>4, <1>6, <1>7, SizesAssumption
<1> QED BY <1>5, <1>6, <1>8

\* A received item has a number, and is a token.
LEMMA ItemTyped ==
  ASSUME IInv, SInv, NEW r \in Ranks, NEW k \in Calls, Prog[k].kind \in AnyDispatch, MetaInv(r, k),
         NEW i \in DOMAIN handle[r][k].meta
  PROVE  i \in Nat /\ ItemToken(r, k, i) \in TokenSet
<1>0. setup \in Setups /\ k \in Nat
  BY PlaceFacts
<1>1. PICK s, t : s = handle[r][k].meta[i].rank /\ t = handle[r][k].meta[i].tok
  OBVIOUS
<1>2. IsItem(r, k, i, s, t)
  BY <1>1 DEF MetaInv
<1>3. kernels[r] >= 2 * k - 1
  BY CopiedBehindBarrier DEF MetaInv
<1>4. i \in 0 .. ReceivedFrom(k, r, Ranks) - 1
  BY <1>2, <1>3, ItemRange
<1>5. ReceivedFrom(k, r, Ranks) \in Nat
  BY <1>0, BaseFacts
<1>6. i \in Nat
  BY <1>4, <1>5
<1>7. s \in Ranks /\ t \in FromTo(k, s, r)
  BY <1>2 DEF IsItem
<1>8. t \in Nat /\ t \in DOMAIN Rows(k, s)
  <2>1. FromTo(k, s, r) \subseteq Nat
    BY <1>0, <1>7, CountFacts
  <2> QED BY <1>7, <2>1 DEF FromTo
<1>9. PICK row \in Row : row = Rows(k, s)[t]
  BY <1>0, <1>7, <1>8, RowFacts
<1>10. row \in Seq(Experts \cup {-1})
  BY SizesAssumption DEF Row, Lanes
<1>11. << >> \in Seq(AllTerms)
  OBVIOUS
<1>12. Token(k, s, t, row) \in TokenSet
  BY <1>0, <1>7, <1>8, <1>10, <1>11 DEF Token, TokenSet
<1>13. ItemToken(r, k, i) = Token(k, s, t, row)
  BY <1>1, <1>9 DEF ItemToken, SourceRow
<1> QED BY <1>6, <1>12, <1>13

\* What an epilogue has put into a tensor is a token.
LEMMA TensorTyped ==
  ASSUME IInv, SInv, EInv, NEW r \in Ranks, NEW k \in Calls, Prog[k].kind \in AnyDispatch,
         NEW p \in DOMAIN handle[r][k].recv
  PROVE  p \in Nat /\ handle[r][k].recv[p] \in TokenSet
<1>0. setup \in Setups /\ TensorInv(r, k)
  BY PlaceFacts DEF EInv
<1>1. CASE ~Expanded(k)
  <2>1. p \in DOMAIN handle[r][k].meta /\ handle[r][k].recv[p] = ItemToken(r, k, p)
    BY <1>0, <1>1 DEF TensorInv, MetaInv, PlainInv
  <2> QED BY <1>0, <2>1, ItemTyped DEF TensorInv
<1>2. CASE Expanded(k)
  <2>1. Prog[k].kind = "dispatch"
    BY <1>0, <1>2, CachedCall DEF AnyDispatch
  <2>2. PICK x \in LocalExperts : p \in Segment(r, k, x)
    BY <1>0, <1>2, <2>1 DEF TensorInv, ExpandInv
  <2>3. Finished(r, k)
    BY <1>0, <1>2, <2>1 DEF TensorInv, ExpandInv
  <2>4. PICK i \in Having(r, k, x) : handle[r][k].recv[p] = ItemToken(r, k, i)
    BY <1>0, <1>2, <2>1, <2>2, <2>3 DEF TensorInv, ExpandInv
  <2>5. i \in DOMAIN handle[r][k].meta
    BY DEF Having
  <2>6. Start(k, r, x) \in Nat
    BY <1>0, StartFacts
  <2>7. handle[r][k].epsum[x] = Start(k, r, x) + Cardinality(Having(r, k, x))
    BY <1>0, <1>2, <2>1, <2>3 DEF TensorInv, ExpandInv
  <2>8. Cardinality(Having(r, k, x)) \in Nat
    BY <1>0, RoomFor DEF TensorInv
  <2>9. p \in Nat
    <3>1. PICK a \in Nat, b \in Nat : a = Start(k, r, x) /\ b = handle[r][k].epsum[x]
      BY <2>6, <2>7, <2>8
    <3>2. p \in a .. b - 1
      BY <2>2, <3>1 DEF Segment
    <3> QED BY <3>2
  <2> QED BY <1>0, <2>4, <2>5, <2>9, ItemTyped DEF TensorInv
<1> QED BY <1>1, <1>2

\* What a reduction has added up is terms.
LEMMA SumTyped ==
  ASSUME IInv, RInv, NEW r \in Ranks, NEW k \in Calls, Prog[k].kind = "combine",
         NEW t \in DOMAIN handle[r][k].sums
  PROVE  t \in 1 .. NumMaxTokensPerRank /\ handle[r][k].sums[t] \in Seq(AllTerms)
<1>0. setup \in Setups
  BY PlaceFacts
<1>1. t \in DOMAIN Rows(k, r) /\ Returned(k, r, t, Lanes \ Masked(Rows(k, r)[t]), handle[r][k].sums[t])
  BY DEF RInv, SumsInv
<1>2. PICK n \in Nat : DOMAIN Rows(k, r) = 1 .. n /\ n <= NumMaxTokensPerRank
  BY <1>0, RowFacts
<1>3. t \in 1 .. NumMaxTokensPerRank
  BY <1>1, <1>2, SizesAssumption
<1> QED BY <1>1, <1>3 DEF Returned, SumOnce

LEMMA HandlesTyped ==
  ASSUME IInv, SInv, EInv, RInv, HInv, NEW r \in Ranks, NEW k \in Calls
  PROVE  HandleTyped(handle[r][k])
<1>0. HandleRest(r, k) /\ DOMAIN handle[r][k] = HandleFields /\ setup \in Setups
  BY PlaceFacts DEF HInv
<1>1. DOMAIN NoHandle = HandleFields
  BY DEF NoHandle, HandleFields
<1>2. Prog[k].kind \in {"dispatch", "cached", "combine"}
  <2>1. Prog \in Seq(Call)
    BY <1>0, SetupsAssumption DEF Prog
  <2>2. Prog[k] \in Call
    BY <2>1 DEF Calls
  <2> QED BY <2>2 DEF Call
<1>3. \A p \in DOMAIN handle[r][k].slot :
        p \in Nat \X Ranks /\ handle[r][k].slot[p] \in 0 .. NumMaxTokensPerRank - 1
  <2>1. CASE Prog[k].kind = "dispatch"
    BY <2>1, SlotTyped
  <2> QED BY <1>0, <2>1 DEF HandleRest
<1>4. \A p \in DOMAIN handle[r][k].recv : p \in Nat /\ handle[r][k].recv[p] \in TokenSet
  <2>1. CASE Prog[k].kind \in AnyDispatch
    BY <2>1, TensorTyped
  <2> QED BY <1>0, <1>2, <2>1 DEF HandleRest, AnyDispatch
<1>5. \A i \in DOMAIN handle[r][k].meta : i \in Nat /\ handle[r][k].meta[i] \in MetaSet
  <2>1. CASE Prog[k].kind \in AnyDispatch
    <3>1. MetaInv(r, k)
      BY <2>1 DEF EInv, TensorInv
    <3> QED BY <1>0, <2>1, <3>1, ItemTyped DEF HandleRest
  <2> QED BY <1>0, <1>2, <2>1 DEF HandleRest, AnyDispatch
<1>6. \A t \in DOMAIN handle[r][k].sums :
        t \in 1 .. NumMaxTokensPerRank /\ handle[r][k].sums[t] \in Seq(AllTerms)
  <2>1. CASE Prog[k].kind = "combine"
    BY <2>1, SumTyped
  <2> QED BY <1>0, <2>1 DEF HandleRest
<1> QED BY <1>0, <1>1, <1>3, <1>4, <1>5, <1>6 DEF HandleTyped, HandleRest

-----------------------------------------------------------------------------
(* What is on its way, and the items. *)


\* A store has these fields.
Fields(m) == m = [from |-> m.from, to |-> m.to, at |-> m.at, token |-> m.token]
StoreFields == \A m \in stores : Fields(m)

LEMMA FieldsInit == Init => StoreFields
BY DEF Init, StoreFields

LEMMA FieldsStep == IInv /\ StoreFields /\ [Next]_vars => StoreFields'
<1> SUFFICES ASSUME IInv, StoreFields, [Next]_vars
             PROVE  StoreFields'
  OBVIOUS
<1>1. CASE UNCHANGED <<buffer, stores>>
  BY <1>1 DEF StoreFields, Fields
<1>2. CASE \E m \in stores : LandStore(m)
  BY <1>2 DEF LandStore, StoreFields, Fields
<1>3. CASE \E r \in Ranks : Running(r) /\ \E t, d : SendToken(r, t, d)
  <2>a. PICK r \in Ranks : \E t, d : SendToken(r, t, d)
    BY <1>3
  <2>0. PICK t, e : SendToken(r, t, e)
    BY <2>a
  <2>1. PICK f, d, a, x : stores' = stores \cup {[from |-> f, to |-> d, at |-> a, token |-> x]}
    BY <2>0 DEF SendToken
  <2>2. \A m \in stores' : Fields(m)
    BY <2>1 DEF StoreFields, Fields
  <2> QED BY <2>2 DEF StoreFields, Fields
<1>4. CASE \E r \in Ranks : Running(r) /\ \E i : SendBack(r, i)
  <2>a. PICK r \in Ranks : \E i : SendBack(r, i)
    BY <1>4
  <2>1. PICK i : SendBack(r, i)
    BY <2>a
  <2> DEFINE k == CallOf(r)
             md == handle[r][Home(k)].meta[i]
             Put(region, sum) == [from |-> r, to |-> md.rank, at |-> <<region, md.tok - 1>>,
                                  token |-> Partial(k, sum)]
             each == {Put(l - 1, SumOfLane(r, k, i, l)) : l \in ExpandedLanes(r, k, i)}
             one  == {Put(IF UseRankLayout THEN r ELSE md.lane - 1, LocalSum(r, k, i))}
  <2>2. stores' = stores \cup (IF Expanded(k) /\ ~setup.multiple THEN each ELSE one)
    BY <2>1 DEF SendBack
  <2>3. \A m \in each : Fields(m)
    BY DEF Fields
  <2>4. \A m \in one : Fields(m)
    BY DEF Fields
  <2> HIDE DEF each, one, k
  <2>5. \A m \in stores' : Fields(m)
    BY <2>2, <2>3, <2>4 DEF StoreFields
  <2> QED BY <2>5 DEF StoreFields, Fields
<1> QED BY <1>1, <1>2, <1>3, <1>4, StepTokens

\* What is on its way: tokens for places of the buffer, and counts.
LEMMA StoresTyped ==
  ASSUME IInv, SInv, TInv, BInv, StoreFields
  PROVE  stores \subseteq StoreSet
<1> SUFFICES ASSUME NEW m \in stores
             PROVE  m \in StoreSet
  OBVIOUS
<1>1. m.to \in Ranks /\ m.from \in Ranks /\ m.at \in Places /\ m.token \in TokenSet
  BY StoredTokens
<1>2. m = [from |-> m.from, to |-> m.to, at |-> m.at, token |-> m.token]
  BY DEF StoreFields, Fields
<1> QED BY <1>1, <1>2 DEF StoreSet

LEMMA CountsTyped ==
  ASSUME IInv, WordsInv
  PROVE  counts \subseteq CountSet
<1> SUFFICES ASSUME NEW m \in counts
             PROVE  m \in CountSet
  OBVIOUS
<1>1. setup \in Setups /\ m.from \in Ranks /\ m.to \in Ranks
  BY DEF IInv, CountTypes, Issued
<1>2. PICK k \in Calls, s \in Ranks, d \in Ranks : m = Owed(k, s, d)
  BY <1>1 DEF WordsInv, OnTheWay
<1>3. Count(k, s, d) \in Nat /\ \A e : ExpertCount(k, s, e) \in Nat
  BY <1>1, CountFacts
<1>4. Encode(Count(k, s, d)) \in Int /\ \A e : Encode(ExpertCount(k, s, e)) \in Int
  BY <1>3, EncodeFacts
<1> QED BY <1>2, <1>4 DEF Owed, CountSet

\* The warps of a kernel are through with items of the kernel.
LEMMA DoneTyped ==
  ASSUME IInv, SInv, CInv, EInv, BInv, RInv, HInv, NEW r \in Ranks, stage[r] # "idle"
  PROVE  done[r] \subseteq Items(r)
<1>1. PICK k \in Calls : k = CallOf(r)
  BY AtWork
<1>2. setup \in Setups /\ k \in Nat /\ stage[r] \in {"enter", "work", "leave"}
  BY PlaceFacts
<1>3. Kind(r) \in {"dispatch", "cached", "combine"}
  <2>1. Prog \in Seq(Call)
    BY <1>2, SetupsAssumption DEF Prog
  <2>2. Prog[k] \in Call
    BY <2>1 DEF Calls
  <2> QED BY <1>1, <2>2 DEF Call, Kind
<1>4. CASE stage[r] = "enter"
  BY <1>4 DEF SInv, DoneInv
<1>5. CASE stage[r] # "enter" /\ OnMain(r) /\ Kind(r) \in AnyDispatch
  <2>1. done[r] \subseteq PairsOf(CallOf(r), r)
    BY <1>2, <1>5 DEF SInv, DoneInv, Sending
  <2> QED BY <1>5, <2>1, ItemsArePairs
<1>6. CASE stage[r] # "enter" /\ OnMain(r) /\ Kind(r) = "combine"
  <2>1. kernels[r] = 2 * k - 2 /\ Prog[k].kind = "combine"
    BY <1>1, <1>6, PlaceFacts DEF Kind
  <2>2. Items(r) = DOMAIN handle[r][Home(k)].meta
    BY <1>1, <1>2, <1>6, <2>1, BackItems
  <2>3. CASE stage[r] = "work"
    BY <1>1, <1>6, <2>2, <2>3 DEF HInv, BackBegun
  <2>4. CASE stage[r] = "leave"
    BY <1>1, <1>6, <2>2, <2>4 DEF BInv, BackDone
  <2> QED BY <1>2, <1>6, <2>3, <2>4
<1>7. CASE ~OnMain(r)
  <2>1. stage[r] = "work" /\ kernels[r] = 2 * k - 1 /\ ~(kernels[r] >= 2 * k)
    BY <1>1, <1>2, <1>7, PlaceFacts
  <2>2. CASE Kind(r) = "combine"
    <3>1. Prog[k].kind = "combine"
      BY <1>1, <2>2 DEF Kind
    <3>2. Summed(r, k) = done[r]
      BY <2>1 DEF Summed
    <3>3. done[r] \subseteq DOMAIN Rows(k, r)
      BY <3>1, <3>2 DEF RInv, SumsInv
    <3>4. Items(r) = DOMAIN Rows(k, r)
      BY <1>1, <1>7, <2>2 DEF Items, AnyDispatch
    <3> QED BY <3>3, <3>4
  <2>3. CASE Kind(r) \in AnyDispatch
    <3>1. Prog[k].kind \in AnyDispatch
      BY <1>1, <2>3 DEF Kind
    <3>2. Copied(r, k) = done[r]
      BY <2>1 DEF Copied
    <3>3. MetaInv(r, k)
      BY <3>1 DEF EInv, TensorInv
    <3>4. EpilogueAt(r, k) /\ kernels[r] >= 2 * k - 1
      BY <1>2, <2>1 DEF EpilogueAt
    <3>5. NumRecv(r, k) = ReceivedFrom(k, r, Ranks)
      BY <3>4, NumRight
    <3>6. Items(r) = 0 .. NumRecv(r, k) - 1
      BY <1>1, <1>7, <2>3 DEF Items, AnyDispatch
    <3>7. ASSUME NEW i \in done[r]
          PROVE  i \in 0 .. ReceivedFrom(k, r, Ranks) - 1
      <4>1. IsItem(r, k, i, handle[r][k].meta[i].rank, handle[r][k].meta[i].tok)
        BY <3>2, <3>3 DEF MetaInv
      <4> QED BY <3>1, <3>4, <4>1, ItemRange
    <3> QED BY <3>5, <3>6, <3>7
  <2> QED BY <1>3, <2>2, <2>3 DEF AnyDispatch
<1> QED BY <1>2, <1>3, <1>4, <1>5, <1>6, <1>7 DEF AnyDispatch

-----------------------------------------------------------------------------

\* All that the types rest on.
AllInv == /\ IInv /\ WordsInv /\ SInv /\ TInv /\ CInv
          /\ EInv /\ BInv /\ RInv /\ HInv /\ StoreFields /\ Shapes

LEMMA TypesFromInv == AllInv => TypeOK
<1> SUFFICES ASSUME IInv, WordsInv, SInv, TInv, CInv, EInv, BInv, RInv, HInv, StoreFields, Shapes
             PROVE  TypeOK
  BY DEF AllInv
<1>0. Len(Prog) \in Nat
  <2>1. Prog \in Seq(Call)
    BY SetupsAssumption DEF IInv, CountTypes, Prog
  <2> QED BY <2>1
<1>1. \A r \in Ranks : call[r] \in 0 .. Len(Prog) /\ kernels[r] \in 0 .. 2 * Len(Prog)
  <2> SUFFICES ASSUME NEW r \in Ranks
               PROVE  call[r] \in 0 .. Len(Prog) /\ kernels[r] \in 0 .. 2 * Len(Prog)
    OBVIOUS
  <2>1. call[r] \in Nat /\ call[r] <= Len(Prog) /\ kernels[r] \in Nat /\ kernels[r] <= Enqueued(r)
    BY DEF IInv, CountTypes, Ahead
  <2>2. Enqueued(r) <= 2 * call[r]
    BY <2>1 DEF Enqueued
  <2>3. Enqueued(r) \in Int
    BY <2>1 DEF Enqueued
  <2> QED BY <1>0, <2>1, <2>2, <2>3
<1>2. call \in [Ranks -> 0 .. Len(Prog)] /\ kernels \in [Ranks -> 0 .. 2 * Len(Prog)]
  BY <1>1 DEF IInv, CountTypes
<1>3. counted \in [Ranks -> SUBSET SMs]
  <2>1. \A r \in Ranks : counted[r] \in SUBSET SMs
    BY DEF WordsInv, Counting
  <2> QED BY <2>1 DEF Shapes, PerRank
<1>4. reduction \in [Ranks -> ReductionSet]
  BY ReductionTyped DEF Shapes, PerRank
<1>5. sender \in [Ranks -> [Ranks -> 0 .. NumMaxTokensPerRank]]
  BY SenderTyped DEF Shapes, PerRank
<1>6. stores \subseteq StoreSet /\ counts \subseteq CountSet
  BY StoresTyped, CountsTyped
<1>7. /\ DOMAIN done = Ranks /\ \A r \in Ranks : stage[r] # "idle" => done[r] \subseteq Items(r)
      /\ DOMAIN handle = Ranks /\ \A r \in Ranks : DOMAIN handle[r] = Calls
      /\ \A r \in Ranks : \A k \in Calls : HandleTyped(handle[r][k])
  BY DoneTyped, HandlesTyped DEF IInv, CountTypes
<1>8. /\ setup \in Setups /\ polling \in [Ranks -> BOOLEAN]
      /\ stage \in [Ranks -> {"idle", "enter", "work", "leave"}]
      /\ {entered, left} \subseteq [Ranks -> Nat]
  BY DEF IInv, CountTypes
<1>9. /\ notify \in [Ranks -> {"count", "wait", "done"}]
      /\ inbox \in [Ranks -> [rank : [Ranks -> Int], expert : [Ranks -> [LocalExperts -> Int]]]]
  BY DEF WordsInv, WordTypes
<1>10. /\ hostWords \in [Ranks -> HostWordSet]
       /\ taken \in [Ranks -> [Ranks -> TakenSet]]
       /\ stats \in [Ranks -> [LocalExperts -> Nat]]
       /\ buffer \in [Ranks -> [Places -> TokenSet]]
  BY DEF Shapes
<1> QED BY <1>2, <1>3, <1>4, <1>5, <1>6, <1>7, <1>8, <1>9, <1>10 DEF TypeOK, ReductionSet, HostWordSet, TakenSet

\* Any number of ranks, experts and tokens, any program: every word, counter and place keeps
\* its type.  A sender counter never passes the tokens that a rank may send; what is on its
\* way is a token for a place of the buffer, or counts of a call of the program; warps are
\* through with items that their kernel has; and what a handle holds for an item is a slot of
\* the buffer, a token, metadata or a sum, as TypeOK spells out.
THEOREM TypesKept == Spec => []TypeOK
<1>1. IInv /\ WordsInv /\ SInv /\ TInv /\ BInv /\ Shapes /\ [Next]_vars => Shapes'
  BY ShapesStep
<1>2. Spec => [](IInv /\ WordsInv /\ SInv /\ TInv /\ CInv /\ EInv /\ BInv /\ RInv)
  BY Invariance, CountsInOnePlace, TokensInPlace, NumbersInPlace, TensorsInPlace, SumsInPlace, PTL
<1>3. Spec => []AllInv
  BY <1>1, <1>2, ShapesInit, HInit, HStep, FieldsInit, FieldsStep, PTL DEF Spec, AllInv
<1> QED BY <1>3, TypesFromInv, PTL

=============================================================================
