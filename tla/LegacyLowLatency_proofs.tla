---------------------- MODULE LegacyLowLatency_proofs ----------------------
(* Proofs about LegacyLowLatency: two buffers in turn are enough, with no   *)
(* barrier between the calls, as long as no rank fails.  First the signals, *)
(* then the tokens that they announce, and what is made of them.            *)
EXTENDS LegacyLowLatency, TLAPS, FiniteSetTheorems

\* Without failures, nobody is ever masked.
NoFailures == \A p \in Setups : p.mayFail = {}

-----------------------------------------------------------------------------
(* The inductive invariant. *)

NonClean(k) == Kind(k) # "clean"

\* Rank r has cleaned the words of the other buffer in call k, or of both if that is its task.
CleanedIn(r, k) ==
  calls[r] >= k \/ (calls[r] = k - 1 /\ stage[r] \in {"cleaned", "receive", "reduce", "close"})
Signalled(r, k) ==
  calls[r] >= k \/ (calls[r] = k - 1 /\ stage[r] \in {"receive", "reduce"})

IsSignal(q, i) == i \in DOMAIN wire[q] /\ wire[q][i].word >= 0
Pending(q, b)  == \E i \in DOMAIN wire[q] : IsSignal(q, i) /\ wire[q][i].buf = b
\* The signal of call k from local expert le of s is in the word of d.
Landed(s, d, le, k) == Signalled(s, k) /\ ~Pending(<<s, d, le>>, Buf(k))

\* Barriers of cleaning calls that a rank has arrived at.
Cleans(n) == Cardinality({m \in 1 .. n : Kind(m) = "clean"})
ArrivalsBy(n, st) == 2 * Cleans(n) + (IF st \in {"open", "zero"} THEN 1
                                      ELSE IF st = "close" THEN 2 ELSE 0)
Arrivals(r) == ArrivalsBy(calls[r], stage[r])

IsSequence(q) == q \in Seq({q[i] : i \in DOMAIN q})
WordsThere(ws) ==
  /\ DOMAIN ws = Ranks
  /\ \A r \in Ranks : DOMAIN ws[r] = Buffers /\ \A b \in Buffers : DOMAIN ws[r][b] = 0 .. NumWords - 1
Stages == {"idle", "sent", "cleaned", "receive", "reduce", "open", "zero", "close"}
Types ==
  /\ prog \in Setups /\ alive = Ranks /\ mask = [r \in Ranks |-> {}]
  /\ calls \in [Ranks -> Nat] /\ stage \in [Ranks -> Stages]
  /\ \A r \in Ranks : calls[r] <= Len(prog.calls)
  /\ seen \in [Ranks -> SUBSET (Experts \cup Ranks)]
  /\ sync \in [Ranks -> [Ranks -> Int]]
  /\ WordsThere(words)
  /\ DOMAIN wire = Ranks \X Ranks \X LocalExperts
  /\ \A q \in DOMAIN wire : IsSequence(wire[q])

\* Stages fit the calls, and what has been seen fits the stage.
Fits(r) ==
  /\ stage[r] # "idle" => Now(r) \in Calls
  /\ stage[r] \in {"sent", "cleaned", "receive", "reduce"} => NonClean(Now(r))
  /\ stage[r] \in {"open", "zero", "close"} => ~NonClean(Now(r))
  /\ stage[r] \notin {"receive", "open", "close"} => seen[r] = {}
  /\ Kind(Now(r)) = "combine" => seen[r] = {}
  /\ stage[r] = "reduce" => Kind(Now(r)) = "combine"
  /\ stage[r] = "receive" => seen[r] \subseteq Experts
  /\ stage[r] \in {"open", "close"} => seen[r] \subseteq Ranks
StagesFit == \A r \in Ranks : Fits(r)

\* No rank ends a call before every rank has done its part in it.
DoneIn(d, k) == CleanedIn(d, k) /\ (NonClean(k) => Signalled(d, k))
Onward == \A s, d \in Ranks : \A k \in Calls : calls[s] >= k => DoneIn(d, k)

\* A signal on its way is that of a call its receiver has not ended.
SignalOf(k, s, d, le, i) ==
  /\ NonClean(k) /\ Signalled(s, k) /\ calls[d] < k /\ s # d
  /\ wire[<<s, d, le>>][i].buf = Buf(k)
  /\ wire[<<s, d, le>>][i].word = SignalWord(k, s, le)
  /\ wire[<<s, d, le>>][i].value = SignalValue(k, s, d, le)
  /\ wire[<<s, d, le>>][i].moves = {}
OnTheWay ==
  \A s, d \in Ranks, le \in LocalExperts : \A i \in DOMAIN wire[<<s, d, le>>] :
    IsSignal(<<s, d, le>>, i) => \E k \in Calls : SignalOf(k, s, d, le, i)
\* A queue pair holds at most one signal for a buffer.
OneSignal ==
  \A q \in DOMAIN wire : \A i, j \in DOMAIN wire[q] :
    IsSignal(q, i) /\ IsSignal(q, j) /\ wire[q][i].buf = wire[q][j].buf => i = j

\* What is in a word is the signal of one call, until the receiver cleans it in the next.
Dirty(d) == prog.dirty /\ calls[d] = 0 /\ stage[d] \in {"idle", "open", "zero"}
WordOf(d, b, w, k, s, le) ==
  /\ NonClean(k) /\ Buf(k) = b /\ SignalWord(k, s, le) = w
  /\ Landed(s, d, le, k) /\ ~CleanedIn(d, k + 1)
  /\ words[d][b][w] = SignalValue(k, s, d, le)
WordsKnown ==
  \A d \in Ranks, b \in Buffers : \A w \in 0 .. NumWords - 1 :
    words[d][b][w] # 0 =>
      Dirty(d) \/ \E k \in Calls, s \in Ranks, le \in LocalExperts : WordOf(d, b, w, k, s, le)

\* What the receiving phase has seen.
LandedFor(r, es) == \A e \in es : Landed(RankOf(e), r, LocalOf(e), Now(r))
SeenBy(r) ==
  /\ stage[r] = "receive" => LandedFor(r, seen[r])
  /\ stage[r] = "reduce" => LandedFor(r, Experts)
  /\ stage[r] = "close" => \A q \in seen[r] : CleanedIn(q, Now(r))
SeenLanded == \A r \in Ranks : SeenBy(r)

\* The words of the barrier count its arrivals down.
CountedDown == \A q, r \in Ranks : sync[q][r] = -Arrivals(r)

IInv == /\ Types /\ StagesFit /\ Onward /\ OnTheWay /\ OneSignal
        /\ WordsKnown /\ SeenLanded /\ CountedDown


-----------------------------------------------------------------------------
(* Setups, words and buffers. *)

LEMMA Sizes ==
  ASSUME prog \in Setups
  PROVE  /\ prog.ranks \in Nat /\ prog.ranks >= 2 /\ prog.local \in Nat /\ prog.local >= 1
         /\ Calls = 1 .. Len(prog.calls) /\ Len(prog.calls) \in Nat
         /\ Ranks = 0 .. prog.ranks - 1 /\ LocalExperts = 0 .. prog.local - 1
         /\ \A k \in Calls : Kind(k) \in Kinds
         /\ prog.dirty => Kind(1) = "clean"
<1>1. /\ prog.ranks \in Nat /\ prog.ranks >= 2 /\ {prog.local, prog.max} \subseteq Nat \ {0}
      /\ prog.dirty => prog.calls[1].kind = "clean"
      /\ Len(prog.calls) \in Nat /\ DOMAIN prog.calls = 1 .. Len(prog.calls)
      /\ \A k \in DOMAIN prog.calls : prog.calls[k].kind \in Kinds
  BY SetupsAssumption
<1>2. prog.local \in Nat /\ prog.local >= 1
  BY <1>1
<1> QED BY <1>1, <1>2 DEF Calls, Ranks, LocalExperts, Kind

\* A pair of digits is told by the number they make.
LEMMA Digits ==
  ASSUME NEW n \in Nat, NEW a \in Nat, NEW b \in 0 .. n - 1, NEW c \in Nat, NEW d \in 0 .. n - 1,
         a * n + b = c * n + d
  PROVE  a = c /\ b = d
<1>1. \A x, y \in Nat : x < y => y * n >= x * n + n
  <2> SUFFICES ASSUME NEW x \in Nat, NEW y \in Nat, x < y
               PROVE  y * n >= x * n + n
    OBVIOUS
  <2>1. PICK z \in Nat : y = x + 1 + z
    <3>1. y - x - 1 \in Nat /\ y = x + 1 + (y - x - 1)
      OBVIOUS
    <3> QED BY <3>1
  <2>2. y * n = x * n + n + z * n /\ z * n \in Nat /\ x * n \in Nat
    BY <2>1
  <2> QED BY <2>2
<1>2. a * n \in Nat /\ c * n \in Nat
  OBVIOUS
<1>3. ~(a < c)
  BY <1>1, <1>2
<1>4. ~(c < a)
  BY <1>1, <1>2
<1>5. a = c
  BY <1>3, <1>4
<1> QED BY <1>2, <1>5

\* ... and is below the product of the bases.
LEMMA DigitsBelow ==
  ASSUME NEW n \in Nat, NEW m \in Nat, NEW a \in 0 .. m - 1, NEW b \in 0 .. n - 1
  PROVE  a * n + b \in 0 .. m * n - 1
<1>1. PICK z \in Nat : m = a + 1 + z
  <2>1. m - a - 1 \in Nat /\ m = a + 1 + (m - a - 1)
    OBVIOUS
  <2> QED BY <2>1
<1>2. m * n = a * n + n + z * n /\ z * n \in Nat /\ a * n \in Nat
  BY <1>1
<1> QED BY <1>2

LEMMA ExpertNumbers ==
  ASSUME prog \in Setups
  PROVE  /\ \A e \in Experts : RankOf(e) \in Ranks /\ LocalOf(e) \in LocalExperts
                               /\ Expert(RankOf(e), LocalOf(e)) = e
         /\ \A r \in Ranks, le \in LocalExperts :
              Expert(r, le) \in Experts /\ RankOf(Expert(r, le)) = r /\ LocalOf(Expert(r, le)) = le
<1> DEFINE n == prog.local
<1>1. n \in Nat /\ n >= 1 /\ prog.ranks \in Nat
  BY Sizes
<1>2. ASSUME NEW e \in Experts
      PROVE  /\ RankOf(e) \in Nat /\ LocalOf(e) \in LocalExperts
             /\ e = RankOf(e) * n + LocalOf(e) /\ RankOf(e) < prog.ranks
  <2>1. e \in Nat /\ e < prog.ranks * n
    BY <1>1 DEF Experts
  <2>2. e \div n \in Nat /\ e % n \in 0 .. n - 1 /\ e = (e \div n) * n + (e % n)
    <3> HIDE DEF n
    <3>1. e % n \in 0 .. n - 1 /\ e = n * (e \div n) + (e % n) /\ e \div n \in Nat
      BY <1>1, <2>1
    <3>2. n * (e \div n) = (e \div n) * n
      BY <1>1, <3>1
    <3> QED BY <3>1, <3>2
  <2>3. e \div n < prog.ranks
    <3>1. SUFFICES ASSUME e \div n >= prog.ranks
                   PROVE  FALSE
      BY <1>1, <2>2
    <3>2. PICK z \in Nat : e \div n = prog.ranks + z
      <4>1. e \div n - prog.ranks \in Nat /\ e \div n = prog.ranks + (e \div n - prog.ranks)
        BY <1>1, <2>2, <3>1
      <4> QED BY <4>1
    <3>3. (e \div n) * n = prog.ranks * n + z * n /\ z * n \in Nat /\ prog.ranks * n \in Nat
      BY <1>1, <3>2
    <3> HIDE DEF n
    <3>4. e % n >= 0 /\ e = prog.ranks * n + z * n + (e % n)
      BY <2>2, <3>3
    <3> QED BY <2>1, <2>2, <3>3, <3>4
  <2>4. e \div n = RankOf(e) /\ e % n = LocalOf(e)
    BY DEF RankOf, LocalOf
  <2> HIDE DEF n
  <2>5. LocalExperts = 0 .. n - 1
    BY DEF LocalExperts, n
  <2> QED BY <2>2, <2>3, <2>4, <2>5
<1>3. ASSUME NEW r \in Ranks, NEW le \in LocalExperts
      PROVE  Expert(r, le) \in Experts
  <2>1. r \in 0 .. prog.ranks - 1 /\ le \in 0 .. n - 1
    BY DEF Ranks, LocalExperts
  <2>2. r * n + le \in 0 .. prog.ranks * n - 1
    BY <1>1, <2>1, DigitsBelow
  <2> QED BY <2>2 DEF Expert, Experts
<1>4. ASSUME NEW r \in Ranks, NEW le \in LocalExperts
      PROVE  RankOf(Expert(r, le)) = r /\ LocalOf(Expert(r, le)) = le
  <2> DEFINE e == Expert(r, le)
  <2>1. r \in Nat /\ le \in 0 .. n - 1 /\ e = r * n + le
    BY <1>1 DEF Ranks, LocalExperts, Expert
  <2>2. RankOf(e) \in Nat /\ LocalOf(e) \in 0 .. n - 1 /\ e = RankOf(e) * n + LocalOf(e)
    BY <1>2, <1>3 DEF LocalExperts
  <2>3. r * n + le = RankOf(e) * n + LocalOf(e)
    BY <2>1, <2>2
  <2> DEFINE a == RankOf(e)
             b == LocalOf(e)
  <2>4. n \in Nat /\ r \in Nat /\ a \in Nat /\ le \in 0 .. n - 1 /\ b \in 0 .. n - 1
        /\ r * n + le = a * n + b
    BY <1>1, <2>1, <2>2, <2>3
  <2> HIDE DEF n, a, b
  <2>5. r = a /\ le = b
    BY <2>4, Digits
  <2> QED BY <2>5 DEF a, b
<1>5. \A e \in Experts : RankOf(e) \in Ranks /\ Expert(RankOf(e), LocalOf(e)) = e
  BY <1>1, <1>2 DEF Ranks, Expert
<1> QED BY <1>2, <1>3, <1>4, <1>5

\* A word of a buffer belongs to one signal of a call.
LEMMA WordsApart ==
  ASSUME prog \in Setups, NEW k,
         NEW s \in Ranks, NEW le \in LocalExperts
  PROVE  /\ SignalWord(k, s, le) \in 0 .. NumWords - 1
         /\ \A s2 \in Ranks, le2 \in LocalExperts :
              SignalWord(k, s2, le2) = SignalWord(k, s, le) => s2 = s /\ le2 = le
<1>1. /\ prog.ranks \in Nat /\ prog.local \in Nat /\ prog.ranks * prog.local = prog.local * prog.ranks
      /\ s \in 0 .. prog.ranks - 1 /\ le \in 0 .. prog.local - 1
  BY Sizes
<1>2. le * prog.ranks + s \in 0 .. NumWords - 1
  BY <1>1, DigitsBelow DEF NumWords
<1>3. s * prog.local + le \in 0 .. NumWords - 1
  BY <1>1, DigitsBelow DEF NumWords
<1>4. ASSUME NEW s2 \in Ranks, NEW le2 \in LocalExperts,
             SignalWord(k, s2, le2) = SignalWord(k, s, le)
      PROVE  s2 = s /\ le2 = le
  <2>1. s2 \in 0 .. prog.ranks - 1 /\ le2 \in 0 .. prog.local - 1
    BY Sizes
  <2>2. CASE Kind(k) = "dispatch"
    <3>1. le2 * prog.ranks + s2 = le * prog.ranks + s
      BY <1>4, <2>2 DEF SignalWord, CountWord
    <3> QED BY <1>1, <2>1, <3>1, Digits
  <2>3. CASE Kind(k) # "dispatch"
    <3>1. s2 * prog.local + le2 = s * prog.local + le
      BY <1>4, <2>3 DEF SignalWord, FlagWord, Expert
    <3> QED BY <1>1, <2>1, <3>1, Digits
  <2> QED BY <2>2, <2>3
<1> QED BY <1>2, <1>3, <1>4 DEF SignalWord, CountWord, FlagWord, Expert

\* A call that is no cleaning hands the other buffer to the next one.
LEMMA BuffersTurn ==
  ASSUME NEW k \in Nat \ {0}
  PROVE  Buf(k) \in Buffers /\ (NonClean(k) => Buf(k + 1) = 1 - Buf(k))
<1> DEFINE S(j) == {m \in 1 .. j - 1 : Kind(m) # "clean"}
<1>1. IsFiniteSet(S(k)) /\ Cardinality(S(k)) \in Nat
  <2>1. IsFiniteSet(1 .. k - 1)
    BY FS_Interval
  <2> QED BY <2>1, FS_Subset, FS_CardinalityType
<1>2. Buf(k) = Cardinality(S(k)) % 2 /\ Buf(k + 1) = Cardinality(S(k + 1)) % 2
  BY DEF Buf
<1>3. ASSUME NonClean(k)
      PROVE  Cardinality(S(k + 1)) = Cardinality(S(k)) + 1
  <2>1. S(k + 1) = S(k) \cup {k} /\ k \notin S(k)
    BY <1>3 DEF NonClean
  <2> HIDE DEF S
  <2> QED BY <1>1, <2>1, FS_AddElement
<1> HIDE DEF S
<1>4. \A n \in Nat : n % 2 \in {0, 1} /\ (n + 1) % 2 = 1 - (n % 2)
  OBVIOUS
<1> QED BY <1>1, <1>2, <1>3, <1>4 DEF Buffers

LEMMA CleansStep ==
  ASSUME NEW n \in Nat
  PROVE  /\ Cleans(n) \in Nat
         /\ Cleans(n + 1) = Cleans(n) + (IF NonClean(n + 1) THEN 0 ELSE 1)
         /\ \A m \in 0 .. n : Cleans(m) <= Cleans(n)
<1> DEFINE S(j) == {m \in 1 .. j : Kind(m) = "clean"}
<1>1. \A j \in Nat : IsFiniteSet(S(j)) /\ Cardinality(S(j)) \in Nat /\ Cleans(j) = Cardinality(S(j))
  <2>1. \A j \in Nat : IsFiniteSet(1 .. j)
    BY FS_Interval
  <2> QED BY <2>1, FS_Subset, FS_CardinalityType DEF Cleans
<1>2. Cleans(n + 1) = Cleans(n) + (IF NonClean(n + 1) THEN 0 ELSE 1)
  <2>1. CASE NonClean(n + 1)
    <3>1. S(n + 1) = S(n) /\ n + 1 \in Nat
      BY <2>1 DEF NonClean
    <3> HIDE DEF S
    <3> QED BY <1>1, <2>1, <3>1
  <2>2. CASE ~NonClean(n + 1)
    <3>1. S(n + 1) = S(n) \cup {n + 1} /\ n + 1 \notin S(n)
      BY <2>2 DEF NonClean
    <3> HIDE DEF S
    <3> QED BY <1>1, <2>2, <3>1, FS_AddElement
  <2> QED BY <2>1, <2>2
<1>3. \A m \in 0 .. n : Cleans(m) <= Cleans(n)
  <2> SUFFICES ASSUME NEW m \in 0 .. n
               PROVE  Cleans(m) <= Cleans(n)
    OBVIOUS
  <2>1. S(m) \in SUBSET S(n)
    OBVIOUS
  <2> HIDE DEF S
  <2> QED BY <1>1, <2>1, FS_Subset
<1> QED BY <1>1, <1>2, <1>3

-----------------------------------------------------------------------------
(* What the invariant says of calls. *)

LEMMA Behind ==
  ASSUME IInv, NEW s \in Ranks, NEW d \in Ranks, NEW k \in Calls, Signalled(s, k)
  PROVE  \A m \in Calls : m < k => CleanedIn(d, m)
<1>1. k \in Nat /\ calls[s] \in Nat /\ \A m \in Calls : m \in Nat
  BY Sizes DEF IInv, Types
<1>2. calls[s] >= k - 1
  BY <1>1 DEF Signalled
<1> QED BY <1>1, <1>2 DEF IInv, Onward, DoneIn

\* Two calls that use a buffer, and have signalled, are the same one while the receiver has not
\* cleaned after either.
LEMMA SameCall ==
  ASSUME IInv, NEW d \in Ranks, NEW s1 \in Ranks, NEW s2 \in Ranks, NEW k1 \in Calls, NEW k2 \in Calls,
         NonClean(k1), NonClean(k2), Buf(k1) = Buf(k2), Signalled(s1, k1), Signalled(s2, k2),
         ~CleanedIn(d, k1 + 1), ~CleanedIn(d, k2 + 1)
  PROVE  k1 = k2
<1>1. Calls = 1 .. Len(prog.calls) /\ Len(prog.calls) \in Nat
  BY Sizes DEF IInv, Types
<1>2. ASSUME NEW s \in Ranks, NEW j \in Calls, NEW k \in Calls, NonClean(j), Buf(j) = Buf(k),
             Signalled(s, k), ~CleanedIn(d, j + 1)
      PROVE  ~(j < k)
  <2> SUFFICES ASSUME j < k
               PROVE  FALSE
    OBVIOUS
  <2>1. Buf(j) \in {0, 1} /\ Buf(j + 1) = 1 - Buf(j)
    BY <1>1, <1>2, BuffersTurn DEF Buffers
  <2>2. k # j + 1
    BY <1>2, <2>1
  <2>3. j + 1 \in Calls /\ j + 1 < k
    BY <1>1, <2>2
  <2> QED BY <1>2, <2>3, Behind
<1>3. ~(k1 < k2) /\ ~(k2 < k1)
  BY <1>2
<1> QED BY <1>1, <1>3

\* A rank that is about to signal has no signal left for the same buffer.
LEMMA NotYet ==
  ASSUME IInv, NEW s \in Ranks, NEW d \in Ranks, stage[s] = "cleaned",
         NEW k \in Calls, NonClean(k), Signalled(s, k), ~CleanedIn(d, k + 1)
  PROVE  Buf(k) # Buf(Now(s))
<1>1. Calls = 1 .. Len(prog.calls) /\ Len(prog.calls) \in Nat /\ calls[s] \in Nat
  BY Sizes DEF IInv, Types
<1>2. Now(s) \in Calls /\ Now(s) = calls[s] + 1
  BY DEF IInv, StagesFit, Fits, Now
<1>3. calls[s] >= k
  BY DEF Signalled
<1>4. Buf(k) \in {0, 1} /\ Buf(k + 1) = 1 - Buf(k)
  BY <1>1, BuffersTurn DEF Buffers
<1>5. CASE calls[s] = k
  BY <1>2, <1>4, <1>5
<1>6. CASE calls[s] # k
  <2>1. calls[s] >= k + 1 /\ k + 1 \in Calls
    BY <1>1, <1>2, <1>3, <1>6
  <2> QED BY <2>1 DEF IInv, Onward, DoneIn
<1> QED BY <1>5, <1>6

\* What a rank reads in its receiving phase is the signal of its own call.
LEMMA KnownSignal ==
  ASSUME IInv, NEW r \in Ranks, stage[r] = "receive", NEW s \in Ranks, NEW le \in LocalExperts,
         HasSignal(r, Buf(Now(r)), SignalWord(Now(r), s, le))
  PROVE  /\ Landed(s, r, le, Now(r))
         /\ words[r][Buf(Now(r))][SignalWord(Now(r), s, le)] = SignalValue(Now(r), s, r, le)
<1> DEFINE k == Now(r)
           w == SignalWord(k, s, le)
<1>1. /\ k \in Calls /\ NonClean(k) /\ k = calls[r] + 1 /\ calls[r] \in Nat
      /\ prog \in Setups
  BY DEF IInv, StagesFit, Fits, Now, Types
<1>2. Buf(k) \in Buffers /\ w \in 0 .. NumWords - 1
  <2>1. k \in Nat \ {0}
    BY <1>1
  <2> QED BY <1>1, <2>1, BuffersTurn, WordsApart
<1>3. ~Dirty(r)
  BY DEF Dirty
<1>4. PICK j \in Calls, s2 \in Ranks, le2 \in LocalExperts :
        /\ NonClean(j) /\ Buf(j) = Buf(k) /\ SignalWord(j, s2, le2) = w
        /\ Landed(s2, r, le2, j) /\ ~CleanedIn(r, j + 1)
        /\ words[r][Buf(k)][w] = SignalValue(j, s2, r, le2)
  BY <1>2, <1>3 DEF IInv, WordsKnown, WordOf, HasSignal
<1>5. Signalled(r, k) /\ ~CleanedIn(r, k + 1)
  BY <1>1 DEF Signalled, CleanedIn
<1>6. j = k
  BY <1>1, <1>4, <1>5, SameCall DEF Landed
<1>7. s2 = s /\ le2 = le
  BY <1>1, <1>4, <1>6, WordsApart
<1> QED BY <1>4, <1>6, <1>7

\* A signal on its way meets a clean word.
LEMMA MeetsZero == IInv => SignalsMeetZero
<1> SUFFICES ASSUME IInv, NEW q \in DOMAIN wire, NEW i \in DOMAIN wire[q], wire[q][i].word >= 0,
                    words[q[2]][wire[q][i].buf][wire[q][i].word] # 0
             PROVE  FALSE
  BY DEF SignalsMeetZero
<1>1. PICK s \in Ranks, d \in Ranks, le \in LocalExperts : q = <<s, d, le>>
  BY DEF IInv, Types
<1>2. q[2] = d /\ prog \in Setups
  BY <1>1 DEF IInv, Types
<1>3. PICK k \in Calls : /\ NonClean(k) /\ Signalled(s, k) /\ calls[d] < k
                         /\ wire[q][i].buf = Buf(k) /\ wire[q][i].word = SignalWord(k, s, le)
  BY <1>1 DEF IInv, OnTheWay, IsSignal, SignalOf
<1>4. k \in Nat \ {0} /\ calls[d] \in Nat /\ calls[s] \in Nat /\ Calls = 1 .. Len(prog.calls)
  <2>1. Calls = 1 .. Len(prog.calls) /\ Len(prog.calls) \in Nat
    BY <1>2, Sizes
  <2>2. calls \in [Ranks -> Nat]
    BY DEF IInv, Types
  <2>3. calls[d] \in Nat /\ calls[s] \in Nat
    BY <2>2
  <2>4. k \in Nat \ {0}
    BY <2>1
  <2> QED BY <2>1, <2>3, <2>4
<1>5. Buf(k) \in Buffers /\ SignalWord(k, s, le) \in 0 .. NumWords - 1
  BY <1>2, <1>4, BuffersTurn, WordsApart
<1>6. ~Dirty(d)
  <2>1. SUFFICES ASSUME Dirty(d)
                 PROVE  FALSE
    OBVIOUS
  <2>2. Kind(1) = "clean" /\ 1 \in Calls /\ 1 < k
    <3>1. Kind(1) = "clean"
      BY <1>2, <2>1, Sizes DEF Dirty
    <3>2. k # 1
      BY <1>3, <3>1 DEF NonClean
    <3> QED BY <1>4, <3>1, <3>2
  <2>3. CleanedIn(d, 1)
    BY <1>3, <2>2, Behind
  <2> QED BY <2>1, <2>3 DEF Dirty, CleanedIn
<1>7. PICK j \in Calls, s2 \in Ranks, le2 \in LocalExperts :
        /\ NonClean(j) /\ Buf(j) = Buf(k) /\ SignalWord(j, s2, le2) = SignalWord(k, s, le)
        /\ Landed(s2, d, le2, j) /\ ~CleanedIn(d, j + 1)
  BY <1>2, <1>3, <1>5, <1>6 DEF IInv, WordsKnown, WordOf
<1>8. ~CleanedIn(d, k + 1)
  BY <1>3, <1>4 DEF CleanedIn
<1>9. j = k
  BY <1>3, <1>7, <1>8, SameCall DEF Landed
<1>10. s2 = s /\ le2 = le
  BY <1>2, <1>7, <1>9, WordsApart
<1> QED BY <1>1, <1>3, <1>7, <1>9, <1>10 DEF Landed, Pending, IsSignal

\* What is added to a word is a number.
LEMMA SignalValues ==
  ASSUME prog \in Setups, NEW k \in Calls, NEW s \in Ranks, NEW d, NEW le
  PROVE  SignalValue(k, s, d, le) \in Int
<1>1. CASE Kind(k) = "dispatch"
  <2> DEFINE x == Expert(d, le)
  <2>1. Source(k) = k
    BY <1>1 DEF Source
  <2>2. prog.calls[k].rows[s] \in Seq(SUBSET (0 .. prog.ranks * prog.local - 1))
    BY <1>1, SetupsAssumption DEF Kind, Calls, Ranks
  <2>3. PICK n \in Nat : DOMAIN Rows(k, s) = 1 .. n
    BY <2>1, <2>2 DEF Rows
  <2>4. IsFiniteSet(1 .. n)
    BY FS_Interval
  <2> HIDE DEF x
  <2>5. TokensFor(k, s, x) \in SUBSET (1 .. n)
    BY <2>3 DEF TokensFor
  <2>6. Cardinality(TokensFor(k, s, x)) \in Nat
    BY <2>4, <2>5, FS_Subset, FS_CardinalityType
  <2>7. SignalValue(k, s, d, le) = -Cardinality(TokensFor(k, s, x)) - 1
    BY <1>1 DEF SignalValue, x
  <2> QED BY <2>6, <2>7
<1>2. CASE Kind(k) # "dispatch"
  BY <1>2 DEF SignalValue
<1> QED BY <1>1, <1>2

\* A rank that is about to signal has nothing in its own words.
LEMMA OwnWordClean ==
  ASSUME IInv, NEW r \in Ranks, stage[r] = "cleaned", NEW le \in LocalExperts, NEW k, k = Now(r)
  PROVE  words[r][Buf(k)][SignalWord(k, r, le)] = 0
<1> DEFINE w == SignalWord(k, r, le)
<1>1. /\ k \in Calls /\ NonClean(k) /\ k = calls[r] + 1 /\ calls[r] \in Nat
      /\ prog \in Setups /\ Calls = 1 .. Len(prog.calls) /\ Len(prog.calls) \in Nat
  BY Sizes DEF IInv, StagesFit, Fits, Now, Types
<1>2. Buf(k) \in Buffers /\ w \in 0 .. NumWords - 1
  BY <1>1, BuffersTurn, WordsApart
<1>3. SUFFICES ASSUME words[r][Buf(k)][w] # 0
               PROVE  FALSE
  OBVIOUS
<1>4. ~Dirty(r)
  BY DEF Dirty
<1>5. PICK j \in Calls, s2 \in Ranks, le2 \in LocalExperts :
        /\ NonClean(j) /\ Buf(j) = Buf(k) /\ SignalWord(j, s2, le2) = w
        /\ Landed(s2, r, le2, j) /\ ~CleanedIn(r, j + 1)
  BY <1>2, <1>3, <1>4 DEF IInv, WordsKnown, WordOf
<1>6. j \in Nat \ {0} /\ Buf(j) \in {0, 1} /\ Buf(j + 1) = 1 - Buf(j)
  BY <1>1, <1>5, BuffersTurn DEF Buffers
<1>7. ~Signalled(r, k)
  BY <1>1 DEF Signalled
<1>8. CASE j < k
  <2>1. j + 1 # k
    BY <1>5, <1>6
  <2>2. calls[r] >= j + 1
    BY <1>1, <1>6, <1>8, <2>1
  <2> QED BY <1>5, <2>2 DEF CleanedIn
<1>9. CASE j > k
  <2>1. calls[s2] \in Nat /\ calls[s2] >= j - 1
    BY <1>5, <1>6 DEF Landed, Signalled, IInv, Types
  <2>2. calls[s2] >= k
    BY <1>1, <1>6, <1>9, <2>1
  <2> QED BY <1>1, <1>7, <2>2 DEF IInv, Onward, DoneIn
<1>10. CASE j = k
  <2>1. s2 = r
    BY <1>1, <1>5, <1>10, WordsApart
  <2> QED BY <1>5, <1>7, <1>10, <2>1 DEF Landed
<1> QED BY <1>1, <1>6, <1>8, <1>9, <1>10

LEMMA ArrivalsCount ==
  ASSUME NEW n \in Nat, NEW st
  PROVE  /\ Cleans(n) \in Nat /\ ArrivalsBy(n, st) \in Nat
         /\ st \in {"open", "zero"} => ArrivalsBy(n, st) = 2 * Cleans(n) + 1
         /\ st = "close" => ArrivalsBy(n, st) = 2 * Cleans(n) + 2
         /\ st \notin {"open", "zero", "close"} => ArrivalsBy(n, st) = 2 * Cleans(n)
<1> DEFINE c == Cleans(n)
<1>1. c \in Nat
  BY CleansStep
<1>2. ArrivalsBy(n, st) = 2 * c + (IF st \in {"open", "zero"} THEN 1
                                  ELSE IF st = "close" THEN 2 ELSE 0)
  BY DEF ArrivalsBy
<1> HIDE DEF c
<1>3. CASE st \in {"open", "zero"}
  BY <1>1, <1>2, <1>3 DEF c
<1>4. CASE st = "close"
  BY <1>1, <1>2, <1>4 DEF c
<1>5. CASE st \notin {"open", "zero", "close"}
  BY <1>1, <1>2, <1>5 DEF c
<1> QED BY <1>3, <1>4, <1>5

\* A rank that counts no fewer arrivals than one behind its second barrier has cleaned, too.
LEMMA CountsMeet ==
  ASSUME IInv, NEW r \in Ranks, NEW q \in Ranks, stage[r] = "close", sync[r][q] <= sync[r][r]
  PROVE  CleanedIn(q, Now(r))
<1> DEFINE k == Now(r)
<1>1. /\ calls[r] \in Nat /\ calls[q] \in Nat /\ k = calls[r] + 1 /\ ~NonClean(k)
      /\ stage[q] \in {"open", "zero", "close"} => ~NonClean(calls[q] + 1)
      /\ prog \in Setups
  BY DEF IInv, Types, StagesFit, Fits, Now
<1>2. /\ \A n \in Nat : Cleans(n) \in Nat
      /\ \A n \in Nat : Cleans(n + 1) = Cleans(n) + (IF NonClean(n + 1) THEN 0 ELSE 1)
      /\ \A n \in Nat : \A m \in 0 .. n : Cleans(m) <= Cleans(n)
  BY CleansStep
<1>3. Arrivals(q) \in Int /\ Arrivals(r) \in Int /\ Arrivals(q) >= Arrivals(r)
  <2>1. Arrivals(q) \in Int /\ Arrivals(r) \in Int
    BY ArrivalsCount DEF IInv, Types, Arrivals
  <2>2. sync[r][q] = -Arrivals(q) /\ sync[r][r] = -Arrivals(r)
    BY DEF IInv, CountedDown
  <2> QED BY <2>1, <2>2
<1>4. Arrivals(r) = 2 * Cleans(calls[r]) + 2
  BY ArrivalsCount DEF IInv, Types, Arrivals
<1>5. CASE calls[q] >= k
  BY <1>5 DEF CleanedIn
<1>6. CASE calls[q] < k
  <2>1. Cleans(calls[q]) <= Cleans(calls[r]) /\ calls[q] <= calls[r]
    BY <1>1, <1>2, <1>6
  <2>2. stage[q] = "close"
    <3>1. SUFFICES ASSUME stage[q] # "close"
                   PROVE  FALSE
      OBVIOUS
    <3>2. Cleans(calls[q]) \in Nat /\ Cleans(calls[r]) \in Nat
          /\ Arrivals(q) <= 2 * Cleans(calls[q]) + 1
      <4>1. calls[q] \in Nat /\ calls[r] \in Nat /\ Arrivals(q) = ArrivalsBy(calls[q], stage[q])
        BY <1>1 DEF Arrivals
      <4>2. \/ Arrivals(q) = 2 * Cleans(calls[q])
            \/ Arrivals(q) = 2 * Cleans(calls[q]) + 1
        BY <3>1, <4>1, ArrivalsCount
      <4>3. Cleans(calls[q]) \in Nat /\ Cleans(calls[r]) \in Nat
        BY <4>1, CleansStep
      <4> QED BY <4>2, <4>3
    <3> QED BY <1>3, <1>4, <2>1, <3>2
  <2>3. Arrivals(q) = 2 * Cleans(calls[q] + 1)
    <3>1. Cleans(calls[q]) \in Nat /\ Arrivals(q) = 2 * Cleans(calls[q]) + 2
      BY <2>2, ArrivalsCount DEF IInv, Types, Arrivals
    <3>2. Cleans(calls[q] + 1) = Cleans(calls[q]) + 1
      BY <1>1, <1>2, <2>2
    <3> QED BY <3>1, <3>2
  <2>4. ~(calls[q] + 1 <= calls[r])
    <3>1. SUFFICES ASSUME calls[q] + 1 <= calls[r]
                   PROVE  FALSE
      OBVIOUS
    <3>2. Cleans(calls[q] + 1) <= Cleans(calls[r])
      BY <1>1, <1>2, <3>1
    <3>3. Cleans(calls[q] + 1) \in Nat /\ Cleans(calls[r]) \in Nat
      BY <1>1, <1>2
    <3> QED BY <1>3, <1>4, <2>3, <3>2, <3>3
  <2> QED BY <1>1, <2>1, <2>2, <2>4 DEF CleanedIn
<1> QED BY <1>1, <1>5, <1>6

-----------------------------------------------------------------------------
(* What a step leaves as it is. *)

LEMMA SetupStays ==
  ASSUME prog' = prog
  PROVE  /\ Ranks' = Ranks /\ Experts' = Experts /\ LocalExperts' = LocalExperts /\ Calls' = Calls
         /\ NumWords' = NumWords
         /\ \A k : (NonClean(k)' <=> NonClean(k)) /\ Kind(k)' = Kind(k)
         /\ \A k : Buf(k)' = Buf(k)
         /\ \A k, s, le : SignalWord(k, s, le)' = SignalWord(k, s, le)
         /\ \A k, s, d, le : SignalValue(k, s, d, le)' = SignalValue(k, s, d, le)
         /\ \A e : RankOf(e)' = RankOf(e) /\ LocalOf(e)' = LocalOf(e)
         /\ \A n : Cleans(n)' = Cleans(n)
BY DEF Ranks, Experts, LocalExperts, Calls, NumWords, NonClean, Kind, Buf, SignalWord, CountWord,
       FlagWord, Expert, RankOf, LocalOf, Cleans, SignalValue, TokensFor, Rows, Source

\* Only rank r goes on, through its stages or to its next call.
OnlyRank(r) ==
  /\ prog' = prog
  /\ \A q \in Ranks \ {r} : calls'[q] = calls[q] /\ stage'[q] = stage[q] /\ seen'[q] = seen[q]
Onwards(r) ==
  \/ calls'[r] = calls[r] + 1
  \/ /\ calls'[r] = calls[r]
     /\ stage[r] \in {"cleaned", "receive", "reduce", "close"}
          => stage'[r] \in {"cleaned", "receive", "reduce", "close"}
     /\ stage[r] \in {"receive", "reduce"} => stage'[r] \in {"receive", "reduce"}
EndsWell(r) == calls'[r] # calls[r] => \A d \in Ranks : DoneIn(d, Now(r))
AllLanded(r) == \A s \in Ranks, le \in LocalExperts : Landed(s, r, le, Now(r))

LEMMA CallsFrame ==
  ASSUME IInv, NEW r \in Ranks, OnlyRank(r), Onwards(r), EndsWell(r)
  PROVE  /\ \A s \in Ranks : \A k \in Nat : /\ Signalled(s, k) => Signalled(s, k)'
                                            /\ CleanedIn(s, k) => CleanedIn(s, k)'
         /\ Onward'
         /\ \A q \in Ranks \ {r} : Fits(q)'
<1>1. calls \in [Ranks -> Nat] /\ Calls \subseteq Nat
  <2>1. Calls = 1 .. Len(prog.calls) /\ Len(prog.calls) \in Nat
    BY Sizes DEF IInv, Types
  <2> QED BY <2>1 DEF IInv, Types
<1>2. ASSUME NEW s \in Ranks, NEW k \in Nat
      PROVE  /\ Signalled(s, k) => Signalled(s, k)'
             /\ CleanedIn(s, k) => CleanedIn(s, k)'
  <2>1. CASE s # r
    <3>1. calls'[s] = calls[s] /\ stage'[s] = stage[s]
      BY <2>1 DEF OnlyRank
    <3> QED BY <3>1 DEF Signalled, CleanedIn
  <2>2. CASE s = r
    <3>1. calls[r] \in Nat
      BY <1>1
    <3> QED BY <2>2, <3>1 DEF Signalled, CleanedIn, Onwards
  <2> QED BY <2>1, <2>2
<1>3. Onward'
  <2>1. SUFFICES ASSUME NEW s \in Ranks, NEW d \in Ranks, NEW k \in Calls, calls'[s] >= k
                 PROVE  DoneIn(d, k)'
    BY SetupStays DEF Onward, OnlyRank
  <2>0. DoneIn(d, k) => DoneIn(d, k)'
    BY <1>1, <1>2, SetupStays DEF DoneIn, OnlyRank
  <2>2. CASE calls[s] >= k
    BY <1>1, <2>0, <2>2 DEF IInv, Onward
  <2>3. CASE ~(calls[s] >= k)
    <3>1. s = r
      BY <2>1, <2>3 DEF OnlyRank
    <3>2. k = Now(r) /\ calls'[r] # calls[r]
      BY <1>1, <2>1, <2>3, <3>1 DEF Onwards, Now
    <3> QED BY <1>1, <2>0, <3>2 DEF EndsWell
  <2> QED BY <2>2, <2>3
<1>4. ASSUME NEW q \in Ranks \ {r}
      PROVE  Fits(q)'
  <2>1. Fits(q)
    BY DEF IInv, StagesFit
  <2>2. calls'[q] = calls[q] /\ stage'[q] = stage[q] /\ seen'[q] = seen[q]
    BY DEF OnlyRank
  <2>3. /\ Ranks' = Ranks /\ Experts' = Experts /\ Calls' = Calls
        /\ \A k : (NonClean(k)' <=> NonClean(k)) /\ Kind(k)' = Kind(k)
    BY SetupStays DEF OnlyRank
  <2>4. Now(q)' = Now(q)
    BY <2>2 DEF Now
  <2> QED BY <2>1, <2>2, <2>3, <2>4 DEF Fits
<1> QED BY <1>2, <1>3, <1>4

\* ... and no signal is handed to the network or delivered.
SignalsKept ==
  /\ DOMAIN wire' = DOMAIN wire
  /\ \A q \in DOMAIN wire : \A i :
       /\ IsSignal(q, i)' <=> IsSignal(q, i)
       /\ IsSignal(q, i) => wire'[q][i] = wire[q][i]

LEMMA WireFrame ==
  ASSUME IInv, NEW r \in Ranks, OnlyRank(r), Onwards(r), EndsWell(r), SignalsKept,
         calls'[r] # calls[r] /\ NonClean(Now(r)) => AllLanded(r)
  PROVE  /\ \A s, d \in Ranks, le \in LocalExperts : \A k \in Nat :
              Landed(s, d, le, k) => Landed(s, d, le, k)'
         /\ OnTheWay' /\ OneSignal'
         /\ \A q \in Ranks \ {r} : SeenBy(q)'
<1>1. /\ calls \in [Ranks -> Nat] /\ Calls \subseteq Nat
      /\ DOMAIN wire = Ranks \X Ranks \X LocalExperts
      /\ \A s \in Ranks : Now(s) \in Nat
  <2>1. Calls = 1 .. Len(prog.calls) /\ Len(prog.calls) \in Nat
    BY Sizes DEF IInv, Types
  <2> QED BY <2>1 DEF IInv, Types, Now
<1>2. /\ Ranks' = Ranks /\ Experts' = Experts /\ LocalExperts' = LocalExperts /\ Calls' = Calls
      /\ \A k : NonClean(k)' <=> NonClean(k)
      /\ \A k : Buf(k)' = Buf(k)
      /\ \A k, s, le : SignalWord(k, s, le)' = SignalWord(k, s, le)
      /\ \A k, s, d, le : SignalValue(k, s, d, le)' = SignalValue(k, s, d, le)
      /\ \A e : RankOf(e)' = RankOf(e) /\ LocalOf(e)' = LocalOf(e)
  BY SetupStays DEF OnlyRank
<1>3. \A s \in Ranks : \A k \in Nat : /\ Signalled(s, k) => Signalled(s, k)'
                                      /\ CleanedIn(s, k) => CleanedIn(s, k)'
  BY CallsFrame
<1>4. \A q \in DOMAIN wire : \A b : Pending(q, b)' <=> Pending(q, b)
  BY DEF SignalsKept, Pending, IsSignal
<1>5. ASSUME NEW s \in Ranks, NEW d \in Ranks, NEW le \in LocalExperts, NEW k \in Nat,
             Landed(s, d, le, k)
      PROVE  Landed(s, d, le, k)'
  <2>1. <<s, d, le>> \in DOMAIN wire
    BY <1>1
  <2>2. Signalled(s, k)' /\ ~Pending(<<s, d, le>>, Buf(k))
    BY <1>3, <1>5 DEF Landed
  <2>3. ~Pending(<<s, d, le>>, Buf(k))'
    BY <1>4, <2>1, <2>2, <1>2 DEF Pending
  <2> QED BY <1>2, <2>2, <2>3 DEF Landed
<1>6. OnTheWay'
  <2>1. SUFFICES ASSUME NEW s \in Ranks, NEW d \in Ranks, NEW le \in LocalExperts,
                        NEW i \in DOMAIN wire'[<<s, d, le>>], IsSignal(<<s, d, le>>, i)'
                 PROVE  \E k \in Calls : SignalOf(k, s, d, le, i)'
    BY <1>2 DEF OnTheWay
  <2> DEFINE q == <<s, d, le>>
  <2>2. q \in DOMAIN wire /\ IsSignal(q, i) /\ wire'[q][i] = wire[q][i] /\ i \in DOMAIN wire[q]
    BY <1>1, <2>1 DEF SignalsKept, IsSignal
  <2>3. PICK k \in Calls : /\ NonClean(k) /\ Signalled(s, k) /\ calls[d] < k /\ s # d
                           /\ wire[q][i].buf = Buf(k) /\ wire[q][i].word = SignalWord(k, s, le)
                           /\ wire[q][i].value = SignalValue(k, s, d, le)
                           /\ wire[q][i].moves = {}
    BY <2>2 DEF IInv, OnTheWay, SignalOf
  <2>4. calls'[d] < k
    <3>1. CASE calls'[d] = calls[d]
      BY <2>3, <3>1
    <3>2. CASE calls'[d] # calls[d]
      <4>1. d = r /\ calls'[d] = calls[d] + 1
        BY <3>2 DEF OnlyRank, Onwards
      <4>2. k # Now(r)
        <5>1. SUFFICES ASSUME k = Now(r)
                       PROVE  FALSE
          OBVIOUS
        <5>2. Landed(s, r, le, k)
          BY <2>3, <3>2, <4>1, <5>1 DEF AllLanded
        <5> QED BY <2>2, <2>3, <4>1, <5>2 DEF Landed, Pending
      <4> QED BY <1>1, <2>3, <4>1, <4>2 DEF Now
    <3> QED BY <3>1, <3>2
  <2>5. Signalled(s, k)'
    BY <1>1, <1>3, <2>3
  <2>6. SignalOf(k, s, d, le, i)'
    BY <1>2, <2>2, <2>3, <2>4, <2>5 DEF SignalOf
  <2> QED BY <2>6
<1>7. OneSignal'
  <2> SUFFICES ASSUME NEW q \in DOMAIN wire, NEW i, NEW j, IsSignal(q, i)', IsSignal(q, j)',
                      wire'[q][i].buf = wire'[q][j].buf
               PROVE  i = j
    BY DEF OneSignal, SignalsKept
  <2>1. /\ IsSignal(q, i) /\ IsSignal(q, j) /\ wire[q][i].buf = wire[q][j].buf
        /\ i \in DOMAIN wire[q] /\ j \in DOMAIN wire[q]
    BY DEF SignalsKept, IsSignal
  <2> QED BY <2>1 DEF IInv, OneSignal
<1>8. \A p \in DOMAIN wire : \A i \in DOMAIN wire'[p] :
        wire'[p][i].word >= 0 => Pending(p, wire'[p][i].buf)
  BY DEF SignalsKept, IsSignal, Pending
<1>9. ASSUME NEW q \in Ranks \ {r}
      PROVE  SeenBy(q)'
  <2>1. SeenBy(q) /\ Fits(q)
    BY DEF IInv, StagesFit, SeenLanded
  <2>2. calls'[q] = calls[q] /\ stage'[q] = stage[q] /\ seen'[q] = seen[q] /\ Now(q)' = Now(q)
    BY DEF OnlyRank, Now
  <2>3. ASSUME NEW es, es \subseteq Experts, LandedFor(q, es)
        PROVE  \A e \in es : Landed(RankOf(e), q, LocalOf(e), Now(q))'
    <3>1. \A e \in es : RankOf(e) \in Ranks /\ LocalOf(e) \in LocalExperts
      BY <2>3, ExpertNumbers DEF IInv, Types
    <3>2. \A e \in es : Landed(RankOf(e), q, LocalOf(e), Now(q))
      BY <2>3 DEF LandedFor
    <3>3. ASSUME NEW e \in es
          PROVE  Landed(RankOf(e), q, LocalOf(e), Now(q))'
      <4> DEFINE a == RankOf(e)
                 le == LocalOf(e)
                 k == Now(q)
      <4>1. a \in Ranks /\ le \in LocalExperts /\ k \in Nat /\ Landed(a, q, le, k)
        BY <1>1, <3>1, <3>2
      <4>2. a' = a /\ le' = le /\ k' = k
        BY <1>2, <2>2
      <4> HIDE DEF a, le, k
      <4>3. Signalled(a, k)' /\ ~Pending(<<a, q, le>>, Buf(k))'
        <5>1. Signalled(a, k) /\ ~Pending(<<a, q, le>>, Buf(k)) /\ <<a, q, le>> \in DOMAIN wire
          BY <1>1, <4>1 DEF Landed
        <5>2. calls'[a] >= k \/ (calls'[a] = k - 1 /\ stage'[a] \in {"receive", "reduce"})
          BY <1>3, <4>1, <5>1 DEF Signalled
        <5>3. Signalled(a, k)'
          BY <4>2, <5>2 DEF Signalled
        <5>4. ~(\E i \in DOMAIN wire'[<<a, q, le>>] : /\ wire'[<<a, q, le>>][i].word >= 0
                                                     /\ wire'[<<a, q, le>>][i].buf = Buf(k))
          BY <1>8, <5>1
        <5> QED BY <1>2, <4>2, <5>3, <5>4 DEF Pending, IsSignal
      <4> QED BY <4>3 DEF Landed, a, le, k
    <3> QED BY <3>3
  <2>4. stage[q] = "receive" => LandedFor(q, seen[q])'
    BY <2>1, <2>2, <2>3 DEF SeenBy, Fits, LandedFor
  <2>5. stage[q] = "reduce" => LandedFor(q, Experts)'
    BY <1>2, <2>1, <2>3 DEF SeenBy, LandedFor
  <2>6. stage[q] = "close" => \A p \in seen[q] : CleanedIn(p, Now(q))'
    <3>1. SUFFICES ASSUME stage[q] = "close", NEW p \in seen[q]
                   PROVE  CleanedIn(p, Now(q))'
      OBVIOUS
    <3>2. p \in Ranks /\ CleanedIn(p, Now(q)) /\ Now(q) \in Nat
      BY <1>1, <2>1, <3>1 DEF Fits, SeenBy
    <3> QED BY <1>3, <2>2, <3>2 DEF CleanedIn
  <2> QED BY <2>2, <2>4, <2>5, <2>6 DEF SeenBy
<1> QED BY <1>5, <1>6, <1>7, <1>9

-----------------------------------------------------------------------------
(* Sequences of messages. *)

LEMMA SequenceIs ==
  ASSUME NEW S, NEW q \in Seq(S)
  PROVE  IsSequence(q)
<1>1. Len(q) \in Nat /\ DOMAIN q = 1 .. Len(q) /\ q \in [1 .. Len(q) -> S]
  OBVIOUS
<1>2. q \in [1 .. Len(q) -> {q[i] : i \in DOMAIN q}]
  BY <1>1
<1> QED BY <1>1, <1>2 DEF IsSequence

LEMMA AppendOne ==
  ASSUME NEW q, IsSequence(q), NEW m
  PROVE  /\ IsSequence(q \o <<m>>) /\ DOMAIN q = 1 .. Len(q) /\ Len(q) \in Nat
         /\ DOMAIN (q \o <<m>>) = 1 .. Len(q) + 1
         /\ \A i \in DOMAIN q : (q \o <<m>>)[i] = q[i]
         /\ (q \o <<m>>)[Len(q) + 1] = m
<1> DEFINE S == {q[i] : i \in DOMAIN q} \cup {m}
<1>1. q \in Seq(S) /\ <<m>> \in Seq(S)
  <2>1. q \in Seq({q[i] : i \in DOMAIN q})
    BY DEF IsSequence
  <2>2. Len(q) \in Nat /\ q \in [1 .. Len(q) -> {q[i] : i \in DOMAIN q}]
    BY <2>1
  <2>3. q \in [1 .. Len(q) -> S]
    BY <2>2
  <2> QED BY <2>2, <2>3
<1> HIDE DEF S
<1>2. q \o <<m>> \in Seq(S) /\ Len(<<m>>) = 1 /\ <<m>>[1] = m
  BY <1>1
<1>3. Len(q) \in Nat /\ DOMAIN q = 1 .. Len(q) /\ Len(q \o <<m>>) = Len(q) + 1
  BY <1>1, <1>2
<1>4. DOMAIN (q \o <<m>>) = 1 .. Len(q) + 1
  BY <1>2, <1>3
<1>5. \A i \in 1 .. Len(q) : (q \o <<m>>)[i] = q[i]
  BY <1>1, <1>2, <1>3
<1>6. (q \o <<m>>)[Len(q) + 1] = m
  BY <1>1, <1>2, <1>3
<1>7. IsSequence(q \o <<m>>)
  BY <1>2, SequenceIs
<1> QED BY <1>3, <1>4, <1>5, <1>6, <1>7

LEMMA TakeOne ==
  ASSUME NEW q, IsSequence(q), q # <<>>
  PROVE  /\ IsSequence(Tail(q)) /\ DOMAIN q = 1 .. Len(q) /\ Len(q) \in Nat /\ 1 \in DOMAIN q
         /\ Head(q) = q[1]
         /\ DOMAIN Tail(q) = 1 .. Len(q) - 1
         /\ \A i \in DOMAIN Tail(q) : i + 1 \in DOMAIN q /\ Tail(q)[i] = q[i + 1]
<1> DEFINE S == {q[i] : i \in DOMAIN q}
<1>1. q \in Seq(S)
  BY DEF IsSequence
<1> HIDE DEF S
<1>2. Tail(q) \in Seq(S) /\ Len(Tail(q)) = Len(q) - 1 /\ Len(q) \in Nat /\ Len(q) >= 1
  BY <1>1
<1>3. DOMAIN q = 1 .. Len(q) /\ DOMAIN Tail(q) = 1 .. Len(q) - 1 /\ Head(q) = q[1]
  BY <1>1, <1>2
<1>4. \A i \in 1 .. Len(q) - 1 : Tail(q)[i] = q[i + 1]
  BY <1>1, <1>2
<1>5. IsSequence(Tail(q))
  BY <1>2, SequenceIs
<1> QED BY <1>2, <1>3, <1>4, <1>5

-----------------------------------------------------------------------------
(* More of what a step leaves as it is. *)

\* Nothing is cleaned in a step that only goes from stage to stage, or ends a call.
NoCleaning(r) ==
  \/ /\ calls'[r] = calls[r]
     /\ stage'[r] \in {"cleaned", "receive", "reduce", "close"}
          => stage[r] \in {"cleaned", "receive", "reduce", "close"}
  \/ /\ calls'[r] = calls[r] + 1 /\ stage'[r] = "idle"
     /\ stage[r] \in {"cleaned", "receive", "reduce", "close"}

LEMMA NothingCleaned ==
  ASSUME IInv, NEW r \in Ranks, NoCleaning(r)
  PROVE  \A k \in Nat : CleanedIn(r, k)' => CleanedIn(r, k)
<1>1. calls[r] \in Nat
  BY DEF IInv, Types
<1> QED BY <1>1 DEF NoCleaning, CleanedIn

\* Words stay known if those that are not zero were not zero before and their rank has not cleaned.
LEMMA WordsFrame ==
  ASSUME IInv, NEW r \in Ranks, OnlyRank(r), Onwards(r), EndsWell(r), SignalsKept,
         calls'[r] # calls[r] /\ NonClean(Now(r)) => AllLanded(r),
         \A d \in Ranks, b \in Buffers : \A w \in 0 .. NumWords - 1 :
           words'[d][b][w] # 0 =>
             /\ words'[d][b][w] = words[d][b][w]
             /\ d = r => /\ Dirty(r) => Dirty(r)'
                         /\ \A k \in Calls : NonClean(k) /\ Buf(k) = b /\ ~CleanedIn(r, k + 1)
                                               => ~CleanedIn(r, k + 1)'
  PROVE  WordsKnown'
<1>1. /\ Ranks' = Ranks /\ LocalExperts' = LocalExperts /\ Calls' = Calls /\ NumWords' = NumWords
      /\ \A k : NonClean(k)' <=> NonClean(k)
      /\ \A k : Buf(k)' = Buf(k)
      /\ \A k, s, le : SignalWord(k, s, le)' = SignalWord(k, s, le)
      /\ \A k, s, d, le : SignalValue(k, s, d, le)' = SignalValue(k, s, d, le)
      /\ Buffers' = Buffers
  BY SetupStays DEF OnlyRank, Buffers
<1>2. SUFFICES ASSUME NEW d \in Ranks, NEW b \in Buffers, NEW w \in 0 .. NumWords - 1,
                      words'[d][b][w] # 0, ~Dirty(d)'
               PROVE  \E k \in Calls, s \in Ranks, le \in LocalExperts : WordOf(d, b, w, k, s, le)'
  BY <1>1 DEF WordsKnown
<1>3. \A q \in Ranks \ {r} : calls'[q] = calls[q] /\ stage'[q] = stage[q]
  BY DEF OnlyRank
<1>4. ~Dirty(d)
  <2>1. CASE d = r
    BY <1>2, <2>1
  <2>2. CASE d # r
    <3>1. calls'[d] = calls[d] /\ stage'[d] = stage[d] /\ prog' = prog
      BY <2>2, <1>3 DEF OnlyRank
    <3> QED BY <1>2, <3>1 DEF Dirty
  <2> QED BY <2>1, <2>2
<1>5. PICK k \in Calls, s \in Ranks, le \in LocalExperts : WordOf(d, b, w, k, s, le)
  BY <1>2, <1>4 DEF IInv, WordsKnown
<1>6. k \in Nat
  <2>1. Calls = 1 .. Len(prog.calls) /\ Len(prog.calls) \in Nat
    BY Sizes DEF IInv, Types
  <2> QED BY <2>1
<1>7. Landed(s, d, le, k)'
  BY <1>5, <1>6, WireFrame DEF WordOf
<1>8. ~CleanedIn(d, k + 1)'
  <2>1. CASE d = r
    BY <1>2, <1>5, <2>1 DEF WordOf
  <2>2. CASE d # r
    <3>1. calls'[d] = calls[d] /\ stage'[d] = stage[d]
      BY <2>2, <1>3
    <3> QED BY <1>5, <3>1 DEF WordOf, CleanedIn
  <2> QED BY <2>1, <2>2
<1>9. words'[d][b][w] = SignalValue(k, s, d, le)
  BY <1>2, <1>5 DEF WordOf
<1>10. WordOf(d, b, w, k, s, le)'
  BY <1>1, <1>5, <1>7, <1>8, <1>9 DEF WordOf
<1> QED BY <1>10

LEMMA ArrivalsPrimed ==
  ASSUME prog' = prog, NEW r
  PROVE  Arrivals(r)' = ArrivalsBy(calls'[r], stage'[r])
BY DEF Arrivals, ArrivalsBy, Cleans, Kind

\* The barrier's words stay right if its rank arrives nowhere.
LEMMA CountsFrame ==
  ASSUME IInv, NEW r \in Ranks, OnlyRank(r), sync' = sync,
         ArrivalsBy(calls'[r], stage'[r]) = Arrivals(r)
  PROVE  CountedDown'
<1>1. \A q \in Ranks : Arrivals(q)' = Arrivals(q)
  <2> SUFFICES ASSUME NEW q \in Ranks
               PROVE  Arrivals(q)' = Arrivals(q)
    OBVIOUS
  <2>1. Arrivals(q)' = ArrivalsBy(calls'[q], stage'[q])
    BY ArrivalsPrimed DEF OnlyRank
  <2>2. q # r => ArrivalsBy(calls'[q], stage'[q]) = Arrivals(q)
    BY DEF OnlyRank, Arrivals
  <2> QED BY <2>1, <2>2
<1>2. Ranks' = Ranks
  BY SetupStays DEF OnlyRank
<1>3. \A p, q \in Ranks : sync'[p][q] = -Arrivals(q)
  BY DEF IInv, CountedDown
<1> QED BY <1>1, <1>2, <1>3 DEF CountedDown

LEMMA IssueFacts ==
  ASSUME Types, NEW r \in Ranks, NEW messages, Issue(r, messages)
  PROVE  /\ DOMAIN wire' = DOMAIN wire
         /\ \A s, d \in Ranks, le \in LocalExperts :
              wire'[<<s, d, le>>] = IF s = r /\ d # r THEN wire[<<s, d, le>>] \o messages[<<d, le>>]
                                    ELSE wire[<<s, d, le>>]
<1>1. wire' = [q \in DOMAIN wire |-> IF q[1] = r /\ q[2] \in alive \ (mask[r] \cup {r})
                                     THEN wire[q] \o messages[<<q[2], q[3]>>] ELSE wire[q]]
  BY DEF Issue
<1>2. alive = Ranks /\ mask[r] = {} /\ DOMAIN wire = Ranks \X Ranks \X LocalExperts
  BY DEF Types
<1> QED BY <1>1, <1>2

\* Puts without a signal do not count.
PutsOnly ==
  /\ DOMAIN wire' = DOMAIN wire
  /\ \A q \in DOMAIN wire : \/ wire'[q] = wire[q]
                            \/ \E m : m.word = -1 /\ wire'[q] = wire[q] \o <<m>>

LEMMA PutsKeepSignals ==
  ASSUME Types, PutsOnly
  PROVE  SignalsKept /\ \A q \in DOMAIN wire : IsSequence(wire'[q])
<1> SUFFICES ASSUME NEW q \in DOMAIN wire
             PROVE  /\ IsSequence(wire'[q])
                    /\ \A i : /\ IsSignal(q, i)' <=> IsSignal(q, i)
                              /\ IsSignal(q, i) => wire'[q][i] = wire[q][i]
  BY DEF SignalsKept, PutsOnly
<1>1. IsSequence(wire[q])
  BY DEF Types
<1>2. CASE wire'[q] = wire[q]
  BY <1>1, <1>2 DEF IsSignal
<1>3. CASE wire'[q] # wire[q]
  <2>1. PICK m : m.word = -1 /\ wire'[q] = wire[q] \o <<m>>
    BY <1>3 DEF PutsOnly
  <2>2. /\ IsSequence(wire'[q]) /\ DOMAIN wire[q] = 1 .. Len(wire[q]) /\ Len(wire[q]) \in Nat
        /\ DOMAIN wire'[q] = 1 .. Len(wire[q]) + 1
        /\ \A i \in DOMAIN wire[q] : wire'[q][i] = wire[q][i]
        /\ wire'[q][Len(wire[q]) + 1] = m
    <3> DEFINE t == wire[q]
    <3>1. IsSequence(t) /\ wire'[q] = t \o <<m>>
      BY <1>1, <2>1
    <3> HIDE DEF t
    <3>2. /\ IsSequence(t \o <<m>>) /\ DOMAIN t = 1 .. Len(t) /\ Len(t) \in Nat
          /\ DOMAIN (t \o <<m>>) = 1 .. Len(t) + 1
          /\ \A i \in DOMAIN t : (t \o <<m>>)[i] = t[i]
          /\ (t \o <<m>>)[Len(t) + 1] = m
      BY <3>1, AppendOne
    <3> QED BY <3>1, <3>2, Zenon DEF t
  <2>3. \A i \in DOMAIN wire'[q] : i \in DOMAIN wire[q] \/ wire'[q][i].word = -1
    BY <2>1, <2>2
  <2>4. \A i : IsSignal(q, i)' <=> IsSignal(q, i)
    BY <2>2, <2>3 DEF IsSignal
  <2> QED BY <2>2, <2>4 DEF IsSignal
<1> QED BY <1>2, <1>3

LEMMA WireStays ==
  ASSUME wire' = wire
  PROVE  SignalsKept
BY DEF SignalsKept, IsSignal

-----------------------------------------------------------------------------
(* One lemma per action. *)

\* What every step but those of the network has in common, once the frames have their premises.
LEMMA StepOfRank ==
  ASSUME IInv, NEW r \in Ranks, OnlyRank(r), Onwards(r), EndsWell(r), SignalsKept,
         calls'[r] # calls[r] /\ NonClean(Now(r)) => AllLanded(r),
         Types', Fits(r)', WordsKnown', SeenBy(r)', CountedDown'
  PROVE  IInv'
<1>1. Onward' /\ \A q \in Ranks \ {r} : Fits(q)'
  BY CallsFrame
<1>2. OnTheWay' /\ OneSignal' /\ \A q \in Ranks \ {r} : SeenBy(q)'
  BY WireFrame
<1>3. Ranks' = Ranks
  BY SetupStays DEF OnlyRank
<1>4. StagesFit' /\ SeenLanded'
  BY <1>1, <1>2, <1>3 DEF StagesFit, SeenLanded
<1> QED BY <1>1, <1>2, <1>4 DEF IInv

LEMMA TypesStay ==
  ASSUME Types, prog' = prog, alive' = alive, mask' = mask, DOMAIN wire' = DOMAIN wire,
         calls' \in [Ranks -> Nat], \A r \in Ranks : calls'[r] <= Len(prog.calls),
         stage' \in [Ranks -> Stages], seen' \in [Ranks -> SUBSET (Experts \cup Ranks)],
         sync' \in [Ranks -> [Ranks -> Int]],
         WordsThere(words'),
         \A q \in DOMAIN wire : IsSequence(wire'[q])
  PROVE  Types'
<1>1. /\ Ranks' = Ranks /\ Experts' = Experts /\ LocalExperts' = LocalExperts /\ NumWords' = NumWords
      /\ Buffers' = Buffers /\ Stages' = Stages
  BY SetupStays DEF Buffers, Stages
<1> QED BY <1>1 DEF Types, WordsThere

\* What the two ways of sending have in common.
SendStep(r) ==
  /\ stage[r] = "idle" /\ calls[r] < Len(prog.calls) /\ NonClean(Now(r))
  /\ stage' = [stage EXCEPT ![r] = "sent"]
  /\ PutsOnly
  /\ UNCHANGED <<prog, calls, seen, alive, mask, sync, words, result>>

LEMMA PutOne ==
  ASSUME NEW b, NEW moves
  PROVE  PutOf(b, moves) = <<>> \/ (PutOf(b, moves) = <<PutMsg(b, moves)>> /\ PutMsg(b, moves).word = -1)
BY DEF PutOf, PutMsg

LEMMA AppendNone ==
  ASSUME NEW q, IsSequence(q)
  PROVE  q \o <<>> = q
<1>1. q \in Seq({q[i] : i \in DOMAIN q})
  BY DEF IsSequence
<1> QED BY <1>1

LEMMA IssueOfPuts ==
  ASSUME Types, NEW r \in Ranks, NEW messages, Issue(r, messages),
         \A d \in Ranks, le \in LocalExperts : \E b, moves : messages[<<d, le>>] = PutOf(b, moves)
  PROVE  PutsOnly
<1>1. /\ DOMAIN wire' = DOMAIN wire
      /\ \A s, d \in Ranks, le \in LocalExperts :
              wire'[<<s, d, le>>] = IF s = r /\ d # r THEN wire[<<s, d, le>>] \o messages[<<d, le>>]
                                    ELSE wire[<<s, d, le>>]
  BY IssueFacts
<1> SUFFICES ASSUME NEW q \in DOMAIN wire
             PROVE  \/ wire'[q] = wire[q]
                    \/ \E m : m.word = -1 /\ wire'[q] = wire[q] \o <<m>>
  BY <1>1 DEF PutsOnly
<1>2. PICK s \in Ranks, d \in Ranks, le \in LocalExperts : q = <<s, d, le>>
  BY DEF Types
<1>3. CASE ~(s = r /\ d # r)
  BY <1>1, <1>2, <1>3
<1>4. CASE s = r /\ d # r
  <2>1. wire'[q] = wire[q] \o messages[<<d, le>>] /\ IsSequence(wire[q])
    BY <1>1, <1>2, <1>4 DEF Types
  <2>2. PICK b, moves : messages[<<d, le>>] = PutOf(b, moves)
    OBVIOUS
  <2> DEFINE t == wire[q]
             v == PutOf(b, moves)
             n == PutMsg(b, moves)
  <2>3. wire'[q] = t \o v /\ IsSequence(t)
    BY <2>1, <2>2
  <2>4. v = <<>> \/ (v = <<n>> /\ n.word = -1)
    BY PutOne
  <2> HIDE DEF t, v, n
  <2>5. CASE v = <<>>
    <3>1. t \o <<>> = t
      BY <2>3, AppendNone
    <3> QED BY <2>3, <2>5, <3>1 DEF t
  <2>6. CASE v = <<n>> /\ n.word = -1
    <3>1. wire'[q] = t \o <<n>> /\ n.word = -1
      BY <2>3, <2>6
    <3> QED BY <3>1 DEF t
  <2> QED BY <2>4, <2>5, <2>6
<1> QED BY <1>3, <1>4

LEMMA SendingStep ==
  ASSUME IInv, NEW r \in Ranks, SendTokens(r) \/ SendBack(r)
  PROVE  SendStep(r)
<1>0. Types
  BY DEF IInv
<1>1. CASE SendTokens(r)
  <2> DEFINE k == Now(r)
             b == Buf(k)
  <2>1. PICK order \in SlotOrders(k, r) :
          Issue(r, [p \in Ranks \X LocalExperts |->
            PutOf(b, LET o == order[Expert(p[1], p[2])]
                     IN  {<<o[i] - 1, DispatchSlot(p[2], r, i - 1)>> : i \in DOMAIN o})])
    BY <1>1 DEF SendTokens
  <2> DEFINE messages == [p \in Ranks \X LocalExperts |->
            PutOf(b, LET o == order[Expert(p[1], p[2])]
                     IN  {<<o[i] - 1, DispatchSlot(p[2], r, i - 1)>> : i \in DOMAIN o})]
  <2>2. \A d \in Ranks, le \in LocalExperts : \E c, moves : messages[<<d, le>>] = PutOf(c, moves)
    OBVIOUS
  <2>3. Issue(r, messages)
    BY <2>1
  <2> HIDE DEF messages
  <2>4. PutsOnly
    BY <1>0, <2>2, <2>3, IssueOfPuts
  <2> QED BY <1>1, <2>4 DEF SendTokens, SendStep, IsNext, NonClean
<1>2. CASE SendBack(r)
  <2> DEFINE k == Now(r)
             b == Buf(k)
             handle == result[r][Source(k)]
             From(le, d) == (handle.range[le][d].begin + 1) ..
                              (handle.range[le][d].begin + handle.range[le][d].num)
             Moves(d, le) ==
               {<<SendRow(le, i), CombineSlot(Expert(r, le), handle.rows[le][i].tok)>> : i \in From(le, d)}
             messages == [p \in Ranks \X LocalExperts |-> PutOf(b, Moves(p[1], p[2]))]
  <2>1. Issue(r, messages)
    BY <1>2 DEF SendBack
  <2>2. \A d \in Ranks, le \in LocalExperts : \E c, moves : messages[<<d, le>>] = PutOf(c, moves)
    <3> HIDE DEF Moves
    <3> QED OBVIOUS
  <2> HIDE DEF messages
  <2>4. PutsOnly
    BY <1>0, <2>1, <2>2, IssueOfPuts
  <2> QED BY <1>2, <2>4 DEF SendBack, SendStep, IsNext, NonClean
<1> QED BY <1>1, <1>2

LEMMA SendStepKeeps ==
  ASSUME IInv, NEW r \in Ranks, SendStep(r)
  PROVE  IInv'
<1>0. Types /\ prog' = prog /\ calls[r] \in Nat /\ stage[r] = "idle" /\ stage'[r] = "sent" /\ Fits(r)
      /\ prog \in Setups
  BY DEF IInv, Types, SendStep, StagesFit
<1>1. OnlyRank(r) /\ Onwards(r) /\ EndsWell(r) /\ NoCleaning(r) /\ calls'[r] = calls[r]
  BY <1>0 DEF SendStep, OnlyRank, Onwards, EndsWell, NoCleaning, Types
<1>2. SignalsKept /\ \A q \in DOMAIN wire : IsSequence(wire'[q])
  BY <1>0, PutsKeepSignals DEF SendStep
<1>3. Types'
  <2>1. DOMAIN wire' = DOMAIN wire
    BY DEF SendStep, PutsOnly
  <2>2. stage' \in [Ranks -> Stages]
    BY <1>0 DEF SendStep, Types, Stages
  <2> QED BY <1>0, <1>2, <2>1, <2>2, TypesStay DEF SendStep, Types
<1>4. Fits(r)'
  <2>1. Now(r) \in Calls /\ Now(r)' = Now(r) /\ Calls' = Calls /\ (NonClean(Now(r))' <=> NonClean(Now(r)))
    <3>1. Calls = 1 .. Len(prog.calls) /\ Len(prog.calls) \in Nat
      BY <1>0, Sizes
    <3>2. Now(r) \in Calls
      BY <1>0, <3>1 DEF Now, SendStep
    <3> QED BY <1>0, <1>1, <3>2 DEF Now, Calls, NonClean, Kind
  <2> QED BY <1>0, <2>1 DEF SendStep, Fits
<1>5. WordsKnown'
  <2>1. \A k \in Calls : CleanedIn(r, k + 1)' => CleanedIn(r, k + 1)
    BY <1>1, NothingCleaned, Sizes DEF IInv, Types
  <2>2. ~Dirty(r)
    <3>1. SUFFICES ASSUME Dirty(r)
                   PROVE  FALSE
      OBVIOUS
    <3>2. Kind(1) = "clean" /\ Now(r) = 1
      BY <1>0, <3>1, Sizes DEF Dirty, Now
    <3> QED BY <3>2 DEF SendStep, NonClean
  <2> QED BY <1>1, <1>2, <2>1, <2>2, WordsFrame DEF SendStep
<1>6. SeenBy(r)'
  BY <1>0 DEF SeenBy
<1>7. CountedDown'
  <2>1. ArrivalsBy(calls'[r], stage'[r]) = Arrivals(r)
    BY <1>0, <1>1, ArrivalsCount DEF Arrivals
  <2> QED BY <1>1, <2>1, CountsFrame DEF SendStep
<1> QED BY <1>1, <1>2, <1>3, <1>4, <1>5, <1>6, <1>7, StepOfRank

LEMMA CleanNextKeeps ==
  ASSUME IInv, NEW r \in Ranks, CleanNext(r)
  PROVE  IInv'
<1>0. /\ Types /\ prog' = prog /\ calls[r] \in Nat /\ stage[r] = "sent" /\ stage'[r] = "cleaned" /\ Fits(r)
      /\ prog \in Setups /\ wire' = wire /\ calls' = calls /\ seen' = seen /\ sync' = sync
      /\ alive' = alive /\ mask' = mask /\ stage' = [stage EXCEPT ![r] = "cleaned"]
      /\ words' = [words EXCEPT ![r][OtherBuf(Now(r))] = [i \in DOMAIN @ |-> 0]]
  BY DEF IInv, Types, CleanNext, StagesFit
<1>1. OnlyRank(r) /\ Onwards(r) /\ EndsWell(r)
  BY <1>0 DEF OnlyRank, Onwards, EndsWell, Types
<1>2. SignalsKept
  BY <1>0, WireStays
<1>3. Now(r) \in Calls /\ NonClean(Now(r)) /\ Now(r) = calls[r] + 1 /\ calls[r] \in Nat
  BY <1>0 DEF Fits, Now
<1>4. OtherBuf(Now(r)) \in Buffers
  BY <1>3, BuffersTurn DEF OtherBuf, Buffers
<1>5. WordsThere(words)
  BY <1>0 DEF Types
<1>6. Types'
  <2>1. WordsThere(words')
    BY <1>0, <1>4, <1>5 DEF WordsThere
  <2>2. stage' \in [Ranks -> Stages]
    BY <1>0 DEF Types, Stages
  <2> QED BY <1>0, <2>1, <2>2, TypesStay DEF Types
<1>7. Fits(r)'
  <2>1. Now(r)' = Now(r) /\ Calls' = Calls /\ (NonClean(Now(r))' <=> NonClean(Now(r)))
        /\ seen[r] = {} /\ seen'[r] = {}
    BY <1>0 DEF Now, Calls, NonClean, Kind, Fits
  <2> QED BY <1>0, <1>3, <2>1 DEF Fits
<1>8. WordsKnown'
  <2>1. ASSUME NEW k \in Calls, NonClean(k), Buf(k) # OtherBuf(Now(r)), ~CleanedIn(r, k + 1)
        PROVE  ~CleanedIn(r, k + 1)'
    <3>1. k \in Nat \ {0}
      <4>1. Calls = 1 .. Len(prog.calls) /\ Len(prog.calls) \in Nat
        BY <1>0, Sizes
      <4> QED BY <4>1
    <3>2. k # calls[r]
      <4>1. SUFFICES ASSUME k = calls[r]
                     PROVE  FALSE
        OBVIOUS
      <4>2. Buf(k) \in {0, 1} /\ Buf(Now(r)) = 1 - Buf(k)
        BY <1>3, <2>1, <3>1, <4>1, BuffersTurn DEF Buffers
      <4> QED BY <2>1, <4>2 DEF OtherBuf
    <3> QED BY <1>0, <1>3, <2>1, <3>1, <3>2 DEF CleanedIn
  <2>2. ASSUME NEW d \in Ranks, NEW b \in Buffers, NEW w \in 0 .. NumWords - 1, words'[d][b][w] # 0
        PROVE  words'[d][b][w] = words[d][b][w] /\ (d = r => b # OtherBuf(Now(r)))
    <3> DEFINE ob == OtherBuf(Now(r))
    <3>1. words' = [words EXCEPT ![r][ob] = [i \in DOMAIN @ |-> 0]] /\ ob \in Buffers
      BY <1>0, <1>4
    <3> HIDE DEF ob
    <3>2. CASE d = r /\ b = ob
      BY <1>5, <2>2, <3>1, <3>2 DEF WordsThere
    <3>3. CASE ~(d = r /\ b = ob)
      BY <1>5, <2>2, <3>1, <3>3 DEF WordsThere, ob
    <3> QED BY <3>2, <3>3
  <2>3. ~Dirty(r)
    BY <1>0 DEF Dirty
  <2>4. calls'[r] = calls[r]
    BY <1>0
  <2> QED BY <1>1, <1>2, <2>1, <2>2, <2>3, <2>4, WordsFrame
<1>9. SeenBy(r)'
  BY <1>0 DEF SeenBy
<1>10. CountedDown'
  <2>1. ArrivalsBy(calls'[r], stage'[r]) = Arrivals(r)
    BY <1>0, ArrivalsCount DEF Arrivals
  <2> QED BY <1>0, <1>1, <2>1, CountsFrame
<1> QED BY <1>0, <1>1, <1>2, <1>6, <1>7, <1>8, <1>9, <1>10, StepOfRank

\* A step of the receiving phase that stays in the call ...
Within(r, st, es) ==
  /\ stage[r] \in {"receive", "reduce"} /\ st \in {"receive", "reduce"}
  /\ stage' = [stage EXCEPT ![r] = st] /\ seen' = [seen EXCEPT ![r] = es]
  /\ UNCHANGED <<prog, calls, alive, mask, sync, words, wire>>
\* ... and one that ends it.
Ending(r) ==
  /\ stage[r] \in {"receive", "reduce"} /\ AllLanded(r)
  /\ stage' = [stage EXCEPT ![r] = "idle"] /\ seen' = [seen EXCEPT ![r] = {}]
  /\ calls' = [calls EXCEPT ![r] = @ + 1]
  /\ UNCHANGED <<prog, alive, mask, sync, words, wire>>

LEMMA WithinKeeps ==
  ASSUME IInv, NEW r \in Ranks, NEW st, NEW es, Within(r, st, es),
         es \subseteq Experts, st = "reduce" => es = {} /\ Kind(Now(r)) = "combine", Kind(Now(r)) = "combine" => es = {},
         IF st = "reduce" THEN LandedFor(r, Experts) ELSE LandedFor(r, es)
  PROVE  IInv'
<1>0. /\ Types /\ prog' = prog /\ calls[r] \in Nat /\ stage'[r] = st /\ Fits(r) /\ seen'[r] = es
      /\ prog \in Setups /\ wire' = wire /\ calls' = calls /\ sync' = sync /\ words' = words
      /\ alive' = alive /\ mask' = mask /\ stage' = [stage EXCEPT ![r] = st]
      /\ seen' = [seen EXCEPT ![r] = es]
      /\ stage[r] \in {"receive", "reduce"} /\ st \in {"receive", "reduce"}
  BY DEF IInv, Types, Within, StagesFit
<1>1. OnlyRank(r) /\ Onwards(r) /\ EndsWell(r) /\ NoCleaning(r)
  BY <1>0 DEF OnlyRank, Onwards, EndsWell, Types, NoCleaning
<1>2. SignalsKept
  BY <1>0, WireStays
<1>3. Types'
  BY <1>0, TypesStay DEF Types, Stages
<1>4. Now(r)' = Now(r) /\ Now(r) \in Nat /\ Calls' = Calls /\ Now(r) \in Calls
  BY <1>0 DEF Now, Calls, Fits
<1>5. Fits(r)'
  <2>1. (NonClean(Now(r))' <=> NonClean(Now(r))) /\ Kind(Now(r))' = Kind(Now(r)) /\ Experts' = Experts
    BY <1>0, <1>4 DEF NonClean, Kind, Experts
  <2> QED BY <1>0, <1>4, <2>1 DEF Fits
<1>6. WordsKnown'
  <2>1. \A k \in Calls : CleanedIn(r, k + 1)' => CleanedIn(r, k + 1)
    BY <1>1, NothingCleaned, Sizes DEF IInv, Types
  <2>2. ~Dirty(r)
    BY <1>0 DEF Dirty
  <2>3. calls'[r] = calls[r]
    BY <1>0
  <2> QED BY <1>0, <1>1, <1>2, <2>1, <2>2, <2>3, WordsFrame
<1>7. SeenBy(r)'
  <2>1. ASSUME NEW xs, xs \subseteq Experts, LandedFor(r, xs)
        PROVE  \A e \in xs : Landed(RankOf(e), r, LocalOf(e), Now(r))'
    <3> SUFFICES ASSUME NEW e \in xs
                 PROVE  Landed(RankOf(e), r, LocalOf(e), Now(r))'
      OBVIOUS
    <3> DEFINE a == RankOf(e)
               le == LocalOf(e)
               k == Now(r)
    <3>1. a \in Ranks /\ le \in LocalExperts /\ k \in Nat /\ Landed(a, r, le, k)
      BY <1>0, <1>4, <2>1, ExpertNumbers DEF LandedFor
    <3>2. a' = a /\ le' = le /\ k' = k
      BY <1>0, <1>4, SetupStays
    <3> HIDE DEF a, le, k
    <3>3. \/ calls[a] >= k
          \/ calls[a] = k - 1 /\ stage[a] \in {"receive", "reduce"}
      BY <3>1 DEF Landed, Signalled
    <3>4. \/ calls'[a] >= k
          \/ calls'[a] = k - 1 /\ stage'[a] \in {"receive", "reduce"}
      BY <1>0, <3>1, <3>3 DEF Types
    <3>5. Signalled(a, k)'
      BY <3>2, <3>4 DEF Signalled
    <3>6. ~Pending(<<a, r, le>>, Buf(k))'
      BY <1>0, <3>1, <3>2, SetupStays DEF Landed, Pending, IsSignal
    <3> QED BY <3>5, <3>6 DEF Landed, a, le, k
  <2>2. Experts' = Experts
    BY <1>0, SetupStays
  <2>3. CASE st = "reduce"
    BY <1>0, <2>1, <2>2, <2>3 DEF SeenBy, LandedFor
  <2>4. CASE st = "receive"
    BY <1>0, <2>1, <2>4 DEF SeenBy, LandedFor
  <2> QED BY <1>0, <2>3, <2>4
<1>8. CountedDown'
  <2>1. ArrivalsBy(calls'[r], stage'[r]) = Arrivals(r)
    BY <1>0, ArrivalsCount DEF Arrivals
  <2> QED BY <1>0, <1>1, <2>1, CountsFrame
<1> QED BY <1>0, <1>1, <1>2, <1>3, <1>5, <1>6, <1>7, <1>8, StepOfRank

LEMMA EndingKeeps ==
  ASSUME IInv, NEW r \in Ranks, Ending(r)
  PROVE  IInv'
<1>0. /\ Types /\ prog' = prog /\ calls[r] \in Nat /\ stage'[r] = "idle" /\ Fits(r) /\ seen'[r] = {}
      /\ prog \in Setups /\ wire' = wire /\ sync' = sync /\ words' = words
      /\ calls' = [calls EXCEPT ![r] = @ + 1] /\ calls'[r] = calls[r] + 1
      /\ alive' = alive /\ mask' = mask /\ stage' = [stage EXCEPT ![r] = "idle"]
      /\ seen' = [seen EXCEPT ![r] = {}]
      /\ stage[r] \in {"receive", "reduce"} /\ AllLanded(r)
  BY DEF IInv, Types, Ending, StagesFit
<1>1. Now(r) \in Nat /\ Now(r) \in Calls /\ NonClean(Now(r)) /\ Now(r) = calls[r] + 1
      /\ Calls = 1 .. Len(prog.calls) /\ Len(prog.calls) \in Nat
  BY <1>0, Sizes DEF Now, Fits
<1>2. EndsWell(r)
  <2>1. SUFFICES ASSUME NEW d \in Ranks
                 PROVE  DoneIn(d, Now(r))
    BY DEF EndsWell
  <2>2. 0 \in LocalExperts
    BY <1>0, Sizes
  <2>3. Signalled(d, Now(r))
    BY <1>0, <2>2 DEF AllLanded, Landed
  <2> QED BY <2>3 DEF DoneIn, Signalled, CleanedIn
<1>3. OnlyRank(r) /\ Onwards(r) /\ NoCleaning(r)
  BY <1>0 DEF OnlyRank, Onwards, Types, NoCleaning
<1>4. SignalsKept
  BY <1>0, WireStays
<1>5. Types'
  <2>1. calls' \in [Ranks -> Nat] /\ \A q \in Ranks : calls'[q] <= Len(prog.calls)
    BY <1>0, <1>1 DEF Types
  <2> QED BY <1>0, <2>1, TypesStay DEF Types, Stages
<1>6. Fits(r)'
  BY <1>0 DEF Fits
<1>7. WordsKnown'
  <2>1. \A k \in Calls : CleanedIn(r, k + 1)' => CleanedIn(r, k + 1)
    BY <1>1, <1>3, NothingCleaned
  <2>2. ~Dirty(r)
    BY <1>0 DEF Dirty
  <2> QED BY <1>0, <1>2, <1>3, <1>4, <2>1, <2>2, WordsFrame
<1>8. SeenBy(r)'
  BY <1>0 DEF SeenBy
<1>9. CountedDown'
  <2>1. ArrivalsBy(calls'[r], stage'[r]) = Arrivals(r)
    <3>1. Cleans(calls[r] + 1) = Cleans(calls[r]) /\ calls[r] + 1 \in Nat /\ Cleans(calls[r]) \in Nat
      <4> DEFINE n == calls[r]
      <4>1. n \in Nat /\ NonClean(n + 1)
        BY <1>0, <1>1
      <4> HIDE DEF n
      <4>2. Cleans(n + 1) = Cleans(n) + 0 /\ Cleans(n) \in Nat
        BY <4>1, CleansStep
      <4> QED BY <4>1, <4>2 DEF n
    <3>2. ArrivalsBy(calls'[r], stage'[r]) = 2 * Cleans(calls[r] + 1)
      BY <1>0, <3>1, ArrivalsCount
    <3>3. Arrivals(r) = 2 * Cleans(calls[r])
      BY <1>0, ArrivalsCount DEF Arrivals
    <3> QED BY <3>1, <3>2, <3>3
  <2> QED BY <1>0, <1>3, <2>1, CountsFrame
<1> QED BY <1>0, <1>2, <1>3, <1>4, <1>5, <1>6, <1>7, <1>8, <1>9, StepOfRank

LEMMA ReceiveKeeps ==
  ASSUME IInv, NEW r \in Ranks, NEW e \in Experts, Receive(r, e)
  PROVE  IInv'
<1> DEFINE k == Now(r)
           s == RankOf(e)
           le == LocalOf(e)
           es == seen[r] \cup {e}
<1>0. /\ Types /\ Fits(r) /\ SeenBy(r) /\ stage[r] = "receive" /\ Kind(k) = "dispatch"
      /\ alive = Ranks /\ mask[r] = {} /\ mask = [q \in Ranks |-> {}] /\ prog \in Setups
  BY DEF IInv, Types, StagesFit, SeenLanded, Receive
<1>1. s \in Ranks /\ le \in LocalExperts /\ Expert(s, le) = e
  BY <1>0, ExpertNumbers
<1>2. HasSignal(r, Buf(k), CountWord(le, s))
  BY <1>0, <1>1 DEF Receive, Waited
<1>3. Landed(s, r, le, k)
  <2>1. SignalWord(k, s, le) = CountWord(le, s)
    BY <1>0 DEF SignalWord
  <2> QED BY <1>0, <1>1, <1>2, <2>1, KnownSignal
<1>4. mask' = mask
  <2>1. mask' = MaskSources(r, {})
    BY <1>2 DEF Receive
  <2>2. MaskSources(r, {}) = [mask EXCEPT ![r] = @ \cup {}]
    BY DEF MaskSources
  <2> QED BY <1>0, <2>1, <2>2
<1>5. es \subseteq Experts /\ LandedFor(r, es)
  <2>1. seen[r] \subseteq Experts /\ LandedFor(r, seen[r])
    BY <1>0 DEF Fits, SeenBy
  <2> QED BY <1>3, <2>1 DEF LandedFor
<1>6. CASE es = Experts
  <2>1. AllLanded(r)
    <3> SUFFICES ASSUME NEW a \in Ranks, NEW l \in LocalExperts
                 PROVE  Landed(a, r, l, k)
      BY DEF AllLanded
    <3>1. Expert(a, l) \in Experts /\ RankOf(Expert(a, l)) = a /\ LocalOf(Expert(a, l)) = l
      BY <1>0, ExpertNumbers
    <3>2. Landed(RankOf(Expert(a, l)), r, LocalOf(Expert(a, l)), k)
      BY <1>5, <1>6, <3>1 DEF LandedFor
    <3> QED BY <3>1, <3>2
  <2>2. Ending(r)
    BY <1>0, <1>4, <1>6, <2>1 DEF Receive, Ending
  <2> QED BY <2>2, EndingKeeps
<1>7. CASE es # Experts
  <2>1. stage' = [stage EXCEPT ![r] = "receive"]
    BY <1>0, <1>7 DEF Receive, Types
  <2>2. Within(r, "receive", es)
    BY <1>0, <1>4, <1>7, <2>1 DEF Receive, Within
  <2> QED BY <1>0, <1>5, <2>2, WithinKeeps
<1> QED BY <1>6, <1>7

LEMMA ReceiveFlagsKeeps ==
  ASSUME IInv, NEW r \in Ranks, ReceiveFlags(r)
  PROVE  IInv'
<1> DEFINE k == Now(r)
<1>0. /\ Types /\ Fits(r) /\ SeenBy(r) /\ stage[r] = "receive" /\ Kind(k) = "combine"
      /\ alive = Ranks /\ mask[r] = {} /\ mask = [q \in Ranks |-> {}] /\ prog \in Setups
      /\ seen[r] = {} /\ seen \in [Ranks -> SUBSET (Experts \cup Ranks)]
  BY DEF IInv, Types, StagesFit, SeenLanded, ReceiveFlags, Fits
<1>1. ASSUME NEW e \in Experts
      PROVE  HasSignal(r, Buf(k), FlagWord(e)) /\ Landed(RankOf(e), r, LocalOf(e), k)
  <2> DEFINE s == RankOf(e)
             le == LocalOf(e)
  <2>1. s \in Ranks /\ le \in LocalExperts /\ Expert(s, le) = e
    BY <1>0, ExpertNumbers
  <2>2. HasSignal(r, Buf(k), FlagWord(e))
    BY <1>0, <2>1 DEF ReceiveFlags, Waited
  <2>3. SignalWord(k, s, le) = FlagWord(e)
    BY <1>0, <2>1 DEF SignalWord
  <2>4. Landed(s, r, le, k)
    BY <1>0, <2>1, <2>2, <2>3, KnownSignal
  <2> QED BY <2>2, <2>4
<1>2. mask' = mask
  <2> DEFINE missing == {e \in Experts : RankOf(e) \notin mask[r] /\ ~HasSignal(r, Buf(k), FlagWord(e))}
  <2>1. mask' = MaskSources(r, missing)
    BY DEF ReceiveFlags
  <2>2. missing = {}
    BY <1>1
  <2>3. MaskSources(r, {}) = [mask EXCEPT ![r] = @ \cup {}]
    BY DEF MaskSources
  <2> HIDE DEF missing
  <2> QED BY <1>0, <2>1, <2>2, <2>3
<1>3. LandedFor(r, Experts)
  BY <1>1 DEF LandedFor
<1>4. Within(r, "reduce", {})
  BY <1>0, <1>2 DEF ReceiveFlags, Within
<1> QED BY <1>0, <1>3, <1>4, WithinKeeps

LEMMA ReduceKeeps ==
  ASSUME IInv, NEW r \in Ranks, Reduce(r)
  PROVE  IInv'
<1>0. /\ Types /\ Fits(r) /\ SeenBy(r) /\ stage[r] = "reduce" /\ prog \in Setups
      /\ seen[r] = {} /\ seen \in [Ranks -> SUBSET (Experts \cup Ranks)]
  BY DEF IInv, Types, StagesFit, SeenLanded, Reduce, Fits
<1>1. AllLanded(r)
  <2> SUFFICES ASSUME NEW a \in Ranks, NEW l \in LocalExperts
               PROVE  Landed(a, r, l, Now(r))
    BY DEF AllLanded
  <2>1. Expert(a, l) \in Experts /\ RankOf(Expert(a, l)) = a /\ LocalOf(Expert(a, l)) = l
    BY <1>0, ExpertNumbers
  <2>2. Landed(RankOf(Expert(a, l)), r, LocalOf(Expert(a, l)), Now(r))
    BY <1>0, <2>1 DEF SeenBy, LandedFor
  <2> QED BY <2>1, <2>2
<1>2. Ending(r)
  BY <1>0, <1>1 DEF Reduce, Ending
<1> QED BY <1>2, EndingKeeps

\* An arrival at a barrier counts down everywhere.
LEMMA ArrivalCounts ==
  ASSUME IInv, NEW r \in Ranks, OnlyRank(r), NEW from, NEW to, Arrive(r, from, to),
         ArrivalsBy(calls'[r], stage'[r]) = Arrivals(r) + 1
  PROVE  CountedDown' /\ sync' \in [Ranks -> [Ranks -> Int]]
<1>1. /\ mask[r] = {} /\ Ranks' = Ranks /\ sync \in [Ranks -> [Ranks -> Int]]
      /\ \A p, q \in Ranks : sync[p][q] = -Arrivals(q)
  BY SetupStays DEF OnlyRank, IInv, Types, CountedDown
<1>2. sync' = [q \in Ranks |-> [sync[q] EXCEPT ![r] = sync[r][r] - 1]]
  <2>1. \A q \in Ranks : q \in {r} \cup (Ranks \ mask[r])
    BY <1>1
  <2> QED BY <2>1 DEF Arrive
<1>3. Arrivals(r) \in Nat
  BY ArrivalsCount DEF IInv, Types, Arrivals
<1>4. ASSUME NEW p \in Ranks, NEW q \in Ranks
      PROVE  sync'[p][q] = -(Arrivals(q)')
  <2>1. Arrivals(q)' = ArrivalsBy(calls'[q], stage'[q])
    BY ArrivalsPrimed DEF OnlyRank
  <2>2. CASE q = r
    <3>1. sync'[p][q] = sync[r][r] - 1 /\ sync[r][r] = -Arrivals(r)
      BY <1>1, <1>2, <2>2
    <3>2. Arrivals(q)' = Arrivals(r) + 1
      BY <2>1, <2>2
    <3> QED BY <1>3, <3>1, <3>2
  <2>3. CASE q # r
    <3>1. sync'[p][q] = sync[p][q]
      BY <1>1, <1>2, <2>3
    <3>2. Arrivals(q)' = Arrivals(q)
      BY <2>1, <2>3 DEF OnlyRank, Arrivals
    <3> QED BY <1>1, <3>1, <3>2
  <2> QED BY <2>2, <2>3
<1>5. sync' \in [Ranks -> [Ranks -> Int]]
  BY <1>1, <1>2
<1> QED BY <1>1, <1>4, <1>5 DEF CountedDown

LEMMA StartCleanKeeps ==
  ASSUME IInv, NEW r \in Ranks, StartClean(r)
  PROVE  IInv'
<1>0. /\ Types /\ prog' = prog /\ calls[r] \in Nat /\ stage[r] = "idle" /\ stage'[r] = "open" /\ Fits(r)
      /\ prog \in Setups /\ wire' = wire /\ calls' = calls /\ seen' = seen /\ words' = words
      /\ alive' = alive /\ mask' = mask /\ stage' = [stage EXCEPT ![r] = "open"]
      /\ calls[r] < Len(prog.calls) /\ ~NonClean(Now(r)) /\ seen[r] = {} /\ Arrive(r, "idle", "open")
  BY DEF IInv, Types, StartClean, Arrive, StagesFit, IsNext, NonClean, Fits
<1>1. OnlyRank(r) /\ Onwards(r) /\ EndsWell(r) /\ NoCleaning(r)
  BY <1>0 DEF OnlyRank, Onwards, EndsWell, Types, NoCleaning
<1>2. SignalsKept
  BY <1>0, WireStays
<1>3. CountedDown' /\ sync' \in [Ranks -> [Ranks -> Int]]
  <2>1. ArrivalsBy(calls'[r], stage'[r]) = Arrivals(r) + 1
    <3>1. ArrivalsBy(calls[r], "open") = 2 * Cleans(calls[r]) + 1 /\ Cleans(calls[r]) \in Nat
      BY <1>0, ArrivalsCount
    <3>2. ArrivalsBy(calls[r], "idle") = 2 * Cleans(calls[r])
      BY <1>0, ArrivalsCount
    <3> QED BY <1>0, <3>1, <3>2 DEF Arrivals
  <2> QED BY <1>0, <1>1, <2>1, ArrivalCounts
<1>4. Types'
  BY <1>0, <1>3, TypesStay DEF Types, Stages
<1>5. Fits(r)'
  <2>1. Calls = 1 .. Len(prog.calls) /\ Len(prog.calls) \in Nat
    BY <1>0, Sizes
  <2>2. Now(r)' = Now(r) /\ Calls' = Calls /\ Now(r) \in Calls /\ ~NonClean(Now(r))'
    BY <1>0, <2>1 DEF Now, Calls, NonClean, Kind
  <2>3. seen'[r] = {}
    BY <1>0
  <2> QED BY <1>0, <2>2, <2>3 DEF Fits
<1>6. WordsKnown'
  <2>1. \A k \in Calls : CleanedIn(r, k + 1)' => CleanedIn(r, k + 1)
    BY <1>1, NothingCleaned, Sizes DEF IInv, Types
  <2>2. Dirty(r) => Dirty(r)'
    BY <1>0 DEF Dirty
  <2>3. calls'[r] = calls[r]
    BY <1>0
  <2> QED BY <1>0, <1>1, <1>2, <2>1, <2>2, <2>3, WordsFrame
<1>7. SeenBy(r)'
  BY <1>0 DEF SeenBy
<1>8. calls'[r] = calls[r]
  BY <1>0
<1> QED BY <1>8, <1>1, <1>2, <1>3, <1>4, <1>5, <1>6, <1>7, StepOfRank

LEMMA ZeroBothKeeps ==
  ASSUME IInv, NEW r \in Ranks, ZeroBoth(r)
  PROVE  IInv'
<1>0. /\ Types /\ prog' = prog /\ calls[r] \in Nat /\ stage[r] = "zero" /\ stage'[r] = "close" /\ Fits(r)
      /\ prog \in Setups /\ wire' = wire /\ calls' = calls /\ seen' = seen
      /\ words' = [words EXCEPT ![r] = [b \in Buffers |-> [i \in DOMAIN @[b] |-> 0]]]
      /\ alive' = alive /\ mask' = mask /\ stage' = [stage EXCEPT ![r] = "close"]
      /\ Now(r) \in Calls /\ ~NonClean(Now(r)) /\ seen[r] = {} /\ Arrive(r, "zero", "close")
  BY DEF IInv, Types, ZeroBoth, Arrive, StagesFit, Fits
<1>1. OnlyRank(r) /\ Onwards(r) /\ EndsWell(r)
  BY <1>0 DEF OnlyRank, Onwards, EndsWell, Types
<1>2. SignalsKept
  BY <1>0, WireStays
<1>3. CountedDown' /\ sync' \in [Ranks -> [Ranks -> Int]]
  <2>1. ArrivalsBy(calls'[r], stage'[r]) = Arrivals(r) + 1
    <3>1. ArrivalsBy(calls[r], "zero") = 2 * Cleans(calls[r]) + 1 /\ Cleans(calls[r]) \in Nat
      BY <1>0, ArrivalsCount
    <3>2. ArrivalsBy(calls[r], "close") = 2 * Cleans(calls[r]) + 2
      BY <1>0, ArrivalsCount
    <3> QED BY <1>0, <3>1, <3>2 DEF Arrivals
  <2> QED BY <1>0, <1>1, <2>1, ArrivalCounts
<1>4. WordsThere(words) /\ WordsThere(words')
  BY <1>0 DEF Types, WordsThere
<1>5. Types'
  BY <1>0, <1>3, <1>4, TypesStay DEF Types, Stages
<1>6. Fits(r)'
  <2>1. Now(r)' = Now(r) /\ Calls' = Calls /\ ~NonClean(Now(r))' /\ seen'[r] = {}
    BY <1>0 DEF Now, Calls, NonClean, Kind
  <2> QED BY <1>0, <2>1 DEF Fits
<1>7. WordsKnown'
  <2>1. ASSUME NEW d \in Ranks, NEW b \in Buffers, NEW w \in 0 .. NumWords - 1, words'[d][b][w] # 0
        PROVE  words'[d][b][w] = words[d][b][w] /\ d # r
    <3>1. words'[r][b][w] = 0
      BY <1>0, <1>4 DEF WordsThere
    <3>2. d # r
      BY <2>1, <3>1
    <3> QED BY <1>0, <2>1, <3>2
  <2>2. calls'[r] = calls[r]
    BY <1>0
  <2> QED BY <1>1, <1>2, <2>1, <2>2, WordsFrame
<1>8. SeenBy(r)'
  BY <1>0 DEF SeenBy
<1>9. calls'[r] = calls[r]
  BY <1>0
<1> QED BY <1>9, <1>1, <1>2, <1>3, <1>5, <1>6, <1>7, <1>8, StepOfRank

LEMMA MeetKeeps ==
  ASSUME IInv, NEW r \in Ranks, NEW q \in Ranks, Meet(r, q)
  PROVE  IInv'
<1> DEFINE es == seen[r] \cup {q}
           last == es = Ranks \ {r}
<1>0. /\ Types /\ prog' = prog /\ calls[r] \in Nat /\ stage[r] \in {"open", "close"} /\ Fits(r)
      /\ SeenBy(r) /\ prog \in Setups /\ wire' = wire /\ words' = words /\ sync' = sync
      /\ alive' = alive /\ alive = Ranks /\ mask[r] = {}
      /\ seen \in [Ranks -> SUBSET (Experts \cup Ranks)] /\ seen[r] \subseteq Ranks
      /\ stage \in [Ranks -> Stages] /\ calls \in [Ranks -> Nat]
      /\ Now(r) \in Calls /\ ~NonClean(Now(r)) /\ Now(r) = calls[r] + 1
      /\ seen' = [seen EXCEPT ![r] = IF last THEN {} ELSE @ \cup {q}]
      /\ stage' = IF last THEN [stage EXCEPT ![r] = IF @ = "open" THEN "zero" ELSE "idle"] ELSE stage
      /\ calls' = IF last /\ stage[r] = "close" THEN [calls EXCEPT ![r] = @ + 1] ELSE calls
  BY DEF IInv, Types, Meet, StagesFit, Fits, Now, SeenLanded
<1>1. mask' = mask /\ sync[r][q] <= sync[r][r]
  <2>1. IF prog.shrink THEN sync[r][q] = sync[r][r] ELSE sync[r][q] <= sync[r][r]
    BY <1>0 DEF Meet
  <2>2. sync[r][r] \in Int /\ sync[r][q] \in Int
    BY <1>0 DEF Types
  <2> QED BY <2>1, <2>2 DEF Meet
<1>2. stage[r] = "close" => \A d \in es : CleanedIn(d, Now(r))
  BY <1>0, <1>1, CountsMeet DEF SeenBy
<1>3. SignalsKept
  BY <1>0, WireStays
<1>4. Calls = 1 .. Len(prog.calls) /\ Len(prog.calls) \in Nat
  BY <1>0, Sizes
<1>5. CASE ~last
  <2> HIDE DEF last
  <2>1. /\ calls' = calls /\ stage' = stage /\ seen' = [seen EXCEPT ![r] = es] /\ seen'[r] = es
        /\ calls'[r] = calls[r] /\ stage'[r] = stage[r]
    BY <1>0, <1>5
  <2>2. OnlyRank(r) /\ Onwards(r) /\ EndsWell(r) /\ NoCleaning(r)
    BY <1>0, <2>1 DEF OnlyRank, Onwards, EndsWell, NoCleaning
  <2>3. Types'
    BY <1>0, <1>1, <2>1, TypesStay DEF Types
  <2>4. Fits(r)'
    <3>1. Now(r)' = Now(r) /\ Calls' = Calls /\ ~NonClean(Now(r))' /\ Kind(Now(r))' # "combine"
          /\ Ranks' = Ranks
      BY <1>0, <2>1 DEF Now, Calls, NonClean, Kind, Ranks
    <3> QED BY <1>0, <2>1, <3>1 DEF Fits
  <2>5. WordsKnown'
    <3>1. \A k \in Calls : CleanedIn(r, k + 1)' => CleanedIn(r, k + 1)
      BY <1>4, <2>2, NothingCleaned
    <3>2. Dirty(r) => Dirty(r)'
      BY <1>0, <2>1 DEF Dirty
    <3> QED BY <1>0, <1>3, <2>1, <2>2, <3>1, <3>2, WordsFrame
  <2>6. SeenBy(r)'
    BY <1>0, <1>2, <2>1 DEF SeenBy, CleanedIn, Now
  <2>7. CountedDown'
    BY <1>0, <2>1, <2>2, CountsFrame DEF Arrivals
  <2> QED BY <1>3, <2>1, <2>2, <2>3, <2>4, <2>5, <2>6, <2>7, StepOfRank
<1>6. CASE last /\ stage[r] = "open"
  <2>1. /\ calls' = calls /\ stage' = [stage EXCEPT ![r] = "zero"] /\ seen' = [seen EXCEPT ![r] = {}]
        /\ calls'[r] = calls[r] /\ stage'[r] = "zero" /\ seen'[r] = {}
    BY <1>0, <1>6
  <2>2. OnlyRank(r) /\ Onwards(r) /\ EndsWell(r) /\ NoCleaning(r)
    BY <1>0, <1>6, <2>1 DEF OnlyRank, Onwards, EndsWell, NoCleaning
  <2>3. Types'
    BY <1>0, <1>1, <2>1, TypesStay DEF Types, Stages
  <2>4. Fits(r)'
    <3>1. Now(r)' = Now(r) /\ Calls' = Calls /\ ~NonClean(Now(r))'
      BY <1>0, <2>1 DEF Now, Calls, NonClean, Kind
    <3> QED BY <1>0, <2>1, <3>1 DEF Fits
  <2>5. WordsKnown'
    <3>1. \A k \in Calls : CleanedIn(r, k + 1)' => CleanedIn(r, k + 1)
      BY <1>4, <2>2, NothingCleaned
    <3>2. Dirty(r) => Dirty(r)'
      BY <1>0, <2>1 DEF Dirty
    <3> QED BY <1>0, <1>3, <2>1, <2>2, <3>1, <3>2, WordsFrame
  <2>6. SeenBy(r)'
    BY <2>1 DEF SeenBy
  <2>7. CountedDown'
    <3>1. ArrivalsBy(calls'[r], stage'[r]) = Arrivals(r)
      BY <1>0, <1>6, <2>1, ArrivalsCount DEF Arrivals
    <3> QED BY <1>0, <2>2, <3>1, CountsFrame
  <2> QED BY <1>3, <2>1, <2>2, <2>3, <2>4, <2>5, <2>6, <2>7, StepOfRank
<1>7. CASE last /\ stage[r] = "close"
  <2>1. /\ calls' = [calls EXCEPT ![r] = @ + 1] /\ stage' = [stage EXCEPT ![r] = "idle"]
        /\ seen' = [seen EXCEPT ![r] = {}]
        /\ calls'[r] = calls[r] + 1 /\ stage'[r] = "idle" /\ seen'[r] = {}
    BY <1>0, <1>7
  <2>2. EndsWell(r)
    <3> SUFFICES ASSUME NEW d \in Ranks
                 PROVE  DoneIn(d, Now(r))
      BY DEF EndsWell
    <3>1. CleanedIn(d, Now(r))
      BY <1>0, <1>2, <1>7 DEF CleanedIn
    <3> QED BY <1>0, <3>1 DEF DoneIn
  <2>3. OnlyRank(r) /\ Onwards(r) /\ NoCleaning(r)
    BY <1>0, <1>7, <2>1 DEF OnlyRank, Onwards, NoCleaning
  <2>4. Types'
    <3>1. calls' \in [Ranks -> Nat] /\ \A p \in Ranks : calls'[p] <= Len(prog.calls)
      BY <1>0, <1>4, <2>1 DEF Types
    <3> QED BY <1>0, <1>1, <2>1, <3>1, TypesStay DEF Types, Stages
  <2>5. Fits(r)'
    BY <2>1 DEF Fits
  <2>6. WordsKnown'
    <3>1. \A k \in Calls : CleanedIn(r, k + 1)' => CleanedIn(r, k + 1)
      BY <1>4, <2>3, NothingCleaned
    <3>2. ~Dirty(r)
      BY <1>7 DEF Dirty
    <3> QED BY <1>0, <1>3, <2>2, <2>3, <3>1, <3>2, WordsFrame
  <2>7. SeenBy(r)'
    BY <2>1 DEF SeenBy
  <2>8. CountedDown'
    <3> DEFINE n == calls[r]
    <3>1. n \in Nat /\ ~NonClean(n + 1) /\ n + 1 \in Nat
      BY <1>0
    <3>2. Arrivals(r) = ArrivalsBy(n, "close") /\ ArrivalsBy(calls'[r], stage'[r]) = ArrivalsBy(n + 1, "idle")
      BY <1>7, <2>1 DEF Arrivals
    <3> HIDE DEF n
    <3>3. Cleans(n + 1) = Cleans(n) + 1 /\ Cleans(n) \in Nat
      BY <3>1, CleansStep
    <3>4. ArrivalsBy(n, "close") = 2 * Cleans(n) + 2 /\ ArrivalsBy(n + 1, "idle") = 2 * Cleans(n + 1)
      BY <3>1, ArrivalsCount
    <3>5. ArrivalsBy(calls'[r], stage'[r]) = Arrivals(r)
      BY <3>2, <3>3, <3>4
    <3> QED BY <1>0, <2>3, <3>5, CountsFrame
  <2> QED BY <1>0, <1>3, <2>1, <2>2, <2>3, <2>4, <2>5, <2>6, <2>7, <2>8, StepOfRank
<1> QED BY <1>0, <1>5, <1>6, <1>7

\* A rank signals: its queue pairs get a message, and its own words are set.
LEMMA SignalKeeps ==
  ASSUME IInv, NEW r \in Ranks, Signal(r)
  PROVE  IInv'
<1> DEFINE k == Now(r)
           c == Buf(k)
           messages == [p \in Ranks \X LocalExperts |->
             <<SignalMsg(c, SignalWord(k, r, p[2]), SignalValue(k, r, p[1], p[2]))>>]
           Sig(d, le) == SignalMsg(c, SignalWord(k, r, le), SignalValue(k, r, d, le))
           own == {SignalWord(k, r, le) : le \in LocalExperts}
<1>0. /\ Types /\ prog' = prog /\ calls[r] \in Nat /\ stage[r] = "cleaned" /\ stage'[r] = "receive"
      /\ Fits(r) /\ prog \in Setups /\ calls' = calls /\ seen' = seen /\ sync' = sync
      /\ alive' = alive /\ mask' = mask /\ stage' = [stage EXCEPT ![r] = "receive"]
      /\ seen[r] = {} /\ Issue(r, messages)
      /\ DOMAIN wire = Ranks \X Ranks \X LocalExperts
      /\ calls \in [Ranks -> Nat] /\ stage \in [Ranks -> Stages] /\ WordsThere(words)
  BY DEF IInv, Types, Signal, StagesFit, Fits
<1>1. OnlyRank(r) /\ Onwards(r) /\ EndsWell(r)
  BY <1>0 DEF OnlyRank, Onwards, EndsWell
<1>2. /\ k \in Calls /\ NonClean(k) /\ k = calls[r] + 1 /\ k \in Nat \ {0}
      /\ Calls = 1 .. Len(prog.calls) /\ Len(prog.calls) \in Nat
  BY <1>0, Sizes DEF Fits, Now
<1>3. /\ Ranks' = Ranks /\ LocalExperts' = LocalExperts /\ Calls' = Calls /\ NumWords' = NumWords
      /\ Experts' = Experts /\ Buffers' = Buffers
      /\ \A j : (NonClean(j)' <=> NonClean(j)) /\ Kind(j)' = Kind(j)
      /\ \A j : Buf(j)' = Buf(j)
      /\ \A j, s, le : SignalWord(j, s, le)' = SignalWord(j, s, le)
      /\ \A j, s, d, le : SignalValue(j, s, d, le)' = SignalValue(j, s, d, le)
      /\ \A e : RankOf(e)' = RankOf(e) /\ LocalOf(e)' = LocalOf(e)
  BY <1>0, SetupStays DEF Buffers
<1>4. /\ \A s \in Ranks : \A j \in Nat : /\ Signalled(s, j) => Signalled(s, j)'
                                         /\ CleanedIn(s, j) => CleanedIn(s, j)'
      /\ Onward' /\ \A q \in Ranks \ {r} : Fits(q)'
  BY <1>1, CallsFrame
<1>5. Signalled(r, k)' /\ ~Signalled(r, k)
  BY <1>0, <1>2 DEF Signalled, Now
<1>6. /\ DOMAIN wire' = DOMAIN wire
      /\ \A s, d \in Ranks, le \in LocalExperts :
           wire'[<<s, d, le>>] = IF s = r /\ d # r THEN wire[<<s, d, le>>] \o <<Sig(d, le)>>
                                 ELSE wire[<<s, d, le>>]
  <2>1. /\ DOMAIN wire' = DOMAIN wire
        /\ \A s, d \in Ranks, le \in LocalExperts :
             wire'[<<s, d, le>>] = IF s = r /\ d # r THEN wire[<<s, d, le>>] \o messages[<<d, le>>]
                                   ELSE wire[<<s, d, le>>]
    <3> HIDE DEF messages
    <3>1. Types /\ Issue(r, messages)
      BY <1>0
    <3> QED BY <3>1, IssueFacts
  <2>2. \A d \in Ranks, le \in LocalExperts : messages[<<d, le>>] = <<Sig(d, le)>>
    OBVIOUS
  <2> QED BY <2>1, <2>2
<1>7. \A d \in Ranks, le \in LocalExperts :
        /\ Sig(d, le).buf = c /\ Sig(d, le).word = SignalWord(k, r, le)
        /\ Sig(d, le).value = SignalValue(k, r, d, le) /\ Sig(d, le).moves = {}
  BY DEF SignalMsg
<1> HIDE DEF Sig, messages
\* What happens to a queue pair, by cases.
<1>8. ASSUME NEW d \in Ranks \ {r}, NEW le \in LocalExperts
      PROVE  LET q == <<r, d, le>>
             IN  /\ IsSequence(wire'[q]) /\ DOMAIN wire[q] = 1 .. Len(wire[q]) /\ Len(wire[q]) \in Nat
                 /\ DOMAIN wire'[q] = 1 .. Len(wire[q]) + 1
                 /\ \A i \in DOMAIN wire[q] : wire'[q][i] = wire[q][i]
                 /\ wire'[q][Len(wire[q]) + 1] = Sig(d, le)
  <2> DEFINE t == wire[<<r, d, le>>]
             m == Sig(d, le)
  <2>1. IsSequence(t) /\ wire'[<<r, d, le>>] = t \o <<m>>
    BY <1>0, <1>6 DEF Types
  <2> HIDE DEF t, m
  <2>2. /\ IsSequence(t \o <<m>>) /\ DOMAIN t = 1 .. Len(t) /\ Len(t) \in Nat
        /\ DOMAIN (t \o <<m>>) = 1 .. Len(t) + 1
        /\ \A i \in DOMAIN t : (t \o <<m>>)[i] = t[i]
        /\ (t \o <<m>>)[Len(t) + 1] = m
    BY <2>1, AppendOne
  <2> QED BY <2>1, <2>2, Zenon DEF t, m
<1>9. \A s, d \in Ranks, le \in LocalExperts : ~(s = r /\ d # r) => wire'[<<s, d, le>>] = wire[<<s, d, le>>]
  BY <1>6
\* A message that is there now was there before, or is the signal.
<1>10. ASSUME NEW s \in Ranks, NEW d \in Ranks, NEW le \in LocalExperts, NEW i \in DOMAIN wire'[<<s, d, le>>]
       PROVE  \/ i \in DOMAIN wire[<<s, d, le>>] /\ wire'[<<s, d, le>>][i] = wire[<<s, d, le>>][i]
              \/ /\ s = r /\ d # r /\ i = Len(wire[<<s, d, le>>]) + 1
                 /\ wire'[<<s, d, le>>][i] = Sig(d, le)
  <2>1. CASE s = r /\ d # r
    BY <1>8, <1>10, <2>1
  <2>2. CASE ~(s = r /\ d # r)
    BY <1>9, <1>10, <2>2
  <2> QED BY <2>1, <2>2
\* No signal that is out, or has landed in a word that is not cleaned, is in this buffer.
<1>11. ASSUME NEW d \in Ranks, NEW j \in Calls, NonClean(j), Signalled(r, j), ~CleanedIn(d, j + 1)
       PROVE  Buf(j) # c
  BY <1>0, <1>11, NotYet
<1>12. ASSUME NEW s \in Ranks, NEW d \in Ranks, NEW le \in LocalExperts, NEW j \in Calls, NonClean(j),
              Landed(s, d, le, j), ~CleanedIn(d, j + 1)
       PROVE  /\ Signalled(s, j)'
              /\ ~(\E i \in DOMAIN wire'[<<s, d, le>>] : /\ wire'[<<s, d, le>>][i].word >= 0
                                                        /\ wire'[<<s, d, le>>][i].buf = Buf(j))
  <2>1. j \in Nat /\ Signalled(s, j)
    BY <1>2, <1>12 DEF Landed
  <2>2. SUFFICES ASSUME NEW i \in DOMAIN wire'[<<s, d, le>>], wire'[<<s, d, le>>][i].word >= 0,
                        wire'[<<s, d, le>>][i].buf = Buf(j)
                 PROVE  FALSE
    BY <1>4, <2>1
  <2>3. CASE i \in DOMAIN wire[<<s, d, le>>] /\ wire'[<<s, d, le>>][i] = wire[<<s, d, le>>][i]
    BY <1>12, <2>2, <2>3 DEF Landed, Pending, IsSignal
  <2>4. CASE s = r /\ d # r /\ wire'[<<s, d, le>>][i] = Sig(d, le)
    <3>1. Buf(j) = c
      BY <1>7, <2>2, <2>4
    <3> QED BY <1>11, <1>12, <2>1, <2>4, <3>1
  <2> QED BY <1>10, <2>3, <2>4
<1>13. \A d \in Ranks, le \in LocalExperts : ~Pending(<<r, d, le>>, c)
  <2> SUFFICES ASSUME NEW d \in Ranks, NEW le \in LocalExperts,
                      NEW i \in DOMAIN wire[<<r, d, le>>], IsSignal(<<r, d, le>>, i),
                      wire[<<r, d, le>>][i].buf = c
               PROVE  FALSE
    BY DEF Pending
  <2>1. PICK j \in Calls : NonClean(j) /\ Signalled(r, j) /\ calls[d] < j /\ Buf(j) = c
    BY DEF IInv, OnTheWay, SignalOf
  <2>2. ~CleanedIn(d, j + 1)
    BY <1>0, <1>2, <2>1 DEF CleanedIn
  <2> QED BY <1>11, <2>1, <2>2
<1>14. Types'
  <2>1. \A q \in DOMAIN wire : IsSequence(wire'[q])
    <3> SUFFICES ASSUME NEW s \in Ranks, NEW d \in Ranks, NEW le \in LocalExperts
                 PROVE  IsSequence(wire'[<<s, d, le>>])
      BY <1>0
    <3>1. CASE s = r /\ d # r
      BY <1>8, <3>1
    <3>2. CASE ~(s = r /\ d # r)
      BY <1>0, <1>9, <3>2 DEF Types
    <3> QED BY <3>1, <3>2
  <2>2. WordsThere(words')
    <3>1. words' = [words EXCEPT ![r][c] = [i \in DOMAIN @ |->
             IF i \in own
             THEN @[i] + SignalValue(k, r, r, CHOOSE le \in LocalExperts : SignalWord(k, r, le) = i)
             ELSE @[i]]]
      BY DEF Signal
    <3> HIDE DEF own
    <3> QED BY <1>0, <3>1 DEF WordsThere
  <2> QED BY <1>0, <1>6, <2>1, <2>2, TypesStay DEF Types, Stages
<1>15. Fits(r)'
  <2>1. Now(r)' = Now(r) /\ seen'[r] = {}
    BY <1>0 DEF Now
  <2> QED BY <1>0, <1>2, <1>3, <2>1 DEF Fits
<1>16. OnTheWay'
  <2>1. SUFFICES ASSUME NEW s \in Ranks, NEW d \in Ranks, NEW le \in LocalExperts,
                        NEW i \in DOMAIN wire'[<<s, d, le>>], IsSignal(<<s, d, le>>, i)'
                 PROVE  \E j \in Calls : SignalOf(j, s, d, le, i)'
    BY <1>3 DEF OnTheWay
  <2>2. CASE i \in DOMAIN wire[<<s, d, le>>] /\ wire'[<<s, d, le>>][i] = wire[<<s, d, le>>][i]
    <3>1. PICK j \in Calls : SignalOf(j, s, d, le, i)
      BY <2>1, <2>2 DEF IInv, OnTheWay, IsSignal
    <3>2. Signalled(s, j)'
      BY <1>2, <1>4, <3>1 DEF SignalOf
    <3>3. SignalOf(j, s, d, le, i)'
      BY <1>0, <1>3, <2>2, <3>1, <3>2 DEF SignalOf
    <3> QED BY <3>3
  <2>3. CASE s = r /\ d # r /\ wire'[<<s, d, le>>][i] = Sig(d, le)
    <3>1. calls[d] < k
      <4>1. SUFFICES ASSUME calls[d] >= k
                     PROVE  FALSE
        BY <1>0, <1>2
      <4>2. DoneIn(r, k)
        BY <1>2, <4>1 DEF IInv, Onward
      <4> QED BY <1>2, <1>5, <4>2 DEF DoneIn
    <3>2. k' = k
      BY <1>0 DEF Now
    <3> HIDE DEF k
    <3>3. /\ NonClean(k) /\ Signalled(r, k)' /\ calls'[d] < k
          /\ wire'[<<s, d, le>>][i].buf = Buf(k) /\ wire'[<<s, d, le>>][i].word = SignalWord(k, r, le)
          /\ wire'[<<s, d, le>>][i].value = SignalValue(k, r, d, le)
          /\ wire'[<<s, d, le>>][i].moves = {}
      BY <1>0, <1>2, <1>5, <1>7, <2>3, <3>1
    <3> DEFINE j == k
    <3>4. j \in Calls /\ j' = j
      BY <1>2, <3>2
    <3>5. \E x \in Calls : /\ NonClean(x) /\ calls'[d] < x /\ s # d
                           /\ (calls'[s] >= x \/ (calls'[s] = x - 1 /\ stage'[s] \in {"receive", "reduce"}))
                           /\ wire'[<<s, d, le>>][i].buf = Buf(x)
                           /\ wire'[<<s, d, le>>][i].word = SignalWord(x, s, le)
                           /\ wire'[<<s, d, le>>][i].value = SignalValue(x, s, d, le)
                           /\ wire'[<<s, d, le>>][i].moves = {}
      BY <1>2, <2>3, <3>2, <3>3 DEF Signalled
    <3> QED BY <1>3, <3>5 DEF SignalOf, Signalled
  <2> QED BY <1>10, <2>1, <2>2, <2>3
<1>17. OneSignal'
  <2> SUFFICES ASSUME NEW s \in Ranks, NEW d \in Ranks, NEW le \in LocalExperts,
                      NEW i \in DOMAIN wire'[<<s, d, le>>], NEW j \in DOMAIN wire'[<<s, d, le>>],
                      IsSignal(<<s, d, le>>, i)', IsSignal(<<s, d, le>>, j)',
                      wire'[<<s, d, le>>][i].buf = wire'[<<s, d, le>>][j].buf
               PROVE  i = j
    BY <1>0, <1>6 DEF OneSignal
  <2> DEFINE q == <<s, d, le>>
             Old(x) == x \in DOMAIN wire[q] /\ wire'[q][x] = wire[q][x]
             New(x) == s = r /\ d # r /\ x = Len(wire[q]) + 1 /\ wire'[q][x] = Sig(d, le)
  <2>1. (Old(i) \/ New(i)) /\ (Old(j) \/ New(j))
    BY <1>10
  <2>2. q \in DOMAIN wire
    BY <1>0
  <2>3. ASSUME NEW x \in DOMAIN wire'[q], NEW y, Old(x), New(y), IsSignal(q, x)', wire'[q][x].buf = wire'[q][y].buf
        PROVE  FALSE
    <3>1. IsSignal(q, x) /\ wire[q][x].buf = c
      BY <1>7, <2>3 DEF IsSignal
    <3> QED BY <1>13, <2>3, <3>1 DEF Pending, IsSignal
  <2>4. CASE Old(i) /\ Old(j)
    BY <2>2, <2>4 DEF IInv, OneSignal, IsSignal
  <2>5. CASE New(i) /\ New(j)
    BY <2>5
  <2>6. CASE Old(i) /\ New(j)
    BY <2>3, <2>6
  <2>7. CASE New(i) /\ Old(j)
    BY <2>3, <2>7
  <2> QED BY <2>1, <2>4, <2>5, <2>6, <2>7
<1>18. WordsKnown'
  <2>1. SUFFICES ASSUME NEW d \in Ranks, NEW b \in Buffers, NEW w \in 0 .. NumWords - 1,
                        words'[d][b][w] # 0, ~Dirty(d)'
                 PROVE  \E j \in Calls, s \in Ranks, le \in LocalExperts : WordOf(d, b, w, j, s, le)'
    BY <1>3 DEF WordsKnown
  <2>2. words' = [words EXCEPT ![r][c] = [i \in DOMAIN @ |->
           IF i \in own
           THEN @[i] + SignalValue(k, r, r, CHOOSE le \in LocalExperts : SignalWord(k, r, le) = i)
           ELSE @[i]]]
    BY DEF Signal
  \* In a primed WordOf only calls, stages, the wire and the words are primed.
  <2>3. ASSUME NEW j \in Calls, NEW s \in Ranks, NEW le \in LocalExperts,
               NonClean(j), Buf(j) = b, SignalWord(j, s, le) = w, Signalled(s, j)',
               words'[d][b][w] = SignalValue(j, s, d, le),
               ~(\E i \in DOMAIN wire'[<<s, d, le>>] : /\ wire'[<<s, d, le>>][i].word >= 0
                                                        /\ wire'[<<s, d, le>>][i].buf = Buf(j)),
               ~CleanedIn(d, j + 1)'
        PROVE  WordOf(d, b, w, j, s, le)'
    BY <1>3, <2>3 DEF WordOf, Landed, Pending, IsSignal
  <2>4. CASE d = r /\ b = c /\ w \in own
    <3>1. PICK le \in LocalExperts : w = SignalWord(k, r, le)
      BY <2>4
    <3>2. ~(\E i \in DOMAIN wire'[<<r, d, le>>] : /\ wire'[<<r, d, le>>][i].word >= 0
                                                  /\ wire'[<<r, d, le>>][i].buf = Buf(k))
      BY <1>9, <1>13, <2>4 DEF Pending, IsSignal
    <3>3. calls'[d] < k
      BY <1>0, <1>2, <2>4
    <3>4. k' = k
      BY <1>0 DEF Now
    <3>5. NonClean(k) /\ Buf(k) = b /\ Signalled(r, k)' /\ k \in Calls
      BY <1>2, <1>5, <2>4
    <3> HIDE DEF k
    <3>6. calls'[r] >= k \/ (calls'[r] = k - 1 /\ stage'[r] \in {"receive", "reduce"})
      BY <3>4, <3>5 DEF Signalled
    <3>7. PICK j \in Calls : j = k
      BY <3>5
    <3>8. Signalled(r, j)'
      BY <3>6, <3>7 DEF Signalled
    <3>10. ~CleanedIn(d, j + 1)'
      <4>1. calls'[d] < j /\ j \in Nat /\ calls'[d] \in Nat
        BY <1>0, <1>2, <3>3, <3>7
      <4> QED BY <4>1 DEF CleanedIn
    <3>11. NonClean(j) /\ Buf(j) = b /\ SignalWord(j, r, le) = w
           /\ ~(\E i \in DOMAIN wire'[<<r, d, le>>] : /\ wire'[<<r, d, le>>][i].word >= 0
                                                     /\ wire'[<<r, d, le>>][i].buf = Buf(j))
      BY <3>1, <3>2, <3>5, <3>7
    <3>12. words'[d][b][w] = SignalValue(j, r, d, le)
      <4>1. b \in Buffers /\ w \in DOMAIN words[r][c] /\ c \in DOMAIN words[r]
        BY <1>0, <2>4 DEF WordsThere
      <4>2. (CHOOSE x \in LocalExperts : SignalWord(k, r, x) = w) = le
        BY <1>0, <3>1, WordsApart
      <4>3. words'[r][c][w] = words[r][c][w] + SignalValue(k, r, r, le)
        <5> DEFINE z == CHOOSE x \in LocalExperts : SignalWord(k, r, x) = w
        <5>1. words'[r][c][w] = words[r][c][w] + SignalValue(k, r, r, z)
          <6> HIDE DEF own, c
          <6> QED BY <1>0, <2>2, <2>4, <4>1 DEF WordsThere
        <5> QED BY <4>2, <5>1
      <4>4. words[r][c][w] = 0
        <5>1. k = Now(r)
          BY DEF k
        <5>2. words[r][Buf(k)][SignalWord(k, r, le)] = 0
          BY <1>0, <5>1, OwnWordClean
        <5> QED BY <3>1, <5>2
      <4>5. SignalValue(k, r, r, le) \in Int
        BY <1>0, <1>2, <3>7, SignalValues
      <4> HIDE DEF c
      <4> QED BY <2>4, <3>7, <4>3, <4>4, <4>5
    <3>9. WordOf(d, b, w, j, r, le)'
      BY <2>3, <3>8, <3>10, <3>11, <3>12
    <3> QED BY <3>9
  <2>5. CASE ~(d = r /\ b = c /\ w \in own)
    <3>1. words'[d][b][w] = words[d][b][w]
      <4>1. CASE d = r /\ b = c
        <5> HIDE DEF own
        <5>1. w \in DOMAIN words[r][c]
          BY <1>0, <4>1 DEF WordsThere
        <5> HIDE DEF c, k
        <5>2. words'[r][c][w] = words[r][c][w]
          BY <1>0, <2>2, <2>5, <4>1, <5>1 DEF WordsThere
        <5> QED BY <2>1, <4>1, <5>2
      <4>2. CASE ~(d = r /\ b = c)
        <5> HIDE DEF own, c
        <5> QED BY <1>0, <2>1, <2>2, <4>2 DEF WordsThere
      <4> QED BY <4>1, <4>2
    <3>2. ~Dirty(d)
      BY <1>0, <2>1 DEF Dirty
    <3>3. PICK j \in Calls, s \in Ranks, le \in LocalExperts : WordOf(d, b, w, j, s, le)
      BY <2>1, <3>1, <3>2 DEF IInv, WordsKnown
    <3>4. ~CleanedIn(d, j + 1)'
      BY <1>0, <3>3 DEF WordOf, CleanedIn
    <3>5. WordOf(d, b, w, j, s, le)'
      BY <1>12, <2>3, <3>1, <3>3, <3>4 DEF WordOf
    <3> QED BY <3>5
  <2> QED BY <2>4, <2>5
<1>19. SeenLanded'
  <2>1. SUFFICES ASSUME NEW q \in Ranks
                 PROVE  SeenBy(q)'
    BY <1>3 DEF SeenLanded
  <2>2. CASE q = r
    BY <1>0, <2>2 DEF SeenBy, LandedFor
  <2>3. CASE q # r
    <3>1. SeenBy(q) /\ Fits(q) /\ stage'[q] = stage[q] /\ calls'[q] = calls[q] /\ seen'[q] = seen[q]
      BY <1>0, <2>3 DEF IInv, SeenLanded, StagesFit
    <3>2. Now(q)' = Now(q) /\ Now(q) = calls[q] + 1 /\ calls[q] \in Nat
      BY <1>0, <3>1 DEF Now
    <3>3. ASSUME NEW es, es \subseteq Experts, LandedFor(q, es), stage[q] \in {"receive", "reduce"}
          PROVE  \A e \in es : Landed(RankOf(e), q, LocalOf(e), Now(q))'
      <4> SUFFICES ASSUME NEW e \in es
                   PROVE  Landed(RankOf(e), q, LocalOf(e), Now(q))'
        OBVIOUS
      <4> DEFINE a == RankOf(e)
                 le == LocalOf(e)
                 j == Now(q)
      <4>1. a \in Ranks /\ le \in LocalExperts /\ Landed(a, q, le, j)
        BY <1>0, <3>3, ExpertNumbers DEF LandedFor
      <4>2. j \in Calls /\ NonClean(j)
        BY <3>1, <3>3 DEF Fits
      <4>3. ~CleanedIn(q, j + 1)
        BY <3>2 DEF CleanedIn
      <4>4. a' = a /\ le' = le /\ j' = j
        BY <1>3, <3>2
      <4> HIDE DEF a, le, j
      <4>5. /\ Signalled(a, j)'
            /\ ~(\E i \in DOMAIN wire'[<<a, q, le>>] : /\ wire'[<<a, q, le>>][i].word >= 0
                                                       /\ wire'[<<a, q, le>>][i].buf = Buf(j))
        <5>1. ASSUME NEW x \in Ranks, NEW y \in LocalExperts, NEW z \in Calls, NonClean(z),
                     Landed(x, q, y, z), ~CleanedIn(q, z + 1)
              PROVE  /\ (calls'[x] >= z \/ (calls'[x] = z - 1 /\ stage'[x] \in {"receive", "reduce"}))
                     /\ ~(\E i \in DOMAIN wire'[<<x, q, y>>] : /\ wire'[<<x, q, y>>][i].word >= 0
                                                              /\ wire'[<<x, q, y>>][i].buf = Buf(z))
          BY <1>12, <5>1 DEF Signalled
        <5> QED BY <4>1, <4>2, <4>3, <4>4, <5>1 DEF Signalled
      <4>6. Landed(a, q, le, j)'
        BY <1>3, <4>4, <4>5 DEF Landed, Pending, IsSignal
      <4> QED BY <4>6 DEF a, le, j
    <3>4. stage[q] = "close" => \A p \in seen[q] : CleanedIn(p, Now(q))'
      <4>1. SUFFICES ASSUME stage[q] = "close", NEW p \in seen[q]
                     PROVE  CleanedIn(p, Now(q))'
        OBVIOUS
      <4>2. p \in Ranks /\ CleanedIn(p, Now(q)) /\ Now(q) \in Nat
        BY <3>1, <3>2, <4>1 DEF Fits, SeenBy
      <4> QED BY <1>4, <3>2, <4>2 DEF CleanedIn
    <3>5. stage[q] = "receive" => LandedFor(q, seen[q])'
      BY <3>1, <3>3 DEF SeenBy, Fits, LandedFor
    <3>6. stage[q] = "reduce" => LandedFor(q, Experts)'
      BY <1>3, <3>1, <3>3 DEF SeenBy, LandedFor
    <3> QED BY <3>1, <3>4, <3>5, <3>6 DEF SeenBy
  <2> QED BY <2>2, <2>3
<1>20. CountedDown'
  <2>1. ArrivalsBy(calls'[r], stage'[r]) = Arrivals(r)
    BY <1>0, ArrivalsCount DEF Arrivals
  <2> QED BY <1>0, <1>1, <2>1, CountsFrame
<1>21. StagesFit'
  BY <1>3, <1>4, <1>15 DEF StagesFit
<1> QED BY <1>4, <1>14, <1>16, <1>17, <1>18, <1>19, <1>20, <1>21 DEF IInv

\* The network delivers a message: a put, or a signal that is now in its word.
LEMMA LandKeeps ==
  ASSUME IInv, NEW s0 \in Ranks, NEW d0 \in Ranks, NEW l0 \in LocalExperts, Land(s0, d0, l0)
  PROVE  IInv'
<1> DEFINE p == <<s0, d0, l0>>
           m == Head(wire[p])
<1>0. /\ Types /\ p \in DOMAIN wire /\ wire[p] # <<>> /\ IsSequence(wire[p])
      /\ wire' = [wire EXCEPT ![p] = Tail(@)]
      /\ words' = IF m.word < 0 THEN words ELSE [words EXCEPT ![d0][m.buf][m.word] = @ + m.value]
      /\ prog' = prog /\ calls' = calls /\ stage' = stage /\ seen' = seen /\ alive' = alive
      /\ mask' = mask /\ sync' = sync /\ prog \in Setups /\ calls \in [Ranks -> Nat]
      /\ DOMAIN wire = Ranks \X Ranks \X LocalExperts /\ WordsThere(words)
  BY DEF IInv, Types, Land, callVars
<1>1. /\ IsSequence(wire'[p]) /\ DOMAIN wire' = DOMAIN wire
      /\ 1 \in DOMAIN wire[p] /\ m = wire[p][1]
      /\ \A i \in DOMAIN wire'[p] : i \in Nat \ {0} /\ i + 1 \in DOMAIN wire[p] /\ wire'[p][i] = wire[p][i + 1]
      /\ \A q \in DOMAIN wire : q # p => wire'[q] = wire[q]
  <2> DEFINE t == wire[p]
  <2>1. IsSequence(t) /\ t # <<>> /\ wire'[p] = Tail(t)
    BY <1>0
  <2> HIDE DEF t
  <2>2. /\ IsSequence(Tail(t)) /\ DOMAIN t = 1 .. Len(t) /\ Len(t) \in Nat /\ 1 \in DOMAIN t
        /\ Head(t) = t[1] /\ DOMAIN Tail(t) = 1 .. Len(t) - 1
        /\ \A i \in DOMAIN Tail(t) : i + 1 \in DOMAIN t /\ Tail(t)[i] = t[i + 1]
    BY <2>1, TakeOne
  <2>3. \A i \in DOMAIN Tail(t) : i \in Nat \ {0}
    BY <2>2
  <2>4. DOMAIN wire' = DOMAIN wire /\ \A q \in DOMAIN wire : q # p => wire'[q] = wire[q]
    BY <1>0
  <2>5. m = Head(t)
    BY DEF t
  <2> HIDE DEF p, m
  <2> QED BY <2>1, <2>2, <2>3, <2>4, <2>5 DEF t
<1>2. /\ Ranks' = Ranks /\ LocalExperts' = LocalExperts /\ Calls' = Calls /\ NumWords' = NumWords
      /\ Experts' = Experts /\ Buffers' = Buffers
      /\ \A j : (NonClean(j)' <=> NonClean(j)) /\ Kind(j)' = Kind(j)
      /\ \A j : Buf(j)' = Buf(j)
      /\ \A j, s, le : SignalWord(j, s, le)' = SignalWord(j, s, le)
      /\ \A j, s, d, le : SignalValue(j, s, d, le)' = SignalValue(j, s, d, le)
      /\ \A e : RankOf(e)' = RankOf(e) /\ LocalOf(e)' = LocalOf(e)
  BY <1>0, SetupStays DEF Buffers
<1>3. Calls = 1 .. Len(prog.calls) /\ Len(prog.calls) \in Nat
  BY <1>0, Sizes
<1>4. \A r, j : (Signalled(r, j)' <=> Signalled(r, j)) /\ (CleanedIn(r, j)' <=> CleanedIn(r, j))
  BY <1>0 DEF Signalled, CleanedIn
\* A message that is there now was there before.
<1>5. ASSUME NEW q \in DOMAIN wire, NEW i \in DOMAIN wire'[q]
      PROVE  LET j == IF q = p THEN i + 1 ELSE i
             IN  j \in DOMAIN wire[q] /\ wire'[q][i] = wire[q][j] /\ (q = p => j # 1)
  <2>1. CASE q = p
    BY <1>1, <1>5, <2>1
  <2>2. CASE q # p
    BY <1>1, <1>5, <2>2
  <2> QED BY <2>1, <2>2
<1>6. \A q \in DOMAIN wire : \A b :
        (\E i \in DOMAIN wire'[q] : wire'[q][i].word >= 0 /\ wire'[q][i].buf = b) => Pending(q, b)
  BY <1>5 DEF Pending, IsSignal
<1>7. ASSUME NEW s \in Ranks, NEW d \in Ranks, NEW le \in LocalExperts, NEW k, Landed(s, d, le, k)
      PROVE  ~(\E i \in DOMAIN wire'[<<s, d, le>>] : /\ wire'[<<s, d, le>>][i].word >= 0
                                                    /\ wire'[<<s, d, le>>][i].buf = Buf(k))
  <2>1. <<s, d, le>> \in DOMAIN wire
    BY <1>0
  <2> QED BY <1>6, <1>7, <2>1 DEF Landed
<1>8. ASSUME NEW s \in Ranks, NEW d \in Ranks, NEW le \in LocalExperts, NEW i \in DOMAIN wire'[<<s, d, le>>],
             wire'[<<s, d, le>>][i].word >= 0
      PROVE  \E j \in DOMAIN wire[<<s, d, le>>] :
               /\ IsSignal(<<s, d, le>>, j) /\ wire'[<<s, d, le>>][i] = wire[<<s, d, le>>][j]
               /\ <<s, d, le>> = p => j # 1
  <2> DEFINE q == <<s, d, le>>
  <2>1. q \in DOMAIN wire
    BY <1>0
  <2> HIDE DEF q, p
  <2>2. \A x \in DOMAIN wire'[q] : \E j \in DOMAIN wire[q] : wire'[q][x] = wire[q][j] /\ (q = p => j # 1)
    BY <1>5, <2>1
  <2>3. \E j \in DOMAIN wire[q] : wire'[q][i] = wire[q][j] /\ (q = p => j # 1)
    BY <1>8, <2>2 DEF q
  <2> QED BY <1>8, <2>3 DEF IsSignal, q
<1>9. OnTheWay'
  <2>1. SUFFICES ASSUME NEW s \in Ranks, NEW d \in Ranks, NEW le \in LocalExperts,
                        NEW i \in DOMAIN wire'[<<s, d, le>>], IsSignal(<<s, d, le>>, i)'
                 PROVE  \E k \in Calls : SignalOf(k, s, d, le, i)'
    BY <1>2 DEF OnTheWay
  <2>2. PICK j \in DOMAIN wire[<<s, d, le>>] :
          IsSignal(<<s, d, le>>, j) /\ wire'[<<s, d, le>>][i] = wire[<<s, d, le>>][j]
    BY <1>8, <2>1 DEF IsSignal
  <2>3. PICK k \in Calls : SignalOf(k, s, d, le, j)
    BY <2>2 DEF IInv, OnTheWay
  <2>4. SignalOf(k, s, d, le, i)'
    BY <1>0, <1>2, <1>4, <2>2, <2>3 DEF SignalOf
  <2> QED BY <2>4
<1>10. OneSignal'
  <2> SUFFICES ASSUME NEW q \in DOMAIN wire, NEW i \in DOMAIN wire'[q], NEW j \in DOMAIN wire'[q],
                      wire'[q][i].word >= 0, wire'[q][j].word >= 0, wire'[q][i].buf = wire'[q][j].buf
               PROVE  i = j
    BY <1>1 DEF OneSignal, IsSignal
  <2>1. CASE q # p
    <3>1. wire'[q] = wire[q]
      BY <1>1, <2>1
    <3> QED BY <3>1 DEF IInv, OneSignal, IsSignal
  <2>2. CASE q = p
    <3>1. /\ i \in Nat /\ j \in Nat /\ i + 1 \in DOMAIN wire[q] /\ j + 1 \in DOMAIN wire[q]
          /\ wire'[q][i] = wire[q][i + 1] /\ wire'[q][j] = wire[q][j + 1]
      BY <1>1, <2>2
    <3>2. i + 1 = j + 1
      BY <3>1 DEF IInv, OneSignal, IsSignal
    <3> QED BY <3>1, <3>2
  <2> QED BY <2>1, <2>2
<1>11. WordsThere(words')
  <2> HIDE DEF m
  <2> QED BY <1>0 DEF WordsThere
<1>12. Types'
  <2>1. \A q \in DOMAIN wire : IsSequence(wire'[q])
    BY <1>0, <1>1 DEF Types
  <2> QED BY <1>0, <1>1, <1>11, <2>1, TypesStay DEF Types
\* In a primed WordOf only calls, stages, the wire and the words are primed.
<1>13. ASSUME NEW d \in Ranks, NEW b, NEW w, NEW k, NEW s \in Ranks, NEW le \in LocalExperts,
              words'[d][b][w] = SignalValue(k, s, d, le), NonClean(k), Buf(k) = b, SignalWord(k, s, le) = w, Signalled(s, k), ~CleanedIn(d, k + 1),
              ~(\E i \in DOMAIN wire'[<<s, d, le>>] : /\ wire'[<<s, d, le>>][i].word >= 0
                                                     /\ wire'[<<s, d, le>>][i].buf = Buf(k))
       PROVE  WordOf(d, b, w, k, s, le)'
  BY <1>2, <1>4, <1>13 DEF WordOf, Landed, Pending, IsSignal
<1>14. WordsKnown'
  <2>1. SUFFICES ASSUME NEW d \in Ranks, NEW b \in Buffers, NEW w \in 0 .. NumWords - 1,
                        words'[d][b][w] # 0, ~Dirty(d)'
                 PROVE  \E k \in Calls, s \in Ranks, le \in LocalExperts : WordOf(d, b, w, k, s, le)'
    BY <1>2 DEF WordsKnown
  <2>2. CASE m.word >= 0 /\ d = d0 /\ b = m.buf /\ w = m.word
    <3>1. IsSignal(p, 1)
      BY <1>1, <2>2 DEF IsSignal
    <3>2. PICK k \in Calls : SignalOf(k, s0, d0, l0, 1)
      BY <1>1, <3>1 DEF IInv, OnTheWay
    <3>3. NonClean(k) /\ Buf(k) = b /\ SignalWord(k, s0, l0) = w /\ Signalled(s0, k) /\ calls[d] < k
      BY <1>1, <2>2, <3>2 DEF SignalOf
    <3>4. ~CleanedIn(d, k + 1)
      BY <1>0, <1>3, <3>3 DEF CleanedIn
    <3>5. ASSUME NEW i \in DOMAIN wire'[p], wire'[p][i].word >= 0, wire'[p][i].buf = Buf(k)
          PROVE  FALSE
      <4>1. PICK j \in DOMAIN wire[p] : IsSignal(p, j) /\ wire'[p][i] = wire[p][j] /\ j # 1
        BY <1>8, <3>5
      <4>2. wire[p][j].buf = wire[p][1].buf
        BY <1>1, <2>2, <3>3, <3>5, <4>1
      <4> QED BY <1>0, <1>1, <3>1, <4>1, <4>2 DEF IInv, OneSignal
    <3>7. words'[d][b][w] = SignalValue(k, s0, d, l0)
      <4>1. m.value = SignalValue(k, s0, d, l0) /\ SignalValue(k, s0, d, l0) \in Int
        BY <1>0, <1>1, <2>2, <3>2, SignalValues DEF SignalOf
      <4>2. words[d][b][w] = 0
        <5>1. p \in DOMAIN wire /\ p[2] = d /\ wire[p][1].buf = b /\ wire[p][1].word = w
          BY <1>0, <1>1, <2>2
        <5>2. SignalsMeetZero
          BY MeetsZero
        <5> HIDE DEF p
        <5> QED BY <1>1, <2>2, <5>1, <5>2 DEF SignalsMeetZero
      <4>3. d \in DOMAIN words /\ b \in DOMAIN words[d] /\ w \in DOMAIN words[d][b]
        BY <1>0 DEF WordsThere
      <4>4. words' = [words EXCEPT ![d][b][w] = @ + m.value]
        <5>1. ~(m.word < 0)
          BY <2>1, <2>2
        <5> HIDE DEF m
        <5> QED BY <1>0, <2>2, <5>1
      <4>5. words'[d][b][w] = words[d][b][w] + m.value
        BY <4>3, <4>4
      <4> HIDE DEF m
      <4> QED BY <4>1, <4>2, <4>5
    <3>6. WordOf(d, b, w, k, s0, l0)'
      BY <1>13, <2>2, <3>3, <3>4, <3>5, <3>7
    <3> QED BY <3>6
  <2>3. CASE ~(m.word >= 0 /\ d = d0 /\ b = m.buf /\ w = m.word)
    <3>1. words'[d][b][w] = words[d][b][w]
      <4> HIDE DEF m
      <4>1. CASE words' = words
        BY <4>1
      <4>2. CASE words' # words
        <5>1. words' = [words EXCEPT ![d0][m.buf][m.word] = @ + m.value] /\ ~(m.word < 0)
          BY <1>0, <4>2
        <5>2. d \in DOMAIN words /\ b \in DOMAIN words[d] /\ w \in DOMAIN words[d][b]
          BY <1>0 DEF WordsThere
        <5>3. ~(d = d0 /\ b = m.buf /\ w = m.word)
          <6>1. SUFFICES ASSUME d = d0 /\ b = m.buf /\ w = m.word
                         PROVE  m.word >= 0
            BY <2>3
          <6>2. w \in Int
            OBVIOUS
          <6> QED BY <5>1, <6>1, <6>2
        <5>4. words'[d][b][w] = words[d][b][w]
          BY <5>1, <5>2, <5>3
        <5> QED BY <2>1, <5>4
      <4> QED BY <4>1, <4>2
    <3>2. ~Dirty(d)
      BY <1>0, <2>1 DEF Dirty
    <3>3. PICK k \in Calls, s \in Ranks, le \in LocalExperts : WordOf(d, b, w, k, s, le)
      BY <2>1, <3>1, <3>2 DEF IInv, WordsKnown
    <3>4. /\ NonClean(k) /\ Buf(k) = b /\ SignalWord(k, s, le) = w
          /\ Landed(s, d, le, k) /\ Signalled(s, k) /\ ~CleanedIn(d, k + 1)
      BY <3>3 DEF WordOf, Landed
    <3>5. ~(\E i \in DOMAIN wire'[<<s, d, le>>] : /\ wire'[<<s, d, le>>][i].word >= 0
                                                  /\ wire'[<<s, d, le>>][i].buf = Buf(k))
      BY <1>7, <3>4
    <3>7. words'[d][b][w] = SignalValue(k, s, d, le)
      BY <3>1, <3>3 DEF WordOf
    <3>6. WordOf(d, b, w, k, s, le)'
      BY <1>13, <3>4, <3>5, <3>7
    <3> QED BY <3>6
  <2> QED BY <2>2, <2>3
<1>15. SeenLanded'
  <2>1. SUFFICES ASSUME NEW q \in Ranks
                 PROVE  SeenBy(q)'
    BY <1>2 DEF SeenLanded
  <2>2. SeenBy(q) /\ Fits(q) /\ Now(q)' = Now(q)
    BY <1>0 DEF IInv, SeenLanded, StagesFit, Now
  <2>3. ASSUME NEW es, es \subseteq Experts, LandedFor(q, es)
        PROVE  \A e \in es : Landed(RankOf(e), q, LocalOf(e), Now(q))'
    <3> SUFFICES ASSUME NEW e \in es
                 PROVE  Landed(RankOf(e), q, LocalOf(e), Now(q))'
      OBVIOUS
    <3> DEFINE a == RankOf(e)
               le == LocalOf(e)
               k == Now(q)
    <3>1. a \in Ranks /\ le \in LocalExperts /\ Landed(a, q, le, k)
      BY <1>0, <2>3, ExpertNumbers DEF LandedFor
    <3>2. a' = a /\ le' = le /\ k' = k
      BY <1>2, <2>2
    <3> HIDE DEF a, le, k
    <3>3. /\ calls'[a] >= k \/ (calls'[a] = k - 1 /\ stage'[a] \in {"receive", "reduce"})
          /\ ~(\E i \in DOMAIN wire'[<<a, q, le>>] : /\ wire'[<<a, q, le>>][i].word >= 0
                                                    /\ wire'[<<a, q, le>>][i].buf = Buf(k))
      <4>1. ~(\E i \in DOMAIN wire'[<<a, q, le>>] : /\ wire'[<<a, q, le>>][i].word >= 0
                                                    /\ wire'[<<a, q, le>>][i].buf = Buf(k))
        BY <1>7, <3>1
      <4> QED BY <1>0, <3>1, <4>1 DEF Landed, Signalled
    <3>4. Landed(a, q, le, k)'
      BY <1>2, <3>2, <3>3 DEF Landed, Signalled, Pending, IsSignal
    <3> QED BY <3>4 DEF a, le, k
  <2>4. stage[q] = "receive" => LandedFor(q, seen[q])'
    BY <1>0, <2>2, <2>3 DEF SeenBy, Fits, LandedFor
  <2>5. stage[q] = "reduce" => LandedFor(q, Experts)'
    BY <1>2, <2>2, <2>3 DEF SeenBy, LandedFor
  <2>6. stage[q] = "close" => \A x \in seen[q] : CleanedIn(x, Now(q))'
    BY <1>0, <2>2 DEF SeenBy, CleanedIn
  <2> QED BY <1>0, <2>4, <2>5, <2>6 DEF SeenBy
<1>16. StagesFit' /\ Onward'
  BY <1>0, <1>2, <1>4 DEF IInv, StagesFit, Fits, Now, Onward, DoneIn
<1>17. CountedDown'
  <2>1. \A q \in Ranks : Arrivals(q)' = Arrivals(q)
    BY <1>0, ArrivalsPrimed DEF Arrivals
  <2> QED BY <1>0, <1>2, <2>1 DEF IInv, CountedDown
<1> QED BY <1>9, <1>10, <1>12, <1>14, <1>15, <1>16, <1>17 DEF IInv

-----------------------------------------------------------------------------
(* The invariant, and what follows from it. *)

LEMMA IInvInit ==
  ASSUME NoFailures, Init
  PROVE  IInv
<1>0. /\ prog \in Setups /\ alive = Ranks /\ calls = [r \in Ranks |-> 0]
      /\ stage = [r \in Ranks |-> "idle"] /\ seen = [r \in Ranks |-> {}]
      /\ mask = [r \in Ranks |-> {}] /\ sync = [r \in Ranks |-> [q \in Ranks |-> 0]]
      /\ words = [r \in Ranks |-> [b \in Buffers |-> [i \in 0 .. NumWords - 1 |->
                   IF prog.dirty THEN Dirt ELSE 0]]]
      /\ wire = [q \in Ranks \X Ranks \X LocalExperts |-> <<>>]
  BY DEF Init
<1>1. Calls = 1 .. Len(prog.calls) /\ Len(prog.calls) \in Nat
  BY <1>0, Sizes
<1>2. Types
  <2>1. \A q \in DOMAIN wire : IsSequence(wire[q])
    <3>1. IsSequence(<<>>)
      BY DEF IsSequence
    <3> QED BY <1>0, <3>1
  <2> QED BY <1>0, <1>1, <2>1 DEF Types, WordsThere, Stages
<1>3. StagesFit
  BY <1>0 DEF StagesFit, Fits
<1>4. Onward
  BY <1>0, <1>1 DEF Onward
<1>5. OnTheWay /\ OneSignal
  BY <1>0 DEF OnTheWay, OneSignal, IsSignal
<1>6. WordsKnown
  BY <1>0 DEF WordsKnown, Dirty
<1>7. SeenLanded
  BY <1>0 DEF SeenLanded, SeenBy
<1>8. CountedDown
  <2>1. Cleans(0) = 0
    BY FS_EmptySet DEF Cleans
  <2>2. ArrivalsBy(0, "idle") = 0
    <3>1. 0 \in Nat /\ "idle" \notin {"open", "zero", "close"}
      OBVIOUS
    <3>2. ArrivalsBy(0, "idle") = 2 * Cleans(0)
      BY <3>1, ArrivalsCount
    <3> QED BY <2>1, <3>2
  <2> QED BY <1>0, <2>2 DEF CountedDown, Arrivals
<1> QED BY <1>2, <1>3, <1>4, <1>5, <1>6, <1>7, <1>8 DEF IInv

LEMMA StutterKeeps ==
  ASSUME IInv, UNCHANGED vars
  PROVE  IInv'
<1>0. /\ prog' = prog /\ calls' = calls /\ stage' = stage /\ seen' = seen /\ alive' = alive
      /\ mask' = mask /\ sync' = sync /\ words' = words /\ wire' = wire
      /\ prog \in Setups /\ calls \in [Ranks -> Nat]
  BY DEF vars, IInv, Types
<1>1. 0 \in Ranks /\ 1 \in Ranks /\ Ranks' = Ranks
  BY <1>0, Sizes, SetupStays
<1>2. SignalsKept
  BY <1>0, WireStays
\* No rank has gone on, so none but the first has, and none but the second.
<1>3. ASSUME NEW r \in Ranks
      PROVE  OnlyRank(r) /\ Onwards(r) /\ EndsWell(r) /\ NoCleaning(r) /\ calls'[r] = calls[r]
  BY <1>0 DEF OnlyRank, Onwards, EndsWell, NoCleaning
<1>4. \A r \in Ranks : \A q \in Ranks \ {r} : Fits(q)' /\ SeenBy(q)'
  BY <1>2, <1>3, CallsFrame, WireFrame
<1>5. \A q \in Ranks : Fits(q)' /\ SeenBy(q)'
  BY <1>1, <1>4
<1>6. Types'
  BY <1>0, TypesStay DEF IInv, Types
<1>7. WordsKnown'
  <2>1. \A k \in Calls : CleanedIn(0, k + 1)' => CleanedIn(0, k + 1)
    BY <1>0, <1>1, <1>3, NothingCleaned, Sizes
  <2>2. Dirty(0) => Dirty(0)'
    BY <1>0 DEF Dirty
  <2> QED BY <1>0, <1>1, <1>2, <1>3, <2>1, <2>2, WordsFrame
<1>8. CountedDown'
  BY <1>0, <1>1, <1>3, CountsFrame DEF Arrivals
<1> QED BY <1>1, <1>2, <1>3, <1>5, <1>6, <1>7, <1>8, StepOfRank

LEMMA IInvStep ==
  ASSUME NoFailures, IInv, [Next]_vars
  PROVE  IInv'
<1>1. ASSUME NEW r \in Ranks, Step(r)
      PROVE  IInv'
  <2>1. CASE SendTokens(r) \/ SendBack(r)
    BY <2>1, SendingStep, SendStepKeeps
  <2>2. CASE CleanNext(r) \/ Signal(r)
    BY <2>2, CleanNextKeeps, SignalKeeps
  <2>3. CASE ReceiveFlags(r) \/ Reduce(r) \/ \E e \in Experts : Receive(r, e)
    BY <2>3, ReceiveFlagsKeeps, ReduceKeeps, ReceiveKeeps
  <2>4. CASE StartClean(r) \/ ZeroBoth(r) \/ \E q \in Ranks : Meet(r, q)
    BY <2>4, StartCleanKeeps, ZeroBothKeeps, MeetKeeps
  <2> QED BY <1>1, <2>1, <2>2, <2>3, <2>4 DEF Step
<1>2. ASSUME NEW q \in DOMAIN wire, Land(q[1], q[2], q[3])
      PROVE  IInv'
  <2>1. q[1] \in Ranks /\ q[2] \in Ranks /\ q[3] \in LocalExperts
    BY DEF IInv, Types
  <2> QED BY <1>2, <2>1, LandKeeps
<1>3. ASSUME NEW r \in Ranks, Fail(r)
      PROVE  FALSE
  BY <1>3 DEF Fail, NoFailures, IInv, Types
<1>4. alive = Ranks
  BY DEF IInv, Types
<1> QED BY <1>1, <1>2, <1>3, <1>4, StutterKeeps DEF Next, Work

\* Calls and words fit together: no rank ends a call before every rank has signalled in it, and
\* a word that is not clean holds the signal of the one call whose next has not cleaned it yet.
THEOREM Invariance ==
  ASSUME NoFailures
  PROVE  Spec => []IInv
<1>1. Init => IInv
  BY IInvInit
<1>2. IInv /\ [Next]_vars => IInv'
  BY IInvStep
<1> QED BY <1>1, <1>2, PTL DEF Spec

\* Any number of ranks, experts and tokens, any sequence of dispatches, combines and cleanings:
\* with two buffers in turn, and no barrier between the calls, a signal always finds its word
\* clean - unless a rank fails.
THEOREM SignalsMeetClean ==
  ASSUME NoFailures
  PROVE  Spec => []SignalsMeetZero
<1> QED BY Invariance, MeetsZero, PTL

-----------------------------------------------------------------------------
(***************************************************************************)
(* The invariants of what is sent.  A put carries a cargo: for some slots  *)
(* of the receiver the item that goes there.  What a rank sends a peer's   *)
(* expert in a call, or returns from its own one, is one cargo, and lies   *)
(* in slots that belong to the word of the signal that follows it.         *)
(***************************************************************************)

Slots == 0 .. NumSlots - 1
Contents == [Ranks -> [Buffers -> [Slots -> ItemSet]]]

\* Rank r has handed its puts of call k to the network.
Issued(r, k) == calls[r] >= k \/ (calls[r] = k - 1 /\ stage[r] # "idle")
IsPut(q, i) == i \in DOMAIN wire[q] /\ ~(wire[q][i].word >= 0)
PutPending(q, b) == \E i \in DOMAIN wire[q] : IsPut(q, i) /\ wire[q][i].buf = b

\* The warps of a dispatch take slots in any order.
DispatchCargo(k, s, le, o) == {<<DispatchSlot(le, s, i - 1), Item(k, s, o[i], -1)>> : i \in DOMAIN o}
CombineCargo(k, d, e) == {<<CombineSlot(e, t), Item(k, d, t, e)>> : t \in TokensFor(k, d, e)}
\* What rank s may send rank d in call k, for d's local expert le (dispatch) or from its own (combine).
Cargoes(k, s, d, le) ==
  IF Kind(k) = "dispatch"
  THEN {DispatchCargo(k, s, le, o) : o \in SetToSeqs(TokensFor(k, s, Expert(d, le)))}
  ELSE {CombineCargo(k, d, Expert(s, le))}

\* A put reads its source when it lands.
Carries(buffer, moves, c) ==
  /\ \A p \in moves : p = <<p[1], p[2]>> /\ p[1] \in Slots /\ <<p[2], buffer[p[1]]>> \in c
  /\ \A x \in c : \E p \in moves : p[2] = x[1]
SignalBehind(q, i, b) == \E j \in DOMAIN wire[q] : i < j /\ IsSignal(q, j) /\ wire[q][j].buf = b
PutOfCall(k, s, d, le, i) ==
  /\ NonClean(k) /\ Issued(s, k) /\ calls[d] < k /\ s # d
  /\ wire[<<s, d, le>>][i].buf = Buf(k) /\ wire[<<s, d, le>>][i].word = -1
  /\ \E c \in Cargoes(k, s, d, le) : Carries(send[s][Buf(k)], wire[<<s, d, le>>][i].moves, c)
  /\ Signalled(s, k) => SignalBehind(<<s, d, le>>, i, Buf(k))
PutsKnown ==
  \A s, d \in Ranks, le \in LocalExperts : \A i \in DOMAIN wire[<<s, d, le>>] :
    IsPut(<<s, d, le>>, i) => \E k \in Calls : PutOfCall(k, s, d, le, i)

\* ... and when it has landed its cargo stays, until the receiver has ended the call.
Holds(buffer, c) == \A x \in c : buffer[x[1]] = x[2]
Delivered(k, s, d, le) == \E c \in Cargoes(k, s, d, le) : Holds(recv[d][Buf(k)], c)
Unread(k, s, d, le) ==
  NonClean(k) /\ Issued(s, k) /\ calls[d] < k /\ ~PutPending(<<s, d, le>>, Buf(k))
PutsDelivered ==
  \A s, d \in Ranks, le \in LocalExperts : \A k \in Calls :
    Unread(k, s, d, le) => Delivered(k, s, d, le)

Filled == recv \in Contents /\ send \in Contents
PInv == PutsKnown /\ PutsDelivered /\ Filled

-----------------------------------------------------------------------------
(* Calls, their tokens and the orders of tokens. *)

LEMMA CallData ==
  ASSUME prog \in Setups, NEW k \in Calls, NonClean(k)
  PROVE  /\ prog.max \in Nat /\ prog.max >= 1
         /\ Kind(k) \in {"dispatch", "combine"}
         /\ Source(k) \in Calls /\ Kind(Source(k)) = "dispatch" /\ Source(Source(k)) = Source(k)
         /\ Kind(k) = "dispatch" => Source(k) = k
         /\ Kind(k) = "combine" => Source(k) < k
         /\ \A r \in Ranks : \E n \in 0 .. prog.max :
              /\ DOMAIN Rows(k, r) = 1 .. n
              /\ \A t \in 1 .. n : Rows(k, r)[t] \in SUBSET Experts
<1>1. prog.max \in Nat /\ prog.max >= 1
  <2>1. {prog.local, prog.max} \subseteq Nat \ {0}
    BY SetupsAssumption
  <2> QED BY <2>1
<1>2. Kind(k) \in {"dispatch", "combine"}
  BY Sizes DEF NonClean, Kinds
<1>3. /\ Kind(k) = "dispatch" => Source(k) = k
      /\ Kind(k) = "combine" => Source(k) \in 1 .. k - 1 /\ Kind(Source(k)) = "dispatch"
  BY SetupsAssumption DEF Source, Kind, Calls
<1>4. Calls = 1 .. Len(prog.calls) /\ Len(prog.calls) \in Nat
  BY Sizes
<1>5. Source(k) \in Calls /\ Kind(Source(k)) = "dispatch" /\ (Kind(k) = "combine" => Source(k) < k)
  <2>1. CASE Kind(k) = "dispatch"
    BY <1>3, <2>1
  <2>2. CASE Kind(k) = "combine"
    BY <1>3, <1>4, <2>2
  <2> QED BY <1>2, <2>1, <2>2
<1>6. Source(Source(k)) = Source(k)
  BY <1>5 DEF Source
<1>7. ASSUME NEW r \in Ranks
      PROVE  \E n \in 0 .. prog.max : /\ DOMAIN Rows(k, r) = 1 .. n
                                      /\ \A t \in 1 .. n : Rows(k, r)[t] \in SUBSET Experts
  <2>1. /\ Rows(k, r) \in Seq(SUBSET (0 .. prog.ranks * prog.local - 1))
        /\ Len(Rows(k, r)) <= prog.max
    BY <1>5, SetupsAssumption DEF Rows, Kind, Calls, Ranks
  <2>2. Rows(k, r) \in Seq(SUBSET Experts)
    BY <2>1 DEF Experts
  <2> DEFINE rows == Rows(k, r)
  <2>3. rows \in Seq(SUBSET Experts) /\ Len(rows) <= prog.max
    BY <2>1, <2>2
  <2> HIDE DEF rows
  <2>4. /\ Len(rows) \in 0 .. prog.max /\ DOMAIN rows = 1 .. Len(rows)
        /\ \A t \in 1 .. Len(rows) : rows[t] \in SUBSET Experts
    BY <1>1, <2>3
  <2> QED BY <2>4 DEF rows
<1> QED BY <1>1, <1>2, <1>3, <1>5, <1>6, <1>7

LEMMA TokensAre ==
  ASSUME prog \in Setups, NEW k \in Calls, NonClean(k), NEW r \in Ranks, NEW e
  PROVE  /\ TokensFor(k, r, e) \subseteq 1 .. prog.max /\ IsFiniteSet(TokensFor(k, r, e))
         /\ Cardinality(TokensFor(k, r, e)) \in 0 .. prog.max
<1>1. prog.max \in Nat
  BY CallData
<1>2. PICK n \in 0 .. prog.max : DOMAIN Rows(k, r) = 1 .. n
  BY CallData
<1>3. TokensFor(k, r, e) \in SUBSET (1 .. prog.max)
  BY <1>1, <1>2 DEF TokensFor
<1>4. IsFiniteSet(1 .. prog.max) /\ Cardinality(1 .. prog.max) = prog.max
  <2>1. prog.max >= 1
    BY CallData
  <2> DEFINE m == prog.max
  <2>2. 1 \in Int /\ m \in Int /\ ~(1 > m)
    BY <1>1, <2>1
  <2> HIDE DEF m
  <2>3. IsFiniteSet(1 .. m) /\ Cardinality(1 .. m) = m - 1 + 1
    BY <2>2, FS_Interval
  <2>4. m - 1 + 1 = m
    BY <2>2
  <2> QED BY <2>3, <2>4 DEF m
<1>5. /\ IsFiniteSet(TokensFor(k, r, e))
      /\ Cardinality(TokensFor(k, r, e)) <= prog.max /\ Cardinality(TokensFor(k, r, e)) \in Nat
  BY <1>3, <1>4, FS_Subset, FS_CardinalityType
<1> QED BY <1>1, <1>3, <1>5

\* An order of a finite set names each element once.
LEMMA OrdersAre ==
  ASSUME NEW S, IsFiniteSet(S), NEW o \in SetToSeqs(S)
  PROVE  /\ DOMAIN o = 1 .. Cardinality(S) /\ Cardinality(S) \in Nat
         /\ \A i \in DOMAIN o : o[i] \in S
         /\ \A i, j \in DOMAIN o : o[i] = o[j] => i = j
         /\ \A t \in S : \E i \in DOMAIN o : o[i] = t
<1> DEFINE n == Cardinality(S)
           T == {o[i] : i \in 1 .. n}
<1>1. n \in Nat
  BY FS_CardinalityType
<1>2. o \in [1 .. n -> S] /\ \A i, j \in 1 .. n : i # j => o[i] # o[j]
  BY DEF SetToSeqs
<1> HIDE DEF n
<1>3. o \in Bijection(1 .. n, T)
  BY <1>2 DEF Bijection, Injection, Surjection, IsInjective
<1>4. Cardinality(T) = n
  BY <1>1, <1>3, FS_CountingElements DEF ExistsBijection
<1>5. T \in SUBSET S
  BY <1>2
<1>6. S = T
  BY <1>4, <1>5, FS_Subset DEF n
<1>7. \A t \in S : \E i \in 1 .. n : o[i] = t
  BY <1>6
<1> QED BY <1>1, <1>2, <1>7 DEF n

-----------------------------------------------------------------------------
(* Cargoes. *)

LEMMA CargoesStay ==
  ASSUME prog' = prog
  PROVE  /\ \A k, s, d, le : Cargoes(k, s, d, le)' = Cargoes(k, s, d, le)
         /\ \A k, s, e : TokensFor(k, s, e)' = TokensFor(k, s, e)
         /\ \A k, s : Rows(k, s)' = Rows(k, s)
         /\ \A k : Source(k)' = Source(k)
         /\ \A r, le : Expert(r, le)' = Expert(r, le)
         /\ \A le, i : SendRow(le, i)' = SendRow(le, i)
         /\ \A e, t : CombineSlot(e, t)' = CombineSlot(e, t)
         /\ \A le, s, i : DispatchSlot(le, s, i)' = DispatchSlot(le, s, i)
         /\ Slots' = Slots /\ Contents' = Contents /\ NumSlots' = NumSlots
BY DEF Cargoes, TokensFor, Rows, Source, Expert, SendRow, CombineSlot, DispatchSlot, DispatchCargo,
       CombineCargo, Kind, Slots, Contents, NumSlots, Ranks, Buffers, ItemSet

\* A slot of a cargo: the word of the signal, and a place.
LEMMA CargoSlots ==
  ASSUME prog \in Setups, NEW k \in Calls, NonClean(k), NEW s \in Ranks, NEW d \in Ranks,
         NEW le \in LocalExperts, NEW c \in Cargoes(k, s, d, le), NEW x \in c
  PROVE  /\ \E j \in 0 .. prog.max - 1 : x[1] = SignalWord(k, s, le) * prog.max + j
         /\ x = <<x[1], x[2]>> /\ x[2] \in ItemSet
         /\ \A y \in c : y[1] = x[1] => y = x
<1>1. /\ prog.max \in Nat /\ k \in Nat /\ s \in Nat /\ d \in Nat
      /\ prog.ranks \in Nat /\ prog.local \in Nat
      /\ \A a \in Ranks, b \in LocalExperts : a \in Nat /\ b \in Nat
  BY CallData, Sizes
<1>2. CASE Kind(k) = "dispatch"
  <2> DEFINE T == TokensFor(k, s, Expert(d, le))
             w == le * prog.ranks + s
  <2>1. PICK o \in SetToSeqs(T) : c = DispatchCargo(k, s, le, o)
    BY <1>2 DEF Cargoes
  <2>2. T \subseteq 1 .. prog.max /\ IsFiniteSet(T) /\ Cardinality(T) \in 0 .. prog.max
    BY TokensAre
  <2>3. /\ DOMAIN o = 1 .. Cardinality(T) /\ \A i \in DOMAIN o : o[i] \in T
    BY <2>1, <2>2, OrdersAre
  <2>4. w \in Nat /\ SignalWord(k, s, le) = w
    BY <1>1, <1>2 DEF SignalWord, CountWord
  <2>5. c = {<<w * prog.max + (i - 1), Item(k, s, o[i], -1)>> : i \in DOMAIN o}
    BY <2>1 DEF DispatchCargo, DispatchSlot
  <2>6. \A i \in DOMAIN o : i - 1 \in 0 .. prog.max - 1 /\ o[i] \in Nat
    BY <1>1, <2>2, <2>3
  <2> HIDE DEF T, w
  <2>7. PICK i \in DOMAIN o : x = <<w * prog.max + (i - 1), Item(k, s, o[i], -1)>>
    BY <2>5
  <2>8. w * prog.max \in Nat
    BY <1>1, <2>4
  <2>9. Item(k, s, o[i], -1) \in ItemSet
    BY <1>1, <2>6 DEF Item, ItemSet
  <2>10. ASSUME NEW y \in c, y[1] = x[1]
         PROVE  y = x
    <3>1. PICK i2 \in DOMAIN o : y = <<w * prog.max + (i2 - 1), Item(k, s, o[i2], -1)>>
      BY <2>5
    <3>2. i2 = i
      <4>1. w * prog.max + (i2 - 1) = w * prog.max + (i - 1)
        BY <2>7, <2>10, <3>1
      <4>2. i \in Int /\ i2 \in Int
        BY <2>3
      <4> QED BY <2>8, <4>1, <4>2
    <3> QED BY <2>7, <3>1, <3>2
  <2> QED BY <2>4, <2>6, <2>7, <2>9, <2>10
<1>3. CASE Kind(k) # "dispatch"
  <2> DEFINE w == Expert(s, le)
             T == TokensFor(k, d, w)
  <2>1. c = {<<w * prog.max + t - 1, Item(k, d, t, w)>> : t \in T}
    BY <1>3 DEF Cargoes, CombineCargo, CombineSlot
  <2>2. T \subseteq 1 .. prog.max
    BY TokensAre
  <2>4. w \in Nat /\ SignalWord(k, s, le) = w
    BY <1>1, <1>3 DEF SignalWord, FlagWord, Expert
  <2>6. \A t \in T : t - 1 \in 0 .. prog.max - 1 /\ t \in Nat
    BY <1>1, <2>2
  <2> HIDE DEF T, w
  <2>7. PICK t \in T : x = <<w * prog.max + t - 1, Item(k, d, t, w)>>
    BY <2>1
  <2>8. w * prog.max \in Nat
    BY <1>1, <2>4
  <2>9. Item(k, d, t, w) \in ItemSet
    BY <1>1, <2>4, <2>6 DEF Item, ItemSet
  <2>10. ASSUME NEW y \in c, y[1] = x[1]
         PROVE  y = x
    <3>1. PICK t2 \in T : y = <<w * prog.max + t2 - 1, Item(k, d, t2, w)>>
      BY <2>1
    <3>2. t2 = t
      <4>1. w * prog.max + t2 - 1 = w * prog.max + t - 1
        BY <2>7, <2>10, <3>1
      <4> QED BY <2>6, <2>8, <4>1
    <3> QED BY <2>7, <3>1, <3>2
  <2>11. x[1] = w * prog.max + (t - 1)
    BY <2>6, <2>7, <2>8
  <2> QED BY <2>4, <2>6, <2>7, <2>9, <2>10, <2>11
<1> QED BY <1>2, <1>3

\* Cargoes of one call to a rank are in different slots.
LEMMA CargoesApart ==
  ASSUME prog \in Setups, NEW k \in Calls, NonClean(k), NEW s \in Ranks, NEW d \in Ranks,
         NEW le \in LocalExperts, NEW c \in Cargoes(k, s, d, le), NEW x \in c,
         NEW s2 \in Ranks, NEW l2 \in LocalExperts, NEW c2 \in Cargoes(k, s2, d, l2), NEW y \in c2,
         x[1] = y[1]
  PROVE  s2 = s /\ l2 = le
<1> DEFINE m == prog.max
           v == SignalWord(k, s, le)
           w == SignalWord(k, s2, l2)
<1>1. m \in Nat /\ v \in 0 .. NumWords - 1 /\ w \in 0 .. NumWords - 1
  BY CallData, WordsApart
<1>2. PICK i \in 0 .. m - 1 : x[1] = v * m + i
  BY CargoSlots
<1>3. PICK j \in 0 .. m - 1 : y[1] = w * m + j
  BY CargoSlots
<1> HIDE DEF m, v, w
<1>4. v \in Nat /\ w \in Nat /\ v * m + i = w * m + j
  <2>1. v * m + i = w * m + j
    BY <1>2, <1>3
  <2>2. v \in Nat /\ w \in Nat
    BY <1>1
  <2> QED BY <2>1, <2>2
<1>5. v = w
  BY <1>1, <1>4, Digits
<1> QED BY <1>5, WordsApart DEF v, w

LEMMA CargoInside ==
  ASSUME prog \in Setups, NEW k \in Calls, NonClean(k), NEW s \in Ranks, NEW d \in Ranks,
         NEW le \in LocalExperts, NEW c \in Cargoes(k, s, d, le), NEW x \in c
  PROVE  x[1] \in Slots
<1> DEFINE m == prog.max
           w == SignalWord(k, s, le)
<1>1. m \in Nat /\ w \in 0 .. NumWords - 1 /\ prog.ranks \in Nat /\ prog.local \in Nat
  BY CallData, WordsApart, Sizes
<1>2. PICK i \in 0 .. m - 1 : x[1] = w * m + i
  BY CargoSlots
<1>3. NumWords \in Nat /\ NumSlots = NumWords * m
  BY <1>1 DEF NumWords, NumSlots
<1> HIDE DEF m, w
<1>4. w * m + i \in 0 .. NumWords * m - 1
  BY <1>1, <1>3, DigitsBelow
<1> QED BY <1>2, <1>3, <1>4 DEF Slots

-----------------------------------------------------------------------------
(* Who is in which call. *)

\* Of two calls that use a buffer, one's puts are not out before every receiver has ended the other.
LEMMA OneCallOut ==
  ASSUME IInv, NEW d \in Ranks, NEW s1 \in Ranks, NEW s2 \in Ranks, NEW k1 \in Calls, NEW k2 \in Calls,
         NonClean(k1), NonClean(k2), Buf(k1) = Buf(k2), Issued(s1, k1), Issued(s2, k2),
         calls[d] < k1, calls[d] < k2
  PROVE  k1 = k2
<1>1. Calls = 1 .. Len(prog.calls) /\ Len(prog.calls) \in Nat /\ calls \in [Ranks -> Nat]
  BY Sizes DEF IInv, Types
<1>2. ASSUME NEW s \in Ranks, NEW j \in Calls, NEW k \in Calls, NonClean(j), Buf(j) = Buf(k),
             Issued(s, k), calls[d] < j
      PROVE  ~(j < k)
  <2> SUFFICES ASSUME j < k
               PROVE  FALSE
    OBVIOUS
  <2>1. Buf(j) \in {0, 1} /\ Buf(j + 1) = 1 - Buf(j)
    BY <1>1, <1>2, BuffersTurn DEF Buffers
  <2>2. k # j + 1
    BY <1>2, <2>1
  <2>3. calls[s] >= j + 1 /\ j + 1 \in Calls
    BY <1>1, <1>2, <2>2 DEF Issued
  <2>4. CleanedIn(d, j + 1)
    BY <2>3 DEF IInv, Onward, DoneIn
  <2>5. calls[d] >= j
    BY <1>1, <2>4 DEF CleanedIn
  <2> QED BY <1>1, <1>2, <2>5
<1>3. ~(k1 < k2) /\ ~(k2 < k1)
  BY <1>2
<1> QED BY <1>1, <1>3

LEMMA SignalledIssued ==
  ASSUME IInv, NEW s \in Ranks, NEW k, Signalled(s, k)
  PROVE  Issued(s, k)
BY DEF Signalled, Issued

\* The signal of a call is behind its puts.
LEMMA PutsLanded ==
  ASSUME IInv, PutsKnown, NEW s \in Ranks, NEW d \in Ranks, NEW le \in LocalExperts,
         NEW k \in Calls, NonClean(k), calls[d] < k, Landed(s, d, le, k)
  PROVE  ~PutPending(<<s, d, le>>, Buf(k))
<1> SUFFICES ASSUME NEW i \in DOMAIN wire[<<s, d, le>>], IsPut(<<s, d, le>>, i),
                    wire[<<s, d, le>>][i].buf = Buf(k)
             PROVE  FALSE
  BY DEF PutPending
<1>1. PICK j \in Calls : PutOfCall(j, s, d, le, i)
  BY DEF PutsKnown
<1>2. Issued(s, k)
  BY SignalledIssued DEF Landed
<1>3. j = k
  BY <1>1, <1>2, OneCallOut DEF PutOfCall
<1>4. SignalBehind(<<s, d, le>>, i, Buf(k))
  BY <1>1, <1>3 DEF PutOfCall, Landed
<1> QED BY <1>4 DEF SignalBehind, Landed, Pending

\* What a receiver finds in its slots when the signal has landed.
LEMMA LandedDelivered ==
  ASSUME IInv, PInv, NEW s \in Ranks, NEW d \in Ranks, NEW le \in LocalExperts,
         NEW k \in Calls, NonClean(k), calls[d] < k, Landed(s, d, le, k)
  PROVE  Delivered(k, s, d, le)
<1>1. ~PutPending(<<s, d, le>>, Buf(k)) /\ Issued(s, k)
  BY PutsLanded, SignalledIssued DEF PInv, Landed
<1> QED BY <1>1 DEF PInv, PutsDelivered, Unread

-----------------------------------------------------------------------------
(* Steps that send, deliver and signal nothing. *)

DataQuiet(r) ==
  /\ wire' = wire /\ recv' = recv /\ send' = send
  /\ \A k \in Calls : NonClean(k) => /\ Issued(r, k)' <=> Issued(r, k)
                                     /\ Signalled(r, k)' => Signalled(r, k)

LEMMA QuietKeepsPuts ==
  ASSUME IInv, PInv, NEW r \in Ranks, OnlyRank(r), Onwards(r), DataQuiet(r),
         calls'[r] # calls[r] /\ NonClean(Now(r)) => AllLanded(r)
  PROVE  PInv'
<1>1. /\ Ranks' = Ranks /\ LocalExperts' = LocalExperts /\ Calls' = Calls
      /\ \A k : NonClean(k)' <=> NonClean(k)
      /\ \A k : Buf(k)' = Buf(k)
      /\ \A k, s, d, le : Cargoes(k, s, d, le)' = Cargoes(k, s, d, le)
      /\ Slots' = Slots /\ Contents' = Contents
  BY SetupStays, CargoesStay DEF OnlyRank
<1>2. wire' = wire /\ recv' = recv /\ send' = send
  BY DEF DataQuiet
<1>3. \A s \in Ranks : \A k \in Calls : NonClean(k) =>
        /\ Issued(s, k)' <=> Issued(s, k)
        /\ Signalled(s, k)' => Signalled(s, k)
  BY DEF OnlyRank, DataQuiet, Issued, Signalled
<1>4. /\ calls \in [Ranks -> Nat] /\ calls'[r] \in {calls[r], calls[r] + 1}
      /\ \A d \in Ranks \ {r} : calls'[d] = calls[d]
      /\ Calls = 1 .. Len(prog.calls) /\ Len(prog.calls) \in Nat
  BY Sizes DEF IInv, Types, OnlyRank, Onwards
<1>5. PutsKnown'
  <2>1. SUFFICES ASSUME NEW s \in Ranks, NEW d \in Ranks, NEW le \in LocalExperts,
                        NEW i \in DOMAIN wire[<<s, d, le>>], ~(wire[<<s, d, le>>][i].word >= 0)
                 PROVE  \E k \in Calls : PutOfCall(k, s, d, le, i)'
    BY <1>1, <1>2 DEF PutsKnown, IsPut
  <2>2. PICK k \in Calls : PutOfCall(k, s, d, le, i)
    BY <2>1 DEF PInv, PutsKnown, IsPut
  <2>3. NonClean(k) /\ Issued(s, k) /\ calls[d] < k /\ wire[<<s, d, le>>][i].buf = Buf(k)
    BY <2>2 DEF PutOfCall
  <2>4. calls'[d] < k
    <3>1. SUFFICES ASSUME calls'[d] >= k
                   PROVE  FALSE
      BY <1>4
    <3>2. d = r /\ k = Now(r) /\ calls'[r] # calls[r]
      BY <1>4, <2>3, <3>1 DEF Now
    <3>3. Landed(s, d, le, k)
      BY <2>3, <3>2 DEF AllLanded
    <3> QED BY <2>1, <2>3, <3>3, PutsLanded DEF PInv, PutPending, IsPut
  <2>5. PutOfCall(k, s, d, le, i)'
    <3>1. Issued(s, k)' /\ (Signalled(s, k)' => Signalled(s, k))
      BY <1>3, <2>3
    <3>2. \A b : SignalBehind(<<s, d, le>>, i, b)' <=> SignalBehind(<<s, d, le>>, i, b)
      BY <1>2 DEF SignalBehind, IsSignal
    <3> QED BY <1>1, <1>2, <2>2, <2>4, <3>1, <3>2 DEF PutOfCall, Carries
  <2> QED BY <2>5
<1>6. PutsDelivered'
  <2>1. SUFFICES ASSUME NEW s \in Ranks, NEW d \in Ranks, NEW le \in LocalExperts, NEW k \in Calls,
                        Unread(k, s, d, le)'
                 PROVE  Delivered(k, s, d, le)'
    BY <1>1 DEF PutsDelivered
  <2>2. calls'[d] < k /\ NonClean(k) /\ Issued(s, k) /\ ~PutPending(<<s, d, le>>, Buf(k))
    BY <1>1, <1>2, <1>3, <2>1 DEF Unread, PutPending, IsPut
  <2>3. calls[d] < k
    BY <1>4, <2>2
  <2>4. Delivered(k, s, d, le)
    BY <2>2, <2>3 DEF PInv, PutsDelivered, Unread
  <2> QED BY <1>1, <1>2, <2>4 DEF Delivered, Holds
<1>7. Filled'
  BY <1>1, <1>2 DEF PInv, Filled
<1> QED BY <1>5, <1>6, <1>7 DEF PInv

-----------------------------------------------------------------------------
(* The network delivers. *)

\* Where moves put a cargo, it is; elsewhere nothing changes.
LEMMA MovedCargo ==
  ASSUME NEW to \in [Slots -> ItemSet], NEW from \in [Slots -> ItemSet], NEW moves, NEW c,
         Carries(from, moves, c),
         \A x \in c : x[1] \in Slots /\ x = <<x[1], x[2]>> /\ \A y \in c : y[1] = x[1] => y = x
  PROVE  /\ Moved(to, from, moves) \in [Slots -> ItemSet]
         /\ Holds(Moved(to, from, moves), c)
         /\ \A i \in Slots : (\A x \in c : x[1] # i) => Moved(to, from, moves)[i] = to[i]
<1> DEFINE M == Moved(to, from, moves)
           At(i) == CHOOSE p \in moves : p[2] = i
<1>1. M = [i \in Slots |-> IF \E p \in moves : p[2] = i THEN from[At(i)[1]] ELSE to[i]]
  BY DEF Moved
<1>2. ASSUME NEW i \in Slots, \E p \in moves : p[2] = i
      PROVE  At(i)[1] \in Slots /\ <<i, from[At(i)[1]]>> \in c
  <2>1. At(i) \in moves /\ At(i)[2] = i
    BY <1>2
  <2> HIDE DEF At
  <2> QED BY <2>1 DEF Carries
<1> HIDE DEF At
<1>3. M \in [Slots -> ItemSet]
  <2>1. \A i \in Slots : (IF \E p \in moves : p[2] = i THEN from[At(i)[1]] ELSE to[i]) \in ItemSet
    BY <1>2
  <2> QED BY <1>1, <2>1
<1>4. ASSUME NEW x \in c
      PROVE  M[x[1]] = x[2]
  <2>1. x[1] \in Slots /\ \E p \in moves : p[2] = x[1]
    BY DEF Carries
  <2>2. M[x[1]] = from[At(x[1])[1]]
    BY <1>1, <2>1
  <2>3. <<x[1], from[At(x[1])[1]]>> \in c
    BY <1>2, <2>1
  <2> DEFINE v == from[At(x[1])[1]]
  <2>4. <<x[1], v>> \in c /\ <<x[1], v>>[1] = x[1]
    BY <2>3
  <2> HIDE DEF v
  <2>5. <<x[1], v>> = x
    BY <2>4
  <2>6. v = x[2]
    BY <2>5
  <2> QED BY <2>2, <2>6 DEF v
<1>5. ASSUME NEW i \in Slots, \A x \in c : x[1] # i
      PROVE  M[i] = to[i]
  <2>1. ~\E p \in moves : p[2] = i
    <3> SUFFICES ASSUME NEW p \in moves, p[2] = i
                 PROVE  FALSE
      OBVIOUS
    <3>1. <<i, from[p[1]]>> \in c
      BY DEF Carries
    <3> QED BY <1>5, <3>1
  <2> QED BY <1>1, <2>1
<1> HIDE DEF M
<1>6. Holds(M, c)
  BY <1>4 DEF Holds
<1> QED BY <1>3, <1>5, <1>6 DEF M

\* The messages of a queue pair after a delivery, by their numbers before.
LEMMA QueueMoves ==
  ASSUME IInv, NEW s0 \in Ranks, NEW d0 \in Ranks, NEW l0 \in LocalExperts, Land(s0, d0, l0),
         NEW p, p = <<s0, d0, l0>>
  PROVE  /\ DOMAIN wire' = DOMAIN wire /\ p \in DOMAIN wire
         /\ 1 \in DOMAIN wire[p] /\ Head(wire[p]) = wire[p][1]
         /\ \A i \in DOMAIN wire'[p] : /\ i \in Nat \ {0} /\ i + 1 \in DOMAIN wire[p]
                                       /\ wire'[p][i] = wire[p][i + 1]
         /\ \A i \in DOMAIN wire[p] : i \in Nat \ {0} /\ (i > 1 => i - 1 \in DOMAIN wire'[p])
         /\ \A q \in DOMAIN wire : q # p => wire'[q] = wire[q]
<1>1. /\ p \in DOMAIN wire /\ wire[p] # <<>> /\ IsSequence(wire[p])
      /\ wire' = [wire EXCEPT ![p] = Tail(@)]
  BY DEF IInv, Types, Land
<1> DEFINE t == wire[p]
<1>2. IsSequence(t) /\ t # <<>> /\ wire'[p] = Tail(t)
  BY <1>1
<1> HIDE DEF t
<1>3. /\ DOMAIN t = 1 .. Len(t) /\ Len(t) \in Nat /\ 1 \in DOMAIN t
      /\ Head(t) = t[1] /\ DOMAIN Tail(t) = 1 .. Len(t) - 1
      /\ \A i \in DOMAIN Tail(t) : i + 1 \in DOMAIN t /\ Tail(t)[i] = t[i + 1]
  BY <1>2, TakeOne
<1>4. /\ \A i \in DOMAIN Tail(t) : i \in Nat \ {0}
      /\ \A i \in DOMAIN t : i \in Nat \ {0} /\ (i > 1 => i - 1 \in DOMAIN Tail(t))
  BY <1>3
<1>5. DOMAIN wire' = DOMAIN wire /\ \A q \in DOMAIN wire : q # p => wire'[q] = wire[q]
  BY <1>1
<1> QED BY <1>1, <1>2, <1>3, <1>4, <1>5 DEF t

\* What the delivery of the first message does.
LandsPut(s0, d0, l0, k, c) ==
  /\ PutOfCall(k, s0, d0, l0, 1) /\ Holds(recv'[d0][Buf(k)], c)
  /\ \A d \in Ranks, b \in Buffers : \A x \in Slots :
       ~(d = d0 /\ b = Buf(k) /\ \E y \in c : y[1] = x) => recv'[d][b][x] = recv[d][b][x]

LEMMA LandsWhere ==
  ASSUME IInv, PInv, NEW s0 \in Ranks, NEW d0 \in Ranks, NEW l0 \in LocalExperts, Land(s0, d0, l0)
  PROVE  /\ recv' \in Contents
         /\ IsSignal(<<s0, d0, l0>>, 1) => recv' = recv
         /\ IsPut(<<s0, d0, l0>>, 1) =>
              \E k \in Calls : \E c \in Cargoes(k, s0, d0, l0) : LandsPut(s0, d0, l0, k, c)
<1> DEFINE p == <<s0, d0, l0>>
           m == wire[p][1]
           b0 == m.buf
           M == Moved(recv[d0][b0], send[s0][b0], m.moves)
<1>1. /\ p \in DOMAIN wire /\ 1 \in DOMAIN wire[p] /\ Head(wire[p]) = m
  BY QueueMoves
<1>2. recv' = [recv EXCEPT ![d0][b0] = M]
  BY <1>1 DEF Land
<1>3. recv \in Contents /\ send \in Contents /\ prog \in Setups
  BY DEF PInv, Filled, IInv, Types
<1>4. Calls = 1 .. Len(prog.calls) /\ Len(prog.calls) \in Nat
  BY <1>3, Sizes
<1>5. ASSUME b0 \in Buffers, M \in [Slots -> ItemSet]
      PROVE  /\ recv' \in Contents /\ recv'[d0][b0] = M
             /\ \A d \in Ranks, b \in Buffers : ~(d = d0 /\ b = b0) => recv'[d][b] = recv[d][b]
  <2> HIDE DEF M, b0
  <2> QED BY <1>2, <1>3, <1>5 DEF Contents
<1>6. ASSUME IsSignal(p, 1)
      PROVE  recv' = recv
  <2>1. PICK k \in Calls : SignalOf(k, s0, d0, l0, 1)
    BY <1>1, <1>6 DEF IInv, OnTheWay
  <2>2. m.moves = {} /\ b0 \in Buffers
    BY <1>4, <2>1, BuffersTurn DEF SignalOf
  <2>3. M = recv[d0][b0]
    <3>1. recv[d0][b0] \in [Slots -> ItemSet]
      BY <1>3, <2>2 DEF Contents
    <3> QED BY <2>2, <3>1 DEF Moved
  <2> HIDE DEF M, b0
  <2> QED BY <1>2, <1>3, <2>2, <2>3 DEF Contents
<1>7. ASSUME IsPut(p, 1)
      PROVE  /\ recv' \in Contents
             /\ \E k \in Calls : \E c \in Cargoes(k, s0, d0, l0) : LandsPut(s0, d0, l0, k, c)
  <2>1. PICK k \in Calls : PutOfCall(k, s0, d0, l0, 1)
    BY <1>1, <1>7 DEF PInv, PutsKnown
  <2>2. NonClean(k) /\ b0 = Buf(k) /\ Buf(k) \in Buffers
    BY <1>4, <2>1, BuffersTurn DEF PutOfCall
  <2>3. PICK c \in Cargoes(k, s0, d0, l0) : Carries(send[s0][Buf(k)], m.moves, c)
    BY <2>1 DEF PutOfCall
  <2>4. \A x \in c : x[1] \in Slots /\ x = <<x[1], x[2]>> /\ \A y \in c : y[1] = x[1] => y = x
    BY <1>3, <2>2, CargoSlots, CargoInside
  <2>5. /\ recv[d0][b0] \in [Slots -> ItemSet] /\ send[s0][b0] \in [Slots -> ItemSet]
        /\ Carries(send[s0][b0], m.moves, c)
    BY <1>3, <2>2, <2>3 DEF Contents
  <2> HIDE DEF b0
  <2>6. /\ M \in [Slots -> ItemSet] /\ Holds(M, c)
        /\ \A i \in Slots : (\A x \in c : x[1] # i) => M[i] = recv[d0][b0][i]
    BY <2>4, <2>5, MovedCargo
  <2> HIDE DEF M
  <2>7. /\ recv' \in Contents /\ recv'[d0][b0] = M
        /\ \A d \in Ranks, b \in Buffers : ~(d = d0 /\ b = b0) => recv'[d][b] = recv[d][b]
    BY <1>5, <2>2, <2>6
  <2>8. LandsPut(s0, d0, l0, k, c)
    BY <2>1, <2>2, <2>6, <2>7 DEF LandsPut
  <2> QED BY <2>7, <2>8
<1>8. IsSignal(p, 1) \/ IsPut(p, 1)
  BY <1>1 DEF IsSignal, IsPut
<1> HIDE DEF p
<1> QED BY <1>3, <1>6, <1>7, <1>8 DEF p

LEMMA LandKeepsPuts ==
  ASSUME IInv, PInv, NEW s0 \in Ranks, NEW d0 \in Ranks, NEW l0 \in LocalExperts, Land(s0, d0, l0)
  PROVE  PInv'
<1> DEFINE p == <<s0, d0, l0>>
<1>0. /\ prog' = prog /\ calls' = calls /\ stage' = stage /\ send' = send
      /\ prog \in Setups /\ calls \in [Ranks -> Nat]
      /\ DOMAIN wire = Ranks \X Ranks \X LocalExperts
  BY DEF IInv, Types, Land, callVars
<1>1. /\ DOMAIN wire' = DOMAIN wire /\ p \in DOMAIN wire
      /\ 1 \in DOMAIN wire[p]
      /\ \A i \in DOMAIN wire'[p] : i \in Nat \ {0} /\ i + 1 \in DOMAIN wire[p] /\ wire'[p][i] = wire[p][i + 1]
      /\ \A i \in DOMAIN wire[p] : i \in Nat \ {0} /\ (i > 1 => i - 1 \in DOMAIN wire'[p])
      /\ \A q \in DOMAIN wire : q # p => wire'[q] = wire[q]
  BY QueueMoves
<1>2. /\ Ranks' = Ranks /\ LocalExperts' = LocalExperts /\ Calls' = Calls
      /\ \A k : NonClean(k)' <=> NonClean(k)
      /\ \A k : Buf(k)' = Buf(k)
      /\ \A k, s, d, le : Cargoes(k, s, d, le)' = Cargoes(k, s, d, le)
      /\ Slots' = Slots /\ Contents' = Contents
  BY <1>0, SetupStays, CargoesStay
<1>3. Calls = 1 .. Len(prog.calls) /\ Len(prog.calls) \in Nat
  BY <1>0, Sizes
<1>4. \A r, k : (Signalled(r, k)' <=> Signalled(r, k)) /\ (Issued(r, k)' <=> Issued(r, k))
  BY <1>0 DEF Signalled, Issued
<1>5. /\ recv' \in Contents
      /\ IsSignal(p, 1) => recv' = recv
      /\ IsPut(p, 1) => \E k \in Calls : \E c \in Cargoes(k, s0, d0, l0) : LandsPut(s0, d0, l0, k, c)
  BY LandsWhere
\* A signal that is behind a message stays behind it.
<1>6. ASSUME NEW q \in DOMAIN wire, NEW i \in DOMAIN wire'[q]
      PROVE  \E j \in DOMAIN wire[q] : /\ wire'[q][i] = wire[q][j] /\ (IsPut(q, i)' <=> IsPut(q, j))
                                       /\ \A b : SignalBehind(q, j, b) => SignalBehind(q, i, b)'
  <2>1. CASE q = p
    <3> DEFINE j == i + 1
    <3>1. j \in DOMAIN wire[q] /\ wire'[q][i] = wire[q][j] /\ i \in Nat
      BY <1>1, <1>6, <2>1
    <3>2. ASSUME NEW b, SignalBehind(q, j, b)
          PROVE  SignalBehind(q, i, b)'
      <4>1. PICK n \in DOMAIN wire[q] : j < n /\ IsSignal(q, n) /\ wire[q][n].buf = b
        BY <3>2 DEF SignalBehind
      <4>2. n \in Nat /\ n > 1 /\ n - 1 \in DOMAIN wire'[q]
        BY <1>1, <2>1, <3>1, <4>1
      <4>3. wire'[q][n - 1] = wire[q][n - 1 + 1] /\ n - 1 + 1 = n
        BY <1>1, <2>1, <4>2
      <4>4. i < n - 1 /\ wire'[q][n - 1] = wire[q][n]
        BY <3>1, <4>1, <4>2, <4>3
      <4> QED BY <4>1, <4>2, <4>4 DEF SignalBehind, IsSignal
    <3>3. IsPut(q, i)' <=> IsPut(q, j)
      BY <1>6, <3>1 DEF IsPut
    <3> QED BY <3>1, <3>2, <3>3
  <2>2. CASE q # p
    <3>1. wire'[q] = wire[q]
      BY <1>1, <2>2
    <3> QED BY <1>6, <3>1 DEF IsPut, SignalBehind, IsSignal
  <2> QED BY <2>1, <2>2
<1>7. PutsKnown'
  <2>1. SUFFICES ASSUME NEW s \in Ranks, NEW d \in Ranks, NEW le \in LocalExperts,
                        NEW i \in DOMAIN wire'[<<s, d, le>>], IsPut(<<s, d, le>>, i)'
                 PROVE  \E k \in Calls : PutOfCall(k, s, d, le, i)'
    BY <1>2 DEF PutsKnown
  <2> DEFINE q == <<s, d, le>>
  <2>2. q \in DOMAIN wire
    BY <1>0
  <2>3. PICK j \in DOMAIN wire[q] : /\ wire'[q][i] = wire[q][j] /\ (IsPut(q, i)' <=> IsPut(q, j))
                                    /\ \A b : SignalBehind(q, j, b) => SignalBehind(q, i, b)'
    BY <1>6, <2>1, <2>2
  <2>4. PICK k \in Calls : PutOfCall(k, s, d, le, j)
    BY <2>1, <2>3 DEF PInv, PutsKnown
  <2>5. PutOfCall(k, s, d, le, i)'
    BY <1>0, <1>2, <1>4, <2>3, <2>4 DEF PutOfCall, Carries
  <2> QED BY <2>5
<1>8. PutsDelivered'
  <2>1. SUFFICES ASSUME NEW s \in Ranks, NEW d \in Ranks, NEW le \in LocalExperts, NEW k \in Calls,
                        NonClean(k), Issued(s, k), calls[d] < k, ~PutPending(<<s, d, le>>, Buf(k))'
                 PROVE  \E c \in Cargoes(k, s, d, le) : Holds(recv'[d][Buf(k)], c)
    BY <1>0, <1>2, <1>4 DEF PutsDelivered, Unread, Delivered, Holds
  <2> DEFINE q == <<s, d, le>>
  <2>2. q \in DOMAIN wire /\ Buf(k) \in Buffers
    BY <1>0, <1>3, BuffersTurn
  <2>0. \A i \in DOMAIN wire'[q] : ~(wire'[q][i].word >= 0) => wire'[q][i].buf # Buf(k)
    BY <1>2, <2>1 DEF PutPending, IsPut
  <2>3. CASE q = p /\ IsPut(p, 1) /\ wire[p][1].buf = Buf(k)
    <3>1. s = s0 /\ d = d0 /\ le = l0
      BY <2>3
    <3>2. PICK k0 \in Calls : \E c \in Cargoes(k0, s0, d0, l0) : LandsPut(s0, d0, l0, k0, c)
      BY <1>5, <2>3
    <3>3. PICK c \in Cargoes(k0, s0, d0, l0) : LandsPut(s0, d0, l0, k0, c)
      BY <3>2
    <3>4. k0 = k
      BY <2>1, <2>3, <3>1, <3>3, OneCallOut DEF LandsPut, PutOfCall
    <3> QED BY <3>1, <3>3, <3>4 DEF LandsPut
  <2>4. CASE ~(q = p /\ IsPut(p, 1) /\ wire[p][1].buf = Buf(k))
    <3>1. ~PutPending(q, Buf(k))
      <4>1. SUFFICES ASSUME NEW i \in DOMAIN wire[q], IsPut(q, i), wire[q][i].buf = Buf(k)
                     PROVE  FALSE
        BY DEF PutPending
      <4>2. CASE q = p
        <5>1. i # 1
          BY <2>4, <4>1, <4>2
        <5>2. i \in Nat \ {0} /\ i > 1 /\ i - 1 \in DOMAIN wire'[q]
          BY <1>1, <4>1, <4>2, <5>1
        <5>3. wire'[q][i - 1] = wire[q][i - 1 + 1] /\ i - 1 + 1 = i
          BY <1>1, <4>2, <5>2
        <5> QED BY <2>0, <4>1, <5>2, <5>3 DEF IsPut
      <4>3. CASE q # p
        <5>1. wire'[q] = wire[q]
          BY <1>1, <2>2, <4>3
        <5> QED BY <2>0, <4>1, <5>1 DEF IsPut
      <4> QED BY <4>2, <4>3
    <3>2. PICK c \in Cargoes(k, s, d, le) : Holds(recv[d][Buf(k)], c)
      BY <2>1, <3>1 DEF PInv, PutsDelivered, Unread, Delivered
    <3>3. ASSUME NEW x \in c
          PROVE  recv'[d][Buf(k)][x[1]] = recv[d][Buf(k)][x[1]]
      <4>1. CASE IsSignal(p, 1)
        BY <1>5, <4>1
      <4>2. CASE IsPut(p, 1)
        <5>1. PICK k0 \in Calls : \E c0 \in Cargoes(k0, s0, d0, l0) : LandsPut(s0, d0, l0, k0, c0)
          BY <1>5, <4>2
        <5>2. PICK c0 \in Cargoes(k0, s0, d0, l0) : LandsPut(s0, d0, l0, k0, c0)
          BY <5>1
        <5>3. x[1] \in Slots
          BY <1>0, <2>1, <3>2, CargoInside
        <5>4. ~(d = d0 /\ Buf(k) = Buf(k0) /\ \E y \in c0 : y[1] = x[1])
          <6>1. SUFFICES ASSUME d = d0, Buf(k) = Buf(k0), NEW y \in c0, y[1] = x[1]
                         PROVE  FALSE
            OBVIOUS
          <6>2. k0 = k
            BY <2>1, <5>2, <6>1, OneCallOut DEF LandsPut, PutOfCall
          <6>3. s0 = s /\ l0 = le
            BY <1>0, <2>1, <5>2, <6>1, <6>2, CargoesApart
          <6>4. q = p /\ wire[p][1].buf = Buf(k)
            BY <5>2, <6>1, <6>2, <6>3 DEF LandsPut, PutOfCall
          <6> QED BY <2>4, <4>2, <6>4
        <5> QED BY <2>2, <5>2, <5>3, <5>4 DEF LandsPut
      <4>3. IsSignal(p, 1) \/ IsPut(p, 1)
        BY <1>1 DEF IsSignal, IsPut
      <4> QED BY <4>1, <4>2, <4>3
    <3>4. Holds(recv'[d][Buf(k)], c)
      BY <3>2, <3>3 DEF Holds
    <3> QED BY <3>4
  <2> QED BY <2>3, <2>4
<1>9. Filled'
  BY <1>0, <1>2, <1>5 DEF PInv, Filled
<1> QED BY <1>7, <1>8, <1>9 DEF PInv

-----------------------------------------------------------------------------
(* A rank signals. *)

LEMMA SignalAppends ==
  ASSUME IInv, NEW r \in Ranks, Signal(r)
  PROVE  /\ DOMAIN wire' = DOMAIN wire
         /\ \A s, d \in Ranks, le \in LocalExperts : ~(s = r /\ d # r) => wire'[<<s, d, le>>] = wire[<<s, d, le>>]
         /\ \A d \in Ranks \ {r}, le \in LocalExperts :
              LET q == <<r, d, le>>
              IN  \E n \in Nat : /\ DOMAIN wire[q] = 1 .. n /\ DOMAIN wire'[q] = 1 .. n + 1
                                 /\ \A i \in 1 .. n : wire'[q][i] = wire[q][i]
                                 /\ wire'[q][n + 1].buf = Buf(Now(r)) /\ wire'[q][n + 1].word >= 0
<1> DEFINE k == Now(r)
           c == Buf(k)
           messages == [p \in Ranks \X LocalExperts |->
             <<SignalMsg(c, SignalWord(k, r, p[2]), SignalValue(k, r, p[1], p[2]))>>]
           Sig(d, le) == SignalMsg(c, SignalWord(k, r, le), SignalValue(k, r, d, le))
<1>0. /\ Types /\ prog \in Setups /\ stage[r] = "cleaned" /\ Fits(r) /\ Issue(r, messages)
      /\ DOMAIN wire = Ranks \X Ranks \X LocalExperts
  BY DEF IInv, Types, Signal, StagesFit
<1>1. k \in Calls
  BY <1>0 DEF Fits
<1>2. /\ DOMAIN wire' = DOMAIN wire
      /\ \A s, d \in Ranks, le \in LocalExperts :
           wire'[<<s, d, le>>] = IF s = r /\ d # r THEN wire[<<s, d, le>>] \o messages[<<d, le>>]
                                 ELSE wire[<<s, d, le>>]
  <2> HIDE DEF messages
  <2>1. Types /\ Issue(r, messages)
    BY <1>0
  <2> QED BY <2>1, IssueFacts
<1>3. \A d \in Ranks, le \in LocalExperts : messages[<<d, le>>] = <<Sig(d, le)>>
  OBVIOUS
<1>4. ASSUME NEW d \in Ranks, NEW le \in LocalExperts
      PROVE  Sig(d, le).buf = c /\ Sig(d, le).word >= 0
  <2>1. SignalWord(k, r, le) \in 0 .. NumWords - 1 /\ NumWords \in Nat
    BY <1>0, <1>1, WordsApart, Sizes DEF NumWords
  <2> QED BY <2>1 DEF SignalMsg
<1> HIDE DEF Sig, messages
<1>5. ASSUME NEW d \in Ranks \ {r}, NEW le \in LocalExperts
      PROVE  LET q == <<r, d, le>>
             IN  \E n \in Nat : /\ DOMAIN wire[q] = 1 .. n /\ DOMAIN wire'[q] = 1 .. n + 1
                                /\ \A i \in 1 .. n : wire'[q][i] = wire[q][i]
                                /\ wire'[q][n + 1].buf = c /\ wire'[q][n + 1].word >= 0
  <2> DEFINE t == wire[<<r, d, le>>]
             m == Sig(d, le)
  <2>0. wire'[<<r, d, le>>] = wire[<<r, d, le>>] \o messages[<<d, le>>] /\ messages[<<d, le>>] = <<m>>
    BY <1>2, <1>3
  <2>1. IsSequence(t) /\ wire'[<<r, d, le>>] = t \o <<m>>
    BY <1>0, <2>0 DEF Types
  <2>2. m.buf = c /\ m.word >= 0
    BY <1>4
  <2> HIDE DEF t, m
  <2>3. /\ DOMAIN t = 1 .. Len(t) /\ Len(t) \in Nat
        /\ DOMAIN (t \o <<m>>) = 1 .. Len(t) + 1
        /\ \A i \in DOMAIN t : (t \o <<m>>)[i] = t[i]
        /\ (t \o <<m>>)[Len(t) + 1] = m
    <3>1. IsSequence(t)
      BY <2>1
    <3> QED BY ONLY <3>1, AppendOne
  <2> QED BY <2>1, <2>2, <2>3, Zenon DEF t
<1> QED BY <1>2, <1>5

LEMMA SignalKeepsPuts ==
  ASSUME IInv, PInv, NEW r \in Ranks, Signal(r)
  PROVE  PInv'
<1> PICK c : c = Buf(Now(r))
  OBVIOUS
<1>0. /\ prog' = prog /\ calls' = calls /\ send' = send /\ recv' = recv
      /\ stage' = [stage EXCEPT ![r] = "receive"] /\ stage[r] = "cleaned"
      /\ prog \in Setups /\ calls \in [Ranks -> Nat] /\ stage \in [Ranks -> Stages]
      /\ DOMAIN wire = Ranks \X Ranks \X LocalExperts
  BY DEF IInv, Types, Signal
<1>1. /\ DOMAIN wire' = DOMAIN wire
      /\ \A s, d \in Ranks, le \in LocalExperts : ~(s = r /\ d # r) => wire'[<<s, d, le>>] = wire[<<s, d, le>>]
      /\ \A d \in Ranks \ {r}, le \in LocalExperts :
           LET q == <<r, d, le>>
           IN  \E n \in Nat : /\ DOMAIN wire[q] = 1 .. n /\ DOMAIN wire'[q] = 1 .. n + 1
                              /\ \A i \in 1 .. n : wire'[q][i] = wire[q][i]
                              /\ wire'[q][n + 1].buf = c /\ wire'[q][n + 1].word >= 0
  BY SignalAppends
<1>2. /\ Ranks' = Ranks /\ LocalExperts' = LocalExperts /\ Calls' = Calls
      /\ \A k : NonClean(k)' <=> NonClean(k)
      /\ \A k : Buf(k)' = Buf(k)
      /\ \A k, s, d, le : Cargoes(k, s, d, le)' = Cargoes(k, s, d, le)
      /\ Slots' = Slots /\ Contents' = Contents
  BY <1>0, SetupStays, CargoesStay
<1>3. Calls = 1 .. Len(prog.calls) /\ Len(prog.calls) \in Nat
  BY <1>0, Sizes
<1>4. \A s \in Ranks : \A k \in Calls : /\ Issued(s, k)' <=> Issued(s, k)
                                        /\ Signalled(s, k)' => Signalled(s, k) \/ (s = r /\ k = Now(r))
  BY <1>0, <1>3 DEF Signalled, Issued, Now
\* Puts are as before, and what is behind them too; behind those of the call is its signal now.
<1>5. ASSUME NEW s \in Ranks, NEW d \in Ranks, NEW le \in LocalExperts, NEW q, q = <<s, d, le>>
      PROVE  /\ \A i \in DOMAIN wire'[q] : ~(wire'[q][i].word >= 0) =>
                  /\ i \in DOMAIN wire[q] /\ wire'[q][i] = wire[q][i]
                  /\ \A b : SignalBehind(q, i, b) \/ (s = r /\ d # r /\ b = c) => SignalBehind(q, i, b)'
             /\ \A i \in DOMAIN wire[q] : i \in DOMAIN wire'[q] /\ wire'[q][i] = wire[q][i]
  <2>1. CASE s = r /\ d # r
    <3>1. PICK n \in Nat : /\ DOMAIN wire[q] = 1 .. n /\ DOMAIN wire'[q] = 1 .. n + 1
                           /\ \A i \in 1 .. n : wire'[q][i] = wire[q][i]
                           /\ wire'[q][n + 1].buf = c /\ wire'[q][n + 1].word >= 0
      BY <1>1, <1>5, <2>1
    <3>2. ASSUME NEW i \in DOMAIN wire'[q], ~(wire'[q][i].word >= 0)
          PROVE  /\ i \in DOMAIN wire[q] /\ wire'[q][i] = wire[q][i]
                 /\ \A b : SignalBehind(q, i, b) \/ b = c => SignalBehind(q, i, b)'
      <4>1. i \in 1 .. n
        BY <3>1, <3>2
      <4>2. SignalBehind(q, i, c)'
        <5>1. n + 1 \in DOMAIN wire'[q] /\ i < n + 1
          BY <3>1, <4>1
        <5> QED BY <3>1, <5>1 DEF SignalBehind, IsSignal
      <4>3. ASSUME NEW b, SignalBehind(q, i, b)
            PROVE  SignalBehind(q, i, b)'
        <5>1. PICK j \in DOMAIN wire[q] : i < j /\ IsSignal(q, j) /\ wire[q][j].buf = b
          BY <4>3 DEF SignalBehind
        <5>2. j \in DOMAIN wire'[q] /\ wire'[q][j] = wire[q][j]
          BY <3>1, <5>1
        <5> QED BY <5>1, <5>2 DEF SignalBehind, IsSignal
      <4> QED BY <3>1, <4>1, <4>2, <4>3
    <3> QED BY <2>1, <3>1, <3>2
  <2>2. CASE ~(s = r /\ d # r)
    <3>1. wire'[q] = wire[q]
      BY <1>1, <1>5, <2>2
    <3> QED BY <2>2, <3>1 DEF SignalBehind, IsSignal
  <2> QED BY <2>1, <2>2
<1>6. PutsKnown'
  <2>1. SUFFICES ASSUME NEW s \in Ranks, NEW d \in Ranks, NEW le \in LocalExperts,
                        NEW i \in DOMAIN wire'[<<s, d, le>>], ~(wire'[<<s, d, le>>][i].word >= 0)
                 PROVE  \E k \in Calls : PutOfCall(k, s, d, le, i)'
    BY <1>2 DEF PutsKnown, IsPut
  <2> DEFINE q == <<s, d, le>>
  <2>2. /\ i \in DOMAIN wire[q] /\ wire'[q][i] = wire[q][i]
        /\ \A b : SignalBehind(q, i, b) \/ (s = r /\ d # r /\ b = c) => SignalBehind(q, i, b)'
    BY <1>5, <2>1
  <2>3. IsPut(q, i)
    BY <2>1, <2>2 DEF IsPut
  <2>4. PICK k \in Calls : PutOfCall(k, s, d, le, i)
    BY <2>2, <2>3 DEF PInv, PutsKnown
  <2> PICK b : b = Buf(k)
    OBVIOUS
  <2>5. Signalled(s, k)' => SignalBehind(q, i, b)'
    <3>1. /\ s # d
          /\ Signalled(s, k) => SignalBehind(q, i, b)
          /\ Signalled(s, k)' => Signalled(s, k) \/ (s = r /\ k = Now(r))
      BY <1>4, <2>4 DEF PutOfCall
    <3>2. SignalBehind(q, i, b) \/ (s = r /\ d # r /\ b = c) => SignalBehind(q, i, b)'
      BY <2>2
    <3>3. s = r /\ k = Now(r) => b = c
      OBVIOUS
    <3> QED BY <3>1, <3>2, <3>3
  <2>6. PutOfCall(k, s, d, le, i)'
    BY <1>0, <1>2, <1>4, <2>2, <2>4, <2>5 DEF PutOfCall, Carries
  <2> QED BY <2>6
<1>7. PutsDelivered'
  <2>1. SUFFICES ASSUME NEW s \in Ranks, NEW d \in Ranks, NEW le \in LocalExperts, NEW k \in Calls,
                        NonClean(k), Issued(s, k), calls[d] < k, ~PutPending(<<s, d, le>>, Buf(k))'
                 PROVE  \E x \in Cargoes(k, s, d, le) : Holds(recv[d][Buf(k)], x)
    BY <1>0, <1>2, <1>4 DEF PutsDelivered, Unread, Delivered, Holds
  <2> DEFINE q == <<s, d, le>>
  <2>2. \A i \in DOMAIN wire'[q] : ~(wire'[q][i].word >= 0) => wire'[q][i].buf # Buf(k)
    BY <1>2, <2>1 DEF PutPending, IsPut
  <2>3. \A i \in DOMAIN wire[q] : i \in DOMAIN wire'[q] /\ wire'[q][i] = wire[q][i]
    BY <1>5
  <2>4. ~PutPending(q, Buf(k))
    BY <2>2, <2>3 DEF PutPending, IsPut
  <2> QED BY <2>1, <2>4 DEF PInv, PutsDelivered, Unread, Delivered
<1>8. Filled'
  BY <1>0, <1>2 DEF PInv, Filled
<1> QED BY <1>6, <1>7, <1>8 DEF PInv

-----------------------------------------------------------------------------
(* A rank sends. *)

Puts(b, M) == [p \in Ranks \X LocalExperts |-> PutOf(b, M[p])]

\* The queue pair has what it had, and the put if there is one.
PutAppended(r, d, le, b, M) ==
  LET q == <<r, d, le>>
      m == M[<<d, le>>]
  IN  \E n \in Nat : /\ DOMAIN wire[q] = 1 .. n
                     /\ DOMAIN wire'[q] = 1 .. n \cup (IF m = {} THEN {} ELSE {n + 1})
                     /\ \A i \in 1 .. n : wire'[q][i] = wire[q][i]
                     /\ m # {} => wire'[q][n + 1] = PutMsg(b, m)

LEMMA IssuedPuts ==
  ASSUME Types, NEW r \in Ranks, NEW b, NEW M, Issue(r, Puts(b, M))
  PROVE  /\ DOMAIN wire' = DOMAIN wire
         /\ \A s, d \in Ranks, le \in LocalExperts : ~(s = r /\ d # r) => wire'[<<s, d, le>>] = wire[<<s, d, le>>]
         /\ \A d \in Ranks \ {r}, le \in LocalExperts :
              PutAppended(r, d, le, b, M)
<1> DEFINE messages == Puts(b, M)
<1>1. \A d \in Ranks, le \in LocalExperts : messages[<<d, le>>] = PutOf(b, M[<<d, le>>])
  BY DEF Puts
<1>2. /\ DOMAIN wire' = DOMAIN wire
      /\ \A s, d \in Ranks, le \in LocalExperts :
           wire'[<<s, d, le>>] = IF s = r /\ d # r THEN wire[<<s, d, le>>] \o messages[<<d, le>>]
                                 ELSE wire[<<s, d, le>>]
  <2> HIDE DEF messages
  <2>1. Issue(r, messages)
    BY DEF messages
  <2> QED BY <2>1, IssueFacts
<1> HIDE DEF messages
<1>3. ASSUME NEW d \in Ranks \ {r}, NEW le \in LocalExperts
      PROVE  PutAppended(r, d, le, b, M)
  <2> DEFINE t == wire[<<r, d, le>>]
             m == M[<<d, le>>]
             x == PutMsg(b, m)
  <2>1. wire'[<<r, d, le>>] = t \o PutOf(b, m)
    BY <1>1, <1>2
  <2>2. IsSequence(t)
    BY DEF Types
  <2>3. PutOf(b, m) = IF m = {} THEN <<>> ELSE <<x>>
    BY DEF PutOf
  <2> HIDE DEF t, m, x
  <2>4. /\ DOMAIN t = 1 .. Len(t) /\ Len(t) \in Nat
        /\ DOMAIN (t \o <<x>>) = 1 .. Len(t) + 1
        /\ \A i \in DOMAIN t : (t \o <<x>>)[i] = t[i]
        /\ (t \o <<x>>)[Len(t) + 1] = x
    BY <2>2, AppendOne
  <2> DEFINE n == Len(t)
  <2>5. n \in Nat /\ DOMAIN t = 1 .. n
    BY <2>4
  <2>6. CASE m = {}
    <3>1. wire'[<<r, d, le>>] = t
      BY <2>1, <2>2, <2>3, <2>6, AppendNone
    <3> HIDE DEF n
    <3>2. DOMAIN t = 1 .. n \cup {}
      BY <2>5
    <3> QED BY <2>5, <2>6, <3>1, <3>2 DEF t, m, PutAppended
  <2>7. CASE m # {}
    <3>1. wire'[<<r, d, le>>] = t \o <<x>>
      BY <2>1, <2>3, <2>7
    <3>2. /\ DOMAIN (t \o <<x>>) = 1 .. n + 1
          /\ \A i \in 1 .. n : (t \o <<x>>)[i] = t[i]
          /\ (t \o <<x>>)[n + 1] = x
      BY <2>4
    <3> HIDE DEF n
    <3>3. 1 .. n + 1 = 1 .. n \cup {n + 1}
      BY <2>5
    <3> QED BY <2>5, <2>7, <3>1, <3>2, <3>3 DEF t, m, x, PutAppended
  <2> QED BY <2>6, <2>7
<1> QED BY <1>2, <1>3

\* In call k, rank r puts cargoes M into its send buffer and hands them out.
SendsCargo(r, k, M, buffer) ==
  /\ k = Now(r) /\ k \in Calls /\ NonClean(k) /\ stage[r] = "idle"
  /\ prog' = prog /\ calls' = calls /\ stage' = [stage EXCEPT ![r] = "sent"]
  /\ \A d \in Ranks, le \in LocalExperts :
       \E c \in Cargoes(k, r, d, le) : Carries(buffer, M[<<d, le>>], c)
  /\ buffer \in [Slots -> ItemSet]
  /\ send' = [send EXCEPT ![r][Buf(k)] = buffer]
  /\ recv' = [recv EXCEPT ![r][Buf(k)] =
                Moved(@, buffer, UNION {M[<<r, le>>] : le \in LocalExperts})]
  /\ Issue(r, Puts(Buf(k), M))

\* Cargoes of the rank to itself are there, and take no other slots.
LEMMA OwnCargo ==
  ASSUME IInv, PInv, NEW r \in Ranks, NEW k, NEW M, NEW buffer, SendsCargo(r, k, M, buffer)
  PROVE  /\ recv' \in Contents
         /\ \A le \in LocalExperts : \E c \in Cargoes(k, r, r, le) : Holds(recv'[r][Buf(k)], c)
         /\ \A d \in Ranks, b \in Buffers : ~(d = r /\ b = Buf(k)) => recv'[d][b] = recv[d][b]
         /\ \A x \in Slots : \/ recv'[r][Buf(k)][x] = recv[r][Buf(k)][x]
                             \/ \E le \in LocalExperts : \E c \in Cargoes(k, r, r, le) : \E y \in c : y[1] = x
<1> DEFINE own == UNION {M[<<r, le>>] : le \in LocalExperts}
           old == recv[r][Buf(k)]
           N == Moved(old, buffer, own)
<1>0. /\ prog \in Setups /\ recv \in Contents /\ k \in Calls /\ NonClean(k)
      /\ buffer \in [Slots -> ItemSet]
      /\ \A le \in LocalExperts : \E c \in Cargoes(k, r, r, le) : Carries(buffer, M[<<r, le>>], c)
      /\ recv' = [recv EXCEPT ![r][Buf(k)] = N]
  BY DEF PInv, Filled, IInv, Types, SendsCargo
<1>1. Calls = 1 .. Len(prog.calls) /\ Len(prog.calls) \in Nat /\ Buf(k) \in Buffers
  BY <1>0, Sizes, BuffersTurn
<1>2. old \in [Slots -> ItemSet]
  BY <1>0, <1>1 DEF Contents
<1> DEFINE C(le) == CHOOSE c \in Cargoes(k, r, r, le) : Carries(buffer, M[<<r, le>>], c)
           all == UNION {C(le) : le \in LocalExperts}
<1>3. ASSUME NEW le \in LocalExperts
      PROVE  C(le) \in Cargoes(k, r, r, le) /\ Carries(buffer, M[<<r, le>>], C(le))
  BY <1>0
<1> HIDE DEF C
<1>4. Carries(buffer, own, all)
  <2>1. ASSUME NEW p \in own
        PROVE  p = <<p[1], p[2]>> /\ p[1] \in Slots /\ <<p[2], buffer[p[1]]>> \in all
    <3>1. PICK le \in LocalExperts : p \in M[<<r, le>>]
      OBVIOUS
    <3> QED BY <1>3, <3>1 DEF Carries
  <2>2. ASSUME NEW x \in all
        PROVE  \E p \in own : p[2] = x[1]
    <3>1. PICK le \in LocalExperts : x \in C(le)
      OBVIOUS
    <3> QED BY <1>3, <3>1 DEF Carries
  <2> HIDE DEF own, all
  <2> QED BY <2>1, <2>2 DEF Carries
<1>5. ASSUME NEW x \in all
      PROVE  x[1] \in Slots /\ x = <<x[1], x[2]>> /\ \A y \in all : y[1] = x[1] => y = x
  <2>1. PICK le \in LocalExperts : x \in C(le)
    OBVIOUS
  <2>2. C(le) \in Cargoes(k, r, r, le)
    BY <1>3
  <2>3. x[1] \in Slots /\ x = <<x[1], x[2]>> /\ \A y \in C(le) : y[1] = x[1] => y = x
    BY <1>0, <2>1, <2>2, CargoSlots, CargoInside
  <2>4. ASSUME NEW y \in all, y[1] = x[1]
        PROVE  y = x
    <3>1. PICK l2 \in LocalExperts : y \in C(l2)
      BY <2>4
    <3>2. C(l2) \in Cargoes(k, r, r, l2)
      BY <1>3
    <3>3. l2 = le
      BY <1>0, <2>1, <2>2, <2>4, <3>1, <3>2, CargoesApart
    <3> QED BY <2>3, <2>4, <3>1, <3>3
  <2> HIDE DEF all
  <2> QED BY <2>3, <2>4
<1> HIDE DEF own, old
<1>6. /\ N \in [Slots -> ItemSet] /\ Holds(N, all)
      /\ \A i \in Slots : (\A x \in all : x[1] # i) => N[i] = old[i]
  <2> HIDE DEF all
  <2> QED BY <1>0, <1>2, <1>4, <1>5, MovedCargo
<1> HIDE DEF N
<1>7. /\ recv' \in Contents /\ recv'[r][Buf(k)] = N
      /\ \A d \in Ranks, b \in Buffers : ~(d = r /\ b = Buf(k)) => recv'[d][b] = recv[d][b]
  BY <1>0, <1>1, <1>6 DEF Contents
<1>8. ASSUME NEW le \in LocalExperts
      PROVE  C(le) \in Cargoes(k, r, r, le) /\ Holds(N, C(le))
  BY <1>3, <1>6 DEF Holds
<1>9. ASSUME NEW x \in Slots, N[x] # old[x]
      PROVE  \E le \in LocalExperts : \E c \in Cargoes(k, r, r, le) : \E y \in c : y[1] = x
  <2>1. PICK y \in all : y[1] = x
    BY <1>6, <1>9
  <2>2. PICK le \in LocalExperts : y \in C(le)
    OBVIOUS
  <2> QED BY <1>3, <2>1, <2>2
<1> HIDE DEF all
<1> QED BY <1>7, <1>8, <1>9 DEF old

\* Of the calls that nobody has ended, the one that a rank is about to send in is the first.
LEMMA FirstInBuffer ==
  ASSUME IInv, NEW r \in Ranks, NEW k, k = Now(r), k \in Calls, NonClean(k), stage[r] = "idle"
  PROVE  /\ \A d \in Ranks : calls[d] < k
         /\ \A d \in Ranks : \A j \in Calls :
              NonClean(j) /\ Issued(r, j) /\ calls[d] < j => Buf(j) # Buf(k)
         /\ \A s \in Ranks : \A j \in Calls : Issued(s, j) => j <= k
<1>1. /\ Calls = 1 .. Len(prog.calls) /\ Len(prog.calls) \in Nat /\ calls \in [Ranks -> Nat]
      /\ k = calls[r] + 1
  BY Sizes DEF IInv, Types, Now
<1>2. ~Signalled(r, k)
  BY <1>1 DEF Signalled
<1>3. ASSUME NEW d \in Ranks
      PROVE  calls[d] < k
  <2>1. SUFFICES ASSUME calls[d] >= k
                 PROVE  FALSE
    BY <1>1
  <2>2. DoneIn(r, k)
    BY <2>1 DEF IInv, Onward
  <2> QED BY <1>2, <2>2 DEF DoneIn
<1>4. ASSUME NEW d \in Ranks, NEW j \in Calls, NonClean(j), Issued(r, j), calls[d] < j
      PROVE  Buf(j) # Buf(k)
  <2>1. j < k
    BY <1>1, <1>4 DEF Issued
  <2>2. Buf(j) \in {0, 1} /\ Buf(j + 1) = 1 - Buf(j)
    BY <1>1, <1>4, BuffersTurn DEF Buffers
  <2>3. CASE j + 1 = k
    BY <2>2, <2>3
  <2>4. CASE j + 1 # k
    <3>1. calls[r] >= j + 1 /\ j + 1 \in Calls
      BY <1>1, <2>1, <2>4
    <3>2. CleanedIn(d, j + 1)
      BY <3>1 DEF IInv, Onward, DoneIn
    <3> QED BY <1>1, <1>4, <3>2 DEF CleanedIn
  <2> QED BY <2>3, <2>4
<1>5. ASSUME NEW s \in Ranks, NEW j \in Calls, Issued(s, j)
      PROVE  j <= k
  <2>1. calls[s] >= j - 1 /\ calls[s] < k
    BY <1>1, <1>3, <1>5 DEF Issued
  <2> QED BY <1>1, <2>1
<1> QED BY <1>3, <1>4, <1>5

LEMMA SendsKeepPuts ==
  ASSUME IInv, PInv, NEW r \in Ranks, NEW k, NEW M, NEW buffer, SendsCargo(r, k, M, buffer)
  PROVE  PInv'
<1> PICK b : b = Buf(k)
  OBVIOUS
<1>0. /\ prog' = prog /\ calls' = calls /\ stage' = [stage EXCEPT ![r] = "sent"] /\ stage[r] = "idle"
      /\ k = Now(r) /\ k \in Calls /\ NonClean(k)
      /\ prog \in Setups /\ calls \in [Ranks -> Nat] /\ stage \in [Ranks -> Stages] /\ Types
      /\ DOMAIN wire = Ranks \X Ranks \X LocalExperts
      /\ send \in Contents /\ recv \in Contents /\ buffer \in [Slots -> ItemSet]
  BY DEF PInv, Filled, IInv, Types, SendsCargo
<1>1. /\ Ranks' = Ranks /\ LocalExperts' = LocalExperts /\ Calls' = Calls
      /\ \A j : NonClean(j)' <=> NonClean(j)
      /\ \A j : Buf(j)' = Buf(j)
      /\ \A j, s, d, le : Cargoes(j, s, d, le)' = Cargoes(j, s, d, le)
      /\ Slots' = Slots /\ Contents' = Contents
  BY <1>0, SetupStays, CargoesStay
<1>2. /\ Calls = 1 .. Len(prog.calls) /\ Len(prog.calls) \in Nat /\ k = calls[r] + 1
      /\ calls[r] \in Nat /\ \A j \in Calls : Buf(j) \in Buffers
  BY <1>0, Sizes, BuffersTurn DEF Now
<1>3. /\ \A d \in Ranks : calls[d] < k
      /\ \A d \in Ranks : \A j \in Calls :
              NonClean(j) /\ Issued(r, j) /\ calls[d] < j => Buf(j) # Buf(k)
      /\ \A s \in Ranks : \A j \in Calls : Issued(s, j) => j <= k
  BY <1>0, FirstInBuffer
<1>4. /\ \A s \in Ranks : \A j \in Calls : /\ Issued(s, j)' <=> (Issued(s, j) \/ (s = r /\ j = k))
                                           /\ Signalled(s, j)' => Signalled(s, j)
      /\ ~Signalled(r, k) /\ Issued(r, k)' /\ ~Signalled(r, k)'
  BY <1>0, <1>2 DEF Signalled, Issued
<1>5. /\ send' = [send EXCEPT ![r][b] = buffer]
      /\ \A d \in Ranks, le \in LocalExperts :
           \E c \in Cargoes(k, r, d, le) : Carries(buffer, M[<<d, le>>], c)
      /\ Issue(r, Puts(b, M))
  BY DEF SendsCargo
<1>6. /\ DOMAIN wire' = DOMAIN wire
      /\ \A s, d \in Ranks, le \in LocalExperts : ~(s = r /\ d # r) => wire'[<<s, d, le>>] = wire[<<s, d, le>>]
      /\ \A d \in Ranks \ {r}, le \in LocalExperts :
           PutAppended(r, d, le, b, M)
  <2>1. Types /\ Issue(r, Puts(b, M))
    BY <1>0, <1>5
  <2> QED BY <2>1, IssuedPuts
<1>7. /\ recv' \in Contents
      /\ \A le \in LocalExperts : \E c \in Cargoes(k, r, r, le) : Holds(recv'[r][Buf(k)], c)
      /\ \A d \in Ranks, a \in Buffers : ~(d = r /\ a = Buf(k)) => recv'[d][a] = recv[d][a]
      /\ \A x \in Slots : \/ recv'[r][Buf(k)][x] = recv[r][Buf(k)][x]
                          \/ \E le \in LocalExperts : \E c \in Cargoes(k, r, r, le) : \E y \in c : y[1] = x
  BY OwnCargo
<1>8. /\ send' \in Contents /\ send'[r][b] = buffer
      /\ \A s \in Ranks, a \in Buffers : ~(s = r /\ a = b) => send'[s][a] = send[s][a]
  BY <1>0, <1>2, <1>5 DEF Contents
\* What is in a queue pair stays; a message that is new is the put of the call.
<1>9. ASSUME NEW s \in Ranks, NEW d \in Ranks, NEW le \in LocalExperts, NEW q, q = <<s, d, le>>
      PROVE  /\ \A i \in DOMAIN wire[q] : i \in DOMAIN wire'[q] /\ wire'[q][i] = wire[q][i]
             /\ \A i \in DOMAIN wire[q] : \A a : SignalBehind(q, i, a) => SignalBehind(q, i, a)'
             /\ \A i \in DOMAIN wire'[q] : \/ i \in DOMAIN wire[q]
                                           \/ s = r /\ d # r /\ wire'[q][i] = PutMsg(b, M[<<d, le>>])
             /\ \/ ~(s = r /\ d # r) \/ M[<<d, le>>] = {}
                \/ \E i \in DOMAIN wire'[q] : wire'[q][i] = PutMsg(b, M[<<d, le>>])
  <2>1. /\ \A i \in DOMAIN wire[q] : i \in DOMAIN wire'[q] /\ wire'[q][i] = wire[q][i]
        /\ \A i \in DOMAIN wire'[q] : \/ i \in DOMAIN wire[q]
                                      \/ s = r /\ d # r /\ wire'[q][i] = PutMsg(b, M[<<d, le>>])
        /\ \/ ~(s = r /\ d # r) \/ M[<<d, le>>] = {}
           \/ \E i \in DOMAIN wire'[q] : wire'[q][i] = PutMsg(b, M[<<d, le>>])
    <3>1. CASE s = r /\ d # r
      <4>1. \E n \in Nat :
              /\ DOMAIN wire[<<r, d, le>>] = 1 .. n
              /\ DOMAIN wire'[<<r, d, le>>] = 1 .. n \cup (IF M[<<d, le>>] = {} THEN {} ELSE {n + 1})
              /\ \A i \in 1 .. n : wire'[<<r, d, le>>][i] = wire[<<r, d, le>>][i]
              /\ M[<<d, le>>] # {} => wire'[<<r, d, le>>][n + 1] = PutMsg(b, M[<<d, le>>])
        BY <1>6, <3>1 DEF PutAppended
      <4>2. PICK n \in Nat :
              /\ DOMAIN wire[q] = 1 .. n
              /\ DOMAIN wire'[q] = 1 .. n \cup (IF M[<<d, le>>] = {} THEN {} ELSE {n + 1})
              /\ \A i \in 1 .. n : wire'[q][i] = wire[q][i]
              /\ M[<<d, le>>] # {} => wire'[q][n + 1] = PutMsg(b, M[<<d, le>>])
        BY <1>9, <3>1, <4>1
      <4> QED BY <3>1, <4>2
    <3>2. CASE ~(s = r /\ d # r)
      BY <1>6, <1>9, <3>2
    <3> QED BY <3>1, <3>2
  <2>2. ASSUME NEW i \in DOMAIN wire[q], NEW a, SignalBehind(q, i, a)
        PROVE  SignalBehind(q, i, a)'
    <3>1. PICK j \in DOMAIN wire[q] : i < j /\ IsSignal(q, j) /\ wire[q][j].buf = a
      BY <2>2 DEF SignalBehind
    <3>2. j \in DOMAIN wire'[q] /\ wire'[q][j] = wire[q][j]
      BY <2>1, <3>1
    <3> QED BY <3>1, <3>2 DEF SignalBehind, IsSignal
  <2> QED BY <2>1, <2>2
<1>10. PutsKnown'
  <2>1. SUFFICES ASSUME NEW s \in Ranks, NEW d \in Ranks, NEW le \in LocalExperts,
                        NEW i \in DOMAIN wire'[<<s, d, le>>], ~(wire'[<<s, d, le>>][i].word >= 0)
                 PROVE  \E j \in Calls : PutOfCall(j, s, d, le, i)'
    BY <1>1 DEF PutsKnown, IsPut
  <2> DEFINE q == <<s, d, le>>
  <2>2. /\ i \in DOMAIN wire[q] => /\ wire'[q][i] = wire[q][i]
                                   /\ \A a : SignalBehind(q, i, a) => SignalBehind(q, i, a)'
        /\ i \in DOMAIN wire[q] \/ (s = r /\ d # r /\ wire'[q][i] = PutMsg(b, M[<<d, le>>]))
    BY <1>9, <2>1
  <2>3. CASE i \in DOMAIN wire[q]
    <3>1. IsPut(q, i)
      BY <2>1, <2>2, <2>3 DEF IsPut
    <3>2. PICK j \in Calls : PutOfCall(j, s, d, le, i)
      BY <2>3, <3>1 DEF PInv, PutsKnown
    <3> PICK a : a = Buf(j)
      OBVIOUS
    <3>3. s = r => a # b
      BY <1>3, <3>2 DEF PutOfCall
    <3>4. send'[s][a] = send[s][a]
      BY <1>2, <1>8, <3>3
    <3>5. Signalled(s, j)' => SignalBehind(q, i, a)'
      <4>1. SignalBehind(q, i, a) => SignalBehind(q, i, a)'
        BY <2>2, <2>3
      <4>2. Signalled(s, j) => SignalBehind(q, i, a)
        BY <3>2 DEF PutOfCall
      <4> QED BY <1>4, <4>1, <4>2
    <3>6. PutOfCall(j, s, d, le, i)'
      BY <1>0, <1>1, <1>4, <2>2, <2>3, <3>2, <3>4, <3>5 DEF PutOfCall, Carries
    <3> QED BY <3>6
  <2>4. CASE i \notin DOMAIN wire[q]
    <3>1. s = r /\ d # r /\ wire'[q][i] = PutMsg(b, M[<<d, le>>])
      BY <2>2, <2>4
    <3>2. wire'[q][i].buf = b /\ wire'[q][i].word = -1 /\ wire'[q][i].moves = M[<<d, le>>]
      BY <3>1 DEF PutMsg
    <3>3. \E c \in Cargoes(k, s, d, le) : Carries(send'[s][b], wire'[q][i].moves, c)
      BY <1>5, <1>8, <3>1, <3>2
    <3>4. PutOfCall(k, s, d, le, i)'
      BY <1>0, <1>1, <1>3, <1>4, <3>1, <3>2, <3>3 DEF PutOfCall, Carries
    <3> QED BY <1>0, <3>4
  <2> QED BY <2>3, <2>4
<1>11. PutsDelivered'
  <2>1. SUFFICES ASSUME NEW s \in Ranks, NEW d \in Ranks, NEW le \in LocalExperts, NEW j \in Calls,
                        NonClean(j), Issued(s, j)', calls[d] < j, ~PutPending(<<s, d, le>>, Buf(j))'
                 PROVE  \E x \in Cargoes(j, s, d, le) : Holds(recv'[d][Buf(j)], x)
    BY <1>0, <1>1 DEF PutsDelivered, Unread, Delivered, Holds
  <2> DEFINE q == <<s, d, le>>
  <2>2. \A i \in DOMAIN wire'[q] : ~(wire'[q][i].word >= 0) => wire'[q][i].buf # Buf(j)
    BY <1>1, <2>1 DEF PutPending, IsPut
  <2>3. CASE s = r /\ j = k /\ d = r
    BY <1>7, <2>3
  <2>4. CASE s = r /\ j = k /\ d # r
    <3>1. M[<<d, le>>] = {}
      <4>1. SUFFICES ASSUME M[<<d, le>>] # {}
                     PROVE  FALSE
        OBVIOUS
      <4>2. PICK i \in DOMAIN wire'[q] : wire'[q][i] = PutMsg(b, M[<<d, le>>])
        BY <1>9, <2>4, <4>1
      <4> QED BY <2>2, <2>4, <4>2 DEF PutMsg
    <3>2. PICK c \in Cargoes(k, r, d, le) : Carries(buffer, {}, c)
      BY <1>5, <3>1
    <3>3. Holds(recv'[d][Buf(j)], c)
      BY <3>2 DEF Carries, Holds
    <3> QED BY <2>4, <3>2, <3>3
  <2>5. CASE ~(s = r /\ j = k)
    <3>1. Issued(s, j)
      BY <1>4, <2>1, <2>5
    <3>2. \A i \in DOMAIN wire[q] : i \in DOMAIN wire'[q] /\ wire'[q][i] = wire[q][i]
      <4>1. CASE s = r /\ d # r
        <5>1. PutAppended(r, d, le, b, M)
          BY <1>6, <4>1
        <5> QED BY <4>1, <5>1 DEF PutAppended
      <4>2. CASE ~(s = r /\ d # r)
        BY <1>6, <4>2
      <4> QED BY <4>1, <4>2
    <3>3. ~PutPending(q, Buf(j))
      BY <2>2, <3>2 DEF PutPending, IsPut
    <3>4. PICK x \in Cargoes(j, s, d, le) : Holds(recv[d][Buf(j)], x)
      BY <2>1, <3>1, <3>3 DEF PInv, PutsDelivered, Unread, Delivered
    <3>5. CASE ~(d = r /\ Buf(j) = Buf(k))
      <4>1. recv'[d][Buf(j)] = recv[d][Buf(j)]
        BY <1>2, <1>7, <3>5
      <4> QED BY <3>4, <4>1
    <3>6. CASE d = r /\ Buf(j) = Buf(k)
      <4>1. j = k /\ s # r
        BY <1>2, <1>3, <2>1, <2>5, <3>1, <3>6
      <4>2. ASSUME NEW y \in x
            PROVE  recv'[r][Buf(k)][y[1]] = recv[r][Buf(k)][y[1]]
        <5>1. y[1] \in Slots
          BY <1>0, <2>1, <3>4, CargoInside
        <5>2. ASSUME NEW l2 \in LocalExperts, NEW c \in Cargoes(k, r, r, l2), NEW z \in c, z[1] = y[1]
              PROVE  FALSE
          <6>1. x \in Cargoes(k, s, r, le)
            BY <3>6, <4>1
          <6>2. s = r
            BY <1>0, <5>2, <6>1, CargoesApart
          <6> QED BY <4>1, <6>2
        <5> QED BY <1>7, <5>1, <5>2
      <4> QED BY <3>4, <3>6, <4>1, <4>2 DEF Holds
    <3> QED BY <3>5, <3>6
  <2> QED BY <2>3, <2>4, <2>5
<1>12. Filled'
  BY <1>1, <1>7, <1>8 DEF Filled
<1> QED BY <1>10, <1>11, <1>12 DEF PInv

-----------------------------------------------------------------------------
(* The invariants of what is received.  Of a dispatch: the tokens of every *)
(* source that has been heard are side by side where the range says.       *)

\* The experts whose tokens rank r has appended in call k.
HeardIn(r, k) == IF calls[r] >= k THEN Experts
                 ELSE IF calls[r] = k - 1 /\ stage[r] = "receive" THEN seen[r] ELSE {}
\* The tokens for local expert le of rank r, of source s: n of them, after the first b rows.
PartOf(rows, b, n, k, s, e) ==
  /\ b \in Nat /\ n = Cardinality(TokensFor(k, s, e)) /\ b + n <= Len(rows)
  /\ \E o \in SetToSeqs(TokensFor(k, s, e)) : \A i \in 1 .. n : rows[b + i] = Item(k, s, o[i], -1)
HeardBy(heard, le) == {s \in Ranks : Expert(s, le) \in heard}
RowsOf(rows, range, heard) ==
  /\ rows \in Seq(ItemSet) /\ Len(rows) <= Cardinality(heard) * prog.max
  /\ \A i \in 1 .. Len(rows) : \E s \in heard : i \in range[s].begin + 1 .. range[s].begin + range[s].num
\* The rows and the ranges of one local expert, and of all.
ExpertRows(rows, range, heard, k, e) ==
  /\ DOMAIN range = Ranks
  /\ RowsOf(rows, range, heard)
  /\ \A s \in heard : PartOf(rows, range[s].begin, range[s].num, k, s, e)
ResultOf(res, heard, r, k) ==
  /\ DOMAIN res.rows = LocalExperts /\ DOMAIN res.range = LocalExperts
  /\ \A le \in LocalExperts :
       ExpertRows(res.rows[le], res.range[le], HeardBy(heard, le), k, Expert(r, le))
ResultsKnown ==
  \A r \in Ranks : \A k \in Calls :
    Signalled(r, k) /\ Kind(k) = "dispatch" => ResultOf(result[r][k], HeardIn(r, k), r, k)

\* Of a combine: what every expert returned.
SumsOf(res, r, k) ==
  \A t \in DOMAIN Rows(k, r) : res.sums[t] = [e \in Rows(k, r)[t] |-> Item(k, r, t, e)]
SumsKnown ==
  \A r \in Ranks : \A k \in Calls : calls[r] >= k /\ Kind(k) = "combine" => SumsOf(result[r][k], r, k)

ResultsThere ==
  /\ DOMAIN result = Ranks
  /\ \A r \in Ranks : /\ DOMAIN result[r] = Calls
                      /\ \A k \in Calls : DOMAIN result[r][k] = {"rows", "range", "sums"}
RInv == ResultsThere /\ ResultsKnown /\ SumsKnown

LEMMA ResultsStay ==
  ASSUME prog' = prog
  PROVE  /\ \A res, heard, r, k : ResultOf(res, heard, r, k)' <=> ResultOf(res, heard, r, k)
         /\ \A res, r, k : SumsOf(res, r, k)' <=> SumsOf(res, r, k)
BY DEF ResultOf, SumsOf, ExpertRows, RowsOf, PartOf, HeardBy, TokensFor, Rows, Source, Expert, Kind,
       LocalExperts, Ranks, ItemSet

\* Steps that end no call but cleaning, and leave nothing behind.
ResultsQuiet ==
  /\ result' = result /\ prog' = prog
  /\ \A r \in Ranks : \A k \in Calls : NonClean(k) =>
       /\ Signalled(r, k)' => Signalled(r, k)
       /\ calls'[r] >= k => calls[r] >= k
       /\ Kind(k) = "dispatch" => HeardIn(r, k)' = HeardIn(r, k)

LEMMA QuietKeepsResults ==
  ASSUME RInv, ResultsQuiet
  PROVE  RInv'
<1>1. /\ Ranks' = Ranks /\ Calls' = Calls /\ \A k : Kind(k)' = Kind(k)
      /\ result' = result
  BY SetupStays DEF ResultsQuiet
<1>2. /\ \A res, heard, r, k : ResultOf(res, heard, r, k)' <=> ResultOf(res, heard, r, k)
      /\ \A res, r, k : SumsOf(res, r, k)' <=> SumsOf(res, r, k)
  BY ResultsStay DEF ResultsQuiet
<1>3. ResultsKnown'
  <2>1. SUFFICES ASSUME NEW r \in Ranks, NEW k \in Calls, Signalled(r, k)', Kind(k) = "dispatch"
                 PROVE  ResultOf(result[r][k], HeardIn(r, k), r, k)'
    BY <1>1 DEF ResultsKnown
  <2>2. Signalled(r, k) /\ HeardIn(r, k)' = HeardIn(r, k)
    BY <2>1 DEF ResultsQuiet, NonClean
  <2> PICK res : res = result[r][k]
    OBVIOUS
  <2> PICK h : h = HeardIn(r, k)
    OBVIOUS
  <2>3. ResultOf(res, h, r, k)
    BY <2>1, <2>2 DEF RInv, ResultsKnown
  <2>4. ResultOf(res, h, r, k)'
    BY <1>2, <2>3
  <2>5. result'[r][k] = res /\ HeardIn(r, k)' = h
    BY <1>1, <2>2
  <2> QED BY <2>4, <2>5
<1>4. SumsKnown'
  <2>1. SUFFICES ASSUME NEW r \in Ranks, NEW k \in Calls, calls'[r] >= k, Kind(k) = "combine"
                 PROVE  SumsOf(result[r][k], r, k)'
    BY <1>1 DEF SumsKnown
  <2>2. calls[r] >= k
    BY <2>1 DEF ResultsQuiet, NonClean
  <2> PICK res : res = result[r][k]
    OBVIOUS
  <2>3. SumsOf(res, r, k)
    BY <2>1, <2>2 DEF RInv, SumsKnown
  <2>4. SumsOf(res, r, k)'
    BY <1>2, <2>3
  <2>5. result'[r][k] = res
    BY <1>1
  <2> QED BY <2>4, <2>5
<1>5. ResultsThere'
  BY <1>1 DEF RInv, ResultsThere
<1> QED BY <1>3, <1>4, <1>5 DEF RInv

\* A step of rank r in call k changes the result of that call only.
OnlyResult(r, k) ==
  /\ DOMAIN result' = Ranks
  /\ \A s \in Ranks : DOMAIN result'[s] = Calls
  /\ DOMAIN result'[r][k] = {"rows", "range", "sums"}
  /\ \A s \in Ranks : \A j \in Calls : ~(s = r /\ j = k) => result'[s][j] = result[s][j]

LEMMA ResultsFrame ==
  ASSUME RInv, NEW r \in Ranks, NEW k \in Calls, NEW res,
         prog' = prog, OnlyResult(r, k), res = result'[r][k],
         \A s \in Ranks : \A j \in Calls : ~(s = r /\ j = k) =>
           /\ Signalled(s, j)' => Signalled(s, j)
           /\ calls'[s] >= j => calls[s] >= j
           /\ HeardIn(s, j)' = HeardIn(s, j),
         Kind(k) = "dispatch" => ResultOf(res, HeardIn(r, k)', r, k),
         calls'[r] >= k /\ Kind(k) = "combine" => SumsOf(res, r, k)
  PROVE  RInv'
<1>1. /\ Ranks' = Ranks /\ Calls' = Calls /\ \A j : Kind(j)' = Kind(j)
  BY SetupStays
<1>2. /\ \A x, heard, s, j : ResultOf(x, heard, s, j)' <=> ResultOf(x, heard, s, j)
      /\ \A x, s, j : SumsOf(x, s, j)' <=> SumsOf(x, s, j)
  BY ResultsStay
<1>3. /\ DOMAIN result' = Ranks
      /\ \A s \in Ranks : DOMAIN result'[s] = Calls
      /\ result'[r][k] = res /\ DOMAIN res = {"rows", "range", "sums"}
      /\ \A s \in Ranks : \A j \in Calls : ~(s = r /\ j = k) => result'[s][j] = result[s][j]
  BY DEF OnlyResult
<1>4. ResultsKnown'
  <2>1. SUFFICES ASSUME NEW s \in Ranks, NEW j \in Calls, Signalled(s, j)', Kind(j) = "dispatch"
                 PROVE  ResultOf(result[s][j], HeardIn(s, j), s, j)'
    BY <1>1 DEF ResultsKnown
  <2> PICK x : x = result'[s][j]
    OBVIOUS
  <2> PICK h : h = HeardIn(s, j)'
    OBVIOUS
  <2>2. CASE s = r /\ j = k
    <3>1. ResultOf(x, h, s, j)
      BY <1>3, <2>1, <2>2
    <3>2. ResultOf(x, h, s, j)'
      BY <1>2, <3>1
    <3> QED BY <3>2
  <2>3. CASE ~(s = r /\ j = k)
    <3>1. ResultOf(result[s][j], HeardIn(s, j), s, j) /\ HeardIn(s, j)' = HeardIn(s, j)
      BY <2>1, <2>3 DEF RInv, ResultsKnown
    <3>2. x = result[s][j] /\ h = HeardIn(s, j)
      BY <1>3, <2>3, <3>1
    <3>3. ResultOf(x, h, s, j)
      BY <3>1, <3>2
    <3>4. ResultOf(x, h, s, j)'
      BY <1>2, <3>3
    <3> QED BY <3>4
  <2> QED BY <2>2, <2>3
<1>5. SumsKnown'
  <2>1. SUFFICES ASSUME NEW s \in Ranks, NEW j \in Calls, calls'[s] >= j, Kind(j) = "combine"
                 PROVE  SumsOf(result[s][j], s, j)'
    BY <1>1 DEF SumsKnown
  <2> PICK x : x = result'[s][j]
    OBVIOUS
  <2>2. SumsOf(x, s, j)
    <3>1. CASE s = r /\ j = k
      BY <1>3, <2>1, <3>1
    <3>2. CASE ~(s = r /\ j = k)
      <4>1. SumsOf(result[s][j], s, j)
        BY <2>1, <3>2 DEF RInv, SumsKnown
      <4>2. x = result[s][j]
        BY <1>3, <3>2
      <4> QED BY <4>1, <4>2
    <3> QED BY <3>1, <3>2
  <2>3. SumsOf(x, s, j)'
    BY <1>2, <2>2
  <2> QED BY <2>3
<1>6. ResultsThere'
  <2>1. ASSUME NEW s \in Ranks, NEW j \in Calls
        PROVE  DOMAIN result'[s][j] = {"rows", "range", "sums"}
    <3>1. CASE s = r /\ j = k
      BY <1>3, <3>1
    <3>2. CASE ~(s = r /\ j = k)
      BY <1>3, <3>2 DEF RInv, ResultsThere
    <3> QED BY <3>1, <3>2
  <2> QED BY <1>1, <1>3, <2>1 DEF ResultsThere
<1> QED BY <1>4, <1>5, <1>6 DEF RInv

LEMMA MadeSequence ==
  ASSUME NEW S, NEW n \in Nat, NEW f \in [1 .. n -> S]
  PROVE  f \in Seq(S) /\ Len(f) = n
OBVIOUS

LEMMA Concatenated ==
  ASSUME NEW S, NEW a \in Seq(S), NEW b \in Seq(S)
  PROVE  /\ a \o b \in Seq(S) /\ Len(a \o b) = Len(a) + Len(b)
         /\ \A i \in 1 .. Len(a) : (a \o b)[i] = a[i]
         /\ \A i \in 1 .. Len(b) : (a \o b)[Len(a) + i] = b[i]
OBVIOUS

\* The rows with the tokens of source s at their end.
WithTokens(rows2, rows, n, k, s, o) ==
  /\ rows2 \in Seq(ItemSet) /\ Len(rows2) = Len(rows) + n
  /\ \A i \in 1 .. Len(rows) : rows2[i] = rows[i]
  /\ \A i \in 1 .. n : rows2[Len(rows) + i] = Item(k, s, o[i], -1)

LEMMA TokensAppended ==
  ASSUME NEW rows \in Seq(ItemSet), NEW n \in Nat, NEW k \in Nat, NEW s \in Nat, NEW o,
         \A i \in 1 .. n : o[i] \in Nat
  PROVE  WithTokens(rows \o [i \in 1 .. n |-> Item(k, s, o[i], -1)], rows, n, k, s, o)
<1> DEFINE x == [i \in 1 .. n |-> Item(k, s, o[i], -1)]
           c == rows \o x
<1>1. \A i \in 1 .. n : Item(k, s, o[i], -1) \in ItemSet
  BY DEF Item, ItemSet
<1>2. x \in [1 .. n -> ItemSet] /\ \A i \in 1 .. n : x[i] = Item(k, s, o[i], -1)
  BY <1>1
<1> HIDE DEF x
<1>3. x \in Seq(ItemSet) /\ Len(x) = n
  BY <1>2, MadeSequence
<1>4. /\ c \in Seq(ItemSet) /\ Len(c) = Len(rows) + Len(x)
      /\ \A i \in 1 .. Len(rows) : c[i] = rows[i]
      /\ \A i \in 1 .. Len(x) : c[Len(rows) + i] = x[i]
  <2> PICK I : I = ItemSet
    OBVIOUS
  <2>1. rows \in Seq(I) /\ x \in Seq(I)
    BY <1>3
  <2>2. /\ rows \o x \in Seq(I) /\ Len(rows \o x) = Len(rows) + Len(x)
        /\ \A i \in 1 .. Len(rows) : (rows \o x)[i] = rows[i]
        /\ \A i \in 1 .. Len(x) : (rows \o x)[Len(rows) + i] = x[i]
    BY <2>1, Concatenated
  <2> QED BY <2>2
<1> HIDE DEF c
<1>5. WithTokens(c, rows, n, k, s, o)
  BY <1>2, <1>3, <1>4 DEF WithTokens
<1> QED BY <1>5 DEF c, x

\* The tokens of one more source are appended.
LEMMA PartAppended ==
  ASSUME prog \in Setups, NEW k \in Calls, Kind(k) = "dispatch", NEW e, NEW s \in Ranks,
         NEW heard, heard \subseteq Ranks, s \notin heard,
         NEW rows, NEW range, ExpertRows(rows, range, heard, k, e),
         NEW o \in SetToSeqs(TokensFor(k, s, e)), NEW n, n = Cardinality(TokensFor(k, s, e)),
         NEW rows2, WithTokens(rows2, rows, n, k, s, o),
         NEW range2, range2 = [range EXCEPT ![s] = [num |-> n, begin |-> Len(rows)]]
  PROVE  ExpertRows(rows2, range2, heard \cup {s}, k, e)
<1> DEFINE m == Len(rows)
<1>0. NonClean(k) /\ prog.max \in Nat /\ IsFiniteSet(Ranks) /\ s \in Nat /\ k \in Nat
  <2>1. Ranks = 0 .. prog.ranks - 1 /\ prog.ranks \in Nat /\ Calls = 1 .. Len(prog.calls)
    BY Sizes
  <2> DEFINE h == prog.ranks - 1
  <2>4. h \in Int /\ 0 \in Int
    BY <2>1
  <2> HIDE DEF h
  <2>5. IsFiniteSet(0 .. h)
    BY <2>4, FS_Interval
  <2>2. IsFiniteSet(0 .. prog.ranks - 1)
    BY <2>5 DEF h
  <2>3. NonClean(k)
    BY DEF NonClean
  <2> QED BY <2>1, <2>2, <2>3, CallData
<1>1. n \in 0 .. prog.max /\ TokensFor(k, s, e) \subseteq 1 .. prog.max /\ IsFiniteSet(TokensFor(k, s, e))
  BY <1>0, TokensAre
<1>4. rows \in Seq(ItemSet) /\ m \in Nat
  BY DEF ExpertRows, RowsOf
<1>14. m <= Cardinality(heard) * prog.max
  BY DEF ExpertRows, RowsOf
<1>5. /\ rows2 \in Seq(ItemSet) /\ Len(rows2) = m + n
      /\ \A i \in 1 .. m : rows2[i] = rows[i]
      /\ \A i \in 1 .. n : rows2[m + i] = Item(k, s, o[i], -1)
  BY DEF WithTokens
<1> HIDE DEF m
<1>6. Cardinality(heard \cup {s}) = Cardinality(heard) + 1 /\ Cardinality(heard) \in Nat
  BY <1>0, FS_Subset, FS_AddElement, FS_CardinalityType
<1>7. Len(rows2) <= Cardinality(heard \cup {s}) * prog.max
  <2> DEFINE c == Cardinality(heard)
  <2>1. Len(rows2) <= c * prog.max + prog.max /\ c \in Nat
    <3> HIDE DEF c
    <3> QED BY <1>0, <1>1, <1>4, <1>14, <1>5, <1>6 DEF c
  <2> HIDE DEF c
  <2>2. (c + 1) * prog.max = c * prog.max + prog.max
    BY <1>0, <2>1
  <2> QED BY <1>6, <2>1, <2>2 DEF c
<1>8. /\ DOMAIN range2 = Ranks /\ range2[s].num = n /\ range2[s].begin = m
      /\ \A q \in heard : range2[q] = range[q]
  BY DEF ExpertRows, m
<1>9. ASSUME NEW i \in 1 .. Len(rows2)
      PROVE  \E q \in heard \cup {s} : i \in range2[q].begin + 1 .. range2[q].begin + range2[q].num
  <2>1. CASE i <= m
    <3>1. i \in 1 .. Len(rows)
      BY <1>4, <1>9, <2>1 DEF m
    <3>2. PICK q \in heard : i \in range[q].begin + 1 .. range[q].begin + range[q].num
      BY <3>1 DEF ExpertRows, RowsOf
    <3> QED BY <1>8, <3>2
  <2>2. CASE ~(i <= m)
    <3>1. i \in m + 1 .. m + n
      BY <1>1, <1>4, <1>5, <2>2
    <3> QED BY <1>8, <3>1
  <2> QED BY <2>1, <2>2
<1>10. ASSUME NEW q \in heard \cup {s}
       PROVE  PartOf(rows2, range2[q].begin, range2[q].num, k, q, e)
  <2>1. CASE q = s
    <3>1. m + n <= Len(rows2)
      BY <1>1, <1>4, <1>5
    <3>2. PartOf(rows2, m, n, k, s, e)
      BY <1>4, <1>5, <3>1 DEF PartOf
    <3> QED BY <1>8, <2>1, <3>2
  <2>2. CASE q # s
    <3>1. q \in heard /\ q \in Ranks
      BY <2>2
    <3> PICK b : b = range[q].begin
      OBVIOUS
    <3> PICK l : l = range[q].num
      OBVIOUS
    <3>2. PartOf(rows, b, l, k, q, e)
      BY <3>1 DEF ExpertRows
    <3>3. b \in Nat /\ l \in Nat /\ b + l <= m
      BY <1>0, <3>1, <3>2, TokensAre DEF PartOf, m
    <3>4. \A i \in 1 .. l : rows2[b + i] = rows[b + i]
      BY <1>4, <1>5, <3>3
    <3>5. PartOf(rows2, b, l, k, q, e)
      <4>1. b + l <= Len(rows2)
        BY <1>1, <1>4, <1>5, <3>3
      <4> QED BY <3>2, <3>4, <4>1 DEF PartOf
    <3> QED BY <1>8, <3>1, <3>5
  <2> QED BY <2>1, <2>2
<1> QED BY <1>5, <1>7, <1>8, <1>9, <1>10 DEF ExpertRows, RowsOf

LEMMA EmptyResult ==
  ASSUME prog \in Setups, NEW r, NEW k
  PROVE  ResultOf(Empty, {}, r, k) /\ DOMAIN Empty = {"rows", "range", "sums"}
<1>1. HeardBy({}, 0) = {} /\ \A le : HeardBy({}, le) = {}
  BY DEF HeardBy
<1>2. /\ DOMAIN Empty.rows = LocalExperts /\ DOMAIN Empty.range = LocalExperts
      /\ \A le \in LocalExperts : Empty.rows[le] = <<>> /\ DOMAIN Empty.range[le] = Ranks
  BY DEF Empty
<1>3. DOMAIN Empty = {"rows", "range", "sums"}
  BY DEF Empty
<1>4. ASSUME NEW le \in LocalExperts
      PROVE  ExpertRows(Empty.rows[le], Empty.range[le], {}, k, Expert(r, le))
  <2>1. prog.max \in Int
    <3>1. {prog.local, prog.max} \subseteq Nat \ {0}
      BY SetupsAssumption
    <3> QED BY <3>1
  <2>2. <<>> \in Seq(ItemSet) /\ Len(<<>>) = 0
    OBVIOUS
  <2>3. Cardinality({}) * prog.max = 0
    BY <2>1, FS_EmptySet
  <2>4. RowsOf(<<>>, Empty.range[le], {})
    BY <2>2, <2>3 DEF RowsOf
  <2> QED BY <1>2, <2>4 DEF ExpertRows
<1> QED BY <1>1, <1>2, <1>3, <1>4 DEF ResultOf

\* The result of a call while it is received, without the nested updates of the action.
Grown(r, k, le, s, rows, part) ==
  LET old == result[r][k]
      new == result'[r][k]
  IN  /\ OnlyResult(r, k)
      /\ DOMAIN new.rows = LocalExperts /\ DOMAIN new.range = LocalExperts
      /\ \A l \in LocalExperts \ {le} : new.rows[l] = old.rows[l] /\ new.range[l] = old.range[l]
      /\ new.rows[le] = rows /\ new.range[le] = [old.range[le] EXCEPT ![s] = part]

LEMMA ReceiveAppends ==
  ASSUME IInv, PInv, RInv, NEW r \in Ranks, NEW e \in Experts, Receive(r, e),
         NEW k, k = Now(r), NEW s, s = RankOf(e), NEW le, le = LocalOf(e)
  PROVE  /\ k \in Calls /\ s \in Ranks /\ le \in LocalExperts /\ Expert(s, le) = e
         /\ \E rows, n : \E o \in SetToSeqs(TokensFor(k, s, Expert(r, le))) :
              /\ n = Cardinality(TokensFor(k, s, Expert(r, le)))
              /\ WithTokens(rows, result[r][k].rows[le], n, k, s, o)
              /\ Grown(r, k, le, s, rows, [num |-> n, begin |-> Len(result[r][k].rows[le])])
<1>0. /\ Types /\ prog \in Setups /\ stage[r] = "receive" /\ Kind(k) = "dispatch" /\ Fits(r) /\ mask[r] = {}
      /\ alive = Ranks /\ calls \in [Ranks -> Nat]
  BY DEF IInv, Types, StagesFit, Receive
<1>1. k \in Calls /\ NonClean(k) /\ calls[r] < k /\ k = calls[r] + 1 /\ k \in Nat
  BY <1>0 DEF Fits, Now
<1>2. s \in Ranks /\ le \in LocalExperts /\ Expert(s, le) = e /\ s \in Nat
  BY <1>0, ExpertNumbers, Sizes
<1> DEFINE w == CountWord(le, s)
           T == TokensFor(k, s, Expert(r, le))
           b == Buf(k)
           old == result[r][k].rows[le]
<1>3. words[r][b][w] # 0 /\ HasSignal(r, b, w)
  BY <1>0, <1>2 DEF Receive, Waited, HasSignal
<1>4. Landed(s, r, le, k) /\ words[r][b][w] = SignalValue(k, s, r, le)
  <2>1. SignalWord(k, s, le) = w
    BY <1>0 DEF SignalWord
  <2> QED BY <1>0, <1>2, <1>3, <2>1, KnownSignal
<1>5. T \subseteq 1 .. prog.max /\ IsFiniteSet(T) /\ Cardinality(T) \in Nat /\ prog.max \in Nat
  BY <1>0, <1>1, <1>2, TokensAre, CallData
<1>6. -words[r][b][w] - 1 = Cardinality(T)
  <2>1. words[r][b][w] = -Cardinality(T) - 1
    BY <1>0, <1>4 DEF SignalValue
  <2> DEFINE c == Cardinality(T)
             v == words[r][b][w]
  <2>2. v = -c - 1 /\ c \in Nat
    BY <1>5, <2>1
  <2> HIDE DEF c, v
  <2>3. -v - 1 = c
    BY <2>2
  <2> QED BY <2>3 DEF c, v
<1>7. PICK o \in SetToSeqs(T) : Holds(recv[r][b], DispatchCargo(k, s, le, o))
  <2>1. Delivered(k, s, r, le)
    BY <1>0, <1>1, <1>2, <1>4, LandedDelivered
  <2> QED BY <1>0, <2>1 DEF Delivered, Cargoes
<1>8. DOMAIN o = 1 .. Cardinality(T) /\ \A i \in 1 .. Cardinality(T) : o[i] \in Nat
  <2>1. DOMAIN o = 1 .. Cardinality(T) /\ \A i \in DOMAIN o : o[i] \in T
    BY <1>5, OrdersAre
  <2> QED BY <1>5, <2>1
<1> PICK n : n = Cardinality(T)
  OBVIOUS
<1>9. \A i \in 1 .. n : recv[r][b][DispatchSlot(le, s, i - 1)] = Item(k, s, o[i], -1)
  <2> SUFFICES ASSUME NEW i \in 1 .. n
               PROVE  recv[r][b][DispatchSlot(le, s, i - 1)] = Item(k, s, o[i], -1)
    OBVIOUS
  <2> DEFINE x == <<DispatchSlot(le, s, i - 1), Item(k, s, o[i], -1)>>
  <2>1. x \in DispatchCargo(k, s, le, o)
    BY <1>8 DEF DispatchCargo
  <2>2. recv[r][b][x[1]] = x[2]
    BY <1>7, <2>1 DEF Holds
  <2> QED BY <2>2
<1> DEFINE new == [i \in 1 .. n |-> recv[r][b][DispatchSlot(le, s, i - 1)]]
           items == [i \in 1 .. n |-> Item(k, s, o[i], -1)]
<1>10. new = items
  BY <1>9
<1>11. result' = [result EXCEPT ![r][k].rows[le] = @ \o new,
                                ![r][k].range[le][s] = [num |-> n, begin |-> Len(old)]]
  <2>1. s \notin mask[r]
    BY <1>0
  <2> DEFINE num == IF s \notin mask[r] /\ HasSignal(r, b, w) THEN -words[r][b][w] - 1 ELSE 0
  <2>2. num = n
    BY <1>3, <1>6, <2>1
  <2>3. result' = [result EXCEPT
           ![r][k].rows[le] = @ \o [i \in 1 .. num |-> recv[r][b][DispatchSlot(le, s, i - 1)]],
           ![r][k].range[le][s] = [num |-> num, begin |-> Len(old)]]
    BY DEF Receive
  <2> HIDE DEF num
  <2> QED BY <2>2, <2>3
<1>12. /\ DOMAIN result = Ranks /\ DOMAIN result[r] = Calls
       /\ DOMAIN result[r][k] = {"rows", "range", "sums"}
       /\ ResultOf(result[r][k], HeardIn(r, k), r, k)
  <2>1. Signalled(r, k)
    BY <1>0, <1>1 DEF Signalled
  <2> QED BY <1>0, <1>1, <2>1 DEF RInv, ResultsThere, ResultsKnown
<1>13. old \in Seq(ItemSet)
  BY <1>2, <1>12 DEF ResultOf, ExpertRows, RowsOf
<1>14. WithTokens(old \o items, old, n, k, s, o)
  BY <1>1, <1>2, <1>5, <1>8, <1>13, TokensAppended
<1> HIDE DEF new, items
<1> DEFINE rows == old \o items
           part == [num |-> n, begin |-> Len(old)]
<1>15. Grown(r, k, le, s, rows, part)
  <2>1. result' = [result EXCEPT ![r][k].rows[le] = rows, ![r][k].range[le][s] = part]
    BY <1>1, <1>2, <1>10, <1>11, <1>12
  <2>2. DOMAIN result[r][k].rows = LocalExperts /\ DOMAIN result[r][k].range = LocalExperts
    BY <1>12 DEF ResultOf
  <2>5. \A q \in Ranks : DOMAIN result[q] = Calls
    BY DEF RInv, ResultsThere
  <2> HIDE DEF rows, part
  <2> DEFINE res == [result[r][k] EXCEPT !.rows[le] = rows, !.range[le][s] = part]
  <2>3. /\ DOMAIN result' = Ranks /\ DOMAIN result'[r] = Calls
        /\ \A q \in Ranks \ {r} : result'[q] = result[q]
        /\ \A j \in Calls \ {k} : result'[r][j] = result[r][j]
        /\ result'[r][k] = res
    BY <1>1, <1>2, <1>12, <2>1
  <2>4. /\ DOMAIN res = {"rows", "range", "sums"}
        /\ DOMAIN res.rows = LocalExperts /\ DOMAIN res.range = LocalExperts
        /\ \A l \in LocalExperts \ {le} : res.rows[l] = result[r][k].rows[l] /\ res.range[l] = result[r][k].range[l]
        /\ res.rows[le] = rows /\ res.range[le] = [result[r][k].range[le] EXCEPT ![s] = part]
    BY <1>1, <1>2, <1>12, <2>2
  <2> HIDE DEF res
  <2> QED BY <1>1, <2>3, <2>4, <2>5 DEF Grown, OnlyResult
<1> QED BY <1>1, <1>2, <1>7, <1>14, <1>15

LEMMA OtherCalls ==
  ASSUME IInv, NEW r \in Ranks, OnlyRank(r), NEW k \in Calls, k = calls[r] + 1,
         calls'[r] = calls[r] \/ (calls'[r] = calls[r] + 1 /\ stage'[r] = "idle")
  PROVE  \A s \in Ranks : \A j \in Calls : ~(s = r /\ j = k) =>
           /\ Signalled(s, j)' => Signalled(s, j)
           /\ calls'[s] >= j => calls[s] >= j
           /\ HeardIn(s, j)' = HeardIn(s, j)
<1>0. /\ prog \in Setups /\ calls \in [Ranks -> Nat] /\ Experts' = Experts /\ calls[r] \in Nat
      /\ Calls = 1 .. Len(prog.calls) /\ Len(prog.calls) \in Nat
  BY Sizes, SetupStays DEF IInv, Types, OnlyRank
<1> SUFFICES ASSUME NEW s \in Ranks, NEW j \in Calls, ~(s = r /\ j = k)
             PROVE  /\ Signalled(s, j)' => Signalled(s, j)
                    /\ calls'[s] >= j => calls[s] >= j
                    /\ HeardIn(s, j)' = HeardIn(s, j)
  OBVIOUS
<1>1. CASE s # r
  BY <1>0, <1>1 DEF OnlyRank, Signalled, HeardIn
<1>2. CASE s = r /\ j # k
  <2>1. (calls'[r] >= j <=> calls[r] >= j) /\ calls[r] # j - 1
    BY <1>0, <1>2
  <2>2. ~(calls'[r] = j - 1 /\ stage'[r] \in {"receive", "reduce"})
    BY <1>0, <1>2
  <2> QED BY <1>0, <1>2, <2>1, <2>2 DEF Signalled, HeardIn
<1> QED BY <1>1, <1>2

LEMMA ReceiveKeepsResults ==
  ASSUME IInv, PInv, RInv, NEW r \in Ranks, NEW e \in Experts, Receive(r, e)
  PROVE  RInv'
<1> PICK k : k = Now(r)
  OBVIOUS
<1> PICK s : s = RankOf(e)
  OBVIOUS
<1> PICK le : le = LocalOf(e)
  OBVIOUS
<1>0. /\ prog' = prog /\ prog \in Setups /\ stage[r] = "receive" /\ Kind(k) = "dispatch" /\ e \notin seen[r]
      /\ seen[r] \subseteq Experts /\ k = calls[r] + 1 /\ calls[r] \in Nat
      /\ calls \in [Ranks -> Nat] /\ stage \in [Ranks -> Stages]
      /\ seen \in [Ranks -> SUBSET (Experts \cup Ranks)]
  BY DEF IInv, Types, StagesFit, Fits, Receive, Now
<1>1. /\ k \in Calls /\ s \in Ranks /\ le \in LocalExperts /\ Expert(s, le) = e
      /\ \E rows, n : \E o \in SetToSeqs(TokensFor(k, s, Expert(r, le))) :
              /\ n = Cardinality(TokensFor(k, s, Expert(r, le)))
              /\ WithTokens(rows, result[r][k].rows[le], n, k, s, o)
              /\ Grown(r, k, le, s, rows, [num |-> n, begin |-> Len(result[r][k].rows[le])])
  BY ReceiveAppends
<1>2. PICK rows, n : \E o \in SetToSeqs(TokensFor(k, s, Expert(r, le))) :
              /\ n = Cardinality(TokensFor(k, s, Expert(r, le)))
              /\ WithTokens(rows, result[r][k].rows[le], n, k, s, o)
              /\ Grown(r, k, le, s, rows, [num |-> n, begin |-> Len(result[r][k].rows[le])])
  BY <1>1
<1>3. PICK o \in SetToSeqs(TokensFor(k, s, Expert(r, le))) :
              /\ n = Cardinality(TokensFor(k, s, Expert(r, le)))
              /\ WithTokens(rows, result[r][k].rows[le], n, k, s, o)
              /\ Grown(r, k, le, s, rows, [num |-> n, begin |-> Len(result[r][k].rows[le])])
  BY <1>2
<1> DEFINE heard == seen[r] \cup {e}
           old == result[r][k]
<1>4. /\ OnlyRank(r) /\ Experts' = Experts
      /\ calls'[r] = calls[r] \/ (calls'[r] = calls[r] + 1 /\ stage'[r] = "idle")
      /\ IF heard = Experts THEN calls'[r] = calls[r] + 1
         ELSE calls'[r] = calls[r] /\ stage'[r] = "receive" /\ seen'[r] = heard
  <2>1. CASE heard = Experts
    BY <1>0, <2>1, SetupStays DEF Receive, OnlyRank
  <2>2. CASE heard # Experts
    BY <1>0, <2>2, SetupStays DEF Receive, OnlyRank
  <2> QED BY <2>1, <2>2
<1>5. HeardIn(r, k)' = heard /\ HeardIn(r, k) = seen[r]
  BY <1>0, <1>4 DEF HeardIn
<1>6. ResultOf(old, seen[r], r, k)
  <2>1. Signalled(r, k)
    BY <1>0 DEF Signalled
  <2> QED BY <1>0, <1>1, <1>5, <2>1 DEF RInv, ResultsKnown
<1>7. /\ \A l \in LocalExperts \ {le} : HeardBy(heard, l) = HeardBy(seen[r], l)
      /\ HeardBy(heard, le) = HeardBy(seen[r], le) \cup {s} /\ s \notin HeardBy(seen[r], le)
      /\ HeardBy(seen[r], le) \subseteq Ranks
  <2>1. \A q \in Ranks, l \in LocalExperts : Expert(q, l) = e => q = s /\ l = le
    BY <1>0, ExpertNumbers
  <2> QED BY <1>0, <1>1, <2>1 DEF HeardBy
<1> PICK res : res = result'[r][k]
  OBVIOUS
<1>8. ResultOf(res, heard, r, k)
  <2> DEFINE part == [num |-> n, begin |-> Len(old.rows[le])]
  <2>1. /\ DOMAIN res.rows = LocalExperts /\ DOMAIN res.range = LocalExperts
        /\ \A l \in LocalExperts \ {le} : res.rows[l] = old.rows[l] /\ res.range[l] = old.range[l]
        /\ res.rows[le] = rows /\ res.range[le] = [old.range[le] EXCEPT ![s] = part]
    BY <1>3 DEF Grown
  <2>2. \A l \in LocalExperts : ExpertRows(old.rows[l], old.range[l], HeardBy(seen[r], l), k, Expert(r, l))
    BY <1>6 DEF ResultOf
  <2> HIDE DEF heard, old
  <2>3. ASSUME NEW l \in LocalExperts \ {le}
        PROVE  ExpertRows(res.rows[l], res.range[l], HeardBy(heard, l), k, Expert(r, l))
    BY <1>7, <2>1, <2>2
  <2> PICK x : x = Expert(r, le)
    OBVIOUS
  <2> PICK h : h = HeardBy(seen[r], le)
    OBVIOUS
  <2> PICK range : range = old.range[le]
    OBVIOUS
  <2> PICK range2 : range2 = res.range[le]
    OBVIOUS
  <2> PICK rows1 : rows1 = old.rows[le]
    OBVIOUS
  <2>4. /\ h \subseteq Ranks /\ s \notin h /\ ExpertRows(rows1, range, h, k, x)
        /\ o \in SetToSeqs(TokensFor(k, s, x)) /\ n = Cardinality(TokensFor(k, s, x))
        /\ WithTokens(rows, rows1, n, k, s, o)
        /\ range2 = [range EXCEPT ![s] = [num |-> n, begin |-> Len(rows1)]]
    BY <1>1, <1>3, <1>7, <2>1, <2>2 DEF old
  <2>5. ExpertRows(rows, range2, h \cup {s}, k, x)
    BY <1>0, <1>1, <2>4, PartAppended
  <2>6. ExpertRows(res.rows[le], res.range[le], HeardBy(heard, le), k, Expert(r, le))
    BY <1>7, <2>1, <2>5
  <2> QED BY <2>1, <2>3, <2>6 DEF ResultOf
<1>9. OnlyResult(r, k)
  BY <1>3 DEF Grown
<1>10. \A q \in Ranks : \A j \in Calls : ~(q = r /\ j = k) =>
           /\ Signalled(q, j)' => Signalled(q, j)
           /\ calls'[q] >= j => calls[q] >= j
           /\ HeardIn(q, j)' = HeardIn(q, j)
  BY <1>0, <1>1, <1>4, OtherCalls
<1>11. Kind(k) # "combine" /\ ResultOf(res, HeardIn(r, k)', r, k)
  BY <1>0, <1>5, <1>8
<1> QED BY <1>0, <1>1, <1>9, <1>10, <1>11, ResultsFrame

LEMMA SignalKeepsResults ==
  ASSUME IInv, RInv, NEW r \in Ranks, Signal(r)
  PROVE  RInv'
<1> PICK k : k = Now(r)
  OBVIOUS
<1>0. /\ prog' = prog /\ prog \in Setups /\ stage[r] = "cleaned" /\ Fits(r)
      /\ seen[r] = {} /\ k = calls[r] + 1 /\ calls[r] \in Nat /\ calls' = calls /\ seen' = seen
      /\ stage' = [stage EXCEPT ![r] = "receive"] /\ stage \in [Ranks -> Stages]
      /\ calls \in [Ranks -> Nat]
      /\ result' = [result EXCEPT ![r][k] = Empty]
  BY DEF IInv, Types, StagesFit, Fits, Signal, Now
<1>1. k \in Calls
  BY <1>0 DEF Fits
<1>2. OnlyRank(r)
  BY <1>0 DEF OnlyRank
<1>3. ResultOf(Empty, {}, r, k) /\ DOMAIN Empty = {"rows", "range", "sums"}
  BY <1>0, EmptyResult
<1> PICK res : res = Empty
  OBVIOUS
<1>4. OnlyResult(r, k) /\ res = result'[r][k]
  <2>1. DOMAIN result = Ranks /\ \A s \in Ranks : DOMAIN result[s] = Calls
    BY DEF RInv, ResultsThere
  <2> QED BY <1>0, <1>1, <1>3, <2>1 DEF OnlyResult
<1>5. \A q \in Ranks : \A j \in Calls : ~(q = r /\ j = k) =>
           /\ Signalled(q, j)' => Signalled(q, j)
           /\ calls'[q] >= j => calls[q] >= j
           /\ HeardIn(q, j)' = HeardIn(q, j)
  BY <1>0, <1>1, <1>2, OtherCalls
<1>6. HeardIn(r, k)' = {} /\ ~(calls'[r] >= k)
  BY <1>0 DEF HeardIn
<1>7. ResultOf(res, HeardIn(r, k)', r, k)
  BY <1>3, <1>6
<1> QED BY <1>0, <1>1, <1>4, <1>5, <1>6, <1>7, ResultsFrame

LEMMA ReduceKeepsResults ==
  ASSUME IInv, PInv, RInv, NEW r \in Ranks, Reduce(r)
  PROVE  RInv'
<1> PICK k : k = Now(r)
  OBVIOUS
<1> PICK b : b = Buf(k)
  OBVIOUS
<1>0. /\ prog' = prog /\ prog \in Setups /\ stage[r] = "reduce" /\ Fits(r) /\ SeenBy(r) /\ mask[r] = {}
      /\ k = calls[r] + 1 /\ calls[r] \in Nat
      /\ calls' = [calls EXCEPT ![r] = @ + 1] /\ seen' = seen
      /\ stage' = [stage EXCEPT ![r] = "idle"] /\ stage \in [Ranks -> Stages]
      /\ calls \in [Ranks -> Nat]
      /\ result' = [result EXCEPT ![r][k].sums = [t \in DOMAIN Rows(k, r) |->
           [e \in {x \in Rows(k, r)[t] : RankOf(x) \notin mask[r]} |-> recv[r][b][CombineSlot(e, t)]]]]
  BY DEF IInv, Types, StagesFit, SeenLanded, Reduce, Now
<1>1. k \in Calls /\ NonClean(k)
  BY <1>0 DEF Fits
<1>2. OnlyRank(r)
  BY <1>0 DEF OnlyRank
<1>3. DOMAIN result = Ranks /\ \A s \in Ranks : DOMAIN result[s] = Calls
  BY DEF RInv, ResultsThere
<1> DEFINE sums == [t \in DOMAIN Rows(k, r) |->
                     [e \in {x \in Rows(k, r)[t] : RankOf(x) \notin mask[r]} |-> recv[r][b][CombineSlot(e, t)]]]
<1> PICK res : res = result'[r][k]
  OBVIOUS
<1>4. OnlyResult(r, k) /\ res.sums = sums
  <2>1. DOMAIN result[r][k] = {"rows", "range", "sums"}
    BY <1>1 DEF RInv, ResultsThere
  <2>2. result' = [result EXCEPT ![r][k].sums = sums]
    BY <1>0
  <2> HIDE DEF sums
  <2> QED BY <1>1, <1>3, <2>1, <2>2 DEF OnlyResult
<1>5. \A q \in Ranks : \A j \in Calls : ~(q = r /\ j = k) =>
           /\ Signalled(q, j)' => Signalled(q, j)
           /\ calls'[q] >= j => calls[q] >= j
           /\ HeardIn(q, j)' = HeardIn(q, j)
  BY <1>0, <1>1, <1>2, OtherCalls
<1>6. Kind(k) = "combine" => SumsOf(res, r, k)
  <2> SUFFICES ASSUME Kind(k) = "combine", NEW t \in DOMAIN Rows(k, r)
               PROVE  res.sums[t] = [e \in Rows(k, r)[t] |-> Item(k, r, t, e)]
    BY DEF SumsOf
  <2>1. Rows(k, r)[t] \in SUBSET Experts
    <3>1. PICK n \in 0 .. prog.max : /\ DOMAIN Rows(k, r) = 1 .. n
                                    /\ \A u \in 1 .. n : Rows(k, r)[u] \in SUBSET Experts
      BY <1>0, <1>1, CallData
    <3> QED BY <3>1
  <2>2. ASSUME NEW e \in Rows(k, r)[t]
        PROVE  recv[r][b][CombineSlot(e, t)] = Item(k, r, t, e)
    <3> DEFINE s == RankOf(e)
               le == LocalOf(e)
               x == <<CombineSlot(e, t), Item(k, r, t, e)>>
    <3>1. s \in Ranks /\ le \in LocalExperts /\ Expert(s, le) = e /\ e \in Experts
      BY <1>0, <2>1, ExpertNumbers
    <3>2. Landed(s, r, le, k)
      BY <1>0, <3>1 DEF SeenBy, LandedFor
    <3>3. calls[r] < k
      BY <1>0
    <3>4. Delivered(k, s, r, le)
      BY <1>1, <3>1, <3>2, <3>3, LandedDelivered
    <3>5. Holds(recv[r][b], CombineCargo(k, r, e))
      BY <3>1, <3>4 DEF Delivered, Cargoes
    <3>6. x \in CombineCargo(k, r, e)
      BY DEF CombineCargo, TokensFor
    <3>7. recv[r][b][x[1]] = x[2]
      BY <3>5, <3>6 DEF Holds
    <3> QED BY <3>7
  <2>3. {x \in Rows(k, r)[t] : RankOf(x) \notin mask[r]} = Rows(k, r)[t]
    BY <1>0
  <2>4. sums[t] = [e \in Rows(k, r)[t] |-> recv[r][b][CombineSlot(e, t)]]
    BY <2>3
  <2> HIDE DEF sums
  <2> QED BY <1>4, <2>2, <2>4
<1>7. Kind(k) = "dispatch" => ResultOf(res, HeardIn(r, k)', r, k)
  <2>1. Kind(k) # "dispatch"
    BY <1>0 DEF Reduce, Fits
  <2> QED BY <2>1
<1> QED BY <1>0, <1>1, <1>4, <1>5, <1>6, <1>7, ResultsFrame

-----------------------------------------------------------------------------
(* What the sending phases hand out. *)

LEMMA SlotNumbers ==
  ASSUME prog \in Setups
  PROVE  /\ prog.max \in Nat /\ NumSlots \in Nat /\ prog.max <= NumSlots
         /\ \A le \in LocalExperts : \A i \in 1 .. prog.ranks * prog.max :
              /\ SendRow(le, i) \in Slots
              /\ SendRow(le, i) \div (prog.ranks * prog.max) = le
              /\ (SendRow(le, i) % (prog.ranks * prog.max)) + 1 = i
         /\ \A n \in Slots : n \div (prog.ranks * prog.max) \in LocalExperts
<1> DEFINE R == prog.ranks
           L == prog.local
           m == prog.max
           W == R * m
<1>0. R \in Nat /\ R >= 2 /\ L \in Nat /\ L >= 1 /\ m \in Nat /\ m >= 1
  <2>1. {prog.local, prog.max} \subseteq Nat \ {0}
    BY SetupsAssumption
  <2> QED BY <2>1, Sizes
<1>1. NumSlots = R * L * m /\ LocalExperts = 0 .. L - 1 /\ Slots = 0 .. NumSlots - 1
  BY DEF NumSlots, LocalExperts, Slots
<1>2. W \in Nat /\ W >= m
  <2> HIDE DEF R, m
  <2>1. PICK z \in Nat : R = 1 + z
    <3>1. R - 1 \in Nat /\ R = 1 + (R - 1)
      BY <1>0
    <3> QED BY <3>1
  <2>2. R * m = m + z * m /\ z * m \in Nat
    BY <1>0, <2>1
  <2> QED BY <1>0, <2>2
<1>3. R * L * m = L * W
  <2> HIDE DEF R, m, L
  <2> QED BY <1>0
<1>4. ASSUME NEW le \in 0 .. L - 1, NEW i \in 1 .. W
      PROVE  /\ SendRow(le, i) \in 0 .. L * W - 1
             /\ SendRow(le, i) \div W = le /\ (SendRow(le, i) % W) + 1 = i
  <2> HIDE DEF W, L
  <2> DEFINE j == i - 1
             n == le * W + j
  <2>0. le * W \in Nat /\ le \in Nat /\ j \in 0 .. W - 1
    BY <1>0, <1>2
  <2>1. SendRow(le, i) = n
    <3>1. SendRow(le, i) = le * prog.ranks * prog.max + i - 1
      BY DEF SendRow
    <3>2. le * prog.ranks * prog.max = le * W
      <4>1. le * R * m = le * (R * m)
        <5> HIDE DEF R, m
        <5> QED BY <1>0, <2>0
      <4> QED BY <4>1 DEF W
    <3> QED BY <2>0, <3>1, <3>2
  <2>2. n \in 0 .. L * W - 1
    <3> HIDE DEF j
    <3> QED BY <1>0, <1>2, <2>0, DigitsBelow
  <2>3. n \div W = le /\ n % W = j
    <3>1. n \in Nat /\ W \in Nat /\ W > 0
      BY <1>2, <2>0
    <3> HIDE DEF n
    <3>2. n = W * (n \div W) + (n % W) /\ n % W \in 0 .. W - 1 /\ n \div W \in Nat
      BY <3>1
    <3> DEFINE a == n \div W
               c == n % W
    <3>3. a * W + c = le * W + j
      <4>1. W * a = a * W
        BY <3>1, <3>2
      <4> QED BY <3>2, <4>1 DEF n
    <3>4. a \in Nat /\ c \in 0 .. W - 1
      BY <3>2
    <3> HIDE DEF a, c, j
    <3>5. a = le /\ c = j
      BY <2>0, <3>1, <3>3, <3>4, Digits
    <3> QED BY <3>5 DEF a, c
  <2> QED BY <2>0, <2>1, <2>2, <2>3
<1>5. ASSUME NEW n \in 0 .. L * W - 1
      PROVE  n \div W \in 0 .. L - 1
  <2> HIDE DEF W, L
  <2>1. n \in Nat /\ W > 0 /\ n < L * W
    BY <1>0, <1>2
  <2>2. n = W * (n \div W) + (n % W) /\ n % W \in 0 .. W - 1 /\ n \div W \in Nat
    BY <1>2, <2>1
  <2> DEFINE a == n \div W
  <2>3. a < L
    <3>1. SUFFICES ASSUME a >= L
                   PROVE  FALSE
      BY <1>0, <2>2
    <3>2. PICK z \in Nat : a = L + z
      <4>1. a - L \in Nat /\ a = L + (a - L)
        BY <1>0, <2>2, <3>1
      <4> QED BY <4>1
    <3>3. W * a = L * W + z * W /\ z * W \in Nat /\ L * W \in Nat
      <4> HIDE DEF a
      <4> QED BY <1>0, <1>2, <3>2
    <3> QED BY <2>1, <2>2, <3>3
  <2> QED BY <1>0, <2>2, <2>3
<1>6. m <= L * W /\ L * W \in Nat
  <2> HIDE DEF W, L, m
  <2>1. PICK z \in Nat : L = 1 + z
    <3>1. L - 1 \in Nat /\ L = 1 + (L - 1)
      BY <1>0
    <3> QED BY <3>1
  <2>2. L * W = W + z * W /\ z * W \in Nat
    BY <1>2, <2>1
  <2> QED BY <1>0, <1>2, <2>2
<1>7. NumSlots = L * W
  BY <1>1, <1>3
<1> HIDE DEF L
<1> QED BY <1>0, <1>1, <1>4, <1>5, <1>6, <1>7 DEF W

LEMMA TokensSend ==
  ASSUME IInv, PInv, NEW r \in Ranks, SendTokens(r)
  PROVE  \E k, M, buffer : SendsCargo(r, k, M, buffer)
<1> DEFINE k == Now(r)
           b == Buf(k)
           tokens == [i \in DOMAIN send[r][b] |->
                        IF i + 1 \in DOMAIN Rows(k, r) THEN Item(k, r, i + 1, -1) ELSE send[r][b][i]]
<1>0. /\ prog \in Setups /\ stage[r] = "idle" /\ IsNext(r, "dispatch") /\ send \in Contents
      /\ prog' = prog /\ calls' = calls /\ stage' = [stage EXCEPT ![r] = "sent"]
      /\ send' = [send EXCEPT ![r][b] = tokens] /\ calls[r] \in Nat
  BY DEF IInv, Types, PInv, Filled, SendTokens
<1>2. PICK order \in SlotOrders(k, r) :
        /\ Issue(r, [p \in Ranks \X LocalExperts |->
             PutOf(b, LET o == order[Expert(p[1], p[2])]
                      IN  {<<o[i] - 1, DispatchSlot(p[2], r, i - 1)>> : i \in DOMAIN o})])
        /\ recv' = [recv EXCEPT ![r][b] = Moved(@, tokens, UNION {
             LET o == order[Expert(r, le)]
             IN  {<<o[i] - 1, DispatchSlot(le, r, i - 1)>> : i \in DOMAIN o} : le \in LocalExperts})]
  BY DEF SendTokens
<1> HIDE DEF k, b, tokens
<1>1. /\ k \in Calls /\ Kind(k) = "dispatch" /\ NonClean(k) /\ k \in Nat
      /\ r \in Nat /\ b \in Buffers
  <2>1. Calls = 1 .. Len(prog.calls) /\ Len(prog.calls) \in Nat /\ prog.ranks \in Nat
        /\ Ranks = 0 .. prog.ranks - 1
    BY <1>0, Sizes
  <2>2. k \in Calls /\ Kind(k) = "dispatch"
    BY <1>0, <2>1 DEF k, IsNext, Now
  <2> QED BY <2>1, <2>2, BuffersTurn DEF NonClean, b
<1> DEFINE Moves(d, le) == LET o == order[Expert(d, le)]
                           IN  {<<o[i] - 1, DispatchSlot(le, r, i - 1)>> : i \in DOMAIN o}
           M == [p \in Ranks \X LocalExperts |-> Moves(p[1], p[2])]
<1>3. \A d \in Ranks, le \in LocalExperts :
        M[<<d, le>>] = {<<order[Expert(d, le)][i] - 1, DispatchSlot(le, r, i - 1)>> :
                          i \in DOMAIN order[Expert(d, le)]}
  OBVIOUS
<1>4. Issue(r, Puts(b, M))
  <2>1. Puts(b, M) = [p \in Ranks \X LocalExperts |->
             PutOf(b, LET o == order[Expert(p[1], p[2])]
                      IN  {<<o[i] - 1, DispatchSlot(p[2], r, i - 1)>> : i \in DOMAIN o})]
    BY DEF Puts
  <2> QED BY <1>2, <2>1
<1>5. recv' = [recv EXCEPT ![r][b] = Moved(@, tokens, UNION {M[<<r, le>>] : le \in LocalExperts})]
  <2>1. recv' = [recv EXCEPT ![r][b] = Moved(@, tokens, UNION {Moves(r, le) : le \in LocalExperts})]
    BY <1>2
  <2> HIDE DEF Moves
  <2>2. \A le \in LocalExperts : M[<<r, le>>] = Moves(r, le)
    BY <1>0
  <2> HIDE DEF M
  <2>3. {M[<<r, le>>] : le \in LocalExperts} = {Moves(r, le) : le \in LocalExperts}
    BY <2>2
  <2> QED BY <2>1, <2>3
<1>6. \E n \in 0 .. prog.max : DOMAIN Rows(k, r) = 1 .. n
  BY <1>0, <1>1, CallData
<1> USE DEF tokens
<1>7. tokens \in [Slots -> ItemSet] /\ \A t \in DOMAIN Rows(k, r) : t - 1 \in Slots /\ tokens[t - 1] = Item(k, r, t, -1)
  <2>1. send[r][b] \in [Slots -> ItemSet]
    BY <1>0, <1>1 DEF Contents
  <2>2. \A i \in Slots : i \in Nat /\ Item(k, r, i + 1, -1) \in ItemSet
    BY <1>1 DEF Slots, Item, ItemSet
  <2>3. tokens \in [Slots -> ItemSet]
    BY <2>1, <2>2
  <2>4. prog.max \in Nat /\ NumSlots \in Nat /\ prog.max <= NumSlots
    BY <1>0, SlotNumbers
  <2>5. ASSUME NEW t \in DOMAIN Rows(k, r)
        PROVE  t - 1 \in Slots /\ tokens[t - 1] = Item(k, r, t, -1)
    <3>1. t \in Nat /\ t >= 1 /\ t <= prog.max
      BY <1>6, <2>4
    <3>2. t - 1 \in Slots /\ t - 1 + 1 = t
      BY <2>4, <3>1 DEF Slots
    <3> QED BY <2>1, <2>5, <3>2
  <2> QED BY <2>3, <2>5
<1> HIDE DEF M, tokens, Moves
<1>8. ASSUME NEW d \in Ranks, NEW le \in LocalExperts
      PROVE  \E c \in Cargoes(k, r, d, le) : Carries(tokens, M[<<d, le>>], c)
  <2> DEFINE e == Expert(d, le)
             o == order[e]
             T == TokensFor(k, r, e)
             c == DispatchCargo(k, r, le, o)
  <2>1. e \in Experts
    BY <1>0, ExpertNumbers
  <2>2. o \in SetToSeqs(T)
    BY <1>2, <2>1 DEF SlotOrders
  <2>3. \A i \in DOMAIN o : o[i] \in DOMAIN Rows(k, r)
    <3>1. IsFiniteSet(T)
      BY <1>0, <1>1, TokensAre
    <3>2. \A i \in DOMAIN o : o[i] \in T
      BY <2>2, <3>1, OrdersAre
    <3> QED BY <3>2 DEF TokensFor
  <2>4. c \in Cargoes(k, r, d, le)
    BY <1>1, <2>2 DEF Cargoes
  <2>5. M[<<d, le>>] = {<<o[i] - 1, DispatchSlot(le, r, i - 1)>> : i \in DOMAIN o}
    BY <1>3
  <2>6. c = {<<DispatchSlot(le, r, i - 1), Item(k, r, o[i], -1)>> : i \in DOMAIN o}
    BY DEF DispatchCargo
  <2> HIDE DEF o, c
  <2>7. Carries(tokens, M[<<d, le>>], c)
    <3>1. ASSUME NEW p \in M[<<d, le>>]
          PROVE  p = <<p[1], p[2]>> /\ p[1] \in Slots /\ <<p[2], tokens[p[1]]>> \in c
      <4>1. PICK i \in DOMAIN o : p = <<o[i] - 1, DispatchSlot(le, r, i - 1)>>
        BY <2>5
      <4>2. p[1] = o[i] - 1 /\ p[2] = DispatchSlot(le, r, i - 1)
        BY <4>1
      <4>3. o[i] - 1 \in Slots /\ tokens[o[i] - 1] = Item(k, r, o[i], -1)
        BY <1>7, <2>3
      <4> QED BY <2>6, <4>1, <4>2, <4>3
    <3>2. ASSUME NEW x \in c
          PROVE  \E p \in M[<<d, le>>] : p[2] = x[1]
      <4>1. PICK i \in DOMAIN o : x = <<DispatchSlot(le, r, i - 1), Item(k, r, o[i], -1)>>
        BY <2>6
      <4> QED
        <5>1. <<o[i] - 1, DispatchSlot(le, r, i - 1)>> \in M[<<d, le>>]
          BY <2>5
        <5> QED BY <4>1, <5>1
    <3> QED BY <3>1, <3>2 DEF Carries
  <2> QED BY <2>4, <2>7
<1>9. SendsCargo(r, k, M, tokens)
  BY <1>0, <1>1, <1>4, <1>5, <1>7, <1>8 DEF SendsCargo, k, b
<1> QED BY <1>9

LEMMA BackSends ==
  ASSUME IInv, PInv, RInv, NEW r \in Ranks, SendBack(r)
  PROVE  \E k, M, buffer : SendsCargo(r, k, M, buffer)
<1> DEFINE k == Now(r)
           b == Buf(k)
           handle == result[r][Source(k)]
           W == prog.ranks * prog.max
           From(le, d) == (handle.range[le][d].begin + 1) ..
                          (handle.range[le][d].begin + handle.range[le][d].num)
           Row(le, i) == LET it == handle.rows[le][i] IN Item(k, it.src, it.tok, Expert(r, le))
           Moves(d, le) == {<<SendRow(le, i), CombineSlot(Expert(r, le), handle.rows[le][i].tok)>> :
                              i \in From(le, d)}
           rows == [n \in DOMAIN send[r][b] |->
                      LET le == n \div W
                          i == (n % W) + 1
                      IN  IF i \in DOMAIN handle.rows[le] THEN Row(le, i) ELSE send[r][b][n]]
<1>00. /\ send' = [send EXCEPT ![r][b] = rows]
       /\ Issue(r, [p \in Ranks \X LocalExperts |-> PutOf(b, Moves(p[1], p[2]))])
       /\ recv' = [recv EXCEPT ![r][b] = Moved(@, rows, UNION {Moves(r, le) : le \in LocalExperts})]
  BY DEF SendBack
<1> HIDE DEF rows, Moves, W, handle, From, Row, b, k
<1>0. /\ prog \in Setups /\ stage[r] = "idle" /\ IsNext(r, "combine") /\ send \in Contents
      /\ prog' = prog /\ calls' = calls /\ stage' = [stage EXCEPT ![r] = "sent"]
      /\ calls[r] \in Nat
  BY DEF IInv, Types, PInv, Filled, SendBack
<1>1. /\ k \in Calls /\ Kind(k) = "combine" /\ NonClean(k) /\ k \in Nat
      /\ r \in Nat /\ b \in Buffers /\ k = calls[r] + 1
      /\ \A le \in LocalExperts : le \in Nat
  <2>1. Calls = 1 .. Len(prog.calls) /\ Len(prog.calls) \in Nat /\ prog.ranks \in Nat
        /\ Ranks = 0 .. prog.ranks - 1 /\ prog.local \in Nat /\ LocalExperts = 0 .. prog.local - 1
    BY <1>0, Sizes
  <2>2. k \in Calls /\ Kind(k) = "combine" /\ k = calls[r] + 1
    BY <1>0, <2>1 DEF IsNext, Now, k
  <2>3. b \in Buffers
    BY <1>0, <2>2, BuffersTurn DEF b
  <2>4. NonClean(k) /\ k \in Nat /\ r \in Nat
    BY <1>0, <2>1, <2>2 DEF NonClean
  <2> QED BY <2>1, <2>2, <2>3, <2>4
<1> PICK h : h = Source(k)
  OBVIOUS
<1>2. /\ h \in Calls /\ Kind(h) = "dispatch" /\ NonClean(h) /\ Source(h) = h /\ h < k
      /\ calls[r] >= h
  <2>1. h \in Calls /\ Kind(h) = "dispatch" /\ Source(h) = h /\ h < k
    BY <1>0, <1>1, CallData
  <2>2. h \in Nat
    <3>1. Calls = 1 .. Len(prog.calls) /\ Len(prog.calls) \in Nat
      BY <1>0, Sizes
    <3> QED BY <2>1, <3>1
  <2>3. calls[r] >= h
    <3> PICK n : n = calls[r]
      OBVIOUS
    <3>1. k = n + 1 /\ n \in Nat /\ h < k
      BY <1>0, <1>1, <2>1
    <3>2. n >= h
      BY <2>2, <3>1
    <3> QED BY <3>2
  <2> QED BY <2>1, <2>3 DEF NonClean
<1>3. ResultOf(handle, Experts, r, h)
  <2>1. Signalled(r, h) /\ HeardIn(r, h) = Experts
    BY <1>2 DEF Signalled, HeardIn
  <2> QED BY <1>2, <2>1 DEF RInv, ResultsKnown, handle
<1>4. ASSUME NEW d \in Ranks, NEW e
      PROVE  TokensFor(h, d, e) = TokensFor(k, d, e)
  BY <1>2 DEF TokensFor, Rows
<1>5. ASSUME NEW le \in LocalExperts
      PROVE  /\ HeardBy(Experts, le) = Ranks
             /\ handle.rows[le] \in Seq(ItemSet) /\ Len(handle.rows[le]) <= W
             /\ Expert(r, le) \in Experts
             /\ \A d \in Ranks : PartOf(handle.rows[le], handle.range[le][d].begin, handle.range[le][d].num,
                                        h, d, Expert(r, le))
  <2>1. HeardBy(Experts, le) = Ranks /\ Expert(r, le) \in Experts
    BY <1>0, ExpertNumbers DEF HeardBy
  <2>2. ExpertRows(handle.rows[le], handle.range[le], Ranks, h, Expert(r, le))
    BY <1>3, <2>1 DEF ResultOf
  <2>3. Cardinality(Ranks) = prog.ranks
    <3> DEFINE m == prog.ranks - 1
    <3>1. prog.ranks \in Nat /\ prog.ranks >= 2 /\ m \in Int /\ 0 \in Int /\ ~(0 > m) /\ Ranks = 0 .. m
      BY <1>0, Sizes
    <3> HIDE DEF m
    <3>2. Cardinality(0 .. m) = m - 0 + 1
      BY <3>1, FS_Interval
    <3> QED BY <3>1, <3>2 DEF m
  <2>4. handle.rows[le] \in Seq(ItemSet) /\ Len(handle.rows[le]) <= W
    BY <2>2, <2>3 DEF ExpertRows, RowsOf, W
  <2>5. \A d \in Ranks : PartOf(handle.rows[le], handle.range[le][d].begin, handle.range[le][d].num,
                               h, d, Expert(r, le))
    BY <2>2 DEF ExpertRows
  <2> QED BY <2>1, <2>4, <2>5
<1>6. /\ prog.max \in Nat /\ NumSlots \in Nat
      /\ \A le \in LocalExperts : \A i \in 1 .. W :
              SendRow(le, i) \in Slots /\ SendRow(le, i) \div W = le /\ (SendRow(le, i) % W) + 1 = i
      /\ \A n \in Slots : n \div W \in LocalExperts
  BY <1>0, SlotNumbers DEF W
<1>7. rows \in [Slots -> ItemSet]
  <2> USE DEF rows, Row
  <2>1. send[r][b] \in [Slots -> ItemSet]
    BY <1>0, <1>1 DEF Contents
  <2>2. ASSUME NEW le \in LocalExperts, NEW i \in DOMAIN handle.rows[le]
        PROVE  Row(le, i) \in ItemSet
    <3>1. handle.rows[le][i] \in ItemSet
      <4> PICK q : q = handle.rows[le]
        OBVIOUS
      <4>1. q \in Seq(ItemSet) /\ i \in DOMAIN q
        BY <1>5, <2>2
      <4>2. q[i] \in ItemSet
        BY <4>1
      <4> QED BY <4>2
    <3>2. Expert(r, le) \in Nat
      <4>1. prog.local \in Nat
        BY <1>0, Sizes
      <4> QED BY <1>1, <4>1 DEF Expert
    <3> QED BY <1>1, <3>1, <3>2 DEF Item, ItemSet
  <2> HIDE DEF Row
  <2>3. ASSUME NEW n \in Slots
        PROVE  (IF (n % W) + 1 \in DOMAIN handle.rows[n \div W] THEN Row(n \div W, (n % W) + 1)
                ELSE send[r][b][n]) \in ItemSet
    BY <1>6, <2>1, <2>2
  <2> QED BY <2>1, <2>3
<1>8. ASSUME NEW le \in LocalExperts, NEW i \in DOMAIN handle.rows[le]
      PROVE  SendRow(le, i) \in Slots /\ rows[SendRow(le, i)] = Row(le, i)
  <2>1. i \in 1 .. W
    <3> PICK q : q = handle.rows[le]
      OBVIOUS
    <3>1. q \in Seq(ItemSet) /\ Len(q) <= W /\ i \in DOMAIN q
      BY <1>5, <1>8
    <3>2. prog.ranks \in Nat /\ W \in Nat
      BY <1>0, <1>6, Sizes DEF W
    <3> QED BY <3>1, <3>2
  <2> PICK n : n = SendRow(le, i)
    OBVIOUS
  <2>2. n \in Slots /\ n \div W = le /\ (n % W) + 1 = i
    BY <1>6, <2>1
  <2>3. send[r][b] \in [Slots -> ItemSet]
    BY <1>0, <1>1 DEF Contents
  <2> HIDE DEF Row
  <2>4. rows[n] = Row(le, i)
    BY <1>8, <2>2, <2>3 DEF rows
  <2> QED BY <2>2, <2>4
<1> DEFINE M == [p \in Ranks \X LocalExperts |-> Moves(p[1], p[2])]
<1>9. \A d \in Ranks, le \in LocalExperts : M[<<d, le>>] = Moves(d, le)
  OBVIOUS
<1>10. Issue(r, Puts(b, M))
  <2>1. Puts(b, M) = [p \in Ranks \X LocalExperts |-> PutOf(b, Moves(p[1], p[2]))]
    BY DEF Puts
  <2> QED BY <1>0, <1>00, <2>1
<1>11. recv' = [recv EXCEPT ![r][b] = Moved(@, rows, UNION {M[<<r, le>>] : le \in LocalExperts})]
  <2>1. {M[<<r, le>>] : le \in LocalExperts} = {Moves(r, le) : le \in LocalExperts}
    BY <1>9
  <2> HIDE DEF M
  <2> QED BY <1>0, <1>00, <2>1
<1> HIDE DEF M
<1>12. ASSUME NEW d \in Ranks, NEW le \in LocalExperts
       PROVE  \E c \in Cargoes(k, r, d, le) : Carries(rows, M[<<d, le>>], c)
  <2> PICK e : e = Expert(r, le)
    OBVIOUS
  <2> PICK c : c = CombineCargo(k, d, e)
    OBVIOUS
  <2> PICK beg : beg = handle.range[le][d].begin
    OBVIOUS
  <2> PICK num : num = handle.range[le][d].num
    OBVIOUS
  <2> PICK q : q = handle.rows[le]
    OBVIOUS
  <2>1. PartOf(q, beg, num, h, d, e) /\ q \in Seq(ItemSet)
    BY <1>5
  <2>2. PICK o \in SetToSeqs(TokensFor(k, d, e)) : \A i \in 1 .. num : q[beg + i] = Item(h, d, o[i], -1)
    BY <1>4, <2>1 DEF PartOf
  <2>3. beg \in Nat /\ num = Cardinality(TokensFor(k, d, e)) /\ beg + num <= Len(q)
    BY <1>4, <2>1 DEF PartOf
  <2>4. num \in Nat /\ IsFiniteSet(TokensFor(k, d, e))
    BY <1>0, <1>1, <2>3, TokensAre
  <2>5. /\ DOMAIN o = 1 .. num /\ \A i \in DOMAIN o : o[i] \in TokensFor(k, d, e)
        /\ \A t \in TokensFor(k, d, e) : \E i \in DOMAIN o : o[i] = t
    BY <2>3, <2>4, OrdersAre
  <2>6. M[<<d, le>>] = {<<SendRow(le, j), CombineSlot(e, q[j].tok)>> : j \in beg + 1 .. beg + num}
    BY <1>9 DEF Moves, From
  <2>7. c \in Cargoes(k, r, d, le)
    BY <1>1 DEF Cargoes
  <2>8. ASSUME NEW i \in 1 .. num
        PROVE  /\ SendRow(le, beg + i) \in Slots /\ beg + i \in beg + 1 .. beg + num
               /\ rows[SendRow(le, beg + i)] = Item(k, d, o[i], e)
               /\ q[beg + i].tok = o[i]
    <3>1. beg + i \in DOMAIN q /\ beg + i \in beg + 1 .. beg + num
      BY <2>1, <2>3, <2>4
    <3>2. q[beg + i] = Item(h, d, o[i], -1)
      BY <2>2
    <3>3. q[beg + i].src = d /\ q[beg + i].tok = o[i]
      BY <3>2 DEF Item
    <3>4. rows[SendRow(le, beg + i)] = Row(le, beg + i) /\ SendRow(le, beg + i) \in Slots
      BY <1>8, <3>1
    <3> QED BY <3>1, <3>3, <3>4 DEF Row
  <2>9. Carries(rows, M[<<d, le>>], c)
    <3>1. ASSUME NEW p \in M[<<d, le>>]
          PROVE  p = <<p[1], p[2]>> /\ p[1] \in Slots /\ <<p[2], rows[p[1]]>> \in c
      <4>1. PICK j \in beg + 1 .. beg + num : p = <<SendRow(le, j), CombineSlot(e, q[j].tok)>>
        BY <2>6
      <4>2. j - beg \in 1 .. num /\ beg + (j - beg) = j
        <5>1. beg \in Nat /\ num \in Nat /\ j \in beg + 1 .. beg + num
          BY <2>3, <2>4
        <5> QED BY <5>1
      <4> PICK i : i = j - beg
        OBVIOUS
      <4>3. p[1] \in Slots /\ rows[p[1]] = Item(k, d, o[i], e) /\ p[2] = CombineSlot(e, o[i])
        BY <2>8, <4>1, <4>2
      <4>4. o[i] \in TokensFor(k, d, e)
        BY <2>5, <4>2
      <4> QED BY <4>1, <4>3, <4>4 DEF CombineCargo
    <3>2. ASSUME NEW x \in c
          PROVE  \E p \in M[<<d, le>>] : p[2] = x[1]
      <4>1. PICK t \in TokensFor(k, d, e) : x = <<CombineSlot(e, t), Item(k, d, t, e)>>
        BY DEF CombineCargo
      <4>2. PICK i \in 1 .. num : o[i] = t
        BY <2>5
      <4>3. <<SendRow(le, beg + i), CombineSlot(e, q[beg + i].tok)>> \in M[<<d, le>>]
        BY <2>6, <2>8
      <4> QED BY <2>8, <4>1, <4>2, <4>3
    <3> QED BY <3>1, <3>2 DEF Carries
  <2> QED BY <2>7, <2>9
<1>13. SendsCargo(r, k, M, rows)
  BY <1>0, <1>00, <1>1, <1>7, <1>10, <1>11, <1>12 DEF SendsCargo, k, b
<1> QED BY <1>13

-----------------------------------------------------------------------------
(* Every step. *)

\* Steps of rank r that hand out nothing and leave nothing behind: of a cleaning call, or between
\* the phases of another.
PassesBy(r) ==
  /\ OnlyRank(r) /\ Onwards(r)
  /\ wire' = wire /\ recv' = recv /\ send' = send /\ result' = result
  /\ \/ ~NonClean(Now(r)) /\ (calls'[r] = calls[r] \/ (calls'[r] = calls[r] + 1 /\ stage'[r] = "idle"))
     \/ calls'[r] = calls[r] /\ stage[r] = "sent" /\ stage'[r] = "cleaned"
     \/ calls'[r] = calls[r] /\ stage[r] = "receive" /\ stage'[r] = "reduce" /\ Kind(Now(r)) = "combine"

LEMMA PassingKeeps ==
  ASSUME IInv, PInv, RInv, NEW r \in Ranks, PassesBy(r)
  PROVE  PInv' /\ RInv'
<1>0. /\ prog \in Setups /\ calls \in [Ranks -> Nat] /\ prog' = prog /\ Experts' = Experts
      /\ Calls = 1 .. Len(prog.calls) /\ Len(prog.calls) \in Nat
      /\ \A k \in Calls : k \in Nat /\ k >= 1
  BY Sizes, SetupStays DEF IInv, Types, PassesBy, OnlyRank
<1> PICK n \in Nat : n = calls[r]
  BY <1>0
<1>1. ASSUME NEW k \in Calls, NonClean(k)
      PROVE  /\ Issued(r, k)' <=> Issued(r, k)
             /\ Signalled(r, k)' => Signalled(r, k)
             /\ calls'[r] >= k => calls[r] >= k
             /\ Kind(k) = "dispatch" => HeardIn(r, k)' = HeardIn(r, k)
  <2>1. CASE /\ ~NonClean(Now(r))
             /\ calls'[r] = calls[r] \/ (calls'[r] = calls[r] + 1 /\ stage'[r] = "idle")
    <3>1. k # n + 1
      BY <1>1, <2>1 DEF Now
    <3>2. k \in Nat /\ (n = k - 1 <=> FALSE) /\ (n + 1 >= k <=> n >= k)
      BY <1>0, <3>1
    <3>3. calls'[r] = n \/ (calls'[r] = n + 1 /\ stage'[r] = "idle")
      BY <2>1
    <3> QED BY <1>0, <3>2, <3>3 DEF Issued, Signalled, HeardIn
  <2>2. CASE calls'[r] = calls[r] /\ stage[r] = "sent" /\ stage'[r] = "cleaned"
    BY <1>0, <2>2 DEF Issued, Signalled, HeardIn
  <2>3. CASE calls'[r] = calls[r] /\ stage[r] = "receive" /\ stage'[r] = "reduce" /\ Kind(Now(r)) = "combine"
    <3>1. Kind(k) = "dispatch" => n # k - 1
      BY <1>0, <2>3 DEF Now
    <3> QED BY <1>0, <2>3, <3>1 DEF Issued, Signalled, HeardIn
  <2> QED BY <2>1, <2>2, <2>3 DEF PassesBy
<1>2. DataQuiet(r)
  BY <1>1 DEF DataQuiet, PassesBy
<1>3. ~(calls'[r] # calls[r] /\ NonClean(Now(r)))
  BY DEF PassesBy
<1>4. PInv'
  BY <1>2, <1>3, QuietKeepsPuts DEF PassesBy
<1>5. ResultsQuiet
  <2>1. ASSUME NEW s \in Ranks \ {r}, NEW k \in Calls
        PROVE  /\ Signalled(s, k)' => Signalled(s, k)
               /\ calls'[s] >= k => calls[s] >= k
               /\ HeardIn(s, k)' = HeardIn(s, k)
    BY <1>0 DEF PassesBy, OnlyRank, Signalled, HeardIn
  <2> QED BY <1>0, <1>1, <2>1 DEF ResultsQuiet, PassesBy
<1> QED BY <1>4, <1>5, QuietKeepsResults

\* Steps that receive: the call ends when all signals have landed.
LEMMA ReceivingKeepsPuts ==
  ASSUME IInv, PInv, NEW r \in Ranks, OnlyRank(r),
         wire' = wire, recv' = recv, send' = send, stage[r] \in {"receive", "reduce"},
         \/ calls'[r] = calls[r] /\ stage'[r] = "receive"
         \/ calls'[r] = calls[r] + 1 /\ stage'[r] = "idle" /\ AllLanded(r)
  PROVE  PInv'
<1>0. /\ prog \in Setups /\ calls \in [Ranks -> Nat]
      /\ Calls = 1 .. Len(prog.calls) /\ Len(prog.calls) \in Nat
      /\ \A k \in Calls : k \in Nat /\ k >= 1
  BY Sizes DEF IInv, Types
<1> PICK n \in Nat : n = calls[r]
  BY <1>0
<1>1. ASSUME NEW k \in Calls
      PROVE  (Issued(r, k)' <=> Issued(r, k)) /\ (Signalled(r, k)' => Signalled(r, k))
  <2>1. CASE calls'[r] = calls[r] /\ stage'[r] = "receive"
    BY <1>0, <2>1 DEF Issued, Signalled
  <2>2. CASE calls'[r] = calls[r] + 1 /\ stage'[r] = "idle"
    <3>1. k \in Nat /\ (n + 1 >= k <=> n >= k \/ n = k - 1)
      BY <1>0
    <3>2. calls'[r] = n + 1
      BY <2>2
    <3> QED BY <2>2, <3>1, <3>2 DEF Issued, Signalled
  <2> QED BY <2>1, <2>2
<1>2. DataQuiet(r)
  BY <1>1 DEF DataQuiet
<1>3. Onwards(r)
  BY DEF Onwards
<1> QED BY <1>2, <1>3, QuietKeepsPuts

LEMMA ReceiveKeepsPuts ==
  ASSUME IInv, PInv, NEW r \in Ranks, NEW e \in Experts, Receive(r, e)
  PROVE  PInv'
<1> DEFINE k == Now(r)
           s == RankOf(e)
           le == LocalOf(e)
           es == seen[r] \cup {e}
<1>0. /\ Types /\ Fits(r) /\ SeenBy(r) /\ stage[r] = "receive" /\ Kind(k) = "dispatch"
      /\ alive = Ranks /\ mask[r] = {} /\ prog \in Setups
      /\ calls \in [Ranks -> Nat] /\ stage \in [Ranks -> Stages]
      /\ seen \in [Ranks -> SUBSET (Experts \cup Ranks)]
      /\ prog' = prog /\ wire' = wire /\ recv' = recv /\ send' = send
  BY DEF IInv, Types, StagesFit, SeenLanded, Receive
<1>1. s \in Ranks /\ le \in LocalExperts /\ Expert(s, le) = e
  BY <1>0, ExpertNumbers
<1>2. Landed(s, r, le, k)
  <2>1. SignalWord(k, s, le) = CountWord(le, s)
    BY <1>0 DEF SignalWord
  <2>2. HasSignal(r, Buf(k), CountWord(le, s))
    BY <1>0, <1>1 DEF Receive, Waited
  <2> QED BY <1>0, <1>1, <2>1, <2>2, KnownSignal
<1>3. es \subseteq Experts /\ LandedFor(r, es)
  <2>1. seen[r] \subseteq Experts /\ LandedFor(r, seen[r])
    BY <1>0 DEF Fits, SeenBy
  <2> QED BY <1>2, <2>1 DEF LandedFor
<1>4. es = Experts => AllLanded(r)
  <2> SUFFICES ASSUME es = Experts, NEW a \in Ranks, NEW l \in LocalExperts
               PROVE  Landed(a, r, l, k)
    BY DEF AllLanded
  <2>1. Expert(a, l) \in Experts /\ RankOf(Expert(a, l)) = a /\ LocalOf(Expert(a, l)) = l
    BY <1>0, ExpertNumbers
  <2>2. Landed(RankOf(Expert(a, l)), r, LocalOf(Expert(a, l)), k)
    BY <1>3, <2>1 DEF LandedFor
  <2> QED BY <2>1, <2>2
<1>5. /\ OnlyRank(r)
      /\ IF es = Experts THEN calls'[r] = calls[r] + 1 /\ stage'[r] = "idle"
         ELSE calls'[r] = calls[r] /\ stage'[r] = "receive"
  <2>1. CASE es = Experts
    BY <1>0, <2>1 DEF Receive, OnlyRank
  <2>2. CASE es # Experts
    BY <1>0, <2>2 DEF Receive, OnlyRank
  <2> QED BY <2>1, <2>2
<1> HIDE DEF es
<1>6. CASE es = Experts
  BY <1>0, <1>4, <1>5, <1>6, ReceivingKeepsPuts
<1>7. CASE es # Experts
  BY <1>0, <1>5, <1>7, ReceivingKeepsPuts
<1> QED BY <1>6, <1>7

LEMMA ReduceKeepsPuts ==
  ASSUME IInv, PInv, NEW r \in Ranks, Reduce(r)
  PROVE  PInv'
<1>0. /\ SeenBy(r) /\ stage[r] = "reduce" /\ prog \in Setups
      /\ calls \in [Ranks -> Nat] /\ stage \in [Ranks -> Stages]
      /\ prog' = prog /\ wire' = wire /\ recv' = recv /\ send' = send
      /\ calls' = [calls EXCEPT ![r] = @ + 1] /\ stage' = [stage EXCEPT ![r] = "idle"] /\ seen' = seen
  BY DEF IInv, Types, SeenLanded, Reduce
<1>1. AllLanded(r)
  <2> SUFFICES ASSUME NEW a \in Ranks, NEW l \in LocalExperts
               PROVE  Landed(a, r, l, Now(r))
    BY DEF AllLanded
  <2>1. Expert(a, l) \in Experts /\ RankOf(Expert(a, l)) = a /\ LocalOf(Expert(a, l)) = l
    BY <1>0, ExpertNumbers
  <2>2. Landed(RankOf(Expert(a, l)), r, LocalOf(Expert(a, l)), Now(r))
    BY <1>0, <2>1 DEF SeenBy, LandedFor
  <2> QED BY <2>1, <2>2
<1>2. OnlyRank(r) /\ calls'[r] = calls[r] + 1 /\ stage'[r] = "idle"
  BY <1>0 DEF OnlyRank
<1> QED BY <1>0, <1>1, <1>2, ReceivingKeepsPuts

\* Steps that only hand out, deliver or move on the network.
LEMMA SendsKeepResults ==
  ASSUME IInv, RInv, NEW r \in Ranks, SendStep(r)
  PROVE  RInv'
<1>0. /\ prog \in Setups /\ calls' = calls /\ seen' = seen /\ stage \in [Ranks -> Stages]
      /\ stage[r] = "idle" /\ stage' = [stage EXCEPT ![r] = "sent"] /\ prog' = prog /\ result' = result
      /\ Experts' = Experts
  BY SetupStays DEF IInv, Types, SendStep
<1>1. \A s \in Ranks : \A k \in Calls :
        /\ Signalled(s, k)' => Signalled(s, k)
        /\ HeardIn(s, k)' = HeardIn(s, k)
  BY <1>0 DEF Signalled, HeardIn
<1>2. ResultsQuiet
  BY <1>0, <1>1 DEF ResultsQuiet
<1> QED BY <1>2, QuietKeepsResults

LEMMA LandKeepsResults ==
  ASSUME IInv, RInv, NEW s, NEW d, NEW le, Land(s, d, le)
  PROVE  RInv'
<1>0. /\ prog' = prog /\ calls' = calls /\ seen' = seen /\ stage' = stage /\ result' = result
      /\ Experts' = Experts
  BY SetupStays DEF Land, callVars
<1>1. ResultsQuiet
  BY <1>0 DEF ResultsQuiet, Signalled, HeardIn
<1> QED BY <1>1, QuietKeepsResults

LEMMA DataStep ==
  ASSUME NoFailures, IInv, PInv, RInv, [Next]_vars
  PROVE  PInv' /\ RInv'
<1>0. /\ prog \in Setups /\ calls \in [Ranks -> Nat] /\ stage \in [Ranks -> Stages] /\ 0 \in Ranks
      /\ alive = Ranks
  <2>1. prog \in Setups /\ calls \in [Ranks -> Nat] /\ stage \in [Ranks -> Stages] /\ alive = Ranks
    BY DEF IInv, Types
  <2>2. 0 \in Ranks
    BY <2>1, Sizes
  <2> QED BY <2>1, <2>2
<1>1. ASSUME NEW r \in Ranks, Step(r)
      PROVE  PInv' /\ RInv'
  <2>0. Fits(r)
    BY DEF IInv, StagesFit
  <2>1. CASE SendTokens(r) \/ SendBack(r)
    <3>1. \E k, M, buffer : SendsCargo(r, k, M, buffer)
      BY <2>1, TokensSend, BackSends
    <3>2. PInv'
      BY <3>1, SendsKeepPuts
    <3>3. RInv'
      BY <2>1, SendingStep, SendsKeepResults
    <3> QED BY <3>2, <3>3
  <2>2. CASE CleanNext(r)
    <3>1. PassesBy(r)
      BY <1>0, <2>2 DEF CleanNext, PassesBy, OnlyRank, Onwards
    <3> QED BY <3>1, PassingKeeps
  <2>3. CASE Signal(r)
    BY <2>3, SignalKeepsPuts, SignalKeepsResults
  <2>4. CASE ReceiveFlags(r)
    <3>1. PassesBy(r)
      BY <1>0, <2>4 DEF ReceiveFlags, PassesBy, OnlyRank, Onwards
    <3> QED BY <3>1, PassingKeeps
  <2>5. CASE \E e \in Experts : Receive(r, e)
    BY <2>5, ReceiveKeepsPuts, ReceiveKeepsResults
  <2>6. CASE Reduce(r)
    BY <2>6, ReduceKeepsPuts, ReduceKeepsResults
  <2>7. CASE StartClean(r)
    <3>1. ~NonClean(Now(r))
      BY <2>7 DEF StartClean, IsNext, NonClean
    <3>2. stage[r] = "idle" /\ stage' = [stage EXCEPT ![r] = "open"]
      BY <2>7 DEF StartClean, Arrive
    <3>3. PassesBy(r)
      BY <1>0, <2>7, <3>1, <3>2 DEF StartClean, PassesBy, OnlyRank, Onwards
    <3> QED BY <3>3, PassingKeeps
  <2>8. CASE ZeroBoth(r)
    <3>1. stage[r] = "zero" /\ stage' = [stage EXCEPT ![r] = "close"]
      BY <2>8 DEF ZeroBoth, Arrive
    <3>2. ~NonClean(Now(r))
      BY <2>0, <3>1 DEF Fits
    <3>3. PassesBy(r)
      BY <1>0, <2>8, <3>1, <3>2 DEF ZeroBoth, PassesBy, OnlyRank, Onwards
    <3> QED BY <3>3, PassingKeeps
  <2>9. CASE \E q \in Ranks : Meet(r, q)
    <3>1. PICK q \in Ranks : Meet(r, q)
      BY <2>9
    <3>2. stage[r] \in {"open", "close"} /\ ~NonClean(Now(r))
      BY <2>0, <3>1 DEF Meet, Fits
    <3> DEFINE last == seen[r] \cup {q} = Ranks \ {r}
    <3>3. /\ OnlyRank(r) /\ wire' = wire /\ recv' = recv /\ send' = send /\ result' = result
      <4>1. CASE last
        BY <1>0, <3>1, <4>1 DEF Meet, OnlyRank
      <4>2. CASE ~last
        BY <1>0, <3>1, <4>2 DEF Meet, OnlyRank
      <4> QED BY <4>1, <4>2
    <3>4. CASE last /\ stage[r] = "close"
      <4>1. calls'[r] = calls[r] + 1 /\ stage'[r] = "idle"
        BY <1>0, <3>1, <3>4 DEF Meet
      <4>2. PassesBy(r)
        BY <3>2, <3>3, <4>1 DEF PassesBy, Onwards
      <4> QED BY <4>2, PassingKeeps
    <3>5. CASE ~(last /\ stage[r] = "close")
      <4>1. calls' = calls
        BY <3>1, <3>5 DEF Meet
      <4>2. stage[r] = "close" => stage' = stage
        BY <3>1, <3>5 DEF Meet
      <4>3. PassesBy(r)
        BY <3>2, <3>3, <4>1, <4>2 DEF PassesBy, Onwards
      <4> QED BY <4>3, PassingKeeps
    <3> QED BY <3>4, <3>5
  <2> QED BY <1>1, <2>1, <2>2, <2>3, <2>4, <2>5, <2>6, <2>7, <2>8, <2>9 DEF Step
<1>2. ASSUME NEW q \in DOMAIN wire, Land(q[1], q[2], q[3])
      PROVE  PInv' /\ RInv'
  <2>1. q[1] \in Ranks /\ q[2] \in Ranks /\ q[3] \in LocalExperts
    BY DEF IInv, Types
  <2> QED BY <1>2, <2>1, LandKeepsPuts, LandKeepsResults
<1>3. ASSUME NEW r \in Ranks, Fail(r)
      PROVE  FALSE
  BY <1>3 DEF Fail, NoFailures, IInv, Types
<1>4. CASE UNCHANGED vars
  <2>0. /\ prog' = prog /\ calls' = calls /\ stage' = stage /\ seen' = seen
        /\ wire' = wire /\ recv' = recv /\ send' = send /\ result' = result
    BY <1>4 DEF vars
  <2>1. PICK r \in Ranks : r = 0
    BY <1>0
  <2>2. OnlyRank(r) /\ Onwards(r) /\ DataQuiet(r) /\ calls'[r] = calls[r]
    BY <2>0 DEF OnlyRank, Onwards, DataQuiet, Issued, Signalled
  <2>3. PInv'
    BY <2>2, QuietKeepsPuts
  <2>4. ResultsQuiet
    <3>1. Experts' = Experts
      BY <2>0, SetupStays
    <3> QED BY <2>0, <3>1 DEF ResultsQuiet, Signalled, HeardIn
  <2> QED BY <2>3, <2>4, QuietKeepsResults
<1> QED BY <1>0, <1>1, <1>2, <1>3, <1>4 DEF Next, Work

LEMMA DataInit ==
  ASSUME NoFailures, Init
  PROVE  PInv /\ RInv
<1>0. /\ prog \in Setups /\ calls = [r \in Ranks |-> 0] /\ stage = [r \in Ranks |-> "idle"]
      /\ wire = [q \in Ranks \X Ranks \X LocalExperts |-> <<>>]
      /\ recv = [r \in Ranks |-> [b \in Buffers |-> [i \in 0 .. NumSlots - 1 |-> NoItem]]]
      /\ send = [r \in Ranks |-> [b \in Buffers |-> [i \in 0 .. NumSlots - 1 |-> NoItem]]]
      /\ result = [r \in Ranks |-> [k \in Calls |-> NoResult]]
  BY DEF Init
<1>1. Calls = 1 .. Len(prog.calls) /\ Len(prog.calls) \in Nat
  BY <1>0, Sizes
<1>2. PutsKnown
  BY <1>0 DEF PutsKnown, IsPut
<1>3. \A s \in Ranks, k \in Calls : ~Issued(s, k) /\ ~Signalled(s, k) /\ ~(calls[s] >= k)
  BY <1>0, <1>1 DEF Issued, Signalled
<1>4. PutsDelivered
  BY <1>3 DEF PutsDelivered, Unread
<1>5. Filled
  <2>1. NoItem \in ItemSet
    BY DEF NoItem, Item, ItemSet
  <2> QED BY <1>0, <2>1 DEF Filled, Contents, Slots
<1>6. ResultsKnown /\ SumsKnown
  BY <1>3 DEF ResultsKnown, SumsKnown
<1>7. ResultsThere
  BY <1>0 DEF ResultsThere, NoResult
<1> QED BY <1>2, <1>4, <1>5, <1>6, <1>7 DEF PInv, RInv

\* Puts and results fit the calls: what lies in a slot when its signal has been seen is the token
\* of the call that the signal is of.
THEOREM DataInvariance ==
  ASSUME NoFailures
  PROVE  Spec => [](IInv /\ PInv /\ RInv)
<1>1. Init => IInv /\ PInv /\ RInv
  BY IInvInit, DataInit
<1>2. (IInv /\ PInv /\ RInv) /\ [Next]_vars => (IInv /\ PInv /\ RInv)'
  BY IInvStep, DataStep
<1> QED BY <1>1, <1>2, PTL DEF Spec

\* As many items as tokens.
LEMMA ItemsCounted ==
  ASSUME NEW T, IsFiniteSet(T), NEW k, NEW s
  PROVE  Cardinality({Item(k, s, t, -1) : t \in T}) = Cardinality(T)
<1> DEFINE f == [t \in T |-> Item(k, s, t, -1)]
           S == {Item(k, s, t, -1) : t \in T}
<1>1. f \in Bijection(T, S)
  <2>1. \A t, u \in T : f[t] = f[u] => t = u
    BY DEF Item
  <2>2. f \in [T -> S] /\ \A x \in S : \E t \in T : f[t] = x
    OBVIOUS
  <2> QED BY <2>1, <2>2 DEF Bijection, Injection, Surjection, IsInjective
<1>2. ExistsBijection(T, S)
  BY <1>1 DEF ExistsBijection
<1> HIDE DEF S
<1>3. IsFiniteSet(S) /\ Cardinality(S) = Cardinality(T)
  BY <1>2, FS_Bijection
<1> QED BY <1>3 DEF S

\* The items of one part of the rows.
Sent(k, s, e) == {Item(k, s, t, -1) : t \in TokensFor(k, s, e)}

PartIs(q, b, n, E) ==
  /\ b \in Nat /\ n \in Nat /\ n = Cardinality(E) /\ b + n <= Len(q)
  /\ {q[i] : i \in b + 1 .. b + n} = E

LEMMA SameItems ==
  ASSUME NEW q, NEW I, NEW E, \A i \in I : q[i] \in E, \A x \in E : \E i \in I : q[i] = x
  PROVE  {q[i] : i \in I} = E
OBVIOUS

LEMMA PartItems ==
  ASSUME prog \in Setups, NEW k \in Calls, NonClean(k), NEW s \in Ranks, NEW e,
         NEW q, NEW b, NEW n, PartOf(q, b, n, k, s, e)
  PROVE  PartIs(q, b, n, Sent(k, s, e))
<1> PICK E : E = Sent(k, s, e)
  OBVIOUS
<1> DEFINE T == TokensFor(k, s, e)
<1>1. IsFiniteSet(T) /\ Cardinality(T) \in Nat
  <2>1. Cardinality(T) \in 0 .. prog.max /\ prog.max \in Nat /\ IsFiniteSet(T)
    BY TokensAre, CallData
  <2> QED BY <2>1
<1>2. b \in Nat /\ n = Cardinality(T) /\ b + n <= Len(q)
  BY DEF PartOf
<1>3. PICK o \in SetToSeqs(T) : \A i \in 1 .. n : q[b + i] = Item(k, s, o[i], -1)
  BY DEF PartOf
<1>4. /\ DOMAIN o = 1 .. n /\ \A i \in 1 .. n : o[i] \in T
      /\ \A t \in T : \E i \in 1 .. n : o[i] = t
  BY <1>1, <1>2, <1>3, OrdersAre
<1>5. Cardinality(E) = Cardinality(T)
  BY <1>1, ItemsCounted DEF Sent
<1> HIDE DEF T
<1>6. E = {Item(k, s, t, -1) : t \in T}
  BY DEF T, Sent
<1>7. ASSUME NEW i \in b + 1 .. b + n
      PROVE  q[i] \in E
  <2>0. b \in Nat /\ n \in Nat /\ i \in b + 1 .. b + n
    BY <1>1, <1>2, <1>7
  <2>1. i - b \in 1 .. n /\ b + (i - b) = i
    BY <2>0
  <2>2. q[i] = Item(k, s, o[i - b], -1) /\ o[i - b] \in T
    BY <1>3, <1>4, <2>1
  <2> QED BY <1>6, <2>2
<1>8. ASSUME NEW x \in E
      PROVE  \E i \in b + 1 .. b + n : q[i] = x
  <2>1. PICK t \in T : x = Item(k, s, t, -1)
    BY <1>6
  <2>2. PICK j \in 1 .. n : o[j] = t
    BY <1>4
  <2>3. b \in Nat /\ n \in Nat /\ j \in 1 .. n
    BY <1>1, <1>2
  <2>4. b + j \in b + 1 .. b + n
    BY <2>3
  <2>5. q[b + j] = x
    BY <1>3, <2>1, <2>2
  <2> QED BY <2>4, <2>5
<1>9. {q[i] : i \in b + 1 .. b + n} = E
  BY <1>7, <1>8, SameItems
<1> QED BY <1>1, <1>2, <1>5, <1>9 DEF PartIs

LEMMA PartWithin ==
  ASSUME NEW b \in Nat, NEW n \in Nat, NEW len \in Nat, b + n <= len
  PROVE  \A i \in b + 1 .. b + n : i \in 1 .. len
OBVIOUS

\* Every row is in the part of a source, and that part is what the source has sent.
ExactRows(rows, range, k, e) ==
  /\ DOMAIN rows = UNION {range[s].begin + 1 .. range[s].begin + range[s].num : s \in Ranks}
  /\ \A s \in Ranks :
       /\ {rows[i] : i \in range[s].begin + 1 .. range[s].begin + range[s].num} = Sent(k, s, e)
       /\ range[s].num = Cardinality(Sent(k, s, e))

LEMMA RowsExact ==
  ASSUME IInv, RInv, NEW r \in Ranks, NEW k \in Calls, calls[r] >= k, Kind(k) = "dispatch",
         NEW le \in LocalExperts, NEW rows, rows = result[r][k].rows[le],
         NEW range, range = result[r][k].range[le], NEW e, e = Expert(r, le)
  PROVE  ExactRows(rows, range, k, e)
<1>0. prog \in Setups
  BY DEF IInv, Types
<1>1. ExpertRows(rows, range, Ranks, k, e)
  <2>1. Signalled(r, k) /\ HeardIn(r, k) = Experts
    BY DEF Signalled, HeardIn
  <2>2. ResultOf(result[r][k], Experts, r, k)
    BY <2>1 DEF RInv, ResultsKnown
  <2>3. HeardBy(Experts, le) = Ranks
    BY <1>0, ExpertNumbers DEF HeardBy
  <2> QED BY <2>2, <2>3 DEF ResultOf
<1>2. NonClean(k)
  BY DEF NonClean
<1>3. ASSUME NEW s \in Ranks
      PROVE  PartIs(rows, range[s].begin, range[s].num, Sent(k, s, e))
  BY <1>0, <1>1, <1>2, PartItems DEF ExpertRows
<1>4. ASSUME NEW s \in Ranks
      PROVE  \A i \in range[s].begin + 1 .. range[s].begin + range[s].num : i \in 1 .. Len(rows)
  <2>1. /\ range[s].begin \in Nat /\ range[s].num \in Nat
        /\ range[s].begin + range[s].num <= Len(rows)
    BY <1>3 DEF PartIs
  <2>2. Len(rows) \in Nat
    BY <1>1 DEF ExpertRows, RowsOf
  <2> PICK b : b = range[s].begin
    OBVIOUS
  <2> PICK n : n = range[s].num
    OBVIOUS
  <2> PICK len \in Nat : len = Len(rows)
    BY <2>2
  <2>3. b \in Nat /\ n \in Nat /\ b + n <= len
    BY <2>1
  <2>4. \A i \in b + 1 .. b + n : i \in 1 .. len
    BY <2>3, PartWithin
  <2> QED BY <2>4
<1>5. DOMAIN rows = 1 .. Len(rows)
  BY <1>1 DEF ExpertRows, RowsOf
<1>6. \A i \in 1 .. Len(rows) : \E s \in Ranks : i \in range[s].begin + 1 .. range[s].begin + range[s].num
  BY <1>1 DEF ExpertRows, RowsOf
<1> DEFINE Places(s) == range[s].begin + 1 .. range[s].begin + range[s].num
<1>7. DOMAIN rows = UNION {Places(s) : s \in Ranks}
  <2>1. \A s \in Ranks : \A i \in Places(s) : i \in DOMAIN rows
    BY <1>4, <1>5
  <2>2. \A i \in DOMAIN rows : \E s \in Ranks : i \in Places(s)
    BY <1>5, <1>6
  <2> HIDE DEF Places
  <2> QED BY <2>1, <2>2
<1> QED BY <1>3, <1>7 DEF ExactRows, PartIs

LEMMA ResultsExact == ASSUME IInv, RInv PROVE DispatchExact
<1>0. alive = Ranks
  BY DEF IInv, Types
<1>1. ASSUME NEW r \in Ranks, NEW k \in Calls, calls[r] >= k, Kind(k) = "dispatch", NEW le \in LocalExperts
      PROVE  ExactRows(result[r][k].rows[le], result[r][k].range[le], k, Expert(r, le))
  BY <1>1, RowsExact
<1>2. ASSUME NEW r \in Ranks, NEW k \in Calls, calls[r] >= k, Kind(k) = "dispatch", NEW le \in LocalExperts
      PROVE  LET rows == result[r][k].rows[le]
                 range == result[r][k].range[le]
                 Places(s) == range[s].begin + 1 .. range[s].begin + range[s].num
                 Expected(s) == {Item(k, s, t, -1) : t \in TokensFor(k, s, Expert(r, le))}
             IN  /\ DOMAIN rows = UNION {Places(s) : s \in Ranks}
                 /\ \A s \in Ranks :
                      \/ /\ {rows[i] : i \in Places(s)} = Expected(s)
                         /\ range[s].num = Cardinality(Expected(s))
                      \/ s \notin alive /\ range[s].num = 0
  BY <1>1, <1>2 DEF ExactRows, Sent
<1> QED BY <1>0, <1>2, Zenon DEF DispatchExact

\* Any group, any tokens and calls: every expert gets each token that chose it once, from every
\* source, although nobody waits before a buffer is used again - unless a rank fails.
THEOREM DispatchesExact ==
  ASSUME NoFailures
  PROVE  Spec => []DispatchExact
<1>1. IInv /\ PInv /\ RInv => DispatchExact
  BY ResultsExact
<1> QED BY <1>1, DataInvariance, PTL

\* ... and a combine adds up what every expert of a token returned in this very call.
THEOREM CombinesExact ==
  ASSUME NoFailures
  PROVE  Spec => []CombineExact
<1>1. ASSUME IInv, RInv
      PROVE  CombineExact
  <2> SUFFICES ASSUME NEW r \in Ranks, NEW k \in Calls, calls[r] >= k, Kind(k) = "combine",
                      NEW t \in DOMAIN Rows(k, r)
               PROVE  result[r][k].sums[t] =
                        [e \in {x \in Rows(k, r)[t] : RankOf(x) \notin {}} |-> Item(k, r, t, e)]
    <3>1. alive = Ranks /\ {} \in SUBSET (Ranks \ alive)
      BY <1>1 DEF IInv, Types
    <3> QED BY <3>1 DEF CombineExact
  <2>1. result[r][k].sums[t] = [e \in Rows(k, r)[t] |-> Item(k, r, t, e)]
    BY <1>1 DEF RInv, SumsKnown, SumsOf
  <2>2. {x \in Rows(k, r)[t] : RankOf(x) \notin {}} = Rows(k, r)[t]
    OBVIOUS
  <2> QED BY <2>1, <2>2
<1>2. IInv /\ PInv /\ RInv => CombineExact
  BY <1>1
<1> QED BY <1>2, DataInvariance, PTL
-----------------------------------------------------------------------------
(* Types. *)

NobodyMasked == \A r \in Ranks : mask[r] = {}
Numbers == [Buffers -> [0 .. NumWords - 1 -> Int]]
WordsTyped == words \in [Ranks -> Numbers]

LEMMA IntSum ==
  ASSUME NEW a \in Int, NEW b \in Int
  PROVE  a + b \in Int
OBVIOUS

LEMMA WordsTypedStep ==
  ASSUME NoFailures, IInv, PInv, WordsTyped, [Next]_vars
  PROVE  WordsTyped'
<1>0. /\ prog \in Setups /\ alive = Ranks /\ words \in [Ranks -> Numbers]
      /\ Calls = 1 .. Len(prog.calls) /\ Len(prog.calls) \in Nat /\ calls \in [Ranks -> Nat]
  BY Sizes DEF IInv, Types, WordsTyped
<1>1. prog' = prog => Ranks' = Ranks /\ Numbers' = Numbers
  BY SetupStays DEF Numbers, Buffers
<1>2. ASSUME prog' = prog, words' = words
      PROVE  WordsTyped'
  BY <1>0, <1>1, <1>2 DEF WordsTyped
<1>3. ASSUME NEW r \in Ranks, Step(r)
      PROVE  WordsTyped'
  <2>1. CASE CleanNext(r)
    <3>1. OtherBuf(Now(r)) \in Buffers
      BY <1>0, BuffersTurn DEF OtherBuf, Now, Buffers
    <3> PICK b \in Buffers : b = OtherBuf(Now(r))
      BY <3>1
    <3>2. words[r] \in Numbers /\ words[r][b] \in [0 .. NumWords - 1 -> Int]
      BY <1>0 DEF Numbers
    <3>3. words' = [words EXCEPT ![r][b] = [i \in DOMAIN words[r][b] |-> 0]] /\ prog' = prog
      BY <2>1 DEF CleanNext
    <3>4. [i \in DOMAIN words[r][b] |-> 0] \in [0 .. NumWords - 1 -> Int]
      BY <3>2
    <3>5. words' \in [Ranks -> Numbers]
      BY <1>0, <3>2, <3>3, <3>4 DEF Numbers
    <3> QED BY <1>1, <3>3, <3>5 DEF WordsTyped
  <2>2. CASE Signal(r)
    <3> PICK k : k = Now(r)
      OBVIOUS
    <3> PICK b : b = Buf(k)
      OBVIOUS
    <3>1. k \in Calls /\ b \in Buffers
      <4>1. stage[r] = "cleaned" /\ Fits(r)
        BY <2>2 DEF Signal, IInv, StagesFit
      <4>2. k \in Calls
        BY <4>1 DEF Fits
      <4>3. k \in Nat \ {0}
        BY <1>0, <4>2
      <4> QED BY <4>2, <4>3, BuffersTurn
    <3> DEFINE own == {SignalWord(k, r, le) : le \in LocalExperts}
               At(i) == CHOOSE le \in LocalExperts : SignalWord(k, r, le) = i
               new == [i \in DOMAIN words[r][b] |->
                        IF i \in own THEN words[r][b][i] + SignalValue(k, r, r, At(i)) ELSE words[r][b][i]]
    <3>2. words' = [words EXCEPT ![r][b] = new] /\ prog' = prog
      BY <2>2 DEF Signal
    <3>3. words[r] \in Numbers /\ words[r][b] \in [0 .. NumWords - 1 -> Int]
      BY <1>0, <3>1 DEF Numbers
    <3>4. new \in [0 .. NumWords - 1 -> Int]
      <4> DEFINE V(i) == SignalValue(k, r, r, At(i))
      <4>1. \A i : V(i) \in Int
        BY <1>0, <3>1, SignalValues
      <4> PICK old : old = words[r][b]
        OBVIOUS
      <4>2. new = [i \in DOMAIN old |-> IF i \in own THEN old[i] + V(i) ELSE old[i]]
        OBVIOUS
      <4>3. old \in [0 .. NumWords - 1 -> Int]
        BY <3>3
      <4> HIDE DEF V, own, new
      <4>4. \A i \in DOMAIN old : old[i] \in Int /\ old[i] + V(i) \in Int
        <5>1. ASSUME NEW i \in DOMAIN old
              PROVE  old[i] \in Int
          BY <4>3
        <5> QED BY <4>1, <5>1, IntSum
      <4>5. \A i \in DOMAIN old : (IF i \in own THEN old[i] + V(i) ELSE old[i]) \in Int
        BY <4>4
      <4>6. DOMAIN old = 0 .. NumWords - 1
        BY <4>3
      <4> QED BY <4>2, <4>5, <4>6
    <3> HIDE DEF new
    <3>5. words' \in [Ranks -> Numbers]
      BY <1>0, <3>1, <3>2, <3>3, <3>4 DEF Numbers
    <3> QED BY <1>1, <3>2, <3>5 DEF WordsTyped
  <2>3. CASE ZeroBoth(r)
    <3>1. words' = [words EXCEPT ![r] = [b \in Buffers |-> [i \in DOMAIN words[r][b] |-> 0]]] /\ prog' = prog
      BY <2>3 DEF ZeroBoth
    <3>2. \A b \in Buffers : words[r][b] \in [0 .. NumWords - 1 -> Int]
      BY <1>0 DEF Numbers
    <3>3. [b \in Buffers |-> [i \in DOMAIN words[r][b] |-> 0]] \in Numbers
      BY <3>2 DEF Numbers
    <3>4. words' \in [Ranks -> Numbers]
      BY <1>0, <3>1, <3>3
    <3> QED BY <1>1, <3>1, <3>4 DEF WordsTyped
  <2>4. CASE SendTokens(r) \/ SendBack(r) \/ ReceiveFlags(r) \/ Reduce(r) \/ \E e \in Experts : Receive(r, e)
    <3>1. prog' = prog /\ words' = words
      BY <2>4 DEF SendTokens, SendBack, ReceiveFlags, Reduce, Receive
    <3> QED BY <1>2, <3>1
  <2>5. CASE StartClean(r) \/ \E q \in Ranks : Meet(r, q)
    <3>1. prog' = prog /\ words' = words
      BY <2>5 DEF StartClean, Meet
    <3> QED BY <1>2, <3>1
  <2> QED BY <1>3, <2>1, <2>2, <2>3, <2>4, <2>5 DEF Step
<1>4. ASSUME NEW q \in DOMAIN wire, Land(q[1], q[2], q[3])
      PROVE  WordsTyped'
  <2> PICK s : s = q[1]
    OBVIOUS
  <2> PICK d : d = q[2]
    OBVIOUS
  <2> PICK le : le = q[3]
    OBVIOUS
  <2>1. s \in Ranks /\ d \in Ranks /\ le \in LocalExperts /\ Land(s, d, le)
    BY <1>4 DEF IInv, Types
  <2> PICK p : p = <<s, d, le>>
    OBVIOUS
  <2> PICK m : m = Head(wire[p])
    OBVIOUS
  <2>2. 1 \in DOMAIN wire[p] /\ m = wire[p][1]
    BY <2>1, QueueMoves
  <2>3. prog' = prog /\ words' = IF m.word < 0 THEN words
                                 ELSE [words EXCEPT ![d][m.buf][m.word] = @ + m.value]
    BY <2>1 DEF Land, callVars
  <2>4. CASE ~(m.word >= 0)
    <3>1. PICK k \in Calls : PutOfCall(k, s, d, le, 1)
      BY <2>1, <2>2, <2>4 DEF PInv, PutsKnown, IsPut
    <3>2. m.word = -1
      BY <2>2, <3>1 DEF PutOfCall
    <3>3. m.word < 0
      BY <3>2
    <3> QED BY <1>2, <2>3, <3>3
  <2>5. CASE m.word >= 0
    <3>1. PICK k \in Calls : SignalOf(k, s, d, le, 1)
      BY <2>1, <2>2, <2>5 DEF IInv, OnTheWay, IsSignal
    <3> PICK b : b = m.buf
      OBVIOUS
    <3> PICK w : w = m.word
      OBVIOUS
    <3> PICK v : v = m.value
      OBVIOUS
    <3>2. b = Buf(k) /\ w = SignalWord(k, s, le) /\ v = SignalValue(k, s, d, le)
      BY <2>2, <3>1 DEF SignalOf
    <3>3. b \in Buffers /\ w \in 0 .. NumWords - 1 /\ v \in Int
      <4>1. k \in Nat \ {0}
        BY <1>0
      <4>2. b \in Buffers
        BY <3>2, <4>1, BuffersTurn
      <4>3. w \in 0 .. NumWords - 1
        BY <1>0, <2>1, <3>2, WordsApart
      <4>4. v \in Int
        BY <1>0, <2>1, <3>2, SignalValues
      <4> QED BY <4>2, <4>3, <4>4
    <3>4. words' = [words EXCEPT ![d][b][w] = words[d][b][w] + v] \/ words' = words
      BY <2>3
    <3>5. words[d] \in Numbers /\ words[d][b] \in [0 .. NumWords - 1 -> Int]
      BY <1>0, <2>1, <3>3 DEF Numbers
    <3> PICK x : x = words[d][b][w] + v
      OBVIOUS
    <3>6. x \in Int
      <4> PICK ws : ws = words[d][b]
        OBVIOUS
      <4>1. ws \in [0 .. NumWords - 1 -> Int] /\ w \in 0 .. NumWords - 1
        BY <3>3, <3>5
      <4>2. ws[w] \in Int
        BY <4>1
      <4>3. ws[w] + v \in Int
        BY <3>3, <4>2, IntSum
      <4> QED BY <4>3
    <3>7. [words EXCEPT ![d][b][w] = x] \in [Ranks -> Numbers]
      BY <1>0, <2>1, <3>3, <3>5, <3>6 DEF Numbers
    <3> QED BY <1>1, <1>2, <2>3, <3>4, <3>7 DEF WordsTyped
  <2> QED BY <2>4, <2>5
<1>5. ASSUME NEW r \in Ranks, Fail(r)
      PROVE  FALSE
  BY <1>5 DEF Fail, NoFailures, IInv, Types
<1>6. CASE UNCHANGED vars
  BY <1>2, <1>6 DEF vars
<1> QED BY <1>0, <1>3, <1>4, <1>5, <1>6 DEF Next, Work

\* Messages have their fields.
Shaped(m) ==
  m = [buf |-> m.buf, moves |-> m.moves, word |-> m.word, value |-> m.value] /\ m.value \in Int
WireShaped == \A q \in DOMAIN wire : \A i \in DOMAIN wire[q] : Shaped(wire[q][i])

LEMMA MessagesShaped ==
  /\ \A b, moves : Shaped(PutMsg(b, moves))
  /\ \A b, w, v : v \in Int => Shaped(SignalMsg(b, w, v))
BY DEF Shaped, PutMsg, SignalMsg

LEMMA SequenceJoined ==
  ASSUME NEW q, IsSequence(q), NEW t, t = <<>> \/ \E m : Shaped(m) /\ t = <<m>>,
         \A i \in DOMAIN q : Shaped(q[i])
  PROVE  \A i \in DOMAIN (q \o t) : Shaped((q \o t)[i])
<1>1. CASE t = <<>>
  <2>1. q \o t = q
    BY <1>1, AppendNone
  <2> QED BY <2>1
<1>2. CASE t # <<>>
  <2>1. PICK m : Shaped(m) /\ t = <<m>>
    BY <1>2
  <2> DEFINE n == Len(q)
  <2>2. /\ DOMAIN q = 1 .. n /\ n \in Nat /\ DOMAIN (q \o <<m>>) = 1 .. n + 1
        /\ \A i \in DOMAIN q : (q \o <<m>>)[i] = q[i]
        /\ (q \o <<m>>)[n + 1] = m
    BY AppendOne
  <2> HIDE DEF n
  <2>3. \A i \in 1 .. n + 1 : i \in 1 .. n \/ i = n + 1
    BY <2>2
  <2> QED BY <2>1, <2>2, <2>3
<1> QED BY <1>1, <1>2

\* What is handed out is shaped if it was.
LEMMA IssuedShaped ==
  ASSUME IInv, WireShaped, NEW r \in Ranks, NEW messages, Issue(r, messages),
         \A d \in Ranks, le \in LocalExperts :
           messages[<<d, le>>] = <<>> \/ \E m : Shaped(m) /\ messages[<<d, le>>] = <<m>>
  PROVE  WireShaped'
<1>1. Types /\ DOMAIN wire = Ranks \X Ranks \X LocalExperts
  BY DEF IInv, Types
<1>2. /\ DOMAIN wire' = DOMAIN wire
      /\ \A s, d \in Ranks, le \in LocalExperts :
           wire'[<<s, d, le>>] = IF s = r /\ d # r THEN wire[<<s, d, le>>] \o messages[<<d, le>>]
                                 ELSE wire[<<s, d, le>>]
  BY <1>1, IssueFacts
<1>3. ASSUME NEW s \in Ranks, NEW d \in Ranks, NEW le \in LocalExperts, NEW q, q = <<s, d, le>>
      PROVE  \A i \in DOMAIN wire'[q] : Shaped(wire'[q][i])
  <2>1. q \in DOMAIN wire /\ IsSequence(wire[q]) /\ \A i \in DOMAIN wire[q] : Shaped(wire[q][i])
    BY <1>1, <1>3 DEF Types, WireShaped
  <2> PICK t : t = messages[<<d, le>>]
    OBVIOUS
  <2>2. t = <<>> \/ \E m : Shaped(m) /\ t = <<m>>
    OBVIOUS
  <2>3. \A i \in DOMAIN (wire[q] \o t) : Shaped((wire[q] \o t)[i])
    BY <2>1, <2>2, SequenceJoined
  <2>4. wire'[q] = wire[q] \o t \/ wire'[q] = wire[q]
    BY <1>2, <1>3
  <2> QED BY <2>1, <2>3, <2>4
<1>4. \A q \in DOMAIN wire' : \A i \in DOMAIN wire'[q] : Shaped(wire'[q][i])
  BY <1>1, <1>2, <1>3
<1> QED BY <1>4 DEF WireShaped, Shaped

\* Nothing new is handed out.
LEMMA ShapedStays ==
  ASSUME WireShaped, wire' = wire
  PROVE  WireShaped'
BY DEF WireShaped, Shaped

LEMMA WireShapedStep ==
  ASSUME NoFailures, IInv, PInv, RInv, WireShaped, [Next]_vars
  PROVE  WireShaped'
<1>1. ASSUME NEW r \in Ranks, Step(r)
      PROVE  WireShaped'
  <2>1. CASE SendTokens(r) \/ SendBack(r)
    <3>1. PICK k, M, buffer : SendsCargo(r, k, M, buffer)
      BY <2>1, TokensSend, BackSends
    <3> PICK b : b = Buf(k)
      OBVIOUS
    <3> PICK messages : messages = Puts(b, M)
      OBVIOUS
    <3>2. Issue(r, messages)
      BY <3>1 DEF SendsCargo
    <3>3. \A d \in Ranks, le \in LocalExperts : messages[<<d, le>>] = PutOf(b, M[<<d, le>>])
      BY DEF Puts
    <3>4. \A d \in Ranks, le \in LocalExperts :
            messages[<<d, le>>] = <<>> \/ \E m : Shaped(m) /\ messages[<<d, le>>] = <<m>>
      BY <3>3, MessagesShaped DEF PutOf
    <3> QED BY <3>2, <3>4, IssuedShaped
  <2>2. CASE Signal(r)
    <3> PICK k : k = Now(r)
      OBVIOUS
    <3> DEFINE messages == [p \in Ranks \X LocalExperts |->
                 <<SignalMsg(Buf(k), SignalWord(k, r, p[2]), SignalValue(k, r, p[1], p[2]))>>]
    <3>1. stage[r] = "cleaned" /\ Fits(r) /\ prog \in Setups /\ Issue(r, messages)
      BY <2>2 DEF IInv, Types, StagesFit, Signal
    <3>2. k \in Calls
      BY <3>1 DEF Fits
    <3>3. \A d, le : SignalValue(k, r, d, le) \in Int
      BY <3>1, <3>2, SignalValues
    <3>4. \A d \in Ranks, le \in LocalExperts :
            \E m : Shaped(m) /\ messages[<<d, le>>] = <<m>>
      BY <3>3, MessagesShaped
    <3> HIDE DEF messages
    <3> QED BY <3>1, <3>4, IssuedShaped
  <2>3. CASE CleanNext(r) \/ ReceiveFlags(r) \/ Reduce(r) \/ \E e \in Experts : Receive(r, e)
    <3>1. wire' = wire
      BY <2>3 DEF CleanNext, ReceiveFlags, Reduce, Receive
    <3> QED BY <3>1, ShapedStays
  <2>4. CASE StartClean(r) \/ ZeroBoth(r) \/ \E q \in Ranks : Meet(r, q)
    <3>1. wire' = wire
      BY <2>4 DEF StartClean, ZeroBoth, Meet
    <3> QED BY <3>1, ShapedStays
  <2> QED BY <1>1, <2>1, <2>2, <2>3, <2>4 DEF Step
<1>2. ASSUME NEW q \in DOMAIN wire, Land(q[1], q[2], q[3])
      PROVE  WireShaped'
  <2>1. q[1] \in Ranks /\ q[2] \in Ranks /\ q[3] \in LocalExperts /\ q = <<q[1], q[2], q[3]>>
    BY DEF IInv, Types
  <2>2. /\ DOMAIN wire' = DOMAIN wire
        /\ \A i \in DOMAIN wire'[q] : i + 1 \in DOMAIN wire[q] /\ wire'[q][i] = wire[q][i + 1]
        /\ \A p \in DOMAIN wire : p # q => wire'[p] = wire[p]
    BY <1>2, <2>1, QueueMoves
  <2>3. \A p \in DOMAIN wire' : \A i \in DOMAIN wire'[p] : Shaped(wire'[p][i])
    BY <2>2 DEF WireShaped
  <2> QED BY <2>3 DEF WireShaped, Shaped
<1>3. ASSUME NEW r \in Ranks, Fail(r)
      PROVE  FALSE
  BY <1>3 DEF Fail, NoFailures, IInv, Types
<1>4. CASE UNCHANGED vars
  BY <1>4, ShapedStays DEF vars
<1>5. alive = Ranks
  BY DEF IInv, Types
<1> QED BY <1>1, <1>2, <1>3, <1>4, <1>5 DEF Next, Work

\* What calls leave behind.
ResultsTyped ==
  /\ \A r \in Ranks : \A k \in Calls : ResultTyped(result[r][k])
  /\ \A r \in Ranks : stage[r] \in {"receive", "reduce"} => result[r][Now(r)] # NoResult

LEMMA TypedStays ==
  ASSUME prog' = prog, NEW res
  PROVE  ResultTyped(res)' <=> ResultTyped(res)
<1>1. LocalExperts' = LocalExperts /\ Ranks' = Ranks /\ Experts' = Experts
  BY SetupStays
<1> QED BY <1>1 DEF ResultTyped

LEMMA ResultsTypedFrame ==
  ASSUME ResultsTyped, prog' = prog, result' = result,
         \A r \in Ranks : stage'[r] \in {"receive", "reduce"} =>
           stage[r] \in {"receive", "reduce"} /\ calls'[r] = calls[r]
  PROVE  ResultsTyped'
<1>1. Ranks' = Ranks /\ Calls' = Calls
  BY SetupStays
<1>2. \A r \in Ranks : \A k \in Calls : ResultTyped(result[r][k])'
  BY TypedStays DEF ResultsTyped
<1> QED BY <1>1, <1>2 DEF ResultsTyped, Now, NoResult

\* A step of rank r gives the result of its call.
LEMMA ResultGiven ==
  ASSUME IInv, RInv, ResultsTyped, prog' = prog, NEW r \in Ranks, NEW k \in Calls, NEW res,
         result' = [result EXCEPT ![r][k] = res], ResultTyped(res), res # NoResult,
         k = Now(r), OnlyRank(r), stage'[r] \in {"receive", "reduce"} => calls'[r] = calls[r]
  PROVE  ResultsTyped'
<1>1. Ranks' = Ranks /\ Calls' = Calls
  BY SetupStays
<1>2. DOMAIN result = Ranks /\ \A s \in Ranks : DOMAIN result[s] = Calls
  BY DEF RInv, ResultsThere
<1>3. /\ result'[r][k] = res
      /\ \A s \in Ranks : \A j \in Calls : ~(s = r /\ j = k) => result'[s][j] = result[s][j]
      /\ \A s \in Ranks \ {r} : result'[s] = result[s]
  BY <1>2
<1>4. \A s \in Ranks : \A j \in Calls : ResultTyped(result'[s][j])
  BY <1>3 DEF ResultsTyped
<1>5. \A s \in Ranks : \A j \in Calls : ResultTyped(result[s][j])'
  <2>1. LocalExperts' = LocalExperts /\ Experts' = Experts
    BY SetupStays
  <2> QED BY <1>1, <1>4, <2>1 DEF ResultTyped, NoResult
<1>6. ASSUME NEW s \in Ranks, stage'[s] \in {"receive", "reduce"}
      PROVE  result'[s][calls'[s] + 1] # NoResult
  <2>1. CASE s = r
    BY <1>3, <1>6, <2>1 DEF Now
  <2>2. CASE s # r
    BY <1>3, <1>6, <2>2 DEF OnlyRank, ResultsTyped, Now
  <2> QED BY <2>1, <2>2
<1> QED BY <1>1, <1>5, <1>6 DEF ResultsTyped, Now, NoResult

LEMMA EmptyTyped ==
  ASSUME prog \in Setups
  PROVE  ResultTyped(Empty) /\ Empty # NoResult
<1>1. /\ DOMAIN Empty = {"rows", "range", "sums"} /\ Empty.sums = <<>>
      /\ Empty.rows = [le \in LocalExperts |-> <<>>]
      /\ Empty.range = [le \in LocalExperts |-> [s \in Ranks |-> [num |-> 0, begin |-> 0]]]
  BY DEF Empty
<1>2. prog.max \in Nat /\ 0 \in LocalExperts
  <2>1. {prog.local, prog.max} \subseteq Nat \ {0}
    BY SetupsAssumption
  <2> QED BY <2>1 DEF LocalExperts
<1>3. Empty.rows \in [LocalExperts -> Seq(ItemSet)]
  BY <1>1
<1>4. Empty.range \in [LocalExperts -> [Ranks -> [num : 0 .. prog.max, begin : Nat]]]
  BY <1>1, <1>2
<1>5. DOMAIN Empty.sums = {}
  BY <1>1
<1>6. Empty # NoResult
  <2>1. DOMAIN Empty.rows = LocalExperts
    BY <1>1
  <2>2. NoResult.rows = <<>>
    BY DEF NoResult
  <2>3. DOMAIN <<>> = {}
    OBVIOUS
  <2> QED BY <1>2, <2>1, <2>2, <2>3
<1> QED BY <1>1, <1>3, <1>4, <1>5, <1>6 DEF ResultTyped

LEMMA ReceiveTyped ==
  ASSUME IInv, PInv, RInv, ResultsTyped, NEW r \in Ranks, NEW e \in Experts, Receive(r, e)
  PROVE  ResultsTyped'
<1> PICK k : k = Now(r)
  OBVIOUS
<1> PICK s : s = RankOf(e)
  OBVIOUS
<1> PICK le : le = LocalOf(e)
  OBVIOUS
<1> PICK old : old = result[r][k]
  OBVIOUS
<1>1. /\ k \in Calls /\ s \in Ranks /\ le \in LocalExperts
      /\ \E rows, n : \E o \in SetToSeqs(TokensFor(k, s, Expert(r, le))) :
           /\ n = Cardinality(TokensFor(k, s, Expert(r, le)))
           /\ WithTokens(rows, old.rows[le], n, k, s, o)
           /\ Grown(r, k, le, s, rows, [num |-> n, begin |-> Len(old.rows[le])])
  BY ReceiveAppends
<1>2. PICK rows, n : /\ n = Cardinality(TokensFor(k, s, Expert(r, le))) /\ rows \in Seq(ItemSet)
                     /\ Grown(r, k, le, s, rows, [num |-> n, begin |-> Len(old.rows[le])])
  BY <1>1 DEF WithTokens
<1>3. /\ prog \in Setups /\ prog' = prog /\ Kind(k) = "dispatch" /\ stage[r] = "receive"
      /\ stage \in [Ranks -> Stages] /\ calls \in [Ranks -> Nat]
      /\ seen \in [Ranks -> SUBSET (Experts \cup Ranks)]
  BY DEF IInv, Types, Receive
<1>4. /\ DOMAIN old = {"rows", "range", "sums"} /\ old # NoResult /\ ResultTyped(old)
      /\ DOMAIN result = Ranks /\ DOMAIN result[r] = Calls
  BY <1>1, <1>3 DEF ResultsTyped, RInv, ResultsThere
<1>5. /\ old.rows \in [LocalExperts -> Seq(ItemSet)]
      /\ old.range \in [LocalExperts -> [Ranks -> [num : 0 .. prog.max, begin : Nat]]]
      /\ DOMAIN old.sums \subseteq 1 .. prog.max
      /\ \A t \in DOMAIN old.sums : \A x \in DOMAIN old.sums[t] : x \in Experts /\ old.sums[t][x] \in ItemSet
  BY <1>4 DEF ResultTyped
<1>6. \E X, Y : result' = [result EXCEPT ![r][k].rows[le] = X, ![r][k].range[le][s] = Y]
  BY DEF Receive
<1>7. PICK X, Y : result' = [result EXCEPT ![r][k].rows[le] = X, ![r][k].range[le][s] = Y]
  BY <1>6
<1> PICK res : res = [old EXCEPT !.rows[le] = X, !.range[le][s] = Y]
  OBVIOUS
<1>8. result' = [result EXCEPT ![r][k] = res]
  BY <1>1, <1>4, <1>7
<1>9. /\ DOMAIN res = {"rows", "range", "sums"} /\ res.sums = old.sums
      /\ res.rows = [old.rows EXCEPT ![le] = X]
      /\ res.range = [old.range EXCEPT ![le][s] = Y]
  BY <1>4
<1>10. X = rows /\ Y = [num |-> n, begin |-> Len(old.rows[le])]
  <2>1. result'[r][k] = res
    BY <1>1, <1>4, <1>8
  <2>2. res.rows[le] = X /\ res.range[le][s] = Y
    BY <1>1, <1>5, <1>9
  <2>3. /\ res.rows[le] = rows
        /\ res.range[le] = [old.range[le] EXCEPT ![s] = [num |-> n, begin |-> Len(old.rows[le])]]
    BY <1>2, <2>1 DEF Grown
  <2> QED BY <1>1, <1>5, <2>2, <2>3
<1>11. n \in 0 .. prog.max /\ Len(old.rows[le]) \in Nat
  <2>1. NonClean(k)
    BY <1>3 DEF NonClean
  <2> PICK q : q = old.rows[le]
    OBVIOUS
  <2>2. q \in Seq(ItemSet)
    BY <1>1, <1>5
  <2>3. Len(q) \in Nat
    BY <2>2
  <2> QED BY <1>1, <1>2, <1>3, <2>1, <2>3, TokensAre
<1>12. Y \in [num : 0 .. prog.max, begin : Nat]
  BY <1>10, <1>11
<1>13. res.rows \in [LocalExperts -> Seq(ItemSet)]
  BY <1>1, <1>2, <1>5, <1>9, <1>10
<1>14. res.range \in [LocalExperts -> [Ranks -> [num : 0 .. prog.max, begin : Nat]]]
  BY <1>1, <1>5, <1>9, <1>12
<1>15. ResultTyped(res)
  BY <1>5, <1>9, <1>13, <1>14 DEF ResultTyped
<1>16. res # NoResult
  <2>1. DOMAIN res.rows = LocalExperts
    BY <1>13
  <2>2. NoResult.rows = <<>>
    BY DEF NoResult
  <2>3. DOMAIN <<>> = {}
    OBVIOUS
  <2> QED BY <1>1, <2>1, <2>2, <2>3
<1>17. OnlyRank(r) /\ (stage'[r] \in {"receive", "reduce"} => calls'[r] = calls[r])
  <2> DEFINE last == seen[r] \cup {e} = Experts
  <2>1. CASE last
    BY <1>3, <2>1 DEF Receive, OnlyRank
  <2>2. CASE ~last
    BY <1>3, <2>2 DEF Receive, OnlyRank
  <2> QED BY <2>1, <2>2
<1> QED BY <1>1, <1>3, <1>8, <1>15, <1>16, <1>17, ResultGiven

LEMMA ReduceTyped ==
  ASSUME IInv, PInv, RInv, ResultsTyped, NEW r \in Ranks, Reduce(r)
  PROVE  ResultsTyped'
<1> PICK k : k = Now(r)
  OBVIOUS
<1> PICK b : b = Buf(k)
  OBVIOUS
<1> PICK old : old = result[r][k]
  OBVIOUS
<1> PICK buffer : buffer = recv[r][b]
  OBVIOUS
<1> DEFINE Terms(t) == {e \in Rows(k, r)[t] : RankOf(e) \notin mask[r]}
           sums == [t \in DOMAIN Rows(k, r) |-> [e \in Terms(t) |-> buffer[CombineSlot(e, t)]]]
           res == [old EXCEPT !.sums = sums]
<1>1. /\ prog \in Setups /\ prog' = prog /\ stage[r] = "reduce" /\ Fits(r)
      /\ stage' = [stage EXCEPT ![r] = "idle"] /\ calls' = [calls EXCEPT ![r] = @ + 1] /\ seen' = seen
      /\ stage \in [Ranks -> Stages] /\ calls \in [Ranks -> Nat]
      /\ result' = [result EXCEPT ![r][k].sums = sums]
  BY DEF IInv, Types, StagesFit, Reduce
<1>2. k \in Calls /\ NonClean(k) /\ k \in Nat \ {0}
  <2>1. k \in Calls /\ NonClean(k)
    BY <1>1 DEF Fits
  <2>2. Calls = 1 .. Len(prog.calls) /\ Len(prog.calls) \in Nat
    BY <1>1, Sizes
  <2> QED BY <2>1, <2>2
<1>3. /\ DOMAIN old = {"rows", "range", "sums"} /\ old # NoResult /\ ResultTyped(old)
      /\ DOMAIN result = Ranks /\ DOMAIN result[r] = Calls
  BY <1>1, <1>2 DEF ResultsTyped, RInv, ResultsThere
<1>4. buffer \in [Slots -> ItemSet]
  <2>1. b \in Buffers
    BY <1>2, BuffersTurn
  <2> QED BY <2>1 DEF PInv, Filled, Contents
<1>5. PICK n \in 0 .. prog.max : /\ DOMAIN Rows(k, r) = 1 .. n
                                 /\ \A t \in 1 .. n : Rows(k, r)[t] \in SUBSET Experts
  BY <1>1, <1>2, CallData
<1>6. prog.max \in Nat
  BY <1>1, SlotNumbers
<1>7. ASSUME NEW t \in 1 .. n, NEW e \in Terms(t)
      PROVE  e \in Experts /\ buffer[CombineSlot(e, t)] \in ItemSet
  <2>1. e \in Experts
    BY <1>5
  <2>2. CombineSlot(e, t) \in Slots
    <3>1. prog.ranks \in Nat /\ prog.local \in Nat
      BY <1>1, Sizes
    <3> DEFINE m == prog.ranks * prog.local
    <3>2. m \in Nat /\ e \in 0 .. m - 1 /\ t - 1 \in 0 .. prog.max - 1
      BY <1>5, <1>6, <2>1, <3>1 DEF Experts
    <3> HIDE DEF m
    <3>3. e * prog.max + (t - 1) \in 0 .. m * prog.max - 1
      BY <1>6, <3>2, DigitsBelow
    <3>4. e * prog.max + (t - 1) = e * prog.max + t - 1
      <4> PICK x : x = e * prog.max
        OBVIOUS
      <4>1. x \in Int /\ t \in Int
        BY <1>6, <3>2
      <4>2. x + (t - 1) = x + t - 1
        BY <4>1
      <4> QED BY <4>2
    <3> QED BY <3>3, <3>4 DEF CombineSlot, Slots, NumSlots, m
  <2> QED BY <1>4, <2>1, <2>2
<1>8. /\ DOMAIN sums = 1 .. n
      /\ \A t \in 1 .. n : DOMAIN sums[t] = Terms(t)
      /\ \A t \in 1 .. n : \A e \in Terms(t) : sums[t][e] = buffer[CombineSlot(e, t)]
  BY <1>5
<1>9. 1 .. n \subseteq 1 .. prog.max
  BY <1>5, <1>6
<1> HIDE DEF sums, Terms
<1>10. /\ DOMAIN res = {"rows", "range", "sums"} /\ res.sums = sums
       /\ res.rows = old.rows /\ res.range = old.range
  BY <1>3
<1>11. result' = [result EXCEPT ![r][k] = res]
  BY <1>1, <1>2, <1>3
<1> HIDE DEF res
<1>12. ResultTyped(res)
  <2>1. \A t \in DOMAIN sums : \A e \in DOMAIN sums[t] : e \in Experts /\ sums[t][e] \in ItemSet
    <3> SUFFICES ASSUME NEW t \in DOMAIN sums, NEW e \in DOMAIN sums[t]
                 PROVE  e \in Experts /\ sums[t][e] \in ItemSet
      OBVIOUS
    <3>1. t \in 1 .. n /\ e \in Terms(t) /\ sums[t][e] = buffer[CombineSlot(e, t)]
      BY <1>8
    <3> QED BY <1>7, <3>1
  <2>2. DOMAIN sums \subseteq 1 .. prog.max
    BY <1>8, <1>9
  <2>3. res # NoResult => /\ res.rows \in [LocalExperts -> Seq(ItemSet)]
                          /\ res.range \in [LocalExperts -> [Ranks -> [num : 0 .. prog.max, begin : Nat]]]
    BY <1>3, <1>10 DEF ResultTyped
  <2> QED BY <1>10, <2>1, <2>2, <2>3 DEF ResultTyped
<1>13. res # NoResult
  <2>1. DOMAIN res.rows = LocalExperts
    BY <1>3, <1>10 DEF ResultTyped
  <2>2. NoResult.rows = <<>> /\ 0 \in LocalExperts
    BY <1>1, Sizes DEF NoResult, LocalExperts
  <2>3. DOMAIN <<>> = {}
    OBVIOUS
  <2> QED BY <2>1, <2>2, <2>3
<1>14. OnlyRank(r) /\ stage'[r] = "idle"
  BY <1>1 DEF OnlyRank
<1> QED BY <1>1, <1>2, <1>11, <1>12, <1>13, <1>14, ResultGiven

LEMMA ResultsTypedStep ==
  ASSUME NoFailures, IInv, PInv, RInv, ResultsTyped, [Next]_vars
  PROVE  ResultsTyped'
<1>0. /\ prog \in Setups /\ alive = Ranks /\ stage \in [Ranks -> Stages] /\ calls \in [Ranks -> Nat]
  BY DEF IInv, Types
<1>1. ASSUME NEW r \in Ranks, Step(r)
      PROVE  ResultsTyped'
  <2>1. CASE SendTokens(r) \/ SendBack(r)
    <3>1. /\ prog' = prog /\ result' = result /\ calls' = calls
          /\ stage' = [stage EXCEPT ![r] = "sent"]
      BY <2>1 DEF SendTokens, SendBack
    <3>2. \A q \in Ranks : stage'[q] \in {"receive", "reduce"} => stage[q] = stage'[q]
      BY <1>0, <3>1
    <3> QED BY <3>1, <3>2, ResultsTypedFrame
  <2>2. CASE CleanNext(r)
    <3>1. /\ prog' = prog /\ result' = result /\ calls' = calls
          /\ stage' = [stage EXCEPT ![r] = "cleaned"]
      BY <2>2 DEF CleanNext
    <3>2. \A q \in Ranks : stage'[q] \in {"receive", "reduce"} => stage[q] = stage'[q]
      BY <1>0, <3>1
    <3> QED BY <3>1, <3>2, ResultsTypedFrame
  <2>3. CASE Signal(r)
    <3> PICK k : k = Now(r)
      OBVIOUS
    <3>1. /\ prog' = prog /\ calls' = calls /\ seen' = seen /\ Fits(r) /\ stage[r] = "cleaned"
          /\ stage' = [stage EXCEPT ![r] = "receive"]
          /\ result' = [result EXCEPT ![r][k] = Empty]
      BY <2>3 DEF Signal, IInv, StagesFit
    <3>2. k \in Calls /\ OnlyRank(r)
      BY <1>0, <3>1 DEF Fits, OnlyRank
    <3>3. ResultTyped(Empty) /\ Empty # NoResult
      BY <1>0, EmptyTyped
    <3> QED BY <3>1, <3>2, <3>3, ResultGiven
  <2>4. CASE ReceiveFlags(r)
    <3>1. /\ prog' = prog /\ result' = result /\ calls' = calls /\ stage[r] = "receive"
          /\ stage' = [stage EXCEPT ![r] = "reduce"]
      BY <2>4 DEF ReceiveFlags
    <3>2. \A q \in Ranks : stage'[q] \in {"receive", "reduce"} => stage[q] \in {"receive", "reduce"}
      BY <1>0, <3>1
    <3> QED BY <3>1, <3>2, ResultsTypedFrame
  <2>5. CASE \E e \in Experts : Receive(r, e)
    BY <2>5, ReceiveTyped
  <2>6. CASE Reduce(r)
    BY <2>6, ReduceTyped
  <2>7. CASE StartClean(r) \/ ZeroBoth(r)
    <3>1. /\ prog' = prog /\ result' = result /\ calls' = calls
          /\ \E to \in {"open", "close"} : stage' = [stage EXCEPT ![r] = to]
      BY <2>7 DEF StartClean, ZeroBoth, Arrive
    <3>2. \A q \in Ranks : stage'[q] \in {"receive", "reduce"} => stage[q] = stage'[q]
      BY <1>0, <3>1
    <3> QED BY <3>1, <3>2, ResultsTypedFrame
  <2>8. CASE \E q \in Ranks : Meet(r, q)
    <3>1. /\ prog' = prog /\ result' = result
          /\ stage' = stage \/ \E to \in {"zero", "idle"} : stage' = [stage EXCEPT ![r] = to]
          /\ calls' = calls \/ (stage[r] = "close" /\ stage' = [stage EXCEPT ![r] = "idle"]
                                /\ calls' = [calls EXCEPT ![r] = @ + 1])
      BY <1>0, <2>8 DEF Meet
    <3>2. \A q \in Ranks : stage'[q] \in {"receive", "reduce"} => stage[q] = stage'[q] /\ calls'[q] = calls[q]
      BY <1>0, <3>1
    <3> QED BY <3>1, <3>2, ResultsTypedFrame
  <2> QED BY <1>1, <2>1, <2>2, <2>3, <2>4, <2>5, <2>6, <2>7, <2>8 DEF Step
<1>2. ASSUME NEW q \in DOMAIN wire, Land(q[1], q[2], q[3])
      PROVE  ResultsTyped'
  <2>1. prog' = prog /\ result' = result /\ calls' = calls /\ stage' = stage
    BY <1>2 DEF Land, callVars
  <2> QED BY <2>1, ResultsTypedFrame
<1>3. ASSUME NEW r \in Ranks, Fail(r)
      PROVE  FALSE
  BY <1>3 DEF Fail, NoFailures, IInv, Types
<1>4. CASE UNCHANGED vars
  BY <1>4, ResultsTypedFrame DEF vars
<1> QED BY <1>0, <1>1, <1>2, <1>3, <1>4 DEF Next, Work

LEMMA MessageTyped ==
  ASSUME IInv, PInv, WireShaped, NEW q \in DOMAIN wire, NEW i \in DOMAIN wire[q]
  PROVE  wire[q][i] \in Messages
<1>0. /\ prog \in Setups /\ DOMAIN wire = Ranks \X Ranks \X LocalExperts
      /\ Calls = 1 .. Len(prog.calls) /\ Len(prog.calls) \in Nat
  BY Sizes DEF IInv, Types
<1> PICK m : m = wire[q][i]
  OBVIOUS
<1>1. m = [buf |-> m.buf, moves |-> m.moves, word |-> m.word, value |-> m.value] /\ m.value \in Int
  BY DEF WireShaped, Shaped
<1>2. PICK s \in Ranks, d \in Ranks, le \in LocalExperts : q = <<s, d, le>>
  BY <1>0
<1>3. ASSUME NEW k \in Calls
      PROVE  Buf(k) \in Buffers /\ SignalWord(k, s, le) \in 0 .. NumWords - 1
  <2>1. Buf(k) \in Buffers
    BY <1>0, BuffersTurn
  <2> QED BY <1>0, <2>1, WordsApart
<1>4. NumWords \in Nat
  <2>1. prog.ranks \in Nat /\ prog.local \in Nat
    BY <1>0, Sizes
  <2> QED BY <2>1 DEF NumWords
<1>5. /\ m.buf \in Buffers /\ m.word \in -1 .. NumWords - 1
      /\ m.moves \in SUBSET (Slots \X Slots)
  <2>1. CASE m.word >= 0
    <3>1. PICK k \in Calls : SignalOf(k, s, d, le, i)
      BY <1>2, <2>1 DEF IInv, OnTheWay, IsSignal
    <3>2. m.buf = Buf(k) /\ m.word = SignalWord(k, s, le) /\ m.moves = {}
      BY <1>2, <3>1 DEF SignalOf
    <3> QED BY <1>3, <1>4, <3>2
  <2>2. CASE ~(m.word >= 0)
    <3>1. PICK k \in Calls : PutOfCall(k, s, d, le, i)
      BY <1>2, <2>2 DEF PInv, PutsKnown, IsPut
    <3>2. /\ NonClean(k) /\ m.buf = Buf(k) /\ m.word = -1
          /\ \E c \in Cargoes(k, s, d, le) : Carries(send[s][Buf(k)], m.moves, c)
      BY <1>2, <3>1 DEF PutOfCall
    <3>3. PICK c \in Cargoes(k, s, d, le) : Carries(send[s][Buf(k)], m.moves, c)
      BY <3>2
    <3>4. \A x \in c : x[1] \in Slots
      BY <1>0, <3>2, CargoInside
    <3>5. ASSUME NEW p \in m.moves
          PROVE  p \in Slots \X Slots
      <4>1. p = <<p[1], p[2]>> /\ p[1] \in Slots /\ <<p[2], send[s][Buf(k)][p[1]]>> \in c
        BY <3>3 DEF Carries
      <4>2. p[2] \in Slots
        BY <3>4, <4>1
      <4> QED BY <4>1, <4>2
    <3> QED BY <1>3, <1>4, <3>2, <3>5
  <2> QED BY <2>1, <2>2
<1> QED BY <1>1, <1>5 DEF Messages, Slots

LEMMA TypesCorrect ==
  ASSUME IInv, PInv, RInv, WordsTyped, WireShaped, ResultsTyped
  PROVE  TypeOK /\ NobodyMasked
<1>0. /\ prog \in Setups /\ alive = Ranks /\ mask = [r \in Ranks |-> {}]
      /\ calls \in [Ranks -> Nat] /\ stage \in [Ranks -> Stages]
      /\ \A r \in Ranks : calls[r] <= Len(prog.calls)
      /\ seen \in [Ranks -> SUBSET (Experts \cup Ranks)] /\ sync \in [Ranks -> [Ranks -> Int]]
      /\ DOMAIN wire = Ranks \X Ranks \X LocalExperts
      /\ \A q \in DOMAIN wire : IsSequence(wire[q])
      /\ Calls = 1 .. Len(prog.calls) /\ Len(prog.calls) \in Nat
  BY Sizes DEF IInv, Types
<1>1. calls \in [Ranks -> 0 .. Len(prog.calls)]
  <2>1. ASSUME NEW r \in Ranks
        PROVE  calls[r] \in 0 .. Len(prog.calls)
    <3>1. calls[r] \in Nat /\ calls[r] <= Len(prog.calls)
      BY <1>0
    <3> QED BY <1>0, <3>1
  <2> QED BY <1>0, <2>1
<1>2. {recv, send} \subseteq [Ranks -> [Buffers -> [0 .. NumSlots - 1 -> ItemSet]]]
  BY DEF PInv, Filled, Contents, Slots
<1>3. ASSUME NEW q \in DOMAIN wire
      PROVE  wire[q] \in Seq(Messages)
  <2> PICK t : t = wire[q]
    OBVIOUS
  <2>1. t \in Seq({t[i] : i \in DOMAIN t})
    BY <1>0 DEF IsSequence
  <2>2. {t[i] : i \in DOMAIN t} \subseteq Messages
    BY MessageTyped
  <2>3. t \in Seq(Messages)
    BY <2>1, <2>2
  <2> QED BY <2>3
<1>4. /\ DOMAIN result = Ranks /\ \A r \in Ranks : DOMAIN result[r] = Calls
      /\ \A r \in Ranks : \A k \in Calls : ResultTyped(result[r][k])
  BY DEF RInv, ResultsThere, ResultsTyped
<1>5. mask \in [Ranks -> SUBSET Ranks] /\ (\A r \in Ranks : r \notin mask[r]) /\ NobodyMasked
  BY <1>0 DEF NobodyMasked
<1> QED BY <1>0, <1>1, <1>2, <1>3, <1>4, <1>5 DEF TypeOK, WordsTyped, Numbers, Stages

\* Any setup without failing ranks: TypeOK, and nobody is ever masked.  What is on its way names
\* only words and slots that are there, and so do the calls' results: rows and terms that are
\* items, ranges of at most num_max_dispatch_tokens_per_rank tokens.
THEOREM TypeCorrect ==
  ASSUME NoFailures
  PROVE  Spec => [](TypeOK /\ NobodyMasked)
<1>1. Init => WordsTyped /\ WireShaped /\ ResultsTyped
  <2> SUFFICES ASSUME Init
               PROVE  WordsTyped /\ WireShaped /\ ResultsTyped
    OBVIOUS
  <2>1. words = [r \in Ranks |-> [b \in Buffers |-> [i \in 0 .. NumWords - 1 |->
                  IF prog.dirty THEN Dirt ELSE 0]]]
    BY DEF Init
  <2>2. Dirt \in Int
    BY DEF Dirt
  <2>3. WordsTyped
    BY <2>1, <2>2 DEF WordsTyped, Numbers
  <2>4. WireShaped
    <3>1. wire = [q \in Ranks \X Ranks \X LocalExperts |-> <<>>]
      BY DEF Init
    <3>2. DOMAIN <<>> = {}
      OBVIOUS
    <3> QED BY <3>1, <3>2 DEF WireShaped
  <2>5. ResultsTyped
    <3>1. result = [r \in Ranks |-> [k \in Calls |-> NoResult]] /\ stage = [r \in Ranks |-> "idle"]
      BY DEF Init
    <3> QED BY <3>1 DEF ResultsTyped, ResultTyped
  <2> QED BY <2>3, <2>4, <2>5
<1>2. ASSUME IInv, PInv, RInv, WordsTyped, WireShaped, ResultsTyped, [Next]_vars
      PROVE  WordsTyped' /\ WireShaped' /\ ResultsTyped'
  BY <1>2, WordsTypedStep, WireShapedStep, ResultsTypedStep
<1>3. IInv /\ PInv /\ RInv /\ WordsTyped /\ WireShaped /\ ResultsTyped => TypeOK /\ NobodyMasked
  BY TypesCorrect
<1> QED BY <1>1, <1>2, <1>3, DataInvariance, PTL DEF Spec

=============================================================================
