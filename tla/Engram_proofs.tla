--------------------------- MODULE Engram_proofs ---------------------------
(***************************************************************************)
(* Proofs about GpuBarrier and about Engram, which runs it, on grids of    *)
(* any shape and for any number of writes: what the two barriers in        *)
(* parallel guarantee after one call and after two, and that a fetch from  *)
(* the own node or rail returns exactly the table its owner wrote last.    *)
(***************************************************************************)
EXTENDS Engram, TLAPS

-----------------------------------------------------------------------------
(* The barriers.                                                           *)

LEMMA GridArithmetic ==
  /\ \A r \in Ranks : r \in Node(r) /\ r \in Rail(r)
  /\ \A r \in Ranks : \A q \in Node(r) : q \in Ranks
  /\ \A r \in Ranks : \A q \in Rail(r) : q \in Ranks
BY DEF Node, Rail

LEMMA CountTypes ==
  ASSUME BarrierTypeOK
  PROVE  /\ calls \in [Ranks -> Nat] /\ done \in [Ranks -> Nat]
         /\ upEntered \in [Ranks -> Nat] /\ upLeft \in [Ranks -> Nat]
         /\ outEntered \in [Ranks -> Nat] /\ outLeft \in [Ranks -> Nat]
BY DEF BarrierTypeOK

LEMMA IInvInit == BarrierInit => BarrierIInv
BY GridArithmetic DEF BarrierInit, Up!Init, Out!Init, BarrierIInv, BarrierTypeOK

LEMMA IInvStep == BarrierIInv /\ [BarrierNext]_barrierVars => BarrierIInv'
<1> SUFFICES ASSUME BarrierIInv, [BarrierNext]_barrierVars
             PROVE  BarrierIInv'
  OBVIOUS
<1>0. /\ calls \in [Ranks -> Nat] /\ done \in [Ranks -> Nat]
      /\ upEntered \in [Ranks -> Nat] /\ upLeft \in [Ranks -> Nat]
      /\ outEntered \in [Ranks -> Nat] /\ outLeft \in [Ranks -> Nat]
  BY CountTypes DEF BarrierIInv
<1>1. ASSUME NEW r \in Ranks, Launch(r)
      PROVE  BarrierIInv'
  BY <1>0, <1>1, GridArithmetic DEF Launch, upVars, outVars, BarrierIInv, BarrierTypeOK
<1>2. ASSUME NEW r \in Ranks, DoScaleup, upEntered[r] < calls[r], Up!Enter(r),
             UNCHANGED <<calls, done, outVars>>
      PROVE  BarrierIInv'
  BY <1>0, <1>2, GridArithmetic DEF Up!Enter, outVars, BarrierIInv, BarrierTypeOK
<1>3. ASSUME NEW r \in Ranks, DoScaleup, Up!Leave(r), UNCHANGED <<calls, done, outVars>>
      PROVE  BarrierIInv'
  BY <1>0, <1>3, GridArithmetic DEF Up!Leave, outVars, BarrierIInv, BarrierTypeOK
<1>4. ASSUME NEW r \in Ranks, DoScaleout, outEntered[r] < calls[r], Out!Enter(r),
             UNCHANGED <<calls, done, upVars>>
      PROVE  BarrierIInv'
  BY <1>0, <1>4, GridArithmetic DEF Out!Enter, upVars, BarrierIInv, BarrierTypeOK
<1>5. ASSUME NEW r \in Ranks, DoScaleout, Out!Leave(r), UNCHANGED <<calls, done, upVars>>
      PROVE  BarrierIInv'
  BY <1>0, <1>5, GridArithmetic DEF Out!Leave, upVars, BarrierIInv, BarrierTypeOK
<1>6. ASSUME NEW r \in Ranks, Complete(r)
      PROVE  BarrierIInv'
  BY <1>0, <1>6, GridArithmetic DEF Complete, upVars, outVars, BarrierIInv, BarrierTypeOK
<1>7. CASE UNCHANGED barrierVars
  BY <1>7 DEF barrierVars, BarrierIInv, BarrierTypeOK
<1>8. QED
  BY <1>1, <1>2, <1>3, <1>4, <1>5, <1>6, <1>7
     DEF BarrierNext, KernelStep, ScaleupBarrier, ScaleoutBarrier

THEOREM Invariance == BarrierSpec => []BarrierIInv
BY IInvInit, IInvStep, PTL DEF BarrierSpec

\* Ranks of one node, and of one rail, never drift apart by more than the call they are in.
LEMMA LinkedTogether ==
  ASSUME BarrierIInv, NEW r \in Ranks, NEW q \in Linked(r)
  PROVE  done[r] <= calls[q]
<1>0. /\ calls \in [Ranks -> Nat] /\ done \in [Ranks -> Nat]
      /\ upEntered \in [Ranks -> Nat] /\ upLeft \in [Ranks -> Nat]
      /\ outEntered \in [Ranks -> Nat] /\ outLeft \in [Ranks -> Nat]
  BY CountTypes DEF BarrierIInv
<1>1. q \in Ranks
  BY GridArithmetic DEF Linked
<1>2. CASE q = r
  BY <1>0, <1>2 DEF BarrierIInv
<1>3. CASE q \in Node(r) /\ DoScaleup
  BY <1>0, <1>1, <1>3 DEF BarrierIInv
<1>4. CASE q \in Rail(r) /\ DoScaleout
  BY <1>0, <1>1, <1>4 DEF BarrierIInv
<1>5. CASE q \in Node(r) /\ ~DoScaleup
  <2>1. NumScaleup = 1
    BY <1>5, GridAssumption DEF DoScaleup
  <2>2. q = r
    BY <1>1, <1>5, <2>1, GridAssumption DEF Node, ScaleoutIdx, Ranks
  <2>3. QED
    BY <1>2, <2>2
<1>6. CASE q \in Rail(r) /\ ~DoScaleout
  <2>1. NumScaleout = 1
    BY <1>6, GridAssumption DEF DoScaleout
  <2>2. Ranks = 0 .. NumScaleup - 1
    BY <2>1, GridAssumption DEF Ranks
  <2>3. q = r
    BY <1>1, <1>6, <2>2, GridAssumption DEF Rail, ScaleupIdx
  <2>4. QED
    BY <1>2, <2>3
<1>7. QED
  BY <1>3, <1>4, <1>5, <1>6 DEF Linked

-----------------------------------------------------------------------------
LEMMA Quotient ==
  ASSUME NEW n \in Nat, n >= 1, NEW a \in Nat, NEW b \in Nat, b < n
  PROVE  (a * n + b) \div n = a /\ (a * n + b) % n = b
<1> DEFINE m == a * n + b
           d == m \div n
           e == m % n
<1>1. a * n \in Nat /\ m \in Nat
  OBVIOUS
<1>2. d \in Int /\ e \in 0 .. n - 1 /\ m = n * d + e
  BY <1>1
<1>3. ~(d < a)
  <2>1. d < a => n * (d + 1) <= n * a
    BY <1>2
  <2>2. n * (d + 1) = n * d + n /\ n * a = a * n
    BY <1>2
  <2>3. QED
    BY <1>1, <1>2, <2>1, <2>2
<1>4. ~(a < d)
  <2>1. a < d => n * (a + 1) <= n * d
    BY <1>2
  <2>2. n * (a + 1) = a * n + n /\ n * d \in Int
    BY <1>2
  <2>3. QED
    BY <1>1, <1>2, <2>1, <2>2
<1>5. d = a
  BY <1>2, <1>3, <1>4
<1>6. n * a = a * n
  OBVIOUS
<1>7. e = b
  BY <1>1, <1>2, <1>5, <1>6
<1>8. QED
  BY <1>5, <1>7

\* Every node meets every rail: some rank is on the node of r and on the rail of q.
LEMMA CrossingRank ==
  ASSUME NEW r \in Ranks, NEW q \in Ranks
  PROVE  \E m \in Ranks : m \in Linked(r) /\ q \in Linked(m)
<1> DEFINE n == NumScaleup
           a == r \div n
           b == q % n
           m == a * n + b
<1>0. n \in Nat /\ n >= 1 /\ NumScaleout \in Nat
  BY GridAssumption
<1>1. r \in Nat /\ q \in Nat /\ r < NumScaleout * n
  BY <1>0 DEF Ranks
<1>2. a \in Nat /\ b \in Nat /\ b < n
  BY <1>0, <1>1
<1>3. a * n \in Nat /\ a * n <= r
  BY <1>0, <1>1
<1>4. a < NumScaleout
  BY <1>0, <1>1, <1>2, <1>3
<1>5. a * n + n <= NumScaleout * n
  BY <1>0, <1>2, <1>4
<1>6. m \in Ranks
  BY <1>0, <1>2, <1>3, <1>5 DEF Ranks
<1>7. m \div n = a /\ m % n = b
  BY <1>0, <1>2, Quotient
<1>8. QED
  BY <1>6, <1>7 DEF Linked, Node, Rail, ScaleoutIdx, ScaleupIdx

\* After two barriers the synchronisation has reached the whole grid.
THEOREM TwoBarriers == BarrierSpec => []TwoBarriersReachAll
<1>1. BarrierIInv => TwoBarriersReachAll
  <2> SUFFICES ASSUME BarrierIInv, NEW r \in Ranks, NEW q \in Ranks
               PROVE  done[r] <= calls[q] + 1
    BY DEF TwoBarriersReachAll
  <2>1. PICK m \in Ranks : m \in Linked(r) /\ q \in Linked(m)
    BY CrossingRank
  <2>2. done[r] <= calls[m] /\ done[m] <= calls[q]
    BY <2>1, LinkedTogether
  <2>3. calls[m] <= done[m] + 1
    BY DEF BarrierIInv
  <2>4. QED
    BY <2>2, <2>3, CountTypes DEF BarrierIInv
<1>2. QED
  BY <1>1, Invariance, PTL

\* The two barriers in parallel are a barrier of every rank with its node and its rail.
THEOREM Refinement == BarrierSpec => ImplementsPartnerBarrier
<1>0. BarrierIInv => \A r \in Ranks : \A q \in Linked(r) : done[r] <= calls[q]
  BY LinkedTogether
<1>1. BarrierInit => B!Init
  BY DEF BarrierInit, B!Init
<1>2. BarrierIInv' => (\A r \in Ranks : \A q \in Linked(r) : done[r] <= calls[q])'
  BY <1>0, PTL
<1>3. BarrierIInv /\ BarrierIInv' /\ [BarrierNext]_barrierVars => [B!Next]_B!vars
  <2> SUFFICES ASSUME BarrierIInv, BarrierIInv', [BarrierNext]_barrierVars
               PROVE  [B!Next]_B!vars
    OBVIOUS
  <2>0. calls \in [Ranks -> Nat] /\ done \in [Ranks -> Nat]
    BY CountTypes DEF BarrierIInv
  <2>1. ASSUME NEW r \in Ranks, Launch(r)
        PROVE  B!Enter(r)
    BY <2>1 DEF Launch, B!Enter
  <2>2. ASSUME NEW r \in Ranks, Complete(r)
        PROVE  B!Leave(r)
    <3>1. /\ done[r] < calls[r] /\ calls' = calls
          /\ done' = [done EXCEPT ![r] = @ + 1]
      BY <2>2 DEF Complete
    <3>2. \A q \in Linked(r) : calls[q] >= calls[r]
      <4> SUFFICES ASSUME NEW q \in Linked(r)
                   PROVE  calls[q] >= calls[r]
        OBVIOUS
      <4>1. (done[r] <= calls[q])'
        BY <1>2
      <4>2. done'[r] = done[r] + 1 /\ calls[r] <= done[r] + 1
        BY <2>0, <3>1 DEF BarrierIInv
      <4>3. q \in Ranks
        BY GridArithmetic DEF Linked
      <4>4. QED
        BY <2>0, <3>1, <4>1, <4>2, <4>3
    <3>3. QED
      BY <3>1, <3>2 DEF B!Leave
  <2>3. CASE UNCHANGED <<calls, done>>
    BY <2>3 DEF B!vars
  <2>4. QED
    BY <2>1, <2>2, <2>3 DEF BarrierNext, KernelStep, ScaleupBarrier, ScaleoutBarrier,
                            barrierVars, B!Next
<1>4. QED
  BY <1>1, <1>3, Invariance, PTL DEF BarrierSpec, B!Spec, ImplementsPartnerBarrier

-----------------------------------------------------------------------------
(* The steps of the barriers below, and the places of the tables.          *)

LEMMA BarrierPart == [Next]_allVars => [BarrierNext]_barrierVars
BY DEF Next, allVars, barrierVars, BarrierNext, WriteAfterHook, WriteEnter, Write, CopyBegin,
       CopyEnd, WriteReturn, Fetch, FetchIssue, GetLands, Hook, BarrierStep

LEMMA BarrierHolds ==
  /\ Init => BarrierIInv
  /\ BarrierIInv /\ [Next]_allVars => BarrierIInv'
BY IInvInit, IInvStep, BarrierPart DEF Init

\* A fetch looks for a table where its owner wrote it, and no two owners share a place.
LEMMA PlacesAgree ==
  ASSUME NEW r \in Ranks
  PROVE  /\ ReadSegment(r) = WriteSegment(r) /\ WriteSegment(r) \in Segments
         /\ ReadPlace(r) = WritePlace(r) /\ WritePlace(r) \in Places
<1>0. /\ NumScaleup \in Nat /\ NumScaleup >= 1 /\ NumScaleout \in Nat /\ NumScaleout >= 1
      /\ r \in Nat /\ Hybrid \in BOOLEAN
  BY GridAssumption, HybridAssumption DEF Ranks
<1>1. CASE Hybrid
  <2>1. ReadSegment(r) = WriteSegment(r) /\ ReadPlace(r) = WritePlace(r)
    BY <1>1 DEF ReadSegment, ReadPlace, RanksPerPeer, WriteSegment, WritePlace, ScaleoutIdx, ScaleupIdx
  <2>2. r \div NumScaleup \in 0 .. r /\ r % NumScaleup \in 0 .. NumScaleup - 1
    BY <1>0
  <2>3. QED
    BY <1>0, <1>1, <2>1, <2>2
       DEF WriteSegment, WritePlace, ScaleoutIdx, ScaleupIdx, Segments, Places, Ranks
<1>2. CASE ~Hybrid
  <2>1. r \div 1 = r /\ r % 1 = 0
    BY <1>0
  <2>2. QED
    BY <1>0, <1>2, <2>1
       DEF ReadSegment, ReadPlace, RanksPerPeer, WriteSegment, WritePlace, Segments, Places, Ranks
<1>3. QED
  BY <1>0, <1>1, <1>2

LEMMA DivMod ==
  ASSUME NEW n \in Nat, n >= 1, NEW m \in Nat
  PROVE  /\ m = n * (m \div n) + (m % n)
         /\ m \div n \in Nat /\ m % n \in Nat
<1> DEFINE d == m \div n
           e == m % n
<1>1. d \in Int /\ d \in Nat
  OBVIOUS
<1>2. e \in 0 .. n - 1
  OBVIOUS
<1>3. m = n * d + e
  OBVIOUS
<1>4. e \in Nat
  BY <1>2
<1>5. QED
  BY <1>1, <1>3, <1>4, Zenon

LEMMA PlacesApart ==
  ASSUME NEW r \in Ranks, NEW q \in Ranks, r # q
  PROVE  WriteSegment(r) # WriteSegment(q) \/ WritePlace(r) # WritePlace(q)
<1>0. NumScaleup \in Nat /\ NumScaleup >= 1 /\ r \in Nat /\ q \in Nat /\ Hybrid \in BOOLEAN
  BY GridAssumption, HybridAssumption DEF Ranks
<1>1. CASE Hybrid
  <2>1. /\ r = NumScaleup * (r \div NumScaleup) + (r % NumScaleup)
        /\ q = NumScaleup * (q \div NumScaleup) + (q % NumScaleup)
    BY <1>0, DivMod
  <2>2. r \div NumScaleup # q \div NumScaleup \/ r % NumScaleup # q % NumScaleup
    <3>1. SUFFICES ASSUME r \div NumScaleup = q \div NumScaleup, r % NumScaleup = q % NumScaleup
          PROVE  r = q
      OBVIOUS
    <3>2. QED
      BY <2>1, <3>1, Zenon
  <2>3. QED
    BY <1>1, <2>2 DEF WriteSegment, WritePlace, ScaleoutIdx, ScaleupIdx
<1>2. QED
  BY <1>0, <1>1 DEF WriteSegment

LEMMA ZeroRank == 0 \in Ranks
<1>1. NumScaleout * NumScaleup >= NumScaleup
  BY GridAssumption
<1>2. QED
  BY <1>1, GridAssumption DEF Ranks

\* To be on the node or the rail of a rank is mutual.
LEMMA LinkedMutual ==
  ASSUME NEW r \in Ranks, NEW q \in Linked(r)
  PROVE  q \in Ranks /\ r \in Linked(q)
BY DEF Linked, Node, Rail

-----------------------------------------------------------------------------
(* The invariant.                                                          *)

LEMMA EngramInit == Init => EngramIInv
<1> SUFFICES ASSUME Init
             PROVE  EngramIInv
  OBVIOUS
<1>1. BarrierIInv
  BY BarrierHolds
<1>2. 0 \in Ranks
  BY ZeroRank
<1>3. TypeOK
  <2>1. NoTable \in Tables
    BY <1>2 DEF NoTable, Tables
  <2>2. NoFetch \in [owner : Ranks, want : Nat, got : Tables \cup {Torn, Pending}, live : BOOLEAN]
    BY <1>2 DEF NoFetch
  <2>3. QED
    BY <1>1, <2>1, <2>2 DEF Init, TypeOK, BarrierIInv
<1>4. \A r \in Ranks : InStep(r)
  BY DEF Init, InStep, BarrierInit
<1>5. \A r \in Ranks : TableInPlace(r)
  BY DEF Init, TableInPlace
<1>6. \A r \in Ranks : FetchHeld(r)
  BY DEF Init, FetchHeld, NoFetch, Exact
<1>7. QED
  BY <1>1, <1>3, <1>4, <1>5, <1>6 DEF EngramIInv

\* While a rank with version w is outside engram_write, every rank on its node or rail has its
\* own w-th table, whole: it may have begun its next write but not passed the barrier of it.
LEMMA OwnerReady ==
  ASSUME EngramIInv, NEW r \in Ranks, NEW q \in Linked(r),
         step[r] = "idle", written[r] > 0
  PROVE  mem[ReadSegment(q)][ReadPlace(q)] = Table(q, written[r])
<1>1. q \in Ranks /\ r \in Linked(q)
  BY LinkedMutual
<1>2. /\ calls[r] \in Nat /\ calls[q] \in Nat /\ done[r] \in Nat /\ done[q] \in Nat
      /\ written[r] \in Nat /\ written[q] \in Nat
      /\ step[q] \in {"idle", "enter", "copy", "leave"}
  BY <1>1, CountTypes DEF EngramIInv, TypeOK
<1>3. done[r] <= calls[q] /\ done[q] <= calls[r] /\ calls[q] <= done[q] + 1
  BY <1>1, LinkedTogether DEF EngramIInv, BarrierIInv
<1>4. calls[r] = 2 * written[r] /\ done[r] = calls[r]
  BY DEF EngramIInv, InStep
<1>5. InStep(q) /\ TableInPlace(q)
  BY <1>1 DEF EngramIInv
<1>6. CASE step[q] \in {"idle", "enter"}
  <2>1. written[q] = written[r]
    BY <1>2, <1>3, <1>4, <1>5, <1>6 DEF InStep
  <2>2. QED
    BY <1>5, <1>6, <2>1 DEF TableInPlace
<1>7. CASE step[q] = "copy"
  BY <1>2, <1>3, <1>4, <1>5, <1>7 DEF InStep
<1>8. CASE step[q] = "leave"
  <2>1. written[q] + 1 = written[r]
    BY <1>2, <1>3, <1>4, <1>5, <1>8 DEF InStep
  <2>2. QED
    BY <1>5, <1>8, <2>1 DEF TableInPlace
<1>9. QED
  BY <1>2, <1>6, <1>7, <1>8

\* What one rank's step leaves alone of another.
LEMMA OthersKept ==
  ASSUME EngramIInv, NEW r \in Ranks, NEW q \in Ranks \ {r},
         \/ UNCHANGED mem
         \/ \E t \in Tables \cup {Torn} :
              mem' = [mem EXCEPT ![WriteSegment(r)][WritePlace(r)] = t],
         calls'[q] = calls[q], done'[q] = done[q], step'[q] = step[q],
         written'[q] = written[q], fetch'[q] = fetch[q]
  PROVE  InStep(q)' /\ TableInPlace(q)' /\ FetchHeld(q)'
<1>1. InStep(q)'
  BY DEF EngramIInv, InStep
<1>2. FetchHeld(q)'
  BY DEF EngramIInv, FetchHeld, Exact
<1>3. mem'[ReadSegment(q)][ReadPlace(q)] = mem[ReadSegment(q)][ReadPlace(q)]
  <2>1. mem \in [Segments -> [Places -> Tables \cup {Torn}]]
    BY DEF EngramIInv, TypeOK
  <2>2. QED
    BY <2>1, PlacesAgree, PlacesApart
<1>4. TableInPlace(q)'
  BY <1>3 DEF EngramIInv, TableInPlace
<1>5. QED
  BY <1>1, <1>2, <1>4

\* The table a rank has written into its own place.
LEMMA OwnPlace ==
  ASSUME EngramIInv, NEW r \in Ranks, NEW t \in Tables \cup {Torn},
         mem' = [mem EXCEPT ![WriteSegment(r)][WritePlace(r)] = t]
  PROVE  /\ mem' \in [Segments -> [Places -> Tables \cup {Torn}]]
         /\ mem'[ReadSegment(r)][ReadPlace(r)] = t
BY PlacesAgree DEF EngramIInv, TypeOK

LEMMA EngramStep == EngramIInv /\ [Next]_allVars => EngramIInv'
<1> SUFFICES ASSUME EngramIInv, [Next]_allVars
             PROVE  EngramIInv'
  OBVIOUS
<1>1. BarrierIInv'
  BY BarrierHolds DEF EngramIInv
<1>2. /\ TypeOK /\ BarrierTypeOK' /\ BarrierIInv
      /\ calls \in [Ranks -> Nat] /\ done \in [Ranks -> Nat] /\ written \in [Ranks -> Nat]
      /\ step \in [Ranks -> {"idle", "enter", "copy", "leave"}]
      /\ mem \in [Segments -> [Places -> Tables \cup {Torn}]]
      /\ fetch \in [Ranks -> [owner : Ranks, want : Nat, got : Tables \cup {Torn, Pending},
                              live : BOOLEAN]]
  BY <1>1, CountTypes DEF EngramIInv, TypeOK, BarrierIInv
\* It is enough to look at the types and at the rank that takes the step.
<1>3. ASSUME NEW r \in Ranks, TypeOK',
             InStep(r)', TableInPlace(r)', FetchHeld(r)',
             \A q \in Ranks \ {r} : InStep(q)' /\ TableInPlace(q)' /\ FetchHeld(q)'
      PROVE  EngramIInv'
  <2>1. ASSUME NEW q \in Ranks
        PROVE  InStep(q)' /\ TableInPlace(q)' /\ FetchHeld(q)'
    BY <1>3
  <2>2. QED
    BY <1>1, <1>3, <2>1 DEF EngramIInv
<1>4. ASSUME NEW r \in Ranks, WriteAfterHook(r)
      PROVE  EngramIInv'
  <2>1. /\ step[r] = "idle" /\ ~fetch[r].live
        /\ calls' = [calls EXCEPT ![r] = @ + 1] /\ step' = [step EXCEPT ![r] = "enter"]
        /\ UNCHANGED <<done, written, mem, fetch>>
    BY <1>4 DEF WriteAfterHook, WriteEnter, Launch
  <2>2. TypeOK'
    BY <1>2, <2>1 DEF TypeOK
  <2>3. InStep(r)'
    BY <1>2, <2>1 DEF EngramIInv, InStep
  <2>4. TableInPlace(r)' /\ FetchHeld(r)'
    BY <1>2, <2>1 DEF EngramIInv, TableInPlace, FetchHeld, Exact
  <2>5. \A q \in Ranks \ {r} : InStep(q)' /\ TableInPlace(q)' /\ FetchHeld(q)'
    BY <1>2, <2>1, OthersKept
  <2>6. QED
    BY <1>3, <2>2, <2>3, <2>4, <2>5
<1>5. ASSUME NEW r \in Ranks, CopyBegin(r)
      PROVE  EngramIInv'
  <2>1. /\ step[r] = "enter" /\ calls[r] = done[r]
        /\ mem' = [mem EXCEPT ![WriteSegment(r)][WritePlace(r)] = Torn]
        /\ step' = [step EXCEPT ![r] = "copy"]
        /\ UNCHANGED <<calls, done, written, fetch>>
    BY <1>5 DEF CopyBegin, barrierVars
  <2>2. TypeOK'
    BY <1>2, <2>1, OwnPlace DEF TypeOK
  <2>3. InStep(r)' /\ TableInPlace(r)'
    BY <1>2, <2>1 DEF EngramIInv, InStep, TableInPlace
  <2>4. FetchHeld(r)'
    BY <1>2, <2>1 DEF EngramIInv, FetchHeld, Exact
  <2>5. \A q \in Ranks \ {r} : InStep(q)' /\ TableInPlace(q)' /\ FetchHeld(q)'
    BY <1>2, <2>1, OthersKept
  <2>6. QED
    BY <1>3, <2>2, <2>3, <2>4, <2>5
<1>6. ASSUME NEW r \in Ranks, CopyEnd(r)
      PROVE  EngramIInv'
  <2>1. /\ step[r] = "copy"
        /\ mem' = [mem EXCEPT ![WriteSegment(r)][WritePlace(r)] = Table(r, written[r] + 1)]
        /\ calls' = [calls EXCEPT ![r] = @ + 1] /\ step' = [step EXCEPT ![r] = "leave"]
        /\ UNCHANGED <<done, written, fetch>>
    BY <1>6 DEF CopyEnd, Launch
  <2>2. Table(r, written[r] + 1) \in Tables
    BY <1>2 DEF Table, Tables
  <2>3. TypeOK'
    BY <1>2, <2>1, <2>2, OwnPlace DEF TypeOK
  <2>4. InStep(r)'
    BY <1>2, <2>1 DEF EngramIInv, InStep
  <2>5. TableInPlace(r)'
    BY <1>2, <2>1, <2>2, OwnPlace DEF TableInPlace
  <2>6. FetchHeld(r)'
    BY <1>2, <2>1 DEF EngramIInv, FetchHeld, Exact
  <2>7. \A q \in Ranks \ {r} : InStep(q)' /\ TableInPlace(q)' /\ FetchHeld(q)'
    BY <1>2, <2>1, <2>2, OthersKept
  <2>8. QED
    BY <1>3, <2>3, <2>4, <2>5, <2>6, <2>7
<1>7. ASSUME NEW r \in Ranks, WriteReturn(r)
      PROVE  EngramIInv'
  <2>1. /\ step[r] = "leave" /\ calls[r] = done[r]
        /\ written' = [written EXCEPT ![r] = @ + 1] /\ step' = [step EXCEPT ![r] = "idle"]
        /\ UNCHANGED <<calls, done, mem, fetch>>
    BY <1>7 DEF WriteReturn, barrierVars
  <2>2. TypeOK'
    BY <1>2, <2>1 DEF TypeOK
  <2>3. InStep(r)'
    BY <1>2, <2>1 DEF EngramIInv, InStep
  <2>4. TableInPlace(r)' /\ FetchHeld(r)'
    BY <1>2, <2>1 DEF EngramIInv, TableInPlace, FetchHeld, Exact
  <2>5. \A q \in Ranks \ {r} : InStep(q)' /\ TableInPlace(q)' /\ FetchHeld(q)'
    BY <1>2, <2>1, OthersKept
  <2>6. QED
    BY <1>3, <2>2, <2>3, <2>4, <2>5
\* A fetch changes the record of the rank and nothing else.
<1>8. ASSUME NEW r \in Ranks,
             NEW f \in [owner : Ranks, want : Nat, got : Tables \cup {Torn, Pending}, live : BOOLEAN],
             fetch' = [fetch EXCEPT ![r] = f], UNCHANGED <<barrierVars, step, written, mem>>,
             f.live => step[r] = "idle" /\ written[r] > 0 /\ f.want = written[r],
             f.owner \in Linked(r) => Exact(f)
      PROVE  EngramIInv'
  <2>1. UNCHANGED <<calls, done, step, written, mem>>
    BY <1>8 DEF barrierVars
  <2>2. TypeOK'
    BY <1>2, <1>8, <2>1 DEF TypeOK
  <2>3. InStep(r)' /\ TableInPlace(r)'
    BY <2>1 DEF EngramIInv, InStep, TableInPlace
  <2>4. FetchHeld(r)'
    BY <1>2, <1>8, <2>1 DEF FetchHeld
  <2>5. \A q \in Ranks \ {r} : InStep(q)' /\ TableInPlace(q)' /\ FetchHeld(q)'
    BY <1>2, <1>8, <2>1, OthersKept
  <2>6. QED
    BY <1>3, <2>2, <2>3, <2>4, <2>5
<1>9. ASSUME NEW r \in Ranks, NEW owner \in Ranks, FetchIssue(r, owner)
      PROVE  EngramIInv'
  <2> DEFINE f == [owner |-> owner, want |-> written[r], got |-> Pending, live |-> TRUE]
  <2>1. f \in [owner : Ranks, want : Nat, got : Tables \cup {Torn, Pending}, live : BOOLEAN]
    BY <1>2
  <2>2. Exact(f)
    BY DEF Exact
  <2>3. QED
    BY <1>8, <1>9, <2>1, <2>2 DEF FetchIssue
<1>10. ASSUME NEW r \in Ranks, GetLands(r)
       PROVE  EngramIInv'
  <2> DEFINE t == mem[ReadSegment(fetch[r].owner)][ReadPlace(fetch[r].owner)]
             f == [fetch[r] EXCEPT !.got = t]
  <2>1. /\ fetch[r].live /\ fetch[r].owner \in Ranks
        /\ fetch' = [fetch EXCEPT ![r] = f] /\ UNCHANGED <<barrierVars, step, written, mem>>
    BY <1>2, <1>10 DEF GetLands
  <2>2. t \in Tables \cup {Torn}
    BY <1>2, <2>1, PlacesAgree
  <2>3. /\ f \in [owner : Ranks, want : Nat, got : Tables \cup {Torn, Pending}, live : BOOLEAN]
        /\ f.owner = fetch[r].owner /\ f.want = fetch[r].want /\ f.got = t /\ f.live = fetch[r].live
    BY <1>2, <2>2
  <2>4. step[r] = "idle" /\ written[r] > 0 /\ fetch[r].want = written[r]
    BY <2>1 DEF EngramIInv, FetchHeld
  <2>5. ASSUME f.owner \in Linked(r)
        PROVE  Exact(f)
    <3>1. t = Table(fetch[r].owner, written[r])
      BY <2>3, <2>4, <2>5, OwnerReady
    <3>2. QED
      BY <2>3, <2>4, <3>1 DEF Exact
  <2> HIDE DEF f
  <2>6. QED
    BY <1>8, <2>1, <2>3, <2>4, <2>5
<1>11. ASSUME NEW r \in Ranks, Hook(r)
       PROVE  EngramIInv'
  <2>1. 0 \in Ranks
    BY ZeroRank
  <2>2. /\ NoFetch \in [owner : Ranks, want : Nat, got : Tables \cup {Torn, Pending}, live : BOOLEAN]
        /\ ~NoFetch.live /\ Exact(NoFetch)
    BY <2>1 DEF NoFetch, Exact
  <2>3. QED
    BY <1>8, <1>11, <2>2 DEF Hook
<1>12. ASSUME NEW r \in Ranks, BarrierStep(r)
       PROVE  EngramIInv'
  <2>1. UNCHANGED <<step, written, mem, fetch>> /\ KernelStep(r)
    BY <1>12 DEF BarrierStep
  <2>2. UNCHANGED calls
    BY <2>1 DEF KernelStep, ScaleupBarrier, ScaleoutBarrier, Complete
  <2>3. \A q \in Ranks : done[q] = calls[q] => done'[q] = done[q]
    BY <1>2, <2>1, <2>2 DEF KernelStep, ScaleupBarrier, ScaleoutBarrier, Complete
  <2>4. TypeOK'
    BY <1>2, <2>1 DEF TypeOK
  <2>5. \A q \in Ranks : InStep(q)'
    BY <2>1, <2>2, <2>3 DEF EngramIInv, InStep
  <2>6. \A q \in Ranks : TableInPlace(q)' /\ FetchHeld(q)'
    BY <2>1 DEF EngramIInv, TableInPlace, FetchHeld, Exact
  <2>7. QED
    BY <1>1, <2>4, <2>5, <2>6 DEF EngramIInv
<1>13. CASE UNCHANGED allVars
  <2>1. TypeOK'
    BY <1>2, <1>13 DEF allVars, TypeOK
  <2>2. \A q \in Ranks : InStep(q)' /\ TableInPlace(q)' /\ FetchHeld(q)'
    BY <1>13 DEF allVars, EngramIInv, InStep, TableInPlace, FetchHeld, Exact
  <2>3. QED
    BY <1>1, <2>1, <2>2 DEF EngramIInv
<1>14. QED
  BY <1>4, <1>5, <1>6, <1>7, <1>9, <1>10, <1>11, <1>12, <1>13 DEF Next, Write, Fetch

\* EngramIInv holds in every state, whatever the grid, with shared segments or without.
THEOREM EngramInvariance == Spec => []EngramIInv
BY EngramInit, EngramStep, PTL DEF Spec

\* Type correctness of Engram and of the barriers it uses.
THEOREM EngramTypes == Spec => []TypeOK
<1>1. EngramIInv => TypeOK
  BY DEF EngramIInv
<1>2. QED
  BY <1>1, EngramInvariance, PTL

\* A fetch from a rank on the own node or rail returns the table that its owner wrote in
\* the same engram_write as the caller: not the one before, not the next, and whole.
THEOREM FetchCorrect == Spec => []PartnerFetchExact
<1>1. EngramIInv => PartnerFetchExact
  BY DEF EngramIInv, FetchHeld, PartnerFetchExact
<1>2. QED
  BY <1>1, EngramInvariance, PTL

\* In a grid of one node, or of nodes of one rank, every owner is a partner and the promise
\* of engram_write holds in full: what it lacks is a barrier that crosses node and rail.
THEOREM FetchCorrectOnOneLevel ==
  NumScaleout = 1 \/ NumScaleup = 1 => (Spec => []FetchExact)
<1>1. ASSUME NumScaleout = 1 \/ NumScaleup = 1, NEW r \in Ranks, NEW q \in Ranks
      PROVE  q \in Linked(r)
  <2>0. r \in Nat /\ q \in Nat /\ NumScaleup \in Nat /\ NumScaleup >= 1
    BY GridAssumption DEF Ranks
  <2>1. CASE NumScaleout = 1
    <3>1. r \div NumScaleup = 0 /\ q \div NumScaleup = 0
      BY <2>0, <2>1 DEF Ranks
    <3>2. QED
      BY <3>1 DEF Linked, Node, ScaleoutIdx
  <2>2. CASE NumScaleup = 1
    <3>1. r % NumScaleup = 0 /\ q % NumScaleup = 0
      BY <2>0, <2>2
    <3>2. QED
      BY <3>1 DEF Linked, Rail, ScaleupIdx
  <2>3. QED
    BY <1>1, <2>1, <2>2
<1>2. ASSUME NumScaleout = 1 \/ NumScaleup = 1
      PROVE  EngramIInv => FetchExact
  <2>1. ASSUME EngramIInv, NEW r \in Ranks
        PROVE  Exact(fetch[r])
    <3>1. fetch[r].owner \in Ranks
      BY <2>1 DEF EngramIInv, TypeOK
    <3>2. fetch[r].owner \in Linked(r)
      BY <1>1, <1>2, <3>1
    <3>3. QED
      BY <2>1, <3>2 DEF EngramIInv, FetchHeld
  <2>2. QED
    BY <2>1 DEF FetchExact
<1>3. SUFFICES ASSUME NumScaleout = 1 \/ NumScaleup = 1
      PROVE  Spec => []FetchExact
  OBVIOUS
<1>4. QED
  BY <1>2, <1>3, EngramInvariance, PTL

\* The barriers inside engram_write are those of GpuBarrier: their guarantees hold here.
THEOREM EngramBarriers == Spec => [](TwoBarriersReachAll) /\ ImplementsPartnerBarrier
<1>1. Init => BarrierInit
  BY DEF Init
<1>2. Spec => BarrierSpec
  BY <1>1, BarrierPart, PTL DEF Spec, BarrierSpec
<1>3. QED
  BY <1>2, TwoBarriers, Refinement, PTL

=============================================================================
