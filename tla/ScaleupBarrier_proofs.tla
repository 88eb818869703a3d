----------------------- MODULE ScaleupBarrier_proofs -----------------------
(***************************************************************************)
(* Proofs about the barrier of a scale-up domain of any size: the two      *)
(* signal words of NVLBarrier and the signals of GinBarrier each implement *)
(* the barrier among all members, with a flush Gin publishes their data,   *)
(* and so does ScaleupBarrier, whichever form is compiled in.              *)
(***************************************************************************)
EXTENDS ScaleupBarrier, FiniteSetTheorems, TLAPS

-----------------------------------------------------------------------------
(* Part 1: the NVLink form.                                                *)

RaisedBy(r, p) == {q \in Ranks : Raised(q, r, p)}

-----------------------------------------------------------------------------
(* Arithmetic of the four turns, and finite sets of ranks.                 *)

LEMMA NextTurn ==
  \A t \in Nat : /\ t % 4 \in 0 .. 3
                 /\ (t + 1) % 4 = IF t % 4 = 3 THEN 0 ELSE (t % 4) + 1
OBVIOUS

LEMMA StatusBits ==
  \A s \in 0 .. 3 : /\ Phase(s) \in Phases
                    /\ Phase(s) = IF s \in {1, 3} THEN 1 ELSE 0
                    /\ Step(s) = IF s \in {2, 3} THEN -1 ELSE 1
                    /\ Target(s) = IF s \in {2, 3} THEN 0 ELSE NumRanks
BY DEF Phase, Phases, Step, Target, Down

LEMMA RanksFinite == IsFiniteSet(Ranks) /\ Cardinality(Ranks) = NumRanks
<1>1. 0 \in Int /\ NumRanks - 1 \in Int
  BY NumRanksAssumption
<1>2. QED
  BY <1>1, FS_Interval, NumRanksAssumption DEF Ranks

LEMMA RaisedByFinite ==
  \A r, p : /\ RaisedBy(r, p) \in SUBSET Ranks
            /\ IsFiniteSet(RaisedBy(r, p))
            /\ Cardinality(RaisedBy(r, p)) = NumRanks => RaisedBy(r, p) = Ranks
            /\ Cardinality(RaisedBy(r, p)) = 0 => RaisedBy(r, p) = {}
<1>1. \A r, p : RaisedBy(r, p) \in SUBSET Ranks
  BY DEF RaisedBy
<1>2. QED
  BY <1>1, RanksFinite, FS_Subset, FS_EmptySet

LEMMA TurnsType ==
  ASSUME NVLTypeOK, NEW q \in Ranks, NEW r \in Ranks
  PROVE  Turns(q, r) \in Nat /\ counter[q] <= Turns(q, r) /\ Turns(q, r) <= NVLEntered(q)
BY DEF NVLTypeOK, Turns, NVLEntered

-----------------------------------------------------------------------------
(* Adding to a word.                                                       *)

\* A turn changes a rank's share of one word of its target by Step: the word of its phase.
LEMMA TurnFlips ==
  ASSUME NVLInv, NEW r \in Ranks, NEW q \in Ranks, Add(r, q), NEW p \in Phases
  PROVE  \/ ~Raised(r, q, p) /\ Raised(r, q, p)' /\ Step(status[r]) = 1 /\ p = Phase(status[r])
         \/ Raised(r, q, p) /\ ~Raised(r, q, p)' /\ Step(status[r]) = -1 /\ p = Phase(status[r])
         \/ (Raised(r, q, p)' <=> Raised(r, q, p)) /\ p # Phase(status[r])
<1>1. /\ counter[r] \in Nat
      /\ todo \in [Ranks -> SUBSET Ranks]
      /\ q \in todo[r] /\ nvlPc[r] = "add" /\ nvlPc' = nvlPc /\ counter' = counter
      /\ todo' = [todo EXCEPT ![r] = @ \ {q}]
      /\ status[r] = counter[r] % 4
  BY DEF NVLInv, NVLTypeOK, Add, NVLLeft
<1>2. Turns(r, q) = counter[r] /\ Turns(r, q)' = counter[r] + 1
  BY <1>1 DEF Turns
<1>3. (Turns(r, q)') % 4 = IF status[r] = 3 THEN 0 ELSE status[r] + 1
  BY <1>1, <1>2, NextTurn
<1>4. Turns(r, q) % 4 = status[r] /\ status[r] \in 0 .. 3
  BY <1>1, <1>2, NextTurn
<1>5. /\ Raised(r, q, p) <=> status[r] \in {1 + p, 2 + p}
      /\ Raised(r, q, p)' <=> (IF status[r] = 3 THEN 0 ELSE status[r] + 1) \in {1 + p, 2 + p}
  BY <1>3, <1>4 DEF Raised
<1>6. p \in {0, 1}
  BY DEF Phases
<1>7. CASE p = 0
  BY <1>4, <1>5, <1>7, StatusBits
<1>8. CASE p = 1
  BY <1>4, <1>5, <1>8, StatusBits
<1>9. QED
  BY <1>6, <1>7, <1>8

LEMMA AddWord ==
  ASSUME NVLInv, NEW r \in Ranks, NEW q \in Ranks, Add(r, q)
  PROVE  \A a \in Ranks : \A p \in Phases : nvlSignal'[a][p] = Cardinality(RaisedBy(a, p)')
<1> SUFFICES ASSUME NEW a \in Ranks, NEW p \in Phases
             PROVE  nvlSignal'[a][p] = Cardinality(RaisedBy(a, p)')
  OBVIOUS
<1> DEFINE s == status[r]
<1>1. /\ nvlSignal \in [Ranks -> [Phases -> Int]]
      /\ nvlSignal' = [nvlSignal EXCEPT ![q][Phase(s)] = @ + Step(s)]
      /\ nvlSignal[a][p] = Cardinality(RaisedBy(a, p))
      /\ s \in 0 .. 3 /\ Phase(s) \in Phases
  BY StatusBits DEF NVLInv, NVLTypeOK, Add, RaisedBy
<1>2. \A b \in Ranks : ~(b = r /\ a = q) => (Raised(b, a, p)' <=> Raised(b, a, p))
  BY DEF NVLInv, NVLTypeOK, Add, Raised, Turns
<1>3. IsFiniteSet(RaisedBy(a, p)) /\ Cardinality(RaisedBy(a, p)) \in Nat
  BY RaisedByFinite, FS_CardinalityType
<1>4. CASE a = q /\ p = Phase(s)
  <2>1. nvlSignal'[a][p] = nvlSignal[a][p] + Step(s)
    BY <1>1, <1>4
  <2>2. CASE ~Raised(r, q, p) /\ Raised(r, q, p)' /\ Step(s) = 1
    <3>1. RaisedBy(a, p)' = RaisedBy(a, p) \cup {r} /\ r \notin RaisedBy(a, p)
      BY <1>2, <1>4, <2>2 DEF RaisedBy
    <3>2. QED
      BY <1>1, <1>3, <2>1, <2>2, <3>1, FS_AddElement
  <2>3. CASE Raised(r, q, p) /\ ~Raised(r, q, p)' /\ Step(s) = -1
    <3>1. RaisedBy(a, p)' = RaisedBy(a, p) \ {r} /\ r \in RaisedBy(a, p)
      BY <1>2, <1>4, <2>3 DEF RaisedBy
    <3>2. QED
      BY <1>1, <1>3, <2>1, <2>3, <3>1, FS_RemoveElement
  <2>4. QED
    BY <1>4, <2>2, <2>3, TurnFlips
<1>5. CASE ~(a = q /\ p = Phase(s))
  <2>1. nvlSignal'[a][p] = nvlSignal[a][p]
    BY <1>1, <1>5
  <2>2. \A b \in Ranks : Raised(b, a, p)' <=> Raised(b, a, p)
    BY <1>2, <1>5, TurnFlips
  <2>3. RaisedBy(a, p)' = RaisedBy(a, p)
    BY <2>2 DEF RaisedBy
  <2>4. QED
    BY <1>1, <2>1, <2>3
<1>6. QED
  BY <1>4, <1>5

-----------------------------------------------------------------------------
(* Getting out.                                                            *)

\* A rank that sees the target has been signalled by every rank in this very barrier: a
\* rank that has not, or that is in the next barrier already, shows in the word.
LEMMA TargetMeansAll ==
  ASSUME NVLInv, NEW r \in Ranks, Pass(r), NEW q \in Ranks
  PROVE  NVLLeft(r) + 1 <= Turns(q, r)
<1> DEFINE k == NVLLeft(r)
           s == status[r]
           t == Turns(q, r)
<1>1. /\ counter[r] \in Nat /\ counter[q] \in Nat
      /\ nvlPc[r] = "wait" /\ counter[r] = k + 1 /\ k \in Nat
      /\ s = k % 4 /\ s \in 0 .. 3 /\ Phase(s) \in Phases
      /\ nvlSignal[r][Phase(s)] = Cardinality(RaisedBy(r, Phase(s)))
      /\ nvlSignal[r][Phase(s)] = Target(s)
  <2>1. /\ counter[r] \in Nat /\ counter[q] \in Nat
        /\ nvlPc[r] = "wait" /\ k \in Nat /\ s = k % 4 /\ s \in 0 .. 3
        /\ nvlSignal[r][Phase(s)] = Target(s)
    BY DEF NVLInv, NVLTypeOK, Pass
  <2>2. counter[r] = k + 1
    BY <2>1 DEF NVLLeft
  <2>3. Phase(s) \in Phases
    BY <2>1, StatusBits
  <2>4. nvlSignal[r][Phase(s)] = Cardinality(RaisedBy(r, Phase(s)))
    BY <2>3 DEF NVLInv, RaisedBy
  <2>5. QED
    BY <2>1, <2>2, <2>3, <2>4
<1>2. k <= t /\ t \in Nat
  BY TurnsType DEF NVLInv
<1>3. t <= k + 2
  <2>1. NVLLeft(q) <= Turns(r, q) /\ Turns(r, q) = counter[r]
    BY <1>1 DEF NVLInv, Turns
  <2>2. t <= NVLLeft(q) + 1
    BY <1>1 DEF Turns, NVLLeft
  <2>3. NVLLeft(q) \in Int
    BY <1>1 DEF NVLLeft
  <2>4. QED
    BY <1>1, <1>2, <2>1, <2>2, <2>3
<1>4. Raised(q, r, Phase(s)) <=> s \in {0, 1}
  <2>1. CASE s \in {0, 1}
    <3>1. RaisedBy(r, Phase(s)) = Ranks
      BY <1>1, <2>1, StatusBits, RaisedByFinite
    <3>2. QED
      BY <2>1, <3>1 DEF RaisedBy
  <2>2. CASE s \in {2, 3}
    <3>1. RaisedBy(r, Phase(s)) = {}
      BY <1>1, <2>2, StatusBits, RaisedByFinite
    <3>2. QED
      BY <2>2, <3>1 DEF RaisedBy
  <2>3. QED
    BY <1>1, <2>1, <2>2
<1>5. t # k
  <2>1. SUFFICES ASSUME t = k
                 PROVE  FALSE
    OBVIOUS
  <2>2. Raised(q, r, Phase(s)) <=> s \in {1 + Phase(s), 2 + Phase(s)}
    BY <1>1, <2>1 DEF Raised
  <2>3. QED
    BY <1>1, <1>4, <2>2, StatusBits
<1>6. QED
  BY <1>1, <1>2, <1>5

-----------------------------------------------------------------------------
(* The invariant.                                                          *)

LEMMA NVLInvInit == NVLInit => NVLInv
<1> SUFFICES ASSUME NVLInit
             PROVE  NVLInv
  OBVIOUS
<1>1. NVLTypeOK
  BY NumRanksAssumption DEF NVLInit, NVLTypeOK
<1>2. \A q, r \in Ranks : \A p \in Phases : ~Raised(q, r, p)
  BY DEF NVLInit, Raised, Turns, Phases
<1>3. \A r \in Ranks : \A p \in Phases : RaisedBy(r, p) = {}
  BY <1>2 DEF RaisedBy
<1>4. \A r \in Ranks : \A p \in Phases : nvlSignal[r][p] = Cardinality(RaisedBy(r, p))
  BY <1>3, FS_EmptySet DEF NVLInit
<1>5. QED
  BY <1>1, <1>4 DEF NVLInit, NVLInv, RaisedBy, NVLLeft, Turns

LEMMA NVLInvStep == NVLInv /\ [NVLNext]_nvlVars => NVLInv'
<1> SUFFICES ASSUME NVLInv, [NVLNext]_nvlVars
             PROVE  NVLInv'
  OBVIOUS
<1>0. /\ NVLTypeOK
      /\ \A r \in Ranks : counter[r] \in Nat
      /\ \A r \in Ranks : \A p \in Phases : nvlSignal[r][p] = Cardinality(RaisedBy(r, p))
  BY DEF NVLInv, NVLTypeOK, RaisedBy
<1>1. ASSUME NEW r \in Ranks, NVLBegin(r)
      PROVE  NVLInv'
  <2>1. NVLTypeOK'
    BY <1>0, <1>1, NextTurn DEF NVLTypeOK, NVLBegin
  <2>2. \A a, b \in Ranks : Turns(a, b)' = Turns(a, b) /\ NVLLeft(a)' = NVLLeft(a)
    BY <1>0, <1>1 DEF NVLTypeOK, NVLBegin, Turns, NVLLeft
  <2>3. \A a \in Ranks : \A p \in Phases : RaisedBy(a, p)' = RaisedBy(a, p)
    BY <2>2 DEF RaisedBy, Raised
  <2>4. nvlSignal' = nvlSignal
    BY <1>1 DEF NVLBegin
  <2>5. \A a \in Ranks : nvlPc'[a] # "out" => NVLLeft(a)' \in Nat /\ status'[a] = NVLLeft(a)' % 4
    BY <1>0, <1>1, <2>2 DEF NVLTypeOK, NVLInv, NVLBegin, NVLLeft
  <2>6. \A a \in Ranks : nvlPc'[a] # "add" => todo'[a] = {}
    BY <1>0, <1>1 DEF NVLTypeOK, NVLInv, NVLBegin
  <2>7. QED
    BY <1>0, <2>1, <2>2, <2>3, <2>4, <2>5, <2>6 DEF NVLInv, RaisedBy
<1>2. ASSUME NEW r \in Ranks, NEW q \in Ranks, Add(r, q)
      PROVE  NVLInv'
  <2>1. NVLTypeOK'
    <3>1. status[r] \in 0 .. 3 /\ Phase(status[r]) \in Phases /\ Step(status[r]) \in Int
      BY <1>0, StatusBits DEF NVLTypeOK
    <3>2. QED
      BY <1>0, <1>2, <3>1 DEF NVLTypeOK, Add
  <2>2. \A a \in Ranks : \A p \in Phases : nvlSignal'[a][p] = Cardinality(RaisedBy(a, p)')
    BY <1>2, AddWord
  <2>3. \A a, b \in Ranks : Turns(a, b) <= Turns(a, b)' /\ NVLLeft(a)' = NVLLeft(a)
    BY <1>0, <1>2 DEF NVLTypeOK, Add, Turns, NVLLeft
  <2>4. \A a, b \in Ranks : NVLLeft(a)' <= Turns(b, a)'
    <3>1. \A a, b \in Ranks : NVLLeft(a) \in Int /\ Turns(b, a) \in Nat /\ Turns(b, a)' \in Nat
      BY <1>0, <2>1 DEF NVLTypeOK, NVLLeft, Turns
    <3>2. QED
      BY <2>3, <3>1 DEF NVLInv
  <2>5. QED
    BY <1>0, <1>2, <2>1, <2>2, <2>3, <2>4 DEF NVLInv, RaisedBy, Add, NVLTypeOK
<1>3. ASSUME NEW r \in Ranks, Count(r)
      PROVE  NVLInv'
  <2>1. NVLTypeOK'
    BY <1>0, <1>3 DEF NVLTypeOK, Count
  <2>2. \A a, b \in Ranks : Turns(a, b)' = Turns(a, b)
    BY <1>0, <1>3 DEF NVLTypeOK, Count, Turns
  <2>3. \A a \in Ranks : NVLLeft(a)' = NVLLeft(a)
    BY <1>0, <1>3 DEF NVLTypeOK, Count, NVLLeft
  <2>4. \A a \in Ranks : \A p \in Phases : RaisedBy(a, p)' = RaisedBy(a, p)
    BY <2>2 DEF RaisedBy, Raised
  <2>5. nvlSignal' = nvlSignal
    BY <1>3 DEF Count
  <2>6. QED
    BY <1>0, <1>3, <2>1, <2>2, <2>3, <2>4, <2>5 DEF NVLInv, RaisedBy, Count, NVLTypeOK
<1>4. ASSUME NEW r \in Ranks, Pass(r)
      PROVE  NVLInv'
  <2>1. NVLTypeOK'
    BY <1>0, <1>4 DEF NVLTypeOK, Pass
  <2>2. \A a, b \in Ranks : Turns(a, b)' = Turns(a, b)
    BY <1>0, <1>4 DEF NVLTypeOK, Pass, Turns
  <2>3. /\ NVLLeft(r)' = NVLLeft(r) + 1
        /\ \A a \in Ranks : a # r => NVLLeft(a)' = NVLLeft(a)
    BY <1>0, <1>4 DEF NVLTypeOK, Pass, NVLLeft
  <2>4. \A a \in Ranks : \A p \in Phases : RaisedBy(a, p)' = RaisedBy(a, p)
    BY <2>2 DEF RaisedBy, Raised
  <2>5. \A a, b \in Ranks : NVLLeft(a)' <= Turns(b, a)'
    BY <1>4, <2>2, <2>3, TargetMeansAll DEF NVLInv
  <2>6. QED
    BY <1>0, <1>4, <2>1, <2>3, <2>4, <2>5 DEF NVLInv, RaisedBy, Pass, NVLTypeOK
<1>5. CASE UNCHANGED nvlVars
  BY <1>5 DEF nvlVars, NVLInv, NVLTypeOK, NVLLeft, Turns, Raised
<1>6. QED
  BY <1>1, <1>2, <1>3, <1>4, <1>5 DEF NVLNext, NVLStep

\* IInv holds for any number of ranks and however the adds of different barriers mix.
THEOREM NVLInvariance == NVLSpec => []NVLInv
BY NVLInvInit, NVLInvStep, PTL DEF NVLSpec

\* Every step of the ranks is a step of the abstract barrier, or none at all.
LEMMA NVLSimulation == NVLInv /\ [NVLNext]_nvlVars => [NVLB!Next]_NVLB!vars
<1> DEFINE in == [r \in Ranks |-> NVLEntered(r)]
           gone == [r \in Ranks |-> NVLLeft(r)]
<1> SUFFICES ASSUME NVLInv, [NVLNext]_nvlVars
             PROVE  [NVLB!Next]_NVLB!vars
  OBVIOUS
<1>0. /\ nvlPc \in [Ranks -> {"out", "add", "wait"}]
      /\ counter \in [Ranks -> Nat]
      /\ NVLTypeOK
  BY DEF NVLInv, NVLTypeOK
<1>1. ASSUME NEW r \in Ranks, NVLBegin(r)
      PROVE  NVLB!Enter(r)
  BY <1>0, <1>1 DEF NVLBegin, NVLB!Enter, NVLEntered, NVLLeft
<1>2. ASSUME NEW r \in Ranks, Pass(r)
      PROVE  NVLB!Leave(r)
  <2>1. \A q \in Ranks : in[q] >= in[r]
    <3>1. \A q \in Ranks : NVLLeft(r) + 1 <= Turns(q, r) /\ Turns(q, r) <= NVLEntered(q)
      BY <1>0, <1>2, TargetMeansAll, TurnsType
    <3>2. NVLEntered(r) = NVLLeft(r) + 1 /\ NVLLeft(r) \in Int
      BY <1>0, <1>2 DEF Pass, NVLEntered, NVLLeft
    <3>3. \A q \in Ranks : Turns(q, r) \in Nat /\ NVLEntered(q) \in Nat
      BY <1>0 DEF Turns, NVLEntered
    <3>4. QED
      BY <3>1, <3>2, <3>3
  <2>2. gone[r] < in[r] /\ in' = in
    BY <1>0, <1>2 DEF Pass, NVLEntered, NVLLeft
  <2>3. gone' = [gone EXCEPT ![r] = @ + 1]
    <3>1. \A q \in Ranks : NVLLeft(q)' = IF q = r THEN NVLLeft(q) + 1 ELSE NVLLeft(q)
      BY <1>0, <1>2 DEF Pass, NVLLeft
    <3>2. QED
      BY <3>1
  <2>4. QED
    BY <2>1, <2>2, <2>3 DEF NVLB!Leave
<1>3. CASE UNCHANGED nvlVars \/ \E r \in Ranks : Count(r) \/ \E q \in Ranks : Add(r, q)
  <2>1. in' = in /\ gone' = gone
    BY <1>0, <1>3 DEF nvlVars, Count, Add, NVLEntered, NVLLeft
  <2>2. QED
    BY <2>1 DEF NVLB!vars
<1>4. QED
  BY <1>1, <1>2, <1>3 DEF NVLNext, NVLStep, NVLB!Next

\* The signal words implement the barrier among all ranks.
THEOREM NVLRefinement == NVLSpec => NVLImplementsBarrier
<1>1. NVLInit => NVLB!Init
  BY DEF NVLInit, NVLB!Init, NVLEntered, NVLLeft
<1>2. QED
  BY <1>1, NVLSimulation, NVLInvariance, PTL DEF NVLSpec, NVLB!Spec, NVLImplementsBarrier

-----------------------------------------------------------------------------
(* Part 2: the Gin form.                                                   *)

LEMMA GinInvInit == GinInit => GinInv
BY NumRanksAssumption DEF GinInit, GinInv, GinTypeOK, Ranks, Put, Signalled, Seen

\* Nobody is done with a barrier that another rank has not entered.
LEMMA NoEarlyExit ==
  ASSUME GinInv, NEW r \in Ranks, NEW q \in Ranks
  PROVE  /\ done[r] <= GinEntered(q)
         /\ ginPc[r] = "in" /\ q \notin unseen[r] => done[r] + 1 <= GinEntered(q)
<1>1. /\ shadow[r][q] = Seen(r, q)
      /\ shadow[r][q] <= ginSignal[r][q]
      /\ ginSignal[r][q] + flight[q][r] = Signalled(q, r)
      /\ ginSignal[r][q] \in Nat /\ flight[q][r] \in Nat /\ shadow[r][q] \in Nat
      /\ done[r] \in Nat /\ done[q] \in Nat
  BY DEF GinInv, GinTypeOK
<1>2. Signalled(q, r) <= GinEntered(q)
  BY <1>1 DEF Signalled, GinEntered
<1>3. QED
  BY <1>1, <1>2 DEF Seen, GinEntered, Signalled

LEMMA GinInvStep == GinInv /\ [GinNext]_ginVars => GinInv'
<1> SUFFICES ASSUME GinInv, [GinNext]_ginVars
             PROVE  GinInv'
  OBVIOUS
<1> USE DEF GinInv, GinTypeOK, Signalled, Seen
<1>1. ASSUME NEW r \in Ranks, GinBegin(r)
      PROVE  GinInv'
  BY <1>1 DEF GinBegin
<1>2. ASSUME NEW r \in Ranks, Flush(r)
      PROVE  GinInv'
  BY <1>2 DEF Flush
<1>3. ASSUME NEW r \in Ranks, End(r)
      PROVE  GinInv'
  <2>1. GinTypeOK'
    BY <1>3 DEF End
  <2>2. \A a, b \in Ranks : Signalled(a, b)' = Signalled(a, b) /\ Seen(a, b)' = Seen(a, b)
    BY <1>3 DEF End
  <2>3. \A a, b \in Ranks : /\ ginSignal'[b][a] + flight'[a][b] = Signalled(a, b)'
                            /\ shadow'[a][b] = Seen(a, b)'
                            /\ shadow'[a][b] <= ginSignal'[a][b]
    <3> USE <1>3 DEF End
    <3> HIDE DEF Signalled, Seen
    <3>1. QED
      BY <2>2
  <2>4. QED
    BY <1>3, <2>1, <2>3 DEF End
<1>4. ASSUME NEW r \in Ranks, NEW q \in Ranks, IssuePut(r, q)
      PROVE  GinInv'
  BY <1>4 DEF IssuePut, Put
<1>5. ASSUME NEW r \in Ranks, NEW q \in Ranks, Signal(r, q)
      PROVE  GinInv'
  BY <1>5 DEF Signal
<1>6. ASSUME NEW r \in Ranks, NEW q \in Ranks, See(r, q)
      PROVE  GinInv'
  BY <1>6 DEF See, SignalThere
<1>7. ASSUME NEW r \in Ranks, NEW q \in Ranks, Deliver(r, q)
      PROVE  GinInv'
  <2>1. GinTypeOK'
    BY <1>7 DEF Deliver
  <2>2. ASSUME NEW a \in Ranks, NEW b \in Ranks
        PROVE  ginSignal'[b][a] + flight'[a][b] = ginSignal[b][a] + flight[a][b]
    <3>1. /\ ginSignal \in [Ranks -> [Ranks -> Nat]] /\ flight \in [Ranks -> [Ranks -> Nat]]
          /\ ginSignal' = [ginSignal EXCEPT ![q][r] = @ + 1]
          /\ flight' = [flight EXCEPT ![r][q] = @ - 1]
      BY <1>7 DEF Deliver
    <3> HIDE DEF GinInv, GinTypeOK
    <3>2. CASE a = r /\ b = q
      BY <3>1, <3>2
    <3>3. CASE ~(a = r /\ b = q)
      <4>1. ginSignal'[b][a] = ginSignal[b][a] /\ flight'[a][b] = flight[a][b]
        BY <3>1, <3>3
      <4>2. QED
        BY <4>1
    <3>4. QED
      BY <3>2, <3>3
  <2>3. \A a, b \in Ranks : ginSignal[a][b] <= ginSignal'[a][b]
    <3>1. ginSignal \in [Ranks -> [Ranks -> Nat]] /\ ginSignal' = [ginSignal EXCEPT ![q][r] = @ + 1]
      BY <1>7 DEF Deliver
    <3> HIDE DEF GinInv, GinTypeOK
    <3>2. QED
      BY <3>1
  <2>4. \A a, b \in Ranks : shadow'[a][b] <= ginSignal'[a][b]
    <3>1. /\ shadow' = shadow
          /\ \A a, b \in Ranks : /\ shadow[a][b] <= ginSignal[a][b]
                                 /\ shadow[a][b] \in Nat
                                 /\ ginSignal[a][b] \in Nat
                                 /\ ginSignal'[a][b] \in Nat
      BY <1>7, <2>1 DEF Deliver
    <3> HIDE DEF GinInv, GinTypeOK
    <3>2. QED
      BY <2>3, <3>1
  <2>5. QED
    BY <1>7, <2>1, <2>2, <2>4 DEF Deliver
<1>8. ASSUME NEW r \in Ranks, NEW p \in puts[r], LandPut(r, p)
      PROVE  GinInv'
  BY <1>8 DEF LandPut
<1>9. CASE UNCHANGED ginVars
  BY <1>9 DEF ginVars
<1>10. QED
  BY <1>1, <1>2, <1>3, <1>4, <1>5, <1>6, <1>7, <1>8, <1>9 DEF GinNext, GinStep, Thread, Network

THEOREM GinInvariance == GinSpec => []GinInv
BY GinInvInit, GinInvStep, PTL DEF GinSpec

-----------------------------------------------------------------------------
(* What follows.                                                           *)

LEMMA InvPutsVisible == GinInv => PutsVisible
<1>1. ASSUME GinInv, FlushStores, NEW q \in Ranks, NEW r \in Ranks, NEW p \in puts[q]
      PROVE  done[r] <= p.epoch
  <2>1. p.epoch = done[q] /\ ginPc[q] # "in"
    BY <1>1 DEF GinInv
  <2>2. /\ shadow[r][q] = Seen(r, q)
        /\ shadow[r][q] <= ginSignal[r][q]
        /\ ginSignal[r][q] + flight[q][r] = Signalled(q, r)
        /\ ginSignal[r][q] \in Nat /\ flight[q][r] \in Nat /\ done[r] \in Nat /\ done[q] \in Nat
    BY <1>1 DEF GinInv, GinTypeOK
  <2>3. QED
    BY <2>1, <2>2 DEF Seen, Signalled
<1>2. QED
  BY <1>1 DEF PutsVisible

\* Data put before a barrier that flushes has landed when any rank leaves it.
THEOREM PutsCorrect == GinSpec => []PutsVisible
BY InvPutsVisible, GinInvariance, PTL

\* Every step of the ranks is a step of the abstract barrier, or none at all.
LEMMA GinSimulation == GinInv /\ [GinNext]_ginVars => [GinB!Next]_GinB!vars
<1> DEFINE in == [r \in Ranks |-> GinEntered(r)]
<1> SUFFICES ASSUME GinInv, [GinNext]_ginVars
             PROVE  [GinB!Next]_GinB!vars
  OBVIOUS
<1>0. /\ ginPc \in [Ranks -> {"out", "flush", "in"}]
      /\ done \in [Ranks -> Nat]
      /\ in \in [Ranks -> Nat]
  BY DEF GinInv, GinTypeOK, GinEntered
<1>1. ASSUME NEW r \in Ranks, GinBegin(r)
      PROVE  GinB!Enter(r)
  <2>1. in' = [in EXCEPT ![r] = @ + 1] /\ in[r] = done[r]
    BY <1>0, <1>1 DEF GinBegin, GinEntered
  <2>2. QED
    BY <1>0, <1>1, <2>1 DEF GinBegin, GinB!Enter
<1>2. ASSUME NEW r \in Ranks, End(r)
      PROVE  GinB!Leave(r)
  <2>1. \A q \in Ranks : in[q] >= in[r]
    BY <1>0, <1>2, NoEarlyExit DEF End, GinEntered
  <2>2. done[r] < in[r] /\ in' = in
    BY <1>0, <1>2 DEF End, GinEntered
  <2>3. QED
    BY <1>0, <1>2, <2>1, <2>2 DEF End, GinB!Leave
<1>3. CASE \/ UNCHANGED ginVars
           \/ \E r \in Ranks : Flush(r)
           \/ \E r, q \in Ranks : IssuePut(r, q) \/ Thread(r, q) \/ Network(r, q)
  <2>1. in' = in /\ done' = done
    BY <1>0, <1>3 DEF ginVars, Flush, IssuePut, Thread, Signal, See, SignalThere, Network, Deliver, LandPut, GinEntered
  <2>2. QED
    BY <2>1 DEF GinB!vars
<1>4. QED
  BY <1>1, <1>2, <1>3 DEF GinNext, GinStep, GinB!Next

\* The signals and shadows implement the barrier among all members of the team.
THEOREM GinRefinement == GinSpec => GinImplementsBarrier
<1>1. GinInit => GinB!Init
  BY DEF GinInit, GinB!Init, GinEntered
<1>2. QED
  BY <1>1, GinSimulation, GinInvariance, PTL DEF GinSpec, GinB!Spec, GinImplementsBarrier

-----------------------------------------------------------------------------
(* Part 3: both forms together.                                            *)

\* A step of the whole is a step of one form, and the other stands still.
LEMMA StepCases ==
  [Next]_vars => /\ [NVLNext]_nvlVars /\ [GinNext]_ginVars
                 /\ isScaleupNVLink' = isScaleupNVLink
                 /\ isScaleupNVLink \/ UNCHANGED nvlVars
                 /\ ~isScaleupNVLink \/ UNCHANGED ginVars
BY DEF Next, vars, StepNVL, StepGin, ThreadGin, NetworkGin, PutGin, NVLNext, GinNext, GinStep

Inv == NVLInv /\ GinInv /\ isScaleupNVLink \in BOOLEAN

LEMMA InvStep == Inv /\ [Next]_vars => Inv'
BY StepCases, NVLInvStep, GinInvStep DEF Inv

\* The invariants of both forms hold.
THEOREM Invariance == Spec => [](NVLInv /\ GinInv)
<1>1. Init => Inv
  BY NVLInvInit, GinInvInit DEF Init, Inv
<1>2. Inv => NVLInv /\ GinInv
  BY DEF Inv
<1>3. QED
  BY <1>1, <1>2, InvStep, PTL DEF Spec

\* Type correctness of the two forms together.
THEOREM TypeCorrect == Spec => []TypeOK
<1>1. Init => Inv
  BY NVLInvInit, GinInvInit DEF Init, Inv
<1>2. Inv => TypeOK
  BY DEF Inv, NVLInv, GinInv, TypeOK
<1>3. QED
  BY <1>1, <1>2, InvStep, PTL DEF Spec

\* The barrier of a scale-up domain publishes the data put before it, if it flushes.
THEOREM PutsPublished == Spec => []PutsVisible
<1>1. NVLInv /\ GinInv => PutsVisible
  BY InvPutsVisible
<1>2. QED
  BY <1>1, Invariance, PTL

\* Of the two forms the one compiled in is what the abstract barrier sees.
LEMMA Simulation == Inv /\ [Next]_vars => [B!Next]_B!vars
<1> DEFINE in == [r \in Ranks |-> IF isScaleupNVLink THEN NVLEntered(r) ELSE GinEntered(r)]
           gone == [r \in Ranks |-> IF isScaleupNVLink THEN NVLLeft(r) ELSE done[r]]
<1> SUFFICES ASSUME Inv, [Next]_vars
             PROVE  [B!Next]_B!vars
  OBVIOUS
<1>1. CASE isScaleupNVLink
  <2>1. [NVLB!Next]_NVLB!vars /\ isScaleupNVLink'
    BY <1>1, StepCases, NVLSimulation DEF Inv
  <2>2. /\ in = [r \in Ranks |-> NVLEntered(r)]
        /\ in' = [r \in Ranks |-> NVLEntered(r)']
        /\ gone = [r \in Ranks |-> NVLLeft(r)]
        /\ gone' = [r \in Ranks |-> NVLLeft(r)']
    BY <1>1, <2>1
  <2>3. CASE NVLB!Next
    BY <2>2, <2>3 DEF NVLB!Next, NVLB!Enter, NVLB!Leave, B!Next, B!Enter, B!Leave
  <2>4. CASE UNCHANGED NVLB!vars
    BY <2>2, <2>4 DEF NVLB!vars, B!vars
  <2>5. QED
    BY <2>1, <2>3, <2>4
<1>2. CASE ~isScaleupNVLink
  <2>1. [GinB!Next]_GinB!vars /\ ~isScaleupNVLink'
    BY <1>2, StepCases, GinSimulation DEF Inv
  <2>2. done = [r \in Ranks |-> done[r]] /\ done' = [r \in Ranks |-> done'[r]]
    BY StepCases, GinInvStep DEF Inv, GinInv, GinTypeOK
  <2>3. QED
    BY <1>2, <2>1, <2>2 DEF B!Next, B!vars, B!Enter, B!Leave,
                            GinB!Next, GinB!vars, GinB!Enter, GinB!Leave
<1>3. QED
  BY <1>1, <1>2 DEF Inv

\* The barrier of a scale-up domain implements the abstract barrier among its ranks.
THEOREM Refinement == Spec => ImplementsBarrier
<1>1. Init => Inv /\ B!Init
  BY NVLInvInit, GinInvInit DEF Init, Inv, B!Init, NVLInit, GinInit, NVLEntered, NVLLeft, GinEntered
<1>2. QED
  BY <1>1, InvStep, Simulation, PTL DEF Spec, B!Spec, ImplementsBarrier

=============================================================================
