--------------------------- MODULE PPRing_proofs ---------------------------
(* Proofs about PPRing: type correctness, the inductive invariant IInv, the *)
(* safety properties that follow from it, and that every link implements    *)
(* the channel of PPChannel, for every ring.                                *)
EXTENDS PPRing, SequenceTheorems, TLAPS

-----------------------------------------------------------------------------
(* The ring.                                                               *)

\* The ring arithmetic of the code, without the modulus.
LEMMA RingArithmetic ==
  \A r \in Ranks : /\ NextRank(r) = IF r = NumRanks - 1 THEN 0 ELSE r + 1
                   /\ PrevRank(r) = IF r = 0 THEN NumRanks - 1 ELSE r - 1
BY NumRanksAssumption DEF Ranks, NextRank, PrevRank

\* get_buffer_offset names an existing side at both ends of a link, and a neighbour's
\* neighbours include oneself.
LEMMA LinkEnds ==
  ASSUME NEW src \in Ranks, NEW dst \in Neighbours(src)
  PROVE  /\ dst \in Ranks
         /\ src \in Neighbours(dst)
         /\ LocalIdxInDst(src, dst) \in Sides
         /\ DstIdxInLocal(src, dst) \in Sides
         /\ LocalIdxInDst(src, dst) \in Regions
         /\ DstIdxInLocal(src, dst) + 2 \in Regions
         /\ DstIdxInLocal(src, dst) + 2 \notin Sides
BY RingArithmetic, NumRanksAssumption
   DEF Ranks, Neighbours, LocalIdxInDst, DstIdxInLocal, Sides, Regions

\* No two links share a send side, and no two share a receive side.
LEMMA LinksApart ==
  ASSUME NEW src1 \in Ranks, NEW dst1 \in Neighbours(src1),
         NEW src2 \in Ranks, NEW dst2 \in Neighbours(src2)
  PROVE  /\ src1 = src2 /\ DstIdxInLocal(src1, dst1) = DstIdxInLocal(src2, dst2) => dst1 = dst2
         /\ dst1 = dst2 /\ LocalIdxInDst(src1, dst1) = LocalIdxInDst(src2, dst2) => src1 = src2
BY RingArithmetic, NumRanksAssumption
   DEF Ranks, Neighbours, LocalIdxInDst, DstIdxInLocal

\* The host numbers its sides as the kernels do.
LEMMA HostIndex ==
  \A src, dst \in Ranks : PeerBufferIdx(dst, src) = LocalIdxInDst(src, dst)
BY DEF PeerBufferIdx, LocalIdxInDst

-----------------------------------------------------------------------------
(* The slots.                                                              *)

LEMMA SlotType == \A n \in Nat : Slot(n) \in Slots
BY InflightAssumption DEF Slot, Slots

\* Two messages less than Inflight apart never share a slot.
LEMMA SlotsApart ==
  ASSUME NEW a \in Nat, NEW b \in Nat, a < b, b - a < Inflight
  PROVE  Slot(a) # Slot(b)
<1> DEFINE qa == a \div Inflight
           qb == b \div Inflight
<1>1. /\ qa \in Int /\ qb \in Int
      /\ a = Inflight * qa + (a % Inflight)
      /\ b = Inflight * qb + (b % Inflight)
  BY InflightAssumption
<1> HIDE DEF qa, qb
<1> SUFFICES ASSUME a % Inflight = b % Inflight
             PROVE  FALSE
  BY DEF Slot
<1>2. b - a = Inflight * (qb - qa)
  BY <1>1, InflightAssumption
<1>3. CASE qb - qa >= 1
  BY <1>1, <1>2, <1>3, InflightAssumption
<1>4. CASE qb - qa <= 0
  BY <1>1, <1>2, <1>4, InflightAssumption
<1>5. QED
  BY <1>1, <1>3, <1>4

-----------------------------------------------------------------------------
(* Type correctness.                                                       *)

LEMMA TypeInit == Init => TypeOK
BY NumRanksAssumption, InflightAssumption
   DEF Init, TypeOK, IdleOp, Ops, Messages, NoMsg, Sides, Slots, Regions, Ranks

LEMMA MsgType == \A src, dst \in Ranks : \A n \in Nat : Msg(src, dst, n) \in Messages
BY DEF Msg, Messages

LEMMA IdleType == IdleOp \in Ops
BY NumRanksAssumption, InflightAssumption DEF IdleOp, Ops, Ranks, Slots

LEMMA OpType ==
  ASSUME NEW kind \in {"send", "recv", "view"}, NEW peer \in Ranks, NEW slot \in Slots
  PROVE  [kind |-> kind, peer |-> peer, slot |-> slot] \in Ops
BY DEF Ops

LEMMA ZeroSlot == 0 \in Slots
BY InflightAssumption DEF Slots

LEMMA HostType ==
  ASSUME TypeOK, NEW r \in Ranks, Host(r)
  PROVE  TypeOK'
<1>1. CASE EnterSetConfig(r)
  BY <1>1 DEF EnterSetConfig, TypeOK, kernelVars, countVars, netVars
<1>2. CASE LeaveSetConfig(r)
  BY <1>2 DEF LeaveSetConfig, TypeOK, kernelVars, netVars
<1>3. ASSUME NEW dst \in Neighbours(r), LaunchSend(r, dst)
      PROVE  TypeOK'
  BY <1>3, LinkEnds, OpType, ZeroSlot DEF LaunchSend, TypeOK, countVars, netVars, cfgVars
<1>4. ASSUME NEW src \in Neighbours(r), LaunchRecv(r, src)
      PROVE  TypeOK'
  <2>1. PeerBufferIdx(r, src) \in Sides
    BY DEF PeerBufferIdx, Sides
  <2>2. QED
    BY <1>4, <2>1, LinkEnds, OpType, ZeroSlot DEF LaunchRecv, TypeOK, netVars, cfgVars
<1>5. ASSUME NEW src \in Neighbours(r), LaunchRecvBuffer(r, src)
      PROVE  TypeOK'
  <2> DEFINE j == PeerBufferIdx(r, src)
  <2>1. j \in Sides
    BY DEF PeerBufferIdx, Sides
  <2>2. hostCount[r][j] \in Nat
    BY <2>1 DEF TypeOK
  <2>3. [kind |-> "view", peer |-> src, slot |-> Slot(hostCount[r][j])] \in Ops
    BY <2>2, LinkEnds, OpType, SlotType
  <2>4. QED
    BY <1>5, <2>1, <2>3 DEF LaunchRecvBuffer, TypeOK, netVars, cfgVars
<1>6. ASSUME NEW src \in Neighbours(r), NEW v \in views[r][LocalIdxInDst(src, r)],
             ReleaseRecv(r, src, v)
      PROVE  TypeOK'
  <2>1. src \in Ranks /\ LocalIdxInDst(src, r) \in Sides
    BY LinkEnds
  <2>2. QED
    BY <1>6, <2>1 DEF ReleaseRecv, TypeOK, kernelVars, countVars, cfgVars
<1>7. QED
  BY <1>1, <1>2, <1>3, <1>4, <1>5, <1>6
     DEF Host, PpSetConfig, PpSend, PpRecv, PpRecvBuffer, PpReleaseRecv

LEMMA SideTypes ==
  \A src, dst : /\ LocalIdxInDst(src, dst) \in Sides
                /\ DstIdxInLocal(src, dst) \in Sides
                /\ LocalIdxInDst(src, dst) \in Regions
                /\ DstIdxInLocal(src, dst) + 2 \in Regions
BY DEF LocalIdxInDst, DstIdxInLocal, Sides, Regions

LEMMA KernelType ==
  ASSUME TypeOK, NEW r \in Ranks, Kernel(r)
  PROVE  TypeOK'
<1> DEFINE peer == cur[r].peer
<1>p. peer \in Ranks
  BY DEF TypeOK, Ops
<1>1. ASSUME NEW sm \in SMs, SendCopy(r, sm)
      PROVE  TypeOK'
  <2> DEFINE i == DstIdxInLocal(r, peer)
             n == sendCount[r][i]
             at == IF <<r, peer>> \in NvlPairs THEN <<peer, LocalIdxInDst(r, peer)>>
                                               ELSE <<r, i + 2>>
  <2>1. n \in Nat
    BY SideTypes DEF TypeOK
  <2>2. Slot(n) \in Slots /\ Msg(r, peer, n + 1) \in Messages
    BY <2>1, <1>p, SlotType, MsgType
  <2>3. at[1] \in Ranks /\ at[2] \in Regions
    BY <1>p, SideTypes
  <2>4. mem' = [mem EXCEPT ![at[1]][at[2]][Slot(n)][sm] = Msg(r, peer, n + 1)]
    BY <1>1 DEF SendCopy
  <2> HIDE DEF at, n
  <2>5. mem' \in [Ranks -> [Regions -> [Slots -> [SMs -> Messages]]]]
    BY <2>2, <2>3, <2>4 DEF TypeOK
  <2>6. /\ ready' = [ready EXCEPT ![r] = @ \cup {sm}]
        /\ UNCHANGED <<cur, out, countVars, sig, netVars, views, cfgVars>>
    BY <1>1 DEF SendCopy
  <2>7. QED
    BY <2>5, <2>6 DEF TypeOK, countVars, netVars, cfgVars
<1>2. ASSUME NEW sm \in SMs, RecvCopy(r, sm)
      PROVE  TypeOK'
  <2> DEFINE j == LocalIdxInDst(peer, r)
             k == Slot(recvCount[r][j])
  <2>1. j \in Regions /\ k \in Slots
    BY SideTypes, SlotType DEF TypeOK
  <2>2. mem[r][j][k][sm] \in Messages
    BY <2>1 DEF TypeOK
  <2>3. QED
    BY <1>2, <2>2 DEF RecvCopy, TypeOK, countVars, netVars, cfgVars
<1>3. CASE SendFinish(r)
  <2> DEFINE i == DstIdxInLocal(r, peer)
  <2>1. i \in Sides
    BY SideTypes
  <2>2. \/ arrived' = [arrived EXCEPT ![r][i] = @ + 1] /\ wire' = wire
        \/ wire' = [wire EXCEPT ![r][i] = @ + 1] /\ arrived' = arrived
    BY <1>3 DEF SendFinish
  <2>4. /\ sendCount' = [sendCount EXCEPT ![r][i] = @ + 1]
        /\ cur' = [cur EXCEPT ![r] = IdleOp]
        /\ ready' = [ready EXCEPT ![r] = {}]
        /\ UNCHANGED <<out, recvCount, hostCount, sig, mem, relWire, views, cfgVars>>
    BY <1>3 DEF SendFinish
  <2>a. arrived \in [Ranks -> [Sides -> Nat]] /\ wire \in [Ranks -> [Sides -> Nat]]
    BY DEF TypeOK
  <2> HIDE DEF i
  <2>3. arrived' \in [Ranks -> [Sides -> Nat]] /\ wire' \in [Ranks -> [Sides -> Nat]]
    <3>1. CASE arrived' = [arrived EXCEPT ![r][i] = @ + 1] /\ wire' = wire
      BY <2>1, <2>a, <3>1
    <3>2. CASE wire' = [wire EXCEPT ![r][i] = @ + 1] /\ arrived' = arrived
      BY <2>1, <2>a, <3>2
    <3>3. QED
      BY <2>2, <3>1, <3>2
  <2>5. QED
    BY <2>1, <2>3, <2>4, IdleType DEF TypeOK, cfgVars
<1>4. CASE RecvFinish(r)
  BY <1>4, SideTypes, IdleType DEF RecvFinish, TypeOK, cfgVars
<1>5. CASE RecvBufferFinish(r)
  <2> DEFINE j == LocalIdxInDst(peer, r)
  <2>1. j \in Sides /\ recvCount[r][j] \in Nat /\ cur[r].slot \in Slots
    BY SideTypes DEF TypeOK, Ops
  <2>2. [seq |-> recvCount[r][j] + 1, slot |-> cur[r].slot] \in Views
    BY <2>1 DEF Views
  <2>3. views' \in [Ranks -> [Sides -> SUBSET Views]]
    BY <1>5, <2>1, <2>2 DEF RecvBufferFinish, TypeOK
  <2>4. QED
    BY <1>5, <2>1, <2>3, IdleType DEF RecvBufferFinish, TypeOK, netVars, cfgVars
<1>6. QED
  BY <1>1, <1>2, <1>3, <1>4, <1>5 DEF Kernel

LEMMA NetworkType ==
  ASSUME TypeOK, NEW src \in Ranks, NEW dst \in Ranks, Network(src, dst),
         wire[src][DstIdxInLocal(src, dst)] <= sendCount[src][DstIdxInLocal(src, dst)]
  PROVE  TypeOK'
<1> DEFINE i == DstIdxInLocal(src, dst)
           j == LocalIdxInDst(src, dst)
<1>1. CASE PutLands(src, dst)
  <2> DEFINE k == Slot(sendCount[src][i] - wire[src][i])
  <2>1. sendCount[src][i] - wire[src][i] \in Nat
    BY SideTypes DEF TypeOK
  <2>2. k \in Slots
    BY <2>1, SlotType
  <2>3. mem[src][i + 2][k] \in [SMs -> Messages]
    BY <2>2, SideTypes DEF TypeOK
  <2>4. mem' = [mem EXCEPT ![dst][j][k] = mem[src][i + 2][k]]
    BY <1>1 DEF PutLands
  <2>5. mem' \in [Ranks -> [Regions -> [Slots -> [SMs -> Messages]]]]
    BY <2>2, <2>3, <2>4, SideTypes DEF TypeOK
  <2>6. QED
    BY <1>1, <2>5, SideTypes DEF PutLands, TypeOK, kernelVars, countVars, cfgVars
<1>2. CASE DataSignal(src, dst)
  BY <1>2, SideTypes DEF DataSignal, TypeOK, kernelVars, countVars, cfgVars
<1>3. CASE ReleaseSignal(src, dst)
  BY <1>3, SideTypes DEF ReleaseSignal, TypeOK, kernelVars, countVars, cfgVars
<1>4. QED
  BY <1>1, <1>2, <1>3 DEF Network

-----------------------------------------------------------------------------
(* The invariant of a link depends on these parts of the state only.       *)

LinkCounts(src, dst) ==
  <<Sent(src, dst), Taken(src, dst), HostTaken(src, dst), DataSig(src, dst),
    FreeSig(src, dst), OnWire(src, dst), Arrived(src, dst), FreeOnWire(src, dst),
    Held(src, dst)>>

LinkMemory(src, dst) == <<RecvRegion(src, dst), SendRegion(src, dst)>>

LinkKernels(src, dst) == <<Filled(src, dst), Copied(src, dst)>>

\* A step that leaves them alone leaves the link's invariant true.
LEMMA LinkFrame ==
  ASSUME NEW src, NEW dst, LinkInv(src, dst),
         UNCHANGED LinkCounts(src, dst),
         UNCHANGED LinkMemory(src, dst),
         UNCHANGED LinkKernels(src, dst),
         Busy(src, dst, "recv")' <=> Busy(src, dst, "recv"),
         Busy(src, dst, "view")' <=> Busy(src, dst, "view"),
         Busy(src, dst, "view") => cur'[dst].slot = cur[dst].slot,
         \A sm \in Copied(src, dst) : out'[dst][sm] = out[dst][sm]
  PROVE  LinkInv(src, dst)'
<1>1. Flow(src, dst)'
  BY DEF LinkInv, Flow, Freed, LinkCounts, LinkKernels
<1>2. Holding(src, dst)'
  BY DEF LinkInv, Holding, Freed, LinkCounts
<1>3. LandedIntact(src, dst)'
  BY DEF LinkInv, LandedIntact, Freed, LinkCounts, LinkMemory
<1>4. StagedIntact(src, dst)'
  BY DEF LinkInv, StagedIntact, LinkCounts, LinkMemory
<1>5. SharesExact(src, dst)'
  BY DEF LinkInv, SharesExact, LinkCounts, LinkMemory, LinkKernels
<1>6. QED
  BY <1>1, <1>2, <1>3, <1>4, <1>5 DEF LinkInv

-----------------------------------------------------------------------------
(* The host's steps.                                                       *)

\* What IInv says of one rank and one link.
LEMMA UseIInv ==
  ASSUME IInv, NEW src \in Ranks, NEW dst \in Neighbours(src)
  PROVE  /\ dst \in Ranks
         /\ src \in Neighbours(dst)
         /\ RankInv(src)
         /\ RankInv(dst)
         /\ LinkInv(src, dst)
         /\ Flow(src, dst)
         /\ Holding(src, dst)
BY LinkEnds DEF IInv, LinkInv

\* Entering pp_set_config touches no link, and leaving it neither: the host counters
\* it resets are zero.
LEMMA ConfigStep ==
  ASSUME IInv, NEW r \in Ranks, PpSetConfig(r)
  PROVE  UNCHANGED <<cur, ready, out, sendCount, recvCount, hostCount, sig, mem,
                     wire, arrived, relWire, views>>
<1>1. CASE EnterSetConfig(r)
  BY <1>1 DEF EnterSetConfig, kernelVars, countVars, netVars
<1>2. CASE LeaveSetConfig(r)
  <2>1. \A i \in Sides : hostCount[r][i] = 0
    BY <1>2 DEF LeaveSetConfig, IInv, RankInv, NothingReceived
  <2>2. hostCount \in [Ranks -> [Sides -> Nat]]
    BY DEF IInv, TypeOK
  <2>3. hostCount[r] = [i \in Sides |-> 0]
    BY <2>1, <2>2
  <2>4. hostCount' = hostCount
    BY <1>2, <2>2, <2>3 DEF LeaveSetConfig
  <2>5. QED
    BY <1>2, <2>4 DEF LeaveSetConfig, kernelVars, netVars
<1>3. QED
  BY <1>1, <1>2 DEF PpSetConfig

\* A rank between two kernels moves nothing on any of its links.
LEMMA IdleRank ==
  ASSUME NEW r, StreamIdle(r), NEW x
  PROVE  /\ ~Sending(r, x)
         /\ \A kind \in {"recv", "view"} : ~Busy(x, r, kind)
         /\ Filled(r, x) = {}
         /\ Copied(x, r) = {}
BY DEF StreamIdle, Sending, Busy, Filled, Copied

LEMMA LaunchSendStep ==
  ASSUME IInv, NEW r \in Ranks, NEW peer \in Neighbours(r), LaunchSend(r, peer),
         NEW src \in Ranks, NEW dst \in Neighbours(src)
  PROVE  LinkInv(src, dst)'
<1>1. dst \in Ranks /\ LinkInv(src, dst)
  BY UseIInv
<1>2. UNCHANGED LinkCounts(src, dst) /\ UNCHANGED LinkMemory(src, dst)
  BY DEF LaunchSend, countVars, netVars, LinkCounts, LinkMemory, Sent, Taken, HostTaken, DataSig,
         FreeSig, OnWire, Arrived, FreeOnWire, Held, RecvRegion, SendRegion
<1>3. /\ cur' = [cur EXCEPT ![r] = [kind |-> "send", peer |-> peer, slot |-> 0]]
      /\ UNCHANGED <<ready, out>>
      /\ cur[r].kind = "idle"
      /\ ready[r] = {}
      /\ cur \in [Ranks -> Ops]
  BY DEF LaunchSend, StreamIdle, IInv, TypeOK, RankInv
<1>4. /\ UNCHANGED LinkKernels(src, dst)
      /\ Busy(src, dst, "recv")' <=> Busy(src, dst, "recv")
      /\ Busy(src, dst, "view")' <=> Busy(src, dst, "view")
      /\ Busy(src, dst, "view") => cur'[dst].slot = cur[dst].slot
  BY <1>1, <1>3 DEF LinkKernels, Filled, Copied, Sending, Busy
<1>5. QED
  BY <1>1, <1>2, <1>3, <1>4, LinkFrame

LEMMA LaunchRecvStep ==
  ASSUME IInv, NEW r \in Ranks, NEW peer \in Neighbours(r), LaunchRecv(r, peer),
         NoViewHeld(r, peer), NEW src \in Ranks, NEW dst \in Neighbours(src)
  PROVE  LinkInv(src, dst)'
<1>1. dst \in Ranks /\ src \in Neighbours(dst) /\ LinkInv(src, dst) /\ peer \in Ranks
  BY UseIInv
<1>2. /\ UNCHANGED LinkMemory(src, dst)
      /\ UNCHANGED <<Sent(src, dst), Taken(src, dst), DataSig(src, dst), FreeSig(src, dst),
                     OnWire(src, dst), Arrived(src, dst), FreeOnWire(src, dst), Held(src, dst)>>
  BY DEF LaunchRecv, netVars, LinkMemory, Sent, Taken, DataSig, FreeSig, OnWire, Arrived,
         FreeOnWire, Held, RecvRegion, SendRegion
<1>3. /\ cur' = [cur EXCEPT ![r] = [kind |-> "recv", peer |-> peer, slot |-> 0]]
      /\ UNCHANGED <<ready, out>>
      /\ cur[r].kind = "idle"
      /\ ready[r] = {}
      /\ cur \in [Ranks -> Ops]
  BY DEF LaunchRecv, StreamIdle, IInv, TypeOK, RankInv
<1>4. /\ UNCHANGED LinkKernels(src, dst)
      /\ Busy(src, dst, "view")' <=> Busy(src, dst, "view")
      /\ Busy(src, dst, "view") => cur'[dst].slot = cur[dst].slot
  BY <1>1, <1>3 DEF LinkKernels, Filled, Copied, Sending, Busy
<1>5. /\ LocalIdxInDst(peer, r) \in Sides
      /\ hostCount \in [Ranks -> [Sides -> Nat]]
      /\ hostCount' = [hostCount EXCEPT ![r][LocalIdxInDst(peer, r)] = @ + 1]
  BY <1>1, HostIndex, SideTypes DEF LaunchRecv, IInv, TypeOK
<1>6. CASE src = peer /\ dst = r
  <2>1. HostTaken(src, dst)' = HostTaken(src, dst) + 1
    BY <1>5, <1>6 DEF HostTaken
  <2>2. /\ Busy(src, dst, "recv")'
        /\ ~Busy(src, dst, "view")'
        /\ ~Busy(src, dst, "recv")
        /\ ~Busy(src, dst, "view")
    BY <1>3, <1>6 DEF Busy
  <2>3. Held(src, dst) = {}
    BY <1>6 DEF NoViewHeld, Held
  <2>4. Holding(src, dst)'
    BY <1>1, <1>2, <2>1, <2>2, <2>3 DEF LinkInv, Holding, Freed
  <2>5. Flow(src, dst)'
    BY <1>1, <1>2, <1>4 DEF LinkInv, Flow, Freed, LinkKernels
  <2>6. LandedIntact(src, dst)' /\ StagedIntact(src, dst)'
    BY <1>1, <1>2 DEF LinkInv, LandedIntact, StagedIntact, Freed, LinkMemory
  <2>7. SharesExact(src, dst)'
    BY <1>1, <1>2, <1>3, <1>4 DEF LinkInv, SharesExact, LinkMemory, LinkKernels
  <2>8. QED
    BY <2>4, <2>5, <2>6, <2>7 DEF LinkInv
<1>7. CASE ~(src = peer /\ dst = r)
  <2>1. HostTaken(src, dst)' = HostTaken(src, dst)
    BY <1>1, <1>5, <1>7, LinksApart, LinkEnds DEF HostTaken
  <2>2. Busy(src, dst, "recv")' <=> Busy(src, dst, "recv")
    BY <1>1, <1>3, <1>7 DEF Busy
  <2>3. UNCHANGED LinkCounts(src, dst)
    BY <1>2, <2>1 DEF LinkCounts
  <2>4. QED
    BY <1>1, <1>2, <1>3, <1>4, <2>2, <2>3, LinkFrame
<1>8. QED
  BY <1>6, <1>7

LEMMA LaunchRecvBufferStep ==
  ASSUME IInv, NEW r \in Ranks, NEW peer \in Neighbours(r), LaunchRecvBuffer(r, peer),
         NEW src \in Ranks, NEW dst \in Neighbours(src)
  PROVE  LinkInv(src, dst)'
<1> DEFINE j == LocalIdxInDst(peer, r)
<1>1. dst \in Ranks /\ src \in Neighbours(dst) /\ LinkInv(src, dst) /\ peer \in Ranks
  BY UseIInv
<1>2. /\ UNCHANGED LinkMemory(src, dst)
      /\ UNCHANGED <<Sent(src, dst), Taken(src, dst), DataSig(src, dst), FreeSig(src, dst),
                     OnWire(src, dst), Arrived(src, dst), FreeOnWire(src, dst), Held(src, dst)>>
  BY DEF LaunchRecvBuffer, netVars, LinkMemory, Sent, Taken, DataSig, FreeSig, OnWire, Arrived,
         FreeOnWire, Held, RecvRegion, SendRegion
<1>3. /\ cur' = [cur EXCEPT ![r] = [kind |-> "view", peer |-> peer,
                                    slot |-> Slot(hostCount[r][j])]]
      /\ UNCHANGED <<ready, out>>
      /\ cur[r].kind = "idle"
      /\ ready[r] = {}
      /\ cur \in [Ranks -> Ops]
  BY <1>1, HostIndex DEF LaunchRecvBuffer, StreamIdle, IInv, TypeOK, RankInv
<1>4. /\ UNCHANGED LinkKernels(src, dst)
      /\ Busy(src, dst, "recv")' <=> Busy(src, dst, "recv")
  BY <1>1, <1>3 DEF LinkKernels, Filled, Copied, Sending, Busy
<1>5. /\ j \in Sides
      /\ hostCount \in [Ranks -> [Sides -> Nat]]
      /\ hostCount' = [hostCount EXCEPT ![r][j] = @ + 1]
  BY <1>1, HostIndex, SideTypes DEF LaunchRecvBuffer, IInv, TypeOK
<1>6. CASE src = peer /\ dst = r
  <2>1. HostTaken(src, dst)' = HostTaken(src, dst) + 1
    BY <1>5, <1>6 DEF HostTaken
  <2>2. /\ Busy(src, dst, "view")'
        /\ ~Busy(src, dst, "recv")'
        /\ ~Busy(src, dst, "recv")
        /\ ~Busy(src, dst, "view")
        /\ cur'[dst].slot = Slot(HostTaken(src, dst))
    BY <1>3, <1>6 DEF Busy, HostTaken
  <2>3. Holding(src, dst)'
    BY <1>1, <1>2, <2>1, <2>2 DEF LinkInv, Holding, Freed
  <2>4. Flow(src, dst)'
    BY <1>1, <1>2, <1>4 DEF LinkInv, Flow, Freed, LinkKernels
  <2>5. LandedIntact(src, dst)' /\ StagedIntact(src, dst)'
    BY <1>1, <1>2 DEF LinkInv, LandedIntact, StagedIntact, Freed, LinkMemory
  <2>6. SharesExact(src, dst)'
    BY <1>1, <1>2, <1>3, <1>4 DEF LinkInv, SharesExact, LinkMemory, LinkKernels
  <2>7. QED
    BY <2>3, <2>4, <2>5, <2>6 DEF LinkInv
<1>7. CASE ~(src = peer /\ dst = r)
  <2>1. HostTaken(src, dst)' = HostTaken(src, dst)
    BY <1>1, <1>5, <1>7, LinksApart, LinkEnds DEF HostTaken
  <2>2. /\ Busy(src, dst, "view")' <=> Busy(src, dst, "view")
        /\ Busy(src, dst, "view") => cur'[dst].slot = cur[dst].slot
    BY <1>1, <1>3, <1>7 DEF Busy
  <2>3. UNCHANGED LinkCounts(src, dst)
    BY <1>2, <2>1 DEF LinkCounts
  <2>4. QED
    BY <1>1, <1>2, <1>3, <1>4, <2>2, <2>3, LinkFrame
<1>8. QED
  BY <1>6, <1>7

\* The oldest view is the first message not yet freed, so freeing it keeps the views
\* held and the messages outstanding the same.
LEMMA ReleaseRecvStep ==
  ASSUME IInv, NEW r \in Ranks, NEW peer \in Neighbours(r),
         NEW v \in views[r][LocalIdxInDst(peer, r)], OldestView(r, peer, v),
         ReleaseRecv(r, peer, v), NEW src \in Ranks, NEW dst \in Neighbours(src)
  PROVE  LinkInv(src, dst)'
<1> DEFINE j == LocalIdxInDst(peer, r)
<1>1. dst \in Ranks /\ src \in Neighbours(dst) /\ LinkInv(src, dst) /\ peer \in Ranks
  BY UseIInv
<1>2. /\ UNCHANGED LinkMemory(src, dst)
      /\ UNCHANGED LinkKernels(src, dst)
      /\ UNCHANGED <<Sent(src, dst), Taken(src, dst), HostTaken(src, dst), DataSig(src, dst),
                     FreeSig(src, dst), OnWire(src, dst), Arrived(src, dst)>>
      /\ Busy(src, dst, "recv")' <=> Busy(src, dst, "recv")
      /\ Busy(src, dst, "view")' <=> Busy(src, dst, "view")
      /\ UNCHANGED <<cur, out>>
  BY DEF ReleaseRecv, kernelVars, countVars, LinkMemory, LinkKernels, Filled, Copied, Sending,
         Busy, Sent, Taken, HostTaken, DataSig, FreeSig, OnWire, Arrived, RecvRegion, SendRegion
<1>3. /\ j \in Sides
      /\ relWire \in [Ranks -> [Sides -> Nat]]
      /\ views \in [Ranks -> [Sides -> SUBSET Views]]
      /\ relWire' = [relWire EXCEPT ![r][j] = @ + 1]
      /\ views' = [views EXCEPT ![r][j] = @ \ {v}]
      /\ cur[r].kind = "idle"
  BY <1>1, SideTypes DEF ReleaseRecv, StreamIdle, IInv, TypeOK
<1>4. CASE src = peer /\ dst = r
  <2>1. /\ FreeOnWire(src, dst)' = FreeOnWire(src, dst) + 1
        /\ Held(src, dst)' = Held(src, dst) \ {v}
        /\ FreeOnWire(src, dst) \in Nat
        /\ Held(src, dst) \subseteq Views
        /\ v \in Held(src, dst)
        /\ \A w \in Held(src, dst) : v.seq <= w.seq
    BY <1>3, <1>4 DEF FreeOnWire, Held, OldestView
  <2>2. FreeSig(src, dst) \in Nat /\ Taken(src, dst) \in Nat
    BY <1>1, SideTypes DEF IInv, TypeOK, FreeSig, Taken
  <2>3. Freed(src, dst)' = Freed(src, dst) + 1 /\ Freed(src, dst) \in Nat
    BY <1>2, <2>1, <2>2 DEF Freed
  <2>4. v.seq = Freed(src, dst) + 1 /\ Freed(src, dst) + 1 <= Taken(src, dst)
    BY <1>1, <2>1, <2>2, <2>3 DEF LinkInv, Holding, Views
  <2>5. \A w \in Held(src, dst) : w.seq = v.seq => w = v
    BY <1>1, <2>1 DEF LinkInv, Holding, Views
  <2>6. ~Busy(src, dst, "recv") /\ ~Busy(src, dst, "view")
    BY <1>3, <1>4 DEF Busy
  <2>7. Holding(src, dst)'
    <3>1. \A w \in Held(src, dst)' : /\ w.seq \in Freed(src, dst)' + 1 .. Taken(src, dst)'
                                     /\ w.slot = Slot(w.seq - 1)
      BY <1>1, <1>2, <2>1, <2>2, <2>3, <2>4, <2>5 DEF LinkInv, Holding, Views
    <3>2. \A n \in Freed(src, dst)' + 1 .. Taken(src, dst)' : \E w \in Held(src, dst)' : w.seq = n
      BY <1>1, <1>2, <2>1, <2>2, <2>3, <2>4 DEF LinkInv, Holding
    <3>3. QED
      BY <1>1, <1>2, <2>6, <3>1, <3>2 DEF LinkInv, Holding
  <2>8. Flow(src, dst)'
    BY <1>1, <1>2, <2>3, <2>4 DEF LinkInv, Flow, LinkKernels
  <2>9. LandedIntact(src, dst)' /\ StagedIntact(src, dst)'
    BY <1>1, <1>2, <2>3 DEF LinkInv, LandedIntact, StagedIntact, LinkMemory
  <2>10. SharesExact(src, dst)'
    BY <1>1, <1>2 DEF LinkInv, SharesExact, LinkMemory, LinkKernels
  <2>11. QED
    BY <2>7, <2>8, <2>9, <2>10 DEF LinkInv
<1>5. CASE ~(src = peer /\ dst = r)
  <2>1. UNCHANGED <<FreeOnWire(src, dst), Held(src, dst)>>
    BY <1>1, <1>3, <1>5, LinksApart, LinkEnds DEF FreeOnWire, Held
  <2>2. UNCHANGED LinkCounts(src, dst)
    BY <1>2, <2>1 DEF LinkCounts
  <2>3. QED
    BY <1>1, <1>2, <2>2, LinkFrame
<1>6. QED
  BY <1>4, <1>5

-----------------------------------------------------------------------------
(* The steps of the receiving kernels.                                     *)

LEMMA CountTypes ==
  ASSUME IInv, NEW src \in Ranks, NEW dst \in Ranks
  PROVE  /\ Sent(src, dst) \in Nat /\ Taken(src, dst) \in Nat /\ HostTaken(src, dst) \in Nat
         /\ DataSig(src, dst) \in Nat /\ FreeSig(src, dst) \in Nat
         /\ OnWire(src, dst) \in Nat /\ Arrived(src, dst) \in Nat
         /\ FreeOnWire(src, dst) \in Nat
         /\ Freed(src, dst) \in Nat
         /\ Held(src, dst) \subseteq Views
BY SideTypes DEF IInv, TypeOK, Sent, Taken, HostTaken, DataSig, FreeSig, OnWire, Arrived,
                 FreeOnWire, Freed, Held

\* A message that is signalled and not taken is whole in its slot.
LEMMA SignalledIntact ==
  ASSUME IInv, NEW src \in Ranks, NEW dst \in Neighbours(src),
         DataSig(src, dst) >= Taken(src, dst) + 1, NEW sm \in SMs
  PROVE  RecvRegion(src, dst)[Slot(Taken(src, dst))][sm] = Msg(src, dst, Taken(src, dst) + 1)
<1> DEFINE n == Taken(src, dst) + 1
<1>1. Flow(src, dst) /\ LandedIntact(src, dst)
  BY UseIInv DEF LinkInv
<1>2. n \in Freed(src, dst) + 1 .. Sent(src, dst) - OnWire(src, dst)
  BY <1>1, CountTypes, LinkEnds DEF Flow
<1>3. n - 1 = Taken(src, dst)
  BY CountTypes, LinkEnds
<1>4. QED
  BY <1>1, <1>2, <1>3 DEF LandedIntact

LEMMA RecvCopyStep ==
  ASSUME IInv, NEW r \in Ranks, NEW sm \in SMs, RecvCopy(r, sm),
         NEW src \in Ranks, NEW dst \in Neighbours(src)
  PROVE  LinkInv(src, dst)'
<1> DEFINE peer == cur[r].peer
<1>1. dst \in Ranks /\ src \in Neighbours(dst) /\ LinkInv(src, dst)
  BY UseIInv
<1>2. /\ UNCHANGED LinkMemory(src, dst)
      /\ UNCHANGED LinkCounts(src, dst)
      /\ Busy(src, dst, "recv")' <=> Busy(src, dst, "recv")
      /\ Busy(src, dst, "view")' <=> Busy(src, dst, "view")
      /\ UNCHANGED cur
  BY DEF RecvCopy, countVars, netVars, LinkMemory, LinkCounts, Busy, Sent, Taken, HostTaken,
         DataSig, FreeSig, OnWire, Arrived, FreeOnWire, Held, RecvRegion, SendRegion
<1>3. /\ cur[r].kind = "recv"
      /\ ready \in [Ranks -> SUBSET SMs]
      /\ ready' = [ready EXCEPT ![r] = @ \cup {sm}]
      /\ out \in [Ranks -> [SMs -> Messages]]
      /\ out' = [out EXCEPT ![r][sm] =
                   mem[r][LocalIdxInDst(peer, r)][Slot(Taken(peer, r))][sm]]
      /\ MessageThere(r, peer)
  BY DEF RecvCopy, IInv, TypeOK, Taken
<1>4. Filled(src, dst)' = Filled(src, dst)
  BY <1>1, <1>2, <1>3 DEF Filled, Sending
<1>5. CASE src = peer /\ dst = r
  <2>1. DataSig(src, dst) >= Taken(src, dst) + 1
    BY <1>3, <1>5 DEF MessageThere, DataSig, Taken
  <2>2. /\ Copied(src, dst)' = Copied(src, dst) \cup {sm}
        /\ Busy(src, dst, "recv")
    BY <1>2, <1>3, <1>5 DEF Copied, Busy
  <2>3. out'[dst] = [out[dst] EXCEPT ![sm] = RecvRegion(src, dst)[Slot(Taken(src, dst))][sm]]
    BY <1>3, <1>5 DEF RecvRegion
  <2>4. out'[dst][sm] = Msg(src, dst, Taken(src, dst) + 1)
    BY <1>1, <1>3, <2>1, <2>3, SignalledIntact
  <2>5. SharesExact(src, dst)'
    <3>1. \A s \in Copied(src, dst)' : out'[dst][s] = Msg(src, dst, Taken(src, dst) + 1)
      BY <1>1, <1>3, <2>2, <2>3, <2>4 DEF LinkInv, SharesExact
    <3>2. QED
      BY <1>1, <1>2, <1>4, <3>1 DEF LinkInv, SharesExact, LinkMemory, LinkCounts
  <2>6. Flow(src, dst)'
    BY <1>1, <1>2, <1>4, <2>1, CountTypes DEF LinkInv, Flow, Freed, LinkCounts
  <2>7. Holding(src, dst)'
    BY <1>1, <1>2 DEF LinkInv, Holding, Freed, LinkCounts
  <2>8. LandedIntact(src, dst)' /\ StagedIntact(src, dst)'
    BY <1>1, <1>2 DEF LinkInv, LandedIntact, StagedIntact, Freed, LinkMemory, LinkCounts
  <2>9. QED
    BY <2>5, <2>6, <2>7, <2>8 DEF LinkInv
<1>6. CASE ~(src = peer /\ dst = r)
  <2>1. Copied(src, dst)' = Copied(src, dst)
    BY <1>1, <1>2, <1>3, <1>6 DEF Copied, Busy
  <2>2. \A s \in Copied(src, dst) : out'[dst][s] = out[dst][s]
    BY <1>1, <1>3, <1>6 DEF Copied, Busy
  <2>3. QED
    BY <1>1, <1>2, <1>4, <2>1, <2>2, LinkFrame DEF LinkKernels
<1>7. QED
  BY <1>5, <1>6

LEMMA RecvFinishStep ==
  ASSUME IInv, NEW r \in Ranks, RecvFinish(r), NEW src \in Ranks, NEW dst \in Neighbours(src)
  PROVE  LinkInv(src, dst)'
<1> DEFINE peer == cur[r].peer
           j == LocalIdxInDst(peer, r)
<1>1. dst \in Ranks /\ src \in Neighbours(dst) /\ LinkInv(src, dst)
  BY UseIInv
<1>2. peer \in Neighbours(r) /\ peer \in Ranks
  BY LinkEnds DEF RecvFinish, IInv, RankInv
<1>3. /\ UNCHANGED LinkMemory(src, dst)
      /\ UNCHANGED <<Sent(src, dst), HostTaken(src, dst), DataSig(src, dst), FreeSig(src, dst),
                     OnWire(src, dst), Arrived(src, dst), Held(src, dst)>>
      /\ UNCHANGED out
  BY DEF RecvFinish, LinkMemory, Sent, HostTaken, DataSig, FreeSig, OnWire, Arrived, Held,
         RecvRegion, SendRegion
<1>4. /\ cur[r].kind = "recv"
      /\ ready[r] = SMs
      /\ cur \in [Ranks -> Ops]
      /\ ready \in [Ranks -> SUBSET SMs]
      /\ cur' = [cur EXCEPT ![r] = IdleOp]
      /\ ready' = [ready EXCEPT ![r] = {}]
      /\ IdleOp.kind = "idle"
  BY DEF RecvFinish, IInv, TypeOK, IdleOp
<1>5. /\ j \in Sides
      /\ relWire \in [Ranks -> [Sides -> Nat]]
      /\ recvCount \in [Ranks -> [Sides -> Nat]]
      /\ relWire' = [relWire EXCEPT ![r][j] = @ + 1]
      /\ recvCount' = [recvCount EXCEPT ![r][j] = @ + 1]
  BY SideTypes DEF RecvFinish, IInv, TypeOK
<1>6. Filled(src, dst)' = Filled(src, dst)
  BY <1>1, <1>4 DEF Filled, Sending
<1>7. CASE src = peer /\ dst = r
  <2>1. /\ FreeOnWire(src, dst)' = FreeOnWire(src, dst) + 1
        /\ Taken(src, dst)' = Taken(src, dst) + 1
    BY <1>5, <1>7 DEF FreeOnWire, Taken
  <2>2. /\ Copied(src, dst)' = {}
        /\ Copied(src, dst) # {}
        /\ Busy(src, dst, "recv")
        /\ ~Busy(src, dst, "recv")' /\ ~Busy(src, dst, "view")'
    BY <1>4, <1>7, SMsAssumption DEF Copied, Busy
  <2>3. Freed(src, dst)' = Freed(src, dst) + 1
    BY <1>1, <1>3, <2>1, CountTypes DEF Freed
  <2>4. Held(src, dst) = {} /\ Freed(src, dst) = Taken(src, dst)
    BY <1>1, <2>2, CountTypes DEF LinkInv, Holding, Flow
  <2>5. Flow(src, dst)'
    BY <1>1, <1>3, <1>6, <2>1, <2>2, <2>3, <2>4, CountTypes DEF LinkInv, Flow
  <2>6. Holding(src, dst)'
    BY <1>1, <1>3, <2>1, <2>2, <2>3, <2>4, CountTypes DEF LinkInv, Holding
  <2>7. LandedIntact(src, dst)' /\ StagedIntact(src, dst)'
    BY <1>1, <1>3, <2>3, CountTypes DEF LinkInv, LandedIntact, StagedIntact, LinkMemory
  <2>8. SharesExact(src, dst)'
    BY <1>1, <1>3, <1>6, <2>2 DEF LinkInv, SharesExact, LinkMemory
  <2>9. QED
    BY <2>5, <2>6, <2>7, <2>8 DEF LinkInv
<1>8. CASE ~(src = peer /\ dst = r)
  <2>1. UNCHANGED <<FreeOnWire(src, dst), Taken(src, dst)>>
    BY <1>1, <1>2, <1>5, <1>8, LinksApart, LinkEnds DEF FreeOnWire, Taken
  <2>2. UNCHANGED LinkCounts(src, dst)
    BY <1>3, <2>1 DEF LinkCounts
  <2>3. /\ Copied(src, dst)' = Copied(src, dst)
        /\ Busy(src, dst, "recv")' <=> Busy(src, dst, "recv")
        /\ Busy(src, dst, "view")' <=> Busy(src, dst, "view")
        /\ Busy(src, dst, "view") => cur'[dst].slot = cur[dst].slot
    BY <1>1, <1>4, <1>8 DEF Copied, Busy
  <2>4. QED
    BY <1>1, <1>3, <1>6, <2>2, <2>3, LinkFrame DEF LinkKernels
<1>9. QED
  BY <1>7, <1>8

LEMMA RecvBufferFinishStep ==
  ASSUME IInv, NEW r \in Ranks, RecvBufferFinish(r),
         NEW src \in Ranks, NEW dst \in Neighbours(src)
  PROVE  LinkInv(src, dst)'
<1> DEFINE peer == cur[r].peer
           j == LocalIdxInDst(peer, r)
           new == [seq |-> recvCount[r][j] + 1, slot |-> cur[r].slot]
<1>1. dst \in Ranks /\ src \in Neighbours(dst) /\ LinkInv(src, dst)
  BY UseIInv
<1>2. peer \in Neighbours(r) /\ peer \in Ranks
  BY LinkEnds DEF RecvBufferFinish, IInv, RankInv
<1>3. /\ UNCHANGED LinkMemory(src, dst)
      /\ UNCHANGED <<Sent(src, dst), HostTaken(src, dst), DataSig(src, dst), FreeSig(src, dst),
                     OnWire(src, dst), Arrived(src, dst), FreeOnWire(src, dst)>>
      /\ UNCHANGED <<out, ready>>
  BY DEF RecvBufferFinish, netVars, LinkMemory, Sent, HostTaken, DataSig, FreeSig, OnWire, Arrived,
         FreeOnWire, RecvRegion, SendRegion
<1>4. /\ cur[r].kind = "view"
      /\ cur \in [Ranks -> Ops]
      /\ cur' = [cur EXCEPT ![r] = IdleOp]
      /\ IdleOp.kind = "idle"
  BY DEF RecvBufferFinish, IInv, TypeOK, IdleOp
<1>5. /\ j \in Sides
      /\ views \in [Ranks -> [Sides -> SUBSET Views]]
      /\ recvCount \in [Ranks -> [Sides -> Nat]]
      /\ views' = [views EXCEPT ![r][j] = @ \cup {new}]
      /\ recvCount' = [recvCount EXCEPT ![r][j] = @ + 1]
      /\ MessageThere(r, peer)
  BY SideTypes DEF RecvBufferFinish, IInv, TypeOK
<1>6. UNCHANGED LinkKernels(src, dst)
  BY <1>1, <1>3, <1>4 DEF LinkKernels, Filled, Copied, Sending, Busy
<1>7. CASE src = peer /\ dst = r
  <2>1. /\ Held(src, dst)' = Held(src, dst) \cup {new}
        /\ Taken(src, dst)' = Taken(src, dst) + 1
        /\ new.seq = Taken(src, dst) + 1
        /\ new.slot = cur[dst].slot
        /\ DataSig(src, dst) >= Taken(src, dst) + 1
    BY <1>5, <1>7 DEF Held, Taken, DataSig, MessageThere
  <2>2. /\ Busy(src, dst, "view")
        /\ ~Busy(src, dst, "recv")
        /\ ~Busy(src, dst, "recv")' /\ ~Busy(src, dst, "view")'
        /\ Copied(src, dst) = {}
    BY <1>4, <1>7 DEF Busy, Copied
  <2>3. Freed(src, dst)' = Freed(src, dst)
    BY <1>3 DEF Freed
  <2> HIDE DEF new
  <2>4. Flow(src, dst)'
    BY <1>1, <1>3, <1>6, <2>1, <2>2, <2>3, CountTypes DEF LinkInv, Flow, LinkKernels
  <2>5. new.slot = Slot(new.seq - 1)
    BY <1>1, <2>1, <2>2, CountTypes DEF LinkInv, Holding
  <2>6. Holding(src, dst)'
    <3>1. \A v \in Held(src, dst)' : /\ v.seq \in Freed(src, dst)' + 1 .. Taken(src, dst)'
                                     /\ v.slot = Slot(v.seq - 1)
      BY <1>1, <2>1, <2>3, <2>5, CountTypes DEF LinkInv, Holding, Flow
    <3>2. \A n \in Freed(src, dst)' + 1 .. Taken(src, dst)' : \E v \in Held(src, dst)' : v.seq = n
      BY <1>1, <2>1, <2>3, CountTypes DEF LinkInv, Holding
    <3>3. QED
      BY <1>1, <1>3, <2>1, <2>2, <3>1, <3>2 DEF LinkInv, Holding
  <2>7. LandedIntact(src, dst)' /\ StagedIntact(src, dst)'
    BY <1>1, <1>3, <2>3 DEF LinkInv, LandedIntact, StagedIntact, LinkMemory
  <2>8. SharesExact(src, dst)'
    BY <1>1, <1>3, <1>6, <2>2 DEF LinkInv, SharesExact, LinkMemory, LinkKernels
  <2>9. QED
    BY <2>4, <2>6, <2>7, <2>8 DEF LinkInv
<1>8. CASE ~(src = peer /\ dst = r)
  <2>1. UNCHANGED <<Held(src, dst), Taken(src, dst)>>
    BY <1>1, <1>2, <1>5, <1>8, LinksApart, LinkEnds DEF Held, Taken
  <2>2. UNCHANGED LinkCounts(src, dst)
    BY <1>3, <2>1 DEF LinkCounts
  <2>3. /\ Busy(src, dst, "recv")' <=> Busy(src, dst, "recv")
        /\ Busy(src, dst, "view")' <=> Busy(src, dst, "view")
        /\ Busy(src, dst, "view") => cur'[dst].slot = cur[dst].slot
    BY <1>1, <1>4, <1>8 DEF Busy
  <2>4. QED
    BY <1>1, <1>3, <1>6, <2>2, <2>3, LinkFrame
<1>9. QED
  BY <1>7, <1>8

-----------------------------------------------------------------------------
(* The steps of the sending kernel.                                        *)

\* The slot of the next message is no slot of a message that must stay intact.
LEMMA FreshSlot ==
  ASSUME IInv, NEW src \in Ranks, NEW dst \in Neighbours(src), SendSlotFree(src, dst)
  PROVE  /\ Sent(src, dst) + 1 <= FreeSig(src, dst) + Inflight
         /\ \A n \in Freed(src, dst) + 1 .. Sent(src, dst) : Slot(n - 1) # Slot(Sent(src, dst))
         /\ \A n \in Sent(src, dst) - OnWire(src, dst) + 1 .. Sent(src, dst) :
              Slot(n - 1) # Slot(Sent(src, dst))
<1>1. Flow(src, dst) /\ dst \in Ranks
  BY UseIInv
<1>2. Sent(src, dst) + 1 <= FreeSig(src, dst) + Inflight
  BY <1>1, CountTypes, InflightAssumption DEF SendSlotFree, Sent, FreeSig
<1>3. ASSUME NEW n \in Freed(src, dst) + 1 .. Sent(src, dst)
      PROVE  Slot(n - 1) # Slot(Sent(src, dst))
  <2>1. FreeSig(src, dst) <= Freed(src, dst)
    BY <1>1, CountTypes DEF Freed
  <2>2. /\ n - 1 \in Nat
        /\ n - 1 < Sent(src, dst)
        /\ Sent(src, dst) - (n - 1) < Inflight
    BY <1>1, <1>2, <2>1, CountTypes, InflightAssumption
  <2>3. QED
    BY <1>1, <2>2, SlotsApart, CountTypes
<1>4. Freed(src, dst) <= Sent(src, dst) - OnWire(src, dst)
  BY <1>1, CountTypes DEF Flow
<1>5. \A n \in Sent(src, dst) - OnWire(src, dst) + 1 .. Sent(src, dst) :
        n \in Freed(src, dst) + 1 .. Sent(src, dst)
  BY <1>1, <1>4, CountTypes
<1>6. QED
  BY <1>2, <1>3, <1>5

\* An SM of the sender writes one cell: in the receive region of its own link, or in
\* the send region of its own link.
LEMMA SendCopyMemory ==
  ASSUME IInv, NEW r \in Ranks, NEW sm \in SMs, SendCopy(r, sm),
         NEW src \in Ranks, NEW dst \in Neighbours(src)
  PROVE  LET peer == cur[r].peer
             cell(region) == [region EXCEPT ![Slot(Sent(r, peer))][sm] =
                                Msg(r, peer, Sent(r, peer) + 1)]
             mapped == <<r, peer>> \in NvlPairs
         IN  /\ RecvRegion(src, dst)' = IF src = r /\ dst = peer /\ mapped
                                        THEN cell(RecvRegion(src, dst)) ELSE RecvRegion(src, dst)
             /\ SendRegion(src, dst)' = IF src = r /\ dst = peer /\ ~mapped
                                        THEN cell(SendRegion(src, dst)) ELSE SendRegion(src, dst)
<1> DEFINE peer == cur[r].peer
           i == DstIdxInLocal(r, peer)
           n == sendCount[r][i]
<1>1. peer \in Neighbours(r) /\ peer \in Ranks /\ dst \in Ranks /\ src \in Neighbours(dst)
  BY LinkEnds DEF SendCopy, IInv, RankInv
<1>2. mem \in [Ranks -> [Regions -> [Slots -> [SMs -> Messages]]]]
  BY DEF IInv, TypeOK
<1>3. n = Sent(r, peer)
  BY DEF Sent
<1>4. CASE <<r, peer>> \in NvlPairs
  <2>1. mem' = [mem EXCEPT ![peer][LocalIdxInDst(r, peer)][Slot(n)][sm] = Msg(r, peer, n + 1)]
    BY <1>4 DEF SendCopy
  <2>2. SendRegion(src, dst)' = SendRegion(src, dst)
    BY <1>1, <1>2, <2>1, LinkEnds DEF SendRegion
  <2>3. CASE src = r /\ dst = peer
    <3>1. RecvRegion(src, dst)' =
            [RecvRegion(src, dst) EXCEPT ![Slot(n)][sm] = Msg(r, peer, n + 1)]
      BY <1>1, <1>2, <2>1, <2>3, LinkEnds DEF RecvRegion
    <3>2. QED
      BY <1>3, <1>4, <2>2, <2>3, <3>1
  <2>4. CASE ~(src = r /\ dst = peer)
    <3>1. RecvRegion(src, dst)' = RecvRegion(src, dst)
      BY <1>1, <1>2, <2>1, <2>4, LinkEnds, LinksApart DEF RecvRegion
    <3>2. QED
      BY <1>4, <2>2, <2>4, <3>1
  <2>5. QED
    BY <2>3, <2>4
<1>5. CASE <<r, peer>> \notin NvlPairs
  <2>1. mem' = [mem EXCEPT ![r][i + 2][Slot(n)][sm] = Msg(r, peer, n + 1)]
    BY <1>5 DEF SendCopy
  <2>2. i + 2 \notin Sides /\ i + 2 \in Regions /\ i \in Sides
    BY <1>1, LinkEnds
  <2>3. RecvRegion(src, dst)' = RecvRegion(src, dst)
    BY <1>1, <1>2, <2>1, <2>2, LinkEnds DEF RecvRegion
  <2>4. CASE src = r /\ dst = peer
    <3>1. SendRegion(src, dst)' =
            [SendRegion(src, dst) EXCEPT ![Slot(n)][sm] = Msg(r, peer, n + 1)]
      BY <1>1, <1>2, <2>1, <2>2, <2>4 DEF SendRegion
    <3>2. QED
      BY <1>3, <1>5, <2>3, <2>4, <3>1
  <2>5. CASE ~(src = r /\ dst = peer)
    <3>1. src # r \/ DstIdxInLocal(src, dst) # i
      BY <1>1, <2>5, LinksApart
    <3>2. DstIdxInLocal(src, dst) \in Sides
      BY LinkEnds
    <3>3. src # r \/ DstIdxInLocal(src, dst) + 2 # i + 2
      BY <2>2, <3>1, <3>2 DEF Sides
    <3>4. SendRegion(src, dst)' = SendRegion(src, dst)
      BY <1>1, <1>2, <2>1, <3>3, LinkEnds DEF SendRegion
    <3>5. QED
      BY <1>5, <2>3, <2>5, <3>4
  <2>6. QED
    BY <2>4, <2>5
<1>6. QED
  BY <1>4, <1>5

LEMMA SendCopyStep ==
  ASSUME IInv, NEW r \in Ranks, NEW sm \in SMs, SendCopy(r, sm),
         NEW src \in Ranks, NEW dst \in Neighbours(src)
  PROVE  LinkInv(src, dst)'
<1> DEFINE peer == cur[r].peer
           cell(region) == [region EXCEPT ![Slot(Sent(r, peer))][sm] =
                              Msg(r, peer, Sent(r, peer) + 1)]
           mapped == <<r, peer>> \in NvlPairs
<1>1. /\ dst \in Ranks /\ src \in Neighbours(dst) /\ LinkInv(src, dst)
      /\ peer \in Neighbours(r) /\ peer \in Ranks
  BY UseIInv DEF SendCopy, IInv, RankInv
<1>2. /\ UNCHANGED LinkCounts(src, dst)
      /\ Busy(src, dst, "recv")' <=> Busy(src, dst, "recv")
      /\ Busy(src, dst, "view")' <=> Busy(src, dst, "view")
      /\ UNCHANGED <<cur, out>>
  BY DEF SendCopy, countVars, netVars, LinkCounts, Busy, Sent, Taken, HostTaken, DataSig, FreeSig,
         OnWire, Arrived, FreeOnWire, Held
<1>3. /\ cur[r].kind = "send"
      /\ ready \in [Ranks -> SUBSET SMs]
      /\ ready' = [ready EXCEPT ![r] = @ \cup {sm}]
      /\ SendSlotFree(r, peer)
  BY DEF SendCopy, IInv, TypeOK
<1>4. /\ RecvRegion(src, dst)' = IF src = r /\ dst = peer /\ mapped
                                 THEN cell(RecvRegion(src, dst)) ELSE RecvRegion(src, dst)
      /\ SendRegion(src, dst)' = IF src = r /\ dst = peer /\ ~mapped
                                 THEN cell(SendRegion(src, dst)) ELSE SendRegion(src, dst)
  BY SendCopyMemory
<1>5. Copied(src, dst)' = Copied(src, dst)
  BY <1>1, <1>2, <1>3 DEF Copied, Busy
<1>6. CASE src = r /\ dst = peer
  <2>1. Filled(src, dst)' = Filled(src, dst) \cup {sm}
    BY <1>2, <1>3, <1>6 DEF Filled, Sending
  <2>2. /\ Sent(src, dst) + 1 <= FreeSig(src, dst) + Inflight
        /\ \A n \in Freed(src, dst) + 1 .. Sent(src, dst) : Slot(n - 1) # Slot(Sent(src, dst))
        /\ \A n \in Sent(src, dst) - OnWire(src, dst) + 1 .. Sent(src, dst) :
             Slot(n - 1) # Slot(Sent(src, dst))
    BY <1>3, <1>6, FreshSlot
  <2>3. Flow(src, dst)'
    BY <1>1, <1>2, <1>5, <2>1, <2>2 DEF LinkInv, Flow, Freed, LinkCounts
  <2>4. Holding(src, dst)'
    BY <1>1, <1>2 DEF LinkInv, Holding, Freed, LinkCounts
  <2>5. \A k \in Slots, s \in SMs : k # Slot(Sent(src, dst)) =>
          /\ RecvRegion(src, dst)'[k][s] = RecvRegion(src, dst)[k][s]
          /\ SendRegion(src, dst)'[k][s] = SendRegion(src, dst)[k][s]
    BY <1>4, <1>6
  <2>6. /\ \A n \in Freed(src, dst) + 1 .. Sent(src, dst) : Slot(n - 1) \in Slots
        /\ \A n \in Sent(src, dst) - OnWire(src, dst) + 1 .. Sent(src, dst) : Slot(n - 1) \in Slots
        /\ Sent(src, dst) - OnWire(src, dst) <= Sent(src, dst)
    <3>1. Sent(src, dst) - OnWire(src, dst) \in Nat
      BY <1>1, CountTypes DEF LinkInv, Flow
    <3>2. QED
      BY <1>1, <3>1, CountTypes, SlotType
  <2>7. LandedIntact(src, dst)'
    <3>1. UNCHANGED <<Freed(src, dst), Sent(src, dst), OnWire(src, dst)>>
      BY <1>2 DEF LinkCounts, Freed
    <3>2. LandedIntact(src, dst)
      BY <1>1 DEF LinkInv
    <3>3. ASSUME NEW n \in Freed(src, dst) + 1 .. Sent(src, dst) - OnWire(src, dst), NEW s \in SMs
          PROVE  RecvRegion(src, dst)'[Slot(n - 1)][s] = Msg(src, dst, n)
      <4>1. n \in Freed(src, dst) + 1 .. Sent(src, dst)
        BY <1>1, CountTypes
      <4>2. QED
        BY <2>2, <2>5, <2>6, <3>2, <4>1 DEF LandedIntact
    <3>4. QED
      BY <3>1, <3>3 DEF LandedIntact
  <2>8. StagedIntact(src, dst)'
    <3>1. UNCHANGED <<Sent(src, dst), OnWire(src, dst)>>
      BY <1>2 DEF LinkCounts
    <3>2. StagedIntact(src, dst)
      BY <1>1 DEF LinkInv
    <3>3. ASSUME NEW n \in Sent(src, dst) - OnWire(src, dst) + 1 .. Sent(src, dst), NEW s \in SMs
          PROVE  SendRegion(src, dst)'[Slot(n - 1)][s] = Msg(src, dst, n)
      BY <2>2, <2>5, <2>6, <3>2 DEF StagedIntact
    <3>4. QED
      BY <3>1, <3>3 DEF StagedIntact
  <2>9. SharesExact(src, dst)'
    <3> DEFINE region == IF mapped THEN RecvRegion(src, dst) ELSE SendRegion(src, dst)
    <3>1. /\ \A s \in Filled(src, dst) :
               region[Slot(Sent(src, dst))][s] = Msg(src, dst, Sent(src, dst) + 1)
          /\ \A s \in Copied(src, dst) : out[dst][s] = Msg(src, dst, Taken(src, dst) + 1)
      BY <1>1, <1>6 DEF LinkInv, SharesExact
    <3>2. region' = cell(region)
      BY <1>2, <1>4, <1>6
    <3>3. region \in [Slots -> [SMs -> Messages]] /\ Filled(src, dst) \subseteq SMs
      BY <1>1, <1>3, SideTypes DEF IInv, TypeOK, RecvRegion, SendRegion, Filled
    <3>4. Slot(Sent(src, dst)) \in Slots
      BY <1>1, CountTypes, SlotType
    <3> HIDE DEF region
    <3>5. \A s \in Filled(src, dst)' :
            region'[Slot(Sent(src, dst))][s] = Msg(src, dst, Sent(src, dst) + 1)
      BY <1>6, <2>1, <3>1, <3>2, <3>3, <3>4
    <3>6. QED
      BY <1>2, <1>5, <1>6, <3>1, <3>5 DEF SharesExact, region, LinkCounts
  <2>10. QED
    BY <2>3, <2>4, <2>7, <2>8, <2>9 DEF LinkInv
<1>7. CASE ~(src = r /\ dst = peer)
  <2>1. UNCHANGED LinkMemory(src, dst)
    BY <1>4, <1>7 DEF LinkMemory
  <2>2. Filled(src, dst)' = Filled(src, dst)
    BY <1>1, <1>2, <1>3, <1>7 DEF Filled, Sending
  <2>3. QED
    BY <1>1, <1>2, <1>5, <2>1, <2>2, LinkFrame DEF LinkKernels
<1>8. QED
  BY <1>6, <1>7

LEMMA SendFinishStep ==
  ASSUME IInv, NEW r \in Ranks, SendFinish(r), NEW src \in Ranks, NEW dst \in Neighbours(src)
  PROVE  LinkInv(src, dst)'
<1> DEFINE peer == cur[r].peer
           i == DstIdxInLocal(r, peer)
<1>1. /\ dst \in Ranks /\ src \in Neighbours(dst) /\ LinkInv(src, dst)
      /\ peer \in Neighbours(r) /\ peer \in Ranks /\ i \in Sides
  BY UseIInv, SideTypes DEF SendFinish, IInv, RankInv
<1>2. /\ UNCHANGED LinkMemory(src, dst)
      /\ UNCHANGED <<Taken(src, dst), HostTaken(src, dst), DataSig(src, dst), FreeSig(src, dst),
                     FreeOnWire(src, dst), Held(src, dst)>>
      /\ UNCHANGED out
  BY DEF SendFinish, LinkMemory, Taken, HostTaken, DataSig, FreeSig, FreeOnWire, Held, RecvRegion,
         SendRegion
<1>3. /\ cur[r].kind = "send"
      /\ ready[r] = SMs
      /\ cur \in [Ranks -> Ops]
      /\ ready \in [Ranks -> SUBSET SMs]
      /\ sendCount \in [Ranks -> [Sides -> Nat]]
      /\ wire \in [Ranks -> [Sides -> Nat]]
      /\ arrived \in [Ranks -> [Sides -> Nat]]
      /\ cur' = [cur EXCEPT ![r] = IdleOp]
      /\ ready' = [ready EXCEPT ![r] = {}]
      /\ sendCount' = [sendCount EXCEPT ![r][i] = @ + 1]
      /\ IdleOp.kind = "idle"
  BY DEF SendFinish, IInv, TypeOK, IdleOp
<1>4. /\ <<r, peer>> \in NvlPairs => arrived' = [arrived EXCEPT ![r][i] = @ + 1] /\ wire' = wire
      /\ <<r, peer>> \notin NvlPairs => wire' = [wire EXCEPT ![r][i] = @ + 1] /\ arrived' = arrived
  BY DEF SendFinish
<1>5. Copied(src, dst)' = Copied(src, dst)
  BY <1>1, <1>3 DEF Copied, Busy
<1>6. /\ Busy(src, dst, "recv")' <=> Busy(src, dst, "recv")
      /\ Busy(src, dst, "view")' <=> Busy(src, dst, "view")
      /\ Busy(src, dst, "view") => cur'[dst].slot = cur[dst].slot
  BY <1>1, <1>3 DEF Busy
<1>7. CASE src = r /\ dst = peer
  <2>1. Sent(src, dst)' = Sent(src, dst) + 1
    BY <1>1, <1>3, <1>7 DEF Sent
  <2>2. /\ <<src, dst>> \in NvlPairs =>
             Arrived(src, dst)' = Arrived(src, dst) + 1 /\ OnWire(src, dst)' = OnWire(src, dst)
        /\ <<src, dst>> \notin NvlPairs =>
             OnWire(src, dst)' = OnWire(src, dst) + 1 /\ Arrived(src, dst)' = Arrived(src, dst)
    BY <1>1, <1>3, <1>4, <1>7 DEF Arrived, OnWire
  <2>3. Filled(src, dst)' = {} /\ Filled(src, dst) = SMs
    BY <1>1, <1>3, <1>7 DEF Filled, Sending
  <2>4. Freed(src, dst)' = Freed(src, dst)
    BY <1>2 DEF Freed
  <2>5. Flow(src, dst)'
    BY <1>1, <1>2, <1>5, <2>1, <2>2, <2>3, <2>4, SMsAssumption, CountTypes DEF LinkInv, Flow
  <2>6. Holding(src, dst)'
    BY <1>1, <1>2, <1>6, <2>4 DEF LinkInv, Holding
  <2>7. \A s \in SMs :
          (IF <<src, dst>> \in NvlPairs THEN RecvRegion(src, dst) ELSE SendRegion(src, dst))
            [Slot(Sent(src, dst))][s] = Msg(src, dst, Sent(src, dst) + 1)
    BY <1>1, <2>3 DEF LinkInv, SharesExact
  <2>8. LandedIntact(src, dst)'
    <3>1. CASE <<src, dst>> \in NvlPairs
      <4>1. OnWire(src, dst) = 0 /\ OnWire(src, dst)' = 0
        BY <1>1, <2>2, <3>1 DEF LinkInv, Flow
      <4>2. ASSUME NEW n \in Freed(src, dst) + 1 .. Sent(src, dst) + 1, NEW s \in SMs
            PROVE  RecvRegion(src, dst)[Slot(n - 1)][s] = Msg(src, dst, n)
        <5>1. CASE n = Sent(src, dst) + 1
          BY <1>1, <2>7, <3>1, <5>1, CountTypes
        <5>2. CASE n # Sent(src, dst) + 1
          BY <1>1, <4>1, <5>2, CountTypes DEF LinkInv, LandedIntact
        <5>3. QED
          BY <5>1, <5>2
      <4>3. QED
        BY <1>1, <1>2, <2>1, <2>4, <4>1, <4>2, CountTypes DEF LandedIntact, LinkMemory
    <3>2. CASE <<src, dst>> \notin NvlPairs
      <4>1. Sent(src, dst)' - OnWire(src, dst)' = Sent(src, dst) - OnWire(src, dst)
        BY <1>1, <2>1, <2>2, <3>2, CountTypes
      <4>2. QED
        BY <1>1, <1>2, <2>4, <4>1 DEF LinkInv, LandedIntact, LinkMemory
    <3>3. QED
      BY <3>1, <3>2
  <2>9. StagedIntact(src, dst)'
    <3>1. CASE <<src, dst>> \in NvlPairs
      <4>1. OnWire(src, dst)' = 0
        BY <1>1, <2>2, <3>1 DEF LinkInv, Flow
      <4>2. QED
        BY <1>1, <2>1, <4>1, CountTypes DEF StagedIntact
    <3>2. CASE <<src, dst>> \notin NvlPairs
      <4>1. Sent(src, dst)' - OnWire(src, dst)' = Sent(src, dst) - OnWire(src, dst)
        BY <1>1, <2>1, <2>2, <3>2, CountTypes
      <4>2. ASSUME NEW n \in Sent(src, dst) - OnWire(src, dst) + 1 .. Sent(src, dst) + 1,
                   NEW s \in SMs
            PROVE  SendRegion(src, dst)[Slot(n - 1)][s] = Msg(src, dst, n)
        <5>1. CASE n = Sent(src, dst) + 1
          BY <1>1, <2>7, <3>2, <5>1, CountTypes
        <5>2. CASE n # Sent(src, dst) + 1
          BY <1>1, <5>2, CountTypes DEF LinkInv, StagedIntact
        <5>3. QED
          BY <5>1, <5>2
      <4>3. QED
        BY <1>1, <1>2, <2>1, <4>1, <4>2 DEF StagedIntact, LinkMemory
    <3>3. QED
      BY <3>1, <3>2
  <2>10. SharesExact(src, dst)'
    BY <1>1, <1>2, <1>5, <2>3 DEF LinkInv, SharesExact
  <2>11. QED
    BY <2>5, <2>6, <2>8, <2>9, <2>10 DEF LinkInv
<1>8. CASE ~(src = r /\ dst = peer)
  <2>1. src # r \/ DstIdxInLocal(src, dst) # i
    BY <1>1, <1>8, LinksApart
  <2>2. UNCHANGED <<Sent(src, dst), OnWire(src, dst), Arrived(src, dst)>>
    BY <1>1, <1>3, <1>4, <2>1, SideTypes DEF Sent, OnWire, Arrived
  <2>3. UNCHANGED LinkCounts(src, dst)
    BY <1>2, <2>2 DEF LinkCounts
  <2>4. Filled(src, dst)' = Filled(src, dst)
    BY <1>1, <1>3, <1>8 DEF Filled, Sending
  <2>5. QED
    BY <1>1, <1>2, <1>5, <1>6, <2>3, <2>4, LinkFrame DEF LinkKernels
<1>9. QED
  BY <1>7, <1>8

-----------------------------------------------------------------------------
(* The steps of the network.                                               *)

LEMMA PutLandsStep ==
  ASSUME IInv, NEW a \in Ranks, NEW b \in Neighbours(a), PutLands(a, b),
         NEW src \in Ranks, NEW dst \in Neighbours(src)
  PROVE  LinkInv(src, dst)'
<1> DEFINE i == DstIdxInLocal(a, b)
           j == LocalIdxInDst(a, b)
           m == Sent(a, b) - OnWire(a, b)
<1>1. /\ dst \in Ranks /\ src \in Neighbours(dst) /\ LinkInv(src, dst)
      /\ b \in Ranks /\ LinkInv(a, b) /\ i \in Sides /\ j \in Sides /\ j \in Regions
      /\ i + 2 \in Regions /\ i + 2 \notin Sides
  BY UseIInv, LinkEnds
<1>2. /\ UNCHANGED <<Sent(src, dst), Taken(src, dst), HostTaken(src, dst), DataSig(src, dst),
                     FreeSig(src, dst), FreeOnWire(src, dst), Held(src, dst)>>
      /\ UNCHANGED LinkKernels(src, dst)
      /\ Busy(src, dst, "recv")' <=> Busy(src, dst, "recv")
      /\ Busy(src, dst, "view")' <=> Busy(src, dst, "view")
      /\ UNCHANGED <<cur, out>>
  BY DEF PutLands, kernelVars, countVars, LinkKernels, Filled, Copied, Sending, Busy, Sent, Taken,
         HostTaken, DataSig, FreeSig, FreeOnWire, Held
<1>3. /\ mem \in [Ranks -> [Regions -> [Slots -> [SMs -> Messages]]]]
      /\ wire \in [Ranks -> [Sides -> Nat]]
      /\ arrived \in [Ranks -> [Sides -> Nat]]
      /\ mem' = [mem EXCEPT ![b][j][Slot(m)] = mem[a][i + 2][Slot(m)]]
      /\ wire' = [wire EXCEPT ![a][i] = @ - 1]
      /\ arrived' = [arrived EXCEPT ![a][i] = @ + 1]
      /\ OnWire(a, b) > 0
  BY DEF PutLands, IInv, TypeOK, OnWire, Sent
<1>4. SendRegion(src, dst)' = SendRegion(src, dst)
  BY <1>1, <1>3, LinkEnds DEF SendRegion
<1>5. CASE src = a /\ dst = b
  <2>1. /\ OnWire(src, dst)' = OnWire(src, dst) - 1
        /\ Arrived(src, dst)' = Arrived(src, dst) + 1
    BY <1>1, <1>3, <1>5 DEF OnWire, Arrived
  <2>2. RecvRegion(src, dst)' =
          [RecvRegion(src, dst) EXCEPT ![Slot(m)] = SendRegion(src, dst)[Slot(m)]]
    BY <1>1, <1>3, <1>5 DEF RecvRegion, SendRegion
  <2>3. /\ Freed(src, dst)' = Freed(src, dst)
        /\ <<src, dst>> \notin NvlPairs
        /\ Freed(src, dst) <= m /\ m \in Nat
        /\ m < Sent(src, dst)
        /\ FreeSig(src, dst) <= Freed(src, dst)
    BY <1>1, <1>2, <1>3, <1>5, CountTypes DEF LinkInv, Flow, Freed
  <2>4. Flow(src, dst)'
    <3>1. Flow(src, dst) /\ OnWire(src, dst) > 0
      BY <1>1, <1>3, <1>5 DEF LinkInv
    <3>2. Sent(src, dst)' = DataSig(src, dst)' + Arrived(src, dst)' + OnWire(src, dst)'
      BY <1>1, <1>2, <2>1, <3>1, CountTypes DEF Flow
    <3>3. QED
      BY <1>2, <2>3, <3>1, <3>2 DEF Flow, LinkKernels
  <2>5. Holding(src, dst)'
    BY <1>1, <1>2, <2>3 DEF LinkInv, Holding
  <2>6. RecvRegion(src, dst) \in [Slots -> [SMs -> Messages]] /\ Slot(m) \in Slots
    <3>1. RecvRegion(src, dst) \in [Slots -> [SMs -> Messages]]
      BY <1>1, <1>3, <1>5 DEF RecvRegion
    <3>2. QED
      BY <2>3, <3>1, SlotType
  <2>7. LandedIntact(src, dst)'
    <3>1. ASSUME NEW n \in Freed(src, dst) + 1 .. m + 1, NEW s \in SMs
          PROVE  RecvRegion(src, dst)'[Slot(n - 1)][s] = Msg(src, dst, n)
      <4>1. CASE n = m + 1
        <5>1. n \in Sent(src, dst) - OnWire(src, dst) + 1 .. Sent(src, dst) /\ n - 1 = m
          BY <1>1, <1>5, <2>3, <4>1, CountTypes
        <5>2. SendRegion(src, dst)[Slot(m)][s] = Msg(src, dst, n)
          BY <1>1, <5>1 DEF LinkInv, StagedIntact
        <5>3. QED
          BY <2>2, <2>6, <5>1, <5>2
      <4>2. CASE n # m + 1
        <5>1. n \in Freed(src, dst) + 1 .. m
          BY <1>1, <2>3, <4>2, CountTypes
        <5>2. n - 1 \in Nat /\ n - 1 < m /\ m - (n - 1) < Inflight
          BY <1>1, <2>3, <5>1, CountTypes, InflightAssumption DEF LinkInv, Flow
        <5>3. Slot(n - 1) # Slot(m) /\ Slot(n - 1) \in Slots
          BY <2>3, <5>2, SlotsApart, SlotType
        <5>4. RecvRegion(src, dst)[Slot(n - 1)][s] = Msg(src, dst, n)
          BY <1>1, <1>5, <5>1 DEF LinkInv, LandedIntact
        <5>5. QED
          BY <2>2, <2>6, <5>3, <5>4
      <4>3. QED
        BY <4>1, <4>2
    <3>2. Sent(src, dst)' - OnWire(src, dst)' = m + 1
      BY <1>1, <1>2, <1>5, <2>1, CountTypes
    <3>3. QED
      BY <2>3, <3>1, <3>2 DEF LandedIntact
  <2>8. StagedIntact(src, dst)'
    <3>1. Sent(src, dst)' - OnWire(src, dst)' = Sent(src, dst) - OnWire(src, dst) + 1
      BY <1>1, <1>2, <2>1, CountTypes
    <3>2. \A n \in Sent(src, dst) - OnWire(src, dst) + 2 .. Sent(src, dst) :
            n \in Sent(src, dst) - OnWire(src, dst) + 1 .. Sent(src, dst)
      BY <1>1, CountTypes
    <3>3. QED
      BY <1>1, <1>2, <1>4, <3>1, <3>2, CountTypes DEF LinkInv, StagedIntact
  <2>9. SharesExact(src, dst)'
    BY <1>1, <1>2, <1>4, <2>3 DEF LinkInv, SharesExact, LinkKernels
  <2>10. QED
    BY <2>4, <2>5, <2>7, <2>8, <2>9 DEF LinkInv
<1>6. CASE ~(src = a /\ dst = b)
  <2>1. /\ src # a \/ DstIdxInLocal(src, dst) # i
        /\ dst # b \/ LocalIdxInDst(src, dst) # j
    BY <1>1, <1>6, LinksApart
  <2>2. UNCHANGED <<OnWire(src, dst), Arrived(src, dst)>>
    BY <1>1, <1>3, <2>1, SideTypes DEF OnWire, Arrived
  <2>3. RecvRegion(src, dst)' = RecvRegion(src, dst)
    BY <1>1, <1>3, <2>1, SideTypes DEF RecvRegion
  <2>4. UNCHANGED LinkCounts(src, dst) /\ UNCHANGED LinkMemory(src, dst)
    BY <1>2, <1>4, <2>2, <2>3 DEF LinkCounts, LinkMemory
  <2>5. QED
    BY <1>1, <1>2, <2>4, LinkFrame
<1>7. QED
  BY <1>5, <1>6

LEMMA DataSignalStep ==
  ASSUME IInv, NEW a \in Ranks, NEW b \in Neighbours(a), DataSignal(a, b),
         NEW src \in Ranks, NEW dst \in Neighbours(src)
  PROVE  LinkInv(src, dst)'
<1> DEFINE i == DstIdxInLocal(a, b)
           j == LocalIdxInDst(a, b)
<1>1. /\ dst \in Ranks /\ src \in Neighbours(dst) /\ LinkInv(src, dst)
      /\ b \in Ranks /\ i \in Sides /\ j \in Sides /\ j \in Regions
  BY UseIInv, LinkEnds
<1>2. /\ UNCHANGED <<Sent(src, dst), Taken(src, dst), HostTaken(src, dst), OnWire(src, dst),
                     FreeOnWire(src, dst), Held(src, dst)>>
      /\ UNCHANGED LinkKernels(src, dst)
      /\ UNCHANGED LinkMemory(src, dst)
      /\ Busy(src, dst, "recv")' <=> Busy(src, dst, "recv")
      /\ Busy(src, dst, "view")' <=> Busy(src, dst, "view")
      /\ UNCHANGED <<cur, out>>
  BY DEF DataSignal, kernelVars, countVars, LinkKernels, LinkMemory, Filled, Copied, Sending, Busy,
         Sent, Taken, HostTaken, OnWire, FreeOnWire, Held, RecvRegion, SendRegion
<1>3. /\ arrived \in [Ranks -> [Sides -> Nat]]
      /\ sig \in [Ranks -> [Regions -> Nat]]
      /\ arrived' = [arrived EXCEPT ![a][i] = @ - 1]
      /\ sig' = [sig EXCEPT ![b][j] = @ + 1]
      /\ Arrived(a, b) > 0
  BY DEF DataSignal, IInv, TypeOK, Arrived
<1>4. FreeSig(src, dst)' = FreeSig(src, dst)
  BY <1>1, <1>3, LinkEnds DEF FreeSig
<1>5. Freed(src, dst)' = Freed(src, dst)
  BY <1>2, <1>4 DEF Freed
<1>6. CASE src = a /\ dst = b
  <2>1. /\ Arrived(src, dst)' = Arrived(src, dst) - 1
        /\ DataSig(src, dst)' = DataSig(src, dst) + 1
    BY <1>1, <1>3, <1>6 DEF Arrived, DataSig
  <2>2. Flow(src, dst)'
    <3>1. Flow(src, dst) /\ Arrived(src, dst) > 0
      BY <1>1, <1>3, <1>6 DEF LinkInv
    <3>2. Sent(src, dst)' = DataSig(src, dst)' + Arrived(src, dst)' + OnWire(src, dst)'
      BY <1>1, <1>2, <2>1, <3>1, CountTypes DEF Flow
    <3>3. DataSig(src, dst)' \in Nat /\ DataSig(src, dst)' >= DataSig(src, dst)
      BY <1>1, <2>1, CountTypes
    <3>4. Taken(src, dst)' <= DataSig(src, dst)'
      BY <1>1, <1>2, <3>1, <3>3, CountTypes DEF Flow
    <3>5. Copied(src, dst)' # {} => Taken(src, dst)' + 1 <= DataSig(src, dst)'
      BY <1>1, <1>2, <3>1, <3>3, CountTypes DEF Flow, LinkKernels
    <3>6. QED
      BY <1>2, <1>4, <1>5, <3>1, <3>2, <3>4, <3>5 DEF Flow, LinkKernels
  <2>3. Holding(src, dst)'
    BY <1>1, <1>2, <1>5 DEF LinkInv, Holding
  <2>4. LandedIntact(src, dst)' /\ StagedIntact(src, dst)'
    BY <1>1, <1>2, <1>5 DEF LinkInv, LandedIntact, StagedIntact, LinkMemory
  <2>5. SharesExact(src, dst)'
    BY <1>1, <1>2 DEF LinkInv, SharesExact, LinkKernels, LinkMemory
  <2>6. QED
    BY <2>2, <2>3, <2>4, <2>5 DEF LinkInv
<1>7. CASE ~(src = a /\ dst = b)
  <2>1. /\ src # a \/ DstIdxInLocal(src, dst) # i
        /\ dst # b \/ LocalIdxInDst(src, dst) # j
    BY <1>1, <1>7, LinksApart
  <2>2. UNCHANGED <<Arrived(src, dst), DataSig(src, dst)>>
    BY <1>1, <1>3, <2>1, SideTypes DEF Arrived, DataSig
  <2>3. UNCHANGED LinkCounts(src, dst)
    BY <1>2, <1>4, <2>2 DEF LinkCounts
  <2>4. QED
    BY <1>1, <1>2, <2>3, LinkFrame
<1>8. QED
  BY <1>6, <1>7

LEMMA ReleaseSignalStep ==
  ASSUME IInv, NEW a \in Ranks, NEW b \in Neighbours(a), ReleaseSignal(a, b),
         NEW src \in Ranks, NEW dst \in Neighbours(src)
  PROVE  LinkInv(src, dst)'
<1> DEFINE i == DstIdxInLocal(a, b)
           j == LocalIdxInDst(a, b)
<1>1. /\ dst \in Ranks /\ src \in Neighbours(dst) /\ LinkInv(src, dst)
      /\ b \in Ranks /\ i \in Sides /\ j \in Sides
      /\ i + 2 \in Regions /\ i + 2 \notin Sides
  BY UseIInv, LinkEnds
<1>2. /\ UNCHANGED <<Sent(src, dst), Taken(src, dst), HostTaken(src, dst), OnWire(src, dst),
                     Arrived(src, dst), Held(src, dst)>>
      /\ UNCHANGED LinkKernels(src, dst)
      /\ UNCHANGED LinkMemory(src, dst)
      /\ Busy(src, dst, "recv")' <=> Busy(src, dst, "recv")
      /\ Busy(src, dst, "view")' <=> Busy(src, dst, "view")
      /\ UNCHANGED <<cur, out>>
  BY DEF ReleaseSignal, kernelVars, countVars, LinkKernels, LinkMemory, Filled, Copied, Sending,
         Busy, Sent, Taken, HostTaken, OnWire, Arrived, Held, RecvRegion, SendRegion
<1>3. /\ relWire \in [Ranks -> [Sides -> Nat]]
      /\ sig \in [Ranks -> [Regions -> Nat]]
      /\ relWire' = [relWire EXCEPT ![b][j] = @ - 1]
      /\ sig' = [sig EXCEPT ![a][i + 2] = @ + 1]
      /\ FreeOnWire(a, b) > 0
  BY DEF ReleaseSignal, IInv, TypeOK, FreeOnWire
<1>4. DataSig(src, dst)' = DataSig(src, dst)
  BY <1>1, <1>3, LinkEnds DEF DataSig
<1>5. CASE src = a /\ dst = b
  <2>1. /\ FreeOnWire(src, dst)' = FreeOnWire(src, dst) - 1
        /\ FreeSig(src, dst)' = FreeSig(src, dst) + 1
    BY <1>1, <1>3, <1>5 DEF FreeOnWire, FreeSig
  <2>2. Freed(src, dst)' = Freed(src, dst)
    BY <1>1, <2>1, CountTypes DEF Freed
  <2>3. Flow(src, dst)'
    BY <1>1, <1>2, <1>4, <2>1, <2>2, CountTypes, InflightAssumption
       DEF LinkInv, Flow, LinkKernels
  <2>4. Holding(src, dst)'
    BY <1>1, <1>2, <2>2 DEF LinkInv, Holding
  <2>5. LandedIntact(src, dst)' /\ StagedIntact(src, dst)'
    BY <1>1, <1>2, <2>2 DEF LinkInv, LandedIntact, StagedIntact, LinkMemory
  <2>6. SharesExact(src, dst)'
    BY <1>1, <1>2 DEF LinkInv, SharesExact, LinkKernels, LinkMemory
  <2>7. QED
    BY <2>3, <2>4, <2>5, <2>6 DEF LinkInv
<1>6. CASE ~(src = a /\ dst = b)
  <2>1. /\ src # a \/ DstIdxInLocal(src, dst) # i
        /\ dst # b \/ LocalIdxInDst(src, dst) # j
    BY <1>1, <1>6, LinksApart
  <2>2. DstIdxInLocal(src, dst) \in Sides /\ (src # a \/ DstIdxInLocal(src, dst) + 2 # i + 2)
    BY <1>1, <2>1, LinkEnds DEF Sides
  <2>3. UNCHANGED <<FreeOnWire(src, dst), FreeSig(src, dst)>>
    BY <1>1, <1>3, <2>1, <2>2, SideTypes DEF FreeOnWire, FreeSig
  <2>4. UNCHANGED LinkCounts(src, dst)
    BY <1>2, <1>4, <2>3 DEF LinkCounts
  <2>5. QED
    BY <1>1, <1>2, <2>4, LinkFrame
<1>7. QED
  BY <1>5, <1>6

-----------------------------------------------------------------------------
(* The ranks.                                                              *)

LEMMA ConfigRank ==
  ASSUME IInv, NEW r \in Ranks, PpSetConfig(r), NEW q \in Ranks
  PROVE  RankInv(q)'
<1>1. RankInv(q)
  BY DEF IInv
<1>2. UNCHANGED <<cur, ready, recvCount, hostCount>>
  BY ConfigStep
<1>3. cfgEntered \in [Ranks -> Nat] /\ cfgLeft \in [Ranks -> Nat]
  BY DEF IInv, TypeOK
<1>4. InBarrier(q)' => InBarrier(q) \/ (q = r /\ StreamIdle(r) /\ NothingReceived(r))
  <2>1. CASE NothingReceived(r) /\ EnterSetConfig(r)
    BY <1>3, <2>1 DEF EnterSetConfig, InBarrier
  <2>2. CASE LeaveSetConfig(r)
    BY <1>3, <2>2 DEF LeaveSetConfig, InBarrier
  <2>3. QED
    BY <2>1, <2>2 DEF PpSetConfig
<1>5. QED
  BY <1>1, <1>2, <1>4 DEF RankInv, StreamIdle, NothingReceived

\* A rank outside the barrier that starts a kernel for a neighbour, without SMs at work.
LEMMA LaunchRank ==
  ASSUME IInv, NEW r \in Ranks, NEW peer \in Neighbours(r),
         LaunchSend(r, peer) \/ LaunchRecv(r, peer) \/ LaunchRecvBuffer(r, peer),
         NEW q \in Ranks
  PROVE  RankInv(q)'
<1>1. RankInv(q) /\ RankInv(r)
  BY DEF IInv
<1>2. /\ UNCHANGED <<ready, recvCount, cfgVars>>
      /\ ~InBarrier(r)
      /\ cur[r].kind = "idle"
  BY DEF LaunchSend, LaunchRecv, LaunchRecvBuffer, countVars, Configured, StreamIdle
<1>3. \E kind \in {"send", "recv", "view"}, slot \in Nat \cup Int :
        cur' = [cur EXCEPT ![r] = [kind |-> kind, peer |-> peer, slot |-> slot]]
  <2>1. \A i \in Sides : Slot(hostCount[r][i]) \in Nat \cup Int
    BY SlotType DEF IInv, TypeOK, Slots
  <2>2. PeerBufferIdx(r, peer) \in Sides
    BY DEF PeerBufferIdx, Sides
  <2>3. QED
    BY <2>1, <2>2 DEF LaunchSend, LaunchRecv, LaunchRecvBuffer
<1>4. cur \in [Ranks -> Ops]
  BY DEF IInv, TypeOK
<1>5. CASE q = r
  BY <1>1, <1>2, <1>3, <1>4, <1>5 DEF RankInv, InBarrier, cfgVars
<1>6. CASE q # r
  <2>1. cur'[q] = cur[q]
    BY <1>3, <1>4, <1>6
  <2>2. hostCount'[q] = hostCount[q]
    BY <1>6 DEF LaunchSend, LaunchRecv, LaunchRecvBuffer, countVars, IInv, TypeOK
  <2>3. QED
    BY <1>1, <1>2, <2>1, <2>2 DEF RankInv, InBarrier, StreamIdle, NothingReceived, cfgVars
<1>7. QED
  BY <1>5, <1>6

\* A kernel that goes on or ends: its rank is not in the barrier.
LEMMA KernelRank ==
  ASSUME IInv, NEW r \in Ranks, Kernel(r), NEW q \in Ranks
  PROVE  RankInv(q)'
<1>1. RankInv(q) /\ RankInv(r)
  BY DEF IInv
<1>2. UNCHANGED <<hostCount, cfgVars>> /\ cur[r].kind # "idle"
  BY DEF Kernel, SendCopy, RecvCopy, SendFinish, RecvFinish, RecvBufferFinish, countVars
<1>3. ~InBarrier(r)
  BY <1>1, <1>2 DEF RankInv, StreamIdle
<1>4. /\ cur \in [Ranks -> Ops] /\ ready \in [Ranks -> SUBSET SMs]
      /\ recvCount \in [Ranks -> [Sides -> Nat]]
  BY DEF IInv, TypeOK
<1>5. CASE q = r
  <2>1. CASE \E sm \in SMs : SendCopy(r, sm) \/ RecvCopy(r, sm)
    BY <1>1, <1>2, <1>3, <1>5, <2>1 DEF SendCopy, RecvCopy, RankInv, InBarrier, cfgVars
  <2>2. CASE SendFinish(r)
    BY <1>2, <1>3, <1>4, <1>5, <2>2 DEF SendFinish, RankInv, InBarrier, IdleOp, cfgVars
  <2>3. CASE RecvFinish(r)
    BY <1>2, <1>3, <1>4, <1>5, <2>3 DEF RecvFinish, RankInv, InBarrier, IdleOp, cfgVars
  <2>4. CASE RecvBufferFinish(r)
    BY <1>1, <1>2, <1>3, <1>4, <1>5, <2>4
       DEF RecvBufferFinish, RankInv, InBarrier, IdleOp, cfgVars
  <2>5. QED
    BY <2>1, <2>2, <2>3, <2>4 DEF Kernel
<1>6. CASE q # r
  <2>1. cur'[q] = cur[q] /\ ready'[q] = ready[q] /\ recvCount'[q] = recvCount[q]
    BY <1>4, <1>6
       DEF Kernel, SendCopy, RecvCopy, SendFinish, RecvFinish, RecvBufferFinish, countVars
  <2>2. QED
    BY <1>1, <1>2, <2>1 DEF RankInv, InBarrier, StreamIdle, NothingReceived, cfgVars
<1>7. QED
  BY <1>5, <1>6

LEMMA QuietRank ==
  ASSUME IInv, UNCHANGED <<kernelVars, countVars, cfgVars>>, NEW q \in Ranks
  PROVE  RankInv(q)'
BY DEF IInv, RankInv, InBarrier, StreamIdle, NothingReceived, kernelVars, countVars, cfgVars

LEMMA QuietLink ==
  ASSUME IInv, NEW src \in Ranks, NEW dst \in Neighbours(src),
         UNCHANGED <<cur, ready, out, sendCount, recvCount, hostCount, sig, mem,
                     wire, arrived, relWire, views>>
  PROVE  LinkInv(src, dst)'
<1>1. UNCHANGED LinkCounts(src, dst) /\ UNCHANGED LinkMemory(src, dst)
  BY DEF LinkCounts, LinkMemory, Sent, Taken, HostTaken, DataSig, FreeSig, OnWire, Arrived,
         FreeOnWire, Held, RecvRegion, SendRegion
<1>2. /\ UNCHANGED LinkKernels(src, dst)
      /\ Busy(src, dst, "recv")' <=> Busy(src, dst, "recv")
      /\ Busy(src, dst, "view")' <=> Busy(src, dst, "view")
  BY DEF LinkKernels, Filled, Copied, Sending, Busy
<1>3. QED
  BY <1>1, <1>2, UseIInv, LinkFrame

-----------------------------------------------------------------------------
(* The invariant.                                                          *)

LEMMA IInvInit == Init => IInv
<1> SUFFICES ASSUME Init
             PROVE  IInv
  OBVIOUS
<1>1. \A r \in Ranks : RankInv(r)
  BY DEF Init, RankInv, IdleOp, InBarrier
<1>2. ASSUME NEW src \in Ranks, NEW dst \in Neighbours(src)
      PROVE  LinkInv(src, dst)
  <2>1. dst \in Ranks
    BY LinkEnds
  <2>2. /\ Sent(src, dst) = 0 /\ Taken(src, dst) = 0 /\ HostTaken(src, dst) = 0
        /\ DataSig(src, dst) = 0 /\ FreeSig(src, dst) = 0 /\ OnWire(src, dst) = 0
        /\ Arrived(src, dst) = 0 /\ FreeOnWire(src, dst) = 0 /\ Held(src, dst) = {}
    BY <2>1, SideTypes DEF Init, Sent, Taken, HostTaken, DataSig, FreeSig, OnWire, Arrived,
                           FreeOnWire, Held
  <2>3. /\ Filled(src, dst) = {} /\ Copied(src, dst) = {} /\ Freed(src, dst) = 0
        /\ ~Busy(src, dst, "recv") /\ ~Busy(src, dst, "view")
    BY <2>1, <2>2 DEF Init, Filled, Copied, Freed, Busy, IdleOp
  <2>4. QED
    BY <2>2, <2>3, InflightAssumption
       DEF LinkInv, Flow, Holding, LandedIntact, StagedIntact, SharesExact
<1>3. QED
  BY <1>1, <1>2, TypeInit DEF IInv

LEMMA IInvStep == IInv /\ [Next]_vars => IInv'
<1> SUFFICES ASSUME IInv, [Next]_vars
             PROVE  IInv'
  OBVIOUS
<1>1. ASSUME NEW r \in Ranks, Host(r)
      PROVE  IInv'
  <2>1. TypeOK'
    BY <1>1, HostType DEF IInv
  <2>2. \A q \in Ranks : RankInv(q)'
    <3>1. CASE PpReleaseRecv(r)
      BY <3>1, QuietRank DEF PpReleaseRecv, ReleaseRecv
    <3>2. QED
      BY <1>1, <3>1, ConfigRank, LaunchRank DEF Host, PpSend, PpRecv, PpRecvBuffer
  <2>3. ASSUME NEW src \in Ranks, NEW dst \in Neighbours(src)
        PROVE  LinkInv(src, dst)'
    <3>1. CASE PpSetConfig(r)
      BY <3>1, ConfigStep, QuietLink
    <3>2. QED
      BY <1>1, <3>1, LaunchSendStep, LaunchRecvStep, LaunchRecvBufferStep, ReleaseRecvStep
         DEF Host, PpSend, PpRecv, PpRecvBuffer, PpReleaseRecv
  <2>4. QED
    BY <2>1, <2>2, <2>3 DEF IInv
<1>2. ASSUME NEW r \in Ranks, Kernel(r)
      PROVE  IInv'
  <2>1. TypeOK'
    BY <1>2, KernelType DEF IInv
  <2>2. \A q \in Ranks : RankInv(q)'
    BY <1>2, KernelRank
  <2>3. \A src \in Ranks : \A dst \in Neighbours(src) : LinkInv(src, dst)'
    BY <1>2, SendCopyStep, SendFinishStep, RecvCopyStep, RecvFinishStep, RecvBufferFinishStep
       DEF Kernel
  <2>4. QED
    BY <2>1, <2>2, <2>3 DEF IInv
<1>3. ASSUME NEW l \in Links, Network(l[1], l[2])
      PROVE  IInv'
  <2> DEFINE a == l[1]
             b == l[2]
  <2>1. a \in Ranks /\ b \in Ranks /\ b \in Neighbours(a)
    BY DEF Links
  <2>2. wire[a][DstIdxInLocal(a, b)] <= sendCount[a][DstIdxInLocal(a, b)]
    <3>1. Flow(a, b)
      BY <2>1, UseIInv
    <3> HIDE DEF a, b
    <3>2. /\ Sent(a, b) \in Nat /\ OnWire(a, b) \in Nat /\ Arrived(a, b) \in Nat
          /\ DataSig(a, b) \in Nat
      BY <2>1, CountTypes
    <3>3. OnWire(a, b) <= Sent(a, b)
      BY <3>1, <3>2 DEF Flow
    <3>4. QED
      BY <3>3 DEF OnWire, Sent
  <2>3. TypeOK'
    BY <1>3, <2>1, <2>2, NetworkType DEF IInv
  <2>4. UNCHANGED <<kernelVars, countVars, cfgVars>>
    BY <1>3 DEF Network, PutLands, DataSignal, ReleaseSignal
  <2>5. \A q \in Ranks : RankInv(q)'
    BY <2>4, QuietRank
  <2>6. \A src \in Ranks : \A dst \in Neighbours(src) : LinkInv(src, dst)'
    BY <1>3, <2>1, PutLandsStep, DataSignalStep, ReleaseSignalStep DEF Network
  <2>7. QED
    BY <2>3, <2>5, <2>6 DEF IInv
<1>4. CASE UNCHANGED vars
  <2>1. TypeOK'
    BY <1>4 DEF vars, IInv, TypeOK
  <2>2. \A q \in Ranks : RankInv(q)'
    BY <1>4, QuietRank DEF vars, kernelVars, countVars, cfgVars
  <2>3. ASSUME NEW src \in Ranks, NEW dst \in Neighbours(src)
        PROVE  LinkInv(src, dst)'
    BY <1>4, QuietLink DEF vars
  <2>4. QED
    BY <2>1, <2>2, <2>3 DEF IInv
<1>5. QED
  BY <1>1, <1>2, <1>3, <1>4 DEF Next

\* IInv holds in every state of every ring: however many ranks, SMs and slots there are,
\* whichever links have a mapped pointer, and whatever the order of their steps.
THEOREM Invariance == Spec => []IInv
BY IInvInit, IInvStep, PTL DEF Spec

\* Type correctness.
THEOREM TypeCorrect == Spec => []TypeOK
<1>1. IInv => TypeOK
  BY DEF IInv
<1>2. QED
  BY <1>1, Invariance, PTL

\* pp_recv copies exactly the next message of its link, SM by SM.
THEOREM CopyCorrect == Spec => []CopyExact
<1>1. IInv => CopyExact
  BY LinkEnds DEF IInv, LinkInv, SharesExact, CopyExact
<1>2. QED
  BY <1>1, Invariance, PTL

\* A tensor handed out by pp_recv_buffer stays the message it stands for.
THEOREM ViewCorrect == Spec => []ViewIntact
<1>1. ASSUME IInv, NEW dst \in Ranks, NEW src \in Neighbours(dst), NEW v \in Held(src, dst),
             NEW sm \in SMs
      PROVE  RecvRegion(src, dst)[v.slot][sm] = Msg(src, dst, v.seq)
  <2>1. src \in Ranks /\ dst \in Neighbours(src)
    BY LinkEnds
  <2>2. Flow(src, dst) /\ Holding(src, dst) /\ LandedIntact(src, dst)
    BY <1>1, <2>1, UseIInv DEF LinkInv
  <2>3. v.seq \in Freed(src, dst) + 1 .. Taken(src, dst) /\ v.slot = Slot(v.seq - 1)
    BY <1>1, <2>2 DEF Holding
  <2>4. v.seq \in Freed(src, dst) + 1 .. Sent(src, dst) - OnWire(src, dst)
    BY <1>1, <2>1, <2>2, <2>3, CountTypes DEF Flow
  <2>5. QED
    BY <2>2, <2>3, <2>4 DEF LandedIntact
<1>2. IInv => ViewIntact
  BY <1>1 DEF ViewIntact
<1>3. QED
  BY <1>2, Invariance, PTL

\* The send slot of a put stays as it was until the put has been read.
THEOREM StagingCorrect == Spec => []StagingIntact
<1>1. IInv => StagingIntact
  BY DEF IInv, LinkInv, StagingIntact
<1>2. QED
  BY <1>1, Invariance, PTL

-----------------------------------------------------------------------------
(* Every link is a bounded FIFO channel.                                   *)

\* The messages after the f-th up to the s-th of a link, as the channel holds them.
Window(l, f, s) == [k \in 1 .. s - f |-> Payload(l, f + k)]
Payloads == {Payload(l, n) : l \in Links, n \in Nat}

LEMMA WindowIsSeq ==
  ASSUME NEW l \in Links, NEW f \in Nat, NEW s \in Nat, f <= s
  PROVE  /\ Window(l, f, s) \in Seq(Payloads)
         /\ Len(Window(l, f, s)) = s - f
         /\ \A k \in 1 .. s - f : Window(l, f, s)[k] = Payload(l, f + k)
<1>1. s - f \in Nat
  OBVIOUS
<1>2. \A k \in 1 .. s - f : Payload(l, f + k) \in Payloads
  BY DEF Payloads
<1>3. Window(l, f, s) \in [1 .. s - f -> Payloads]
  BY <1>2 DEF Window
<1>4. Window(l, f, s) \in Seq(Payloads)
  BY <1>1, <1>3, SeqDef
<1>5. DOMAIN Window(l, f, s) = 1 .. s - f
  BY DEF Window
<1>6. Len(Window(l, f, s)) = s - f
  BY <1>1, <1>4, <1>5, LenProperties
<1>7. QED
  BY <1>4, <1>6 DEF Window

LEMMA WindowGrows ==
  ASSUME NEW l \in Links, NEW f \in Nat, NEW s \in Nat, f <= s
  PROVE  Window(l, f, s + 1) = Append(Window(l, f, s), Payload(l, s + 1))
<1> DEFINE a == Append(Window(l, f, s), Payload(l, s + 1))
           b == Window(l, f, s + 1)
           p == Payload(l, s + 1)
<1>1. p \in Payloads
  BY DEF Payloads
<1>2. /\ b \in Seq(Payloads) /\ Len(b) = s + 1 - f
      /\ \A k \in 1 .. s + 1 - f : b[k] = Payload(l, f + k)
  BY WindowIsSeq
<1>3. /\ Window(l, f, s) \in Seq(Payloads) /\ Len(Window(l, f, s)) = s - f
      /\ \A k \in 1 .. s - f : Window(l, f, s)[k] = Payload(l, f + k)
  BY WindowIsSeq
<1>4. /\ a \in Seq(Payloads)
      /\ Len(a) = s - f + 1
      /\ \A k \in 1 .. s - f : a[k] = Window(l, f, s)[k]
      /\ a[s - f + 1] = p
  <2> DEFINE c == Window(l, f, s)
  <2> HIDE DEF p, c
  <2>1. /\ Append(c, p) \in Seq(Payloads) /\ Len(Append(c, p)) = Len(c) + 1
        /\ \A i \in 1 .. Len(c) : Append(c, p)[i] = c[i]
        /\ Append(c, p)[Len(c) + 1] = p
    BY <1>1, <1>3, AppendProperties DEF c
  <2>2. Len(c) = s - f
    BY <1>3 DEF c
  <2>3. QED
    BY <2>1, <2>2 DEF c, p
<1>5. f + (s - f + 1) = s + 1 /\ s - f + 1 = s + 1 - f
  OBVIOUS
<1>6. \A k \in 1 .. s - f + 1 : a[k] = b[k]
  <2> HIDE DEF a, b
  <2>1. b[s - f + 1] = p
    BY <1>2, <1>5
  <2>2. QED
    BY <1>2, <1>3, <1>4, <2>1
<1> HIDE DEF a, b
<1>7. a = b
  BY <1>2, <1>4, <1>5, <1>6, SeqEqual
<1>8. QED
  BY <1>7 DEF a, b

LEMMA WindowMoves ==
  ASSUME NEW l \in Links, NEW f \in Nat, NEW s \in Nat, f < s
  PROVE  Window(l, f + 1, s) = Tail(Window(l, f, s)) /\ Window(l, f, s) # <<>>
<1> DEFINE a == Window(l, f, s)
           b == Window(l, f + 1, s)
<1>1. /\ a \in Seq(Payloads) /\ Len(a) = s - f
      /\ \A k \in 1 .. s - f : a[k] = Payload(l, f + k)
  BY WindowIsSeq
<1>2. /\ b \in Seq(Payloads) /\ Len(b) = s - (f + 1)
      /\ \A k \in 1 .. s - (f + 1) : b[k] = Payload(l, f + 1 + k)
  BY WindowIsSeq
<1> HIDE DEF a, b
<1>3. a # <<>>
  BY <1>1, EmptySeq
<1>4. /\ Tail(a) \in Seq(Payloads) /\ Len(Tail(a)) = Len(a) - 1
      /\ \A k \in 1 .. Len(Tail(a)) : Tail(a)[k] = a[k + 1]
  BY <1>1, <1>3, HeadTailProperties
<1>5. ASSUME NEW k \in 1 .. s - (f + 1)
      PROVE  Tail(a)[k] = b[k]
  <2>1. Tail(a)[k] = a[k + 1]
    BY <1>1, <1>4
  <2>2. a[k + 1] = Payload(l, f + (k + 1))
    BY <1>1
  <2>3. f + (k + 1) = f + 1 + k
    OBVIOUS
  <2>4. QED
    BY <1>2, <2>1, <2>2, <2>3
<1>6. Tail(a) = b
  BY <1>1, <1>2, <1>4, <1>5, SeqEqual
<1>7. QED
  BY <1>3, <1>6 DEF a, b

\* With what the invariant says of the slots, the channel holds the messages themselves.
LEMMA TransitIsWindow ==
  IInv => \A l \in Links : InTransit(l[1], l[2]) = Window(l, Freed(l[1], l[2]), Sent(l[1], l[2]))
<1> SUFFICES ASSUME IInv, NEW l \in Links
             PROVE  InTransit(l[1], l[2]) = Window(l, Freed(l[1], l[2]), Sent(l[1], l[2]))
  OBVIOUS
<1> DEFINE src == l[1]
           dst == l[2]
           f == Freed(src, dst)
           s == Sent(src, dst)
           w == OnWire(src, dst)
<1>1. src \in Ranks /\ dst \in Neighbours(src)
  BY DEF Links
<1> HIDE DEF src, dst
<1>2. LinkInv(src, dst)
  BY <1>1, UseIInv
<1>3. dst \in Ranks
  BY <1>1, LinkEnds
<1>4. f \in Nat /\ s \in Nat /\ w \in Nat
  BY <1>1, <1>3, CountTypes DEF Freed
<1>5. RecvRegion(src, dst) \in [Slots -> [SMs -> Messages]]
      /\ SendRegion(src, dst) \in [Slots -> [SMs -> Messages]]
  BY <1>1, <1>3, SideTypes DEF IInv, TypeOK, RecvRegion, SendRegion
<1>6. \A n \in f + 1 .. s - w : \A sm \in SMs : RecvRegion(src, dst)[Slot(n - 1)][sm] = Msg(src, dst, n)
  BY <1>2 DEF LinkInv, LandedIntact
<1>7. \A n \in s - w + 1 .. s : \A sm \in SMs : SendRegion(src, dst)[Slot(n - 1)][sm] = Msg(src, dst, n)
  BY <1>2 DEF LinkInv, StagedIntact
<1>8. InTransit(src, dst) = [k \in 1 .. s - f |-> Carried(src, dst, f + k)]
  BY DEF InTransit
<1>9. \A n : Carried(src, dst, n) = IF n > s - w THEN SendRegion(src, dst)[Slot(n - 1)]
                                                 ELSE RecvRegion(src, dst)[Slot(n - 1)]
  BY DEF Carried
<1> HIDE DEF f, s, w
<1>10. ASSUME NEW n \in f + 1 .. s
       PROVE  Carried(src, dst, n) = [sm \in SMs |-> Msg(src, dst, n)]
  <2>1. n - 1 \in Nat
    BY <1>4
  <2>2. Slot(n - 1) \in Slots
    BY <2>1, SlotType
  <2>3. CASE n > s - w
    <3>1. n \in s - w + 1 .. s
      BY <1>4, <2>3
    <3>2. \A sm \in SMs : SendRegion(src, dst)[Slot(n - 1)][sm] = Msg(src, dst, n)
      BY <1>7, <3>1
    <3>3. SendRegion(src, dst)[Slot(n - 1)] \in [SMs -> Messages]
      BY <1>5, <2>2
    <3>4. QED
      BY <1>9, <2>3, <3>2, <3>3
  <2>4. CASE ~(n > s - w)
    <3>1. n \in f + 1 .. s - w
      BY <1>4, <2>4
    <3>2. \A sm \in SMs : RecvRegion(src, dst)[Slot(n - 1)][sm] = Msg(src, dst, n)
      BY <1>6, <3>1
    <3>3. RecvRegion(src, dst)[Slot(n - 1)] \in [SMs -> Messages]
      BY <1>5, <2>2
    <3>4. QED
      BY <1>9, <2>4, <3>2, <3>3
  <2>5. QED
    BY <2>3, <2>4
<1>11. \A n : [sm \in SMs |-> Msg(src, dst, n)] = Payload(l, n)
  BY DEF Payload, src, dst
<1>12. \A k \in 1 .. s - f : Carried(src, dst, f + k) = Payload(l, f + k)
  <2>1. \A k \in 1 .. s - f : f + k \in f + 1 .. s
    BY <1>4
  <2>2. QED
    BY <1>10, <1>11, <2>1
<1>13. InTransit(src, dst) = Window(l, f, s)
  BY <1>8, <1>12 DEF Window
<1>14. QED
  BY <1>13 DEF f, s, src, dst

\* A step of the ring seen by the channels: which numbers of which link it moves on.
Numbers(src, dst) == <<Sent(src, dst), Taken(src, dst), Freed(src, dst)>>
OthersQuiet(src, dst) ==
  \A a \in Ranks : \A b \in Neighbours(a) : <<a, b>> # <<src, dst>> => UNCHANGED Numbers(a, b)

SendsOne(src, dst) ==
  /\ Sent(src, dst) - Freed(src, dst) < Inflight
  /\ Numbers(src, dst)' = <<Sent(src, dst) + 1, Taken(src, dst), Freed(src, dst)>>
TakesOne(src, dst) ==
  /\ Taken(src, dst) < Sent(src, dst)
  /\ Numbers(src, dst)' = <<Sent(src, dst), Taken(src, dst) + 1, Freed(src, dst)>>
FreesOne(src, dst) ==
  /\ Freed(src, dst) < Taken(src, dst)
  /\ Numbers(src, dst)' = <<Sent(src, dst), Taken(src, dst), Freed(src, dst) + 1>>
PassesOne(src, dst) ==
  /\ Taken(src, dst) = Freed(src, dst) /\ Taken(src, dst) < Sent(src, dst)
  /\ Numbers(src, dst)' = <<Sent(src, dst), Taken(src, dst) + 1, Freed(src, dst) + 1>>
MovesOne(src, dst) ==
  /\ SendsOne(src, dst) \/ TakesOne(src, dst) \/ FreesOne(src, dst) \/ PassesOne(src, dst)
  /\ OthersQuiet(src, dst)
NoneMoves == \A a \in Ranks : \A b \in Neighbours(a) : UNCHANGED Numbers(a, b)

LEMMA SameNumbers ==
  ASSUME NEW a, NEW b,
         sendCount'[a][DstIdxInLocal(a, b)] = sendCount[a][DstIdxInLocal(a, b)],
         recvCount'[b][LocalIdxInDst(a, b)] = recvCount[b][LocalIdxInDst(a, b)],
         relWire'[b][LocalIdxInDst(a, b)] = relWire[b][LocalIdxInDst(a, b)],
         sig'[a][DstIdxInLocal(a, b) + 2] = sig[a][DstIdxInLocal(a, b) + 2]
  PROVE  UNCHANGED Numbers(a, b)
BY DEF Numbers, Sent, Taken, Freed, FreeSig, FreeOnWire

LEMMA QuietNumbers ==
  ASSUME UNCHANGED <<sendCount, recvCount, relWire, sig>>
  PROVE  NoneMoves
BY SameNumbers DEF NoneMoves

LEMMA SendFinishMoves ==
  ASSUME IInv, NEW r \in Ranks, SendFinish(r)
  PROVE  \E dst \in Neighbours(r) : MovesOne(r, dst)
<1>0. PICK dst \in Neighbours(r) : dst = cur[r].peer
  BY DEF SendFinish, IInv, RankInv
<1> DEFINE i == DstIdxInLocal(r, dst)
<1>1. /\ cur[r].kind = "send" /\ ready[r] = SMs
      /\ sendCount' = [sendCount EXCEPT ![r][i] = @ + 1]
      /\ UNCHANGED <<recvCount, relWire, sig>>
  BY <1>0 DEF SendFinish
<1>2. dst \in Neighbours(r)
  OBVIOUS
<1>3. dst \in Ranks /\ Flow(r, dst)
  BY <1>2, UseIInv
<1>4. Filled(r, dst) # {}
  BY <1>0, <1>1, SMsAssumption DEF Filled, Sending
<1>5. sendCount \in [Ranks -> [Sides -> Nat]] /\ i \in Sides
  BY SideTypes DEF IInv, TypeOK
<1>6. /\ sendCount'[r][i] = sendCount[r][i] + 1
      /\ \A a \in Ranks : \A k \in Sides : a # r \/ k # i => sendCount'[a][k] = sendCount[a][k]
  <2> HIDE DEF i
  <2>1. QED
    BY <1>1, <1>5
<1>7. /\ Sent(r, dst) \in Nat /\ Freed(r, dst) \in Nat /\ FreeSig(r, dst) \in Nat
      /\ FreeOnWire(r, dst) \in Nat
  BY <1>3, CountTypes
<1>8. OthersQuiet(r, dst)
  <2>1. ASSUME NEW a \in Ranks, NEW b \in Neighbours(a), <<a, b>> # <<r, dst>>
        PROVE  UNCHANGED Numbers(a, b)
    <3>1. a # r \/ DstIdxInLocal(a, b) # i
      BY <1>2, <2>1, LinksApart
    <3>2. DstIdxInLocal(a, b) \in Sides
      BY SideTypes
    <3> HIDE DEF i
    <3>3. sendCount'[a][DstIdxInLocal(a, b)] = sendCount[a][DstIdxInLocal(a, b)]
      BY <1>6, <3>1, <3>2
    <3>4. QED
      BY <1>1, <3>3, SameNumbers
  <2>2. QED
    BY <2>1 DEF OthersQuiet
<1>9. SendsOne(r, dst)
  <2>1. Sent(r, dst) - Freed(r, dst) < Inflight
    BY <1>3, <1>4, <1>7, InflightAssumption DEF Flow, Freed
  <2>2. Sent(r, dst)' = Sent(r, dst) + 1
    BY <1>1, <1>6 DEF Sent
  <2>3. Taken(r, dst)' = Taken(r, dst) /\ Freed(r, dst)' = Freed(r, dst)
    BY <1>1 DEF Taken, Freed, FreeSig, FreeOnWire
  <2>4. QED
    BY <2>1, <2>2, <2>3 DEF SendsOne, Numbers
<1>10. QED
  BY <1>2, <1>8, <1>9 DEF MovesOne

\* The receiving side of a link moves on: what the kernels and the host there may change.
LEMMA ReceiverMoves ==
  ASSUME IInv, NEW src \in Ranks, NEW dst \in Neighbours(src),
         NEW n \in {0, 1}, NEW m \in {0, 1},
         recvCount' = [recvCount EXCEPT ![dst][LocalIdxInDst(src, dst)] = @ + n],
         relWire' = [relWire EXCEPT ![dst][LocalIdxInDst(src, dst)] = @ + m],
         UNCHANGED <<sendCount, sig>>
  PROVE  /\ OthersQuiet(src, dst)
         /\ Numbers(src, dst)' = <<Sent(src, dst), Taken(src, dst) + n, Freed(src, dst) + m>>
<1> DEFINE j == LocalIdxInDst(src, dst)
<1>1. dst \in Ranks /\ j \in Sides
  BY LinkEnds
<1>2. recvCount \in [Ranks -> [Sides -> Nat]] /\ relWire \in [Ranks -> [Sides -> Nat]]
  BY DEF IInv, TypeOK
<1>3. /\ recvCount'[dst][j] = recvCount[dst][j] + n
      /\ relWire'[dst][j] = relWire[dst][j] + m
      /\ \A b \in Ranks : \A k \in Sides : b # dst \/ k # j =>
           recvCount'[b][k] = recvCount[b][k] /\ relWire'[b][k] = relWire[b][k]
  <2>1. /\ recvCount' = [recvCount EXCEPT ![dst][j] = @ + n]
        /\ relWire' = [relWire EXCEPT ![dst][j] = @ + m]
    OBVIOUS
  <2> HIDE DEF j
  <2>2. QED
    BY <1>1, <1>2, <2>1
<1>4. OthersQuiet(src, dst)
  <2>1. ASSUME NEW a \in Ranks, NEW b \in Neighbours(a), <<a, b>> # <<src, dst>>
        PROVE  UNCHANGED Numbers(a, b)
    <3>1. b # dst \/ LocalIdxInDst(a, b) # j
      BY <2>1, LinksApart
    <3>2. b \in Ranks /\ LocalIdxInDst(a, b) \in Sides
      BY LinkEnds
    <3> HIDE DEF j
    <3>3. /\ recvCount'[b][LocalIdxInDst(a, b)] = recvCount[b][LocalIdxInDst(a, b)]
          /\ relWire'[b][LocalIdxInDst(a, b)] = relWire[b][LocalIdxInDst(a, b)]
      BY <1>3, <3>1, <3>2
    <3>4. QED
      BY <3>3, SameNumbers
  <2>2. QED
    BY <2>1 DEF OthersQuiet
<1>5. Sent(src, dst)' = Sent(src, dst)
  BY DEF Sent
<1>6. Taken(src, dst)' = Taken(src, dst) + n
  BY <1>3 DEF Taken
<1>7. Freed(src, dst)' = Freed(src, dst) + m
  <2>1. FreeSig(src, dst)' = FreeSig(src, dst) /\ FreeOnWire(src, dst)' = FreeOnWire(src, dst) + m
    BY <1>3 DEF FreeSig, FreeOnWire
  <2>2. FreeSig(src, dst) \in Nat /\ FreeOnWire(src, dst) \in Nat
    BY <1>1, CountTypes
  <2>3. QED
    BY <2>1, <2>2 DEF Freed
<1>8. QED
  BY <1>4, <1>5, <1>6, <1>7 DEF Numbers

LEMMA RecvFinishMoves ==
  ASSUME IInv, NEW r \in Ranks, RecvFinish(r)
  PROVE  \E src \in Neighbours(r) : MovesOne(src, r)
<1>0. PICK src \in Neighbours(r) : src = cur[r].peer
  BY DEF RecvFinish, IInv, RankInv
<1>1. /\ cur[r].kind = "recv" /\ ready[r] = SMs
      /\ recvCount' = [recvCount EXCEPT ![r][LocalIdxInDst(src, r)] = @ + 1]
      /\ relWire' = [relWire EXCEPT ![r][LocalIdxInDst(src, r)] = @ + 1]
      /\ UNCHANGED <<sendCount, sig>>
  BY <1>0 DEF RecvFinish
<1>2. src \in Ranks /\ r \in Neighbours(src)
  BY LinkEnds
<1>3. /\ OthersQuiet(src, r)
      /\ Numbers(src, r)' = <<Sent(src, r), Taken(src, r) + 1, Freed(src, r) + 1>>
  BY <1>1, <1>2, ReceiverMoves
<1>4. Flow(src, r) /\ Holding(src, r)
  BY <1>2, UseIInv
<1>5. Busy(src, r, "recv") /\ Copied(src, r) # {}
  BY <1>0, <1>1, SMsAssumption DEF Busy, Copied
<1>6. /\ Sent(src, r) \in Nat /\ Taken(src, r) \in Nat /\ Freed(src, r) \in Nat
      /\ DataSig(src, r) \in Nat /\ Arrived(src, r) \in Nat /\ OnWire(src, r) \in Nat
  BY <1>2, CountTypes
<1>7. Taken(src, r) < Sent(src, r)
  BY <1>4, <1>5, <1>6 DEF Flow
<1>8. Taken(src, r) = Freed(src, r)
  <2>1. Freed(src, r) + 1 .. Taken(src, r) = {}
    BY <1>4, <1>5 DEF Holding
  <2>2. QED
    BY <1>4, <1>6, <2>1 DEF Flow
<1>9. QED
  BY <1>2, <1>3, <1>7, <1>8 DEF MovesOne, PassesOne

LEMMA RecvBufferFinishMoves ==
  ASSUME IInv, NEW r \in Ranks, RecvBufferFinish(r)
  PROVE  \E src \in Neighbours(r) : MovesOne(src, r)
<1>0. PICK src \in Neighbours(r) : src = cur[r].peer
  BY DEF RecvBufferFinish, IInv, RankInv
<1>1. /\ MessageThere(r, src)
      /\ recvCount' = [recvCount EXCEPT ![r][LocalIdxInDst(src, r)] = @ + 1]
      /\ UNCHANGED <<sendCount, sig, relWire>>
  BY <1>0 DEF RecvBufferFinish, netVars
<1>2. src \in Ranks /\ r \in Neighbours(src) /\ LocalIdxInDst(src, r) \in Sides
  BY LinkEnds
<1>3. relWire' = [relWire EXCEPT ![r][LocalIdxInDst(src, r)] = @ + 0]
  <2>1. relWire \in [Ranks -> [Sides -> Nat]]
    BY DEF IInv, TypeOK
  <2>2. relWire[r][LocalIdxInDst(src, r)] + 0 = relWire[r][LocalIdxInDst(src, r)]
    BY <1>2, <2>1
  <2>3. QED
    BY <1>1, <1>2, <2>1, <2>2
<1>4. /\ OthersQuiet(src, r)
      /\ Numbers(src, r)' = <<Sent(src, r), Taken(src, r) + 1, Freed(src, r) + 0>>
  BY <1>1, <1>2, <1>3, ReceiverMoves
<1>5. /\ Sent(src, r) \in Nat /\ Taken(src, r) \in Nat /\ Freed(src, r) \in Nat
      /\ DataSig(src, r) \in Nat /\ Arrived(src, r) \in Nat /\ OnWire(src, r) \in Nat
  BY <1>2, CountTypes
<1>6. Taken(src, r) < Sent(src, r)
  <2>1. Taken(src, r) + 1 <= DataSig(src, r)
    BY <1>1, <1>5 DEF MessageThere, DataSig, Taken
  <2>2. Flow(src, r)
    BY <1>2, UseIInv
  <2>3. QED
    BY <1>5, <2>1, <2>2 DEF Flow
<1>7. Freed(src, r) + 0 = Freed(src, r)
  BY <1>5
<1>8. TakesOne(src, r)
  BY <1>4, <1>6, <1>7 DEF TakesOne
<1>9. QED
  BY <1>4, <1>8 DEF MovesOne

LEMMA ReleaseRecvMoves ==
  ASSUME IInv, NEW r \in Ranks, NEW src \in Neighbours(r),
         NEW v \in views[r][LocalIdxInDst(src, r)], ReleaseRecv(r, src, v)
  PROVE  MovesOne(src, r)
<1>1. /\ relWire' = [relWire EXCEPT ![r][LocalIdxInDst(src, r)] = @ + 1]
      /\ UNCHANGED <<sendCount, sig, recvCount>>
  BY DEF ReleaseRecv, countVars
<1>2. src \in Ranks /\ r \in Neighbours(src) /\ LocalIdxInDst(src, r) \in Sides
  BY LinkEnds
<1>3. recvCount' = [recvCount EXCEPT ![r][LocalIdxInDst(src, r)] = @ + 0]
  <2>1. recvCount \in [Ranks -> [Sides -> Nat]]
    BY DEF IInv, TypeOK
  <2>2. recvCount[r][LocalIdxInDst(src, r)] + 0 = recvCount[r][LocalIdxInDst(src, r)]
    BY <1>2, <2>1
  <2>3. QED
    BY <1>1, <1>2, <2>1, <2>2
<1>4. /\ OthersQuiet(src, r)
      /\ Numbers(src, r)' = <<Sent(src, r), Taken(src, r) + 0, Freed(src, r) + 1>>
  BY <1>1, <1>2, <1>3, ReceiverMoves
<1>5. Taken(src, r) \in Nat /\ Freed(src, r) \in Nat
  BY <1>2, CountTypes
<1>6. Freed(src, r) < Taken(src, r)
  <2>1. v.seq \in Freed(src, r) + 1 .. Taken(src, r)
    BY <1>2, UseIInv DEF Holding, Held
  <2>2. QED
    BY <1>5, <2>1
<1>7. Taken(src, r) + 0 = Taken(src, r)
  BY <1>5
<1>8. FreesOne(src, r)
  BY <1>4, <1>6, <1>7 DEF FreesOne
<1>9. QED
  BY <1>4, <1>8 DEF MovesOne

\* A signal that becomes visible moves no number: a free slot counts from its release on.
LEMMA SignalsMoveNothing ==
  ASSUME IInv, NEW src \in Ranks, NEW dst \in Neighbours(src), Network(src, dst)
  PROVE  NoneMoves
<1>1. CASE PutLands(src, dst)
  BY <1>1, QuietNumbers DEF PutLands, countVars
<1>2. dst \in Ranks /\ LocalIdxInDst(src, dst) \in Sides /\ LocalIdxInDst(src, dst) \in Regions
      /\ DstIdxInLocal(src, dst) + 2 \in Regions
  BY LinkEnds
<1>3. sig \in [Ranks -> [Regions -> Nat]] /\ relWire \in [Ranks -> [Sides -> Nat]]
  BY DEF IInv, TypeOK
<1>4. CASE DataSignal(src, dst)
  <2>1. /\ sig' = [sig EXCEPT ![dst][LocalIdxInDst(src, dst)] = @ + 1]
        /\ UNCHANGED <<sendCount, recvCount, relWire>>
    BY <1>4 DEF DataSignal, countVars
  <2>2. ASSUME NEW a \in Ranks, NEW b \in Neighbours(a)
        PROVE  UNCHANGED Numbers(a, b)
    <3>1. DstIdxInLocal(a, b) + 2 \in Regions /\ DstIdxInLocal(a, b) + 2 \notin Sides
      BY LinkEnds
    <3>2. DstIdxInLocal(a, b) + 2 # LocalIdxInDst(src, dst)
      BY <1>2, <3>1
    <3>3. sig'[a][DstIdxInLocal(a, b) + 2] = sig[a][DstIdxInLocal(a, b) + 2]
      BY <1>2, <1>3, <2>1, <3>1, <3>2
    <3>4. QED
      BY <2>1, <3>3, SameNumbers
  <2>3. QED
    BY <2>2 DEF NoneMoves
<1>5. CASE ReleaseSignal(src, dst)
  <2> DEFINE i == DstIdxInLocal(src, dst) + 2
             j == LocalIdxInDst(src, dst)
  <2>1. /\ relWire[dst][j] > 0
        /\ relWire' = [relWire EXCEPT ![dst][j] = @ - 1]
        /\ sig' = [sig EXCEPT ![src][i] = @ + 1]
        /\ UNCHANGED <<sendCount, recvCount>>
    BY <1>5 DEF ReleaseSignal, countVars
  <2>2. /\ relWire'[dst][j] = relWire[dst][j] - 1 /\ sig'[src][i] = sig[src][i] + 1
        /\ \A b \in Ranks : \A k \in Sides : b # dst \/ k # j => relWire'[b][k] = relWire[b][k]
        /\ \A a \in Ranks : \A k \in Regions : a # src \/ k # i => sig'[a][k] = sig[a][k]
    <3>1. i \in Regions /\ j \in Sides
      BY <1>2
    <3> HIDE DEF i, j
    <3>2. QED
      BY <1>2, <1>3, <2>1, <3>1
  <2>3. ASSUME NEW a \in Ranks, NEW b \in Neighbours(a), <<a, b>> # <<src, dst>>
        PROVE  UNCHANGED Numbers(a, b)
    <3>1. /\ b \in Ranks /\ LocalIdxInDst(a, b) \in Sides /\ DstIdxInLocal(a, b) + 2 \in Regions
          /\ DstIdxInLocal(a, b) \in Sides /\ DstIdxInLocal(src, dst) \in Sides
      BY LinkEnds
    <3>2. a # src \/ DstIdxInLocal(a, b) + 2 # i
      <4>1. a # src \/ DstIdxInLocal(a, b) # DstIdxInLocal(src, dst)
        BY <2>3, LinksApart
      <4>2. QED
        BY <3>1, <4>1 DEF Sides
    <3>3. b # dst \/ LocalIdxInDst(a, b) # j
      BY <2>3, LinksApart
    <3> HIDE DEF i, j
    <3>4. /\ sig'[a][DstIdxInLocal(a, b) + 2] = sig[a][DstIdxInLocal(a, b) + 2]
          /\ relWire'[b][LocalIdxInDst(a, b)] = relWire[b][LocalIdxInDst(a, b)]
      BY <2>2, <3>1, <3>2, <3>3
    <3>5. QED
      BY <2>1, <3>4, SameNumbers
  <2>4. UNCHANGED Numbers(src, dst)
    <3>1. /\ FreeSig(src, dst)' = FreeSig(src, dst) + 1
          /\ FreeOnWire(src, dst)' = FreeOnWire(src, dst) - 1
      BY <2>2 DEF FreeSig, FreeOnWire
    <3>2. FreeSig(src, dst) \in Nat /\ FreeOnWire(src, dst) \in Nat
      BY <1>2, CountTypes
    <3>3. Freed(src, dst)' = Freed(src, dst)
      BY <3>1, <3>2 DEF Freed
    <3>4. Sent(src, dst)' = Sent(src, dst) /\ Taken(src, dst)' = Taken(src, dst)
      BY <2>1 DEF Sent, Taken
    <3>5. QED
      BY <3>3, <3>4 DEF Numbers
  <2>5. QED
    BY <2>3, <2>4 DEF NoneMoves
<1>6. QED
  BY <1>1, <1>4, <1>5 DEF Network

LEMMA LinkMoves ==
  ASSUME IInv, [Next]_vars
  PROVE  (\E l \in Links : MovesOne(l[1], l[2])) \/ NoneMoves
<1>0. ASSUME NEW src \in Ranks, NEW dst \in Neighbours(src), MovesOne(src, dst)
      PROVE  \E l \in Links : MovesOne(l[1], l[2])
  <2>1. <<src, dst>> \in Links
    BY LinkEnds DEF Links
  <2>2. <<src, dst>>[1] = src /\ <<src, dst>>[2] = dst
    OBVIOUS
  <2>3. QED
    BY <1>0, <2>1, <2>2
<1>1. ASSUME NEW r \in Ranks, Host(r)
      PROVE  (\E l \in Links : MovesOne(l[1], l[2])) \/ NoneMoves
  <2>1. CASE PpSetConfig(r)
    BY <2>1, ConfigStep, QuietNumbers
  <2>2. CASE PpSend(r) \/ PpRecv(r) \/ PpRecvBuffer(r)
    <3>1. UNCHANGED <<sendCount, recvCount, relWire, sig>>
      BY <2>2 DEF PpSend, PpRecv, PpRecvBuffer, LaunchSend, LaunchRecv, LaunchRecvBuffer, countVars, netVars
    <3>2. QED
      BY <3>1, QuietNumbers
  <2>3. CASE PpReleaseRecv(r)
    <3>1. PICK src \in Neighbours(r) : \E v \in views[r][LocalIdxInDst(src, r)] : ReleaseRecv(r, src, v)
      BY <2>3 DEF PpReleaseRecv
    <3>2. MovesOne(src, r)
      BY <3>1, ReleaseRecvMoves
    <3>3. QED
      BY <1>0, <3>2, LinkEnds
  <2>4. QED
    BY <1>1, <2>1, <2>2, <2>3 DEF Host
<1>2. ASSUME NEW r \in Ranks, Kernel(r)
      PROVE  (\E l \in Links : MovesOne(l[1], l[2])) \/ NoneMoves
  <2>1. ASSUME NEW sm \in SMs, SendCopy(r, sm) \/ RecvCopy(r, sm)
        PROVE  NoneMoves
    BY <2>1, QuietNumbers DEF SendCopy, RecvCopy, countVars, netVars
  <2>2. CASE SendFinish(r)
    BY <1>0, <2>2, SendFinishMoves
  <2>3. ASSUME NEW src \in Neighbours(r), MovesOne(src, r)
        PROVE  \E l \in Links : MovesOne(l[1], l[2])
    BY <1>0, <2>3, LinkEnds
  <2>4. CASE RecvFinish(r)
    BY <2>3, <2>4, RecvFinishMoves
  <2>5. CASE RecvBufferFinish(r)
    BY <2>3, <2>5, RecvBufferFinishMoves
  <2>6. QED
    BY <1>2, <2>1, <2>2, <2>4, <2>5 DEF Kernel
<1>3. ASSUME NEW l \in Links, Network(l[1], l[2])
      PROVE  NoneMoves
  <2>1. l[1] \in Ranks /\ l[2] \in Neighbours(l[1])
    BY DEF Links
  <2>2. QED
    BY <1>3, <2>1, SignalsMoveNothing
<1>4. CASE UNCHANGED vars
  BY <1>4, QuietNumbers DEF vars
<1>5. QED
  BY <1>1, <1>2, <1>3, <1>4 DEF Next

LEMMA Overridden ==
  ASSUME NEW F, NEW G, NEW l \in Links, NEW v,
         F = [m \in Links |-> F[m]], G = [m \in Links |-> G[m]],
         G[l] = v, \A m \in Links : m # l => G[m] = F[m]
  PROVE  G = [F EXCEPT ![l] = v]
<1> DEFINE E == [F EXCEPT ![l] = v]
<1>1. E = [m \in Links |-> IF m = l THEN v ELSE F[m]]
  OBVIOUS
<1>2. \A m \in Links : G[m] = IF m = l THEN v ELSE F[m]
  OBVIOUS
<1>3. QED
  BY <1>1, <1>2

LEMMA Kept ==
  ASSUME NEW F, NEW l \in Links, F = [m \in Links |-> F[m]]
  PROVE  [F EXCEPT ![l] = F[l]] = F
OBVIOUS

\* The variables of the channel, as functions of the ring's state.
ChanSent  == [l \in Links |-> Sent(l[1], l[2])]
ChanHeld  == [l \in Links |-> InTransit(l[1], l[2])]
ChanTaken == [l \in Links |-> Taken(l[1], l[2]) - Freed(l[1], l[2])]
HeldIsWindow ==
  \A l \in Links : InTransit(l[1], l[2]) = Window(l, Freed(l[1], l[2]), Sent(l[1], l[2]))

\* A step after which link l has sent s, taken t and freed f messages, and no other link moved.
LandsAt(l, s, t, f) ==
  /\ ChanSent' = [ChanSent EXCEPT ![l] = s]
  /\ ChanHeld' = [ChanHeld EXCEPT ![l] = Window(l, f, s)]
  /\ ChanTaken' = [ChanTaken EXCEPT ![l] = t - f]

LEMMA ChannelInit ==
  ASSUME Init
  PROVE  Channel!Init
<1>1. ASSUME NEW l \in Links
      PROVE  /\ Sent(l[1], l[2]) = 0 /\ Taken(l[1], l[2]) = 0 /\ Freed(l[1], l[2]) = 0
             /\ OnWire(l[1], l[2]) = 0
  <2>1. l[1] \in Ranks /\ l[2] \in Neighbours(l[1])
    BY DEF Links
  <2>2. /\ l[2] \in Ranks /\ LocalIdxInDst(l[1], l[2]) \in Sides
        /\ DstIdxInLocal(l[1], l[2]) \in Sides /\ DstIdxInLocal(l[1], l[2]) + 2 \in Regions
    BY <2>1, LinkEnds
  <2>3. Sent(l[1], l[2]) = 0 /\ Taken(l[1], l[2]) = 0 /\ OnWire(l[1], l[2]) = 0
    BY <2>1, <2>2 DEF Init, Sent, Taken, OnWire
  <2>4. FreeSig(l[1], l[2]) = 0 /\ FreeOnWire(l[1], l[2]) = 0
    BY <2>1, <2>2 DEF Init, FreeSig, FreeOnWire
  <2>5. QED
    BY <2>3, <2>4 DEF Freed
<1>2. ASSUME NEW l \in Links
      PROVE  InTransit(l[1], l[2]) = <<>>
  <2>1. Sent(l[1], l[2]) - Freed(l[1], l[2]) = 0
    BY <1>1
  <2>2. 1 .. 0 = {}
    OBVIOUS
  <2>3. InTransit(l[1], l[2]) = [k \in {} |-> Carried(l[1], l[2], Freed(l[1], l[2]) + k)]
    BY <2>1, <2>2 DEF InTransit
  <2>4. QED
    BY <2>3
<1>3. QED
  BY <1>1, <1>2 DEF Channel!Init

LEMMA ChannelStep ==
  ASSUME IInv, IInv', HeldIsWindow, HeldIsWindow', [Next]_vars
  PROVE  [Channel!Next]_(Channel!vars)
<1>1. ASSUME NEW m \in Links
      PROVE  /\ m = <<m[1], m[2]>> /\ m[1] \in Ranks /\ m[2] \in Ranks
             /\ m[2] \in Neighbours(m[1])
             /\ Sent(m[1], m[2]) \in Nat /\ Taken(m[1], m[2]) \in Nat
             /\ Freed(m[1], m[2]) \in Nat
             /\ Freed(m[1], m[2]) <= Taken(m[1], m[2]) /\ Taken(m[1], m[2]) <= Sent(m[1], m[2])
  <2>1. m = <<m[1], m[2]>> /\ m[1] \in Ranks /\ m[2] \in Neighbours(m[1])
    BY DEF Links
  <2>2. m[2] \in Ranks /\ Flow(m[1], m[2])
    BY <2>1, UseIInv
  <2>3. /\ Sent(m[1], m[2]) \in Nat /\ Taken(m[1], m[2]) \in Nat /\ Freed(m[1], m[2]) \in Nat
        /\ DataSig(m[1], m[2]) \in Nat /\ Arrived(m[1], m[2]) \in Nat /\ OnWire(m[1], m[2]) \in Nat
    BY <2>1, <2>2, CountTypes
  <2>4. QED
    BY <2>1, <2>2, <2>3 DEF Flow
\* A link whose numbers stay keeps its place in all three variables.
<1>2. ASSUME NEW m \in Links, UNCHANGED Numbers(m[1], m[2])
      PROVE  /\ ChanSent'[m] = ChanSent[m] /\ ChanHeld'[m] = ChanHeld[m]
             /\ ChanTaken'[m] = ChanTaken[m]
  <2>1. /\ Sent(m[1], m[2])' = Sent(m[1], m[2]) /\ Taken(m[1], m[2])' = Taken(m[1], m[2])
        /\ Freed(m[1], m[2])' = Freed(m[1], m[2])
    BY <1>2 DEF Numbers
  <2>2. InTransit(m[1], m[2])' = InTransit(m[1], m[2])
    BY <2>1 DEF HeldIsWindow
  <2>3. QED
    BY <2>1, <2>2 DEF ChanSent, ChanHeld, ChanTaken
<1>3. /\ ChanSent = [m \in Links |-> ChanSent[m]] /\ ChanSent' = [m \in Links |-> ChanSent'[m]]
      /\ ChanHeld = [m \in Links |-> ChanHeld[m]] /\ ChanHeld' = [m \in Links |-> ChanHeld'[m]]
      /\ ChanTaken = [m \in Links |-> ChanTaken[m]]
      /\ ChanTaken' = [m \in Links |-> ChanTaken'[m]]
  BY DEF ChanSent, ChanHeld, ChanTaken
<1>4. CASE NoneMoves
  <2>1. ASSUME NEW m \in Links
        PROVE  UNCHANGED Numbers(m[1], m[2])
    BY <1>1, <1>4 DEF NoneMoves
  <2>2. ChanSent' = ChanSent /\ ChanHeld' = ChanHeld /\ ChanTaken' = ChanTaken
    BY <1>2, <1>3, <2>1, Zenon
  <2>3. QED
    BY <2>2 DEF Channel!vars, ChanSent, ChanHeld, ChanTaken
<1>5. ASSUME NEW l \in Links, MovesOne(l[1], l[2])
      PROVE  Channel!Next
  <2>1. PICK s, t, f : s = Sent(l[1], l[2]) /\ t = Taken(l[1], l[2]) /\ f = Freed(l[1], l[2])
    OBVIOUS
  <2>2. /\ s \in Nat /\ t \in Nat /\ f \in Nat /\ f <= t /\ t <= s
    BY <1>1, <2>1
  <2>3. /\ ChanSent[l] = s /\ ChanHeld[l] = Window(l, f, s) /\ ChanTaken[l] = t - f
    BY <2>1 DEF ChanSent, ChanHeld, ChanTaken, HeldIsWindow
  <2>4. Len(ChanHeld[l]) = s - f
    <3>1. Len(Window(l, f, s)) = s - f
      BY <2>2, WindowIsSeq
    <3>2. QED
      BY <2>3, <3>1, Zenon
  <2>5. ASSUME NEW m \in Links, m # l
        PROVE  /\ ChanSent'[m] = ChanSent[m] /\ ChanHeld'[m] = ChanHeld[m]
               /\ ChanTaken'[m] = ChanTaken[m]
    <3>1. <<m[1], m[2]>> # <<l[1], l[2]>>
      BY <1>1, <2>5
    <3>2. UNCHANGED Numbers(m[1], m[2])
      BY <1>1, <1>5, <3>1 DEF MovesOne, OthersQuiet
    <3>3. QED
      BY <1>2, <3>2
  <2>6. ASSUME NEW ss, NEW tt, NEW ff, Numbers(l[1], l[2])' = <<ss, tt, ff>>
        PROVE  LandsAt(l, ss, tt, ff)
    <3>1. Sent(l[1], l[2])' = ss /\ Taken(l[1], l[2])' = tt /\ Freed(l[1], l[2])' = ff
      BY <2>6 DEF Numbers
    <3>2. ChanSent'[l] = ss /\ ChanHeld'[l] = Window(l, ff, ss) /\ ChanTaken'[l] = tt - ff
      BY <3>1 DEF ChanSent, ChanHeld, ChanTaken, HeldIsWindow
    <3>3. ChanSent' = [ChanSent EXCEPT ![l] = ss]
      BY <1>3, <2>5, <3>2, Overridden
    <3>4. ChanHeld' = [ChanHeld EXCEPT ![l] = Window(l, ff, ss)]
      BY <1>3, <2>5, <3>2, Overridden
    <3>5. ChanTaken' = [ChanTaken EXCEPT ![l] = tt - ff]
      BY <1>3, <2>5, <3>2, Overridden
    <3>6. QED
      BY <3>3, <3>4, <3>5 DEF LandsAt
  <2>7. CASE SendsOne(l[1], l[2])
    <3>1. s - f < Inflight /\ Numbers(l[1], l[2])' = <<s + 1, t, f>>
      BY <2>1, <2>7 DEF SendsOne
    <3>2. /\ ChanSent' = [ChanSent EXCEPT ![l] = s + 1]
          /\ ChanHeld' = [ChanHeld EXCEPT ![l] = Window(l, f, s + 1)]
          /\ ChanTaken' = [ChanTaken EXCEPT ![l] = t - f]
      <4>1. LandsAt(l, s + 1, t, f)
        BY <2>6, <3>1
      <4>2. QED
        BY <4>1 DEF LandsAt
    <3>3. Window(l, f, s + 1) = Append(ChanHeld[l], Payload(l, ChanSent[l] + 1))
      <4>1. Window(l, f, s + 1) = Append(Window(l, f, s), Payload(l, s + 1))
        <5>1. f <= s
          BY <2>2
        <5>2. QED
          BY <2>2, <5>1, WindowGrows
      <4>2. QED
        BY <2>3, <4>1, Zenon
    <3>4. ChanTaken' = ChanTaken
      <4>1. ChanTaken' = [ChanTaken EXCEPT ![l] = ChanTaken[l]]
        BY <2>3, <3>2, Zenon
      <4>2. QED
        BY <1>3, <4>1, Kept, Zenon
    <3>5. /\ Len(ChanHeld[l]) < Inflight
          /\ ChanHeld' = [ChanHeld EXCEPT ![l] = Append(ChanHeld[l], Payload(l, ChanSent[l] + 1))]
          /\ ChanSent' = [ChanSent EXCEPT ![l] = ChanSent[l] + 1]
          /\ ChanTaken' = ChanTaken
      <4>1. Len(ChanHeld[l]) < Inflight
        BY <2>4, <3>1
      <4>2. QED
        BY <2>3, <3>2, <3>3, <3>4, <4>1, Zenon
    <3>6. Channel!Send(l)
      BY <3>5 DEF Channel!Send, ChanSent, ChanHeld, ChanTaken
    <3>7. QED
      BY <3>6 DEF Channel!Next
  <2>8. CASE TakesOne(l[1], l[2])
    <3>1. t < s /\ Numbers(l[1], l[2])' = <<s, t + 1, f>>
      BY <2>1, <2>8 DEF TakesOne
    <3>2. (t + 1) - f = ChanTaken[l] + 1 /\ ChanTaken[l] < Len(ChanHeld[l])
      BY <2>2, <2>3, <2>4, <3>1
    <3>3. /\ ChanSent' = [ChanSent EXCEPT ![l] = s]
          /\ ChanHeld' = [ChanHeld EXCEPT ![l] = Window(l, f, s)]
          /\ ChanTaken' = [ChanTaken EXCEPT ![l] = (t + 1) - f]
      <4>1. LandsAt(l, s, t + 1, f)
        BY <2>6, <3>1
      <4>2. QED
        BY <4>1 DEF LandsAt
    <3>4. ChanSent' = ChanSent /\ ChanHeld' = ChanHeld
      <4>1. /\ ChanSent' = [ChanSent EXCEPT ![l] = ChanSent[l]]
            /\ ChanHeld' = [ChanHeld EXCEPT ![l] = ChanHeld[l]]
        BY <2>3, <3>3, Zenon
      <4>2. QED
        BY <1>3, <4>1, Kept, Zenon
    <3>5. /\ ChanTaken[l] < Len(ChanHeld[l])
          /\ ChanTaken' = [ChanTaken EXCEPT ![l] = ChanTaken[l] + 1]
          /\ ChanSent' = ChanSent /\ ChanHeld' = ChanHeld
      BY <3>3, <3>2, <3>4, Zenon
    <3>6. Channel!Take(l)
      BY <3>5 DEF Channel!Take, ChanSent, ChanHeld, ChanTaken
    <3>7. QED
      BY <3>6 DEF Channel!Next
  <2>9. CASE FreesOne(l[1], l[2])
    <3>1. f < t /\ Numbers(l[1], l[2])' = <<s, t, f + 1>>
      BY <2>1, <2>9 DEF FreesOne
    <3>2. t - (f + 1) = ChanTaken[l] - 1 /\ ChanTaken[l] > 0 /\ f < s
      BY <2>2, <2>3, <3>1
    <3>3. Window(l, f + 1, s) = Tail(ChanHeld[l])
      BY <2>2, <2>3, <3>2, WindowMoves
    <3>4. /\ ChanSent' = [ChanSent EXCEPT ![l] = s]
          /\ ChanHeld' = [ChanHeld EXCEPT ![l] = Window(l, f + 1, s)]
          /\ ChanTaken' = [ChanTaken EXCEPT ![l] = t - (f + 1)]
      <4>1. LandsAt(l, s, t, f + 1)
        BY <2>6, <3>1
      <4>2. QED
        BY <4>1 DEF LandsAt
    <3>5. ChanSent' = ChanSent
      <4>1. ChanSent' = [ChanSent EXCEPT ![l] = ChanSent[l]]
        BY <2>3, <3>4, Zenon
      <4>2. QED
        BY <1>3, <4>1, Kept, Zenon
    <3>6. /\ ChanTaken[l] > 0
          /\ ChanTaken' = [ChanTaken EXCEPT ![l] = ChanTaken[l] - 1]
          /\ ChanHeld' = [ChanHeld EXCEPT ![l] = Tail(ChanHeld[l])]
          /\ ChanSent' = ChanSent
      BY <3>4, <3>2, <3>3, <3>5, Zenon
    <3>7. Channel!Free(l)
      BY <3>6 DEF Channel!Free, ChanSent, ChanHeld, ChanTaken
    <3>8. QED
      BY <3>7 DEF Channel!Next
  <2>10. CASE PassesOne(l[1], l[2])
    <3>1. t = f /\ f < s /\ Numbers(l[1], l[2])' = <<s, t + 1, f + 1>>
      BY <2>1, <2>10 DEF PassesOne
    <3>2. (t + 1) - (f + 1) = ChanTaken[l] /\ ChanTaken[l] = 0
      BY <2>2, <2>3, <3>1
    <3>3. Window(l, f + 1, s) = Tail(ChanHeld[l]) /\ ChanHeld[l] # <<>>
      <4>1. Window(l, f + 1, s) = Tail(Window(l, f, s)) /\ Window(l, f, s) # <<>>
        BY <2>2, <3>1, WindowMoves
      <4>2. QED
        BY <2>3, <4>1, Zenon
    <3>4. /\ ChanSent' = [ChanSent EXCEPT ![l] = s]
          /\ ChanHeld' = [ChanHeld EXCEPT ![l] = Window(l, f + 1, s)]
          /\ ChanTaken' = [ChanTaken EXCEPT ![l] = (t + 1) - (f + 1)]
      <4>1. LandsAt(l, s, t + 1, f + 1)
        BY <2>6, <3>1
      <4>2. QED
        BY <4>1 DEF LandsAt
    <3>5. ChanSent' = ChanSent /\ ChanTaken' = ChanTaken
      <4>1. /\ ChanSent' = [ChanSent EXCEPT ![l] = ChanSent[l]]
            /\ ChanTaken' = [ChanTaken EXCEPT ![l] = ChanTaken[l]]
        BY <2>3, <3>2, <3>4, Zenon
      <4>2. QED
        BY <1>3, <4>1, Kept, Zenon
    <3>6. /\ ChanTaken[l] = 0 /\ ChanHeld[l] # <<>>
          /\ ChanHeld' = [ChanHeld EXCEPT ![l] = Tail(ChanHeld[l])]
          /\ ChanSent' = ChanSent /\ ChanTaken' = ChanTaken
      BY <3>2, <3>3, <3>4, <3>5, Zenon
    <3>7. Channel!TakeAndFree(l)
      BY <3>6 DEF Channel!TakeAndFree, ChanSent, ChanHeld, ChanTaken
    <3>8. QED
      BY <3>7 DEF Channel!Next
  <2>11. QED
    BY <1>5, <2>7, <2>8, <2>9, <2>10 DEF MovesOne
<1>6. QED
  BY <1>4, <1>5, LinkMoves

\* Over every link the ring is a bounded FIFO channel, for every ring: no message is lost,
\* repeated, reordered, changed while it waits or handed to another link.
THEOREM ChannelRefinement == Spec => ImplementsChannel
<1>1. IInv => HeldIsWindow
  BY TransitIsWindow DEF HeldIsWindow
<1>2. Init => Channel!Init
  BY ChannelInit
<1>3. IInv /\ IInv' /\ HeldIsWindow /\ HeldIsWindow' /\ [Next]_vars => [Channel!Next]_(Channel!vars)
  BY ChannelStep
<1>4. QED
  BY <1>1, <1>2, <1>3, Invariance, PTL DEF Spec, ImplementsChannel, Channel!Spec

=============================================================================
