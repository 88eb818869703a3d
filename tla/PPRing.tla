------------------------------- MODULE PPRing -------------------------------
(***************************************************************************)
(* Pipeline-parallel send/recv over a ring of ranks.                       *)
(*                                                                         *)
(* Every rank exchanges tensors with its previous and its next rank only.  *)
(* A message goes through a ring of Inflight slots in the receiver's       *)
(* symmetric buffer.  Two signals flow per direction: "one more message    *)
(* has landed" (towards the receiver) and "one more slot was consumed"     *)
(* (towards the sender).  All the rest is local counters: neither side     *)
(* ever reads the other's memory.                                          *)
(*                                                                         *)
(* A rank executes the PP kernels of its stream one after the other.  A    *)
(* kernel runs on several SMs, each of which waits for the signal and      *)
(* moves its own share of the tensor, after a grid-wide synchronisation    *)
(* the first SM publishes the result.                                      *)
(***************************************************************************)
EXTENDS Integers

CONSTANTS NumRanks,      \* kNumRanks
          SMs,           \* the SMs of a PP kernel: each moves its share of the tensor
          Inflight,      \* num_max_inflight_tensors
          NvlPairs,      \* ordered pairs <<src, dst>> with a mapped symmetric pointer
          BarrierWith,   \* per rank: whom one barrier kernel synchronises it with
          MaxMsgs,       \* bound: messages sent over one link
          MaxConfigs     \* bound: calls to pp_set_config on one rank

ASSUME NumRanksAssumption   == NumRanks \in Nat /\ NumRanks >= 2
ASSUME SMsAssumption        == SMs # {}
ASSUME InflightAssumption   == Inflight \in Nat /\ Inflight >= 1
ASSUME BarrierAssumption    == BarrierWith \in [0 .. NumRanks - 1 -> SUBSET (0 .. NumRanks - 1)]
ASSUME BoundsAssumption     == MaxMsgs \in Nat /\ MaxConfigs \in Nat

Ranks == 0 .. NumRanks - 1
NextRank(r) == (r + 1) % NumRanks
PrevRank(r) == (r + NumRanks - 1) % NumRanks
Neighbours(r) == {PrevRank(r), NextRank(r)}
Links == {l \in Ranks \X Ranks : l[2] \in Neighbours(l[1])}

(***************************************************************************)
(* get_buffer_offset(src, dst), first and second component: which of its   *)
(* two sides (0 = prev, 1 = next) the destination keeps for the source,    *)
(* and which side the source keeps for the destination.  The host has its  *)
(* own computation of the first one.                                       *)
(***************************************************************************)
Sides == {0, 1}
\* Faulty variant: both neighbours share a side.
OneSideForBoth(src, dst) == 0

LocalIdxInDst(src, dst)  == IF dst = NextRank(src) THEN 0 ELSE 1
DstIdxInLocal(src, dst)  == IF dst = NextRank(src) THEN 1 ELSE 0
PeerBufferIdx(rank, peer) == IF rank = NextRank(peer) THEN 0 ELSE 1

(***************************************************************************)
(* Regions of the buffer and indices of the PP signals: 0 and 1 are the    *)
(* receive side of prev and next, 2 and 3 the send side.                   *)
(***************************************************************************)
Regions == 0 .. 3
Slots   == 0 .. Inflight - 1
\* Faulty variant: the counter is not wrapped.
SlotUnwrapped(count) == count

Slot(count) == count % Inflight

\* The n-th message from src to dst, n from 1.  NoMsg is what a slot holds before.
Msg(src, dst, n) == <<src, dst, n>>
NoMsg == <<0, 0, 0>>
Messages == Ranks \X Ranks \X Nat

IdleOp == [kind |-> "idle", peer |-> 0, slot |-> 0]
Ops  == [kind : {"idle", "send", "recv", "view"}, peer : Ranks, slot : Slots]
Views == [seq : Nat, slot : Slots]

VARIABLES
  cur,         \* the kernel each rank's stream is executing
  ready,       \* the SMs of that kernel that reached the grid synchronisation
  out,         \* what a pp_recv copies into the caller's tensor, SM by SM
  sendCount,   \* pp_send_count of the workspace, per side
  recvCount,   \* pp_recv_count of the workspace, per side
  hostCount,   \* pp_recv_host_counts of the ElasticBuffer object, per side
  sig,         \* the four PP Gin signals of each rank
  mem,         \* the PP regions of each rank's buffer, per slot and SM share
  wire,        \* puts issued by a sender whose payload has not landed
  arrived,     \* payload landed, signal increment still on its way
  relWire,     \* consumption signals issued by a receiver, not yet visible
  views,       \* zero-copy tensors handed to the caller and not released
  cfgEntered,  \* how often a rank entered / left the barrier of pp_set_config
  cfgLeft

kernelVars == <<cur, ready, out>>
countVars  == <<sendCount, recvCount, hostCount>>
netVars    == <<wire, arrived, relWire>>
cfgVars    == <<cfgEntered, cfgLeft>>
vars == <<cur, ready, out, sendCount, recvCount, hostCount, sig, mem,
          wire, arrived, relWire, views, cfgEntered, cfgLeft>>

TypeOK ==
  /\ cur \in [Ranks -> Ops]
  /\ ready \in [Ranks -> SUBSET SMs]
  /\ out \in [Ranks -> [SMs -> Messages]]
  /\ sendCount \in [Ranks -> [Sides -> Nat]]
  /\ recvCount \in [Ranks -> [Sides -> Nat]]
  /\ hostCount \in [Ranks -> [Sides -> Nat]]
  /\ sig \in [Ranks -> [Regions -> Nat]]
  /\ mem \in [Ranks -> [Regions -> [Slots -> [SMs -> Messages]]]]
  /\ wire \in [Ranks -> [Sides -> Nat]]
  /\ arrived \in [Ranks -> [Sides -> Nat]]
  /\ relWire \in [Ranks -> [Sides -> Nat]]
  /\ views \in [Ranks -> [Sides -> SUBSET Views]]
  /\ cfgEntered \in [Ranks -> Nat]
  /\ cfgLeft \in [Ranks -> Nat]

Init ==
  /\ cur = [r \in Ranks |-> IdleOp]
  /\ ready = [r \in Ranks |-> {}]
  /\ out = [r \in Ranks |-> [sm \in SMs |-> NoMsg]]
  /\ sendCount = [r \in Ranks |-> [i \in Sides |-> 0]]
  /\ recvCount = [r \in Ranks |-> [i \in Sides |-> 0]]
  /\ hostCount = [r \in Ranks |-> [i \in Sides |-> 0]]
  /\ sig = [r \in Ranks |-> [i \in Regions |-> 0]]
  /\ mem = [r \in Ranks |-> [i \in Regions |-> [k \in Slots |-> [sm \in SMs |-> NoMsg]]]]
  /\ wire = [r \in Ranks |-> [i \in Sides |-> 0]]
  /\ arrived = [r \in Ranks |-> [i \in Sides |-> 0]]
  /\ relWire = [r \in Ranks |-> [i \in Sides |-> 0]]
  /\ views = [r \in Ranks |-> [i \in Sides |-> {}]]
  /\ cfgEntered = [r \in Ranks |-> 0]
  /\ cfgLeft = [r \in Ranks |-> 0]

-----------------------------------------------------------------------------
(* pp_set_config: device synchronisation, barrier (GpuBarrier), reset.      *)

StreamIdle(r) == cur[r].kind = "idle"
InBarrier(r)  == cfgEntered[r] # cfgLeft[r]
Configured(r) == cfgLeft[r] > 0 /\ ~InBarrier(r)

EnterSetConfig(r) ==
  /\ StreamIdle(r)
  /\ ~InBarrier(r)
  /\ cfgEntered[r] < MaxConfigs
  /\ cfgEntered' = [cfgEntered EXCEPT ![r] = @ + 1]
  /\ UNCHANGED <<kernelVars, countVars, sig, mem, netVars, views, cfgLeft>>

LeaveSetConfig(r) ==
  /\ InBarrier(r)
  /\ \A q \in BarrierWith[r] : cfgEntered[q] >= cfgEntered[r]
  /\ cfgLeft' = [cfgLeft EXCEPT ![r] = cfgEntered[r]]
  /\ hostCount' = [hostCount EXCEPT ![r] = [i \in Sides |-> 0]]
  /\ UNCHANGED <<kernelVars, sendCount, recvCount, sig, mem, netVars, views, cfgEntered>>

-----------------------------------------------------------------------------
(* pp_send: launch_pp_send and the three parts of pp_send_impl.            *)

LaunchSend(r, dst) ==
  /\ StreamIdle(r)
  /\ Configured(r)
  /\ dst \in Neighbours(r)
  /\ sendCount[r][DstIdxInLocal(r, dst)] < MaxMsgs
  /\ cur' = [cur EXCEPT ![r] = [kind |-> "send", peer |-> dst, slot |-> 0]]
  /\ UNCHANGED <<ready, out, countVars, sig, mem, netVars, views, cfgVars>>

\* Faulty variants: the sender runs one slot too far ahead, or stops one short.
SlotFreeEarly(r, dst) ==
  LET i == DstIdxInLocal(r, dst) IN sig[r][i + 2] >= sendCount[r][i] - Inflight
SlotFreeLate(r, dst) ==
  LET i == DstIdxInLocal(r, dst) IN sig[r][i + 2] >= sendCount[r][i] - Inflight + 2

\* check_signal on the consumption signal: a slot is free.
SendSlotFree(r, dst) ==
  LET i == DstIdxInLocal(r, dst)
  IN  sig[r][i + 2] >= sendCount[r][i] - Inflight + 1

\* One SM: wait for the slot, then tma_copy its share, straight into the peer's
\* receive slot over NVLink, or into the local send slot that a put will read.
SendCopy(r, sm) ==
  LET dst == cur[r].peer
      i == DstIdxInLocal(r, dst)
      n == sendCount[r][i]
      at == IF <<r, dst>> \in NvlPairs THEN <<dst, LocalIdxInDst(r, dst)>> ELSE <<r, i + 2>>
  IN  /\ cur[r].kind = "send"
      /\ sm \in SMs \ ready[r]
      /\ SendSlotFree(r, dst)
      /\ mem' = [mem EXCEPT ![at[1]][at[2]][Slot(n)][sm] = Msg(r, dst, n + 1)]
      /\ ready' = [ready EXCEPT ![r] = @ \cup {sm}]
      /\ UNCHANGED <<cur, out, countVars, sig, netVars, views, cfgVars>>

\* After the grid synchronisation the first SM fences and signals (NVLink) or
\* issues put-with-signal, and advances the send counter.
SendFinish(r) ==
  LET dst == cur[r].peer
      i == DstIdxInLocal(r, dst)
  IN  /\ cur[r].kind = "send"
      /\ ready[r] = SMs
      /\ IF <<r, dst>> \in NvlPairs
         THEN arrived' = [arrived EXCEPT ![r][i] = @ + 1] /\ UNCHANGED wire
         ELSE wire' = [wire EXCEPT ![r][i] = @ + 1] /\ UNCHANGED arrived
      /\ sendCount' = [sendCount EXCEPT ![r][i] = @ + 1]
      /\ cur' = [cur EXCEPT ![r] = IdleOp]
      /\ ready' = [ready EXCEPT ![r] = {}]
      /\ UNCHANGED <<out, recvCount, hostCount, sig, mem, relWire, views, cfgVars>>

-----------------------------------------------------------------------------
(* The network.  Puts of one link land in order, each before its signal.   *)

\* The payload of the oldest put on the wire lands: the NIC reads the send slot
\* only now, the latest moment it may.
PutLands(src, dst) ==
  LET i == DstIdxInLocal(src, dst)
      k == Slot(sendCount[src][i] - wire[src][i])
  IN  /\ wire[src][i] > 0
      /\ mem' = [mem EXCEPT ![dst][LocalIdxInDst(src, dst)][k] = mem[src][i + 2][k]]
      /\ wire' = [wire EXCEPT ![src][i] = @ - 1]
      /\ arrived' = [arrived EXCEPT ![src][i] = @ + 1]
      /\ UNCHANGED <<kernelVars, countVars, sig, relWire, views, cfgVars>>

\* ncclGin_SignalInc(kNumRanks + local_idx_in_dst) becomes visible.
DataSignal(src, dst) ==
  LET i == DstIdxInLocal(src, dst)
  IN  /\ arrived[src][i] > 0
      /\ arrived' = [arrived EXCEPT ![src][i] = @ - 1]
      /\ sig' = [sig EXCEPT ![dst][LocalIdxInDst(src, dst)] = @ + 1]
      /\ UNCHANGED <<kernelVars, countVars, mem, wire, relWire, views, cfgVars>>

\* ncclGin_SignalInc(kNumRanks + local_idx_in_src + 2) becomes visible.
ReleaseSignal(src, dst) ==
  LET j == LocalIdxInDst(src, dst)
  IN  /\ relWire[dst][j] > 0
      /\ relWire' = [relWire EXCEPT ![dst][j] = @ - 1]
      /\ sig' = [sig EXCEPT ![src][DstIdxInLocal(src, dst) + 2] = @ + 1]
      /\ UNCHANGED <<kernelVars, countVars, mem, wire, arrived, views, cfgVars>>

-----------------------------------------------------------------------------
(* pp_recv: copy the next message into a tensor of the caller.             *)

\* Faulty variant: only pp_recv_buffer counts on the host.
LaunchRecvUncounted(r, src) ==
  /\ StreamIdle(r) /\ Configured(r)
  /\ src \in Neighbours(r)
  /\ recvCount[r][LocalIdxInDst(src, r)] < MaxMsgs
  /\ cur' = [cur EXCEPT ![r] = [kind |-> "recv", peer |-> src, slot |-> 0]]
  /\ UNCHANGED <<ready, out, countVars, sig, mem, netVars, views, cfgVars>>

LaunchRecv(r, src) ==
  /\ StreamIdle(r)
  /\ Configured(r)
  /\ src \in Neighbours(r)
  /\ recvCount[r][LocalIdxInDst(src, r)] < MaxMsgs
  /\ cur' = [cur EXCEPT ![r] = [kind |-> "recv", peer |-> src, slot |-> 0]]
  /\ hostCount' = [hostCount EXCEPT ![r][PeerBufferIdx(r, src)] = @ + 1]
  /\ UNCHANGED <<ready, out, sendCount, recvCount, sig, mem, netVars, views, cfgVars>>

\* check_signal on the data signal: the next message is there.
MessageThere(r, src) ==
  LET j == LocalIdxInDst(src, r)
  IN  sig[r][j] >= recvCount[r][j] + 1

RecvCopy(r, sm) ==
  LET src == cur[r].peer
      j == LocalIdxInDst(src, r)
  IN  /\ cur[r].kind = "recv"
      /\ sm \in SMs \ ready[r]
      /\ MessageThere(r, src)
      /\ out' = [out EXCEPT ![r][sm] = mem[r][j][Slot(recvCount[r][j])][sm]]
      /\ ready' = [ready EXCEPT ![r] = @ \cup {sm}]
      /\ UNCHANGED <<cur, countVars, sig, mem, netVars, views, cfgVars>>

\* The first SM gives the slot back and advances the receive counter.
RecvFinish(r) ==
  LET j == LocalIdxInDst(cur[r].peer, r)
  IN  /\ cur[r].kind = "recv"
      /\ ready[r] = SMs
      /\ relWire' = [relWire EXCEPT ![r][j] = @ + 1]
      /\ recvCount' = [recvCount EXCEPT ![r][j] = @ + 1]
      /\ cur' = [cur EXCEPT ![r] = IdleOp]
      /\ ready' = [ready EXCEPT ![r] = {}]
      /\ UNCHANGED <<out, sendCount, hostCount, sig, mem, wire, arrived, views, cfgVars>>

-----------------------------------------------------------------------------
(* pp_recv_buffer: hand out a view of the slot, pp_release_recv: free one. *)

\* The host computes the slot from its own counter before the kernel has run.
LaunchRecvBuffer(r, src) ==
  LET j == PeerBufferIdx(r, src)
  IN  /\ StreamIdle(r)
      /\ Configured(r)
      /\ src \in Neighbours(r)
      /\ recvCount[r][j] < MaxMsgs
      /\ cur' = [cur EXCEPT ![r] = [kind |-> "view", peer |-> src,
                                    slot |-> Slot(hostCount[r][j])]]
      /\ hostCount' = [hostCount EXCEPT ![r][j] = @ + 1]
      /\ UNCHANGED <<ready, out, sendCount, recvCount, sig, mem, netVars, views, cfgVars>>

\* Faulty variant: the slot is given back at once, as pp_recv does.
RecvBufferFinishFrees(r) ==
  LET j == LocalIdxInDst(cur[r].peer, r)
  IN  /\ cur[r].kind = "view" /\ MessageThere(r, cur[r].peer)
      /\ views' = [views EXCEPT ![r][j] =
                     @ \cup {[seq |-> recvCount[r][j] + 1, slot |-> cur[r].slot]}]
      /\ relWire' = [relWire EXCEPT ![r][j] = @ + 1]
      /\ recvCount' = [recvCount EXCEPT ![r][j] = @ + 1]
      /\ cur' = [cur EXCEPT ![r] = IdleOp]
      /\ UNCHANGED <<ready, out, sendCount, hostCount, sig, mem, wire, arrived, cfgVars>>

\* pp_recv_buffer_impl runs on one SM: wait, then advance the receive counter.
\* From here on the caller reads the tensor, until it releases it.
RecvBufferFinish(r) ==
  LET src == cur[r].peer
      j == LocalIdxInDst(src, r)
  IN  /\ cur[r].kind = "view"
      /\ MessageThere(r, src)
      /\ views' = [views EXCEPT ![r][j] =
                     @ \cup {[seq |-> recvCount[r][j] + 1, slot |-> cur[r].slot]}]
      /\ recvCount' = [recvCount EXCEPT ![r][j] = @ + 1]
      /\ cur' = [cur EXCEPT ![r] = IdleOp]
      /\ UNCHANGED <<ready, out, sendCount, hostCount, sig, mem, netVars, cfgVars>>

\* The caller is done with view v and calls pp_release_recv.  The code learns
\* only the source rank: one more consumption signal goes to the sender.
ReleaseRecv(r, src, v) ==
  LET j == LocalIdxInDst(src, r)
  IN  /\ StreamIdle(r)
      /\ Configured(r)
      /\ src \in Neighbours(r)
      /\ v \in views[r][j]
      /\ views' = [views EXCEPT ![r][j] = @ \ {v}]
      /\ relWire' = [relWire EXCEPT ![r][j] = @ + 1]
      /\ UNCHANGED <<kernelVars, countVars, sig, mem, wire, arrived, cfgVars>>

-----------------------------------------------------------------------------
(***************************************************************************)
(* The callers this specification is about.  A copying receive is not used *)
(* while a view of the same link is held, views are released oldest first, *)
(* and a rank that received something does not call pp_set_config again.   *)
(* PPMisuse drops these one at a time.                                     *)
(***************************************************************************)
NoViewHeld(r, src) == views[r][LocalIdxInDst(src, r)] = {}
OldestView(r, src, v) == \A w \in views[r][LocalIdxInDst(src, r)] : v.seq <= w.seq
NothingReceived(r) == \A i \in Sides : hostCount[r][i] = 0 /\ recvCount[r][i] = 0

PpSetConfig(r) == (NothingReceived(r) /\ EnterSetConfig(r)) \/ LeaveSetConfig(r)
PpSend(r)      == (\E dst \in Neighbours(r) : LaunchSend(r, dst))
PpRecv(r)      == \E src \in Neighbours(r) : NoViewHeld(r, src) /\ LaunchRecv(r, src)
PpRecvBuffer(r) == \E src \in Neighbours(r) : LaunchRecvBuffer(r, src)
PpReleaseRecv(r) ==
  \E src \in Neighbours(r) : \E v \in views[r][LocalIdxInDst(src, r)] :
    OldestView(r, src, v) /\ ReleaseRecv(r, src, v)

Host(r) == PpSetConfig(r) \/ PpSend(r) \/ PpRecv(r) \/ PpRecvBuffer(r) \/ PpReleaseRecv(r)
Kernel(r) == \/ \E sm \in SMs : SendCopy(r, sm) \/ RecvCopy(r, sm)
             \/ SendFinish(r)
             \/ RecvFinish(r)
             \/ RecvBufferFinish(r)
Network(src, dst) == PutLands(src, dst) \/ DataSignal(src, dst) \/ ReleaseSignal(src, dst)

Next == \/ \E r \in Ranks : Host(r) \/ Kernel(r)
        \/ \E l \in Links : Network(l[1], l[2])

Spec == Init /\ [][Next]_vars

-----------------------------------------------------------------------------
(***************************************************************************)
(* The state as one link from src to dst sees it.                          *)
(***************************************************************************)
Sent(src, dst)       == sendCount[src][DstIdxInLocal(src, dst)]
Taken(src, dst)      == recvCount[dst][LocalIdxInDst(src, dst)]
HostTaken(src, dst)  == hostCount[dst][LocalIdxInDst(src, dst)]
DataSig(src, dst)    == sig[dst][LocalIdxInDst(src, dst)]
FreeSig(src, dst)    == sig[src][DstIdxInLocal(src, dst) + 2]
OnWire(src, dst)     == wire[src][DstIdxInLocal(src, dst)]
Arrived(src, dst)    == arrived[src][DstIdxInLocal(src, dst)]
FreeOnWire(src, dst) == relWire[dst][LocalIdxInDst(src, dst)]
Held(src, dst)       == views[dst][LocalIdxInDst(src, dst)]
RecvRegion(src, dst) == mem[dst][LocalIdxInDst(src, dst)]
SendRegion(src, dst) == mem[src][DstIdxInLocal(src, dst) + 2]

\* Slots given back so far, whether or not the sender has seen the signal.
Freed(src, dst) == FreeSig(src, dst) + FreeOnWire(src, dst)

Busy(src, dst, kind) == cur[dst].kind = kind /\ cur[dst].peer = src
Sending(src, dst) == cur[src].kind = "send" /\ cur[src].peer = dst
Filled(src, dst)  == IF Sending(src, dst) THEN ready[src] ELSE {}
Copied(src, dst)  == IF Busy(src, dst, "recv") THEN ready[dst] ELSE {}

\* A message on the wire is in its send slot.
StagedIntact(src, dst) ==
  \A n \in Sent(src, dst) - OnWire(src, dst) + 1 .. Sent(src, dst) : \A sm \in SMs :
    SendRegion(src, dst)[Slot(n - 1)][sm] = Msg(src, dst, n)

-----------------------------------------------------------------------------
(* Properties. *)

\* What pp_recv copies is the next message of that very link, whole, whichever
\* SMs of the sender and of the receiver are how far: no SM sees a slot the
\* sender has not filled or has begun to reuse.
CopyExact ==
  \A dst \in Ranks : \A src \in Neighbours(dst) : \A sm \in Copied(src, dst) :
    out[dst][sm] = Msg(src, dst, Taken(src, dst) + 1)

\* A tensor returned by pp_recv_buffer is the message it stands for and stays so
\* until the caller releases it, although the sender reuses slots all the time
\* and the slot was computed from the host's counter.
ViewIntact ==
  \A dst \in Ranks : \A src \in Neighbours(dst) : \A v \in Held(src, dst) : \A sm \in SMs :
    RecvRegion(src, dst)[v.slot][sm] = Msg(src, dst, v.seq)

\* The send slot of a put is not overwritten before the NIC has read it, although
\* pp_send returns without waiting for the put.
StagingIntact == \A src \in Ranks : \A dst \in Neighbours(src) : StagedIntact(src, dst)

-----------------------------------------------------------------------------
(***************************************************************************)
(* The inductive invariant behind them, link by link.                      *)
(***************************************************************************)

\* Every message sent is signalled, landed or on the wire, none is taken unsignalled
\* or freed untaken, and the sender is at most Inflight ahead of the frees it has seen.
Flow(src, dst) ==
  /\ Sent(src, dst) = DataSig(src, dst) + Arrived(src, dst) + OnWire(src, dst)
  /\ Taken(src, dst) <= DataSig(src, dst)
  /\ Freed(src, dst) <= Taken(src, dst)
  /\ Sent(src, dst) <= FreeSig(src, dst) + Inflight
  /\ Filled(src, dst) # {} => Sent(src, dst) + 1 <= FreeSig(src, dst) + Inflight
  /\ Copied(src, dst) # {} => Taken(src, dst) + 1 <= DataSig(src, dst)
  /\ <<src, dst>> \in NvlPairs => OnWire(src, dst) = 0

\* The views held are exactly the messages taken and not freed, each at its slot,
\* and the host's counter is the device's plus the receive that is under way.
Holding(src, dst) ==
  /\ \A v \in Held(src, dst) : /\ v.seq \in Freed(src, dst) + 1 .. Taken(src, dst)
                               /\ v.slot = Slot(v.seq - 1)
  /\ \A n \in Freed(src, dst) + 1 .. Taken(src, dst) : \E v \in Held(src, dst) : v.seq = n
  /\ Busy(src, dst, "recv") => Held(src, dst) = {}
  /\ Busy(src, dst, "view") => cur[dst].slot = Slot(Taken(src, dst))
  /\ HostTaken(src, dst) = IF Busy(src, dst, "recv") \/ Busy(src, dst, "view")
                           THEN Taken(src, dst) + 1 ELSE Taken(src, dst)

\* A message that landed is in its receive slot until it is freed.
LandedIntact(src, dst) ==
  \A n \in Freed(src, dst) + 1 .. Sent(src, dst) - OnWire(src, dst) : \A sm \in SMs :
    RecvRegion(src, dst)[Slot(n - 1)][sm] = Msg(src, dst, n)

\* The shares already moved by the kernels at work are right.
SharesExact(src, dst) ==
  /\ \A sm \in Filled(src, dst) :
       (IF <<src, dst>> \in NvlPairs THEN RecvRegion(src, dst) ELSE SendRegion(src, dst))
         [Slot(Sent(src, dst))][sm] = Msg(src, dst, Sent(src, dst) + 1)
  /\ \A sm \in Copied(src, dst) : out[dst][sm] = Msg(src, dst, Taken(src, dst) + 1)

LinkInv(src, dst) ==
  /\ Flow(src, dst)
  /\ Holding(src, dst)
  /\ LandedIntact(src, dst)
  /\ StagedIntact(src, dst)
  /\ SharesExact(src, dst)

\* A rank works for a neighbour, and inside pp_set_config it has received nothing.
RankInv(r) ==
  /\ cur[r].kind # "idle" => cur[r].peer \in Neighbours(r)
  /\ cur[r].kind \in {"idle", "view"} => ready[r] = {}
  /\ InBarrier(r) => StreamIdle(r) /\ NothingReceived(r)

IInv ==
  /\ TypeOK
  /\ \A r \in Ranks : RankInv(r)
  /\ \A src \in Ranks : \A dst \in Neighbours(src) : LinkInv(src, dst)

-----------------------------------------------------------------------------
(***************************************************************************)
(* Every link implements a bounded FIFO channel: its messages are read     *)
(* from the slots where they are.                                          *)
(***************************************************************************)
Payload(l, n) == [sm \in SMs |-> Msg(l[1], l[2], n)]

\* What lies where the n-th message is to be: in its send slot until it has landed.
Carried(src, dst, n) ==
  IF n > Sent(src, dst) - OnWire(src, dst) THEN SendRegion(src, dst)[Slot(n - 1)]
                                           ELSE RecvRegion(src, dst)[Slot(n - 1)]
InTransit(src, dst) ==
  [k \in 1 .. Sent(src, dst) - Freed(src, dst) |-> Carried(src, dst, Freed(src, dst) + k)]

Channel == INSTANCE PPChannel WITH
  Capacity <- Inflight,
  Message  <- Payload,
  sent  <- [l \in Links |-> Sent(l[1], l[2])],
  chan  <- [l \in Links |-> InTransit(l[1], l[2])],
  taken <- [l \in Links |-> Taken(l[1], l[2]) - Freed(l[1], l[2])]

\* Over every link the ring behaves as that channel: nothing is lost, duplicated,
\* reordered, altered in place or delivered to another link.
ImplementsChannel == Channel!Spec

=============================================================================
