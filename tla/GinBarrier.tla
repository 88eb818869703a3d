----------------------------- MODULE GinBarrier -----------------------------
(***************************************************************************)
(* gin_barrier_wo_local_sync: the barrier among the ranks of a Gin team,   *)
(* over the network.                                                       *)
(*                                                                         *)
(* Every rank has one signal per member of the team and a local shadow of  *)
(* it.  A barrier increments one's own signal at every member, counts all  *)
(* shadows up by one and waits until no signal is behind its shadow.       *)
(* Signals travel on QP 0, data on every QP, and nothing orders the two:   *)
(* a barrier that is to publish data first flushes all the QPs.            *)
(***************************************************************************)
EXTENDS BarrierTeam

CONSTANTS FlushStores    \* kFlushStores

ASSUME FlushAssumption == FlushStores \in BOOLEAN

VARIABLES
  ginPc,          \* "out" of the barrier, in the "flush", or "in" after it
  done,        \* barriers completed
  unsent,      \* members not yet signalled in this barrier
  unseen,      \* members whose signal has not been waited for in this barrier
  shadow,      \* signal shadow of each rank, per member
  ginSignal,      \* Gin signal of each rank, per member
  flight,      \* signal increments issued by a rank, not yet visible, per member
  puts         \* data puts issued by a rank and not landed: target and epoch

ginVars == <<ginPc, done, unsent, unseen, shadow, ginSignal, flight, puts>>

Put == [to : Ranks, epoch : Nat]

GinTypeOK ==
  /\ ginPc \in [Ranks -> {"out", "flush", "in"}]
  /\ done \in [Ranks -> Nat]
  /\ unsent \in [Ranks -> SUBSET Ranks]
  /\ unseen \in [Ranks -> SUBSET Ranks]
  /\ shadow \in [Ranks -> [Ranks -> Nat]]
  /\ ginSignal \in [Ranks -> [Ranks -> Nat]]
  /\ flight \in [Ranks -> [Ranks -> Nat]]
  /\ puts \in [Ranks -> SUBSET Put]

GinInit ==
  /\ ginPc = [r \in Ranks |-> "out"]
  /\ done = [r \in Ranks |-> 0]
  /\ unsent = [r \in Ranks |-> {}]
  /\ unseen = [r \in Ranks |-> {}]
  /\ shadow = [r \in Ranks |-> [q \in Ranks |-> 0]]
  /\ ginSignal = [r \in Ranks |-> [q \in Ranks |-> 0]]
  /\ flight = [r \in Ranks |-> [q \in Ranks |-> 0]]
  /\ puts = [r \in Ranks |-> {}]

\* A kernel puts data into a member's window on some QP, before the next barrier.
IssuePut(r, q) ==
  /\ ginPc[r] = "out"
  /\ done[r] < MaxBarriers
  /\ puts' = [puts EXCEPT ![r] = @ \cup {[to |-> q, epoch |-> done[r]]}]
  /\ UNCHANGED <<ginPc, done, unsent, unseen, shadow, ginSignal, flight>>

LandPut(r, p) ==
  /\ p \in puts[r]
  /\ puts' = [puts EXCEPT ![r] = @ \ {p}]
  /\ UNCHANGED <<ginPc, done, unsent, unseen, shadow, ginSignal, flight>>

GinBegin(r) ==
  /\ ginPc[r] = "out"
  /\ done[r] < MaxBarriers
  /\ ginPc' = [ginPc EXCEPT ![r] = "flush"]
  /\ UNCHANGED <<done, unsent, unseen, shadow, ginSignal, flight, puts>>

\* Faulty variant: no flush.
FlushNothing(r) ==
  /\ ginPc[r] = "flush"
  /\ ginPc' = [ginPc EXCEPT ![r] = "in"]
  /\ unsent' = [unsent EXCEPT ![r] = Ranks]
  /\ unseen' = [unseen EXCEPT ![r] = Ranks]
  /\ UNCHANGED <<done, shadow, ginSignal, flight, puts>>

\* All warps of all SMs flush their share of the QPs, then the grid synchronises.
Flush(r) ==
  /\ ginPc[r] = "flush"
  /\ FlushStores => puts[r] = {}
  /\ ginPc' = [ginPc EXCEPT ![r] = "in"]
  /\ unsent' = [unsent EXCEPT ![r] = Ranks]
  /\ unseen' = [unseen EXCEPT ![r] = Ranks]
  /\ UNCHANGED <<done, shadow, ginSignal, flight, puts>>

\* Thread q signals member q.
Signal(r, q) ==
  /\ q \in unsent[r]
  /\ flight' = [flight EXCEPT ![r][q] = @ + 1]
  /\ unsent' = [unsent EXCEPT ![r] = @ \ {q}]
  /\ UNCHANGED <<ginPc, done, unseen, shadow, ginSignal, puts>>

Deliver(r, q) ==
  /\ flight[r][q] > 0
  /\ flight' = [flight EXCEPT ![r][q] = @ - 1]
  /\ ginSignal' = [ginSignal EXCEPT ![q][r] = @ + 1]
  /\ UNCHANGED <<ginPc, done, unsent, unseen, shadow, puts>>

\* Faulty variant: equality instead of "at least".
ExactSignal(r, q) == ginSignal[r][q] = shadow[r][q] + 1

\* The poll of thread q, with the shadow of member q counted up.
SignalThere(r, q) == ginSignal[r][q] >= shadow[r][q] + 1

\* Then thread q counts the shadow of member q up and polls until the signal is there.
\* Nobody else reads the shadow, so the two are one step.
See(r, q) ==
  /\ q \in unseen[r] \ unsent[r]
  /\ SignalThere(r, q)
  /\ shadow' = [shadow EXCEPT ![r][q] = @ + 1]
  /\ unseen' = [unseen EXCEPT ![r] = @ \ {q}]
  /\ UNCHANGED <<ginPc, done, unsent, ginSignal, flight, puts>>

\* All threads are through.
End(r) ==
  /\ ginPc[r] = "in"
  /\ unseen[r] = {}
  /\ done' = [done EXCEPT ![r] = @ + 1]
  /\ ginPc' = [ginPc EXCEPT ![r] = "out"]
  /\ UNCHANGED <<unsent, unseen, shadow, ginSignal, flight, puts>>

Thread(r, q) == Signal(r, q) \/ See(r, q)
Network(r, q) == Deliver(r, q) \/ \E p \in puts[r] : p.to = q /\ LandPut(r, p)

GinStep(r) == GinBegin(r) \/ Flush(r) \/ End(r)

GinNext ==
  \/ \E r \in Ranks : GinStep(r)
  \/ \E r, q \in Ranks : IssuePut(r, q) \/ Thread(r, q) \/ Network(r, q)

GinSpec == GinInit /\ [][GinNext]_ginVars

-----------------------------------------------------------------------------
GinEntered(r) == IF ginPc[r] = "out" THEN done[r] ELSE done[r] + 1

GinB == INSTANCE Barrier WITH
  Members <- Ranks,
  Partners <- [r \in Ranks |-> Ranks],
  entered <- [r \in Ranks |-> GinEntered(r)],
  left    <- done

\* The signals and shadows implement the barrier among the team: a signal of a rank
\* that is one barrier ahead is never taken for one of this barrier.
GinImplementsBarrier == GinB!Spec

\* With a flush, data put before a barrier has landed when any rank leaves it.
PutsVisible ==
  FlushStores => \A q, r \in Ranks : \A p \in puts[q] : done[r] <= p.epoch

-----------------------------------------------------------------------------
(* The inductive invariant: signal, shadow and what is on its way agree.   *)

Signalled(r, q) == IF ginPc[r] = "in" /\ q \notin unsent[r] THEN done[r] + 1 ELSE done[r]
Seen(r, q)      == IF ginPc[r] = "in" /\ q \notin unseen[r] THEN done[r] + 1 ELSE done[r]

GinInv ==
  /\ GinTypeOK
  /\ \A r \in Ranks : ginPc[r] # "in" => unsent[r] = {} /\ unseen[r] = {}
  /\ \A r \in Ranks : unsent[r] \subseteq unseen[r]
  /\ \A r, q \in Ranks : ginSignal[q][r] + flight[r][q] = Signalled(r, q)
  /\ \A r, q \in Ranks : shadow[r][q] = Seen(r, q)
  /\ \A r, q \in Ranks : shadow[r][q] <= ginSignal[r][q]
  /\ FlushStores => \A r \in Ranks : ginPc[r] = "in" => puts[r] = {}
  /\ FlushStores => \A r \in Ranks : \A p \in puts[r] : p.epoch = done[r]

=============================================================================
