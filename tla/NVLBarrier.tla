----------------------------- MODULE NVLBarrier -----------------------------
(***************************************************************************)
(* nvlink_barrier_wo_local_sync: the barrier among the ranks of one NVLink *)
(* domain.                                                                 *)
(*                                                                         *)
(* Every rank has two signal words and a local barrier counter.  Barriers  *)
(* alternate between the words, and between counting a word up from 0 to   *)
(* NumRanks and counting it down again, so that no word is ever reset.  A  *)
(* rank waits until its own word EQUALS the target: it must not miss that  *)
(* moment because a faster rank already works on a later barrier.          *)
(***************************************************************************)
EXTENDS BarrierTeam, FiniteSets

Phases == {0, 1}

VARIABLES
  nvlPc,          \* "out" of the barrier, at the "add"s, or in the "wait"
  counter,     \* nvl_barrier_counter of each rank's workspace
  status,      \* the two low bits of it, as read at the start of the barrier
  todo,        \* ranks a rank has not yet signalled in this barrier
  nvlSignal       \* nvl_barrier_signal of each rank's workspace, per phase

nvlVars == <<nvlPc, counter, status, todo, nvlSignal>>

NVLTypeOK ==
  /\ nvlPc \in [Ranks -> {"out", "add", "wait"}]
  /\ counter \in [Ranks -> Nat]
  /\ status \in [Ranks -> 0 .. 3]
  /\ todo \in [Ranks -> SUBSET Ranks]
  /\ nvlSignal \in [Ranks -> [Phases -> Int]]

NVLInit ==
  /\ nvlPc = [r \in Ranks |-> "out"]
  /\ counter = [r \in Ranks |-> 0]
  /\ status = [r \in Ranks |-> 0]
  /\ todo = [r \in Ranks |-> {}]
  /\ nvlSignal = [r \in Ranks |-> [p \in Phases |-> 0]]

\* Faulty variant: one signal too few.
TargetShort(s) == IF s >= 2 THEN 0 ELSE NumRanks - 1

Phase(s) == s % 2
Down(s)  == s >= 2        \* sign: this barrier counts down
Step(s)  == IF Down(s) THEN -1 ELSE 1
Target(s) == IF Down(s) THEN 0 ELSE NumRanks

\* Read the status: it tells the word and the direction of this barrier.
NVLBegin(r) ==
  /\ nvlPc[r] = "out"
  /\ counter[r] < MaxBarriers
  /\ status' = [status EXCEPT ![r] = counter[r] % 4]
  /\ todo' = [todo EXCEPT ![r] = Ranks]
  /\ nvlPc' = [nvlPc EXCEPT ![r] = "add"]
  /\ UNCHANGED <<counter, nvlSignal>>

\* Thread q adds to the word of rank q: one red_add_rel_sys, in any order.
Add(r, q) ==
  /\ nvlPc[r] = "add"
  /\ q \in todo[r]
  /\ nvlSignal' = [nvlSignal EXCEPT ![q][Phase(status[r])] = @ + Step(status[r])]
  /\ todo' = [todo EXCEPT ![r] = @ \ {q}]
  /\ UNCHANGED <<nvlPc, counter, status>>

\* After __syncthreads thread 0 counts the barrier and starts to poll.
Count(r) ==
  /\ nvlPc[r] = "add"
  /\ todo[r] = {}
  /\ counter' = [counter EXCEPT ![r] = @ + 1]
  /\ nvlPc' = [nvlPc EXCEPT ![r] = "wait"]
  /\ UNCHANGED <<status, todo, nvlSignal>>

\* The poll that sees the target.
Pass(r) ==
  /\ nvlPc[r] = "wait"
  /\ nvlSignal[r][Phase(status[r])] = Target(status[r])
  /\ nvlPc' = [nvlPc EXCEPT ![r] = "out"]
  /\ UNCHANGED <<counter, status, todo, nvlSignal>>

NVLStep(r) == NVLBegin(r) \/ (\E q \in Ranks : Add(r, q)) \/ Count(r) \/ Pass(r)

NVLNext == \E r \in Ranks : NVLStep(r)

NVLSpec == NVLInit /\ [][NVLNext]_nvlVars

-----------------------------------------------------------------------------
NVLEntered(r) == IF nvlPc[r] = "add" THEN counter[r] + 1 ELSE counter[r]
NVLLeft(r)    == IF nvlPc[r] = "wait" THEN counter[r] - 1 ELSE counter[r]

NVLB == INSTANCE Barrier WITH
  Members <- Ranks,
  Partners <- [r \in Ranks |-> Ranks],
  entered <- [r \in Ranks |-> NVLEntered(r)],
  left    <- [r \in Ranks |-> NVLLeft(r)]

\* The signal words implement the barrier among all ranks.
NVLImplementsBarrier == NVLB!Spec

-----------------------------------------------------------------------------
(* The inductive invariant: how a word's value tells who has added to it.  *)

\* How often rank q has changed a word of rank r so far, both words together.
Turns(q, r) == counter[q] + (IF nvlPc[q] = "add" /\ r \notin todo[q] THEN 1 ELSE 0)

\* Whether q's share of r's word p is 1: in four turns word 0 and word 1 go up and down.
Raised(q, r, p) == Turns(q, r) % 4 \in {1 + p, 2 + p}

NVLInv ==
  /\ NVLTypeOK
  /\ \A r \in Ranks : nvlPc[r] # "add" => todo[r] = {}
  /\ \A r \in Ranks : nvlPc[r] # "out" => NVLLeft(r) \in Nat /\ status[r] = NVLLeft(r) % 4
  /\ \A r \in Ranks : \A p \in Phases : nvlSignal[r][p] = Cardinality({q \in Ranks : Raised(q, r, p)})
  /\ \A r, q \in Ranks : NVLLeft(r) <= Turns(q, r)

=============================================================================
