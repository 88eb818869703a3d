----------------------------- MODULE GpuBarrier -----------------------------
(***************************************************************************)
(* gpu_barrier on a grid of ranks, as the barrier kernel calls it.         *)
(*                                                                         *)
(* Rank r sits in node r \div NumScaleup at place r % NumScaleup.  If both *)
(* dimensions have more than one rank, the first SM runs the barrier of    *)
(* the node while the other runs that of the rail (the ranks at the same   *)
(* place of every node), in parallel: neither waits for the other before   *)
(* it starts.  Both are Barrier by NVLBarrier and GinBarrier.              *)
(***************************************************************************)
EXTENDS Integers

CONSTANTS NumScaleout,   \* kNumScaleoutRanks: nodes
          NumScaleup,    \* kNumScaleupRanks: ranks per node
          MaxBarriers    \* bound: barriers every rank goes through

ASSUME GridAssumption        == /\ NumScaleout \in Nat /\ NumScaleout >= 1
                                /\ NumScaleup \in Nat /\ NumScaleup >= 1
ASSUME MaxBarriersAssumption == MaxBarriers \in Nat

Ranks == 0 .. NumScaleout * NumScaleup - 1
ScaleoutIdx(r) == r \div NumScaleup
ScaleupIdx(r)  == r % NumScaleup
Node(r) == {q \in Ranks : ScaleoutIdx(q) = ScaleoutIdx(r)}
Rail(r) == {q \in Ranks : ScaleupIdx(q) = ScaleupIdx(r)}

DoScaleout == NumScaleout > 1
DoScaleup  == NumScaleup > 1

VARIABLES
  calls,                  \* barrier kernels started by each rank
  done,                   \* barrier kernels finished
  upEntered, upLeft,      \* the node barriers of the first SM
  outEntered, outLeft     \* the rail barriers of the second SM

upVars  == <<upEntered, upLeft>>
outVars == <<outEntered, outLeft>>
barrierVars == <<calls, done, upEntered, upLeft, outEntered, outLeft>>

Up  == INSTANCE Barrier WITH Members <- Ranks, Partners <- [r \in Ranks |-> Node(r)],
                             entered <- upEntered, left <- upLeft
Out == INSTANCE Barrier WITH Members <- Ranks, Partners <- [r \in Ranks |-> Rail(r)],
                             entered <- outEntered, left <- outLeft

BarrierTypeOK ==
  \A counts \in {calls, done, upEntered, upLeft, outEntered, outLeft} : counts \in [Ranks -> Nat]

BarrierInit ==
  /\ calls = [r \in Ranks |-> 0]
  /\ done = [r \in Ranks |-> 0]
  /\ Up!Init
  /\ Out!Init

\* The kernel starts.
Launch(r) ==
  /\ calls[r] = done[r]
  /\ calls[r] < MaxBarriers
  /\ calls' = [calls EXCEPT ![r] = @ + 1]
  /\ UNCHANGED <<done, upVars, outVars>>

ScaleupBarrier(r) ==
  /\ DoScaleup
  /\ \/ upEntered[r] < calls[r] /\ Up!Enter(r)
     \/ Up!Leave(r)
  /\ UNCHANGED <<calls, done, outVars>>

\* Faulty variant: only the first rank of a node takes part.
ScaleoutLeadersOnly(r) ==
  /\ DoScaleout
  /\ \/ ScaleupIdx(r) = 0 /\ outEntered[r] < calls[r] /\ Out!Enter(r)
     \/ Out!Leave(r)
  /\ UNCHANGED <<calls, done, upVars>>

ScaleoutBarrier(r) ==
  /\ DoScaleout
  /\ \/ outEntered[r] < calls[r] /\ Out!Enter(r)
     \/ Out!Leave(r)
  /\ UNCHANGED <<calls, done, upVars>>

\* Faulty variants: one SM of the two suffices, or the first one alone.
CompleteEither(r) ==
  /\ done[r] < calls[r]
  /\ upLeft[r] = calls[r] \/ outLeft[r] = calls[r]
  /\ done' = [done EXCEPT ![r] = @ + 1]
  /\ UNCHANGED <<calls, upVars, outVars>>
CompleteFirst(r) ==
  /\ done[r] < calls[r]
  /\ DoScaleup => upLeft[r] = calls[r]
  /\ done' = [done EXCEPT ![r] = @ + 1]
  /\ UNCHANGED <<calls, upVars, outVars>>

\* Both SMs are through: the kernel is complete.
Complete(r) ==
  /\ done[r] < calls[r]
  /\ DoScaleup => upLeft[r] = calls[r]
  /\ DoScaleout => outLeft[r] = calls[r]
  /\ done' = [done EXCEPT ![r] = @ + 1]
  /\ UNCHANGED <<calls, upVars, outVars>>

KernelStep(r) == ScaleupBarrier(r) \/ ScaleoutBarrier(r) \/ Complete(r)

BarrierNext == \E r \in Ranks : Launch(r) \/ KernelStep(r)

BarrierSpec == BarrierInit /\ [][BarrierNext]_barrierVars

-----------------------------------------------------------------------------
\* The ranks a rank shares its node or its rail with.
Linked(r) == Node(r) \cup Rail(r)

B == INSTANCE Barrier WITH
  Members <- Ranks,
  Partners <- [r \in Ranks |-> Linked(r)],
  entered <- calls,
  left <- done

\* The two barriers in parallel make a barrier of every rank with its node and its rail.
ImplementsPartnerBarrier == B!Spec

\* One barrier later the synchronisation has reached the whole grid: a rank leaves a
\* barrier only after every rank, on whatever node and rail, has entered the one before.
TwoBarriersReachAll == \A r, q \in Ranks : done[r] <= calls[q] + 1

-----------------------------------------------------------------------------
(* The inductive invariant. *)
BarrierIInv ==
  /\ BarrierTypeOK
  /\ \A r \in Ranks : /\ done[r] <= calls[r] /\ calls[r] <= done[r] + 1
                      /\ DoScaleup => upLeft[r] <= upEntered[r] /\ upEntered[r] <= calls[r]
                      /\ DoScaleup => done[r] <= upLeft[r]
                      /\ DoScaleout => outLeft[r] <= outEntered[r] /\ outEntered[r] <= calls[r]
                      /\ DoScaleout => done[r] <= outLeft[r]
  /\ \A r \in Ranks : \A q \in Node(r) : DoScaleup => upLeft[r] <= upEntered[q]
  /\ \A r \in Ranks : \A q \in Rail(r) : DoScaleout => outLeft[r] <= outEntered[q]

=============================================================================
