--------------------------- MODULE ScaleupBarrier ---------------------------
(***************************************************************************)
(* scaleup_barrier_wo_local_sync: the barrier of a scale-up domain.        *)
(*                                                                         *)
(* A domain that is one NVLink domain uses the signal words, any other the *)
(* Gin signals.  Which of the two is compiled in never changes.            *)
(***************************************************************************)
EXTENDS NVLBarrier, GinBarrier

VARIABLE isScaleupNVLink    \* kIsScaleupNVLink

vars == <<isScaleupNVLink, nvlVars, ginVars>>

TypeOK == NVLTypeOK /\ GinTypeOK /\ isScaleupNVLink \in BOOLEAN

Init == isScaleupNVLink \in BOOLEAN /\ NVLInit /\ GinInit

\* One step of the NVLink form, by rank r.
StepNVL(r) == isScaleupNVLink /\ NVLStep(r) /\ UNCHANGED <<isScaleupNVLink, ginVars>>

\* One step of the Gin form: of rank r, of its thread for rank q, or of the network.
StepGin(r)       == ~isScaleupNVLink /\ GinStep(r) /\ UNCHANGED <<isScaleupNVLink, nvlVars>>
ThreadGin(r, q)  == ~isScaleupNVLink /\ Thread(r, q) /\ UNCHANGED <<isScaleupNVLink, nvlVars>>
NetworkGin(r, q) == ~isScaleupNVLink /\ Network(r, q) /\ UNCHANGED <<isScaleupNVLink, nvlVars>>
PutGin(r, q)     == ~isScaleupNVLink /\ IssuePut(r, q) /\ UNCHANGED <<isScaleupNVLink, nvlVars>>

Next ==
  \/ \E r \in Ranks : StepNVL(r) \/ StepGin(r)
  \/ \E r, q \in Ranks : ThreadGin(r, q) \/ NetworkGin(r, q) \/ PutGin(r, q)

Spec == Init /\ [][Next]_vars

\* Every rank calls the barrier as often as the others, its kernel goes on and the
\* network delivers.
Fairness ==
  /\ \A r \in Ranks : WF_vars(StepNVL(r)) /\ WF_vars(StepGin(r))
  /\ \A r, q \in Ranks : WF_vars(ThreadGin(r, q)) /\ WF_vars(NetworkGin(r, q))

FairSpec == Spec /\ Fairness

-----------------------------------------------------------------------------
B == INSTANCE Barrier WITH
  Members <- Ranks,
  Partners <- [r \in Ranks |-> Ranks],
  entered <- [r \in Ranks |-> IF isScaleupNVLink THEN NVLEntered(r) ELSE GinEntered(r)],
  left    <- [r \in Ranks |-> IF isScaleupNVLink THEN NVLLeft(r) ELSE done[r]]

\* Signal words and Gin signals are a barrier among all ranks of the domain: no signal
\* is ever taken for one of another barrier, however far the ranks drift apart.
ImplementsBarrier == B!Spec

\* Every barrier begun comes to its end: no rank misses its target, although the word
\* it polls for EQUALITY is used again by the next barriers, and no signal is counted
\* against the wrong barrier.
InBarrier(r) == nvlPc[r] = "wait" \/ ginPc[r] # "out"
NobodyStuck == \A r \in Ranks : InBarrier(r) ~> ~InBarrier(r)

=============================================================================
