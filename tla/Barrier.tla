------------------------------ MODULE Barrier ------------------------------
(***************************************************************************)
(* What a barrier promises, used again and again: a rank leaves its k-th   *)
(* barrier only after every one of its partners has entered its k-th.      *)
(***************************************************************************)
EXTENDS Naturals

CONSTANTS Members,        \* the ranks that call the barrier
          Partners        \* per rank: whom it synchronises with

VARIABLES entered, left   \* per rank: barriers entered and left so far

vars == <<entered, left>>

Init == entered = [r \in Members |-> 0] /\ left = [r \in Members |-> 0]

Enter(r) ==
  /\ entered[r] = left[r]
  /\ entered' = [entered EXCEPT ![r] = @ + 1]
  /\ UNCHANGED left

Leave(r) ==
  /\ left[r] < entered[r]
  /\ \A q \in Partners[r] : entered[q] >= entered[r]
  /\ left' = [left EXCEPT ![r] = @ + 1]
  /\ UNCHANGED entered

Next == \E r \in Members : Enter(r) \/ Leave(r)

Spec == Init /\ [][Next]_vars

=============================================================================
