----------------------------- MODULE MCEPDirect -----------------------------
(* An instance of EPDirect for TLC: two ranks with two experts each.       *)
EXTENDS EPDirect, TLC

\* Two routings: tokens for both ranks, twice for one rank, for one and for none.
RowsA == 0 :> << <<0, 2>>, <<2, 3>> >> @@ 1 :> << <<1, -1>> >>
RowsB == 0 :> << <<-1, 3>> >> @@ 1 :> << <<2, 1>>, <<-1, -1>> >>

Dispatch(rows, sync, expand) ==
  [kind |-> "dispatch", of |-> 0, rows |-> rows, sync |-> sync, expand |-> expand]
Cached(k)  == [kind |-> "cached", of |-> k, rows |-> [r \in Ranks |-> <<>>], sync |-> FALSE, expand |-> FALSE]
Combine(k) == [kind |-> "combine", of |-> k, rows |-> [r \in Ranks |-> <<>>], sync |-> FALSE, expand |-> FALSE]

\* Forward and backward of a layer; two layers, the first with expanded tensors, every
\* expert's part sent by itself; and a deterministic layer with expanded tensors, reduced
\* before they are sent.
Training  == <<Dispatch(RowsA, TRUE, FALSE), Combine(1), Cached(1), Combine(3)>>
TwoLayers == <<Dispatch(RowsB, FALSE, TRUE), Dispatch(RowsA, TRUE, FALSE), Combine(2), Combine(1)>>
Deterministic == <<Dispatch(RowsA, TRUE, TRUE), Combine(1)>>

AllSetups ==
  {[deterministic |-> FALSE, multiple |-> TRUE, prog |-> Training],
   [deterministic |-> FALSE, multiple |-> FALSE, prog |-> TwoLayers],
   [deterministic |-> TRUE, multiple |-> TRUE, prog |-> Deterministic]}

=============================================================================
