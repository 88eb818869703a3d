------------------------- MODULE MCLegacyLowLatency -------------------------
(* Instances of LegacyLowLatency for TLC. *)
EXTENDS LegacyLowLatency, TLC

Dispatch(rows) == [kind |-> "dispatch", rows |-> rows, of |-> 0]
Combine(k) == [kind |-> "combine", rows |-> <<>>, of |-> k]
Clean == [kind |-> "clean", rows |-> <<>>, of |-> 0]

\* Two ranks with an expert each: tokens for both, for one, and for none.
RowsA == 0 :> <<{0, 1}, {1}>> @@ 1 :> <<{}>>
RowsB == 0 :> <<{1}>> @@ 1 :> <<{0}, {0, 1}>>
\* Two experts each.
RowsC == 0 :> <<{1, 2}>> @@ 1 :> <<{0, 2}>>
\* Three ranks.
RowsD == 0 :> <<{2}>> @@ 1 :> <<>> @@ 2 :> <<>>

Plain == [ranks |-> 2, local |-> 1, max |-> 2, shrink |-> FALSE, dirty |-> FALSE, mayFail |-> {}]
\* Two layers, and two dispatches before their combines.
Layers   == Plain @@ [calls |-> <<Dispatch(RowsA), Combine(1), Dispatch(RowsB), Combine(3)>>]
Overlaid == Plain @@ [calls |-> <<Dispatch(RowsA), Dispatch(RowsB), Combine(1), Combine(2)>>]
\* After normal-mode kernels the words have to be cleaned.
Cleaned == [Plain EXCEPT !.dirty = TRUE] @@ [calls |-> <<Clean, Dispatch(RowsB), Combine(2)>>]
\* Two experts per rank, one rank fails.
Halves == [Plain EXCEPT !.local = 2, !.max = 1, !.shrink = TRUE, !.mayFail = {1}]
            @@ [calls |-> <<Dispatch(RowsC), Combine(1)>>]
\* One of three ranks fails.
Three == [Plain EXCEPT !.ranks = 3, !.max = 1, !.shrink = TRUE, !.mayFail = {2}]
           @@ [calls |-> <<Dispatch(RowsD), Combine(1)>>]

\* The cleaning kernel's own barrier (not one of AllSetups: CallsEnd fails, see README, Findings).
ShrunkCleaned == [Plain EXCEPT !.shrink = TRUE] @@ [calls |-> <<Clean, Dispatch(RowsB)>>]
JustShrunk == {ShrunkCleaned}

AllSetups == {Layers, Overlaid, Cleaned, Halves, Three}
=============================================================================
