------------------------- MODULE MCLegacyIntranode -------------------------
(* An instance of LegacyIntranode for TLC: two ranks with two experts each. *)
EXTENDS LegacyIntranode, TLC

Config(channels, send, recv) == [channels |-> channels, send |-> send, recv |-> recv]
NoRows == [r \in Ranks |-> <<>>]
With(config, kind, of, rows, worst) ==
  config @@ [kind |-> kind, of |-> of, rows |-> rows, worst |-> worst]
Dispatch(config, rows, worst) == With(config, "dispatch", 0, rows, worst)
Cached(config, k)  == With(config, "cached", k, NoRows, 0)
Combine(config, k) == With(config, "combine", k, NoRows, 0)

\* More tokens than slots, one for both ranks and one for none, all of one rank.
RowsA == 0 :> <<{0, 2}, {1, 3}, {}, {2, 3}>> @@ 1 :> <<>>
\* Two channels, the second of them of different length.
RowsB == 0 :> <<{2}, {0, 3}, {3}>> @@ 1 :> <<>>
\* Chunks of two, the second of them half full.
RowsD == 0 :> <<{2}, {}, {3}, {2, 3}, {0}>> @@ 1 :> <<>>
\* Two tokens that cross.
RowsC == 0 :> <<{1, 2}>> @@ 1 :> <<{0, 1}>>
One == Config(1, 1, 2)
Two == Config(2, 1, 2)
Pair == Config(1, 2, 3)

\* A layer: the queues wrap around, and combine follows in the same memory.
Layer == <<Dispatch(One, RowsA, 0), Combine(One, 1)>>
Wide  == <<Dispatch(Two, RowsB, 0), Combine(Two, 1)>>
\* Forward and backward without CPU sync, combine twice by one handle.
Graph == <<Dispatch(One, RowsC, 2), Combine(One, 1), Cached(One, 1), Combine(One, 3)>>

Chunks == <<Dispatch(Pair, RowsD, 0), Combine(Pair, 1)>>

AllPrograms == {Chunks, Layer, Graph, Wide}
=============================================================================
