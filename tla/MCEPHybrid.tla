----------------------------- MODULE MCEPHybrid -----------------------------
(* Instances of EPHybrid for TLC: grids of two to four ranks with two experts each. *)
EXTENDS EPHybrid

Dispatch(rows, expand) == [kind |-> "dispatch", of |-> 0, rows |-> rows, expand |-> expand]
Cached(k)  == [kind |-> "cached", of |-> k, rows |-> <<>>, expand |-> FALSE]
Combine(k) == [kind |-> "combine", of |-> k, rows |-> <<>>, expand |-> FALSE]

\* The grid of two nodes with two places: experts 0 .. 3 are on node 0, 4 .. 7 on node 1.
\* Tokens for both nodes, both places of one, two experts of one rank, and one of its own.
Square == 0 :> << <<0, 6>>, <<4, 7>>, <<5, 4>> >> @@ 1 :> << <<2, 1>> >> @@ 2 :> <<>> @@ 3 :> << <<-1, 3>> >>
Few    == 0 :> << <<2, 7>> >> @@ 1 :> <<>> @@ 2 :> << <<0, 4>> >> @@ 3 :> << <<-1, 0>> >>

\* The rail alone: two nodes with one place, two channels.
Line == 0 :> << <<0, 2>>, <<2, 3>>, <<1, 0>> >> @@ 1 :> << <<3, 1>> >>

Setup(places, channels, multiple, prog) ==
  [nodes |-> 2, places |-> places, channels |-> channels, multiple |-> multiple, prog |-> prog]

\* A layer whose parts are added up in every rank and node; an expanded layer that is combined
\* after another dispatch, nothing added up; forward and backward on the rail.
Reducing == Setup(2, 1, TRUE, <<Dispatch(Square, FALSE), Combine(1)>>)
Expanding == Setup(2, 1, FALSE, <<Dispatch(Few, TRUE), Dispatch(Few, FALSE), Combine(1)>>)
Training == Setup(1, 2, FALSE, <<Dispatch(Line, FALSE), Combine(1), Cached(1), Combine(3)>>)
AllSetups == {Reducing, Expanding, Training}

=============================================================================
