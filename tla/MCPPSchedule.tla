---------------------------- MODULE MCPPSchedule ----------------------------
(* Instances of PPSchedule for TLC. *)
EXTENDS PPSchedule

BothWays == {<<0, 1>>, <<1, 0>>}
OneWayNvl == {<<0, 1>>}
Ring3Fwd == {<<0, 1>>, <<1, 2>>, <<2, 0>>}

AllRanks == [r \in Ranks |-> Ranks]

=============================================================================
