----------------------------- MODULE MCPPMisuse -----------------------------
(* Instances of PPMisuse for TLC. *)
EXTENDS PPMisuse

OneWayNvl == {<<0, 1>>}

AllRanks == [r \in Ranks |-> Ranks]

=============================================================================
