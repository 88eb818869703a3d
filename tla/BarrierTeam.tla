---------------------------- MODULE BarrierTeam ----------------------------
(* The ranks that go through a barrier together, common to its two forms. *)
EXTENDS Integers

CONSTANTS NumRanks,      \* kNumRanks
          MaxBarriers    \* bound: barriers every rank goes through

ASSUME NumRanksAssumption    == NumRanks \in Nat /\ NumRanks >= 1
ASSUME MaxBarriersAssumption == MaxBarriers \in Nat

Ranks == 0 .. NumRanks - 1

=============================================================================
