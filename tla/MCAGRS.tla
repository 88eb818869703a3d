------------------------------- MODULE MCAGRS -------------------------------
(* An instance of AGRS for TLC: two all-gathers, none, and one more.       *)
EXTENDS AGRS

TwoNoneOne == <<2, 0, 1>>

=============================================================================
