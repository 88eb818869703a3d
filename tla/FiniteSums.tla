----------------------------- MODULE FiniteSums -----------------------------
(* Sums over finite sets, for counts and prefix sums.                      *)
EXTENDS Integers, FiniteSets, FiniteSetsExt

Sum(f, S) == MapThenSumSet(LAMBDA i : f[i], S)

=============================================================================
