------------------------------ MODULE MCPPRing ------------------------------
(* Instances of PPRing for TLC: rank 1 has two senders.  The one that puts *)
(* sends more tensors than the ring has slots, the other is on NVLink.     *)
EXTENDS PPRing

OneWayNvl == {<<2, 1>>}
AllRanks  == [r \in Ranks |-> Ranks]

\* Tensors sent over each link.
Quota(l) == IF l = <<0, 1>> THEN 3 ELSE IF l = <<2, 1>> THEN 1 ELSE 0

OnTraffic ==
  \A r \in Ranks : /\ cur[r].kind = "send" => Sent(r, cur[r].peer) < Quota(<<r, cur[r].peer>>)
                   /\ cur[r].kind \in {"recv", "view"} => Quota(<<cur[r].peer, r>>) > 0

=============================================================================
