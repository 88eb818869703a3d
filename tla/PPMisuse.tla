------------------------------ MODULE PPMisuse ------------------------------
(***************************************************************************)
(* Callers outside the conditions of PPRing!Next that the interface does   *)
(* not rule out: a copying receive while a view of the same link is held,  *)
(* and a second pp_set_config once the ring is empty again.                *)
(***************************************************************************)
EXTENDS PPRing

\* pp_recv takes the next message while an earlier one is still held as a view.
RecvWhileHolding ==
  \E r \in Ranks : \E src \in Neighbours(r) : ~NoViewHeld(r, src) /\ LaunchRecv(r, src)

MixedSpec == Init /\ [][Next \/ RecvWhileHolding]_vars

\* Every message was received and given back, and its sender knows.
RingEmpty ==
  \A src \in Ranks : \A dst \in Neighbours(src) :
    /\ Taken(src, dst) = Sent(src, dst)
    /\ FreeSig(src, dst) = Sent(src, dst)

ConfigureAgain == RingEmpty /\ \E r \in Ranks : EnterSetConfig(r)

ReconfigureSpec == Init /\ [][Next \/ ConfigureAgain]_vars

=============================================================================
