----------------------------- MODULE PPChannel -----------------------------
(***************************************************************************)
(* What pipeline-parallel send/recv promises on every directed link: a     *)
(* FIFO channel of bounded capacity whose messages stay readable, in       *)
(* place, from the moment they are sent until the receiver frees them.     *)
(***************************************************************************)
EXTENDS Naturals, Sequences


CONSTANTS Links,     \* directed links
          Capacity,  \* messages sent and not freed, at most
          Message(_, _)  \* Message(l, n): the n-th message of link l

VARIABLES sent,      \* messages sent so far
          chan,      \* messages sent and not freed, oldest first
          taken      \* how many of chan the receiver was handed

vars == <<sent, chan, taken>>

Init ==
  /\ sent = [l \in Links |-> 0]
  /\ chan = [l \in Links |-> <<>>]
  /\ taken = [l \in Links |-> 0]

Send(l) ==
  /\ Len(chan[l]) < Capacity
  /\ chan' = [chan EXCEPT ![l] = Append(@, Message(l, sent[l] + 1))]
  /\ sent' = [sent EXCEPT ![l] = @ + 1]
  /\ UNCHANGED taken

\* The receiver is handed the next message and keeps it.
Take(l) ==
  /\ taken[l] < Len(chan[l])
  /\ taken' = [taken EXCEPT ![l] = @ + 1]
  /\ UNCHANGED <<sent, chan>>

\* The receiver frees the oldest message it was handed.
Free(l) ==
  /\ taken[l] > 0
  /\ taken' = [taken EXCEPT ![l] = @ - 1]
  /\ chan' = [chan EXCEPT ![l] = Tail(@)]
  /\ UNCHANGED sent

\* The receiver copies the next message and frees it at once.
TakeAndFree(l) ==
  /\ taken[l] = 0
  /\ chan[l] # <<>>
  /\ chan' = [chan EXCEPT ![l] = Tail(@)]
  /\ UNCHANGED <<sent, taken>>

Next == \E l \in Links : Send(l) \/ Take(l) \/ Free(l) \/ TakeAndFree(l)

Spec == Init /\ [][Next]_vars

=============================================================================
