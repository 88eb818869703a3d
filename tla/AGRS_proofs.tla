----------------------------- MODULE AGRS_proofs -----------------------------
(***************************************************************************)
(* The inductive invariant of the all-gather sessions, and what follows    *)
(* from it.  Events are numbers of operations, so the proofs speak of the  *)
(* operations on a stream by their numbers and leave sequences behind      *)
(* after the first part.                                                   *)
(***************************************************************************)
EXTENDS AGRS, SequenceTheorems, TLAPS

-----------------------------------------------------------------------------
(* The two streams by the numbers of their operations. *)

\* An operation on the communication stream has a number above those of the finished ones;
\* the head of the stream is the operation with the first such number.
LEMMA CommNumbers ==
  ASSUME TypeOK, NEW r \in Ranks
  PROVE  /\ CommHead(r) \in Nat /\ CommEvent(r) \in Nat /\ commEnded[r] \in Nat
         /\ CommHead(r) = commEnded[r] + 1
         /\ \A n : n \in CommNums(r) <=> n \in Nat /\ CommHead(r) <= n /\ n <= CommEvent(r)
         /\ \A n \in CommNums(r) : CommOp(r, n) \in CommOps
         /\ comm[r] # <<>> <=> CommHead(r) \in CommNums(r)
         /\ comm[r] # <<>> <=> CommNums(r) # {}
         /\ Head(comm[r]) = CommOp(r, CommHead(r))
<1>1. /\ commEnded[r] \in Nat /\ comm[r] \in Seq(CommOps) /\ Len(comm[r]) \in Nat
      /\ comm[r] # <<>> <=> Len(comm[r]) > 0
  BY DEF TypeOK
<1>2. \A n : n \in CommNums(r) <=> n \in Nat /\ CommHead(r) <= n /\ n <= CommEvent(r)
  BY <1>1 DEF CommNums, CommHead, CommEvent
<1>3. ASSUME NEW n \in CommNums(r) PROVE CommOp(r, n) \in CommOps
  <2>1. n - commEnded[r] \in 1 .. Len(comm[r])
    BY <1>1, <1>3 DEF CommNums, CommEvent
  <2> QED BY <2>1, <1>1 DEF CommOp
<1>4. Head(comm[r]) = CommOp(r, CommHead(r))
  <2>1. CommHead(r) - commEnded[r] = 1
    BY <1>1 DEF CommHead
  <2> QED BY <2>1, <1>1 DEF CommOp
<1>5. comm[r] # <<>> <=> CommHead(r) \in CommNums(r)
  BY <1>1 DEF CommNums, CommHead, CommEvent
<1>6. comm[r] # <<>> <=> CommNums(r) # {}
  BY <1>1, <1>2, <1>5 DEF CommHead, CommEvent
<1>7. /\ CommHead(r) \in Nat /\ CommEvent(r) \in Nat /\ CommHead(r) = commEnded[r] + 1
  BY <1>1 DEF CommHead, CommEvent
<1> QED BY <1>1, <1>2, <1>3, <1>4, <1>5, <1>6, <1>7

\* The same of the compute stream.
LEMMA ComputeNumbers ==
  ASSUME TypeOK, NEW r \in Ranks
  PROVE  /\ ComputeEvent(r) \in Nat /\ computeEnded[r] \in Nat
         /\ \A n : n \in ComputeNums(r)
                     <=> n \in Nat /\ computeEnded[r] < n /\ n <= ComputeEvent(r)
         /\ \A n \in ComputeNums(r) : ComputeOp(r, n) \in ComputeOps
         /\ compute[r] # <<>> <=> computeEnded[r] + 1 \in ComputeNums(r)
         /\ Head(compute[r]) = ComputeOp(r, computeEnded[r] + 1)
<1>1. /\ computeEnded[r] \in Nat /\ compute[r] \in Seq(ComputeOps) /\ Len(compute[r]) \in Nat
      /\ compute[r] # <<>> <=> Len(compute[r]) > 0
  BY DEF TypeOK
<1>2. \A n : n \in ComputeNums(r)
               <=> n \in Nat /\ computeEnded[r] < n /\ n <= ComputeEvent(r)
  BY <1>1 DEF ComputeNums, ComputeEvent
<1>3. ASSUME NEW n \in ComputeNums(r) PROVE ComputeOp(r, n) \in ComputeOps
  <2>1. n - computeEnded[r] \in 1 .. Len(compute[r])
    BY <1>1, <1>3 DEF ComputeNums, ComputeEvent
  <2> QED BY <2>1, <1>1 DEF ComputeOp
<1>4. Head(compute[r]) = ComputeOp(r, computeEnded[r] + 1)
  <2>1. (computeEnded[r] + 1) - computeEnded[r] = 1
    BY <1>1
  <2> QED BY <2>1, <1>1 DEF ComputeOp
<1>5. compute[r] # <<>> <=> computeEnded[r] + 1 \in ComputeNums(r)
  BY <1>1 DEF ComputeNums, ComputeEvent
<1>6. ComputeEvent(r) \in Nat
  BY <1>1 DEF ComputeEvent
<1> QED BY <1>1, <1>2, <1>3, <1>4, <1>5, <1>6

\* What is enqueued gets the next number, and all other operations keep theirs.
CommGets(r, op) ==
  /\ CommHead(r)' = CommHead(r) /\ commEnded'[r] = commEnded[r]
  /\ CommNums(r)' = CommNums(r) \cup {CommEvent(r) + 1}
  /\ \A n \in CommNums(r) : CommOp(r, n)' = CommOp(r, n)
  /\ \A n : n = CommEvent(r) + 1 => CommOp(r, n)' = op

LEMMA CommEnqueued ==
  ASSUME TypeOK, NEW r \in Ranks, NEW op \in CommOps,
         comm' = [comm EXCEPT ![r] = Append(@, op)], commEnded' = commEnded
  PROVE  CommGets(r, op)
<1>1. /\ commEnded[r] \in Nat /\ comm[r] \in Seq(CommOps) /\ Len(comm[r]) \in Nat
      /\ comm'[r] = Append(comm[r], op) /\ commEnded'[r] = commEnded[r]
  BY DEF TypeOK
<1>2. /\ Len(comm'[r]) = Len(comm[r]) + 1
      /\ \A i \in 1 .. Len(comm[r]) : comm'[r][i] = comm[r][i]
      /\ comm'[r][Len(comm[r]) + 1] = op
  BY <1>1, AppendProperties
<1>3. CommNums(r)' = CommNums(r) \cup {CommEvent(r) + 1}
  <2>1. CommEvent(r)' = CommEvent(r) + 1 /\ CommEvent(r) \in Nat /\ commEnded[r] <= CommEvent(r)
    <3>1. /\ commEnded'[r] = commEnded[r] /\ Len(comm'[r]) = Len(comm[r]) + 1
          /\ commEnded[r] \in Nat /\ Len(comm[r]) \in Nat
      BY <1>1, <1>2
    <3> QED BY ONLY <3>1 DEF CommEvent
  <2> QED BY <1>1, <2>1 DEF CommNums
<1>4. ASSUME NEW n \in CommNums(r) PROVE CommOp(r, n)' = CommOp(r, n)
  <2>1. n - commEnded[r] \in 1 .. Len(comm[r])
    BY <1>1, <1>4 DEF CommNums, CommEvent
  <2> QED BY <2>1, <1>2 DEF CommOp
<1>5. ASSUME NEW n, n = CommEvent(r) + 1 PROVE CommOp(r, n)' = op
  <2>1. n - commEnded[r] = Len(comm[r]) + 1
    BY <1>1, <1>5 DEF CommEvent
  <2> QED BY <2>1, <1>2 DEF CommOp
<1>6. CommHead(r)' = CommHead(r)
  BY <1>1 DEF CommHead
<1> QED BY <1>1, <1>3, <1>4, <1>5, <1>6 DEF CommGets

ComputeGets(r, op) ==
  /\ ComputeNums(r)' = ComputeNums(r) \cup {ComputeEvent(r) + 1}
  /\ \A n \in ComputeNums(r) : ComputeOp(r, n)' = ComputeOp(r, n)
  /\ \A n : n = ComputeEvent(r) + 1 => ComputeOp(r, n)' = op

LEMMA ComputeEnqueued ==
  ASSUME TypeOK, NEW r \in Ranks, NEW op \in ComputeOps,
         compute' = [compute EXCEPT ![r] = Append(@, op)], computeEnded' = computeEnded
  PROVE  ComputeGets(r, op) /\ ComputeEvent(r)' = ComputeEvent(r) + 1
<1>1. /\ computeEnded[r] \in Nat /\ compute[r] \in Seq(ComputeOps) /\ Len(compute[r]) \in Nat
      /\ compute'[r] = Append(compute[r], op) /\ computeEnded'[r] = computeEnded[r]
  BY DEF TypeOK
<1>2. /\ Len(compute'[r]) = Len(compute[r]) + 1
      /\ \A i \in 1 .. Len(compute[r]) : compute'[r][i] = compute[r][i]
      /\ compute'[r][Len(compute[r]) + 1] = op
  BY <1>1, AppendProperties
<1>3. /\ ComputeNums(r)' = ComputeNums(r) \cup {ComputeEvent(r) + 1}
      /\ ComputeEvent(r)' = ComputeEvent(r) + 1
  <2>1. /\ ComputeEvent(r)' = ComputeEvent(r) + 1 /\ ComputeEvent(r) \in Nat
        /\ computeEnded[r] <= ComputeEvent(r)
    <3>1. /\ computeEnded'[r] = computeEnded[r] /\ Len(compute'[r]) = Len(compute[r]) + 1
          /\ computeEnded[r] \in Nat /\ Len(compute[r]) \in Nat
      BY <1>1, <1>2
    <3> QED BY ONLY <3>1 DEF ComputeEvent
  <2> QED BY <1>1, <2>1 DEF ComputeNums
<1>4. ASSUME NEW n \in ComputeNums(r) PROVE ComputeOp(r, n)' = ComputeOp(r, n)
  <2>1. n - computeEnded[r] \in 1 .. Len(compute[r])
    BY <1>1, <1>4 DEF ComputeNums, ComputeEvent
  <2> QED BY <2>1, <1>2 DEF ComputeOp
<1>5. ASSUME NEW n, n = ComputeEvent(r) + 1 PROVE ComputeOp(r, n)' = op
  <2>1. n - computeEnded[r] = Len(compute[r]) + 1
    BY <1>1, <1>5 DEF ComputeEvent
  <2> QED BY <2>1, <1>2 DEF ComputeOp
<1> QED BY <1>3, <1>4, <1>5 DEF ComputeGets

\* The end of an operation takes the first number off its stream.
CommDrops(r) ==
  /\ CommHead(r)' = CommHead(r) + 1 /\ commEnded'[r] = commEnded[r] + 1
  /\ CommNums(r)' = CommNums(r) \ {CommHead(r)}
  /\ \A n \in CommNums(r)' : CommOp(r, n)' = CommOp(r, n)

LEMMA CommDequeued ==
  ASSUME TypeOK, NEW r \in Ranks, comm[r] # <<>>,
         comm' = [comm EXCEPT ![r] = Tail(@)], commEnded' = [commEnded EXCEPT ![r] = @ + 1]
  PROVE  CommDrops(r)
<1>1. /\ commEnded[r] \in Nat /\ comm[r] \in Seq(CommOps)
      /\ Len(comm[r]) \in Nat /\ Len(comm[r]) > 0
      /\ comm'[r] = Tail(comm[r]) /\ commEnded'[r] = commEnded[r] + 1
  BY DEF TypeOK
<1>2. /\ Len(comm'[r]) = Len(comm[r]) - 1
      /\ \A i \in 1 .. Len(comm[r]) - 1 : comm'[r][i] = comm[r][i + 1]
  <2>1. comm[r] \in Seq(CommOps) /\ comm[r] # <<>>
    BY <1>1
  <2>2. /\ Len(Tail(comm[r])) = Len(comm[r]) - 1
        /\ \A i \in 1 .. Len(Tail(comm[r])) : Tail(comm[r])[i] = comm[r][i + 1]
    BY ONLY <2>1, HeadTailProperties
  <2> QED BY <1>1, <2>2
<1>3. CommNums(r)' = CommNums(r) \ {CommHead(r)}
  BY <1>1, <1>2 DEF CommNums, CommEvent, CommHead
<1>4. ASSUME NEW n \in CommNums(r)' PROVE CommOp(r, n)' = CommOp(r, n)
  <2>1. n - (commEnded[r] + 1) \in 1 .. Len(comm[r]) - 1
    BY <1>1, <1>2, <1>4 DEF CommNums, CommEvent
  <2>2. comm'[r][n - (commEnded[r] + 1)] = comm[r][(n - (commEnded[r] + 1)) + 1]
    BY <2>1, <1>2
  <2>3. (n - (commEnded[r] + 1)) + 1 = n - commEnded[r]
    BY <2>1, <1>1, <1>2, <1>4 DEF CommNums, CommEvent
  <2> QED BY <2>2, <2>3, <1>1 DEF CommOp
<1>5. CommHead(r)' = CommHead(r) + 1
  BY <1>1 DEF CommHead
<1> QED BY <1>1, <1>3, <1>4, <1>5 DEF CommDrops

ComputeDrops(r) ==
  /\ ComputeEvent(r)' = ComputeEvent(r)
  /\ computeEnded'[r] = computeEnded[r] + 1
  /\ ComputeNums(r)' = ComputeNums(r) \ {computeEnded[r] + 1}
  /\ \A n \in ComputeNums(r)' : ComputeOp(r, n)' = ComputeOp(r, n)

LEMMA ComputeDequeued ==
  ASSUME TypeOK, NEW r \in Ranks, compute[r] # <<>>,
         compute' = [compute EXCEPT ![r] = Tail(@)],
         computeEnded' = [computeEnded EXCEPT ![r] = @ + 1]
  PROVE  ComputeDrops(r)
<1>1. /\ computeEnded[r] \in Nat /\ compute[r] \in Seq(ComputeOps)
      /\ Len(compute[r]) \in Nat /\ Len(compute[r]) > 0
      /\ compute'[r] = Tail(compute[r]) /\ computeEnded'[r] = computeEnded[r] + 1
  BY DEF TypeOK
<1>2. /\ Len(compute'[r]) = Len(compute[r]) - 1
      /\ \A i \in 1 .. Len(compute[r]) - 1 : compute'[r][i] = compute[r][i + 1]
  <2>1. compute[r] \in Seq(ComputeOps) /\ compute[r] # <<>>
    BY <1>1
  <2>2. /\ Len(Tail(compute[r])) = Len(compute[r]) - 1
        /\ \A i \in 1 .. Len(Tail(compute[r])) : Tail(compute[r])[i] = compute[r][i + 1]
    BY ONLY <2>1, HeadTailProperties
  <2> QED BY <1>1, <2>2
<1>3. /\ ComputeNums(r)' = ComputeNums(r) \ {computeEnded[r] + 1}
      /\ ComputeEvent(r)' = ComputeEvent(r)
  <2>1. ComputeEvent(r)' = ComputeEvent(r) /\ ComputeEvent(r) \in Nat
    BY <1>1, <1>2 DEF ComputeEvent
  <2> QED BY <1>1, <2>1 DEF ComputeNums
<1>4. ASSUME NEW n \in ComputeNums(r)' PROVE ComputeOp(r, n)' = ComputeOp(r, n)
  <2>1. n - (computeEnded[r] + 1) \in 1 .. Len(compute[r]) - 1
    BY <1>1, <1>2, <1>4 DEF ComputeNums, ComputeEvent
  <2>2. compute'[r][n - (computeEnded[r] + 1)] = compute[r][(n - (computeEnded[r] + 1)) + 1]
    BY <2>1, <1>2
  <2>3. (n - (computeEnded[r] + 1)) + 1 = n - computeEnded[r]
    BY <2>1, <1>1, <1>2, <1>4 DEF ComputeNums, ComputeEvent
  <2> QED BY <2>2, <2>3, <1>1 DEF ComputeOp
<1> QED BY <1>1, <1>3, <1>4 DEF ComputeDrops

-----------------------------------------------------------------------------
(* What the invariant says of one state. *)

LEMMA RowFacts ==
  /\ Slots \subseteq Rows /\ Rows \subseteq Nat
  /\ SessionRow \in Rows /\ SessionRow \notin Slots
  /\ \A w \in Rows : w <= SessionRow /\ (w \in Slots <=> w < SessionRow)
  /\ \A w \in Rows : w \notin Slots => w = SessionRow
BY PerSessionAssumption DEF Rows, Slots, SessionRow

LEMMA CommFields ==
  ASSUME TypeOK, NEW r \in Ranks, NEW n \in CommNums(r)
  PROVE  /\ CommOp(r, n).session \in Nat /\ CommOp(r, n).row \in Rows
         /\ CommOp(r, n).row \in Nat /\ CommOp(r, n).after \in Nat
         /\ CommOp(r, n).inplace \in BOOLEAN
         /\ CommOp(r, n).kind \in {"gather", "destroy"}
<1>1. CommOp(r, n) \in CommOps
  BY CommNumbers
<1> QED BY <1>1, RowFacts DEF CommOps

LEMMA ComputeFields ==
  ASSUME TypeOK, NEW r \in Ranks, NEW n \in ComputeNums(r)
  PROVE  /\ ComputeOp(r, n).session \in Nat /\ ComputeOp(r, n).slot \in Slots
         /\ ComputeOp(r, n).slot \in Nat /\ ComputeOp(r, n).after \in Nat
         /\ ComputeOp(r, n).kind \in {"fill", "use"}
<1>1. ComputeOp(r, n) \in ComputeOps
  BY ComputeNumbers
<1> QED BY <1>1, RowFacts DEF ComputeOps

LEMMA HostTypes ==
  ASSUME TypeOK, NEW r \in Ranks
  PROVE  /\ inSession[r] \in BOOLEAN /\ sessionIdx[r] \in Nat /\ slotIdx[r] \in Nat
         /\ inplace[r] \in BOOLEAN
         /\ \A h \in handles[r] : h \in [slot : Slots, at : Nat]
         /\ copied[r] \subseteq Ranks /\ told[r] \subseteq Ranks
BY DEF TypeOK

LEMMA WordTypes ==
  ASSUME TypeOK
  PROVE  \A q, p \in Ranks : \A w \in Rows : sig[q][w][p] \in Nat
BY DEF TypeOK

\* The head's place in the order of its stream.
LEMMA HeadFirst ==
  ASSUME TypeOK, NEW r \in Ranks, CommInv(r), NEW n \in CommNums(r)
  PROVE  /\ CommHead(r) \in CommNums(r)
         /\ n # CommHead(r) =>
              Before(CommOp(r, CommHead(r)).session, CommOp(r, CommHead(r)).row,
                     CommOp(r, n).session, CommOp(r, n).row)
         /\ CommOp(r, CommHead(r)).session <= CommOp(r, n).session
<1>1. CommHead(r) \in CommNums(r) /\ CommHead(r) \in Nat /\ n \in Nat /\ CommHead(r) <= n
  BY CommNumbers
<1>2. ASSUME n # CommHead(r)
      PROVE  Before(CommOp(r, CommHead(r)).session, CommOp(r, CommHead(r)).row,
                    CommOp(r, n).session, CommOp(r, n).row)
  BY <1>1, <1>2 DEF CommInv
<1>3. CommOp(r, CommHead(r)).session \in Nat /\ CommOp(r, n).session \in Nat
  BY <1>1, CommFields
<1>4. CommOp(r, CommHead(r)).session <= CommOp(r, n).session
  BY <1>2, <1>3 DEF Before
<1> QED BY <1>1, <1>2, <1>4

LEMMA Running ==
  ASSUME TypeOK, NEW r \in Ranks
  PROVE  CommRuns(r) <=> /\ CommHead(r) \in CommNums(r)
                         /\ CommOp(r, CommHead(r)).after <= computeEnded[r]
BY CommNumbers DEF CommRuns

\* With an operation of a session under way, all peers have closed the session before.
LEMMA HeadHeard ==
  ASSUME TypeOK, NEW r \in Ranks, SessionsClosed(r), CommHead(r) \in CommNums(r)
  PROVE  Heard(r, CommOp(r, CommHead(r)).session - 1)
<1>1. \A m \in CommNums(r) : m \in Nat /\ CommHead(r) \in Nat /\ ~(m < CommHead(r))
  BY CommNumbers
<1> QED BY <1>1 DEF SessionsClosed

LEMMA HeardLess ==
  ASSUME TypeOK, NEW r \in Ranks, NEW s \in Int, NEW t \in Int, Heard(r, s), t <= s
  PROVE  Heard(r, t)
<1>1. \A q \in Peers(r) : sig[r][SessionRow][q] \in Nat
  BY WordTypes, RowFacts DEF Peers
<1> QED BY <1>1 DEF Heard

\* Who has told a peer of a session has heard that all peers closed the one before.
LEMMA WriterHeard ==
  ASSUME TypeOK, NEW r \in Ranks, HostInv(r), CommInv(r), SessionsClosed(r), WordsPast(r),
         NEW q \in Peers(r), NEW w \in Rows, sig[q][w][r] > 0
  PROVE  Heard(r, sig[q][w][r] - 1)
<1> DEFINE v == sig[q][w][r]
<1>1. v \in Nat /\ q \in Ranks
  BY WordTypes DEF Peers
<1>2. CASE CommHead(r) \in CommNums(r)
  <2> DEFINE op == CommOp(r, CommHead(r))
  <2>1. op.session \in Nat
    BY <1>2, CommFields
  <2>2. v <= op.session
    <3>1. Before(v, w, op.session, op.row) \/ op.session = v
      BY <1>2 DEF WordsPast
    <3> QED BY <3>1, <2>1, <1>1 DEF Before
  <2>3. Heard(r, op.session - 1)
    BY <1>2, HeadHeard
  <2>4. v - 1 <= op.session - 1 /\ v - 1 \in Int /\ op.session - 1 \in Int
    BY <2>1, <2>2, <1>1
  <2> HIDE DEF op, v
  <2>5. Heard(r, v - 1)
    BY <2>3, <2>4, HeardLess
  <2> QED BY <2>5 DEF v
<1>3. CASE CommHead(r) \notin CommNums(r)
  <2> DEFINE s == IF inSession[r] THEN sessionIdx[r] - 1 ELSE sessionIdx[r]
  <2>1. CommNums(r) = {}
    BY <1>3, CommNumbers
  <2>2. Heard(r, s)
    BY <2>1 DEF SessionsClosed
  <2>3. HostPast(r, v, w)
    BY DEF WordsPast
  <2>4. v - 1 <= s /\ v - 1 \in Int /\ s \in Int
    BY <2>3, <1>1, HostTypes DEF HostPast
  <2> HIDE DEF s, v
  <2>5. Heard(r, v - 1)
    BY <2>2, <2>4, HeardLess
  <2> QED BY <2>5 DEF v
<1> QED BY <1>2, <1>3

\* A rank has not closed session s with any peer.
NotClosed(r, s) == \A q \in Peers(r) : sig[q][SessionRow][r] < s

\* A session is open at rank r, or its end waits for the compute stream.
StillRead(r, s) ==
  \/ inSession[r] /\ s = sessionIdx[r]
  \/ \E m \in CommNums(r) : Destroys(r, m, s) /\ CommOp(r, m).after > computeEnded[r]

LEMMA StillReadNotClosed ==
  ASSUME TypeOK, NEW r \in Ranks, HostInv(r), CommInv(r), WordsPast(r), HeadInv(r),
         NEW s \in Nat, s >= 1, StillRead(r, s)
  PROVE  NotClosed(r, s)
<1> SUFFICES ASSUME NEW q \in Peers(r), ~(sig[q][SessionRow][r] < s)
             PROVE  FALSE
  BY DEF NotClosed
<1> DEFINE v == sig[q][SessionRow][r]
<1>1. v \in Nat /\ v >= s /\ v > 0 /\ SessionRow \in Rows /\ SessionRow \in Nat
  BY WordTypes, RowFacts DEF Peers
<1>2. /\ HostPast(r, v, SessionRow)
      /\ \A n \in CommNums(r) : LET op == CommOp(r, n) IN
           \/ Before(v, SessionRow, op.session, op.row)
           \/ n = CommHead(r) /\ op.session = v /\ op.row = SessionRow /\ q \in told[r]
  BY <1>1 DEF WordsPast
<1> HIDE DEF v
<1>3. CASE inSession[r] /\ s = sessionIdx[r]
  <2>1. slotIdx[r] <= PerSession /\ slotIdx[r] \in Nat /\ sessionIdx[r] \in Nat
    BY HostTypes DEF HostInv
  <2> QED BY <1>1, <1>2, <1>3, <2>1, PerSessionAssumption DEF HostPast, SessionRow
<1>4. ASSUME NEW m \in CommNums(r), Destroys(r, m, s), CommOp(r, m).after > computeEnded[r]
      PROVE  FALSE
  <2>1. CommOp(r, m).session = s /\ CommOp(r, m).row \in Rows /\ CommOp(r, m).row \notin Slots
    BY <1>4, CommFields DEF CommInv, Destroys
  <2>2. CommOp(r, m).row = SessionRow
    BY <2>1, RowFacts
  <2>3. ~Before(v, SessionRow, CommOp(r, m).session, CommOp(r, m).row)
    BY <2>1, <2>2, <1>1 DEF Before
  <2>4. m = CommHead(r) /\ q \in told[r]
    BY <1>2, <2>3
  <2>5. CommRuns(r)
    BY <2>4 DEF HeadInv
  <2>6. CommOp(r, m).after <= computeEnded[r]
    BY <2>4, <2>5, Running
  <2> QED BY <2>6, <1>4, CommFields, ComputeNumbers
<1> QED BY <1>3, <1>4 DEF StillRead

\* While a rank reads a session, no peer has an operation of a later session under way, nor
\* has a word of one been written.
LEMMA NobodyAhead ==
  ASSUME TypeOK, NEW r \in Ranks, NEW p \in Peers(r), NEW s \in Nat, NotClosed(r, s),
         HostInv(p), CommInv(p), SessionsClosed(p), WordsPast(p)
  PROVE  /\ CommHead(p) \in CommNums(p) => CommOp(p, CommHead(p)).session <= s
         /\ \A q \in Peers(p) : \A w \in Rows : sig[q][w][p] <= s
<1>1. p \in Ranks /\ r \in Peers(p) /\ SessionRow \in Rows
  BY RowFacts DEF Peers
<1>2. sig[p][SessionRow][r] \in Nat /\ sig[p][SessionRow][r] < s
  BY <1>1, WordTypes DEF NotClosed
<1>3. ASSUME CommHead(p) \in CommNums(p) PROVE CommOp(p, CommHead(p)).session <= s
  <2>1. Heard(p, CommOp(p, CommHead(p)).session - 1)
    BY <1>1, <1>3, HeadHeard
  <2>2. CommOp(p, CommHead(p)).session \in Nat
    BY <1>1, <1>3, CommFields
  <2>3. sig[p][SessionRow][r] >= CommOp(p, CommHead(p)).session - 1
    BY <2>1, <1>1 DEF Heard
  <2> QED BY <2>2, <2>3, <1>2
<1>4. ASSUME NEW q \in Peers(p), NEW w \in Rows PROVE sig[q][w][p] <= s
  <2>1. sig[q][w][p] \in Nat
    BY <1>1, WordTypes DEF Peers
  <2>2. CASE sig[q][w][p] > 0
    <3>1. Heard(p, sig[q][w][p] - 1)
      BY <1>1, <2>2, WriterHeard
    <3>2. sig[p][SessionRow][r] >= sig[q][w][p] - 1
      BY <3>1, <1>1 DEF Heard
    <3> QED BY <3>2, <2>1, <1>2
  <2> QED BY <2>1, <2>2
<1> QED BY <1>3, <1>4

\* An all-gather has not closed its session: it comes before the operation that does.
LEMMA GatherNotClosed ==
  ASSUME TypeOK, NEW r \in Ranks, CommInv(r), WordsPast(r), CommHead(r) \in CommNums(r),
         CommOp(r, CommHead(r)).kind = "gather"
  PROVE  NotClosed(r, CommOp(r, CommHead(r)).session)
<1> DEFINE op == CommOp(r, CommHead(r))
<1>1. op.session \in Nat /\ op.session >= 1 /\ op.row \in Slots
  BY CommFields DEF CommInv
<1> SUFFICES ASSUME NEW q \in Peers(r), ~(sig[q][SessionRow][r] < op.session)
             PROVE  FALSE
  BY DEF NotClosed
<1> DEFINE v == sig[q][SessionRow][r]
<1>2. v \in Nat /\ v >= op.session /\ v > 0 /\ SessionRow \in Rows
  BY WordTypes, RowFacts, <1>1 DEF Peers
<1>3. Before(v, SessionRow, op.session, op.row) \/ op.row = SessionRow
  BY <1>2 DEF WordsPast
<1>4. op.row \in Nat /\ SessionRow \in Nat /\ op.row < SessionRow
  BY <1>1, RowFacts
<1> HIDE DEF op, v
<1> QED BY <1>1, <1>2, <1>3, <1>4 DEF Before

\* NoSignalAhead, of one rank: the words an all-gather waits for are not of a later session.
LEMMA GatherSeesNoLater ==
  ASSUME TypeOK, NEW r \in Ranks, CommInv(r), WordsPast(r), CommHead(r) \in CommNums(r),
         CommOp(r, CommHead(r)).kind = "gather",
         NEW p \in Peers(r), HostInv(p), CommInv(p), SessionsClosed(p), WordsPast(p)
  PROVE  /\ CommHead(p) \in CommNums(p) =>
              CommOp(p, CommHead(p)).session <= CommOp(r, CommHead(r)).session
         /\ \A w \in Rows : sig[r][w][p] <= CommOp(r, CommHead(r)).session
<1>1. CommOp(r, CommHead(r)).session \in Nat /\ r \in Peers(p) /\ p \in Ranks
  BY CommFields DEF Peers
<1>2. NotClosed(r, CommOp(r, CommHead(r)).session)
  BY GatherNotClosed
<1> QED BY <1>1, <1>2, NobodyAhead

-----------------------------------------------------------------------------
(* Types. *)

LEMMA InitTypes == Init => TypeOK
BY RowFacts, NumRanksAssumption, PerSessionAssumption
   DEF Init, TypeOK, Items, NoItem, Ranks, Slots

LEMMA HostKeepsTypes ==
  ASSUME TypeOK, NEW r \in Ranks, Host(r)
  PROVE  TypeOK'
<1> USE DEF TypeOK, hostVars, headVars
<1>0. /\ commEnded[r] \in Nat /\ computeEnded[r] \in Nat
      /\ Len(comm[r]) \in Nat /\ Len(compute[r]) \in Nat
      /\ CommEvent(r) \in Nat /\ ComputeEvent(r) \in Nat
  BY CommNumbers, ComputeNumbers
<1>1. CASE CreateSession(r)
  <2>1. /\ inSession' \in [Ranks -> BOOLEAN] /\ slotIdx' \in [Ranks -> Nat]
        /\ sessionIdx' \in [Ranks -> Nat]
    BY <1>1 DEF CreateSession
  <2> QED BY <1>1, <2>1 DEF CreateSession
<1>2. CASE GetInplaceTensor(r)
  <2> DEFINE op == [kind |-> "fill", session |-> sessionIdx[r], slot |-> slotIdx[r], after |-> 0]
  <2>1. op \in ComputeOps
    BY <1>2, PerSessionAssumption DEF GetInplaceTensor, ComputeOps, Slots
  <2>2. Append(compute[r], op) \in Seq(ComputeOps)
    BY <2>1
  <2> QED BY <1>2, <2>2 DEF GetInplaceTensor
<1>3. CASE AllGather(r)
  <2> DEFINE op == [kind |-> "gather", session |-> sessionIdx[r], row |-> slotIdx[r],
                    inplace |-> inplace[r], after |-> ComputeEvent(r)]
  <2>1. slotIdx[r] \in Slots
    BY <1>3, PerSessionAssumption DEF AllGather, Slots
  <2>2. op \in CommOps
    BY <2>1, <1>0, RowFacts DEF CommOps
  <2>3. Append(comm[r], op) \in Seq(CommOps)
    BY <2>2
  <2>4. [slot |-> slotIdx[r], at |-> CommEvent(r) + 1] \in [slot : Slots, at : Nat]
    BY <2>1, <1>0
  <2> DEFINE h == [slot |-> slotIdx[r], at |-> CommEvent(r) + 1]
  <2>5. /\ comm' = [comm EXCEPT ![r] = Append(comm[r], op)]
        /\ handles' = [handles EXCEPT ![r] = handles[r] \cup {h}]
        /\ slotIdx' = [slotIdx EXCEPT ![r] = slotIdx[r] + 1]
        /\ inplace' = [inplace EXCEPT ![r] = FALSE]
        /\ UNCHANGED <<inSession, sessionIdx, compute, commEnded, computeEnded, headVars, sig, mem>>
    BY <1>3 DEF AllGather
  <2> HIDE DEF op, h
  <2>6. comm' \in [Ranks -> Seq(CommOps)]
    BY <2>3, <2>5
  <2>7. handles' \in [Ranks -> SUBSET [slot : Slots, at : Nat]]
    BY <2>4, <2>5 DEF h
  <2>8. slotIdx' \in [Ranks -> Nat] /\ inplace' \in [Ranks -> BOOLEAN]
    BY <2>5
  <2> QED BY <2>5, <2>6, <2>7, <2>8
<1>4. ASSUME NEW h \in handles[r], CallHandle(r, h)
      PROVE  TypeOK'
  <2> DEFINE op == [kind |-> "use", session |-> sessionIdx[r], slot |-> h.slot, after |-> h.at]
  <2>1. h \in [slot : Slots, at : Nat]
    OBVIOUS
  <2>2. op \in ComputeOps
    BY <2>1 DEF ComputeOps
  <2>3. Append(compute[r], op) \in Seq(ComputeOps)
    BY <2>2
  <2> QED BY <1>4, <2>3 DEF CallHandle
<1>5. CASE DestroySession(r)
  <2> DEFINE op == [kind |-> "destroy", session |-> sessionIdx[r], row |-> SessionRow,
                    inplace |-> FALSE, after |-> ComputeEvent(r)]
  <2>1. op \in CommOps
    BY <1>0, RowFacts DEF CommOps
  <2>2. Append(comm[r], op) \in Seq(CommOps)
    BY <2>1
  <2> QED BY <1>5, <2>2 DEF DestroySession
<1> QED BY <1>1, <1>2, <1>3, <1>4, <1>5 DEF Host

LEMMA StreamsKeepTypes ==
  ASSUME TypeOK, NEW r \in Ranks, Streams(r)
  PROVE  TypeOK'
<1> USE DEF hostVars, headVars
<1>0. comm[r] # <<>> => CommHead(r) \in CommNums(r) /\ Head(comm[r]) = CommOp(r, CommHead(r))
  BY CommNumbers
<1>1. ASSUME NEW dst \in Ranks, CopyTo(r, dst) PROVE TypeOK'
  <2> DEFINE op == Head(comm[r])
             src == IF op.inplace THEN mem[r][op.row][r] ELSE Item(r, op.session, op.row)
  <2>1. op.kind = "gather" /\ op.session \in Nat /\ op.row \in Rows
    BY <1>1, <1>0, CommFields DEF CopyTo, CommRuns
  <2>2. /\ mem' = [mem EXCEPT ![dst][op.row][r] = src]
        /\ copied' = [copied EXCEPT ![r] = @ \cup {dst}]
        /\ UNCHANGED <<hostVars, comm, compute, commEnded, computeEnded, told, sig>>
    BY <1>1 DEF CopyTo
  <2>3. CASE op.row \in Slots
    <3>1. src \in Items
      <4>1. mem[r][op.row][r] \in Items
        <5> HIDE DEF op
        <5> QED BY <2>3 DEF TypeOK
      <4>2. Item(r, op.session, op.row) \in Items
        <5> HIDE DEF op
        <5> QED BY <2>1, <2>3 DEF Items, Item
      <4> HIDE DEF op
      <4> QED BY <4>1, <4>2
    <3> HIDE DEF src, op
    <3>2. mem' \in [Ranks -> [Slots -> [Ranks -> Items]]]
      BY <2>2, <2>3, <3>1 DEF TypeOK
    <3> QED BY <2>2, <3>2 DEF TypeOK
  <2>4. CASE op.row \notin Slots
    <3> HIDE DEF src, op
    <3>1. mem' \in [Ranks -> [Slots -> [Ranks -> Items]]]
      BY <2>2, <2>4 DEF TypeOK
    <3> QED BY <2>2, <3>1 DEF TypeOK
  <2> QED BY <2>3, <2>4
<1>2. ASSUME NEW dst \in Ranks, Tell(r, dst) PROVE TypeOK'
  <2>1. Head(comm[r]).session \in Nat /\ Head(comm[r]).row \in Rows
    BY <1>2, <1>0, CommFields DEF Tell, CommRuns
  <2>2. /\ sig' = [sig EXCEPT ![dst][Head(comm[r]).row][r] = Head(comm[r]).session]
        /\ told' = [told EXCEPT ![r] = @ \cup {dst}]
        /\ UNCHANGED <<hostVars, comm, compute, commEnded, computeEnded, copied, mem>>
    BY <1>2 DEF Tell
  <2>3. sig' \in [Ranks -> [Rows -> [Ranks -> Nat]]]
    BY <2>1, <2>2 DEF TypeOK
  <2> QED BY <2>2, <2>3 DEF TypeOK
<1>3. CASE CommEnd(r)
  <2>1. Tail(comm[r]) \in Seq(CommOps)
    BY <1>3, HeadTailProperties DEF TypeOK, CommEnd, CommRuns
  <2> QED BY <1>3, <2>1 DEF CommEnd, TypeOK
<1>4. CASE ComputeStep(r)
  <2> DEFINE op == Head(compute[r])
  <2>1. compute[r] # <<>> /\ Tail(compute[r]) \in Seq(ComputeOps)
    BY <1>4, HeadTailProperties DEF TypeOK, ComputeStep, ComputeRuns
  <2>2. op.session \in Nat /\ op.slot \in Slots
    BY <2>1, ComputeNumbers, ComputeFields
  <2>3. Item(r, op.session, op.slot) \in Items
    BY <2>2 DEF Items, Item
  <2>4. /\ mem' = IF op.kind = "fill"
                  THEN [mem EXCEPT ![r][op.slot][r] = Item(r, op.session, op.slot)] ELSE mem
        /\ compute' = [compute EXCEPT ![r] = Tail(@)]
        /\ computeEnded' = [computeEnded EXCEPT ![r] = @ + 1]
        /\ UNCHANGED <<hostVars, comm, commEnded, headVars, sig>>
    BY <1>4 DEF ComputeStep
  <2> HIDE DEF op
  <2>5. mem' \in [Ranks -> [Slots -> [Ranks -> Items]]]
    BY <2>2, <2>3, <2>4 DEF TypeOK
  <2>6. compute' \in [Ranks -> Seq(ComputeOps)]
    <3>1. compute' = [compute EXCEPT ![r] = Tail(compute[r])] /\ compute \in [Ranks -> Seq(ComputeOps)]
      BY <2>4 DEF TypeOK
    <3> QED BY ONLY <2>1, <3>1, r \in Ranks
  <2>7. computeEnded' \in [Ranks -> Nat]
    <3>1. /\ computeEnded' = [computeEnded EXCEPT ![r] = computeEnded[r] + 1]
          /\ computeEnded \in [Ranks -> Nat]
      BY <2>4 DEF TypeOK
    <3> QED BY ONLY <3>1, r \in Ranks
  <2> QED BY <2>4, <2>5, <2>6, <2>7 DEF TypeOK
<1> QED BY <1>1, <1>2, <1>3, <1>4 DEF Streams

-----------------------------------------------------------------------------
(* What a step does to a rank. *)

CommKept(r) ==
  /\ commEnded'[r] = commEnded[r]
  /\ CommHead(r)' = CommHead(r) /\ CommNums(r)' = CommNums(r)
  /\ \A n \in CommNums(r) : CommOp(r, n)' = CommOp(r, n)

ComputeKept(r) ==
  /\ computeEnded'[r] = computeEnded[r] /\ ComputeEvent(r)' = ComputeEvent(r)
  /\ ComputeNums(r)' = ComputeNums(r)
  /\ \A n \in ComputeNums(r) : ComputeOp(r, n)' = ComputeOp(r, n)

LEMMA KeptComm ==
  ASSUME NEW r \in Ranks, comm'[r] = comm[r], commEnded'[r] = commEnded[r]
  PROVE  CommKept(r)
BY DEF CommKept, CommHead, CommNums, CommEvent, CommOp

LEMMA KeptCompute ==
  ASSUME NEW r \in Ranks, compute'[r] = compute[r], computeEnded'[r] = computeEnded[r]
  PROVE  ComputeKept(r)
BY DEF ComputeKept, ComputeNums, ComputeEvent, ComputeOp

\* The host goes on in the program.
HostGoesOn(r) == \A s \in Nat : \A w \in Rows : HostPast(r, s, w) => HostPast(r, s, w)'

HostKept(r) ==
  /\ inSession'[r] = inSession[r] /\ sessionIdx'[r] = sessionIdx[r]
  /\ slotIdx'[r] = slotIdx[r] /\ inplace'[r] = inplace[r] /\ handles'[r] = handles[r]

HeadKept(r) == copied'[r] = copied[r] /\ told'[r] = told[r]

\* The words and the slots that the rank has written, and the words it has been told.
WordsKept(r) == \A q \in Ranks : \A w \in Rows : sig'[q][w][r] = sig[q][w][r]
MemKept(r)   == \A q \in Ranks : \A k \in Slots : mem'[q][k][r] = mem[q][k][r]
WordsGrow(r) == \A q \in Ranks : \A w \in Rows : sig'[r][w][q] >= sig[r][w][q]

\* The next operation of the program is enqueued.
NextOp(r, op) ==
  /\ CommGets(r, op) /\ HostGoesOn(r)
  /\ op \in CommOps /\ op.session = sessionIdx[r] /\ op.session >= 1
  /\ op.kind = "gather" <=> op.row \in Slots
  /\ HostPast(r, op.session, op.row)'
  /\ \A s \in Nat : \A w \in Rows : HostPast(r, s, w) => Before(s, w, op.session, op.row)

\* One word, or one place of a slot, is written.
WritesWord(dst, k, r, v) == sig' = [sig EXCEPT ![dst][k][r] = v]

LEMMA WordWritten ==
  ASSUME TypeOK, NEW dst \in Ranks, NEW k \in Rows, NEW r \in Ranks, NEW v, WritesWord(dst, k, r, v)
  PROVE  /\ sig'[dst][k][r] = v
         /\ \A q, p \in Ranks : \A w \in Rows :
              q # dst \/ w # k \/ p # r => sig'[q][w][p] = sig[q][w][p]
<1>1. sig \in [Ranks -> [Rows -> [Ranks -> Nat]]]
  BY DEF TypeOK
<1>2. ASSUME NEW q \in Ranks
      PROVE  sig'[q] = IF q = dst THEN [sig[q] EXCEPT ![k][r] = v] ELSE sig[q]
  BY <1>1 DEF WritesWord
<1>3. ASSUME NEW q \in Ranks, NEW w \in Rows, NEW p \in Ranks, q # dst \/ w # k \/ p # r
      PROVE  sig'[q][w][p] = sig[q][w][p]
  BY <1>1, <1>2, <1>3 DEF WritesWord
<1>4. sig'[dst][k][r] = v
  BY <1>1, <1>2 DEF WritesWord
<1> QED BY <1>3, <1>4

WritesPlace(dst, k, r, v) == mem' = [mem EXCEPT ![dst][k][r] = v]

LEMMA PlaceWritten ==
  ASSUME TypeOK, NEW dst \in Ranks, NEW k \in Slots, NEW r \in Ranks, NEW v, WritesPlace(dst, k, r, v)
  PROVE  /\ mem'[dst][k][r] = v
         /\ \A q, p \in Ranks : \A w \in Slots :
              q # dst \/ w # k \/ p # r => mem'[q][w][p] = mem[q][w][p]
<1>1. mem \in [Ranks -> [Slots -> [Ranks -> Items]]]
  BY DEF TypeOK
<1>2. ASSUME NEW q \in Ranks
      PROVE  mem'[q] = IF q = dst THEN [mem[q] EXCEPT ![k][r] = v] ELSE mem[q]
  BY <1>1 DEF WritesPlace
<1>3. ASSUME NEW q \in Ranks, NEW w \in Slots, NEW p \in Ranks, q # dst \/ w # k \/ p # r
      PROVE  mem'[q][w][p] = mem[q][w][p]
  BY <1>1, <1>2, <1>3 DEF WritesPlace
<1>4. mem'[dst][k][r] = v
  BY <1>1, <1>2 DEF WritesPlace
<1> QED BY <1>3, <1>4

-----------------------------------------------------------------------------
(* The operations keep the order of the program. *)

LEMMA CommInvKept ==
  ASSUME TypeOK, NEW r \in Ranks, CommInv(r), HostGoesOn(r), CommKept(r) \/ CommDrops(r)
  PROVE  CommInv(r)'
<1>1. /\ CommNums(r)' \subseteq CommNums(r)
      /\ \A n \in CommNums(r)' : CommOp(r, n)' = CommOp(r, n)
  BY DEF CommKept, CommDrops
<1>2. \A n \in CommNums(r) : CommOp(r, n).session \in Nat /\ CommOp(r, n).row \in Rows
  BY CommFields
<1> QED BY <1>1, <1>2 DEF CommInv, HostGoesOn

InOrder(r, n) ==
  LET op == CommOp(r, n) IN
    /\ op.session >= 1 /\ HostPast(r, op.session, op.row)
    /\ op.kind = "gather" <=> op.row \in Slots
    /\ \A m \in CommNums(r) :
         m < n => Before(CommOp(r, m).session, CommOp(r, m).row, op.session, op.row)

LEMMA CommInvNext ==
  ASSUME TypeOK, NEW r \in Ranks, CommInv(r), NEW op, NextOp(r, op)
  PROVE  CommInv(r)'
<1> DEFINE e == CommEvent(r) + 1
<1>1. /\ CommNums(r)' = CommNums(r) \cup {e}
      /\ \A n \in CommNums(r) : CommOp(r, n)' = CommOp(r, n)
      /\ \A n : n = e => CommOp(r, n)' = op
      /\ \A n \in CommNums(r) : n < e /\ n \in Nat
      /\ e \in Nat
  BY CommNumbers DEF NextOp, CommGets
<1>2. \A n \in CommNums(r) : CommOp(r, n).session \in Nat /\ CommOp(r, n).row \in Rows
  BY CommFields
<1> SUFFICES ASSUME NEW n \in CommNums(r)'
             PROVE  InOrder(r, n)'
  BY DEF CommInv, InOrder
<1> HIDE DEF e
<1>3. CASE n \in CommNums(r)
  <2>1. \A m \in CommNums(r)' : m < n => m \in CommNums(r)
    BY <1>1, <1>3
  <2> PICK o : o = CommOp(r, n)
    OBVIOUS
  <2>2. /\ o.session >= 1 /\ HostPast(r, o.session, o.row)
        /\ o.kind = "gather" <=> o.row \in Slots
        /\ \A m \in CommNums(r) :
             m < n => Before(CommOp(r, m).session, CommOp(r, m).row, o.session, o.row)
    BY <1>3 DEF CommInv
  <2>3. HostPast(r, o.session, o.row)'
    BY <1>2, <1>3, <2>2 DEF NextOp, HostGoesOn
  <2>4. CommOp(r, n)' = o
    BY <1>1, <1>3
  <2> QED BY <1>1, <2>1, <2>2, <2>3, <2>4 DEF InOrder
<1>4. CASE n = e
  <2>1. CommOp(r, n)' = op
    BY <1>1, <1>4
  <2>2. \A m \in CommNums(r)' : m < n => m \in CommNums(r)
    BY <1>1, <1>4
  <2>3. ASSUME NEW m \in CommNums(r)
        PROVE  Before(CommOp(r, m).session, CommOp(r, m).row, op.session, op.row)
    BY <1>2 DEF CommInv, NextOp
  <2> QED BY <1>1, <2>1, <2>2, <2>3 DEF NextOp, InOrder
<1> QED BY <1>1, <1>3, <1>4

-----------------------------------------------------------------------------
(* No session is left out. *)

\* The session that the last operation enqueued, or to be enqueued, to end one ends.
LastClosed(r) == IF inSession[r] THEN sessionIdx[r] - 1 ELSE sessionIdx[r]

\* All peers have ended the session, or the rank has an operation before n to end it.
ClosedBefore(r, n, s) == Heard(r, s) \/ \E m \in CommNums(r) : m < n /\ Destroys(r, m, s)
ClosedAtAll(r, s)     == Heard(r, s) \/ \E m \in CommNums(r) : Destroys(r, m, s)

LEMMA SessionsClosedParts ==
  ASSUME NEW r \in Ranks
  PROVE  SessionsClosed(r) <=>
           /\ \A n \in CommNums(r) : ClosedBefore(r, n, CommOp(r, n).session - 1)
           /\ ClosedAtAll(r, LastClosed(r))
BY Zenon DEF SessionsClosed, ClosedBefore, ClosedAtAll, LastClosed

LEMMA HeardKept ==
  ASSUME TypeOK, TypeOK', NEW r \in Ranks, WordsGrow(r), NEW s \in Int, Heard(r, s)
  PROVE  Heard(r, s)'
<1>1. \A q \in Peers(r) : q \in Ranks
  BY DEF Peers
<1>2. \A q \in Peers(r) : /\ sig[r][SessionRow][q] \in Nat /\ sig'[r][SessionRow][q] \in Nat
                          /\ sig'[r][SessionRow][q] >= sig[r][SessionRow][q]
  BY <1>1, RowFacts DEF TypeOK, WordsGrow
<1> QED BY <1>2 DEF Heard, Peers

LEMMA DestroysKept ==
  ASSUME NEW r \in Ranks, NEW m \in CommNums(r), NEW s, CommOp(r, m)' = CommOp(r, m)
  PROVE  Destroys(r, m, s)' <=> Destroys(r, m, s)
BY DEF Destroys

LEMMA SessionsClosedFrom ==
  ASSUME NEW r \in Ranks,
         \A n \in CommNums(r)' : \A s : s = (CommOp(r, n).session - 1)' => ClosedBefore(r, n, s)',
         \A s : s = LastClosed(r)' => ClosedAtAll(r, s)'
  PROVE  SessionsClosed(r)'
<1>1. ASSUME NEW n \in CommNums(r)'
      PROVE  ClosedBefore(r, n, CommOp(r, n).session - 1)'
  <2> PICK s : s = (CommOp(r, n).session - 1)'
    OBVIOUS
  <2> QED BY <1>1 DEF ClosedBefore
<1>2. ClosedAtAll(r, LastClosed(r))'
  <2> PICK s : s = LastClosed(r)'
    OBVIOUS
  <2> QED BY DEF ClosedAtAll
<1>3. SessionsClosed(r)' <=>
        /\ \A n \in CommNums(r)' : ClosedBefore(r, n, CommOp(r, n).session - 1)'
        /\ ClosedAtAll(r, LastClosed(r))'
  BY Zenon DEF SessionsClosed, ClosedBefore, ClosedAtAll, LastClosed
<1> QED BY <1>1, <1>2, <1>3

LEMMA SessionsClosedKept ==
  ASSUME TypeOK, TypeOK', NEW r \in Ranks, SessionsClosed(r), CommKept(r), WordsGrow(r),
         LastClosed(r)' = LastClosed(r)
  PROVE  SessionsClosed(r)'
<1>1. ASSUME NEW s \in Int, ClosedAtAll(r, s) PROVE ClosedAtAll(r, s)'
  BY <1>1, HeardKept, DestroysKept DEF ClosedAtAll, CommKept
<1>2. ASSUME NEW n \in CommNums(r), NEW s \in Int, ClosedBefore(r, n, s)
      PROVE  ClosedBefore(r, n, s)'
  BY <1>2, HeardKept, DestroysKept DEF ClosedBefore, CommKept
<1>3. ASSUME NEW n \in CommNums(r)', NEW s, s = (CommOp(r, n).session - 1)'
      PROVE  ClosedBefore(r, n, s)'
  <2>1. n \in CommNums(r) /\ s = CommOp(r, n).session - 1 /\ s \in Int
    BY <1>3, CommFields DEF CommKept
  <2> QED BY <1>2, <2>1, SessionsClosedParts
<1>4. ASSUME NEW s, s = LastClosed(r)' PROVE ClosedAtAll(r, s)'
  <2>1. s = LastClosed(r) /\ s \in Int
    BY <1>4, HostTypes DEF LastClosed
  <2> QED BY <1>1, <2>1, SessionsClosedParts
<1> QED BY <1>3, <1>4, SessionsClosedFrom

\* The next operation: the session before it is closed, and an operation that ends its
\* session closes that one.
LEMMA SessionsClosedNext ==
  ASSUME TypeOK, TypeOK', NEW r \in Ranks, SessionsClosed(r), NEW op, NextOp(r, op),
         WordsGrow(r), inSession[r],
         \/ LastClosed(r)' = LastClosed(r)
         \/ op.kind = "destroy" /\ LastClosed(r)' = op.session
  PROVE  SessionsClosed(r)'
<1> DEFINE e == CommEvent(r) + 1
<1>0. /\ CommNums(r)' = CommNums(r) \cup {e}
      /\ \A n \in CommNums(r) : CommOp(r, n)' = CommOp(r, n)
      /\ \A n : n = e => CommOp(r, n)' = op
      /\ \A n \in CommNums(r) : n < e /\ n \in Nat
      /\ e \in Nat
  BY CommNumbers DEF NextOp, CommGets
<1> HIDE DEF e
<1>1. ASSUME NEW s \in Int, ClosedAtAll(r, s) PROVE ClosedAtAll(r, s)'
  BY <1>0, <1>1, HeardKept, DestroysKept DEF ClosedAtAll
<1>2. ASSUME NEW n \in CommNums(r), NEW s \in Int, ClosedBefore(r, n, s)
      PROVE  ClosedBefore(r, n, s)'
  BY <1>0, <1>2, HeardKept, DestroysKept DEF ClosedBefore
<1>3. ASSUME NEW n \in CommNums(r)', NEW s, s = (CommOp(r, n).session - 1)'
      PROVE  ClosedBefore(r, n, s)'
  <2>1. CASE n \in CommNums(r)
    <3>1. s = CommOp(r, n).session - 1 /\ s \in Int
      BY <1>0, <1>3, <2>1, CommFields
    <3> QED BY <1>2, <2>1, <3>1, SessionsClosedParts
  <2>2. CASE n = e
    <3>1. s = LastClosed(r) /\ s \in Int
      BY <1>0, <1>3, <2>2, HostTypes DEF LastClosed, NextOp
    <3>2. CASE Heard(r, s)
      BY <3>1, <3>2, HeardKept DEF ClosedBefore
    <3>3. CASE \E m \in CommNums(r) : Destroys(r, m, s)
      <4> PICK m \in CommNums(r) : Destroys(r, m, s)
        BY <3>3
      <4>1. m \in CommNums(r)' /\ m < n /\ Destroys(r, m, s)'
        BY <1>0, <2>2, DestroysKept
      <4> QED BY <4>1 DEF ClosedBefore
    <3>4. ClosedAtAll(r, s)
      BY <3>1, SessionsClosedParts
    <3> QED BY <3>2, <3>3, <3>4 DEF ClosedAtAll
  <2> QED BY <1>0, <2>1, <2>2
<1>4. ASSUME NEW s, s = LastClosed(r)' PROVE ClosedAtAll(r, s)'
  <2>1. CASE LastClosed(r)' = LastClosed(r)
    <3>1. s = LastClosed(r) /\ s \in Int
      BY <1>4, <2>1, HostTypes DEF LastClosed
    <3> QED BY <1>1, <3>1, SessionsClosedParts
  <2>2. CASE op.kind = "destroy" /\ LastClosed(r)' = op.session
    <3> PICK m : m = e
      OBVIOUS
    <3>1. m \in CommNums(r)' /\ CommOp(r, m)' = op
      BY <1>0
    <3>2. Destroys(r, m, s)'
      BY <3>1, <2>2, <1>4 DEF Destroys
    <3> QED BY <3>1, <3>2 DEF ClosedAtAll
  <2> QED BY <2>1, <2>2
<1> QED BY <1>3, <1>4, SessionsClosedFrom

\* When an operation that ends its session is done, all peers have been heard.
LEMMA SessionsClosedDrops ==
  ASSUME TypeOK, TypeOK', NEW r \in Ranks, SessionsClosed(r), CommDrops(r), WordsGrow(r),
         LastClosed(r)' = LastClosed(r),
         \A s : Destroys(r, CommHead(r), s) => Heard(r, s)
  PROVE  SessionsClosed(r)'
<1>1. ASSUME NEW s \in Int, ClosedAtAll(r, s) PROVE ClosedAtAll(r, s)'
  <2>1. CASE Heard(r, s)
    BY <2>1, HeardKept DEF ClosedAtAll
  <2>2. ASSUME NEW m \in CommNums(r), Destroys(r, m, s), m # CommHead(r)
        PROVE  ClosedAtAll(r, s)'
    <3>1. m \in CommNums(r)' /\ CommOp(r, m)' = CommOp(r, m)
      BY <2>2 DEF CommDrops
    <3>2. Destroys(r, m, s)'
      BY <2>2, <3>1, DestroysKept
    <3> QED BY <3>1, <3>2 DEF ClosedAtAll
  <2> QED BY <1>1, <2>1, <2>2 DEF ClosedAtAll
<1>2. ASSUME NEW n \in CommNums(r)', NEW s \in Int, ClosedBefore(r, n, s)
      PROVE  ClosedBefore(r, n, s)'
  <2>1. CASE Heard(r, s)
    BY <2>1, HeardKept DEF ClosedBefore
  <2>2. ASSUME NEW m \in CommNums(r), m < n, Destroys(r, m, s), m # CommHead(r)
        PROVE  ClosedBefore(r, n, s)'
    <3>1. m \in CommNums(r)' /\ CommOp(r, m)' = CommOp(r, m)
      BY <2>2 DEF CommDrops
    <3>2. Destroys(r, m, s)'
      BY <2>2, <3>1, DestroysKept
    <3> QED BY <2>2, <3>1, <3>2 DEF ClosedBefore
  <2> QED BY <1>2, <2>1, <2>2 DEF ClosedBefore
<1>3. ASSUME NEW n \in CommNums(r)', NEW s, s = (CommOp(r, n).session - 1)'
      PROVE  ClosedBefore(r, n, s)'
  <2>1. n \in CommNums(r) /\ s = CommOp(r, n).session - 1 /\ s \in Int
    BY <1>3, CommFields DEF CommDrops
  <2> QED BY <1>2, <2>1, SessionsClosedParts
<1>4. ASSUME NEW s, s = LastClosed(r)' PROVE ClosedAtAll(r, s)'
  <2>1. s = LastClosed(r) /\ s \in Int
    BY <1>4, HostTypes DEF LastClosed
  <2> QED BY <1>1, <2>1, SessionsClosedParts
<1> QED BY <1>3, <1>4, SessionsClosedFrom

-----------------------------------------------------------------------------
(* Words are of the past. *)

WordPast(r, q, w, v) ==
  /\ HostPast(r, v, w)
  /\ \A n \in CommNums(r) : LET op == CommOp(r, n) IN
       \/ Before(v, w, op.session, op.row)
       \/ n = CommHead(r) /\ op.session = v /\ op.row = w /\ q \in told[r]

LEMMA WordsPastFrom ==
  ASSUME NEW r \in Ranks,
         \A q \in Peers(r) : \A w \in Rows : \A v :
           v = sig'[q][w][r] /\ v > 0 => WordPast(r, q, w, v)'
  PROVE  WordsPast(r)'
<1>1. ASSUME NEW q \in Peers(r), NEW w \in Rows, (sig[q][w][r] > 0)'
      PROVE  WordPast(r, q, w, sig[q][w][r])'
  <2> PICK v : v = sig'[q][w][r]
    OBVIOUS
  <2>1. WordPast(r, q, w, v)'
    BY <1>1
  <2> QED BY <2>1 DEF WordPast
<1> QED BY <1>1 DEF WordsPast, WordPast

LEMMA WordsPastHas ==
  ASSUME TypeOK, NEW r \in Ranks, WordsPast(r), NEW q \in Peers(r), NEW w \in Rows, NEW v,
         v = sig[q][w][r], v > 0
  PROVE  v \in Nat /\ WordPast(r, q, w, v)
BY WordTypes DEF WordsPast, WordPast, Peers

LEMMA WordsPastKept ==
  ASSUME TypeOK, NEW r \in Ranks, WordsPast(r), CommKept(r), WordsKept(r),
         told'[r] = told[r], HostGoesOn(r)
  PROVE  WordsPast(r)'
<1>1. ASSUME NEW q \in Peers(r), NEW w \in Rows, NEW v, v = sig'[q][w][r], v > 0
      PROVE  WordPast(r, q, w, v)'
  <2>1. v = sig[q][w][r]
    BY <1>1 DEF WordsKept, Peers
  <2>2. v \in Nat /\ WordPast(r, q, w, v)
    BY <1>1, <2>1, WordsPastHas
  <2>3. HostPast(r, v, w)'
    BY <2>2 DEF WordPast, HostGoesOn
  <2> QED BY <2>2, <2>3 DEF WordPast, CommKept
<1> QED BY <1>1, WordsPastFrom

LEMMA WordsPastNext ==
  ASSUME TypeOK, NEW r \in Ranks, WordsPast(r), NEW op, NextOp(r, op), WordsKept(r),
         told'[r] = told[r]
  PROVE  WordsPast(r)'
<1>1. ASSUME NEW q \in Peers(r), NEW w \in Rows, NEW v, v = sig'[q][w][r], v > 0
      PROVE  WordPast(r, q, w, v)'
  <2>1. v = sig[q][w][r]
    BY <1>1 DEF WordsKept, Peers
  <2>2. v \in Nat /\ WordPast(r, q, w, v)
    BY <1>1, <2>1, WordsPastHas
  <2>3. HostPast(r, v, w)' /\ Before(v, w, op.session, op.row)
    BY <2>2 DEF WordPast, NextOp, HostGoesOn
  <2> QED BY <2>2, <2>3 DEF WordPast, NextOp, CommGets
<1> QED BY <1>1, WordsPastFrom

LEMMA WordsPastDrops ==
  ASSUME TypeOK, NEW r \in Ranks, WordsPast(r), CommDrops(r), WordsKept(r), HostGoesOn(r)
  PROVE  WordsPast(r)'
<1>1. ASSUME NEW q \in Peers(r), NEW w \in Rows, NEW v, v = sig'[q][w][r], v > 0
      PROVE  WordPast(r, q, w, v)'
  <2>1. v = sig[q][w][r]
    BY <1>1 DEF WordsKept, Peers
  <2>2. v \in Nat /\ WordPast(r, q, w, v)
    BY <1>1, <2>1, WordsPastHas
  <2>3. HostPast(r, v, w)'
    BY <2>2 DEF WordPast, HostGoesOn
  <2> QED BY <2>2, <2>3 DEF WordPast, CommDrops
<1> QED BY <1>1, WordsPastFrom

\* The head's word: everything after the head is after it.
LEMMA WordsPastTell ==
  ASSUME TypeOK, NEW r \in Ranks, WordsPast(r), CommInv(r), CommKept(r), HostGoesOn(r),
         CommHead(r) \in CommNums(r), NEW op, op = CommOp(r, CommHead(r)),
         NEW dst \in Peers(r), told' = [told EXCEPT ![r] = @ \cup {dst}],
         WritesWord(dst, op.row, r, op.session)
  PROVE  WordsPast(r)'
<1>0. /\ op.session \in Nat /\ op.row \in Rows /\ HostPast(r, op.session, op.row)
      /\ told'[r] = told[r] \cup {dst}
      /\ dst \in Ranks
  BY CommFields DEF CommInv, TypeOK, Peers
<1>a. /\ sig'[dst][op.row][r] = op.session
      /\ \A q, p \in Ranks : \A w \in Rows :
           q # dst \/ w # op.row \/ p # r => sig'[q][w][p] = sig[q][w][p]
  BY <1>0, WordWritten
<1>1. ASSUME NEW q \in Peers(r), NEW w \in Rows, NEW v, v = sig'[q][w][r], v > 0
      PROVE  WordPast(r, q, w, v)'
  <2>1. CASE q = dst /\ w = op.row
    <3>1. v = op.session
      BY <1>a, <1>1, <2>1
    <3>2. HostPast(r, v, w)'
      BY <1>0, <2>1, <3>1 DEF HostGoesOn
    <3>3. ASSUME NEW n \in CommNums(r)
          PROVE  \/ Before(v, w, CommOp(r, n).session, CommOp(r, n).row)
                 \/ n = CommHead(r) /\ CommOp(r, n).session = v /\ CommOp(r, n).row = w
      BY <2>1, <3>1, HeadFirst
    <3>4. q \in told'[r]
      BY <1>0, <2>1
    <3> QED BY <3>2, <3>3, <3>4 DEF WordPast, CommKept
  <2>2. CASE ~(q = dst /\ w = op.row)
    <3>1. v = sig[q][w][r]
      BY <1>a, <1>1, <2>2 DEF Peers
    <3>2. v \in Nat /\ WordPast(r, q, w, v)
      BY <1>1, <3>1, WordsPastHas
    <3>3. HostPast(r, v, w)'
      BY <3>2 DEF WordPast, HostGoesOn
    <3> QED BY <1>0, <3>2, <3>3 DEF WordPast, CommKept
  <2> QED BY <2>1, <2>2
<1> QED BY <1>1, WordsPastFrom

-----------------------------------------------------------------------------
(* What the head of the communication stream has done. *)

\* The operation op is at the head, and it runs.
Runs(r, op) ==
  /\ CommHead(r) \in CommNums(r) /\ CommOp(r, CommHead(r)) = op
  /\ op.after <= computeEnded[r]

LEMMA RunningOp ==
  TypeOK => \A r \in Ranks : \A op : op = CommOp(r, CommHead(r)) => (CommRuns(r) <=> Runs(r, op))
BY Running DEF Runs

LEMMA RunningOpNext ==
  ASSUME TypeOK'
  PROVE  \A r \in Ranks : \A op :
           op = CommOp(r, CommHead(r))' => (CommRuns(r)' <=> Runs(r, op)')
<1>1. (TypeOK => \A r \in Ranks : \A op :
         op = CommOp(r, CommHead(r)) => (CommRuns(r) <=> Runs(r, op)))'
  BY RunningOp, PTL
<1> QED BY <1>1

HeadDid(r, op) ==
  /\ told[r] \subseteq Peers(r)
  /\ copied[r] # {} \/ told[r] # {} => Runs(r, op)
  /\ copied[r] # {} => op.kind = "gather"
  /\ told[r] # {} /\ op.kind = "gather" => copied[r] = Ranks
  /\ \A q \in told[r] : sig[q][op.row][r] = op.session
  /\ \A q \in copied[r] : mem[q][op.row][r] = Item(r, op.session, op.row)

LEMMA HeadInvHas ==
  ASSUME TypeOK, NEW r \in Ranks, HeadInv(r), NEW op, op = CommOp(r, CommHead(r))
  PROVE  HeadDid(r, op)
<1>1. CommRuns(r) <=> Runs(r, op)
  BY RunningOp
<1> QED BY <1>1 DEF HeadInv, HeadDid

LEMMA HeadInvFrom ==
  ASSUME TypeOK', NEW r \in Ranks, \A op : op = CommOp(r, CommHead(r))' => HeadDid(r, op)'
  PROVE  HeadInv(r)'
<1> PICK op : op = CommOp(r, CommHead(r))'
  OBVIOUS
<1>1. HeadDid(r, op)' /\ (CommRuns(r)' <=> Runs(r, op)')
  BY RunningOpNext
<1> QED BY <1>1 DEF HeadInv, HeadDid

\* The operation at the head stays there when others are enqueued behind it.
HeadStays(r) ==
  /\ CommHead(r)' = CommHead(r)
  /\ CommNums(r) \subseteq CommNums(r)'
  /\ \A n \in CommNums(r) : CommOp(r, n)' = CommOp(r, n)

LEMMA HeadStaysWhen ==
  ASSUME NEW r \in Ranks, CommKept(r) \/ \E op : CommGets(r, op)
  PROVE  HeadStays(r)
BY DEF CommKept, CommGets, HeadStays

LEMMA HeadStaysOp ==
  ASSUME NEW r \in Ranks, HeadStays(r), CommHead(r) \in CommNums(r)
  PROVE  /\ CommHead(r)' \in CommNums(r)'
         /\ CommOp(r, CommHead(r))' = CommOp(r, CommHead(r))
<1> PICK h : h = CommHead(r)
  OBVIOUS
<1>1. CommHead(r)' = h /\ CommOp(r, h)' = CommOp(r, h) /\ h \in CommNums(r)'
  BY DEF HeadStays
<1> QED BY <1>1

LEMMA HeadInvKept ==
  ASSUME TypeOK, TypeOK', NEW r \in Ranks, HeadInv(r), HeadStays(r), HeadKept(r), WordsKept(r),
         computeEnded'[r] >= computeEnded[r],
         \A q \in copied[r] : LET k == CommOp(r, CommHead(r)).row
                              IN  mem'[q][k][r] = mem[q][k][r]
  PROVE  HeadInv(r)'
<1>1. CASE CommHead(r) \in CommNums(r)
  <2> PICK op : op = CommOp(r, CommHead(r))
    OBVIOUS
  <2>1. CommHead(r)' \in CommNums(r)' /\ CommOp(r, CommHead(r))' = op
    BY <1>1, HeadStaysOp
  <2>2. HeadDid(r, op)
    BY HeadInvHas
  <2>3. /\ op.after \in Nat /\ op.row \in Rows
        /\ computeEnded[r] \in Nat /\ computeEnded'[r] \in Nat
    BY <1>1, CommFields DEF TypeOK
  <2>4. Runs(r, op) => Runs(r, op)'
    BY <2>1, <2>3 DEF Runs
  <2>5. \A q \in told[r] : sig'[q][op.row][r] = sig[q][op.row][r]
    BY <2>3 DEF WordsKept, TypeOK
  <2>6. \A q \in copied[r] : mem'[q][op.row][r] = mem[q][op.row][r]
    OBVIOUS
  <2>7. HeadDid(r, op)'
    BY <2>2, <2>4, <2>5, <2>6 DEF HeadDid, HeadKept
  <2> QED BY <2>1, <2>7, HeadInvFrom
<1>2. CASE CommHead(r) \notin CommNums(r)
  <2>1. copied[r] = {} /\ told[r] = {}
    BY <1>2, Running DEF HeadInv
  <2> QED BY <2>1, HeadInvFrom DEF HeadDid, HeadKept
<1> QED BY <1>1, <1>2

LEMMA HeadInvEnd ==
  ASSUME TypeOK', NEW r \in Ranks, copied'[r] = {}, told'[r] = {}
  PROVE  HeadInv(r)'
BY HeadInvFrom DEF HeadDid

\* One more copy, of the right item.
LEMMA HeadInvCopy ==
  ASSUME TypeOK, TypeOK', NEW r \in Ranks, HeadInv(r), CommKept(r), WordsKept(r),
         NEW op, Runs(r, op), op.kind = "gather", op.row \in Slots,
         NEW dst \in Ranks \ copied[r],
         WritesPlace(dst, op.row, r, Item(r, op.session, op.row)),
         copied' = [copied EXCEPT ![r] = @ \cup {dst}],
         told' = told, computeEnded' = computeEnded
  PROVE  HeadInv(r)'
<1>1. CommHead(r)' \in CommNums(r)' /\ CommOp(r, CommHead(r))' = op
  BY HeadStaysWhen, HeadStaysOp DEF Runs
<1>2. HeadDid(r, op)
  BY HeadInvHas DEF Runs
<1>3. Runs(r, op)'
  BY <1>1 DEF Runs
<1>4. told[r] = {}
  BY <1>2, HostTypes DEF HeadDid
<1>5. told'[r] = {} /\ copied'[r] = copied[r] \cup {dst}
  BY <1>4 DEF TypeOK
<1>6. \A q \in copied'[r] : mem'[q][op.row][r] = Item(r, op.session, op.row)
  <2>1. copied[r] \subseteq Ranks
    BY HostTypes
  <2>2. /\ mem'[dst][op.row][r] = Item(r, op.session, op.row)
        /\ \A q \in Ranks : q # dst => mem'[q][op.row][r] = mem[q][op.row][r]
    BY PlaceWritten
  <2> QED BY <1>2, <1>5, <2>1, <2>2 DEF HeadDid
<1>7. HeadDid(r, op)'
  BY <1>2, <1>3, <1>5, <1>6 DEF HeadDid
<1> QED BY <1>1, <1>7, HeadInvFrom

\* One more word.
LEMMA HeadInvTell ==
  ASSUME TypeOK, TypeOK', NEW r \in Ranks, HeadInv(r), CommKept(r),
         NEW op, Runs(r, op), op.row \in Rows, op.kind = "gather" => copied[r] = Ranks,
         NEW dst \in Peers(r),
         WritesWord(dst, op.row, r, op.session),
         told' = [told EXCEPT ![r] = @ \cup {dst}],
         copied' = copied, mem' = mem, computeEnded' = computeEnded
  PROVE  HeadInv(r)'
<1>1. CommHead(r)' \in CommNums(r)' /\ CommOp(r, CommHead(r))' = op
  BY HeadStaysWhen, HeadStaysOp DEF Runs
<1>2. HeadDid(r, op)
  BY HeadInvHas DEF Runs
<1>3. Runs(r, op)'
  BY <1>1 DEF Runs
<1>5. told'[r] = told[r] \cup {dst} /\ copied'[r] = copied[r]
  BY DEF TypeOK
<1>6. \A q \in told'[r] : sig'[q][op.row][r] = op.session
  <2>1. dst \in Ranks /\ told[r] \subseteq Ranks
    BY HostTypes DEF Peers
  <2>2. /\ sig'[dst][op.row][r] = op.session
        /\ \A q \in Ranks : q # dst => sig'[q][op.row][r] = sig[q][op.row][r]
    BY <2>1, WordWritten
  <2> QED BY <1>2, <1>5, <2>1, <2>2 DEF HeadDid
<1>7. HeadDid(r, op)'
  BY <1>2, <1>3, <1>5, <1>6 DEF HeadDid
<1> QED BY <1>1, <1>7, HeadInvFrom

-----------------------------------------------------------------------------
(* Words say what lies in the slots. *)

WordTrue(r, q, k, v) ==
  \/ mem[q][k][r] = Item(r, v, k)
  \/ q \in copied[r] /\ CommOp(r, CommHead(r)).row = k

LEMMA WordsTrueFrom ==
  ASSUME NEW r \in Ranks,
         \A q \in Peers(r) : \A k \in Slots : \A v :
           v = sig'[q][k][r] /\ v > 0 => WordTrue(r, q, k, v)'
  PROVE  WordsTrue(r)'
<1>1. ASSUME NEW q \in Peers(r), NEW k \in Slots, (sig[q][k][r] > 0)'
      PROVE  WordTrue(r, q, k, sig[q][k][r])'
  <2> PICK v : v = sig'[q][k][r]
    OBVIOUS
  <2>1. WordTrue(r, q, k, v)'
    BY <1>1
  <2> QED BY <2>1 DEF WordTrue
<1> QED BY <1>1 DEF WordsTrue, WordTrue

LEMMA WordsTrueHas ==
  ASSUME TypeOK, NEW r \in Ranks, WordsTrue(r), NEW q \in Peers(r), NEW k \in Slots, NEW v,
         v = sig[q][k][r], v > 0
  PROVE  v \in Nat /\ q \in Ranks /\ WordTrue(r, q, k, v)
BY WordTypes, RowFacts DEF WordsTrue, WordTrue, Peers

LEMMA WordsTrueKept ==
  ASSUME TypeOK, NEW r \in Ranks, WordsTrue(r), HeadInv(r), HeadStays(r), HeadKept(r),
         WordsKept(r), \A q \in Peers(r) : \A k \in Slots : mem'[q][k][r] = mem[q][k][r]
  PROVE  WordsTrue(r)'
<1>1. ASSUME NEW q \in Peers(r), NEW k \in Slots, NEW v, v = sig'[q][k][r], v > 0
      PROVE  WordTrue(r, q, k, v)'
  <2>1. v = sig[q][k][r]
    BY <1>1, RowFacts DEF WordsKept, Peers
  <2>2. WordTrue(r, q, k, v)
    BY <1>1, <2>1, WordsTrueHas
  <2>3. CASE q \in copied[r] /\ CommOp(r, CommHead(r)).row = k
    <3>1. CommHead(r) \in CommNums(r)
      BY <2>3, Running DEF HeadInv
    <3>2. CommOp(r, CommHead(r))' = CommOp(r, CommHead(r))
      BY <3>1, HeadStaysOp
    <3> QED BY <2>3, <3>2 DEF WordTrue, HeadKept
  <2> QED BY <2>2, <2>3 DEF WordTrue
<1> QED BY <1>1, WordsTrueFrom

LEMMA WordsTrueCopy ==
  ASSUME TypeOK, NEW r \in Ranks, WordsTrue(r), HeadInv(r), CommKept(r), WordsKept(r),
         NEW op, Runs(r, op), op.row \in Slots, NEW dst \in Ranks,
         WritesPlace(dst, op.row, r, Item(r, op.session, op.row)),
         copied' = [copied EXCEPT ![r] = @ \cup {dst}]
  PROVE  WordsTrue(r)'
<1>1. CommOp(r, CommHead(r))' = op /\ CommOp(r, CommHead(r)) = op
  BY HeadStaysWhen, HeadStaysOp DEF Runs
<1>2. copied'[r] = copied[r] \cup {dst}
  BY DEF TypeOK
<1>3. \A q, p \in Ranks : \A w \in Slots :
        q # dst \/ w # op.row \/ p # r => mem'[q][w][p] = mem[q][w][p]
  BY PlaceWritten
<1>4. ASSUME NEW q \in Peers(r), NEW k \in Slots, NEW v, v = sig'[q][k][r], v > 0
      PROVE  WordTrue(r, q, k, v)'
  <2>1. v = sig[q][k][r]
    BY <1>4, RowFacts DEF WordsKept, Peers
  <2>2. WordTrue(r, q, k, v) /\ q \in Ranks
    BY <1>4, <2>1, WordsTrueHas
  <2>3. CASE q \in copied'[r] /\ k = op.row
    BY <2>3, <1>1 DEF WordTrue
  <2>4. CASE q # dst \/ k # op.row
    BY <1>1, <1>2, <1>3, <2>2, <2>4 DEF WordTrue
  <2> QED BY <1>2, <2>3, <2>4
<1> QED BY <1>4, WordsTrueFrom

LEMMA WordsTrueTell ==
  ASSUME TypeOK, NEW r \in Ranks, WordsTrue(r), HeadInv(r), CommKept(r),
         NEW op, Runs(r, op), op.row \in Rows, op.session \in Nat,
         op.kind = "gather" <=> op.row \in Slots,
         op.kind = "gather" => copied[r] = Ranks,
         NEW dst \in Peers(r), WritesWord(dst, op.row, r, op.session),
         mem' = mem, copied' = copied
  PROVE  WordsTrue(r)'
<1>1. CommOp(r, CommHead(r))' = op /\ CommOp(r, CommHead(r)) = op
  BY HeadStaysWhen, HeadStaysOp DEF Runs
<1>2. HeadDid(r, op)
  BY <1>1, HeadInvHas
<1>3. dst \in Ranks
  BY DEF Peers
<1>4. /\ sig'[dst][op.row][r] = op.session
      /\ \A q, p \in Ranks : \A w \in Rows :
           q # dst \/ w # op.row \/ p # r => sig'[q][w][p] = sig[q][w][p]
  BY <1>3, WordWritten
<1>5. ASSUME NEW q \in Peers(r), NEW k \in Slots, NEW v, v = sig'[q][k][r], v > 0
      PROVE  WordTrue(r, q, k, v)'
  <2>1. CASE q = dst /\ k = op.row
    <3>1. v = op.session /\ q \in copied[r]
      BY <1>3, <1>4, <1>5, <2>1
    <3>2. mem[q][k][r] = Item(r, v, k)
      BY <1>2, <2>1, <3>1 DEF HeadDid
    <3> QED BY <3>2 DEF WordTrue
  <2>2. CASE q # dst \/ k # op.row
    <3>1. v = sig[q][k][r]
      BY <1>4, <1>5, <2>2, RowFacts DEF Peers
    <3>2. WordTrue(r, q, k, v)
      BY <1>5, <3>1, WordsTrueHas
    <3> QED BY <1>1, <3>2 DEF WordTrue
  <2> QED BY <2>1, <2>2
<1> QED BY <1>5, WordsTrueFrom

\* When all peers are told, the words say what was copied.
LEMMA WordsTrueEnd ==
  ASSUME TypeOK, NEW r \in Ranks, WordsTrue(r), HeadInv(r), told[r] = Peers(r),
         mem' = mem, sig' = sig
  PROVE  WordsTrue(r)'
<1>1. ASSUME NEW q \in Peers(r), NEW k \in Slots, NEW v, v = sig'[q][k][r], v > 0
      PROVE  WordTrue(r, q, k, v)'
  <2> PICK op : op = CommOp(r, CommHead(r))
    OBVIOUS
  <2>1. WordTrue(r, q, k, v) /\ HeadDid(r, op)
    BY <1>1, WordsTrueHas, HeadInvHas
  <2>2. CASE q \in copied[r] /\ op.row = k
    <3>1. v = op.session
      BY <1>1, <2>1, <2>2 DEF HeadDid
    <3> QED BY <2>1, <2>2, <3>1 DEF HeadDid, WordTrue
  <2> QED BY <2>1, <2>2 DEF WordTrue
<1> QED BY <1>1, WordsTrueFrom

-----------------------------------------------------------------------------
(* What is gathered stays until it has been read. *)

ToGather(r, s, k, at) ==
  /\ at \in CommNums(r)
  /\ CommOp(r, at).kind = "gather" /\ CommOp(r, at).session = s /\ CommOp(r, at).row = k

HasGathered(r, s, k, at) ==
  /\ at <= commEnded[r]
  /\ \A n \in CommNums(r) : Before(s, k, CommOp(r, n).session, CommOp(r, n).row)
  /\ \A q \in Peers(r) : sig[r][k][q] >= s
  /\ \A q \in Ranks : mem[r][k][q] = Item(q, s, k)

LEMMA GatheredParts ==
  ASSUME NEW r, NEW s, NEW k, NEW at
  PROVE  /\ Gathered(r, s, k, at)
              <=> HostPast(r, s, k) /\ (ToGather(r, s, k, at) \/ HasGathered(r, s, k, at))
         /\ Gathered(r, s, k, at)'
              <=> HostPast(r, s, k)' /\ (ToGather(r, s, k, at)' \/ HasGathered(r, s, k, at)')
BY Zenon DEF Gathered, ToGather, HasGathered

\* The program has not gone beyond session s while the rank reads it.
LEMMA StillReadHead ==
  ASSUME TypeOK, NEW r \in Ranks, CommInv(r), NEW s \in Nat, StillRead(r, s),
         CommHead(r) \in CommNums(r)
  PROVE  CommOp(r, CommHead(r)).session <= s
<1> PICK op : op = CommOp(r, CommHead(r))
  OBVIOUS
<1>1. op.session \in Nat /\ HostPast(r, op.session, op.row) /\ sessionIdx[r] \in Nat
  BY CommFields, HostTypes DEF CommInv
<1>2. CASE inSession[r] /\ s = sessionIdx[r]
  BY <1>1, <1>2 DEF HostPast
<1>3. ASSUME NEW m \in CommNums(r), Destroys(r, m, s) PROVE op.session <= s
  BY <1>3, HeadFirst DEF Destroys
<1> QED BY <1>2, <1>3 DEF StillRead

\* Enqueueing, and what happens elsewhere.
LEMMA GatheredKept ==
  ASSUME TypeOK, TypeOK', NEW r \in Ranks, NEW s \in Nat, NEW k \in Slots, NEW at,
         Gathered(r, s, k, at), CommKept(r) \/ \E op : NextOp(r, op),
         HostGoesOn(r), WordsGrow(r),
         HasGathered(r, s, k, at) => \A q \in Ranks : mem'[r][k][q] = Item(q, s, k)
  PROVE  Gathered(r, s, k, at)'
<1>1. HostPast(r, s, k) /\ HostPast(r, s, k)'
  BY GatheredParts, RowFacts DEF HostGoesOn
<1>2. CASE ToGather(r, s, k, at)
  <2>1. HeadStays(r)
    BY HeadStaysWhen DEF NextOp
  <2>2. ToGather(r, s, k, at)'
    BY <1>2, <2>1 DEF ToGather, HeadStays
  <2> QED BY <1>1, <2>2, GatheredParts
<1>3. CASE HasGathered(r, s, k, at)
  <2>1. \A q \in Peers(r) : sig'[r][k][q] >= s
    <3>1. \A q \in Peers(r) : /\ sig[r][k][q] \in Nat /\ sig'[r][k][q] \in Nat
                              /\ sig'[r][k][q] >= sig[r][k][q]
      BY RowFacts DEF Peers, WordsGrow, TypeOK
    <3> QED BY <3>1, <1>3 DEF HasGathered
  <2>2. \A n \in CommNums(r)' : Before(s, k, CommOp(r, n)'.session, CommOp(r, n)'.row)
    <3>1. CASE CommKept(r)
      BY <1>3, <3>1 DEF HasGathered, CommKept
    <3>2. ASSUME NEW op, NextOp(r, op)
          PROVE  \A n \in CommNums(r)' : Before(s, k, CommOp(r, n)'.session, CommOp(r, n)'.row)
      <4>1. Before(s, k, op.session, op.row)
        BY <1>1, <3>2, RowFacts DEF NextOp
      <4> QED BY <1>3, <3>2, <4>1 DEF HasGathered, NextOp, CommGets
    <3> QED BY <3>1, <3>2
  <2>3. commEnded'[r] = commEnded[r]
    BY DEF CommKept, NextOp, CommGets
  <2>4. HasGathered(r, s, k, at)'
    BY <1>3, <2>1, <2>2, <2>3 DEF HasGathered, Before
  <2> QED BY <1>1, <2>4, GatheredParts
<1> QED BY <1>2, <1>3, GatheredParts

\* The rank's own next all-gather into the slot is of no later session.
LEMMA OwnCopyKeepsGathered ==
  ASSUME TypeOK, NEW r \in Ranks, CommInv(r), NEW op, Runs(r, op), op.row \in Slots,
         NEW dst \in Ranks, NEW v, WritesPlace(dst, op.row, r, v),
         NEW s \in Nat, NEW k \in Slots, NEW at, StillRead(r, s), HasGathered(r, s, k, at)
  PROVE  \A q \in Ranks : mem'[r][k][q] = Item(q, s, k)
<1>1. op.session <= s /\ op.session \in Nat
  BY StillReadHead, CommFields DEF Runs
<1>2. Before(s, k, op.session, op.row) /\ k \in Nat
  BY RowFacts DEF HasGathered, Runs
<1>3. op.row # k
  BY <1>1, <1>2 DEF Before
<1>4. \A q \in Ranks : mem'[r][k][q] = mem[r][k][q]
  BY <1>3, PlaceWritten
<1> QED BY <1>4 DEF HasGathered

\* Nor is a peer's.
LEMMA PeerCopyKeepsGathered ==
  ASSUME TypeOK, NEW r \in Ranks, HostInv(r), CommInv(r), WordsPast(r), HeadInv(r),
         NEW p \in Peers(r), HostInv(p), CommInv(p), SessionsClosed(p), WordsPast(p), HeadInv(p),
         NEW op, Runs(p, op), op.kind = "gather", op.row \in Slots,
         NEW dst \in Ranks \ copied[p], NEW v, WritesPlace(dst, op.row, p, v),
         NEW s \in Nat, s >= 1, NEW k \in Slots, NEW at, StillRead(r, s), HasGathered(r, s, k, at)
  PROVE  \A q \in Ranks : mem'[r][k][q] = Item(q, s, k)
<1>1. p \in Ranks /\ r \in Peers(p) /\ CommHead(p) \in CommNums(p)
      /\ CommOp(p, CommHead(p)) = op
  BY DEF Peers, Runs
<1>2. op.session <= s /\ op.session \in Nat
  BY <1>1, StillReadNotClosed, NobodyAhead, CommFields
<1>3. CASE dst = r /\ op.row = k
  <2> PICK w : w = sig[r][k][p]
    OBVIOUS
  <2>1. w \in Nat /\ w >= s /\ w > 0 /\ k \in Rows /\ k \in Nat
    BY <1>1, WordTypes, RowFacts DEF HasGathered
  <2>2. WordPast(p, r, k, w)
    BY <1>1, <2>1, WordsPastHas
  <2>3. Before(w, k, op.session, op.row) \/ r \in told[p]
    BY <2>2, <1>1 DEF WordPast
  <2>4. r \in told[p]
    BY <1>2, <1>3, <2>1, <2>3 DEF Before
  <2>5. HeadDid(p, op)
    BY <1>1, HeadInvHas
  <2>6. copied[p] = Ranks
    BY <2>4, <2>5 DEF HeadDid
  <2> QED BY <2>6
<1>4. CASE dst # r \/ op.row # k
  <2>1. \A q \in Ranks : mem'[r][k][q] = mem[r][k][q]
    BY <1>1, <1>4, PlaceWritten
  <2> QED BY <2>1 DEF HasGathered
<1> QED BY <1>3, <1>4

\* The tensor of a later session is filled only when the reads before it are done.
LEMMA FillKeepsGathered ==
  ASSUME TypeOK, NEW r \in Ranks, NEW f \in ComputeNums(r), NEW op, op = ComputeOp(r, f),
         FillWaitedFor(r, f), WritesPlace(r, op.slot, r, Item(r, op.session, op.slot)),
         NEW s \in Nat, op.session <= s, NEW k \in Slots, NEW at,
         Gathered(r, s, k, at), HasGathered(r, s, k, at)
  PROVE  \A q \in Ranks : mem'[r][k][q] = Item(q, s, k)
<1>0. op.session \in Nat /\ op.slot \in Slots /\ k \in Nat /\ sessionIdx[r] \in Nat
  BY ComputeFields, RowFacts, HostTypes
<1>1. CASE op.slot # k
  <2>1. \A q \in Ranks : mem'[r][k][q] = mem[r][k][q]
    BY <1>0, <1>1, PlaceWritten
  <2> QED BY <2>1 DEF HasGathered
<1>2. CASE op.slot = k
  <2>1. op.session = s
    <3>1. CASE inplace[r] /\ op.session = sessionIdx[r] /\ op.slot = slotIdx[r]
      <4>1. HostPast(r, s, k)
        BY GatheredParts
      <4> QED BY <1>0, <3>1, <4>1 DEF HostPast
    <3>2. ASSUME NEW m \in CommNums(r), CommOp(r, m).session = op.session,
                 CommOp(r, m).row = op.slot
          PROVE  FALSE
      <4>1. Before(s, k, op.session, k)
        BY <1>2, <3>2 DEF HasGathered
      <4> QED BY <1>0, <4>1 DEF Before
    <3> QED BY <3>1, <3>2 DEF FillWaitedFor
  <2>2. /\ mem'[r][k][r] = Item(r, s, k)
        /\ \A q \in Ranks : q # r => mem'[r][k][q] = mem[r][k][q]
    BY <1>0, <1>2, <2>1, PlaceWritten
  <2> QED BY <2>2 DEF HasGathered
<1> QED BY <1>1, <1>2

\* When an all-gather is done, everything has arrived.
LEMMA AllArrived ==
  ASSUME TypeOK, NEW r \in Ranks, CommInv(r), WordsPast(r), HeadInv(r),
         NEW op, Runs(r, op), op.kind = "gather", told[r] = Peers(r),
         \A q \in Peers(r) : sig[r][op.row][q] >= op.session,
         \A p \in Peers(r) : /\ HostInv(p) /\ CommInv(p) /\ SessionsClosed(p)
                             /\ WordsPast(p) /\ HeadInv(p) /\ WordsTrue(p)
  PROVE  \A q \in Ranks : mem[r][op.row][q] = Item(q, op.session, op.row)
<1>0. /\ CommHead(r) \in CommNums(r) /\ CommOp(r, CommHead(r)) = op
      /\ op.session \in Nat /\ op.session >= 1 /\ op.row \in Slots /\ op.row \in Nat
  BY CommFields DEF Runs, CommInv
<1>1. mem[r][op.row][r] = Item(r, op.session, op.row)
  <2>1. told[r] # {}
    <3> PICK q : q = (IF r = 0 THEN 1 ELSE 0)
      OBVIOUS
    <3>1. q \in Peers(r)
      BY NumRanksAssumption DEF Peers, Ranks
    <3> QED BY <3>1
  <2>2. HeadDid(r, op)
    BY <1>0, HeadInvHas
  <2> QED BY <2>1, <2>2 DEF HeadDid
<1>2. ASSUME NEW p \in Peers(r) PROVE mem[r][op.row][p] = Item(p, op.session, op.row)
  <2> PICK v : v = sig[r][op.row][p]
    OBVIOUS
  <2>0. p \in Ranks /\ r \in Peers(p)
    BY DEF Peers
  <2>1. /\ CommHead(p) \in CommNums(p) => CommOp(p, CommHead(p)).session <= op.session
        /\ v <= op.session
    BY <1>0, GatherSeesNoLater, RowFacts
  <2>2. v = op.session /\ v > 0
    BY <2>0, <2>1, <1>0, WordTypes, RowFacts
  <2>3. WordTrue(p, r, op.row, v)
    BY <1>0, <2>0, <2>2, WordsTrueHas
  <2>4. CASE r \in copied[p] /\ CommOp(p, CommHead(p)).row = op.row
    <3> PICK o : o = CommOp(p, CommHead(p))
      OBVIOUS
    <3>1. HeadDid(p, o) /\ Runs(p, o)
      BY <2>0, <2>4, HeadInvHas DEF HeadDid
    <3>2. o.session \in Nat /\ o.session <= op.session
      BY <2>0, <2>1, <3>1, CommFields DEF Runs
    <3>3. WordPast(p, r, op.row, v)
      BY <1>0, <2>0, <2>2, WordsPastHas, RowFacts
    <3>4. o.session = v
      BY <1>0, <2>2, <2>4, <3>1, <3>2, <3>3 DEF WordPast, Before, Runs
    <3> QED BY <2>2, <2>4, <3>1, <3>4 DEF HeadDid
  <2> QED BY <2>2, <2>3, <2>4 DEF WordTrue
<1> QED BY <1>1, <1>2 DEF Peers

\* The end of an operation at the head.
LEMMA GatheredEnd ==
  ASSUME TypeOK, NEW r \in Ranks, CommInv(r), CommDrops(r), HostGoesOn(r),
         NEW op, Runs(r, op), sig' = sig, mem' = mem,
         \A q \in Peers(r) : sig[r][op.row][q] >= op.session,
         op.kind = "gather" =>
           \A q \in Ranks : mem[r][op.row][q] = Item(q, op.session, op.row),
         NEW s \in Nat, NEW k \in Slots, NEW at \in Nat, Gathered(r, s, k, at)
  PROVE  Gathered(r, s, k, at)'
<1>1. HostPast(r, s, k)'
  BY GatheredParts, RowFacts DEF HostGoesOn
<1>2. commEnded[r] \in Nat /\ CommHead(r) = commEnded[r] + 1
  BY CommNumbers
<1>3. CASE HasGathered(r, s, k, at)
  <2>1. HasGathered(r, s, k, at)'
    BY <1>2, <1>3 DEF HasGathered, CommDrops
  <2> QED BY <1>1, <2>1, GatheredParts
<1>4. CASE ToGather(r, s, k, at) /\ at # CommHead(r)
  <2>1. ToGather(r, s, k, at)'
    BY <1>4 DEF ToGather, CommDrops
  <2> QED BY <1>1, <2>1, GatheredParts
<1>5. CASE ToGather(r, s, k, at) /\ at = CommHead(r)
  <2>1. op.kind = "gather" /\ op.session = s /\ op.row = k
    BY <1>5 DEF ToGather, Runs
  <2>2. ASSUME NEW n \in CommNums(r)'
        PROVE  Before(s, k, CommOp(r, n)'.session, CommOp(r, n)'.row)
    <3>1. n \in CommNums(r) /\ n # CommHead(r) /\ CommOp(r, n)' = CommOp(r, n)
      BY <2>2 DEF CommDrops
    <3> QED BY <2>1, <3>1, HeadFirst DEF Runs
  <2>3. HasGathered(r, s, k, at)'
    BY <1>2, <1>5, <2>1, <2>2 DEF HasGathered, CommDrops, Before
  <2> QED BY <1>1, <2>3, GatheredParts
<1> QED BY <1>3, <1>4, <1>5, GatheredParts

-----------------------------------------------------------------------------
(* What waits for the streams: handles and reads, fills and in-place tensors. *)

\* Handle or enqueued read of the all-gather with number n.
Reader(r, n, s, k) ==
  \/ s = sessionIdx[r] /\ [slot |-> k, at |-> n] \in handles[r]
  \/ \E m \in ComputeNums(r) : Uses(r, m, s, k, n)

LEMMA ReadersFrom ==
  ASSUME NEW r \in Ranks,
         \A n \in CommNums(r)' : \A op :
           op = CommOp(r, n)' /\ op.kind = "gather" => Reader(r, n, op.session, op.row)'
  PROVE  ReadersToCome(r)'
<1>1. ASSUME NEW n \in CommNums(r)', (CommOp(r, n).kind = "gather")'
      PROVE  Reader(r, n, CommOp(r, n).session, CommOp(r, n).row)'
  <2> PICK op : op = CommOp(r, n)'
    OBVIOUS
  <2>1. Reader(r, n, op.session, op.row)'
    BY <1>1
  <2> QED BY <2>1 DEF Reader, Uses
<1> QED BY <1>1 DEF ReadersToCome, Reader

LEMMA ReadersHas ==
  ASSUME NEW r \in Ranks, ReadersToCome(r), NEW n \in CommNums(r), NEW op, op = CommOp(r, n),
         op.kind = "gather"
  PROVE  Reader(r, n, op.session, op.row)
BY DEF ReadersToCome, Reader

\* The readers of all-gathers not done yet remain.
KeepsReaders(r) ==
  \A n \in CommNums(r) : \A s \in Nat : \A k \in Slots :
    Reader(r, n, s, k) => Reader(r, n, s, k)'

LEMMA ReadersKept ==
  ASSUME TypeOK, NEW r \in Ranks, CommInv(r), ReadersToCome(r), KeepsReaders(r),
         \/ CommKept(r)
         \/ CommDrops(r)
         \/ \E op : /\ CommGets(r, op)
                    /\ op.kind = "gather" => \A n : n = CommEvent(r) + 1
                                                      => Reader(r, n, op.session, op.row)'
  PROVE  ReadersToCome(r)'
<1>1. ASSUME NEW n \in CommNums(r), NEW op, op = CommOp(r, n), op.kind = "gather"
      PROVE  Reader(r, n, op.session, op.row)'
  <2>1. op.session \in Nat /\ op.row \in Slots
    BY <1>1, CommFields DEF CommInv
  <2> QED BY <1>1, <2>1, ReadersHas DEF KeepsReaders
<1>2. CASE CommKept(r) \/ CommDrops(r)
  <2>1. \A n \in CommNums(r)' : n \in CommNums(r) /\ CommOp(r, n)' = CommOp(r, n)
    BY <1>2 DEF CommKept, CommDrops
  <2> QED BY <1>1, <2>1, ReadersFrom
<1>3. ASSUME NEW o, CommGets(r, o),
             o.kind = "gather" => \A n : n = CommEvent(r) + 1 => Reader(r, n, o.session, o.row)'
      PROVE  ReadersToCome(r)'
  <2>1. ASSUME NEW n \in CommNums(r)', NEW op, op = CommOp(r, n)', op.kind = "gather"
        PROVE  Reader(r, n, op.session, op.row)'
    <3>1. CASE n \in CommNums(r)
      BY <1>1, <1>3, <2>1, <3>1 DEF CommGets
    <3>2. CASE n = CommEvent(r) + 1
      BY <1>3, <2>1, <3>2 DEF CommGets
    <3> QED BY <1>3, <3>1, <3>2 DEF CommGets
  <2> QED BY <2>1, ReadersFrom
<1> QED BY <1>2, <1>3

LEMMA KeepsReadersWhen ==
  ASSUME NEW r \in Ranks, sessionIdx'[r] = sessionIdx[r], handles[r] \subseteq handles'[r],
         ComputeKept(r) \/ \E op : ComputeGets(r, op)
  PROVE  KeepsReaders(r)
<1>1. /\ ComputeNums(r) \subseteq ComputeNums(r)'
      /\ \A m \in ComputeNums(r) : ComputeOp(r, m)' = ComputeOp(r, m)
  BY DEF ComputeKept, ComputeGets
<1> QED BY <1>1 DEF KeepsReaders, Reader, Uses

-----------------------------------------------------------------------------

LEMMA InplaceFilledFrom ==
  ASSUME NEW r \in Ranks,
         inplace'[r] => \A s, k, by : s = sessionIdx'[r] /\ k = slotIdx'[r]
                                        /\ by = ComputeEvent(r)' => Filled(r, s, k, by)',
         \A n \in CommNums(r)' : \A op :
           op = CommOp(r, n)' /\ op.kind = "gather" /\ op.inplace
             => Filled(r, op.session, op.row, op.after)'
  PROVE  InplaceFilled(r)'
<1>1. ASSUME inplace'[r] PROVE Filled(r, sessionIdx[r], slotIdx[r], ComputeEvent(r))'
  <2> PICK s, k, by : s = sessionIdx'[r] /\ k = slotIdx'[r] /\ by = ComputeEvent(r)'
    OBVIOUS
  <2>1. Filled(r, s, k, by)'
    BY <1>1
  <2> QED BY <2>1 DEF Filled
<1>2. ASSUME NEW n \in CommNums(r)', (CommOp(r, n).kind = "gather")', CommOp(r, n)'.inplace
      PROVE  Filled(r, CommOp(r, n).session, CommOp(r, n).row, CommOp(r, n).after)'
  <2> PICK op : op = CommOp(r, n)'
    OBVIOUS
  <2>1. Filled(r, op.session, op.row, op.after)'
    BY <1>2
  <2> QED BY <2>1 DEF Filled
<1> QED BY <1>1, <1>2 DEF InplaceFilled

\* A fill stays enqueued, or the tensor filled.

FillToCome(r, s, k, by) ==
  \E m \in ComputeNums(r) : LET op == ComputeOp(r, m)
                            IN  m <= by /\ op.kind = "fill" /\ op.session = s /\ op.slot = k

IsFilled(r, s, k) ==
  /\ mem[r][k][r] = Item(r, s, k)
  /\ \A m \in ComputeNums(r) : ComputeOp(r, m).session >= s

LEMMA FilledParts ==
  ASSUME NEW r, NEW s, NEW k, NEW by
  PROVE  /\ Filled(r, s, k, by) <=> FillToCome(r, s, k, by) \/ IsFilled(r, s, k)
         /\ Filled(r, s, k, by)' <=> FillToCome(r, s, k, by)' \/ IsFilled(r, s, k)'
BY Zenon DEF Filled, FillToCome, IsFilled

\* The tensor of an all-gather that is still to be enqueued, or to be done.
Wanted(r, s, k) ==
  \/ inplace[r] /\ s = sessionIdx[r] /\ k = slotIdx[r]
  \/ \E n \in CommNums(r) : /\ CommOp(r, n).kind = "gather"
                            /\ CommOp(r, n).session = s /\ CommOp(r, n).row = k

LEMMA InplaceSlot ==
  ASSUME TypeOK, NEW r \in Ranks, HostInv(r), inplace[r]
  PROVE  inSession[r] /\ slotIdx[r] \in Slots /\ sessionIdx[r] >= 1
<1>1. /\ inSession[r] /\ slotIdx[r] < Gathers[sessionIdx[r]]
      /\ sessionIdx[r] \in Nat /\ sessionIdx[r] >= 1 /\ sessionIdx[r] <= Len(Gathers)
      /\ slotIdx[r] \in Nat
  BY HostTypes DEF HostInv, MoreGathers
<1>2. Gathers[sessionIdx[r]] \in 0 .. PerSession
  <2>1. sessionIdx[r] \in 1 .. Len(Gathers)
    BY <1>1
  <2> QED BY <2>1, GathersAssumption, ElementOfSeq
<1> QED BY <1>1, <1>2, PerSessionAssumption DEF Slots

LEMMA WantedTypes ==
  ASSUME TypeOK, NEW r \in Ranks, HostInv(r), CommInv(r), NEW s, NEW k, Wanted(r, s, k)
  PROVE  s \in Nat /\ k \in Slots /\ s <= sessionIdx[r]
<1>1. CASE inplace[r] /\ s = sessionIdx[r] /\ k = slotIdx[r]
  BY <1>1, InplaceSlot, HostTypes
<1>2. ASSUME NEW n \in CommNums(r), CommOp(r, n).kind = "gather",
             CommOp(r, n).session = s, CommOp(r, n).row = k
      PROVE  s \in Nat /\ k \in Slots /\ s <= sessionIdx[r]
  <2>1. HostPast(r, s, k) /\ s \in Nat /\ k \in Slots
    BY <1>2, CommFields DEF CommInv
  <2> QED BY <2>1, HostTypes DEF HostPast
<1> QED BY <1>1, <1>2 DEF Wanted

\* While the tensor of session s is wanted, the streams have nothing of a later session
\* that reads the slot or fills it.
LEMMA WantedFill ==
  ASSUME TypeOK, NEW r \in Ranks, HostInv(r), CommInv(r), ReadersToCome(r), ComputeInv(r),
         NEW s, NEW k, Wanted(r, s, k), computeEnded[r] + 1 \in ComputeNums(r),
         ComputeOp(r, computeEnded[r] + 1).kind = "fill"
  PROVE  ComputeOp(r, computeEnded[r] + 1).session <= s
<1> PICK f : f = computeEnded[r] + 1
  OBVIOUS
<1> PICK op : op = ComputeOp(r, f)
  OBVIOUS
<1>0. /\ s \in Nat /\ k \in Slots /\ f \in ComputeNums(r) /\ f \in Nat
      /\ op.session \in Nat /\ op.session <= sessionIdx[r] /\ sessionIdx[r] \in Nat
      /\ op.kind = "fill" /\ computeEnded[r] \in Nat
  BY WantedTypes, ComputeFields, HostTypes, ComputeNumbers DEF ComputeInv
<1>1. CASE s = sessionIdx[r]
  BY <1>0, <1>1
<1>2. ASSUME NEW m \in ComputeNums(r), ComputeOp(r, m).kind = "use",
             ComputeOp(r, m).session = s
      PROVE  op.session <= s
  <2>1. m # f /\ m \in Nat /\ computeEnded[r] < m
    BY <1>0, <1>2, ComputeNumbers
  <2>2. f < m
    BY <2>1, <1>0
  <2> QED BY <1>0, <1>2, <2>2 DEF ComputeInv
<1>3. ASSUME NEW n \in CommNums(r), CommOp(r, n).kind = "gather",
             CommOp(r, n).session = s, CommOp(r, n).row = k
      PROVE  op.session <= s
  <2>1. Reader(r, n, s, k)
    BY <1>3, ReadersHas
  <2> QED BY <1>1, <1>2, <2>1 DEF Reader, Uses
<1> QED BY <1>1, <1>3 DEF Wanted

LEMMA WantedCopy ==
  ASSUME TypeOK, NEW r \in Ranks, HostInv(r), CommInv(r), ReadersToCome(r),
         NEW s, NEW k, Wanted(r, s, k), IsFilled(r, s, k),
         NEW op, Runs(r, op), op.kind = "gather", op.row = k
  PROVE  op.session = s
<1>0. /\ s \in Nat /\ k \in Slots /\ s <= sessionIdx[r] /\ k \in Nat
      /\ op.session \in Nat /\ HostPast(r, op.session, k) /\ sessionIdx[r] \in Nat
      /\ CommHead(r) \in CommNums(r) /\ CommOp(r, CommHead(r)) = op
      /\ slotIdx[r] \in Nat
  BY WantedTypes, CommFields, HostTypes, RowFacts DEF Runs, CommInv
<1>1. op.session = s \/ (op.session < s /\ ~(op.session = sessionIdx[r]))
  <2>1. CASE inplace[r] /\ s = sessionIdx[r] /\ k = slotIdx[r]
    BY <1>0, <2>1, InplaceSlot DEF HostPast
  <2>2. ASSUME NEW n \in CommNums(r), CommOp(r, n).session = s, CommOp(r, n).row = k
        PROVE  op.session = s \/ op.session < s
    BY <1>0, <2>2, HeadFirst DEF Before
  <2> QED BY <1>0, <2>1, <2>2 DEF Wanted
<1>2. Reader(r, CommHead(r), op.session, k)
  BY <1>0, ReadersHas
<1>3. ASSUME NEW m \in ComputeNums(r), ComputeOp(r, m).session = op.session
      PROVE  op.session >= s
  BY <1>3 DEF IsFilled
<1> QED BY <1>0, <1>1, <1>2, <1>3 DEF Reader, Uses

KeepsFilled(r) ==
  \A s \in Nat : \A k \in Slots : \A by :
    Wanted(r, s, k) /\ Filled(r, s, k, by) => Filled(r, s, k, by)'

\* Enqueueing, and copies by the rank itself.
LEMMA KeepsFilledWhen ==
  ASSUME TypeOK, NEW r \in Ranks, HostInv(r), CommInv(r),
         ComputeKept(r) \/ \E op : ComputeGets(r, op) /\ op.session = sessionIdx[r],
         \A s \in Nat : \A k \in Slots :
           Wanted(r, s, k) /\ IsFilled(r, s, k) => mem'[r][k][r] = Item(r, s, k)
  PROVE  KeepsFilled(r)
<1> SUFFICES ASSUME NEW s \in Nat, NEW k \in Slots, NEW by, Wanted(r, s, k),
                    Filled(r, s, k, by)
             PROVE  Filled(r, s, k, by)'
  BY DEF KeepsFilled
<1>0. s <= sessionIdx[r] /\ sessionIdx[r] \in Nat
  BY WantedTypes, HostTypes
<1>1. /\ ComputeNums(r) \subseteq ComputeNums(r)'
      /\ \A m \in ComputeNums(r) : ComputeOp(r, m)' = ComputeOp(r, m)
      /\ \A m \in ComputeNums(r)' :
           m \in ComputeNums(r) \/ ComputeOp(r, m)'.session >= s
  BY <1>0 DEF ComputeKept, ComputeGets
<1>2. CASE FillToCome(r, s, k, by)
  <2>1. FillToCome(r, s, k, by)'
    BY <1>1, <1>2 DEF FillToCome
  <2> QED BY <2>1, FilledParts
<1>3. CASE IsFilled(r, s, k)
  <2>1. IsFilled(r, s, k)'
    BY <1>1, <1>3 DEF IsFilled
  <2> QED BY <2>1, FilledParts
<1> QED BY <1>2, <1>3, FilledParts

\* The compute stream goes on.
LEMMA StepKeepsFilled ==
  ASSUME TypeOK, NEW r \in Ranks, HostInv(r), CommInv(r), ReadersToCome(r), ComputeInv(r),
         NEW op, op = ComputeOp(r, computeEnded[r] + 1),
         computeEnded[r] + 1 \in ComputeNums(r), ComputeDrops(r),
         IF op.kind = "fill" THEN WritesPlace(r, op.slot, r, Item(r, op.session, op.slot))
                             ELSE mem' = mem
  PROVE  KeepsFilled(r)
<1> SUFFICES ASSUME NEW s \in Nat, NEW k \in Slots, NEW by, Wanted(r, s, k),
                    Filled(r, s, k, by)
             PROVE  Filled(r, s, k, by)'
  BY DEF KeepsFilled
<1> PICK f : f = computeEnded[r] + 1
  OBVIOUS
<1>0. /\ f \in ComputeNums(r) /\ op = ComputeOp(r, f) /\ op.session \in Nat
      /\ op.slot \in Slots
      /\ ComputeNums(r)' = ComputeNums(r) \ {f}
      /\ \A m \in ComputeNums(r)' : ComputeOp(r, m)' = ComputeOp(r, m)
  BY ComputeFields DEF ComputeDrops
<1>1. ASSUME NEW m \in ComputeNums(r)' PROVE op.session <= ComputeOp(r, m)'.session
  <2>1. m \in ComputeNums(r) /\ f < m
    BY <1>0, <1>1, ComputeNumbers
  <2> QED BY <1>0, <1>1, <2>1 DEF ComputeInv
<1>2. CASE FillToCome(r, s, k, by)
  <2>1. PICK m \in ComputeNums(r) :
          /\ m <= by /\ ComputeOp(r, m).kind = "fill"
          /\ ComputeOp(r, m).session = s /\ ComputeOp(r, m).slot = k
    BY <1>2 DEF FillToCome
  <2>2. CASE m # f
    <3>1. FillToCome(r, s, k, by)'
      BY <1>0, <2>1, <2>2 DEF FillToCome
    <3> QED BY <3>1, FilledParts
  <2>3. CASE m = f
    <3>1. mem'[r][k][r] = Item(r, s, k)
      BY <1>0, <2>1, <2>3, PlaceWritten
    <3>2. \A i \in ComputeNums(r)' : ComputeOp(r, i)'.session >= s
      <4>1. op.session = s
        BY <1>0, <2>1, <2>3
      <4>2. \A i \in ComputeNums(r)' : ComputeOp(r, i)'.session \in Nat
        BY <1>0, ComputeFields
      <4> QED BY <4>1, <4>2, <1>1
    <3>3. IsFilled(r, s, k)'
      BY <3>1, <3>2 DEF IsFilled
    <3> QED BY <3>3, FilledParts
  <2> QED BY <2>2, <2>3
<1>3. CASE IsFilled(r, s, k)
  <2>1. \A m \in ComputeNums(r)' : ComputeOp(r, m)'.session >= s
    BY <1>0, <1>3 DEF IsFilled
  <2>2. mem'[r][k][r] = Item(r, s, k)
    <3>1. CASE op.kind = "fill" /\ op.slot = k
      <4>1. op.session <= s
        BY <3>1, WantedFill
      <4>2. op.session >= s
        BY <1>0, <1>3 DEF IsFilled
      <4>3. op.session = s
        BY <4>1, <4>2, <1>0
      <4> QED BY <1>0, <3>1, <4>3, PlaceWritten
    <3>2. CASE op.kind = "fill" /\ op.slot # k
      BY <1>0, <1>3, <3>2, PlaceWritten DEF IsFilled
    <3>3. CASE op.kind # "fill"
      BY <1>3, <3>3 DEF IsFilled
    <3> QED BY <3>1, <3>2, <3>3
  <2>3. IsFilled(r, s, k)'
    BY <2>1, <2>2 DEF IsFilled
  <2> QED BY <2>3, FilledParts
<1> QED BY <1>2, <1>3, FilledParts

LEMMA InplaceFilledKept ==
  ASSUME TypeOK, NEW r \in Ranks, CommInv(r), HostInv(r), InplaceFilled(r), KeepsFilled(r),
         CommKept(r) \/ CommDrops(r),
         inplace'[r] => /\ inplace[r] /\ sessionIdx'[r] = sessionIdx[r]
                        /\ slotIdx'[r] = slotIdx[r],
         ComputeEvent(r)' >= ComputeEvent(r), ComputeEvent(r)' \in Nat
  PROVE  InplaceFilled(r)'
<1>1. ASSUME NEW n \in CommNums(r)', NEW op, op = CommOp(r, n)', op.kind = "gather", op.inplace
      PROVE  Filled(r, op.session, op.row, op.after)'
  <2>1. n \in CommNums(r) /\ op = CommOp(r, n)
    BY <1>1 DEF CommKept, CommDrops
  <2>2. Wanted(r, op.session, op.row) /\ Filled(r, op.session, op.row, op.after)
    BY <1>1, <2>1 DEF Wanted, InplaceFilled
  <2> QED BY <2>2, WantedTypes DEF KeepsFilled
<1>2. ASSUME inplace'[r], NEW s, NEW k, NEW by, s = sessionIdx'[r], k = slotIdx'[r],
             by = ComputeEvent(r)'
      PROVE  Filled(r, s, k, by)'
  <2>1. Wanted(r, s, k) /\ Filled(r, s, k, ComputeEvent(r))
    BY <1>2 DEF Wanted, InplaceFilled
  <2>2. Filled(r, s, k, by)
    <3>1. \A m \in ComputeNums(r) : m \in Nat /\ m <= ComputeEvent(r) /\ ComputeEvent(r) \in Nat
      BY ComputeNumbers
    <3>2. FillToCome(r, s, k, ComputeEvent(r)) => FillToCome(r, s, k, by)
      BY <3>1, <1>2 DEF FillToCome
    <3> QED BY <2>1, <3>2, FilledParts
  <2> QED BY <2>1, <2>2, WantedTypes DEF KeepsFilled
<1> QED BY <1>1, <1>2, InplaceFilledFrom

\* The next all-gather takes the tensor for the next slot.
LEMMA InplaceFilledNext ==
  ASSUME TypeOK, NEW r \in Ranks, CommInv(r), HostInv(r), InplaceFilled(r), KeepsFilled(r),
         NEW op, CommGets(r, op), ~inplace'[r],
         op.kind = "gather" /\ op.inplace =>
           /\ inplace[r] /\ op.session = sessionIdx[r] /\ op.row = slotIdx[r]
           /\ op.after = ComputeEvent(r)
  PROVE  InplaceFilled(r)'
<1>1. ASSUME NEW n \in CommNums(r)', NEW o, o = CommOp(r, n)', o.kind = "gather", o.inplace
      PROVE  Filled(r, o.session, o.row, o.after)'
  <2>1. CASE n \in CommNums(r)
    <3>1. o = CommOp(r, n)
      BY <1>1, <2>1 DEF CommGets
    <3>2. Wanted(r, o.session, o.row) /\ Filled(r, o.session, o.row, o.after)
      BY <1>1, <2>1, <3>1 DEF Wanted, InplaceFilled
    <3> QED BY <3>2, WantedTypes DEF KeepsFilled
  <2>2. CASE n = CommEvent(r) + 1
    <3>1. o = op
      BY <1>1, <2>2 DEF CommGets
    <3>2. Wanted(r, o.session, o.row) /\ Filled(r, o.session, o.row, o.after)
      BY <1>1, <3>1 DEF Wanted, InplaceFilled
    <3> QED BY <3>2, WantedTypes DEF KeepsFilled
  <2> QED BY <1>1, <2>1, <2>2 DEF CommGets
<1> QED BY <1>1, InplaceFilledFrom

-----------------------------------------------------------------------------
(* The compute stream. *)

FillAwaited(r, n, op) ==
  \/ inplace[r] /\ op.session = sessionIdx[r] /\ op.slot = slotIdx[r]
  \/ \E m \in CommNums(r) : LET g == CommOp(r, m)
                            IN  g.session = op.session /\ g.row = op.slot /\ g.after >= n

UseAwaited(r, n, s) ==
  \/ inSession[r] /\ s = sessionIdx[r]
  \/ \E m \in CommNums(r) : Destroys(r, m, s) /\ CommOp(r, m).after >= n

KeepsAwaited(r) ==
  \A n \in ComputeNums(r) :
    /\ \A op \in ComputeOps : FillAwaited(r, n, op) => FillAwaited(r, n, op)'
    /\ \A s \in Nat : UseAwaited(r, n, s) => UseAwaited(r, n, s)'

KeepsGathered(r) ==
  \A s \in Nat : \A k \in Slots : \A at \in Nat :
    s >= 1 /\ StillRead(r, s) /\ Gathered(r, s, k, at) => Gathered(r, s, k, at)'

\* What the invariant says of one operation on the compute stream.
Sound(r, n, op) ==
  /\ op.session \in 1 .. sessionIdx[r]
  /\ op.kind = "fill" => FillAwaited(r, n, op)
  /\ op.kind = "use" => UseAwaited(r, n, op.session) /\ Gathered(r, op.session, op.slot, op.after)

LEMMA ComputeInvHas ==
  ASSUME NEW r \in Ranks, ComputeInv(r), NEW n \in ComputeNums(r), NEW op,
         op = ComputeOp(r, n)
  PROVE  Sound(r, n, op)
BY DEF ComputeInv, Sound, FillWaitedFor, FillAwaited, UseWaitedFor, UseAwaited

LEMMA ComputeInvFrom ==
  ASSUME NEW r \in Ranks,
         \A n \in ComputeNums(r)' : \A op : op = ComputeOp(r, n)' => Sound(r, n, op)',
         \A n, m \in ComputeNums(r)' :
           m < n => ComputeOp(r, m)'.session <= ComputeOp(r, n)'.session
  PROVE  ComputeInv(r)'
<1> SUFFICES ASSUME NEW n \in ComputeNums(r)'
             PROVE  Sound(r, n, ComputeOp(r, n))'
  BY Zenon DEF ComputeInv, Sound, FillWaitedFor, FillAwaited, UseWaitedFor, UseAwaited
<1> PICK op : op = ComputeOp(r, n)'
  OBVIOUS
<1>1. Sound(r, n, op)'
  OBVIOUS
<1> QED BY <1>1 DEF Sound, FillAwaited, UseAwaited, Gathered

LEMMA UseStillRead ==
  ASSUME TypeOK, NEW r \in Ranks, NEW n \in ComputeNums(r), NEW s, UseAwaited(r, n, s)
  PROVE  StillRead(r, s)
<1>1. n \in Nat /\ computeEnded[r] < n /\ computeEnded[r] \in Nat
  BY ComputeNumbers
<1>2. ASSUME NEW m \in CommNums(r), Destroys(r, m, s), CommOp(r, m).after >= n
      PROVE  CommOp(r, m).after > computeEnded[r]
  <2>1. CommOp(r, m).after \in Nat
    BY CommFields
  <2> QED BY <1>1, <1>2, <2>1
<1> QED BY <1>2 DEF UseAwaited, StillRead

LEMMA SoundKept ==
  ASSUME TypeOK, NEW r \in Ranks, KeepsAwaited(r), KeepsGathered(r),
         sessionIdx'[r] >= sessionIdx[r], sessionIdx'[r] \in Nat,
         NEW n \in ComputeNums(r), NEW op \in ComputeOps, Sound(r, n, op)
  PROVE  Sound(r, n, op)'
<1>1. op.session \in Nat /\ op.session >= 1 /\ op.slot \in Slots /\ op.after \in Nat
      /\ op.session <= sessionIdx[r] /\ sessionIdx[r] \in Nat
  BY HostTypes DEF Sound, ComputeOps
<1>2. op.session \in 1 .. sessionIdx'[r]
  BY <1>1
<1>3. op.kind = "fill" => FillAwaited(r, n, op)'
  BY DEF Sound, KeepsAwaited
<1>4. op.kind = "use" =>
        UseAwaited(r, n, op.session)' /\ Gathered(r, op.session, op.slot, op.after)'
  BY <1>1, UseStillRead DEF Sound, KeepsAwaited, KeepsGathered
<1> QED BY <1>2, <1>3, <1>4 DEF Sound

LEMMA ComputeInvKept ==
  ASSUME TypeOK, NEW r \in Ranks, ComputeInv(r), KeepsAwaited(r), KeepsGathered(r),
         ComputeKept(r) \/ ComputeDrops(r),
         sessionIdx'[r] >= sessionIdx[r], sessionIdx'[r] \in Nat
  PROVE  ComputeInv(r)'
<1>1. \A n \in ComputeNums(r)' : n \in ComputeNums(r) /\ ComputeOp(r, n)' = ComputeOp(r, n)
  BY DEF ComputeKept, ComputeDrops
<1>2. ASSUME NEW n \in ComputeNums(r)', NEW op, op = ComputeOp(r, n)'
      PROVE  Sound(r, n, op)'
  <2>1. n \in ComputeNums(r) /\ op = ComputeOp(r, n) /\ op \in ComputeOps
    BY <1>1, <1>2, ComputeNumbers
  <2>2. Sound(r, n, op)
    BY <2>1, ComputeInvHas
  <2> QED BY <2>1, <2>2, SoundKept
<1>3. \A n, m \in ComputeNums(r)' :
        m < n => ComputeOp(r, m)'.session <= ComputeOp(r, n)'.session
  BY <1>1 DEF ComputeInv
<1> QED BY <1>2, <1>3, ComputeInvFrom

LEMMA ComputeInvNext ==
  ASSUME TypeOK, NEW r \in Ranks, ComputeInv(r), KeepsAwaited(r), KeepsGathered(r),
         NEW op, ComputeGets(r, op), op.session = sessionIdx[r],
         sessionIdx'[r] = sessionIdx[r],
         \A n : n = ComputeEvent(r) + 1 => Sound(r, n, op)'
  PROVE  ComputeInv(r)'
<1> PICK e : e = ComputeEvent(r) + 1
  OBVIOUS
<1>0. /\ ComputeNums(r)' = ComputeNums(r) \cup {e}
      /\ \A n \in ComputeNums(r) : ComputeOp(r, n)' = ComputeOp(r, n)
      /\ ComputeOp(r, e)' = op
      /\ \A n \in ComputeNums(r) : n < e /\ n \in Nat
      /\ e \in Nat /\ sessionIdx[r] \in Nat /\ sessionIdx'[r] >= sessionIdx[r]
      /\ sessionIdx'[r] \in Nat
  BY ComputeNumbers, HostTypes DEF ComputeGets
<1>1. ASSUME NEW n \in ComputeNums(r)', NEW o, o = ComputeOp(r, n)'
      PROVE  Sound(r, n, o)'
  <2>1. CASE n \in ComputeNums(r)
    <3>1. o = ComputeOp(r, n) /\ o \in ComputeOps
      BY <1>0, <1>1, <2>1, ComputeNumbers
    <3>2. Sound(r, n, o)
      BY <2>1, <3>1, ComputeInvHas
    <3> QED BY <1>0, <2>1, <3>1, <3>2, SoundKept
  <2>2. CASE n = e
    BY <1>0, <1>1, <2>2
  <2> QED BY <1>0, <2>1, <2>2
<1>2. ASSUME NEW n \in ComputeNums(r)', NEW m \in ComputeNums(r)', m < n
      PROVE  ComputeOp(r, m)'.session <= ComputeOp(r, n)'.session
  <2>1. m \in ComputeNums(r)
    BY <1>0, <1>2
  <2>2. CASE n \in ComputeNums(r)
    BY <1>0, <1>2, <2>1, <2>2 DEF ComputeInv
  <2>3. CASE n = e
    <3>1. ComputeOp(r, m).session \in 1 .. sessionIdx[r]
      BY <2>1 DEF ComputeInv
    <3> QED BY <1>0, <2>1, <2>3, <3>1
  <2> QED BY <1>0, <2>2, <2>3
<1> QED BY <1>1, <1>2, ComputeInvFrom

\* Enqueueing leaves what the compute stream waits for, and so does the end of an operation
\* that has waited for it.
LEMMA KeepsAwaitedWhen ==
  ASSUME NEW r \in Ranks, HeadStays(r),
         inplace[r] => /\ inplace'[r] /\ sessionIdx'[r] = sessionIdx[r]
                       /\ slotIdx'[r] = slotIdx[r],
         inSession[r] => inSession'[r] /\ sessionIdx'[r] = sessionIdx[r]
  PROVE  KeepsAwaited(r)
BY DEF KeepsAwaited, FillAwaited, UseAwaited, Destroys, HeadStays

LEMMA KeepsAwaitedEnd ==
  ASSUME TypeOK, NEW r \in Ranks, CommDrops(r), HostKept(r), NEW op, Runs(r, op)
  PROVE  KeepsAwaited(r)
<1>1. ASSUME NEW n \in ComputeNums(r), NEW m \in CommNums(r), CommOp(r, m).after >= n
      PROVE  m \in CommNums(r)' /\ CommOp(r, m)' = CommOp(r, m)
  <2>1. n \in Nat /\ computeEnded[r] < n /\ computeEnded[r] \in Nat
    BY ComputeNumbers
  <2>2. CommOp(r, m).after \in Nat
    BY CommFields
  <2>3. m # CommHead(r)
    BY <1>1, <2>1, <2>2 DEF Runs
  <2> QED BY <2>3 DEF CommDrops
<1> QED BY <1>1 DEF KeepsAwaited, FillAwaited, UseAwaited, Destroys, HostKept

LEMMA HandlesInvKept ==
  ASSUME TypeOK, NEW r \in Ranks, HostInv(r), HandlesInv(r), KeepsGathered(r),
         handles'[r] \subseteq handles[r],
         handles'[r] # {} => sessionIdx'[r] = sessionIdx[r]
  PROVE  HandlesInv(r)'
<1>1. ASSUME NEW h \in handles'[r] PROVE Gathered(r, sessionIdx[r], h.slot, h.at)'
  <2> PICK s : s = sessionIdx[r]
    OBVIOUS
  <2>1. /\ h \in handles[r] /\ s = sessionIdx'[r] /\ inSession[r]
        /\ h.slot \in Slots /\ h.at \in Nat /\ s \in Nat /\ s >= 1
    BY <1>1, HostTypes DEF HostInv
  <2>2. StillRead(r, s) /\ Gathered(r, s, h.slot, h.at)
    BY <2>1 DEF StillRead, HandlesInv
  <2>3. Gathered(r, s, h.slot, h.at)'
    BY <2>1, <2>2 DEF KeepsGathered
  <2> QED BY <2>1, <2>3 DEF Gathered
<1> QED BY <1>1 DEF HandlesInv

-----------------------------------------------------------------------------
(* The steps, for the rank that takes them and for the others. *)

LEMMA HostKeptGoesOn ==
  ASSUME NEW r \in Ranks, HostKept(r)
  PROVE  /\ HostGoesOn(r) /\ LastClosed(r)' = LastClosed(r)
         /\ HostInv(r) => HostInv(r)'
BY DEF HostKept, HostGoesOn, HostPast, LastClosed, HostInv, MoreGathers

\* A step of another rank, or of nobody.
SameRank(r) ==
  /\ HostKept(r) /\ HeadKept(r)
  /\ comm'[r] = comm[r] /\ commEnded'[r] = commEnded[r]
  /\ compute'[r] = compute[r] /\ computeEnded'[r] = computeEnded[r]

LEMMA Elsewhere ==
  ASSUME TypeOK, TypeOK', NEW r \in Ranks, RankInv(r), SameRank(r),
         WordsKept(r), MemKept(r), WordsGrow(r),
         \A s \in Nat : \A k \in Slots : \A at \in Nat :
           s >= 1 /\ StillRead(r, s) /\ Gathered(r, s, k, at) /\ HasGathered(r, s, k, at)
             => \A q \in Ranks : mem'[r][k][q] = Item(q, s, k)
  PROVE  RankInv(r)'
<1> USE DEF RankInv
<1>0. /\ CommKept(r) /\ ComputeKept(r) /\ HeadStays(r) /\ HostKept(r) /\ HeadKept(r)
      /\ HostGoesOn(r) /\ LastClosed(r)' = LastClosed(r) /\ HostInv(r)'
      /\ computeEnded[r] \in Nat /\ ComputeEvent(r) \in Nat
  BY KeptComm, KeptCompute, HeadStaysWhen, HostKeptGoesOn, ComputeNumbers DEF SameRank
<1>1. CommInv(r)'
  BY <1>0, CommInvKept
<1>2. SessionsClosed(r)'
  BY <1>0, SessionsClosedKept
<1>3. WordsPast(r)'
  BY <1>0, WordsPastKept DEF HeadKept
<1>4. HeadInv(r)'
  <2>1. \A q \in copied[r] : LET k == CommOp(r, CommHead(r)).row
                             IN  mem'[q][k][r] = mem[q][k][r]
    <3> PICK op : op = CommOp(r, CommHead(r))
      OBVIOUS
    <3>1. ASSUME NEW q \in copied[r] PROVE op.row \in Slots /\ q \in Ranks
      <4>1. HeadDid(r, op)
        BY HeadInvHas
      <4> QED BY <3>1, <4>1, HostTypes DEF HeadDid, Runs, CommInv
    <3> QED BY <3>1 DEF MemKept
  <2>2. computeEnded'[r] >= computeEnded[r]
    BY <1>0 DEF SameRank
  <2> QED BY <1>0, <2>1, <2>2, HeadInvKept
<1>5. WordsTrue(r)'
  <2>1. \A q \in Peers(r) : \A k \in Slots : mem'[q][k][r] = mem[q][k][r]
    BY DEF MemKept, Peers
  <2> QED BY <1>0, <2>1, WordsTrueKept
<1>6. ReadersToCome(r)'
  <2>1. KeepsReaders(r)
    BY <1>0, KeepsReadersWhen DEF HostKept
  <2> QED BY <1>0, <2>1, ReadersKept
<1>7. InplaceFilled(r)'
  <2>1. \A s \in Nat : \A k \in Slots :
          Wanted(r, s, k) /\ IsFilled(r, s, k) => mem'[r][k][r] = Item(r, s, k)
    BY DEF MemKept, IsFilled
  <2>2. KeepsFilled(r)
    BY <1>0, <2>1, KeepsFilledWhen
  <2>3. ComputeEvent(r)' >= ComputeEvent(r) /\ ComputeEvent(r)' \in Nat
    BY <1>0 DEF ComputeKept
  <2> QED BY <1>0, <2>2, <2>3, InplaceFilledKept DEF HostKept
<1>8. KeepsGathered(r)
  BY <1>0, GatheredKept DEF KeepsGathered
<1>9. ComputeInv(r)'
  <2>1. KeepsAwaited(r)
    BY <1>0, KeepsAwaitedWhen DEF HostKept
  <2>2. sessionIdx'[r] >= sessionIdx[r] /\ sessionIdx'[r] \in Nat
    BY <1>0, HostTypes DEF HostKept
  <2> QED BY <1>0, <1>8, <2>1, <2>2, ComputeInvKept
<1>10. HandlesInv(r)'
  BY <1>0, <1>8, HandlesInvKept DEF HostKept
<1> QED BY <1>0, <1>1, <1>2, <1>3, <1>4, <1>5, <1>6, <1>7, <1>9, <1>10

\* What the steps of a host leave as it is.
HostOnly(r) == UNCHANGED <<commEnded, computeEnded, headVars, sig, mem>>

LEMMA HostOnlyKeeps ==
  ASSUME TypeOK, NEW r \in Ranks, HostOnly(r)
  PROVE  /\ HeadKept(r) /\ WordsKept(r) /\ WordsGrow(r) /\ told'[r] = told[r]
         /\ commEnded' = commEnded /\ computeEnded' = computeEnded
         /\ sig' = sig /\ mem' = mem
         /\ computeEnded'[r] >= computeEnded[r]
         /\ computeEnded[r] \in Nat
BY WordTypes DEF HostOnly, headVars, HeadKept, WordsKept, WordsGrow, TypeOK

\* While only its host does something, these parts of a rank's invariant stay.
LEMMA HostStepKeeps ==
  ASSUME TypeOK, TypeOK', NEW r \in Ranks, RankInv(r), HostOnly(r), HostGoesOn(r),
         CommKept(r) \/ \E op : NextOp(r, op)
  PROVE  /\ CommInv(r)' /\ WordsPast(r)' /\ HeadInv(r)' /\ WordsTrue(r)' /\ KeepsGathered(r)
<1> USE DEF RankInv
<1>0. /\ HeadKept(r) /\ WordsKept(r) /\ WordsGrow(r) /\ told'[r] = told[r] /\ mem' = mem
      /\ computeEnded'[r] >= computeEnded[r] /\ HeadStays(r)
  BY HostOnlyKeeps, HeadStaysWhen DEF NextOp
<1>1. CommInv(r)'
  BY CommInvKept, CommInvNext
<1>2. WordsPast(r)'
  BY <1>0, WordsPastKept, WordsPastNext
<1>3. HeadInv(r)'
  BY <1>0, HeadInvKept
<1>4. WordsTrue(r)'
  BY <1>0, WordsTrueKept
<1>5. KeepsGathered(r)
  <2> SUFFICES ASSUME NEW s \in Nat, NEW k \in Slots, NEW at \in Nat, Gathered(r, s, k, at)
               PROVE  Gathered(r, s, k, at)'
    BY DEF KeepsGathered
  <2>1. HasGathered(r, s, k, at) => \A q \in Ranks : mem'[r][k][q] = Item(q, s, k)
    BY <1>0 DEF HasGathered
  <2> QED BY <1>0, <2>1, GatheredKept
<1> QED BY <1>1, <1>2, <1>3, <1>4, <1>5

LEMMA HostStepKeepsFilled ==
  ASSUME TypeOK, NEW r \in Ranks, HostInv(r), CommInv(r), HostOnly(r),
         ComputeKept(r) \/ \E op : ComputeGets(r, op) /\ op.session = sessionIdx[r]
  PROVE  KeepsFilled(r)
<1>1. \A s \in Nat : \A k \in Slots :
        Wanted(r, s, k) /\ IsFilled(r, s, k) => mem'[r][k][r] = Item(r, s, k)
  BY HostOnlyKeeps DEF IsFilled
<1> QED BY <1>1, KeepsFilledWhen

-----------------------------------------------------------------------------
(* The host's steps. *)

LEMMA CreateSessionKeeps ==
  ASSUME TypeOK, TypeOK', NEW r \in Ranks, RankInv(r), CreateSession(r)
  PROVE  RankInv(r)'
<1> USE DEF RankInv
<1>0. /\ inSession[r] = FALSE /\ inSession'[r] = TRUE /\ slotIdx'[r] = 0
      /\ sessionIdx'[r] = sessionIdx[r] + 1 /\ sessionIdx[r] < Len(Gathers)
      /\ inplace'[r] = inplace[r] /\ handles'[r] = handles[r]
      /\ comm' = comm /\ compute' = compute
      /\ HostOnly(r) /\ sessionIdx[r] \in Nat /\ inplace[r] = FALSE /\ handles[r] = {}
  <2>1. inSession[r] = FALSE /\ inplace[r] = FALSE /\ handles[r] = {}
    BY HostTypes DEF CreateSession, HostInv, MoreGathers
  <2> QED BY <2>1 DEF CreateSession, TypeOK, HostOnly
<1>1. CommKept(r) /\ ComputeKept(r) /\ HeadStays(r)
  BY <1>0, HostOnlyKeeps, KeptComm, KeptCompute, HeadStaysWhen
<1>2. HostGoesOn(r)
  BY <1>0, RowFacts DEF HostGoesOn, HostPast
<1>3. HostInv(r)'
  BY <1>0, PerSessionAssumption, GathersAssumption DEF HostInv
<1>4. /\ CommInv(r)' /\ WordsPast(r)' /\ HeadInv(r)' /\ WordsTrue(r)' /\ KeepsGathered(r)
  BY <1>0, <1>1, <1>2, HostStepKeeps
<1>5. SessionsClosed(r)'
  <2>1. LastClosed(r)' = LastClosed(r)
    BY <1>0 DEF LastClosed
  <2> QED BY <1>0, <1>1, <2>1, HostOnlyKeeps, SessionsClosedKept
<1>6. ReadersToCome(r)'
  <2>1. KeepsReaders(r)
    BY <1>0, <1>1 DEF KeepsReaders, Reader, Uses, ComputeKept
  <2> QED BY <1>1, <2>1, ReadersKept
<1>7. InplaceFilled(r)'
  <2>1. KeepsFilled(r)
    BY <1>0, <1>1, HostStepKeepsFilled
  <2>2. ComputeEvent(r)' >= ComputeEvent(r) /\ ComputeEvent(r)' \in Nat
    BY <1>1, ComputeNumbers DEF ComputeKept
  <2> QED BY <1>0, <1>1, <2>1, <2>2, InplaceFilledKept
<1>8. ComputeInv(r)'
  <2>1. KeepsAwaited(r)
    BY <1>0, <1>1, KeepsAwaitedWhen
  <2>2. sessionIdx'[r] >= sessionIdx[r] /\ sessionIdx'[r] \in Nat
    BY <1>0
  <2> QED BY <1>1, <1>4, <2>1, <2>2, ComputeInvKept
<1>9. HandlesInv(r)'
  BY <1>0 DEF HandlesInv
<1> QED BY <1>3, <1>4, <1>5, <1>6, <1>7, <1>8, <1>9

LEMMA GetInplaceTensorKeeps ==
  ASSUME TypeOK, TypeOK', NEW r \in Ranks, RankInv(r), GetInplaceTensor(r)
  PROVE  RankInv(r)'
<1> USE DEF RankInv
<1> PICK op : op = [kind |-> "fill", session |-> sessionIdx[r], slot |-> slotIdx[r], after |-> 0]
  OBVIOUS
<1>0. /\ inSession[r] /\ sessionIdx[r] \in Nat /\ sessionIdx[r] >= 1
      /\ slotIdx[r] \in Slots /\ inplace[r] = FALSE
      /\ inSession'[r] = inSession[r] /\ slotIdx'[r] = slotIdx[r]
      /\ sessionIdx'[r] = sessionIdx[r]
      /\ inplace'[r] = TRUE /\ handles'[r] = handles[r]
      /\ comm' = comm /\ compute' = [compute EXCEPT ![r] = Append(@, op)]
      /\ HostOnly(r) /\ MoreGathers(r)
  <2>1. slotIdx[r] \in Slots
    BY HostTypes, PerSessionAssumption DEF GetInplaceTensor, Slots
  <2>2. inSession[r] /\ sessionIdx[r] >= 1 /\ inplace[r] = FALSE
    BY HostTypes DEF GetInplaceTensor, MoreGathers, HostInv
  <2> QED BY <2>1, <2>2 DEF GetInplaceTensor, TypeOK, HostOnly
<1>1. /\ op \in ComputeOps
      /\ op.kind = "fill" /\ op.session = sessionIdx[r] /\ op.slot = slotIdx[r]
  BY <1>0 DEF ComputeOps
<1>2. /\ CommKept(r) /\ HeadStays(r)
      /\ ComputeGets(r, op) /\ ComputeEvent(r)' = ComputeEvent(r) + 1
  BY <1>0, <1>1, HostOnlyKeeps, KeptComm, ComputeEnqueued, HeadStaysWhen
<1>3. HostGoesOn(r) /\ LastClosed(r)' = LastClosed(r) /\ HostInv(r)'
  BY <1>0 DEF HostGoesOn, HostPast, LastClosed, HostInv, MoreGathers
<1>4. /\ CommInv(r)' /\ WordsPast(r)' /\ HeadInv(r)' /\ WordsTrue(r)' /\ KeepsGathered(r)
  BY <1>0, <1>2, <1>3, HostStepKeeps
<1>5. SessionsClosed(r)'
  BY <1>0, <1>2, <1>3, HostOnlyKeeps, SessionsClosedKept
<1>6. ReadersToCome(r)'
  <2>1. KeepsReaders(r)
    BY <1>0, <1>2, KeepsReadersWhen
  <2> QED BY <1>2, <2>1, ReadersKept
<1>7. InplaceFilled(r)'
  <2>1. KeepsFilled(r)
    BY <1>0, <1>1, <1>2, HostStepKeepsFilled
  <2>2. ASSUME NEW n \in CommNums(r)', NEW o, o = CommOp(r, n)', o.kind = "gather", o.inplace
        PROVE  Filled(r, o.session, o.row, o.after)'
    <3>1. n \in CommNums(r) /\ o = CommOp(r, n)
      BY <1>2, <2>2 DEF CommKept
    <3>2. Wanted(r, o.session, o.row) /\ Filled(r, o.session, o.row, o.after)
      BY <2>2, <3>1 DEF Wanted, InplaceFilled
    <3> QED BY <2>1, <3>2, WantedTypes DEF KeepsFilled
  <2>3. ASSUME NEW s, NEW k, NEW by, s = sessionIdx'[r], k = slotIdx'[r],
               by = ComputeEvent(r)'
        PROVE  Filled(r, s, k, by)'
    <3>1. PICK e : e = ComputeEvent(r) + 1
      OBVIOUS
    <3>2. e \in ComputeNums(r)' /\ ComputeOp(r, e)' = op /\ e <= by
      BY <1>2, <2>3, <3>1, ComputeNumbers DEF ComputeGets
    <3>3. FillToCome(r, s, k, by)'
      BY <1>0, <1>1, <2>3, <3>2 DEF FillToCome
    <3> QED BY <3>3, FilledParts
  <2> QED BY <2>2, <2>3, InplaceFilledFrom
<1>8. ComputeInv(r)'
  <2>1. KeepsAwaited(r)
    BY <1>0, <1>2, KeepsAwaitedWhen
  <2>2. ASSUME NEW n PROVE Sound(r, n, op)'
    BY <1>0, <1>1 DEF Sound, FillAwaited
  <2> QED BY <1>0, <1>1, <1>2, <1>4, <2>1, <2>2, ComputeInvNext
<1>9. HandlesInv(r)'
  BY <1>0, <1>4, HandlesInvKept
<1> QED BY <1>3, <1>4, <1>5, <1>6, <1>7, <1>8, <1>9

LEMMA AllGatherKeeps ==
  ASSUME TypeOK, TypeOK', NEW r \in Ranks, RankInv(r), AllGather(r)
  PROVE  RankInv(r)'
<1> USE DEF RankInv
<1> PICK op : op = [kind |-> "gather", session |-> sessionIdx[r], row |-> slotIdx[r],
                    inplace |-> inplace[r], after |-> ComputeEvent(r)]
  OBVIOUS
<1> PICK e : e = CommEvent(r) + 1
  OBVIOUS
<1>0. /\ inSession[r] /\ sessionIdx[r] \in Nat /\ sessionIdx[r] >= 1
      /\ slotIdx[r] \in Slots /\ slotIdx[r] \in Nat /\ slotIdx[r] < PerSession
      /\ inSession'[r] = inSession[r] /\ slotIdx'[r] = slotIdx[r] + 1
      /\ sessionIdx'[r] = sessionIdx[r]
      /\ inplace'[r] = FALSE
      /\ handles'[r] = handles[r] \cup {[slot |-> slotIdx[r], at |-> e]}
      /\ compute' = compute /\ comm' = [comm EXCEPT ![r] = Append(@, op)]
      /\ HostOnly(r)
  <2>1. slotIdx[r] \in Slots /\ slotIdx[r] \in Nat
    BY HostTypes, PerSessionAssumption DEF AllGather, Slots
  <2>2. inSession[r] /\ sessionIdx[r] >= 1
    BY HostTypes DEF AllGather, MoreGathers, HostInv
  <2> QED BY <2>1, <2>2 DEF AllGather, TypeOK, HostOnly
<1>1. /\ op \in CommOps /\ op.kind = "gather" /\ op.session = sessionIdx[r]
      /\ op.row = slotIdx[r] /\ op.inplace = inplace[r] /\ op.after = ComputeEvent(r)
  BY <1>0, RowFacts, ComputeNumbers, HostTypes DEF CommOps
<1>2. HostGoesOn(r) /\ LastClosed(r)' = LastClosed(r) /\ HostInv(r)'
  BY <1>0, PerSessionAssumption, RowFacts DEF HostGoesOn, HostPast, LastClosed, HostInv
<1>3. CommGets(r, op) /\ ComputeKept(r)
  BY <1>0, <1>1, HostOnlyKeeps, KeptCompute, CommEnqueued
<1>4. NextOp(r, op)
  <2>1. HostPast(r, op.session, op.row)'
    <3> PICK s, k : s = sessionIdx[r] /\ k = slotIdx[r]
      OBVIOUS
    <3>1. HostPast(r, s, k)'
      BY <1>0 DEF HostPast
    <3> QED BY <1>1, <3>1
  <2>2. \A s \in Nat : \A w \in Rows : HostPast(r, s, w) => Before(s, w, op.session, op.row)
    BY <1>0, <1>1 DEF HostPast, Before
  <2> QED BY <1>0, <1>1, <1>2, <1>3, <2>1, <2>2 DEF NextOp
<1>5. /\ CommInv(r)' /\ WordsPast(r)' /\ HeadInv(r)' /\ WordsTrue(r)' /\ KeepsGathered(r)
  BY <1>0, <1>2, <1>4, HostStepKeeps
<1>6. SessionsClosed(r)'
  BY <1>0, <1>2, <1>4, HostOnlyKeeps, SessionsClosedNext
<1>7. ReadersToCome(r)'
  <2>1. KeepsReaders(r)
    BY <1>0, <1>3, KeepsReadersWhen
  <2>2. Reader(r, e, op.session, op.row)'
    BY <1>0, <1>1 DEF Reader
  <2> QED BY <1>3, <2>1, <2>2, ReadersKept
<1>8. InplaceFilled(r)'
  <2>1. KeepsFilled(r)
    BY <1>0, <1>3, HostStepKeepsFilled
  <2> QED BY <1>0, <1>1, <1>3, <2>1, InplaceFilledNext
<1>9. ComputeInv(r)'
  <2>1. KeepsAwaited(r)
    <3>1. HeadStays(r)
      BY <1>3, HeadStaysWhen
    <3>2. e \in CommNums(r)' /\ CommOp(r, e)' = op
      BY <1>3 DEF CommGets
    <3>3. ASSUME NEW n \in ComputeNums(r), NEW o \in ComputeOps, FillAwaited(r, n, o)
          PROVE  FillAwaited(r, n, o)'
      <4>1. CASE inplace[r] /\ o.session = sessionIdx[r] /\ o.slot = slotIdx[r]
        <5>1. op.after >= n
          BY <1>1, ComputeNumbers
        <5> QED BY <1>1, <3>2, <4>1, <5>1 DEF FillAwaited
      <4>2. CASE ~(inplace[r] /\ o.session = sessionIdx[r] /\ o.slot = slotIdx[r])
        BY <3>1, <3>3, <4>2 DEF FillAwaited, HeadStays
      <4> QED BY <4>1, <4>2
    <3>4. ASSUME NEW n \in ComputeNums(r), NEW s \in Nat, UseAwaited(r, n, s)
          PROVE  UseAwaited(r, n, s)'
      BY <1>0, <3>1, <3>4 DEF UseAwaited, HeadStays, Destroys
    <3> QED BY <3>3, <3>4 DEF KeepsAwaited
  <2>2. sessionIdx'[r] >= sessionIdx[r] /\ sessionIdx'[r] \in Nat
    BY <1>0
  <2> QED BY <1>3, <1>5, <2>1, <2>2, ComputeInvKept
<1>10. HandlesInv(r)'
  <2>1. ASSUME NEW h \in handles'[r] PROVE Gathered(r, sessionIdx[r], h.slot, h.at)'
    <3> PICK s : s = sessionIdx[r]
      OBVIOUS
    <3>1. CASE h \in handles[r]
      <4>1. /\ Gathered(r, s, h.slot, h.at) /\ StillRead(r, s)
            /\ h.slot \in Slots /\ h.at \in Nat /\ s \in Nat /\ s >= 1
        BY <1>0, <3>1, HostTypes DEF HandlesInv, StillRead
      <4>2. Gathered(r, s, h.slot, h.at)'
        BY <1>5, <4>1 DEF KeepsGathered
      <4> QED BY <1>0, <4>2 DEF Gathered
    <3>2. CASE h = [slot |-> slotIdx[r], at |-> e]
      <4>1. h.slot = op.row /\ h.at = e /\ s = op.session
        BY <1>1, <3>2
      <4>2. ToGather(r, s, h.slot, h.at)'
        BY <1>1, <1>3, <4>1 DEF ToGather, CommGets
      <4>3. HostPast(r, s, h.slot)'
        BY <1>4, <4>1 DEF NextOp
      <4>4. Gathered(r, s, h.slot, h.at)'
        BY <4>2, <4>3, GatheredParts
      <4> QED BY <1>0, <4>4 DEF Gathered
    <3> QED BY <1>0, <2>1, <3>1, <3>2
  <2> QED BY <2>1 DEF HandlesInv
<1> QED BY <1>2, <1>5, <1>6, <1>7, <1>8, <1>9, <1>10

LEMMA CallHandleKeeps ==
  ASSUME TypeOK, TypeOK', NEW r \in Ranks, RankInv(r), NEW h \in handles[r], CallHandle(r, h)
  PROVE  RankInv(r)'
<1> USE DEF RankInv
<1> PICK op : op = [kind |-> "use", session |-> sessionIdx[r], slot |-> h.slot, after |-> h.at]
  OBVIOUS
<1> PICK e : e = ComputeEvent(r) + 1
  OBVIOUS
<1>0. /\ inSession[r] /\ sessionIdx[r] \in Nat /\ sessionIdx[r] >= 1
      /\ h.slot \in Slots /\ h.at \in Nat /\ h = [slot |-> h.slot, at |-> h.at]
      /\ inSession'[r] = inSession[r] /\ slotIdx'[r] = slotIdx[r]
      /\ sessionIdx'[r] = sessionIdx[r] /\ inplace'[r] = inplace[r]
      /\ handles'[r] = handles[r] \ {h}
      /\ comm' = comm /\ compute' = [compute EXCEPT ![r] = Append(@, op)]
      /\ HostOnly(r)
  <2>1. h \in [slot : Slots, at : Nat]
    BY HostTypes
  <2>2. inSession[r] /\ sessionIdx[r] >= 1
    BY HostTypes DEF CallHandle, HostInv
  <2> QED BY <2>1, <2>2 DEF CallHandle, TypeOK, HostOnly
<1>1. /\ op \in ComputeOps /\ op.kind = "use" /\ op.session = sessionIdx[r]
      /\ op.slot = h.slot /\ op.after = h.at
  BY <1>0 DEF ComputeOps
<1>2. /\ CommKept(r) /\ HeadStays(r)
      /\ ComputeGets(r, op) /\ ComputeEvent(r)' = e
  BY <1>0, <1>1, HostOnlyKeeps, KeptComm, ComputeEnqueued, HeadStaysWhen
<1>3. HostGoesOn(r) /\ LastClosed(r)' = LastClosed(r) /\ HostInv(r)'
  BY <1>0 DEF HostGoesOn, HostPast, LastClosed, HostInv, MoreGathers
<1>4. /\ CommInv(r)' /\ WordsPast(r)' /\ HeadInv(r)' /\ WordsTrue(r)' /\ KeepsGathered(r)
  BY <1>0, <1>2, <1>3, HostStepKeeps
<1>5. SessionsClosed(r)'
  BY <1>0, <1>2, <1>3, HostOnlyKeeps, SessionsClosedKept
<1>6. ReadersToCome(r)'
  <2>1. ASSUME NEW n \in CommNums(r), NEW s \in Nat, NEW k \in Slots, Reader(r, n, s, k)
        PROVE  Reader(r, n, s, k)'
    <3>1. CASE \E m \in ComputeNums(r) : Uses(r, m, s, k, n)
      BY <1>2, <3>1 DEF Reader, Uses, ComputeGets
    <3>2. CASE s = sessionIdx[r] /\ [slot |-> k, at |-> n] = h
      <4>1. op.slot = k /\ op.after = n
        BY <1>1, <3>2
      <4>2. e \in ComputeNums(r)' /\ ComputeOp(r, e)' = op
        BY <1>2 DEF ComputeGets
      <4>3. Uses(r, e, s, k, n)'
        BY <1>1, <3>2, <4>1, <4>2 DEF Uses
      <4> QED BY <4>2, <4>3 DEF Reader
    <3>3. CASE s = sessionIdx[r] /\ [slot |-> k, at |-> n] \in handles[r] \ {h}
      BY <1>0, <3>3 DEF Reader
    <3> QED BY <2>1, <3>1, <3>2, <3>3 DEF Reader
  <2>2. KeepsReaders(r)
    BY <2>1 DEF KeepsReaders
  <2> QED BY <1>2, <2>2, ReadersKept
<1>7. InplaceFilled(r)'
  <2>1. KeepsFilled(r)
    BY <1>0, <1>1, <1>2, HostStepKeepsFilled
  <2>2. ComputeEvent(r)' >= ComputeEvent(r) /\ ComputeEvent(r)' \in Nat
    BY <1>2, ComputeNumbers
  <2> QED BY <1>0, <1>2, <2>1, <2>2, InplaceFilledKept
<1>8. ComputeInv(r)'
  <2>1. KeepsAwaited(r)
    BY <1>0, <1>2, KeepsAwaitedWhen
  <2>2. Gathered(r, op.session, op.slot, op.after)'
    <3> PICK s, k, at : s = sessionIdx[r] /\ k = h.slot /\ at = h.at
      OBVIOUS
    <3>1. Gathered(r, s, k, at) /\ StillRead(r, s) /\ s \in Nat /\ s >= 1
          /\ k \in Slots /\ at \in Nat
      BY <1>0 DEF HandlesInv, StillRead
    <3>2. Gathered(r, s, k, at)'
      BY <1>4, <3>1 DEF KeepsGathered
    <3> QED BY <1>1, <3>2
  <2>3. ASSUME NEW n PROVE Sound(r, n, op)'
    <3>1. op.session \in 1 .. sessionIdx'[r]
      BY <1>0, <1>1
    <3>2. UseAwaited(r, n, op.session)'
      BY <1>0, <1>1 DEF UseAwaited
    <3> QED BY <1>1, <2>2, <3>1, <3>2 DEF Sound
  <2> QED BY <1>0, <1>1, <1>2, <1>4, <2>1, <2>3, ComputeInvNext
<1>9. HandlesInv(r)'
  BY <1>0, <1>4, HandlesInvKept
<1> QED BY <1>3, <1>4, <1>5, <1>6, <1>7, <1>8, <1>9

LEMMA DestroySessionKeeps ==
  ASSUME TypeOK, TypeOK', NEW r \in Ranks, RankInv(r), EndOfSession(r), DestroySession(r)
  PROVE  RankInv(r)'
<1> USE DEF RankInv
<1> PICK op : op = [kind |-> "destroy", session |-> sessionIdx[r], row |-> SessionRow,
                    inplace |-> FALSE, after |-> ComputeEvent(r)]
  OBVIOUS
<1> PICK e : e = CommEvent(r) + 1
  OBVIOUS
<1>0. /\ inSession[r] /\ sessionIdx[r] \in Nat /\ sessionIdx[r] >= 1
      /\ slotIdx[r] \in Nat /\ slotIdx[r] <= PerSession
      /\ inSession'[r] = FALSE /\ slotIdx'[r] = slotIdx[r]
      /\ sessionIdx'[r] = sessionIdx[r]
      /\ inplace'[r] = FALSE /\ inplace[r] = FALSE
      /\ handles'[r] = {} /\ handles[r] = {}
      /\ compute' = compute /\ comm' = [comm EXCEPT ![r] = Append(@, op)]
      /\ HostOnly(r)
  <2>1. inSession[r] /\ sessionIdx[r] >= 1 /\ slotIdx[r] <= PerSession /\ slotIdx[r] \in Nat
    BY HostTypes DEF DestroySession, HostInv
  <2>2. inplace[r] = FALSE /\ handles[r] = {}
    BY HostTypes DEF EndOfSession, HostInv
  <2> QED BY <2>1, <2>2 DEF DestroySession, TypeOK, HostOnly
<1>1. /\ op \in CommOps /\ op.kind = "destroy" /\ op.session = sessionIdx[r]
      /\ op.row = SessionRow /\ op.inplace = FALSE /\ op.after = ComputeEvent(r)
  BY <1>0, RowFacts, ComputeNumbers DEF CommOps
<1>2. HostGoesOn(r) /\ LastClosed(r)' = op.session /\ HostInv(r)'
  BY <1>0, <1>1 DEF HostGoesOn, HostPast, LastClosed, HostInv
<1>3. CommGets(r, op) /\ ComputeKept(r)
  BY <1>0, <1>1, HostOnlyKeeps, KeptCompute, CommEnqueued
<1>4. NextOp(r, op)
  <2>1. HostPast(r, op.session, op.row)'
    <3> PICK s, k : s = sessionIdx[r] /\ k = SessionRow
      OBVIOUS
    <3>1. HostPast(r, s, k)'
      BY <1>0 DEF HostPast
    <3> QED BY <1>1, <3>1
  <2>2. ASSUME NEW s \in Nat, NEW w \in Rows, HostPast(r, s, w)
        PROVE  Before(s, w, op.session, op.row)
    BY <1>0, <1>1, <2>2, RowFacts DEF HostPast, Before, SessionRow
  <2>3. op.kind = "gather" <=> op.row \in Slots
    BY <1>1, RowFacts
  <2> QED BY <1>0, <1>1, <1>2, <1>3, <2>1, <2>2, <2>3 DEF NextOp
<1>5. /\ CommInv(r)' /\ WordsPast(r)' /\ HeadInv(r)' /\ WordsTrue(r)' /\ KeepsGathered(r)
  BY <1>0, <1>2, <1>4, HostStepKeeps
<1>6. SessionsClosed(r)'
  BY <1>0, <1>1, <1>2, <1>4, HostOnlyKeeps, SessionsClosedNext
<1>7. ReadersToCome(r)'
  <2>1. KeepsReaders(r)
    BY <1>0, <1>3, KeepsReadersWhen
  <2> QED BY <1>1, <1>3, <2>1, ReadersKept
<1>8. InplaceFilled(r)'
  <2>1. KeepsFilled(r)
    BY <1>0, <1>3, HostStepKeepsFilled
  <2> QED BY <1>0, <1>1, <1>3, <2>1, InplaceFilledNext
<1>9. ComputeInv(r)'
  <2>1. KeepsAwaited(r)
    <3>1. HeadStays(r)
      BY <1>3, HeadStaysWhen
    <3>2. e \in CommNums(r)' /\ CommOp(r, e)' = op
      BY <1>3 DEF CommGets
    <3>3. ASSUME NEW n \in ComputeNums(r), NEW o \in ComputeOps, FillAwaited(r, n, o)
          PROVE  FillAwaited(r, n, o)'
      BY <1>0, <3>1, <3>3 DEF FillAwaited, HeadStays
    <3>4. ASSUME NEW n \in ComputeNums(r), NEW s \in Nat, UseAwaited(r, n, s)
          PROVE  UseAwaited(r, n, s)'
      <4>1. CASE inSession[r] /\ s = sessionIdx[r]
        <5>1. op.after >= n
          BY <1>1, ComputeNumbers
        <5>2. Destroys(r, e, s)'
          BY <1>1, <3>2, <4>1 DEF Destroys
        <5> QED BY <3>2, <5>1, <5>2 DEF UseAwaited
      <4>2. ASSUME NEW m \in CommNums(r), Destroys(r, m, s), CommOp(r, m).after >= n
            PROVE  UseAwaited(r, n, s)'
        BY <3>1, <4>2 DEF UseAwaited, HeadStays, Destroys
      <4> QED BY <3>4, <4>1, <4>2 DEF UseAwaited
    <3> QED BY <3>3, <3>4 DEF KeepsAwaited
  <2>2. sessionIdx'[r] >= sessionIdx[r] /\ sessionIdx'[r] \in Nat
    BY <1>0
  <2> QED BY <1>3, <1>5, <2>1, <2>2, ComputeInvKept
<1>10. HandlesInv(r)'
  BY <1>0 DEF HandlesInv
<1> QED BY <1>2, <1>5, <1>6, <1>7, <1>8, <1>9, <1>10

-----------------------------------------------------------------------------
(* The streams' steps. *)

\* The item that a running all-gather copies is its rank's item for it, in place or not.
LEMMA CopiedItem ==
  ASSUME TypeOK, NEW r \in Ranks, CommInv(r), InplaceFilled(r), NEW op, Runs(r, op),
         op.kind = "gather"
  PROVE  (IF op.inplace THEN mem[r][op.row][r] ELSE Item(r, op.session, op.row))
           = Item(r, op.session, op.row)
<1>1. /\ CommHead(r) \in CommNums(r) /\ CommOp(r, CommHead(r)) = op
      /\ op.after \in Nat /\ op.after <= computeEnded[r]
  BY CommFields DEF Runs
<1>2. CASE op.inplace
  <2>1. Filled(r, op.session, op.row, op.after)
    BY <1>1, <1>2 DEF InplaceFilled
  <2>2. ~FillToCome(r, op.session, op.row, op.after)
    <3>1. \A m \in ComputeNums(r) : ~(m <= op.after)
      BY <1>1, ComputeNumbers
    <3> QED BY <3>1 DEF FillToCome
  <2> QED BY <1>2, <2>1, <2>2, FilledParts DEF IsFilled
<1> QED BY <1>2

\* What a step of the communication stream leaves as it is.
LEMMA CommStepKeeps ==
  ASSUME TypeOK, NEW r \in Ranks, UNCHANGED <<hostVars, compute, computeEnded>>
  PROVE  /\ \A p \in Ranks : HostKept(p) /\ ComputeKept(p)
         /\ computeEnded' = computeEnded /\ computeEnded'[r] >= computeEnded[r]
         /\ ComputeEvent(r)' >= ComputeEvent(r) /\ ComputeEvent(r)' \in Nat
         /\ sessionIdx'[r] >= sessionIdx[r] /\ sessionIdx'[r] \in Nat
<1>1. \A p \in Ranks : HostKept(p) /\ ComputeKept(p)
  BY KeptCompute DEF hostVars, HostKept
<1>2. /\ computeEnded[r] \in Nat /\ ComputeEvent(r) \in Nat /\ sessionIdx[r] \in Nat
  BY ComputeNumbers, HostTypes
<1> QED BY <1>1, <1>2 DEF ComputeKept, HostKept

\* A copy: what it does to the rank that copies.
LEMMA CopyToKeeps ==
  ASSUME TypeOK, TypeOK', NEW r \in Ranks, RankInv(r), NEW op, Runs(r, op), op.kind = "gather",
         op.row \in Slots, NEW dst \in Ranks \ copied[r],
         WritesPlace(dst, op.row, r, Item(r, op.session, op.row)),
         copied' = [copied EXCEPT ![r] = @ \cup {dst}],
         UNCHANGED <<hostVars, comm, compute, commEnded, computeEnded, told, sig>>
  PROVE  RankInv(r)'
<1> USE DEF RankInv
<1>0. /\ CommKept(r) /\ ComputeKept(r) /\ HostKept(r) /\ HeadStays(r) /\ HostGoesOn(r)
      /\ LastClosed(r)' = LastClosed(r) /\ HostInv(r)'
      /\ WordsKept(r) /\ WordsGrow(r)
      /\ told' = told /\ computeEnded' = computeEnded
      /\ op.session \in Nat
  <2>1. WordsGrow(r) /\ WordsKept(r)
    BY WordTypes DEF WordsGrow, WordsKept
  <2> QED BY <2>1, CommStepKeeps, KeptComm, HeadStaysWhen, HostKeptGoesOn, CommFields DEF Runs
<1>1. CommInv(r)' /\ SessionsClosed(r)' /\ WordsPast(r)'
  BY <1>0, CommInvKept, SessionsClosedKept, WordsPastKept
<1>2. HeadInv(r)' /\ WordsTrue(r)'
  BY <1>0, HeadInvCopy, WordsTrueCopy
<1>3. ReadersToCome(r)'
  <2>1. KeepsReaders(r)
    BY <1>0, KeepsReadersWhen DEF HostKept
  <2> QED BY <1>0, <2>1, ReadersKept
<1>4. InplaceFilled(r)'
  <2>1. ASSUME NEW s \in Nat, NEW k \in Slots, Wanted(r, s, k), IsFilled(r, s, k)
        PROVE  mem'[r][k][r] = Item(r, s, k)
    <3>1. CASE dst = r /\ op.row = k
      <4>1. op.session = s
        BY <2>1, <3>1, WantedCopy
      <4> QED BY <3>1, <4>1, PlaceWritten
    <3>2. CASE dst # r \/ op.row # k
      BY <2>1, <3>2, PlaceWritten DEF IsFilled
    <3> QED BY <3>1, <3>2
  <2>2. KeepsFilled(r)
    BY <1>0, <2>1, KeepsFilledWhen
  <2> QED BY <1>0, <2>2, CommStepKeeps, InplaceFilledKept DEF HostKept
<1>5. KeepsGathered(r)
  <2> SUFFICES ASSUME NEW s \in Nat, NEW k \in Slots, NEW at \in Nat, s >= 1,
                      StillRead(r, s), Gathered(r, s, k, at)
               PROVE  Gathered(r, s, k, at)'
    BY DEF KeepsGathered
  <2>1. HasGathered(r, s, k, at) => \A q \in Ranks : mem'[r][k][q] = Item(q, s, k)
    BY OwnCopyKeepsGathered
  <2> QED BY <1>0, <2>1, GatheredKept
<1>6. ComputeInv(r)' /\ HandlesInv(r)'
  <2>1. KeepsAwaited(r)
    BY <1>0, KeepsAwaitedWhen DEF HostKept
  <2> QED BY <1>0, <1>5, <2>1, CommStepKeeps, ComputeInvKept, HandlesInvKept DEF HostKept
<1> QED BY <1>0, <1>1, <1>2, <1>3, <1>4, <1>5, <1>6

LEMMA CopyToSound ==
  ASSUME IInv, TypeOK', NEW r \in Ranks, NEW dst \in Ranks, CopyTo(r, dst)
  PROVE  \A p \in Ranks : RankInv(p)'
<1>0. TypeOK /\ \A p \in Ranks : RankInv(p)
  BY DEF IInv
<1> PICK op : op = Head(comm[r])
  OBVIOUS
<1>1. Runs(r, op)
  <2>1. CommRuns(r) /\ op = CommOp(r, CommHead(r))
    BY <1>0, CommNumbers DEF CopyTo
  <2> QED BY <1>0, <2>1, RunningOp
<1>2. op.kind = "gather" /\ op.row \in Slots /\ op.session \in Nat
  BY <1>0, <1>1, CommFields DEF CopyTo, Runs, RankInv, CommInv
<1>3. (IF op.inplace THEN mem[r][op.row][r] ELSE Item(r, op.session, op.row))
        = Item(r, op.session, op.row)
  BY <1>0, <1>1, <1>2, CopiedItem DEF RankInv
<1>4. WritesPlace(dst, op.row, r, Item(r, op.session, op.row))
  BY <1>3 DEF CopyTo, WritesPlace
<1>5. /\ dst \in Ranks \ copied[r] /\ copied' = [copied EXCEPT ![r] = @ \cup {dst}]
      /\ UNCHANGED <<hostVars, comm, compute, commEnded, computeEnded, told, sig>>
  BY DEF CopyTo
<1>6. RankInv(r)'
  BY <1>0, <1>1, <1>2, <1>4, <1>5, CopyToKeeps
<1>7. ASSUME NEW p \in Ranks, p # r PROVE RankInv(p)'
  <2>1. SameRank(p)
    BY <1>0, <1>5, <1>7, CommStepKeeps DEF SameRank, HeadKept, TypeOK
  <2>2. WordsKept(p) /\ WordsGrow(p)
    BY <1>0, <1>5, WordTypes DEF WordsKept, WordsGrow
  <2>3. MemKept(p)
    BY <1>0, <1>2, <1>4, <1>7, PlaceWritten DEF MemKept
  <2>4. ASSUME NEW s \in Nat, NEW k \in Slots, NEW at \in Nat, s >= 1, StillRead(p, s),
               HasGathered(p, s, k, at)
        PROVE  \A q \in Ranks : mem'[p][k][q] = Item(q, s, k)
    <3>1. r \in Peers(p)
      BY <1>7 DEF Peers
    <3> QED BY <1>0, <1>1, <1>2, <1>4, <1>5, <2>4, <3>1, PeerCopyKeepsGathered DEF RankInv
  <2> QED BY <1>0, <1>7, <2>1, <2>2, <2>3, <2>4, Elsewhere
<1> QED BY <1>6, <1>7

\* A word: no peer's word goes down by it.
LEMMA TellGrows ==
  ASSUME TypeOK, NEW r \in Ranks, WordsPast(r), NEW op, Runs(r, op), op.row \in Rows,
         op.session \in Nat, NEW dst \in Peers(r), WritesWord(dst, op.row, r, op.session)
  PROVE  \A p \in Ranks : WordsGrow(p)
<1>1. dst \in Ranks
  BY DEF Peers
<1>2. op.session >= sig[dst][op.row][r]
  <2> PICK v : v = sig[dst][op.row][r]
    OBVIOUS
  <2>1. v \in Nat
    BY <1>1, WordTypes
  <2>2. CASE v > 0
    <3>1. WordPast(r, dst, op.row, v)
      BY <2>2, WordsPastHas
    <3> QED BY <2>1, <3>1 DEF WordPast, Runs, Before
  <2> QED BY <2>1, <2>2
<1>3. ASSUME NEW p \in Ranks, NEW q \in Ranks, NEW w \in Rows
      PROVE  sig'[p][w][q] >= sig[p][w][q]
  <2>1. sig[p][w][q] \in Nat
    BY WordTypes
  <2>2. CASE p = dst /\ w = op.row /\ q = r
    BY <1>1, <1>2, <2>2, WordWritten
  <2>3. CASE p # dst \/ w # op.row \/ q # r
    <3>1. sig'[p][w][q] = sig[p][w][q]
      BY <1>1, <2>3, WordWritten
    <3> QED BY <2>1, <3>1
  <2> QED BY <2>2, <2>3
<1> QED BY <1>3 DEF WordsGrow

LEMMA TellKeeps ==
  ASSUME TypeOK, TypeOK', NEW r \in Ranks, RankInv(r), NEW op, Runs(r, op),
         op.row \in Rows, op.session \in Nat, op.kind = "gather" <=> op.row \in Slots,
         op.kind = "gather" => copied[r] = Ranks, NEW dst \in Peers(r),
         WritesWord(dst, op.row, r, op.session),
         told' = [told EXCEPT ![r] = @ \cup {dst}],
         UNCHANGED <<hostVars, comm, compute, commEnded, computeEnded, copied, mem>>
  PROVE  RankInv(r)'
<1> USE DEF RankInv
<1>0. /\ CommKept(r) /\ ComputeKept(r) /\ HostKept(r) /\ HeadStays(r) /\ HostGoesOn(r)
      /\ LastClosed(r)' = LastClosed(r) /\ HostInv(r)'
      /\ WordsGrow(r) /\ copied' = copied /\ mem' = mem /\ computeEnded' = computeEnded
      /\ CommHead(r) \in CommNums(r) /\ op = CommOp(r, CommHead(r))
  BY CommStepKeeps, KeptComm, HeadStaysWhen, HostKeptGoesOn, TellGrows DEF Runs
<1>1. CommInv(r)' /\ SessionsClosed(r)' /\ WordsPast(r)'
  BY <1>0, CommInvKept, SessionsClosedKept, WordsPastTell
<1>2. HeadInv(r)' /\ WordsTrue(r)'
  BY <1>0, HeadInvTell, WordsTrueTell
<1>3. ReadersToCome(r)'
  <2>1. KeepsReaders(r)
    BY <1>0, KeepsReadersWhen DEF HostKept
  <2> QED BY <1>0, <2>1, ReadersKept
<1>4. InplaceFilled(r)'
  <2>1. \A s \in Nat : \A k \in Slots :
          Wanted(r, s, k) /\ IsFilled(r, s, k) => mem'[r][k][r] = Item(r, s, k)
    BY <1>0 DEF IsFilled
  <2>2. KeepsFilled(r)
    BY <1>0, <2>1, KeepsFilledWhen
  <2> QED BY <1>0, <2>2, CommStepKeeps, InplaceFilledKept DEF HostKept
<1>5. KeepsGathered(r)
  <2> SUFFICES ASSUME NEW s \in Nat, NEW k \in Slots, NEW at \in Nat, Gathered(r, s, k, at)
               PROVE  Gathered(r, s, k, at)'
    BY DEF KeepsGathered
  <2>1. HasGathered(r, s, k, at) => \A q \in Ranks : mem'[r][k][q] = Item(q, s, k)
    BY <1>0 DEF HasGathered
  <2> QED BY <1>0, <2>1, GatheredKept
<1>6. ComputeInv(r)' /\ HandlesInv(r)'
  <2>1. KeepsAwaited(r)
    BY <1>0, KeepsAwaitedWhen DEF HostKept
  <2> QED BY <1>0, <1>5, <2>1, CommStepKeeps, ComputeInvKept, HandlesInvKept DEF HostKept
<1> QED BY <1>0, <1>1, <1>2, <1>3, <1>4, <1>5, <1>6

LEMMA TellSound ==
  ASSUME IInv, TypeOK', NEW r \in Ranks, NEW dst \in Ranks, Tell(r, dst)
  PROVE  \A p \in Ranks : RankInv(p)'
<1>0. TypeOK /\ \A p \in Ranks : RankInv(p)
  BY DEF IInv
<1> PICK op : op = Head(comm[r])
  OBVIOUS
<1>1. Runs(r, op)
  <2>1. CommRuns(r) /\ op = CommOp(r, CommHead(r))
    BY <1>0, CommNumbers DEF Tell
  <2> QED BY <1>0, <2>1, RunningOp
<1>2. /\ op.row \in Rows /\ op.session \in Nat
      /\ op.kind = "gather" <=> op.row \in Slots
  BY <1>0, <1>1, CommFields DEF Runs, RankInv, CommInv
<1>3. /\ op.kind = "gather" => copied[r] = Ranks
      /\ dst \in Peers(r) /\ WritesWord(dst, op.row, r, op.session)
      /\ told' = [told EXCEPT ![r] = @ \cup {dst}]
      /\ UNCHANGED <<hostVars, comm, compute, commEnded, computeEnded, copied, mem>>
  BY DEF Tell, WritesWord
<1>4. \A p \in Ranks : WordsGrow(p)
  BY <1>0, <1>1, <1>2, <1>3, TellGrows DEF RankInv
<1>5. RankInv(r)'
  BY <1>0, <1>1, <1>2, <1>3, TellKeeps
<1>6. ASSUME NEW p \in Ranks, p # r PROVE RankInv(p)'
  <2>1. SameRank(p)
    BY <1>0, <1>3, <1>6, CommStepKeeps DEF SameRank, HeadKept, TypeOK
  <2>2. WordsKept(p)
    BY <1>0, <1>2, <1>3, <1>6, WordWritten DEF WordsKept, Peers
  <2>3. MemKept(p)
    BY <1>3 DEF MemKept
  <2>4. \A s \in Nat : \A k \in Slots : \A at \in Nat :
          HasGathered(p, s, k, at) => \A q \in Ranks : mem'[p][k][q] = Item(q, s, k)
    BY <1>3 DEF HasGathered
  <2> QED BY <1>0, <1>4, <1>6, <2>1, <2>2, <2>3, <2>4, Elsewhere
<1> QED BY <1>5, <1>6

LEMMA CommEndKeeps ==
  ASSUME TypeOK, TypeOK', \A p \in Ranks : RankInv(p), NEW r \in Ranks, CommEnd(r)
  PROVE  RankInv(r)'
<1> USE DEF RankInv
<1> PICK op : op = Head(comm[r])
  OBVIOUS
<1>0. /\ Runs(r, op) /\ op = CommOp(r, CommHead(r)) /\ CommHead(r) \in CommNums(r)
      /\ comm[r] # <<>>
  <2>1. CommRuns(r) /\ op = CommOp(r, CommHead(r))
    BY CommNumbers DEF CommEnd
  <2>2. Runs(r, op)
    BY <2>1, RunningOp
  <2> QED BY <2>1, <2>2 DEF Runs, CommRuns
<1>1. /\ told[r] = Peers(r) /\ \A q \in Peers(r) : sig[r][op.row][q] >= op.session
      /\ comm' = [comm EXCEPT ![r] = Tail(@)]
      /\ commEnded' = [commEnded EXCEPT ![r] = @ + 1]
      /\ copied'[r] = {} /\ told'[r] = {}
      /\ UNCHANGED <<hostVars, compute, computeEnded, sig, mem>>
  BY DEF CommEnd, Reached, TypeOK
<1>2. /\ CommDrops(r) /\ ComputeKept(r) /\ HostKept(r) /\ HostGoesOn(r)
      /\ LastClosed(r)' = LastClosed(r) /\ HostInv(r)' /\ WordsKept(r) /\ WordsGrow(r)
  <2>1. WordsGrow(r) /\ WordsKept(r)
    BY <1>1, WordTypes DEF WordsGrow, WordsKept
  <2>2. CommDrops(r)
    BY <1>0, <1>1, CommDequeued
  <2> QED BY <1>1, <2>1, <2>2, CommStepKeeps, HostKeptGoesOn
<1>3. CommInv(r)' /\ WordsPast(r)'
  BY <1>2, CommInvKept, WordsPastDrops
<1>4. SessionsClosed(r)'
  <2>1. ASSUME NEW s, Destroys(r, CommHead(r), s) PROVE Heard(r, s)
    <3>1. op.kind = "destroy" /\ op.session = s
      BY <1>0, <2>1 DEF Destroys
    <3>2. op.row = SessionRow
      <4>1. op.row \in Rows /\ op.row \notin Slots
        BY <1>0, <3>1, CommFields DEF CommInv
      <4> QED BY <4>1, RowFacts
    <3> QED BY <1>1, <3>1, <3>2 DEF Heard
  <2> QED BY <1>2, <2>1, SessionsClosedDrops
<1>5. HeadInv(r)' /\ WordsTrue(r)'
  BY <1>1, HeadInvEnd, WordsTrueEnd
<1>6. ReadersToCome(r)'
  <2>1. KeepsReaders(r)
    BY <1>2, KeepsReadersWhen DEF HostKept
  <2> QED BY <1>2, <2>1, ReadersKept
<1>7. InplaceFilled(r)'
  <2>1. \A s \in Nat : \A k \in Slots :
          Wanted(r, s, k) /\ IsFilled(r, s, k) => mem'[r][k][r] = Item(r, s, k)
    BY <1>1 DEF IsFilled
  <2>2. KeepsFilled(r)
    BY <1>2, <2>1, KeepsFilledWhen
  <2> QED BY <1>1, <1>2, <2>2, CommStepKeeps, InplaceFilledKept DEF HostKept
<1>8. KeepsGathered(r)
  <2>1. ASSUME op.kind = "gather"
        PROVE  \A q \in Ranks : mem[r][op.row][q] = Item(q, op.session, op.row)
    <3>1. \A p \in Peers(r) : /\ HostInv(p) /\ CommInv(p) /\ SessionsClosed(p)
                              /\ WordsPast(p) /\ HeadInv(p) /\ WordsTrue(p)
      BY DEF Peers
    <3> QED BY <1>0, <1>1, <2>1, <3>1, AllArrived
  <2> SUFFICES ASSUME NEW s \in Nat, NEW k \in Slots, NEW at \in Nat, Gathered(r, s, k, at)
               PROVE  Gathered(r, s, k, at)'
    BY DEF KeepsGathered
  <2> QED BY <1>0, <1>1, <1>2, <2>1, GatheredEnd
<1>9. ComputeInv(r)' /\ HandlesInv(r)'
  <2>1. KeepsAwaited(r)
    BY <1>0, <1>2, KeepsAwaitedEnd
  <2> QED BY <1>1, <1>2, <1>8, <2>1, CommStepKeeps, ComputeInvKept, HandlesInvKept DEF HostKept
<1> QED BY <1>2, <1>3, <1>4, <1>5, <1>6, <1>7, <1>9

\* The compute stream fills a tensor, or has read one.
LEMMA ComputeStepKeeps ==
  ASSUME TypeOK, TypeOK', NEW r \in Ranks, RankInv(r), ComputeStep(r)
  PROVE  RankInv(r)'
<1> USE DEF RankInv
<1> PICK f : f = computeEnded[r] + 1
  OBVIOUS
<1> PICK op : op = Head(compute[r])
  OBVIOUS
<1>0. /\ f \in ComputeNums(r) /\ op = ComputeOp(r, f) /\ compute[r] # <<>>
      /\ op.after <= commEnded[r]
      /\ op.slot \in Slots /\ op.session \in Nat /\ op.after \in Nat
  <2>1. /\ f \in ComputeNums(r) /\ op = ComputeOp(r, f) /\ compute[r] # <<>>
        /\ op.after <= commEnded[r]
    BY ComputeNumbers DEF ComputeStep, ComputeRuns
  <2> QED BY <2>1, ComputeFields
<1>1. /\ compute' = [compute EXCEPT ![r] = Tail(@)]
      /\ computeEnded' = [computeEnded EXCEPT ![r] = @ + 1]
      /\ UNCHANGED <<hostVars, comm, commEnded, headVars, sig>>
      /\ IF op.kind = "fill" THEN WritesPlace(r, op.slot, r, Item(r, op.session, op.slot))
                             ELSE mem' = mem
  BY DEF ComputeStep, WritesPlace
<1>2. ComputeDrops(r)
  BY <1>0, <1>1, ComputeDequeued
<1>3. /\ CommKept(r) /\ HeadStays(r) /\ HeadKept(r) /\ HostKept(r) /\ HostGoesOn(r)
      /\ LastClosed(r)' = LastClosed(r) /\ HostInv(r)' /\ WordsKept(r) /\ WordsGrow(r)
      /\ told'[r] = told[r]
      /\ computeEnded[r] \in Nat /\ computeEnded'[r] >= computeEnded[r]
      /\ ComputeEvent(r)' >= ComputeEvent(r) /\ ComputeEvent(r)' \in Nat
      /\ sessionIdx'[r] >= sessionIdx[r] /\ sessionIdx'[r] \in Nat
  <2>1. WordsGrow(r) /\ WordsKept(r)
    BY <1>1, WordTypes DEF WordsGrow, WordsKept
  <2>2. CommKept(r) /\ HeadKept(r) /\ HostKept(r) /\ told'[r] = told[r]
    BY <1>1, KeptComm DEF hostVars, headVars, HostKept, HeadKept
  <2>3. /\ computeEnded[r] \in Nat /\ computeEnded'[r] >= computeEnded[r]
        /\ ComputeEvent(r)' >= ComputeEvent(r) /\ ComputeEvent(r)' \in Nat
    BY <1>2, ComputeNumbers DEF ComputeDrops
  <2> QED BY <2>1, <2>2, <2>3, HeadStaysWhen, HostKeptGoesOn, HostTypes DEF HostKept
<1>4. CommInv(r)' /\ SessionsClosed(r)' /\ WordsPast(r)'
  BY <1>3, CommInvKept, SessionsClosedKept, WordsPastKept
<1>5. Sound(r, f, op)
  BY <1>0, ComputeInvHas
<1>6. WordsTrue(r)'
  <2>1. \A q \in Peers(r) : \A k \in Slots : mem'[q][k][r] = mem[q][k][r]
    BY <1>0, <1>1, PlaceWritten DEF Peers
  <2> QED BY <1>3, <2>1, WordsTrueKept
<1>7. HeadInv(r)'
  <2> PICK o : o = CommOp(r, CommHead(r))
    OBVIOUS
  <2>1. ASSUME NEW q \in copied[r] PROVE mem'[q][o.row][r] = mem[q][o.row][r]
    <3>1. HeadDid(r, o)
      BY HeadInvHas
    <3>2. /\ Runs(r, o) /\ o.kind = "gather" /\ q \in Ranks
          /\ mem[q][o.row][r] = Item(r, o.session, o.row)
      BY <2>1, <3>1, HostTypes DEF HeadDid
    <3>3. /\ o.session \in Nat /\ o.row \in Slots /\ CommHead(r) \in CommNums(r)
      BY <3>2, CommFields DEF Runs, CommInv
    <3>4. CASE op.kind = "fill" /\ q = r /\ op.slot = o.row
      <4>1. Wanted(r, o.session, o.row)
        BY <3>2, <3>3 DEF Wanted
      <4>2. op.session <= o.session
        BY <1>0, <3>4, <4>1, WantedFill
      <4>3. FillAwaited(r, f, op)
        BY <1>5, <3>4 DEF Sound
      <4>4. o.session <= op.session
        <5>1. CASE op.session = sessionIdx[r]
          BY <4>1, <5>1, WantedTypes
        <5>2. ASSUME NEW m \in CommNums(r), CommOp(r, m).session = op.session
              PROVE  o.session <= op.session
          BY <5>2, HeadFirst
        <5> QED BY <4>3, <5>1, <5>2 DEF FillAwaited
      <4>5. op.session = o.session
        BY <1>0, <3>3, <4>2, <4>4
      <4> QED BY <1>0, <1>1, <3>2, <3>4, <4>5, PlaceWritten
    <3>5. CASE op.kind = "fill" /\ (q # r \/ op.slot # o.row)
      BY <1>0, <1>1, <3>2, <3>3, <3>5, PlaceWritten
    <3>6. CASE op.kind # "fill"
      BY <1>1, <3>6
    <3> QED BY <3>4, <3>5, <3>6
  <2> QED BY <1>3, <2>1, HeadInvKept
<1>8. ReadersToCome(r)'
  <2>1. ASSUME NEW n \in CommNums(r), NEW m \in ComputeNums(r), NEW s, NEW k,
               Uses(r, m, s, k, n)
        PROVE  Uses(r, m, s, k, n)' /\ m \in ComputeNums(r)'
    <3>1. n \in Nat /\ commEnded[r] < n /\ commEnded[r] \in Nat
      BY CommNumbers
    <3>2. m # f
      BY <1>0, <2>1, <3>1 DEF Uses
    <3>3. m \in ComputeNums(r)' /\ ComputeOp(r, m)' = ComputeOp(r, m)
      BY <1>2, <3>2 DEF ComputeDrops
    <3> QED BY <2>1, <3>3 DEF Uses
  <2>2. KeepsReaders(r)
    BY <1>3, <2>1 DEF KeepsReaders, Reader, HostKept
  <2> QED BY <1>3, <2>2, ReadersKept
<1>9. InplaceFilled(r)'
  <2>1. KeepsFilled(r)
    BY <1>0, <1>1, <1>2, StepKeepsFilled
  <2> QED BY <1>3, <2>1, InplaceFilledKept DEF HostKept
<1>10. KeepsAwaited(r)
  BY <1>3, KeepsAwaitedWhen DEF HostKept
<1>11. ComputeInv(r)' /\ HandlesInv(r)'
  <2>1. ASSUME NEW s \in Nat, NEW k \in Slots, NEW at \in Nat, op.session <= s,
               Gathered(r, s, k, at)
        PROVE  Gathered(r, s, k, at)'
    <3>1. HasGathered(r, s, k, at) => \A q \in Ranks : mem'[r][k][q] = Item(q, s, k)
      <4>1. CASE op.kind = "fill"
        <5>1. FillWaitedFor(r, f)
          BY <1>0, <1>5, <4>1 DEF Sound, FillAwaited, FillWaitedFor
        <5> QED BY <1>0, <1>1, <2>1, <4>1, <5>1, FillKeepsGathered
      <4>2. CASE op.kind # "fill"
        BY <1>1, <4>2 DEF HasGathered
      <4> QED BY <4>1, <4>2
    <3> QED BY <1>3, <2>1, <3>1, GatheredKept
  <2>2. ASSUME NEW n \in ComputeNums(r)', NEW o, o = ComputeOp(r, n)'
        PROVE  Sound(r, n, o)'
    <3>1. n \in ComputeNums(r) /\ o = ComputeOp(r, n) /\ o \in ComputeOps /\ f < n
      BY <1>2, <2>2, ComputeNumbers DEF ComputeDrops
    <3>2. Sound(r, n, o)
      BY <3>1, ComputeInvHas
    <3>3. /\ op.session <= o.session /\ o.session \in Nat /\ o.slot \in Slots
          /\ o.after \in Nat
      BY <1>0, <3>1, ComputeFields DEF ComputeInv
    <3>4. o.session \in 1 .. sessionIdx'[r]
      BY <1>3, <3>2 DEF Sound, HostKept
    <3>5. o.kind = "fill" => FillAwaited(r, n, o)'
      BY <1>10, <3>1, <3>2 DEF Sound, KeepsAwaited
    <3>6. o.kind = "use" => UseAwaited(r, n, o.session)' /\ Gathered(r, o.session, o.slot, o.after)'
      BY <1>10, <2>1, <3>1, <3>2, <3>3 DEF Sound, KeepsAwaited
    <3> QED BY <3>4, <3>5, <3>6 DEF Sound
  <2>3. \A n, m \in ComputeNums(r)' :
          m < n => ComputeOp(r, m)'.session <= ComputeOp(r, n)'.session
    BY <1>2 DEF ComputeDrops, ComputeInv
  <2>4. ComputeInv(r)'
    BY <2>2, <2>3, ComputeInvFrom
  <2>5. ASSUME NEW h \in handles'[r] PROVE Gathered(r, sessionIdx[r], h.slot, h.at)'
    <3> PICK s : s = sessionIdx[r]
      OBVIOUS
    <3>1. /\ Gathered(r, s, h.slot, h.at) /\ s = sessionIdx'[r] /\ s \in Nat
          /\ h.slot \in Slots /\ h.at \in Nat
      BY <1>3, <2>5, HostTypes DEF HandlesInv, HostKept
    <3>2. op.session <= s
      BY <1>5, HostTypes DEF Sound
    <3>3. Gathered(r, s, h.slot, h.at)'
      BY <2>1, <3>1, <3>2
    <3> QED BY <3>1, <3>3 DEF Gathered
  <2>6. HandlesInv(r)'
    BY <2>5 DEF HandlesInv
  <2> QED BY <2>4, <2>6
<1> QED BY <1>3, <1>4, <1>6, <1>7, <1>8, <1>9, <1>11

-----------------------------------------------------------------------------
(* The invariant. *)

\* The ranks that a step does not write to.
LEMMA QuietElsewhere ==
  ASSUME TypeOK, TypeOK', NEW p \in Ranks, RankInv(p), SameRank(p), sig' = sig,
         MemKept(p), \A k \in Slots : \A q \in Ranks : mem'[p][k][q] = mem[p][k][q]
  PROVE  RankInv(p)'
<1>1. WordsKept(p) /\ WordsGrow(p)
  BY WordTypes DEF WordsKept, WordsGrow
<1>2. \A s \in Nat : \A k \in Slots : \A at \in Nat :
        HasGathered(p, s, k, at) => \A q \in Ranks : mem'[p][k][q] = Item(q, s, k)
  BY DEF HasGathered
<1> QED BY <1>1, <1>2, Elsewhere

LEMMA HostSound ==
  ASSUME IInv, TypeOK', NEW r \in Ranks, Host(r)
  PROVE  \A p \in Ranks : RankInv(p)'
<1>0. TypeOK /\ \A p \in Ranks : RankInv(p)
  BY DEF IInv
<1>1. RankInv(r)'
  <2>1. CASE CreateSession(r)
    BY <1>0, <2>1, CreateSessionKeeps
  <2>2. CASE GetInplaceTensor(r)
    BY <1>0, <2>2, GetInplaceTensorKeeps
  <2>3. CASE AllGather(r)
    BY <1>0, <2>3, AllGatherKeeps
  <2>4. CASE \E h \in handles[r] : CallHandle(r, h)
    BY <1>0, <2>4, CallHandleKeeps
  <2>5. CASE EndOfSession(r) /\ DestroySession(r)
    BY <1>0, <2>5, DestroySessionKeeps
  <2> QED BY <2>1, <2>2, <2>3, <2>4, <2>5 DEF Host
<1>2. ASSUME NEW p \in Ranks, p # r PROVE RankInv(p)'
  <2>1. SameRank(p) /\ sig' = sig /\ mem' = mem
    <3> USE DEF SameRank, HostKept, HeadKept, headVars
    <3>1. CASE CreateSession(r)
      BY <1>0, <1>2, <3>1 DEF CreateSession, TypeOK
    <3>2. CASE GetInplaceTensor(r)
      BY <1>0, <1>2, <3>2 DEF GetInplaceTensor, TypeOK
    <3>3. CASE AllGather(r)
      BY <1>0, <1>2, <3>3 DEF AllGather, TypeOK
    <3>4. CASE \E h \in handles[r] : CallHandle(r, h)
      BY <1>0, <1>2, <3>4 DEF CallHandle, TypeOK
    <3>5. CASE DestroySession(r)
      BY <1>0, <1>2, <3>5 DEF DestroySession, TypeOK
    <3> QED BY <3>1, <3>2, <3>3, <3>4, <3>5 DEF Host
  <2> QED BY <1>0, <2>1, QuietElsewhere DEF MemKept
<1> QED BY <1>1, <1>2

LEMMA CommEndSound ==
  ASSUME IInv, TypeOK', NEW r \in Ranks, CommEnd(r)
  PROVE  \A p \in Ranks : RankInv(p)'
<1>0. TypeOK /\ \A p \in Ranks : RankInv(p)
  BY DEF IInv
<1>1. RankInv(r)'
  BY <1>0, CommEndKeeps
<1>2. ASSUME NEW p \in Ranks, p # r PROVE RankInv(p)'
  <2>1. SameRank(p) /\ sig' = sig /\ mem' = mem
    BY <1>0, <1>2 DEF CommEnd, hostVars, SameRank, HostKept, HeadKept, TypeOK
  <2> QED BY <1>0, <2>1, QuietElsewhere DEF MemKept
<1> QED BY <1>1, <1>2

LEMMA ComputeStepSound ==
  ASSUME IInv, TypeOK', NEW r \in Ranks, ComputeStep(r)
  PROVE  \A p \in Ranks : RankInv(p)'
<1>0. TypeOK /\ \A p \in Ranks : RankInv(p)
  BY DEF IInv
<1>1. RankInv(r)'
  BY <1>0, ComputeStepKeeps
<1>2. ASSUME NEW p \in Ranks, p # r PROVE RankInv(p)'
  <2>1. SameRank(p) /\ sig' = sig
    BY <1>0, <1>2 DEF ComputeStep, hostVars, headVars, SameRank, HostKept, HeadKept, TypeOK
  <2>2. /\ MemKept(p)
        /\ \A k \in Slots : \A q \in Ranks : mem'[p][k][q] = mem[p][k][q]
    <3> PICK op : op = Head(compute[r])
      OBVIOUS
    <3>1. op.slot \in Slots
      BY <1>0, ComputeNumbers, ComputeFields DEF ComputeStep, ComputeRuns
    <3>2. CASE op.kind = "fill"
      <4>1. WritesPlace(r, op.slot, r, Item(r, op.session, op.slot))
        BY <3>2 DEF ComputeStep, WritesPlace
      <4> QED BY <1>0, <1>2, <3>1, <4>1, PlaceWritten DEF MemKept
    <3>3. CASE op.kind # "fill"
      BY <3>3 DEF ComputeStep, MemKept
    <3> QED BY <3>2, <3>3
  <2> QED BY <1>0, <2>1, <2>2, QuietElsewhere
<1> QED BY <1>1, <1>2

LEMMA InitSound == Init => IInv
<1> SUFFICES ASSUME Init PROVE IInv
  OBVIOUS
<1>1. TypeOK
  BY InitTypes
<1>2. ASSUME NEW r \in Ranks PROVE RankInv(r)
  <2>1. CommNums(r) = {} /\ ComputeNums(r) = {}
    BY DEF Init, CommNums, ComputeNums, CommEvent, ComputeEvent
  <2>2. /\ inSession[r] = FALSE /\ sessionIdx[r] = 0 /\ slotIdx[r] = 0 /\ inplace[r] = FALSE
        /\ handles[r] = {} /\ copied[r] = {} /\ told[r] = {}
        /\ \A q, p \in Ranks : \A w \in Rows : sig[q][w][p] = 0
    BY <1>2 DEF Init
  <2>3. HostInv(r)
    BY <2>2, GathersAssumption, PerSessionAssumption DEF HostInv
  <2>4. SessionsClosed(r)
    <3>1. Heard(r, 0)
      BY <2>2, RowFacts DEF Heard, Peers
    <3> QED BY <2>1, <2>2, <3>1 DEF SessionsClosed
  <2>5. WordsPast(r) /\ WordsTrue(r)
    BY <2>2, RowFacts DEF WordsPast, WordsTrue, Peers
  <2>6. HeadInv(r)
    BY <2>2 DEF HeadInv
  <2>7. CommInv(r) /\ ReadersToCome(r) /\ InplaceFilled(r) /\ ComputeInv(r) /\ HandlesInv(r)
    BY <2>1, <2>2 DEF CommInv, ReadersToCome, InplaceFilled, ComputeInv, HandlesInv
  <2> QED BY <2>3, <2>4, <2>5, <2>6, <2>7 DEF RankInv
<1> QED BY <1>1, <1>2 DEF IInv

LEMMA StepSound == IInv /\ [AnyNext]_vars => IInv'
<1> SUFFICES ASSUME IInv, [AnyNext]_vars PROVE IInv'
  OBVIOUS
<1>0. TypeOK /\ \A p \in Ranks : RankInv(p)
  BY DEF IInv
<1>1. CASE AnyNext
  <2> PICK r \in Ranks : Host(r) \/ Streams(r)
    BY <1>1 DEF AnyNext
  <2>1. TypeOK'
    BY <1>0, HostKeepsTypes, StreamsKeepTypes
  <2>2. \A p \in Ranks : RankInv(p)'
    <3>1. CASE Host(r)
      BY <2>1, <3>1, HostSound
    <3>2. CASE Streams(r)
      BY <2>1, <3>2, CopyToSound, TellSound, CommEndSound, ComputeStepSound DEF Streams
    <3> QED BY <3>1, <3>2
  <2> QED BY <2>1, <2>2 DEF IInv
<1>2. CASE UNCHANGED vars
  <2>1. TypeOK'
    BY <1>0, <1>2 DEF TypeOK, vars
  <2>2. ASSUME NEW p \in Ranks PROVE RankInv(p)'
    <3>1. SameRank(p) /\ sig' = sig /\ mem' = mem
      BY <1>2 DEF vars, SameRank, HostKept, HeadKept
    <3> QED BY <1>0, <2>1, <3>1, QuietElsewhere DEF MemKept
  <2> QED BY <2>1, <2>2 DEF IInv
<1> QED BY <1>1, <1>2

\* The invariant holds in every interleaving of hosts and streams.
THEOREM Invariance == AnySpec => []IInv
<1>1. Init => IInv
  BY InitSound
<1>2. IInv /\ [AnyNext]_vars => IInv'
  BY StepSound
<1> QED BY <1>1, <1>2, PTL DEF AnySpec

\* A step of the specification, in which the hosts go first, is one of them.
LEMMA HostsFirst == Spec => AnySpec
<1>1. [Next]_vars => [AnyNext]_vars
  BY DEF Next, AnyNext
<1> QED BY <1>1, PTL DEF Spec, AnySpec

\* TypeOK: every value that the hosts and the streams keep has its type.
THEOREM Types == Spec => []TypeOK
<1>1. IInv => TypeOK
  BY DEF IInv
<1> QED BY <1>1, Invariance, HostsFirst, PTL

LEMMA InvGathered == IInv => GatheredExact
<1> SUFFICES ASSUME IInv, NEW r \in Ranks, ComputeRuns(r), Head(compute[r]).kind = "use",
                    NEW q \in Ranks
             PROVE  mem[r][Head(compute[r]).slot][q]
                      = Item(q, Head(compute[r]).session, Head(compute[r]).slot)
  BY DEF GatheredExact
<1>0. TypeOK /\ RankInv(r)
  BY DEF IInv
<1> PICK f : f = computeEnded[r] + 1
  OBVIOUS
<1> PICK op : op = Head(compute[r])
  OBVIOUS
<1>1. /\ f \in ComputeNums(r) /\ op = ComputeOp(r, f) /\ op.after <= commEnded[r]
      /\ op.kind = "use"
  BY <1>0, ComputeNumbers DEF ComputeRuns
<1>2. Gathered(r, op.session, op.slot, op.after)
  BY <1>0, <1>1, ComputeInvHas DEF Sound, RankInv
<1>3. ~ToGather(r, op.session, op.slot, op.after)
  BY <1>0, <1>1, CommNumbers, ComputeFields DEF ToGather
<1>4. HasGathered(r, op.session, op.slot, op.after)
  BY <1>2, <1>3, GatheredParts
<1> QED BY <1>4 DEF HasGathered

\* GatheredExact: what a caller's kernel reads is what every rank contributed to this very
\* all-gather, in every program, however far the hosts have run ahead of the streams.
THEOREM ReadsExact == /\ Spec => []GatheredExact
                      /\ AnySpec => []GatheredExact
BY InvGathered, Invariance, HostsFirst, PTL

LEMMA InvNoSignalAhead == IInv => NoSignalAhead
<1> SUFFICES ASSUME IInv, NEW r \in Ranks, comm[r] # <<>>, Head(comm[r]).kind = "gather",
                    NEW q \in Peers(r)
             PROVE  sig[r][Head(comm[r]).row][q] <= Head(comm[r]).session
  BY DEF NoSignalAhead
<1>0. TypeOK /\ RankInv(r) /\ RankInv(q) /\ q \in Ranks
  BY DEF IInv, Peers
<1> PICK op : op = Head(comm[r])
  OBVIOUS
<1>1. CommHead(r) \in CommNums(r) /\ op = CommOp(r, CommHead(r)) /\ op.row \in Rows
  BY <1>0, CommNumbers, CommFields
<1>2. sig[r][op.row][q] <= op.session
  BY <1>0, <1>1, GatherSeesNoLater DEF RankInv
<1> QED BY <1>2

\* NoSignalAhead: no word an all-gather waits for has been overwritten by a later session.
THEOREM NoWordAhead == /\ Spec => []NoSignalAhead
                       /\ AnySpec => []NoSignalAhead
BY InvNoSignalAhead, Invariance, HostsFirst, PTL

=============================================================================
