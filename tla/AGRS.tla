-------------------------------- MODULE AGRS --------------------------------
(***************************************************************************)
(* All-gathers in sessions, over the mapped buffers of one NVLink domain.  *)
(*                                                                         *)
(* An all-gather copies the rank's tensor into its place of the next slot  *)
(* in every rank's buffer, then writes the session number to a signal word *)
(* of every peer and waits for the peers' words.  Slots are not released   *)
(* one by one: destroying the session exchanges the session number once    *)
(* more, and the next session starts at slot 0 again.                      *)
(*                                                                         *)
(* The host only enqueues, on two streams: the communication stream copies *)
(* and waits, the compute stream fills in-place tensors and reads results. *)
(* What orders the two are the events one stream waits for.                *)
(***************************************************************************)
EXTENDS Integers, Sequences

CONSTANTS NumRanks,      \* nccl_context->num_ranks
          PerSession,    \* num_max_agrs_per_session
          Gathers        \* the program of all ranks: all-gathers of each session in turn

ASSUME NumRanksAssumption   == NumRanks \in Nat /\ NumRanks >= 2
ASSUME PerSessionAssumption == PerSession \in Nat /\ PerSession >= 1
ASSUME GathersAssumption    == Gathers \in Seq(0 .. PerSession)

Ranks == 0 .. NumRanks - 1
Peers(r) == Ranks \ {r}

\* The signal words of a rank: a row per slot, and one more row for the sessions.
Slots == 0 .. PerSession - 1
SessionRow == PerSession
Rows  == Slots \cup {SessionRow}

\* What rank r contributes to the all-gather of that slot in that session.
Item(r, session, slot) == <<r, session, slot>>
NoItem == <<0, 0, 0>>
Items  == Ranks \X Nat \X Slots

CommOps ==
  [kind : {"gather", "destroy"}, session : Nat, row : Rows, inplace : BOOLEAN, after : Nat]
ComputeOps == [kind : {"fill", "use"}, session : Nat, slot : Slots, after : Nat]

VARIABLES
  inSession,   \* agrs_in_session
  sessionIdx,  \* agrs_session_idx
  slotIdx,     \* agrs_buffer_slot_idx
  inplace,     \* the tensor for the next slot is an in-place tensor
  handles,     \* handles of this session not called: slot, and the event recorded
  comm,        \* operations on the communication stream, the head under way
  compute,     \* operations on the compute stream
  commEnded,   \* operations that the communication stream has finished
  computeEnded,
  copied,      \* ranks the all-gather at the head of comm has copied to
  told,        \* peers the head of comm has written the session number to
  sig,         \* AGRS signal words of each rank, per row and writer
  mem          \* the session buffer of each rank, per slot and contributor

hostVars == <<inSession, sessionIdx, slotIdx, inplace, handles>>
headVars == <<copied, told>>
vars == <<inSession, sessionIdx, slotIdx, inplace, handles, comm, compute,
          commEnded, computeEnded, copied, told, sig, mem>>

TypeOK ==
  /\ inSession \in [Ranks -> BOOLEAN]
  /\ sessionIdx \in [Ranks -> Nat]
  /\ slotIdx \in [Ranks -> Nat]
  /\ inplace \in [Ranks -> BOOLEAN]
  /\ handles \in [Ranks -> SUBSET [slot : Slots, at : Nat]]
  /\ comm \in [Ranks -> Seq(CommOps)]
  /\ compute \in [Ranks -> Seq(ComputeOps)]
  /\ commEnded \in [Ranks -> Nat]
  /\ computeEnded \in [Ranks -> Nat]
  /\ copied \in [Ranks -> SUBSET Ranks]
  /\ told \in [Ranks -> SUBSET Ranks]
  /\ sig \in [Ranks -> [Rows -> [Ranks -> Nat]]]
  /\ mem \in [Ranks -> [Slots -> [Ranks -> Items]]]

Init ==
  /\ inSession = [r \in Ranks |-> FALSE]
  /\ sessionIdx = [r \in Ranks |-> 0]
  /\ slotIdx = [r \in Ranks |-> 0]
  /\ inplace = [r \in Ranks |-> FALSE]
  /\ handles = [r \in Ranks |-> {}]
  /\ comm = [r \in Ranks |-> <<>>]
  /\ compute = [r \in Ranks |-> <<>>]
  /\ commEnded = [r \in Ranks |-> 0]
  /\ computeEnded = [r \in Ranks |-> 0]
  /\ copied = [r \in Ranks |-> {}]
  /\ told = [r \in Ranks |-> {}]
  /\ sig = [r \in Ranks |-> [w \in Rows |-> [q \in Ranks |-> 0]]]
  /\ mem = [r \in Ranks |-> [k \in Slots |-> [q \in Ranks |-> NoItem]]]

-----------------------------------------------------------------------------
(* The host.  An event is the number of operations enqueued before it.     *)

ComputeEvent(r) == computeEnded[r] + Len(compute[r])
CommEvent(r)    == commEnded[r] + Len(comm[r])

CreateSession(r) ==
  /\ ~inSession[r]
  /\ sessionIdx[r] < Len(Gathers)
  /\ inSession' = [inSession EXCEPT ![r] = TRUE]
  /\ slotIdx' = [slotIdx EXCEPT ![r] = 0]
  /\ sessionIdx' = [sessionIdx EXCEPT ![r] = @ + 1]
  /\ UNCHANGED <<inplace, handles, comm, compute, commEnded, computeEnded, headVars, sig, mem>>

\* The program has one more all-gather in this session.
MoreGathers(r) == inSession[r] /\ slotIdx[r] < Gathers[sessionIdx[r]]

\* agrs_get_inplace_tensor, and the kernel of the caller that fills the tensor.
GetInplaceTensor(r) ==
  /\ MoreGathers(r) /\ ~inplace[r]
  /\ slotIdx[r] < PerSession
  /\ inplace' = [inplace EXCEPT ![r] = TRUE]
  /\ compute' = [compute EXCEPT ![r] =
       Append(@, [kind |-> "fill", session |-> sessionIdx[r], slot |-> slotIdx[r], after |-> 0])]
  /\ UNCHANGED <<inSession, sessionIdx, slotIdx, handles, comm, commEnded, computeEnded,
                 headVars, sig, mem>>

\* Faulty variant: the slot index is advanced before it is used.
AllGatherNextSlot(r) ==
  /\ MoreGathers(r) /\ slotIdx[r] < PerSession
  /\ comm' = [comm EXCEPT ![r] =
       Append(@, [kind |-> "gather", session |-> sessionIdx[r], row |-> slotIdx[r] + 1,
                  inplace |-> inplace[r], after |-> ComputeEvent(r)])]
  /\ handles' = [handles EXCEPT ![r] = @ \cup {[slot |-> slotIdx[r] + 1, at |-> CommEvent(r) + 1]}]
  /\ slotIdx' = [slotIdx EXCEPT ![r] = @ + 1]
  /\ inplace' = [inplace EXCEPT ![r] = FALSE]
  /\ UNCHANGED <<inSession, sessionIdx, compute, commEnded, computeEnded, headVars, sig, mem>>

AllGather(r) ==
  /\ MoreGathers(r)
  /\ slotIdx[r] < PerSession
  /\ comm' = [comm EXCEPT ![r] =
       Append(@, [kind |-> "gather", session |-> sessionIdx[r], row |-> slotIdx[r],
                  inplace |-> inplace[r], after |-> ComputeEvent(r)])]
  /\ handles' = [handles EXCEPT ![r] = @ \cup {[slot |-> slotIdx[r], at |-> CommEvent(r) + 1]}]
  /\ slotIdx' = [slotIdx EXCEPT ![r] = @ + 1]
  /\ inplace' = [inplace EXCEPT ![r] = FALSE]
  /\ UNCHANGED <<inSession, sessionIdx, compute, commEnded, computeEnded, headVars, sig, mem>>

\* The caller calls a handle and enqueues what reads the gathered tensor.
CallHandle(r, h) ==
  /\ inSession[r]
  /\ h \in handles[r]
  /\ compute' = [compute EXCEPT ![r] =
       Append(@, [kind |-> "use", session |-> sessionIdx[r], slot |-> h.slot, after |-> h.at])]
  /\ handles' = [handles EXCEPT ![r] = @ \ {h}]
  /\ UNCHANGED <<inSession, sessionIdx, slotIdx, inplace, comm, commEnded, computeEnded,
                 headVars, sig, mem>>

DestroySession(r) ==
  /\ inSession[r]
  /\ inSession' = [inSession EXCEPT ![r] = FALSE]
  /\ comm' = [comm EXCEPT ![r] =
       Append(@, [kind |-> "destroy", session |-> sessionIdx[r], row |-> SessionRow,
                  inplace |-> FALSE, after |-> ComputeEvent(r)])]
  /\ UNCHANGED <<sessionIdx, slotIdx, inplace, handles, compute, commEnded, computeEnded,
                 headVars, sig, mem>>

-----------------------------------------------------------------------------
(* The communication stream.                                               *)

\* An operation starts when the compute stream has passed the event it waits for.
CommRuns(r) == comm[r] # <<>> /\ Head(comm[r]).after <= computeEnded[r]

\* One copy of the batch.  Copies of a batch go in any order.
CopyTo(r, dst) ==
  LET op == Head(comm[r])
      src == IF op.inplace THEN mem[r][op.row][r] ELSE Item(r, op.session, op.row)
  IN  /\ CommRuns(r)
      /\ op.kind = "gather"
      /\ dst \in Ranks \ copied[r]
      /\ mem' = [mem EXCEPT ![dst][op.row][r] = src]
      /\ copied' = [copied EXCEPT ![r] = @ \cup {dst}]
      /\ UNCHANGED <<hostVars, comm, compute, commEnded, computeEnded, told, sig>>

\* Faulty variant: the signal is written before the copies are done.
TellEarly(r, dst) ==
  LET op == Head(comm[r])
  IN  /\ CommRuns(r)
      /\ dst \in Peers(r) \ told[r]
      /\ sig' = [sig EXCEPT ![dst][op.row][r] = op.session]
      /\ told' = [told EXCEPT ![r] = @ \cup {dst}]
      /\ UNCHANGED <<hostVars, comm, compute, commEnded, computeEnded, copied, mem>>

\* batched_write_and_wait, the writes: one peer learns the session number.
Tell(r, dst) ==
  LET op == Head(comm[r])
  IN  /\ CommRuns(r)
      /\ op.kind = "gather" => copied[r] = Ranks
      /\ dst \in Peers(r) \ told[r]
      /\ sig' = [sig EXCEPT ![dst][op.row][r] = op.session]
      /\ told' = [told EXCEPT ![r] = @ \cup {dst}]
      /\ UNCHANGED <<hostVars, comm, compute, commEnded, computeEnded, copied, mem>>

\* Faulty variants: waits for equality, or not at all.
ReachedExactly(word, value) == word = value
ReachedAlways(word, value)  == TRUE

\* The wait of one signal word: CU_STREAM_WAIT_VALUE_GEQ.
Reached(word, value) == word >= value

\* ... and the waits: every peer has written at least this session number.
CommEnd(r) ==
  LET op == Head(comm[r])
  IN  /\ CommRuns(r)
      /\ told[r] = Peers(r)
      /\ \A q \in Peers(r) : Reached(sig[r][op.row][q], op.session)
      /\ comm' = [comm EXCEPT ![r] = Tail(@)]
      /\ commEnded' = [commEnded EXCEPT ![r] = @ + 1]
      /\ copied' = [copied EXCEPT ![r] = {}]
      /\ told' = [told EXCEPT ![r] = {}]
      /\ UNCHANGED <<hostVars, compute, computeEnded, sig, mem>>

-----------------------------------------------------------------------------
(* The compute stream.                                                     *)

ComputeRuns(r) == compute[r] # <<>> /\ Head(compute[r]).after <= commEnded[r]

ComputeStep(r) ==
  LET op == Head(compute[r])
  IN  /\ ComputeRuns(r)
      /\ mem' = IF op.kind = "fill"
                THEN [mem EXCEPT ![r][op.slot][r] = Item(r, op.session, op.slot)] ELSE mem
      /\ compute' = [compute EXCEPT ![r] = Tail(@)]
      /\ computeEnded' = [computeEnded EXCEPT ![r] = @ + 1]
      /\ UNCHANGED <<hostVars, comm, commEnded, headVars, sig>>

-----------------------------------------------------------------------------
(***************************************************************************)
(* All ranks run the same program, and every handle is called before the   *)
(* session is destroyed.                                                   *)
(***************************************************************************)
EndOfSession(r) == ~MoreGathers(r) /\ handles[r] = {}

Host(r) ==
  \/ CreateSession(r)
  \/ GetInplaceTensor(r)
  \/ AllGather(r)
  \/ \E h \in handles[r] : CallHandle(r, h)
  \/ EndOfSession(r) /\ DestroySession(r)

Streams(r) ==
  \/ \E dst \in Ranks : CopyTo(r, dst) \/ Tell(r, dst)
  \/ CommEnd(r)
  \/ ComputeStep(r)

\* What a host does depends on nothing the streams do, and they take what is enqueued in
\* order, so to let the hosts run through their programs first loses no behaviour.
HostDone(r) == sessionIdx[r] = Len(Gathers) /\ ~inSession[r]

Next ==
  \/ \E r \in Ranks : Host(r)
  \/ (\A r \in Ranks : HostDone(r)) /\ \E r \in Ranks : Streams(r)

Spec == Init /\ [][Next]_vars

\* Neither all hosts nor all streams stop while one of them can go on; what happens is
\* finite, so nothing finer is needed.
FairSpec == Spec /\ WF_vars(Next)

-----------------------------------------------------------------------------
(* Properties. *)

\* While the caller's kernel reads a gathered tensor, every rank's part of it is what
\* that rank contributed to this very all-gather: everything has arrived, and no faster
\* rank has begun to write the same slot for its next session.
GatheredExact ==
  \A r \in Ranks : LET op == Head(compute[r])
                   IN  ComputeRuns(r) /\ op.kind = "use" =>
                         \A q \in Ranks : mem[r][op.slot][q] = Item(q, op.session, op.slot)

\* An all-gather waits for a word that a later session has not overwritten yet: signal
\* words are reused every session and nobody resets them.
NoSignalAhead ==
  \A r \in Ranks : LET op == Head(comm[r])
                   IN  comm[r] # <<>> /\ op.kind = "gather" =>
                         \A q \in Peers(r) : sig[r][op.row][q] <= op.session

\* Every program ends: all streams drain.  A peer may be a whole (empty) session ahead
\* of the number that a rank waits for.
ProgramEnds ==
  <>(\A r \in Ranks : HostDone(r) /\ comm[r] = <<>> /\ compute[r] = <<>>)

-----------------------------------------------------------------------------
(***************************************************************************)
(* The inductive invariant behind them.  It does not need the hosts to go  *)
(* first: it holds of every interleaving of hosts and streams.             *)
(***************************************************************************)
AnyNext == \E r \in Ranks : Host(r) \/ Streams(r)

AnySpec == Init /\ [][AnyNext]_vars

\* The operations on the two streams by their numbers, from the first ever enqueued: these
\* are the numbers that events and the operations that wait for them are about.
CommNums(r)      == commEnded[r] + 1 .. CommEvent(r)
CommOp(r, n)     == comm[r][n - commEnded[r]]
ComputeNums(r)   == computeEnded[r] + 1 .. ComputeEvent(r)
ComputeOp(r, n)  == compute[r][n - computeEnded[r]]
CommHead(r)      == commEnded[r] + 1

\* The program goes through the rows of one session after the other.
Before(s, w, t, v) == s < t \/ (s = t /\ w < v)

\* The host is past the operation on that row of that session.
HostPast(r, s, w) ==
  s < sessionIdx[r] \/ (s = sessionIdx[r] /\ (inSession[r] => w < slotIdx[r]))

HostInv(r) ==
  /\ sessionIdx[r] <= Len(Gathers) /\ slotIdx[r] <= PerSession
  /\ inSession[r] => sessionIdx[r] >= 1
  /\ inplace[r] => MoreGathers(r)
  /\ ~inSession[r] => handles[r] = {}

\* The communication stream has its operations in the order of the program.
CommInv(r) ==
  \A n \in CommNums(r) : LET op == CommOp(r, n) IN
    /\ op.session >= 1 /\ HostPast(r, op.session, op.row)
    /\ op.kind = "gather" <=> op.row \in Slots
    /\ \A m \in CommNums(r) :
         m < n => Before(CommOp(r, m).session, CommOp(r, m).row, op.session, op.row)

\* No session is left out: it is still to be destroyed, or all peers have destroyed theirs too.
Destroys(r, n, s) == CommOp(r, n).kind = "destroy" /\ CommOp(r, n).session = s
Heard(r, s)       == \A q \in Peers(r) : sig[r][SessionRow][q] >= s

SessionsClosed(r) ==
  /\ \A n \in CommNums(r) : LET s == CommOp(r, n).session - 1
                            IN  Heard(r, s) \/ \E m \in CommNums(r) : m < n /\ Destroys(r, m, s)
  /\ LET s == IF inSession[r] THEN sessionIdx[r] - 1 ELSE sessionIdx[r]
     IN  Heard(r, s) \/ \E m \in CommNums(r) : Destroys(r, m, s)

\* A word holds a session whose operation its writer is past, or is telling it from.
WordsPast(r) ==
  \A q \in Peers(r) : \A w \in Rows : LET v == sig[q][w][r] IN
    v > 0 =>
      /\ HostPast(r, v, w)
      /\ \A n \in CommNums(r) : LET op == CommOp(r, n) IN
           \/ Before(v, w, op.session, op.row)
           \/ n = CommHead(r) /\ op.session = v /\ op.row = w /\ q \in told[r]

\* What the operation under way has done so far.
HeadInv(r) ==
  LET op == CommOp(r, CommHead(r)) IN
    /\ told[r] \subseteq Peers(r)
    /\ copied[r] # {} \/ told[r] # {} => CommRuns(r)
    /\ copied[r] # {} => op.kind = "gather"
    /\ told[r] # {} /\ op.kind = "gather" => copied[r] = Ranks
    /\ \A q \in told[r] : sig[q][op.row][r] = op.session
    /\ \A q \in copied[r] : mem[q][op.row][r] = Item(r, op.session, op.row)

\* A word says what lies in the slot, unless a later all-gather has begun to overwrite it.
WordsTrue(r) ==
  \A q \in Peers(r) : \A k \in Slots : LET v == sig[q][k][r] IN
    v > 0 => \/ mem[q][k][r] = Item(r, v, k)
             \/ q \in copied[r] /\ CommOp(r, CommHead(r)).row = k

\* The all-gather with number at is still to be done, or its result lies in the slot.
Gathered(r, s, k, at) ==
  /\ HostPast(r, s, k)
  /\ \/ /\ at \in CommNums(r)
        /\ CommOp(r, at).kind = "gather" /\ CommOp(r, at).session = s /\ CommOp(r, at).row = k
     \/ /\ at <= commEnded[r]
        /\ \A n \in CommNums(r) : Before(s, k, CommOp(r, n).session, CommOp(r, n).row)
        /\ \A q \in Peers(r) : sig[r][k][q] >= s
        /\ \A q \in Ranks : mem[r][k][q] = Item(q, s, k)

\* Every all-gather not done yet has a reader to come: a handle, or what a called handle enqueued.
Uses(r, m, s, k, at) ==
  LET op == ComputeOp(r, m)
  IN  op.kind = "use" /\ op.session = s /\ op.slot = k /\ op.after = at

ReadersToCome(r) ==
  \A n \in CommNums(r) : LET op == CommOp(r, n) IN
    op.kind = "gather" =>
      \/ op.session = sessionIdx[r] /\ [slot |-> op.row, at |-> n] \in handles[r]
      \/ \E m \in ComputeNums(r) : Uses(r, m, op.session, op.row, n)

\* An in-place tensor is filled before the all-gather that takes it, and stays so.
Filled(r, s, k, by) ==
  \/ \E m \in ComputeNums(r) : LET op == ComputeOp(r, m)
                               IN  m <= by /\ op.kind = "fill" /\ op.session = s /\ op.slot = k
  \/ /\ mem[r][k][r] = Item(r, s, k)
     /\ \A m \in ComputeNums(r) : ComputeOp(r, m).session >= s

InplaceFilled(r) ==
  /\ inplace[r] => Filled(r, sessionIdx[r], slotIdx[r], ComputeEvent(r))
  /\ \A n \in CommNums(r) : LET op == CommOp(r, n) IN
       op.kind = "gather" /\ op.inplace => Filled(r, op.session, op.row, op.after)

\* A fill has its all-gather still before it, a use the end of its session.
FillWaitedFor(r, n) ==
  LET op == ComputeOp(r, n) IN
    \/ inplace[r] /\ op.session = sessionIdx[r] /\ op.slot = slotIdx[r]
    \/ \E m \in CommNums(r) : LET g == CommOp(r, m)
                              IN  g.session = op.session /\ g.row = op.slot /\ g.after >= n

UseWaitedFor(r, n) ==
  LET op == ComputeOp(r, n) IN
    \/ inSession[r] /\ op.session = sessionIdx[r]
    \/ \E m \in CommNums(r) : Destroys(r, m, op.session) /\ CommOp(r, m).after >= n

ComputeInv(r) ==
  \A n \in ComputeNums(r) : LET op == ComputeOp(r, n) IN
    /\ op.session \in 1 .. sessionIdx[r]
    /\ \A m \in ComputeNums(r) : m < n => ComputeOp(r, m).session <= op.session
    /\ op.kind = "fill" => FillWaitedFor(r, n)
    /\ op.kind = "use" => UseWaitedFor(r, n) /\ Gathered(r, op.session, op.slot, op.after)

HandlesInv(r) == \A h \in handles[r] : Gathered(r, sessionIdx[r], h.slot, h.at)

RankInv(r) ==
  /\ HostInv(r) /\ CommInv(r) /\ SessionsClosed(r) /\ WordsPast(r) /\ HeadInv(r)
  /\ WordsTrue(r) /\ ReadersToCome(r) /\ InplaceFilled(r) /\ ComputeInv(r) /\ HandlesInv(r)

IInv == TypeOK /\ \A r \in Ranks : RankInv(r)

=============================================================================
