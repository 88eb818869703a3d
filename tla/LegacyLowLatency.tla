-------------------------- MODULE LegacyLowLatency --------------------------
(***************************************************************************)
(* Low-latency dispatch and combine of the legacy buffer, over RDMA.       *)
(*                                                                         *)
(* No call waits for a barrier.  Calls use two buffers in turn, and every  *)
(* call cleans the signaling words of the other one before it sends its    *)
(* own signals.  A call is a sending phase and a receiving phase, one      *)
(* kernel or two (the hook, called before the next call).  A rank that     *)
(* gives no sign before the time limit is masked: nothing more is sent to  *)
(* it or expected from it.                                                 *)
(*                                                                         *)
(* On the wire a queue pair delivers in order and different ones do not;   *)
(* a put reads its source when it is delivered.                            *)
(***************************************************************************)
EXTENDS Integers, Sequences, FiniteSets, SequencesExt

CONSTANT Setups    \* bound: the groups of ranks and the calls they make

Kinds == {"dispatch", "combine", "clean"}

\* A setup: ranks, experts per rank, num_max_dispatch_tokens_per_rank, enable_shrink, whether
\* normal-mode kernels have left the words dirty, the ranks that may fail, and the calls: their
\* kind, the experts of every token of each rank, and for combine the call it has its handle from.
ASSUME SetupsAssumption ==
  \A p \in Setups :
    /\ p.ranks \in Nat /\ p.ranks >= 2
    /\ {p.local, p.max} \subseteq Nat \ {0}
    /\ {p.shrink, p.dirty} \subseteq BOOLEAN
    /\ p.dirty => p.calls[1].kind = "clean"
    /\ Len(p.calls) \in Nat /\ DOMAIN p.calls = 1 .. Len(p.calls)
    /\ p.mayFail \subseteq 0 .. p.ranks - 1
    /\ \A k \in DOMAIN p.calls :
         /\ p.calls[k].kind \in Kinds
         /\ p.calls[k].kind = "dispatch" => \A r \in 0 .. p.ranks - 1 :
              /\ p.calls[k].rows[r] \in Seq(SUBSET (0 .. p.ranks * p.local - 1))
              /\ Len(p.calls[k].rows[r]) <= p.max
         /\ p.calls[k].kind = "combine" =>
              p.calls[k].of \in 1 .. k - 1 /\ p.calls[p.calls[k].of].kind = "dispatch"
\* Without the mask buffer a kernel that exceeds the time limit traps.
ASSUME ShrinkAssumption == \A p \in Setups : p.mayFail # {} => p.shrink

VARIABLES
  prog,    \* the setup
  calls,   \* calls that have ended
  stage,   \* how far the next one is
  seen,    \* experts whose signals, or peers whose barrier words, it has seen
  alive,   \* ranks that have not failed
  mask,    \* mask_buffer_ptr: the masked ranks
  sync,    \* sync_buffer_ptr, or the counters of the library's barrier
  words,   \* signaling words of both buffers
  recv,    \* receive buffers
  send,    \* send buffers
  wire,    \* queue pairs: <<source, destination, local expert>>
  result   \* the tensors that each call leaves behind

callVars == <<prog, calls, stage, seen, alive, mask>>
vars == <<prog, calls, stage, seen, alive, mask, sync, words, recv, send, wire, result>>

-----------------------------------------------------------------------------
(* Experts, calls and the layout of the buffers.                           *)

Ranks   == 0 .. prog.ranks - 1
Experts == 0 .. prog.ranks * prog.local - 1
LocalExperts == 0 .. prog.local - 1
Buffers == {0, 1}
Calls   == DOMAIN prog.calls

RankOf(e)  == e \div prog.local
LocalOf(e) == e % prog.local
Expert(r, le) == r * prog.local + le

Now(r) == calls[r] + 1
Kind(k) == prog.calls[k].kind
IsNext(r, kind) == calls[r] < Len(prog.calls) /\ Kind(Now(r)) = kind
\* low_latency_buffer_idx, flipped by every dispatch and combine.
Buf(k) == Cardinality({m \in 1 .. k - 1 : Kind(m) # "clean"}) % 2
\* Faulty variant: a call cleans the words of the buffer that it uses.
OtherBufOwn(k) == Buf(k)

OtherBuf(k) == 1 - Buf(k)
Source(k) == IF Kind(k) = "dispatch" THEN k ELSE prog.calls[k].of
Rows(k, r) == prog.calls[Source(k)].rows[r]
TokensFor(k, r, e) == {t \in DOMAIN Rows(k, r) : e \in Rows(k, r)[t]}

\* Counts and flags share their words, and messages of both kinds the two buffers.
CountWord(le, s) == le * prog.ranks + s
FlagWord(e) == e
NumSlots == prog.ranks * prog.local * prog.max
\* Faulty variant: the sources share the expert's region.
DispatchSlotShared(le, s, i) == le * prog.ranks * prog.max + i

DispatchSlot(le, s, i) == (le * prog.ranks + s) * prog.max + i
CombineSlot(e, t) == e * prog.max + t - 1
SendRow(le, i) == le * prog.ranks * prog.max + i - 1

\* What a slot holds: a token, and after the experts the one that returns it.
Item(k, s, t, e) == [call |-> k, src |-> s, tok |-> t, expert |-> e]
NoItem == Item(0, 0, 0, -1)

NumWords == prog.ranks * prog.local
NoResult == [rows |-> <<>>, range |-> <<>>, sums |-> <<>>]
Empty == [rows |-> [le \in LocalExperts |-> <<>>],
          range |-> [le \in LocalExperts |-> [s \in Ranks |-> [num |-> 0, begin |-> 0]]],
          sums |-> <<>>]
Dirt == 7    \* what normal-mode kernels may leave in a word

Init ==
  /\ prog \in Setups
  /\ calls = [r \in Ranks |-> 0]
  /\ stage = [r \in Ranks |-> "idle"]
  /\ seen = [r \in Ranks |-> {}]
  /\ alive = Ranks
  /\ mask = [r \in Ranks |-> {}]
  /\ sync = [r \in Ranks |-> [q \in Ranks |-> 0]]
  /\ words = [r \in Ranks |-> [b \in Buffers |-> [i \in 0 .. NumWords - 1 |->
                IF prog.dirty THEN Dirt ELSE 0]]]
  /\ recv = [r \in Ranks |-> [b \in Buffers |-> [i \in 0 .. NumSlots - 1 |-> NoItem]]]
  /\ send = [r \in Ranks |-> [b \in Buffers |-> [i \in 0 .. NumSlots - 1 |-> NoItem]]]
  /\ wire = [q \in Ranks \X Ranks \X LocalExperts |-> <<>>]
  /\ result = [r \in Ranks |-> [k \in Calls |-> NoResult]]

-----------------------------------------------------------------------------
(* Puts and signals.                                                       *)

\* A put of several messages, each from a slot of the send buffer to one of the receive buffer.
\* A signal is added to a word.
PutMsg(b, moves)   == [buf |-> b, moves |-> moves, word |-> -1, value |-> 0]
SignalMsg(b, w, v) == [buf |-> b, moves |-> {}, word |-> w, value |-> v]

Moved(to, from, moves) ==
  [i \in DOMAIN to |-> IF \E p \in moves : p[2] = i
                       THEN from[(CHOOSE p \in moves : p[2] = i)[1]] ELSE to[i]]

\* Hand messages to the queue pairs, except of masked ranks; what goes to a failed rank is lost.
\* What the rank sends to itself is there at once, and left to the actions.
Issue(r, messages) ==
  wire' = [q \in DOMAIN wire |->
             IF q[1] = r /\ q[2] \in alive \ (mask[r] \cup {r})
             THEN wire[q] \o messages[<<q[2], q[3]>>] ELSE wire[q]]

\* The network delivers the next message of a queue pair.
Land(s, d, le) ==
  LET q == <<s, d, le>>
      m == Head(wire[q])
  IN  /\ wire[q] # <<>>
      /\ wire' = [wire EXCEPT ![q] = Tail(@)]
      /\ recv' = [recv EXCEPT ![d][m.buf] = Moved(@, send[s][m.buf], m.moves)]
      /\ words' = IF m.word < 0 THEN words ELSE [words EXCEPT ![d][m.buf][m.word] = @ + m.value]
      /\ UNCHANGED <<callVars, sync, send, result>>

-----------------------------------------------------------------------------
(* The sending phase.                                                      *)

\* Warps take the slots of an expert's region in any order.
SlotOrders(k, r) ==
  {f \in [Experts -> UNION {SetToSeqs(TokensFor(k, r, e)) : e \in Experts}] :
     \A e \in Experts : f[e] \in SetToSeqs(TokensFor(k, r, e))}

PutOf(b, moves) == IF moves = {} THEN <<>> ELSE <<PutMsg(b, moves)>>

\* dispatch: stage every token once and put it into a slot at each of its experts.
SendTokens(r) ==
  LET k == Now(r)
      b == Buf(k)
      tokens == [i \in DOMAIN send[r][b] |->
                   IF i + 1 \in DOMAIN Rows(k, r) THEN Item(k, r, i + 1, -1) ELSE send[r][b][i]]
  IN  /\ stage[r] = "idle" /\ IsNext(r, "dispatch")
      /\ \E order \in SlotOrders(k, r) :
           LET Moves(d, le) ==
                 LET o == order[Expert(d, le)]
                 IN  {<<o[i] - 1, DispatchSlot(le, r, i - 1)>> : i \in DOMAIN o}
           IN  /\ Issue(r, [p \in Ranks \X LocalExperts |-> PutOf(b, Moves(p[1], p[2]))])
               /\ recv' = [recv EXCEPT ![r][b] =
                    Moved(@, tokens, UNION {Moves(r, le) : le \in LocalExperts})]
      /\ send' = [send EXCEPT ![r][b] = tokens]
      /\ stage' = [stage EXCEPT ![r] = "sent"]
      /\ UNCHANGED <<prog, calls, seen, alive, mask, sync, words, result>>

\* combine: the experts' rows go back to the ranks that sent them, to the place of the token.
\* The rows are copied into the send buffer, or the caller has put them there (zero-copy).
SendBack(r) ==
  LET k == Now(r)
      b == Buf(k)
      handle == result[r][Source(k)]
      From(le, d) == (handle.range[le][d].begin + 1) ..
                     (handle.range[le][d].begin + handle.range[le][d].num)
      Row(le, i) == LET it == handle.rows[le][i] IN Item(k, it.src, it.tok, Expert(r, le))
      Moves(d, le) == {<<SendRow(le, i), CombineSlot(Expert(r, le), handle.rows[le][i].tok)>> :
                         i \in From(le, d)}
      rows == [n \in DOMAIN send[r][b] |->
                 LET le == n \div (prog.ranks * prog.max)
                     i == (n % (prog.ranks * prog.max)) + 1
                 IN  IF i \in DOMAIN handle.rows[le] THEN Row(le, i) ELSE send[r][b][n]]
  IN  /\ stage[r] = "idle" /\ IsNext(r, "combine")
      /\ Issue(r, [p \in Ranks \X LocalExperts |-> PutOf(b, Moves(p[1], p[2]))])
      /\ recv' = [recv EXCEPT ![r][b] = Moved(@, rows, UNION {Moves(r, le) : le \in LocalExperts})]
      /\ send' = [send EXCEPT ![r][b] = rows]
      /\ stage' = [stage EXCEPT ![r] = "sent"]
      /\ UNCHANGED <<prog, calls, seen, alive, mask, sync, words, result>>

\* One warp cleans the words of the next call's buffer (next_clean).
CleanNext(r) ==
  /\ stage[r] = "sent"
  /\ words' = [words EXCEPT ![r][OtherBuf(Now(r))] = [i \in DOMAIN @ |-> 0]]
  /\ stage' = [stage EXCEPT ![r] = "cleaned"]
  /\ UNCHANGED <<prog, calls, seen, alive, mask, sync, recv, send, wire, result>>

\* The word of the destination, and what is added to it: for dispatch the number of tokens, as
\* -num_tokens_sent - 1 to tell zero from nothing yet, for combine one.
SignalWord(k, r, le) == IF Kind(k) = "dispatch" THEN CountWord(le, r) ELSE FlagWord(Expert(r, le))
SignalValue(k, r, d, le) ==
  IF Kind(k) = "dispatch" THEN -Cardinality(TokensFor(k, r, Expert(d, le))) - 1 ELSE 1

\* When the tokens are issued and the words are clean, tell every expert.  For dispatch this
\* also resets packed_recv_count.
Signal(r) ==
  LET k == Now(r)
      b == Buf(k)
      own == {SignalWord(k, r, le) : le \in LocalExperts}
  IN  /\ stage[r] = "cleaned"
      /\ Issue(r, [p \in Ranks \X LocalExperts |->
           <<SignalMsg(b, SignalWord(k, r, p[2]), SignalValue(k, r, p[1], p[2]))>>])
      /\ words' = [words EXCEPT ![r][b] = [i \in DOMAIN @ |->
           IF i \in own
           THEN @[i] + SignalValue(k, r, r, CHOOSE le \in LocalExperts : SignalWord(k, r, le) = i)
           ELSE @[i]]]
      /\ result' = [result EXCEPT ![r][k] = Empty]
      /\ stage' = [stage EXCEPT ![r] = "receive"]
      /\ UNCHANGED <<prog, calls, seen, alive, mask, sync, recv, send>>

-----------------------------------------------------------------------------
(* The receiving phase.  A wait ends with the signal, or at the time limit, which a rank that *)
(* has not failed is assumed to keep: then the source is masked.                             *)

HasSignal(r, b, w) == words[r][b][w] # 0
Waited(r, s, b, w) == s \in mask[r] \/ HasSignal(r, b, w) \/ s \notin alive
\* Faulty variant: the index of the wait is taken for a rank.
MaskIndices(r, es) == [mask EXCEPT ![r] = @ \cup es]

MaskSources(r, es) == [mask EXCEPT ![r] = @ \cup {RankOf(e) : e \in es}]

\* dispatch, for one local expert and source: append the tokens to those of the expert.
Receive(r, e) ==
  LET k == Now(r)
      b == Buf(k)
      s == RankOf(e)
      le == LocalOf(e)
      w == CountWord(le, s)
      num == IF s \notin mask[r] /\ HasSignal(r, b, w) THEN -words[r][b][w] - 1 ELSE 0
      begin == Len(result[r][k].rows[le])
      last == seen[r] \cup {e} = Experts
  IN  /\ stage[r] = "receive" /\ Kind(k) = "dispatch" /\ e \notin seen[r]
      /\ Waited(r, s, b, w)
      /\ mask' = MaskSources(r, IF HasSignal(r, b, w) THEN {} ELSE {e})
      /\ result' = [result EXCEPT
           ![r][k].rows[le] = @ \o [i \in 1 .. num |-> recv[r][b][DispatchSlot(le, s, i - 1)]],
           ![r][k].range[le][s] = [num |-> num, begin |-> begin]]
      /\ seen' = [seen EXCEPT ![r] = IF last THEN {} ELSE @ \cup {e}]
      /\ stage' = IF last THEN [stage EXCEPT ![r] = "idle"] ELSE stage
      /\ calls' = IF last THEN [calls EXCEPT ![r] = @ + 1] ELSE calls
      /\ UNCHANGED <<prog, alive, sync, words, recv, send, wire>>

\* combine: wait for the flags of all experts.
ReceiveFlags(r) ==
  LET k == Now(r)
      b == Buf(k)
      Missing(e) == RankOf(e) \notin mask[r] /\ ~HasSignal(r, b, FlagWord(e))
  IN  /\ stage[r] = "receive" /\ Kind(k) = "combine"
      /\ \A e \in Experts : Waited(r, RankOf(e), b, FlagWord(e))
      /\ mask' = MaskSources(r, {e \in Experts : Missing(e)})
      /\ stage' = [stage EXCEPT ![r] = "reduce"]
      /\ UNCHANGED <<prog, calls, seen, alive, sync, words, recv, send, wire, result>>

\* Faulty variant: nobody is left out.
ReduceAll(r) ==
  LET k == Now(r)
  IN  /\ stage[r] = "reduce"
      /\ result' = [result EXCEPT ![r][k].sums = [t \in DOMAIN Rows(k, r) |->
           [e \in Rows(k, r)[t] |-> recv[r][Buf(k)][CombineSlot(e, t)]]]]
      /\ stage' = [stage EXCEPT ![r] = "idle"]
      /\ calls' = [calls EXCEPT ![r] = @ + 1]
      /\ UNCHANGED <<prog, seen, alive, mask, sync, words, recv, send, wire>>

\* ... then add up what the experts of ranks that are not masked have returned.
Reduce(r) ==
  LET k == Now(r)
      Terms(row) == {e \in row : RankOf(e) \notin mask[r]}
  IN  /\ stage[r] = "reduce"
      /\ result' = [result EXCEPT ![r][k].sums = [t \in DOMAIN Rows(k, r) |->
           [e \in Terms(Rows(k, r)[t]) |-> recv[r][Buf(k)][CombineSlot(e, t)]]]]
      /\ stage' = [stage EXCEPT ![r] = "idle"]
      /\ calls' = [calls EXCEPT ![r] = @ + 1]
      /\ UNCHANGED <<prog, seen, alive, mask, sync, words, recv, send, wire>>

-----------------------------------------------------------------------------
(* clean_low_latency_buffer: a barrier, zeros in both buffers, and a barrier.               *)

\* With the mask buffer the kernel has its own barrier: drain the queue pairs, count down, and
\* write the count to all peers.  Without it the library's takes its place.
Arrive(r, from, to) ==
  /\ stage[r] = from
  /\ \A d \in Ranks, le \in LocalExperts : wire[<<r, d, le>>] = <<>>
  /\ sync' = [q \in Ranks |->
                IF q \in {r} \cup (Ranks \ mask[r]) THEN [sync[q] EXCEPT ![r] = sync[r][r] - 1]
                ELSE sync[q]]
  /\ stage' = [stage EXCEPT ![r] = to]

StartClean(r) ==
  /\ IsNext(r, "clean")
  /\ Arrive(r, "idle", "open")
  /\ UNCHANGED <<prog, calls, seen, alive, mask, words, recv, send, wire, result>>

\* Its thread for a peer waits until the peer's word is exactly its own count.
Meet(r, q) ==
  LET there == IF prog.shrink THEN sync[r][q] = sync[r][r] ELSE sync[r][q] <= sync[r][r]
      last == seen[r] \cup {q} = Ranks \ {r}
  IN  /\ stage[r] \in {"open", "close"} /\ q \in Ranks \ (seen[r] \cup {r})
      /\ there \/ (prog.shrink /\ (q \in mask[r] \/ q \notin alive))
      /\ mask' = IF there THEN mask ELSE [mask EXCEPT ![r] = @ \cup {q}]
      /\ seen' = [seen EXCEPT ![r] = IF last THEN {} ELSE @ \cup {q}]
      /\ stage' = IF last THEN [stage EXCEPT ![r] = IF @ = "open" THEN "zero" ELSE "idle"] ELSE stage
      /\ calls' = IF last /\ stage[r] = "close" THEN [calls EXCEPT ![r] = @ + 1] ELSE calls
      /\ UNCHANGED <<prog, alive, sync, words, recv, send, wire, result>>

\* Faulty variant: the kernel ends without the second barrier.
ZeroBothAndGo(r) ==
  /\ stage[r] = "zero"
  /\ words' = [words EXCEPT ![r] = [b \in Buffers |-> [i \in DOMAIN @[b] |-> 0]]]
  /\ stage' = [stage EXCEPT ![r] = "idle"]
  /\ calls' = [calls EXCEPT ![r] = @ + 1]
  /\ UNCHANGED <<prog, seen, alive, mask, sync, recv, send, wire, result>>

ZeroBoth(r) ==
  /\ Arrive(r, "zero", "close")
  /\ words' = [words EXCEPT ![r] = [b \in Buffers |-> [i \in DOMAIN @[b] |-> 0]]]
  /\ UNCHANGED <<prog, calls, seen, alive, mask, recv, send, wire, result>>

-----------------------------------------------------------------------------
\* A rank stops for good.  What it has issued may still arrive, later or never, so a failure
\* between two sends is one after them; its own memory no longer matters.  The test lets ranks
\* fail only before a call; here they may also fail inside one.
Fail(r) ==
  /\ r \in prog.mayFail \cap alive
  /\ stage[r] \in {"idle", "receive"} /\ seen[r] = {}
  /\ calls[r] < Len(prog.calls)
  /\ alive' = alive \ {r}
  /\ wire' = [q \in DOMAIN wire |-> IF q[2] = r THEN <<>> ELSE wire[q]]
  /\ result' = [result EXCEPT ![r] = [k \in Calls |-> NoResult]]
  /\ UNCHANGED <<prog, calls, stage, seen, mask, sync, words, recv, send>>

Step(r) ==
  \/ SendTokens(r) \/ SendBack(r) \/ CleanNext(r) \/ Signal(r) \/ Reduce(r)
  \/ ReceiveFlags(r) \/ \E e \in Experts : Receive(r, e)
  \/ StartClean(r) \/ ZeroBoth(r) \/ \E q \in Ranks : Meet(r, q)
Work == (\E r \in alive : Step(r)) \/ (\E q \in DOMAIN wire : Land(q[1], q[2], q[3]))
Next == Work \/ \E r \in Ranks : Fail(r)

Spec == Init /\ [][Next]_vars

\* Ranks that have not failed and the network go on while something can.
FairSpec == Spec /\ WF_vars(Work)

-----------------------------------------------------------------------------
(* Properties.                                                             *)

ItemSet == [call : Nat, src : Nat, tok : Nat, expert : Int]
Messages == [buf : Buffers, moves : SUBSET ((0 .. NumSlots - 1) \X (0 .. NumSlots - 1)),
             word : -1 .. NumWords - 1, value : Int]
\* What a call has left: of every local expert the rows and where those of a source are, and of
\* every token the terms of its sum.
ResultTyped(res) ==
  res # NoResult =>
    /\ DOMAIN res = {"rows", "range", "sums"}
    /\ res.rows \in [LocalExperts -> Seq(ItemSet)]
    /\ res.range \in [LocalExperts -> [Ranks -> [num : 0 .. prog.max, begin : Nat]]]
    /\ DOMAIN res.sums \subseteq 1 .. prog.max
    /\ \A t \in DOMAIN res.sums : \A e \in DOMAIN res.sums[t] : e \in Experts /\ res.sums[t][e] \in ItemSet

\* Every variable has its shape: no buffer, word or slot is out of range, be it of a message on
\* its way (every slot that it reads or writes), and nobody masks itself or what is no rank.
TypeOK ==
  /\ prog \in Setups
  /\ calls \in [Ranks -> 0 .. Len(prog.calls)]
  /\ stage \in [Ranks -> {"idle", "sent", "cleaned", "receive", "reduce", "open", "zero", "close"}]
  /\ seen \in [Ranks -> SUBSET (Experts \cup Ranks)]
  /\ alive \subseteq Ranks
  /\ mask \in [Ranks -> SUBSET Ranks] /\ \A r \in Ranks : r \notin mask[r]
  /\ sync \in [Ranks -> [Ranks -> Int]]
  /\ words \in [Ranks -> [Buffers -> [0 .. NumWords - 1 -> Int]]]
  /\ {recv, send} \subseteq [Ranks -> [Buffers -> [0 .. NumSlots - 1 -> ItemSet]]]
  /\ DOMAIN wire = Ranks \X Ranks \X LocalExperts
  /\ \A q \in DOMAIN wire : wire[q] \in Seq(Messages)
  /\ DOMAIN result = Ranks /\ \A r \in Ranks : DOMAIN result[r] = Calls
  /\ \A r \in Ranks : \A k \in Calls : ResultTyped(result[r][k])

\* A dispatch gives every expert each token that chose it once, the tokens of a source side by
\* side where layout_range says, although nobody waits before a buffer is used again.  Only of
\* a source that has failed may an expert get nothing, and then it gets nothing at all.
DispatchExact ==
  \A r \in alive : \A k \in Calls :
    calls[r] >= k /\ Kind(k) = "dispatch" =>
      \A le \in LocalExperts :
        LET rows == result[r][k].rows[le]
            range == result[r][k].range[le]
            Places(s) == range[s].begin + 1 .. range[s].begin + range[s].num
            Expected(s) == {Item(k, s, t, -1) : t \in TokensFor(k, s, Expert(r, le))}
        IN  /\ DOMAIN rows = UNION {Places(s) : s \in Ranks}
            /\ \A s \in Ranks :
                 \/ /\ {rows[i] : i \in Places(s)} = Expected(s)
                    /\ range[s].num = Cardinality(Expected(s))
                 \/ s \notin alive /\ range[s].num = 0

\* A combine adds up, for every token, what its experts returned for it in this very call.  The
\* experts of a rank that failed are either all left out, of every token, or none is.
CombineExact ==
  \A r \in alive : \A k \in Calls :
    calls[r] >= k /\ Kind(k) = "combine" =>
      \E out \in SUBSET (Ranks \ alive) : \A t \in DOMAIN Rows(k, r) :
        result[r][k].sums[t] = [e \in {x \in Rows(k, r)[t] : RankOf(x) \notin out} |-> Item(k, r, t, e)]

\* A signal that is still on its way finds its word clean: no earlier one of the same buffer is
\* left, and the cleaning of the word does not come after it.
SignalsMeetZero ==
  \A q \in DOMAIN wire : \A i \in DOMAIN wire[q] :
    wire[q][i].word >= 0 => words[q[2]][wire[q][i].buf][wire[q][i].word] = 0

\* Every rank that does not fail gets through its calls.
CallsEnd == <>(\A r \in alive : calls[r] = Len(prog.calls))

=============================================================================
