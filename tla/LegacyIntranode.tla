--------------------------- MODULE LegacyIntranode ---------------------------
(***************************************************************************)
(* Dispatch and combine of the legacy buffer among the ranks of one node.  *)
(*                                                                         *)
(* Every rank owns a piece of memory that all peers map.  Tokens travel    *)
(* through bounded queues in the receiver's memory, one per channel and    *)
(* sender, with a tail word that the sender releases and a head word that  *)
(* the receiver stores.  A call is two kernels on the stream: a notify     *)
(* kernel that exchanges counts or cleans words between barriers, and the  *)
(* kernel that moves the tokens.                                           *)
(*                                                                         *)
(* Dispatch and combine lay the same memory out differently: the tail      *)
(* words of one lie where the other has counts or tokens.  Memory is a     *)
(* function of addresses here, one per integer or token slot.              *)
(***************************************************************************)
EXTENDS Integers, Sequences, FiniteSets, FiniteSetsExt, FiniteSums

CONSTANTS NumRanks,            \* kNumRanks
          NumExpertsPerRank,   \* num_experts / num_ranks
          NumCombineWarps,     \* num_recv_warps - 1 of combine
          ExpertAlignment,     \* expert_alignment
          Setups               \* bound: the programs, one kind, config and routing per call

Ranks   == 0 .. NumRanks - 1
Experts == 0 .. NumRanks * NumExpertsPerRank - 1
LocalExperts == 0 .. NumExpertsPerRank - 1
Warps   == 1 .. NumCombineWarps
Kinds   == {"dispatch", "cached", "combine"}

\* A call: its kind, the earlier call it takes its handle (cached) or its input (combine) from,
\* the experts of every token of each rank, num_worst_tokens (0: the host waits for the counts)
\* and of Config: channels, num_max_send_tokens (send) and num_recv_buffer_tokens (recv).
ASSUME SizesAssumption ==
  /\ NumRanks \in Nat /\ NumRanks >= 2
  /\ {NumExpertsPerRank, NumCombineWarps, ExpertAlignment} \subseteq Nat \ {0}
ASSUME ProgramsAssumption ==
  \A p \in Setups :
    /\ p \in Seq([kind : Kinds, of : Nat, rows : [Ranks -> Seq(SUBSET Experts)],
                  channels : Nat \ {0}, send : Nat \ {0}, recv : Nat, worst : Nat])
    /\ \A k \in DOMAIN p :
         /\ p[k].send < p[k].recv
         /\ p[k].worst # 0 => p[k].worst >= Sum([r \in Ranks |-> Len(p[k].rows[r])], Ranks)
         /\ p[k].kind # "dispatch" =>
              /\ p[k].of \in 1 .. k - 1
              /\ p[p[k].of].kind \in (IF p[k].kind = "cached" THEN {"dispatch"} ELSE {"dispatch", "cached"})
              /\ p[k].channels = p[p[k].of].channels
\* Config asks for less (send < recv), but the heads of combine lag behind by a token per
\* warp: with less room than this its senders wait forever.
ASSUME RoomAssumption ==
  \A p \in Setups : \A k \in DOMAIN p :
    p[k].kind = "combine" => p[k].recv >= p[k].send + NumCombineWarps - 1
\* A dispatch without CPU sync and a later one with it share the counters on the host, and
\* late counts of the first would be taken for those of the second: programs use one mode.
ASSUME OneModeAssumption ==
  \A p \in Setups : \A k, m \in DOMAIN p :
    p[k].kind = "dispatch" /\ p[m].kind = "dispatch" => (p[k].worst = 0) = (p[m].worst = 0)

VARIABLES
  prog,      \* the calls, the same on all ranks
  call,      \* calls that the host has begun
  polling,   \* the host waits for the counts of its last call
  counter,   \* moe_recv_counter (n) and moe_recv_expert_counter (e)
  kernels,   \* kernels of the communication stream that have ended
  stage,     \* how far the next one is
  signal,    \* barrier_signal_ptrs, in units of the tag
  mem,       \* the buffer of each rank
  sender,    \* senders of the running kernel, per channel and destination
  receiver,  \* receivers of dispatch, per channel and source
  warp,      \* receiver warps of combine, per channel
  updater,   \* head updaters of combine, per channel and source
  handle     \* the tensors that each call leaves behind

hostVars  == <<call, polling, counter>>
queueVars == <<sender, receiver, warp, updater>>
vars == <<prog, call, polling, counter, kernels, stage, signal, mem,
          sender, receiver, warp, updater, handle>>

-----------------------------------------------------------------------------
(* Routing, ranges and queues.                                             *)

\* get_dispatch_layout: the tokens that go to a rank (once each), and to an expert.
InRank(row, d) == \E e \in row : e \div NumExpertsPerRank = d
TokensToRank(rows, d)   == {t \in DOMAIN rows : InRank(rows[t], d)}
TokensToExpert(rows, e) == {t \in DOMAIN rows : e \in rows[t]}
LocalTopk(row, d) == {e \in LocalExperts : d * NumExpertsPerRank + e \in row}

CeilDiv(a, b) == (a + b - 1) \div b
Align(n) == CeilDiv(n, ExpertAlignment) * ExpertAlignment
Smaller(a, b) == IF a < b THEN a ELSE b

\* get_channel_task_range, over tokens 1 .. n: the channel's first token, and the one after.
ChannelStart(n, channels, c) == 1 + Smaller(CeilDiv(n, channels) * c, n)
ChannelEnd(n, channels, c) ==
  Smaller(ChannelStart(n, channels, c) + CeilDiv(n, channels), n + 1)

Put(f, g) == [x \in DOMAIN f \cup DOMAIN g |-> IF x \in DOMAIN g THEN g[x] ELSE f[x]]

\* A cell of memory holds an integer or a token; what a token reads as, where an integer was
\* expected, is neither 0 nor a count.
Item(k, by, src, tok, topk) == [call |-> k, by |-> by, src |-> src, tok |-> tok, topk |-> topk]
NoItem   == Item(0, 0, 0, 0, {})
Word(n)  == [int |-> n, item |-> NoItem]
Slot(it) == [int |-> -99, item |-> it]

-----------------------------------------------------------------------------
(* The program, as rank r's stream sees it: kernels 2k-1 and 2k are call k. *)

Calls == DOMAIN prog
CallOf(r)   == kernels[r] \div 2 + 1
IsNotify(r) == kernels[r] % 2 = 0
Now(r)      == prog[CallOf(r)]
Marks(k)    == prog[k].kind = "dispatch" /\ prog[k].worst # 0
Runs(r, kinds) == stage[r] = "run" /\ Now(r).kind \in kinds
AnyDispatch == {"dispatch", "cached"}

\* The dispatch whose routing call k uses.
Source(k) == IF prog[k].kind = "dispatch" THEN k ELSE prog[k].of
Home(k)   == Source(Source(k))
Rows(k, r) == prog[Home(k)].rows[r]
Channels(k) == 0 .. prog[k].channels - 1
Queues(k)   == Channels(k) \X Ranks

\* Layout of the memory: prefix matrix (and expert counts), then for dispatch the four words
\* of every queue and its slots; for combine two words and slots from the very beginning.
NumCells == NumRanks * NumRanks
Base(k)  == IF prog[k].kind = "combine" THEN 0 ELSE NumCells
NumWords(k) == (IF prog[k].kind = "combine" THEN 2 ELSE 4) * prog[k].channels * NumRanks
QueueIdx(c, s) == c * NumRanks + s
FieldAt(k, n, c, s) == Base(k) + n * prog[k].channels * NumRanks + QueueIdx(c, s)
StartAt(k, c, s) == FieldAt(k, 0, c, s)
EndAt(k, c, s)   == FieldAt(k, 1, c, s)
HeadAt(k, c, s)  == FieldAt(k, IF prog[k].kind = "combine" THEN 0 ELSE 2, c, s)
TailAt(k, c, s)  == FieldAt(k, IF prog[k].kind = "combine" THEN 1 ELSE 3, c, s)
SlotAt(k, c, s, n) == Base(k) + NumWords(k) + QueueIdx(c, s) * prog[k].recv + (n % prog[k].recv)
ExpertAt(s, e) == NumCells + s * NumExpertsPerRank + e
Cells(k) == Base(k) + NumWords(k) + prog[k].channels * NumRanks * prog[k].recv
Addresses == 0 .. Max({Cells(k) : k \in Calls} \cup {ExpertAt(NumRanks, 0)}) - 1

NoHandle == [num |-> 0, experts |-> <<>>, rankPrefix |-> <<>>, channelPrefix |-> <<>>,
             recvChannel |-> <<>>, head |-> <<>>, recv |-> <<>>, sums |-> <<>>]
NoCount == [n |-> -1, e |-> [e \in LocalExperts |-> -1]]

Init ==
  /\ prog \in Setups
  /\ call = [r \in Ranks |-> 0]
  /\ polling = [r \in Ranks |-> FALSE]
  /\ counter = [r \in Ranks |-> NoCount]
  /\ kernels = [r \in Ranks |-> 0]
  /\ stage = [r \in Ranks |-> "idle"]
  /\ signal = [r \in Ranks |-> [s \in Ranks |-> 0]]
  /\ mem = [r \in Ranks |-> [a \in Addresses |-> Word(0)]]
  /\ sender = [r \in Ranks |-> <<>>]
  /\ receiver = [r \in Ranks |-> <<>>]
  /\ warp = [r \in Ranks |-> <<>>]
  /\ updater = [r \in Ranks |-> <<>>]
  /\ handle = [r \in Ranks |-> [k \in Calls |-> NoHandle]]

-----------------------------------------------------------------------------
(* The host.                                                               *)

\* The host's next wait: for the counts of a dispatch, or for nothing more at the end.
Waits(k) == prog[k].kind = "dispatch" /\ prog[k].worst = 0
Ahead(k) == Min({m \in k + 1 .. Len(prog) : Waits(m)} \cup {Len(prog)})

\* The counters that it waits for, if any, are there.
\* Faulty variant: a count of zero is not taken for an answer.
CountsThereIfPositive(r) ==
  polling[r] => counter[r].n > 0 /\ \A e \in LocalExperts : counter[r].e[e] > 0

CountsThere(r) ==
  polling[r] => counter[r].n >= 0 /\ \A e \in LocalExperts : counter[r].e[e] >= 0

\* Take the counts and go on, ahead of the stream: reset the counters of a dispatch, allocate
\* and launch both kernels of every call, up to one whose counts have to be waited for.
HostRun(r) ==
  LET from == call[r] + 1
      k == Ahead(call[r])
      calls == from .. k
      num(m) == IF polling[r] /\ m = call[r] THEN counter[r].n ELSE handle[r][m].num
      Allocated(m) == IF prog[m].kind = "combine" THEN Len(Rows(m, r))
                      ELSE IF Waits(Source(m)) THEN num(Source(m)) ELSE prog[Source(m)].worst
  IN  /\ polling[r] \/ call[r] < Len(prog)
      /\ CountsThere(r)
      /\ call' = [call EXCEPT ![r] = k]
      /\ polling' = [polling EXCEPT ![r] = call[r] < Len(prog) /\ Waits(k)]
      /\ counter' = IF \E m \in calls : prog[m].kind = "dispatch"
                    THEN [counter EXCEPT ![r] = NoCount] ELSE counter
      /\ handle' = [handle EXCEPT ![r] = [m \in Calls |->
           CASE m \in calls -> [@[m] EXCEPT !.num = Allocated(m)]
             [] polling[r] /\ m = call[r] -> [@[m] EXCEPT !.num = num(m), !.experts = counter[r].e]
             [] OTHER -> @[m]]]
      /\ UNCHANGED <<prog, kernels, stage, signal, mem, queueVars>>

Enqueued(r) == IF polling[r] THEN 2 * call[r] - 1 ELSE 2 * call[r]

-----------------------------------------------------------------------------
(* barrier_block: count the own words up and the own place in every peer's down, then wait  *)
(* until no own word is positive.  A decrement that is late is a rank that arrives later.   *)

Arrive(r) ==
  signal' = [q \in Ranks |-> [i \in Ranks |->
               signal[q][i] + (IF q = r THEN 1 ELSE 0) - (IF i = r THEN 1 ELSE 0)]]
\* Faulty variant: the rank waits for itself alone.
AllArrivedAtOnce(r) == signal[r][r] <= 0

AllArrived(r) == \A i \in Ranks : signal[r][i] <= 0

-----------------------------------------------------------------------------
(* The notify kernels.                                                     *)

\* For every rank, the tokens in each channel added up over the channels.
ChannelPrefix(k, rows) ==
  [q \in Queues(k) |->
     Cardinality({t \in TokensToRank(rows, q[2]) : t < ChannelEnd(Len(rows), prog[k].channels, q[1])})]

\* cached_notify_combine: a token that was not sent to a rank gets the head of the next one in
\* its channel that was, encoded, or a large number if there is none.
BigHead == 2 ^ 25
ChannelOfToken(k, n, t) == CHOOSE c \in Channels(k) :
  t \in ChannelStart(n, prog[k].channels, c) .. ChannelEnd(n, prog[k].channels, c) - 1
FixHeads(k, n, head) ==
  [p \in DOMAIN head |->
     LET later == {u \in DOMAIN head : /\ u[2] = p[2] /\ u[1] > p[1] /\ head[u] >= 0
                                       /\ ChannelOfToken(k, n, u[1]) = ChannelOfToken(k, n, p[1])}
     IN  CASE head[p] >= 0 -> head[p]
           [] head[p] < 0 /\ later = {} -> -BigHead - 1
           [] OTHER -> -Min({head[u] : u \in later}) - 1]

\* The kernel starts with a barrier.  Its other blocks fill tensors of the rank itself.
StartNotify(r) ==
  LET k == CallOf(r)
      n == Len(Rows(k, r))
  IN  /\ stage[r] = "idle" /\ IsNotify(r)
      /\ kernels[r] < Enqueued(r)
      /\ Arrive(r)
      /\ stage' = [stage EXCEPT ![r] = "open"]
      /\ handle' = CASE Now(r).kind = "dispatch" ->
                          [handle EXCEPT ![r][k].channelPrefix = ChannelPrefix(k, Rows(k, r))]
                     [] Now(r).kind = "cached" -> handle
                     [] OTHER -> [handle EXCEPT ![r][Home(k)].head = FixHeads(k, n, @)]
      /\ UNCHANGED <<prog, hostVars, kernels, mem, queueVars>>

\* A barrier is passed; after the last one the kernel ends.
PassBarrier(r) ==
  /\ stage[r] \in {"open", "exchange", "close"}
  /\ AllArrived(r)
  /\ stage' = [stage EXCEPT ![r] = CASE @ = "open" /\ Now(r).kind = "dispatch" -> "write"
                                     [] @ = "close" -> "idle"
                                     [] OTHER -> "clean"]
  /\ kernels' = IF stage[r] = "close" THEN [kernels EXCEPT ![r] = @ + 1] ELSE kernels
  /\ UNCHANGED <<prog, hostVars, signal, mem, queueVars, handle>>

\* notify_dispatch: tell every rank how many tokens will come, for it and for its experts.
WriteCounts(r) ==
  LET rows == Rows(CallOf(r), r)
      Row(d) == Put([a \in {r * NumRanks + d} |-> Word(Cardinality(TokensToRank(rows, d)))],
                    [a \in {ExpertAt(r, e) : e \in LocalExperts} |->
                       Word(Cardinality(TokensToExpert(rows, d * NumExpertsPerRank + a - ExpertAt(r, 0))))])
  IN  /\ stage[r] = "write"
      /\ mem' = [d \in Ranks |-> Put(mem[d], Row(d))]
      /\ Arrive(r)
      /\ stage' = [stage EXCEPT ![r] = "exchange"]
      /\ UNCHANGED <<prog, hostVars, kernels, queueVars, handle>>

Zeros(from, n) == [a \in from .. from + n - 1 |-> Word(0)]
\* Column sums of the rank counts; only the rank's own column was written for this call.
PrefixMatrix(m) ==
  [a \in 0 .. NumCells - 1 |->
     Word(Sum([i \in Ranks |-> m[i * NumRanks + (a % NumRanks)].int], 0 .. a \div NumRanks))]

\* ... and add up what they told: counters for the host, the matrix for a tensor.  The words
\* of the queues are cleaned for the kernel that follows.
\* Faulty variant: it counts on the words being clean.
CollectOnly(r) ==
  LET k == CallOf(r)
      matrix == PrefixMatrix(mem[r])
  IN  /\ stage[r] = "clean" /\ Now(r).kind = "dispatch"
      /\ mem' = [mem EXCEPT ![r] = Put(@, matrix)]
      /\ counter' = [counter EXCEPT ![r] =
           [n |-> matrix[(NumRanks - 1) * NumRanks + r].int,
            e |-> [e \in LocalExperts |->
                     Align(Sum([s \in Ranks |-> mem[r][ExpertAt(s, e)].int], Ranks))]]]
      /\ handle' = [handle EXCEPT ![r][k].rankPrefix = matrix]
      /\ Arrive(r)
      /\ stage' = [stage EXCEPT ![r] = "close"]
      /\ UNCHANGED <<prog, call, polling, kernels, queueVars>>

Collect(r) ==
  LET k == CallOf(r)
      matrix == PrefixMatrix(mem[r])
  IN  /\ stage[r] = "clean" /\ Now(r).kind = "dispatch"
      /\ mem' = [mem EXCEPT ![r] = Put(Put(@, matrix), Zeros(NumCells, NumWords(k)))]
      /\ counter' = [counter EXCEPT ![r] =
           [n |-> matrix[(NumRanks - 1) * NumRanks + r].int,
            e |-> [e \in LocalExperts |->
                     Align(Sum([s \in Ranks |-> mem[r][ExpertAt(s, e)].int], Ranks))]]]
      /\ handle' = [handle EXCEPT ![r][k].rankPrefix = matrix]
      /\ Arrive(r)
      /\ stage' = [stage EXCEPT ![r] = "close"]
      /\ UNCHANGED <<prog, call, polling, kernels, queueVars>>

\* cached_notify_dispatch restores the matrix and cleans; cached_notify_combine cleans.
Clean(r) ==
  LET k == CallOf(r)
  IN  /\ stage[r] = "clean" /\ Now(r).kind # "dispatch"
      /\ mem' = [mem EXCEPT ![r] =
           Put(IF Now(r).kind = "cached" THEN Put(@, handle[r][Home(k)].rankPrefix) ELSE @,
               Zeros(Base(k), NumWords(k)))]
      /\ Arrive(r)
      /\ stage' = [stage EXCEPT ![r] = "close"]
      /\ UNCHANGED <<prog, hostVars, kernels, queueVars, handle>>

-----------------------------------------------------------------------------
(* The kernels that move tokens.                                           *)

\* Rows 0 .. of the received tokens: first of those from rank s, and first after them.
RankStart(h, r, s) == IF s > 0 THEN h.rankPrefix[(s - 1) * NumRanks + r].int ELSE 0
RankEnd(h, r, s)   == h.rankPrefix[s * NumRanks + r].int
\* combine: of those, the ones that came through channel c.
ChannelRows(k, h, r, c, s) ==
  LET start == RankStart(h, r, s)
      next  == IF c = prog[k].channels - 1 THEN RankEnd(h, r, s) - start ELSE h.recvChannel[<<c + 1, s>>]
  IN  [first |-> start + h.recvChannel[<<c, s>>], after |-> start + next]

\* dispatch: the range of every channel's tokens, announced as -value - 1 to tell it from none.
Offsets(k, r, d) ==
  LET prefix == handle[r][Home(k)].channelPrefix
  IN  Put([a \in {StartAt(k, c, r) : c \in Channels(k)} |->
             LET c == CHOOSE x \in Channels(k) : StartAt(k, x, r) = a
             IN  Word(-(IF c > 0 THEN prefix[<<c - 1, d>>] ELSE 0) - 1)],
          [a \in {EndAt(k, c, r) : c \in Channels(k)} |->
             LET c == CHOOSE x \in Channels(k) : EndAt(k, x, r) = a
             IN  Word(-prefix[<<c, d>>] - 1)])

\* The kernel starts; the first thing that senders of dispatch do is to announce the offsets.
StartRun(r) ==
  LET k == CallOf(r)
      n == Len(Rows(k, r))
      h == handle[r][Home(k)]
      ch == prog[k].channels
  IN  /\ stage[r] = "idle" /\ ~IsNotify(r)
      /\ kernels[r] < Enqueued(r)
      /\ stage' = [stage EXCEPT ![r] = "run"]
      /\ IF prog[k].kind = "combine"
         THEN /\ sender' = [sender EXCEPT ![r] = [q \in Queues(k) |->
                   [tok |-> ChannelRows(k, h, r, q[1], q[2]).first, tail |-> 0, todo |-> "send"]]]
              /\ warp' = [warp EXCEPT ![r] = [v \in Channels(k) \X Warps |->
                   LET first == ChannelStart(n, ch, v[1]) + v[2] - 1
                   IN  [tok |-> first, heads |-> [s \in Ranks |-> 0],
                        retired |-> first >= ChannelEnd(n, ch, v[1])]]]
              /\ updater' = [updater EXCEPT ![r] = [q \in Queues(k) |-> [tail |-> 0, last |-> 0]]]
              /\ UNCHANGED <<mem, receiver>>
         ELSE /\ mem' = [d \in Ranks |-> Put(mem[d], Offsets(k, r, d))]
              /\ sender' = [sender EXCEPT ![r] = [q \in Queues(k) |->
                   [tok |-> ChannelStart(n, ch, q[1]), tail |-> 0, todo |-> "send"]]]
              /\ receiver' = [receiver EXCEPT ![r] = [q \in Queues(k) |->
                   [head |-> 0, tail |-> 0, offset |-> 0, left |-> 0, todo |-> "offsets"]]]
              /\ UNCHANGED <<warp, updater>>
      /\ UNCHANGED <<prog, hostVars, kernels, signal, handle>>

\* Room in the queue <<c, r>> of rank d, by the head that the sender reads there.
\* Faulty variant: the head is one further than what the receiver gave back.
HasRoomAndOne(k, r, c, d, n) ==
  prog[k].recv - (sender[r][<<c, d>>].tail - mem[d][HeadAt(k, c, r)].int) + 1 >= n

HasRoom(k, r, c, d, n) ==
  prog[k].recv - (sender[r][<<c, d>>].tail - mem[d][HeadAt(k, c, r)].int) >= n

\* The tokens of the next round: up to the one that fills the chunk.
Round(k, r, c, d) ==
  LET rows == Rows(k, r)
      tok == sender[r][<<c, d>>].tok
  IN  {t \in tok .. ChannelEnd(Len(rows), prog[k].channels, c) - 1 :
         Cardinality({u \in tok .. t - 1 : InRank(rows[u], d)}) < prog[k].send}

\* Wait for room, fill the slots and note which token went where.
SendChunk(r, c, d) ==
  LET k == CallOf(r)
      s == sender[r][<<c, d>>]
      rows == Rows(k, r)
      round == Round(k, r, c, d)
      sent == {t \in round : InRank(rows[t], d)}
      Nth(t) == s.tail + Cardinality({u \in sent : u < t})
      Topk(t) == IF prog[k].kind = "dispatch" THEN LocalTopk(rows[t], d) ELSE {}
  IN  /\ Runs(r, AnyDispatch)
      /\ s.todo = "send" /\ round # {}
      /\ HasRoom(k, r, c, d, prog[k].send)
      /\ mem' = [mem EXCEPT ![d] = Put(@, [a \in {SlotAt(k, c, r, Nth(t)) : t \in sent} |->
           LET t == CHOOSE u \in sent : SlotAt(k, c, r, Nth(u)) = a
           IN  Slot(Item(k, r, r, t, Topk(t)))])]
      /\ handle' = [handle EXCEPT ![r][k].head = Put(@, [p \in round \X {d} |->
                      IF p[1] \in sent THEN Nth(p[1]) ELSE -1])]
      /\ sender' = [sender EXCEPT ![r][<<c, d>>] =
           [tok |-> Max(round) + 1, tail |-> s.tail + Cardinality(sent), todo |-> "release"]]
      /\ UNCHANGED <<prog, hostVars, kernels, stage, signal, receiver, warp, updater>>

\* All warps of the sender are through: let the receiver see the slots.
ReleaseTail(r, c, d) ==
  LET k == CallOf(r)
  IN  /\ Runs(r, Kinds)
      /\ sender[r][<<c, d>>].todo = "release"
      /\ mem' = [mem EXCEPT ![d][TailAt(k, c, r)] = Word(sender[r][<<c, d>>].tail)]
      /\ sender' = [sender EXCEPT ![r][<<c, d>>].todo = "send"]
      /\ UNCHANGED <<prog, hostVars, kernels, stage, signal, receiver, warp, updater, handle>>

\* dispatch, receivers: both offsets are there, which tells where the tokens go and how many.
\* All channels at once: one that reads them later is one that goes on later.
ReadOffsets(r, s) ==
  LET k == CallOf(r)
      Start(c) == -mem[r][StartAt(k, c, s)].int - 1
      End(c)   == -mem[r][EndAt(k, c, s)].int - 1
      rankStart == IF s > 0 THEN mem[r][(s - 1) * NumRanks + r].int ELSE 0
      queues == Channels(k) \X {s}
  IN  /\ Runs(r, AnyDispatch)
      /\ \A q \in queues : /\ receiver[r][q].todo = "offsets"
                           /\ mem[r][StartAt(k, q[1], s)].int # 0 /\ mem[r][EndAt(k, q[1], s)].int # 0
      /\ handle' = [handle EXCEPT ![r][k].recvChannel = Put(@, [q \in queues |-> Start(q[1])])]
      /\ receiver' = [receiver EXCEPT ![r] = Put(@, [q \in queues |->
           [head |-> 0, tail |-> 0, offset |-> Start(q[1]) + rankStart,
            left |-> End(q[1]) - Start(q[1]), todo |-> "copy"]])]
      /\ UNCHANGED <<prog, hostVars, kernels, stage, signal, mem, sender, warp, updater>>

\* Acquire the tail and copy what lies between head and tail out of the queue.
CopyChunk(r, c, s) ==
  LET k == CallOf(r)
      q == receiver[r][<<c, s>>]
      tail == mem[r][TailAt(k, c, s)].int
  IN  /\ Runs(r, AnyDispatch)
      /\ q.todo = "copy" /\ q.left > 0
      /\ tail # q.head
      /\ handle' = [handle EXCEPT ![r][k].recv = Put(@, [i \in q.offset .. q.offset + tail - q.head - 1 |->
                      mem[r][SlotAt(k, c, s, q.head + i - q.offset)].item])]
      /\ receiver' = [receiver EXCEPT ![r][<<c, s>>] = [q EXCEPT !.tail = tail, !.todo = "move"]]
      /\ UNCHANGED <<prog, hostVars, kernels, stage, signal, mem, sender, warp, updater>>

\* All warps have copied: give the slots back.
MoveHead(r, c, s) ==
  LET k == CallOf(r)
      q == receiver[r][<<c, s>>]
      n == q.tail - q.head
  IN  /\ Runs(r, AnyDispatch)
      /\ q.todo = "move"
      /\ mem' = [mem EXCEPT ![r][HeadAt(k, c, s)] = Word(q.tail)]
      /\ receiver' = [receiver EXCEPT ![r][<<c, s>>] =
           [head |-> q.tail, tail |-> q.tail, offset |-> q.offset + n, left |-> q.left - n, todo |-> "copy"]]
      /\ UNCHANGED <<prog, hostVars, kernels, stage, signal, sender, warp, updater, handle>>

\* dispatch ends; without CPU sync the rows beyond the received ones are marked as unused, in
\* the experts of the tokens, which a cached call does not have.
EndDispatch(r) ==
  LET k == CallOf(r)
      ch == prog[k].channels
      n == mem[r][(NumRanks - 1) * NumRanks + r].int
  IN  /\ Runs(r, AnyDispatch)
      /\ \A q \in Queues(k) :
           /\ sender[r][q].todo = "send" /\ sender[r][q].tok >= ChannelEnd(Len(Rows(k, r)), ch, q[1])
           /\ receiver[r][q].todo = "copy" /\ receiver[r][q].left <= 0
      /\ handle' = IF ~Marks(k) THEN handle
                   ELSE [handle EXCEPT ![r][k].recv = Put(@, [i \in n .. prog[k].worst - 1 |-> NoItem])]
      /\ sender' = [sender EXCEPT ![r] = <<>>]
      /\ receiver' = [receiver EXCEPT ![r] = <<>>]
      /\ kernels' = [kernels EXCEPT ![r] = @ + 1]
      /\ stage' = [stage EXCEPT ![r] = "idle"]
      /\ UNCHANGED <<prog, hostVars, signal, mem, warp, updater>>

-----------------------------------------------------------------------------
(* combine.                                                                *)

\* Sender: return a chunk of the rows that came from rank d through channel c.
SendBack(r, c, d) ==
  LET k == CallOf(r)
      s == sender[r][<<c, d>>]
      after == ChannelRows(k, handle[r][Home(k)], r, c, d).after
      n == Smaller(prog[k].send, after - s.tok)
      x == handle[r][prog[k].of].recv
  IN  /\ Runs(r, {"combine"})
      /\ s.todo = "send" /\ s.tok < after
      /\ HasRoom(k, r, c, d, n)
      /\ mem' = [mem EXCEPT ![d] = Put(@, [a \in {SlotAt(k, c, r, s.tail + i) : i \in 0 .. n - 1} |->
           LET i == CHOOSE j \in 0 .. n - 1 : SlotAt(k, c, r, s.tail + j) = a
           IN  Slot(Item(k, r, x[s.tok + i].src, x[s.tok + i].tok, {}))])]
      /\ sender' = [sender EXCEPT ![r][<<c, d>>] =
           [tok |-> s.tok + n, tail |-> s.tail + n, todo |-> "release"]]
      /\ UNCHANGED <<prog, hostVars, kernels, stage, signal, receiver, warp, updater, handle>>

\* Head updater, one lane: fetch the tail for the warps, and store the least head of those
\* warps that are still at work.
\* Faulty variant: the most advanced warp decides.
UpdateToMaximum(r, c, s) ==
  LET k == CallOf(r)
      u == updater[r][<<c, s>>]
      heads == {warp[r][<<c, w>>].heads[s] : w \in {v \in Warps : ~warp[r][<<c, v>>].retired}}
      tail == mem[r][TailAt(k, c, s)].int
      last == IF Max(heads) > u.last THEN Max(heads) ELSE u.last
  IN  /\ Runs(r, {"combine"})
      /\ heads # {}
      /\ tail # u.tail \/ last # u.last
      /\ updater' = [updater EXCEPT ![r][<<c, s>>] = [tail |-> tail, last |-> last]]
      /\ mem' = IF last = u.last THEN mem ELSE [mem EXCEPT ![r][HeadAt(k, c, s)] = Word(last)]
      /\ UNCHANGED <<prog, hostVars, kernels, stage, signal, sender, receiver, warp, handle>>

Update(r, c, s) ==
  LET k == CallOf(r)
      u == updater[r][<<c, s>>]
      heads == {warp[r][<<c, w>>].heads[s] : w \in {v \in Warps : ~warp[r][<<c, v>>].retired}}
      tail == mem[r][TailAt(k, c, s)].int
      last == IF Min(heads) > u.last THEN Min(heads) ELSE u.last
  IN  /\ Runs(r, {"combine"})
      /\ heads # {}
      /\ tail # u.tail \/ last # u.last
      /\ updater' = [updater EXCEPT ![r][<<c, s>>] = [tail |-> tail, last |-> last]]
      /\ mem' = IF last = u.last THEN mem ELSE [mem EXCEPT ![r][HeadAt(k, c, s)] = Word(last)]
      /\ UNCHANGED <<prog, hostVars, kernels, stage, signal, sender, receiver, warp, handle>>

\* Receiver warp: the token has come back from every rank it was sent to; add it up, move
\* the heads of this warp on, and retire after the last token.
Reduce(r, c, w) ==
  LET k == CallOf(r)
      t == warp[r][<<c, w>>].tok
      head == [s \in Ranks |-> handle[r][Home(k)].head[<<t, s>>]]
      from == {s \in Ranks : head[s] >= 0}
      after == ChannelEnd(Len(Rows(k, r)), prog[k].channels, c)
  IN  /\ Runs(r, {"combine"})
      /\ t < after
      /\ \A s \in from : updater[r][<<c, s>>].tail > head[s]
      /\ handle' = [handle EXCEPT ![r][k].sums = Put(@, [i \in {t} |->
                      [s \in from |-> mem[r][SlotAt(k, c, s, head[s])].item]])]
      /\ warp' = [warp EXCEPT ![r][<<c, w>>] =
           [tok |-> t + NumCombineWarps, retired |-> t + NumCombineWarps >= after,
            heads |-> [s \in Ranks |-> IF head[s] < 0 THEN -head[s] - 1 ELSE head[s] + 1]]]
      /\ UNCHANGED <<prog, hostVars, kernels, stage, signal, mem, sender, receiver, updater>>

EndCombine(r) ==
  LET k == CallOf(r)
  IN  /\ Runs(r, {"combine"})
      /\ \A q \in Queues(k) :
           /\ sender[r][q].todo = "send"
           /\ sender[r][q].tok >= ChannelRows(k, handle[r][Home(k)], r, q[1], q[2]).after
      /\ \A v \in Channels(k) \X Warps : warp[r][v].retired
      /\ sender' = [sender EXCEPT ![r] = <<>>]
      /\ warp' = [warp EXCEPT ![r] = <<>>]
      /\ updater' = [updater EXCEPT ![r] = <<>>]
      /\ kernels' = [kernels EXCEPT ![r] = @ + 1]
      /\ stage' = [stage EXCEPT ![r] = "idle"]
      /\ UNCHANGED <<prog, hostVars, signal, mem, receiver, handle>>

-----------------------------------------------------------------------------
NotifyStep(r) == PassBarrier(r) \/ WriteCounts(r) \/ Collect(r) \/ Clean(r)
DispatchStep(r) ==
  \/ EndDispatch(r) \/ \E s \in Ranks : ReadOffsets(r, s)
  \/ \E c \in Channels(CallOf(r)), i \in Ranks :
       \/ SendChunk(r, c, i) \/ ReleaseTail(r, c, i)
       \/ CopyChunk(r, c, i) \/ MoveHead(r, c, i)
CombineStep(r) ==
  \/ EndCombine(r)
  \/ \E c \in Channels(CallOf(r)) :
       \/ \E i \in Ranks : SendBack(r, c, i) \/ ReleaseTail(r, c, i) \/ Update(r, c, i)
       \/ \E w \in Warps : Reduce(r, c, w)

Step(r) ==
  \/ stage[r] = "idle" /\ kernels[r] < Enqueued(r) /\ (StartNotify(r) \/ StartRun(r))
  \/ stage[r] \notin {"idle", "run"} /\ NotifyStep(r)
  \/ Runs(r, AnyDispatch) /\ DispatchStep(r)
  \/ Runs(r, {"combine"}) /\ CombineStep(r)

Next == \E r \in Ranks : HostRun(r) \/ Step(r)

Spec == Init /\ [][Next]_vars

\* Some rank goes on while one of them can: hosts run, and the blocks of a kernel are resident
\* together.
FairSpec == Spec /\ WF_vars(Next)

-----------------------------------------------------------------------------
(* Properties. *)

ItemSet == [call : Nat, by : Ranks, src : Ranks, tok : Nat, topk : SUBSET LocalExperts]
TypeOK ==
  /\ prog \in Setups
  /\ \A r \in Ranks :
       /\ call[r] \in 0 .. Len(prog)
       /\ polling[r] \in BOOLEAN
       /\ counter[r] \in [n : Int, e : [LocalExperts -> Int]]
       /\ kernels[r] \in 0 .. 2 * Len(prog)
       /\ stage[r] \in {"idle", "open", "write", "exchange", "clean", "close", "run"}
       /\ signal[r] \in [Ranks -> Int]
       /\ mem[r] \in [Addresses -> [int : Int, item : ItemSet]]
       /\ \A q \in DOMAIN sender[r] :
            sender[r][q] \in [tok : Nat, tail : Nat, todo : {"send", "release"}]
       /\ \A q \in DOMAIN receiver[r] :
            receiver[r][q] \in [head : Nat, tail : Nat, offset : Nat, left : Nat,
                                todo : {"offsets", "copy", "move"}]
       /\ \A v \in DOMAIN warp[r] : warp[r][v] \in [tok : Nat, heads : [Ranks -> Nat], retired : BOOLEAN]
       /\ \A q \in DOMAIN updater[r] : updater[r][q] \in [tail : Nat, last : Nat]
       /\ \A k \in Calls : \A i \in DOMAIN handle[r][k].recv : handle[r][k].recv[i] \in ItemSet

Ended(r, k) == kernels[r] >= 2 * k
\* Tokens that call k brings to rank r, and how many of them come before token t of rank s.
Routed(k, r) == UNION {{s} \X TokensToRank(Rows(k, s), r) : s \in Ranks}
Before(k, r, s, t) == Cardinality({p \in Routed(k, r) : p[1] < s \/ (p[1] = s /\ p[2] < t)})

\* A dispatch, cached or not, puts every token that was routed to the rank into its one place:
\* by rank, then by token, whatever channel it took and however the queues wrapped around and
\* waited for each other.  The host knows the exact numbers, or in worst-case mode every
\* other row is marked.
DispatchExact ==
  \A r \in Ranks : \A k \in Calls :
    Ended(r, k) /\ prog[k].kind \in AnyDispatch =>
      LET h == handle[r][k]
          n == Cardinality(Routed(k, r))
          Topk(s, t) == IF prog[k].kind = "dispatch" THEN LocalTopk(Rows(k, s)[t], r) ELSE {}
      IN  /\ \A p \in Routed(k, r) :
               h.recv[Before(k, r, p[1], p[2])] = Item(k, p[1], p[1], p[2], Topk(p[1], p[2]))
          /\ IF Marks(k)
             THEN DOMAIN h.recv = 0 .. h.num - 1 /\ \A i \in n .. h.num - 1 : h.recv[i].topk = {}
             ELSE h.num >= n /\ DOMAIN h.recv = 0 .. n - 1
          /\ Waits(k) => h.num = n /\
               \A e \in LocalExperts :
                 h.experts[e] = Align(Sum([s \in Ranks |->
                   Cardinality(TokensToExpert(Rows(k, s), r * NumExpertsPerRank + e))], Ranks))

\* combine adds up, for every token, what each rank that had it returned in this very call,
\* although the slots are reused behind the back of the warps: the head of a queue moves on
\* while slower warps still read.
CombineExact ==
  \A r \in Ranks : \A k \in Calls :
    Ended(r, k) /\ prog[k].kind = "combine" =>
      \A t \in DOMAIN Rows(k, r) :
        handle[r][k].sums[t] = [s \in {d \in Ranks : InRank(Rows(k, r)[t], d)} |-> Item(k, s, r, t, {})]

\* Where a rank is in its kernels tells how many barriers it has entered and left.
BarriersUpTo(k) == 2 * k + Cardinality({m \in 1 .. k : prog[m].kind = "dispatch"})
EnteredBy(r) ==
  LET before == BarriersUpTo(CallOf(r) - 1)
  IN  CASE ~IsNotify(r) \/ stage[r] = "close" -> BarriersUpTo(CallOf(r))
        [] IsNotify(r) /\ stage[r] = "idle" -> before
        [] IsNotify(r) /\ stage[r] \in {"open", "write"} -> before + 1
        [] OTHER -> BarriersUpTo(CallOf(r)) - 1
LeftBy(r) == IF stage[r] \in {"open", "exchange", "close"} THEN EnteredBy(r) - 1 ELSE EnteredBy(r)

B == INSTANCE Barrier WITH
  Members <- Ranks,
  Partners <- [r \in Ranks |-> Ranks \ {r}],
  entered <- [r \in Ranks |-> EnteredBy(r)],
  left <- [r \in Ranks |-> LeftBy(r)]

\* The words that count up and down, never reset, are a barrier: nobody passes one that
\* another rank has not reached, call after call.
BarrierSpec == B!Spec

\* Every call ends: no sender waits forever for room, no receiver for a token.
CallsEnd == <>(\A r \in Ranks : ~polling[r] /\ kernels[r] = 2 * Len(prog))

=============================================================================
