------------------------ MODULE LegacyIntranode_inv ------------------------
(***************************************************************************)
(* The inductive invariant of LegacyIntranode's data.  What holds of one   *)
(* queue, rank or handle is an operator of its own (...OK), of the program *)
(* p and of the values it relates, so that it can be reasoned about apart  *)
(* from the state; the parts of the invariant (...Inv) apply it to the     *)
(* state, for the calls and ranks that have come so far.                   *)
(***************************************************************************)
EXTENDS LegacyIntranode

-----------------------------------------------------------------------------
(* What a program p says of its call k, whatever the state.                *)

SourceOf(p, k) == IF p[k].kind = "dispatch" THEN k ELSE p[k].of
HomeOf(p, k)   == SourceOf(p, SourceOf(p, k))
RowsOf(p, k, s) == p[HomeOf(p, k)].rows[s]
ChannelsOf(p, k) == 0 .. p[k].channels - 1
QueuesOf(p, k)   == ChannelsOf(p, k) \X Ranks
Dispatches(p, k) == p[k].kind \in AnyDispatch
Combines(p, k)   == p[k].kind = "combine"
Polls(p, k)      == p[k].kind = "dispatch" /\ p[k].worst = 0

\* The tokens of rank s that go to rank d: all of them, and how many come before token t.
RoutedTo(p, k, s, d) == TokensToRank(RowsOf(p, k, s), d)
Below(p, k, s, d, t) == Cardinality({u \in RoutedTo(p, k, s, d) : u < t})
Edge(p, k, s, c)     == ChannelStart(Len(RowsOf(p, k, s)), p[k].channels, c)
InChannel(p, k, s, d, c) == {t \in RoutedTo(p, k, s, d) : Edge(p, k, s, c) <= t /\ t < Edge(p, k, s, c + 1)}
\* The place of a token in its queue, and the number of tokens that go through a queue.
Nth(p, k, s, d, c, t) == Below(p, k, s, d, t) - Below(p, k, s, d, Edge(p, k, s, c))
Many(p, k, s, d, c)   == Nth(p, k, s, d, c, Edge(p, k, s, c + 1))
\* Tokens that rank d gets from the ranks before s, and the row of token t of rank s there.
Pre(p, k, s, d)    == Sum([i \in Ranks |-> Cardinality(RoutedTo(p, k, i, d))], 0 .. s - 1)
Row(p, k, s, d, t) == Pre(p, k, s, d) + Below(p, k, s, d, t)

BaseOf(p, k) == IF p[k].kind = "combine" THEN 0 ELSE NumCells
FieldOf(p, k, n, c, s) == BaseOf(p, k) + n * p[k].channels * NumRanks + QueueIdx(c, s)
NumWordsOf(p, k) == (IF p[k].kind = "combine" THEN 2 ELSE 4) * p[k].channels * NumRanks
HeadOf(p, k, c, s) == FieldOf(p, k, IF p[k].kind = "combine" THEN 0 ELSE 2, c, s)
TailOf(p, k, c, s) == FieldOf(p, k, IF p[k].kind = "combine" THEN 1 ELSE 3, c, s)
SlotOf(p, k, c, s, n) == BaseOf(p, k) + NumWordsOf(p, k) + QueueIdx(c, s) * p[k].recv + (n % p[k].recv)

TokenOf(p, k, s, d, t) ==
  Item(k, s, s, t, IF p[k].kind = "dispatch" THEN LocalTopk(RowsOf(p, k, s)[t], d) ELSE {})
Returned(k, s, d, t) == Item(k, s, d, t, {})

-----------------------------------------------------------------------------
(* How far a rank is with call k, by its ended kernels and its stage.      *)

Opened(n, st, k)  == n > 2 * k - 2 \/ (n = 2 * k - 2 /\ st # "idle")
Passed(n, st, k)  == n > 2 * k - 2 \/ (n = 2 * k - 2 /\ st \notin {"idle", "open"})
Wrote(n, st, k)   == n > 2 * k - 2 \/ (n = 2 * k - 2 /\ st \in {"exchange", "clean", "close"})
Cleaned(n, st, k) == n > 2 * k - 2 \/ (n = 2 * k - 2 /\ st = "close")
Started(n, st, k) == n >= 2 * k \/ (n = 2 * k - 1 /\ st = "run")
Running(n, st, k) == n = 2 * k - 1 /\ st = "run"
Done(n, k)        == n >= 2 * k
Live(n, st, k)    == Cleaned(n, st, k) /\ ~Done(n, k)

Opens(r, k)  == Opened(kernels[r], stage[r], k)
Writes(r, k) == Wrote(kernels[r], stage[r], k)
Cleans(r, k) == Cleaned(kernels[r], stage[r], k)
Starts(r, k) == Started(kernels[r], stage[r], k)
Works(r, k)  == Running(kernels[r], stage[r], k)
Dones(r, k)  == Done(kernels[r], k)
Lives(r, k)  == Live(kernels[r], stage[r], k)

\* No rank leaves a barrier that another has not entered.
Together == \A q, r \in Ranks : LeftBy(q) <= EnteredBy(r)

-----------------------------------------------------------------------------
(* The host.                                                               *)

RightCounter(p, k, r) ==
  [n |-> Pre(p, k, NumRanks, r),
   e |-> [e \in LocalExperts |-> Align(Sum([s \in Ranks |->
            Cardinality(TokensToExpert(RowsOf(p, k, s), r * NumExpertsPerRank + e))], Ranks))]]

EnqueuedBy(cl, po) == IF po THEN 2 * cl - 1 ELSE 2 * cl
HostOK(p, r, cl, po, ctr, n, st) ==
  /\ cl \in 0 .. Len(p) /\ po \in BOOLEAN
  /\ ctr \in [n : Int, e : [LocalExperts -> Int]]
  /\ n <= EnqueuedBy(cl, po)
  /\ st # "idle" => n < EnqueuedBy(cl, po)
  /\ po => /\ cl >= 1 /\ Polls(p, cl)
           /\ ctr = IF Cleaned(n, st, cl) THEN RightCounter(p, cl, r) ELSE NoCount
  /\ \A k \in DOMAIN p : Polls(p, k) /\ k <= cl /\ (po => k < cl) => Cleaned(n, st, k)
NumsOK(p, r, cl, po, k, num, experts) ==
  k <= cl =>
    /\ Polls(p, k) /\ (po => k < cl) => /\ num = RightCounter(p, k, r).n
                                        /\ experts = RightCounter(p, k, r).e
    /\ p[k].kind = "dispatch" /\ ~Polls(p, k) => num = p[k].worst
    /\ p[k].kind = "cached" => num \in Int /\ num >= Pre(p, k, NumRanks, r)

HostInv == \A r \in Ranks : HostOK(prog, r, call[r], polling[r], counter[r], kernels[r], stage[r])
NumsInv == \A r \in Ranks, k \in DOMAIN prog :
  NumsOK(prog, r, call[r], polling[r], k, handle[r][k].num, handle[r][k].experts)

-----------------------------------------------------------------------------
(* Memory and handles.                                                     *)

Cell == [int : Int, item : ItemSet]
MemInv == mem \in [Ranks -> [Addresses -> Cell]]

HandleOK(h) == h = [num |-> h.num, experts |-> h.experts, rankPrefix |-> h.rankPrefix,
                    channelPrefix |-> h.channelPrefix, recvChannel |-> h.recvChannel,
                    head |-> h.head, recv |-> h.recv, sums |-> h.sums]
HandlesInv ==
  /\ handle = [r \in Ranks |-> [k \in DOMAIN prog |-> handle[r][k]]]
  /\ \A r \in Ranks, k \in DOMAIN prog : HandleOK(handle[r][k])

EmptyInv == \A r \in Ranks, k \in DOMAIN prog :
  ~Starts(r, k) => /\ handle[r][k].recv = <<>> /\ handle[r][k].recvChannel = <<>>
                   /\ handle[r][k].head = <<>> /\ handle[r][k].sums = <<>>

PrefixOK(p, k, r, prefix) ==
  prefix = [q \in QueuesOf(p, k) |-> Below(p, k, r, q[2], Edge(p, k, r, q[1] + 1))]
PrefixInv == \A r \in Ranks, k \in DOMAIN prog :
  prog[k].kind = "dispatch" /\ Opens(r, k) => PrefixOK(prog, k, r, handle[r][k].channelPrefix)

CountsOK(p, k, s, d, m) ==
  /\ m[s * NumRanks + d].int = Cardinality(RoutedTo(p, k, s, d))
  /\ \A e \in LocalExperts : m[ExpertAt(s, e)].int =
       Cardinality(TokensToExpert(RowsOf(p, k, s), d * NumExpertsPerRank + e))
CountsInv == \A s, d \in Ranks, k \in DOMAIN prog :
  prog[k].kind = "dispatch" /\ Writes(s, k) /\ ~Cleans(d, k) => CountsOK(prog, k, s, d, mem[d])

MatrixOK(p, k, d, m) == \A i \in Ranks : m[i * NumRanks + d].int = Pre(p, k, i + 1, d)
MatrixInv == \A d \in Ranks, k \in DOMAIN prog :
  Dispatches(prog, k) /\ Lives(d, k) => MatrixOK(prog, k, d, mem[d])
TensorInv == \A d \in Ranks, k \in DOMAIN prog :
  prog[k].kind = "dispatch" /\ Cleans(d, k) =>
    /\ handle[d][k].rankPrefix \in [0 .. NumCells - 1 -> Cell]
    /\ MatrixOK(prog, k, d, handle[d][k].rankPrefix)

-----------------------------------------------------------------------------
(* Queues of dispatch: rank s sends to rank d through channel c.           *)

SenderSet   == [tok : Nat, tail : Nat, todo : {"send", "release"}]
ReceiverSet == [head : Nat, tail : Nat, offset : Nat, left : Nat, todo : {"offsets", "copy", "move"}]
WarpSet     == [tok : Nat, heads : [Ranks -> Nat], retired : BOOLEAN]
UpdaterSet  == [tail : Nat, last : Nat]

QueuesInv ==
  /\ sender = [r \in Ranks |-> sender[r]] /\ receiver = [r \in Ranks |-> receiver[r]]
  /\ warp = [r \in Ranks |-> warp[r]] /\ updater = [r \in Ranks |-> updater[r]]
  /\ \A r \in Ranks :
       /\ stage[r] # "run" => sender[r] = <<>> /\ receiver[r] = <<>> /\ warp[r] = <<>> /\ updater[r] = <<>>
       /\ \A k \in DOMAIN prog : Works(r, k) =>
            /\ sender[r] \in [QueuesOf(prog, k) -> SenderSet]
            /\ receiver[r] \in (IF Dispatches(prog, k) THEN [QueuesOf(prog, k) -> ReceiverSet] ELSE {<<>>})
            /\ warp[r] \in (IF Combines(prog, k) THEN [ChannelsOf(prog, k) \X Warps -> WarpSet] ELSE {<<>>})
            /\ updater[r] \in (IF Combines(prog, k) THEN [QueuesOf(prog, k) -> UpdaterSet] ELSE {<<>>})

NextTok(s, k, c, d) ==
  IF ~Starts(s, k) THEN Edge(prog, k, s, c)
  ELSE IF Dones(s, k) THEN Edge(prog, k, s, c + 1) ELSE sender[s][<<c, d>>].tok
Releasing(s, k, c, d) == Works(s, k) /\ sender[s][<<c, d>>].todo = "release"
HeadNow(d, k, c, s) == IF Works(d, k) THEN receiver[d][<<c, s>>].head ELSE 0

SenderOK(p, k, s, c, d, v) ==
  /\ v.tok \in Edge(p, k, s, c) .. Edge(p, k, s, c + 1)
  /\ v.tail = Nth(p, k, s, d, c, v.tok)
SenderInv == \A s, d \in Ranks, k \in DOMAIN prog : \A c \in ChannelsOf(prog, k) :
  Dispatches(prog, k) /\ Works(s, k) => SenderOK(prog, k, s, c, d, sender[s][<<c, d>>])

HeadsOK(p, k, s, c, d, tok, head) ==
  \A t \in Edge(p, k, s, c) .. tok - 1 :
    /\ <<t, d>> \in DOMAIN head
    /\ t \in RoutedTo(p, k, s, d) => head[<<t, d>>] = Nth(p, k, s, d, c, t)
    /\ t \notin RoutedTo(p, k, s, d) => head[<<t, d>>] \in Int /\ head[<<t, d>>] < 0
HeadsInv == \A s, d \in Ranks, k \in DOMAIN prog : \A c \in ChannelsOf(prog, k) :
  Dispatches(prog, k) => HeadsOK(prog, k, s, c, d, NextTok(s, k, c, d), handle[s][k].head)
HeadDomainInv == \A s \in Ranks, k \in DOMAIN prog :
  Dispatches(prog, k) => (DOMAIN handle[s][k].head) \subseteq ((DOMAIN RowsOf(prog, k, s)) \X Ranks)

QueueOK(p, k, s, d, c, started, tok, head, releasing, m) ==
  /\ m[FieldOf(p, k, 0, c, s)].int = IF started THEN -Below(p, k, s, d, Edge(p, k, s, c)) - 1 ELSE 0
  /\ m[FieldOf(p, k, 1, c, s)].int = IF started THEN -Below(p, k, s, d, Edge(p, k, s, c + 1)) - 1 ELSE 0
  /\ m[HeadOf(p, k, c, s)].int = head
  /\ head <= m[TailOf(p, k, c, s)].int /\ m[TailOf(p, k, c, s)].int <= Nth(p, k, s, d, c, tok)
  /\ Nth(p, k, s, d, c, tok) - head <= p[k].recv
  /\ ~releasing => m[TailOf(p, k, c, s)].int = Nth(p, k, s, d, c, tok)
  /\ \A t \in InChannel(p, k, s, d, c) : t < tok /\ Nth(p, k, s, d, c, t) >= head =>
       m[SlotOf(p, k, c, s, Nth(p, k, s, d, c, t))].item = TokenOf(p, k, s, d, t)
QueueInv == \A s, d \in Ranks, k \in DOMAIN prog : \A c \in ChannelsOf(prog, k) :
  Dispatches(prog, k) /\ Lives(d, k) =>
    QueueOK(prog, k, s, d, c, Starts(s, k), NextTok(s, k, c, d), HeadNow(d, k, c, s),
            Releasing(s, k, c, d), mem[d])

\* ... and what the receiver has taken out of it.
ReceiverOK(p, k, s, d, c, v, started, tail) ==
  /\ v.todo = "offsets" => v.head = 0
  /\ v.todo # "offsets" => /\ started
                           /\ v.offset = Row(p, k, s, d, Edge(p, k, s, c)) + v.head
                           /\ v.left = Many(p, k, s, d, c) - v.head
  /\ v.todo = "move" => v.head < v.tail /\ v.tail <= tail
ReceiverInv == \A s, d \in Ranks, k \in DOMAIN prog : \A c \in ChannelsOf(prog, k) :
  Dispatches(prog, k) /\ Works(d, k) =>
    ReceiverOK(prog, k, s, d, c, receiver[d][<<c, s>>], Starts(s, k), mem[d][TailOf(prog, k, c, s)].int)

Taken(d, k, c, s) ==
  IF ~Starts(d, k) THEN 0
  ELSE IF Dones(d, k) THEN Many(prog, k, s, d, c)
  ELSE IF receiver[d][<<c, s>>].todo = "move" THEN receiver[d][<<c, s>>].tail ELSE receiver[d][<<c, s>>].head
TakenOK(p, k, s, d, c, taken, recv) ==
  \A t \in InChannel(p, k, s, d, c) : Nth(p, k, s, d, c, t) < taken =>
    /\ Row(p, k, s, d, t) \in DOMAIN recv
    /\ recv[Row(p, k, s, d, t)] = TokenOf(p, k, s, d, t)
TakenInv == \A s, d \in Ranks, k \in DOMAIN prog : \A c \in ChannelsOf(prog, k) :
  Dispatches(prog, k) => TakenOK(prog, k, s, d, c, Taken(d, k, c, s), handle[d][k].recv)

HasOffsets(d, k, c, s) == Dones(d, k) \/ (Works(d, k) /\ receiver[d][<<c, s>>].todo # "offsets")
OffsetOK(p, k, s, d, c, recvChannel) ==
  <<c, s>> \in DOMAIN recvChannel /\ recvChannel[<<c, s>>] = Below(p, k, s, d, Edge(p, k, s, c))
OffsetInv == \A s, d \in Ranks, k \in DOMAIN prog : \A c \in ChannelsOf(prog, k) :
  Dispatches(prog, k) /\ HasOffsets(d, k, c, s) => OffsetOK(prog, k, s, d, c, handle[d][k].recvChannel)

ItemsInv == \A d \in Ranks, k \in DOMAIN prog :
  \A i \in DOMAIN handle[d][k].recv : handle[d][k].recv[i] \in ItemSet
RecvOK(p, k, d, marked, recv) ==
  LET n == Pre(p, k, NumRanks, d)
  IN  /\ marked => DOMAIN recv = 0 .. p[k].worst - 1 /\ \A i \in n .. p[k].worst - 1 : recv[i] = NoItem
      /\ ~marked => DOMAIN recv \subseteq 0 .. n - 1
RecvInv == \A d \in Ranks, k \in DOMAIN prog :
  Dispatches(prog, k) =>
    RecvOK(prog, k, d, Dones(d, k) /\ prog[k].kind = "dispatch" /\ prog[k].worst # 0, handle[d][k].recv)

-----------------------------------------------------------------------------
(* combine: rank s returns tokens of rank d.                               *)

OfChannel(p, k, r, c) == Edge(p, k, r, c) .. Edge(p, k, r, c + 1) - 1
NoMore(p, k, s, d, c, t) == \A u \in InChannel(p, k, s, d, c) : u < t
FixedOK(p, k, r, head) ==
  \A c \in ChannelsOf(p, k), d \in Ranks : \A t \in OfChannel(p, k, r, c) :
    t \notin RoutedTo(p, k, r, d) =>
      -head[<<t, d>>] - 1 = IF NoMore(p, k, r, d, c, t) THEN BigHead ELSE Nth(p, k, r, d, c, t)
FixedInv == \A r \in Ranks, k \in DOMAIN prog :
  Combines(prog, k) /\ Opens(r, k) => FixedOK(prog, k, r, handle[r][HomeOf(prog, k)].head)

SentBack(s, k, c, d) ==
  IF ~Starts(s, k) THEN 0 ELSE IF Dones(s, k) THEN Many(prog, k, d, s, c) ELSE sender[s][<<c, d>>].tail
ReturnOK(p, k, s, c, d, v) ==
  /\ v.tail <= Many(p, k, d, s, c)
  /\ v.tok = Row(p, k, d, s, Edge(p, k, d, c)) + v.tail
ReturnInv == \A s, d \in Ranks, k \in DOMAIN prog : \A c \in ChannelsOf(prog, k) :
  Combines(prog, k) /\ Works(s, k) => ReturnOK(prog, k, s, c, d, sender[s][<<c, d>>])

BackOK(p, k, s, d, c, sent, sums, m) ==
  /\ m[TailOf(p, k, c, s)].int \in 0 .. sent
  /\ \A t \in InChannel(p, k, d, s, c) : t \notin sums =>
       /\ Nth(p, k, d, s, c, t) >= m[HeadOf(p, k, c, s)].int
       /\ Nth(p, k, d, s, c, t) < sent =>
            m[SlotOf(p, k, c, s, Nth(p, k, d, s, c, t))].item = Returned(k, s, d, t)
BackInv == \A s, d \in Ranks, k \in DOMAIN prog : \A c \in ChannelsOf(prog, k) :
  Combines(prog, k) /\ Lives(d, k) =>
    BackOK(prog, k, s, d, c, SentBack(s, k, c, d), DOMAIN handle[d][k].sums, mem[d])

\* The warp of a token, and how far the warps are.
TurnOf(p, k, d, c, t) == ((t - Edge(p, k, d, c)) % NumCombineWarps) + 1
WarpOK(p, k, d, c, w, v) ==
  /\ v.tok >= Edge(p, k, d, c) /\ TurnOf(p, k, d, c, v.tok) = w
  /\ v.retired = (v.tok >= Edge(p, k, d, c + 1))
  /\ \A s \in Ranks : \A t \in InChannel(p, k, d, s, c) : t >= v.tok => Nth(p, k, d, s, c, t) >= v.heads[s]
WarpInv == \A d \in Ranks, k \in DOMAIN prog : \A c \in ChannelsOf(prog, k), w \in Warps :
  Combines(prog, k) /\ Works(d, k) => WarpOK(prog, k, d, c, w, warp[d][<<c, w>>])
AddedOK(p, k, d, c, ws, sums) ==
  \A t \in OfChannel(p, k, d, c) : (t \in sums) = (t < ws[<<c, TurnOf(p, k, d, c, t)>>].tok)
AddedInv == \A d \in Ranks, k \in DOMAIN prog : \A c \in ChannelsOf(prog, k) :
  Combines(prog, k) /\ Works(d, k) => AddedOK(prog, k, d, c, warp[d], DOMAIN handle[d][k].sums)

UpdaterInv == \A s, d \in Ranks, k \in DOMAIN prog : \A c \in ChannelsOf(prog, k) :
  Combines(prog, k) /\ Works(d, k) => updater[d][<<c, s>>].tail <= mem[d][TailOf(prog, k, c, s)].int

SumsOK(p, k, d, sums) ==
  /\ DOMAIN sums \subseteq DOMAIN RowsOf(p, k, d)
  /\ \A t \in DOMAIN sums : sums[t] =
       [s \in {q \in Ranks : InRank(RowsOf(p, k, d)[t], q)} |-> Returned(k, s, d, t)]
SumsInv == \A d \in Ranks, k \in DOMAIN prog :
  Combines(prog, k) => /\ SumsOK(prog, k, d, handle[d][k].sums)
                       /\ Dones(d, k) => DOMAIN handle[d][k].sums = DOMAIN RowsOf(prog, k, d)

=============================================================================
