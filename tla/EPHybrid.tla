------------------------------ MODULE EPHybrid ------------------------------
(***************************************************************************)
(* Dispatch and combine across nodes: rails between them, NVLink inside.   *)
(*                                                                         *)
(* dispatch puts a token once into each node that wants it, on the rank at *)
(* the same place there; that rank's forward warp copies it to the ranks   *)
(* of its node.  combine goes the same way back, in the order that dispatch*)
(* wrote down: per channel, what was forwarded (metas), and per channel and*)
(* peer, what was received (list).  Everything a rank writes to lies in one*)
(* buffer, whose layout each kernel picks anew, and no kernel asks whether *)
(* the memory is free: only its first barrier, with the node and the rail  *)
(* but not with the rest of the grid, and the barrier of the node at the   *)
(* end of a dispatch keep calls apart.  GpuBarrier shows both barriers.    *)
(*                                                                         *)
(* Host and notify warps work as in EPDirect: the host enqueues ahead, the *)
(* reduction over the SMs is one step.  Scale-out warps wait for nobody, so*)
(* all that they issue is there from the start and lands later, in order.  *)
(***************************************************************************)
EXTENDS FiniteSums, Integers, Sequences, FiniteSets, FiniteSetsExt, SequencesExt

CONSTANTS NumExpertsPerRank,   \* kNumExpertsPerRank
          NumTopk,             \* kNumTopk
          NumMaxTokensPerRank, \* kNumMaxTokensPerRank
          UpdateInterval,      \* kScaleoutUpdateInterval, kNumScaleupUpdateInterval: both 3
          ExpertAlignment,     \* kExpertAlignment
          Setups               \* bound: the grids and the programs their ranks run

Lanes == 1 .. NumTopk
LocalExperts == 0 .. NumExpertsPerRank - 1

\* A setup: the grid, kNumChannels, allow_multiple_reduction, and the calls of all ranks:
\* the kind, the earlier call it takes the handle or the output of, the top-k rows of every
\* rank, and do_expand.
ASSUME SizesAssumption ==
  {NumExpertsPerRank, NumTopk, NumMaxTokensPerRank, UpdateInterval, ExpertAlignment} \subseteq Nat \ {0}
ASSUME SetupsAssumption ==
  \A s \in Setups :
    /\ s.nodes \in Nat \ {0, 1} /\ s.places \in Nat \ {0} /\ s.channels \in Nat \ {0}
    /\ s.multiple \in BOOLEAN
    /\ \A k \in DOMAIN s.prog :
         LET c == s.prog[k] IN
         /\ c.kind \in {"dispatch", "cached", "combine"} /\ c.expand \in BOOLEAN
         /\ c.kind = "dispatch" => \A r \in 0 .. s.nodes * s.places - 1 : Len(c.rows[r]) <= NumMaxTokensPerRank
         /\ c.kind # "dispatch" => c.of \in 1 .. k - 1 /\ s.prog[c.of].kind # "combine"
         /\ c.kind = "cached" => s.prog[c.of].kind = "dispatch" /\ ~s.prog[c.of].expand

VARIABLES
  setup,
  ended,     \* calls whose two kernels have ended
  stage,     \* how far the first kernel of the next call is
  notified,  \* its notify warps have told the node
  outWords,  \* scaleout_rank_count and scaleout_expert_count, per node
  upWords,   \* scaleup_rank_count and scaleup_expert_count
  tails,     \* scaleout_channel_signaled_tail, per channel and node
  upTails,   \* channel_scaleup_tail, per channel and place
  sender,    \* scaleup_atomic_sender_counter, per place
  issued,    \* the last dispatch whose scale-out warps have begun
  landed,    \* its tail updates that have landed, per channel and node
  forward,   \* the forward warps of a dispatch, per channel
  sent,      \* rounds of the lists that the scale-up warps of a combine are through
  returned,  \* tokens that its forward warps have replayed
  finished,  \* its forward warps that have cleaned up and signalled
  mem,       \* the symmetric buffer
  handle,    \* what each call has left behind
  outEntered, upEntered  \* barriers of the rail and of the node it has entered

wordVars    == <<notified, outWords, upWords>>
dispatchVars == <<sender, issued, landed, forward>>
combineVars == <<sent, returned, finished>>
barrierVars == <<outEntered, upEntered>>
vars == <<setup, ended, stage, notified, outWords, upWords, tails, upTails, sender, issued,
          landed, forward, sent, returned, finished, mem, handle, outEntered, upEntered>>

-----------------------------------------------------------------------------
(* The grid and the routing.                                               *)

NumScaleout == setup.nodes
NumScaleup  == setup.places
Nodes    == 0 .. NumScaleout - 1
Places   == 0 .. NumScaleup - 1
Channels == 0 .. setup.channels - 1
Ranks    == 0 .. NumScaleout * NumScaleup - 1
ScaleoutIdx(r) == r \div NumScaleup
ScaleupIdx(r)  == r % NumScaleup
RankAt(o, u)   == o * NumScaleup + u
Node(r) == {q \in Ranks : ScaleoutIdx(q) = ScaleoutIdx(r)}
Rail(r) == {q \in Ranks : ScaleupIdx(q) = ScaleupIdx(r)}

\* A barrier of rank r with some ranks is over when all of them are in it too (Barrier).
Met(entered, r, partners) == \A q \in partners : entered[q] >= entered[r]

RankOf(e)     == IF e >= 0 THEN e \div NumExpertsPerRank ELSE -1
ScaleoutOf(e) == IF e >= 0 THEN ScaleoutIdx(RankOf(e)) ELSE -1
\* The place in node o that an expert is on, if it is on that node.
PlaceIn(o, e) == IF ScaleoutOf(e) = o THEN ScaleupIdx(RankOf(e)) ELSE -1

\* get_master_lane_idx: the highest lane, or 0 for none; deduplicate leaves one lane per key.
MasterLane(lanes) == IF lanes = {} THEN 0 ELSE Max(lanes)
Keys(f) == {f[l] : l \in DOMAIN f} \ {-1}
LaneOf(f, key) == MasterLane({l \in DOMAIN f : f[l] = key})
Dedup(f) == {LaneOf(f, key) : key \in Keys(f)}

Nodewise(row)   == [l \in DOMAIN row |-> ScaleoutOf(row[l])]
Rankwise(row)   == [l \in DOMAIN row |-> RankOf(row[l])]
Placewise(o, row) == [l \in DOMAIN row |-> PlaceIn(o, row[l])]

Joined(f) == FoldFunctionOnSet(LAMBDA x, y : x \o y, <<>>, f, DOMAIN f)
CeilDiv(a, b) == (a + b - 1) \div b
Align(n) == CeilDiv(n, ExpertAlignment) * ExpertAlignment

Prog  == setup.prog
Calls == DOMAIN Prog
CallOf(r) == ended[r] + 1
Kind(r)   == Prog[CallOf(r)].kind
AnyDispatch == {"dispatch", "cached"}
Runs(r, kinds) == stage[r] = "work" /\ Kind(r) \in kinds

\* The dispatch that routed call k: itself, the one cached, or that of what it combines.
Source(k) == IF Prog[k].kind = "dispatch" THEN k ELSE Prog[k].of
Home(k)   == Source(Source(k))
Rows(k, r) == Prog[Home(k)].rows[r]
Expanded(k) == Prog[Home(k)].expand

-----------------------------------------------------------------------------
(* The buffer, in cells of one token, under its two layouts.               *)

TokensPerChannel == CeilDiv(NumMaxTokensPerRank, setup.channels)
RegionSize == NumScaleout * NumMaxTokensPerRank

DispatchUp(u, slot) == u * RegionSize + slot
DispatchSend(t)     == NumScaleup * RegionSize + t - 1
DispatchRecv(o, c, slot) ==
  NumScaleup * RegionSize + NumMaxTokensPerRank + (o * setup.channels + c) * TokensPerChannel + slot

\* use_rank_layout, get_num_tokens_in_layout: a region per rank if there are no more than lanes.
RankLayout(n) == setup.multiple /\ n <= NumTopk
NumRegions(n) == IF RankLayout(n) THEN n ELSE NumTopk

CombineUp(region, slot) == region * RegionSize + slot
CombineRecv(region, t)  == NumRegions(NumScaleup) * RegionSize + region * NumMaxTokensPerRank + t - 1
\* With multiple reduction there is only one region to send from.
CombineSend(region, c, i) ==
  NumRegions(NumScaleup) * RegionSize + NumRegions(NumScaleout) * NumMaxTokensPerRank
  + ((IF setup.multiple THEN 0 ELSE region) * setup.channels + c) * (NumScaleout * TokensPerChannel) + i

Cells == 0 .. Max({DispatchRecv(NumScaleout - 1, setup.channels - 1, TokensPerChannel),
                   CombineSend(NumTopk - 1, setup.channels - 1,
                               NumScaleout * TokensPerChannel)}) - 1

\* A token: on the way out, whose it is and its row, and for each lane its index in the list
\* of the channel it was forwarded by; on the way back, what was added up.
Token(k, r, t) == [call |-> k, src |-> r, tok |-> t, row |-> Rows(k, r)[t],
                   channel |-> 0, index |-> <<>>, sum |-> <<>>]
Partial(k, sum) == [call |-> k, src |-> 0, tok |-> 0, row |-> <<>>,
                    channel |-> 0, index |-> <<>>, sum |-> sum]
NoToken == Partial(0, <<>>)

\* Cells that nobody has written to yet are not in the domain of mem.
Read(m, a) == IF a \in DOMAIN m THEN m[a] ELSE NoToken

NoTail  == [n |-> 0, fin |-> 0]
NoWords == [rank |-> [u \in Places |-> -1], arrived |-> 0, expert |-> [e \in LocalExperts |-> 0]]
NoHandle == [psum |-> <<>>, epsum |-> <<>>, slots |-> <<>>, metas |-> [c \in Channels |-> <<>>],
             recv |-> <<>>, src |-> <<>>, list |-> <<>>, sums |-> <<>>]
\* A forward warp starts its round-robin behind node channel % kNumScaleoutRanks.
NewForward(c) == [from |-> c % NumScaleout, old |-> [o \in Nodes |-> 0], tail |-> [o \in Nodes |-> 0],
                  fin |-> [o \in Nodes |-> FALSE], count |-> [u \in Places |-> 0]]

PerChannel(x) == [r \in Ranks |-> [c \in Channels |-> x]]

Init ==
  /\ setup \in Setups
  /\ ended = [r \in Ranks |-> 0]
  /\ stage = [r \in Ranks |-> "idle"]
  /\ notified = [r \in Ranks |-> FALSE]
  /\ outWords = [r \in Ranks |-> [o \in Nodes |-> <<>>]]
  /\ upWords = [r \in Ranks |-> NoWords]
  /\ tails = PerChannel([o \in Nodes |-> NoTail])
  /\ upTails = PerChannel([u \in Places |-> 0])
  /\ sender = [r \in Ranks |-> [u \in Places |-> 0]]
  /\ issued = [r \in Ranks |-> 0]
  /\ landed = PerChannel([o \in Nodes |-> 0])
  /\ forward = [r \in Ranks |-> [c \in Channels |-> NewForward(c)]]
  /\ sent = PerChannel(0)
  /\ returned = PerChannel(0)
  /\ finished = [r \in Ranks |-> {}]
  /\ mem = [r \in Ranks |-> <<>>]
  /\ handle = [r \in Ranks |-> [k \in Calls |-> NoHandle]]
  /\ outEntered = [r \in Ranks |-> 0] /\ upEntered = [r \in Ranks |-> 0]

-----------------------------------------------------------------------------
(* The first kernel: into the barrier, and what its warps begin with.      *)

\* The first barrier, with rail and node in parallel.
StartMain(r) ==
  /\ stage[r] = "idle"
  /\ outEntered' = [outEntered EXCEPT ![r] = @ + 1]
  /\ upEntered' = [upEntered EXCEPT ![r] = @ + 1]
  /\ stage' = [stage EXCEPT ![r] = "enter"]
  /\ UNCHANGED <<setup, ended, wordVars, tails, upTails, dispatchVars, combineVars, mem, handle>>

\* Faulty variant: the rails are not synchronised.
EntryMetNode(r) == Met(upEntered, r, Node(r))

EntryMet(r) == Met(outEntered, r, Rail(r)) /\ Met(upEntered, r, Node(r))

\* Notify warps: what a rank sends to the ranks and the experts of node o.
CountsFor(r, o) ==
  LET rows == Rows(CallOf(r), r)
      ToRank(q) == Cardinality({t \in DOMAIN rows : q \in Keys(Rankwise(rows[t]))})
      ToExpert(e) == Cardinality({t \in DOMAIN rows : \E l \in DOMAIN rows[t] : rows[t][l] = e})
  IN  [rank |-> [u \in Places |-> ToRank(RankAt(o, u))],
       expert |-> [x \in Places \X LocalExperts |-> ToExpert(RankAt(o, x[1]) * NumExpertsPerRank + x[2])]]

\* The tokens of a channel for node o, and the slot each gets there: one after the other.
TokensTo(k, r, c, o) == {t \in DOMAIN Rows(k, r) : /\ (t - 1) % setup.channels = c
                                                   /\ o \in Keys(Nodewise(Rows(k, r)[t]))}
SlotOf(tokens, t) == Cardinality({s \in tokens : s < t})

\* What the scale-out warps store in the own memory: every token that does not go to the own
\* node alone, to be sent, and those for the own node where its forward warps look for them.
StoresOut(k, r) ==
  LET remote == {t \in DOMAIN Rows(k, r) : Keys(Nodewise(Rows(k, r)[t])) # {ScaleoutIdx(r)}}
      Own(c) == TokensTo(k, r, c, ScaleoutIdx(r))
      stores == {<<DispatchSend(t), t>> : t \in remote} \cup
                UNION {{<<DispatchRecv(ScaleoutIdx(r), c, SlotOf(Own(c), t)), t>> : t \in Own(c)} : c \in Channels}
  IN  [a \in {x[1] : x \in stores} |-> Token(k, r, (CHOOSE x \in stores : x[1] = a)[2])]

\* The kernel goes to work.  A dispatch puts its counts on the rail (a cached one has no
\* notify warps), and its scale-out warps store and issue all they have.  Forward warps take
\* chunks of UpdateInterval, so it makes no difference to them that the tail of the own node
\* does not come in steps.
PassEntry(r) ==
  LET k == CallOf(r)
      own(c) == [n |-> Cardinality(TokensTo(k, r, c, ScaleoutIdx(r))), fin |-> 1]
  IN  /\ stage[r] = "enter"
      /\ EntryMet(r)
      /\ stage' = [stage EXCEPT ![r] = "work"]
      /\ outWords' = IF Kind(r) # "dispatch" THEN outWords
                     ELSE [q \in Ranks |-> IF q \notin Rail(r) THEN outWords[q]
                           ELSE [outWords[q] EXCEPT ![ScaleoutIdx(r)] = CountsFor(r, ScaleoutIdx(q))]]
      /\ notified' = [notified EXCEPT ![r] = Kind(r) # "dispatch"]
      /\ IF Kind(r) = "combine" THEN UNCHANGED <<mem, tails, issued, landed>>
         ELSE /\ mem' = [mem EXCEPT ![r] = StoresOut(k, r) @@ @]
              /\ tails' = [tails EXCEPT ![r] =
                   [c \in Channels |-> [@[c] EXCEPT ![ScaleoutIdx(r)] =
                                          [n |-> @.n + own(c).n, fin |-> @.fin + own(c).fin]]]]
              /\ issued' = [issued EXCEPT ![r] = k]
              /\ landed' = [landed EXCEPT ![r] = [c \in Channels |-> [o \in Nodes |-> 0]]]
      /\ forward' = [forward EXCEPT ![r] = [c \in Channels |-> NewForward(c)]]
      /\ sent' = [sent EXCEPT ![r] = [c \in Channels |-> 0]]
      /\ returned' = [returned EXCEPT ![r] = [c \in Channels |-> 0]]
      /\ finished' = [finished EXCEPT ![r] = {}]
      /\ UNCHANGED <<setup, ended, upWords, upTails, sender, handle, barrierVars>>

-----------------------------------------------------------------------------
(* Dispatch: what the scale-out warps have put on the rail.                *)

\* Faulty variant: no last update if there is nothing new to tell.
UpdatesIfAny(tokens) == CeilDiv(Cardinality(tokens), UpdateInterval)

\* update_scaleout_tail: one update every UpdateInterval slots, and one with the finish flag.
Updates(tokens) == Cardinality(tokens) \div UpdateInterval + 1

\* The tokens that tail update n tells of, and where their puts bring what they read.
Batch(tokens, n) == {t \in tokens : SlotOf(tokens, t) \div UpdateInterval = n}
Puts(r, c, tokens, n) ==
  LET At(t) == DispatchRecv(ScaleoutIdx(r), c, SlotOf(tokens, t))
  IN  [a \in {At(t) : t \in Batch(tokens, n)} |->
         Read(mem[r], DispatchSend(CHOOSE t \in Batch(tokens, n) : At(t) = a))]

\* The next tail update of a channel lands at another node, and behind it in the same queue
\* pair the puts before it: only now they read the send buffer.
Land(r, c, o) ==
  /\ issued[r] > 0 /\ o # ScaleoutIdx(r)
  /\ \E tokens \in {TokensTo(issued[r], r, c, o)} :
       LET q == RankAt(o, ScaleupIdx(r))
           n == landed[r][c][o]
       IN  /\ n < Updates(tokens)
           /\ landed' = [landed EXCEPT ![r][c][o] = n + 1]
           /\ mem' = [mem EXCEPT ![q] = Puts(r, c, tokens, n) @@ @]
           /\ tails' = [tails EXCEPT ![q][c][ScaleoutIdx(r)] =
                [n |-> @.n + Cardinality(Batch(tokens, n)),
                 fin |-> @.fin + (IF n + 1 = Updates(tokens) THEN 1 ELSE 0)]]
  /\ UNCHANGED <<setup, ended, stage, wordVars, upTails, sender, issued, forward, combineVars,
                 handle, barrierVars>>

-----------------------------------------------------------------------------
(* Dispatch: forward warps.                                                *)

\* Nodes that have not finished, or whose tokens have not all been forwarded.
Wip(f) == {o \in Nodes : f.tail[o] > f.old[o] \/ ~f.fin[o]}
\* The next of them in round-robin.
NextNode(f) == LET high == {o \in Wip(f) : o >= (f.from + 1) % NumScaleout}
               IN  IF high # {} THEN Min(high) ELSE Min(Wip(f))
HasWork(f, o) == f.tail[o] > f.old[o] \/ f.fin[o]
\* All tails are read again, but only if the node that is next has nothing to do.
Refreshed(f, words, o) ==
  IF HasWork(f, o) THEN f
  ELSE [f EXCEPT !.tail = [p \in Nodes |-> words[p].n], !.fin = [p \in Nodes |-> words[p].fin > 0]]

\* kReuseSlotIndices
ReusesSlots(k) == Prog[k].kind = "cached"

\* What a forward warp does with one chunk of the node that is next: every token goes once
\* to each place that wants it, into a slot drawn there (or that of the handle), with its
\* index in the list of this channel there.
Chunk(r, c, o, g) ==
  LET f == forward[r][c]
      slots == g.old[o] .. Min({g.tail[o], g.old[o] + UpdateInterval}) - 1
      x == [s \in slots |-> Read(mem[r], DispatchRecv(o, c, s))]
      place == [s \in slots |-> Placewise(ScaleoutIdx(r), x[s].row)]
      Before(u, s) == Cardinality({p \in slots : p < s /\ u \in Keys(place[p])})
      Slot(u, s) == IF ReusesSlots(CallOf(r))
                    THEN handle[r][Home(CallOf(r))].slots[<<c, o, s>>][LaneOf(place[s], u)]
                    ELSE sender[r][u] + Before(u, s)
      Index(u, s) == IF u = -1 THEN -1 ELSE f.count[u] + Before(u, s)
      added == [u \in Places |-> Cardinality({s \in slots : u \in Keys(place[s])})]
  IN  [added |-> added,
       next |-> [g EXCEPT !.from = o, !.old[o] = @ + Cardinality(slots),
                          !.count = [u \in Places |-> @[u] + added[u]]],
       items |-> [s \in slots |->
         [token |-> [x[s] EXCEPT !.channel = c,
                                 !.index = [l \in DOMAIN place[s] |-> Index(place[s][l], s)]],
          place |-> place[s],
          slot |-> [l \in DOMAIN place[s] |->
                      IF l \in Dedup(place[s]) THEN Slot(place[s][l], s) ELSE -1]]]]

\* Where the tokens of a chunk go at place u of the node, written by rank r.
StoresAt(r, u, items) ==
  LET To == {s \in DOMAIN items : u \in Keys(items[s].place)}
      At(s) == DispatchUp(ScaleupIdx(r), items[s].slot[LaneOf(items[s].place, u)])
  IN  [a \in {At(s) : s \in To} |-> items[CHOOSE s \in To : At(s) = a].token]
Meta(item) == [src |-> item.token.src, tok |-> item.token.tok, place |-> item.place, slot |-> item.slot]

\* A dispatch that is not cached writes down what it did.
Forward(r, c) ==
  /\ Runs(r, AnyDispatch)
  /\ Wip(forward[r][c]) # {}
  /\ \E o \in {NextNode(forward[r][c])} : \E g \in {Refreshed(forward[r][c], tails[r][c], o)} :
       /\ HasWork(g, o)
       /\ \E x \in {Chunk(r, c, o, g)} :
            LET k == CallOf(r)
                keys == {<<c, o, s>> : s \in DOMAIN x.items}
                metas == [i \in 1 .. Cardinality(DOMAIN x.items) |-> Meta(x.items[g.old[o] + i - 1])]
            IN  /\ mem' = [q \in Ranks |-> IF q \in Node(r) THEN StoresAt(r, ScaleupIdx(q), x.items) @@ mem[q]
                                          ELSE mem[q]]
                /\ forward' = [forward EXCEPT ![r][c] = x.next]
                /\ IF ReusesSlots(k) THEN UNCHANGED <<sender, handle>>
                   ELSE /\ sender' = [sender EXCEPT ![r] = [u \in Places |-> @[u] + x.added[u]]]
                        /\ handle' = [handle EXCEPT ![r][k].slots = [y \in keys |-> x.items[y[3]].slot] @@ @,
                                                    ![r][k].metas[c] = @ \o metas]
  /\ UNCHANGED <<setup, ended, stage, wordVars, tails, upTails, issued, landed, combineVars,
                 barrierVars>>

-----------------------------------------------------------------------------
(* Dispatch: the other half of the notify warps, and the end.              *)

\* All counts of the rail are there: add them up, reset the words, and tell the ranks of the
\* node how many tokens come to them through this rank, and to their experts.
Notify(r) ==
  LET words == outWords[r]
      Total(q) == Sum([o \in Nodes |-> words[o].rank[ScaleupIdx(q)]], Nodes)
      Expert(q, e) == Sum([o \in Nodes |-> words[o].expert[<<ScaleupIdx(q), e>>]], Nodes)
  IN  /\ Runs(r, {"dispatch"})
      /\ ~notified[r]
      /\ \A o \in Nodes : words[o] # <<>>
      /\ outWords' = [outWords EXCEPT ![r] = [o \in Nodes |-> <<>>]]
      /\ upWords' = [q \in Ranks |-> IF q \notin Node(r) THEN upWords[q]
                     ELSE [rank |-> [upWords[q].rank EXCEPT ![ScaleupIdx(r)] = Total(q)],
                           arrived |-> upWords[q].arrived + 1,
                           expert |-> [e \in LocalExperts |-> upWords[q].expert[e] + Expert(q, e)]]]
      /\ notified' = [notified EXCEPT ![r] = TRUE]
      /\ UNCHANGED <<setup, ended, stage, tails, upTails, dispatchVars, combineVars, mem, handle,
                     barrierVars>>

\* What the notify warps of a dispatch leave: the prefix sums over places (inclusive) and
\* experts (exclusive, aligned).
Psums(h, words) ==
  [h EXCEPT !.psum = [u \in Places |-> Sum(words.rank, 0 .. u)],
            !.epsum = [e \in LocalExperts |->
                         Sum([d \in LocalExperts |-> Align(words.expert[d])], 0 .. e - 1)]]

\* The ends of the lists, in the words of the places they belong to.
ListEnds(r) ==
  [q \in Ranks |-> IF q \notin Node(r) THEN upTails[q]
   ELSE [c \in Channels |->
           [upTails[q][c] EXCEPT ![ScaleupIdx(r)] = forward[r][c].count[ScaleupIdx(q)]]]]

\* Faulty variant: the tails stay.
TailsKept(r) == tails[r]

\* The forward warps reset the tails of their channels.
TailsReset(r) == [c \in Channels |-> [o \in Nodes |-> NoTail]]

\* Every warp is through: the notify warps have the counts of the node and reset them, the
\* forward warps end the lists and reset the tails; then the barrier of the node.
EndWork(r) ==
  /\ Runs(r, AnyDispatch)
  /\ notified[r]
  /\ \A c \in Channels : Wip(forward[r][c]) = {}
  /\ IF Kind(r) = "cached" THEN UNCHANGED <<upWords, upTails, handle>>
     ELSE /\ upWords[r].arrived = NumScaleup
          /\ handle' = [handle EXCEPT ![r][CallOf(r)] = Psums(@, upWords[r])]
          /\ upWords' = [upWords EXCEPT ![r] = NoWords]
          /\ upTails' = ListEnds(r)
  /\ tails' = [tails EXCEPT ![r] = TailsReset(r)]
  /\ upEntered' = [upEntered EXCEPT ![r] = @ + 1]
  /\ stage' = [stage EXCEPT ![r] = "leave"]
  /\ UNCHANGED <<setup, ended, notified, outWords, dispatchVars, combineVars, mem, outEntered>>

-----------------------------------------------------------------------------
(* Dispatch: the end of the kernel, and its copy epilogue.                 *)

\* The i-th received token is in the region of the first place whose prefix sum exceeds i.
RegionOf(psum, i) == Min({u \in Places : i < psum[u]})
RegionStart(psum, u) == IF u = 0 THEN 0 ELSE psum[u - 1]
LocalIdx(e) == e % NumExpertsPerRank

\* What the epilogue leaves.  Tokens go into the tensor in order, or (expanded) to places
\* drawn from the prefix sums of their experts.  If the dispatch is not cached, the lists are
\* written too: which received token is the n-th that the channel of a place has forwarded,
\* and -1 where the words say that the list ends.
Copied(r, k, h) ==
  LET psum == handle[r][Home(k)].psum
      tokens == 0 .. psum[NumScaleup - 1] - 1
      slot == [i \in tokens |-> i - RegionStart(psum, RegionOf(psum, i))]
      x == [i \in tokens |-> Read(mem[r], DispatchUp(RegionOf(psum, i), slot[i]))]
      mine == [i \in tokens |-> {l \in DOMAIN x[i].row : RankOf(x[i].row[l]) = r}]
      Before(e, i) == Cardinality({j \in tokens : j < i /\ \E l \in mine[j] : LocalIdx(x[j].row[l]) = e})
      Place(i, l) == LET e == LocalIdx(x[i].row[l])
                     IN  IF Expanded(k) /\ l \in mine[i] THEN h.epsum[e] + Before(e, i) ELSE -1
      Index(i) == <<x[i].channel, RegionOf(psum, i), x[i].index[MasterLane(mine[i])]>>
      ends == {<<c, u, upTails[r][c][u]>> : c \in Channels, u \in Places}
      listed == {i \in tokens : mine[i] # {}}
      placed == {<<i, Place(i, l)>> : <<i, l>> \in {y \in tokens \X Lanes : y[2] \in mine[y[1]]}}
  IN  [h EXCEPT
        !.src = [i \in tokens |->
           [src |-> x[i].src, tok |-> x[i].tok, slot |-> slot[i], lane |-> MasterLane(mine[i]),
            place |-> [l \in DOMAIN x[i].row |-> Place(i, l)]]],
        !.recv = IF ~Expanded(k) THEN x
           ELSE [p \in {y[2] : y \in placed} |-> x[(CHOOSE y \in placed : y[2] = p)[1]]],
        !.epsum = IF ~Expanded(k) THEN @
           ELSE [e \in LocalExperts |-> @[e] + Before(e, Cardinality(tokens))],
        !.list = IF Prog[k].kind = "cached" THEN @
           ELSE [y \in ends \cup {Index(i) : i \in listed} |->
                   IF y \in ends THEN -1 ELSE CHOOSE i \in listed : Index(i) = y]]

\* The node has entered the last barrier, so the tokens are there: the kernel resets its
\* counters and ends, and its epilogue copies and frees the words for the tails of combine.
EndDispatch(r) ==
  /\ stage[r] = "leave"
  /\ Met(upEntered, r, Node(r))
  /\ handle' = [handle EXCEPT ![r][CallOf(r)] = Copied(r, CallOf(r), @)]
  /\ IF ReusesSlots(CallOf(r)) THEN UNCHANGED <<sender, upTails>>
     ELSE /\ sender' = [sender EXCEPT ![r] = [u \in Places |-> 0]]
          /\ upTails' = [upTails EXCEPT ![r] = [c \in Channels |-> [u \in Places |-> 0]]]
  /\ ended' = [ended EXCEPT ![r] = @ + 1]
  /\ stage' = [stage EXCEPT ![r] = "idle"]
  /\ UNCHANGED <<setup, wordVars, tails, issued, landed, forward, combineVars, mem, barrierVars>>

-----------------------------------------------------------------------------
(* Combine: scale-up warps.                                                *)

\* What the experts of rank r made of token x: each adds one term.
Terms(k, r, x, experts) == [j \in DOMAIN experts |-> <<k, r, x.src, x.tok, experts[j]>>]
LocalExpertsOf(row, r) == SelectSeq(row, LAMBDA e : RankOf(e) = r)

\* The expert whose segment of the expanded tensor holds a place: segments begin where the
\* aligned prefix sum of the experts before ends.
SegmentStart(h, e) == IF e = 0 THEN 0 ELSE Align(h.epsum[e - 1])
SegmentOf(h, r, place) ==
  {r * NumExpertsPerRank + e : e \in {x \in LocalExperts : /\ SegmentStart(h, x) <= place
                                                           /\ place < h.epsum[x]}}

\* What goes back for received token i: the caller has reduced over its own experts, or
\* (expanded) there is a sum per lane of this rank, each at its own place.
SumOfLane(r, k, i, l) ==
  LET h == handle[r][Home(k)]
      place == h.src[i].place[l]
  IN  Terms(k, r, handle[r][Source(k)].recv[place], SetToSeq(SegmentOf(h, r, place)))
ExpandedLanes(r, k, i) == LET p == handle[r][Home(k)].src[i].place IN {l \in DOMAIN p : p[l] >= 0}
LocalSum(r, k, i) ==
  IF Expanded(k) THEN Joined([l \in ExpandedLanes(r, k, i) |-> SumOfLane(r, k, i, l)])
  ELSE LET x == handle[r][Source(k)].recv[i] IN Terms(k, r, x, LocalExpertsOf(x.row, r))

\* How many tokens are listed for a place before the end of the list.
ListLen(r, k, c, u) ==
  LET list == handle[r][Home(k)].list
  IN  Min({y[3] : y \in {z \in DOMAIN list : z[1] = c /\ z[2] = u /\ list[z] = -1}})
Rounds(r, k, c) == Max({ListLen(r, k, c, u) : u \in Places})

\* The tokens that rounds n to end - 1 send to place u.
Listed(r, k, c, u, n, end) ==
  LET list == handle[r][Home(k)].list
  IN  {list[<<c, u, j>>] : j \in n .. Min({end, ListLen(r, k, c, u)}) - 1}

\* The slot of a source token in the region of a lane.
BySource(src, tok) == ScaleoutIdx(src) * NumMaxTokensPerRank + tok - 1

\* What received tokens write to the scale-up buffer of the rank they came by: a sum into the
\* slot of the dispatch in the region of this rank or into the region of the token's lane,
\* or (expanded, nothing added up) one for each lane.
PutsUp(r, k, tokens) ==
  LET src == handle[r][Home(k)].src
      LaneAt(i, l) == CombineUp(l - 1, BySource(src[i].src, src[i].tok))
      At(i) == IF RankLayout(NumScaleup) THEN CombineUp(ScaleupIdx(r), src[i].slot) ELSE LaneAt(i, src[i].lane)
      puts == UNION {IF Expanded(k) /\ ~setup.multiple
                     THEN {<<LaneAt(i, l), SumOfLane(r, k, i, l)>> : l \in ExpandedLanes(r, k, i)}
                     ELSE {<<At(i), LocalSum(r, k, i)>>} : i \in tokens}
  IN  [a \in {p[1] : p \in puts} |-> Partial(k, (CHOOSE p \in puts : p[1] = a)[2])]

\* UpdateInterval rounds through the lists of all places; the tails that have changed follow
\* the stores.
SendBack(r, c) ==
  LET k == CallOf(r)
      n == sent[r][c]
      end == Min({n + UpdateInterval, Rounds(r, k, c)})
      To(q) == Listed(r, k, c, ScaleupIdx(q), n, end)
  IN  /\ Runs(r, {"combine"})
      /\ n < Rounds(r, k, c)
      /\ mem' = [q \in Ranks |-> IF q \in Node(r) THEN PutsUp(r, k, To(q)) @@ mem[q] ELSE mem[q]]
      /\ upTails' = [q \in Ranks |->
           IF q \in Node(r) /\ To(q) # {}
           THEN [upTails[q] EXCEPT ![c][ScaleupIdx(r)] = n + Cardinality(To(q))] ELSE upTails[q]]
      /\ sent' = [sent EXCEPT ![r][c] = end]
      /\ UNCHANGED <<setup, ended, stage, wordVars, tails, dispatchVars, returned, finished, handle,
                     barrierVars>>

-----------------------------------------------------------------------------
(* Combine: forward warps.                                                 *)

Metas(r, c) == handle[r][Home(CallOf(r))].metas[c]

\* The lanes that have brought something back for a forwarded token, and where from.
BackLanes(k, m) == IF Expanded(k) /\ ~setup.multiple THEN {l \in DOMAIN m.place : m.place[l] >= 0}
                   ELSE Dedup(m.place)
UpCell(m, l) == IF RankLayout(NumScaleup) THEN CombineUp(m.place[l], m.slot[l])
                ELSE CombineUp(l - 1, BySource(m.src, m.tok))
\* The regions of the scale-out buffers it goes on to.
BackRegions(r, k, m) ==
  IF ~setup.multiple THEN {l - 1 : l \in BackLanes(k, m)}
  ELSE {IF RankLayout(NumScaleout) THEN ScaleoutIdx(r)
        ELSE MasterLane({l \in DOMAIN m.place : m.place[l] >= 0}) - 1}

\* How many tokens that wanted place u were replayed before the i-th.
WantedBefore(metas, i, u) == Cardinality({j \in 1 .. i - 1 : u \in Keys(metas[j].place)})

\* Faulty variant: the sum is made as soon as one of the ranks has sent its part.
HasArrivedAny(r, c, i) ==
  \E u \in Keys(Metas(r, c)[i].place) : WantedBefore(Metas(r, c), i, u) < upTails[r][c][u]

\* Every rank of the node that got the token has sent more than what was replayed before.
HasArrived(r, c, i) ==
  \A u \in Keys(Metas(r, c)[i].place) : WantedBefore(Metas(r, c), i, u) < upTails[r][c][u]

\* What a forwarded token leaves in the scale-out buffers: its parts, added up or one by one,
\* in the send buffer, or where they belong if the source is in this node.
PutsOut(r, k, c, i) ==
  LET m == handle[r][Home(k)].metas[c][i]
      Parts(region) == [l \in IF setup.multiple THEN BackLanes(k, m) ELSE {region + 1} |->
                          Read(mem[r], UpCell(m, l)).sum]
      Cell(region) == IF ScaleoutIdx(m.src) = ScaleoutIdx(r) THEN CombineRecv(region, m.tok)
                      ELSE CombineSend(region, c, i - 1)
      regions == BackRegions(r, k, m)
  IN  [a \in {Cell(g) : g \in regions} |->
         Partial(k, Joined(Parts(CHOOSE g \in regions : Cell(g) = a)))]

\* The next token in the order of the dispatch.
Return(r, c) ==
  LET i == returned[r][c] + 1
  IN  /\ Runs(r, {"combine"})
      /\ i <= Len(Metas(r, c))
      /\ HasArrived(r, c, i)
      /\ mem' = [mem EXCEPT ![r] = PutsOut(r, CallOf(r), c, i) @@ @]
      /\ returned' = [returned EXCEPT ![r][c] = i]
      /\ UNCHANGED <<setup, ended, stage, wordVars, tails, upTails, dispatchVars, sent, finished,
                     handle, barrierVars>>

\* The puts to rank q of all that came from there.
PutsBack(r, k, c, q) ==
  LET metas == handle[r][Home(k)].metas[c]
      to == UNION {{<<CombineRecv(g, metas[i].tok), CombineSend(g, c, i - 1)>> :
                      g \in BackRegions(r, k, metas[i])} : i \in {j \in DOMAIN metas : metas[j].src = q}}
  IN  [a \in {y[1] : y \in to} |-> Read(mem[r], (CHOOSE y \in to : y[1] = a)[2])]

\* All are replayed: reset the tails of the node, flush the puts (only now they read the
\* send buffer) and signal every node, in the words that a dispatch uses for its tails.
EndReturn(r, c) ==
  /\ Runs(r, {"combine"})
  /\ returned[r][c] = Len(Metas(r, c)) /\ c \notin finished[r]
  /\ mem' = [q \in Ranks |-> IF q \in Rail(r) \ {r} THEN PutsBack(r, CallOf(r), c, q) @@ mem[q] ELSE mem[q]]
  /\ upTails' = [upTails EXCEPT ![r][c] = [u \in Places |-> 0]]
  /\ tails' = [q \in Ranks |-> IF q \notin Rail(r) THEN tails[q]
               ELSE [tails[q] EXCEPT ![c][ScaleoutIdx(r)].fin = @ + 1]]
  /\ finished' = [finished EXCEPT ![r] = @ \cup {c}]
  /\ UNCHANGED <<setup, ended, stage, wordVars, dispatchVars, sent, returned, handle, barrierVars>>

\* The lanes whose regions a token's sums come from: once per node, or where nothing was
\* added up on the way, per rank or (expanded) per lane.
ReduceLanes(k, row) ==
  CASE setup.multiple -> Dedup(Nodewise(row))
    [] ~setup.multiple /\ ~Expanded(k) -> Dedup(Rankwise(row))
    [] ~setup.multiple /\ Expanded(k) -> {l \in DOMAIN row : row[l] >= 0}
Reduced(r, k) ==
  LET rows == Rows(k, r)
      Region(t, l) == IF RankLayout(NumScaleout) THEN ScaleoutOf(rows[t][l]) ELSE l - 1
  IN  [t \in DOMAIN rows |->
         Joined([l \in ReduceLanes(k, rows[t]) |-> Read(mem[r], CombineRecv(Region(t, l), t)).sum])]

\* Every word shows one signal and nothing else: reset them, and end without a barrier.  The
\* reduce epilogue adds up what has come back.
EndCombine(r) ==
  /\ Runs(r, {"combine"})
  /\ \A c \in Channels : sent[r][c] = Rounds(r, CallOf(r), c)
  /\ finished[r] = Channels
  /\ \A c \in Channels : \A o \in Nodes : tails[r][c][o] = [n |-> 0, fin |-> 1]
  /\ tails' = [tails EXCEPT ![r] = [c \in Channels |-> [o \in Nodes |-> NoTail]]]
  /\ handle' = [handle EXCEPT ![r][CallOf(r)].sums = Reduced(r, CallOf(r))]
  /\ ended' = [ended EXCEPT ![r] = @ + 1]
  /\ stage' = [stage EXCEPT ![r] = "idle"]
  /\ UNCHANGED <<setup, wordVars, upTails, dispatchVars, combineVars, mem, barrierVars>>

-----------------------------------------------------------------------------
Begin(r) == StartMain(r) \/ PassEntry(r)
Warp(r, c) == EndReturn(r, c) \/ Return(r, c) \/ SendBack(r, c) \/ Forward(r, c)
End(r) == EndWork(r) \/ EndCombine(r) \/ EndDispatch(r)
Running == {r \in Ranks : ended[r] < Len(Prog)}

\* Puts of a dispatch go on even when its kernel has ended.
Next == \/ \E r \in Ranks : \E c \in Channels : \E o \in Nodes : Land(r, c, o)
        \/ \E r \in Running : Begin(r) \/ Notify(r)
        \/ \E r \in Running : \E c \in Channels : Warp(r, c)
        \/ \E r \in Running : End(r)

Spec == Init /\ [][Next]_vars

\* Some warp or put goes on while one of them can.
FairSpec == Spec /\ WF_vars(Next)

-----------------------------------------------------------------------------
(* Properties.                                                             *)

\* The types; a tail word never shows more than one finish, whichever kernel used it last.
TypeOK ==
  /\ setup \in Setups
  /\ ended \in [Ranks -> 0 .. Len(Prog)]
  /\ stage \in [Ranks -> {"idle", "enter", "work", "leave"}]
  /\ notified \in [Ranks -> BOOLEAN]
  /\ \A r \in Ranks : upWords[r].arrived \in 0 .. NumScaleup
  /\ tails \in [Ranks -> [Channels -> [Nodes -> [n : 0 .. TokensPerChannel, fin : 0 .. 1]]]]
  /\ upTails \in [Ranks -> [Channels -> [Places -> 0 .. NumScaleout * TokensPerChannel]]]
  /\ sender \in [Ranks -> [Places -> 0 .. RegionSize]]
  /\ issued \in [Ranks -> {0} \cup Calls]
  /\ \A r \in Ranks : finished[r] \subseteq Channels
  /\ \A r \in Ranks : DOMAIN mem[r] \subseteq Cells
  /\ {outEntered, upEntered} \subseteq [Ranks -> Nat]

Ended(r, k) == ended[r] >= k
RoutedTo(k, r) == {p \in Ranks \X (1 .. NumMaxTokensPerRank) :
                     /\ p[2] \in DOMAIN Rows(k, p[1])
                     /\ r \in Keys(Rankwise(Rows(k, p[1])[p[2]]))}
RoutedToExpert(k, e) == {p \in RoutedTo(k, RankOf(e)) : \E l \in Lanes : Rows(k, p[1])[p[2]][l] = e}

\* A dispatch delivers exactly the tokens that were routed to the rank, each once, from this
\* very call and with its row, although a token takes two hops through memory that other
\* kernels lay out otherwise; expanded, each expert's copies fill its own segment; cached,
\* the tokens come in the order of the first dispatch, whatever the order on the way.
DispatchExact ==
  \A r \in Ranks : \A k \in Calls :
    Ended(r, k) /\ Prog[k].kind \in AnyDispatch =>
      LET h == handle[r][k]
          Tokens(places) == {<<h.recv[p].src, h.recv[p].tok>> : p \in places}
          Filled(e) == {p \in DOMAIN h.recv : e \in SegmentOf(h, r, p)}
      IN  /\ \A p \in DOMAIN h.recv :
               LET x == h.recv[p]
               IN  x.call = k /\ x.tok \in DOMAIN Rows(k, x.src) /\ x.row = Rows(k, x.src)[x.tok]
          /\ IF Expanded(k)
             THEN \A e \in {r * NumExpertsPerRank + x : x \in LocalExperts} :
                    /\ Tokens(Filled(e)) = RoutedToExpert(k, e)
                    /\ Cardinality(Filled(e)) = Cardinality(RoutedToExpert(k, e))
             ELSE /\ Tokens(DOMAIN h.recv) = RoutedTo(k, r)
                  /\ DOMAIN h.recv = 0 .. Cardinality(RoutedTo(k, r)) - 1
          /\ Prog[k].kind = "cached" =>
               \A i \in DOMAIN h.recv : /\ h.recv[i].tok = handle[r][Home(k)].recv[i].tok
                                        /\ h.recv[i].src = handle[r][Home(k)].recv[i].src

\* combine returns, for every token, the sum of what each of its experts made of it in this
\* call, every term once, wherever the terms met on the way back.
CombineExact ==
  \A r \in Ranks : \A k \in Calls :
    Ended(r, k) /\ Prog[k].kind = "combine" =>
      \A t \in DOMAIN Rows(k, r) :
        LET experts == Keys(Rows(k, r)[t])
            sum == handle[r][k].sums[t]
        IN  /\ {sum[j] : j \in DOMAIN sum} = {<<k, RankOf(e), r, t, e>> : e \in experts}
            /\ Len(sum) = Cardinality(experts)

\* Every program ends: no warp waits for a tail, a count or a barrier that never comes.
ProgramEnds == <>(\A r \in Ranks : ended[r] = Len(Prog))

=============================================================================
