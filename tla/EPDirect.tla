------------------------------ MODULE EPDirect ------------------------------
(***************************************************************************)
(* Dispatch and combine of expert parallelism inside one scale-up domain.  *)
(*                                                                         *)
(* dispatch sends every token to each rank that holds one of its top-k     *)
(* experts, into a slot of that rank's buffer that the sender picks from   *)
(* a counter of its own, while notify warps exchange how many tokens will  *)
(* come.  A copy epilogue compacts the buffer into tensors.  combine sends *)
(* what the experts made of the tokens back to their sources, and a reduce *)
(* epilogue adds it up.  The routing of a dispatch is kept in a handle for *)
(* combine and for cached dispatches.                                      *)
(*                                                                         *)
(* Each call is two kernels in a row on the communication stream.  All     *)
(* calls share one buffer and one set of counters without ever asking      *)
(* whether they are free: only the barriers at the two ends of the first   *)
(* kernel (Barrier, by ScaleupBarrier) keep the ranks' calls apart.        *)
(***************************************************************************)
EXTENDS FiniteSums, Integers, Sequences, FiniteSets, FiniteSetsExt, Functions

CONSTANTS NumRanks,            \* kNumRanks
          NumExpertsPerRank,   \* kNumExpertsPerRank
          NumTopk,             \* kNumTopk
          NumMaxTokensPerRank, \* kNumMaxTokensPerRank
          NumSMs,              \* kNumSMs
          ExpertAlignment,     \* kExpertAlignment
          Setups               \* bound: the buffers and the programs they run

Ranks   == 0 .. NumRanks - 1
Experts == 0 .. NumRanks * NumExpertsPerRank - 1
LocalExperts == 0 .. NumExpertsPerRank - 1
Lanes   == 1 .. NumTopk
SMs     == 0 .. NumSMs - 1
Row     == [Lanes -> Experts \cup {-1}]

\* A call: its kind, the earlier call whose handle (cached) or output (combine) it takes,
\* and for a dispatch every rank's top-k rows, do_cpu_sync and do_expand.
Call == [kind : {"dispatch", "cached", "combine"}, of : Nat, rows : [Ranks -> Seq(Row)],
         sync : BOOLEAN, expand : BOOLEAN]

\* A top-k selection (torch.topk) names no expert twice; -1 masks a lane.
DistinctExperts(row) == \A l, m \in Lanes : row[l] = row[m] /\ row[l] # -1 => l = m

ASSUME SizesAssumption ==
  /\ NumRanks \in Nat /\ NumRanks >= 2
  /\ {NumExpertsPerRank, NumTopk, NumMaxTokensPerRank, NumSMs, ExpertAlignment} \subseteq Nat \ {0}
\* A cached call takes the handle of a dispatch that is not expanded.  The code asserts only
\* that the cached call itself is not; other handles are left out here.
ASSUME SetupsAssumption ==
  \A s \in Setups :
    /\ s.deterministic \in BOOLEAN /\ s.multiple \in BOOLEAN
    /\ s.prog \in Seq(Call)
    /\ \A k \in DOMAIN s.prog :
         /\ \A r \in Ranks : Len(s.prog[k].rows[r]) <= NumMaxTokensPerRank
         /\ \A r \in Ranks : \A t \in DOMAIN s.prog[k].rows[r] : DistinctExperts(s.prog[k].rows[r][t])
         /\ s.prog[k].kind = "cached" => /\ s.prog[k].of \in 1 .. k - 1
                                         /\ s.prog[s.prog[k].of].kind = "dispatch"
                                         /\ ~s.prog[s.prog[k].of].expand
         /\ s.prog[k].kind = "combine" => /\ s.prog[k].of \in 1 .. k - 1
                                          /\ s.prog[s.prog[k].of].kind # "combine"

VARIABLES
  setup,      \* deterministic, allow_multiple_reduction, and the program of all ranks
  call,       \* calls that the host has begun
  polling,    \* the host waits for the counts of its last call
  hostWords,  \* the counts in the host workspace
  kernels,    \* kernels of the communication stream that have ended
  stage,      \* how far the kernel after those is
  notify,     \* how far its notify warps are
  counted,    \* SMs that have added up the routing of their tokens
  taken,      \* the counts taken from each sender
  done,       \* items the warps of the kernel are through with
  reduction,  \* notify_reduction_workspace: SMs arrived, and the counts
  inbox,      \* scaleup_rank_count and scaleup_expert_count, per sender
  sender,     \* scaleup_atomic_sender_counter, per destination
  stats,      \* cumulative_local_expert_recv_stats
  buffer,     \* the symmetric buffer, per region and token slot
  stores,     \* stores and puts of tokens on their way
  counts,     \* puts of counts on their way
  handle,     \* what each call has left behind
  entered, left  \* barriers entered and left

hostVars    == <<call, polling, hostWords>>
notifyVars  == <<notify, counted, taken, reduction, inbox, stats, counts>>
tokenVars   == <<done, sender, buffer, stores>>
barrierVars == <<entered, left>>
vars == <<setup, call, polling, hostWords, kernels, stage, notify, counted, taken, done,
          reduction, inbox, sender, stats, buffer, stores, counts, handle, entered, left>>

B == INSTANCE Barrier WITH
  Members <- Ranks,
  Partners <- [r \in Ranks |-> Ranks \ {r}]

-----------------------------------------------------------------------------
(* Routing, and the helpers of the kernels.                                *)

RankOf(e)   == IF e >= 0 THEN e \div NumExpertsPerRank ELSE -1
LocalIdx(e) == e % NumExpertsPerRank

\* get_master_lane_idx: the highest lane.  Lanes count from 1 here: 0 is no lane.
MasterLane(lanes) == IF lanes = {} THEN 0 ELSE Max(lanes)

\* The lanes of a row that go to rank d, and for every rank the lane left by deduplicate.
LanesTo(row, d) == {l \in DOMAIN row : RankOf(row[l]) = d}
Dsts(row) == {RankOf(row[l]) : l \in DOMAIN row} \ {-1}
\* Faulty variant: every lane counts for itself.
EveryLane(row) == {l \in DOMAIN row : RankOf(row[l]) >= 0}

DedupLanes(row) == {MasterLane(LanesTo(row, d)) : d \in Dsts(row)}

Align(n)  == ((n + ExpertAlignment - 1) \div ExpertAlignment) * ExpertAlignment
Extend(f, x, v) == [y \in DOMAIN f \cup {x} |-> IF y = x THEN v ELSE f[y]]

\* encode_decode_positive: a stored count is never 0, which says that none is there.
Encode(n) == -n - 1
\* Faulty variant: a count of zero is not there.
IsReadyPositive(word) == Encode(word) > 0

IsReady(word) == Encode(word) >= 0

ZeroWords == [rank |-> [s \in Ranks |-> 0], expert |-> [s \in Ranks |-> [e \in LocalExperts |-> 0]]]
ZeroHost  == [rank |-> [s \in Ranks |-> 0], expert |-> [e \in LocalExperts |-> 0]]
ZeroReduction == [sms |-> 0, rank |-> [d \in Ranks |-> 0], expert |-> [e \in Experts |-> 0]]
NotTaken  == [n |-> -1, e |-> [x \in LocalExperts |-> 0]]

-----------------------------------------------------------------------------
(* The program, as rank r's host and stream see it.                        *)

Prog == setup.prog
Calls == DOMAIN Prog
CallOf(r) == kernels[r] \div 2 + 1      \* the call whose kernel is next or running
OnMain(r) == kernels[r] % 2 = 0         \* it is the first of its two kernels
Kind(r)   == Prog[CallOf(r)].kind
MainRuns(r, kinds) == stage[r] = "work" /\ OnMain(r) /\ Kind(r) \in kinds
EpilogueRuns(r, kinds) == stage[r] = "work" /\ ~OnMain(r) /\ Kind(r) \in kinds
AnyDispatch == {"dispatch", "cached"}

\* The dispatch that routed call k: itself, the one cached, or that of what it combines.
Source(k) == IF Prog[k].kind = "dispatch" THEN k ELSE Prog[k].of
Home(k)   == Source(Source(k))
Rows(k, r) == Prog[Home(k)].rows[r]
Expanded(k) == Prog[Home(k)].expand

\* Without CPU sync the host assumes the worst case; kernels take that value as a sign to
\* read the number on the device.
WorstCase == NumMaxTokensPerRank * NumRanks
NumRecv(r, k) == LET h == handle[r][Home(k)]
                 IN  IF h.num = WorstCase THEN h.psum[NumRanks - 1] ELSE h.num

\* What the warps of the kernel go through: tokens and their destinations for a
\* dispatch, received tokens for its epilogue and for combine, own tokens for the reduction.
Items(r) ==
  LET k == CallOf(r) IN
  CASE OnMain(r) /\ Kind(r) \in AnyDispatch ->
         UNION {{<<t, d>> : d \in Dsts(Rows(k, r)[t])} : t \in DOMAIN Rows(k, r)}
    [] ~OnMain(r) /\ Kind(r) = "combine" -> DOMAIN Rows(k, r)
    [] OTHER -> 0 .. NumRecv(r, k) - 1

\* The buffer is one piece of memory under the layouts of dispatch (sender, slot) and of
\* combine (rank or lane, token).
Regions == 0 .. Max({NumRanks, NumTopk}) - 1
Places  == Regions \X (0 .. NumMaxTokensPerRank - 1)

\* A token in the buffer.  On the way out: whose it is, with its row.  On the way back: the
\* sum, as the sequence of what was added up.
Token(k, src, t, row) == [call |-> k, src |-> src, tok |-> t, row |-> row, sum |-> <<>>]
Partial(k, sum) == [call |-> k, src |-> 0, tok |-> 0, row |-> <<>>, sum |-> sum]
NoToken == Partial(0, <<>>)

NoHandle == [num |-> 0, alloc |-> 0, slot |-> <<>>, psum |-> [s \in Ranks |-> 0],
             epsum |-> [e \in LocalExperts |-> 0], recv |-> <<>>, meta |-> <<>>, sums |-> <<>>]

Init ==
  /\ setup \in Setups
  /\ call = [r \in Ranks |-> 0]
  /\ polling = [r \in Ranks |-> FALSE]
  /\ hostWords = [r \in Ranks |-> ZeroHost]
  /\ kernels = [r \in Ranks |-> 0]
  /\ stage = [r \in Ranks |-> "idle"]
  /\ notify = [r \in Ranks |-> "done"]
  /\ counted = [r \in Ranks |-> {}]
  /\ taken = [r \in Ranks |-> [s \in Ranks |-> NotTaken]]
  /\ done = [r \in Ranks |-> {}]
  /\ reduction = [r \in Ranks |-> ZeroReduction]
  /\ inbox = [r \in Ranks |-> ZeroWords]
  /\ sender = [r \in Ranks |-> [d \in Ranks |-> 0]]
  /\ stats = [r \in Ranks |-> [e \in LocalExperts |-> 0]]
  /\ buffer = [r \in Ranks |-> [p \in Places |-> NoToken]]
  /\ stores = {}
  /\ counts = {}
  /\ handle = [r \in Ranks |-> [k \in Calls |-> NoHandle]]
  /\ B!Init

-----------------------------------------------------------------------------
(* The host.                                                               *)

WorstAlloc(expand) ==
  IF expand
  THEN Align(WorstCase * (IF NumTopk < NumExpertsPerRank THEN NumTopk ELSE NumExpertsPerRank)
             + (ExpertAlignment - 1) * NumExpertsPerRank)
  ELSE WorstCase

\* One call: clear the host workspace and launch.  Without CPU sync both kernels are
\* enqueued and the call returns; with it the epilogue waits for the number of tokens.
HostCall(r) ==
  LET k == call[r] + 1
      c == Prog[k]
  IN  /\ ~polling[r]
      /\ call[r] < Len(Prog)
      /\ call' = [call EXCEPT ![r] = k]
      /\ polling' = [polling EXCEPT ![r] = c.kind = "dispatch" /\ c.sync]
      /\ hostWords' = IF c.kind = "combine" THEN hostWords
                      ELSE [hostWords EXCEPT ![r] = ZeroHost]
      /\ handle' = CASE c.kind = "dispatch" /\ ~c.sync ->
                          [handle EXCEPT ![r][k].num = WorstCase,
                                         ![r][k].alloc = WorstAlloc(c.expand)]
                     [] c.kind = "cached" ->
                          [handle EXCEPT ![r][k].num = handle[r][c.of].num,
                                         ![r][k].alloc = handle[r][c.of].num]
                     [] OTHER -> handle
      /\ UNCHANGED <<setup, kernels, stage, notifyVars, tokenVars, barrierVars>>

\* The poll is over when every count is there: allocate and enqueue the epilogue.
HostPoll(r) ==
  LET k == call[r]
      w == hostWords[r]
      num == Sum([s \in Ranks |-> Encode(w.rank[s])], Ranks)
  IN  /\ polling[r]
      /\ \A s \in Ranks : IsReady(w.rank[s])
      /\ \A e \in LocalExperts : IsReady(w.expert[e])
      /\ polling' = [polling EXCEPT ![r] = FALSE]
      /\ handle' = [handle EXCEPT
           ![r][k].num = num,
           ![r][k].alloc = IF Prog[k].expand
                           THEN Sum([e \in LocalExperts |-> Encode(w.expert[e])], LocalExperts)
                           ELSE num]
      /\ UNCHANGED <<setup, call, hostWords, kernels, stage, notifyVars, tokenVars, barrierVars>>

Enqueued(r) == IF polling[r] THEN 2 * call[r] - 1 ELSE 2 * call[r]

-----------------------------------------------------------------------------
(* The first kernel: from barrier to barrier.                              *)

\* dispatch_deterministic_prologue: slots in the order of the tokens.
PrologueSlots(rows) ==
  [p \in UNION {{<<t, d>> : d \in Dsts(rows[t])} : t \in DOMAIN rows} |->
     Cardinality({t \in DOMAIN rows : t < p[1] /\ p[2] \in Dsts(rows[t])})]

\* The kernel starts (after its prologue) and enters the first barrier.
StartMain(r) ==
  LET k == CallOf(r)
  IN  /\ stage[r] = "idle" /\ OnMain(r)
      /\ kernels[r] < Enqueued(r)
      /\ B!Enter(r)
      /\ stage' = [stage EXCEPT ![r] = "enter"]
      /\ notify' = [notify EXCEPT ![r] = IF Kind(r) = "dispatch" THEN "count" ELSE "done"]
      /\ counted' = [counted EXCEPT ![r] = {}]
      /\ taken' = [taken EXCEPT ![r] = [s \in Ranks |-> NotTaken]]
      /\ done' = [done EXCEPT ![r] = {}]
      /\ handle' = IF Kind(r) = "dispatch" /\ setup.deterministic
                   THEN [handle EXCEPT ![r][k].slot = PrologueSlots(Rows(k, r))] ELSE handle
      /\ UNCHANGED <<setup, hostVars, kernels, reduction, inbox, stats, counts,
                     sender, buffer, stores>>

\* Faulty variant: the kernel does not wait in its first barrier.
PassEntryAtOnce(r) ==
  /\ stage[r] = "enter"
  /\ left' = [left EXCEPT ![r] = entered[r]]
  /\ stage' = [stage EXCEPT ![r] = "work"]
  /\ UNCHANGED <<setup, hostVars, kernels, notifyVars, tokenVars, handle, entered>>

\* Every rank has reached the call, so its buffer and its words may be written.
PassEntry(r) ==
  /\ stage[r] = "enter"
  /\ B!Leave(r)
  /\ stage' = [stage EXCEPT ![r] = "work"]
  /\ UNCHANGED <<setup, hostVars, kernels, notifyVars, tokenVars, handle>>

\* One SM adds what its tokens need to the reduction words, counting its arrival.
NotifyCount(r, sm) ==
  LET rows == Rows(CallOf(r), r)
      mine == {t \in DOMAIN rows : t % NumSMs = sm}
      ToRank(d) == Cardinality({t \in mine : d \in Dsts(rows[t])})
      ToExpert(e) == Cardinality({t \in mine : \E l \in DOMAIN rows[t] : rows[t][l] = e})
      old == reduction[r]
  IN  /\ MainRuns(r, {"dispatch"})
      /\ sm \in SMs \ counted[r]
      /\ reduction' = [reduction EXCEPT ![r] =
           [sms |-> old.sms + 1,
            rank |-> [d \in Ranks |-> old.rank[d] + ToRank(d)],
            expert |-> [e \in Experts |-> old.expert[e] + ToExpert(e)]]]
      /\ counted' = [counted EXCEPT ![r] = @ \cup {sm}]
      /\ UNCHANGED <<setup, hostVars, kernels, stage, notify, taken, inbox, stats, counts,
                     tokenVars, handle, barrierVars>>

\* The counts for each peer, encoded: its rank word, and the words of its experts.
CountPuts(r) ==
  {[from |-> r, to |-> d, call |-> CallOf(r), rank |-> Encode(reduction[r].rank[d]),
    expert |-> [e \in LocalExperts |-> Encode(reduction[r].expert[d * NumExpertsPerRank + e])]]
   : d \in Ranks}

\* Faulty variant: the reduction words are not cleaned for the next usage.
NotifySendKeepsWords(r) ==
  /\ MainRuns(r, {"dispatch"})
  /\ notify[r] = "count"
  /\ reduction[r].sms = NumSMs
  /\ counts' = counts \cup CountPuts(r)
  /\ notify' = [notify EXCEPT ![r] = "wait"]
  /\ UNCHANGED <<setup, hostVars, kernels, stage, counted, taken, reduction, inbox, stats,
                 tokenVars, handle, barrierVars>>

\* SM 0: all SMs have arrived; clean the words and tell every rank.
NotifySend(r) ==
  /\ MainRuns(r, {"dispatch"})
  /\ notify[r] = "count"
  /\ reduction[r].sms = NumSMs
  /\ reduction' = [reduction EXCEPT ![r] = ZeroReduction]
  /\ counts' = counts \cup CountPuts(r)
  /\ notify' = [notify EXCEPT ![r] = "wait"]
  /\ UNCHANGED <<setup, hostVars, kernels, stage, counted, taken, inbox, stats,
                 tokenVars, handle, barrierVars>>

LandCounts(m) ==
  /\ inbox' = [inbox EXCEPT ![m.to].rank[m.from] = m.rank, ![m.to].expert[m.from] = m.expert]
  /\ counts' = counts \ {m}
  /\ UNCHANGED <<setup, hostVars, kernels, stage, notify, counted, taken, reduction, stats,
                 tokenVars, handle, barrierVars>>

\* Faulty variant: the words are read but not reset.
NotifyTakeKeepsWords(r, s) ==
  /\ MainRuns(r, {"dispatch"})
  /\ notify[r] = "wait" /\ taken[r][s] = NotTaken
  /\ IsReady(inbox[r].rank[s]) /\ \A e \in LocalExperts : IsReady(inbox[r].expert[s][e])
  /\ taken' = [taken EXCEPT ![r][s] =
       [n |-> Encode(inbox[r].rank[s]),
        e |-> [e \in LocalExperts |-> Encode(inbox[r].expert[s][e])]]]
  /\ UNCHANGED <<setup, hostVars, kernels, stage, notify, counted, reduction, inbox, stats, counts,
                 tokenVars, handle, barrierVars>>

\* The counts of one sender are there: take them and reset the words.
NotifyTake(r, s) ==
  /\ MainRuns(r, {"dispatch"})
  /\ notify[r] = "wait"
  /\ taken[r][s] = NotTaken
  /\ IsReady(inbox[r].rank[s])
  /\ \A e \in LocalExperts : IsReady(inbox[r].expert[s][e])
  /\ taken' = [taken EXCEPT ![r][s] =
       [n |-> Encode(inbox[r].rank[s]),
        e |-> [e \in LocalExperts |-> Encode(inbox[r].expert[s][e])]]]
  /\ inbox' = [inbox EXCEPT ![r].rank[s] = 0, ![r].expert[s] = [e \in LocalExperts |-> 0]]
  /\ UNCHANGED <<setup, hostVars, kernels, stage, notify, counted, reduction, stats, counts,
                 tokenVars, handle, barrierVars>>

\* All counts are there: statistics, host workspace, prefix sums (inclusive over the ranks,
\* exclusive over the experts, whose counts are aligned).
NotifyFinish(r) ==
  LET k == CallOf(r)
      total == [e \in LocalExperts |-> Sum([s \in Ranks |-> taken[r][s].e[e]], Ranks)]
      aligned == [e \in LocalExperts |-> Align(total[e])]
      num == [s \in Ranks |-> taken[r][s].n]
  IN  /\ MainRuns(r, {"dispatch"})
      /\ notify[r] = "wait"
      /\ \A s \in Ranks : taken[r][s] # NotTaken
      /\ stats' = [stats EXCEPT ![r] = [e \in LocalExperts |-> @[e] + total[e]]]
      /\ hostWords' = IF Prog[k].sync
                      THEN [hostWords EXCEPT ![r] =
                              [rank |-> [s \in Ranks |-> Encode(num[s])],
                               expert |-> [e \in LocalExperts |-> Encode(aligned[e])]]]
                      ELSE hostWords
      /\ handle' = [handle EXCEPT
           ![r][k].psum = [s \in Ranks |-> Sum(num, 0 .. s)],
           ![r][k].epsum = [e \in LocalExperts |-> Sum(aligned, 0 .. e - 1)]]
      /\ notify' = [notify EXCEPT ![r] = "done"]
      /\ UNCHANGED <<setup, call, polling, kernels, stage, counted, taken, reduction, inbox,
                     counts, tokenVars, barrierVars>>

\* Sender-side: does the call use the slots that are already in its handle?
ReusesSlots(k) == setup.deterministic \/ Prog[k].kind = "cached"

\* Faulty variant: a cached dispatch draws new slots.
SendTokenFresh(r, t, d) ==
  LET k == CallOf(r)
      slot == IF setup.deterministic THEN handle[r][Home(k)].slot[<<t, d>>] ELSE sender[r][d]
  IN  /\ MainRuns(r, AnyDispatch) /\ <<t, d>> \in Items(r) \ done[r]
      /\ sender' = IF setup.deterministic THEN sender ELSE [sender EXCEPT ![r][d] = @ + 1]
      /\ stores' = stores \cup {[from |-> r, to |-> d, at |-> <<r, slot>>,
                                 token |-> Token(k, r, t, Rows(k, r)[t])]}
      /\ done' = [done EXCEPT ![r] = @ \cup {<<t, d>>}]
      /\ UNCHANGED <<setup, hostVars, kernels, stage, notifyVars, buffer, handle, barrierVars>>

\* A dispatch warp, for one token and one of its destinations: draw a slot there, or take
\* the one of the handle, and issue the store or the put.
SendToken(r, t, d) ==
  LET k == CallOf(r)
      reuse == ReusesSlots(k)
      slot == IF reuse THEN handle[r][Home(k)].slot[<<t, d>>] ELSE sender[r][d]
  IN  /\ MainRuns(r, AnyDispatch)
      /\ <<t, d>> \in Items(r) \ done[r]
      /\ IF reuse THEN UNCHANGED <<sender, handle>>
         ELSE /\ sender' = [sender EXCEPT ![r][d] = @ + 1]
              /\ handle' = [handle EXCEPT ![r][k].slot = Extend(@, <<t, d>>, slot)]
      /\ stores' = stores \cup {[from |-> r, to |-> d, at |-> <<r, slot>>,
                                 token |-> Token(k, r, t, Rows(k, r)[t])]}
      /\ done' = [done EXCEPT ![r] = @ \cup {<<t, d>>}]
      /\ UNCHANGED <<setup, hostVars, kernels, stage, notifyVars, buffer, barrierVars>>

\* Sums are joined in no particular order.
Joined(f) == FoldFunctionOnSet(LAMBDA x, y : x \o y, <<>>, f, DOMAIN f)

\* The experts of rank r in a row, one per lane.
LocalExpertsOf(row, r) == Joined([l \in LanesTo(row, r) |-> <<row[l]>>])

\* What the experts of rank r made of token x: each adds one term.
Terms(k, r, x, experts) == [j \in DOMAIN experts |-> <<k, r, x.src, x.tok, experts[j]>>]

\* The expert whose segment of the expanded tensor holds a place: segments begin where the
\* aligned prefix sum of the experts before ends.
SegmentStart(h, e) == IF e = 0 THEN 0 ELSE Align(h.epsum[e - 1])
SegmentOf(h, r, place) ==
  {r * NumExpertsPerRank + e : e \in {x \in LocalExperts : /\ SegmentStart(h, x) <= place
                                                           /\ place < h.epsum[x]}}

\* What is added up for received token i: the caller has reduced over its own experts, or
\* (expanded) one sum per lane of this rank, each from its own place.
SumOfLane(r, k, i, l) ==
  LET h == handle[r][Home(k)]
      place == h.meta[i].place[l]
      x == handle[r][Source(k)].recv[place]
      segment == SegmentOf(h, r, place)
  IN  Terms(k, r, x, IF segment = {} THEN <<>> ELSE <<CHOOSE e \in segment : TRUE>>)
ExpandedLanes(r, k, i) == LET p == handle[r][Home(k)].meta[i].place IN {l \in DOMAIN p : p[l] >= 0}
LocalSum(r, k, i) ==
  IF Expanded(k)
  THEN Joined([l \in ExpandedLanes(r, k, i) |-> SumOfLane(r, k, i, l)])
  ELSE LET x == handle[r][Source(k)].recv[i] IN Terms(k, r, x, LocalExpertsOf(x.row, r))

\* use_rank_layout: a region per rank, where there are no more ranks than lanes.
UseRankLayout == setup.multiple /\ NumRanks <= NumTopk

\* A combine warp, for one received token: send what its experts made of it to the rank
\* and the place of the source token that the handle names.
SendBack(r, i) ==
  LET k == CallOf(r)
      md == handle[r][Home(k)].meta[i]
      Put(region, sum) == [from |-> r, to |-> md.rank, at |-> <<region, md.tok - 1>>,
                           token |-> Partial(k, sum)]
  IN  /\ MainRuns(r, {"combine"})
      /\ i \in Items(r) \ done[r]
      /\ stores' = stores \cup
           (IF Expanded(k) /\ ~setup.multiple
            THEN {Put(l - 1, SumOfLane(r, k, i, l)) : l \in ExpandedLanes(r, k, i)}
            ELSE {Put(IF UseRankLayout THEN r ELSE md.lane - 1, LocalSum(r, k, i))})
      /\ done' = [done EXCEPT ![r] = @ \cup {i}]
      /\ UNCHANGED <<setup, hostVars, kernels, stage, notifyVars, sender, buffer, handle, barrierVars>>

LandStore(m) ==
  /\ buffer' = [buffer EXCEPT ![m.to][m.at] = m.token]
  /\ stores' = stores \ {m}
  /\ UNCHANGED <<setup, hostVars, kernels, stage, notifyVars, done, sender, handle, barrierVars>>

\* Faulty variant: the last barrier does not flush the puts.
ArriveUnflushed(r) ==
  /\ stage[r] = "work" /\ OnMain(r)
  /\ notify[r] = "done" /\ done[r] = Items(r)
  /\ B!Enter(r)
  /\ stage' = [stage EXCEPT ![r] = "leave"]
  /\ UNCHANGED <<setup, hostVars, kernels, notifyVars, tokenVars, handle>>

\* All warps are through: flush what is on its way, then enter the last barrier.
Arrive(r) ==
  /\ stage[r] = "work" /\ OnMain(r)
  /\ notify[r] = "done"
  /\ done[r] = Items(r)
  /\ \A m \in stores \cup counts : m.from # r
  /\ B!Enter(r)
  /\ stage' = [stage EXCEPT ![r] = "leave"]
  /\ UNCHANGED <<setup, hostVars, kernels, notifyVars, tokenVars, handle>>

\* Faulty variant: the sender counters stay for the next call.
EndMainKeepsSenders(r) ==
  /\ stage[r] = "leave"
  /\ B!Leave(r)
  /\ kernels' = [kernels EXCEPT ![r] = @ + 1]
  /\ stage' = [stage EXCEPT ![r] = "idle"]
  /\ UNCHANGED <<setup, hostVars, notifyVars, tokenVars, handle>>

\* Every rank has arrived: clean the counters if they were used, end the kernel.  The
\* epilogue is launched early but waits for this end.
EndMain(r) ==
  /\ stage[r] = "leave"
  /\ B!Leave(r)
  /\ sender' = IF Kind(r) \in AnyDispatch /\ ~ReusesSlots(CallOf(r))
               THEN [sender EXCEPT ![r] = [d \in Ranks |-> 0]] ELSE sender
  /\ kernels' = [kernels EXCEPT ![r] = @ + 1]
  /\ stage' = [stage EXCEPT ![r] = "idle"]
  /\ UNCHANGED <<setup, hostVars, notifyVars, done, buffer, stores, handle>>

-----------------------------------------------------------------------------
(* The second kernel.                                                      *)

StartEpilogue(r) ==
  /\ stage[r] = "idle" /\ ~OnMain(r)
  /\ kernels[r] < Enqueued(r)
  /\ stage' = [stage EXCEPT ![r] = "work"]
  /\ done' = [done EXCEPT ![r] = {}]
  /\ UNCHANGED <<setup, hostVars, kernels, notifyVars, sender, buffer, stores, handle, barrierVars>>

\* The i-th received token is in the region of the first rank whose prefix sum exceeds i.
InRegion(psum, i, s) == i < psum[s] /\ \A q \in 0 .. s - 1 : psum[q] <= i
RegionStart(psum, s) == IF s = 0 THEN 0 ELSE psum[s - 1]

\* dispatch_copy_epilogue, for one token: into the tensor in order, or (expanded) to a
\* place drawn for each lane of this rank from its expert's prefix sum.
CopyFrom(r, i, s) ==
  LET k == CallOf(r)
      x == buffer[r][<<s, i - RegionStart(handle[r][Home(k)].psum, s)>>]
      mine == LanesTo(x.row, r)
      epsum == handle[r][k].epsum
      place == [l \in DOMAIN x.row |-> IF l \in mine /\ Expanded(k)
                                       THEN epsum[LocalIdx(x.row[l])] ELSE -1]
      used == {LocalIdx(x.row[l]) : l \in mine}
      md == [tok |-> x.tok, rank |-> s, lane |-> MasterLane(mine), place |-> place]
      recv == handle[r][k].recv
  IN  handle' = [handle EXCEPT
        ![r][k].meta = Extend(@, i, md),
        ![r][k].recv = IF ~Expanded(k) THEN Extend(@, i, x)
                       ELSE [p \in DOMAIN recv \cup {place[l] : l \in mine} |->
                               IF \E l \in mine : place[l] = p THEN x ELSE recv[p]],
        ![r][k].epsum = IF ~Expanded(k) THEN @
                        ELSE [e \in LocalExperts |-> IF e \in used THEN @[e] + 1 ELSE @[e]]]

CopyToken(r, i) ==
  /\ EpilogueRuns(r, AnyDispatch)
  /\ i \in Items(r) \ done[r]
  /\ \E s \in Ranks : InRegion(handle[r][Home(CallOf(r))].psum, i, s) /\ CopyFrom(r, i, s)
  /\ done' = [done EXCEPT ![r] = @ \cup {i}]
  /\ UNCHANGED <<setup, hostVars, kernels, stage, notifyVars, sender, buffer, stores, barrierVars>>

\* combine_reduce_epilogue, for one of the rank's own tokens: add up what has come back,
\* once per destination rank or (expanded, not reduced before) once per lane.
ReduceToken(r, t) ==
  LET k == CallOf(r)
      row == Rows(k, r)[t]
      lanes == IF Expanded(k) /\ ~setup.multiple THEN {l \in DOMAIN row : row[l] >= 0}
               ELSE DedupLanes(row)
      Region(l) == IF UseRankLayout THEN RankOf(row[l]) ELSE l - 1
  IN  /\ EpilogueRuns(r, {"combine"})
      /\ t \in Items(r) \ done[r]
      /\ handle' = [handle EXCEPT ![r][k].sums =
           Extend(@, t, Joined([l \in lanes |-> buffer[r][<<Region(l), t - 1>>].sum]))]
      /\ done' = [done EXCEPT ![r] = @ \cup {t}]
      /\ UNCHANGED <<setup, hostVars, kernels, stage, notifyVars, sender, buffer, stores, barrierVars>>

EndEpilogue(r) ==
  /\ stage[r] = "work" /\ ~OnMain(r)
  /\ done[r] = Items(r)
  /\ kernels' = [kernels EXCEPT ![r] = @ + 1]
  /\ stage' = [stage EXCEPT ![r] = "idle"]
  /\ UNCHANGED <<setup, hostVars, notifyVars, tokenVars, handle, barrierVars>>

-----------------------------------------------------------------------------
Host(r) == HostCall(r) \/ HostPoll(r)
Notify(r) == \/ \E sm \in SMs : NotifyCount(r, sm)
             \/ NotifySend(r)
             \/ \E s \in Ranks : NotifyTake(r, s)
             \/ NotifyFinish(r)
Main(r) == \/ StartMain(r)
           \/ PassEntry(r)
           \/ \E p \in Items(r) : OnMain(r) /\ Kind(r) \in AnyDispatch /\ SendToken(r, p[1], p[2])
           \/ \E i \in Items(r) : SendBack(r, i)
           \/ Arrive(r)
           \/ EndMain(r)
Epilogue(r) == \/ StartEpilogue(r)
               \/ \E i \in Items(r) : CopyToken(r, i) \/ ReduceToken(r, i)
               \/ EndEpilogue(r)
Running(r) == kernels[r] < 2 * Len(Prog)

Next == \/ \E r \in Ranks : Host(r) \/ (Running(r) /\ (Notify(r) \/ Main(r) \/ Epilogue(r)))
        \/ \E m \in stores : LandStore(m)
        \/ \E m \in counts : LandCounts(m)

Spec == Init /\ [][Next]_vars

\* Some rank, host or message goes on while one of them can.
FairSpec == Spec /\ WF_vars(Next)

-----------------------------------------------------------------------------
\* A term is the call, the rank of its expert, the token's source and number, and the expert.
AllTerms == Nat \X Ranks \X Ranks \X Nat \X Experts
TokenSet == [call : Nat, src : Ranks, tok : Nat, row : Seq(Experts \cup {-1}), sum : Seq(AllTerms)]
StoreSet == [from : Ranks, to : Ranks, at : Places, token : TokenSet]
CountSet == [from : Ranks, to : Ranks, call : Calls, rank : Int, expert : [LocalExperts -> Int]]
MetaSet  == [tok : 1 .. NumMaxTokensPerRank, rank : Ranks, lane : Lanes, place : [Lanes -> Nat \cup {-1}]]

\* A call's handle: sizes and prefix sums, and for the items that warps are through with the
\* slots, the tokens of the tensor, their metadata and the sums.
HandleTyped(h) ==
  /\ DOMAIN h = DOMAIN NoHandle
  /\ {h.num, h.alloc} \subseteq Nat
  /\ h.psum \in [Ranks -> Nat] /\ h.epsum \in [LocalExperts -> Nat]
  /\ \A p \in DOMAIN h.slot : p \in Nat \X Ranks /\ h.slot[p] \in 0 .. NumMaxTokensPerRank - 1
  /\ \A i \in DOMAIN h.recv : i \in Nat /\ h.recv[i] \in TokenSet
  /\ \A i \in DOMAIN h.meta : i \in Nat /\ h.meta[i] \in MetaSet
  /\ \A t \in DOMAIN h.sums : t \in 1 .. NumMaxTokensPerRank /\ h.sums[t] \in Seq(AllTerms)

TypeOK ==
  /\ setup \in Setups
  /\ call \in [Ranks -> 0 .. Len(Prog)]
  /\ polling \in [Ranks -> BOOLEAN]
  /\ hostWords \in [Ranks -> [rank : [Ranks -> Int], expert : [LocalExperts -> Int]]]
  /\ kernels \in [Ranks -> 0 .. 2 * Len(Prog)]
  /\ stage \in [Ranks -> {"idle", "enter", "work", "leave"}]
  /\ notify \in [Ranks -> {"count", "wait", "done"}]
  /\ counted \in [Ranks -> SUBSET SMs]
  /\ taken \in [Ranks -> [Ranks -> [n : Int, e : [LocalExperts -> Nat]]]]
  /\ DOMAIN done = Ranks /\ \A r \in Ranks : stage[r] # "idle" => done[r] \subseteq Items(r)
  /\ reduction \in [Ranks -> [sms : 0 .. NumSMs, rank : [Ranks -> Nat], expert : [Experts -> Nat]]]
  /\ inbox \in [Ranks -> [rank : [Ranks -> Int], expert : [Ranks -> [LocalExperts -> Int]]]]
  /\ sender \in [Ranks -> [Ranks -> 0 .. NumMaxTokensPerRank]]
  /\ stats \in [Ranks -> [LocalExperts -> Nat]]
  /\ buffer \in [Ranks -> [Places -> TokenSet]]
  /\ stores \subseteq StoreSet
  /\ counts \subseteq CountSet
  /\ DOMAIN handle = Ranks /\ \A r \in Ranks : DOMAIN handle[r] = Calls
  /\ \A r \in Ranks : \A k \in Calls : HandleTyped(handle[r][k])
  /\ {entered, left} \subseteq [Ranks -> Nat]

-----------------------------------------------------------------------------
(* Properties. *)

Ended(r, k) == kernels[r] >= 2 * k
\* Tokens that call k routes to rank r, and to one of its experts.
RoutedTo(k, r) == {p \in Ranks \X (1 .. NumMaxTokensPerRank) :
                     p[2] \in DOMAIN Rows(k, p[1]) /\ r \in Dsts(Rows(k, p[1])[p[2]])}
RoutedToExpert(k, e) == {p \in RoutedTo(k, RankOf(e)) : \E l \in Lanes : Rows(k, p[1])[p[2]][l] = e}

\* A dispatch delivers exactly the tokens that were routed to the rank, each once, with its
\* row, from this very call, within the tensor that the host allocated; expanded, each
\* expert's copies fill its own segment.  Slots are drawn in any order by many warps, the
\* number of tokens comes by another way than the tokens, and every call reuses the buffer.
DispatchExact ==
  \A r \in Ranks : \A k \in Calls :
    Ended(r, k) /\ Prog[k].kind \in AnyDispatch =>
      LET h == handle[r][k]
          Tokens(places) == {<<h.recv[p].src, h.recv[p].tok>> : p \in places}
          Filled(e) == {p \in DOMAIN h.recv : e \in SegmentOf(h, r, p)}
      IN  /\ DOMAIN h.recv \subseteq 0 .. h.alloc - 1
          /\ \A p \in DOMAIN h.recv :
               LET src == h.recv[p].src
                   t   == h.recv[p].tok
               IN  t \in DOMAIN Rows(k, src) /\ h.recv[p] = Token(k, src, t, Rows(k, src)[t])
          /\ IF Expanded(k)
             THEN \A x \in LocalExperts :
                    LET e == r * NumExpertsPerRank + x
                    IN  /\ Tokens(Filled(e)) = RoutedToExpert(k, e)
                        /\ Cardinality(Filled(e)) = Cardinality(RoutedToExpert(k, e))
             ELSE /\ Tokens(DOMAIN h.recv) = RoutedTo(k, r)
                  /\ DOMAIN h.recv = 0 .. Cardinality(RoutedTo(k, r)) - 1

\* A cached dispatch receives its tokens in the order of the first one, although ranks and
\* warps run in another order now: the caller uses what it knows of the first.
CachedKeepsOrder ==
  \A r \in Ranks : \A k \in Calls :
    Ended(r, k) /\ Prog[k].kind = "cached" =>
      \A i \in DOMAIN handle[r][k].recv :
        /\ handle[r][k].recv[i].tok = handle[r][Prog[k].of].meta[i].tok
        /\ handle[r][k].recv[i].src = handle[r][Prog[k].of].meta[i].rank

\* combine returns, for every token, the sum of what each of its experts made of it in this
\* call, every term once, whichever rank or lane it came back by.
CombineExact ==
  \A r \in Ranks : \A k \in Calls :
    Ended(r, k) /\ Prog[k].kind = "combine" =>
      \A t \in DOMAIN Rows(k, r) :
        LET row == Rows(k, r)[t]
            experts == {row[l] : l \in DOMAIN row} \ {-1}
            sum == handle[r][k].sums[t]
        IN  /\ {sum[j] : j \in DOMAIN sum} = {<<k, RankOf(e), r, t, e>> : e \in experts}
            /\ Len(sum) = Cardinality(experts)

\* The numbers that a dispatch announces ahead of its tokens are right, on the host (if it
\* polls) and on the device, call after call through the same words.
CountsExact ==
  \A r \in Ranks : \A k \in Calls :
    Prog[k].kind = "dispatch" =>
      LET h == handle[r][k]
          From(S) == Cardinality({p \in RoutedTo(k, r) : p[1] \in S})
      IN  /\ Prog[k].sync /\ (call[r] > k \/ (call[r] = k /\ ~polling[r])) => h.num = From(Ranks)
          /\ kernels[r] >= 2 * k - 1 => \A s \in Ranks : h.psum[s] = From(0 .. s)

\* Nobody writes to the buffer or the words of a rank that is not inside the same call's
\* first kernel: whatever is on its way has found its receiver past the call before, and
\* arrives before the receiver goes on.
PutsOwned ==
  \A m \in stores \cup counts :
    /\ stage[m.to] \in {"enter", "work", "leave"} /\ OnMain(m.to)
    /\ CallOf(m.to) = IF m \in stores THEN m.token.call ELSE m.call

\* Between two kernels a rank's words and counters are back to zero.
WordsClean ==
  \A r \in Ranks : stage[r] = "idle" =>
    /\ reduction[r] = ZeroReduction
    /\ inbox[r] = ZeroWords
    /\ sender[r] = [d \in Ranks |-> 0]

\* Every program ends: all calls return and all kernels finish.
ProgramEnds == <>(\A r \in Ranks : ~polling[r] /\ kernels[r] = 2 * Len(Prog))

-----------------------------------------------------------------------------
(***************************************************************************)
(* The inductive invariant behind PutsOwned: where a rank is in its two    *)
(* kernels tells how many barriers it has been through.                    *)
(***************************************************************************)

HandleFields == {"num", "alloc", "slot", "psum", "epsum", "recv", "meta", "sums"}

CountTypes ==
  /\ setup \in Setups
  /\ DOMAIN handle = Ranks /\ DOMAIN done = Ranks
  /\ \A r \in Ranks : DOMAIN handle[r] = Calls /\ \A k \in Calls : DOMAIN handle[r][k] = HandleFields
  /\ call \in [Ranks -> Nat] /\ polling \in [Ranks -> BOOLEAN]
  /\ kernels \in [Ranks -> Nat]
  /\ stage \in [Ranks -> {"idle", "enter", "work", "leave"}]
  /\ entered \in [Ranks -> Nat] /\ left \in [Ranks -> Nat]

\* The host's calls are those of the program, and the stream runs what is enqueued.
Ahead(r) ==
  /\ call[r] <= Len(Prog)
  /\ polling[r] => call[r] >= 1
  /\ kernels[r] <= Enqueued(r)
  /\ stage[r] # "idle" => kernels[r] < Enqueued(r)

\* Two barriers per call, both in its first kernel.
EnteredBy(r) == CASE ~OnMain(r) -> kernels[r] + 1
                  [] OnMain(r) /\ stage[r] = "idle" -> kernels[r]
                  [] OnMain(r) /\ stage[r] \in {"enter", "work"} -> kernels[r] + 1
                  [] OTHER -> kernels[r] + 2
LeftBy(r) == IF OnMain(r) /\ stage[r] \in {"idle", "enter"} THEN kernels[r] ELSE kernels[r] + 1
InStep(r) ==
  /\ entered[r] = EnteredBy(r)
  /\ left[r] = LeftBy(r)
  /\ ~OnMain(r) => stage[r] \in {"idle", "work"}
  /\ \A q \in Ranks : left[r] <= entered[q]

\* What is on its way was issued by a rank that still works in its first kernel.
Issued(m, k) ==
  /\ m.from \in Ranks /\ m.to \in Ranks
  /\ stage[m.from] = "work" /\ OnMain(m.from)
  /\ k = CallOf(m.from)

\* The epilogue of a dispatch leaves the source rank of every token it received.
SourcesKept(r, k) ==
  LET h == handle[r][k]
  IN  /\ \A i \in DOMAIN h.meta : h.meta[i].rank \in Ranks
      /\ kernels[r] = 2 * k - 1 /\ stage[r] = "work" => done[r] \subseteq DOMAIN h.meta
      /\ kernels[r] >= 2 * k => 0 .. NumRecv(r, k) - 1 \subseteq DOMAIN h.meta

IInv ==
  /\ CountTypes
  /\ \A r \in Ranks : Ahead(r) /\ InStep(r)
  /\ \A m \in stores : Issued(m, m.token.call)
  /\ \A m \in counts : Issued(m, m.call)
  /\ \A r \in Ranks : \A k \in Calls : Prog[k].kind = "dispatch" => SourcesKept(r, k)

=============================================================================
