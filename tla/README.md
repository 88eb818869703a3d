# DeepEP in TLA+

DeepEP is a communication library for mixture-of-experts training and inference
on GPUs. A host class (`ElasticBuffer`, `src/csrc/elastic/buffer.hpp`) owns one
symmetric buffer and one small workspace per rank and enqueues CUDA kernels on
streams; the kernels (`src/deep_ep/include/deep_ep/impls/`) write straight into
each other's memory over NVLink or with NCCL Gin puts. Beside it the repository
keeps the legacy `Buffer` (`src/csrc/legacy/buffer.hpp`) with kernels of its own
(`src/csrc/kernels/legacy/`). Almost nothing is ever
acknowledged: correctness rests on signal words that are reused without a
reset, counters kept on both sides, barriers at the ends of kernels, and the
order of operations on a stream. That is what these modules are about.

## 1. Inventory

| Part | State | Operations | Interacts by | What makes it correct |
|---|---|---|---|---|
| Pipeline send/recv (`pp_send_recv.cuh`, `buffer.hpp:313-403`) | send/recv/release counters on the device, a receive count per side on the host, ring slots, staging slots, four Gin signals | `pp_set_config`, `pp_send`, `pp_recv`, `pp_recv_buffer`, `pp_release_recv` | payload stores or puts, data and release signals between neighbours | every link a bounded FIFO channel; lent views and staged puts stay intact |
| Scale-up barrier (`comm.cuh:88-206`) | NVLink: counter, two signal words; Gin: signals, shadows | one barrier | atomic adds, signals, flush of all queue pairs | nobody leaves before all entered; data before it is visible; nobody waits for ever |
| GPU barrier (`comm.cuh:208-264`, `barrier.cuh`) | as above, twice | barrier of the node and of the rail in parallel, on two SMs | as above | a barrier with node and rail; two in a row, with everybody |
| Engram (`engram_fetch*.cuh`, `buffer.hpp:228-311`) | tables in (shared) host memory, one outstanding fetch | `engram_write`, `engram_fetch`, its hook | RDMA gets, barriers | a fetch returns the table written last, whole |
| All-gather sessions (`buffer.hpp:405-552`, `cuda_driver.cu`) | session and slot index, signal words holding session numbers, two streams | create and destroy session, in-place tensor, all-gather, handle | copies, stream memory operations, events | gathered tensors exact while read; streams drain |
| Direct dispatch and combine (`dispatch*.cuh`, `combine*.cuh`, `buffer.hpp:739-1410`) | symmetric buffer, reduction words, count words per sender, sender counters, host count words, handles | `dispatch` (plain, cached, expanded, deterministic, with or without CPU sync), `combine` | token and count stores, barriers, host polling, handles | tokens, counts and sums exact, call after call in one buffer |
| Hybrid dispatch and combine (`hybrid_dispatch.cuh`, `hybrid_combine.cuh`) | per channel and peer: slots, a count, a tail word, a finish flag; counters of the forward warps; lists and metadata in the handle | the same calls over two levels: put along the rail, forward on the node, and back | scale-out puts in order, tail words, a barrier of the whole grid before and one of the node alone behind | as direct; a warp never takes a slot before it has landed, a cached call puts every token where the handle says |
| Legacy intranode (`legacy/intranode.cu`) | per channel and sender a queue in the receiver's memory (head, tail, start, end); counting barrier words; prefix matrices and send heads in the handle | dispatch, cached dispatch, combine, each with a notify kernel | stores into mapped memory, host polling | queues never overrun though dispatch and combine lay the same bytes out differently; the counting words are a barrier |
| Legacy low latency (`legacy/internode_ll.cu`) | two buffers used in turn, signaling words per expert and rank, mask of failed ranks, sync words | dispatch, combine, cleaning; each in a send and a receive half | puts and atomics per queue pair, nothing else: no barrier between calls | a signal meets a clean word; what is received is whole; a failed rank costs only what it owed |
| Legacy internode (`legacy/internode.cu`) | queues over RDMA and NVLink | dispatch, combine | NVSHMEM puts, tails, heads | as hybrid |
| JIT compiler and cache | cache directory, in-memory map | compile, load, launch | files shared by processes | a reader never sees half a kernel |
| Layouts, NCCL context, Python layer, helpers | - | arithmetic, allocation, argument checks | - | regions disjoint |

The behaviours that are hard to test are listed with their lines in
`PROJECT.json` under `hazards`: interleavings of SMs, warps, hosts and ranks;
words and slots reused without a reset; puts and signals that overtake each
other; blocked streams that block each other; ranks one call ahead of others;
and sequences of legal calls that the counters were not made for.

## 2. Modules

    PPChannel <-- PPRing --> PPSchedule, PPMisuse          (pipeline)
                   ^-- PPRing_proofs
    BarrierTeam --> NVLBarrier, GinBarrier --> ScaleupBarrier   (one domain)
                       all three implement --> Barrier
                   ^-- ScaleupBarrier_proofs
    Barrier --> GpuBarrier --> Engram                       (a grid of ranks)
                   ^-- Engram_proofs (of both)
    Barrier --> EPDirect <-- FiniteSums                     (dispatch, combine)
                   ^-- EPDirect_proofs <-- EPDirect_tensors_proofs
    FiniteSums --> EPHybrid                                 (the same over two levels)
    AGRS                                                    (all-gathers)
                   ^-- AGRS_proofs
    Barrier, FiniteSums <-- LegacyIntranode                 (legacy, one node)
                   ^-- LegacyIntranode_inv <-- LegacyIntranode_proofs
    LegacyLowLatency                                        (legacy, low latency)
                   ^-- LegacyLowLatency_proofs

`MC*` modules hold the values of constants that a .cfg cannot write. An
operator with a comment "Faulty variant" is a plausible bug of the code: put in
the place of the definition it stands before, it makes a property fail
(`mutants` in `PROJECT.json`). No specification uses one.

**PPRing** - one action per host call and per half of a kernel. `LaunchX` is the
host call with the start of the kernel (its counters read); `SendCopy` and
`RecvCopy` are one SM's wait and its share of the copy; `XFinish` is what the
first SM does behind the grid synchronisation; `PutLands`, `DataSignal`,
`ReleaseSignal` are the network. The pipeline's tensor is a function from SMs
to shares, so a torn tensor can be seen. NVLink stores go straight to the
receiver's slot; puts go through a staging slot that is read when the put lands,
and payload and signals travel separately. A kernel holds its stream, so a rank
is in one kernel at a time. `pp_set_config` is split at its barriers.

**PPSchedule** adds the host's queue: the host only enqueues, a blocked kernel
blocks all behind it. Programs are those of one global timeline, as in
`src/tests/elastic/test_pp.py:13-82`. **PPMisuse** adds two callers the
interface permits. **PPChannel** is the promise: a bounded FIFO whose messages
are read in place and given back in order.

**Barrier** is what a barrier promises: per rank, barriers entered and left.
**NVLBarrier** has the counter whose two low bits choose word and direction,
every atomic add a step, and the poll for equality. **GinBarrier** has signals
and shadows per peer, signals and puts in flight unordered, and the flush.
**ScaleupBarrier** chooses one for ever. **GpuBarrier** runs two abstract
barriers in parallel, one per SM of the kernel.

**Engram** puts `engram_write`'s steps between the two barrier kernels of
GpuBarrier. A copy is two steps, so that a torn table can be read; a get reads
at any time between the fetch kernel and the hook. The place of an entry is
computed twice as in the code, by the writer (node, place) and by the reader
(division by the ranks per peer).

**AGRS** has both streams as queues with events (an event is a position in the
other queue), copies and signal words one by one, and session numbers in the
words.

**EPDirect** - every rank runs the same program of calls, its host and its
stream asynchronous to each other and to the other ranks.
- Host: `HostCall` clears the host words and launches; `HostPoll` is the end of
  the CPU sync; `Enqueued` says which kernels are on the stream.
- Notify warps: `NotifyCount` (an SM adds into the reduction words and counts
  its arrival in the same word), `NotifySend` (SM 0 sees all, cleans, tells the
  peers), `NotifyTake` (the words of one sender), `NotifyFinish`.
- Dispatch warps: `SendToken`, any token and destination in any order, drawing a
  slot. Combine warps: `SendBack`. Both issue stores that land when they like
  (`LandStore`); count words likewise (`LandCounts`, one message per sender: the
  receiver takes nothing until all of them are there).
- `Arrive` / `EndMain`: flush, last barrier, reset of the sender counters.
- Epilogues: `CopyToken` and `ReduceToken`, any order, drawing places of
  expanded tensors.
- A token's value is its identity and its row; what combine sends is the
  sequence of terms (expert's output for that token in that call), so that a
  missing, doubled or stale term shows.

Abstracted: hidden data, scaling factors, weights, bias and floating point; the
RDMA send buffer (a put reads it before the flush ends); the position of a
token within a warp. A cached call takes the handle of a dispatch that is not
expanded, as in `test_ep.py:157-162`. This is a restriction of the model:
`buffer.hpp:1089` asserts only that the cached call itself is not expanded.

**EPHybrid** - a grid of nodes and places; rail peers have the same place.
- `StartMain` and `PassEntry` are the barriers at the kernel's start and what its
  warps do before they wait for anything: a dispatch puts its counts on the rail
  and issues its tokens. The host's polling is as in EPDirect and not repeated.
- Dispatch: tokens of a channel go into the slots of its rail peers, with a tail
  update now and then; tails of the own node are visible at once. `Land` lands the
  next update of a channel and before it, in the same queue pair, the puts it
  tells of, whose send buffer is read only then. `Forward` takes a chunk that the
  tail covers, hands it to the node's ranks and writes the metadata combine goes
  back by. `Notify` adds up the counts of the rail and passes them on in the node.
  `EndWork` and `EndDispatch` are the end of the warps, the node's barrier, and the
  copy epilogue, which runs behind it on the same stream.
- Combine: `SendBack` fills the node-level slots; a forward warp adds them up or
  passes them on (`Return`) in the order of the metadata, counting only how many
  have come from each peer; `EndReturn` and `EndCombine` are the last signals, the
  wait for them (there is no barrier at the end) and the reduction.
- Sums are sequences of terms, as in EPDirect. A put's source is read when it
  lands, or at the flush at the latest. `UpdateInterval` plays the role of
  `kScaleoutUpdateInterval`, `kNumSlotsPerForwardChunk` and
  `kNumScaleupUpdateInterval`: how many tokens go between two updates.

**LegacyIntranode** - memory is a function of addresses, because dispatch and
combine overlay one another: combine's words lie where dispatch has its matrix.
- Host: `HostRun` resets the counters and launches up to the next call whose
  counts it has to wait for, ahead of the stream.
- Notify: `StartNotify`, `PassBarrier`, `WriteCounts`, `Collect` (matrix, counters,
  zeroed words), `Clean` (the cached forms). `Arrive` adds to the own row of
  words and takes from the own column of all peers.
- Dispatch: `SendChunk` waits for room and fills slots, `ReleaseTail` shows them,
  `ReadOffsets`, `CopyChunk`, `MoveHead` are the receiver. Combine: `SendBack`, then
  `Reduce` for each warp of the receiver and `Update` for the warp that stores the
  smallest of their heads.
- `RoomAssumption`: combine needs `recv >= send + (num_recv_warps - 1) - 1`, for the
  heads of its warps trail; `config.hpp:42` asserts only `send < recv`.
  `OneModeAssumption`: a dispatch with worst-case receive and one with CPU sync
  share the host's counters (`legacy/buffer.hpp:544-546, 573-597`), and late counts
  of the first would pass for those of the second; programs use one mode. The safety theorems rest on
  `OneModeAssumption` and need no `RoomAssumption`: only progress does (`CallsEnd`).

**LegacyLowLatency** - ranks run a program of calls with nothing between them
but the words. `SendTokens` and `SendBack` are the send halves with their puts,
`CleanNext` zeroes the other buffer's words, `Signal` sends an expert's count or
flag, `Receive` and `ReceiveFlags` take the words (or give up on a rank that has
failed, and mask it), `Reduce` adds up. `StartClean`, `Meet`, `ZeroBoth` are the
cleaning kernel with its two barriers. `Land` is the network, in order on a queue
pair; `Fail` stops a rank at any point, what it has posted still landing or not.

## 3. Runs

| Run | Instance | Shows |
|---|---|---|
| `pp_ring` | 3 ranks, 2 SMs, 2 slots; rank 1 has two senders, rank 0 by puts (3 messages through the 2 slots) and rank 2 over NVLink (1 message; `OnTraffic`, `Quota`) | `CopyExact`, `ViewIntact`, `StagingIntact`, `ImplementsChannel` |
| `pp_schedule` | 2 ranks, 1 slot, 2 messages each way, every program of the timeline | `StreamsDrain` |
| `pp_mixed`, `pp_reconfigure` | 2 ranks, 2 slots | *violated*: findings 1 and 2 |
| `scaleup_barrier` | 2 ranks, 6 barriers, either form | `ImplementsBarrier`, `PutsVisible`, `NobodyStuck` |
| `engram_hybrid` | 2 nodes of 2 ranks, 2 writes each, one rank's fetches | `PartnerFetchExact`, `TwoBarriersReachAll`, `ImplementsPartnerBarrier`, `WritesReturn` |
| `engram_all` | the same | *violated*: finding 3 |
| `agrs` | 2 ranks, sessions of 2, 0 and 1 all-gathers | `GatheredExact`, `NoSignalAhead`, `ProgramEnds` |
| `ep_direct` | 2 ranks, 4 experts, top-2, up to 2 tokens, 2 SMs, 3 programs of up to 4 calls | `DispatchExact`, `CachedKeepsOrder`, `CombineExact`, `CountsExact`, `PutsOwned`, `WordsClean`, `ProgramEnds` |
| `ep_hybrid` | 2 nodes: `Reducing` and `Expanding` with 2 places, `Training` with 2 channels on one rail, up to 4 calls | `DispatchExact`, `CombineExact`, `ProgramEnds` |
| `legacy_intranode` | 2 ranks, 4 experts, 4 programs: `Layer`, `Chunks`, `Wide`, `Graph` | `DispatchExact`, `CombineExact`, `BarrierSpec`, `CallsEnd` |
| `legacy_low_latency` | 2 ranks: `Layers`, `Overlaid`, `Cleaned`, `Halves`; 3 ranks: `Three` | `DispatchExact`, `CombineExact`, `SignalsMeetZero`, `CallsEnd` |

Most runs check their module's `TypeOK` as well; the inductive invariants are not
in the runs but proved.

Why the bounds suffice. *Ring*: three ranks tell the two neighbours apart (two
would not), three messages through two slots reuse a slot, two SMs can be at
different points. *Schedule*: one slot is the tightest ring; with two ranks both
directions share counters. *NVLink words*: four barriers are a full cycle of
word and direction, six enter the second cycle. *Engram*: 2 x 2 has a rank on
neither node nor rail; four barriers are two writes. *AGRS*: the empty session
lets a peer be a session ahead of the number waited for. *EPDirect*: the routings
have tokens for both ranks, twice for one rank, and for none; the alignment of
two makes experts' segments have gaps; the three programs cover with/without CPU
sync, expanded, deterministic, cached, reduction before sending, and the rank
and lane layouts of combine; four calls reuse every word. *EPHybrid*: the
routings have tokens for both nodes, both places of a node, two experts of one
rank, and for their own rank only; `Expanding` combines one dispatch after another
has run in the same buffer; `Training` has two channels whose warps race, and
dispatches again by the handle. *LegacyIntranode*: `Layer` sends three tokens through a
queue of two slots, `Chunks` rounds of two of which the last is half full, `Wide`
has two channels of different length, and `Graph` runs without CPU sync and
combines twice by one handle, whose heads the first combine rewrote.
*LegacyLowLatency*: four calls use each of the two buffers twice; `Overlaid` has two
dispatches outstanding; `Cleaned` starts from dirty words; in `Halves` and `Three` a
rank stops at any point, with two experts on a rank, and with a third rank that
must not notice. Named bounds
(`MaxMsgs`, `MaxConfigs`, `MaxBarriers`, `MaxWrites`, `Setups`, `Gathers`) end
the behaviours, which is why the configurations do not ask for deadlock; that
nobody is stuck before that is what `StreamsDrain`, `NobodyStuck`,
`WritesReturn` and `ProgramEnds` say.

Fairness. A kernel that has been launched is run by the hardware (launches are
cooperative where a grid synchronises, `launch_dispatch`), and NVLink and NCCL
deliver: weak fairness of kernel and network steps. Hosts are assumed to go
through their programs. Where all behaviours are finite (`PPSchedule`, `AGRS`,
`EPDirect`, `EPHybrid`, `LegacyIntranode`), weak fairness of the whole next-state
relation is enough and is all that is assumed; `LegacyLowLatency` asks it of `Work`,
what the ranks that have not failed and the network do, never of `Fail`. In `Engram` fetches may go on for ever; strong fairness of
`WriteAfterHook` says that a caller does not fetch for ever while its peers wait
in a write, as the collective call demands. Time-outs (`comm.cuh:31-54`, and the
host's at `buffer.hpp:1138`) end the process and are not modelled; the one
time-out the code goes on from, that of the low-latency kernels, is taken only
against a rank that has failed.

## 4. Proofs

For every number of ranks, SMs, slots and every bound (`theorems` in
`PROJECT.json`):

- **PPRing_proofs**: `Spec => []IInv`, and from it `TypeOK`, `CopyExact`,
  `ViewIntact`, `StagingIntact`. The three properties are not inductive: they say
  nothing of messages that have landed and are not being read. `IInv` adds, per
  link, conservation of messages (`Flow`: sent = signalled + landed + on the
  wire, sender at most `Inflight` ahead of the frees it knows of), that views are
  exactly the messages taken and not freed with the host's count ahead by the
  receive under way (`Holding`), that everything landed and not freed is in its
  slot (`LandedIntact`), that what is staged and not landed is in its staging
  slot, and that half-done copies are right so far. The argument is arithmetic
  on slots: two live messages of a link differ by less than `Inflight`, hence
  are in different slots (`SlotsApart`); two links never share a region
  (`LinksApart`). One lemma per action; `LinkFrame` disposes of the other links.
  `ChannelRefinement`, `Spec => ImplementsChannel`: by `IInv` what lies in the slots is
  the messages from `Freed + 1` to `Sent` themselves (`TransitIsWindow`), so the
  channel's state is a function of three numbers per link, and a step of the ring
  moves these numbers of one link on by one send, one take, one free or both
  (`LinkMoves`), or of none: a signal that becomes visible is a stutter.
- **ScaleupBarrier_proofs**: `NVLInvariance`: a signal word equals the number of
  ranks whose share of it is raised, a share being a function of the turns taken
  modulo 4. A rank's turns differ from another's barriers left by at most one, so the
  word equals the target exactly if all have added (`TargetMeansAll`).
  `GinInvariance`: signals delivered plus in flight = barriers signalled; shadow =
  barriers seen; with the flush, puts of an epoch are gone once the rank is inside the
  barrier. Hence both forms implement `Barrier`, data is published, types. `Barrier`
  is then what `GpuBarrier` and `EPDirect` are built on.
- **Engram_proofs**: first, on any grid, the pair of barriers of `GpuBarrier`
  implements a barrier with node and rail, and two in a row reach all (`Quotient`,
  `CrossingRank`: every two ranks have a rank on the node of one and the rail of the
  other). On it rests Engram: `Spec => []EngramIInv`, and from it `PartnerFetchExact`, on any
  grid, with shared segments or puts. How many barriers a rank has left tells which
  `engram_write` it is in and on which side of the copy (`InStep`: two per write, so
  it is a matter of parity), hence which table lies in its segment (`TableInPlace`).
  A rank that may fetch is between two writes; a partner is then at most in the first
  barrier of the next one, and its table is in place (`OwnerReady`). Tables of
  different ranks lie in different places. On a grid of one node, or of nodes of one rank,
  every owner is a partner and `FetchExact` holds in full
  (`FetchCorrectOnOneLevel`): what run `engram_all` violates needs two levels.
- **AGRS_proofs**: `AnySpec => []IInv`, and from it `TypeOK`, `GatheredExact` and
  `NoSignalAhead`, for any number of ranks and streams' operations and any program of
  sessions. The operations of a host are counted, and an invariant relates the number
  a stream is at to what lies in words and slots. The argument is one of knowledge: a
  rank that has an operation of session s under way has heard every peer close session
  s - 1 (`Heard`), and a rank that still reads in s has told nobody that s is closed
  (`SessionsClosed`), so nobody is ahead of a reader. That a fill does not overtake the
  copies that read its slot, nor a copy the kernel that fills it, rests on the events
  between the two streams (`FillWaitedFor`, `UseWaitedFor`, `ReadersToCome`). `AnySpec`
  is the model without the order "hosts first" that `Spec` uses to keep TLC's state
  space small: safety holds in every interleaving, so nothing is lost by that order.
- **EPDirect_proofs**: `Spec => []IInv`, and from it `PutsOwned`, for any number
  of ranks, experts, tokens and calls. `PutsOwned` says nothing of a rank with no
  message on its way, so it is not inductive. `IInv` adds that where a rank is in
  its two kernels tells how many barriers it has entered and left (`InStep`), that
  nobody has left more than anybody has entered, and that whatever is on its way
  was issued by a rank still at work in the first kernel of that call (`Issued`:
  the flush in `Arrive`). A sender at work has left the first barrier of its call
  and not entered the last one, so its receiver has entered the one and not left
  the other (`OwnedFromInv`). That combine's receiver is a rank at all needs the
  history of the handle: an ended copy epilogue has noted the source of each token
  (`SourcesKept`). Frames (`MainStep`, `KernelStep`) leave each action only what
  it changes. On `IInv` rest three more parts.
  *Words and slots* (`CountsInOnePlace`, `WordsBackToZero`): the counts a sender owes
  a receiver are not yet given, on their way, in the receiver's word, or taken, and
  in one of these places only (`WordsInv`), so a word at rest is zero, call after
  call; the slots drawn from a sender's counter are those below it and none is drawn
  twice (`SInv`), so two tokens of a call never lie in one place.
  *Numbers* (`NumbersInPlace`, `NumbersExact`): whatever the host or an epilogue
  reads as the number of tokens of a source or an expert is the number of tokens
  routed there. What a notify warp adds up is a sum over the senders' words, and a
  sum of sizes of disjoint sets is the size of their union (`ReceivedSums`,
  `ExpertSums`). The host's poll cannot end on the numbers of an earlier call, as its
  words are cleared at the call's start and written once behind the exchange
  (`PollInv`); a cached call takes its numbers from the handle of a call with the
  same routing (`CachedCall`).
  *Tokens* (`TokensInPlace`): what a warp has sent is on its way, or in its own
  place of the receiver's buffer, for as long as the receiver is in the call (`TInv`).
  Two tokens of a sender have two slots, two senders two regions, and by `PutsOwned`
  nothing of another call lands; the flush before the last barrier leaves nothing on
  its way when the copy epilogue starts (`AllLanded`).
  The module begins with the laws of sums over finite sets that these need
  (`SumAdd`, `SumCong`, `SumNat`, `SumBound`, `SumOfSizes`). The library's induction
  theorems take an operator as a parameter; here induction is stated of a *set* of
  numbers or of finite sets (`Induction`, `FiniteInduction`) and proved from the least
  number of a non-empty set (`LeastNumber`).
- **EPDirect_tensors_proofs**: what the epilogues make of these tokens, and combine.
  *Tensors* (`TensorsInPlace`, `DispatchDelivers`, `CachedInOrder`): item i of an
  epilogue lies in the region of the sender whose prefix sum it falls under. The slots
  of a sender are as many as its tokens, hence each item is one token (`ItemFound`,
  `ItemUnique`) and each token one item (`ItemOfToken`), which is all of
  `DispatchExact` when nothing is expanded. Expanded, an expert's segment is filled from its
  beginning with one place per item (`FillMore`), has room for one more as long as
  an item is missing (`RoomFor`), and ends before the next begins
  (`SegmentsApart`); that the beginnings can be recomputed from the ends, as combine
  does, needs that they are multiples of the alignment (`StartMultiple`,
  `AlignBehind`). The tensor is large enough although the host may not have waited:
  a token goes to no more experts of a rank than it has lanes or the rank has experts
  (`RoutedBounds`, by counting pairs of token and expert twice), and aligning costs less than
  one alignment per expert (`WorstIsEnough`). A cached call's items are those of
  the call before, because its slots are (`HomeItem`).
  *Combine* (`SumsInPlace`, `CombineReturns`): what the copy epilogue notes of an item
  is where its token came from, which lane is the rank's first and in which places
  its copies lie (`LInv`). A rank therefore sends back, of each token it received,
  one term for each of its experts the token chose: as the caller's sum, as the sum
  of its copies, or one message per lane. `BInv` says that each of these is still
  to be sent, on its way, or in a place of its own at the source: the place is given
  by the token and by the sender's first lane, the sender's rank or the expert's
  lane, and no two senders share any of them (`PlaceApart`). Behind the last barrier all
  has been sent and has landed (`AllBack`, `AllReturned`), and the lanes that the
  reduction goes over cover every expert of the token exactly once (`CoversApart`),
  so its sum is those terms and no others (`JoinedParts`, `RInv`).
  *Types* (`TypesKept`): with these invariants the types are inductive: those of
  the counters (`Shapes`), of stores and counts on their way (`StoresTyped`, `CountsTyped`),
  of the items that warps are through with (`DoneTyped`, `BackBegun`), and of what a
  handle holds for an item (`HandleRest`, `HandlesTyped`). What a dispatch copies or
  a combine sends back has its type because of what it is.
- **LegacyIntranode_proofs**: `Spec => BarrierSpec`, the counting barrier of the legacy
  calls implements `Barrier`, for any number of ranks and any program of calls. Its
  words are never reset: `signal[q][i]` is always the number of barriers q has
  entered less that of i (`WordsCount`), and may be negative. How many a rank has
  entered is a function of the kernels it has behind it and its place in the one at
  work (`EnteredBy`: a dispatch without a handle passes one barrier more than a
  cached one; `Shape` says which places there are). A rank leaves when no word of
  its own row is positive, hence when nobody has entered fewer than it.
  On the barrier rests the data (`DataInvariance`; from it `DispatchesExact`,
  `CombinesExact`, `TypeCorrect`), whose invariant has a module of its own,
  **LegacyIntranode_inv**. Nobody leaves a barrier that another has not entered
  (`Together`); so while a rank's words are cleaned for a call, and until it has
  ended the call, no other call's queue is in use there (`Apart`, `NotifyApart`,
  `CombineElsewhere`), although the two kinds of call lay the memory out
  differently. Where a token goes is arithmetic on the program: its place in the
  queue is the number of tokens of its channel that go to the same rank before it
  (`NthFacts`), its row the number received before it over all sources
  (`RowCounts`), and places, rows and addresses of two tokens differ (`FieldFacts`,
  `SlotFacts`, `RowsDiffer`). Of one queue, `QueueOK` says that it never holds more than
  its length, that its tail never passes what has been sent, and that each place
  from the head on holds the token that belongs there; the sender's room check
  is against a head that may have moved on since, which only adds room
  (`QueueFilled`). The way back is `BackOK`: no term of a token still to be added is
  behind the head, since the head that is stored is the smallest of the warps'
  heads (`BackMoved`, `WarpMoved`). A token that did not go to a rank takes the head of
  the next one that did; the notify kernel's pass over the handle finds it whether
  or not an earlier combine has been there (`HeadsFixed`).
- **LegacyLowLatency_proofs**: `Spec => []IInv`, and from it `SignalsMeetZero`: an
  atomic never adds to a word that still holds something, for any number of
  ranks, experts and calls, dispatch and combine in any order, with cleaning
  calls between them. No barrier separates the calls, so the argument is one of
  knowledge: a rank ends a call only when every peer has signalled in it
  (`Onward`, `DoneIn`), so two ranks are at most a call apart; a word that is not
  zero holds the signal of one known call, of a buffer whose receiver has not
  yet cleaned it in the next call (`WordsKnown`); and two calls of one buffer are
  two calls apart, so a signal and a word in its way would be of the same call
  (`SameCall`), and of one call there is one signal. The cleaning kernel's
  barrier words are counted as in any barrier (`CountedDown`).
  On the signals rests the data (`DataInvariance`; from it `TypeCorrect`, which
  says that nobody is masked and that messages and results name words and slots that
  are there, `DispatchesExact` and `CombinesExact`). What a rank sends a peer's expert in a call,
  or sends back from its own one, is a *cargo*: slots of the receiver with what goes
  there. A put on its way carries a cargo of a call its receiver has not ended, and is
  in front of that call's signal (`PutsKnown`); one that has landed lies there until
  the receiver has ended the call (`PutsDelivered`). That no other put disturbs it has
  two reasons: two calls of one buffer are never out at once (`OneCallOut`), and cargoes
  of one call lie in the slots of their signals' words, which no two share
  (`CargoSlots`). A put reads its source when it lands: a rank stages a later call
  over it only when the receiver has ended the earlier one (`FirstInBuffer`). So a seen
  signal means a delivered cargo (`LandedDelivered`), its value the number of tokens in it,
  and each `Receive` appends exactly the tokens of a source (`RowsOf`, `PartOf`); a
  combine finds in the handle of the dispatch the tokens it returns (`BackSends`).
  The theorems ask that nobody fails: peers of a failed rank go on without its
  signals, and what of it lands two calls late would meet what is there by then.

The assumptions are the named ASSUMEs of the modules, which TLC evaluates on
each run. `PPRing`'s proof does not assume anything about which pairs are on
NVLink, nor whom a barrier synchronises. `EPDirect` assumes of a token's row that no
expert is in it twice (`DistinctExperts`): rows are top-k selections, as
`src/tests/elastic/test_ep.py:76` makes them, and how often a term counts whose
expert is named twice is not specified here.

Only model-checked: liveness (out of the prover's reach), `PPSchedule`, and what is not
proved yet: all of `EPHybrid`, and `LegacyLowLatency` with failing ranks.

## 5. Findings

1. `pp_mixed`: `pp_recv` signals one free slot whatever views are held, so a
   copying receive after `pp_recv_buffer` frees the view's slot, contrary to the
   comment at `pp_send_recv.cuh:258-259`.
2. `pp_reconfigure`: a second `pp_set_config` resets the host's receive counts
   but not the device's, so views point to wrong slots even if the ring was empty.
3. `engram_all`: in hybrid mode one barrier synchronises a rank with its node
   and its rail only, while `elastic.py:370,436` promise all ranks; a fetch from a
   rank on another node and another rail may return the previous table.

4. Met while modelling, and shown by TLC outside the runs: with `enable_shrink`
   the cleaning kernel's barrier counts its own word down and waits until the
   peer's word *equals* it (`internode_ll.cu:53-57`). A peer that is through the first
   of the two barriers and already in the second has counted once more; a rank
   that has not looked yet never sees equality, waits up to the time limit and
   masks a live rank, although `tests/legacy/test_low_latency.py:36` asserts that
   exactly the ranks that failed are masked. To see it, put `JustShrunk` in the
   place of `AllSetups` in
   `MCLegacyLowLatency.cfg`: `CallsEnd` is violated.
5. Read, not checked (weights are abstracted): in hybrid combine without
   `allow_multiple_reduction` and not expanded, the reduction takes the weights from
   the region of the scale-out level's master lane
   (`combine_reduce_epilogue.cuh:129-137`), while they are written per rank.

Callers that avoid 1 to 3 are the ones `PPRing!Next` and `PartnerFetchExact`
describe.

## 6. Not modelled, and the plan

Modelled first were the parts whose protocol is the least obvious and which
the others rest on: the ring, the barriers, the core calls; then the hybrid calls
and the two legacy families whose memory is reused without a barrier. Next:

1. Proofs: the words of `EPHybrid` along the lines of those of `EPDirect`.
2. Layouts: disjointness of the regions; the parallel prefix sums of the
   deterministic prologue against `PrologueSlots`.
3. Legacy internode (`legacy/internode.cu`): the queues of `LegacyIntranode` behind
   the rails of `EPHybrid`.
4. The JIT cache directory shared by processes.

Not modelled within the modules there are: in `LegacyLowLatency` time-outs against a
rank that lives (a false mask, and the cascade that follows), two sends before the
first hook, a CUDA graph with an odd number of calls (its replay would use the
wrong buffer), querying and clearing the mask by hand, and messages of a failed
rank that land two calls late; in `LegacyIntranode` time-outs and a mix of the
two receive modes; in `EPHybrid` the host's polling, weights and scaling factors.

Left out for good: NCCL, NVSHMEM and CUDA themselves (their use is modelled:
puts, gets, signals, streams), tensor allocation and stream bookkeeping of
PyTorch, argument checks, tuning, and arithmetic on activations.
