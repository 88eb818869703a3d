------------------------------- MODULE Engram -------------------------------
(***************************************************************************)
(* Engram: every rank stores a table in the CPU segment of its window,     *)
(* and fetches entries of other ranks' tables with one-sided RDMA gets.    *)
(*                                                                         *)
(* engram_write is collective: a barrier, the copy, a second barrier, with *)
(* the device synchronised around both.  In hybrid mode the CPU segments   *)
(* of a node are one shared piece of memory, and a get goes over the rail  *)
(* to the node of the owner.                                               *)
(***************************************************************************)
EXTENDS GpuBarrier

CONSTANTS Hybrid,        \* allow_hybrid_mode
          MaxWrites,     \* bound: engram_write calls of every rank
          Fetchers       \* bound: ranks whose fetches are followed

ASSUME HybridAssumption == Hybrid \in BOOLEAN /\ (~Hybrid => NumScaleout = 1)
ASSUME WritesAssumption == MaxWrites \in Nat
ASSUME FetchersAssumption == Fetchers \subseteq Ranks

VARIABLES
  step,        \* where a rank is in engram_write
  written,     \* engram_write calls completed
  mem,         \* CPU memory: the version of the table in every place, per segment
  fetch        \* the fetch whose hook a rank has not called, if there is one

allVars == <<calls, done, upEntered, upLeft, outEntered, outLeft, step, written, mem, fetch>>

\* The table of a rank after its v-th engram_write.
Table(r, v) == <<r, v>>
NoTable == <<0, 0>>
Torn    == <<0, -1>>      \* a table while it is being written
Pending == <<0, -2>>      \* a get that has not read yet
Tables  == Ranks \X Nat
NoFetch == [owner |-> 0, want |-> 0, got |-> Pending, live |-> FALSE]

\* Segments and places: one segment per node in hybrid mode, else one per rank.
Segments == 0 .. NumScaleout * NumScaleup - 1
Places   == 0 .. NumScaleup - 1

TypeOK ==
  /\ BarrierTypeOK
  /\ step \in [Ranks -> {"idle", "enter", "copy", "leave"}]
  /\ written \in [Ranks -> Nat]
  /\ mem \in [Segments -> [Places -> Tables \cup {Torn}]]
  /\ fetch \in [Ranks -> [owner : Ranks, want : Nat, got : Tables \cup {Torn, Pending}, live : BOOLEAN]]

Init ==
  /\ BarrierInit
  /\ step = [r \in Ranks |-> "idle"]
  /\ written = [r \in Ranks |-> 0]
  /\ mem = [s \in Segments |-> [p \in Places |-> NoTable]]
  /\ fetch = [r \in Ranks |-> NoFetch]

\* Where rank r writes its table: num_gpu_buffer_bytes + cpu_write_offset.
WriteSegment(r) == IF Hybrid THEN ScaleoutIdx(r) ELSE r
WritePlace(r)   == IF Hybrid THEN ScaleupIdx(r) ELSE 0

\* Where a fetch looks for the table of owner: the RDMA peer and the place there.
RanksPerPeer == IF Hybrid THEN NumScaleup ELSE 1
ReadSegment(owner) == owner \div RanksPerPeer
\* Faulty variant: the place is that of a rank, not of its node.
ReadPlaceOfRank(owner) == 0

ReadPlace(owner)   == owner % RanksPerPeer

\* engram_write starts with a barrier.  The hook of the last fetch has been called.
WriteEnter(r) ==
  /\ step[r] = "idle"
  /\ written[r] < MaxWrites
  /\ Launch(r)
  /\ step' = [step EXCEPT ![r] = "enter"]
  /\ UNCHANGED <<written, mem, fetch>>

\* The barrier is complete and the device idle: the copy starts ...
CopyBegin(r) ==
  /\ step[r] = "enter"
  /\ calls[r] = done[r]
  /\ mem' = [mem EXCEPT ![WriteSegment(r)][WritePlace(r)] = Torn]
  /\ step' = [step EXCEPT ![r] = "copy"]
  /\ UNCHANGED <<barrierVars, written, fetch>>

\* ... and ends before the second barrier.
CopyEnd(r) ==
  /\ step[r] = "copy"
  /\ mem' = [mem EXCEPT ![WriteSegment(r)][WritePlace(r)] = Table(r, written[r] + 1)]
  /\ Launch(r)
  /\ step' = [step EXCEPT ![r] = "leave"]
  /\ UNCHANGED <<written, fetch>>

WriteReturn(r) ==
  /\ step[r] = "leave"
  /\ calls[r] = done[r]
  /\ written' = [written EXCEPT ![r] = @ + 1]
  /\ step' = [step EXCEPT ![r] = "idle"]
  /\ UNCHANGED <<barrierVars, mem, fetch>>

\* Faulty variant: the entry's owner is off by one.
FetchIssueOffByOne(r, owner) ==
  /\ step[r] = "idle" /\ written[r] > 0 /\ ~fetch[r].live
  /\ fetch' = [fetch EXCEPT ![r] = [owner |-> owner + 1, want |-> written[r],
                                    got |-> Pending, live |-> TRUE]]
  /\ UNCHANGED <<barrierVars, step, written, mem>>

\* The fetch kernel posts the gets and ends.
FetchIssue(r, owner) ==
  /\ step[r] = "idle"
  /\ written[r] > 0
  /\ ~fetch[r].live
  /\ fetch' = [fetch EXCEPT ![r] = [owner |-> owner, want |-> written[r],
                                    got |-> Pending, live |-> TRUE]]
  /\ UNCHANGED <<barrierVars, step, written, mem>>

\* The NIC reads the table, whenever it gets to it.
GetLands(r) ==
  /\ fetch[r].live /\ fetch[r].got = Pending
  /\ fetch' = [fetch EXCEPT ![r].got =
                 mem[ReadSegment(fetch[r].owner)][ReadPlace(fetch[r].owner)]]
  /\ UNCHANGED <<barrierVars, step, written, mem>>

\* The caller invokes the hook: it waits for the gets and returns the tensor.
Hook(r) ==
  /\ step[r] = "idle"
  /\ fetch[r].live /\ fetch[r].got # Pending
  /\ fetch' = [fetch EXCEPT ![r] = NoFetch]
  /\ UNCHANGED <<barrierVars, step, written, mem>>

BarrierStep(r) == KernelStep(r) /\ UNCHANGED <<step, written, mem, fetch>>

Write(r) == CopyBegin(r) \/ CopyEnd(r) \/ WriteReturn(r)
\* A fetch touches nothing of another rank, so it is enough to follow those of some.
Fetch(r) ==
  /\ r \in Fetchers
  /\ (\E owner \in Ranks : FetchIssue(r, owner)) \/ GetLands(r) \/ Hook(r)

\* Callers that invoke the hook of a fetch before they write again.
WriteAfterHook(r) == ~fetch[r].live /\ WriteEnter(r)

Next == \E r \in Ranks : WriteAfterHook(r) \/ Write(r) \/ Fetch(r) \/ BarrierStep(r)

Spec == Init /\ [][Next]_allVars

\* Kernels, copies and the network go on, and callers come back to write: a rank does
\* not fetch for ever while its peers wait for it in a barrier.  Writes and their
\* barriers are finite in number, so fairness for all ranks together is enough.
Fairness ==
  /\ WF_allVars(\E r \in Ranks : Write(r) \/ BarrierStep(r))
  /\ WF_allVars(\E r \in Ranks : GetLands(r) \/ Hook(r))
  /\ SF_allVars(\E r \in Ranks : WriteAfterHook(r))

FairSpec == Spec /\ Fairness

-----------------------------------------------------------------------------
\* What a fetch returns is the table its owner wrote last, whole: neither the version
\* before, nor the next one, nor one that is being written.
Exact(f) == f.live /\ f.got # Pending => f.got = Table(f.owner, f.want)

FetchExact == \A r \in Ranks : Exact(fetch[r])

\* The same for owners on the node or the rail of the one who fetches.
PartnerFetchExact == \A r \in Ranks : fetch[r].owner \in Linked(r) => Exact(fetch[r])

\* Every engram_write returns: neither do the two barriers of one kernel, which wait for
\* different ranks, block each other, nor those of ranks that are a barrier apart.
WritesReturn == \A r \in Ranks : step[r] # "idle" ~> step[r] = "idle"

-----------------------------------------------------------------------------
(***************************************************************************)
(* The inductive invariant behind PartnerFetchExact.                       *)
(***************************************************************************)

\* Where a rank is in engram_write tells how many barriers it has called: two per write.
InStep(r) ==
  /\ step[r] = "idle"  => calls[r] = 2 * written[r] /\ done[r] = calls[r]
  /\ step[r] = "enter" => calls[r] = 2 * written[r] + 1
  /\ step[r] = "copy"  => calls[r] = 2 * written[r] + 1 /\ done[r] = calls[r]
  /\ step[r] = "leave" => calls[r] = 2 * written[r] + 2

\* The table of a rank lies where fetches look for it, and nobody else writes there.
TableInPlace(r) ==
  LET table == mem[ReadSegment(r)][ReadPlace(r)]
  IN  /\ step[r] \in {"idle", "enter"} /\ written[r] > 0 => table = Table(r, written[r])
      /\ step[r] = "leave" => table = Table(r, written[r] + 1)

\* A rank with a fetch under way is not writing, and wants the version it wrote itself.
FetchHeld(r) ==
  /\ fetch[r].live => step[r] = "idle" /\ written[r] > 0 /\ fetch[r].want = written[r]
  /\ fetch[r].owner \in Linked(r) => Exact(fetch[r])

EngramIInv ==
  /\ TypeOK
  /\ BarrierIInv
  /\ \A r \in Ranks : InStep(r) /\ TableInPlace(r) /\ FetchHeld(r)

=============================================================================
