----------------------------- MODULE PPSchedule -----------------------------
(***************************************************************************)
(* PPRing driven by host programs that run ahead of the device.            *)
(*                                                                         *)
(* The host only enqueues kernels; a stream executes them in order, and a  *)
(* pp_send or pp_recv that waits for its signal blocks all that is behind  *)
(* it.  The programs of the ranks are those that fit one global timeline   *)
(* (tests/elastic/test_pp.py sorts its operations by time stamp the same   *)
(* way): a receive comes after its send, and on no link more than          *)
(* MaxInTransit tensors are ever sent and not given back.                  *)
(***************************************************************************)
EXTENDS PPRing, Sequences

CONSTANTS Traffic,       \* links the programs use
          MaxInTransit   \* tensors in flight per link, at most

ASSUME TrafficAssumption == Traffic \subseteq Links

VARIABLES queue,     \* per rank: operations enqueued on its stream
          planned,   \* per link: operations in those programs, by kind
          running    \* the timeline is complete and the streams run

scheduleVars == <<queue, planned, running>>
allVars == <<vars, queue, planned, running>>

Operation(kind, peer) == [kind |-> kind, peer |-> peer]

ScheduleInit ==
  /\ Init
  /\ queue = [r \in Ranks |-> <<>>]
  /\ planned = [l \in Traffic |-> [sends |-> 0, takes |-> 0, frees |-> 0]]
  /\ running = FALSE

Enqueue(r, kind, peer) == queue' = [queue EXCEPT ![r] = Append(@, Operation(kind, peer))]

PlanSend(l) ==
  /\ planned[l].sends < MaxMsgs
  /\ planned[l].sends - planned[l].frees < MaxInTransit
  /\ Enqueue(l[1], "send", l[2])
  /\ planned' = [planned EXCEPT ![l].sends = @ + 1]
  /\ UNCHANGED vars

PlanRecv(l) ==
  /\ planned[l].takes < planned[l].sends
  /\ planned[l].frees = planned[l].takes
  /\ Enqueue(l[2], "recv", l[1])
  /\ planned' = [planned EXCEPT ![l].takes = @ + 1, ![l].frees = @ + 1]
  /\ UNCHANGED vars

PlanRecvBuffer(l) ==
  /\ planned[l].takes < planned[l].sends
  /\ Enqueue(l[2], "view", l[1])
  /\ planned' = [planned EXCEPT ![l].takes = @ + 1]
  /\ UNCHANGED vars

PlanRelease(l) ==
  /\ planned[l].frees < planned[l].takes
  /\ Enqueue(l[2], "release", l[1])
  /\ planned' = [planned EXCEPT ![l].frees = @ + 1]
  /\ UNCHANGED vars

\* The timeline grows by one operation of some link, or is complete.  No kernel reads
\* the rest of a program, so to fix the programs first loses no behaviour.
Plan ==
  /\ ~running
  /\ \E l \in Traffic : PlanSend(l) \/ PlanRecv(l) \/ PlanRecvBuffer(l) \/ PlanRelease(l)
  /\ UNCHANGED running

Run ==
  /\ ~running
  /\ running' = TRUE
  /\ UNCHANGED <<vars, queue, planned>>

\* The stream starts the operation at its head.
Start(r) ==
  /\ running
  /\ queue[r] # <<>>
  /\ LET op == Head(queue[r])
     IN  \/ op.kind = "send" /\ LaunchSend(r, op.peer)
         \/ op.kind = "recv" /\ LaunchRecv(r, op.peer)
         \/ op.kind = "view" /\ LaunchRecvBuffer(r, op.peer)
         \/ op.kind = "release" /\ \E v \in views[r][LocalIdxInDst(op.peer, r)] :
              OldestView(r, op.peer, v) /\ ReleaseRecv(r, op.peer, v)
  /\ queue' = [queue EXCEPT ![r] = Tail(@)]
  /\ UNCHANGED <<planned, running>>

Configure(r) == running /\ PpSetConfig(r) /\ UNCHANGED scheduleVars
RunKernel(r) == Kernel(r) /\ UNCHANGED scheduleVars
Transfer(l)  == Network(l[1], l[2]) /\ UNCHANGED scheduleVars

Device ==
  \/ Run
  \/ \E r \in Ranks : Start(r) \/ Configure(r) \/ RunKernel(r)
  \/ \E l \in Links : Transfer(l)

ScheduleNext == Plan \/ Device

\* Streams and network do not all stop while one of them can go on: the kernels are
\* cooperative launches, so all their SMs are resident, and the NIC delivers.  All
\* that happens is finite, so nothing finer is needed.
Fairness == WF_allVars(Device)

ScheduleSpec == ScheduleInit /\ [][ScheduleNext]_allVars /\ Fairness

\* Everything enqueued completes and every slot given back comes back to its sender:
\* with at most num_max_inflight_tensors in flight per link, no set of streams ends up
\* waiting for each other, in whatever order the ranks interleave sends, receives,
\* views and releases over their links.
Drained ==
  \A l \in Traffic : /\ Sent(l[1], l[2]) = planned[l].sends
                     /\ Taken(l[1], l[2]) = planned[l].takes
                     /\ FreeSig(l[1], l[2]) = planned[l].frees

StreamsDrain == running ~> Drained

=============================================================================
