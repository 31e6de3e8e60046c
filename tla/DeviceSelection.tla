-------------------------- MODULE DeviceSelection --------------------------
(***************************************************************************)
(* CLScheduler::Progress(): which device each queue of a scheduler is      *)
(* bound to.  Every flush calls it on the caller's thread, with            *)
(* explicit_synch_flag set only by clSetCommandQueueProperty().            *)
(*                                                                         *)
(* The code segmented scheduler adds up what the kernels enqueued so far   *)
(* cost on each device and decides at an explicit synchronisation; the     *)
(* others decide at each flush, from the kernels since the last one.  A    *)
(* queue moves only for a gain above a threshold, and each queue decided   *)
(* counts what the queues decided before it put on their devices.          *)
(*                                                                         *)
(* Costs are whole numbers, so the percentages of the code are exact.      *)
(* One application thread enqueues and flushes; issuers run concurrently.  *)
(***************************************************************************)
EXTENDS Integers, Sequences, FiniteSetsExt, Functions

CONSTANTS
  NumQueues,    \* size of queues_
  NumDevices,   \* size of the context's devices_
  Kernels,
  Name,         \* the kernels' names, sequences of characters
  Transfer,     \* any command that is not CL_COMMAND_NDRANGE_KERNEL
  Costs,        \* what EstimatedCost() may return: a cost for each device
  Threshold,    \* SNUCL_RUNTIME_DEVICE_SELECTION_THRESHOLD, 35 by default
  Schedulers,   \* values of CL_CONTEXT_SCHEDULER: "rr", "segmented", "perf", "first"
  MaxCommands   \* bound on the commands between two decisions

Queues  == 1..NumQueues
Devices == 1..NumDevices
Rows    == [Devices -> Nat]
NoRow   == <<>>          \* a vector of size 0

ASSUME SelectionAssumption ==
  /\ NumQueues \in Nat /\ NumDevices \in Nat \ {0} /\ Threshold \in Nat
  /\ Name \in [Kernels -> Seq({"a", "b", "c"}) \ {<<>>}]
  /\ Transfer \notin Kernels
  /\ Costs \subseteq Rows /\ Costs # {}
  /\ Schedulers \subseteq {"rr", "segmented", "perf", "first"}
  /\ MaxCommands \in Nat

VARIABLES
  scheduler,    \* the context's CL_CONTEXT_SCHEDULER
  auto,         \* queues with CL_QUEUE_AUTO_DEVICE_SELECTION
  device,       \* CLCommandQueue::device_
  commands,     \* commands_: what was enqueued since the last pass
  accumulated,  \* accumulatedPerformances_
  perfDone,     \* perfModDone_
  epochs,       \* CLContext::epochPerformances_: costs by kernel name or epoch string
  pass,         \* the queue a pass of Progress() is at, 0 between passes
  estimate,     \* est_epoch_times of this pass
  hasKernel,    \* queue_has_kernel of this pass
  fault,        \* the memory error that ended the process
  since,        \* history: what was enqueued to each queue since the last decision
  account       \* history: the costs each queue brought to the last decision

settings == <<scheduler, auto>>
passVars == <<pass, estimate, hasKernel>>
vars == <<settings, device, commands, accumulated, perfDone, epochs, passVars, fault, since, account>>

None == "none"
BetweenPasses == [explicit |-> FALSE, queue |-> 0]
Idle == fault = None /\ pass = BetweenPasses

-----------------------------------------------------------------------------
(* Costs *)

Plus(row1, row2) == [d \in Devices |-> row1[d] + row2[d]]
Zero == [d \in Devices |-> 0]

(* Slip: the last epoch takes the place of the earlier ones. *)
Accumulate_Slip(sum, row) == row

(* accumulateEpoch(). *)
Accumulate(sum, row) == IF sum = NoRow THEN row ELSE Plus(sum, row)

(* The kernels among operations, in order. *)
Launches(ops) ==
  LET kernels[n \in 0..Len(ops)] ==
        IF n = 0 THEN <<>>
        ELSE IF ops[n] = Transfer THEN kernels[n - 1] ELSE Append(kernels[n - 1], ops[n])
  IN  kernels[Len(ops)]

KernelsOf(cmds) == Launches([i \in 1..Len(cmds) |-> cmds[i].op])

(* An epoch string: the names of its kernels one after another. *)
EpochString(kernels) ==
  LET text[n \in 0..Len(kernels)] ==
        IF n = 0 THEN <<>> ELSE text[n - 1] \o Name[kernels[n]]
  IN  text[Len(kernels)]

(* recordEpoch() for each of these costs. *)
Record(record, costs) ==
  [n \in DOMAIN record \cup DOMAIN costs |-> IF n \in DOMAIN costs THEN costs[n] ELSE record[n]]

(* What kernels cost together by the recorded costs of their names. *)
CostOf(kernels, record) ==
  LET cost[n \in 0..Len(kernels)] ==
        IF n = 0 THEN Zero ELSE Plus(cost[n - 1], record[Name[kernels[n]]])
  IN  cost[Len(kernels)]

(* Slip: any gain will do. *)
Beats_Slip(cost, d2, d1) == cost[d2] < cost[d1]

(* Is d2 better than d1 by more than the threshold? *)
Beats(cost, d2, d1) == 100 * (cost[d1] - cost[d2]) > Threshold * cost[d1]

(* The loop over the devices: each is compared with the best so far. *)
Choose(current, cost) ==
  LET best[n \in 0..NumDevices] ==
        IF n = 0 THEN current
        ELSE IF Beats(cost, n, best[n - 1]) THEN n ELSE best[n - 1]
  IN  best[NumDevices]

(* The queue whose turn it is in the loop over queues, and its turn: the   *)
(* code segmented scheduler goes from the last queue to the first. *)
Turn(n) == IF scheduler = "segmented" THEN NumQueues + 1 - n ELSE n

(* Slip: every queue is decided as if it were alone. *)
Decide_Slip(decided, rows) ==
  [q \in Queues |-> IF q \in decided THEN Choose(device[q], rows[q]) ELSE device[q]]

(* The greedy loop over queues: a queue's costs, with what the queues      *)
(* before it put on each device, decide its device. *)
Bind(s, q, row) ==
  LET chosen == Choose(s.device[q], Plus(row, s.load))
  IN  [device |-> [s.device EXCEPT ![q] = chosen],
       load   |-> [s.load EXCEPT ![chosen] = @ + row[chosen]]]

Decide(decided, rows) ==
  LET bound[n \in 0..NumQueues] ==
        IF n = 0 THEN [device |-> device, load |-> Zero]
        ELSE IF Turn(n) \in decided THEN Bind(bound[n - 1], Turn(n), rows[Turn(n)])
        ELSE bound[n - 1]
  IN  bound[NumQueues].device

-----------------------------------------------------------------------------
(* The application and the issuers *)

Init ==
  /\ scheduler \in Schedulers
  /\ auto \in SUBSET Queues
  /\ device \in [Queues -> Devices]
  /\ commands = [q \in Queues |-> <<>>]
  /\ accumulated = [q \in Queues |-> NoRow]
  /\ perfDone = {}
  /\ epochs = <<>>
  /\ pass = BetweenPasses
  /\ estimate = [q \in Queues |-> NoRow]
  /\ hasKernel = {}
  /\ fault = None
  /\ since = [q \in Queues |-> <<>>]
  /\ account = [q \in Queues |-> NoRow]

(* CLInOrderCommandQueue::Enqueue(): the part that concerns Progress(). *)
Enqueue(q, op) ==
  /\ Idle
  /\ MapThenSumSet(LAMBDA p : Len(since[p]), Queues) < MaxCommands
  /\ commands' = [commands EXCEPT ![q] = Append(@, [op |-> op, deleted |-> FALSE])]
  /\ since' = [since EXCEPT ![q] = Append(@, op)]
  /\ UNCHANGED <<settings, device, accumulated, perfDone, epochs, passVars, fault, account>>

(* An issuer deletes a command that is complete; a pass of the scheduler   *)
(* thread that another command's event caused may have submitted it before *)
(* it was flushed.  commands_ keeps the pointer.                           *)
DeleteCommand(q) ==
  /\ fault = None
  /\ \E i \in DOMAIN commands[q] :
       /\ ~commands[q][i].deleted
       /\ \A j \in 1..(i - 1) : commands[q][j].deleted
       /\ commands' = [commands EXCEPT ![q][i].deleted = TRUE]
  /\ UNCHANGED <<settings, device, accumulated, perfDone, epochs, passVars, fault, since, account>>

-----------------------------------------------------------------------------
(* A pass of Progress() *)

(* Slip: devices are numbered from 0. *)
RoundRobin_Slip ==
  /\ Idle /\ scheduler = "rr" /\ NumDevices > 1
  /\ device' = [q \in Queues |-> q % NumDevices]
  /\ UNCHANGED <<settings, commands, accumulated, perfDone, epochs, passVars, fault, since, account>>

(* CL_CONTEXT_SCHEDULER_RR *)
RoundRobin ==
  /\ Idle /\ scheduler = "rr" /\ NumDevices > 1
  /\ device' = [q \in Queues |-> ((q - 1) % NumDevices) + 1]
  /\ UNCHANGED <<settings, commands, accumulated, perfDone, epochs, passVars, fault, since, account>>

(* Only the code segmented scheduler reads the flag. *)
BeginPass(explicit) ==
  /\ Idle /\ scheduler # "rr" /\ NumDevices > 1 /\ NumQueues > 0
  /\ explicit => scheduler = "segmented"
  /\ pass' = [explicit |-> explicit, queue |-> 1]
  /\ UNCHANGED <<settings, device, commands, accumulated, perfDone, epochs, estimate, hasKernel,
                 fault, since, account>>

Estimating(q) == fault = None /\ pass.queue = q

Crash(kind) ==
  /\ fault' = kind
  /\ UNCHANGED <<settings, device, commands, accumulated, perfDone, epochs, passVars, since, account>>

Considered(q) == q \in auto /\ ~(scheduler = "first" /\ q \in perfDone)

SkipQueue(q) ==
  /\ Estimating(q) /\ ~Considered(q)
  /\ pass' = [pass EXCEPT !.queue = q + 1]
  /\ UNCHANGED <<settings, device, commands, accumulated, perfDone, epochs, estimate, hasKernel,
                 fault, since, account>>

(* type() and kernel() of a command that was deleted. *)
ReadDeleted(q) ==
  /\ Estimating(q) /\ Considered(q)
  /\ \E i \in DOMAIN commands[q] : commands[q][i].deleted
  /\ Crash("deleted command")

(* The costs of a queue's commands: of the epoch if it is recorded, else   *)
(* of each kernel, estimating and recording those that are not.            *)
EstimateQueue(q) ==
  /\ Estimating(q) /\ Considered(q)
  /\ \A i \in DOMAIN commands[q] : ~commands[q][i].deleted
  /\ LET kernels == KernelsOf(commands[q])
         key     == EpochString(kernels)
         known   == key \in DOMAIN epochs
         names   == {Name[k] : k \in Range(kernels)} \ DOMAIN epochs
     IN \E costs \in [IF known THEN {} ELSE names -> Costs] :
          LET record == Record(epochs, costs)
              row    == IF known THEN epochs[key] ELSE CostOf(kernels, record)
          IN /\ epochs' = IF kernels = <<>> THEN epochs ELSE Record(record, [n \in {key} |-> row])
             /\ IF scheduler = "segmented"
                  THEN /\ accumulated' = IF kernels = <<>> THEN accumulated
                                         ELSE [accumulated EXCEPT ![q] = Accumulate(@, row)]
                       /\ UNCHANGED <<estimate, hasKernel>>
                  ELSE /\ estimate' = [estimate EXCEPT ![q] = row]
                       /\ hasKernel' = IF kernels = <<>> THEN hasKernel ELSE hasKernel \cup {q}
                       /\ UNCHANGED accumulated
  /\ pass' = [pass EXCEPT !.queue = q + 1]
  /\ UNCHANGED <<settings, device, commands, perfDone, fault, since, account>>

Estimated == fault = None /\ pass.queue > NumQueues

Forget ==
  /\ commands' = [q \in Queues |-> <<>>]
  /\ pass' = BetweenPasses
  /\ estimate' = [q \in Queues |-> NoRow]
  /\ hasKernel' = {}
  /\ UNCHANGED <<settings, fault>>

(* A code segmented pass that is not an explicit synchronisation. *)
EndEpoch ==
  /\ Estimated /\ scheduler = "segmented" /\ ~pass.explicit
  /\ Forget
  /\ UNCHANGED <<device, accumulated, perfDone, epochs, since, account>>

(* Binding queues by what they have accumulated. *)
Synchronise ==
  /\ Estimated /\ scheduler = "segmented" /\ pass.explicit
  /\ LET decided == {q \in auto : accumulated[q] # NoRow}
     IN /\ device' = Decide(decided, accumulated)
        /\ perfDone' = perfDone \cup decided
        /\ account' = [q \in Queues |-> IF q \in decided THEN accumulated[q] ELSE NoRow]
  /\ accumulated' = [q \in Queues |-> NoRow]
  /\ epochs' = <<>>
  /\ since' = [q \in Queues |-> <<>>]
  /\ Forget

(* The other performance models bind queues by this pass alone.  The costs *)
(* of a queue bound are added to a row of every later queue, of which      *)
(* those not considered in this pass have none. *)
RowsMissing ==
  \E q \in hasKernel : \E later \in (q + 1)..NumQueues : estimate[later] = NoRow

AddToMissingRow ==
  /\ Estimated /\ scheduler # "segmented" /\ RowsMissing
  /\ Crash("vector of size 0")

BindByPass ==
  /\ Estimated /\ scheduler # "segmented" /\ ~RowsMissing
  /\ device' = Decide(hasKernel, estimate)
  /\ perfDone' = perfDone \cup hasKernel
  /\ account' = [q \in Queues |-> IF q \in hasKernel THEN estimate[q] ELSE NoRow]
  /\ since' = [q \in Queues |-> <<>>]
  /\ Forget
  /\ UNCHANGED <<accumulated, epochs>>

Next ==
  \/ \E q \in Queues :
       \/ \E op \in Kernels \cup {Transfer} : Enqueue(q, op)
       \/ DeleteCommand(q)
       \/ SkipQueue(q) \/ ReadDeleted(q) \/ EstimateQueue(q)
  \/ RoundRobin
  \/ \E explicit \in BOOLEAN : BeginPass(explicit)
  \/ EndEpoch \/ Synchronise \/ AddToMissingRow \/ BindByPass

Spec == Init /\ [][Next]_vars

-----------------------------------------------------------------------------
(* Properties *)

(* Every variable keeps to its type; in particular a queue is bound to a  *)
(* device of its context. *)
TypeOK ==
  /\ scheduler \in Schedulers /\ auto \subseteq Queues
  /\ device \in [Queues -> Devices]
  /\ commands \in [Queues -> Seq([op : Kernels \cup {Transfer}, deleted : BOOLEAN])]
  /\ accumulated \in [Queues -> Rows \cup {NoRow}]
  /\ perfDone \subseteq Queues /\ hasKernel \subseteq auto
  /\ \A n \in DOMAIN epochs : epochs[n] \in Rows
  /\ pass \in [explicit : BOOLEAN, queue : 0..(NumQueues + 1)]
  /\ estimate \in [Queues -> Rows \cup {NoRow}]
  /\ fault \in {None, "deleted command", "vector of size 0"}
  /\ since \in [Queues -> Seq(Kernels \cup {Transfer})]
  /\ account \in [Queues -> Rows \cup {NoRow}]

(* accumulateEpoch() and clearCommands() account for each kernel enqueued  *)
(* to an automatic queue since the last explicit synchronisation exactly   *)
(* once, whichever flushes counted it and whether its costs came from an   *)
(* estimate, from its name's record or from an epoch string's. *)
Accounting ==
  scheduler = "segmented" => \A q \in auto :
    LET waiting == IF q < pass.queue THEN 0 ELSE Len(commands[q])
        counted == Launches(SubSeq(since[q], 1, Len(since[q]) - waiting))
    IN accumulated[q] = IF counted = <<>> THEN NoRow ELSE CostOf(counted, epochs)

(* What the queues with the first n turns put on device d. *)
LoadOf(d) ==
  LET load[n \in 0..NumQueues] ==
        IF n = 0 THEN 0
        ELSE IF account[Turn(n)] # NoRow /\ device[Turn(n)] = d
          THEN load[n - 1] + account[Turn(n)][d]
        ELSE load[n - 1]
  IN  load
CostOn(q, d) == account[q][d] + LoadOf(d)[Turn(q) - 1]

(* After a decision no queue would gain more than the threshold on another *)
(* device, given the queues decided before it: the greedy loop of          *)
(* Progress() finds, with one pass over the devices, a device that none    *)
(* beats.  It stays so until the next decision. *)
NearBest ==
  \A q \in Queues : account[q] # NoRow =>
    \A d \in Devices : 100 * (CostOn(q, device[q]) - CostOn(q, d)) <= Threshold * CostOn(q, device[q])

(* Progress() moves a queue only if it is automatic, its costs are known   *)
(* and the new device beats the one it is bound to by more than the        *)
(* threshold; the round robin scheduler is the exception. *)
MovesForGain ==
  [][\A q \in Queues : device'[q] # device[q] =>
       \/ scheduler = "rr"
       \/ /\ q \in auto /\ account'[q] # NoRow
          /\ \E old \in {device[q]} :
               100 * (CostOn(q, old)' - CostOn(q, device[q])') > Threshold * CostOn(q, old)']_vars

(* Progress() looks at commands that are enqueued, never at one an issuer  *)
(* has deleted. *)
ReadsEnqueued == fault # "deleted command"
=============================================================================
