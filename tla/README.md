# MultiCL runtime: TLA+ models, checks and proofs

MultiCL is an OpenCL runtime (`src/src/runtime`, derived from SnuCL) that
schedules command queues over devices by itself: the application enqueues
commands, the runtime decides which device a queue is bound to and moves memory
objects to where they are needed. This directory models the runtime's control:
its threads, queues, events and data movement.

All source paths below are relative to `src/src/runtime`.

## 1. Inventory

| Component | State | Operations | Hard part |
|---|---|---|---|
| In-order queue (`CLCommandQueue`) | ring `queue_`, `last_event_`, `device_`, epoch list `commands_` | Enqueue, Peek, Dequeue, Flush, set_device | host threads enqueue while the scheduler thread peeks and dequeues; the device changes between commands |
| Out-of-order queue (`CLCommandQueue`) | list of commands under a mutex | the same | barriers and markers, removal by address |
| Scheduler (`CLScheduler`) | `queues_`, `sem_schedule_` | Run (a pass over all queues per post), Invoke, Progress (device selection), Add/RemoveCommandQueue | wake-ups, queues rebound and removed during a pass |
| Event (`CLEvent`) | `status_`, callbacks, mutex and condition | SetStatus, Wait, AddCallback, SetUserEventStatus | a waiter between its test and its sleep; callbacks on issuer threads |
| Command (`CLCommand`) | wait list, `consistency_resolved_`, `device_`, arguments | IsExecutable, ResolveConsistency, Submit, Execute, SetAsComplete | resolved in several passes, adding clones it then waits for |
| Issuer (`CLIssuer`) | devices it serves | Run | executes, completes and deletes a command the scheduler may still hold |
| Device (`CLDevice`) | ready queue, its semaphore, command count | EnqueueReadyQueue, DequeueReadyQueue | full ready queue, retried by scheduler and callbacks |
| Rings (`LockFreeQueueMS` in `Utils`) | `idx_r_`, `idx_w_`, `idx_w_cas_`, elements | Enqueue, Peek, Dequeue, Size | no lock: two swaps per enqueue, wrap-around |
| Memory object (`CLMem`) | devices with the latest contents, copies | HasLatest, AddLatest, SetLatest, GetNearestLatest | a directory of copies kept ahead of the copies themselves |
| Program, kernel (`CLProgram`, `CLKernel`, `Callbacks.h`) | build counters, executables, kernel info | Build/Compile/Link, CreateKernel, countdown | builds complete on several issuer threads |
| Context, sampler (`CLContext`, `CLSampler`) | handle tables, epoch cost cache | lookups | cache of device choices |
| Reference counts (`CLObject`) | `ref_cnt_` | Retain, Release | last release on any thread |
| Platform, API (`CLPlatform`, `CLAPI`, `CLDispatch`) | schedulers, issuers | clEnqueue..., clFlush, clFinish, clWaitForEvents, ... | entry point of the host threads |
| Back ends (`cpu/`, `legacy/`) | compute units, vendor handles | LaunchKernel, ReadBuffer, ... | worker threads of the CPU device |
| Cluster driver (`cluster/`) | MPI requests, remote handles | messages to other nodes | asynchronous completion |

Interaction: a host thread in a `clEnqueue...` call builds a `CLCommand`, and
`CLInOrderCommandQueue::Enqueue` chains it to the queue's last event and puts it
in the queue's ring. Nothing more happens until a *flush* (clFlush, clFinish, a
blocking call or clWaitForEvents): `Progress` may rebind queues, then
`sem_schedule_` is posted. The scheduler thread makes one pass over its queues
per post, takes the head of each ring if all the events it waits for are
complete, resolves its memory (submitting clone commands when a copy must move
first, in which case the command is tried again in a later pass), and pushes it
on a device's ready queue. That device's issuer thread executes it and sets its
event complete; `SetStatus` wakes the host threads that wait, runs callbacks,
and posts every scheduler, which starts the next pass.

What makes each component correct:

- queue, command, event: commands of an in-order queue run one after another in
  the order of the calls whichever devices the queue visits; a command starts
  only when its wait list is complete; the status of an event only moves
  forward; a blocked host thread is woken.
- scheduler, issuer, device: no command lost, none executed twice, `Dequeue`
  drops what was submitted, and the scheduler does not sleep over work.
- rings: a bounded FIFO for concurrent producers.
- memory: a command finds the data of the last writer on its device.
- programs: the notification of an asynchronous build comes once.

The list of hazards, each at its line, is in `PROJECT.json`.

## 2. Plan

Done in this version, in this order:

1. `CommandPipeline` with `CommandOrder`, the abstract specification it
   implements: host threads, rings, scheduler, ready queues, issuers, events.
2. `CommandRing` with `BoundedFifo`: the ring at the grain of single accesses.
3. The theorems about `CommandPipeline`.
4. `MemConsistency`: `ResolveConsistency`, `CloneMem`, the directory of latest
   copies; the data a command finds is the data of the last writer.
5. `DeviceSelection`: `Progress` with its four schedulers and the epoch costs.
6. `ProgramBuild`: completion of builds on several issuers, the countdown and
   its notification, registration of kernels, and the theorems about its
   three counters.
7. `QueueLifetime`: reference counts, `AddCommandQueue` and
   `RemoveCommandQueue`, the queue and `last_event_` that refer to each other,
   with theorems about all its safety properties.
8. `OutOfOrderQueue` with `QueueOrder`, the abstract specification it implements,
   and the theorems that show it.
9. The theorems that no command is lost (`KeptInCustody`) and no wake-up is
   missed (`NeverOversleeps`) in `CommandPipeline`.
10. The theorems about `CommandRing`: it is a FIFO for every size when no producer
    sleeps through a lap.
11. The theorems about `MemConsistency`: the copies of an object behave as one
    object, for any devices, queues and commands; the types of `ProgramBuild`.
12. The theorems about `DeviceSelection`: what the loops of `Progress` compute, for
    any numbers of queues and devices, and that costs are counted once.

Next, in this order:

13. `EventCompletion`: spurious wake-ups, callbacks registered late.
14. `CPUComputeUnit`, the cluster driver's requests.

The modules compose through what they leave open: `CommandPipeline` lets a flush
bind a queue to any device, which contains `DeviceSelection`, and a command ask
for any clones, which contains `MemConsistency`; its rings are sequences, which
`CommandRing` shows a `LockFreeQueueMS` to be. Its queues stay, and commands are
never deleted: `QueueLifetime` takes up both, with a pipeline reduced to what
holds references. `OutOfOrderQueue` shares the semaphore, the passes and the
ready queues of `CommandPipeline` in a form without bounds.

## 3. Modules

| Module | Contents |
|---|---|
| `CommandOrder` | what the application is promised: phases of commands in serial queues |
| `CommandPipeline` | the runtime's threads and queues; properties |
| `CommandPipelineInv` | the inductive invariant in named parts |
| `MCCommandPipeline` | TLC instances |
| `PipelineSteps_proofs`, `CommandPipeline_proofs` | proofs: types and one lemma per action; the theorems, with custody, the refinement and wake-ups |
| `QueueOrder` | what an out-of-order queue promises |
| `OutOfOrderQueue`, `MCOutOfOrderQueue`, `OutOfOrderQueue_proofs` | an out-of-order queue between hosts, scheduler and devices; proofs |
| `QueueLifetime`, `MCQueueLifetime`, `QueueLifetime_proofs` | creation, references and destruction of queues; proofs |
| `BoundedFifo` | what a ring promises |
| `CommandRing`, `MCCommandRing`, `CommandRing_proofs` | `LockFreeQueueMS`, one access per step; proofs |
| `MemConsistency`, `MCMemConsistency`, `MemConsistency_proofs` | where the contents of memory objects are; proofs |
| `DeviceSelection`, `MCDeviceSelection`, `DeviceSelection_proofs` | which device a queue is bound to; proofs |
| `ProgramBuild`, `MCProgramBuild`, `ProgramBuild_proofs` | builds of a program, their notification, kernel information; proofs |

### CommandPipeline

Every variable names the field it stands for in its comment. Commands and
clones are created once and never reused (addresses of deleted commands do not
come back); `status[e] = "none"` means not yet created.

Atomicity: a step runs from one access another thread can tell apart to the
next. `Submit` (status) and `EnqueueReadyQueue` (ready queue) are two steps; the
issuer's `SetAsComplete`, `RunCallbacks` and `IssuerInvoke` are three, as
`SetStatus` releases `mutex_complete_` before it runs callbacks and posts
semaphores after. `CLEvent::Wait` is one step up to `pthread_cond_wait`, since
`mutex_complete_` is held; `clSetUserEventStatus` is three. A call that enqueues is
two: `Enqueue` chains the command to `last_event_` and makes it the new one, and
`Push` is the turn of `while (!queue_.Enqueue(command)) {}` that finds room; in
between the host is at the ring (`Pushing`), can do nothing else, and its event is
not known to others. The loop posts nothing: before a full ring that no flush has
covered it never ends (`Stuck`), for the marker of clFinish as for any command. A
queue has one owner thread (`Owner`): the code takes no lock
around `last_event_` (a hazard), so two threads on one queue are outside the
model. The parts of a scheduler step that only the scheduler can see are merged.

What is abstracted:

- *Device selection.* A flush gives every `Rebindable` queue any device. This
  contains whatever `Progress` (CLScheduler.cpp:124-664) decides.
- *Clones.* `CloneMem` decides what to copy from the directory of latest copies;
  here a command in `resolve` may submit any number of clones in either of the
  two forms, copy (one command) or read and write (chained by a callback).
- *A read resolved on another device* (`ChangeDeviceToReadMem`) is `Resolve` with
  `d` other than the queue's device. A read of zero bytes in an automatic queue
  is completed by the scheduler itself.
- *Rings* are bounded sequences; `CommandRing` is why. `RingSize` is
  `COMMAND_QUEUE_SIZE - 1`, `ReadySize` is `READY_QUEUE_SIZE - 1`.
- *Condition variables* do not wake spuriously.
- The order of the queues in a pass is left open; queues are neither added nor
  removed, which is `QueueLifetime`'s subject.

History variables (`ticket`, `issued`, `deps`, `flushed`) record what was asked
for; no guard reads them except the counting of `issued`.

Definitions whose name ends in `_Slip` or `_LateStatus` are faulty forms of the
definition next to them. Nothing uses them: replacing the definition by its
faulty form must make the property that is paired with it in `PROJECT.json`
fail, which shows that the property can tell the difference.

### QueueLifetime

`refs` is `ref_cnt_` of a queue and `evRefs` that of a command's event; `life` says
how far a queue's constructor or destructor is. Who holds references: the
application (`handles`, and `kept` for events it asked for), a command and its
event to their queue, a command, a blocking call, a wait list (`waitsOn`) and
`last_event_` to an event. `DeleteCommand` and `ReleaseEvent` are the two halves of
`~CLCommand`; whichever thread drops the last reference to a queue goes on, in
`ReleaseQueue`, to its destructor: `remove`, then `parked` in
`RemoveCommandQueue` until the scheduler's next `UpdateQueues`, then `removed`,
then the memory is freed. The scheduler deletes a command itself when it was
complete at once, and may then park waiting for itself (`WaitsForItself`).

`listed` and `nulls` are `queues_`, `targets` the copy a pass walks, `todo` what is
left of it. A queue is listed by the base class's constructor and taken off the
list by the base class's destructor, and `Peek` and `Dequeue` are virtual: on a
queue that is not fully constructed, or no longer, the call may end the process
(`fault`) or find what was there. No property forbids that; what is claimed about
queues holds in the executions in which the process goes on.

Two things follow from the references that the module counts. `clReleaseEvent` and
`clRetainEvent` return `CL_INVALID_EVENT` for every event that is not NULL, so an
event the application asked for, and with it the queue, is never given back
(`kept` only grows). And `last_event_` refers to an event that refers to the
queue: an in-order queue that was ever used is never destroyed, and
`~CLInOrderCommandQueue`'s release of `last_event_` is never reached. `Returns`
names the queues that remain, and `Reclaimed` says they are freed.

What a command does and where it goes is left out: any issuer may take it. Wait
lists hold `last_event_` only. `MaxHandles` bounds what the application retains.

### OutOfOrderQueue

`commands_` is the set `listed` with the order of appending (`order`), a ready
queue the set of submitted commands with their `turn`. A pass looks at the queue
once: `Peek` takes the first executable command, a marker or barrier only from
the front; `Unresolved` leaves it with a clone to wait for; `Submit` or
`CompleteAtOnce`, then `Dequeue`, which removes the command by its address. A read
may go to any device, the others to the queue's. `Progress` is a flush of an
in-order queue of the context, which may rebind this one.

`QueueOrder` is what the application can rely on: commands start in any order, but
a marker or barrier starts after all that were enqueued before it, and what is
enqueued after it starts later, *unless the marker or barrier came with a wait
list*: then `Peek` skips it while the list is not complete, and goes on.

Two hazards are constants of the module. `Overtakes`: between `Submit` and
`Dequeue` an issuer may complete and delete the command, and a host allocate the
next one at the same address (`heir`), which `list::remove` then drops too.
`ClearsPending`: the performance models of `Progress` clear `commands_` of every
queue, which here is the list of pending commands. With either, `Custody` fails,
after seven and three states. No line of the repository says otherwise, so there
is no finding; the run and the theorems set both to FALSE.

### CommandRing

Each access to an index or an element is a step, in program order (volatile
indices, a full barrier in each swap; x86 keeps the order of the rest). The
caller of `Enqueue` repeats it while the ring is full, as all its callers do.

The swap of `idx_w_cas_` compares with an index read earlier. If other producers
and the consumer move the ring exactly one lap in between, the swap succeeds
although the test for a full ring was made on an old `idx_r_`. `lag` counts the
claims a producer has missed and `MaxLag` bounds it: with at most `Size - 1`
claims missed the ring is a FIFO (`ring_producers`, and for every size the
theorems of `CommandRing_proofs`); with `Size` it is not (`ring_lapped`).
With the real sizes a thread must be delayed for 4096 enqueues.

### MemConsistency

A memory object has a version on each device (`copy`), a directory of the devices
that hold the latest one (`latest`), and a history of what the application
expects (`value`, the number of writes executed). `Resolve` is the first pass of
`ResolveConsistency` over the head of a ring: it picks a source for each object
the command needs (`Choices`), submits the transfers (`CloneTask`) and adds the
device to the directory at once, before any data has moved (`Bring`). `Submit` is the pass
after the transfers are complete; it applies `Update...Consistency` (`Access`).
`Execute` and `Transfer` are the issuer's, `Transfer` with the callback that
turns a finished read into a write on the other device.

The commands are kernels (one argument read, one written), reads, maps, writes,
fills and copies, whole or partial; a partial write needs the rest of the object
on its device. The scheduler's part is kept to what concerns memory: a command is
resolved when its wait list is done, whichever pass that is.

Assumed: the application orders all commands that use a memory object in common,
readers too (a second reader may otherwise see `AddLatest` of a clone that has
not arrived; listed among the hazards); a fill covers its object; all devices
are on one node. In the passing run a queue is not rebound between the two passes
over one command (`RebindMidway`); `mem_rebind` shows what happens if it is.

### DeviceSelection

`Progress` runs on the thread that flushes. `BeginPass`, one `EstimateQueue` or
`SkipQueue` per queue, then `EndEpoch`, `Synchronise` or `BindByPass` are the
stages of a pass; `RoundRobin` is a pass of its own, which rebinds every queue of
the context, automatic or not, although the comment in its loop speaks of the
queue's properties. Queues are numbered in the
order of `queues_`. Issuers delete commands at any time, also during a pass, and
`commands_` keeps their addresses: touching one ends the model's process
(`fault`), as does adding to a row of size 0. The scheduler and the set of
automatic queues are chosen at the start and never change.

Each loop of `Progress` (over a queue's commands, over the devices, over the queues)
is a recursive function of the number of turns: `Launches`, `CostOf`, `Choose`,
`Decide`. `Turn(n)` is the queue whose turn it is, as the code segmented scheduler
goes through `queues_` backwards.

The measured costs (`EstimatedCost`) may be any of `Costs` each time a kernel has
to be measured, since they depend on where its data is. `record` is
`epochPerformances_`, keyed by kernel names and by their concatenations, which
are sequences of characters so that collisions are possible; the run uses names
that do not collide, and `Accounted` (section 5) says which do not. Costs are whole numbers, and the percentages are compared
without division, which is exact; `abs` is read as the floating-point one.
`since` and `account` are history variables; only the bound on `since` is read by
a guard.

One application thread enqueues and flushes: `Progress` takes no lock, so two
concurrent passes race on everything (listed among the hazards). The queues of
the scheduler belong to one context, as `Progress` requires.

### ProgramBuild

One program. A call (`BuildCall`, `CompileCall`, `LinkCall`) names a list of
devices and begins with `EnterBuild`, the critical section that admits it, for all
its devices or none; `Issue` is one turn of the call's loop, which stores the
callback and enqueues a command for the device's issuer. The issuer then makes
`CompleteBuild` (up to the unlock), `ReadCallback` and `ClearCallback` (the two
statements of `CountdownBuildCallback`, without the mutex), `Countdown` (where the
last device runs `pfn_notify`) and `ReadKernelInfo`, which holds the mutex
throughout. These are separate steps because other devices and host threads come
in between. The back end is the legacy one.

A list is the application's, which may name a device twice (`IsValidDevices` does
not mind), or all devices. A link makes the program, so it is the first call, and
its list are the devices for which the input programs have binaries: each once, or
none at all. Then `EnterBuild` succeeds, nothing is enqueued and `pfn_notify` never
runs. The program's handle exists for other calls when clLinkProgram has returned
(`HasHandle`).

A call may enter the build of a device between `CompleteBuild`'s unlock and
`ClearCallback`: its callback is then taken for the first one's, or cleared.
`overtook` records who did this to whom, and the properties say what is left:

- for every call, `count_` never falls below the countdowns the call may still get,
  and `pfn_notify` of a call that has devices has run exactly when it is 0;
- a call that neither overtakes nor is overtaken loses no countdown, and one that
  has not overtaken another is notified after its last device, if no list names a
  device twice (`NoRepeats`). One that does has two commands and one callback in
  `build_callback_`, so its notice may come early, or not at all, and its executable
  is counted twice.

`CountSound` says what `HasAllExecutable` may conclude: each counted executable has
a handle in `executable_`. The handle may be one that `ChangeExecutable` has released.

`kernels_` is what it knows of the program's one kernel (`infos`) and whether it
holds pointers to deleted objects (`dangling`): `BeginRegisterKernelInfo` deletes
them on a new build and does not clear the vector. Walking it then, or using an
executable that `ChangeExecutable` released instead of the old one, ends the
process (`fault`); a driver that reports an error instead lets it go on. So a
second successful build of a device always meets a fault or an error. What the
runs explore beyond that is every order of failing builds, compilations, builds
of the other device and kernels made and released in between.

Assumed: `countdown` reads `count_` once (it is compiled with -O3; the source
names it twice); `devices_` names each device once; a program without source is
built only for devices whose last build succeeded, which therefore have a binary
(for another device of an implicit list the back end reads a null pointer).
Argument checks and
`CL_INVALID_KERNEL_DEFINITION` (kernels that differ between devices) are left
out; `build_in_progress_cnt_` is written and never read.

## 4. Runs

| Run | Question | Bounds |
|---|---|---|
| `pipeline_order` | do commands of one queue stay in order while it moves between devices, with failing commands and full rings? | 3 commands, 2 devices, ring of 2, ready queues of 1: the third call finds the ring full and spins, for ever if nothing was flushed; a submit finds the ready queue full |
| `pipeline_clones` | are clones, chained by callbacks on issuer threads, neither lost nor doubled, and which calls return? | 1 automatic queue, 2 devices, 2 commands, 3 clones: a chain and a copy at once; a ring of 1 and ready queues of 1, so that a caller and a callback find one full; the whole inductive invariant is checked here |
| `pipeline_users` | are wait lists across queues and user events respected, when two hosts set one user event? | 2 queues, 2 commands, 2 hosts, 1 user event; nothing fails here, which no guard tells from completing (`pipeline_order` has both) |
| `ring_producers` | is the ring a bounded FIFO? | 3 producers, ring of 2, lag at most 2 |
| `ring_lapped` | what if a producer sleeps for a lap? | fails: finding |
| `mem_moves` | does a command find what the last writer wrote, and does the directory tell the truth once traffic has settled? | 3 commands in 2 queues, 3 devices in 2 contexts (copies within one, read and write across), 2 memory objects, one of them CL_MEM_READ_ONLY and written only as a whole, 8 kinds of commands |
| `mem_rebind` | what if a queue is rebound while its head waits for transfers? | fails: finding |
| `select_gain` | is every kernel counted once, and does a queue move exactly for a gain above the threshold? | 4 schedulers, 2 queues, each automatic or not, 2 devices, 2 kernels, costs below the threshold, above it, and above it in the other direction, 2 commands between decisions |
| `program_builds` | do the counters, the notification and the kernel information survive any order of builds, compilations, failures and kernels? | 2 devices, 3 calls (a build, its repetition and one that overlaps both) that list 3 devices together and 2 each at most (`MaxWork`, `MaxList`), 2 kernels |
| `select_deleted` | does `Progress` look at enqueued commands only? | fails: finding |
| `ooo_queue` | is nothing lost, does a marker cover what came before it, and is everything executed? | 3 commands: a marker, a read (of no bytes, at times) and one that may need the one clone; 2 devices, the queue may be rebound at any time |
| `queue_life` | are queues freed once, when nothing uses them, and are they freed at all? | an in-order and an out-of-order queue, 2 commands, one of which may be complete at once, 1 host, 1 issuer and the scheduler: each of the three can drop the last reference |

The three findings, each in `PROJECT.json` with the line of the repository that
says otherwise:

- `ring_lapped`: "Multiple Producers" holds only while no producer is overtaken
  by a full lap between its test for a full ring and its swap.
- `mem_rebind`: `consistency_resolved_` is not tied to the device it was resolved
  for, so a rebound queue runs its head where its data is not.
- `select_deleted`: an event of any queue starts a scheduler pass, so a command
  may have run and been deleted before the flush that wants to estimate it.

Two queues show every interaction between queues (they meet only in ready queues
and wait lists), three commands make a chain with a middle, and two devices make
a queue move; three devices in two contexts make both kinds of transfers, and
rows of costs that two queues add up. `MaxPosts` bounds only calls of clFlush
beyond pending posts: further posts cause passes that find nothing new.
Three calls on one program make a build, one after it and one concurrent with
either, and two kernels tell the last release from another. With three devices
listed by all calls together (`MaxWork`), one call may have both devices, or one
device twice, and another overtake it, or each of three may have one; what the
bound leaves out is two calls with two devices each, which the theorems cover.
`MaxCommands` bounds what is enqueued between two decisions; a longer epoch adds
more rows of the same costs. `MaxLag` bounds how far a producer falls behind and
is the assumption under which the ring is correct, not a convenience.

Two more disagreements have no line of the repository to be held against and are
hazards only. A partial write to a CL_MEM_READ_ONLY object is sent to all devices
and makes all of them "latest", also those that never had the rest: with
`Write(m1, FALSE)` in `ReadOnlyOps` of `MCMemConsistency`, `FreshData` fails. And
two issuers whose callbacks each push to the other's full ready queue spin for
ever (`Jammed`): with two queues, six clones and ready queues of 1,
`CommandPipeline` gets there in 17 steps. `pipeline_clones` has one queue, where
data moves towards one device at a time, and does not get there; it is the other
exception of `WaitReturns` that it meets: with a ring of 1, a second call before
any flush is `Stuck`. What `WaitReturns` then says is that every other call returns,
among them a call that spins on a ring that was flushed, a blocking call and a wait.

One host is enough in `queue_life`: what hosts share is the scheduler's list, and
the second thread that creates, uses and destroys there is the issuer or the
scheduler. The theorems cover any number of each.

Deadlock is checked except where the system may stop: a host that waits for a
user event nobody sets, a host with nothing left to call, one that spins on a ring
nobody flushes (`pipeline_order`, `pipeline_clones`), a process that ended.

Fairness (`FairSpec` of `CommandPipeline`): weak fairness of the scheduler
thread, of each issuer thread and of a host thread inside a call. The operating
system runs all threads; no fairness is assumed of the application making calls.
`QueueLifetime` and `OutOfOrderQueue` assume the same: the runtime's threads, and
in `QueueLifetime` a host inside a call, go on; `OutOfOrderQueue` also that a clone
handed to a device is done some time (`CompleteClone`), which is `pipeline_clones`'
result. Weak fairness is enough: in no run does progress depend on a step that is
enabled again and again but never for good.

## 5. Proofs

For all finite or infinite sets of queues, devices, hosts and commands, any ring
and ready-queue sizes, under the assumptions on the constants
(`CommandsAssumption`, `OwnerAssumption`, `BoundsAssumption`):

- `TypeCorrect`, `InOrder`, `WaitList`, `DequeueRequestValid` (invariants),
  `StatusMovesForward` (action property) and `Invariance` (`IInv`);
- `KeptInCustody` and `NeverOversleeps`;
- `Refinement`: `Spec => ImplementsOrder`.

Why `IInv` is needed. `InOrderExecution` is not inductive: that a started
command's predecessors are complete follows, for the whole chain, from each
*queued* command still waiting for its immediate predecessor or that one being
complete (`StillWaits`), from tickets being consecutive and `last_event_` being
the last ticket's event (`Numbered`), and from `IsExecutable` emptying a wait
list only when all its events are complete. To know that the command the
scheduler submits is still queued, `Held`, `Rings` and `InHand` say where a
command can be, and `AtRing` that the command of a call that spins is in no ring, so
that `Push` leaves each in one place; `InReady`, `Issuing` and `Chained` give the
status of commands with devices, so that a status is never set back.
`PipelineSteps_proofs` has one lemma per action; `CommandPipeline_proofs` combines them.

`Custody` needs two facts about places besides (`CustodyInv`): a command that is
about to enter a ready queue is bound to a device (`Directed`), and a submitted
command is in a ready queue or in the scheduler's hands, a running one in an
issuer's (`Placed`). That it is in one place only is in `IInv` already.

`NoLostWakeup` speaks of the moment when the scheduler sleeps; `WakeInv` follows a
queue with work from the step that gave it the work. Either the semaphore has been
posted or some thread is about to post it (`Busy`), or the pass in progress is
still to visit the queue (`Visited`). A pass may leave a queue behind in two ways
only: its head cannot be submitted, or the pass has just submitted something,
whose issuer will post (`Followed`). What makes it inductive is that nothing but
the beginning of a pass takes a post away (`BusyStays`), and that a pass begins
with every queue still to visit.

The refinement maps the status of commands and user events to phases and hides
everything else. `Resolve`, clones, rings and wake-ups stutter; `Submit` and
`CompleteAtOnce` are `Start`, whose guard is `InOrderExecution` and
`WaitListRespected` after the step; `SetAsComplete` is `Finish`.

About `ProgramBuild`, for all finite sets of devices, all calls, lists and
kernels: `KernelsCounted`, `InfosNotDeleted`, `ExecutablesCounted`,
`NoticesKept` and `NotifiedAtLast`, with no assumption on which calls overtake;
the conditions are those written in the properties. `KernelInv` adds to
`RefsCountKernels` that the kernels are finitely many, so that a counter that is
not positive means there are none (`NoKernels`): on this `EnterBuild`, which
sets -1, and `BeginRegisterKernelInfo`, which deletes, both rely. `BuildInv`
adds to `CountSound`, if no list repeats a device (`LineInv`), that a device is
in the hands of one call at a time (`InLine`): in the call's loop or with the
issuer, its build in progress all the while, so that `EnterBuild` subtracts only
devices that count and `CompleteBuild` adds one that did not. `NoticeInv` holds
for all calls: `count_` is at least what the loop, `build_callback_` and the
issuers have in hand (`Owed`), because each step that takes a callback out of
one place puts it in another or drops it. `HandInv` is for lists without
repetitions: a device of a call is in the loop, with the issuer or completed
(`PathOf`); a callback in the program belongs to the build that is pending on
its device, or to the current one while its issuer has not cleared it, and a
callback that an issuer has read belongs to its build or to one that overtook it
(`HandAt`). So only a call that overtakes, or is overtaken, ever loses a
callback, and `count_` is exact for the others (`ExactOf`); and `count_` of a
call that overtakes none is at least the number of devices that have not counted
down for it (`LateOf`), which makes the notice the last.

About `QueueLifetime`, for all sets of queues and finite sets of commands and
threads: `TypeCorrect`, `FreedForgotten`, `NullsPending`, `ReferencesExact` and
`NotDestroyedUnderUse`, from the invariant `IInv`: besides the counts
(`RefsExact`) it says which thread has which queue and command in hand and that
two threads never have the same (`Hands`), that queues and wait lists refer to
events of commands that were enqueued, each from one place (`Chain`), that a queue on
its way out is neither listed nor, once the scheduler has taken notice, in its
copy (`Removal`), and that commands exist in constructed queues only
(`Constructed`). The counts are cardinalities of the sets of holders; a step that
takes or drops a reference adds or removes one element.

About `OutOfOrderQueue`, for all devices, clones and finite sets of commands, if
neither address is reused nor a list cleared (`Undisturbed`): `TypeCorrect`,
`FinishIsSound` and `Refinement` (`Spec => ImplementsQueueOrder`). That no command
is lost is then bookkeeping (a part of `IInv`), and no theorem: the code's two ways
to lose one are what `Undisturbed` excludes. A marker covers the earlier commands of its
device because it starts after them (`StartsInOrder`), so has a later turn in the
ready queue (`MarkersLast`), and a device takes commands in turn (`InTurn`).

`TypeCorrect` of `ProgramBuild` assumes finitely many kernels: its bounds
are those on `count_` (by `NoticeInv`, between what is owed and the devices listed)
and on `kernels_ref_cnt_` (by `KernelInv`, the kernels).

About `CommandRing`, for any number of producers and any size: `TypeCorrect` and,
if no producer misses a whole lap (`MaxLag < Size`, which `ring_lapped` shows to be
necessary), `Exclusive`, `PeekedIsDequeued` and `Refinement`
(`Spec => ImplementsFifo`). `RingInv` ties the three indices together: going up the
ring they are met in the order `idx_r_`, `idx_w_`, `idx_w_cas_` (`Ordered`). A
producer's swap succeeds when `idx_w_cas_` is what the producer has read; as `lag`
is how far it has gone since (`LagExact`), and less than a lap, that means nobody
claimed a slot in between, and the test for a full ring is still good, because the
consumer only makes room (`ClaimFits`). Each claimed slot is then the producer's
alone until `idx_w_` passes it, and its element is in place when it does
(`Carried`). The refinement maps `Publish` to an enqueue, `Advance` to a dequeue,
and the rest to stutters. Remainders are dealt with once, in `RingValues`: all
other lemmas use its case distinction.

About `MemConsistency`, for all sets of queues, devices, contexts, memory objects,
commands and operations (`MemAssumption` says what an operation is): `TypeCorrect` and `ControlInvariant`, and under two
conditions `AlwaysFresh`, `DirectoryCorrect` and `NothingLost`, from `MemInv`. The
conditions are those of the runs: no queue is rebound midway (`~RebindMidway`;
`mem_rebind` shows that it is needed), and a fill is of the whole object, as is
what is written to a CL_MEM_READ_ONLY object, which goes to every device
(`WholeWrites`; of what happens otherwise, the partial write to a CL_MEM_READ_ONLY
object is listed among the hazards, `CLCommand.cpp:416`). `FreshData` speaks of the moment of
execution. `Control` says what may be under way until then: the head of a ring is
resolved, once; its transfers, one for each object, are in ready queues exactly
while it waits for them (`Moving`); no task of it is left once it is submitted
(`Executing`); and of two commands that use an object in common one is complete or
not yet resolved (`OneAtATime`, from the application's order), so that nobody
touches what is on its way. `Data` follows the contents: a device in the directory
has them, or a transfer brings them, or a submitted command will write them
(`Directory`); a transfer takes the latest version with it (`Carrying`), the
temporary buffer of a read and write included; and what a resolved command needs
is where it will look, or on its way there (`Arrived`). When the transfers are
complete, nothing is on its way, so everything has arrived. The lemmas have one
section for the first pass over a command, one for its submission, one for its
execution and one for a transfer, each for control and for data.

About `DeviceSelection`, for any numbers of queues and devices, any costs, names,
threshold and set of schedulers: `TypeCorrect`, `StaysNearBest` and
`MovesOnlyForGain`, from `SelInv`, and, under a condition on the kernels' names,
`Accounted`. What a loop computes is shown by induction over
its turns. The library's induction theorems take an operator as a parameter, so
`Induction`, `BoundedInduction` and `Iteration` (a loop's function exists, and has
the values it should) are proved first, from the least element of a set of naturals
(`LeastElement`, by the library's `WFMin`). `ChooseBest`: the one pass over the
devices ends at a device that none beats, since a device that beats another is not
beaten by any that the other was not beaten by (`BeatsOrder`, where the percentages
of the code matter). `Decision`: a queue that is decided goes to `Choose` of its own
costs and of what the queues before it put on each device, which is what `CostOn`
counts afterwards, when all queues are bound; for this the load after each turn is
compared with the sum over the accounts of the earlier turns. `SelInv` adds to the
types that a queue with a kernel has a row of this pass (`Rowed`) and that the round
robin scheduler, which moves queues for nothing, keeps no accounts
(`RoundRobinIsIdle`).

`Accounted` (`Accounting` for any commands, flushes and estimates) assumes that
sequences of kernels whose names put together read the same have the same names
(`Unambiguous`). The code relies on it and does not ensure it: kernels `a`, `ab`
and `b` break it, and what then goes wrong is listed among the hazards
(`CLScheduler.cpp:222`). `NamesApart` shows that it is enough that no name is the
end of another, as in the run. The invariant `AccInv` has two parts. A queue's
history ends with what is pending in `commands_` (`EndsPending`), so that a pass
counts each command once, when it is at the queue (`CountsStay`,
`EstimateBalances`). And every record, of a name or an epoch string, is what the
kernels it stands for cost together by the records (`Consistent`), each of which
stays (`Extends`) until the next explicit synchronisation; `RecordEpoch` shows that
a pass keeps this, also for a single kernel, whose epoch string is its name. Costs of sequences put together then add up (`CostConcat`).

Only model-checked: liveness (`WaitReturns`, `Completes`, `Reclaimed`), which the
proof system does not handle.

## 6. Not modelled

`src/compiler`, `src/builtins`, hwloc, gpgpu-sim and `apps` have none of the
runtime's control. What kernels and copies compute, argument validation, info
queries, profiling and timers are left out. The CLUSTER build (four polling
schedulers, polling issuers, MPI) and everything listed under "Next" is not
modelled yet. Of device selection, the choice at creation of a queue
(`SelectBestDevice`), training kernels and the measurement itself are left out.
Of queues, `clSetCommandQueueProperty` and several host threads on one in-order
queue, which race on `last_event_`, are; of commands, `clEnqueueBroadcast` and
`clEnqueueAlltoAll`, which create commands and never enqueue them; of memory
objects, sub-buffers, whose list of latest copies is not tied to their parent's.
Contexts, samplers, programs and memory objects are counted like queues and not
modelled as such.
