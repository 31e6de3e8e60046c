-------------------------- MODULE CommandPipeline --------------------------
(***************************************************************************)
(* The path of a command through the MultiCL runtime: a host thread puts   *)
(* it in an in-order queue, the scheduler thread takes it out, makes its   *)
(* memory consistent and hands it to a device, the device's issuer thread  *)
(* executes it and completes its event, which wakes the scheduler and the  *)
(* host threads that wait.                                                 *)
(*                                                                         *)
(* One scheduler and one blocking issuer per device, as in the CPU and     *)
(* LEGACY builds.  Queues are the in-order queues of one context, created  *)
(* before the behaviour starts.  A step is what a thread does between two  *)
(* accesses another thread can tell apart.                                 *)
(***************************************************************************)
EXTENDS Integers, Sequences, FiniteSets

CONSTANTS
  Queues,       \* in-order command queues of one context
  Devices,      \* its devices, each with an issuer thread
  Hosts,        \* application threads
  Commands,     \* commands the application enqueues
  Clones,       \* internal commands that move memory between devices
  UserEvents,   \* events of clCreateUserEvent
  Owner,        \* the host thread that enqueues to a queue
  Rebindable,   \* queues whose device Progress() may choose
  RingSize,     \* commands a queue's ring holds (COMMAND_QUEUE_SIZE - 1)
  ReadySize,    \* commands a ready queue holds (READY_QUEUE_SIZE - 1)
  Outcomes,     \* how Execute() may end: with CL_COMPLETE or with an error
  MaxWaitList,  \* bound: events in an explicit wait list
  MaxPosts,     \* bound: pending semaphore posts beyond which hosts do not clFlush
  None

Work   == Commands \cup Clones
Events == Work \cup UserEvents

ASSUME CommandsAssumption ==
  /\ Commands \cap Clones = {}
  /\ Work \cap UserEvents = {}
  /\ None \notin Events
  /\ None \notin Queues
ASSUME OwnerAssumption == Owner \in [Queues -> Hosts] /\ Rebindable \subseteq Queues
ASSUME BoundsAssumption ==
  /\ RingSize \in Nat \ {0}
  /\ ReadySize \in Nat \ {0}
  /\ Outcomes \subseteq {"complete", "error"}
  /\ MaxWaitList \in Nat
  /\ MaxPosts \in Nat

VARIABLES
  status,     \* CLEvent::status_ of the event of each command, and of user events
  waits,      \* CLCommand::wait_events_
  queueOf,    \* CLCommand::queue_, None for clones and commands not created
  resolved,   \* CLCommand::consistency_resolved_
  bound,      \* CLCommand::device_
  callback,   \* the command IssueCommandCallback submits when this one completes
  device,     \* CLCommandQueue::device_
  last,       \* CLInOrderCommandQueue::last_event_
  pending,    \* CLInOrderCommandQueue::queue_
  ready,      \* CLDevice::ready_queue_
  posts,      \* CLScheduler::sem_schedule_
  schedAt,    \* where the scheduler thread is
  todo,       \* queues the pass in progress has not visited
  current,    \* the command the scheduler holds
  issuerAt,   \* where each issuer thread is
  executing,  \* the command each issuer holds
  hostAt,     \* where each host thread is
  blockedOn,  \* the event a host thread enqueues, waits for or sets
  ticket,     \* history: position of a command among those of its queue
  issued,     \* history: commands enqueued to each queue so far
  deps,       \* history: wait list a command was enqueued with
  flushed     \* history: commands that were in the ring when it was flushed

commandVars == <<queueOf, deps, ticket>>
bindVars    == <<resolved, bound>>
queueVars   == <<device, last, pending, issued, flushed>>
schedVars   == <<schedAt, todo, current>>
issuerVars  == <<issuerAt, executing>>
hostVars    == <<hostAt, blockedOn>>
vars == <<status, waits, commandVars, bindVars, callback, queueVars, ready,
          posts, schedVars, issuerVars, hostVars>>

Statuses == {"none", "queued", "submitted", "running", "complete", "error"}
(* CLEvent::IsComplete(): CL_COMPLETE or a negative status. *)
IsComplete(e) == status[e] \in {"complete", "error"}
Started(e)    == status[e] \notin {"none", "queued"}

Init ==
  /\ status = [e \in Events |-> IF e \in UserEvents THEN "submitted" ELSE "none"]
  /\ waits = [c \in Work |-> {}]
  /\ queueOf = [c \in Work |-> None]
  /\ resolved = [c \in Work |-> FALSE]
  /\ bound = [c \in Work |-> None]
  /\ callback = [c \in Work |-> None]
  /\ device \in [Queues -> Devices]
  /\ last = [q \in Queues |-> None]
  /\ pending = [q \in Queues |-> <<>>]
  /\ ready = [d \in Devices |-> <<>>]
  /\ posts = 0
  /\ schedAt = "wait" /\ todo = {} /\ current = None
  /\ issuerAt = [d \in Devices |-> "wait"]
  /\ executing = [d \in Devices |-> None]
  /\ hostAt = [h \in Hosts |-> "idle"]
  /\ blockedOn = [h \in Hosts |-> None]
  /\ ticket = [c \in Work |-> 0]
  /\ issued = [q \in Queues |-> 0]
  /\ deps = [c \in Work |-> {}]
  /\ flushed = {}

-----------------------------------------------------------------------------
(* Host threads *)

(* Slip: an explicit list takes the place of last_event_. *)
WaitEvents_Slip(q, W) == IF last[q] # None /\ W = {} THEN {last[q]} ELSE W

(* CLInOrderCommandQueue::Enqueue() adds last_event_ to the wait list. *)
WaitEvents(q, W) == IF last[q] = None THEN W ELSE W \cup {last[q]}

(* A clEnqueue call: the new command waits for the events of its list and  *)
(* for last_event_, and becomes last_event_.  No scheduler is invoked.     *)
Enqueue(h, q, c, W, blocking) ==
  /\ hostAt[h] = "idle" /\ Owner[q] = h
  /\ status[c] = "none"
  /\ status' = [status EXCEPT ![c] = "queued"]
  /\ waits' = [waits EXCEPT ![c] = WaitEvents(q, W)]
  /\ last' = [last EXCEPT ![q] = c]
  /\ queueOf' = [queueOf EXCEPT ![c] = q]
  /\ bound' = [bound EXCEPT ![c] = device[q]]
  /\ deps' = [deps EXCEPT ![c] = W]
  /\ issued' = [issued EXCEPT ![q] = @ + 1]
  /\ ticket' = [ticket EXCEPT ![c] = issued[q] + 1]
  /\ hostAt' = [hostAt EXCEPT ![h] = IF blocking THEN "push_blocking" ELSE "push"]
  /\ blockedOn' = [blockedOn EXCEPT ![h] = c]
  /\ UNCHANGED <<resolved, callback, device, pending, flushed, ready, posts, schedVars,
                 issuerVars>>

(* The call is at while (!queue_.Enqueue(command)) {}. *)
Pushing(h) == hostAt[h] \in {"push", "push_blocking"}

(* The call finds room in the ring; on a full ring it spins, and posts     *)
(* nothing.  A blocking call, and clFinish with its marker, go on to       *)
(* Wait().                                                                 *)
Push(h) ==
  LET c == blockedOn[h]  q == queueOf[c] IN
  /\ Pushing(h)
  /\ Len(pending[q]) < RingSize
  /\ pending' = [pending EXCEPT ![q] = Append(@, c)]
  /\ IF hostAt[h] = "push_blocking"
       THEN /\ hostAt' = [hostAt EXCEPT ![h] = "blocking"]
            /\ UNCHANGED blockedOn
       ELSE /\ hostAt' = [hostAt EXCEPT ![h] = "idle"]
            /\ blockedOn' = [blockedOn EXCEPT ![h] = None]
  /\ UNCHANGED <<status, waits, commandVars, bindVars, callback, device, last, issued, flushed,
                 ready, posts, schedVars, issuerVars>>

(* The application has the event: the call that enqueues it has returned.  *)
Known(e) == status[e] # "none" /\ \A h \in Hosts : Pushing(h) => blockedOn[h] # e

InRing(q) == {c \in Commands : \E i \in DOMAIN pending[q] : pending[q][i] = c}

(* CLScheduler::Invoke() *)
InvokeScheduler == posts' = posts + 1

(* Slip: Flush() does not wake the scheduler. *)
FlushQueue_Slip(q) ==
  /\ device' \in {f \in [Queues -> Devices] :
                    \A p \in Queues \ Rebindable : f[p] = device[p]}
  /\ flushed' = flushed \cup InRing(q)
  /\ UNCHANGED posts

(* Flush(): Progress() may bind the queues it schedules to other devices,  *)
(* then the scheduler thread is invoked.                                   *)
FlushQueue(q) ==
  /\ device' \in {f \in [Queues -> Devices] :
                    \A p \in Queues \ Rebindable : f[p] = device[p]}
  /\ flushed' = flushed \cup InRing(q)
  /\ InvokeScheduler

(* clFlush *)
Flush(h, q) ==
  /\ hostAt[h] = "idle"
  /\ posts < MaxPosts
  /\ FlushQueue(q)
  /\ UNCHANGED <<status, waits, commandVars, bindVars, callback, last, pending, issued,
                 ready, schedVars, issuerVars, hostVars>>

(* CLEvent::Wait() up to pthread_cond_wait(): mutex_complete_ is held from *)
(* the test of status_ on, so the event cannot complete in between.        *)
BeginWait(h, e) ==
  /\ \/ hostAt[h] = "idle" /\ Known(e)
     \/ hostAt[h] = "blocking" /\ blockedOn[h] = e
  /\ IF IsComplete(e)
       THEN /\ hostAt' = [hostAt EXCEPT ![h] = "idle"]
            /\ blockedOn' = [blockedOn EXCEPT ![h] = None]
            /\ UNCHANGED <<device, flushed, posts>>
       ELSE /\ hostAt' = [hostAt EXCEPT ![h] = "waiting"]
            /\ blockedOn' = [blockedOn EXCEPT ![h] = e]
            /\ IF e \in Commands THEN FlushQueue(queueOf[e])
                                 ELSE UNCHANGED <<device, flushed, posts>>
  /\ UNCHANGED <<status, waits, commandVars, bindVars, callback, last, pending, issued,
                 ready, schedVars, issuerVars>>

(* The broadcast of the completed event ends the wait. *)
EndWait(h) ==
  /\ hostAt[h] = "waiting" /\ IsComplete(blockedOn[h])
  /\ hostAt' = [hostAt EXCEPT ![h] = "idle"]
  /\ blockedOn' = [blockedOn EXCEPT ![h] = None]
  /\ UNCHANGED <<status, waits, commandVars, bindVars, callback, queueVars, ready, posts,
                 schedVars, issuerVars>>

(* clSetUserEventStatus tests status_ outside mutex_complete_, so two       *)
(* threads that set one event may both pass the test.                      *)
SetUserEventStatus(h, u) ==
  /\ hostAt[h] = "idle" /\ ~IsComplete(u)
  /\ hostAt' = [hostAt EXCEPT ![h] = "setting"]
  /\ blockedOn' = [blockedOn EXCEPT ![h] = u]
  /\ UNCHANGED <<status, waits, commandVars, bindVars, callback, queueVars, ready, posts,
                 schedVars, issuerVars>>

(* SetStatus() of the user event, which ends with InvokeAllSchedulers(). *)
SetStatus(h, u, s) ==
  /\ hostAt[h] = "setting" /\ blockedOn[h] = u
  /\ status' = [status EXCEPT ![u] = s]
  /\ hostAt' = [hostAt EXCEPT ![h] = "invoke"]
  /\ blockedOn' = [blockedOn EXCEPT ![h] = None]
  /\ UNCHANGED <<waits, commandVars, bindVars, callback, queueVars, ready, posts,
                 schedVars, issuerVars>>

(* Slip: the status of a user event wakes nobody. *)
HostInvoke_Slip(h) ==
  /\ hostAt[h] = "invoke"
  /\ hostAt' = [hostAt EXCEPT ![h] = "idle"]
  /\ UNCHANGED <<status, waits, commandVars, bindVars, callback, queueVars, ready, posts,
                 schedVars, issuerVars, blockedOn>>

HostInvoke(h) ==
  /\ hostAt[h] = "invoke"
  /\ hostAt' = [hostAt EXCEPT ![h] = "idle"]
  /\ InvokeScheduler
  /\ UNCHANGED <<status, waits, commandVars, bindVars, callback, queueVars, ready,
                 schedVars, issuerVars, blockedOn>>

-----------------------------------------------------------------------------
(* The scheduler thread: CLScheduler::Run() *)

(* Slip: the pass does not wait for the semaphore. *)
BeginPass_Slip ==
  /\ schedAt = "wait"
  /\ posts' = posts - 1
  /\ schedAt' = "scan" /\ todo' = Queues
  /\ UNCHANGED <<status, waits, commandVars, bindVars, callback, queueVars, ready, current,
                 issuerVars, hostVars>>

(* sem_wait() returns and a pass over the queues begins.  The order of the *)
(* vector is left open. *)
BeginPass ==
  /\ schedAt = "wait" /\ posts > 0
  /\ posts' = posts - 1
  /\ schedAt' = "scan" /\ todo' = Queues
  /\ UNCHANGED <<status, waits, commandVars, bindVars, callback, queueVars, ready, current,
                 issuerVars, hostVars>>

EndPass ==
  /\ schedAt = "scan" /\ todo = {}
  /\ schedAt' = "wait"
  /\ UNCHANGED <<status, waits, commandVars, bindVars, callback, queueVars, ready, posts,
                 todo, current, issuerVars, hostVars>>

(* Slip: one complete event is enough. *)
IsExecutable_Slip(c) == waits[c] = {} \/ \E e \in waits[c] : IsComplete(e)

(* CLCommand::IsExecutable() *)
IsExecutable(c) == \A e \in waits[c] : IsComplete(e)

(* CLInOrderCommandQueue::Peek() would return the head of the ring. *)
Peekable(q) == pending[q] # <<>> /\ IsExecutable(Head(pending[q]))

PeekNothing(q) ==
  /\ schedAt = "scan" /\ q \in todo /\ ~Peekable(q)
  /\ todo' = todo \ {q}
  /\ UNCHANGED <<status, waits, commandVars, bindVars, callback, queueVars, ready, posts,
                 schedAt, current, issuerVars, hostVars>>

(* Slip: the wait list keeps its complete events. *)
Peek_Slip(q) ==
  LET c == Head(pending[q]) IN
  /\ schedAt = "scan" /\ q \in todo /\ Peekable(q)
  /\ bound' = [bound EXCEPT ![c] = device[q]]
  /\ current' = c /\ schedAt' = "resolve"
  /\ UNCHANGED <<status, waits, commandVars, resolved, callback, queueVars, ready, posts, todo,
                 issuerVars, hostVars>>

(* The head of the ring is executable: its wait list is emptied, and       *)
(* ResolveConsistency() starts by binding it to the queue's device.        *)
Peek(q) ==
  LET c == Head(pending[q]) IN
  /\ schedAt = "scan" /\ q \in todo /\ Peekable(q)
  /\ waits' = [waits EXCEPT ![c] = {}]
  /\ bound' = [bound EXCEPT ![c] = device[q]]
  /\ current' = c /\ schedAt' = "resolve"
  /\ UNCHANGED <<status, commandVars, resolved, callback, queueVars, ready, posts, todo,
                 issuerVars, hostVars>>

(* CloneMem() with use_copy, or with use_write alone from host memory, and *)
(* the read of ResolveConsistencyOfCopyMem(): one internal command k,      *)
(* submitted to device d, which the command in hand then waits for.        *)
CloneByCopy(k, d) ==
  /\ schedAt = "resolve" /\ ~resolved[current]
  /\ status[k] = "none" /\ Len(ready[d]) < ReadySize
  /\ status' = [status EXCEPT ![k] = "submitted"]
  /\ ready' = [ready EXCEPT ![d] = Append(@, k)]
  /\ waits' = [waits EXCEPT ![current] = @ \cup {k}]
  /\ bound' = [bound EXCEPT ![k] = d]
  /\ UNCHANGED <<commandVars, resolved, callback, queueVars, posts, schedVars,
                 issuerVars, hostVars>>

(* Slip: the write is submitted with the read, and again by its callback. *)
CloneByReadWrite_Slip(r, w, d) ==
  /\ schedAt = "resolve" /\ ~resolved[current]
  /\ r # w /\ d # bound[current]
  /\ status[r] = "none" /\ status[w] = "none"
  /\ Len(ready[d]) < ReadySize /\ Len(ready[bound[current]]) < ReadySize
  /\ status' = [status EXCEPT ![r] = "submitted", ![w] = "submitted"]
  /\ callback' = [callback EXCEPT ![r] = w]
  /\ ready' = [ready EXCEPT ![d] = Append(@, r), ![bound[current]] = Append(@, w)]
  /\ waits' = [waits EXCEPT ![current] = @ \cup {w}]
  /\ bound' = [bound EXCEPT ![r] = d, ![w] = bound[current]]
  /\ UNCHANGED <<commandVars, resolved, queueVars, posts, schedVars, issuerVars, hostVars>>

(* CloneMem() with use_read and use_write: r reads on device d; w, which   *)
(* the command waits for, is submitted to its device by r's callback.      *)
CloneByReadWrite(r, w, d) ==
  /\ schedAt = "resolve" /\ ~resolved[current]
  /\ r # w /\ d # bound[current]
  /\ status[r] = "none" /\ status[w] = "none" /\ Len(ready[d]) < ReadySize
  /\ status' = [status EXCEPT ![r] = "submitted", ![w] = "queued"]
  /\ callback' = [callback EXCEPT ![r] = w]
  /\ ready' = [ready EXCEPT ![d] = Append(@, r)]
  /\ waits' = [waits EXCEPT ![current] = @ \cup {w}]
  /\ bound' = [bound EXCEPT ![r] = d, ![w] = bound[current]]
  /\ UNCHANGED <<commandVars, resolved, queueVars, posts, schedVars, issuerVars, hostVars>>

(* ResolveConsistency() fails: the command stays in its ring until its     *)
(* clones are complete.  A copy that had to fetch its source from the host *)
(* is then resolved anew.                                                  *)
Unresolved(again) ==
  /\ schedAt = "resolve" /\ waits[current] # {}
  /\ resolved' = [resolved EXCEPT ![current] = ~again]
  /\ todo' = todo \ {queueOf[current]}
  /\ current' = None /\ schedAt' = "scan"
  /\ UNCHANGED <<status, waits, commandVars, bound, callback, queueVars, ready, posts,
                 issuerVars, hostVars>>

(* ResolveConsistency() succeeds.  A read resolved for the first time goes *)
(* to the device that has the latest copy; a read of no bytes in an        *)
(* automatic queue is already complete.                                    *)
Resolve(d, next) ==
  /\ schedAt = "resolve" /\ waits[current] = {}
  /\ d = bound[current] \/ ~resolved[current]
  /\ next = "complete" => queueOf[current] \in Rebindable
  /\ resolved' = [resolved EXCEPT ![current] = TRUE]
  /\ bound' = [bound EXCEPT ![current] = d]
  /\ schedAt' = next
  /\ UNCHANGED <<status, waits, commandVars, callback, queueVars, ready, posts, todo, current,
                 issuerVars, hostVars>>

(* CLCommand::Submit(): the status, then the ready queue. *)
Submit ==
  /\ schedAt = "submit"
  /\ status' = [status EXCEPT ![current] = "submitted"]
  /\ schedAt' = "push"
  /\ UNCHANGED <<waits, commandVars, bindVars, callback, queueVars, ready, posts,
                 todo, current, issuerVars, hostVars>>

EnqueueReadyQueue ==
  /\ schedAt = "push" /\ Len(ready[bound[current]]) < ReadySize
  /\ ready' = [ready EXCEPT ![bound[current]] = Append(@, current)]
  /\ schedAt' = "dequeue"
  /\ UNCHANGED <<status, waits, commandVars, bindVars, callback, queueVars, posts,
                 todo, current, issuerVars, hostVars>>

(* SetAsComplete() of an already completed command, with its wake-up. *)
CompleteAtOnce ==
  /\ schedAt = "complete"
  /\ status' = [status EXCEPT ![current] = "complete"]
  /\ schedAt' = "invoke"
  /\ UNCHANGED <<waits, commandVars, bindVars, callback, queueVars, ready, posts,
                 todo, current, issuerVars, hostVars>>

SchedulerInvoke ==
  /\ schedAt = "invoke"
  /\ InvokeScheduler
  /\ bound' = [bound EXCEPT ![current] = None]
  /\ schedAt' = "dequeue"
  /\ UNCHANGED <<status, waits, commandVars, resolved, callback, queueVars, ready,
                 todo, current, issuerVars, hostVars>>

(* Slip: the command is dequeued again. *)
Dequeue_Slip ==
  LET q == queueOf[current] IN
  /\ schedAt = "dequeue"
  /\ pending' = [pending EXCEPT ![q] = Tail(@)]
  /\ UNCHANGED <<status, waits, commandVars, bindVars, callback, device, last, issued, flushed,
                 ready, posts, schedVars, issuerVars, hostVars>>

(* Slip: Submit() sets the status after the hand-over. *)
Dequeue_LateStatus ==
  LET q == queueOf[current] IN
  /\ schedAt = "dequeue"
  /\ pending' = [pending EXCEPT ![q] = Tail(@)]
  /\ status' = [status EXCEPT ![current] = "submitted"]
  /\ todo' = todo \ {q}
  /\ current' = None /\ schedAt' = "scan"
  /\ UNCHANGED <<waits, commandVars, bindVars, callback, device, last, issued, flushed,
                 ready, posts, issuerVars, hostVars>>

(* CLInOrderCommandQueue::Dequeue() drops the head of the ring. *)
Dequeue ==
  LET q == queueOf[current] IN
  /\ schedAt = "dequeue"
  /\ pending' = [pending EXCEPT ![q] = Tail(@)]
  /\ todo' = todo \ {q}
  /\ current' = None /\ schedAt' = "scan"
  /\ UNCHANGED <<status, waits, commandVars, bindVars, callback, device, last, issued, flushed,
                 ready, posts, issuerVars, hostVars>>

-----------------------------------------------------------------------------
(* The issuer thread of device d: CLIssuer::Run(), blocking *)

TakeReady(d) ==
  /\ issuerAt[d] = "wait" /\ ready[d] # <<>>
  /\ executing' = [executing EXCEPT ![d] = Head(ready[d])]
  /\ ready' = [ready EXCEPT ![d] = Tail(@)]
  /\ status' = [status EXCEPT ![Head(ready[d])] = "running"]
  /\ issuerAt' = [issuerAt EXCEPT ![d] = "execute"]
  /\ UNCHANGED <<waits, commandVars, bindVars, callback, queueVars, posts, schedVars, hostVars>>

(* Execute() returns, with or without an error, and SetAsComplete() sets   *)
(* the status of the event. *)
SetAsComplete(d, s) ==
  /\ issuerAt[d] = "execute"
  /\ status' = [status EXCEPT ![executing[d]] = s]
  /\ issuerAt' = [issuerAt EXCEPT ![d] = "callbacks"]
  /\ UNCHANGED <<waits, commandVars, bindVars, callback, queueVars, ready, posts,
                 executing, schedVars, hostVars>>

(* SetStatus() runs the callbacks: IssueCommandCallback submits the write. *)
RunCallbacks(d) ==
  LET w == callback[executing[d]] IN
  /\ issuerAt[d] = "callbacks"
  /\ IF w = None
       THEN UNCHANGED <<status, ready>>
       ELSE /\ Len(ready[bound[w]]) < ReadySize
            /\ status' = [status EXCEPT ![w] = "submitted"]
            /\ ready' = [ready EXCEPT ![bound[w]] = Append(@, w)]
  /\ issuerAt' = [issuerAt EXCEPT ![d] = "invoke"]
  /\ UNCHANGED <<waits, commandVars, bindVars, callback, queueVars, posts, executing,
                 schedVars, hostVars>>

(* SetStatus() ends with InvokeAllSchedulers(); the command is deleted,    *)
(* though the scheduler may still have to take it out of its ring.         *)
IssuerInvoke(d) ==
  /\ issuerAt[d] = "invoke"
  /\ InvokeScheduler
  /\ issuerAt' = [issuerAt EXCEPT ![d] = "wait"]
  /\ executing' = [executing EXCEPT ![d] = None]
  /\ bound' = [bound EXCEPT ![executing[d]] = None]
  /\ callback' = [callback EXCEPT ![executing[d]] = None]
  /\ UNCHANGED <<status, waits, commandVars, resolved, queueVars, ready, schedVars, hostVars>>

-----------------------------------------------------------------------------
WaitLists ==
  {W \in SUBSET (Commands \cup UserEvents) :
     Cardinality(W) <= MaxWaitList /\ \A e \in W : Known(e)}

HostStep(h) ==
  \/ Push(h)
  \/ \E e \in Commands \cup UserEvents : hostAt[h] = "blocking" /\ BeginWait(h, e)
  \/ EndWait(h)
  \/ \E u \in UserEvents, s \in Outcomes : SetStatus(h, u, s)
  \/ HostInvoke(h)

HostCall(h) ==
  \/ \E q \in Queues, c \in Commands, W \in WaitLists, blocking \in BOOLEAN :
       Enqueue(h, q, c, W, blocking)
  \/ \E q \in Queues : Flush(h, q)
  \/ \E e \in Commands \cup UserEvents :
       hostAt[h] = "idle" /\ ~IsComplete(e) /\ BeginWait(h, e)
  \/ \E u \in UserEvents : SetUserEventStatus(h, u)

Scheduler ==
  \/ BeginPass \/ EndPass
  \/ \E q \in Queues :
       PeekNothing(q) \/ Peek(q)
  \/ \E d \in Devices :
       \/ \E k \in Clones : CloneByCopy(k, d)
       \/ \E r, w \in Clones : CloneByReadWrite(r, w, d)
       \/ \E next \in {"submit", "complete"} : Resolve(d, next)
  \/ \E again \in BOOLEAN : Unresolved(again)
  \/ Submit \/ EnqueueReadyQueue \/ CompleteAtOnce \/ SchedulerInvoke \/ Dequeue

Issuer(d) ==
  \/ TakeReady(d)
  \/ \E s \in Outcomes : SetAsComplete(d, s)
  \/ RunCallbacks(d)
  \/ IssuerInvoke(d)

Next ==
  \/ \E h \in Hosts : HostStep(h) \/ HostCall(h)
  \/ Scheduler
  \/ \E d \in Devices : Issuer(d)

Spec == Init /\ [][Next]_vars

(* The operating system runs every thread; the application need not make   *)
(* calls, but a call it has made goes on.                                  *)
Fairness ==
  /\ WF_vars(Scheduler)
  /\ \A d \in Devices : WF_vars(Issuer(d))
  /\ \A h \in Hosts : WF_vars(HostStep(h))

FairSpec == Spec /\ Fairness

-----------------------------------------------------------------------------
(* Properties *)

HostPlaces == {"idle", "push", "push_blocking", "blocking", "waiting", "setting", "invoke"}

(* Every variable keeps to the values the code's fields can have. *)
TypeOK ==
  /\ status \in [Events -> Statuses]
  /\ waits \in [Work -> SUBSET Events]
  /\ queueOf \in [Work -> Queues \cup {None}]
  /\ resolved \in [Work -> BOOLEAN]
  /\ bound \in [Work -> Devices \cup {None}]
  /\ callback \in [Work -> Clones \cup {None}]
  /\ device \in [Queues -> Devices]
  /\ last \in [Queues -> Commands \cup {None}]
  /\ pending \in [Queues -> Seq(Commands)]
  /\ ready \in [Devices -> Seq(Work)]
  /\ posts \in Nat
  /\ schedAt \in {"wait", "scan", "resolve", "submit", "push", "complete", "invoke", "dequeue"}
  /\ todo \subseteq Queues
  /\ current \in Commands \cup {None}
  /\ issuerAt \in [Devices -> {"wait", "execute", "callbacks", "invoke"}]
  /\ executing \in [Devices -> Work \cup {None}]
  /\ hostAt \in [Hosts -> HostPlaces]
  /\ blockedOn \in [Hosts -> Commands \cup UserEvents \cup {None}]
  /\ ticket \in [Work -> Nat]
  /\ issued \in [Queues -> Nat]
  /\ deps \in [Work -> SUBSET (Commands \cup UserEvents)]
  /\ flushed \subseteq Commands

(* A command of an in-order queue starts only after every command enqueued *)
(* to that queue before it is complete, whichever devices the queue was    *)
(* bound to meanwhile: the chain of last_event_ events keeps the order.    *)
(* What clFinish relies on: its marker completes last.                     *)
InOrderExecution ==
  \A b, c \in Commands :
    queueOf[b] # None /\ queueOf[b] = queueOf[c] /\ ticket[b] < ticket[c] /\ Started(c)
      => IsComplete(b)

(* A command starts only when every event of its wait list is complete,    *)
(* though CloneMem() adds events to the list and IsExecutable() empties it. *)
WaitListRespected ==
  \A c \in Commands : Started(c) => \A e \in deps[c] : IsComplete(e)

(* Where a command handed to a device is: a place in a ready queue or an   *)
(* issuer's hands. *)
DevicePlaces(c) ==
  {p \in Devices \X (1 .. ReadySize) : p[2] <= Len(ready[p[1]]) /\ ready[p[1]][p[2]] = c}
    \cup {d \in Devices : executing[d] = c} \X {0}

(* No command is lost between the scheduler, the ready queues and the      *)
(* issuers, and none is handed out twice, a clone submitted by another     *)
(* issuer's callback included.                                             *)
Custody ==
  \A c \in Work :
    /\ Cardinality(DevicePlaces(c)) <= 1
    /\ status[c] \in {"submitted", "running"} /\ ~(schedAt = "push" /\ c = current)
         => DevicePlaces(c) # {}

(* Dequeue() drops the command the pass has just submitted ("Invalid       *)
(* dequeue request" otherwise), though its issuer may have executed it and *)
(* hosts have enqueued others since.                                       *)
DequeueMatches ==
  schedAt = "dequeue" =>
    /\ pending[queueOf[current]] # <<>>
    /\ Head(pending[queueOf[current]]) = current

(* Nothing in the runtime is on its way to post sem_schedule_. *)
Asleep ==
  /\ schedAt = "wait" /\ posts = 0
  /\ \A d \in Devices : issuerAt[d] = "wait" /\ ready[d] = <<>>
  /\ \A h \in Hosts : hostAt[h] # "invoke"

(* The scheduler never sleeps over work: when nothing is going to wake it, *)
(* no queue has a flushed command at its head that could be submitted.     *)
NoLostWakeup ==
  Asleep => \A q \in Queues : ~(Peekable(q) /\ Head(pending[q]) \in flushed)

Rank(s) == CASE s = "none" -> 0 [] s = "queued" -> 1 [] s = "submitted" -> 2
             [] s = "running" -> 3 [] OTHER -> 4

(* The execution status of an event only moves forward, and a complete or  *)
(* failed event never changes again, so no waiter sees an event complete   *)
(* and then pending.  The one exception is a user event two threads set:   *)
(* the status given last replaces the other.                               *)
StatusMoves(e) ==
  \/ Rank(status[e]) < Rank(status'[e])
  \/ e \in UserEvents /\ Rank(status[e]) = 4 /\ Rank(status'[e]) = 4

StatusForward == [][\A e \in Events : status'[e] # status[e] => StatusMoves(e)]_status

(* The call of h spins on a full ring whose oldest command no flush has    *)
(* covered: only another thread's flush of the queue can end it.           *)
Stuck(h) ==
  /\ Pushing(h)
  /\ LET q == queueOf[blockedOn[h]] IN
       Len(pending[q]) = RingSize /\ Head(pending[q]) \notin flushed

(* Issuers whose callbacks spin on each other's full ready queues. *)
Jammed ==
  \E D \in SUBSET Devices \ {{}} : \A d \in D :
    /\ issuerAt[d] = "callbacks" /\ callback[executing[d]] # None
    /\ LET f == bound[callback[executing[d]]] IN f \in D /\ Len(ready[f]) = ReadySize

(* Every call of an application with one queue returns: clFinish, whose    *)
(* marker must find room in the ring first, a blocking read,               *)
(* clWaitForEvents.  Excepted are what the code never gets out of by       *)
(* itself: a call that spins on a ring nobody has flushed, and issuers     *)
(* that wait for room in each other's ready queues.                        *)
WaitReturns ==
  \A h \in Hosts : hostAt[h] # "idle" /\ ~Stuck(h) ~> hostAt[h] = "idle" \/ Jammed

(* The pipeline implements CommandOrder. *)
PhaseOf(s) == CASE s = "none" -> "new" [] s = "queued" -> "issued"
                [] s \in {"submitted", "running"} -> "active" [] OTHER -> "done"

Order == INSTANCE CommandOrder WITH
  phase <- [e \in Commands \cup UserEvents |-> PhaseOf(status[e])],
  queueOf <- [c \in Commands |-> queueOf[c]],
  ticket <- [c \in Commands |-> ticket[c]],
  deps <- [c \in Commands |-> deps[c]]

(* Seen through the status of its events alone, the runtime behaves as the *)
(* serial queues of CommandOrder: the threads, the rings, the rebinding of *)
(* queues and the clones add no behaviour.                                 *)
ImplementsOrder == Order!Spec
=============================================================================
