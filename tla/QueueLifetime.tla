---------------------------- MODULE QueueLifetime ----------------------------
(***************************************************************************)
(* The life of a command queue: its constructor registers it with the      *)
(* scheduler, the application, its commands and their events hold          *)
(* references to it, and the thread that drops the last one (a host        *)
(* thread, an issuer that deletes a command, or the scheduler itself)      *)
(* destroys it, while the scheduler goes on visiting its queues.           *)
(*                                                                         *)
(* One scheduler.  What a command does, and which device it goes to, is    *)
(* left out: any issuer may take it.  Events that the application asked    *)
(* for are never given back: clReleaseEvent returns CL_INVALID_EVENT for   *)
(* every event that is not NULL.                                           *)
(***************************************************************************)
EXTENDS Integers, FiniteSets

CONSTANTS
  Queues,     \* command queues that may be created
  InOrder,    \* those created without CL_QUEUE_OUT_OF_ORDER_EXEC_MODE_ENABLE
  Commands,   \* commands that may be enqueued
  Empty,      \* commands the scheduler may find to be already completed
  Hosts,      \* application threads
  Issuers,    \* issuer threads
  Scheduler,  \* the scheduler thread
  MaxHandles, \* bound: references of the application to one queue
  MaxPosts,   \* bound: pending semaphore posts beyond which hosts do not clFlush
  None

Threads == Hosts \cup Issuers \cup {Scheduler}

ASSUME LifetimeAssumption ==
  /\ IsFiniteSet(Commands) /\ IsFiniteSet(Hosts) /\ IsFiniteSet(Issuers)
  /\ InOrder \subseteq Queues /\ Empty \subseteq Commands
  /\ Hosts \cap Issuers = {} /\ Scheduler \notin Hosts \cup Issuers
  /\ None \notin Queues \cup Commands
  /\ MaxHandles \in Nat /\ MaxPosts \in Nat

VARIABLES
  refs,     \* CLObject::ref_cnt_ of a queue
  life,     \* how far its constructor or destructor is
  handles,  \* references the application holds
  last,     \* CLInOrderCommandQueue::last_event_
  listed,   \* the queues in CLScheduler::queues_
  nulls,    \* the NULL entries in queues_
  updated,  \* queues_updated_
  posts,    \* sem_schedule_
  targets,  \* target_queues of Run()
  todo,     \* those of them that the pass has not left behind
  state,    \* commands: how far they are
  queueOf,  \* CLCommand::queue_
  waitsOn,  \* the last_event_ in a command's wait_events_
  evRefs,   \* ref_cnt_ of a command's event
  kept,     \* commands whose event the application asked for
  at,       \* where a thread is
  object,   \* the queue a thread creates, visits or destroys
  command,  \* the command a thread waits for, executes or deletes
  fault     \* undefined behaviour has stopped the process

queueVars == <<refs, life, handles, last>>
listVars  == <<listed, nulls, updated>>
passVars  == <<targets, todo>>
cmdVars   == <<state, queueOf, waitsOn, evRefs, kept>>
vars == <<queueVars, listVars, posts, passVars, cmdVars, at, object, command, fault>>

Init ==
  /\ refs = [q \in Queues |-> 0]
  /\ life = [q \in Queues |-> "none"]
  /\ handles = [q \in Queues |-> 0]
  /\ last = [q \in Queues |-> None]
  /\ listed = {} /\ nulls = 0 /\ updated = FALSE
  /\ posts = 0
  /\ targets = {} /\ todo = {}
  /\ state = [c \in Commands |-> "new"]
  /\ queueOf = [c \in Commands |-> None]
  /\ waitsOn = [c \in Commands |-> None]
  /\ evRefs = [c \in Commands |-> 0]
  /\ kept = {}
  /\ at = [t \in Threads |-> "idle"]
  /\ object = [t \in Threads |-> None]
  /\ command = [t \in Threads |-> None]
  /\ fault = FALSE

Runs(t, place) == ~fault /\ at[t] = place
Go(t, place) == at' = [at EXCEPT ![t] = place]

-----------------------------------------------------------------------------
(* References *)

(* Where a thread goes on after it has deleted a command. *)
Resumes(t) == IF t = Scheduler THEN "dequeue" ELSE "idle"

(* CLObject::Release() of queue q: the thread that finds the count at 1    *)
(* deletes the queue, and runs ~CLInOrderCommandQueue() or                 *)
(* ~CLOutOfOrderCommandQueue() up to RemoveCommandQueue().                 *)
ReleaseQueue(t, q) ==
  /\ refs' = [refs EXCEPT ![q] = @ - 1]
  /\ IF refs[q] = 1
       THEN /\ life' = [life EXCEPT ![q] = "destroying"]
            /\ object' = [object EXCEPT ![t] = q]
            /\ Go(t, "remove")
       ELSE /\ Go(t, Resumes(t))
            /\ UNCHANGED <<life, object>>

(* ~CLCommand() begins: the command's own reference to its queue.  It is   *)
(* not the last one, as the command's event has another.                   *)
DeleteCommand(t) ==
  LET c == command[t] IN
  /\ Runs(t, "delete")
  /\ refs' = [refs EXCEPT ![queueOf[c]] = @ - 1]
  /\ state' = [state EXCEPT ![c] = "deleted"]
  /\ Go(t, "event")
  /\ UNCHANGED <<life, handles, last, listVars, posts, passVars, queueOf, waitsOn, evRefs,
                 kept, object, command, fault>>

(* ~CLCommand() ends with event_->Release(), a blocking call with          *)
(* blocking->Release(); ~CLEvent() releases the queue.                     *)
ReleaseEvent(t) ==
  LET c == command[t] IN
  /\ Runs(t, "event")
  /\ evRefs' = [evRefs EXCEPT ![c] = @ - 1]
  /\ command' = [command EXCEPT ![t] = None]
  /\ IF evRefs[c] = 1 THEN ReleaseQueue(t, queueOf[c])
                      ELSE Go(t, Resumes(t)) /\ UNCHANGED <<refs, life, object>>
  /\ UNCHANGED <<handles, last, listVars, posts, passVars, state, queueOf, waitsOn, kept, fault>>

-----------------------------------------------------------------------------
(* Removal *)

(* Slip: the queue is unlisted, and the caller does not wait. *)
RemoveCommandQueue_Slip(t) ==
  LET q == object[t] IN
  /\ Runs(t, "remove")
  /\ listed' = listed \ {q} /\ nulls' = nulls + 1
  /\ updated' = TRUE
  /\ posts' = posts + 1
  /\ Go(t, "removed")
  /\ UNCHANGED <<queueVars, passVars, cmdVars, object, command, fault>>

(* RemoveCommandQueue() up to pthread_cond_wait(): the queue's entry       *)
(* becomes NULL and the scheduler is to take notice.                       *)
RemoveCommandQueue(t) ==
  LET q == object[t] IN
  /\ Runs(t, "remove")
  /\ listed' = listed \ {q} /\ nulls' = nulls + 1
  /\ updated' = TRUE
  /\ posts' = posts + 1
  /\ Go(t, "parked")
  /\ UNCHANGED <<queueVars, passVars, cmdVars, object, command, fault>>

(* The memory of the queue is given back. *)
FreeQueue(t) ==
  /\ Runs(t, "removed")
  /\ life' = [life EXCEPT ![object[t]] = "freed"]
  /\ object' = [object EXCEPT ![t] = None]
  /\ Go(t, "idle")
  /\ UNCHANGED <<refs, handles, last, listVars, posts, passVars, cmdVars, command, fault>>

-----------------------------------------------------------------------------
(* Host threads *)

(* CLCommandQueue's constructor adds the queue to the scheduler's list,    *)
(* before the constructor of the derived class has run ...                 *)
CreateQueue(h, q) ==
  /\ Runs(h, "idle") /\ life[q] = "none"
  /\ life' = [life EXCEPT ![q] = "constructing"]
  /\ refs' = [refs EXCEPT ![q] = 1]
  /\ handles' = [handles EXCEPT ![q] = 1]
  /\ listed' = listed \cup {q} /\ updated' = TRUE
  /\ object' = [object EXCEPT ![h] = q]
  /\ Go(h, "construct")
  /\ UNCHANGED <<last, nulls, posts, passVars, cmdVars, command, fault>>

(* ... which makes the ring or the list. *)
ConstructQueue(h) ==
  /\ Runs(h, "construct")
  /\ life' = [life EXCEPT ![object[h]] = "alive"]
  /\ object' = [object EXCEPT ![h] = None]
  /\ Go(h, "idle")
  /\ UNCHANGED <<refs, handles, last, listVars, posts, passVars, cmdVars, command, fault>>

(* The application uses a queue while it has a reference to it. *)
Uses(h, q) == Runs(h, "idle") /\ handles[q] > 0 /\ life[q] = "alive"

RetainQueue(h, q) ==
  /\ Uses(h, q) /\ handles[q] < MaxHandles
  /\ refs' = [refs EXCEPT ![q] = @ + 1]
  /\ handles' = [handles EXCEPT ![q] = @ + 1]
  /\ UNCHANGED <<life, last, listVars, posts, passVars, cmdVars, at, object, command, fault>>

(* clReleaseCommandQueue *)
ReleaseHandle(h, q) ==
  /\ Uses(h, q)
  /\ handles' = [handles EXCEPT ![q] = @ - 1]
  /\ ReleaseQueue(h, q)
  /\ UNCHANGED <<last, listVars, posts, passVars, cmdVars, command, fault>>

(* How a command is enqueued: without more, with an event for the          *)
(* application, or by a call that then waits for it.                       *)
Manners == {"plain", "event", "blocking"}

(* References to a new command's event: the command's, the application's   *)
(* or the blocking call's, and last_event_.                                *)
NewEventRefs(q, how) ==
  1 + (IF how = "plain" THEN 0 ELSE 1) + (IF q \in InOrder THEN 1 ELSE 0)

(* Slip: the event does not retain the queue. *)
NewQueueRefs_Slip == 1

(* The constructors of CLCommand and of its CLEvent retain the queue. *)
NewQueueRefs == 2

(* An in-order queue hands its reference to last_event_ over to the wait   *)
(* list of the new command and takes one to the new event; an out-of-order *)
(* queue invokes the scheduler.                                            *)
Enqueue(h, q, c, how) ==
  /\ Uses(h, q) /\ state[c] = "new"
  /\ refs' = [refs EXCEPT ![q] = @ + NewQueueRefs]
  /\ state' = [state EXCEPT ![c] = "pending"]
  /\ queueOf' = [queueOf EXCEPT ![c] = q]
  /\ evRefs' = [evRefs EXCEPT ![c] = NewEventRefs(q, how)]
  /\ kept' = IF how = "event" THEN kept \cup {c} ELSE kept
  /\ IF q \in InOrder
       THEN /\ waitsOn' = [waitsOn EXCEPT ![c] = last[q]]
            /\ last' = [last EXCEPT ![q] = c]
            /\ UNCHANGED posts
       ELSE /\ posts' = posts + 1
            /\ UNCHANGED <<waitsOn, last>>
  /\ IF how = "blocking"
       THEN command' = [command EXCEPT ![h] = c] /\ Go(h, "wait")
       ELSE UNCHANGED <<command, at>>
  /\ UNCHANGED <<life, handles, listVars, passVars, object, fault>>

Finished(c) == state[c] \in {"complete", "deleted"}

(* CLEvent::Wait(), which flushes: a flush of an out-of-order queue does   *)
(* nothing. *)
BeginWait(h) ==
  LET c == command[h] IN
  /\ Runs(h, "wait")
  /\ IF Finished(c)
       THEN Go(h, "event") /\ UNCHANGED posts
       ELSE /\ Go(h, "blocked")
            /\ posts' = posts + (IF queueOf[c] \in InOrder THEN 1 ELSE 0)
  /\ UNCHANGED <<queueVars, listVars, passVars, cmdVars, object, command, fault>>

EndWait(h) ==
  /\ Runs(h, "blocked") /\ Finished(command[h])
  /\ Go(h, "event")
  /\ UNCHANGED <<queueVars, listVars, posts, passVars, cmdVars, object, command, fault>>

(* clFlush of an in-order queue *)
Flush(h, q) ==
  /\ Uses(h, q) /\ q \in InOrder /\ posts < MaxPosts
  /\ posts' = posts + 1
  /\ UNCHANGED <<queueVars, listVars, passVars, cmdVars, at, object, command, fault>>

-----------------------------------------------------------------------------
(* The scheduler thread: CLScheduler::Run() *)

BeginPass ==
  /\ Runs(Scheduler, "idle") /\ posts > 0
  /\ posts' = posts - 1
  /\ Go(Scheduler, "update")
  /\ UNCHANGED <<queueVars, listVars, passVars, cmdVars, object, command, fault>>

(* Slip: the flag is reset, and nobody is woken. *)
UpdateQueues_Slip ==
  /\ Runs(Scheduler, "update")
  /\ IF updated
       THEN targets' = listed /\ nulls' = 0
       ELSE UNCHANGED <<targets, nulls>>
  /\ Go(Scheduler, "scan")
  /\ todo' = targets'
  /\ updated' = FALSE
  /\ UNCHANGED <<queueVars, listed, posts, cmdVars, object, command, fault>>

(* The critical section at the start of a pass: all removals are answered, *)
(* NULL entries go, and the list is copied for this and the next passes.   *)
UpdateQueues ==
  /\ Runs(Scheduler, "update")
  /\ IF updated
       THEN /\ targets' = listed /\ nulls' = 0
            /\ at' = [t \in Threads |-> CASE t = Scheduler -> "scan"
                                          [] at[t] = "parked" -> "removed"
                                          [] OTHER -> at[t]]
       ELSE Go(Scheduler, "scan") /\ UNCHANGED <<targets, nulls>>
  /\ todo' = targets'
  /\ updated' = FALSE
  /\ UNCHANGED <<queueVars, listed, posts, cmdVars, object, command, fault>>

(* Peek() and Dequeue() are virtual: on a queue that is not fully          *)
(* constructed, or whose destructor has begun, the call may end the        *)
(* process ("pure virtual method called") or still find what was there.    *)
Sound(q) == life[q] = "alive"

CrashInPeek ==
  /\ Runs(Scheduler, "scan")
  /\ \E q \in todo : ~Sound(q)
  /\ fault' = TRUE
  /\ UNCHANGED <<queueVars, listVars, posts, passVars, cmdVars, at, object, command>>

CrashInDequeue ==
  /\ Runs(Scheduler, "dequeue") /\ ~Sound(object[Scheduler])
  /\ fault' = TRUE
  /\ UNCHANGED <<queueVars, listVars, posts, passVars, cmdVars, at, object, command>>

Executable(c) == state[c] = "pending" /\ \A e \in Commands : waitsOn[c] = e => Finished(e)

PeekNothing(q) ==
  /\ Runs(Scheduler, "scan") /\ q \in todo
  /\ ~\E c \in Commands : queueOf[c] = q /\ Executable(c)
  /\ todo' = todo \ {q}
  /\ UNCHANGED <<queueVars, listVars, posts, targets, cmdVars, at, object, command, fault>>

(* Peek() finds command c: IsExecutable() releases the event it waited     *)
(* for, and with that the queue, which c still holds.                      *)
Peek(q, c) ==
  LET e == waitsOn[c] IN
  /\ Runs(Scheduler, "scan") /\ q \in todo
  /\ queueOf[c] = q /\ Executable(c)
  /\ IF e = None
       THEN UNCHANGED <<evRefs, refs>>
       ELSE /\ evRefs' = [evRefs EXCEPT ![e] = @ - 1]
            /\ refs' = IF evRefs[e] = 1 THEN [refs EXCEPT ![q] = @ - 1] ELSE refs
  /\ waitsOn' = [waitsOn EXCEPT ![c] = None]
  /\ object' = [object EXCEPT ![Scheduler] = q]
  /\ command' = [command EXCEPT ![Scheduler] = c]
  /\ Go(Scheduler, "submit")
  /\ UNCHANGED <<life, handles, last, listVars, posts, passVars, state, queueOf, kept, fault>>

(* Submit(): an issuer may take the command from here on. *)
Submit ==
  /\ Runs(Scheduler, "submit")
  /\ state' = [state EXCEPT ![command[Scheduler]] = "submitted"]
  /\ command' = [command EXCEPT ![Scheduler] = None]
  /\ Go(Scheduler, "dequeue")
  /\ UNCHANGED <<queueVars, listVars, posts, passVars, queueOf, waitsOn, evRefs, kept,
                 object, fault>>

(* IsAlreadyCompleted(): SetAsComplete(), then the scheduler deletes the   *)
(* command. *)
CompleteAtOnce ==
  /\ Runs(Scheduler, "submit") /\ command[Scheduler] \in Empty
  /\ state' = [state EXCEPT ![command[Scheduler]] = "complete"]
  /\ posts' = posts + 1
  /\ Go(Scheduler, "delete")
  /\ UNCHANGED <<queueVars, listVars, passVars, queueOf, waitsOn, evRefs, kept, object,
                 command, fault>>

Dequeue ==
  /\ Runs(Scheduler, "dequeue")
  /\ todo' = todo \ {object[Scheduler]}
  /\ object' = [object EXCEPT ![Scheduler] = None]
  /\ Go(Scheduler, "scan")
  /\ UNCHANGED <<queueVars, listVars, posts, targets, cmdVars, command, fault>>

EndPass ==
  /\ Runs(Scheduler, "scan") /\ todo = {}
  /\ Go(Scheduler, "idle")
  /\ UNCHANGED <<queueVars, listVars, posts, passVars, cmdVars, object, command, fault>>

-----------------------------------------------------------------------------
(* Issuer threads: CLIssuer::Run() *)

Execute(i, c) ==
  /\ Runs(i, "idle") /\ state[c] = "submitted"
  /\ state' = [state EXCEPT ![c] = "running"]
  /\ command' = [command EXCEPT ![i] = c]
  /\ Go(i, "execute")
  /\ UNCHANGED <<queueVars, listVars, posts, passVars, queueOf, waitsOn, evRefs, kept,
                 object, fault>>

(* SetAsComplete() wakes the hosts that wait and invokes the scheduler. *)
SetAsComplete(i) ==
  /\ Runs(i, "execute")
  /\ state' = [state EXCEPT ![command[i]] = "complete"]
  /\ posts' = posts + 1
  /\ Go(i, "delete")
  /\ UNCHANGED <<queueVars, listVars, passVars, queueOf, waitsOn, evRefs, kept, object,
                 command, fault>>

-----------------------------------------------------------------------------
HostCall(h) ==
  \/ \E q \in Queues :
       \/ CreateQueue(h, q)
       \/ RetainQueue(h, q)
       \/ ReleaseHandle(h, q)
       \/ \E c \in Commands, how \in Manners : Enqueue(h, q, c, how)
       \/ Flush(h, q)

HostStep(h) == ConstructQueue(h) \/ BeginWait(h) \/ EndWait(h)

Pass ==
  \/ BeginPass \/ UpdateQueues \/ EndPass
  \/ CrashInPeek \/ CrashInDequeue
  \/ \E q \in Queues : PeekNothing(q) \/ \E c \in Commands : Peek(q, c)
  \/ Submit \/ CompleteAtOnce \/ Dequeue

Issuer(i) == (\E c \in Commands : Execute(i, c)) \/ SetAsComplete(i)

(* What any thread does when it drops a reference. *)
Drop(t) == DeleteCommand(t) \/ ReleaseEvent(t) \/ RemoveCommandQueue(t) \/ FreeQueue(t)

Next ==
  \/ \E h \in Hosts : HostCall(h) \/ HostStep(h)
  \/ Pass
  \/ \E i \in Issuers : Issuer(i)
  \/ \E t \in Threads : Drop(t)

Spec == Init /\ [][Next]_vars

(* The operating system runs every thread; the application need not make   *)
(* calls, but a call it has made goes on.                                  *)
Fairness ==
  /\ WF_vars(Pass \/ Drop(Scheduler))
  /\ \A i \in Issuers : WF_vars(Issuer(i) \/ Drop(i))
  /\ \A h \in Hosts : WF_vars(HostStep(h) \/ Drop(h))

FairSpec == Spec /\ Fairness

-----------------------------------------------------------------------------
(* Properties *)

Places == {"idle", "construct", "wait", "blocked", "update", "scan", "submit", "dequeue",
           "execute", "delete", "event", "remove", "parked", "removed"}

(* Every variable keeps to its type. *)
TypeOK ==
  /\ refs \in [Queues -> Nat]
  /\ life \in [Queues -> {"none", "constructing", "alive", "destroying", "freed"}]
  /\ handles \in [Queues -> Nat]
  /\ last \in [Queues -> Commands \cup {None}]
  /\ listed \subseteq Queues /\ nulls \in Nat /\ updated \in BOOLEAN
  /\ posts \in Nat
  /\ targets \subseteq Queues /\ todo \subseteq targets
  /\ state \in [Commands -> {"new", "pending", "submitted", "running", "complete", "deleted"}]
  /\ queueOf \in [Commands -> Queues \cup {None}]
  /\ waitsOn \in [Commands -> Commands \cup {None}]
  /\ evRefs \in [Commands -> Nat]
  /\ kept \subseteq Commands
  /\ at \in [Threads -> Places]
  /\ object \in [Threads -> Queues \cup {None}]
  /\ command \in [Threads -> Commands \cup {None}]
  /\ fault \in BOOLEAN

(* The handshake of RemoveCommandQueue(): when the destructor goes on and  *)
(* the memory of a queue is given back, neither the scheduler's list nor   *)
(* the copy of it that passes walk has the queue, whichever threads        *)
(* created and destroyed other queues meanwhile.                           *)
FreedIsForgotten ==
  \A q \in Queues : life[q] = "freed" => q \notin listed \cup targets

(* A NULL entry, which a thread that walks queues_ without the lock may    *)
(* meet, is there only while the thread that made it is parked.            *)
NullsArePending == nulls = Cardinality({t \in Threads : at[t] = "parked"})

(* Those who hold a reference to queue q besides the application. *)
Alive(q)  == {c \in Commands : queueOf[c] = q /\ state[c] # "deleted"}
Events(q) == {c \in Commands : queueOf[c] = q /\ evRefs[c] > 0}

(* Threads that hold a reference to the event of command c. *)
EventUsers(c) ==
  {h \in Hosts : command[h] = c}
    \cup {t \in Issuers \cup {Scheduler} : command[t] = c /\ at[t] = "event"}

One(p) == IF p THEN 1 ELSE 0

(* Every reference is counted, through all the hands it goes: so a queue   *)
(* is destroyed once, by whoever drops the last of them.                   *)
RefsExact ==
  /\ \A q \in Queues :
       /\ refs[q] = handles[q] + Cardinality(Alive(q)) + Cardinality(Events(q))
       /\ refs[q] = 0 <=> life[q] \in {"none", "destroying", "freed"}
  /\ \A c \in Commands :
       evRefs[c] = Cardinality(EventUsers(c))
                     + One(state[c] \notin {"new", "deleted"})
                     + One(c \in kept)
                     + One(\E q \in Queues : last[q] = c)
                     + One(\E b \in Commands : waitsOn[b] = c)

(* A queue is never destroyed under a command that is still to be          *)
(* executed, nor under a host thread that waits for one.                   *)
NotDestroyedInUse ==
  \A q \in Queues : life[q] \in {"destroying", "freed"} =>
    /\ \A c \in Commands : queueOf[c] = q => state[c] = "deleted"
    /\ \A h \in Hosts : command[h] # None => queueOf[command[h]] # q

(* A queue whose references all come back: the application has released    *)
(* it and kept no event of it, and it has no last_event_, which refers to  *)
(* the queue in turn.                                                      *)
Returns(q) ==
  /\ life[q] \notin {"none", "freed"}
  /\ handles[q] = 0 /\ last[q] = None
  /\ \A c \in kept : queueOf[c] # q

(* The one thing besides a fault that may keep such a queue: the scheduler *)
(* thread has dropped the last reference to a queue and waits for itself.  *)
WaitsForItself == at[Scheduler] = "parked"

(* A released queue is destroyed, and RemoveCommandQueue() returns.        *)
Reclaimed ==
  \A q \in Queues : Returns(q) ~> life[q] = "freed" \/ WaitsForItself \/ fault
=============================================================================
