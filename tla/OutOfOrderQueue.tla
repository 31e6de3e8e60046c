--------------------------- MODULE OutOfOrderQueue ---------------------------
(***************************************************************************)
(* CLOutOfOrderCommandQueue: application threads append commands to a      *)
(* list, the scheduler thread takes the first one that can go, and devices *)
(* execute what they are given in turn.  Markers and barriers, which       *)
(* clFinish() relies on, are what keeps such a queue in any order.         *)
(*                                                                         *)
(* One queue, any number of hosts: a call that enqueues is one step, under *)
(* mutex_commands_.  The list is the set of its commands and the order in  *)
(* which they were appended; a ready queue likewise.  Errors, rings at     *)
(* their limit and user events are in CommandPipeline.                     *)
(***************************************************************************)
EXTENDS Integers, FiniteSets

CONSTANTS
  Commands,      \* commands that may be enqueued
  Markers,       \* markers and barriers among them
  Reads,         \* reads, which go to the device that has the data
  Empty,         \* reads of size 0
  Clones,        \* clone commands, which bring memory to a device
  Devices,
  Overtakes,     \* may a command be allocated where the one was that Dequeue() is to remove?
  ClearsPending, \* may Progress() clear the list while commands are in it?
  None

ASSUME QueueAssumption ==
  /\ IsFiniteSet(Commands)
  /\ Markers \subseteq Commands /\ Reads \subseteq Commands \ Markers /\ Empty \subseteq Reads
  /\ Clones \cap Commands = {} /\ None \notin Commands \cup Devices
  /\ Overtakes \in BOOLEAN /\ ClearsPending \in BOOLEAN

Events == Commands \cup Clones

VARIABLES
  listed,    \* the commands in commands_
  order,     \* when a command was appended to it
  issued,    \* how many commands were
  waits,     \* CLCommand::wait_events_
  status,    \* CLEvent::status_
  device,    \* CLCommandQueue::device_
  bound,     \* CLCommand::device_
  turn,      \* when a command was put into the ready queue of its device
  turns,     \* how many commands were
  posts,     \* sem_schedule_
  schedAt,   \* where the scheduler thread is
  current,   \* the command it has peeked
  heir,      \* a command allocated where that one was
  executing  \* the command a device executes

listVars  == <<listed, order, issued>>
eventVars == <<waits, status>>
readyVars == <<bound, turn, turns>>
schedVars == <<schedAt, current, heir>>
vars == <<listVars, eventVars, device, readyVars, posts, schedVars, executing>>

Init ==
  /\ listed = {} /\ order = [c \in Commands |-> 0] /\ issued = 0
  /\ waits = [c \in Commands |-> {}]
  /\ status = [e \in Events |-> "none"]
  /\ device \in Devices
  /\ bound = [c \in Commands |-> None]
  /\ turn = [c \in Commands |-> 0] /\ turns = 0
  /\ posts = 0
  /\ schedAt = "wait" /\ current = None /\ heir = None
  /\ executing = [d \in Devices |-> None]

Enqueued   == {c \in Commands : status[c] # "none"}
IsComplete(e) == status[e] = "complete"

-----------------------------------------------------------------------------
(* Application threads *)

(* May a new command be where the one was that Dequeue() is to remove?     *)
(* That one is deleted when it is complete.                                *)
MayInherit ==
  IF Overtakes /\ schedAt = "dequeue" /\ IsComplete(current) /\ heir = None
    THEN BOOLEAN ELSE {FALSE}

(* Slip: the scheduler is not told. *)
Enqueue_Slip(c, W, inherits) ==
  /\ status[c] = "none"
  /\ heir' = IF inherits THEN c ELSE heir
  /\ listed' = listed \cup {c}
  /\ issued' = issued + 1
  /\ order' = [order EXCEPT ![c] = issued + 1]
  /\ status' = [status EXCEPT ![c] = "queued"]
  /\ waits' = [waits EXCEPT ![c] = W]
  /\ UNCHANGED <<device, readyVars, posts, schedAt, current, executing>>

(* A command is made with wait list W, and appended. *)
Enqueue(c, W, inherits) ==
  /\ status[c] = "none"
  /\ heir' = IF inherits THEN c ELSE heir
  /\ listed' = listed \cup {c}
  /\ issued' = issued + 1
  /\ order' = [order EXCEPT ![c] = issued + 1]
  /\ status' = [status EXCEPT ![c] = "queued"]
  /\ waits' = [waits EXCEPT ![c] = W]
  /\ posts' = posts + 1
  /\ UNCHANGED <<device, readyVars, schedAt, current, executing>>

(* A flush of an in-order queue runs Progress(), which may bind this queue *)
(* to another device, and whose performance models clear commands_ of      *)
(* every queue: the list itself here, a copy of the ring there.            *)
Progress(d) ==
  /\ device' = d
  /\ \/ UNCHANGED listed
     \/ (ClearsPending \/ listed = {}) /\ listed' = {}
  /\ UNCHANGED <<order, issued, eventVars, readyVars, posts, schedVars, executing>>

-----------------------------------------------------------------------------
(* The scheduler thread *)

(* Slip: the semaphore is not waited for. *)
BeginPass_Slip ==
  /\ schedAt = "wait"
  /\ posts' = posts - 1
  /\ schedAt' = "peek"
  /\ UNCHANGED <<listVars, eventVars, device, readyVars, current, heir, executing>>

BeginPass ==
  /\ schedAt = "wait" /\ posts > 0
  /\ posts' = posts - 1
  /\ schedAt' = "peek"
  /\ UNCHANGED <<listVars, eventVars, device, readyVars, current, heir, executing>>

IsExecutable(c) == \A e \in waits[c] : IsComplete(e)

Precedes(b, c) == order[b] < order[c]

(* Slip: a marker need not be at the front. *)
Peekable_Slip(c) ==
  /\ c \in listed /\ IsExecutable(c)
  /\ \A b \in listed : Precedes(b, c) => ~IsExecutable(b)

(* Peek(): the first executable command, which if it is a marker or a      *)
(* barrier must be the first of all. *)
Peekable(c) ==
  /\ c \in listed /\ IsExecutable(c)
  /\ \A b \in listed : Precedes(b, c) => c \notin Markers /\ ~IsExecutable(b)

PeekNothing ==
  /\ schedAt = "peek" /\ ~\E c \in listed : Peekable(c)
  /\ schedAt' = "wait"
  /\ UNCHANGED <<listVars, eventVars, device, readyVars, posts, current, heir,
                 executing>>

Peek(c) ==
  /\ schedAt = "peek" /\ Peekable(c)
  /\ schedAt' = "resolve" /\ current' = c
  /\ UNCHANGED <<listVars, eventVars, device, readyVars, posts, heir, executing>>

(* ResolveConsistency() is FALSE: the command is to wait for clones first. *)
Unresolved(g) ==
  /\ schedAt = "resolve" /\ current \notin Markers \cup Reads
  /\ status[g] = "none"
  /\ status' = [status EXCEPT ![g] = "queued"]
  /\ waits' = [waits EXCEPT ![current] = @ \cup {g}]
  /\ schedAt' = "wait" /\ current' = None /\ heir' = None
  /\ UNCHANGED <<listVars, device, readyVars, posts, executing>>

(* The clone is done on whichever device it went to. *)
CompleteClone(g) ==
  /\ status[g] = "queued"
  /\ status' = [status EXCEPT ![g] = "complete"]
  /\ posts' = posts + 1
  /\ UNCHANGED <<listVars, waits, device, readyVars, schedVars, executing>>

(* The device a command goes to. *)
Targets(c) == IF c \in Reads THEN Devices ELSE {device}

Submit(d) ==
  /\ schedAt = "resolve" /\ d \in Targets(current)
  /\ status' = [status EXCEPT ![current] = "submitted"]
  /\ bound' = [bound EXCEPT ![current] = d]
  /\ turns' = turns + 1
  /\ turn' = [turn EXCEPT ![current] = turns + 1]
  /\ schedAt' = "dequeue"
  /\ UNCHANGED <<listVars, waits, device, posts, current, heir, executing>>

(* IsAlreadyCompleted(): SetAsComplete(), and the command is deleted. *)
CompleteAtOnce ==
  /\ schedAt = "resolve" /\ current \in Empty
  /\ status' = [status EXCEPT ![current] = "complete"]
  /\ posts' = posts + 1
  /\ schedAt' = "dequeue"
  /\ UNCHANGED <<listVars, waits, device, readyVars, current, heir, executing>>

(* Slip: the first command of the list is removed. *)
Dequeue_Slip ==
  /\ schedAt = "dequeue"
  /\ listed' = {c \in listed : \E b \in listed : Precedes(b, c)}
  /\ schedAt' = "wait" /\ current' = None /\ heir' = None
  /\ UNCHANGED <<order, issued, eventVars, device, readyVars, posts, executing>>

(* list::remove() of a pointer: it leaves out every entry that is equal,   *)
(* and the command it pointed to may be deleted, and another be there.     *)
Dequeue ==
  /\ schedAt = "dequeue"
  /\ listed' = listed \ {current, heir}
  /\ schedAt' = "wait" /\ current' = None /\ heir' = None
  /\ UNCHANGED <<order, issued, eventVars, device, readyVars, posts, executing>>

-----------------------------------------------------------------------------
(* The issuer thread of a device *)

Ready(d) == {c \in Commands : status[c] = "submitted" /\ bound[c] = d}

(* Slip: the ready queue is a stack. *)
First_Slip(c, d) == \A b \in Ready(d) : turn[b] <= turn[c]

First(c, d) == \A b \in Ready(d) : turn[c] <= turn[b]

TakeReady(d, c) ==
  /\ executing[d] = None
  /\ c \in Ready(d) /\ First(c, d)
  /\ status' = [status EXCEPT ![c] = "running"]
  /\ executing' = [executing EXCEPT ![d] = c]
  /\ UNCHANGED <<listVars, waits, device, readyVars, posts, schedVars>>

(* SetAsComplete() invokes the scheduler; then the command is deleted. *)
SetAsComplete(d) ==
  LET c == executing[d] IN
  /\ c # None
  /\ status' = [status EXCEPT ![c] = "complete"]
  /\ posts' = posts + 1
  /\ executing' = [executing EXCEPT ![d] = None]
  /\ UNCHANGED <<listVars, waits, device, readyVars, schedVars>>

-----------------------------------------------------------------------------
HostCall ==
  \/ \E c \in Commands : \E W \in SUBSET Enqueued, same \in MayInherit : Enqueue(c, W, same)
  \/ \E d \in Devices : Progress(d)

Scheduler ==
  \/ BeginPass \/ PeekNothing
  \/ \E c \in Commands : Peek(c)
  \/ \E g \in Clones : Unresolved(g)
  \/ \E d \in Devices : Submit(d)
  \/ CompleteAtOnce \/ Dequeue

Issuer(d) == (\E c \in Commands : TakeReady(d, c)) \/ SetAsComplete(d)

Next ==
  \/ HostCall \/ Scheduler
  \/ \E d \in Devices : Issuer(d)
  \/ \E g \in Clones : CompleteClone(g)

Spec == Init /\ [][Next]_vars

(* Threads of the runtime run; nothing is asked of the application. *)
Fairness ==
  /\ WF_vars(Scheduler)
  /\ \A d \in Devices : WF_vars(Issuer(d))
  /\ \A g \in Clones : WF_vars(CompleteClone(g))

FairSpec == Spec /\ Fairness

-----------------------------------------------------------------------------
(* Properties *)

(* Every variable keeps to its type. *)
TypeOK ==
  /\ listed \subseteq Commands
  /\ order \in [Commands -> Nat] /\ issued \in Nat
  /\ waits \in [Commands -> SUBSET Events]
  /\ status \in [Events -> {"none", "queued", "submitted", "running", "complete"}]
  /\ device \in Devices
  /\ bound \in [Commands -> Devices \cup {None}]
  /\ turn \in [Commands -> Nat] /\ turns \in Nat
  /\ posts \in Nat
  /\ schedAt \in {"wait", "peek", "resolve", "dequeue"}
  /\ current \in Commands \cup {None}
  /\ heir \in Commands \cup {None}
  /\ executing \in [Devices -> Commands \cup {None}]

(* No command is lost, and none is left in the list to be submitted again: *)
(* the list holds the commands that were not submitted yet, and for the    *)
(* moment before Dequeue() the one that was, though issuers and hosts may  *)
(* have deleted it and appended others by then.                            *)
Custody ==
  \A c \in Commands :
    c \in listed <=> status[c] = "queued" \/ (schedAt = "dequeue" /\ c = current)

(* What clFinish() gets from its marker: when a marker or a barrier is     *)
(* complete, so is every command enqueued before it that went to the same  *)
(* device.  (A read may have gone to another device, where it may still    *)
(* run when clFinish() returns.)                                           *)
FinishCovers ==
  \A m \in Markers, c \in Commands :
    IsComplete(m) /\ status[c] # "none" /\ Precedes(c, m) /\ bound[c] = bound[m] => IsComplete(c)

(* Every command is executed, with one semaphore post for each call and    *)
(* each completion, and one command for each post at most.                 *)
Completes == \A c \in Commands : status[c] = "queued" ~> IsComplete(c)

(* What a command must not overtake: a marker or a barrier anything, and   *)
(* anything a marker or a barrier that waits for no event.                 *)
Overtakable(b, c) == Precedes(b, c) /\ c \notin Markers /\ ~(b \in Markers /\ waits[b] = {})

Ahead(c) == {b \in Enqueued : Precedes(b, c) /\ ~Overtakable(b, c)}

Stage(c) == IF status[c] \in {"submitted", "running"} THEN "started" ELSE status[c]

Abstract == INSTANCE QueueOrder WITH
  stage  <- [c \in Commands |-> Stage(c)],
  needs  <- [c \in Commands |-> waits[c] \ Clones],
  before <- [c \in Commands |-> Ahead(c)]

(* Commands start in an order that QueueOrder allows. *)
ImplementsQueueOrder == Abstract!Spec
=============================================================================
