---------------------------- MODULE CommandOrder ----------------------------
(***************************************************************************)
(* What the runtime promises for commands in in-order queues, without      *)
(* threads, rings, ready queues or clones: a command may start only when   *)
(* every earlier command of its queue and every event of its wait list are *)
(* done, and each command starts once and finishes once.                   *)
(***************************************************************************)
EXTENDS Naturals

CONSTANTS Queues, Commands, UserEvents, None

VARIABLES
  phase,    \* "new", "issued", "active" or "done", of commands and user events
  queueOf,  \* the queue a command was enqueued to
  ticket,   \* its place among the commands of that queue
  issued,   \* commands enqueued to each queue
  deps      \* its wait list

absVars == <<phase, queueOf, ticket, issued, deps>>

Init ==
  /\ phase = [e \in Commands \cup UserEvents |->
                IF e \in UserEvents THEN "active" ELSE "new"]
  /\ queueOf = [c \in Commands |-> None]
  /\ ticket = [c \in Commands |-> 0]
  /\ issued = [q \in Queues |-> 0]
  /\ deps = [c \in Commands |-> {}]

(* An application thread enqueues c to q with wait list W. *)
Issue(c, q, W) ==
  /\ phase[c] = "new"
  /\ \A e \in W : phase[e] # "new"
  /\ phase' = [phase EXCEPT ![c] = "issued"]
  /\ queueOf' = [queueOf EXCEPT ![c] = q]
  /\ issued' = [issued EXCEPT ![q] = @ + 1]
  /\ ticket' = [ticket EXCEPT ![c] = issued[q] + 1]
  /\ deps' = [deps EXCEPT ![c] = W]

Earlier(c) == {b \in Commands : queueOf[b] = queueOf[c] /\ ticket[b] < ticket[c]}

(* c starts; a command with nothing to do is done at once. *)
Start(c, p) ==
  /\ phase[c] = "issued"
  /\ \A e \in Earlier(c) \cup deps[c] : phase[e] = "done"
  /\ phase' = [phase EXCEPT ![c] = p]
  /\ UNCHANGED <<queueOf, ticket, issued, deps>>

(* An active command finishes, or the application sets a user event. *)
Finish(e) ==
  /\ phase[e] = "active"
  /\ phase' = [phase EXCEPT ![e] = "done"]
  /\ UNCHANGED <<queueOf, ticket, issued, deps>>

Next ==
  \/ \E c \in Commands, q \in Queues, W \in SUBSET (Commands \cup UserEvents) : Issue(c, q, W)
  \/ \E c \in Commands, p \in {"active", "done"} : Start(c, p)
  \/ \E e \in Commands \cup UserEvents : Finish(e)

Spec == Init /\ [][Next]_absVars
=============================================================================
