------------------------------ MODULE QueueOrder ------------------------------
(***************************************************************************)
(* What an out-of-order queue of this runtime promises: commands start in  *)
(* any order, but for their wait lists and for markers and barriers.  One  *)
(* of these starts after all that were enqueued before it; and what is     *)
(* enqueued after it starts later, unless it came with a wait list.        *)
(***************************************************************************)
CONSTANTS Commands, Markers

VARIABLES
  stage,  \* "none", "queued", "started" or "complete"
  needs,  \* what a command waits for to be complete
  before  \* what it waits for to be started

vars == <<stage, needs, before>>

Init ==
  /\ stage = [c \in Commands |-> "none"]
  /\ needs = [c \in Commands |-> {}]
  /\ before = [c \in Commands |-> {}]

Enqueued == {c \in Commands : stage[c] # "none"}

(* What command c may not overtake. *)
Ahead(c) == IF c \in Markers THEN Enqueued ELSE {b \in Enqueued \cap Markers : needs[b] = {}}

Enqueue(c, W) ==
  /\ stage[c] = "none"
  /\ stage' = [stage EXCEPT ![c] = "queued"]
  /\ needs' = [needs EXCEPT ![c] = W]
  /\ before' = [before EXCEPT ![c] = Ahead(c)]

MayStart(c) ==
  /\ stage[c] = "queued"
  /\ \A b \in needs[c] : stage[b] = "complete"
  /\ \A b \in before[c] : stage[b] \in {"started", "complete"}

Start(c) ==
  /\ MayStart(c)
  /\ stage' = [stage EXCEPT ![c] = "started"]
  /\ UNCHANGED <<needs, before>>

(* A command that has nothing to do is complete as soon as it may start. *)
Complete(c) ==
  /\ stage[c] = "started" \/ MayStart(c)
  /\ stage' = [stage EXCEPT ![c] = "complete"]
  /\ UNCHANGED <<needs, before>>

Next ==
  \E c \in Commands :
    \/ \E W \in SUBSET Enqueued : Enqueue(c, W)
    \/ Start(c) \/ Complete(c)

Spec == Init /\ [][Next]_vars
=============================================================================
