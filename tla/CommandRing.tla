---------------------------- MODULE CommandRing ----------------------------
(***************************************************************************)
(* LockFreeQueueMS, the ring of an in-order command queue and of a         *)
(* device's ready queue: several threads enqueue, one peeks and dequeues.  *)
(* A step is one access to an index or an element; a compare-and-swap is   *)
(* one step.  Reads and writes are seen in program order, as the volatile  *)
(* indices and the barriers of the swaps make them on x86.                 *)
(*                                                                         *)
(* The claim of a slot compares idx_w_cas_ with a value read before, which *)
(* does not tell a ring that stood still from one that went round.  lag    *)
(* counts the claims a thread has missed since it read idx_w_cas_, and     *)
(* MaxLag bounds it: the schedule a run assumes.                           *)
(***************************************************************************)
EXTENDS Naturals, Sequences

CONSTANTS
  Producers,  \* threads that enqueue
  Values,     \* commands
  Size,       \* size_: a ring holds one command less
  MaxLag,     \* bound: claims by others between a thread's read and its swap
  None

ASSUME RingAssumption ==
  /\ Size \in Nat /\ Size >= 2
  /\ MaxLag \in Nat
  /\ None \notin Values

VARIABLES
  idxR,       \* idx_r_
  idxW,       \* idx_w_
  idxWcas,    \* idx_w_cas_
  elements,   \* elements_
  at,         \* where each producer is in Enqueue()
  value,      \* its argument
  prev,       \* its prev_idx_w
  lag,        \* history: claims it has missed since it read prev
  consumerAt, \* where the consumer is
  peeked,     \* what its last Peek() returned, until it dequeues
  taken,      \* what Dequeue() has read
  out         \* history: what the last Dequeue() returned

producerVars == <<at, value, prev, lag>>
consumerVars == <<consumerAt, peeked, taken, out>>
vars == <<idxR, idxW, idxWcas, elements, producerVars, consumerVars>>

Slots == 0 .. Size - 1

(* Slip: the index does not wrap round. *)
Succ_Slip(i) == i + 1

Succ(i) == (i + 1) % Size

Init ==
  /\ idxR = 0 /\ idxW = 0 /\ idxWcas = 0
  /\ elements = [i \in Slots |-> None]
  /\ at = [p \in Producers |-> "idle"]
  /\ value = [p \in Producers |-> None]
  /\ prev = [p \in Producers |-> 0]
  /\ lag = [p \in Producers |-> 0]
  /\ consumerAt = "idle" /\ peeked = None /\ taken = None /\ out = None

(* Enqueue() is called, and called again when the ring is full. *)
Enqueue(p, v) ==
  /\ at[p] = "idle"
  /\ at' = [at EXCEPT ![p] = "load"]
  /\ value' = [value EXCEPT ![p] = v]
  /\ UNCHANGED <<idxR, idxW, idxWcas, elements, prev, lag, consumerVars>>

LoadIndex(p) ==
  /\ at[p] = "load"
  /\ prev' = [prev EXCEPT ![p] = idxWcas]
  /\ lag' = [lag EXCEPT ![p] = 0]
  /\ at' = [at EXCEPT ![p] = "check"]
  /\ UNCHANGED <<idxR, idxW, idxWcas, elements, value, consumerVars>>

(* Slip: the ring is filled to the last slot. *)
CheckFull_Slip(p) ==
  /\ at[p] = "check"
  /\ at' = [at EXCEPT ![p] = "claim"]
  /\ UNCHANGED <<idxR, idxW, idxWcas, elements, value, prev, lag, consumerVars>>

CheckFull(p) ==
  /\ at[p] = "check"
  /\ at' = [at EXCEPT ![p] = IF Succ(prev[p]) = idxR THEN "load" ELSE "claim"]
  /\ UNCHANGED <<idxR, idxW, idxWcas, elements, value, prev, lag, consumerVars>>

Racing(p) == {o \in Producers \ {p} : at[o] \in {"check", "claim"}}

(* Slip: idx_w_cas_ is stored, whatever it has become. *)
Claim_Slip(p) ==
  /\ at[p] = "claim"
  /\ idxWcas' = Succ(prev[p])
  /\ at' = [at EXCEPT ![p] = "write"]
  /\ UNCHANGED <<idxR, idxW, elements, value, prev, lag, consumerVars>>

(* The compare-and-swap of idx_w_cas_. *)
Claim(p) ==
  /\ at[p] = "claim"
  /\ IF idxWcas = prev[p]
       THEN /\ \A o \in Racing(p) : lag[o] < MaxLag
            /\ idxWcas' = Succ(prev[p])
            /\ lag' = [o \in Producers |-> IF o \in Racing(p) THEN lag[o] + 1 ELSE lag[o]]
            /\ at' = [at EXCEPT ![p] = "write"]
       ELSE /\ at' = [at EXCEPT ![p] = "load"]
            /\ UNCHANGED <<idxWcas, lag>>
  /\ UNCHANGED <<idxR, idxW, elements, value, prev, consumerVars>>

WriteElement(p) ==
  /\ at[p] = "write"
  /\ elements' = [elements EXCEPT ![prev[p]] = value[p]]
  /\ at' = [at EXCEPT ![p] = "publish"]
  /\ UNCHANGED <<idxR, idxW, idxWcas, value, prev, lag, consumerVars>>

(* Slip: a later slot is published before an earlier one. *)
Publish_Slip(p) ==
  /\ at[p] = "publish"
  /\ idxW' = Succ(prev[p])
  /\ at' = [at EXCEPT ![p] = "idle"]
  /\ UNCHANGED <<idxR, idxWcas, elements, value, prev, lag, consumerVars>>

(* The compare-and-swap of idx_w_, repeated until the slots before are     *)
(* published. *)
Publish(p) ==
  /\ at[p] = "publish" /\ idxW = prev[p]
  /\ idxW' = Succ(prev[p])
  /\ at' = [at EXCEPT ![p] = "idle"]
  /\ UNCHANGED <<idxR, idxWcas, elements, value, prev, lag, consumerVars>>

Peek ==
  /\ consumerAt = "idle" /\ idxR # idxW
  /\ peeked' = elements[idxR]
  /\ UNCHANGED <<idxR, idxW, idxWcas, elements, producerVars, consumerAt, taken, out>>

(* Dequeue() *)
ReadElement ==
  /\ consumerAt = "idle" /\ idxR # idxW
  /\ taken' = elements[idxR]
  /\ consumerAt' = "advance"
  /\ UNCHANGED <<idxR, idxW, idxWcas, elements, producerVars, peeked, out>>

Advance ==
  /\ consumerAt = "advance"
  /\ idxR' = Succ(idxR)
  /\ out' = taken /\ taken' = None /\ peeked' = None
  /\ consumerAt' = "idle"
  /\ UNCHANGED <<idxW, idxWcas, elements, producerVars>>

Producer(p) ==
  LoadIndex(p) \/ CheckFull(p) \/ Claim(p) \/ WriteElement(p) \/ Publish(p)

Consumer == ReadElement \/ Advance

Next ==
  \/ \E p \in Producers : Producer(p) \/ \E v \in Values : Enqueue(p, v)
  \/ Consumer \/ Peek

Spec == Init /\ [][Next]_vars

-----------------------------------------------------------------------------
(* Properties *)

(* Every variable keeps to its type: indices stay within the ring. *)
TypeOK ==
  /\ idxR \in Slots /\ idxW \in Slots /\ idxWcas \in Slots
  /\ elements \in [Slots -> Values \cup {None}]
  /\ at \in [Producers -> {"idle", "load", "check", "claim", "write", "publish"}]
  /\ value \in [Producers -> Values \cup {None}]
  /\ prev \in [Producers -> Slots]
  /\ lag \in [Producers -> 0 .. MaxLag]
  /\ consumerAt \in {"idle", "advance"}
  /\ peeked \in Values \cup {None} /\ taken \in Values \cup {None} /\ out \in Values \cup {None}

(* Distance from one index to another, going up the ring. *)
Ahead(i, j) == (j + Size - i) % Size

(* The commands published and not yet dequeued. *)
Contents == [k \in 1 .. Ahead(idxR, idxW) |-> elements[(idxR + k - 1) % Size]]

(* Producers between their two swaps hold distinct slots that the consumer *)
(* cannot see, so none overwrites what another enqueued.                   *)
ExclusiveSlots ==
  \A p \in Producers : at[p] \in {"write", "publish"} =>
    /\ Ahead(idxW, prev[p]) < Ahead(idxW, idxWcas)
    /\ \A o \in Producers \ {p} : at[o] \in {"write", "publish"} => prev[o] # prev[p]

(* The scheduler dequeues the command it peeked, whatever was enqueued     *)
(* meanwhile. *)
DequeuesPeeked == consumerAt = "advance" /\ peeked # None => taken = peeked

Fifo == INSTANCE BoundedFifo WITH queue <- Contents, Capacity <- Size - 1

(* The ring is a bounded FIFO queue for its producers and its consumer.    *)
ImplementsFifo == Fifo!Spec
=============================================================================
