---------------------------- MODULE BoundedFifo ----------------------------
(***************************************************************************)
(* What a command ring promises to the threads that share it: commands     *)
(* come out in the order they went in, each once, and no more than         *)
(* Capacity are in it.                                                     *)
(***************************************************************************)
EXTENDS Naturals, Sequences

CONSTANTS Values, Capacity, None

VARIABLES
  queue,  \* the commands in the ring
  out     \* the command taken last

Init == queue = <<>> /\ out = None

Put(v) ==
  /\ Len(queue) < Capacity
  /\ queue' = Append(queue, v)
  /\ UNCHANGED out

Take ==
  /\ queue # <<>>
  /\ out' = Head(queue)
  /\ queue' = Tail(queue)

Next == Take \/ \E v \in Values : Put(v)

Spec == Init /\ [][Next]_<<queue, out>>
=============================================================================
