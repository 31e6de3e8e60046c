------------------------- MODULE MCMemConsistency -------------------------
(* Instances of MemConsistency for TLC. *)
EXTENDS MemConsistency, TLC

CONSTANTS d1, d2, d3, m1, m2

Kernel(s, d)   == [kind |-> "kernel", src |-> s, dst |-> d, whole |-> FALSE]
Read(s)        == [kind |-> "read", src |-> s, dst |-> None, whole |-> FALSE]
Map(s)         == [kind |-> "map", src |-> s, dst |-> None, whole |-> FALSE]
Write(d, w)    == [kind |-> "write", src |-> None, dst |-> d, whole |-> w]
Fill(d)        == [kind |-> "fill", src |-> None, dst |-> d, whole |-> TRUE]
Copy(s, d, w)  == [kind |-> "copy", src |-> s, dst |-> d, whole |-> w]

OneContext == [d \in Devices |-> d1]
TwoContexts == [d \in Devices |-> IF d = d3 THEN d3 ELSE d1]

OneMemOps == {Kernel(m1, None), Read(m1), Map(m1), Write(m1, TRUE), Write(m1, FALSE)}
AllOps == {Kernel(m1, m2), Map(m2), Read(m2), Write(m1, TRUE), Write(m2, FALSE),
           Fill(m2), Copy(m1, m2, TRUE), Copy(m1, m2, FALSE)}
ReadOnlyOps == {Copy(m2, m1, TRUE), Write(m1, FALSE), Map(m1)}

Symmetry == Permutations(Commands)
=============================================================================
