------------------------ MODULE MCDeviceSelection ------------------------
(* Instances of DeviceSelection for TLC. *)
EXTENDS DeviceSelection

CONSTANTS k1, k2

(* No name is the concatenation of others. *)
Names == [k \in Kernels |-> IF k = k1 THEN <<"a">> ELSE <<"b">>]

(* Within the threshold, above it, and above it the other way round. *)
CloseOrApart == {<<4, 3>>, <<8, 4>>, <<2, 6>>}
Apart == {<<6, 2>>}
==========================================================================
