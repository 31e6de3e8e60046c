--------------------------- MODULE MCProgramBuild ---------------------------
(* Two devices, three calls and two kernels. *)
EXTENDS ProgramBuild, TLC
CONSTANTS d1, d2, b1, b2, b3, k1, k2
MCDevices == {d1, d2}
MCBuilds == {b1, b2, b3}
MCKernels == {k1, k2}
Symmetry == Permutations(MCDevices) \cup Permutations(MCBuilds) \cup Permutations(MCKernels)
=============================================================================
