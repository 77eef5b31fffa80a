----------------------------- MODULE MCModules -----------------------------
(* An instance of Modules for TLC. *)
EXTENDS Modules, TLC

CONSTANTS b1, b2, b3, n1, n2, d1, d2, p1, p2, p3

(* b1 holds every function, the others n1 only. *)
Kernels == [x \in Binaries |-> IF x = b1 THEN Names ELSE {n1}]
TwoDevices == <<d1, d2>>

(* Addresses are only compared; p1 is one that uninitialised memory holds. *)
Symmetry == Permutations(Addresses \ Indeterminate)
=============================================================================
