--------------------------- MODULE MCKernelLaunch ---------------------------
(* An instance of KernelLaunch for TLC.                                    *)
EXTENDS KernelLaunch

CONSTANTS t1, t2, q1, q2, k1, k2, k3, c1, c2, c3, c4

TwoThreads == {t1, t2}
TwoQueues == {q1, q2}
ThreeKernels == {k1, k2, k3}
TwoKernels == {k1, k2}
FourTickets == {c1, c2, c3, c4}

(* Each thread launches a kernel of its own, t1 also one the device does   *)
(* not know.                                                               *)
OwnKernels == [t \in Threads |-> IF t = t1 THEN {k1, k3} ELSE {k2}]

(* Both use the stack; t2 also launches past it.                           *)
Ways == [t \in Threads |-> IF t = t1 THEN {"old", "new"} ELSE {"old", "direct"}]
=============================================================================
