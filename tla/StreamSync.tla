----------------------------- MODULE StreamSync -----------------------------
(***************************************************************************)
(* What a CHIPQueue promises to the threads that use it, independent of    *)
(* how a backend implements it.                                            *)
(*                                                                         *)
(* The device owes the program a set of operations.  An operation is       *)
(* submitted by a call and completes at any later time, in any order.  A   *)
(* blocking call (hipStreamSynchronize, hipDeviceSynchronize, the blocking *)
(* copies) names the operations that are outstanding when it is made on    *)
(* the queues it is about, and may return only when all of them have       *)
(* completed: "Wait for this queue to finish" (CHIPBackend.hh, finish).    *)
(* A call the driver refuses returns with an error and promises nothing.   *)
(***************************************************************************)
EXTENDS Naturals

CONSTANTS
  Threads,     \* host threads of the application
  Queues,      \* the queues (HIP streams) of the context
  Positions    \* names that tell the operations of one queue apart

VARIABLES
  outstanding, \* operations submitted and not yet completed
  waiting,     \* threads inside a blocking call
  owed         \* what each blocking call still has to wait for

vars == <<outstanding, waiting, owed>>

Operation == [queue : Queues, pos : Positions]

TypeOK ==
  /\ outstanding \subseteq Operation
  /\ waiting \subseteq Threads
  /\ owed \in [Threads -> SUBSET Operation]

Init ==
  /\ outstanding = {}
  /\ waiting = {}
  /\ owed = [t \in Threads |-> {}]

On(Q, ops) == { o \in ops : o.queue \in Q }

(* An asynchronous call: one more operation is outstanding. *)
Submit(o) ==
  /\ o \notin outstanding
  /\ outstanding' = outstanding \cup {o}
  /\ UNCHANGED <<waiting, owed>>

(* A blocking wait for everything submitted to the queues Q. *)
BeginWait(t, Q) ==
  /\ t \notin waiting
  /\ waiting' = waiting \cup {t}
  /\ owed' = [owed EXCEPT ![t] = On(Q, outstanding)]
  /\ UNCHANGED outstanding

(* A blocking operation: it is submitted and waited for by one call. *)
SubmitAndWait(t, o) ==
  /\ t \notin waiting
  /\ o \notin outstanding
  /\ outstanding' = outstanding \cup {o}
  /\ waiting' = waiting \cup {t}
  /\ owed' = [owed EXCEPT ![t] = On({o.queue}, outstanding \cup {o})]

(* The device completes an operation; nobody has to wait for it any more. *)
Complete(o) ==
  /\ o \in outstanding
  /\ outstanding' = outstanding \ {o}
  /\ owed' = [t \in Threads |-> owed[t] \ {o}]
  /\ UNCHANGED waiting

(* A blocking call returns: nothing it was asked to wait for is left. *)
Return(t) ==
  /\ t \in waiting
  /\ owed[t] = {}
  /\ waiting' = waiting \ {t}
  /\ UNCHANGED <<outstanding, owed>>

(* A blocking call reports an error instead. *)
Fail(t) ==
  /\ t \in waiting
  /\ waiting' = waiting \ {t}
  /\ owed' = [owed EXCEPT ![t] = {}]
  /\ UNCHANGED outstanding

Next ==
  \/ \E o \in Operation : Submit(o) \/ Complete(o)
  \/ \E t \in Threads, o \in Operation : SubmitAndWait(t, o)
  \/ \E t \in Threads, Q \in SUBSET Queues : BeginWait(t, Q)
  \/ \E t \in Threads : Return(t) \/ Fail(t)

Spec == Init /\ [][Next]_vars
=============================================================================
