--------------------------- MODULE MCLevel0Event ---------------------------
(* Instances of Level0Event for TLC.                                       *)
EXTENDS Level0Event

CONSTANTS t1, t2, q1, e1, e2

OneThread == {t1}
TwoThreads == {t1, t2}
OneQueue == {q1}
OneEvent == {e1}
TwoEvents == {e1, e2}

(* t1 submits and records; t2 only waits, polls and measures. *)
Observer == [t \in Threads |-> IF t = t1 THEN {q1} ELSE {}]
=============================================================================
