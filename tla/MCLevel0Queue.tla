--------------------------- MODULE MCLevel0Queue ---------------------------
(* Instances of Level0Queue for TLC: who submits to and waits for what.    *)
EXTENDS Level0Queue

CONSTANTS t1, t2, q1, q2

TwoThreads == {t1, t2}
OneThread == {t1}
TwoQueues == {q1, q2}
OneQueue == {q1}
Nobody == {}

(* Every thread submits to every queue. *)
Everything == [t \in Threads |-> Queues]

(* Only t1 makes blocking calls. *)
OneWaits == [t \in Threads |-> IF t = t1 THEN Queues ELSE {}]
=============================================================================
