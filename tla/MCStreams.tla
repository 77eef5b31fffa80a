----------------------------- MODULE MCStreams -----------------------------
(* Instances of Streams for TLC.                                           *)
EXTENDS Streams

CONSTANTS t1, t2, d1, d2, q1, q2, s1, s2, s3

OneThread == {t1}
OtherThread == {t2}
TwoThreads == {t1, t2}
Nobody == {}

TwoDevices == {d1, d2}
TwoPrimaries == [d \in TwoDevices |-> IF d = d1 THEN q1 ELSE q2]
FiveQueues == {q1, q2, s1, s2, s3}
=============================================================================
