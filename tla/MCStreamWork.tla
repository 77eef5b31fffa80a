---------------------------- MODULE MCStreamWork ----------------------------
(* Instance of StreamWork, and with it of Streams, for TLC.                *)
EXTENDS StreamWork

CONSTANTS t1, t2, d1, d2, q1, q2, s1, s2

OneThread == {t1}
OtherThread == {t2}
TwoThreads == {t1, t2}

TwoDevices == {d1, d2}
TwoPrimaries == [d \in TwoDevices |-> IF d = d1 THEN q1 ELSE q2]
FourQueues == {q1, q2, s1, s2}
=============================================================================
