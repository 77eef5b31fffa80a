--------------------------- MODULE MCDeviceMemory ---------------------------
(* Instances of DeviceMemory for TLC.                                      *)
EXTENDS DeviceMemory

CONSTANTS t1, t2, t3

Nobody == {}
OneThread == {t1}
TwoThreads == {t1, t2}
ThreeThreads == {t1, t2, t3}
=============================================================================
