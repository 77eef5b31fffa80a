--------------------------- MODULE MCDeviceSelect ---------------------------
(* Instances of DeviceSelect for TLC.                                      *)
EXTENDS DeviceSelect

(* Two properties and three devices: full, partial and no matches in every *)
(* order.                                                                  *)
TwoProps == {"totalGlobalMem", "maxThreadsPerBlock"}

(* An uninitialised pointer is no device.                                  *)
NoPointer == 0 - 1
=============================================================================
