--------------------------- MODULE MCDevicePresence ---------------------------
(* Small instances of DevicePresence.  One unit of time is about 30 seconds: *)
(* the watchdog of 90s is 3 units, heartbeats (60s at most) are 2 units, the *)
(* 20s grace is one unit.                                                    *)
EXTENDS DevicePresence, TLC

SocketSymmetry == Permutations(Socket)
=============================================================================
