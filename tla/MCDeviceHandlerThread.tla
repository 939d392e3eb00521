----------------------- MODULE MCDeviceHandlerThread -----------------------
(* A device that sends up to four bytes, three attempts to connect, and     *)
(* size_t as small as the longest buffer allows.                            *)
EXTENDS DeviceHandlerThread
CONSTANT s
MCSock == {s}
=============================================================================
