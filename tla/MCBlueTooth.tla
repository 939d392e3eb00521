---------------------------- MODULE MCBlueTooth ----------------------------
(* Two devices, one of them with a serial service; three descriptors, and one *)
(* call that fails.                                                          *)
EXTENDS BlueTooth
=============================================================================
