------------------------- MODULE MCInstanceMonitor -------------------------
(* The program's three services; the server's Run can return.               *)
EXTENDS InstanceMonitor
MCServices == <<"detector", "manager", "server">>
MCWorker == {"detector", "manager", "server"}
=============================================================================
