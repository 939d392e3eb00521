----------------------------- MODULE MCBTServer -----------------------------
(* A server, two connections at a time, and clients with messages of their  *)
(* own.                                                                     *)
EXTENDS BTServer
CONSTANTS srv, c1, c2, v1, v2
MCClients == {c1, c2}
MCOneClient == {c1}
MCConn == {v1, v2}
MCSock == {srv, v1, v2} \cup Client
MCMessage(c) == IF c = c1 THEN <<1, 2>> ELSE <<3>>
=============================================================================
