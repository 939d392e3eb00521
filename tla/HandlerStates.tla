--------------------------- MODULE HandlerStates ---------------------------
(***************************************************************************)
(* What the manager can tell of a CDevMgrBTHandlerThread: the states of its *)
(* thread and of its socket's status, as far as CBTDeviceManager and        *)
(* CBTDeviceMgrBTHandler distinguish them.                                  *)
(*                                                                         *)
(* "started": constructed and its thread created, m_pSocket not yet         *)
(* assigned.  Then the status: "NOT_CREATED" (also CREATED), "CONNECTING",  *)
(* "CONNECTED" and "FAILED" (every failure).  "exited": the thread has      *)
(* returned; the socket object stays, FAILED.                               *)
(***************************************************************************)
Running == {"started", "NOT_CREATED", "CONNECTING", "CONNECTED", "FAILED"}

\* CDevMgrBTHandlerThread::Run: new socket and Create; Connect begins;
\* Connect ends; Recveive returns -1; return.
HandlerMoves == {<<"started", "NOT_CREATED">>, <<"NOT_CREATED", "CONNECTING">>,
                 <<"CONNECTING", "CONNECTED">>, <<"CONNECTING", "FAILED">>,
                 <<"CONNECTED", "FAILED">>, <<"FAILED", "exited">>}

=============================================================================
