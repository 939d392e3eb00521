------------------------ MODULE DeviceHandlerThread ------------------------
(***************************************************************************)
(* CDevMgrBTHandlerThread: the thread the manager starts for a device.  It  *)
(* connects, sends a beacon, and then receives until Recveive() returns -1, *)
(* echoing what it receives behind a time stamp.  The device sends the      *)
(* bytes 1, 2, 3, ..., may close the connection, and may go out of range.   *)
(***************************************************************************)
EXTENDS BlueToothSocket

CONSTANTS thread,      \* the handler's socket object
          Retries,     \* retryUnreachable (10 in the program)
          MaxBytes     \* bound: bytes the device sends

ASSUME OneSocket == Sock = {thread}
ASSUME HandlerBounds == Retries \in Nat /\ MaxBytes \in Nat
\* Whatever is received fits, with its time stamp, into a buffer.
ASSUME BuffersFit == MaxBytes + 1 < SizeMod

VARIABLES arrived,     \* history: bytes the device has sent
          taken,       \* history: bytes read from the kernel
          delivered    \* history: everything OnReceive has been given

histVars == <<arrived, taken, delivered>>
vars == <<sockVars, histVars>>

Time == 0              \* the byte that stands for Utils::CurrentTime()
Beacon == <<Time>>

-----------------------------------------------------------------------------
\* m_pSocket = new CBlueToothSocket(); RegisterHandler(this)
NewSocket ==
    /\ pc[thread] = "start"
    /\ Goto(thread, "create")
    /\ UNCHANGED <<objVars, rcv, snd, ret, netVars>>

\* OnConnect and OnReceive send from the handler's own thread.  (OnReceive logs
\* the bytes first: LogEvent of PersistentStorage, which shares nothing with this.)
OnConnect == SendBegin(thread, "on_connect", Beacon, "send_beacon")
OnReceive == SendBegin(thread, "on_receive", <<Time>> \o rcv[thread].buff, "send_echo")

\* while(m_pSocket->Recveive() != -1); return 0
Loop ==
    /\ pc[thread] = "loop"
    /\ Goto(thread, IF ret[thread] # MinusOne THEN "recv" ELSE "exited")
    /\ UNCHANGED <<objVars, rcv, snd, ret, netVars>>

Run ==
    /\ \/ NewSocket
       \/ Create(thread, "create", "created")
       \/ ConnectBegin(thread, "created")
       \/ Connected(thread)
       \/ ConnectFailed(thread, Retries, "recv")
       \/ OnConnect
       \/ Send(thread, "send_beacon", "recv")
       \/ Recveive(thread, "loop")
       \/ OnReceive
       \/ Send(thread, "send_echo", "received")
       \/ RecvReturn(thread, "received", "loop")
       \/ Loop
    /\ taken' = taken + (IF pc[thread] = "recv_read"
                         THEN Len(rcv'[thread].buff) - Len(rcv[thread].buff) ELSE 0)
    /\ delivered' = IF pc[thread] = "on_receive" THEN delivered \o rcv[thread].buff
                                                 ELSE delivered
    /\ UNCHANGED arrived

DeviceSends ==
    /\ arrived < MaxBytes
    /\ Arrives(thread, <<arrived + 1>>)
    /\ arrived' = arrived + 1
    /\ UNCHANGED <<taken, delivered>>

Device == \/ DeviceSends
          \/ (PeerCloses(thread) \/ LinkBreaks(thread)) /\ UNCHANGED histVars

Terminated == pc[thread] = "exited" /\ UNCHANGED vars

HandlerInit == /\ SockInit("start")
               /\ arrived = 0 /\ taken = 0 /\ delivered = NoBytes

HandlerNext == Run \/ Device \/ Terminated

\* The thread is scheduled.  While the connection is up it may wait in a
\* select() or a send() for as long as the device likes; no call blocks for
\* ever on a connection that is not there, or no longer.
HandlerSpec ==
    /\ HandlerInit /\ [][HandlerNext]_vars
    /\ WF_vars(Run /\ (m_iStatus[thread] # "CONNECTED" \/ link[thread] # "open"))

-----------------------------------------------------------------------------
HandlerTypeOK == SockTypeOK /\ arrived \in 0 .. MaxBytes /\ taken \in 0 .. arrived

\* Every byte read from the kernel is given to OnReceive once and in order,
\* whichever way Recveive ends -- also when recv() fails after some bytes have
\* been read (BlueToothSocket.cpp:389-426).
HandedOver ==
    delivered \o (IF pc[thread] \in {"recv_read", "recv_more", "recv_deliver", "on_receive"}
                  THEN rcv[thread].buff ELSE NoBytes)
      = [i \in 1 .. taken |-> i]

\* What Recveive returns and the status it leaves agree: the thread leaves its
\* loop just when the manager can see that the connection is over
\* (BlueToothSocket.cpp:337-426, BTDeviceManager.cpp:90).
EndMatchesStatus ==
    pc[thread] = "loop" => (ret[thread] = MinusOne <=> m_iStatus[thread] # "CONNECTED")

\* Send's loop, which counts a failed send() as (size_t)-1 bytes, ends with
\* nothing but the length of the buffer or -1, in whatever order partial and
\* failed sends come (BlueToothSocket.cpp:429-447).
SendEndsExactly ==
    pc[thread] \in {"send_beacon", "send_echo"} /\ ~Sending(thread) =>
      snd[thread].done \in {Len(snd[thread].buff), MinusOne}

\* The state of the handler as DeviceManager sees it.
StateOf == IF pc[thread] = "start" THEN "started"
           ELSE IF pc[thread] = "exited" THEN "exited"
           ELSE IF m_iStatus[thread] = "CREATED" THEN "NOT_CREATED"
           ELSE IF m_iStatus[thread] \in {"NOT_CREATED", "CONNECTING", "CONNECTED"}
                THEN m_iStatus[thread]
           ELSE "FAILED"

Life == INSTANCE HandlerLife WITH state <- StateOf

\* The handler thread lives the life DeviceManager assumes of it, and outside a
\* lasting connection it always goes on (BTDeviceManager.cpp:81-93).
ImplementsHandlerLife == Life!Spec

\* When the device leaves or breaks the connection, the thread ends, whatever
\* it was doing (BTDeviceManager.cpp:90).
BrokenLinkEndsThread == link[thread] \in {"closed", "reset"} ~> pc[thread] = "exited"

=============================================================================
