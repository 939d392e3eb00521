-------------------------- MODULE BlueToothSocket --------------------------
(***************************************************************************)
(* CBlueToothSocket, the blocking stream socket under the device handlers   *)
(* and the server, with the kernel's end of the connection.                 *)
(*                                                                         *)
(* Every socket object is used by one thread; pc[s] is what that thread is  *)
(* doing.  The operations are sequences of steps, cut at every call into    *)
(* Winsock, because the peer acts between any two of them.  A callback into *)
(* the registered CSocketHandler is a label too ("on_connect",              *)
(* "on_receive"): the module that uses the socket says what happens there.  *)
(*                                                                         *)
(* Bytes are numbers; a BYTEBUFFER is a sequence of them.                   *)
(***************************************************************************)
EXTENDS Naturals, Sequences

CONSTANTS Sock,          \* the socket objects
          SizeMod,       \* size_t counts modulo this (2^32 in the program)
          PartialSend    \* whether send() may accept a part of what it is given

ASSUME SizeModAssumption == SizeMod \in Nat /\ SizeMod > 1
ASSUME PartialSendAssumption == PartialSend \in BOOLEAN

VARIABLES
  m_iStatus,             \* CBlueToothSocket::m_iStatus
  created,               \* m_socket is an open descriptor
  tries,                 \* Connect's retyCount
  rcv,                   \* Recveive's locals: buff, done, len
  snd,                   \* Send's locals: buff, done
  ret,                   \* what the last operation returned (a BOOL is 0 or 1)
  pc,                    \* where the thread of the socket is
  inq,                   \* kernel: bytes received and not read
  link,                  \* kernel: what follows them
  outq                   \* kernel: bytes accepted for the peer, in order

objVars == <<m_iStatus, created, tries>>
netVars == <<inq, link, outq>>
sockVars == <<objVars, rcv, snd, ret, pc, netVars>>

CONNECT_STATUS_T ==
  {"NOT_CREATED", "CREATED", "LISTENING", "ACCEPTED", "CONNECTING",
   "CONNECTION_AUTH_FAILED", "CONNECTION_TIMEOUT", "CONNECTION_FAILED",
   "CONNECTED", "RECV_FAILED", "CLOSED"}

\* Nothing yet; established; shut down by the peer; reset or timed out.
LinkStates == {"none", "open", "closed", "reset"}

MinusOne == SizeMod - 1        \* (size_t)-1
NoBytes == <<>>

Goto(s, l) == pc' = [pc EXCEPT ![s] = l]
Return(s, r, l) == ret' = [ret EXCEPT ![s] = r] /\ Goto(s, l)
SetStatus(s, st) == m_iStatus' = [m_iStatus EXCEPT ![s] = st]

-----------------------------------------------------------------------------
(* Create: socket() and setsockopt() succeed, or one of them fails and      *)
(* nothing is kept.                                                         *)

Create(s, from, to) ==
    /\ pc[s] = from
    /\ \/ /\ created' = [created EXCEPT ![s] = TRUE]
          /\ SetStatus(s, "CREATED")
          /\ Return(s, 1, to)
       \/ /\ UNCHANGED <<created, m_iStatus>>
          /\ Return(s, 0, to)
    /\ UNCHANGED <<tries, rcv, snd, netVars>>

(* Connect(address, channel, retryUnreachable).                             *)

ConnectBegin(s, from) ==
    /\ pc[s] = from
    /\ SetStatus(s, "CONNECTING")
    /\ tries' = [tries EXCEPT ![s] = 0]
    /\ Goto(s, "connect")
    /\ UNCHANGED <<created, rcv, snd, ret, netVars>>

Connected(s) ==
    /\ pc[s] = "connect" /\ created[s]
    /\ link' = [link EXCEPT ![s] = "open"]
    /\ SetStatus(s, "CONNECTED")
    /\ Return(s, 1, "on_connect")
    /\ UNCHANGED <<created, tries, rcv, snd, inq, outq>>

ConnectFailedSilently(s, retryUnreachable, to) ==
    /\ pc[s] = "connect"
    /\ Return(s, 0, to)
    /\ UNCHANGED <<objVars, rcv, snd, netVars>>

\* connect() fails; WSAENETUNREACH is tried again, retryUnreachable times in all.
ConnectFailed(s, retryUnreachable, to) ==
    /\ pc[s] = "connect"
    /\ tries' = [tries EXCEPT ![s] = @ + 1]
    /\ \E failure \in IF created[s]
                      THEN {"CONNECTION_AUTH_FAILED", "CONNECTION_TIMEOUT",
                            "CONNECTION_FAILED", "UNREACHABLE"}
                      ELSE {"CONNECTION_FAILED"} :
         IF failure = "UNREACHABLE" /\ tries'[s] < retryUnreachable
         THEN UNCHANGED <<m_iStatus, ret, pc>>
         ELSE /\ SetStatus(s, IF failure = "UNREACHABLE" THEN "CONNECTION_FAILED"
                                                         ELSE failure)
              /\ Return(s, 0, to)
    /\ UNCHANGED <<created, rcv, snd, netVars>>

(* Bind(), Listen(): for a listening socket.  A socket that cannot be bound  *)
(* is closed, but m_socket and m_iStatus keep what they were.                *)

Bind(s, from, to) ==
    /\ pc[s] = from
    /\ \/ created[s] /\ Return(s, 1, to) /\ UNCHANGED created
       \/ Return(s, 0, to) /\ created' = [created EXCEPT ![s] = FALSE]
    /\ UNCHANGED <<m_iStatus, tries, rcv, snd, netVars>>

Listen(s, from, to) ==
    /\ pc[s] = from
    /\ SetStatus(s, "LISTENING")
    /\ \/ created[s] /\ Return(s, 1, to)
       \/ Return(s, 0, to)
    /\ UNCHANGED <<created, tries, rcv, snd, netVars>>

-----------------------------------------------------------------------------
(* Recveive().                                                              *)

RecvFailed(s, to) == SetStatus(s, "RECV_FAILED") /\ Return(s, MinusOne, to)

\* if(m_iStatus != CONNECTED) return -1
RecvCheck(s, to) ==
    /\ pc[s] = "recv"
    /\ IF m_iStatus[s] = "CONNECTED" THEN Goto(s, "recv_select") /\ UNCHANGED ret
                                     ELSE Return(s, MinusOne, to)
    /\ UNCHANGED <<objVars, rcv, snd, netVars>>

\* The loop around select() ends when there is something to read, be it the end
\* of the stream, or when select() fails.
RecvSelect(s, to) ==
    /\ pc[s] = "recv_select"
    /\ \/ /\ inq[s] # NoBytes \/ link[s] # "open"
          /\ Goto(s, "recv_len")
          /\ UNCHANGED <<m_iStatus, ret>>
       \/ link[s] = "reset" /\ RecvFailed(s, to)
    /\ UNCHANGED <<created, tries, rcv, snd, netVars>>

\* RecveiveAvailable(): 0 also when ioctlsocket() fails.
RecveiveAvailable(s) == IF link[s] = "reset" THEN 0 ELSE Len(inq[s])

RecvLenKeepsStatus(s, to) ==
    /\ pc[s] = "recv_len"
    /\ IF RecveiveAvailable(s) = 0 THEN Return(s, MinusOne, to) /\ UNCHANGED rcv
       ELSE /\ rcv' = [rcv EXCEPT ![s] =
                         [buff |-> NoBytes, done |-> 0, len |-> RecveiveAvailable(s)]]
            /\ Goto(s, "recv_read")
            /\ UNCHANGED ret
    /\ UNCHANGED <<objVars, snd, netVars>>

RecvLenTriesAgain(s, to) ==
    /\ pc[s] = "recv_len"
    /\ IF RecveiveAvailable(s) = 0 THEN Return(s, 0, to) /\ UNCHANGED rcv
       ELSE /\ rcv' = [rcv EXCEPT ![s] =
                         [buff |-> NoBytes, done |-> 0, len |-> RecveiveAvailable(s)]]
            /\ Goto(s, "recv_read")
            /\ UNCHANGED ret
    /\ UNCHANGED <<objVars, snd, netVars>>

RecvLen(s, to) ==
    /\ pc[s] = "recv_len"
    /\ LET len == RecveiveAvailable(s) IN
         IF len = 0 THEN RecvFailed(s, to) /\ UNCHANGED rcv
         ELSE /\ rcv' = [rcv EXCEPT ![s] = [buff |-> NoBytes, done |-> 0, len |-> len]]
              /\ Goto(s, "recv_read")
              /\ UNCHANGED <<m_iStatus, ret>>
    /\ UNCHANGED <<created, tries, snd, netVars>>

RecvReadOverwrites(s) ==
    /\ pc[s] = "recv_read" /\ link[s] # "reset"
    /\ \E count \in 1 .. Len(inq[s]) :
         /\ count <= rcv[s].len - rcv[s].done
         /\ rcv' = [rcv EXCEPT ![s].buff = SubSeq(inq[s], 1, count), ![s].done = @ + count]
         /\ inq' = [inq EXCEPT ![s] = SubSeq(@, count + 1, Len(@))]
    /\ Goto(s, "recv_more")
    /\ UNCHANGED <<objVars, snd, ret, link, outq>>

\* recv() of len - done bytes returns some that are there, or fails.
RecvRead(s) ==
    /\ pc[s] = "recv_read"
    /\ IF link[s] = "reset"
       THEN /\ SetStatus(s, "RECV_FAILED")
            /\ rcv' = [rcv EXCEPT ![s].done = MinusOne]
            /\ Goto(s, "recv_deliver")
            /\ UNCHANGED inq
       ELSE \E count \in 1 .. Len(inq[s]) :
              /\ count <= rcv[s].len - rcv[s].done
              /\ rcv' = [rcv EXCEPT ![s].buff = @ \o SubSeq(inq[s], 1, count),
                                    ![s].done = @ + count]
              /\ inq' = [inq EXCEPT ![s] = SubSeq(@, count + 1, Len(@))]
              /\ Goto(s, "recv_more")
              /\ UNCHANGED m_iStatus
    /\ UNCHANGED <<created, tries, snd, ret, link, outq>>

\* if(RecveiveAvailable()==0) break; while(done < len)
RecvMore(s) ==
    /\ pc[s] = "recv_more"
    /\ Goto(s, IF RecveiveAvailable(s) = 0 \/ rcv[s].done >= rcv[s].len
               THEN "recv_deliver" ELSE "recv_read")
    /\ UNCHANGED <<objVars, rcv, snd, ret, netVars>>

RecvDeliverOnSuccess(s) ==
    /\ pc[s] = "recv_deliver"
    /\ Goto(s, IF rcv[s].done = MinusOne THEN "received" ELSE "on_receive")
    /\ UNCHANGED <<objVars, rcv, snd, ret, netVars>>

RecvDeliverNever(s) ==
    /\ pc[s] = "recv_deliver"
    /\ Goto(s, "received")
    /\ UNCHANGED <<objVars, rcv, snd, ret, netVars>>

\* m_pHandler->OnReceive(m_socket, buff), whatever ended the loop.
RecvDeliver(s) ==
    /\ pc[s] = "recv_deliver"
    /\ Goto(s, "on_receive")
    /\ UNCHANGED <<objVars, rcv, snd, ret, netVars>>

RecvReturn(s, from, to) ==
    /\ pc[s] = from
    /\ Return(s, rcv[s].done, to)
    /\ rcv' = [rcv EXCEPT ![s] = [buff |-> NoBytes, done |-> 0, len |-> 0]]
    /\ UNCHANGED <<objVars, snd, netVars>>

Recveive(s, to) == \/ RecvCheck(s, to) \/ RecvSelect(s, to) \/ RecvLen(s, to)
                   \/ RecvRead(s) \/ RecvMore(s) \/ RecvDeliver(s)

-----------------------------------------------------------------------------
(* Send(buff); the thread goes on at label "to" (see Send below).           *)

SendBegin(s, from, buff, at) ==
    /\ pc[s] = from
    /\ snd' = [snd EXCEPT ![s] = [buff |-> buff, done |-> 0]]
    /\ Goto(s, at)
    /\ UNCHANGED <<objVars, rcv, ret, netVars>>

Sending(s) == snd[s].done < Len(snd[s].buff)

SendMayExceed(s, at) ==
    /\ pc[s] = at /\ Sending(s)
    /\ link[s] \in {"open", "closed"}
    /\ \E count \in 1 .. Len(snd[s].buff) :
         /\ outq' = [outq EXCEPT ![s] = @ \o SubSeq(snd[s].buff, 1, count)]
         /\ snd' = [snd EXCEPT ![s].done = @ + count]
    /\ UNCHANGED <<objVars, rcv, ret, pc, inq, link>>

\* send(m_socket, &buff[0], len - done) accepts count bytes from the front of
\* the buffer, however many have been sent before.
SendSome(s, at) ==
    /\ pc[s] = at /\ Sending(s)
    /\ link[s] \in {"open", "closed"}
    /\ LET rest == Len(snd[s].buff) - snd[s].done IN
         \E count \in IF PartialSend THEN 1 .. rest ELSE {rest} :
           /\ outq' = [outq EXCEPT ![s] = @ \o SubSeq(snd[s].buff, 1, count)]
           /\ snd' = [snd EXCEPT ![s].done = @ + count]
    /\ UNCHANGED <<objVars, rcv, ret, pc, inq, link>>

SendFailsSigned(s, at) ==
    /\ pc[s] = at /\ Sending(s)
    /\ link[s] = "reset"
    /\ snd' = [snd EXCEPT ![s].done = @ - 1]
    /\ UNCHANGED <<objVars, rcv, ret, pc, netVars>>

\* send() fails.  SOCKET_ERROR is not <= 0 as a size_t: it is added to done.
SendFails(s, at) ==
    /\ pc[s] = at /\ Sending(s)
    /\ link[s] = "reset"
    /\ snd' = [snd EXCEPT ![s].done = (@ + MinusOne) % SizeMod]
    /\ UNCHANGED <<objVars, rcv, ret, pc, netVars>>

SendReturn(s, at, to) ==
    /\ pc[s] = at /\ ~Sending(s)
    /\ Return(s, snd[s].done, to)
    /\ snd' = [snd EXCEPT ![s] = [buff |-> NoBytes, done |-> 0]]
    /\ UNCHANGED <<objVars, rcv, netVars>>

Send(s, at, to) == SendSome(s, at) \/ SendFails(s, at) \/ SendReturn(s, at, to)

-----------------------------------------------------------------------------
(* The kernel and the peer.                                                 *)

Arrives(s, bytes) ==
    /\ link[s] = "open"
    /\ inq' = [inq EXCEPT ![s] = @ \o bytes]
    /\ UNCHANGED <<objVars, rcv, snd, ret, pc, link, outq>>

PeerCloses(s) ==
    /\ link[s] = "open"
    /\ link' = [link EXCEPT ![s] = "closed"]
    /\ UNCHANGED <<objVars, rcv, snd, ret, pc, inq, outq>>

\* What was received and not read is lost.
LinkBreaks(s) ==
    /\ link[s] \in {"open", "closed"}
    /\ link' = [link EXCEPT ![s] = "reset"]
    /\ inq' = [inq EXCEPT ![s] = NoBytes]
    /\ UNCHANGED <<objVars, rcv, snd, ret, pc, outq>>

SockInit(start) ==
    /\ m_iStatus = [s \in Sock |-> "NOT_CREATED"]
    /\ created = [s \in Sock |-> FALSE]
    /\ tries = [s \in Sock |-> 0]
    /\ rcv = [s \in Sock |-> [buff |-> NoBytes, done |-> 0, len |-> 0]]
    /\ snd = [s \in Sock |-> [buff |-> NoBytes, done |-> 0]]
    /\ ret = [s \in Sock |-> 0]
    /\ pc = [s \in Sock |-> start]
    /\ inq = [s \in Sock |-> NoBytes]
    /\ link = [s \in Sock |-> "none"]
    /\ outq = [s \in Sock |-> NoBytes]

SockTypeOK ==
    /\ m_iStatus \in [Sock -> CONNECT_STATUS_T]
    /\ created \in [Sock -> BOOLEAN]
    /\ tries \in [Sock -> Nat]
    /\ rcv \in [Sock -> [buff : Seq(Nat), done : 0 .. MinusOne, len : Nat]]
    /\ snd \in [Sock -> [buff : Seq(Nat), done : 0 .. MinusOne]]
    /\ ret \in [Sock -> 0 .. MinusOne]
    /\ inq \in [Sock -> Seq(Nat)]
    /\ link \in [Sock -> LinkStates]
    /\ outq \in [Sock -> Seq(Nat)]

=============================================================================
