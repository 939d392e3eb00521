------------------------------ MODULE BTServer ------------------------------
(***************************************************************************)
(* CBTServer and its handlers, with clients that do what the server's unit  *)
(* test does (BTServer.cpp:105-124): connect, send one message, and look at *)
(* what the server received last.  The server's thread accepts connections  *)
(* in a loop, each with a handler object registered for it just before; the *)
(* handler's thread receives once and ends.  When the server's Run returns, *)
(* CInstanceMonitor starts it again on the same socket object.  The         *)
(* connection is a stream: it may deliver what was sent in several pieces.  *)
(***************************************************************************)
EXTENDS BlueToothSocket, FiniteSets

CONSTANTS Client,          \* the clients' sockets
          Conn,            \* the server's ends of the connections
          listener,        \* CBTServer::m_socket
          Nobody,          \* no socket
          Message(_),      \* what a client sends
          Pieces,          \* whether the stream may deliver a message in pieces
          MaxRuns,         \* bound: times the server is started
          MaxHandlers      \* bound: accept() does not fail with more handlers made

ASSUME Ends ==
    /\ Sock = {listener} \cup Client \cup Conn
    /\ listener \notin Client \cup Conn /\ Client \cap Conn = {}
    /\ Nobody \notin Sock
ASSUME ServerBounds ==
    /\ {MaxRuns, MaxHandlers} \subseteq Nat /\ Cardinality(Client) <= Cardinality(Conn)
    /\ Pieces \in BOOLEAN
    /\ \A c \in Client : Message(c) \in Seq(Nat) /\ Len(Message(c)) < MinusOne

VARIABLES
  runs,                    \* times the server was started
  listening,               \* kernel: the present descriptor listens
  backlog,                 \* kernel: its connections waiting to be accepted
  leaked,                  \* kernel: an earlier descriptor listens still
  peer,                    \* kernel: the other end, or Nobody
  m_pHandler,              \* the registered handler: a number, 0 is NULL
  m_pSocket,               \* per handler object created so far: socket or Nobody
  m_lastBuff,              \* what a handler received last
  received                 \* history: what the handler of a connection received

kernelVars == <<listening, backlog, leaked, peer>>
handlerVars == <<m_pHandler, m_pSocket>>
buffVars == <<m_lastBuff, received>>
vars == <<sockVars, runs, kernelVars, handlerVars, buffVars>>

-----------------------------------------------------------------------------
(* The server's thread.                                                     *)

\* CInstanceMonitor starts or restarts the thread.
Started ==
    /\ pc[listener] \in {"start", "stopped"} /\ runs < MaxRuns
    /\ runs' = runs + 1
    /\ Goto(listener, "create")
    /\ UNCHANGED <<objVars, rcv, snd, ret, netVars, kernelVars, handlerVars, buffVars>>

\* Create replaces the socket of an earlier run without closing it: what waits
\* in its backlog is out of reach.
CreateListener ==
    /\ Create(listener, "create", "bind")
    /\ IF ret'[listener] = 1
       THEN listening' = FALSE /\ backlog' = <<>> /\ leaked' = (leaked \/ listening)
       ELSE UNCHANGED <<listening, backlog, leaked>>
    /\ UNCHANGED <<runs, peer, handlerVars, buffVars>>

BindListener ==
    /\ Bind(listener, "bind", "register")
    /\ listening' = (listening /\ created'[listener])
    /\ backlog' = IF listening' THEN backlog ELSE <<>>
    /\ UNCHANGED <<runs, leaked, peer, handlerVars, buffVars>>

RegisterWithoutHandler ==
    /\ pc[listener] = "register"
    /\ m_pHandler' = Len(m_pSocket) + 1
    /\ Goto(listener, "listen")
    /\ UNCHANGED <<objVars, rcv, snd, ret, netVars, runs, kernelVars, m_pSocket, buffVars>>

RegisterOnce ==
    /\ pc[listener] = "register"
    /\ m_pSocket' = IF m_pHandler = 0 THEN Append(m_pSocket, Nobody) ELSE m_pSocket
    /\ m_pHandler' = Len(m_pSocket')
    /\ Goto(listener, "listen")
    /\ UNCHANGED <<objVars, rcv, snd, ret, netVars, runs, kernelVars, buffVars>>

\* m_socket.RegisterHandler(new CBTServerHandler(..)), at every turn.
RegisterHandler ==
    /\ pc[listener] = "register"
    /\ m_pSocket' = Append(m_pSocket, Nobody)
    /\ m_pHandler' = Len(m_pSocket')
    /\ Goto(listener, "listen")
    /\ UNCHANGED <<objVars, rcv, snd, ret, netVars, runs, kernelVars, buffVars>>

\* Listen(): when it fails, Run returns -1.
ListenOrReturn ==
    /\ \/ Listen(listener, "listen", "accept") /\ ret'[listener] = 1
       \/ Listen(listener, "listen", "stopped") /\ ret'[listener] = 0
    /\ listening' = (listening \/ ret'[listener] = 1)
    /\ UNCHANGED <<runs, backlog, leaked, peer, handlerVars, buffVars>>

\* Which name the kernel gives to a new connection does not matter.
NewConn == CHOOSE v \in Conn : peer[v] = Nobody

\* Accept(): the registered handler's OnAccept wraps the connection and starts
\* the handler's thread.
AcceptOne ==
    /\ pc[listener] = "accept" /\ backlog # <<>>
    /\ \E v \in Conn :
         /\ peer[v] = Nobody /\ v = NewConn
         /\ peer' = [peer EXCEPT ![v] = Head(backlog), ![Head(backlog)] = v]
         /\ m_pSocket' = [m_pSocket EXCEPT ![m_pHandler] = v]
         /\ m_iStatus' = [m_iStatus EXCEPT ![listener] = "ACCEPTED", ![v] = "CONNECTED"]
         /\ created' = [created EXCEPT ![v] = TRUE]
         /\ link' = [link EXCEPT ![v] = "open"]
         /\ pc' = [pc EXCEPT ![listener] = "register", ![v] = "recv"]
    /\ backlog' = Tail(backlog)
    /\ UNCHANGED <<tries, rcv, snd, ret, inq, outq, runs, listening, leaked, m_pHandler, buffVars>>

\* accept() fails: INVALID_SOCKET is not 0, so Run goes on with another handler.
AcceptFails ==
    /\ pc[listener] = "accept" /\ Len(m_pSocket) < MaxHandlers
    /\ Goto(listener, "register")
    /\ UNCHANGED <<objVars, rcv, snd, ret, netVars, runs, kernelVars, handlerVars, buffVars>>

Run == \/ CreateListener \/ BindListener \/ RegisterHandler
       \/ ListenOrReturn \/ AcceptOne

-----------------------------------------------------------------------------
(* A handler's thread: m_pSocket->Recveive(); return 0.  The socket is never *)
(* closed.                                                                  *)

OnReceive(v) ==
    /\ pc[v] = "on_receive"
    /\ m_lastBuff' = rcv[v].buff
    /\ received' = [received EXCEPT ![v] = rcv[v].buff]
    /\ Goto(v, "received")
    /\ UNCHANGED <<objVars, rcv, snd, ret, netVars>>

HandlerRun(v) ==
    /\ \/ Recveive(v, "exited") /\ UNCHANGED buffVars
       \/ OnReceive(v)
       \/ RecvReturn(v, "received", "exited") /\ UNCHANGED buffVars
    /\ UNCHANGED <<runs, kernelVars, handlerVars>>

-----------------------------------------------------------------------------
(* A client.  The kernel accepts its connection while the server's socket    *)
(* listens, or for one that an earlier run has left listening, which nobody  *)
(* accepts from; it carries what is sent in pieces of any length, in order.  *)
(* Or the client leaves without a word.                                      *)

ClientConnects(c) ==
    /\ Connected(c)
    /\ \/ listening /\ backlog' = Append(backlog, c)
       \/ leaked /\ UNCHANGED backlog
    /\ UNCHANGED <<listening, leaked, peer>>

ClientStep(c) ==
    /\ \/ ClientConnects(c)
       \/ /\ \/ Create(c, "start", "created")
             \/ ConnectBegin(c, "created")
             \/ ~listening /\ ConnectFailed(c, 1, "gone")
             \/ SendBegin(c, "on_connect", Message(c), "send")
             \/ Send(c, "send", "sent")
          /\ UNCHANGED kernelVars
    /\ UNCHANGED <<runs, handlerVars, buffVars>>

Leave(c) ==
    /\ pc[c] = "on_connect" /\ peer[c] # Nobody
    /\ Goto(c, "gone")
    /\ link' = [link EXCEPT ![peer[c]] = "closed"]
    /\ UNCHANGED <<objVars, rcv, snd, ret, inq, outq, runs, kernelVars, handlerVars, buffVars>>

Carry(c) ==
    /\ outq[c] # NoBytes /\ peer[c] # Nobody
    /\ Pieces \/ pc[c] = "sent"
    /\ \E n \in IF Pieces THEN 1 .. Len(outq[c]) ELSE {Len(outq[c])} :
         /\ inq' = [inq EXCEPT ![peer[c]] = @ \o SubSeq(outq[c], 1, n)]
         /\ outq' = [outq EXCEPT ![c] = SubSeq(@, n + 1, Len(@))]
    /\ UNCHANGED <<objVars, rcv, snd, ret, pc, link, runs, kernelVars, handlerVars, buffVars>>

-----------------------------------------------------------------------------
ServerInit ==
    /\ SockInit("start")
    /\ runs = 0 /\ listening = FALSE /\ backlog = <<>> /\ leaked = FALSE
    /\ peer = [s \in Client \cup Conn |-> Nobody]
    /\ m_pHandler = 0 /\ m_pSocket = <<>>
    /\ m_lastBuff = NoBytes
    /\ received = [v \in Conn |-> NoBytes]

ServerNext == \/ Started \/ Run \/ AcceptFails
              \/ \E v \in Conn : HandlerRun(v)
              \/ \E c \in Client : ClientStep(c) \/ Leave(c) \/ Carry(c)

\* The threads are scheduled, the monitor keeps the server alive and the kernel
\* carries what it has accepted; a client may stay away, and accept() need not fail.
ServerSpec ==
    /\ ServerInit /\ [][ServerNext]_vars
    /\ WF_vars(Started) /\ WF_vars(Run)
    /\ \A v \in Conn : WF_vars(HandlerRun(v))
    /\ \A c \in Client : WF_vars(Carry(c))

-----------------------------------------------------------------------------
ServerTypeOK ==
    /\ SockTypeOK
    /\ runs \in 0 .. MaxRuns /\ {listening, leaked} \subseteq BOOLEAN
    /\ backlog \in Seq(Client)
    /\ peer \in [Client \cup Conn -> Client \cup Conn \cup {Nobody}]
    /\ m_pHandler \in 0 .. Len(m_pSocket)
    /\ m_pSocket \in Seq(Conn \cup {Nobody})

\* A handler object serves one connection in its life: OnAccept never replaces
\* the socket a handler's thread is using, or the thread
\* (BTServer.cpp:19-25, 72-76).
HandlerServesOne ==
    [][\A h \in DOMAIN m_pSocket :
         m_pSocket[h] # Nobody => m_pSocket'[h] = m_pSocket[h]]_vars

\* Where send() takes whole messages, what the handler of a connection receives
\* is a beginning of the message of the client at the other end, however the stream
\* cuts it up and whatever the others send meanwhile.  It need not be the whole: the
\* handler calls Recveive once (BTServer.cpp:26-32, 49, BlueToothSocket.cpp:335-447).
Beginnings(m) == {SubSeq(m, 1, n) : n \in 1 .. Len(m)}
NoCrossTalk ==
    \A v \in Conn : received[v] # NoBytes => received[v] \in Beginnings(Message(peer[v]))

\* Something of every message sent is received, however the server is restarted and
\* accept() fails meanwhile, unless a restart has dropped the backlog or left a
\* listener behind, or the server has stopped for good at the bound on its restarts
\* (BTServer.cpp:66-90, BlueToothSocket.cpp:50-97, 242-264, InstanceMonitor.cpp:59-67).
Dropped(c) == peer[c] = Nobody /\ \A i \in DOMAIN backlog : backlog[i] # c
EveryMessageReceived ==
    \A c \in Client :
      pc[c] = "sent" ~> \/ peer[c] # Nobody /\ received[peer[c]] # NoBytes
                        \/ Dropped(c)
                        \/ runs = MaxRuns /\ pc[listener] = "stopped"

\* BTServer.cpp:121, "ASSERT_TRUE(testStr ==m_lastBuff)": when a lone client has
\* sent its message and the server has received, it has received the message.
TestReceives ==
    \A c \in Client :
      Client = {c} /\ pc[c] = "sent" /\ peer[c] # Nobody /\ pc[peer[c]] = "exited"
        => m_lastBuff = Message(c)

=============================================================================
