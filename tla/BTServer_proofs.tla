-------------------------- MODULE BTServer_proofs --------------------------
(***************************************************************************)
(* Proofs about the server: a handler object never has its socket replaced, *)
(* and what the handler of a connection receives is a beginning of what the  *)
(* client at the other end has sent, for any number of clients, connections, *)
(* messages, pieces they are carried in, and restarts of the server.         *)
(***************************************************************************)
EXTENDS BTServer, TLAPS, SequenceTheorems

ListenerLabels == {"start", "create", "bind", "register", "listen", "accept", "stopped"}
ClientLabels == {"start", "created", "connect", "on_connect", "send", "sent", "gone"}
ConnLabels == {"start", "recv", "recv_select", "recv_len", "recv_read", "recv_more",
               "recv_deliver", "on_receive", "received", "exited"}
Labels == ListenerLabels \cup ClientLabels \cup ConnLabels

\* Where the threads are; nothing resets a connection.
Labelled ==
    /\ pc \in [Sock -> Labels]
    /\ pc[listener] \in ListenerLabels
    /\ \A c \in Client : pc[c] \in ClientLabels
    /\ \A v \in Conn : pc[v] \in ConnLabels
    /\ received \in [Conn -> Seq(Nat)]
    /\ \A s \in Sock : link[s] # "reset"

\* At Listen and Accept the registered handler is a new one, without a socket.
HandlerIsNew ==
    pc[listener] \in {"listen", "accept"} =>
      m_pHandler \in 1 .. Len(m_pSocket) /\ m_pSocket[m_pHandler] = Nobody

\* The two ends of a connection have one another; a client that has not connected
\* yet has no peer, and a connection object is one just when its handler has begun.
Paired ==
    /\ \A c \in Client : peer[c] # Nobody =>
         /\ peer[c] \in Conn /\ peer[peer[c]] = c
         /\ pc[c] \notin {"start", "created", "connect"}
    /\ \A v \in Conn : /\ peer[v] # Nobody => peer[v] \in Client /\ peer[peer[v]] = v
                       /\ peer[v] = Nobody <=> pc[v] = "start"

\* Each client waits in the backlog once, connected and without a peer.
Queued ==
    /\ \A i \in 1 .. Len(backlog) : /\ peer[backlog[i]] = Nobody
                                    /\ pc[backlog[i]] \in {"on_connect", "send", "sent"}
    /\ \A i, j \in 1 .. Len(backlog) : backlog[i] = backlog[j] => i = j

Waiting == {"recv", "recv_select", "recv_len"}
Reading == {"recv_read", "recv_more", "recv_deliver", "on_receive"}

\* What c has sent, wherever it is now: in the handler's buffer, received by the kernel
\* of the other end or on its way, as long as the handler there is still receiving.
Pending(v) == rcv[v].buff \o inq[v]
Wire(c) == IF peer[c] = Nobody THEN outq[c] ELSE Pending(peer[c]) \o outq[c]
Open(c) == peer[c] = Nobody \/ pc[peer[c]] \in Waiting \cup Reading

\* It is no more bytes than its message has and than were counted as sent; it is just
\* the message where send() takes whole messages.
OnWire(c, w) == /\ w \in Seq(Nat) /\ Len(w) <= Len(Message(c))
                /\ pc[c] # "sent" => Len(w) <= snd[c].done
                /\ ~PartialSend => w \in {NoBytes, Message(c)}
SentBy(c) ==
    /\ pc[c] \notin {"send", "sent"} => snd[c].done = 0
    /\ pc[c] = "send" =>
         /\ snd[c].buff = Message(c) /\ snd[c].done <= Len(Message(c))
         /\ ~PartialSend => snd[c].done \in {0, Len(Message(c))}
    /\ Open(c) => OnWire(c, Wire(c))
Sent == \A c \in Client : SentBy(c)

\* done counts what the buffer has, and what was received is a beginning of a message.
ReceivedBy(v) ==
    /\ pc[v] \in {"start"} \cup Waiting => rcv[v].buff = NoBytes
    /\ pc[v] = "start" => inq[v] = NoBytes /\ received[v] = NoBytes
    /\ pc[v] \in Reading => rcv[v].done = Len(rcv[v].buff)
    /\ received[v] # NoBytes => /\ peer[v] # Nobody
                                /\ ~PartialSend => received[v] \in Beginnings(Message(peer[v]))
Receiving == \A v \in Conn : ReceivedBy(v)

ServerInv == /\ ServerTypeOK /\ Labelled /\ HandlerIsNew /\ Paired
             /\ Queued /\ Sent /\ Receiving

USE DEF objVars, netVars, kernelVars, handlerVars, buffVars, Goto, Return, SetStatus, NoBytes

-----------------------------------------------------------------------------
(* Sockets, numbers and sequences.                                          *)

LEMMA Sockets ==
    /\ listener \in Sock /\ Client \subseteq Sock /\ Conn \subseteq Sock
    /\ listener \notin Client \cup Conn /\ Client \cap Conn = {}
    /\ Nobody \notin Sock /\ Nobody \notin Client /\ Nobody \notin Conn
BY Ends

LEMMA Numbers ==
    /\ MinusOne \in Nat /\ 1 \in 0 .. MinusOne /\ 0 \in 0 .. MinusOne
    /\ MinusOne \in 0 .. MinusOne
    /\ \A c \in Client : /\ Message(c) \in Seq(Nat) /\ Len(Message(c)) \in Nat
                         /\ Len(Message(c)) < MinusOne
BY SizeModAssumption, ServerBounds DEF MinusOne

LEMMA LenInNat == \A w \in Seq(Nat) : Len(w) \in Nat
OBVIOUS

LEMMA Concat == \A a, b \in Seq(Nat) : a \o b \in Seq(Nat) /\ Len(a \o b) = Len(a) + Len(b)
OBVIOUS

LEMMA ConcatAt ==
    \A a, b \in Seq(Nat) : /\ \A i \in 1 .. Len(a) : (a \o b)[i] = a[i]
                           /\ \A i \in 1 .. Len(b) : (a \o b)[Len(a) + i] = b[i]
OBVIOUS

LEMMA Associative == \A a, b, c \in Seq(Nat) : (a \o b) \o c = a \o (b \o c)
OBVIOUS

\* Winsock's calls leave the variables of the sockets in their types.
LEMMA StatusTyped ==
    ASSUME SockTypeOK, NEW s \in Sock, NEW st \in CONNECT_STATUS_T, SetStatus(s, st)
    PROVE  m_iStatus' \in [Sock -> CONNECT_STATUS_T]
BY DEF SockTypeOK

LEMMA ReturnTyped ==
    ASSUME SockTypeOK, NEW s \in Sock, NEW r \in 0 .. MinusOne, ret' = [ret EXCEPT ![s] = r]
    PROVE  ret' \in [Sock -> 0 .. MinusOne]
BY DEF SockTypeOK

LEMMA CreateTyped ==
    ASSUME SockTypeOK, NEW s \in Sock, NEW from, NEW to, Create(s, from, to)
    PROVE  SockTypeOK'
<1>1. UNCHANGED <<tries, rcv, snd, netVars>>
  BY DEF Create
<1>2. CASE /\ created' = [created EXCEPT ![s] = TRUE]
           /\ SetStatus(s, "CREATED") /\ ret' = [ret EXCEPT ![s] = 1]
  <2>1. m_iStatus' \in [Sock -> CONNECT_STATUS_T] /\ ret' \in [Sock -> 0 .. MinusOne]
    BY <1>2, StatusTyped, ReturnTyped, Numbers DEF CONNECT_STATUS_T
  <2> QED
    BY <1>1, <1>2, <2>1 DEF SockTypeOK
<1>3. CASE UNCHANGED <<created, m_iStatus>> /\ ret' = [ret EXCEPT ![s] = 0]
  <2>1. ret' \in [Sock -> 0 .. MinusOne]
    BY <1>3, ReturnTyped, Numbers
  <2> QED
    BY <1>1, <1>3, <2>1 DEF SockTypeOK
<1> QED
  BY <1>2, <1>3 DEF Create

LEMMA BindTyped ==
    ASSUME SockTypeOK, NEW s \in Sock, NEW from, NEW to, Bind(s, from, to)
    PROVE  SockTypeOK'
<1>1. UNCHANGED <<m_iStatus, tries, rcv, snd, netVars>>
  BY DEF Bind
<1>2. ret' \in [Sock -> 0 .. MinusOne]
  BY ReturnTyped, Numbers DEF Bind
<1>3. created' \in [Sock -> BOOLEAN]
  BY DEF Bind, SockTypeOK
<1> QED
  BY <1>1, <1>2, <1>3 DEF SockTypeOK

LEMMA ListenTyped ==
    ASSUME SockTypeOK, NEW s \in Sock, NEW from, NEW to, Listen(s, from, to)
    PROVE  SockTypeOK'
<1>1. UNCHANGED <<created, tries, rcv, snd, netVars>> /\ SetStatus(s, "LISTENING")
  BY DEF Listen
<1>2. ret' \in [Sock -> 0 .. MinusOne]
  BY ReturnTyped, Numbers DEF Listen
<1>3. m_iStatus' \in [Sock -> CONNECT_STATUS_T]
  BY <1>1, StatusTyped DEF CONNECT_STATUS_T
<1> QED
  BY <1>1, <1>2, <1>3 DEF SockTypeOK

\* The step of one socket's thread leaves the others' sockets alone.
Same(x) == UNCHANGED <<pc[x], rcv[x], snd[x], inq[x], outq[x]>>
OnlyMoves(S) == \A x \in Sock \ S : Same(x)

\* No connection is lost, and none gets another end.
PeersStay(S) == \A x \in (Client \cup Conn) \ S : peer'[x] = peer[x]

LEMMA SentStays ==
    ASSUME ServerInv, NEW S, OnlyMoves(S), PeersStay(S),
           \A c \in Client : c \in S \/ peer[c] \in S => SentBy(c)'
    PROVE  Sent'
<1> SUFFICES ASSUME NEW c \in Client, c \notin S, peer[c] \notin S PROVE SentBy(c)'
  BY DEF Sent
<1>1. SentBy(c) /\ Same(c) /\ peer'[c] = peer[c]
  BY Sockets DEF ServerInv, Sent, OnlyMoves, PeersStay
<1>2. peer[c] # Nobody => Same(peer[c])
  <2>1. peer[c] # Nobody => peer[c] \in Sock
    BY Sockets DEF ServerInv, Paired
  <2> QED
    BY <2>1 DEF OnlyMoves
<1>3. Wire(c)' = Wire(c) /\ (Open(c)' <=> Open(c))
  BY <1>1, <1>2 DEF Wire, Open, Pending, Same
<1> QED
  BY <1>1, <1>3 DEF SentBy, Same, OnWire

LEMMA ReceivingStays ==
    ASSUME ServerInv, NEW S, OnlyMoves(S), PeersStay(S),
           \A v \in Conn \ S : UNCHANGED received[v],
           \A v \in S \cap Conn : ReceivedBy(v)'
    PROVE  Receiving'
<1> SUFFICES ASSUME NEW v \in Conn, v \notin S PROVE ReceivedBy(v)'
  BY DEF Receiving
<1>1. ReceivedBy(v) /\ Same(v) /\ peer'[v] = peer[v] /\ received'[v] = received[v]
  BY Sockets DEF ServerInv, Receiving, OnlyMoves, PeersStay
<1> QED
  BY <1>1 DEF ReceivedBy, Same

-----------------------------------------------------------------------------
(* The server's thread.                                                     *)

\* The kernel's view of connections is as it was.
LEMMA ListenerLeaves ==
    ASSUME ServerInv, NEW l \in ListenerLabels, pc' = [pc EXCEPT ![listener] = l],
           UNCHANGED <<rcv, snd, netVars, peer, received>>
    PROVE  /\ Labelled' /\ Paired' /\ Sent' /\ Receiving'
           /\ (backlog' \in {backlog, NoBytes} => Queued')
<1>1. OnlyMoves({listener}) /\ pc' \in [Sock -> Labels] /\ pc'[listener] = l
      /\ \A x \in Sock \ {listener} : pc'[x] = pc[x]
  BY Sockets DEF OnlyMoves, Same, ServerInv, Labelled, Labels
<1>2. Labelled'
  BY <1>1, Sockets DEF ServerInv, Labelled
<1>3. Paired'
  BY <1>1, Sockets DEF ServerInv, Paired
<1>4. Sent' /\ Receiving'
  <2>1. \A c \in Client : peer[c] # listener
    BY Sockets DEF ServerInv, Paired
  <2>2. PeersStay({listener})
    BY DEF PeersStay
  <2> QED
    BY <1>1, <2>1, <2>2, SentStays, ReceivingStays, Sockets
<1>5. ASSUME backlog' \in {backlog, NoBytes} PROVE Queued'
  <2>1. \A i \in 1 .. Len(backlog) : backlog[i] \in Client
    BY DEF ServerInv, ServerTypeOK
  <2>2. CASE backlog' = NoBytes
    BY <2>2 DEF Queued
  <2>3. CASE backlog' = backlog
    BY <1>1, <2>1, <2>3, Sockets DEF ServerInv, Queued
  <2> QED
    BY <1>5, <2>2, <2>3
<1> QED
  BY <1>2, <1>3, <1>4, <1>5

LEMMA StartedKeeps == ASSUME ServerInv, Started PROVE ServerInv'
<1>1. pc' = [pc EXCEPT ![listener] = "create"] /\ "create" \in ListenerLabels
      /\ UNCHANGED <<m_iStatus, created, tries, rcv, snd, ret, netVars, listening, backlog,
                     leaked, peer, m_pHandler, m_pSocket, received>>
  BY DEF Started, ListenerLabels
<1>2. Labelled' /\ Paired' /\ Sent' /\ Receiving' /\ Queued'
  BY <1>1, ListenerLeaves
<1>3. ServerTypeOK'
  BY <1>1, ServerBounds DEF Started, ServerInv, ServerTypeOK, SockTypeOK
<1>4. HandlerIsNew'
  BY <1>1, Sockets DEF HandlerIsNew, ServerInv, Labelled
<1> QED
  BY <1>2, <1>3, <1>4 DEF ServerInv


LEMMA CreateListenerKeeps == ASSUME ServerInv, CreateListener PROVE ServerInv'
<1>1. /\ pc' = [pc EXCEPT ![listener] = "bind"] /\ "bind" \in ListenerLabels
      /\ UNCHANGED <<tries, rcv, snd, netVars, runs, peer, handlerVars, buffVars>>
  BY DEF CreateListener, Create, ListenerLabels
<1>2. Labelled' /\ Paired' /\ Sent' /\ Receiving'
  BY <1>1, ListenerLeaves
<1>3. Queued'
  <2>1. backlog' \in {backlog, NoBytes}
    BY DEF CreateListener
  <2> QED
    BY <1>1, <2>1, ListenerLeaves
<1>4. SockTypeOK'
  BY CreateTyped, Sockets DEF CreateListener, ServerInv, ServerTypeOK
<1>5. ServerTypeOK'
  <2>1. listening' \in BOOLEAN /\ leaked' \in BOOLEAN
    <3>1. listening \in BOOLEAN /\ leaked \in BOOLEAN
      BY DEF ServerInv, ServerTypeOK
    <3>2. \/ listening' = FALSE /\ leaked' = (leaked \/ listening)
          \/ UNCHANGED <<listening, leaked>>
      BY DEF CreateListener
    <3> QED
      BY <3>1, <3>2
  <2>2. backlog' \in Seq(Client)
    <3>1. backlog' = <<>> \/ backlog' = backlog
      BY DEF CreateListener
    <3>2. CASE backlog' = <<>>
      BY <3>2
    <3>3. CASE backlog' = backlog
      BY <3>3 DEF ServerInv, ServerTypeOK
    <3> QED
      BY <3>1, <3>2, <3>3, Zenon
  <2> QED
    BY <1>1, <1>4, <2>1, <2>2 DEF ServerInv, ServerTypeOK
<1>6. HandlerIsNew'
  BY <1>1, Sockets DEF HandlerIsNew, ServerInv, Labelled
<1> QED
  BY <1>2, <1>3, <1>5, <1>6 DEF ServerInv

LEMMA BindListenerKeeps == ASSUME ServerInv, BindListener PROVE ServerInv'
<1>1. /\ pc' = [pc EXCEPT ![listener] = "register"] /\ "register" \in ListenerLabels
      /\ UNCHANGED <<m_iStatus, tries, rcv, snd, netVars, runs, leaked, peer, handlerVars, buffVars>>
  BY DEF BindListener, Bind, ListenerLabels
<1>2. Labelled' /\ Paired' /\ Sent' /\ Receiving'
  BY <1>1, ListenerLeaves
<1>3. Queued'
  <2>1. backlog' \in {backlog, NoBytes}
    BY DEF BindListener
  <2> QED
    BY <1>1, <2>1, ListenerLeaves
<1>4. SockTypeOK'
  BY BindTyped, Sockets DEF BindListener, ServerInv, ServerTypeOK
<1>5. ServerTypeOK'
  <2>1. listening' \in BOOLEAN
    BY <1>4, Sockets DEF BindListener, SockTypeOK
  <2>2. backlog' \in Seq(Client)
    BY DEF BindListener, ServerInv, ServerTypeOK
  <2> QED
    BY <1>1, <1>4, <2>1, <2>2 DEF ServerInv, ServerTypeOK
<1>6. HandlerIsNew'
  BY <1>1, Sockets DEF HandlerIsNew, ServerInv, Labelled
<1> QED
  BY <1>2, <1>3, <1>5, <1>6 DEF ServerInv

LEMMA RegisterHandlerKeeps == ASSUME ServerInv, RegisterHandler PROVE ServerInv'
<1>1. /\ pc' = [pc EXCEPT ![listener] = "listen"] /\ "listen" \in ListenerLabels
      /\ m_pSocket' = Append(m_pSocket, Nobody) /\ m_pHandler' = Len(m_pSocket')
      /\ UNCHANGED <<m_iStatus, created, tries, rcv, snd, ret, netVars, runs, kernelVars,
                     buffVars>>
  BY DEF RegisterHandler, ListenerLabels
<1>2. Labelled' /\ Paired' /\ Sent' /\ Receiving' /\ Queued'
  BY <1>1, ListenerLeaves
<1>3. /\ m_pSocket' \in Seq(Conn \cup {Nobody}) /\ m_pHandler' \in 1 .. Len(m_pSocket')
      /\ m_pSocket'[m_pHandler'] = Nobody
  BY <1>1 DEF ServerInv, ServerTypeOK
<1>4. ServerTypeOK'
  BY <1>1, <1>3 DEF ServerInv, ServerTypeOK, SockTypeOK
<1>5. HandlerIsNew'
  BY <1>3 DEF HandlerIsNew
<1> QED
  BY <1>2, <1>4, <1>5 DEF ServerInv

LEMMA ListenKeeps == ASSUME ServerInv, ListenOrReturn PROVE ServerInv'
<1>1. /\ pc[listener] = "listen"
      /\ UNCHANGED <<created, tries, rcv, snd, netVars, runs, backlog, leaked, peer,
                     handlerVars, buffVars>>
  BY DEF ListenOrReturn, Listen
<1>2. PICK l \in ListenerLabels : pc' = [pc EXCEPT ![listener] = l]
  BY DEF ListenOrReturn, Listen, ListenerLabels
<1>3. Labelled' /\ Paired' /\ Sent' /\ Receiving' /\ Queued'
  BY <1>1, <1>2, ListenerLeaves
<1>4. SockTypeOK'
  BY ListenTyped, Sockets DEF ListenOrReturn, ServerInv, ServerTypeOK
<1>5. ServerTypeOK'
  BY <1>1, <1>4 DEF ListenOrReturn, ServerInv, ServerTypeOK
<1>6. HandlerIsNew'
  BY <1>1 DEF HandlerIsNew, ServerInv
<1> QED
  BY <1>3, <1>5, <1>6 DEF ServerInv

LEMMA AcceptFailsKeeps == ASSUME ServerInv, AcceptFails PROVE ServerInv'
<1>1. pc' = [pc EXCEPT ![listener] = "register"] /\ "register" \in ListenerLabels
      /\ UNCHANGED <<m_iStatus, created, tries, rcv, snd, ret, netVars, runs, kernelVars,
                     handlerVars, received>>
  BY DEF AcceptFails, ListenerLabels
<1>2. Labelled' /\ Paired' /\ Sent' /\ Receiving' /\ Queued'
  BY <1>1, ListenerLeaves
<1>3. ServerTypeOK'
  BY <1>1 DEF ServerInv, ServerTypeOK, SockTypeOK
<1>4. HandlerIsNew'
  BY <1>1, Sockets DEF HandlerIsNew, ServerInv, Labelled
<1> QED
  BY <1>2, <1>3, <1>4 DEF ServerInv

\* Accept gives the first client of the backlog a fresh connection object, and the
\* registered handler, which is new, its socket.
LEMMA AcceptOneKeeps == ASSUME ServerInv, AcceptOne PROVE ServerInv'
<1>0. PICK c : c = Head(backlog)
  OBVIOUS
<1>1. PICK v \in Conn :
        /\ peer[v] = Nobody
        /\ peer' = [peer EXCEPT ![v] = c, ![c] = v]
        /\ m_pSocket' = [m_pSocket EXCEPT ![m_pHandler] = v]
        /\ m_iStatus' = [m_iStatus EXCEPT ![listener] = "ACCEPTED", ![v] = "CONNECTED"]
        /\ created' = [created EXCEPT ![v] = TRUE]
        /\ link' = [link EXCEPT ![v] = "open"]
        /\ pc' = [pc EXCEPT ![listener] = "register", ![v] = "recv"]
  BY <1>0 DEF AcceptOne
<1>2. /\ pc[listener] = "accept" /\ backlog # <<>> /\ backlog' = Tail(backlog)
      /\ UNCHANGED <<tries, rcv, snd, ret, inq, outq, runs, listening, leaked, m_pHandler,
                     buffVars>>
  BY DEF AcceptOne
<1>3. /\ backlog \in Seq(Client) /\ c \in Client /\ 1 \in 1 .. Len(backlog) /\ c = backlog[1]
      /\ backlog' \in Seq(Client) /\ Len(backlog') = Len(backlog) - 1 /\ Len(backlog) \in Nat
      /\ \A i \in 1 .. Len(backlog') : /\ i + 1 \in 1 .. Len(backlog)
                                       /\ backlog'[i] = backlog[i + 1]
  BY <1>0, <1>2 DEF ServerInv, ServerTypeOK
<1>4. c # v /\ v # listener /\ c # listener /\ c \in Sock /\ v \in Sock
  BY <1>3, Sockets
<1>5. /\ pc[v] = "start" /\ peer[c] = Nobody /\ pc[c] \in {"on_connect", "send", "sent"}
  BY <1>1, <1>3 DEF ServerInv, Paired, Queued
<1>6. /\ pc' \in [Sock -> Labels] /\ pc'[listener] = "register" /\ pc'[v] = "recv"
      /\ \A x \in Sock \ {listener, v} : pc'[x] = pc[x]
  BY <1>1, <1>4, Sockets DEF ServerInv, Labelled, Labels, ListenerLabels, ConnLabels
<1>7. /\ peer'[v] = c /\ peer'[c] = v /\ peer' \in [Client \cup Conn -> Client \cup Conn \cup {Nobody}]
      /\ \A x \in (Client \cup Conn) \ {v, c} : peer'[x] = peer[x]
  BY <1>1, <1>3, <1>4 DEF ServerInv, ServerTypeOK
<1>8. Labelled'
  <2>1. \A s \in Sock : link'[s] # "reset"
    BY <1>1, <1>4 DEF ServerInv, ServerTypeOK, SockTypeOK, Labelled
  <2>2. pc'[listener] \in ListenerLabels /\ \A x \in Conn : pc'[x] \in ConnLabels
    BY <1>6, Sockets DEF ServerInv, Labelled, ListenerLabels, ConnLabels
  <2>3. \A x \in Client : pc'[x] \in ClientLabels
    BY <1>4, <1>6, Sockets DEF ServerInv, Labelled
  <2> QED
    BY <1>2, <1>6, <2>1, <2>2, <2>3 DEF ServerInv, Labelled
<1>9. HandlerIsNew'
  BY <1>6 DEF HandlerIsNew
<1>10. Paired'
  <2>1. ASSUME NEW x \in Client, peer'[x] # Nobody
        PROVE  /\ peer'[x] \in Conn /\ peer'[peer'[x]] = x
               /\ pc'[x] \notin {"start", "created", "connect"}
    <3>1. CASE x = c
      BY <1>4, <1>5, <1>6, <1>7, <3>1
    <3>2. CASE x # c
      <4>1. x # v /\ x # listener /\ x \in Sock
        BY Sockets
      <4>2. peer'[x] = peer[x] /\ pc'[x] = pc[x]
        BY <1>6, <1>7, <3>2, <4>1
      <4>3. peer[x] \in Conn /\ peer[peer[x]] = x /\ peer[x] # v /\ peer[x] # c
        BY <1>1, <1>3, <2>1, <4>1, <4>2, Sockets DEF ServerInv, Paired
      <4> QED
        BY <1>7, <2>1, <4>2, <4>3 DEF ServerInv, Paired
    <3> QED
      BY <3>1, <3>2
  <2>2. ASSUME NEW x \in Conn
        PROVE  /\ peer'[x] # Nobody => peer'[x] \in Client /\ peer'[peer'[x]] = x
               /\ peer'[x] = Nobody <=> pc'[x] = "start"
    <3>1. CASE x = v
      BY <1>3, <1>6, <1>7, <3>1, Sockets
    <3>2. CASE x # v
      <4>1. x # c /\ x # listener /\ x \in Sock
        BY <1>3, Sockets
      <4>2. peer'[x] = peer[x] /\ pc'[x] = pc[x]
        BY <1>6, <1>7, <3>2, <4>1
      <4>3. ASSUME peer[x] # Nobody
            PROVE  peer[x] \in Client /\ peer[peer[x]] = x /\ peer[x] # v /\ peer[x] # c
        BY <1>5, <4>1, <4>3, Sockets DEF ServerInv, Paired
      <4> QED
        BY <1>7, <4>2, <4>3 DEF ServerInv, Paired
    <3> QED
      BY <3>1, <3>2
  <2> QED
    BY <2>1, <2>2 DEF Paired
<1>11. Queued'
  BY <1>2, <1>3, <1>4, <1>5, <1>6, <1>7, Sockets DEF ServerInv, Queued, Paired
<1>12. OnlyMoves({listener, v})
  BY <1>2, <1>6 DEF OnlyMoves, Same
<1>13. Sent'
  <2>1. rcv[v].buff = NoBytes /\ inq[v] = NoBytes /\ outq[c] \in Seq(Nat)
    BY <1>4, <1>5 DEF ServerInv, Receiving, ReceivedBy, ServerTypeOK, SockTypeOK
  <2>2. Wire(c)' = Wire(c)
    <3>1. Wire(c)' = (<<>> \o <<>>) \o outq[c]
      <4>1. peer'[c] = v /\ v # Nobody
        BY <1>7, Sockets
      <4>2. Wire(c)' = (rcv'[v].buff \o inq'[v]) \o outq'[c]
        BY <4>1 DEF Wire, Pending
      <4>3. rcv'[v].buff = <<>> /\ inq'[v] = <<>> /\ outq'[c] = outq[c]
        BY <1>2, <2>1
      <4> QED
        BY <4>2, <4>3
    <3>2. \A w \in Seq(Nat) : (<<>> \o <<>>) \o w = w
      OBVIOUS
    <3> QED
      BY <1>5, <2>1, <3>1, <3>2 DEF Wire
  <2>3. SentBy(c)'
    <3>1. SentBy(c) /\ Open(c)
      BY <1>3, <1>5 DEF ServerInv, Sent, Open
    <3>2. UNCHANGED <<pc[c], snd[c]>>
      BY <1>2, <1>3, <1>4, <1>6
    <3> QED
      BY <2>2, <3>1, <3>2 DEF SentBy, OnWire
  <2>4. ASSUME NEW x \in Client, x # c PROVE SentBy(x)'
    <3>1. x # v /\ x # listener /\ x \in Sock /\ peer'[x] = peer[x] /\ pc'[x] = pc[x]
      BY <1>6, <1>7, <2>4, Sockets
    <3>2. peer[x] # Nobody => /\ peer[x] \in Sock /\ peer[x] # v /\ peer[x] # listener
      BY <1>1, <3>1, Sockets DEF ServerInv, Paired
    <3>3. Wire(x)' = Wire(x) /\ (Open(x)' <=> Open(x))
      BY <1>2, <1>6, <3>1, <3>2 DEF Wire, Open, Pending
    <3> QED
      BY <1>2, <3>1, <3>3 DEF ServerInv, Sent, SentBy, OnWire
  <2>5. c \in Client
    BY <1>3
  <2> QED
    BY <2>3, <2>4, <2>5 DEF Sent
<1>14. ReceivedBy(v)'
  BY <1>2, <1>5, <1>6 DEF ServerInv, Receiving, ReceivedBy, Waiting, Reading
<1>15. Receiving'
  <2>1. ASSUME NEW x \in Conn, x # v PROVE ReceivedBy(x)'
    <3>1. x # c /\ x # listener /\ x \in Sock /\ peer'[x] = peer[x] /\ pc'[x] = pc[x]
      BY <1>3, <1>6, <1>7, <2>1, Sockets
    <3> QED
      BY <1>2, <3>1 DEF ServerInv, Receiving, ReceivedBy
  <2> QED
    BY <1>14, <2>1 DEF Receiving
<1>16. SockTypeOK'
  BY <1>1, <1>2, <1>4, Sockets DEF ServerInv, ServerTypeOK, SockTypeOK, CONNECT_STATUS_T, LinkStates
<1>17. ServerTypeOK'
  <2>1. m_pSocket' \in Seq(Conn \cup {Nobody}) /\ Len(m_pSocket') = Len(m_pSocket)
    <3>1. m_pHandler \in 1 .. Len(m_pSocket) /\ m_pSocket \in Seq(Conn \cup {Nobody})
      BY <1>2 DEF ServerInv, ServerTypeOK, HandlerIsNew
    <3> QED
      BY <1>1, <3>1, ExceptSeq
  <2> QED
    BY <1>2, <1>3, <1>7, <1>16, <2>1 DEF ServerInv, ServerTypeOK
<1> QED
  BY <1>8, <1>9, <1>10, <1>11, <1>13, <1>15, <1>17 DEF ServerInv

-----------------------------------------------------------------------------
(* The handlers' threads.                                                   *)

\* A step of v's handler, and of nothing else: v's own place in the invariant
\* is what is left to show.  It moves bytes to the buffer, but never loses any
\* while it is receiving.
HandlerMoves(v) ==
    /\ OnlyMoves({v})
    /\ pc' \in [Sock -> Labels] /\ pc'[v] \in ConnLabels \ {"start"}
    /\ \A x \in Sock \ {v} : pc'[x] = pc[x]
    /\ UNCHANGED <<snd, link, outq, runs, kernelVars, handlerVars>>
    /\ received' \in [Conn -> Seq(Nat)] /\ \A x \in Conn \ {v} : received'[x] = received[x]
    /\ pc[v] # "start"
KeepsBytes(v) ==
    pc'[v] \in Waiting \cup Reading => pc[v] \in Waiting \cup Reading /\ Pending(v)' = Pending(v)

LEMMA HandlerKeeps ==
    ASSUME ServerInv, NEW v \in Conn, HandlerMoves(v), KeepsBytes(v), SockTypeOK', ReceivedBy(v)'
    PROVE  ServerInv'
<1>1. v \in Sock /\ v # listener /\ \A c \in Client : c # v
  BY Sockets
<1>2. ServerTypeOK'
  BY DEF HandlerMoves, ServerInv, ServerTypeOK
<1>3. Labelled'
  BY <1>1, Sockets DEF HandlerMoves, ServerInv, Labelled
<1>4. HandlerIsNew'
  BY <1>1, Sockets DEF HandlerMoves, ServerInv, HandlerIsNew
<1>5. Paired'
  BY <1>1, Sockets DEF HandlerMoves, ServerInv, Paired
<1>6. Queued'
  <2>1. \A i \in 1 .. Len(backlog) : backlog[i] \in Client
    BY DEF ServerInv, ServerTypeOK
  <2> QED
    BY <1>1, <2>1, Sockets DEF HandlerMoves, ServerInv, Queued
<1>7. PeersStay({v})
  BY DEF HandlerMoves, PeersStay
<1>8. Sent'
  <2>1. ASSUME NEW c \in Client, peer[c] = v PROVE SentBy(c)'
    <3>1. /\ SentBy(c) /\ c \in Sock /\ v # Nobody
          /\ UNCHANGED <<pc[c], snd[c], outq[c], peer[c]>>
      BY <1>1, Sockets DEF HandlerMoves, ServerInv, Sent
    <3>2. Open(c)' => Open(c) /\ Wire(c)' = Wire(c)
      BY <2>1, <3>1 DEF KeepsBytes, Open, Wire
    <3> QED
      BY <3>1, <3>2 DEF SentBy, OnWire
  <2> QED
    BY <1>1, <1>7, <2>1, SentStays DEF HandlerMoves
<1>9. Receiving'
  BY <1>7, ReceivingStays DEF HandlerMoves
<1> QED
  BY <1>2, <1>3, <1>4, <1>5, <1>6, <1>8, <1>9 DEF ServerInv

\* What a handler's step may change of its socket.
LEMMA HandlerMovesBy ==
    ASSUME ServerInv, NEW v \in Conn, pc[v] # "start",
           NEW l \in ConnLabels \ {"start"}, pc' = [pc EXCEPT ![v] = l],
           UNCHANGED <<snd, link, outq, runs, kernelVars, handlerVars>>,
           \A x \in Sock \ {v} : UNCHANGED <<rcv[x], inq[x]>>,
           received' \in [Conn -> Seq(Nat)], \A x \in Conn \ {v} : received'[x] = received[x]
    PROVE  HandlerMoves(v) /\ pc'[v] = l
BY Sockets DEF HandlerMoves, OnlyMoves, Same, ServerInv, Labelled, Labels

\* What holds of a handler that has not delivered yet.
LEMMA NotDelivered ==
    ASSUME ServerInv, NEW v \in Conn, pc[v] \in Waiting \cup Reading
    PROVE  /\ peer[v] \in Client /\ peer[peer[v]] = v
           /\ rcv[v].buff \in Seq(Nat) /\ inq[v] \in Seq(Nat) /\ outq[peer[v]] \in Seq(Nat)
           /\ Wire(peer[v]) = (rcv[v].buff \o inq[v]) \o outq[peer[v]]
           /\ OnWire(peer[v], Wire(peer[v])) /\ ReceivedBy(v)
           /\ Len(rcv[v].buff) + Len(inq[v]) < MinusOne /\ link[v] # "reset"
<1>1. ReceivedBy(v) /\ v \in Sock /\ v # Nobody
  BY Sockets DEF ServerInv, Receiving
<1>2. peer[v] \in Client /\ peer[peer[v]] = v
  BY DEF ServerInv, Paired, Waiting, Reading
<1> DEFINE c == peer[v]
<1>3. rcv[v].buff \in Seq(Nat) /\ inq[v] \in Seq(Nat) /\ outq[c] \in Seq(Nat)
  BY <1>1, <1>2, Sockets DEF ServerInv, ServerTypeOK, SockTypeOK
<1>4. Wire(c) = (rcv[v].buff \o inq[v]) \o outq[c] /\ OnWire(c, Wire(c))
  BY <1>1, <1>2 DEF ServerInv, Sent, SentBy, Open, Wire, Pending
<1>5. Len(rcv[v].buff) + Len(inq[v]) < MinusOne
  <2> DEFINE b == rcv[v].buff \o inq[v]
  <2>1. b \in Seq(Nat) /\ Len(b) = Len(rcv[v].buff) + Len(inq[v])
    BY <1>3, Concat, Zenon
  <2>2. Len(b \o outq[c]) = Len(b) + Len(outq[c])
    BY <1>3, <2>1, Concat, Zenon
  <2>3. Len(Message(c)) \in Nat /\ Len(Message(c)) < MinusOne /\ MinusOne \in Nat
    BY <1>2, Numbers
  <2>4. Len(b \o outq[c]) <= Len(Message(c))
    BY <1>4, Zenon DEF OnWire
  <2>5. Len(b) \in Nat /\ Len(outq[c]) \in Nat
    BY <1>3, <2>1, LenInNat, Zenon
  <2>6. \A x, y, m, k \in Nat : x + y <= m /\ m < k => x < k
    OBVIOUS
  <2> QED
    BY <2>1, <2>2, <2>3, <2>4, <2>5, <2>6, Zenon
<1>6. link[v] # "reset"
  BY <1>1 DEF ServerInv, Labelled
<1> QED
  BY <1>1, <1>2, <1>3, <1>4, <1>5, <1>6

LEMMA RecvCheckKeeps ==
    ASSUME ServerInv, NEW v \in Conn, RecvCheck(v, "exited"),
           UNCHANGED <<runs, kernelVars, handlerVars, buffVars>>
    PROVE  ServerInv'
<1>1. /\ pc[v] = "recv" /\ UNCHANGED <<m_iStatus, created, tries, rcv, snd, netVars>>
      /\ received' \in [Conn -> Seq(Nat)]
  BY DEF RecvCheck, ServerInv, Labelled
<1>2. PICK l \in {"recv_select", "exited"} : pc' = [pc EXCEPT ![v] = l]
  BY DEF RecvCheck
<1>3. HandlerMoves(v) /\ pc'[v] = l
  BY <1>1, <1>2, HandlerMovesBy DEF ConnLabels
<1>4. SockTypeOK'
  <2>1. ret' \in [Sock -> 0 .. MinusOne]
    BY ReturnTyped, Sockets, Numbers DEF RecvCheck, ServerInv, ServerTypeOK, SockTypeOK
  <2> QED
    BY <1>1, <2>1 DEF ServerInv, ServerTypeOK, SockTypeOK
<1>5. ReceivedBy(v)' /\ KeepsBytes(v)
  BY <1>1, <1>3, NotDelivered DEF HandlerMoves, ReceivedBy, KeepsBytes, Waiting, Reading, Pending
<1> QED
  BY <1>3, <1>4, <1>5, HandlerKeeps

LEMMA RecvSelectKeeps ==
    ASSUME ServerInv, NEW v \in Conn, RecvSelect(v, "exited"),
           UNCHANGED <<runs, kernelVars, handlerVars, buffVars>>
    PROVE  ServerInv'
<1>1. /\ pc[v] = "recv_select" /\ link[v] # "reset"
      /\ UNCHANGED <<created, tries, rcv, snd, netVars>> /\ received' \in [Conn -> Seq(Nat)]
  BY Sockets DEF RecvSelect, ServerInv, Labelled
<1>2. pc' = [pc EXCEPT ![v] = "recv_len"] /\ UNCHANGED <<m_iStatus, ret>>
  BY <1>1 DEF RecvSelect
<1>3. HandlerMoves(v) /\ pc'[v] = "recv_len"
  BY <1>1, <1>2, HandlerMovesBy DEF ConnLabels
<1>4. SockTypeOK'
  BY <1>1, <1>2 DEF ServerInv, ServerTypeOK, SockTypeOK
<1>5. ReceivedBy(v)' /\ KeepsBytes(v)
  BY <1>1, <1>3, NotDelivered DEF HandlerMoves, ReceivedBy, KeepsBytes, Waiting, Reading, Pending
<1> QED
  BY <1>3, <1>4, <1>5, HandlerKeeps

LEMMA RecvLenKeeps ==
    ASSUME ServerInv, NEW v \in Conn, RecvLen(v, "exited"),
           UNCHANGED <<runs, kernelVars, handlerVars, buffVars>>
    PROVE  ServerInv'
<1>1. /\ pc[v] = "recv_len" /\ link[v] # "reset" /\ v \in Sock
      /\ UNCHANGED <<created, tries, snd, netVars>> /\ received' \in [Conn -> Seq(Nat)]
  BY Sockets DEF RecvLen, ServerInv, Labelled
<1> DEFINE len == Len(inq[v])
<1>2. /\ ReceivedBy(v) /\ peer[v] # v /\ peer[v] \in Sock
      /\ inq[v] \in Seq(Nat) /\ len \in Nat /\ rcv[v].buff = NoBytes
  BY <1>1, NotDelivered, Sockets, LenInNat, Zenon DEF Waiting, ReceivedBy
<1>3. CASE len = 0
  <2>1. /\ pc' = [pc EXCEPT ![v] = "exited"] /\ rcv' = rcv
        /\ ret' = [ret EXCEPT ![v] = MinusOne] /\ SetStatus(v, "RECV_FAILED")
    BY <1>1, <1>3 DEF RecvLen, RecvFailed, RecveiveAvailable
  <2>2. HandlerMoves(v) /\ pc'[v] = "exited"
    BY <1>1, <2>1, HandlerMovesBy DEF ConnLabels
  <2>3. SockTypeOK'
    <3>1. m_iStatus' \in [Sock -> CONNECT_STATUS_T] /\ ret' \in [Sock -> 0 .. MinusOne]
      BY <1>1, <2>1, StatusTyped, ReturnTyped, Numbers DEF CONNECT_STATUS_T, ServerInv, ServerTypeOK
    <3> QED
      BY <1>1, <2>1, <3>1 DEF ServerInv, ServerTypeOK, SockTypeOK
  <2>4. ReceivedBy(v)' /\ KeepsBytes(v)
    BY <1>1, <1>2, <2>2 DEF ReceivedBy, KeepsBytes, Waiting, Reading
  <2> QED
    BY <2>2, <2>3, <2>4, HandlerKeeps
<1>4. CASE len # 0
  <2>1. /\ pc' = [pc EXCEPT ![v] = "recv_read"] /\ UNCHANGED <<m_iStatus, ret>>
        /\ rcv' = [rcv EXCEPT ![v] = [buff |-> NoBytes, done |-> 0, len |-> len]]
    BY <1>1, <1>4 DEF RecvLen, RecveiveAvailable
  <2>2. /\ rcv' \in [Sock -> [buff : Seq(Nat), done : 0 .. MinusOne, len : Nat]]
        /\ rcv'[v] = [buff |-> NoBytes, done |-> 0, len |-> len]
        /\ \A x \in Sock \ {v} : rcv'[x] = rcv[x]
    <3>1. [buff |-> NoBytes, done |-> 0, len |-> len] \in
            [buff : Seq(Nat), done : 0 .. MinusOne, len : Nat]
      BY <1>2, Numbers
    <3>2. rcv \in [Sock -> [buff : Seq(Nat), done : 0 .. MinusOne, len : Nat]]
      BY DEF ServerInv, ServerTypeOK, SockTypeOK
    <3> QED
      BY <1>1, <2>1, <3>1, <3>2, Zenon
  <2>3. HandlerMoves(v) /\ pc'[v] = "recv_read"
    BY <1>1, <2>1, <2>2, HandlerMovesBy DEF ConnLabels
  <2>4. SockTypeOK'
    BY <1>1, <2>1, <2>2 DEF ServerInv, ServerTypeOK, SockTypeOK
  <2>5. ReceivedBy(v)' /\ KeepsBytes(v)
    <3>1. rcv'[v].buff = NoBytes /\ rcv'[v].done = Len(rcv'[v].buff)
      BY <2>2
    <3>2. Pending(v)' = Pending(v)
      BY <1>1, <1>2, <3>1 DEF Pending
    <3>3. UNCHANGED <<received[v], peer[v]>>
      OBVIOUS
    <3> QED
      BY <1>1, <1>2, <2>3, <3>1, <3>2, <3>3 DEF ReceivedBy, KeepsBytes, Waiting, Reading
  <2> QED
    BY <2>3, <2>4, <2>5, HandlerKeeps
<1> QED
  BY <1>3, <1>4

\* recv() moves bytes from the kernel to the buffer and changes nothing about the two
\* together.
LEMMA RecvMoves ==
    ASSUME NEW b \in Seq(Nat), NEW q \in Seq(Nat), NEW k \in 1 .. Len(q)
    PROVE  /\ b \o SubSeq(q, 1, k) \in Seq(Nat) /\ SubSeq(q, k + 1, Len(q)) \in Seq(Nat)
           /\ Len(b \o SubSeq(q, 1, k)) = Len(b) + k
           /\ Len(SubSeq(q, k + 1, Len(q))) = Len(q) - k
           /\ (b \o SubSeq(q, 1, k)) \o SubSeq(q, k + 1, Len(q)) = b \o q
<1> DEFINE front == SubSeq(q, 1, k)
           back == SubSeq(q, k + 1, Len(q))
<1>1. /\ front \in Seq(Nat) /\ Len(front) = k /\ back \in Seq(Nat) /\ Len(back) = Len(q) - k
      /\ Len(b) \in Nat /\ Len(q) \in Nat
  OBVIOUS
<1>2. \A i \in 1 .. k : front[i] = q[i]
  OBVIOUS
<1>3. \A i \in 1 .. Len(q) - k : back[i] = q[k + i]
  OBVIOUS
<1> HIDE DEF front, back
<1>4. front \o back = q
  <2> DEFINE both == front \o back
  <2>1. both \in Seq(Nat) /\ Len(both) = Len(front) + Len(back)
    BY <1>1, Concat, Zenon
  <2>2. Len(both) = Len(q)
    BY <1>1, <2>1
  <2>3. \A i \in 1 .. Len(q) : both[i] = q[i]
    <3> SUFFICES ASSUME NEW i \in 1 .. Len(q) PROVE both[i] = q[i]
      OBVIOUS
    <3>1. CASE i \in 1 .. k
      <4>1. (front \o back)[i] = front[i]
        BY <1>1, <3>1, ConcatAt, Zenon
      <4> QED
        BY <1>2, <3>1, <4>1, Zenon
    <3>2. CASE i \notin 1 .. k
      <4>1. i - k \in 1 .. Len(back) /\ k + (i - k) = i
        BY <1>1, <3>2
      <4>2. (front \o back)[k + (i - k)] = back[i - k]
        BY <1>1, <4>1, ConcatAt, Zenon
      <4> QED
        BY <1>1, <1>3, <4>1, <4>2, Zenon
    <3> QED
      BY <3>1, <3>2
  <2> HIDE DEF both
  <2>4. both = q
    BY <2>1, <2>2, <2>3, SeqEqual
  <2> QED
    BY <2>4, Zenon DEF both
<1>5. (b \o front) \o back = b \o (front \o back)
  BY <1>1, Associative, Zenon
<1>6. b \o front \in Seq(Nat) /\ Len(b \o front) = Len(b) + k
  BY <1>1, Concat, Zenon
<1> QED
  BY <1>1, <1>4, <1>5, <1>6, Zenon DEF front, back

LEMMA RecvReadKeeps ==
    ASSUME ServerInv, NEW v \in Conn, RecvRead(v),
           UNCHANGED <<runs, kernelVars, handlerVars, buffVars>>
    PROVE  ServerInv'
<1>1. /\ pc[v] = "recv_read" /\ link[v] # "reset" /\ v \in Sock
      /\ UNCHANGED <<created, tries, snd, ret, link, outq>> /\ received' \in [Conn -> Seq(Nat)]
  BY Sockets DEF RecvRead, ServerInv, Labelled
<1>2. PICK count \in 1 .. Len(inq[v]) :
        /\ rcv' = [rcv EXCEPT ![v].buff = @ \o SubSeq(inq[v], 1, count),
                              ![v].done = @ + count]
        /\ inq' = [inq EXCEPT ![v] = SubSeq(@, count + 1, Len(@))]
        /\ pc' = [pc EXCEPT ![v] = "recv_more"]
        /\ UNCHANGED m_iStatus
  BY <1>1 DEF RecvRead
<1>3. /\ ReceivedBy(v) /\ rcv[v].buff \in Seq(Nat) /\ inq[v] \in Seq(Nat)
      /\ rcv[v].done = Len(rcv[v].buff) /\ Len(rcv[v].buff) + Len(inq[v]) < MinusOne
  BY <1>1, NotDelivered DEF ReceivedBy, Reading
<1>4. /\ rcv'[v].buff = rcv[v].buff \o SubSeq(inq[v], 1, count)
      /\ rcv'[v].done = rcv[v].done + count /\ rcv'[v].len = rcv[v].len
      /\ inq'[v] = SubSeq(inq[v], count + 1, Len(inq[v]))
      /\ \A x \in Sock \ {v} : UNCHANGED <<rcv[x], inq[x]>>
  <2>1. /\ rcv \in [Sock -> [buff : Seq(Nat), done : 0 .. MinusOne, len : Nat]]
        /\ inq \in [Sock -> Seq(Nat)]
    BY DEF ServerInv, ServerTypeOK, SockTypeOK
  <2> QED
    BY <1>1, <1>2, <2>1
<1>5. /\ rcv'[v].buff \in Seq(Nat) /\ inq'[v] \in Seq(Nat)
      /\ Len(rcv'[v].buff) = Len(rcv[v].buff) + count /\ Len(inq'[v]) = Len(inq[v]) - count
      /\ Pending(v)' = Pending(v)
  <2> DEFINE b == rcv[v].buff
             q == inq[v]
  <2>1. b \in Seq(Nat) /\ q \in Seq(Nat) /\ count \in 1 .. Len(q)
    BY <1>2, <1>3
  <2> HIDE DEF b, q
  <2>2. /\ b \o SubSeq(q, 1, count) \in Seq(Nat) /\ SubSeq(q, count + 1, Len(q)) \in Seq(Nat)
        /\ Len(b \o SubSeq(q, 1, count)) = Len(b) + count
        /\ Len(SubSeq(q, count + 1, Len(q))) = Len(q) - count
        /\ (b \o SubSeq(q, 1, count)) \o SubSeq(q, count + 1, Len(q)) = b \o q
    BY <2>1, RecvMoves
  <2>3. rcv'[v].buff = b \o SubSeq(q, 1, count) /\ inq'[v] = SubSeq(q, count + 1, Len(q))
    BY <1>4, Zenon DEF b, q
  <2>4. Pending(v) = b \o q
    BY Zenon DEF Pending, b, q
  <2>5. Pending(v)' = rcv'[v].buff \o inq'[v]
    BY Zenon DEF Pending
  <2>6. Pending(v)' = Pending(v)
    BY <2>2, <2>3, <2>4, <2>5, Zenon
  <2> QED
    BY <2>2, <2>3, <2>6, Zenon DEF b, q
<1>6. /\ Len(rcv[v].buff) \in Nat /\ Len(inq[v]) \in Nat /\ count \in Nat /\ MinusOne \in Nat
      /\ count <= Len(inq[v])
  BY <1>2, <1>3, Numbers
<1>7. rcv'[v].done = Len(rcv'[v].buff) /\ rcv'[v].done \in 0 .. MinusOne
  <2>1. \A a, q, k, n \in Nat : k <= q /\ a + q < n => a + k \in 0 .. n
    OBVIOUS
  <2>2. Len(rcv[v].buff) + count \in 0 .. MinusOne
    BY <1>3, <1>6, <2>1, Zenon
  <2> QED
    BY <1>3, <1>4, <1>5, <2>2, Zenon
<1>8. HandlerMoves(v) /\ pc'[v] = "recv_more"
  BY <1>1, <1>2, <1>4, HandlerMovesBy DEF ConnLabels
<1>9. SockTypeOK'
  <2>1. rcv' \in [Sock -> [buff : Seq(Nat), done : 0 .. MinusOne, len : Nat]]
    BY <1>1, <1>2, <1>4, <1>5, <1>7 DEF ServerInv, ServerTypeOK, SockTypeOK
  <2>2. inq' \in [Sock -> Seq(Nat)]
    BY <1>1, <1>2, <1>4, <1>5 DEF ServerInv, ServerTypeOK, SockTypeOK
  <2> QED
    BY <1>1, <1>2, <2>1, <2>2 DEF ServerInv, ServerTypeOK, SockTypeOK
<1>10. ReceivedBy(v)' /\ KeepsBytes(v)
  BY <1>1, <1>3, <1>5, <1>7, <1>8 DEF ReceivedBy, KeepsBytes, Waiting, Reading
<1> QED
  BY <1>8, <1>9, <1>10, HandlerKeeps

LEMMA RecvMoreKeeps ==
    ASSUME ServerInv, NEW v \in Conn, RecvMore(v),
           UNCHANGED <<runs, kernelVars, handlerVars, buffVars>>
    PROVE  ServerInv'
<1>1. /\ pc[v] = "recv_more" /\ link[v] # "reset" /\ v \in Sock
      /\ UNCHANGED <<objVars, rcv, snd, ret, netVars>> /\ received' \in [Conn -> Seq(Nat)]
  BY Sockets DEF RecvMore, ServerInv, Labelled
<1>2. PICK l \in {"recv_deliver", "recv_read"} : pc' = [pc EXCEPT ![v] = l]
  BY <1>1 DEF RecvMore
<1>3. HandlerMoves(v) /\ pc'[v] = l
  BY <1>1, <1>2, HandlerMovesBy DEF ConnLabels
<1>4. SockTypeOK'
  BY <1>1 DEF ServerInv, ServerTypeOK, SockTypeOK
<1>5. ReceivedBy(v)' /\ KeepsBytes(v)
  BY <1>1, <1>3, NotDelivered DEF HandlerMoves, ReceivedBy, KeepsBytes, Waiting, Reading, Pending
<1> QED
  BY <1>3, <1>4, <1>5, HandlerKeeps

LEMMA RecvDeliverKeeps ==
    ASSUME ServerInv, NEW v \in Conn, RecvDeliver(v),
           UNCHANGED <<runs, kernelVars, handlerVars, buffVars>>
    PROVE  ServerInv'
<1>1. /\ pc[v] = "recv_deliver" /\ pc' = [pc EXCEPT ![v] = "on_receive"] /\ v \in Sock
      /\ UNCHANGED <<objVars, rcv, snd, ret, netVars>> /\ received' \in [Conn -> Seq(Nat)]
  BY Sockets DEF RecvDeliver, ServerInv, Labelled
<1>3. HandlerMoves(v) /\ pc'[v] = "on_receive"
  BY <1>1, HandlerMovesBy DEF ConnLabels
<1>4. SockTypeOK'
  BY <1>1 DEF ServerInv, ServerTypeOK, SockTypeOK
<1>5. ReceivedBy(v)' /\ KeepsBytes(v)
  BY <1>1, <1>3, NotDelivered DEF HandlerMoves, ReceivedBy, KeepsBytes, Waiting, Reading, Pending
<1> QED
  BY <1>3, <1>4, <1>5, HandlerKeeps

\* What the buffer has is a beginning of what is in it, in the kernel and on its way.
LEMMA FrontOfThree ==
    ASSUME NEW a \in Seq(Nat), NEW b \in Seq(Nat), NEW d \in Seq(Nat), a # <<>>,
           NEW m \in Seq(Nat), (a \o b) \o d \in {<<>>, m}
    PROVE  a \in Beginnings(m)
<1> DEFINE w == b \o d
           n == Len(a)
<1>1. w \in Seq(Nat) /\ (a \o b) \o d = a \o w
  <2>1. w \in Seq(Nat)
    BY Concat, Zenon
  <2> QED
    BY <2>1, Associative, Zenon
<1>2. n \in Nat /\ n > 0 /\ Len(w) \in Nat
  BY <1>1
<1>3. a \o w \in Seq(Nat) /\ Len(a \o w) = n + Len(w) /\ \A i \in 1 .. n : (a \o w)[i] = a[i]
  BY <1>1, Concat, ConcatAt, Zenon
<1>4. a \o w = m
  <2>1. n + Len(w) # 0 /\ Len(<<>>) = 0
    BY <1>2
  <2> QED
    BY <1>1, <1>3, <2>1, Zenon
<1>5. n \in 1 .. Len(m)
  <2>1. Len(m) = n + Len(w)
    BY <1>3, <1>4, Zenon
  <2> QED
    BY <1>2, <2>1
<1>6. \A i \in 1 .. n : m[i] = a[i]
  BY <1>3, <1>4, Zenon
<1> HIDE DEF w, n
<1>7. SubSeq(m, 1, n) \in Seq(Nat) /\ Len(SubSeq(m, 1, n)) = n
      /\ \A i \in 1 .. n : SubSeq(m, 1, n)[i] = m[i]
  BY <1>5
<1>8. SubSeq(m, 1, n) = a
  BY <1>2, <1>6, <1>7, SeqEqual DEF n
<1> QED
  BY <1>5, <1>8, Zenon DEF Beginnings

LEMMA OnReceiveKeeps ==
    ASSUME ServerInv, NEW v \in Conn, OnReceive(v), UNCHANGED <<runs, kernelVars, handlerVars>>
    PROVE  ServerInv'
<1>1. /\ pc[v] = "on_receive" /\ pc' = [pc EXCEPT ![v] = "received"] /\ v \in Sock
      /\ UNCHANGED <<objVars, rcv, snd, ret, netVars>>
      /\ received' = [received EXCEPT ![v] = rcv[v].buff]
  BY Sockets DEF OnReceive
<1>2. /\ ReceivedBy(v) /\ peer[v] \in Client /\ peer[v] # Nobody /\ rcv[v].buff \in Seq(Nat)
      /\ inq[v] \in Seq(Nat) /\ outq[peer[v]] \in Seq(Nat)
      /\ OnWire(peer[v], (rcv[v].buff \o inq[v]) \o outq[peer[v]])
  BY <1>1, NotDelivered, Sockets DEF Reading
<1>3. /\ received' \in [Conn -> Seq(Nat)] /\ received'[v] = rcv[v].buff
      /\ \A x \in Conn \ {v} : received'[x] = received[x]
  BY <1>1, <1>2 DEF ServerInv, Labelled
<1>4. HandlerMoves(v) /\ pc'[v] = "received"
  BY <1>1, <1>3, HandlerMovesBy DEF ConnLabels
<1>5. SockTypeOK'
  BY <1>1 DEF ServerInv, ServerTypeOK, SockTypeOK
<1>6. ReceivedBy(v)' /\ KeepsBytes(v)
  <2>1. ASSUME ~PartialSend, rcv[v].buff # NoBytes
        PROVE  rcv[v].buff \in Beginnings(Message(peer[v]))
    <3>1. /\ (rcv[v].buff \o inq[v]) \o outq[peer[v]] \in {NoBytes, Message(peer[v])}
          /\ Message(peer[v]) \in Seq(Nat)
      BY <1>2, <2>1, Numbers DEF OnWire
    <3> QED
      BY <1>2, <2>1, <3>1, FrontOfThree
  <2> QED
    BY <1>1, <1>2, <1>3, <1>4, <2>1 DEF ReceivedBy, KeepsBytes, Waiting, Reading
<1> QED
  BY <1>4, <1>5, <1>6, HandlerKeeps

LEMMA RecvReturnKeeps ==
    ASSUME ServerInv, NEW v \in Conn, RecvReturn(v, "received", "exited"),
           UNCHANGED <<runs, kernelVars, handlerVars, buffVars>>
    PROVE  ServerInv'
<1>1. /\ pc[v] = "received" /\ pc' = [pc EXCEPT ![v] = "exited"] /\ v \in Sock
      /\ UNCHANGED <<objVars, snd, netVars>> /\ received' \in [Conn -> Seq(Nat)]
      /\ ret' = [ret EXCEPT ![v] = rcv[v].done]
      /\ rcv' = [rcv EXCEPT ![v] = [buff |-> NoBytes, done |-> 0, len |-> 0]]
  BY Sockets DEF RecvReturn, ServerInv, Labelled
<1>2. /\ rcv' \in [Sock -> [buff : Seq(Nat), done : 0 .. MinusOne, len : Nat]]
      /\ \A x \in Sock \ {v} : UNCHANGED <<rcv[x], inq[x]>>
  <2>1. [buff |-> NoBytes, done |-> 0, len |-> 0] \in
          [buff : Seq(Nat), done : 0 .. MinusOne, len : Nat]
    BY Numbers
  <2>2. rcv \in [Sock -> [buff : Seq(Nat), done : 0 .. MinusOne, len : Nat]]
    BY DEF ServerInv, ServerTypeOK, SockTypeOK
  <2> QED
    BY <1>1, <2>1, <2>2, Zenon
<1>3. HandlerMoves(v) /\ pc'[v] = "exited"
  BY <1>1, <1>2, HandlerMovesBy DEF ConnLabels
<1>4. SockTypeOK'
  <2>1. ret' \in [Sock -> 0 .. MinusOne]
    BY <1>1 DEF ServerInv, ServerTypeOK, SockTypeOK
  <2> QED
    BY <1>1, <1>2, <2>1 DEF ServerInv, ServerTypeOK, SockTypeOK
<1>5. ReceivedBy(v)' /\ KeepsBytes(v)
  <2>1. ReceivedBy(v)
    BY DEF ServerInv, Receiving
  <2> QED
    BY <1>1, <1>3, <2>1 DEF ReceivedBy, KeepsBytes, Waiting, Reading
<1> QED
  BY <1>3, <1>4, <1>5, HandlerKeeps

LEMMA HandlerRunKeeps == ASSUME ServerInv, NEW v \in Conn, HandlerRun(v) PROVE ServerInv'
BY RecvCheckKeeps, RecvSelectKeeps, RecvLenKeeps, RecvReadKeeps, RecvMoreKeeps,
   RecvDeliverKeeps, OnReceiveKeeps, RecvReturnKeeps DEF HandlerRun, Recveive

-----------------------------------------------------------------------------
(* The clients.                                                             *)

\* A step of c's thread, and of nothing else.
ClientMoves(c, l) ==
    /\ l \in ClientLabels /\ pc' = [pc EXCEPT ![c] = l]
    /\ \A x \in Sock \ {c} : UNCHANGED <<snd[x], outq[x]>>
    /\ \A s \in Sock : link'[s] # "reset"
    /\ UNCHANGED <<rcv, inq, runs, listening, leaked, peer, handlerVars, buffVars>>

\* It never goes back before a connection.
ClientGoesOn(c, l) ==
    l \in {"created", "connect"} => pc[c] \in {"start", "created", "connect"}

\* It has sent what it had, as far as it counts.
NothingSent(c, l) ==
    /\ UNCHANGED outq[c] /\ (l # "sent" => snd'[c].done = snd[c].done /\ pc[c] # "sent")

LEMMA ClientWire ==
    ASSUME ServerInv, NEW c \in Client, NEW l, ClientMoves(c, l), NothingSent(c, l),
           Open(c)'
    PROVE  OnWire(c, Wire(c))'
<1>1. c \in Sock /\ pc'[c] = l /\ \A x \in Sock \ {c} : pc'[x] = pc[x]
  BY Sockets DEF ClientMoves, ServerInv, Labelled
<1>2. peer[c] # Nobody => peer[c] \in Sock \ {c}
  BY Sockets DEF ServerInv, Paired
<1>3. Wire(c)' = Wire(c) /\ Open(c)
  BY <1>1, <1>2 DEF ClientMoves, NothingSent, Wire, Open, Pending
<1>4. OnWire(c, Wire(c))
  BY <1>3 DEF ServerInv, Sent, SentBy
<1> QED
  BY <1>1, <1>3, <1>4 DEF NothingSent, OnWire

LEMMA ClientKeeps ==
    ASSUME ServerInv, NEW c \in Client, NEW l, ClientMoves(c, l), ClientGoesOn(c, l),
           SockTypeOK', SentBy(c)', backlog' \in Seq(Client), Queued', l # "start"
    PROVE  ServerInv'
<1>1. /\ c \in Sock /\ c # listener /\ \A v \in Conn : c # v
      /\ pc' \in [Sock -> Labels] /\ pc'[c] = l /\ \A x \in Sock \ {c} : pc'[x] = pc[x]
  BY Sockets DEF ClientMoves, ServerInv, Labelled, Labels
<1>2. ServerTypeOK'
  BY DEF ClientMoves, ServerInv, ServerTypeOK
<1>3. Labelled'
  BY <1>1, Sockets DEF ClientMoves, ServerInv, Labelled
<1>4. HandlerIsNew'
  BY <1>1, Sockets DEF ClientMoves, ServerInv, HandlerIsNew
<1>5. Paired'
  <2>1. l \notin {"start", "created", "connect"} \/ peer[c] = Nobody
    BY DEF ClientGoesOn, ServerInv, Paired
  <2> QED
    BY <1>1, <2>1, Sockets DEF ClientMoves, ServerInv, Paired
<1>6. OnlyMoves({c})
  BY <1>1 DEF ClientMoves, OnlyMoves, Same
<1>7. PeersStay({c})
  BY DEF ClientMoves, PeersStay
<1>8. Sent' /\ Receiving'
  <2>1. \A x \in Client : peer[x] # c
    BY Sockets DEF ServerInv, Paired
  <2> QED
    BY <1>1, <1>6, <1>7, <2>1, SentStays, ReceivingStays DEF ClientMoves
<1> QED
  BY <1>2, <1>3, <1>4, <1>5, <1>8 DEF ServerInv

\* The backlog is as it was, and a client that waits in it goes on waiting.
LEMMA QueuedStays ==
    ASSUME ServerInv, NEW c \in Client, NEW l, ClientMoves(c, l), UNCHANGED backlog,
           peer[c] # Nobody \/ l \in {"on_connect", "send", "sent"}
                            \/ pc[c] \notin {"on_connect", "send", "sent"}
    PROVE  backlog' \in Seq(Client) /\ Queued'
<1>1. /\ \A i \in 1 .. Len(backlog) : backlog[i] \in Client
      /\ backlog \in Seq(Client)
  BY DEF ServerInv, ServerTypeOK
<1>2. \A x \in Client \ {c} : pc'[x] = pc[x]
  BY Sockets DEF ClientMoves, ServerInv, Labelled
<1>3. pc'[c] = l
  BY Sockets DEF ClientMoves, ServerInv, Labelled
<1>4. ASSUME NEW i \in 1 .. Len(backlog)
      PROVE  peer'[backlog[i]] = Nobody /\ pc'[backlog[i]] \in {"on_connect", "send", "sent"}
  <2>1. backlog[i] \in Client /\ peer[backlog[i]] = Nobody
        /\ pc[backlog[i]] \in {"on_connect", "send", "sent"}
    BY <1>1 DEF ServerInv, Queued
  <2> QED
    BY <1>2, <1>3, <2>1 DEF ClientMoves
<1> QED
  BY <1>1, <1>4 DEF ServerInv, Queued

LEMMA ClientCreates ==
    ASSUME ServerInv, NEW c \in Client, Create(c, "start", "created"),
           UNCHANGED <<runs, kernelVars, handlerVars, buffVars>>
    PROVE  ServerInv'
<1>1. /\ pc[c] = "start" /\ UNCHANGED <<tries, rcv, snd, netVars>>
      /\ pc' = [pc EXCEPT ![c] = "created"] /\ c \in Sock
  BY Sockets DEF Create
<1>2. ClientMoves(c, "created") /\ ClientGoesOn(c, "created")
  BY <1>1 DEF ClientMoves, ClientGoesOn, ClientLabels, ServerInv, Labelled
<1>3. SockTypeOK'
  BY <1>1, CreateTyped DEF ServerInv, ServerTypeOK
<1>4. SentBy(c)'
  <2>1. NothingSent(c, "created")
    BY <1>1, <1>2 DEF NothingSent
  <2> QED
    BY <1>1, <1>2, <2>1, ClientWire DEF ServerInv, Sent, SentBy, Labelled
<1> QED
  BY <1>1, <1>2, <1>3, <1>4, QueuedStays, ClientKeeps

LEMMA ConnectBeginKeeps ==
    ASSUME ServerInv, NEW c \in Client, ConnectBegin(c, "created"),
           UNCHANGED <<runs, kernelVars, handlerVars, buffVars>>
    PROVE  ServerInv'
<1>1. /\ pc[c] = "created" /\ UNCHANGED <<created, rcv, snd, ret, netVars>>
      /\ pc' = [pc EXCEPT ![c] = "connect"] /\ c \in Sock
      /\ SetStatus(c, "CONNECTING") /\ tries' = [tries EXCEPT ![c] = 0]
  BY Sockets DEF ConnectBegin
<1>2. ClientMoves(c, "connect") /\ ClientGoesOn(c, "connect")
  BY <1>1 DEF ClientMoves, ClientGoesOn, ClientLabels, ServerInv, Labelled
<1>3. SockTypeOK'
  <2>1. m_iStatus' \in [Sock -> CONNECT_STATUS_T]
    BY <1>1, StatusTyped DEF CONNECT_STATUS_T, ServerInv, ServerTypeOK
  <2>2. tries' \in [Sock -> Nat]
    BY <1>1 DEF ServerInv, ServerTypeOK, SockTypeOK
  <2> QED
    BY <1>1, <2>1, <2>2 DEF ServerInv, ServerTypeOK, SockTypeOK
<1>4. SentBy(c)'
  <2>1. NothingSent(c, "connect")
    BY <1>1, <1>2 DEF NothingSent
  <2> QED
    BY <1>1, <1>2, <2>1, ClientWire DEF ServerInv, Sent, SentBy, Labelled
<1> QED
  BY <1>1, <1>2, <1>3, <1>4, QueuedStays, ClientKeeps

\* A client is asked to try once.
LEMMA ConnectFailedKeeps ==
    ASSUME ServerInv, NEW c \in Client, ConnectFailed(c, 1, "gone"),
           UNCHANGED <<runs, kernelVars, handlerVars, buffVars>>
    PROVE  ServerInv'
<1>1. /\ pc[c] = "connect" /\ UNCHANGED <<created, rcv, snd, netVars>> /\ c \in Sock
      /\ tries' = [tries EXCEPT ![c] = @ + 1]
  BY Sockets DEF ConnectFailed
<1>2. tries' \in [Sock -> Nat] /\ ~(tries'[c] < 1)
  BY <1>1 DEF ServerInv, ServerTypeOK, SockTypeOK
<1>3. PICK st \in CONNECT_STATUS_T :
        SetStatus(c, st) /\ ret' = [ret EXCEPT ![c] = 0] /\ pc' = [pc EXCEPT ![c] = "gone"]
  BY <1>2 DEF ConnectFailed, CONNECT_STATUS_T
<1>4. ClientMoves(c, "gone") /\ ClientGoesOn(c, "gone")
  BY <1>1, <1>3 DEF ClientMoves, ClientGoesOn, ClientLabels, ServerInv, Labelled
<1>5. SockTypeOK'
  <2>1. m_iStatus' \in [Sock -> CONNECT_STATUS_T] /\ ret' \in [Sock -> 0 .. MinusOne]
    BY <1>1, <1>3, StatusTyped, ReturnTyped, Numbers DEF ServerInv, ServerTypeOK
  <2> QED
    BY <1>1, <1>2, <2>1 DEF ServerInv, ServerTypeOK, SockTypeOK
<1>6. SentBy(c)'
  <2>1. NothingSent(c, "gone")
    BY <1>1, <1>3, <1>4 DEF NothingSent
  <2> QED
    BY <1>1, <1>3, <1>4, <2>1, ClientWire DEF ServerInv, Sent, SentBy, Labelled
<1> QED
  BY <1>1, <1>4, <1>5, <1>6, QueuedStays, ClientKeeps

\* The kernel puts a new connection at the end of the backlog, where its client is not
\* yet.
LEMMA ClientConnectsKeeps ==
    ASSUME ServerInv, NEW c \in Client, ClientConnects(c), UNCHANGED <<runs, handlerVars, buffVars>>
    PROVE  ServerInv'
<1>1. /\ pc[c] = "connect" /\ c \in Sock /\ link' = [link EXCEPT ![c] = "open"]
      /\ SetStatus(c, "CONNECTED") /\ ret' = [ret EXCEPT ![c] = 1]
      /\ pc' = [pc EXCEPT ![c] = "on_connect"]
      /\ UNCHANGED <<created, tries, rcv, snd, inq, outq, listening, leaked, peer>>
  BY Sockets DEF ClientConnects, Connected
<1>2. link' \in [Sock -> LinkStates] /\ \A s \in Sock : link'[s] # "reset"
  BY <1>1 DEF ServerInv, ServerTypeOK, SockTypeOK, Labelled, LinkStates
<1>3. ClientMoves(c, "on_connect") /\ ClientGoesOn(c, "on_connect")
  BY <1>1, <1>2 DEF ClientMoves, ClientGoesOn, ClientLabels
<1>4. SockTypeOK'
  <2>1. m_iStatus' \in [Sock -> CONNECT_STATUS_T] /\ ret' \in [Sock -> 0 .. MinusOne]
    BY <1>1, StatusTyped, ReturnTyped, Numbers DEF ServerInv, ServerTypeOK, CONNECT_STATUS_T
  <2> QED
    BY <1>1, <1>2, <2>1 DEF ServerInv, ServerTypeOK, SockTypeOK
<1>5. SentBy(c)'
  <2>1. NothingSent(c, "on_connect")
    BY <1>1, <1>3 DEF NothingSent
  <2> QED
    BY <1>1, <1>3, <2>1, ClientWire DEF ServerInv, Sent, SentBy, Labelled
<1>6. CASE UNCHANGED backlog
  BY <1>3, <1>4, <1>5, <1>6, QueuedStays, ClientKeeps
<1>7. CASE backlog' = Append(backlog, c)
  <2>1. /\ backlog' \in Seq(Client) /\ Len(backlog') = Len(backlog) + 1
        /\ \A i \in 1 .. Len(backlog) : backlog'[i] = backlog[i] /\ backlog[i] \in Client
        /\ backlog'[Len(backlog) + 1] = c /\ Len(backlog) \in Nat
    BY <1>7 DEF ServerInv, ServerTypeOK
  <2>2. \A i \in 1 .. Len(backlog) : backlog[i] # c
    BY <1>1 DEF ServerInv, Queued
  <2>3. peer[c] = Nobody
    BY <1>1 DEF ServerInv, Paired
  <2>4. pc'[c] = "on_connect" /\ \A x \in Client \ {c} : pc'[x] = pc[x]
    BY <1>1, Sockets DEF ServerInv, Labelled
  <2>5. ASSUME NEW i \in 1 .. Len(backlog')
        PROVE  /\ peer'[backlog'[i]] = Nobody
               /\ pc'[backlog'[i]] \in {"on_connect", "send", "sent"}
    BY <1>1, <2>1, <2>2, <2>3, <2>4 DEF ServerInv, Queued
  <2>6. ASSUME NEW i \in 1 .. Len(backlog'), NEW j \in 1 .. Len(backlog'),
               backlog'[i] = backlog'[j]
        PROVE  i = j
    BY <2>1, <2>2, <2>6 DEF ServerInv, Queued
  <2>7. Queued'
    BY <2>5, <2>6 DEF Queued
  <2> QED
    BY <1>3, <1>4, <1>5, <2>1, <2>7, ClientKeeps
<1> QED
  BY <1>6, <1>7 DEF ClientConnects

LEMMA SendBeginKeeps ==
    ASSUME ServerInv, NEW c \in Client, SendBegin(c, "on_connect", Message(c), "send"),
           UNCHANGED <<runs, kernelVars, handlerVars, buffVars>>
    PROVE  ServerInv'
<1>1. /\ pc[c] = "on_connect" /\ c \in Sock
      /\ snd' = [snd EXCEPT ![c] = [buff |-> Message(c), done |-> 0]]
      /\ pc' = [pc EXCEPT ![c] = "send"]
      /\ UNCHANGED <<objVars, rcv, ret, netVars>>
  BY Sockets DEF SendBegin
<1>2. /\ snd' \in [Sock -> [buff : Seq(Nat), done : 0 .. MinusOne]]
      /\ snd'[c].buff = Message(c) /\ snd'[c].done = 0 /\ pc'[c] = "send"
      /\ \A x \in Sock \ {c} : snd'[x] = snd[x]
  BY <1>1, Numbers DEF ServerInv, ServerTypeOK, SockTypeOK, Labelled
<1>3. ClientMoves(c, "send") /\ ClientGoesOn(c, "send")
  BY <1>1, <1>2 DEF ClientMoves, ClientGoesOn, ClientLabels, ServerInv, Labelled
<1>4. SockTypeOK'
  BY <1>1, <1>2 DEF ServerInv, ServerTypeOK, SockTypeOK
<1>5. SentBy(c)'
  <2>1. NothingSent(c, "send")
    BY <1>1, <1>2 DEF NothingSent, ServerInv, Sent, SentBy
  <2>2. 0 <= Len(Message(c))
    BY Numbers
  <2> QED
    BY <1>1, <1>2, <1>3, <2>1, <2>2, ClientWire DEF SentBy
<1> QED
  BY <1>1, <1>3, <1>4, <1>5, QueuedStays, ClientKeeps

LEMMA SendReturnKeeps ==
    ASSUME ServerInv, NEW c \in Client, SendReturn(c, "send", "sent"),
           UNCHANGED <<runs, kernelVars, handlerVars, buffVars>>
    PROVE  ServerInv'
<1>1. /\ pc[c] = "send" /\ c \in Sock
      /\ snd' = [snd EXCEPT ![c] = [buff |-> NoBytes, done |-> 0]]
      /\ ret' = [ret EXCEPT ![c] = snd[c].done]
      /\ pc' = [pc EXCEPT ![c] = "sent"]
      /\ UNCHANGED <<objVars, rcv, netVars>>
  BY Sockets DEF SendReturn
<1>2. /\ snd' \in [Sock -> [buff : Seq(Nat), done : 0 .. MinusOne]]
      /\ \A x \in Sock \ {c} : snd'[x] = snd[x]
      /\ snd[c].done \in 0 .. MinusOne
  BY <1>1, Numbers DEF ServerInv, ServerTypeOK, SockTypeOK
<1>3. ClientMoves(c, "sent") /\ ClientGoesOn(c, "sent")
  BY <1>1, <1>2 DEF ClientMoves, ClientGoesOn, ClientLabels, ServerInv, Labelled
<1>4. SockTypeOK'
  <2>1. ret' \in [Sock -> 0 .. MinusOne]
    BY <1>1, <1>2, ReturnTyped DEF ServerInv, ServerTypeOK
  <2> QED
    BY <1>1, <1>2, <2>1 DEF ServerInv, ServerTypeOK, SockTypeOK
<1>5. SentBy(c)'
  <2>1. NothingSent(c, "sent") /\ pc'[c] = "sent"
    BY <1>1 DEF NothingSent, ServerInv, Labelled
  <2> QED
    BY <1>3, <2>1, ClientWire DEF SentBy
<1> QED
  BY <1>1, <1>3, <1>4, <1>5, QueuedStays, ClientKeeps

\* send() takes bytes from the front of the buffer again, but no more in all than the
\* buffer has; where it takes all it is given, it is called once.
LEMMA SendSomeKeeps ==
    ASSUME ServerInv, NEW c \in Client, SendSome(c, "send"),
           UNCHANGED <<runs, kernelVars, handlerVars, buffVars>>
    PROVE  ServerInv'
<1> DEFINE m == Message(c)
           done == snd[c].done
           q == outq[c]
           w == Wire(c)
<1>1. /\ pc[c] = "send" /\ c \in Sock /\ Sending(c)
      /\ UNCHANGED <<objVars, rcv, ret, pc, inq, link>>
  BY Sockets DEF SendSome
<1>2. PICK count \in IF PartialSend THEN 1 .. Len(snd[c].buff) - done
                                    ELSE {Len(snd[c].buff) - done} :
        /\ outq' = [outq EXCEPT ![c] = @ \o SubSeq(snd[c].buff, 1, count)]
        /\ snd' = [snd EXCEPT ![c].done = @ + count]
  BY DEF SendSome
<1>3. /\ snd[c].buff = m /\ done <= Len(m) /\ (~PartialSend => done \in {0, Len(m)})
      /\ Open(c) => OnWire(c, w)
  BY <1>1 DEF ServerInv, Sent, SentBy
<1>4. /\ snd \in [Sock -> [buff : Seq(Nat), done : 0 .. MinusOne]]
      /\ outq \in [Sock -> Seq(Nat)]
  BY DEF ServerInv, ServerTypeOK, SockTypeOK
<1>5. m \in Seq(Nat) /\ Len(m) \in Nat /\ Len(m) < MinusOne /\ MinusOne \in Nat
  BY Numbers
<1>6. done \in Nat /\ q \in Seq(Nat) /\ done < Len(m)
  BY <1>1, <1>3, <1>4, <1>5, LenInNat DEF Sending
<1>7. PartialSend \in BOOLEAN
  BY PartialSendAssumption
<1>8. /\ outq'[c] = q \o SubSeq(m, 1, count)
      /\ \A x \in Sock \ {c} : UNCHANGED <<snd[x], outq[x]>>
      /\ snd'[c].done = done + count /\ snd'[c].buff = m
  BY <1>1, <1>2, <1>3, <1>4
<1>18. c # Nobody /\ (peer[c] # Nobody => peer[c] \in Sock \ {c})
  BY Sockets DEF ServerInv, Paired
<1> HIDE DEF m, done, q, w
<1>9. count \in 1 .. Len(m) /\ done + count <= Len(m)
      /\ (~PartialSend => count = Len(m) - done)
  BY <1>2, <1>3, <1>5, <1>6, <1>7
<1>10. /\ SubSeq(m, 1, count) \in Seq(Nat) /\ Len(SubSeq(m, 1, count)) = count
       /\ SubSeq(m, 1, Len(m)) = m
  BY <1>5, <1>9
<1>11. outq'[c] \in Seq(Nat)
  BY <1>6, <1>8, <1>10, Concat, Zenon
<1>12. snd'[c].done \in 0 .. MinusOne /\ snd'[c].done <= Len(m)
       /\ (~PartialSend => snd'[c].done = Len(m))
  BY <1>5, <1>6, <1>8, <1>9
<1>13. ASSUME Open(c)' PROVE OnWire(c, Wire(c))'
  <2>1. Open(c) /\ (peer[c] # Nobody => UNCHANGED <<rcv[peer[c]], inq[peer[c]]>>) /\ peer'[c] = peer[c]
        /\ pc'[c] = "send"
    BY <1>1, <1>13, <1>18 DEF Open
  <2>2. OnWire(c, w) /\ w \in Seq(Nat) /\ Len(w) <= done
    BY <1>1, <1>3, <2>1 DEF OnWire, done
  <2>3. Wire(c)' = w \o SubSeq(m, 1, count)
    <3>1. CASE peer[c] = Nobody
      <4>1. w = q /\ Wire(c)' = outq'[c]
        BY <2>1, <3>1, Zenon DEF Wire, w, q
      <4> QED
        BY <1>8, <4>1, Zenon
    <3>2. CASE peer[c] # Nobody
      <4> DEFINE p == Pending(peer[c])
      <4>1. w = p \o q /\ Wire(c)' = p \o outq'[c]
        BY <2>1, <3>2 DEF Wire, w, q, Pending
      <4>2. p \in Seq(Nat)
        <5>1. rcv[peer[c]].buff \in Seq(Nat) /\ inq[peer[c]] \in Seq(Nat)
          BY <1>18, <3>2 DEF ServerInv, ServerTypeOK, SockTypeOK
        <5> QED
          BY <5>1, Concat, Zenon DEF Pending
      <4> HIDE DEF p
      <4>3. p \o (q \o SubSeq(m, 1, count)) = (p \o q) \o SubSeq(m, 1, count)
        BY <1>6, <1>10, <4>2, Associative, Zenon
      <4> QED
        BY <1>8, <4>1, <4>3, Zenon
    <3> QED
      BY <3>1, <3>2
  <2>4. Wire(c)' \in Seq(Nat) /\ Len(Wire(c)') = Len(w) + count
    BY <1>10, <2>2, <2>3, Concat, Zenon
  <2>5. Len(Wire(c)') <= snd'[c].done /\ Len(Wire(c)') <= Len(m)
    <3>1. \A k, n, d, z \in Nat : z <= d /\ d + k <= n => z + k <= d + k /\ z + k <= n
      OBVIOUS
    <3>2. count \in Nat /\ Len(w) \in Nat
      BY <1>9, <2>2, LenInNat
    <3>3. Len(w) + count <= done + count /\ Len(w) + count <= Len(m)
      BY <1>5, <1>6, <1>9, <2>2, <3>1, <3>2, Zenon
    <3> QED
      BY <1>8, <2>4, <3>3, Zenon
  <2>6. ASSUME ~PartialSend PROVE Wire(c)' = m
    <3>1. done = 0 /\ count = Len(m)
      BY <1>3, <1>5, <1>6, <1>9, <2>6
    <3>2. w = <<>>
      BY <2>2, <3>1
    <3>3. \A x \in Seq(Nat) : <<>> \o x = x
      OBVIOUS
    <3> QED
      BY <1>5, <1>10, <2>3, <3>1, <3>2, <3>3, Zenon
  <2> QED
    BY <2>1, <2>4, <2>5, <2>6, Zenon DEF OnWire, m
<1>14. /\ snd' \in [Sock -> [buff : Seq(Nat), done : 0 .. MinusOne]]
       /\ outq' \in [Sock -> Seq(Nat)]
  BY <1>1, <1>2, <1>4, <1>8, <1>11, <1>12
<1>15. SockTypeOK'
  BY <1>1, <1>14 DEF ServerInv, ServerTypeOK, SockTypeOK
<1>16. SentBy(c)'
  <2>1. pc'[c] = "send" /\ m = Message(c)
    BY <1>1 DEF m
  <2>2. snd'[c].buff = Message(c) /\ snd'[c].done <= Len(Message(c))
        /\ (~PartialSend => snd'[c].done \in {0, Len(Message(c))})
    BY <1>8, <1>12, <2>1, Zenon
  <2> QED
    BY <1>13, <2>1, <2>2, Zenon DEF SentBy
<1>17. ClientMoves(c, "send") /\ ClientGoesOn(c, "send")
  <2>1. pc' = [pc EXCEPT ![c] = "send"]
    BY <1>1 DEF ServerInv, Labelled
  <2> QED
    BY <1>1, <1>8, <2>1 DEF ClientMoves, ClientGoesOn, ClientLabels, ServerInv, Labelled
<1> QED
  BY <1>15, <1>16, <1>17, QueuedStays, ClientKeeps

LEMMA ClientStepKeeps == ASSUME ServerInv, NEW c \in Client, ClientStep(c) PROVE ServerInv'
<1>1. ~SendFails(c, "send")
  BY Sockets DEF ServerInv, Labelled, SendFails
<1> QED
  BY <1>1, ClientCreates, ConnectBeginKeeps, ConnectFailedKeeps, ClientConnectsKeeps,
     SendBeginKeeps, SendSomeKeeps, SendReturnKeeps DEF ClientStep, Send

LEMMA LeaveKeeps == ASSUME ServerInv, NEW c \in Client, Leave(c) PROVE ServerInv'
<1>1. /\ pc[c] = "on_connect" /\ peer[c] # Nobody /\ c \in Sock
      /\ pc' = [pc EXCEPT ![c] = "gone"] /\ link' = [link EXCEPT ![peer[c]] = "closed"]
      /\ UNCHANGED <<objVars, rcv, snd, ret, inq, outq, runs, kernelVars, handlerVars, buffVars>>
  BY Sockets DEF Leave
<1>2. link' \in [Sock -> LinkStates] /\ \A s \in Sock : link'[s] # "reset"
  BY <1>1 DEF ServerInv, ServerTypeOK, SockTypeOK, Labelled, LinkStates
<1>3. ClientMoves(c, "gone") /\ ClientGoesOn(c, "gone")
  BY <1>1, <1>2 DEF ClientMoves, ClientGoesOn, ClientLabels
<1>4. SockTypeOK'
  BY <1>1, <1>2 DEF ServerInv, ServerTypeOK, SockTypeOK
<1>5. SentBy(c)'
  <2>1. NothingSent(c, "gone")
    BY <1>1, <1>3 DEF NothingSent
  <2> QED
    BY <1>1, <1>3, <2>1, ClientWire DEF ServerInv, Sent, SentBy, Labelled
<1> QED
  BY <1>1, <1>3, <1>4, <1>5, QueuedStays, ClientKeeps

\* Bytes reach the kernel of the other end in the order in which they were sent.
LEMMA CarryKeeps == ASSUME ServerInv, NEW c \in Client, Carry(c) PROVE ServerInv'
<1>0. PICK v \in Conn : v = peer[c]
  BY DEF Carry, ServerInv, Paired
<1> DEFINE q == outq[c]
<1>1. /\ q # NoBytes /\ v # Nobody
      /\ UNCHANGED <<objVars, rcv, snd, ret, pc, link, runs, kernelVars, handlerVars, buffVars>>
  BY <1>0, Sockets DEF Carry
<1>2. /\ v \in Sock /\ c \in Sock /\ c # v /\ peer[v] = c /\ pc[v] # "start"
      /\ inq \in [Sock -> Seq(Nat)] /\ outq \in [Sock -> Seq(Nat)] /\ q \in Seq(Nat)
      /\ inq[v] \in Seq(Nat)
  <2>1. /\ v \in Sock /\ c \in Sock /\ c # v
        /\ inq \in [Sock -> Seq(Nat)] /\ outq \in [Sock -> Seq(Nat)]
    BY Sockets DEF ServerInv, ServerTypeOK, SockTypeOK
  <2>2. peer[c] # Nobody => peer[peer[c]] = c
    BY DEF ServerInv, Paired
  <2>3. peer[v] = c /\ c # Nobody
    BY <1>0, <1>1, <2>2, Sockets
  <2>4. pc[v] # "start"
    BY <2>3 DEF ServerInv, Paired
  <2> QED
    BY <2>1, <2>3, <2>4
<1>3. PICK n \in 1 .. Len(q) :
        /\ inq' = [inq EXCEPT ![v] = @ \o SubSeq(q, 1, n)]
        /\ outq' = [outq EXCEPT ![c] = SubSeq(@, n + 1, Len(@))]
  <2>1. Len(q) \in 1 .. Len(q)
    BY <1>1, <1>2
  <2> QED
    BY <1>0, <2>1 DEF Carry
<1>4. /\ inq'[v] = inq[v] \o SubSeq(q, 1, n) /\ outq'[c] = SubSeq(q, n + 1, Len(q))
      /\ \A x \in Sock \ {v} : inq'[x] = inq[x]
      /\ \A x \in Sock \ {c} : outq'[x] = outq[x]
  BY <1>2, <1>3
<1>5. /\ inq'[v] \in Seq(Nat) /\ outq'[c] \in Seq(Nat) /\ inq'[v] \o outq'[c] = inq[v] \o q
  <2>1. /\ inq[v] \o SubSeq(q, 1, n) \in Seq(Nat) /\ SubSeq(q, n + 1, Len(q)) \in Seq(Nat)
        /\ (inq[v] \o SubSeq(q, 1, n)) \o SubSeq(q, n + 1, Len(q)) = inq[v] \o q
    BY <1>2, RecvMoves
  <2> QED
    BY <1>4, <2>1, Zenon
<1>6. inq' \in [Sock -> Seq(Nat)] /\ outq' \in [Sock -> Seq(Nat)]
  BY <1>2, <1>3, <1>4, <1>5
<1>7. OnlyMoves({c, v}) /\ PeersStay({c, v})
  BY <1>1, <1>4 DEF OnlyMoves, PeersStay, Same
<1>8. ServerTypeOK'
  BY <1>1, <1>6 DEF ServerInv, ServerTypeOK, SockTypeOK
<1>9. Labelled' /\ HandlerIsNew' /\ Paired' /\ Queued'
  BY <1>1 DEF ServerInv, Labelled, HandlerIsNew, Paired, Queued
<1>10. Sent'
  <2>1. Wire(c)' = Wire(c)
    <3> DEFINE b == rcv[v].buff
    <3>1. Wire(c) = (b \o inq[v]) \o q /\ Wire(c)' = (b \o inq'[v]) \o outq'[c]
      BY <1>0, <1>1 DEF Wire, Pending
    <3>2. b \in Seq(Nat)
      BY <1>2 DEF ServerInv, ServerTypeOK, SockTypeOK
    <3> HIDE DEF b, q
    <3>3. /\ (b \o inq[v]) \o q = b \o (inq[v] \o q)
          /\ (b \o inq'[v]) \o outq'[c] = b \o (inq'[v] \o outq'[c])
      BY <1>2, <1>5, <3>2, Associative, Zenon
    <3> QED
      BY <1>5, <3>1, <3>3, Zenon
  <2>2. SentBy(c)'
    BY <1>1, <2>1 DEF ServerInv, Sent, SentBy, Open, OnWire
  <2>3. \A x \in Client \ {c} : peer[x] \notin {c, v}
    BY <1>1, <1>2, Sockets DEF ServerInv, Paired
  <2>4. \A x \in Client : x \in {c, v} \/ peer[x] \in {c, v} => x = c
    BY <2>3, Sockets
  <2> QED
    BY <1>7, <2>2, <2>4, SentStays
<1>11. Receiving'
  <2>1. ReceivedBy(v)'
    BY <1>1, <1>2 DEF ServerInv, Receiving, ReceivedBy, Waiting, Reading
  <2> QED
    BY <1>1, <1>7, <2>1, ReceivingStays, Sockets
<1> QED
  BY <1>8, <1>9, <1>10, <1>11 DEF ServerInv

-----------------------------------------------------------------------------
LEMMA ServerStarts == ServerInit => ServerInv
<1> SUFFICES ASSUME ServerInit PROVE ServerInv
  OBVIOUS
<1>1. ServerTypeOK
  <2>1. [buff |-> NoBytes, done |-> 0, len |-> 0] \in
          [buff : Seq(Nat), done : 0 .. MinusOne, len : Nat]
    BY Numbers
  <2>2. [buff |-> NoBytes, done |-> 0] \in [buff : Seq(Nat), done : 0 .. MinusOne]
    BY Numbers
  <2>3. SockTypeOK
    BY <2>1, <2>2, Numbers DEF ServerInit, SockInit, SockTypeOK, CONNECT_STATUS_T, LinkStates
  <2> QED
    <3>1. runs \in 0 .. MaxRuns /\ listening = FALSE /\ leaked = FALSE
          /\ m_pHandler = 0 /\ m_pSocket = <<>> /\ backlog = <<>>
      BY ServerBounds DEF ServerInit
    <3>2. peer \in [Client \cup Conn -> Client \cup Conn \cup {Nobody}]
      BY DEF ServerInit
    <3>3. backlog \in Seq(Client) /\ m_pSocket \in Seq(Conn \cup {Nobody})
          /\ m_pHandler \in 0 .. Len(m_pSocket)
      BY <3>1
    <3> QED
      BY <2>3, <3>1, <3>2, <3>3, Zenon DEF ServerTypeOK
<1>2. /\ pc = [s \in Sock |-> "start"] /\ outq = [s \in Sock |-> NoBytes]
      /\ inq = [s \in Sock |-> NoBytes] /\ link = [s \in Sock |-> "none"]
      /\ received = [v \in Conn |-> NoBytes] /\ backlog = NoBytes
      /\ peer = [s \in Client \cup Conn |-> Nobody]
      /\ rcv = [s \in Sock |-> [buff |-> NoBytes, done |-> 0, len |-> 0]]
  BY DEF ServerInit, SockInit
<1>3. Labelled
  BY <1>2, Sockets DEF Labelled, Labels, ListenerLabels, ClientLabels, ConnLabels
<1>4. HandlerIsNew /\ Paired /\ Queued
  BY <1>2, Sockets DEF HandlerIsNew, Paired, Queued
<1>5. Sent
  <2> SUFFICES ASSUME NEW c \in Client PROVE SentBy(c)
    BY DEF Sent
  <2>1. /\ c \in Sock /\ peer[c] = Nobody /\ snd[c].done = 0 /\ pc[c] = "start" /\ outq[c] = <<>>
    BY Sockets DEF ServerInit, SockInit
  <2>2. Wire(c) = <<>>
    BY <2>1 DEF Wire
  <2>3. <<>> \in Seq(Nat) /\ Len(<<>>) = 0 /\ 0 <= Len(Message(c)) /\ 0 <= 0
    BY Numbers
  <2> QED
    BY <2>1, <2>2, <2>3 DEF SentBy, OnWire
<1>6. Receiving
  BY <1>2, Sockets DEF Receiving, ReceivedBy, Waiting, Reading
<1> QED
  BY <1>1, <1>3, <1>4, <1>5, <1>6 DEF ServerInv

LEMMA ServerMoves == ServerInv /\ [ServerNext]_vars => ServerInv'
<1>1. ASSUME ServerInv, UNCHANGED vars PROVE ServerInv'
  <2>1. UNCHANGED <<sockVars, runs, kernelVars, handlerVars, buffVars>>
    BY <1>1 DEF vars
  <2>2. ServerTypeOK' /\ Labelled' /\ HandlerIsNew'
    BY <1>1, <2>1 DEF sockVars, ServerInv, ServerTypeOK, SockTypeOK, Labelled, HandlerIsNew
  <2>3. Paired' /\ Queued'
    BY <1>1, <2>1 DEF sockVars, ServerInv, Paired, Queued
  <2>4. Sent' /\ Receiving'
    <3>1. OnlyMoves({})
      BY <2>1 DEF sockVars, OnlyMoves, Same
    <3>2. PeersStay({})
      BY <2>1 DEF PeersStay
    <3>3. \A v \in Conn : UNCHANGED <<peer[v], received[v]>>
      BY <2>1
    <3>4. Sent'
      BY <1>1, <3>1, <3>2, SentStays
    <3> QED
      BY <1>1, <3>1, <3>2, <3>3, <3>4, ReceivingStays
  <2> QED
    BY <2>2, <2>3, <2>4 DEF ServerInv
<1>2. ASSUME ServerInv, ServerNext PROVE ServerInv'
  BY <1>2, StartedKeeps, CreateListenerKeeps, BindListenerKeeps, RegisterHandlerKeeps,
     ListenKeeps, AcceptOneKeeps, AcceptFailsKeeps, HandlerRunKeeps, ClientStepKeeps, LeaveKeeps, CarryKeeps
     DEF ServerNext, Run
<1> QED
  BY <1>1, <1>2

LEMMA ServerInvariant == ServerSpec => []ServerInv
BY ServerStarts, ServerMoves, PTL DEF ServerSpec

\* The state of the sockets and of the server is what the code's declarations say
\* (BlueToothSocket.h:28-45, BTServer.h:13-40).
THEOREM ServerTyped == ServerSpec => []ServerTypeOK
<1>1. ServerInv => ServerTypeOK
  BY DEF ServerInv
<1> QED
  BY <1>1, ServerInvariant, PTL

\* Where send() takes whole messages, what the handler of a connection receives is a
\* beginning of the message of the client at its other end and nothing of another's,
\* however the stream cuts it up, whoever connects meanwhile and however often the
\* server is started again (BTServer.cpp:26-32, 49).
THEOREM BeginningOfOneMessage ==
    ASSUME PartialSend = FALSE
    PROVE  ServerSpec => []NoCrossTalk
<1>1. ServerInv => NoCrossTalk
  BY DEF ServerInv, NoCrossTalk, Receiving, ReceivedBy
<1> QED
  BY <1>1, ServerInvariant, PTL

\* OnAccept never replaces the socket of a handler: the one that is registered at
\* Accept was made for that connection (BTServer.cpp:19-25, 72-76).
THEOREM OneConnectionEach == ServerSpec => HandlerServesOne
<1>1. ASSUME ServerInv, [ServerNext]_vars
      PROVE  [\A h \in DOMAIN m_pSocket :
                m_pSocket[h] # Nobody => m_pSocket'[h] = m_pSocket[h]]_vars
  <2> SUFFICES ASSUME ServerNext, NEW h \in DOMAIN m_pSocket, m_pSocket[h] # Nobody
               PROVE  m_pSocket'[h] = m_pSocket[h]
    BY <1>1
  <2>1. m_pSocket \in Seq(Conn \cup {Nobody}) /\ h \in 1 .. Len(m_pSocket)
    BY <1>1 DEF ServerInv, ServerTypeOK
  <2>2. CASE RegisterHandler
    BY <2>1, <2>2 DEF RegisterHandler
  <2>3. CASE AcceptOne
    <3>1. m_pSocket[m_pHandler] = Nobody
      BY <1>1, <2>3 DEF AcceptOne, ServerInv, HandlerIsNew
    <3> QED
      BY <2>1, <2>3, <3>1 DEF AcceptOne
  <2>4. CASE UNCHANGED m_pSocket
    BY <2>4
  <2> QED
    BY <2>2, <2>3, <2>4 DEF ServerNext, Started, Run, CreateListener, BindListener,
       ListenOrReturn, AcceptFails, HandlerRun, ClientStep, Leave, Carry
<1> QED
  BY <1>1, ServerInvariant, PTL DEF ServerSpec, HandlerServesOne

=============================================================================
