---------------------- MODULE DeviceHandlerThread_proofs ----------------------
(***************************************************************************)
(* Proofs about the handler thread: Recveive hands over every byte it has   *)
(* read, Send's loop ends as it should, and the status of the socket tells  *)
(* the manager the truth, for any number of bytes, cut up and lost in any   *)
(* way.  The thread lives the life that DeviceManager assumes of it.        *)
(***************************************************************************)
EXTENDS DeviceHandlerThread, TLAPS, SequenceTheorems

Labels == {"start", "create", "created", "connect", "on_connect", "send_beacon", "recv",
           "recv_select", "recv_len", "recv_read", "recv_more", "recv_deliver",
           "on_receive", "send_echo", "received", "loop", "exited"}

\* k bytes of the device's stream, behind the first n.
Bytes(n, k) == [i \in 1 .. k |-> n + i]

Typed == HandlerTypeOK /\ pc \in [Sock -> Labels] /\ delivered \in Seq(Nat)

\* The stream: what has been read and handed over, what Recveive holds, and what
\* the kernel has for the next call.  There is none before the connection.
Holding == {"recv_read", "recv_more", "recv_deliver", "on_receive"}
Flow ==
    /\ delivered \o (IF pc[thread] \in Holding THEN rcv[thread].buff ELSE NoBytes)
         = Bytes(0, taken)
    /\ inq[thread] = IF link[thread] = "reset" THEN NoBytes
                     ELSE Bytes(taken, arrived - taken)
    /\ pc[thread] \in {"start", "create", "created", "connect"} => link[thread] = "none"
    /\ link[thread] = "none" => arrived = 0

\* What the steps of Recveive know of the status, and of the numbers of bytes.
Receiving ==
    /\ pc[thread] \in {"recv_select", "recv_len", "recv_read", "recv_more"} =>
         m_iStatus[thread] = "CONNECTED"
    /\ pc[thread] \in {"recv_read", "recv_more"} =>
         rcv[thread].done <= rcv[thread].len /\ rcv[thread].len <= MaxBytes
    /\ pc[thread] \in {"recv_deliver", "on_receive", "send_echo", "received"} =>
         IF m_iStatus[thread] = "CONNECTED" THEN rcv[thread].done <= MaxBytes
                                            ELSE rcv[thread].done = MinusOne
    /\ EndMatchesStatus

\* Send has counted some of the bytes, or a failure before all others.
Sent ==
    pc[thread] \in {"send_beacon", "send_echo"} =>
      /\ Len(snd[thread].buff) <= MaxBytes + 1
      /\ snd[thread].done <= Len(snd[thread].buff) \/ snd[thread].done = MinusOne

HandlerInv == Typed /\ Flow /\ Receiving /\ Sent

USE DEF objVars, netVars, histVars, Goto, Return, SetStatus, NoBytes

-----------------------------------------------------------------------------
(* Numbers and sequences.                                                   *)

LEMMA Numbers ==
    /\ SizeMod \in Nat /\ SizeMod > 1 /\ MinusOne \in Nat /\ MinusOne = SizeMod - 1
    /\ MaxBytes \in Nat /\ MaxBytes < MinusOne /\ thread \in Sock
BY SizeModAssumption, HandlerBounds, BuffersFit, OneSocket DEF MinusOne

\* A failed send() takes one from what has been counted, modulo the width of size_t.
LEMMA SizeOfFailure ==
    ASSUME NEW n \in 0 .. MinusOne
    PROVE  (n + MinusOne) % SizeMod = IF n = 0 THEN MinusOne ELSE n - 1
<1>1. SizeMod \in Nat \ {0} /\ MinusOne = SizeMod - 1
  BY Numbers
<1>2. \A a \in 0 .. SizeMod - 1 : a % SizeMod = a
  BY <1>1
<1>3. CASE n = 0
  BY <1>1, <1>2, <1>3
<1>4. CASE n > 0
  <2>1. n - 1 \in 0 .. SizeMod - 1 /\ n + MinusOne = (n - 1) + SizeMod
    BY <1>1, <1>4
  <2>2. \A a \in 0 .. SizeMod - 1 : (a + SizeMod) % SizeMod = a
    BY <1>1
  <2> QED
    BY <1>4, <2>1, <2>2
<1> QED
  BY <1>1, <1>3, <1>4

LEMMA BytesAre ==
    ASSUME NEW n \in Nat, NEW k \in Nat
    PROVE  Bytes(n, k) \in Seq(Nat) /\ Len(Bytes(n, k)) = k
BY DEF Bytes

LEMMA BytesOn ==
    ASSUME NEW n \in Nat, NEW k \in Nat, NEW m \in Nat
    PROVE  Bytes(n, k) \o Bytes(n + k, m) = Bytes(n, k + m)
<1> DEFINE both == Bytes(n, k) \o Bytes(n + k, m)
<1>1. both \in Seq(Nat) /\ Len(both) = k + m
  <2>1. /\ Bytes(n, k) \in Seq(Nat) /\ Len(Bytes(n, k)) = k
        /\ Bytes(n + k, m) \in Seq(Nat) /\ Len(Bytes(n + k, m)) = m
    <3>1. n + k \in Nat
      OBVIOUS
    <3> QED
      BY <3>1, BytesAre, Zenon
  <2> QED
    BY <2>1
<1>2. \A i \in 1 .. k + m : both[i] = n + i
  BY BytesAre DEF Bytes
<1>3. Len(Bytes(n, k + m)) = k + m /\ \A i \in 1 .. k + m : Bytes(n, k + m)[i] = n + i
  BY BytesAre DEF Bytes
<1> DEFINE whole == Bytes(n, k + m)
<1>4. whole \in Seq(Nat) /\ Len(whole) = k + m /\ \A i \in 1 .. k + m : whole[i] = n + i
  BY <1>3, BytesAre
<1> HIDE DEF both, whole
<1>5. both = whole
  BY <1>1, <1>2, <1>4, SeqEqual
<1> QED
  BY <1>5 DEF both, whole

LEMMA BytesCut ==
    ASSUME NEW n \in Nat, NEW m \in Nat, NEW k \in 0 .. m
    PROVE  /\ SubSeq(Bytes(n, m), 1, k) = Bytes(n, k)
           /\ SubSeq(Bytes(n, m), k + 1, m) = Bytes(n + k, m - k)
<1>1. SubSeq(Bytes(n, m), 1, k) = Bytes(n, k)
  BY BytesAre DEF Bytes
<1>2. SubSeq(Bytes(n, m), k + 1, m) = Bytes(n + k, m - k)
  BY BytesAre DEF Bytes
<1> QED
  BY <1>1, <1>2

LEMMA ConcatKeeps ==
    ASSUME NEW a \in Seq(Nat), NEW b \in Seq(Nat)
    PROVE  /\ a \o <<>> = a
           /\ a \o b \in Seq(Nat) /\ Len(a \o b) = Len(a) + Len(b)
OBVIOUS

LEMMA Associative == \A a, b, c \in Seq(Nat) : (a \o b) \o c = a \o (b \o c)
OBVIOUS

LEMMA Front ==
    ASSUME NEW a \in Seq(Nat), NEW k \in 0 .. Len(a)
    PROVE  SubSeq(a, 1, k) \in Seq(Nat)
OBVIOUS

\* What recv() does to the stream: k of the m bytes that are there go to the end
\* of the buffer b.
LEMMA Reading ==
    \A d, b \in Seq(Nat), n, m \in Nat : \A k \in 1 .. m :
           /\ b \o SubSeq(Bytes(n, m), 1, k) \in Seq(Nat)
           /\ Len(b \o SubSeq(Bytes(n, m), 1, k)) = Len(b) + k
           /\ d \o b = Bytes(0, n) =>
                d \o (b \o SubSeq(Bytes(n, m), 1, k)) = Bytes(0, n + k)
           /\ SubSeq(Bytes(n, m), k + 1, m) = Bytes(n + k, m - k)
           /\ SubSeq(Bytes(n, m), k + 1, m) \in Seq(Nat)
<1> TAKE d, b \in Seq(Nat), n, m \in Nat
<1> TAKE k \in 1 .. m
<1>1. k \in 0 .. m /\ k \in Nat /\ m - k \in Nat /\ n + k \in Nat /\ 0 + n = n
  OBVIOUS
<1>2. /\ SubSeq(Bytes(n, m), 1, k) = Bytes(n, k)
      /\ SubSeq(Bytes(n, m), k + 1, m) = Bytes(n + k, m - k)
  BY <1>1, BytesCut
<1>3. /\ Bytes(n, k) \in Seq(Nat) /\ Len(Bytes(n, k)) = k
      /\ Bytes(n + k, m - k) \in Seq(Nat)
  BY <1>1, BytesAre
<1>4. (d \o b) \o Bytes(n, k) = d \o (b \o Bytes(n, k))
  BY <1>3, Associative, Zenon
<1>5. Bytes(0, n) \o Bytes(n, k) = Bytes(0, n + k)
  <2>1. 0 \in Nat /\ n \in Nat /\ k \in Nat /\ 0 + n = n
    BY <1>1
  <2>2. Bytes(0, n) \o Bytes(0 + n, k) = Bytes(0, n + k)
    BY <2>1, BytesOn, Zenon
  <2> QED
    BY <2>1, <2>2, Zenon
<1>6. b \o Bytes(n, k) \in Seq(Nat) /\ Len(b \o Bytes(n, k)) = Len(b) + k
  <2>1. Len(b \o Bytes(n, k)) = Len(b) + Len(Bytes(n, k))
    BY <1>3, ConcatKeeps, Zenon
  <2> QED
    BY <1>3, <2>1, ConcatKeeps, Zenon
<1> QED
  BY <1>2, <1>3, <1>4, <1>5, <1>6, Zenon

-----------------------------------------------------------------------------
(* The state of the one socket, value by value.                             *)

Values ==
    /\ m_iStatus[thread] \in CONNECT_STATUS_T /\ created[thread] \in BOOLEAN
    /\ tries[thread] \in Nat
    /\ rcv[thread].buff \in Seq(Nat) /\ rcv[thread].done \in 0 .. MinusOne
    /\ rcv[thread].len \in Nat
    /\ snd[thread].buff \in Seq(Nat) /\ snd[thread].done \in 0 .. MinusOne
    /\ ret[thread] \in 0 .. MinusOne
    /\ inq[thread] \in Seq(Nat) /\ link[thread] \in LinkStates
    /\ outq[thread] \in Seq(Nat) /\ pc[thread] \in Labels
    /\ arrived \in 0 .. MaxBytes /\ taken \in 0 .. arrived
    /\ delivered \in Seq(Nat)

LEMMA ValuesTyped == ASSUME Typed PROVE Values
BY Numbers DEF Typed, HandlerTypeOK, SockTypeOK, Values

LEMMA Sizes ==
    ASSUME Typed
    PROVE  /\ rcv[thread].buff \in Seq(Nat) /\ Len(rcv[thread].buff) \in Nat
           /\ rcv[thread].done \in Nat /\ rcv[thread].len \in Nat
           /\ snd[thread].buff \in Seq(Nat) /\ Len(snd[thread].buff) \in Nat
           /\ snd[thread].done \in Nat /\ snd[thread].done \in 0 .. MinusOne
           /\ MinusOne \in Nat /\ MaxBytes \in Nat /\ MaxBytes + 1 <= MinusOne
<1>1. Values /\ MinusOne \in Nat /\ MaxBytes \in Nat /\ MaxBytes + 1 <= MinusOne
  BY Numbers, ValuesTyped
<1>2. rcv[thread].buff \in Seq(Nat) /\ snd[thread].buff \in Seq(Nat)
  BY <1>1, Zenon DEF Values
<1>3. Len(rcv[thread].buff) \in Nat /\ Len(snd[thread].buff) \in Nat
  BY <1>2
<1>4. /\ rcv[thread].done \in 0 .. MinusOne /\ rcv[thread].len \in Nat
      /\ snd[thread].done \in 0 .. MinusOne
  BY <1>1, Zenon DEF Values
<1>5. rcv[thread].done \in Nat /\ snd[thread].done \in Nat
  BY <1>1, <1>4
<1> QED
  BY <1>1, <1>2, <1>3, <1>4, <1>5, Zenon

\* What the operations return is a size.
LEMMA ReturnTyped ==
    ASSUME Typed, NEW r \in {0, 1, MinusOne}, ret' = [ret EXCEPT ![thread] = r]
    PROVE  ret' \in [Sock -> 0 .. MinusOne]
<1>1. r \in 0 .. MinusOne
  BY Numbers
<1> QED
  BY <1>1, Zenon DEF Typed, HandlerTypeOK, SockTypeOK

LEMMA LabelTyped ==
    ASSUME Typed, NEW L \in SUBSET Labels, \E l \in L : pc' = [pc EXCEPT ![thread] = l]
    PROVE  pc' \in [Sock -> Labels]
BY Zenon DEF Typed

\* Nothing happens to the stream in a step that neither reads nor hands over.
LEMMA FlowKeeps ==
    ASSUME Typed, Flow, UNCHANGED <<inq, link, arrived, taken, delivered>>,
           IF pc[thread] \in Holding
           THEN pc'[thread] \in Holding /\ rcv'[thread].buff = rcv[thread].buff
           ELSE pc'[thread] \notin Holding,
           pc'[thread] \in {"start", "create", "created", "connect"} =>
             pc[thread] \in {"start", "create", "created", "connect"}
    PROVE  Flow'
BY DEF Flow

-----------------------------------------------------------------------------
(* The steps of Run.                                                        *)

\* What every step of Run does to the histories.
Histories ==
    /\ taken' = taken + (IF pc[thread] = "recv_read"
                         THEN Len(rcv'[thread].buff) - Len(rcv[thread].buff) ELSE 0)
    /\ delivered' = IF pc[thread] = "on_receive" THEN delivered \o rcv[thread].buff
                                                 ELSE delivered
    /\ UNCHANGED arrived

LEMMA NewSocketKeeps ==
    ASSUME HandlerInv, NewSocket, Histories
    PROVE  HandlerInv'
<1>0. Typed /\ Flow /\ Receiving /\ Sent /\ Values
  BY ValuesTyped DEF HandlerInv
<1>1. UNCHANGED <<m_iStatus, created, tries, rcv, snd, ret, inq, link, outq, arrived,
                  taken, delivered>>
  BY <1>0 DEF NewSocket, Histories, Values
<1>2. pc[thread] = "start" /\ pc'[thread] = "create"
  BY <1>0, Numbers DEF NewSocket, Typed
<1>3. Typed'
  <2>1. pc' \in [Sock -> Labels]
    BY <1>0, Numbers DEF NewSocket, Typed, HandlerTypeOK, SockTypeOK, Values, Labels
  <2> QED
    BY <1>0, <1>1, <2>1, Zenon DEF Typed, HandlerTypeOK, SockTypeOK
<1>4. Flow'
  BY <1>0, <1>1, <1>2, FlowKeeps DEF Holding
<1>5. Receiving'
  BY <1>0, <1>1, <1>2, Numbers DEF Values, Receiving, EndMatchesStatus
<1>6. Sent'
  BY <1>0, <1>1, <1>2, Numbers DEF Values, Sent
<1> QED
  BY <1>3, <1>4, <1>5, <1>6 DEF HandlerInv

LEMMA CreateKeeps ==
    ASSUME HandlerInv, Create(thread, "create", "created"), Histories
    PROVE  HandlerInv'
<1>0. Typed /\ Flow /\ Receiving /\ Sent /\ Values
  BY ValuesTyped DEF HandlerInv
<1>1. UNCHANGED <<tries, rcv, snd, inq, link, outq, arrived, taken, delivered>>
  BY <1>0 DEF Create, Histories, Values
<1>2. pc[thread] = "create" /\ pc'[thread] = "created"
  BY <1>0, Numbers DEF Create, Typed
<1>3. Typed'
  <2>1. created' \in [Sock -> BOOLEAN]
    BY <1>0, Numbers DEF Create, Typed, HandlerTypeOK, SockTypeOK, Values
  <2>2. m_iStatus' \in [Sock -> CONNECT_STATUS_T]
    BY <1>0, Numbers DEF Create, Typed, HandlerTypeOK, SockTypeOK, Values,
       CONNECT_STATUS_T
  <2>3. ret' \in [Sock -> 0 .. MinusOne]
    <3>1. \/ ret' = ret
          \/ \E r \in {0, 1, MinusOne} : ret' = [ret EXCEPT ![thread] = r]
      BY Zenon DEF Create
    <3>2. CASE ret' = ret
      BY <1>0, <3>2, Zenon DEF Typed, HandlerTypeOK, SockTypeOK
    <3> QED
      BY <1>0, <3>1, <3>2, ReturnTyped, Zenon
  <2>4. pc' \in [Sock -> Labels]
    BY <1>0, Numbers DEF Create, Typed, HandlerTypeOK, SockTypeOK, Values, Labels
  <2> QED
    BY <1>0, <1>1, <2>1, <2>2, <2>3, <2>4, Zenon DEF Typed, HandlerTypeOK, SockTypeOK
<1>4. Flow'
  BY <1>0, <1>1, <1>2, FlowKeeps DEF Holding
<1>5. Receiving'
  BY <1>0, <1>1, <1>2, Numbers DEF Values, Receiving, EndMatchesStatus
<1>6. Sent'
  BY <1>0, <1>1, <1>2, Numbers DEF Values, Sent
<1> QED
  BY <1>3, <1>4, <1>5, <1>6 DEF HandlerInv

LEMMA ConnectBeginKeeps ==
    ASSUME HandlerInv, ConnectBegin(thread, "created"), Histories
    PROVE  HandlerInv'
<1>0. Typed /\ Flow /\ Receiving /\ Sent /\ Values
  BY ValuesTyped DEF HandlerInv
<1>1. UNCHANGED <<created, rcv, snd, ret, inq, link, outq, arrived, taken, delivered>>
  BY <1>0 DEF ConnectBegin, Histories, Values
<1>2. pc[thread] = "created" /\ pc'[thread] = "connect"
  BY <1>0, Numbers DEF ConnectBegin, Typed
<1>3. Typed'
  <2>1. m_iStatus' \in [Sock -> CONNECT_STATUS_T]
    BY <1>0, Numbers DEF ConnectBegin, Typed, HandlerTypeOK, SockTypeOK, Values,
       CONNECT_STATUS_T
  <2>2. tries' \in [Sock -> Nat]
    BY <1>0, Numbers DEF ConnectBegin, Typed, HandlerTypeOK, SockTypeOK, Values
  <2>3. pc' \in [Sock -> Labels]
    BY <1>0, Numbers DEF ConnectBegin, Typed, HandlerTypeOK, SockTypeOK, Values, Labels
  <2> QED
    BY <1>0, <1>1, <2>1, <2>2, <2>3, Zenon DEF Typed, HandlerTypeOK, SockTypeOK
<1>4. Flow'
  BY <1>0, <1>1, <1>2, FlowKeeps DEF Holding
<1>5. Receiving'
  BY <1>0, <1>1, <1>2, Numbers DEF Values, Receiving, EndMatchesStatus
<1>6. Sent'
  BY <1>0, <1>1, <1>2, Numbers DEF Values, Sent
<1> QED
  BY <1>3, <1>4, <1>5, <1>6 DEF HandlerInv

LEMMA ConnectedKeeps ==
    ASSUME HandlerInv, Connected(thread), Histories
    PROVE  HandlerInv'
<1>0. Typed /\ Flow /\ Receiving /\ Sent /\ Values
  BY ValuesTyped DEF HandlerInv
<1>1. UNCHANGED <<created, tries, rcv, snd, inq, outq, arrived, taken, delivered>>
  BY <1>0 DEF Connected, Histories, Values
<1>2. pc[thread] = "connect" /\ pc'[thread] = "on_connect"
  BY <1>0, Numbers DEF Connected, Typed, HandlerTypeOK, SockTypeOK
<1>3. link'[thread] = "open"
  BY <1>0, Numbers DEF Connected, Typed, HandlerTypeOK, SockTypeOK
<1>4. Typed'
  <2>1. link' \in [Sock -> LinkStates]
    BY <1>0, Numbers DEF Connected, Typed, HandlerTypeOK, SockTypeOK, Values, LinkStates
  <2>2. m_iStatus' \in [Sock -> CONNECT_STATUS_T]
    BY <1>0, Numbers DEF Connected, Typed, HandlerTypeOK, SockTypeOK, Values,
       CONNECT_STATUS_T
  <2>3. ret' \in [Sock -> 0 .. MinusOne]
    BY <1>0, Numbers DEF Connected, Typed, HandlerTypeOK, SockTypeOK, Values
  <2>4. pc' \in [Sock -> Labels]
    BY <1>0, Numbers DEF Connected, Typed, HandlerTypeOK, SockTypeOK, Values, Labels
  <2> QED
    BY <1>0, <1>1, <2>1, <2>2, <2>3, <2>4, Zenon DEF Typed, HandlerTypeOK, SockTypeOK
<1>5. Flow'
  BY <1>0, <1>1, <1>2, <1>3 DEF Flow, Holding
<1>6. Receiving'
  BY <1>0, <1>1, <1>2, <1>3, Numbers DEF Values, Receiving, EndMatchesStatus
<1>7. Sent'
  BY <1>0, <1>1, <1>2, <1>3, Numbers DEF Values, Sent
<1> QED
  BY <1>4, <1>5, <1>6, <1>7 DEF HandlerInv

LEMMA ConnectFailedKeeps ==
    ASSUME HandlerInv, ConnectFailed(thread, Retries, "recv"), Histories
    PROVE  HandlerInv'
<1>0. Typed /\ Flow /\ Receiving /\ Sent /\ Values
  BY ValuesTyped DEF HandlerInv
<1>1. UNCHANGED <<created, rcv, snd, inq, link, outq, arrived, taken, delivered>>
  BY <1>0 DEF ConnectFailed, Histories, Values
<1>2. pc[thread] = "connect" /\ pc'[thread] \in {"connect", "recv"}
  BY <1>0, Numbers DEF ConnectFailed, Typed
<1>3. tries' = [tries EXCEPT ![thread] = @ + 1]
  BY Zenon DEF ConnectFailed
<1>4. Typed'
  <2>1. tries' \in [Sock -> Nat]
    <3>1. tries[thread] + 1 \in Nat
      BY <1>0 DEF Values
    <3>2. tries \in [Sock -> Nat]
      BY <1>0, Zenon DEF Typed, HandlerTypeOK, SockTypeOK
    <3> QED
      BY <1>3, <3>1, <3>2, Numbers, Zenon
  <2>2. m_iStatus' \in [Sock -> CONNECT_STATUS_T]
    BY <1>0, Numbers DEF ConnectFailed, Typed, HandlerTypeOK, SockTypeOK, Values,
       CONNECT_STATUS_T
  <2>3. ret' \in [Sock -> 0 .. MinusOne]
    <3>1. \/ ret' = ret
          \/ \E r \in {0, 1, MinusOne} : ret' = [ret EXCEPT ![thread] = r]
      BY Zenon DEF ConnectFailed
    <3>2. CASE ret' = ret
      BY <1>0, <3>2, Zenon DEF Typed, HandlerTypeOK, SockTypeOK
    <3> QED
      BY <1>0, <3>1, <3>2, ReturnTyped, Zenon
  <2>4. pc' \in [Sock -> Labels]
    <3>1. pc' = pc \/ \E l \in {"recv"} : pc' = [pc EXCEPT ![thread] = l]
      BY Zenon DEF ConnectFailed
    <3>2. {"recv"} \subseteq Labels
      BY DEF Labels
    <3>3. CASE pc' = pc
      BY <1>0, <3>3, Zenon DEF Typed
    <3> QED
      BY <1>0, <3>1, <3>2, <3>3, LabelTyped, Zenon
  <2> QED
    BY <1>0, <1>1, <2>1, <2>2, <2>3, <2>4, Zenon DEF Typed, HandlerTypeOK, SockTypeOK
<1>5. Flow'
  BY <1>0, <1>1, <1>2, <1>3, FlowKeeps DEF Holding
<1>6. Receiving'
  BY <1>0, <1>1, <1>2, <1>3, Numbers DEF Values, Receiving, EndMatchesStatus
<1>7. Sent'
  BY <1>0, <1>1, <1>2, <1>3, Numbers DEF Values, Sent
<1> QED
  BY <1>4, <1>5, <1>6, <1>7 DEF HandlerInv

LEMMA OnConnectKeeps ==
    ASSUME HandlerInv, OnConnect, Histories
    PROVE  HandlerInv'
<1>0. Typed /\ Flow /\ Receiving /\ Sent /\ Values
  BY ValuesTyped DEF HandlerInv
<1>1. UNCHANGED <<m_iStatus, created, tries, rcv, ret, inq, link, outq, arrived, taken,
                  delivered>>
  BY <1>0 DEF OnConnect, SendBegin, Histories, Values
<1>2. pc[thread] = "on_connect" /\ pc'[thread] = "send_beacon"
  BY <1>0, Numbers DEF OnConnect, SendBegin, Typed
<1>3. snd' = [snd EXCEPT ![thread] = [buff |-> Beacon, done |-> 0]]
  BY <1>0, Numbers DEF OnConnect, SendBegin, Typed
<1>4. snd'[thread] = [buff |-> Beacon, done |-> 0]
  BY <1>0, <1>3, Numbers DEF Typed, HandlerTypeOK, SockTypeOK
<1>5. Beacon \in Seq(Nat) /\ Len(Beacon) = 1
  BY DEF Beacon, Time
<1>6. Typed'
  <2>1. snd' \in [Sock -> [buff : Seq(Nat), done : 0 .. MinusOne]]
    BY <1>0, <1>3, <1>5, Numbers DEF Typed, HandlerTypeOK, SockTypeOK
  <2>2. pc' \in [Sock -> Labels]
    BY <1>0, Numbers DEF OnConnect, SendBegin, Typed, HandlerTypeOK, SockTypeOK, Values,
       Labels
  <2> QED
    BY <1>0, <1>1, <2>1, <2>2, Zenon DEF Typed, HandlerTypeOK, SockTypeOK
<1>7. Flow'
  BY <1>0, <1>1, <1>2, <1>3, <1>4, <1>5, FlowKeeps DEF Holding
<1>8. Receiving'
  BY <1>0, <1>1, <1>2, <1>3, <1>4, <1>5, Numbers DEF Values, Receiving, EndMatchesStatus
<1>9. Sent'
  <2>1. snd'[thread].buff = Beacon /\ snd'[thread].done = 0
    BY <1>4
  <2>2. Len(snd'[thread].buff) <= MaxBytes + 1
    <3>1. 1 <= MaxBytes + 1
      BY Numbers
    <3> QED
      BY <1>5, <2>1, <3>1, Zenon
  <2>3. snd'[thread].done <= Len(snd'[thread].buff)
    BY <1>5, <2>1
  <2> QED
    BY <2>2, <2>3, Zenon DEF Sent
<1> QED
  BY <1>6, <1>7, <1>8, <1>9 DEF HandlerInv

LEMMA SendSomeKeeps ==
    ASSUME HandlerInv, NEW at \in {"send_beacon", "send_echo"}, SendSome(thread, at),
           Histories
    PROVE  HandlerInv'
<1>0. Typed /\ Flow /\ Receiving /\ Sent /\ Values
  BY ValuesTyped DEF HandlerInv
<1>1. UNCHANGED <<m_iStatus, created, tries, rcv, ret, inq, link, pc, arrived, taken,
                  delivered>>
  <2>1. pc[thread] = at /\ UNCHANGED <<m_iStatus, created, tries, rcv, ret, inq, link, pc>>
    BY Zenon DEF SendSome
  <2> QED
    <3>1. pc[thread] # "recv_read" /\ pc[thread] # "on_receive"
      BY <2>1
    <3>2. taken' = taken + 0 /\ delivered' = delivered /\ arrived' = arrived
      BY <3>1, Zenon DEF Histories
    <3>3. taken + 0 = taken
      BY <1>0 DEF Values
    <3> QED
      BY <2>1, <3>2, <3>3, Zenon
<1>2. pc[thread] = at
  BY <1>0, Numbers DEF SendSome, Typed
<1>3. PICK count \in 1 .. Len(snd[thread].buff) - snd[thread].done :
        /\ outq' = [outq EXCEPT ![thread] = @ \o SubSeq(snd[thread].buff, 1, count)]
        /\ snd' = [snd EXCEPT ![thread].done = @ + count]
  <2>1. snd[thread].done < Len(snd[thread].buff)
    BY Zenon DEF SendSome, Sending
  <2>2. PICK count \in IF PartialSend THEN 1 .. Len(snd[thread].buff) - snd[thread].done
                        ELSE {Len(snd[thread].buff) - snd[thread].done} :
          /\ outq' = [outq EXCEPT ![thread] = @ \o SubSeq(snd[thread].buff, 1, count)]
          /\ snd' = [snd EXCEPT ![thread].done = @ + count]
    BY Zenon DEF SendSome
  <2>3. count \in 1 .. Len(snd[thread].buff) - snd[thread].done
    <3>1. Len(snd[thread].buff) - snd[thread].done \in 1 .. Len(snd[thread].buff)
      <4>1. \A a, d \in Nat : d < a => a - d \in 1 .. a
        OBVIOUS
      <4> QED
        BY <1>0, <2>1, <4>1, Sizes, Zenon
    <3>2. \A a \in Nat : \A r \in 1 .. a : r \in 1 .. r
      OBVIOUS
    <3>3. Len(snd[thread].buff) - snd[thread].done \in
            1 .. Len(snd[thread].buff) - snd[thread].done
      BY <1>0, <3>1, <3>2, Sizes, Zenon
    <3> QED
      BY <2>2, <3>3, Zenon
  <2> QED
    BY <2>2, <2>3, Zenon
<1>4. /\ snd'[thread].buff = snd[thread].buff
      /\ snd'[thread].done = snd[thread].done + count
  BY <1>0, <1>3, Numbers DEF Typed, HandlerTypeOK, SockTypeOK
<1>5. /\ snd[thread].done + count \in 0 .. MinusOne
      /\ SubSeq(snd[thread].buff, 1, count) \in Seq(Nat)
  <2>1. count \in 1 .. Len(snd[thread].buff) - snd[thread].done
    BY <1>3, Zenon
  <2>2. /\ Len(snd[thread].buff) <= MaxBytes + 1 /\ Len(snd[thread].buff) \in Nat
        /\ snd[thread].done \in Nat /\ snd[thread].buff \in Seq(Nat)
    <3>1. Len(snd[thread].buff) <= MaxBytes + 1
      BY <1>0, <1>2, Zenon DEF Sent
    <3> QED
      BY <1>0, <3>1, Sizes, Zenon
  <2>3. count \in 0 .. Len(snd[thread].buff) /\ snd[thread].done + count <= MaxBytes + 1
    <3>1. MaxBytes \in Nat
      BY Numbers
    <3>2. \A a, d, m \in Nat : a <= m + 1 =>
            \A c \in 1 .. a - d : c \in 0 .. a /\ d + c <= m + 1
      OBVIOUS
    <3> QED
      BY <2>1, <2>2, <3>1, <3>2, Zenon
  <2>4. snd[thread].done + count \in 0 .. MinusOne
    <3>1. count \in Nat /\ snd[thread].done + count \in Nat
      BY <2>2, <2>3
    <3>2. MaxBytes + 1 <= MinusOne /\ MaxBytes \in Nat /\ MinusOne \in Nat
      BY Numbers
    <3> QED
      BY <2>3, <3>1, <3>2
  <2> QED
    BY <2>2, <2>3, <2>4, Front
<1>6. Typed'
  <2>1. outq' \in [Sock -> Seq(Nat)]
    <3>1. outq[thread] \o SubSeq(snd[thread].buff, 1, count) \in Seq(Nat)
      BY <1>0, <1>5, ConcatKeeps DEF Values
    <3> QED
      BY <1>0, <1>3, <3>1 DEF Typed, HandlerTypeOK, SockTypeOK
  <2>2. snd' \in [Sock -> [buff : Seq(Nat), done : 0 .. MinusOne]]
    BY <1>0, <1>3, <1>5 DEF Typed, HandlerTypeOK, SockTypeOK
  <2> QED
    BY <1>0, <1>1, <2>1, <2>2, Zenon DEF Typed, HandlerTypeOK, SockTypeOK
<1>7. Flow'
  BY <1>0, <1>1, <1>2, <1>3, <1>4, <1>5, FlowKeeps DEF Holding
<1>8. Receiving'
  BY <1>0, <1>1, <1>2, <1>3, <1>4, <1>5, Numbers DEF Values, Receiving, EndMatchesStatus
<1>9. Sent'
  <2>1. Len(snd[thread].buff) <= MaxBytes + 1
    BY <1>0, <1>2, Zenon DEF Sent
  <2>2. snd[thread].done + count <= Len(snd[thread].buff)
    <3>1. \A a, d \in Nat : \A c \in 1 .. a - d : d + c <= a
      OBVIOUS
    <3> QED
      BY <1>0, <1>3, <3>1, Sizes, Zenon
  <2> QED
    BY <1>4, <2>1, <2>2, Zenon DEF Sent
<1> QED
  BY <1>6, <1>7, <1>8, <1>9 DEF HandlerInv

LEMMA SendFailsKeeps ==
    ASSUME HandlerInv, NEW at \in {"send_beacon", "send_echo"}, SendFails(thread, at),
           Histories
    PROVE  HandlerInv'
<1>0. Typed /\ Flow /\ Receiving /\ Sent /\ Values
  BY ValuesTyped DEF HandlerInv
<1>1. UNCHANGED <<m_iStatus, created, tries, rcv, ret, inq, link, outq, pc, arrived,
                  taken, delivered>>
  <2>1. /\ pc[thread] = at
        /\ UNCHANGED <<m_iStatus, created, tries, rcv, ret, inq, link, outq, pc>>
    BY Zenon DEF SendFails
  <2>2. pc[thread] # "recv_read" /\ pc[thread] # "on_receive"
    BY <2>1
  <2>3. taken' = taken + 0 /\ delivered' = delivered /\ arrived' = arrived
    BY <2>2, Zenon DEF Histories
  <2>4. taken + 0 = taken
    BY <1>0 DEF Values
  <2> QED
    BY <2>1, <2>3, <2>4, Zenon
<1>2. pc[thread] = at
  BY <1>0, Numbers DEF SendFails, Typed
<1>3. snd[thread].done < Len(snd[thread].buff)
  BY DEF SendFails, Sending
<1>4. (snd[thread].done + MinusOne) % SizeMod =
        IF snd[thread].done = 0 THEN MinusOne ELSE snd[thread].done - 1
  BY <1>0, SizeOfFailure DEF Values
<1>5. snd' = [snd EXCEPT ![thread].done =
        IF snd[thread].done = 0 THEN MinusOne ELSE snd[thread].done - 1]
  BY <1>4 DEF SendFails
<1>6. /\ snd'[thread].buff = snd[thread].buff
      /\ snd'[thread].done = IF snd[thread].done = 0 THEN MinusOne ELSE snd[thread].done - 1
  BY <1>0, <1>5, Numbers DEF Typed, HandlerTypeOK, SockTypeOK
<1>7. (IF snd[thread].done = 0 THEN MinusOne ELSE snd[thread].done - 1) \in 0 .. MinusOne
  <2>1. snd[thread].done \in 0 .. MinusOne /\ MinusOne \in Nat
    BY <1>0, Numbers, Zenon DEF Values
  <2> QED
    BY <2>1
<1>8. Typed'
  <2>1. snd' \in [Sock -> [buff : Seq(Nat), done : 0 .. MinusOne]]
    <3>1. snd \in [Sock -> [buff : Seq(Nat), done : 0 .. MinusOne]]
      BY <1>0, Zenon DEF Typed, HandlerTypeOK, SockTypeOK
    <3> DEFINE failed == IF snd[thread].done = 0 THEN MinusOne ELSE snd[thread].done - 1
    <3>2. failed \in 0 .. MinusOne /\ snd' = [snd EXCEPT ![thread].done = failed]
      BY <1>5, <1>7, Zenon
    <3> HIDE DEF failed
    <3> QED
      BY <3>1, <3>2
  <2> QED
    BY <1>0, <1>1, <2>1, Zenon DEF Typed, HandlerTypeOK, SockTypeOK
<1>9. Flow'
  BY <1>0, <1>1, <1>2, <1>3, <1>4, <1>5, <1>6, <1>7, FlowKeeps DEF Holding
<1>10. Receiving'
  BY <1>0, <1>1, <1>2, <1>3, <1>4, <1>5, <1>6, <1>7, Numbers DEF Values, Receiving,
     EndMatchesStatus
<1>11. Sent'
  <2>1. Len(snd[thread].buff) <= MaxBytes + 1
    BY <1>0, <1>2, Zenon DEF Sent
  <2>2. \/ snd'[thread].done = MinusOne
        \/ snd'[thread].done <= Len(snd[thread].buff)
    <3>1. CASE snd[thread].done = 0
      BY <1>6, <3>1, Zenon
    <3>2. CASE snd[thread].done # 0
      <4>1. snd[thread].done - 1 <= Len(snd[thread].buff)
        BY <1>0, <1>3, <3>2, Sizes
      <4> QED
        BY <1>6, <3>2, <4>1, Zenon
    <3> QED
      BY <3>1, <3>2
  <2> QED
    BY <1>6, <2>1, <2>2, Zenon DEF Sent
<1> QED
  BY <1>8, <1>9, <1>10, <1>11 DEF HandlerInv

LEMMA SendReturnKeeps ==
    ASSUME HandlerInv, NEW at \in {"send_beacon", "send_echo"},
           NEW to \in {"recv", "received"},
           at = "send_beacon" <=> to = "recv", SendReturn(thread, at, to), Histories
    PROVE  HandlerInv'
<1>0. Typed /\ Flow /\ Receiving /\ Sent /\ Values
  BY ValuesTyped DEF HandlerInv
<1>1. UNCHANGED <<m_iStatus, created, tries, rcv, inq, link, outq, arrived, taken,
                  delivered>>
  BY <1>0 DEF SendReturn, Histories, Values
<1>2. pc[thread] = at /\ pc'[thread] = to
  BY <1>0, Numbers DEF SendReturn, Typed
<1>3. snd' = [snd EXCEPT ![thread] = [buff |-> NoBytes, done |-> 0]]
  BY DEF SendReturn
<1>4. Typed'
  <2>1. ret' \in [Sock -> 0 .. MinusOne]
    BY <1>0, Numbers DEF SendReturn, Typed, HandlerTypeOK, SockTypeOK, Values
  <2>2. snd' \in [Sock -> [buff : Seq(Nat), done : 0 .. MinusOne]]
    BY <1>0, <1>3, Numbers DEF Typed, HandlerTypeOK, SockTypeOK
  <2>3. pc' \in [Sock -> Labels]
    BY <1>0, Numbers DEF SendReturn, Typed, HandlerTypeOK, SockTypeOK, Values, Labels
  <2> QED
    BY <1>0, <1>1, <2>1, <2>2, <2>3, Zenon DEF Typed, HandlerTypeOK, SockTypeOK
<1>5. Flow'
  BY <1>0, <1>1, <1>2, <1>3, FlowKeeps DEF Holding
<1>6. Receiving'
  BY <1>0, <1>1, <1>2, <1>3, Numbers DEF Values, Receiving, EndMatchesStatus
<1>7. Sent'
  BY <1>0, <1>1, <1>2, <1>3, Numbers DEF Values, Sent
<1> QED
  BY <1>4, <1>5, <1>6, <1>7 DEF HandlerInv

LEMMA RecvCheckKeeps ==
    ASSUME HandlerInv, RecvCheck(thread, "loop"), Histories
    PROVE  HandlerInv'
<1>0. Typed /\ Flow /\ Receiving /\ Sent /\ Values
  BY ValuesTyped DEF HandlerInv
<1>1. UNCHANGED <<m_iStatus, created, tries, rcv, snd, inq, link, outq, arrived, taken,
                  delivered>>
  BY <1>0 DEF RecvCheck, Histories, Values
<1>2. /\ pc[thread] = "recv"
      /\ \/ m_iStatus[thread] = "CONNECTED" /\ pc'[thread] = "recv_select"
         \/ /\ m_iStatus[thread] # "CONNECTED" /\ pc'[thread] = "loop"
            /\ ret'[thread] = MinusOne
  BY <1>0, Numbers DEF RecvCheck, Typed, HandlerTypeOK, SockTypeOK
<1>3. Typed'
  <2>1. ret' \in [Sock -> 0 .. MinusOne]
    <3>1. \/ ret' = ret
          \/ \E r \in {0, 1, MinusOne} : ret' = [ret EXCEPT ![thread] = r]
      BY Zenon DEF RecvCheck
    <3>2. CASE ret' = ret
      BY <1>0, <3>2, Zenon DEF Typed, HandlerTypeOK, SockTypeOK
    <3> QED
      BY <1>0, <3>1, <3>2, ReturnTyped, Zenon
  <2>2. pc' \in [Sock -> Labels]
    <3>1. \E l \in {"recv_select", "loop"} : pc' = [pc EXCEPT ![thread] = l]
      BY Zenon DEF RecvCheck
    <3>2. {"recv_select", "loop"} \subseteq Labels
      BY DEF Labels
    <3> QED
      BY <1>0, <3>1, <3>2, LabelTyped, Zenon
  <2> QED
    BY <1>0, <1>1, <2>1, <2>2, Zenon DEF Typed, HandlerTypeOK, SockTypeOK
<1>4. Flow'
  BY <1>0, <1>1, <1>2, FlowKeeps DEF Holding
<1>5. Receiving'
  BY <1>0, <1>1, <1>2, Numbers DEF Values, Receiving, EndMatchesStatus
<1>6. Sent'
  BY <1>0, <1>1, <1>2, Numbers DEF Values, Sent
<1> QED
  BY <1>3, <1>4, <1>5, <1>6 DEF HandlerInv

LEMMA RecvSelectKeeps ==
    ASSUME HandlerInv, RecvSelect(thread, "loop"), Histories
    PROVE  HandlerInv'
<1>0. Typed /\ Flow /\ Receiving /\ Sent /\ Values
  BY ValuesTyped DEF HandlerInv
<1>1. UNCHANGED <<created, tries, rcv, snd, inq, link, outq, arrived, taken, delivered>>
  BY <1>0 DEF RecvSelect, RecvFailed, Histories, Values
<1>2. /\ pc[thread] = "recv_select"
      /\ \/ pc'[thread] = "recv_len" /\ m_iStatus'[thread] = m_iStatus[thread]
         \/ /\ pc'[thread] = "loop" /\ ret'[thread] = MinusOne
            /\ m_iStatus'[thread] = "RECV_FAILED"
  BY <1>0, Numbers DEF RecvSelect, RecvFailed, Typed, HandlerTypeOK, SockTypeOK
<1>3. Typed'
  <2>1. m_iStatus' \in [Sock -> CONNECT_STATUS_T]
    BY <1>0, Numbers DEF RecvSelect, RecvFailed, Typed, HandlerTypeOK, SockTypeOK,
       Values, CONNECT_STATUS_T
  <2>2. ret' \in [Sock -> 0 .. MinusOne]
    <3>1. \/ ret' = ret
          \/ \E r \in {0, 1, MinusOne} : ret' = [ret EXCEPT ![thread] = r]
      BY Zenon DEF RecvSelect, RecvFailed
    <3>2. CASE ret' = ret
      BY <1>0, <3>2, Zenon DEF Typed, HandlerTypeOK, SockTypeOK
    <3> QED
      BY <1>0, <3>1, <3>2, ReturnTyped, Zenon
  <2>3. pc' \in [Sock -> Labels]
    <3>1. \E l \in {"recv_len", "loop"} : pc' = [pc EXCEPT ![thread] = l]
      BY Zenon DEF RecvSelect, RecvFailed
    <3>2. {"recv_len", "loop"} \subseteq Labels
      BY DEF Labels
    <3> QED
      BY <1>0, <3>1, <3>2, LabelTyped, Zenon
  <2> QED
    BY <1>0, <1>1, <2>1, <2>2, <2>3, Zenon DEF Typed, HandlerTypeOK, SockTypeOK
<1>4. Flow'
  BY <1>0, <1>1, <1>2, FlowKeeps DEF Holding
<1>5. Receiving'
  BY <1>0, <1>1, <1>2, Numbers DEF Values, Receiving, EndMatchesStatus
<1>6. Sent'
  BY <1>0, <1>1, <1>2, Numbers DEF Values, Sent
<1> QED
  BY <1>3, <1>4, <1>5, <1>6 DEF HandlerInv

LEMMA RecvLenKeeps ==
    ASSUME HandlerInv, RecvLen(thread, "loop"), Histories
    PROVE  HandlerInv'
<1>0. Typed /\ Flow /\ Receiving /\ Sent /\ Values
  BY ValuesTyped DEF HandlerInv
<1>1. UNCHANGED <<created, tries, snd, inq, link, outq, arrived, taken, delivered>>
  BY <1>0 DEF RecvLen, RecvFailed, Histories, Values
<1>2. RecveiveAvailable(thread) \in 0 .. MaxBytes
  <2>1. Len(inq[thread]) <= MaxBytes
    <3>1. arrived - taken \in Nat /\ taken \in Nat /\ arrived <= MaxBytes
      BY <1>0, Numbers DEF Values
    <3>2. Len(inq[thread]) = 0 \/ Len(inq[thread]) = arrived - taken
      BY <1>0, <3>1, BytesAre DEF Flow
    <3> QED
      BY <1>0, <3>1, <3>2, Numbers DEF Values
  <2> QED
    BY <1>0, <2>1, Numbers DEF Values, RecveiveAvailable
<1>3. /\ pc[thread] = "recv_len"
      /\ \/ /\ pc'[thread] = "loop" /\ ret'[thread] = MinusOne /\ rcv' = rcv
            /\ m_iStatus'[thread] = "RECV_FAILED"
         \/ /\ pc'[thread] = "recv_read" /\ UNCHANGED m_iStatus
            /\ rcv' = [rcv EXCEPT ![thread] =
                         [buff |-> NoBytes, done |-> 0, len |-> RecveiveAvailable(thread)]]
  BY <1>0, Numbers DEF RecvLen, RecvFailed, Typed, HandlerTypeOK, SockTypeOK
<1>4. pc'[thread] = "recv_read" =>
        rcv'[thread] = [buff |-> NoBytes, done |-> 0, len |-> RecveiveAvailable(thread)]
  BY <1>0, <1>3, Numbers DEF Typed, HandlerTypeOK, SockTypeOK
<1>5. Typed'
  <2>1. m_iStatus' \in [Sock -> CONNECT_STATUS_T]
    BY <1>0, Numbers DEF RecvLen, RecvFailed, Typed, HandlerTypeOK, SockTypeOK, Values,
       CONNECT_STATUS_T
  <2>2. rcv' \in [Sock -> [buff : Seq(Nat), done : 0 .. MinusOne, len : Nat]]
    <3>1. [buff |-> NoBytes, done |-> 0, len |-> RecveiveAvailable(thread)] \in
            [buff : Seq(Nat), done : 0 .. MinusOne, len : Nat]
      BY <1>2, Numbers
    <3>2. rcv \in [Sock -> [buff : Seq(Nat), done : 0 .. MinusOne, len : Nat]]
      BY <1>0 DEF Typed, HandlerTypeOK, SockTypeOK
    <3> QED
      BY <1>3, <3>1, <3>2, Zenon
  <2>3. ret' \in [Sock -> 0 .. MinusOne]
    <3>1. \/ ret' = ret
          \/ \E r \in {0, 1, MinusOne} : ret' = [ret EXCEPT ![thread] = r]
      BY Zenon DEF RecvLen, RecvFailed
    <3>2. CASE ret' = ret
      BY <1>0, <3>2, Zenon DEF Typed, HandlerTypeOK, SockTypeOK
    <3> QED
      BY <1>0, <3>1, <3>2, ReturnTyped, Zenon
  <2>4. pc' \in [Sock -> Labels]
    <3>1. \E l \in {"recv_read", "loop"} : pc' = [pc EXCEPT ![thread] = l]
      BY Zenon DEF RecvLen, RecvFailed
    <3>2. {"recv_read", "loop"} \subseteq Labels
      BY DEF Labels
    <3> QED
      BY <1>0, <3>1, <3>2, LabelTyped, Zenon
  <2> QED
    BY <1>0, <1>1, <2>1, <2>2, <2>3, <2>4, Zenon DEF Typed, HandlerTypeOK, SockTypeOK
<1>6. Flow'
  <2>1. delivered \in Seq(Nat) /\ delivered = Bytes(0, taken)
    BY <1>0, <1>3 DEF Flow, Holding, Values
  <2> QED
    BY <1>0, <1>1, <1>3, <1>4, <2>1 DEF Flow, Holding
<1>7. Receiving'
  <2>1. CASE pc'[thread] = "loop"
    BY <1>0, <1>3, <2>1 DEF Receiving, EndMatchesStatus
  <2>2. CASE pc'[thread] = "recv_read"
    <3>1. m_iStatus'[thread] = "CONNECTED"
      BY <1>0, <1>3, <2>2 DEF Receiving
    <3>2. rcv'[thread].done = 0 /\ rcv'[thread].len \in 0 .. MaxBytes
      BY <1>2, <1>4, <2>2
    <3> QED
      BY <2>2, <3>1, <3>2, Numbers DEF Receiving, EndMatchesStatus
  <2> QED
    BY <1>3, <2>1, <2>2
<1>8. Sent'
  BY <1>0, <1>1, <1>2, <1>3, <1>4, Numbers DEF Values, Sent
<1> QED
  BY <1>5, <1>6, <1>7, <1>8 DEF HandlerInv

LEMMA RecvFailsKeeps ==
    ASSUME HandlerInv, RecvRead(thread), link[thread] = "reset", Histories
    PROVE  HandlerInv'
<1>0. Typed /\ Flow /\ Receiving /\ Sent /\ Values
  BY ValuesTyped DEF HandlerInv
<1>1. UNCHANGED <<created, tries, snd, ret, inq, link, outq, arrived, taken, delivered>>
  <2>1. /\ pc[thread] = "recv_read" /\ rcv' = [rcv EXCEPT ![thread].done = MinusOne]
        /\ UNCHANGED <<created, tries, snd, ret, inq, link, outq>>
    BY DEF RecvRead
  <2>2. rcv'[thread].buff = rcv[thread].buff
    BY <1>0, <2>1, Numbers DEF Typed, HandlerTypeOK, SockTypeOK
  <2>3. taken' = taken /\ delivered' = delivered /\ arrived' = arrived
    BY <1>0, <2>1, <2>2 DEF Histories, Values
  <2> QED
    BY <2>1, <2>3
<1>2. pc[thread] = "recv_read" /\ pc'[thread] = "recv_deliver"
  BY <1>0, Numbers DEF RecvRead, Typed, HandlerTypeOK, SockTypeOK
<1>3. m_iStatus'[thread] = "RECV_FAILED"
  BY <1>0, Numbers DEF RecvRead, Typed, HandlerTypeOK, SockTypeOK
<1>4. rcv' = [rcv EXCEPT ![thread].done = MinusOne]
  BY DEF RecvRead
<1>5. rcv'[thread].done = MinusOne /\ rcv'[thread].buff = rcv[thread].buff
  BY <1>0, <1>4, Numbers DEF Typed, HandlerTypeOK, SockTypeOK
<1>6. Typed'
  <2>1. m_iStatus' \in [Sock -> CONNECT_STATUS_T]
    <3>1. m_iStatus' = [m_iStatus EXCEPT ![thread] = "RECV_FAILED"]
      BY DEF RecvRead
    <3> QED
      BY <1>0, <3>1 DEF Typed, HandlerTypeOK, SockTypeOK, CONNECT_STATUS_T
  <2>2. rcv' \in [Sock -> [buff : Seq(Nat), done : 0 .. MinusOne, len : Nat]]
    <3>1. MinusOne \in 0 .. MinusOne
      BY Numbers
    <3>2. rcv \in [Sock -> [buff : Seq(Nat), done : 0 .. MinusOne, len : Nat]]
      BY <1>0, Zenon DEF Typed, HandlerTypeOK, SockTypeOK
    <3> QED
      BY <1>4, <3>1, <3>2
  <2>3. pc' \in [Sock -> Labels]
    <3>1. \E l \in {"recv_deliver"} : pc' = [pc EXCEPT ![thread] = l]
      BY Zenon DEF RecvRead
    <3>2. {"recv_deliver"} \subseteq Labels
      BY DEF Labels
    <3> QED
      BY <1>0, <3>1, <3>2, LabelTyped, Zenon
  <2> QED
    BY <1>0, <1>1, <2>1, <2>2, <2>3, Zenon DEF Typed, HandlerTypeOK, SockTypeOK
<1>7. Flow'
  BY <1>0, <1>1, <1>2, <1>3, <1>4, <1>5, FlowKeeps DEF Holding
<1>8. Receiving'
  BY <1>0, <1>1, <1>2, <1>3, <1>4, <1>5, Numbers DEF Values, Receiving, EndMatchesStatus
<1>9. Sent'
  BY <1>0, <1>1, <1>2, <1>3, <1>4, <1>5, Numbers DEF Values, Sent
<1> QED
  BY <1>6, <1>7, <1>8, <1>9 DEF HandlerInv

LEMMA RecvReadsKeeps ==
    ASSUME HandlerInv, RecvRead(thread), link[thread] # "reset", Histories
    PROVE  HandlerInv'
<1>0. Typed /\ Flow /\ Receiving /\ Sent /\ Values
  BY ValuesTyped DEF HandlerInv
<1>1. UNCHANGED <<m_iStatus, created, tries, snd, ret, link, outq, arrived, delivered>>
  <2>1. /\ pc[thread] = "recv_read"
        /\ UNCHANGED <<m_iStatus, created, tries, snd, ret, link, outq>>
    BY DEF RecvRead
  <2> QED
    BY <2>1 DEF Histories
<1>2. pc[thread] = "recv_read" /\ pc'[thread] = "recv_more"
  BY <1>0, Numbers DEF RecvRead, Typed
<1>3. PICK count \in 1 .. Len(inq[thread]) :
        /\ count <= rcv[thread].len - rcv[thread].done
        /\ rcv' = [rcv EXCEPT ![thread].buff = @ \o SubSeq(inq[thread], 1, count),
                              ![thread].done = @ + count]
        /\ inq' = [inq EXCEPT ![thread] = SubSeq(@, count + 1, Len(@))]
  BY Zenon DEF RecvRead
<1>4. /\ rcv'[thread].buff = rcv[thread].buff \o SubSeq(inq[thread], 1, count)
      /\ rcv'[thread].done = rcv[thread].done + count
      /\ rcv'[thread].len = rcv[thread].len
      /\ inq'[thread] = SubSeq(inq[thread], count + 1, Len(inq[thread]))
  <2>1. /\ rcv \in [Sock -> [buff : Seq(Nat), done : 0 .. MinusOne, len : Nat]]
        /\ inq \in [Sock -> Seq(Nat)] /\ thread \in Sock
    BY <1>0, Numbers, Zenon DEF Typed, HandlerTypeOK, SockTypeOK
  <2>2. inq'[thread] = SubSeq(inq[thread], count + 1, Len(inq[thread]))
    BY <1>3, <2>1, Zenon
  <2> QED
    BY <1>3, <2>1, <2>2
<1>5. PICK more \in Nat : /\ arrived = taken + more /\ taken \in Nat
                         /\ inq[thread] = Bytes(taken, more) /\ Len(inq[thread]) = more
  <2>1. arrived - taken \in Nat /\ taken \in Nat /\ arrived = taken + (arrived - taken)
    BY <1>0, Numbers DEF Values
  <2>2. inq[thread] = Bytes(taken, arrived - taken)
    BY <1>0 DEF Flow
  <2>3. Len(inq[thread]) = arrived - taken
    BY <2>1, <2>2, BytesAre
  <2> QED
    BY <2>1, <2>2, <2>3
<1>6. count \in 1 .. more /\ count <= rcv[thread].len - rcv[thread].done
  BY <1>3, <1>5, Zenon
<1>7. /\ rcv'[thread].buff \in Seq(Nat) /\ inq'[thread] \in Seq(Nat)
      /\ Len(rcv'[thread].buff) = Len(rcv[thread].buff) + count
      /\ delivered \o rcv'[thread].buff = Bytes(0, taken + count)
      /\ inq'[thread] = Bytes(taken + count, more - count)
  <2>1. delivered \o rcv[thread].buff = Bytes(0, taken)
    BY <1>0, <1>2 DEF Flow, Holding
  <2>2. delivered \in Seq(Nat) /\ rcv[thread].buff \in Seq(Nat)
    BY <1>0 DEF Values
  <2>3. /\ rcv[thread].buff \o SubSeq(Bytes(taken, more), 1, count) \in Seq(Nat)
        /\ Len(rcv[thread].buff \o SubSeq(Bytes(taken, more), 1, count)) =
             Len(rcv[thread].buff) + count
        /\ delivered \o rcv[thread].buff = Bytes(0, taken) =>
             delivered \o (rcv[thread].buff \o SubSeq(Bytes(taken, more), 1, count)) =
               Bytes(0, taken + count)
        /\ SubSeq(Bytes(taken, more), count + 1, more) = Bytes(taken + count, more - count)
        /\ SubSeq(Bytes(taken, more), count + 1, more) \in Seq(Nat)
    <3>1. taken \in Nat /\ count \in 1 .. more
      BY <1>5, <1>6, Zenon
    <3> QED
      BY <2>2, <3>1, Reading, Zenon
  <2> QED
    BY <1>4, <1>5, <2>1, <2>3, Zenon
<1>8. taken' = taken + count
  <2>1. Len(rcv[thread].buff) \in Nat /\ count \in Nat
    <3>1. rcv[thread].buff \in Seq(Nat)
      BY <1>0, Zenon DEF Values
    <3> QED
      BY <1>6, <3>1
  <2>2. Len(rcv'[thread].buff) - Len(rcv[thread].buff) = count
    BY <1>7, <2>1
  <2> QED
    BY <1>2, <2>2, Zenon DEF Histories
<1>9. rcv'[thread].done \in 0 .. rcv[thread].len /\ rcv[thread].len <= MaxBytes
  <2>1. /\ rcv[thread].len \in Nat /\ rcv[thread].done \in Nat /\ count \in Nat
        /\ rcv[thread].len <= MaxBytes
    BY <1>0, <1>2, <1>6, Numbers DEF Values, Receiving
  <2> QED
    <3>1. \A d, l, c \in Nat : c <= l - d => d + c \in 0 .. l
      OBVIOUS
    <3> QED
      BY <1>4, <1>6, <2>1, <3>1, Zenon
<1>10. Typed'
  <2>1. rcv' \in [Sock -> [buff : Seq(Nat), done : 0 .. MinusOne, len : Nat]]
    <3>1. rcv'[thread].done \in 0 .. MinusOne
      <4>1. \A d, l, m, k \in Nat : d <= l /\ l <= m /\ m + 1 <= k => d \in 0 .. k
        OBVIOUS
      <4>2. rcv'[thread].done \in Nat /\ rcv'[thread].done <= rcv[thread].len
        BY <1>0, <1>9, Sizes
      <4> QED
        BY <1>0, <1>9, <4>1, <4>2, Sizes, Zenon
    <3> QED
      BY <1>0, <1>3, <1>4, <1>7, <3>1 DEF Typed, HandlerTypeOK, SockTypeOK
  <2>2. inq' \in [Sock -> Seq(Nat)]
    BY <1>0, <1>3, <1>4, <1>7 DEF Typed, HandlerTypeOK, SockTypeOK
  <2>3. pc' \in [Sock -> Labels]
    <3>1. \E l \in {"recv_more"} : pc' = [pc EXCEPT ![thread] = l]
      BY Zenon DEF RecvRead
    <3>2. {"recv_more"} \subseteq Labels
      BY DEF Labels
    <3> QED
      BY <1>0, <3>1, <3>2, LabelTyped, Zenon
  <2>4. taken' \in 0 .. arrived'
    <3>1. taken + count \in 0 .. taken + more
      BY <1>5, <1>6
    <3> QED
      BY <1>1, <1>5, <1>8, <3>1
  <2> QED
    BY <1>0, <1>1, <2>1, <2>2, <2>3, <2>4, ZenonT(30) DEF Typed, HandlerTypeOK, SockTypeOK
<1>11. Flow'
  <2>1. more - count = arrived' - taken'
    BY <1>1, <1>5, <1>6, <1>8
  <2>2. inq'[thread] = Bytes(taken', arrived' - taken')
    BY <1>7, <1>8, <2>1
  <2>3. delivered' \o rcv'[thread].buff = Bytes(0, taken')
    BY <1>1, <1>7, <1>8
  <2> QED
    BY <1>0, <1>1, <1>2, <2>2, <2>3 DEF Flow, Holding
<1>12. Receiving'
  BY <1>0, <1>1, <1>2, <1>4, <1>9, Numbers DEF Values, Receiving, EndMatchesStatus
<1>13. Sent'
  BY <1>2 DEF Sent
<1> QED
  BY <1>10, <1>11, <1>12, <1>13 DEF HandlerInv

LEMMA RecvMoreKeeps ==
    ASSUME HandlerInv, RecvMore(thread), Histories
    PROVE  HandlerInv'
<1>0. Typed /\ Flow /\ Receiving /\ Sent /\ Values
  BY ValuesTyped DEF HandlerInv
<1>1. UNCHANGED <<m_iStatus, created, tries, rcv, snd, ret, inq, link, outq, arrived,
                  taken, delivered>>
  BY <1>0 DEF RecvMore, Histories, Values
<1>2. /\ pc[thread] = "recv_more" /\ pc'[thread] \in {"recv_read", "recv_deliver"}
  BY <1>0, Numbers DEF RecvMore, Typed
<1>3. Typed'
  <2>1. pc' \in [Sock -> Labels]
    <3>1. \E l \in {"recv_read", "recv_deliver"} : pc' = [pc EXCEPT ![thread] = l]
      BY Zenon DEF RecvMore
    <3>2. {"recv_read", "recv_deliver"} \subseteq Labels
      BY DEF Labels
    <3> QED
      BY <1>0, <3>1, <3>2, LabelTyped, Zenon
  <2> QED
    BY <1>0, <1>1, <2>1, Zenon DEF Typed, HandlerTypeOK, SockTypeOK
<1>4. Flow'
  BY <1>0, <1>1, <1>2, FlowKeeps DEF Holding
<1>5. Receiving'
  BY <1>0, <1>1, <1>2, Numbers, SMTT(30)
     DEF Values, Receiving, EndMatchesStatus
<1>6. Sent'
  BY <1>0, <1>1, <1>2, Numbers DEF Values, Sent
<1> QED
  BY <1>3, <1>4, <1>5, <1>6 DEF HandlerInv

LEMMA RecvDeliverKeeps ==
    ASSUME HandlerInv, RecvDeliver(thread), Histories
    PROVE  HandlerInv'
<1>0. Typed /\ Flow /\ Receiving /\ Sent /\ Values
  BY ValuesTyped DEF HandlerInv
<1>1. UNCHANGED <<m_iStatus, created, tries, rcv, snd, ret, inq, link, outq, arrived,
                  taken, delivered>>
  BY <1>0 DEF RecvDeliver, Histories, Values
<1>2. pc[thread] = "recv_deliver" /\ pc'[thread] = "on_receive"
  BY <1>0, Numbers DEF RecvDeliver, Typed
<1>3. Typed'
  <2>1. pc' \in [Sock -> Labels]
    BY <1>0, Numbers DEF RecvDeliver, Typed, HandlerTypeOK, SockTypeOK, Values, Labels
  <2> QED
    BY <1>0, <1>1, <2>1, Zenon DEF Typed, HandlerTypeOK, SockTypeOK
<1>4. Flow'
  BY <1>0, <1>1, <1>2, FlowKeeps DEF Holding
<1>5. Receiving'
  BY <1>0, <1>1, <1>2, Numbers DEF Values, Receiving, EndMatchesStatus
<1>6. Sent'
  BY <1>0, <1>1, <1>2, Numbers DEF Values, Sent
<1> QED
  BY <1>3, <1>4, <1>5, <1>6 DEF HandlerInv

LEMMA OnReceiveKeeps ==
    ASSUME HandlerInv, OnReceive, Histories
    PROVE  HandlerInv'
<1>0. Typed /\ Flow /\ Receiving /\ Sent /\ Values
  BY ValuesTyped DEF HandlerInv
<1>1. UNCHANGED <<m_iStatus, created, tries, rcv, ret, inq, link, outq, arrived, taken>>
  BY <1>0 DEF OnReceive, SendBegin, Histories, Values
<1>2. pc[thread] = "on_receive" /\ pc'[thread] = "send_echo"
  BY <1>0, Numbers DEF OnReceive, SendBegin, Typed
<1>3. delivered' = delivered \o rcv[thread].buff
  BY <1>2 DEF Histories
<1>4. delivered' = Bytes(0, taken)
  BY <1>0, <1>2, <1>3 DEF Flow, Holding
<1>5. Len(rcv[thread].buff) <= MaxBytes
  <2>1. Len(delivered \o rcv[thread].buff) = taken
    BY <1>0, <1>3, <1>4, BytesAre, Numbers DEF Values
  <2>2. Len(delivered) + Len(rcv[thread].buff) = taken
    BY <1>0, <2>1, ConcatKeeps DEF Values
  <2> QED
    BY <1>0, <2>2, Numbers DEF Values
<1>6. /\ snd' = [snd EXCEPT ![thread] = [buff |-> <<Time>> \o rcv[thread].buff, done |-> 0]]
      /\ <<Time>> \o rcv[thread].buff \in Seq(Nat)
      /\ Len(<<Time>> \o rcv[thread].buff) = Len(rcv[thread].buff) + 1
  <2>1. <<Time>> \in Seq(Nat) /\ Len(<<Time>>) = 1
    BY DEF Time
  <2> QED
    BY <1>0, <2>1, ConcatKeeps DEF OnReceive, SendBegin, Values
<1>7. snd'[thread] = [buff |-> <<Time>> \o rcv[thread].buff, done |-> 0]
  BY <1>0, <1>6, Numbers DEF Typed, HandlerTypeOK, SockTypeOK
<1>8. <<Time>> \o rcv[thread].buff = snd'[thread].buff /\ snd'[thread].done = 0
  BY <1>7
<1>9. Typed'
  <2>1. snd' \in [Sock -> [buff : Seq(Nat), done : 0 .. MinusOne]]
    BY <1>0, <1>6, Numbers DEF Typed, HandlerTypeOK, SockTypeOK
  <2>2. pc' \in [Sock -> Labels]
    BY <1>0, Numbers DEF OnReceive, SendBegin, Typed, HandlerTypeOK, SockTypeOK, Values,
       Labels
  <2>3. delivered' \in Seq(Nat)
    BY <1>0, <1>3, ConcatKeeps DEF Values
  <2> QED
    BY <1>0, <1>1, <2>1, <2>2, <2>3, Zenon DEF Typed, HandlerTypeOK, SockTypeOK
<1>10. Flow'
  <2>1. delivered' \o NoBytes = delivered'
    BY <1>0, <1>3, ConcatKeeps DEF Values
  <2> QED
    BY <1>0, <1>1, <1>2, <1>4, <2>1 DEF Flow, Holding
<1>11. Receiving'
  BY <1>0, <1>1, <1>2, <1>3, <1>4, <1>5, <1>6, <1>7, <1>8, Numbers
     DEF Values, Receiving, EndMatchesStatus
<1>12. Sent'
  <2>1. Len(snd'[thread].buff) = Len(rcv[thread].buff) + 1
    BY <1>6, <1>8
  <2>2. Len(rcv[thread].buff) \in Nat
    BY <1>0 DEF Values
  <2>3. /\ Len(snd'[thread].buff) <= MaxBytes + 1
        /\ snd'[thread].done <= Len(snd'[thread].buff)
    BY <1>5, <1>8, <2>1, <2>2, Numbers
  <2> QED
    BY <2>3, Zenon DEF Sent
<1> QED
  BY <1>9, <1>10, <1>11, <1>12 DEF HandlerInv

LEMMA RecvReturnKeeps ==
    ASSUME HandlerInv, RecvReturn(thread, "received", "loop"), Histories
    PROVE  HandlerInv'
<1>0. Typed /\ Flow /\ Receiving /\ Sent /\ Values
  BY ValuesTyped DEF HandlerInv
<1>1. UNCHANGED <<m_iStatus, created, tries, snd, inq, link, outq, arrived, taken,
                  delivered>>
  BY <1>0 DEF RecvReturn, Histories, Values
<1>2. pc[thread] = "received" /\ pc'[thread] = "loop"
  BY <1>0, Numbers DEF RecvReturn, Typed
<1>3. ret'[thread] = rcv[thread].done
  BY <1>0, Numbers DEF RecvReturn, Typed, HandlerTypeOK, SockTypeOK
<1>4. Typed'
  <2>1. ret' \in [Sock -> 0 .. MinusOne]
    BY <1>0, Numbers DEF RecvReturn, Typed, HandlerTypeOK, SockTypeOK, Values
  <2>2. rcv' \in [Sock -> [buff : Seq(Nat), done : 0 .. MinusOne, len : Nat]]
    BY <1>0, Numbers DEF RecvReturn, Typed, HandlerTypeOK, SockTypeOK
  <2>3. pc' \in [Sock -> Labels]
    BY <1>0, Numbers DEF RecvReturn, Typed, HandlerTypeOK, SockTypeOK, Values, Labels
  <2> QED
    BY <1>0, <1>1, <2>1, <2>2, <2>3, Zenon DEF Typed, HandlerTypeOK, SockTypeOK
<1>5. Flow'
  BY <1>0, <1>1, <1>2, <1>3, FlowKeeps DEF Holding
<1>6. Receiving'
  BY <1>0, <1>1, <1>2, <1>3, Numbers, SMTT(30)
     DEF Values, Receiving, EndMatchesStatus
<1>7. Sent'
  BY <1>0, <1>1, <1>2, <1>3, Numbers DEF Values, Sent
<1> QED
  BY <1>4, <1>5, <1>6, <1>7 DEF HandlerInv

LEMMA LoopKeeps ==
    ASSUME HandlerInv, Loop, Histories
    PROVE  HandlerInv'
<1>0. Typed /\ Flow /\ Receiving /\ Sent /\ Values
  BY ValuesTyped DEF HandlerInv
<1>1. UNCHANGED <<m_iStatus, created, tries, rcv, snd, ret, inq, link, outq, arrived,
                  taken, delivered>>
  BY <1>0 DEF Loop, Histories, Values
<1>2. pc[thread] = "loop" /\ pc'[thread] \in {"recv", "exited"}
  BY <1>0, Numbers DEF Loop, Typed
<1>3. Typed'
  <2>1. pc' \in [Sock -> Labels]
    BY <1>0, Numbers DEF Loop, Typed, HandlerTypeOK, SockTypeOK, Values, Labels
  <2> QED
    BY <1>0, <1>1, <2>1, Zenon DEF Typed, HandlerTypeOK, SockTypeOK
<1>4. Flow'
  BY <1>0, <1>1, <1>2, FlowKeeps DEF Holding
<1>5. Receiving'
  BY <1>0, <1>1, <1>2, Numbers DEF Values, Receiving, EndMatchesStatus
<1>6. Sent'
  BY <1>0, <1>1, <1>2, Numbers DEF Values, Sent
<1> QED
  BY <1>3, <1>4, <1>5, <1>6 DEF HandlerInv

-----------------------------------------------------------------------------
(* The device and the kernel.                                               *)

LEMMA DeviceSendsKeeps ==
    ASSUME HandlerInv, DeviceSends
    PROVE  HandlerInv'
<1>0. Typed /\ Flow /\ Receiving /\ Sent /\ Values
  BY ValuesTyped DEF HandlerInv
<1>1. UNCHANGED <<m_iStatus, created, tries, rcv, snd, ret, link, outq, pc, taken,
                  delivered>>
  BY <1>0 DEF DeviceSends, Arrives, Values
<1>2. inq' = [inq EXCEPT ![thread] = @ \o <<arrived + 1>>] /\ link[thread] = "open"
  BY <1>0, Numbers DEF DeviceSends, Arrives, Typed
<1>3. arrived' = arrived + 1 /\ arrived < MaxBytes
  BY DEF DeviceSends
<1>4. <<arrived + 1>> = Bytes(arrived, 1) /\ <<arrived + 1>> \in Seq(Nat)
  BY <1>0, Numbers, SMTT(30) DEF Values, Bytes
<1>5. Typed'
  <2>1. inq' \in [Sock -> Seq(Nat)]
    BY <1>0, <1>2, <1>4, ConcatKeeps DEF Typed, HandlerTypeOK, SockTypeOK, Values
  <2>2. arrived' \in 0 .. MaxBytes
    BY <1>0, <1>3, Numbers DEF Values
  <2>3. taken' \in 0 .. arrived'
    BY <1>0, <1>1, <1>3, Numbers DEF Values
  <2> QED
    BY <1>0, <1>1, <2>1, <2>2, <2>3, Zenon DEF Typed, HandlerTypeOK, SockTypeOK
<1>6. Flow'
  <2>1. inq'[thread] = Bytes(taken, arrived - taken) \o Bytes(arrived, 1)
    BY <1>0, <1>2, <1>4, Numbers DEF Flow, Typed, HandlerTypeOK, SockTypeOK
  <2>2. arrived - taken \in Nat /\ taken \in Nat /\ taken + (arrived - taken) = arrived
    BY <1>0, Numbers DEF Values
  <2>3. inq'[thread] = Bytes(taken, (arrived - taken) + 1)
    <3>1. Bytes(taken, arrived - taken) \o Bytes(taken + (arrived - taken), 1) =
            Bytes(taken, (arrived - taken) + 1)
      BY <2>2, BytesOn
    <3> QED
      BY <2>1, <2>2, <3>1
  <2>4. (arrived - taken) + 1 = arrived' - taken
    BY <1>3, <2>2
  <2> QED
    BY <1>0, <1>1, <1>2, <2>3, <2>4 DEF Flow
<1>7. Receiving'
  BY <1>0, <1>1, <1>2, <1>3, <1>4, Numbers DEF Values, Receiving, EndMatchesStatus
<1>8. Sent'
  BY <1>0, <1>1, <1>2, <1>3, <1>4, Numbers DEF Values, Sent
<1> QED
  BY <1>5, <1>6, <1>7, <1>8 DEF HandlerInv

LEMMA PeerClosesKeeps ==
    ASSUME HandlerInv, PeerCloses(thread), UNCHANGED histVars
    PROVE  HandlerInv'
<1>0. Typed /\ Flow /\ Receiving /\ Sent /\ Values
  BY ValuesTyped DEF HandlerInv
<1>1. UNCHANGED <<m_iStatus, created, tries, rcv, snd, ret, inq, outq, pc, arrived,
                  taken, delivered>>
  BY <1>0 DEF PeerCloses, Values
<1>2. link[thread] = "open" /\ link'[thread] = "closed"
  BY <1>0, Numbers DEF PeerCloses, Typed, HandlerTypeOK, SockTypeOK
<1>3. Typed'
  <2>1. link' \in [Sock -> LinkStates]
    BY <1>0, Numbers DEF PeerCloses, Typed, HandlerTypeOK, SockTypeOK, Values,
       LinkStates
  <2> QED
    BY <1>0, <1>1, <2>1, Zenon DEF Typed, HandlerTypeOK, SockTypeOK
<1>4. Flow'
  BY <1>0, <1>1, <1>2 DEF Flow
<1>5. Receiving'
  BY <1>0, <1>1, <1>2, Numbers DEF Values, Receiving, EndMatchesStatus
<1>6. Sent'
  BY <1>0, <1>1, <1>2, Numbers DEF Values, Sent
<1> QED
  BY <1>3, <1>4, <1>5, <1>6 DEF HandlerInv

LEMMA LinkBreaksKeeps ==
    ASSUME HandlerInv, LinkBreaks(thread), UNCHANGED histVars
    PROVE  HandlerInv'
<1>0. Typed /\ Flow /\ Receiving /\ Sent /\ Values
  BY ValuesTyped DEF HandlerInv
<1>1. UNCHANGED <<m_iStatus, created, tries, rcv, snd, ret, outq, pc, arrived, taken,
                  delivered>>
  BY <1>0 DEF LinkBreaks, Values
<1>2. link[thread] # "none" /\ link'[thread] = "reset" /\ inq'[thread] = NoBytes
  BY <1>0, Numbers DEF LinkBreaks, Typed, HandlerTypeOK, SockTypeOK
<1>3. Typed'
  <2>1. link' \in [Sock -> LinkStates]
    BY <1>0, Numbers DEF LinkBreaks, Typed, HandlerTypeOK, SockTypeOK, Values,
       LinkStates
  <2>2. inq' \in [Sock -> Seq(Nat)]
    <3>1. inq' = [inq EXCEPT ![thread] = NoBytes] /\ NoBytes \in Seq(Nat)
      BY DEF LinkBreaks
    <3> QED
      BY <1>0, <3>1 DEF Typed, HandlerTypeOK, SockTypeOK
  <2> QED
    BY <1>0, <1>1, <2>1, <2>2, Zenon DEF Typed, HandlerTypeOK, SockTypeOK
<1>4. Flow'
  BY <1>0, <1>1, <1>2 DEF Flow
<1>5. Receiving'
  BY <1>0, <1>1, <1>2, Numbers DEF Values, Receiving, EndMatchesStatus
<1>6. Sent'
  BY <1>0, <1>1, <1>2, Numbers DEF Values, Sent
<1> QED
  BY <1>3, <1>4, <1>5, <1>6 DEF HandlerInv

-----------------------------------------------------------------------------
(* The invariant.                                                           *)

LEMMA HandlerStarts == ASSUME HandlerInit PROVE HandlerInv
<1>1. Typed
  <2>1. /\ m_iStatus \in [Sock -> CONNECT_STATUS_T] /\ created \in [Sock -> BOOLEAN]
        /\ tries \in [Sock -> Nat] /\ inq \in [Sock -> Seq(Nat)]
        /\ outq \in [Sock -> Seq(Nat)]
        /\ link \in [Sock -> LinkStates] /\ pc \in [Sock -> Labels]
    BY DEF HandlerInit, SockInit, CONNECT_STATUS_T, LinkStates, Labels
  <2>2. 0 \in 0 .. MinusOne /\ 0 \in 0 .. MaxBytes
    BY Numbers
  <2>3. /\ rcv \in [Sock -> [buff : Seq(Nat), done : 0 .. MinusOne, len : Nat]]
        /\ snd \in [Sock -> [buff : Seq(Nat), done : 0 .. MinusOne]]
        /\ ret \in [Sock -> 0 .. MinusOne]
    BY <2>2 DEF HandlerInit, SockInit
  <2>4. arrived \in 0 .. MaxBytes /\ taken \in 0 .. arrived /\ delivered \in Seq(Nat)
    BY <2>2 DEF HandlerInit
  <2> QED
    BY <2>1, <2>3, <2>4, Zenon DEF Typed, HandlerTypeOK, SockTypeOK
<1>2. /\ pc[thread] = "start" /\ link[thread] = "none" /\ inq[thread] = <<>>
      /\ arrived = 0 /\ taken = 0 /\ delivered = <<>>
  BY Numbers DEF HandlerInit, SockInit
<1>3. Bytes(0, 0) = <<>> /\ <<>> \o <<>> = <<>>
  BY DEF Bytes
<1>4. Flow
  BY <1>2, <1>3 DEF Flow, Holding
<1>5. Receiving /\ Sent
  BY <1>2 DEF Receiving, EndMatchesStatus, Sent
<1> QED
  BY <1>1, <1>4, <1>5 DEF HandlerInv

LEMMA HandlerRests == ASSUME HandlerInv, UNCHANGED vars PROVE HandlerInv'
BY DEF HandlerInv, Typed, HandlerTypeOK, SockTypeOK, Flow, Receiving, EndMatchesStatus,
   Sent, vars, sockVars

LEMMA HandlerSteps == ASSUME HandlerInv, HandlerNext PROVE HandlerInv'
<1>1. CASE Run
  <2>1. Histories
    BY <1>1, Zenon DEF Run, Histories
  <2>2. CASE \/ NewSocket \/ Create(thread, "create", "created")
             \/ ConnectBegin(thread, "created") \/ Connected(thread)
             \/ ConnectFailed(thread, Retries, "recv") \/ OnConnect
    BY <2>1, <2>2, Zenon, NewSocketKeeps, CreateKeeps, ConnectBeginKeeps, ConnectedKeeps,
       ConnectFailedKeeps, OnConnectKeeps
  <2>3. CASE Send(thread, "send_beacon", "recv") \/ Send(thread, "send_echo", "received")
    BY <2>1, <2>3, SendSomeKeeps, SendFailsKeeps, SendReturnKeeps DEF Send
  <2>4. CASE Recveive(thread, "loop")
    BY <2>1, <2>4, Zenon, RecvCheckKeeps, RecvSelectKeeps, RecvLenKeeps, RecvFailsKeeps,
       RecvReadsKeeps, RecvMoreKeeps, RecvDeliverKeeps DEF Recveive
  <2>5. CASE OnReceive \/ RecvReturn(thread, "received", "loop") \/ Loop
    BY <2>1, <2>5, Zenon, OnReceiveKeeps, RecvReturnKeeps, LoopKeeps
  <2> QED
    BY <1>1, <2>2, <2>3, <2>4, <2>5, Zenon DEF Run
<1>2. CASE Device
  BY <1>2, Zenon, DeviceSendsKeeps, PeerClosesKeeps, LinkBreaksKeeps DEF Device
<1>3. CASE Terminated
  BY <1>3, Zenon, HandlerRests DEF Terminated
<1> QED
  BY <1>1, <1>2, <1>3, Zenon DEF HandlerNext

\* The inductive invariant holds of every behaviour of the thread and its device
\* (BlueToothSocket.cpp:153-447, BTDeviceManager.cpp:81-93).
THEOREM HandlerInvariant == HandlerSpec => []HandlerInv
<1>1. HandlerInit => HandlerInv
  BY HandlerStarts
<1>2. HandlerInv /\ [HandlerNext]_vars => HandlerInv'
  BY HandlerSteps, HandlerRests
<1> QED
  BY <1>1, <1>2, PTL DEF HandlerSpec

\* The socket's variables keep their types: no count of bytes leaves size_t, and no
\* more is read than has been sent (BlueToothSocket.cpp:337-447).
THEOREM HandlerTyped == HandlerSpec => []HandlerTypeOK
<1>1. HandlerInv => HandlerTypeOK
  BY Zenon DEF HandlerInv, Typed
<1> QED
  BY <1>1, HandlerInvariant, PTL

\* Every byte read is given to OnReceive once and in order, for streams of any length
\* in pieces of any size, also when recv() fails between two of them
\* (BlueToothSocket.cpp:389-426).
THEOREM AllHandedOver == HandlerSpec => []HandedOver
<1>1. HandlerInv => HandedOver
  <2>1. SUFFICES ASSUME HandlerInv PROVE HandedOver
    OBVIOUS
  <2>2. taken \in Nat
    BY <2>1, ValuesTyped, Numbers DEF HandlerInv, Values
  <2>3. Bytes(0, taken) = [i \in 1 .. taken |-> i]
    BY <2>2 DEF Bytes
  <2> QED
    BY <2>1, <2>3, Zenon DEF HandlerInv, Flow, Holding, HandedOver
<1> QED
  BY <1>1, HandlerInvariant, PTL

\* Recveive returns -1 just when it leaves a status other than CONNECTED: the thread
\* ends when the manager can see it (BlueToothSocket.cpp:337-426, BTDeviceManager.cpp:90).
THEOREM EndIsSeen == HandlerSpec => []EndMatchesStatus
<1>1. HandlerInv => EndMatchesStatus
  BY Zenon DEF HandlerInv, Receiving
<1> QED
  BY <1>1, HandlerInvariant, PTL

\* Send's loop ends with the length of the buffer or with -1, in whatever order partial
\* and failed sends come, for every width of size_t (BlueToothSocket.cpp:429-447).
THEOREM SendIsExact == HandlerSpec => []SendEndsExactly
<1>1. HandlerInv => SendEndsExactly
  <2>1. SUFFICES ASSUME HandlerInv, pc[thread] \in {"send_beacon", "send_echo"},
                        ~Sending(thread)
                 PROVE  snd[thread].done \in {Len(snd[thread].buff), MinusOne}
    BY DEF SendEndsExactly
  <2>2. snd[thread].done \in Nat /\ Len(snd[thread].buff) \in Nat
    BY <2>1, ValuesTyped, Numbers DEF HandlerInv, Values
  <2>3. snd[thread].done <= Len(snd[thread].buff) \/ snd[thread].done = MinusOne
    BY <2>1, Zenon DEF HandlerInv, Sent
  <2> QED
    BY <2>1, <2>2, <2>3 DEF Sending
<1> QED
  BY <1>1, HandlerInvariant, PTL

-----------------------------------------------------------------------------
(* The life that DeviceManager assumes.                                     *)

Failures == {"CONNECTION_AUTH_FAILED", "CONNECTION_TIMEOUT", "CONNECTION_FAILED", "RECV_FAILED"}

\* The status at each place of Run: a socket is connected once, or fails to, and
\* a thread whose connection lasts has not returned.
OnTheWay ==
    /\ pc[thread] \in {"start", "create"} => m_iStatus[thread] = "NOT_CREATED"
    /\ pc[thread] = "created" => m_iStatus[thread] \in {"NOT_CREATED", "CREATED"}
    /\ pc[thread] = "connect" => m_iStatus[thread] = "CONNECTING"
    /\ pc[thread] \in {"on_connect", "send_beacon"} => m_iStatus[thread] = "CONNECTED"
    /\ pc[thread] \in {"recv", "recv_select", "recv_len", "recv_read", "recv_more",
                       "recv_deliver", "on_receive", "send_echo", "received", "loop"} =>
         m_iStatus[thread] \in {"CONNECTED"} \cup Failures
    /\ pc[thread] = "exited" => m_iStatus[thread] \in Failures

\* A step the manager may see.
Moves == StateOf' = StateOf \/ <<StateOf, StateOf'>> \in Life!HandlerMoves

\* Steps before the connection, which take the thread through its first states.
LEMMA Setting ==
    ASSUME Typed, OnTheWay,
           \/ NewSocket \/ Create(thread, "create", "created")
           \/ ConnectBegin(thread, "created") \/ Connected(thread)
           \/ ConnectFailed(thread, Retries, "recv")
    PROVE  OnTheWay' /\ Moves
<1>0. /\ thread \in Sock /\ pc \in [Sock -> Labels] /\ m_iStatus \in [Sock -> CONNECT_STATUS_T]
  BY Numbers DEF Typed, HandlerTypeOK, SockTypeOK
<1>1. CASE NewSocket
  <2>1. pc[thread] = "start" /\ pc'[thread] = "create" /\ m_iStatus' = m_iStatus
    BY <1>0, <1>1 DEF NewSocket
  <2> QED
    BY <2>1 DEF OnTheWay, Moves, StateOf, Life!HandlerMoves
<1>2. CASE Create(thread, "create", "created")
  <2>1. /\ pc[thread] = "create" /\ pc'[thread] = "created"
        /\ m_iStatus'[thread] \in {m_iStatus[thread], "CREATED"}
    BY <1>0, <1>2 DEF Create
  <2> QED
    BY <2>1 DEF OnTheWay, Moves, StateOf, Life!HandlerMoves
<1>3. CASE ConnectBegin(thread, "created")
  <2>1. /\ pc[thread] = "created" /\ pc'[thread] = "connect"
        /\ m_iStatus'[thread] = "CONNECTING"
    BY <1>0, <1>3 DEF ConnectBegin
  <2> QED
    BY <2>1 DEF OnTheWay, Moves, StateOf, Life!HandlerMoves
<1>4. CASE Connected(thread)
  <2>1. /\ pc[thread] = "connect" /\ pc'[thread] = "on_connect"
        /\ m_iStatus'[thread] = "CONNECTED"
    BY <1>0, <1>4 DEF Connected
  <2> QED
    BY <2>1 DEF OnTheWay, Moves, StateOf, Life!HandlerMoves
<1>5. CASE ConnectFailed(thread, Retries, "recv")
  <2>1. /\ pc[thread] = "connect"
        /\ \/ UNCHANGED <<pc, m_iStatus>>
           \/ pc'[thread] = "recv" /\ m_iStatus'[thread] \in Failures
    BY <1>0, <1>5 DEF ConnectFailed, Failures
  <2> QED
    BY <2>1 DEF OnTheWay, Moves, StateOf, Life!HandlerMoves, Failures
<1> QED
  BY <1>1, <1>2, <1>3, <1>4, <1>5

\* Steps that go on without touching the status.
LEMMA GoingOn ==
    ASSUME OnTheWay, UNCHANGED m_iStatus,
           \/ pc'[thread] = pc[thread]
           \/ pc[thread] = "on_connect" /\ pc'[thread] = "send_beacon"
           \/ pc[thread] = "send_beacon" /\ pc'[thread] = "recv"
           \/ /\ pc[thread] \in {"recv", "recv_select", "recv_len", "recv_read", "recv_more",
                                 "recv_deliver", "on_receive", "send_echo", "received", "loop"}
              /\ pc'[thread] \in {"recv", "recv_select", "recv_len", "recv_read", "recv_more",
                                  "recv_deliver", "on_receive", "send_echo", "received", "loop"}
    PROVE  OnTheWay' /\ Moves
BY DEF OnTheWay, Moves, StateOf

\* Recveive fails, on a connection that was there.
LEMMA Failing ==
    ASSUME pc[thread] \in {"recv_select", "recv_len", "recv_read"},
           m_iStatus[thread] = "CONNECTED",
           pc'[thread] \in {"loop", "recv_deliver"}, m_iStatus'[thread] = "RECV_FAILED"
    PROVE  OnTheWay' /\ Moves
BY DEF OnTheWay, Moves, StateOf, Life!HandlerMoves, Failures

LEMMA RecveiveMoves ==
    ASSUME HandlerInv, OnTheWay, Recveive(thread, "loop")
    PROVE  OnTheWay' /\ Moves
<1>0. /\ thread \in Sock /\ pc \in [Sock -> Labels] /\ m_iStatus \in [Sock -> CONNECT_STATUS_T]
  BY Numbers DEF HandlerInv, Typed, HandlerTypeOK, SockTypeOK
<1>1. Receiving
  BY DEF HandlerInv
<1>2. CASE RecvCheck(thread, "loop")
  <2>1. /\ pc[thread] = "recv" /\ pc'[thread] \in {"recv_select", "loop"}
        /\ m_iStatus' = m_iStatus
    BY <1>0, <1>2 DEF RecvCheck
  <2> QED
    BY <2>1, GoingOn
<1>3. CASE RecvSelect(thread, "loop") \/ RecvLen(thread, "loop") \/ RecvRead(thread)
  <2>1. /\ pc[thread] \in {"recv_select", "recv_len", "recv_read"}
        /\ \/ /\ m_iStatus' = m_iStatus
              /\ pc'[thread] \in {"recv_len", "recv_read", "recv_more"}
           \/ /\ m_iStatus'[thread] = "RECV_FAILED"
              /\ pc'[thread] \in {"loop", "recv_deliver"}
    <3>1. CASE RecvSelect(thread, "loop")
      BY <1>0, <3>1 DEF RecvSelect, RecvFailed
    <3>2. CASE RecvLen(thread, "loop")
      BY <1>0, <3>2 DEF RecvLen, RecvFailed
    <3>3. CASE RecvRead(thread)
      BY <1>0, <3>3 DEF RecvRead
    <3> QED
      BY <1>3, <3>1, <3>2, <3>3
  <2>2. m_iStatus[thread] = "CONNECTED"
    BY <1>1, <2>1 DEF Receiving
  <2> QED
    BY <2>1, <2>2, GoingOn, Failing
<1>4. CASE RecvMore(thread) \/ RecvDeliver(thread)
  <2>1. /\ pc[thread] \in {"recv_more", "recv_deliver"}
        /\ pc'[thread] \in {"recv_read", "recv_deliver", "on_receive"}
        /\ m_iStatus' = m_iStatus
    BY <1>0, <1>4 DEF RecvMore, RecvDeliver
  <2> QED
    BY <2>1, GoingOn
<1> QED
  BY <1>2, <1>3, <1>4 DEF Recveive

\* The callbacks and what they send, and the end of Recveive.
LEMMA AnsweringMoves ==
    ASSUME HandlerInv, OnTheWay,
           \/ OnConnect \/ OnReceive \/ RecvReturn(thread, "received", "loop")
           \/ Send(thread, "send_beacon", "recv") \/ Send(thread, "send_echo", "received")
    PROVE  OnTheWay' /\ Moves
<1>0. thread \in Sock /\ pc \in [Sock -> Labels]
  BY Numbers DEF HandlerInv, Typed
<1>1. CASE OnConnect \/ OnReceive \/ RecvReturn(thread, "received", "loop")
  <2>1. /\ m_iStatus' = m_iStatus
        /\ \/ pc[thread] = "on_connect" /\ pc'[thread] = "send_beacon"
           \/ pc[thread] = "on_receive" /\ pc'[thread] = "send_echo"
           \/ pc[thread] = "received" /\ pc'[thread] = "loop"
    BY <1>0, <1>1 DEF OnConnect, OnReceive, SendBegin, RecvReturn
  <2> QED
    BY <2>1, GoingOn
<1>2. CASE Send(thread, "send_beacon", "recv")
  <2>1. /\ m_iStatus' = m_iStatus /\ pc[thread] = "send_beacon"
        /\ pc'[thread] \in {"send_beacon", "recv"}
    BY <1>0, <1>2 DEF Send, SendSome, SendFails, SendReturn
  <2> QED
    BY <2>1, GoingOn
<1>3. CASE Send(thread, "send_echo", "received")
  <2>1. /\ m_iStatus' = m_iStatus /\ pc[thread] = "send_echo"
        /\ pc'[thread] \in {"send_echo", "received"}
    BY <1>0, <1>3 DEF Send, SendSome, SendFails, SendReturn
  <2> QED
    BY <2>1, GoingOn
<1> QED
  BY <1>1, <1>2, <1>3

\* The thread returns only when its connection is over: EndMatchesStatus.
LEMMA LoopMoves ==
    ASSUME HandlerInv, OnTheWay, Loop
    PROVE  OnTheWay' /\ Moves
<1>0. thread \in Sock /\ pc \in [Sock -> Labels]
  BY Numbers DEF HandlerInv, Typed
<1>1. /\ pc[thread] = "loop" /\ m_iStatus' = m_iStatus
      /\ pc'[thread] = IF ret[thread] # MinusOne THEN "recv" ELSE "exited"
  BY <1>0 DEF Loop
<1>2. ret[thread] = MinusOne <=> m_iStatus[thread] # "CONNECTED"
  BY <1>1, Zenon DEF HandlerInv, Receiving, EndMatchesStatus
<1>3. CASE ret[thread] # MinusOne
  BY <1>1, <1>3, GoingOn
<1>4. CASE ret[thread] = MinusOne
  <2>1. m_iStatus[thread] \in Failures /\ pc'[thread] = "exited"
    BY <1>1, <1>2, <1>4 DEF OnTheWay
  <2> QED
    BY <1>1, <2>1 DEF OnTheWay, Moves, StateOf, Life!HandlerMoves, Failures
<1> QED
  BY <1>3, <1>4

LEMMA EveryStepMoves ==
    ASSUME HandlerInv, OnTheWay, [HandlerNext]_vars
    PROVE  OnTheWay' /\ Moves
<1>1. CASE Run
  <2>1. Typed
    BY DEF HandlerInv
  <2> QED
    BY <1>1, <2>1, Setting, RecveiveMoves, AnsweringMoves, LoopMoves, Zenon DEF Run
<1>2. CASE Device \/ Terminated \/ UNCHANGED vars
  <2>1. UNCHANGED <<m_iStatus, pc>>
    BY <1>2 DEF Device, DeviceSends, Arrives, PeerCloses, LinkBreaks, Terminated, vars, sockVars
  <2> QED
    BY <2>1, GoingOn
<1> QED
  BY <1>1, <1>2, Zenon DEF HandlerNext

\* The thread lives the life DeviceManager assumes of every handler, step by step:
\* started, created, connecting, connected or failed, and exited only after a failure
\* (BTDeviceManager.cpp:81-93, BlueToothSocket.cpp:153-426).
THEOREM LivesAsAssumed == HandlerSpec => Life!Init /\ [][Life!Next]_StateOf
<1>1. HandlerInit => OnTheWay /\ Life!Init
  <2>1. SUFFICES ASSUME HandlerInit PROVE OnTheWay /\ Life!Init
    OBVIOUS
  <2>2. pc[thread] = "start" /\ m_iStatus[thread] = "NOT_CREATED"
    BY <2>1, Numbers DEF HandlerInit, SockInit
  <2>3. StateOf = "started"
    BY <2>2 DEF StateOf
  <2> QED
    BY <2>2, <2>3 DEF OnTheWay, Life!Init
<1>2. HandlerInv /\ OnTheWay /\ [HandlerNext]_vars => OnTheWay' /\ [Life!Next]_StateOf
  BY EveryStepMoves, Zenon DEF Moves, Life!Next
<1> QED
  BY <1>1, <1>2, HandlerInvariant, PTL DEF HandlerSpec

=============================================================================
