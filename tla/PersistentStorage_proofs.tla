---------------------- MODULE PersistentStorage_proofs ----------------------
(***************************************************************************)
(* Proofs about the event storage, for any sets of threads, processes,      *)
(* connections and statement handles, and for every value of the bounds: no *)
(* process makes two storage objects, the first event logged through one    *)
(* ends its reading, the storage implements the event log, and a reader, a  *)
(* process of one thread that logs and reads while any number of others     *)
(* log, reads every row.                                                    *)
(***************************************************************************)
EXTENDS PersistentStorage, TLAPS

\* A call of LogEvent has a statement of its own from its compilation on, until
\* m_rs takes it over; its row is written after the first two of these steps.
Compiled == {"insert", "inserting", "assign", "finalize", "take_over"}
Assigning == {"assign", "finalize", "take_over"}
Stepping == {"inserting", "rerunning"}

HasSelect(c) == \E v \in VM : vms[c][v].insert = 0

-----------------------------------------------------------------------------
\* Types, as far as the proofs need them.
Calls == [at : Steps, key : Nat, this : Conn \cup {NoConn},
          pVM : VM \cup {NoVM}, old : VM \cup {NoVM}]
Statements == [insert : Int, at : Nat]
Knowledge == [more : BOOLEAN, seen : Nat, total : Nat, wrote : Nat]

Typed ==
    /\ events \in Seq(Nat) /\ asked \in 0 .. MaxRows
    /\ writer \in Conn \cup {NoConn}
    /\ vms \in [Conn -> [VM -> Statements]]
    /\ m_rs \in [Conn -> QueryType]
    /\ m_instance \in [Process -> Conn \cup {NoConn}]
    /\ objects \in [Process -> SUBSET Conn]
    /\ call \in [Thread -> Calls]
    /\ told \in [Reader -> Knowledge]

\* Every storage object belongs to one process; calls, m_instance and used
\* speak of objects that exist, and only those have a SELECT.
Homes ==
    /\ \A t \in Thread : This(t) # NoConn => This(t) \in objects[ProcessOf(t)]
    /\ \A t \in Thread : call[t].at \in Compiled \cup {"rerun", "rerunning"} =>
                           This(t) # NoConn /\ pVM(t) # NoVM
    /\ \A p \in Process : m_instance[p] # NoConn => m_instance[p] \in objects[p]
    /\ \A p, q \in Process : p # q => objects[p] \cap objects[q] = {}
    /\ \A c \in Conn : c \in used \/ HasSelect(c) => \E p \in Process : c \in objects[p]

\* One thread at a time is inside the step of an INSERT.
Stepped ==
    \A t \in Thread : call[t].at \in Stepping =>
      writer = This(t) /\ vms[This(t)][pVM(t)].insert > 0
OneSteps ==
    \A t, u \in Thread : call[t].at \in Stepping /\ call[u].at \in Stepping => t = u

\* Only events that were asked for are in statements, in the table, in calls.
StatementKeys == \A c \in Conn, v \in VM : vms[c][v].insert <= asked
RowKeys == \A i \in 1 .. Len(events) : events[i] \in 1 .. asked
CallKeys ==
    \A t \in Thread : call[t].at \in Compiled \cup {"get_instance", "construct"} =>
      call[t].key \in 1 .. asked

\* While no freed handle has been finalized on its connection, the statement of
\* a call is the call's own INSERT, and m_rs's statement exists.
OwnInsert ==
    \A t \in Thread : call[t].at \in Compiled /\ This(t) \notin misused =>
      /\ vms[This(t)][pVM(t)] = InsertOf(call[t].key)
      /\ m_rs[This(t)].mpVM # pVM(t)
NotShared ==
    \A t, u \in Thread :
      /\ t # u /\ call[t].at \in Compiled /\ call[u].at \in Compiled
      /\ This(t) = This(u) /\ This(t) \notin misused
      => pVM(t) # pVM(u)
QueryAlive ==
    \A c \in Conn \ misused : m_rs[c].mpVM # NoVM => vms[c][m_rs[c].mpVM] # Free

\* So the row of a call that is past its step is in the table.
InTable ==
    \A t \in Thread : call[t].at \in Assigning /\ This(t) \notin misused =>
      \E i \in 1 .. Len(events) : events[i] = call[t].key

\* A SELECT is m_rs's and nobody else's, and it is gone once a call has finalized
\* what it found in m_rs: a call that found something else came after one that had.
OnlySelectsRun ==
    \A c \in Conn, v \in VM : vms[c][v].at > 0 => vms[c][v].insert = 0
SelectIsQuerys ==
    \A c \in Conn, v \in VM : vms[c][v].insert = 0 => v = m_rs[c].mpVM
SelectGone ==
    \A t \in Thread :
      /\ call[t].at = "finalize" => \/ call[t].old = m_rs[This(t)].mpVM
                                    \/ ~HasSelect(This(t))
      /\ call[t].at = "take_over" => ~HasSelect(This(t))
UsedEnded == \A c \in used : c \in Conn /\ ~HasSelect(c) /\ m_rs[c].mbEof = TRUE

\* A reader that has logged has been told of no further row.
Quiet ==
    \A r \in Reader : call[r].at \in Assigning \/ Instance(r) \in used =>
                        told[r].more = FALSE

StorageInv ==
    /\ Typed /\ Homes /\ Stepped /\ OneSteps
    /\ StatementKeys /\ RowKeys /\ CallKeys
    /\ OwnInsert /\ NotShared /\ QueryAlive /\ InTable
    /\ OnlySelectsRun /\ SelectIsQuerys /\ SelectGone /\ UsedEnded /\ Quiet

-----------------------------------------------------------------------------
(* What an action changes, variable by variable.                            *)

\* The call of every thread but t goes on as before.
OthersStay(t) == \A u \in Thread : u # t => call'[u] = call[u]

\* Only the statement v of connection c is another now.
OnlyStatement(c, v, s) ==
    \A d \in Conn, w \in VM : vms'[d][w] = IF d = c /\ w = v THEN s ELSE vms[d][w]

OnlyQuery(c, q) == \A d \in Conn : m_rs'[d] = IF d = c THEN q ELSE m_rs[d]

LEMMA StatementSet ==
    ASSUME vms \in [Conn -> [VM -> Statements]], NEW c \in Conn, NEW v \in VM,
           NEW s \in Statements, vms' = [vms EXCEPT ![c][v] = s]
    PROVE  vms' \in [Conn -> [VM -> Statements]] /\ OnlyStatement(c, v, s)
BY DEF OnlyStatement

LEMMA QuerySet ==
    ASSUME m_rs \in [Conn -> QueryType], NEW c \in Conn,
           NEW q \in QueryType, m_rs' = [m_rs EXCEPT ![c] = q]
    PROVE  m_rs' \in [Conn -> QueryType] /\ OnlyQuery(c, q)
BY DEF OnlyQuery

LEMMA CallSet ==
    ASSUME call \in [Thread -> Calls], NEW t \in Thread,
           NEW r \in Calls, call' = [call EXCEPT ![t] = r]
    PROVE  call' \in [Thread -> Calls] /\ OthersStay(t) /\ call'[t] = r
BY DEF OthersStay

LEMMA Goes ==
    ASSUME call \in [Thread -> Calls], NEW t \in Thread,
           NEW l \in Steps, Goto(t, l)
    PROVE  /\ call' \in [Thread -> Calls] /\ OthersStay(t) /\ call'[t].at = l
           /\ call'[t].key = call[t].key /\ call'[t].this = call[t].this
           /\ call'[t].pVM = call[t].pVM /\ call'[t].old = call[t].old
BY DEF OthersStay, Goto, Calls

LEMMA LastRowTyped ==
    ASSUME told \in [Reader -> Knowledge], NEW t, NEW k \in Nat, NEW more \in BOOLEAN,
           LastRowIs(t, k, more)
    PROVE  /\ told' \in [Reader -> Knowledge]
           /\ \A r \in Reader : told'[r].more = IF r = t THEN more ELSE told[r].more
<1>1. told' = [r \in Reader |->
               IF r = t THEN [told[r] EXCEPT !.wrote = k, !.more = more]
                        ELSE [told[r] EXCEPT !.wrote = 0]]
  BY DEF LastRowIs
<1>2. ASSUME NEW r \in Reader
      PROVE  /\ told'[r] \in Knowledge
             /\ told'[r].more = IF r = t THEN more ELSE told[r].more
  BY <1>1 DEF Knowledge
<1> QED BY <1>1, <1>2

LEMMA FieldTypes ==
    ASSUME Typed
    PROVE  /\ \A t \in Thread : /\ call[t].at \in Steps /\ call[t].key \in Nat
                                /\ call[t].this \in Conn \cup {NoConn}
                                /\ call[t].pVM \in VM \cup {NoVM}
                                /\ call[t].old \in VM \cup {NoVM}
           /\ \A c \in Conn : m_rs[c].mpVM \in VM \cup {NoVM} /\ m_rs[c].mbEof \in BOOLEAN
           /\ \A c \in Conn, v \in VM : vms[c][v].insert \in Int /\ vms[c][v].at \in Nat
           /\ \A t \in Thread : Instance(t) \in Conn \cup {NoConn}
<1>1. \A t \in Thread : call[t] \in Calls
  BY DEF Typed
<1>2. \A c \in Conn : m_rs[c] \in QueryType
  BY DEF Typed
<1>3. \A c \in Conn, v \in VM : vms[c][v] \in Statements
  BY DEF Typed
<1>4. \A t \in Thread : Instance(t) \in Conn \cup {NoConn}
  BY ThreadsAssumption DEF Typed, Instance
<1> QED
  BY <1>1, <1>2, <1>3, <1>4 DEF Calls, QueryType, Statements

SeesNoInstanceChanges(t) ==
    /\ Typed' /\ OthersStay(t) /\ call[t].at = "get_instance"
    /\ call'[t].at = "construct"
    /\ call'[t].key = call[t].key /\ call'[t].this = call[t].this
    /\ call'[t].pVM = call[t].pVM /\ call'[t].old = call[t].old
    /\ UNCHANGED <<events, asked, writer, vms, m_rs, m_instance, objects, told,
                 misused, used, acked>>

LEMMA SeesNoInstanceEffect ==
    ASSUME Typed, NEW t \in Thread, SeesNoInstance(t)
    PROVE  SeesNoInstanceChanges(t)
<1>1. UNCHANGED <<events, asked, writer, vms, m_rs, m_instance, objects, told,
                  misused, used, acked>>
  BY DEF SeesNoInstance, sqliteVars, storageVars, historyVars
<1>2. Goto(t, "construct") /\ "construct" \in Steps /\ call[t].at = "get_instance"
  BY DEF SeesNoInstance, Steps, At
<1>3. call \in [Thread -> Calls]
  BY DEF Typed
<1> QED
  BY <1>1, <1>2, <1>3, Goes DEF Typed, SeesNoInstanceChanges

LogEventChanges(t) ==
    /\ Typed' /\ OthersStay(t) /\ call[t].at = "idle"
    /\ asked' = asked + 1
    /\ call'[t].at = "get_instance" /\ call'[t].key = asked'
    /\ call'[t].this = call[t].this
    /\ call'[t].pVM = call[t].pVM /\ call'[t].old = call[t].old
    /\ UNCHANGED <<events, writer, vms, m_rs, m_instance, objects, told,
                 misused, used, acked>>

LEMMA LogEventEffect ==
    ASSUME Typed, NEW t \in Thread, LogEvent(t)
    PROVE  LogEventChanges(t)
<1>1. UNCHANGED <<events, writer, vms, m_rs, m_instance, objects, told, misused, used,
                  acked>>
  BY DEF LogEvent, sqliteVars, storageVars
<1>2. call[t].at = "idle" /\ asked' = asked + 1
  BY DEF LogEvent, At
<1>3. asked' \in 0 .. MaxRows
  BY <1>2, BoundsAssumption DEF Typed, LogEvent
<1>4. asked' \in Nat
  BY <1>3
<1>5. call \in [Thread -> Calls]
  BY DEF Typed
<1>6. call' = [call EXCEPT ![t].at = "get_instance", ![t].key = asked']
  BY DEF LogEvent
<1>7. call' \in [Thread -> Calls]
  BY <1>4, <1>5, <1>6 DEF Calls, Steps
<1>8. /\ OthersStay(t) /\ call'[t].at = "get_instance" /\ call'[t].key = asked'
      /\ call'[t].this = call[t].this
      /\ call'[t].pVM = call[t].pVM /\ call'[t].old = call[t].old
  BY <1>5, <1>6 DEF OthersStay, Calls
<1> QED
  BY <1>1, <1>2, <1>3, <1>7, <1>8 DEF Typed, LogEventChanges

InsertTimedValuesChanges(t, v) == LET c == Instance(t) IN
    /\ Typed' /\ OthersStay(t) /\ call[t].at = "get_instance"
    /\ c \in Conn /\ writer # c /\ vms[c][v] = Free
    /\ OnlyStatement(c, v, InsertOf(call[t].key))
    /\ call'[t].at = "insert" /\ call'[t].this = c /\ call'[t].pVM = v
    /\ call'[t].key = call[t].key /\ call'[t].old = call[t].old
    /\ UNCHANGED <<events, asked, writer, m_rs, m_instance, objects, told,
                 misused, used, acked>>

LEMMA InsertTimedValuesEffect ==
    ASSUME Typed, NEW t \in Thread, InsertTimedValues(t)
    PROVE  \E v \in VM : InsertTimedValuesChanges(t, v)
<1> DEFINE c == Instance(t)
<1>1. UNCHANGED <<events, asked, writer, m_rs, m_instance, objects, told, misused,
                  used, acked>>
  BY DEF InsertTimedValues, storageVars, historyVars
<1>2. PICK v \in VM : /\ vms[c][v] = Free
                      /\ vms' = [vms EXCEPT ![c][v] = InsertOf(call[t].key)]
                      /\ call' = [call EXCEPT ![t].at = "insert", ![t].this = c, ![t].pVM = v]
  BY DEF InsertTimedValues, Unused
<1>3. c \in Conn /\ writer # c /\ call[t].at = "get_instance"
  BY FieldTypes DEF InsertTimedValues, At, MutexFree
<1>4. call \in [Thread -> Calls] /\ vms \in [Conn -> [VM -> Statements]]
  BY DEF Typed
<1>5. InsertOf(call[t].key) \in Statements
  BY FieldTypes DEF InsertOf, Statements
<1>6. call' = [call EXCEPT ![t].at = "insert", ![t].this = c, ![t].pVM = v]
  BY <1>2
<1>7. c \in Conn \cup {NoConn} /\ v \in VM \cup {NoVM}
  BY <1>3
<1> HIDE DEF c
<1>8. call' \in [Thread -> Calls]
  <2> DEFINE r == [call[t] EXCEPT !.at = "insert", !.this = c, !.pVM = v]
  <2>1. call \in [Thread -> Calls]
    BY <1>4
  <2>2. call[t] \in Calls
    BY <2>1
  <2>3. r \in Calls
    BY <2>2, <1>7 DEF Calls, Steps
  <2>4. call' = [call EXCEPT ![t] = r]
    BY <2>1, <1>6
  <2> QED
    BY <2>1, <2>3, <2>4
<1>9. /\ OthersStay(t) /\ call'[t].at = "insert" /\ call'[t].this = c /\ call'[t].pVM = v
      /\ call'[t].key = call[t].key /\ call'[t].old = call[t].old
  BY <1>4, <1>6 DEF OthersStay, Calls
<1>10. vms' \in [Conn -> [VM -> Statements]] /\ OnlyStatement(c, v, InsertOf(call[t].key))
  BY <1>2, <1>3, <1>4, <1>5, StatementSet
<1>11. Typed'
  BY <1>1, <1>8, <1>10 DEF Typed
<1> QED
  BY <1>1, <1>2, <1>3, <1>9, <1>10, <1>11 DEF c, InsertTimedValuesChanges

BeginWriteChanges(t) ==
    /\ Typed' /\ OthersStay(t)
    /\ \/ call[t].at = "insert" /\ call'[t].at = "inserting"
       \/ call[t].at = "rerun" /\ call'[t].at = "rerunning"
    /\ writer = NoConn /\ writer' = This(t) /\ vms[This(t)][pVM(t)].insert > 0
    /\ call'[t].key = call[t].key /\ call'[t].this = call[t].this
    /\ call'[t].pVM = call[t].pVM /\ call'[t].old = call[t].old
    /\ UNCHANGED <<events, asked, vms, m_rs, m_instance, objects, told,
                   misused, used, acked>>

LEMMA BeginWriteEffect ==
    ASSUME Typed, NEW t \in Thread, BeginWrite(t), This(t) \in Conn
    PROVE  BeginWriteChanges(t)
<1>1. UNCHANGED <<events, asked, vms, m_rs, m_instance, objects, told, misused, used,
                  acked>>
  BY DEF BeginWrite, storageVars, historyVars
<1>2. writer = NoConn /\ writer' = This(t) /\ vms[This(t)][pVM(t)].insert > 0
  BY DEF BeginWrite, Reserve
<1>3. PICK l \in {"inserting", "rerunning"} :
         /\ Goto(t, l)
         /\ call[t].at = IF l = "inserting" THEN "insert" ELSE "rerun"
  BY DEF BeginWrite, At
<1>4. l \in Steps /\ call \in [Thread -> Calls]
  BY DEF Steps, Typed
<1>5. /\ call' \in [Thread -> Calls] /\ OthersStay(t) /\ call'[t].at = l
      /\ call'[t].key = call[t].key /\ call'[t].this = call[t].this
      /\ call'[t].pVM = call[t].pVM /\ call'[t].old = call[t].old
  BY <1>3, <1>4, Goes
<1>6. Typed'
  BY <1>1, <1>2, <1>5 DEF Typed
<1> QED
  BY <1>1, <1>2, <1>3, <1>5, <1>6 DEF BeginWriteChanges

InsertedChanges(t) ==
    /\ Typed' /\ OthersStay(t)
    /\ call[t].at = "inserting" /\ call'[t].at = "assign"
    /\ writer = This(t) /\ writer' = NoConn
    /\ events' = Append(events, vms[This(t)][pVM(t)].insert)
    /\ \A r \in Reader : told'[r].more = IF r = t THEN FALSE ELSE told[r].more
    /\ call'[t].key = call[t].key /\ call'[t].this = call[t].this
    /\ call'[t].pVM = call[t].pVM /\ call'[t].old = call[t].old
    /\ UNCHANGED <<asked, vms, m_rs, m_instance, objects, misused, used, acked>>

LEMMA InsertedEffect ==
    ASSUME Typed, NEW t \in Thread, Inserted(t),
           vms[This(t)][pVM(t)].insert \in Nat
    PROVE  InsertedChanges(t)
<1>1. UNCHANGED <<asked, vms, m_rs, m_instance, objects, misused, used, acked>>
  BY DEF Inserted, storageVars
<1>2. /\ call[t].at = "inserting" /\ writer = This(t) /\ writer' = NoConn
      /\ events' = Append(events, vms[This(t)][pVM(t)].insert)
  BY DEF Inserted, At, Commit
<1>3. Goto(t, "assign") /\ LastRowIs(t, call[t].key, FALSE)
  BY DEF Inserted
<1>4. "assign" \in Steps /\ call \in [Thread -> Calls] /\ told \in [Reader -> Knowledge]
  BY DEF Steps, Typed
<1>5. /\ call' \in [Thread -> Calls] /\ OthersStay(t) /\ call'[t].at = "assign"
      /\ call'[t].key = call[t].key /\ call'[t].this = call[t].this
      /\ call'[t].pVM = call[t].pVM /\ call'[t].old = call[t].old
  BY <1>3, <1>4, Goes
<1>6. /\ told' \in [Reader -> Knowledge]
      /\ \A r \in Reader : told'[r].more = IF r = t THEN FALSE ELSE told[r].more
  BY <1>3, <1>4, FieldTypes, LastRowTyped
<1>7. events' \in Seq(Nat)
  BY <1>2 DEF Typed
<1>8. Typed'
  BY <1>1, <1>2, <1>5, <1>6, <1>7 DEF Typed
<1> QED
  BY <1>1, <1>2, <1>5, <1>6, <1>8 DEF InsertedChanges

ReadsOldChanges(t) ==
    /\ Typed' /\ OthersStay(t)
    /\ call[t].at = "assign" /\ call'[t].at = "finalize"
    /\ call'[t].old = m_rs[This(t)].mpVM
    /\ call'[t].key = call[t].key /\ call'[t].this = call[t].this
    /\ call'[t].pVM = call[t].pVM
    /\ UNCHANGED <<events, asked, writer, vms, m_rs, m_instance, objects, told,
                 misused, used, acked>>

LEMMA ReadsOldEffect ==
    ASSUME Typed, NEW t \in Thread, ReadsOld(t), This(t) \in Conn
    PROVE  ReadsOldChanges(t)
<1> DEFINE old == m_rs[This(t)].mpVM
<1>1. UNCHANGED <<events, asked, writer, vms, m_rs, m_instance, objects, told,
                  misused, used, acked>>
  BY DEF ReadsOld, sqliteVars, storageVars, historyVars
<1>2. call[t].at = "assign"
  BY DEF ReadsOld, At
<1>3. call' = [call EXCEPT ![t].at = "finalize", ![t].old = old]
  BY DEF ReadsOld
<1>4. call \in [Thread -> Calls]
  BY DEF Typed
<1>5. old \in VM \cup {NoVM}
  BY FieldTypes
<1> HIDE DEF old
<1>6. call' \in [Thread -> Calls]
  BY <1>3, <1>4, <1>5 DEF Calls, Steps
<1>7. /\ OthersStay(t) /\ call'[t].at = "finalize" /\ call'[t].old = old
      /\ call'[t].key = call[t].key /\ call'[t].this = call[t].this
      /\ call'[t].pVM = call[t].pVM
  BY <1>3, <1>4 DEF OthersStay, Calls
<1>8. Typed'
  BY <1>1, <1>6 DEF Typed
<1> QED
  BY <1>1, <1>2, <1>7, <1>8 DEF old, ReadsOldChanges

FinalizesOldChanges(t) == LET c == This(t)  old == call[t].old IN
    /\ Typed' /\ OthersStay(t)
    /\ call[t].at = "finalize" /\ call'[t].at = "take_over" /\ writer # c
    /\ call'[t].key = call[t].key /\ call'[t].this = call[t].this
    /\ call'[t].pVM = call[t].pVM
    /\ \A d \in Conn, w \in VM :
         vms'[d][w] = IF d = c /\ w = old THEN Free ELSE vms[d][w]
    /\ \A d \in Conn : /\ m_rs'[d].mbEof = m_rs[d].mbEof
                       /\ m_rs'[d].mpVM = IF d = c /\ old # NoVM THEN NoVM
                                          ELSE m_rs[d].mpVM
    /\ misused' = IF old \in {NoVM, m_rs[c].mpVM} THEN misused ELSE misused \cup {c}
    /\ UNCHANGED <<events, asked, writer, m_instance, objects, told, used, acked>>

LEMMA FinalizesOldEffect ==
    ASSUME Typed, NEW t \in Thread, FinalizesOld(t), This(t) \in Conn
    PROVE  FinalizesOldChanges(t)
<1> DEFINE c == This(t)
           old == call[t].old
<1>1. UNCHANGED <<events, asked, writer, m_instance, objects, told, used, acked>>
  BY DEF FinalizesOld
<1>2. /\ call[t].at = "finalize" /\ writer # c
      /\ misused' = IF old \in {NoVM, m_rs[c].mpVM} THEN misused ELSE misused \cup {c}
  BY DEF FinalizesOld, At, MutexFree
<1>3. call' = [call EXCEPT ![t].at = "take_over", ![t].old = NoVM]
  BY DEF FinalizesOld
<1>4. call \in [Thread -> Calls]
  BY DEF Typed
<1>5. /\ call' \in [Thread -> Calls]
      /\ OthersStay(t) /\ call'[t].at = "take_over"
      /\ call'[t].key = call[t].key /\ call'[t].this = call[t].this
      /\ call'[t].pVM = call[t].pVM
  <2>1. call' \in [Thread -> Calls]
    BY <1>3, <1>4 DEF Calls, Steps
  <2> QED
    BY <2>1, <1>3, <1>4 DEF OthersStay, Calls
<1>6. old \in VM \cup {NoVM} /\ c \in Conn
  BY FieldTypes
<1>7. vms' = [vms EXCEPT ![c] = IF old = NoVM THEN vms[c] ELSE [vms[c] EXCEPT ![old] = Free]]
  BY DEF FinalizesOld, finalize
<1>8. vms \in [Conn -> [VM -> Statements]] /\ Free \in Statements
  BY DEF Typed, Free, Statements
<1>9. m_rs' = [m_rs EXCEPT ![c].mpVM = IF old = NoVM THEN m_rs[c].mpVM ELSE NoVM]
  BY DEF FinalizesOld
<1>10. m_rs \in [Conn -> QueryType]
  BY DEF Typed
<1> HIDE DEF c, old
<1>11. /\ vms' \in [Conn -> [VM -> Statements]]
       /\ \A d \in Conn, w \in VM :
            vms'[d][w] = IF d = c /\ w = old THEN Free ELSE vms[d][w]
  BY <1>6, <1>7, <1>8, HandlesAssumption
<1>12. /\ m_rs' \in [Conn -> QueryType]
       /\ \A d \in Conn : /\ m_rs'[d].mbEof = m_rs[d].mbEof
                          /\ m_rs'[d].mpVM = IF d = c /\ old # NoVM THEN NoVM
                                             ELSE m_rs[d].mpVM
  BY <1>6, <1>9, <1>10 DEF QueryType
<1>13. Typed'
  BY <1>1, <1>5, <1>11, <1>12 DEF Typed
<1> QED
  BY <1>1, <1>2, <1>5, <1>11, <1>12, <1>13 DEF c, old, FinalizesOldChanges

LogReturnsChanges(t) == LET c == This(t) IN
    /\ Typed' /\ OthersStay(t)
    /\ call[t].at = "take_over" /\ call'[t] = Idle
    /\ OnlyQuery(c, Query(pVM(t), InsertOf(call[t].key)))
    /\ acked' = IF c \in misused THEN acked ELSE acked \cup {call[t].key}
    /\ used' = used \cup {c}
    /\ UNCHANGED <<events, asked, writer, vms, m_instance, objects, told, misused>>

LEMMA LogReturnsEffect ==
    ASSUME Typed, NEW t \in Thread, LogReturns(t), This(t) \in Conn
    PROVE  LogReturnsChanges(t)
<1> DEFINE q == Query(pVM(t), InsertOf(call[t].key))
<1>1. /\ UNCHANGED <<events, asked, writer, vms, m_instance, objects, told, misused>>
      /\ call[t].at = "take_over" /\ used' = used \cup {This(t)}
      /\ acked' = IF This(t) \in misused THEN acked ELSE acked \cup {call[t].key}
  BY DEF LogReturns, sqliteVars, At
<1>2. call' = [call EXCEPT ![t] = Idle] /\ m_rs' = [m_rs EXCEPT ![This(t)] = q]
  BY DEF LogReturns, TakesOver
<1>3. Idle \in Calls /\ q \in QueryType
  BY FieldTypes DEF Idle, Calls, Steps, QueryType, Query, pVM
<1>4. call \in [Thread -> Calls] /\ m_rs \in [Conn -> QueryType]
  BY DEF Typed
<1> HIDE DEF q
<1>5. call' \in [Thread -> Calls] /\ OthersStay(t) /\ call'[t] = Idle
  BY <1>2, <1>3, <1>4, CallSet
<1>6. m_rs' \in [Conn -> QueryType] /\ OnlyQuery(This(t), q)
  BY <1>2, <1>3, <1>4, QuerySet
<1>7. Typed'
  BY <1>1, <1>5, <1>6 DEF Typed
<1> QED
  BY <1>1, <1>5, <1>6, <1>7 DEF q, LogReturnsChanges

LEMMA NewConnUnopened ==
    ASSUME Unopened # {}
    PROVE  /\ NewConn \in Conn
           /\ \A p \in Process : NewConn \notin objects[p]
<1>1. NewConn \in Unopened
  BY DEF NewConn
<1> QED
  BY <1>1 DEF Unopened

ConstructChanges(t, c, v, s) == LET p == ProcessOf(t) IN
    /\ \A o \in Process : c \notin objects[o]
    /\ writer = NoConn /\ s.insert = 0
    /\ vms' \in [Conn -> [VM -> Statements]] /\ OnlyStatement(c, v, s)
    /\ m_rs' \in [Conn -> QueryType] /\ OnlyQuery(c, Query(v, s))
    /\ m_instance' \in [Process -> Conn \cup {NoConn}]
    /\ objects' \in [Process -> SUBSET Conn]
    /\ told' \in [Reader -> Knowledge]
    /\ \A o \in Process : /\ m_instance'[o] = IF o = p THEN c ELSE m_instance[o]
                          /\ objects'[o] = IF o = p THEN objects[o] \cup {c}
                                           ELSE objects[o]
    /\ \A r \in Reader : told'[r].more = IF r = t THEN FALSE ELSE told[r].more
    /\ UNCHANGED <<events, asked, writer, misused, used, acked>>

LEMMA ConstructEffect ==
    ASSUME Typed, NEW t \in Thread, Construct(t)
    PROVE  \E c \in Conn, v \in VM, s \in Statements : ConstructChanges(t, c, v, s)
<1> DEFINE c == NewConn
           s == SelectStep(SelectAll)
           p == ProcessOf(t)
           n == NothingTold(Len(events))
<1>1. writer = NoConn /\ UNCHANGED <<events, asked, writer, misused, used, acked>>
  BY DEF Construct
<1>2. c \in Conn /\ \A o \in Process : c \notin objects[o]
  BY NewConnUnopened DEF Construct
<1>3. s \in Statements /\ s.insert = 0
  BY DEF SelectStep, SelectAll, Statements
<1>4. n \in Knowledge /\ n.more = FALSE
  BY DEF Typed, NothingTold, Knowledge
<1>5. PICK v \in VM : /\ vms' = [vms EXCEPT ![c][v] = s]
                      /\ m_rs' = [m_rs EXCEPT ![c] = Query(v, s)]
                      /\ m_instance' = [m_instance EXCEPT ![p] = c]
                      /\ objects' = [objects EXCEPT ![p] = @ \cup {c}]
  BY DEF Construct
<1>6. Query(v, s) \in QueryType
  BY <1>3 DEF Query, QueryType
<1>7. told' = [r \in Reader |-> IF r = t THEN n ELSE told[r]]
  BY DEF Construct
<1>8. /\ vms \in [Conn -> [VM -> Statements]] /\ m_rs \in [Conn -> QueryType]
      /\ m_instance \in [Process -> Conn \cup {NoConn}]
      /\ objects \in [Process -> SUBSET Conn] /\ told \in [Reader -> Knowledge]
      /\ p \in Process
  BY ThreadsAssumption DEF Typed
<1> HIDE DEF c, s, p, n
<1>9. vms' \in [Conn -> [VM -> Statements]] /\ OnlyStatement(c, v, s)
  BY <1>2, <1>3, <1>5, <1>8, StatementSet
<1>10. m_rs' \in [Conn -> QueryType] /\ OnlyQuery(c, Query(v, s))
  BY <1>2, <1>5, <1>6, <1>8, QuerySet
<1>11. /\ m_instance' \in [Process -> Conn \cup {NoConn}]
       /\ \A o \in Process : m_instance'[o] = IF o = p THEN c ELSE m_instance[o]
  BY <1>2, <1>5, <1>8
<1>12. /\ objects' \in [Process -> SUBSET Conn]
       /\ \A o \in Process : objects'[o] = IF o = p THEN objects[o] \cup {c}
                                           ELSE objects[o]
  BY <1>2, <1>5, <1>8
<1>13. /\ told' \in [Reader -> Knowledge]
       /\ \A r \in Reader : told'[r].more = IF r = t THEN FALSE ELSE told[r].more
  BY <1>4, <1>7, <1>8
<1> QED
  BY <1>1, <1>2, <1>3, <1>9, <1>10, <1>11, <1>12, <1>13 DEF p, ConstructChanges

NextRecordChanges(r, s) == LET c == Instance(r)  v == m_rs[c].mpVM IN
    /\ Typed' /\ call[r].at = "idle" /\ c \in Conn /\ v \in VM
    /\ vms[c][v].insert = 0 /\ s.insert = 0
    /\ OnlyStatement(c, v, s)
    /\ \A d \in Conn : /\ m_rs'[d].mpVM = m_rs[d].mpVM
                       /\ d # c => m_rs'[d].mbEof = m_rs[d].mbEof
    /\ \A u \in Reader : u # r => told'[u].more = told[u].more
    /\ UNCHANGED <<events, asked, writer, m_instance, objects, call, misused, used,
               acked>>

LEMMA NextRecordEffect ==
    ASSUME Typed, NEW r \in Reader, NextRecord(r)
    PROVE  \E s \in Statements : NextRecordChanges(r, s)
<1> DEFINE c == Instance(r)
           q == m_rs[c]
           v == q.mpVM
           s == SelectStep(Statement(r))
           n == nextRow(q, s.at)
           k == NextRecordSays(r, ~n.mbEof)
<1>1. UNCHANGED <<events, asked, writer, m_instance, objects, call, misused, used,
                  acked>>
  BY DEF NextRecord
<1>2. call[r].at = "idle" /\ c \in Conn /\ v \in VM /\ vms[c][v].insert = 0
  BY FieldTypes, ThreadsAssumption DEF NextRecord, Reads, Statement, At
<1>3. vms[c][v] \in Statements /\ q \in QueryType /\ told[r] \in Knowledge
  BY <1>2 DEF Typed
<1>4. s \in Statements /\ s.insert = 0
  <2> DEFINE a == IF vms[c][v].at < Len(events) THEN vms[c][v].at + 1 ELSE 0
  <2>1. s = [vms[c][v] EXCEPT !.at = a]
    BY DEF SelectStep, Statement
  <2>2. a \in Nat
    BY <1>3 DEF Statements
  <2> HIDE DEF a
  <2> QED
    BY <2>1, <2>2, <1>2, <1>3 DEF Statements
<1>5. n \in QueryType /\ n.mpVM = v
  BY <1>3 DEF nextRow, QueryType
<1>6. k \in Knowledge
  <2> DEFINE yes == ~n.mbEof
           m == IF yes THEN told[r].seen + 1 ELSE told[r].seen
  <2>1. k = [told[r] EXCEPT !.more = yes, !.seen = m]
    BY DEF NextRecordSays
  <2>2. yes \in BOOLEAN
    OBVIOUS
  <2>3. told[r] \in Knowledge
    BY <1>3
  <2>4. m \in Nat
    BY <2>3 DEF Knowledge
  <2> HIDE DEF yes, m
  <2> QED
    BY <2>1, <2>2, <2>3, <2>4 DEF Knowledge
<1>7. /\ vms' = [vms EXCEPT ![c][v] = s]
      /\ m_rs' = [m_rs EXCEPT ![c] = n]
      /\ told' = [told EXCEPT ![r] = k]
  BY DEF NextRecord
<1>8. /\ vms \in [Conn -> [VM -> Statements]] /\ m_rs \in [Conn -> QueryType]
      /\ told \in [Reader -> Knowledge]
  BY DEF Typed
<1> HIDE DEF c, s, n, k
<1>9. vms' \in [Conn -> [VM -> Statements]] /\ OnlyStatement(c, v, s)
  BY <1>2, <1>4, <1>7, <1>8, StatementSet
<1>10. m_rs' \in [Conn -> QueryType] /\ OnlyQuery(c, n)
  BY <1>2, <1>5, <1>7, <1>8, QuerySet
<1>11. /\ told' \in [Reader -> Knowledge]
       /\ \A u \in Reader : u # r => told'[u].more = told[u].more
  BY <1>6, <1>7, <1>8
<1>12. Typed'
  BY <1>1, <1>9, <1>10, <1>11 DEF Typed
<1>13. \A d \in Conn : /\ m_rs'[d].mpVM = m_rs[d].mpVM
                       /\ d # c => m_rs'[d].mbEof = m_rs[d].mbEof
  BY <1>5, <1>10 DEF OnlyQuery
<1> QED
  BY <1>1, <1>2, <1>4, <1>9, <1>11, <1>12, <1>13 DEF c, NextRecordChanges

NextRecordRerunsChanges(r) ==
    /\ Typed' /\ OthersStay(r)
    /\ call[r].at = "idle" /\ Instance(r) \in Conn
    /\ call'[r].at = "rerun" /\ call'[r].this = Instance(r) /\ call'[r].pVM \in VM
    /\ UNCHANGED <<events, asked, writer, vms, m_rs, m_instance, objects, told,
                 misused, used, acked>>

LEMMA NextRecordRerunsEffect ==
    ASSUME Typed, NEW r \in Reader, NextRecordReruns(r)
    PROVE  NextRecordRerunsChanges(r)
<1> DEFINE c == Instance(r)
           v == m_rs[c].mpVM
           k == [Idle EXCEPT !.at = "rerun", !.this = c, !.pVM = v]
<1>1. UNCHANGED <<events, asked, writer, vms, m_rs, m_instance, objects, told,
                  misused, used, acked>>
  BY DEF NextRecordReruns, sqliteVars, storageVars, historyVars
<1>2. c \in Conn /\ v \in VM /\ call[r].at = "idle" /\ r \in Thread
  BY FieldTypes, ThreadsAssumption DEF NextRecordReruns, Reads, At
<1>3. call' = [call EXCEPT ![r] = k] /\ call \in [Thread -> Calls]
  BY DEF NextRecordReruns, Typed
<1>4. k \in Calls /\ k.at = "rerun" /\ k.this = c /\ k.pVM = v
  BY <1>2 DEF Idle, Calls, Steps
<1> HIDE DEF k
<1>5. call' \in [Thread -> Calls] /\ OthersStay(r) /\ call'[r] = k
  BY <1>2, <1>3, <1>4, CallSet
<1>6. Typed'
  BY <1>1, <1>5 DEF Typed
<1> QED
  BY <1>1, <1>2, <1>4, <1>5, <1>6 DEF NextRecordRerunsChanges

RerunReturnsChanges(r) == LET c == This(r) IN
    /\ Typed' /\ OthersStay(r)
    /\ call[r].at = "rerunning" /\ call'[r] = Idle
    /\ writer = c /\ writer' = NoConn
    /\ events' = Append(events, vms[c][pVM(r)].insert)
    /\ \A d \in Conn : /\ m_rs'[d].mpVM = m_rs[d].mpVM
                       /\ m_rs'[d].mbEof = IF d = c THEN TRUE ELSE m_rs[d].mbEof
    /\ \A u \in Reader : told'[u].more = IF u = r THEN FALSE ELSE told[u].more
    /\ UNCHANGED <<asked, vms, m_instance, objects, misused, used, acked>>

LEMMA RerunReturnsEffect ==
    ASSUME Typed, NEW r \in Reader, RerunReturns(r), This(r) \in Conn,
           vms[This(r)][pVM(r)].insert \in Nat
    PROVE  RerunReturnsChanges(r)
<1> DEFINE c == This(r)
           q == nextRow(m_rs[c], 0)
           i == vms[c][pVM(r)].insert
<1>1. /\ UNCHANGED <<asked, vms, m_instance, objects, misused, used, acked>>
      /\ call[r].at = "rerunning"
  BY DEF RerunReturns, At
<1>2. writer = c /\ writer' = NoConn /\ events' = Append(events, i)
  BY DEF RerunReturns, Commit
<1>3. m_rs' = [m_rs EXCEPT ![c] = q] /\ call' = [call EXCEPT ![r] = Idle]
  BY DEF RerunReturns
<1>4. LastRowIs(r, i, ~q.mbEof)
  BY DEF RerunReturns
<1>5. m_rs[c] \in QueryType /\ r \in Thread
  BY ThreadsAssumption DEF Typed
<1>6. q \in QueryType /\ q.mpVM = m_rs[c].mpVM /\ q.mbEof = TRUE
  BY <1>5 DEF nextRow, QueryType
<1>7. Idle \in Calls
  BY DEF Idle, Calls, Steps
<1>8. call \in [Thread -> Calls] /\ m_rs \in [Conn -> QueryType] /\ told \in [Reader -> Knowledge]
  BY DEF Typed
<1> HIDE DEF q
<1>9. call' \in [Thread -> Calls] /\ OthersStay(r) /\ call'[r] = Idle
  BY <1>3, <1>5, <1>7, <1>8, CallSet
<1>10. m_rs' \in [Conn -> QueryType] /\ OnlyQuery(c, q)
  BY <1>3, <1>6, <1>8, QuerySet
<1>11. LastRowIs(r, i, FALSE)
  BY <1>4, <1>6
<1>12. /\ told' \in [Reader -> Knowledge]
       /\ \A u \in Reader : told'[u].more = IF u = r THEN FALSE ELSE told[u].more
  BY <1>8, <1>11, LastRowTyped
<1>13. events' \in Seq(Nat)
  BY <1>2 DEF Typed
<1>14. Typed'
  BY <1>1, <1>2, <1>9, <1>10, <1>12, <1>13 DEF Typed
<1> QED
  BY <1>1, <1>2, <1>6, <1>9, <1>10, <1>12, <1>14 DEF OnlyQuery, RerunReturnsChanges

ProcessEndsChanges(p) ==
    /\ Typed'
    /\ \A t \in Thread : call'[t] = IF ProcessOf(t) = p THEN Idle ELSE call[t]
    /\ \A c \in Conn : /\ c \in objects[p] => m_rs'[c] = NullQuery
                       /\ c \notin objects[p] => m_rs'[c] = m_rs[c]
    /\ \A c \in Conn, v \in VM : vms'[c][v] = IF c \in objects[p] THEN Free ELSE vms[c][v]
    /\ \A o \in Process : /\ m_instance'[o] = IF o = p THEN NoConn ELSE m_instance[o]
                          /\ objects'[o] = IF o = p THEN {} ELSE objects[o]
    /\ writer' = IF writer \in objects[p] THEN NoConn ELSE writer
    /\ \A r \in Reader : told'[r].more = IF ProcessOf(r) = p THEN FALSE ELSE told[r].more
    /\ used' = used \ objects[p] /\ misused' = misused \ objects[p]
    /\ UNCHANGED <<events, asked, acked>>

LEMMA ProcessEndsEffect ==
    ASSUME Typed, NEW p \in Process, ProcessEnds(p)
    PROVE  ProcessEndsChanges(p)
<1>1. /\ UNCHANGED <<events, asked, acked>>
      /\ used' = used \ objects[p] /\ misused' = misused \ objects[p]
      /\ writer' = IF writer \in objects[p] THEN NoConn ELSE writer
  BY DEF ProcessEnds, Disconnect
<1>2. /\ call' \in [Thread -> Calls]
      /\ \A t \in Thread : call'[t] = IF ProcessOf(t) = p THEN Idle ELSE call[t]
  <2>1. call' = [t \in Thread |-> IF ProcessOf(t) = p THEN Idle ELSE call[t]]
    BY DEF ProcessEnds
  <2>2. Idle \in Calls
    BY DEF Idle, Calls, Steps
  <2>3. call \in [Thread -> Calls]
    BY DEF Typed
  <2> QED
    BY <2>1, <2>2, <2>3
<1>3. /\ m_rs' \in [Conn -> QueryType]
      /\ \A c \in Conn : /\ c \in objects[p] => m_rs'[c] = NullQuery
                         /\ c \notin objects[p] => m_rs'[c] = m_rs[c]
  <2>1. m_rs' = [c \in Conn |-> IF c \in objects[p] THEN NullQuery ELSE m_rs[c]]
    BY DEF ProcessEnds
  <2>2. NullQuery \in QueryType
    BY DEF NullQuery, QueryType
  <2>3. m_rs \in [Conn -> QueryType]
    BY DEF Typed
  <2> QED
    BY <2>1, <2>2, <2>3
<1>4. /\ vms' \in [Conn -> [VM -> Statements]]
      /\ \A c \in Conn, v \in VM : vms'[c][v] = IF c \in objects[p] THEN Free ELSE vms[c][v]
  <2>1. vms' = [c \in Conn |-> IF c \in objects[p] THEN [v \in VM |-> Free] ELSE vms[c]]
    BY DEF ProcessEnds, Disconnect
  <2>2. Free \in Statements
    BY DEF Free, Statements
  <2>3. vms \in [Conn -> [VM -> Statements]]
    BY DEF Typed
  <2> QED
    BY <2>1, <2>2, <2>3
<1>5. /\ m_instance' \in [Process -> Conn \cup {NoConn}] /\ objects' \in [Process -> SUBSET Conn]
      /\ \A o \in Process : /\ m_instance'[o] = IF o = p THEN NoConn ELSE m_instance[o]
                            /\ objects'[o] = IF o = p THEN {} ELSE objects[o]
  BY DEF Typed, ProcessEnds
<1>6. /\ told' \in [Reader -> Knowledge]
      /\ \A r \in Reader : told'[r].more = IF ProcessOf(r) = p THEN FALSE ELSE told[r].more
  <2>1. told' = [r \in Reader |-> IF ProcessOf(r) = p THEN NothingTold(0) ELSE told[r]]
    BY DEF ProcessEnds
  <2>2. NothingTold(0) \in Knowledge /\ NothingTold(0).more = FALSE
    BY DEF NothingTold, Knowledge
  <2>3. told \in [Reader -> Knowledge]
    BY DEF Typed
  <2> QED
    BY <2>1, <2>2, <2>3
<1>7. Typed'
  BY <1>1, <1>2, <1>3, <1>4, <1>5, <1>6 DEF Typed
<1> QED
  BY <1>1, <1>2, <1>3, <1>4, <1>5, <1>6, <1>7 DEF ProcessEndsChanges

-----------------------------------------------------------------------------
(* Every action keeps the invariant.                                        *)

FieldsTyped ==
    /\ asked \in Nat
    /\ \A t \in Thread : call[t].key \in Nat
    /\ \A c \in Conn : m_rs[c].mpVM \in VM \cup {NoVM}
    /\ \A c \in Conn, v \in VM : vms[c][v].insert \in Int /\ vms[c][v].at \in Nat
    /\ \A t \in Thread : call[t].at \in Compiled \cup {"rerun", "rerunning"} =>
         This(t) \in Conn /\ pVM(t) \in VM /\ This(t) \in objects[ProcessOf(t)]

LEMMA CallsAtHome ==
    ASSUME Typed, Homes
    PROVE  FieldsTyped
<1>1. asked \in Nat
  BY DEF Typed
<1> QED
  BY <1>1, FieldTypes DEF FieldsTyped, Homes, This, pVM

LEMMA Appended ==
    ASSUME Typed, NEW k, events' = Append(events, k), Typed'
    PROVE  /\ Len(events) \in Nat /\ Len(events') = Len(events) + 1
           /\ events'[Len(events) + 1] = k
           /\ \A i \in 1 .. Len(events) : events'[i] = events[i]
BY DEF Typed

LEMMA SeesNoInstanceKeeps ==
    ASSUME StorageInv, NEW t \in Thread, SeesNoInstance(t)
    PROVE  StorageInv'
<1> USE ThreadsAssumption, HandlesAssumption
      DEF StorageInv, FieldsTyped, SeesNoInstanceChanges, This, pVM, Instance,
          HasSelect, Compiled, Assigning, Stepping, OthersStay
<1>1. SeesNoInstanceChanges(t)
  BY SeesNoInstanceEffect
<1>2. Homes' /\ Stepped' /\ OneSteps' /\ StatementKeys'
  BY <1>1 DEF Homes, Stepped, OneSteps, StatementKeys
<1>3. RowKeys' /\ CallKeys' /\ OwnInsert' /\ NotShared'
  BY <1>1 DEF RowKeys, CallKeys, OwnInsert, NotShared
<1>4. QueryAlive' /\ OnlySelectsRun' /\ SelectIsQuerys' /\ SelectGone'
  BY <1>1 DEF QueryAlive, OnlySelectsRun, SelectIsQuerys, SelectGone
<1>5. InTable'
  BY <1>1 DEF InTable
<1>6. UsedEnded'
  BY <1>1 DEF UsedEnded
<1>7. Quiet'
  BY <1>1 DEF Quiet
<1> QED
  BY <1>1, <1>2, <1>3, <1>4, <1>5, <1>6, <1>7

LEMMA LogEventKeeps ==
    ASSUME StorageInv, NEW t \in Thread, LogEvent(t)
    PROVE  StorageInv'
<1> USE ThreadsAssumption, HandlesAssumption
      DEF StorageInv, FieldsTyped, LogEventChanges, This, pVM, Instance, HasSelect,
          Compiled, Assigning, Stepping, OthersStay
<1>0. FieldsTyped
  BY CallsAtHome
<1>1. LogEventChanges(t)
  BY LogEventEffect
<1>2. Homes' /\ Stepped' /\ OneSteps' /\ OwnInsert'
  BY <1>1 DEF Homes, Stepped, OneSteps, OwnInsert
<1>3. StatementKeys'
  BY <1>0, <1>1 DEF StatementKeys
<1>4. RowKeys'
  BY <1>0, <1>1 DEF RowKeys
<1>5. CallKeys'
  BY <1>0, <1>1 DEF CallKeys
<1>6. NotShared' /\ QueryAlive' /\ OnlySelectsRun' /\ SelectIsQuerys'
  BY <1>1 DEF NotShared, QueryAlive, OnlySelectsRun, SelectIsQuerys
<1>7. InTable'
  BY <1>1 DEF InTable
<1>8. SelectGone' /\ UsedEnded'
  BY <1>1 DEF SelectGone, UsedEnded
<1>9. Quiet'
  BY <1>1 DEF Quiet
<1> QED
  BY <1>1, <1>2, <1>3, <1>4, <1>5, <1>6, <1>7, <1>8, <1>9

LEMMA InsertTimedValuesKeeps ==
    ASSUME StorageInv, NEW t \in Thread, InsertTimedValues(t)
    PROVE  StorageInv'
<1> USE ThreadsAssumption, HandlesAssumption
      DEF StorageInv, FieldsTyped, InsertTimedValuesChanges, This, pVM, Instance,
          HasSelect, Compiled, Assigning, Stepping, OthersStay, OnlyStatement,
          InsertOf, Free
<1>0. FieldsTyped
  BY CallsAtHome
<1>1. PICK v \in VM : InsertTimedValuesChanges(t, v)
  BY InsertTimedValuesEffect
<1>2. call[t].key \in Nat \ {0} /\ call[t].key <= asked
  BY <1>0, <1>1 DEF CallKeys
<1>3. Homes' /\ OneSteps' /\ RowKeys' /\ CallKeys'
  BY <1>1 DEF Homes, OneSteps, RowKeys, CallKeys
<1>4. Stepped'
  BY <1>0, <1>2, <1>1 DEF Stepped
<1>5. StatementKeys'
  BY <1>0, <1>2, <1>1 DEF StatementKeys
<1>6. OwnInsert'
  BY <1>0, <1>2, <1>1 DEF OwnInsert, CallKeys, QueryAlive, InsertOf
<1>7. NotShared'
  <2>1. InsertOf(call[t].key) # Free
    BY <1>2 DEF InsertOf, Free
  <2>2. \A u \in Thread : /\ call[u].at \in Compiled
                           /\ This(u) = Instance(t) /\ This(u) \notin misused
                           => vms[Instance(t)][pVM(u)] # Free
    <3>1. \A u \in Thread : call[u].at \in Compiled => InsertOf(call[u].key) # Free
      BY DEF CallKeys, InsertOf, Free
    <3> QED
      BY <3>1 DEF OwnInsert
  <2> QED
    BY <1>0, <1>1, <2>2 DEF NotShared
<1>8. QueryAlive'
  BY <1>0, <1>2, <1>1 DEF QueryAlive, InsertOf
<1>9. InTable'
  BY <1>1 DEF InTable
<1>10. OnlySelectsRun'
  BY <1>1 DEF OnlySelectsRun
<1>11. SelectIsQuerys'
  BY <1>0, <1>2, <1>1 DEF SelectIsQuerys
<1>12. SelectGone'
  BY <1>0, <1>2, <1>1 DEF SelectGone
<1>13. UsedEnded'
  BY <1>0, <1>2, <1>1 DEF UsedEnded
<1>14. Quiet'
  BY <1>1 DEF Quiet
<1> QED
  BY <1>1, <1>3, <1>4, <1>5, <1>6, <1>7, <1>8, <1>9, <1>10, <1>11, <1>12, <1>13, <1>14

LEMMA BeginWriteKeeps ==
    ASSUME StorageInv, NEW t \in Thread, BeginWrite(t)
    PROVE  StorageInv'
<1> USE ThreadsAssumption, HandlesAssumption
      DEF StorageInv, FieldsTyped, BeginWriteChanges, This, pVM, Instance, HasSelect,
          Compiled, Assigning, Stepping, OthersStay
<1>0. FieldsTyped
  BY CallsAtHome
<1>1. This(t) \in Conn /\ pVM(t) \in VM /\ This(t) \in objects[ProcessOf(t)]
  BY <1>0 DEF BeginWrite, At
<1>2. BeginWriteChanges(t)
  BY <1>1, BeginWriteEffect
<1>3. Homes' /\ StatementKeys' /\ RowKeys' /\ CallKeys'
  BY <1>1, <1>2 DEF Homes, StatementKeys, RowKeys, CallKeys
<1>4. Stepped'
  BY <1>0, <1>1, <1>2 DEF Stepped
<1>5. OneSteps'
  BY <1>0, <1>1, <1>2 DEF OneSteps, Stepped
<1>6. OwnInsert' /\ NotShared' /\ QueryAlive' /\ OnlySelectsRun'
  BY <1>1, <1>2 DEF OwnInsert, NotShared, QueryAlive, OnlySelectsRun
<1>7. InTable'
  BY <1>1, <1>2 DEF InTable
<1>8. SelectIsQuerys' /\ SelectGone' /\ UsedEnded'
  BY <1>1, <1>2 DEF SelectIsQuerys, SelectGone, UsedEnded
<1>9. Quiet'
  BY <1>1, <1>2 DEF Quiet
<1> QED
  BY <1>1, <1>2, <1>3, <1>4, <1>5, <1>6, <1>7, <1>8, <1>9

LEMMA InsertedKeeps ==
    ASSUME StorageInv, NEW t \in Thread, Inserted(t)
    PROVE  StorageInv'
<1> USE ThreadsAssumption, HandlesAssumption
      DEF StorageInv, FieldsTyped, InsertedChanges, This, pVM, Instance, HasSelect,
          Compiled, Assigning, Stepping, OthersStay
<1>0. FieldsTyped
  BY CallsAtHome
<1>1. This(t) \in Conn /\ pVM(t) \in VM /\ This(t) \in objects[ProcessOf(t)]
  BY <1>0 DEF Inserted, At
<1>2. vms[This(t)][pVM(t)].insert \in Nat \ {0}
  BY <1>0, <1>1 DEF Inserted, At, Stepped, Stepping
<1>3. InsertedChanges(t)
  BY <1>1, <1>2, InsertedEffect
<1>4. /\ Len(events) \in Nat /\ Len(events') = Len(events) + 1
      /\ events'[Len(events) + 1] = vms[This(t)][pVM(t)].insert
      /\ \A i \in 1 .. Len(events) : events'[i] = events[i]
  BY <1>3, Appended
<1>5. Homes' /\ OneSteps' /\ StatementKeys' /\ CallKeys'
  BY <1>1, <1>2, <1>3 DEF Homes, OneSteps, StatementKeys, CallKeys
<1>6. Stepped'
  BY <1>0, <1>1, <1>2, <1>3 DEF Stepped, OneSteps
<1>7. RowKeys'
  BY <1>4, <1>0, <1>1, <1>2, <1>3 DEF RowKeys, StatementKeys
<1>8. OwnInsert' /\ NotShared' /\ QueryAlive' /\ OnlySelectsRun'
  BY <1>1, <1>2, <1>3 DEF OwnInsert, NotShared, QueryAlive, OnlySelectsRun
<1>9. InTable'
  <2>1. This(t) \notin misused => events'[Len(events) + 1] = call[t].key
    <3>1. This(t) \notin misused => vms[This(t)][pVM(t)] = InsertOf(call[t].key)
      BY <1>3 DEF OwnInsert
    <3> QED
      BY <3>1, <1>4 DEF InsertOf
  <2>2. ASSUME NEW u \in Thread, (call[u].at \in Assigning)', (This(u) \notin misused)'
        PROVE  (\E i \in 1 .. Len(events) : events[i] = call[u].key)'
    <3>1. CASE u = t
      BY <3>1, <2>1, <2>2, <1>3, <1>4
    <3>2. CASE u # t
      BY <3>2, <2>2, <1>3, <1>4 DEF InTable
    <3> QED
      BY <3>1, <3>2
  <2> QED
    BY <2>2 DEF InTable
<1>10. SelectIsQuerys' /\ SelectGone' /\ UsedEnded'
  BY <1>1, <1>2, <1>3 DEF SelectIsQuerys, SelectGone, UsedEnded
<1>11. Quiet'
  BY <1>1, <1>2, <1>3 DEF Quiet
<1> QED
  BY <1>1, <1>2, <1>3, <1>5, <1>6, <1>7, <1>8, <1>9, <1>10, <1>11

LEMMA ReadsOldKeeps ==
    ASSUME StorageInv, NEW t \in Thread, ReadsOld(t)
    PROVE  StorageInv'
<1> USE ThreadsAssumption, HandlesAssumption
      DEF StorageInv, FieldsTyped, ReadsOldChanges, This, pVM, Instance, HasSelect,
          Compiled, Assigning, Stepping, OthersStay
<1>1. This(t) \in Conn /\ pVM(t) \in VM /\ This(t) \in objects[ProcessOf(t)]
  BY CallsAtHome DEF ReadsOld, At
<1>2. ReadsOldChanges(t)
  BY <1>1, ReadsOldEffect
<1>3. Homes' /\ Stepped' /\ OneSteps' /\ StatementKeys'
  BY <1>1, <1>2 DEF Homes, Stepped, OneSteps, StatementKeys
<1>4. RowKeys' /\ CallKeys' /\ OwnInsert' /\ NotShared'
  BY <1>1, <1>2 DEF RowKeys, CallKeys, OwnInsert, NotShared
<1>5. QueryAlive' /\ OnlySelectsRun' /\ SelectIsQuerys' /\ SelectGone'
  BY <1>1, <1>2 DEF QueryAlive, OnlySelectsRun, SelectIsQuerys, SelectGone
<1>6. InTable'
  BY <1>1, <1>2 DEF InTable
<1>7. UsedEnded'
  BY <1>1, <1>2 DEF UsedEnded
<1>8. Quiet'
  BY <1>1, <1>2 DEF Quiet
<1> QED
  BY <1>1, <1>2, <1>3, <1>4, <1>5, <1>6, <1>7, <1>8

LEMMA FinalizesOldKeeps ==
    ASSUME StorageInv, NEW t \in Thread, FinalizesOld(t)
    PROVE  StorageInv'
<1> USE ThreadsAssumption, HandlesAssumption
      DEF StorageInv, FieldsTyped, FinalizesOldChanges, This, pVM, Instance,
          HasSelect, Compiled, Assigning, Stepping, OthersStay, Free
<1>0. FieldsTyped
  BY CallsAtHome
<1>1. This(t) \in Conn /\ pVM(t) \in VM /\ This(t) \in objects[ProcessOf(t)]
  BY <1>0 DEF FinalizesOld, At
<1>2. FinalizesOldChanges(t)
  BY <1>1, FinalizesOldEffect
<1>3. \A w \in VM : vms'[This(t)][w].insert # 0
  BY <1>0, <1>1, <1>2 DEF SelectGone, SelectIsQuerys
<1>4. Homes' /\ OneSteps' /\ RowKeys' /\ CallKeys'
  BY <1>1, <1>2 DEF Homes, OneSteps, RowKeys, CallKeys
<1>5. Stepped'
  BY <1>0, <1>3, <1>1, <1>2 DEF Stepped
<1>6. StatementKeys'
  BY <1>0, <1>3, <1>1, <1>2 DEF StatementKeys
<1>7. OwnInsert'
  <2>1. \A u \in Thread : call'[u].this = call[u].this /\ call'[u].pVM = call[u].pVM
                           /\ call'[u].key = call[u].key
                           /\ (call'[u].at \in Compiled <=> call[u].at \in Compiled)
    BY <1>2
  <2>2. ASSUME NEW u \in Thread, call[u].at \in Compiled, This(u) \notin misused'
        PROVE  vms'[This(u)][pVM(u)] = vms[This(u)][pVM(u)] /\ m_rs'[This(u)].mpVM # pVM(u)
    BY <2>2, <1>0, <1>2 DEF OwnInsert
  <2>3. misused \subseteq misused'
    BY <1>2
  <2> QED
    BY <2>1, <2>2, <2>3 DEF OwnInsert
<1>8. NotShared' /\ OnlySelectsRun' /\ UsedEnded'
  BY <1>1, <1>2 DEF NotShared, OnlySelectsRun, UsedEnded
<1>9. QueryAlive'
  BY <1>0, <1>1, <1>2 DEF QueryAlive
<1>10. InTable'
  BY <1>1, <1>2 DEF InTable
<1>11. SelectIsQuerys'
  BY <1>0, <1>3, <1>1, <1>2 DEF SelectIsQuerys
<1>12. SelectGone'
  BY <1>0, <1>3, <1>1, <1>2 DEF SelectGone
<1>13. Quiet'
  BY <1>1, <1>2 DEF Quiet
<1> QED
  BY <1>1, <1>2, <1>4, <1>5, <1>6, <1>7, <1>8, <1>9, <1>10, <1>11, <1>12, <1>13

LEMMA LogReturnsKeeps ==
    ASSUME StorageInv, NEW t \in Thread, LogReturns(t)
    PROVE  StorageInv'
<1> USE ThreadsAssumption, HandlesAssumption
      DEF StorageInv, FieldsTyped, LogReturnsChanges, This, pVM, Instance, HasSelect,
          Compiled, Assigning, Stepping, OthersStay, OnlyQuery, Idle
<1>0. FieldsTyped
  BY CallsAtHome
<1>1. This(t) \in Conn /\ pVM(t) \in VM /\ This(t) \in objects[ProcessOf(t)]
  BY <1>0 DEF LogReturns, At
<1>2. LogReturnsChanges(t)
  BY <1>1, LogReturnsEffect
<1>3. /\ Query(pVM(t), InsertOf(call[t].key)).mpVM = pVM(t)
      /\ Query(pVM(t), InsertOf(call[t].key)).mbEof = TRUE
  BY DEF Query, InsertOf
<1>4. This(t) \notin misused => vms[This(t)][pVM(t)] # Free
  <2>1. call[t].key \in 1 .. asked
    BY <1>2 DEF CallKeys
  <2>2. InsertOf(call[t].key) # Free
    BY <2>1 DEF InsertOf, Free
  <2> QED
    BY <2>2, <1>2 DEF OwnInsert
<1>5. This(t) \in used' /\ \A c \in used' : c \in used \/ c = This(t)
  BY <1>2
<1>6. Homes' /\ Stepped' /\ OneSteps' /\ StatementKeys'
  BY <1>1, <1>2 DEF Homes, Stepped, OneSteps, StatementKeys
<1>7. RowKeys' /\ CallKeys' /\ NotShared' /\ OnlySelectsRun'
  BY <1>1, <1>2 DEF RowKeys, CallKeys, NotShared, OnlySelectsRun
<1>8. OwnInsert'
  BY <1>3, <1>0, <1>1, <1>2 DEF OwnInsert, NotShared
<1>9. QueryAlive'
  BY <1>3, <1>4, <1>0, <1>1, <1>2 DEF QueryAlive
<1>10. InTable'
  BY <1>1, <1>2 DEF InTable
<1>11. SelectIsQuerys'
  BY <1>3, <1>0, <1>1, <1>2 DEF SelectIsQuerys, SelectGone
<1>12. SelectGone'
  BY <1>3, <1>0, <1>1, <1>2 DEF SelectGone
<1>13. UsedEnded'
  BY <1>3, <1>0, <1>1, <1>2 DEF UsedEnded, SelectGone
<1>14. Quiet'
  BY <1>0, <1>1, <1>2 DEF Quiet, Homes
<1> QED
  BY <1>1, <1>2, <1>6, <1>7, <1>8, <1>9, <1>10, <1>11, <1>12, <1>13, <1>14

LEMMA NextRecordKeeps ==
    ASSUME StorageInv, NEW r \in Reader, NextRecord(r)
    PROVE  StorageInv'
<1> USE ThreadsAssumption, HandlesAssumption
      DEF StorageInv, FieldsTyped, NextRecordChanges, This, pVM, Instance, HasSelect,
          Compiled, Assigning, Stepping, OnlyStatement
<1>0. FieldsTyped
  BY CallsAtHome
<1>1. PICK s \in Statements : NextRecordChanges(r, s)
  BY NextRecordEffect
<1>2. Homes' /\ OneSteps' /\ StatementKeys' /\ RowKeys'
  BY <1>1 DEF Homes, OneSteps, StatementKeys, RowKeys
<1>3. Stepped'
  BY <1>0, <1>1 DEF Stepped
<1>4. CallKeys' /\ NotShared' /\ OnlySelectsRun' /\ SelectIsQuerys'
  BY <1>1 DEF CallKeys, NotShared, OnlySelectsRun, SelectIsQuerys
<1>5. OwnInsert'
  BY <1>0, <1>1 DEF OwnInsert, InsertOf
<1>6. QueryAlive'
  BY <1>0, <1>1 DEF QueryAlive, Free
<1>7. InTable'
  BY <1>1 DEF InTable
<1>8. SelectGone'
  BY <1>0, <1>1 DEF SelectGone
<1>9. UsedEnded'
  BY <1>1 DEF UsedEnded
<1>10. Instance(r) \notin used /\ call[r].at = "idle" /\ r \in Thread
  BY <1>1 DEF UsedEnded
<1>11. Quiet'
  BY <1>1, <1>10 DEF Quiet
<1> QED
  BY <1>1, <1>2, <1>3, <1>4, <1>5, <1>6, <1>7, <1>8, <1>9, <1>11

LEMMA NextRecordRerunsKeeps ==
    ASSUME StorageInv, NEW r \in Reader, NextRecordReruns(r)
    PROVE  StorageInv'
<1> USE ThreadsAssumption, HandlesAssumption
      DEF StorageInv, FieldsTyped, NextRecordRerunsChanges, This, pVM, Instance,
          HasSelect, Compiled, Assigning, Stepping, OthersStay
<1>1. NextRecordRerunsChanges(r)
  BY NextRecordRerunsEffect
<1>2. Homes' /\ Stepped' /\ OneSteps' /\ StatementKeys'
  BY <1>1 DEF Homes, Stepped, OneSteps, StatementKeys
<1>3. RowKeys' /\ CallKeys' /\ OwnInsert' /\ NotShared'
  BY <1>1 DEF RowKeys, CallKeys, OwnInsert, NotShared
<1>4. QueryAlive' /\ OnlySelectsRun' /\ SelectIsQuerys' /\ SelectGone'
  BY <1>1 DEF QueryAlive, OnlySelectsRun, SelectIsQuerys, SelectGone
<1>5. InTable'
  BY <1>1 DEF InTable
<1>6. UsedEnded'
  BY <1>1 DEF UsedEnded
<1>7. Quiet'
  BY <1>1 DEF Quiet
<1> QED
  BY <1>1, <1>2, <1>3, <1>4, <1>5, <1>6, <1>7

LEMMA RerunReturnsKeeps ==
    ASSUME StorageInv, NEW r \in Reader, RerunReturns(r)
    PROVE  StorageInv'
<1> USE ThreadsAssumption, HandlesAssumption
      DEF StorageInv, FieldsTyped, RerunReturnsChanges, This, pVM, Instance,
          HasSelect, Compiled, Assigning, Stepping, OthersStay
<1>0. FieldsTyped
  BY CallsAtHome
<1>1. This(r) \in Conn /\ pVM(r) \in VM /\ This(r) \in objects[ProcessOf(r)]
  BY <1>0 DEF RerunReturns, At
<1>2. vms[This(r)][pVM(r)].insert \in Nat \ {0}
  <2>1. r \in Thread /\ call[r].at = "rerunning"
    BY DEF RerunReturns, At
  <2>2. vms[This(r)][pVM(r)].insert > 0
    BY <2>1 DEF Stepped
  <2> QED
    BY <2>2, <1>0, <1>1
<1>3. RerunReturnsChanges(r)
  BY <1>1, <1>2, RerunReturnsEffect
<1>4. /\ Len(events) \in Nat /\ Len(events') = Len(events) + 1
      /\ events'[Len(events) + 1] = vms[This(r)][pVM(r)].insert
      /\ \A i \in 1 .. Len(events) : events'[i] = events[i]
  BY <1>3, Appended
<1>5. call'[r].at = "idle" /\ call'[r].this = NoConn /\ r \in Thread
  BY <1>3 DEF Idle
<1>6. /\ OthersStay(r) /\ UNCHANGED <<vms, misused>>
      /\ \A d \in Conn : m_rs'[d].mpVM = m_rs[d].mpVM
  BY <1>3
<1>7. Homes' /\ OneSteps' /\ CallKeys' /\ NotShared'
  BY <1>1, <1>3, <1>5 DEF Homes, OneSteps, CallKeys, NotShared
<1>8. Stepped'
  BY <1>0, <1>3, <1>5 DEF Stepped, OneSteps
<1>9. StatementKeys' /\ QueryAlive' /\ OnlySelectsRun' /\ SelectIsQuerys'
  BY <1>1, <1>2, <1>3 DEF StatementKeys, QueryAlive, OnlySelectsRun, SelectIsQuerys
<1>10. RowKeys'
  BY <1>4, <1>0, <1>1, <1>2, <1>3 DEF RowKeys, StatementKeys
<1>11. OwnInsert'
  BY <1>0, <1>5, <1>6 DEF OwnInsert
<1>12. InTable'
  BY <1>1, <1>3, <1>5 DEF InTable
<1>13. SelectGone'
  BY <1>0, <1>5, <1>6 DEF SelectGone
<1>14. UsedEnded'
  BY <1>0, <1>1, <1>2, <1>3 DEF UsedEnded
<1>15. Quiet'
  BY <1>1, <1>3, <1>5 DEF Quiet
<1> QED
  BY <1>1, <1>2, <1>3, <1>7, <1>8, <1>9, <1>10, <1>11, <1>12, <1>13, <1>14, <1>15

LEMMA ProcessEndsKeeps ==
    ASSUME StorageInv, NEW p \in Process, ProcessEnds(p)
    PROVE  StorageInv'
<1> USE ThreadsAssumption, HandlesAssumption
      DEF StorageInv, FieldsTyped, ProcessEndsChanges, This, pVM, Instance,
          HasSelect, Compiled, Assigning, Stepping, Idle, NullQuery, Free
<1>0. FieldsTyped
  BY CallsAtHome
<1>1. ProcessEndsChanges(p)
  BY ProcessEndsEffect
<1>2. \A u \in Thread : ProcessOf(u) # p => This(u) \notin objects[p]
  <2>1. objects[p] \subseteq Conn
    BY DEF Typed
  <2> QED
    BY <2>1 DEF Homes
<1>3. Homes' /\ OneSteps' /\ RowKeys' /\ CallKeys'
  BY <1>1 DEF Homes, OneSteps, RowKeys, CallKeys
<1>4. Stepped'
  BY <1>0, <1>2, <1>1 DEF Stepped
<1>5. StatementKeys'
  BY <1>0, <1>2, <1>1 DEF StatementKeys
<1>6. OwnInsert'
  BY <1>0, <1>2, <1>1 DEF OwnInsert
<1>7. NotShared'
  BY <1>0, <1>2, <1>1 DEF NotShared
<1>8. QueryAlive'
  BY <1>0, <1>1 DEF QueryAlive
<1>9. InTable'
  BY <1>0, <1>2, <1>1 DEF InTable
<1>10. OnlySelectsRun' /\ SelectIsQuerys' /\ UsedEnded'
  BY <1>1 DEF OnlySelectsRun, SelectIsQuerys, UsedEnded
<1>11. SelectGone'
  BY <1>0, <1>2, <1>1 DEF SelectGone
<1>12. Quiet'
  BY <1>1 DEF Quiet
<1> QED
  BY <1>1, <1>3, <1>4, <1>5, <1>6, <1>7, <1>8, <1>9, <1>10, <1>11, <1>12

LEMMA ConstructKeeps ==
    ASSUME StorageInv, NEW t \in Thread, Construct(t),
           call' \in [Thread -> Calls], OthersStay(t),
           call[t].at \in {"idle", "construct"}, call'[t].at \in {"idle", "get_instance"},
           call'[t].at = "get_instance" => call[t].at = "construct",
           call'[t].key = call[t].key, call'[t].this = call[t].this
    PROVE  StorageInv'
<1> USE ThreadsAssumption, HandlesAssumption
      DEF StorageInv, FieldsTyped, ConstructChanges, This, pVM, Instance, HasSelect,
          Compiled, Assigning, Stepping, OthersStay, OnlyStatement, OnlyQuery
<1>0. FieldsTyped
  BY CallsAtHome
<1>1. PICK c \in Conn, v \in VM, s \in Statements : ConstructChanges(t, c, v, s)
  BY ConstructEffect
<1>2. Query(v, s).mpVM = v
  BY DEF Query
<1>3. c \notin used /\ ~HasSelect(c) /\ \A u \in Thread : This(u) # c
  BY <1>1 DEF Homes
<1>4. /\ \A u \in Thread : This(u)' = This(u)
      /\ \A u \in Thread : call'[u].at \in Compiled \cup {"rerun", "rerunning"} =>
                             call'[u] = call[u]
  OBVIOUS
<1>5. \A d \in Conn : d # c => HasSelect(d)' = HasSelect(d) /\ m_rs'[d] = m_rs[d]
  BY <1>1
<1>6. Typed' /\ OneSteps' /\ RowKeys' /\ CallKeys'
  BY <1>1 DEF Typed, OneSteps, RowKeys, CallKeys
<1>7. Homes'
  <2>1. \A u \in Thread : This(u)' # NoConn => This(u)' \in objects'[ProcessOf(u)]
    BY <1>1, <1>4 DEF Homes
  <2>2. \A u \in Thread : call'[u].at \in Compiled \cup {"rerun", "rerunning"} =>
                             This(u)' # NoConn /\ pVM(u)' # NoVM
    BY <1>4 DEF Homes
  <2>3. \A p \in Process : m_instance'[p] # NoConn => m_instance'[p] \in objects'[p]
    BY <1>1 DEF Homes
  <2>4. \A p, q \in Process : p # q => objects'[p] \cap objects'[q] = {}
    BY <1>1 DEF Homes
  <2>5. \A d \in Conn : (d \in used \/ HasSelect(d))' => \E p \in Process : d \in objects'[p]
    <3>1. c \in objects'[ProcessOf(t)] /\ ProcessOf(t) \in Process
      BY <1>1
    <3>2. \A p \in Process : objects[p] \subseteq objects'[p]
      BY <1>1
    <3> HIDE DEF HasSelect
    <3> QED
      BY <3>1, <3>2, <1>1, <1>5 DEF Homes
  <2> QED
    BY <2>1, <2>2, <2>3, <2>4, <2>5 DEF Homes
<1>8. Stepped'
  BY <1>0, <1>1, <1>3 DEF Stepped
<1>9. StatementKeys'
  BY <1>0, <1>1 DEF StatementKeys
<1>10. OwnInsert'
  BY <1>0, <1>1, <1>3 DEF OwnInsert
<1>11. NotShared'
  BY <1>1 DEF NotShared
<1>12. QueryAlive'
  BY <1>0, <1>1, <1>2 DEF QueryAlive, Free
<1>13. InTable'
  BY <1>1 DEF InTable
<1>14. OnlySelectsRun'
  BY <1>0, <1>1 DEF OnlySelectsRun
<1>15. SelectIsQuerys'
  BY <1>1, <1>2, <1>3 DEF SelectIsQuerys
<1>16. SelectGone'
  <2> HIDE DEF HasSelect
  <2> QED
    BY <1>0, <1>3, <1>4, <1>5 DEF SelectGone
<1>17. UsedEnded'
  <2> HIDE DEF HasSelect
  <2> QED
    BY <1>1, <1>3, <1>5 DEF UsedEnded
<1>18. Quiet'
  BY <1>1, <1>3 DEF Quiet
<1> QED
  BY <1>6, <1>7, <1>8, <1>9, <1>10, <1>11, <1>12, <1>13, <1>14, <1>15, <1>16, <1>17,
     <1>18

LEMMA LogConstructsKeeps ==
    ASSUME StorageInv, NEW t \in Thread, LogConstructs(t)
    PROVE  StorageInv'
<1>1. call \in [Thread -> Calls]
  BY DEF StorageInv, Typed
<1>2. Construct(t) /\ call[t].at = "construct" /\ Goto(t, "get_instance")
  BY DEF LogConstructs, At
<1>3. "get_instance" \in Steps
  BY DEF Steps
<1>4. /\ call' \in [Thread -> Calls] /\ OthersStay(t) /\ call'[t].at = "get_instance"
      /\ call'[t].key = call[t].key /\ call'[t].this = call[t].this
  BY <1>1, <1>2, <1>3, Goes
<1> QED
  BY <1>2, <1>4, ConstructKeeps

LEMMA ReaderConstructsKeeps ==
    ASSUME StorageInv, NEW r \in Reader, ReaderConstructs(r)
    PROVE  StorageInv'
<1>1. call \in [Thread -> Calls] /\ r \in Thread
  BY ThreadsAssumption DEF StorageInv, Typed
<1>2. Construct(r) /\ call[r].at = "idle" /\ UNCHANGED call
  BY DEF ReaderConstructs, At
<1>3. call' \in [Thread -> Calls] /\ OthersStay(r)
  BY <1>1, <1>2 DEF OthersStay
<1> QED
  BY <1>1, <1>2, <1>3, ConstructKeeps

LEMMA StutterKeeps ==
    ASSUME StorageInv, UNCHANGED vars
    PROVE  StorageInv'
<1> USE DEF vars, sqliteVars, storageVars, historyVars, StorageInv,
            This, pVM, Instance, HasSelect
<1>1. Typed'
  BY DEF Typed
<1>2. Homes' /\ Stepped' /\ OneSteps'
  BY DEF Homes, Stepped, OneSteps
<1>3. StatementKeys' /\ RowKeys' /\ CallKeys'
  BY DEF StatementKeys, RowKeys, CallKeys
<1>4. OwnInsert' /\ NotShared' /\ QueryAlive' /\ InTable'
  BY DEF OwnInsert, NotShared, QueryAlive, InTable
<1>5. OnlySelectsRun' /\ SelectIsQuerys' /\ SelectGone' /\ UsedEnded' /\ Quiet'
  BY DEF OnlySelectsRun, SelectIsQuerys, SelectGone, UsedEnded, Quiet
<1> QED
  BY <1>1, <1>2, <1>3, <1>4, <1>5

LEMMA InitInv == StorageInit => StorageInv
<1> SUFFICES ASSUME StorageInit
             PROVE  StorageInv
  OBVIOUS
<1> USE ThreadsAssumption, HandlesAssumption
<1>1. /\ m_instance = [p \in Process |-> NoConn] /\ objects = [p \in Process |-> {}]
      /\ m_rs = [c \in Conn |-> NullQuery] /\ call = [t \in Thread |-> Idle]
      /\ told = [r \in Reader |-> NothingTold(0)] /\ used = {}
      /\ writer = NoConn /\ vms = [c \in Conn |-> [v \in VM |-> Free]]
  BY DEF StorageInit, SQLiteInit
<1>2. PICK n \in 0 .. MaxRows : events = [i \in 1 .. n |-> i] /\ asked = n
  BY DEF StorageInit, SQLiteInit
<1>3. n \in Nat /\ events \in Seq(Nat) /\ Len(events) = n /\ \A i \in 1 .. n : events[i] = i
  BY <1>2, BoundsAssumption
<1>4. \A t \in Thread : call[t].at = "idle" /\ This(t) = NoConn
  BY <1>1 DEF Idle, This
<1>5. \A c \in Conn, v \in VM : vms[c][v] = Free /\ vms[c][v].insert = -1 /\ vms[c][v].at = 0
  BY <1>1 DEF Free
<1>6. \A c \in Conn : m_rs[c].mpVM = NoVM
  BY <1>1 DEF NullQuery
<1>7. Typed
  <2>1. Idle \in Calls /\ NullQuery \in QueryType /\ Free \in Statements
        /\ NothingTold(0) \in Knowledge
    BY DEF Idle, Calls, Steps, NullQuery, QueryType, Free, Statements, NothingTold,
       Knowledge
  <2> QED
    BY <2>1, <1>1, <1>2, <1>3 DEF Typed
<1>8. Homes /\ Stepped /\ OneSteps
  BY <1>1, <1>4, <1>5 DEF Homes, Stepped, OneSteps, HasSelect, Compiled, Stepping
<1>9. StatementKeys /\ RowKeys /\ CallKeys
  BY <1>2, <1>3, <1>4, <1>5 DEF StatementKeys, RowKeys, CallKeys, Compiled
<1>10. OwnInsert /\ NotShared /\ QueryAlive /\ InTable
  BY <1>4, <1>6 DEF OwnInsert, NotShared, QueryAlive, InTable, Compiled, Assigning
<1>11. OnlySelectsRun /\ SelectIsQuerys /\ SelectGone /\ UsedEnded
  BY <1>1, <1>4, <1>5 DEF OnlySelectsRun, SelectIsQuerys, SelectGone, UsedEnded
<1>12. Quiet
  BY <1>1, <1>4 DEF Quiet, Assigning
<1> QED
  BY <1>7, <1>8, <1>9, <1>10, <1>11, <1>12 DEF StorageInv

LEMMA NextInv == StorageInv /\ [StorageNext]_vars => StorageInv'
<1> SUFFICES ASSUME StorageInv, [StorageNext]_vars
             PROVE  StorageInv'
  OBVIOUS
<1>1. CASE UNCHANGED vars
  BY <1>1, StutterKeeps
<1>2. ASSUME NEW t \in Thread, SeesNoInstance(t) PROVE StorageInv'
  BY <1>2, SeesNoInstanceKeeps
<1>3. ASSUME NEW t \in Thread, LogConstructs(t) PROVE StorageInv'
  BY <1>3, LogConstructsKeeps
<1>4. ASSUME NEW t \in Thread, LogEvent(t) PROVE StorageInv'
  BY <1>4, LogEventKeeps
<1>5. ASSUME NEW t \in Thread, InsertTimedValues(t) PROVE StorageInv'
  BY <1>5, InsertTimedValuesKeeps
<1>6. ASSUME NEW t \in Thread, BeginWrite(t) PROVE StorageInv'
  BY <1>6, BeginWriteKeeps
<1>7. ASSUME NEW t \in Thread, Inserted(t) PROVE StorageInv'
  BY <1>7, InsertedKeeps
<1>8. ASSUME NEW t \in Thread, ReadsOld(t) PROVE StorageInv'
  BY <1>8, ReadsOldKeeps
<1>9. ASSUME NEW t \in Thread, FinalizesOld(t) PROVE StorageInv'
  BY <1>9, FinalizesOldKeeps
<1>10. ASSUME NEW t \in Thread, LogReturns(t) PROVE StorageInv'
  BY <1>10, LogReturnsKeeps
<1>11. ASSUME NEW r \in Reader, ReaderConstructs(r) PROVE StorageInv'
  BY <1>11, ReaderConstructsKeeps
<1>12. ASSUME NEW r \in Reader, NextRecord(r) PROVE StorageInv'
  BY <1>12, NextRecordKeeps
<1>13. ASSUME NEW r \in Reader, NextRecordReruns(r) PROVE StorageInv'
  BY <1>13, NextRecordRerunsKeeps
<1>14. ASSUME NEW r \in Reader, RerunReturns(r) PROVE StorageInv'
  BY <1>14, RerunReturnsKeeps
<1>15. ASSUME NEW p \in Process, ProcessEnds(p) PROVE StorageInv'
  BY <1>15, ProcessEndsKeeps
<1> QED
  BY <1>1, <1>2, <1>3, <1>4, <1>5, <1>6, <1>7, <1>8, <1>9, <1>10,
     <1>11, <1>12, <1>13, <1>14, <1>15 DEF StorageNext

THEOREM StorageInvariant == StorageSpec => []StorageInv
<1>1. StorageInit => StorageInv
  BY InitInv
<1>2. StorageInv /\ [StorageNext]_vars => StorageInv'
  BY NextInv
<1> QED
  BY <1>1, <1>2, PTL DEF StorageSpec

-----------------------------------------------------------------------------
(* One storage object per process.                                          *)

\* Who makes it, or logs before the first entry has returned, has no other
\* thread of its process beside it.
Alone ==
    \A t, u \in Thread :
      /\ t # u /\ ProcessOf(t) = ProcessOf(u)
      /\ call[t].at # "idle" /\ Instance(t) \notin used
      => call[u].at = "idle"
Constructing == \A t \in Thread : call[t].at = "construct" => Instance(t) = NoConn

AloneInv == OneStorage /\ Alone /\ Constructing

\* A step inside a call, or out of one, that makes no storage.
LEMMA InsideCallAlone ==
    ASSUME AloneInv, NEW t \in Thread, OthersStay(t),
           UNCHANGED <<m_instance, objects>>, used \subseteq used',
           call[t].at # "idle" \/ call'[t].at = "idle",
           call'[t].at = "construct" => Instance(t) = NoConn
    PROVE  AloneInv'
<1>1. OneStorage'
  BY DEF AloneInv, OneStorage
<1>2. Alone'
  BY DEF AloneInv, Alone, Instance, OthersStay
<1>3. Constructing'
  BY DEF AloneInv, Constructing, Instance, OthersStay
<1> QED
  BY <1>1, <1>2, <1>3 DEF AloneInv

\* The monitor thread's first entry has no other beside it, any later one finds
\* the storage made.
LEMMA LogEventAlone ==
    ASSUME StorageInv, AloneInv, NEW t \in Thread, LogEvent(t)
    PROVE  AloneInv'
<1>1. LogEventChanges(t)
  BY LogEventEffect DEF StorageInv
<1>2. \/ Instance(t) \in used
      \/ \A u \in Thread : ProcessOf(u) = ProcessOf(t) => call[u].at = "idle"
  BY DEF LogEvent, FirstEntryReturned, NobodyElseLogs, At
<1>3. OneStorage'
  BY <1>1 DEF AloneInv, OneStorage, LogEventChanges
<1>4. Alone'
  BY <1>1, <1>2 DEF AloneInv, Alone, Instance, OthersStay, LogEventChanges
<1>5. Constructing'
  BY <1>1 DEF AloneInv, Constructing, Instance, OthersStay, LogEventChanges
<1> QED
  BY <1>3, <1>4, <1>5 DEF AloneInv

LEMMA ConstructAlone ==
    ASSUME StorageInv, AloneInv, NEW t \in Thread, Construct(t),
           OthersStay(t), Instance(t) = NoConn,
           call'[t].at # "construct",
           \A u \in Thread : u # t /\ ProcessOf(u) = ProcessOf(t) => call[u].at = "idle"
    PROVE  AloneInv'
<1>1. PICK c \in Conn, v \in VM, s \in Statements : ConstructChanges(t, c, v, s)
  BY ConstructEffect DEF StorageInv
<1>2. /\ ProcessOf(t) \in Process /\ used' = used
      /\ \A o \in Process :
           /\ m_instance'[o] = IF o = ProcessOf(t) THEN c ELSE m_instance[o]
           /\ objects'[o] = IF o = ProcessOf(t) THEN objects[o] \cup {c}
                            ELSE objects[o]
  BY <1>1, ThreadsAssumption DEF ConstructChanges
<1>3. \A u \in Thread : ProcessOf(u) \in Process
  BY ThreadsAssumption
<1>4. OneStorage'
  <2>1. c # NoConn
    BY HandlesAssumption
  <2>2. objects[ProcessOf(t)] = {}
    BY <1>2 DEF AloneInv, OneStorage, Instance
  <2> QED
    BY <1>2, <2>1, <2>2 DEF AloneInv, OneStorage
<1>5. Alone'
  BY <1>2, <1>3 DEF AloneInv, Alone, Instance, OthersStay
<1>6. Constructing'
  BY <1>2, <1>3 DEF AloneInv, Constructing, Instance, OthersStay
<1> QED
  BY <1>4, <1>5, <1>6 DEF AloneInv

LEMMA ProcessEndsAlone ==
    ASSUME StorageInv, AloneInv, NEW p \in Process, ProcessEnds(p)
    PROVE  AloneInv'
<1>1. ProcessEndsChanges(p)
  BY ProcessEndsEffect DEF StorageInv
<1>2. /\ \A t \in Thread : call'[t] = IF ProcessOf(t) = p THEN Idle ELSE call[t]
      /\ used' = used \ objects[p]
      /\ \A o \in Process :
           /\ m_instance'[o] = IF o = p THEN NoConn ELSE m_instance[o]
           /\ objects'[o] = IF o = p THEN {} ELSE objects[o]
  BY <1>1 DEF ProcessEndsChanges
<1>3. \A t \in Thread : ProcessOf(t) \in Process
  BY ThreadsAssumption
<1>4. OneStorage'
  BY <1>2 DEF AloneInv, OneStorage
<1>5. \A t \in Thread : ProcessOf(t) # p =>
        Instance(t) \notin objects[p] /\ Instance(t)' = Instance(t)
  <2>1. \A c \in objects[p] : c # NoConn
    BY HandlesAssumption DEF StorageInv, Typed
  <2> QED
    BY <1>2, <1>3, <2>1 DEF StorageInv, Homes, Instance
<1>6. Alone'
  BY <1>2, <1>3, <1>5 DEF AloneInv, Alone, Idle
<1>7. Constructing'
  BY <1>2, <1>3, <1>5 DEF AloneInv, Constructing, Idle
<1> QED
  BY <1>4, <1>6, <1>7 DEF AloneInv

LEMMA NextAlone == StorageInv /\ AloneInv /\ [StorageNext]_vars => AloneInv'
<1> SUFFICES ASSUME StorageInv, AloneInv, [StorageNext]_vars
             PROVE  AloneInv'
  OBVIOUS
<1> USE DEF StorageInv
<1>1. ASSUME NEW t \in Thread, SeesNoInstance(t) PROVE AloneInv'
  <2>1. SeesNoInstanceChanges(t) /\ Instance(t) = NoConn
    BY <1>1, SeesNoInstanceEffect DEF SeesNoInstance
  <2> QED
    BY <2>1, InsideCallAlone DEF SeesNoInstanceChanges
<1>2. ASSUME NEW t \in Thread, LogConstructs(t) PROVE AloneInv'
  <2>1. /\ call[t].at = "construct" /\ Construct(t)
        /\ call' = [call EXCEPT ![t].at = "get_instance"]
    BY <1>2 DEF LogConstructs, At, Goto
  <2>2. OthersStay(t) /\ call'[t].at # "construct"
    BY <2>1 DEF Typed, Calls, OthersStay
  <2>3. Instance(t) = NoConn /\ NoConn \notin used
    BY <2>1, HandlesAssumption DEF AloneInv, Constructing, UsedEnded
  <2>4. \A u \in Thread : u # t /\ ProcessOf(u) = ProcessOf(t) => call[u].at = "idle"
    BY <2>1, <2>3 DEF AloneInv, Alone
  <2> QED
    BY <2>1, <2>2, <2>3, <2>4, ConstructAlone
<1>3. ASSUME NEW t \in Thread, LogEvent(t) PROVE AloneInv'
  BY <1>3, LogEventAlone
<1>4. ASSUME NEW t \in Thread, InsertTimedValues(t) PROVE AloneInv'
  <2>1. PICK v \in VM : InsertTimedValuesChanges(t, v)
    BY <1>4, InsertTimedValuesEffect
  <2> QED
    BY <2>1, InsideCallAlone DEF InsertTimedValuesChanges
<1>5. ASSUME NEW t \in Thread, BeginWrite(t) PROVE AloneInv'
  <2>1. OthersStay(t) /\ call[t].at # "idle" /\ call'[t].at # "construct"
    BY <1>5 DEF BeginWrite, At, Goto, Typed, Calls, OthersStay
  <2>2. UNCHANGED <<m_instance, objects>> /\ used \subseteq used'
    BY <1>5 DEF BeginWrite, storageVars, historyVars
  <2> QED
    BY <2>1, <2>2, InsideCallAlone
<1>6. ASSUME NEW t \in Thread, Inserted(t) PROVE AloneInv'
  <2>1. OthersStay(t) /\ call[t].at # "idle" /\ call'[t].at # "construct"
    BY <1>6 DEF Inserted, At, Goto, Typed, Calls, OthersStay
  <2>2. UNCHANGED <<m_instance, objects>> /\ used \subseteq used'
    BY <1>6 DEF Inserted, storageVars
  <2> QED
    BY <2>1, <2>2, InsideCallAlone
<1>7. ASSUME NEW t \in Thread, ReadsOld(t) PROVE AloneInv'
  <2>1. OthersStay(t) /\ call[t].at # "idle" /\ call'[t].at # "construct"
    BY <1>7 DEF ReadsOld, At, Goto, Typed, Calls, OthersStay
  <2>2. UNCHANGED <<m_instance, objects>> /\ used \subseteq used'
    BY <1>7 DEF ReadsOld, storageVars, historyVars
  <2> QED
    BY <2>1, <2>2, InsideCallAlone
<1>8. ASSUME NEW t \in Thread, FinalizesOld(t) PROVE AloneInv'
  <2>1. OthersStay(t) /\ call[t].at # "idle" /\ call'[t].at # "construct"
    BY <1>8 DEF FinalizesOld, At, Goto, Typed, Calls, OthersStay
  <2>2. UNCHANGED <<m_instance, objects>> /\ used \subseteq used'
    BY <1>8 DEF FinalizesOld
  <2> QED
    BY <2>1, <2>2, InsideCallAlone
<1>9. ASSUME NEW t \in Thread, LogReturns(t) PROVE AloneInv'
  <2>1. OthersStay(t) /\ call[t].at # "idle" /\ call'[t].at # "construct"
    BY <1>9 DEF LogReturns, At, Goto, Typed, Calls, OthersStay, Idle
  <2>2. UNCHANGED <<m_instance, objects>> /\ used \subseteq used'
    BY <1>9 DEF LogReturns
  <2> QED
    BY <2>1, <2>2, InsideCallAlone
<1>10. ASSUME NEW r \in Reader, ReaderConstructs(r) PROVE AloneInv'
  <2>1. /\ r \in Thread /\ call[r].at = "idle" /\ Instance(r) = NoConn
        /\ Construct(r) /\ call' = call
    BY <1>10, ThreadsAssumption DEF ReaderConstructs, At
  <2>2. \A u \in Thread : u # r => ProcessOf(u) # ProcessOf(r)
    BY ThreadsAssumption
  <2> QED
    BY <2>1, <2>2, ConstructAlone DEF OthersStay
<1>11. ASSUME NEW r \in Reader, NextRecord(r) PROVE AloneInv'
  BY <1>11 DEF NextRecord, AloneInv, OneStorage, Alone, Constructing, Instance
<1>12. ASSUME NEW r \in Reader, NextRecordReruns(r) PROVE AloneInv'
  <2>1. /\ r \in Thread /\ \A u \in Thread : u # r => ProcessOf(u) # ProcessOf(r)
    BY ThreadsAssumption
  <2>2. NextRecordRerunsChanges(r)
    BY <1>12, NextRecordRerunsEffect
  <2> QED
    BY <2>1, <2>2 DEF NextRecordRerunsChanges, OthersStay, AloneInv, OneStorage,
                      Alone, Constructing, Instance
<1>13. ASSUME NEW r \in Reader, RerunReturns(r) PROVE AloneInv'
  <2>1. r \in Thread /\ OthersStay(r) /\ call[r].at # "idle" /\ call'[r].at = "idle"
    BY <1>13, ThreadsAssumption DEF RerunReturns, At, Typed, OthersStay, Idle
  <2>2. UNCHANGED <<m_instance, objects>> /\ used \subseteq used'
    BY <1>13 DEF RerunReturns
  <2> QED
    BY <2>1, <2>2, InsideCallAlone
<1>14. ASSUME NEW p \in Process, ProcessEnds(p) PROVE AloneInv'
  BY <1>14, ProcessEndsAlone
<1>15. CASE UNCHANGED vars
  BY <1>15 DEF vars, storageVars, historyVars, AloneInv, OneStorage, Alone,
               Constructing, Instance
<1> QED
  BY <1>1, <1>2, <1>3, <1>4, <1>5, <1>6, <1>7, <1>8, <1>9, <1>10,
     <1>11, <1>12, <1>13, <1>14, <1>15 DEF StorageNext

\* PersistentStorage.cpp:14-20, InstanceMonitor.cpp:43: a process never makes two
\* storage objects, although nothing guards GetInstance.
THEOREM OneStorageEach == StorageSpec => []OneStorage
<1>1. StorageInit => AloneInv
  BY DEF StorageInit, AloneInv, OneStorage, Alone, Constructing, Instance, Idle
<1>2. AloneInv => OneStorage
  BY DEF AloneInv
<1> QED
  BY <1>1, <1>2, NextAlone, StorageInvariant, PTL DEF StorageSpec

-----------------------------------------------------------------------------
\* PersistentStorage.cpp:27, 45: the first event logged through a storage object
\* ends the reading its constructor began, for good.
THEOREM EndsReading == StorageSpec => []InsertionEndsReading
<1>1. StorageInv => InsertionEndsReading
  <2> SUFFICES ASSUME StorageInv
               PROVE  InsertionEndsReading
    OBVIOUS
  <2>1. ASSUME NEW c \in used
        PROVE  ~Reading(c) /\ m_rs[c].mbEof
    <3>1. c \in Conn /\ ~HasSelect(c) /\ m_rs[c].mbEof = TRUE
      BY DEF StorageInv, UsedEnded
    <3>2. \A v \in VM : vms[c][v].at \in Nat
      BY <3>1, FieldTypes DEF StorageInv
    <3> QED
      BY <3>1, <3>2 DEF StorageInv, OnlySelectsRun, HasSelect, Reading
  <2>2. \A r \in Reader : Instance(r) \in used => ~told[r].more
    BY DEF StorageInv, Quiet
  <2> QED
    BY <2>1, <2>2 DEF InsertionEndsReading
<1> QED
  BY <1>1, StorageInvariant, PTL

LEMMA InitLog == StorageInit => Log!Init
<1> SUFFICES ASSUME StorageInit
             PROVE  Log!Init
  OBVIOUS
<1>1. PICK n \in 0 .. MaxRows :
         events = [i \in 1 .. n |-> i] /\ asked = n /\ acked = 1 .. n
  BY DEF StorageInit, SQLiteInit
<1>2. Log!Logged = 1 .. n
  BY <1>1 DEF Log!Logged
<1>3. 1 .. n \subseteq 1 .. MaxRows
  BY <1>1, BoundsAssumption
<1> QED
  BY <1>1, <1>2, <1>3 DEF Log!Init

LEMMA LogUnchanged ==
    ASSUME UNCHANGED <<events, asked, acked>>
    PROVE  UNCHANGED Log!vars
BY DEF Log!vars

LEMMA WriteStep ==
    ASSUME StorageInv, NEW c \in Conn, NEW v \in VM, vms[c][v].insert \in Nat \ {0},
           events' = Append(events, vms[c][v].insert), UNCHANGED <<asked, acked>>
    PROVE  Log!Next
<1> DEFINE k == vms[c][v].insert
<1>1. k \in 1 .. asked /\ k \in 1 .. MaxRows
  BY BoundsAssumption DEF StorageInv, StatementKeys, Typed
<1>2. Log!Write(k)
  BY <1>1 DEF Log!Write
<1> QED
  BY <1>1, <1>2 DEF Log!Next

LEMMA NextLog ==
    ASSUME StorageInv, [StorageNext]_vars
    PROVE  [Log!Next]_Log!vars
<1>0. \A t \in Thread : call[t].at \in Compiled \cup {"rerun", "rerunning"} =>
        This(t) \in Conn /\ pVM(t) \in VM
  BY CallsAtHome DEF StorageInv, FieldsTyped
<1>1. CASE UNCHANGED vars
  BY <1>1, LogUnchanged DEF vars, sqliteVars, historyVars
<1>2. ASSUME NEW t \in Thread, LogEvent(t) PROVE Log!Next
  <2>1. asked' = asked + 1 /\ asked < MaxRows /\ asked \in Nat /\ UNCHANGED <<events,
                                                                            acked>>
    BY <1>2 DEF LogEvent, sqliteVars, StorageInv, Typed
  <2>2. asked' \in 1 .. MaxRows /\ asked' \notin 1 .. asked
        /\ 1 .. asked' = (1 .. asked) \cup {asked'}
    BY <2>1, BoundsAssumption
  <2>3. Log!Ask(asked')
    BY <2>1, <2>2 DEF Log!Ask
  <2> QED
    BY <2>2, <2>3 DEF Log!Next
<1>3. ASSUME NEW t \in Thread, Inserted(t) PROVE Log!Next
  <2>1. This(t) \in Conn /\ pVM(t) \in VM /\ call[t].at = "inserting"
    BY <1>0, <1>3 DEF Inserted, At, Compiled
  <2>2. vms[This(t)][pVM(t)].insert \in Nat \ {0}
    <3>1. vms[This(t)][pVM(t)].insert > 0
      BY <2>1 DEF StorageInv, Stepped, Stepping
    <3>2. vms[This(t)][pVM(t)].insert \in Int
      BY <2>1, FieldTypes DEF StorageInv
    <3> QED
      BY <3>1, <3>2
  <2>3. events' = Append(events, vms[This(t)][pVM(t)].insert) /\ UNCHANGED <<asked,
                                                                           acked>>
    BY <1>3 DEF Inserted, Commit
  <2> QED
    BY <2>1, <2>2, <2>3, WriteStep
<1>4. ASSUME NEW r \in Reader, RerunReturns(r) PROVE Log!Next
  <2>1. r \in Thread /\ call[r].at = "rerunning"
    BY <1>4, ThreadsAssumption DEF RerunReturns, At
  <2>2. This(r) \in Conn /\ pVM(r) \in VM
    BY <1>0, <2>1
  <2>3. vms[This(r)][pVM(r)].insert \in Nat \ {0}
    <3>1. vms[This(r)][pVM(r)].insert > 0
      BY <2>1 DEF StorageInv, Stepped, Stepping
    <3>2. vms[This(r)][pVM(r)].insert \in Int
      BY <2>2, FieldTypes DEF StorageInv
    <3> QED
      BY <3>1, <3>2
  <2>4. events' = Append(events, vms[This(r)][pVM(r)].insert) /\ UNCHANGED <<asked,
                                                                           acked>>
    BY <1>4 DEF RerunReturns, Commit
  <2> QED
    BY <2>2, <2>3, <2>4, WriteStep
<1>5. ASSUME NEW t \in Thread, LogReturns(t) PROVE [Log!Next]_Log!vars
  <2>1. /\ call[t].at = "take_over" /\ UNCHANGED <<events, asked>>
        /\ acked' = IF This(t) \in misused THEN acked ELSE acked \cup {call[t].key}
    BY <1>5 DEF LogReturns, At, sqliteVars
  <2>2. CASE This(t) \in misused
    BY <2>1, <2>2, LogUnchanged
  <2>3. CASE This(t) \notin misused
    <3>1. call[t].key \in 1 .. MaxRows
      BY <2>1, BoundsAssumption DEF StorageInv, CallKeys, Compiled, Typed
    <3>2. PICK i \in 1 .. Len(events) : events[i] = call[t].key
      BY <2>1, <2>3 DEF StorageInv, InTable, Assigning
    <3>3. DOMAIN events = 1 .. Len(events)
      BY DEF StorageInv, Typed
    <3>4. Log!Tell(call[t].key)
      BY <2>1, <2>3, <3>2, <3>3 DEF Log!Tell, Log!Logged
    <3> QED
      BY <3>1, <3>4 DEF Log!Next
  <2> QED
    BY <2>2, <2>3
<1>6. ASSUME NEW t \in Thread,
             \/ SeesNoInstance(t) \/ LogConstructs(t) \/ InsertTimedValues(t)
             \/ BeginWrite(t) \/ ReadsOld(t) \/ FinalizesOld(t)
      PROVE  UNCHANGED Log!vars
  BY <1>6, LogUnchanged
     DEF SeesNoInstance, LogConstructs, Construct, InsertTimedValues, BeginWrite,
         ReadsOld, FinalizesOld, sqliteVars, historyVars
<1>7. ASSUME NEW r \in Reader, ReaderConstructs(r) \/ NextRecord(r) \/ NextRecordReruns(r)
      PROVE  UNCHANGED Log!vars
  BY <1>7, LogUnchanged
     DEF ReaderConstructs, Construct, NextRecord, NextRecordReruns, sqliteVars, historyVars
<1>8. ASSUME NEW p \in Process, ProcessEnds(p)
      PROVE  UNCHANGED Log!vars
  BY <1>8, LogUnchanged DEF ProcessEnds, Disconnect
<1> QED
  BY <1>1, <1>2, <1>3, <1>4, <1>5, <1>6, <1>7, <1>8 DEF StorageNext

\* The storage is an event log: only events that were asked for are written, and a
\* caller that is told so finds its event there, whatever the threads and processes
\* that log, end and start do meanwhile.
THEOREM Implements == StorageSpec => ImplementsEventLog
<1>1. StorageInit => Log!Init
  BY InitLog
<1>2. StorageInv /\ [StorageNext]_vars => [Log!Next]_Log!vars
  BY NextLog
<1> QED
  BY <1>1, <1>2, StorageInvariant, PTL DEF StorageSpec, ImplementsEventLog, Log!Spec

-----------------------------------------------------------------------------
(* The readers' invariant.                                                  *)

\* A reader's process has the one storage object of its thread, and all statements
\* of a connection without an object are free.
OneObject(r) ==
    /\ objects[ProcessOf(r)] = IF Instance(r) = NoConn THEN {} ELSE {Instance(r)}
    /\ call[r].at = "construct" => Instance(r) = NoConn
MisusedOpen == \A c \in misused : \E p \in Process : c \in objects[p]
ClosedFree ==
    \A c \in Conn : (\A p \in Process : c \notin objects[p]) => \A v \in VM : vms[c][v] = Free

\* What the reader's call speaks of is its own object, and what it is about to
\* finalize is what m_rs has: no other thread has come in between.
Outside == {"idle", "get_instance", "construct"}
CallIsOwn(r) ==
    /\ call[r].at \in Outside => pVM(r) = NoVM
    /\ call[r].at \notin Outside => This(r) = Instance(r) /\ This(r) # NoConn
    /\ call[r].at = "finalize" => call[r].old = m_rs[This(r)].mpVM
    /\ call[r].at = "take_over" => m_rs[This(r)].mpVM = NoVM
    /\ call[r].at \in {"rerun", "rerunning"} => m_rs[This(r)].mpVM = pVM(r)
    /\ Instance(r) \notin misused

\* The statements of its object are m_rs's and that of its call.
Owned(r) ==
    Instance(r) # NoConn =>
      \A v \in VM : vms[Instance(r)][v] # Free <=> v \in {m_rs[Instance(r)].mpVM, pVM(r)}

\* While m_rs is the SELECT and has not come to its end, the SELECT stands at the row
\* behind those told of, and the table is as the constructor found it.
Selecting(r) ==
    /\ Instance(r) # NoConn /\ m_rs[Instance(r)].mpVM # NoVM
    /\ Statement(r).insert = 0 /\ m_rs[Instance(r)].mbEof = FALSE
AtRow(r) ==
    Selecting(r) =>
      /\ Statement(r).at = told[r].seen + 1 /\ Statement(r).at <= Len(events)
      /\ call[r].at \notin Assigning => Len(events) = told[r].total
MoreSelects(r) == told[r].more = TRUE => Selecting(r)

\* A row the reader wrote last is the last one.
WroteLast(r) ==
    told[r].wrote # 0 => Len(events) > 0 /\ events[Len(events)] = told[r].wrote

ReaderOK(r) == /\ OneObject(r) /\ CallIsOwn(r) /\ Owned(r)
               /\ AtRow(r) /\ MoreSelects(r) /\ WroteLast(r)

ReaderInv == /\ MisusedOpen /\ ClosedFree
             /\ \A r \in Reader : ReaderOK(r)

-----------------------------------------------------------------------------
(* What the actions of other threads leave to a reader.                     *)

ObjectStays(r) ==
    /\ call'[r] = call[r] /\ Instance(r)' = Instance(r)
    /\ objects'[ProcessOf(r)] = objects[ProcessOf(r)]
    /\ Instance(r) \notin misused'
    /\ Instance(r) # NoConn =>
         /\ \A v \in VM : vms'[Instance(r)][v] = vms[Instance(r)][v]
         /\ m_rs'[Instance(r)].mpVM = m_rs[Instance(r)].mpVM
         /\ m_rs'[Instance(r)].mbEof = m_rs[Instance(r)].mbEof

\* Another's insertion waits for the reader's SELECT.
KnowledgeStays(r) ==
    /\ told'[r].more = told[r].more /\ told'[r].seen = told[r].seen
    /\ told'[r].total = told[r].total
    /\ \/ events' = events /\ told'[r].wrote = told[r].wrote
       \/ /\ told'[r].wrote = 0 /\ Len(events') > Len(events)
          /\ Instance(r) # NoConn => ~Reading(Instance(r))

LEMMA Elsewhere ==
    ASSUME StorageInv, NEW r \in Reader, NEW t \in Thread, t # r
    PROVE  /\ ProcessOf(t) # ProcessOf(r)
           /\ Instance(r) # NoConn => Instance(r) \notin objects[ProcessOf(t)]
<1>1. ProcessOf(t) # ProcessOf(r) /\ ProcessOf(t) \in Process /\ ProcessOf(r) \in Process
  BY ThreadsAssumption
<1> QED
  BY <1>1 DEF StorageInv, Homes, Instance

LEMMA InstanceTyped ==
    ASSUME Typed, NEW t \in Thread
    PROVE  Instance(t) \in Conn \cup {NoConn} /\ ProcessOf(t) \in Process
BY ThreadsAssumption DEF Typed, Instance

LEMMA StaysOK ==
    ASSUME StorageInv, Typed', NEW r \in Reader, ReaderOK(r), ObjectStays(r), KnowledgeStays(r)
    PROVE  ReaderOK(r)'
<1> USE DEF ReaderOK, ObjectStays, KnowledgeStays, This, pVM
<1>0. /\ Instance(r) \in Conn \cup {NoConn} /\ r \in Thread
      /\ Instance(r) # NoConn => m_rs[Instance(r)].mpVM \in VM \cup {NoVM}
  BY ThreadsAssumption, InstanceTyped, FieldTypes DEF StorageInv
<1>1. OneObject(r)'
  BY DEF OneObject
<1>2. CallIsOwn(r)'
  BY DEF CallIsOwn, Outside
<1>3. Owned(r)'
  BY <1>0 DEF Owned
<1>4. Selecting(r)' <=> Selecting(r)
  BY <1>0, HandlesAssumption DEF Selecting, Statement
<1>5. Selecting(r) => Statement(r)' = Statement(r)
  BY <1>0, HandlesAssumption DEF Selecting, Statement
<1>6. AtRow(r)'
  <2>1. ASSUME Selecting(r)
        PROVE  events' = events
    <3>1. /\ Instance(r) \in Conn /\ m_rs[Instance(r)].mpVM \in VM
          /\ told[r] \in Knowledge
      BY <2>1, <1>0 DEF Selecting, StorageInv, Typed
    <3>2. Statement(r).at > 0
      BY <2>1, <3>1 DEF AtRow, Knowledge
    <3>3. Reading(Instance(r))
      BY <3>1, <3>2 DEF Reading, Statement
    <3> QED
      BY <3>1, <3>3, HandlesAssumption
  <2> QED
    BY <2>1, <1>4, <1>5 DEF AtRow
<1>7. MoreSelects(r)'
  BY <1>4 DEF MoreSelects
<1>8. WroteLast(r)'
  BY DEF WroteLast
<1> QED
  BY <1>1, <1>2, <1>3, <1>6, <1>7, <1>8

LEMMA LastRowTold ==
    ASSUME told \in [Reader -> Knowledge], NEW t, NEW k \in Nat, NEW more \in BOOLEAN,
           LastRowIs(t, k, more)
    PROVE  \A r \in Reader :
             /\ told'[r].more = IF r = t THEN more ELSE told[r].more
             /\ told'[r].wrote = IF r = t THEN k ELSE 0
             /\ told'[r].seen = told[r].seen /\ told'[r].total = told[r].total
<1>1. told' = [r \in Reader |->
               IF r = t THEN [told[r] EXCEPT !.wrote = k, !.more = more]
                        ELSE [told[r] EXCEPT !.wrote = 0]]
  BY DEF LastRowIs
<1> QED
  BY <1>1 DEF Knowledge

\* One lemma for the insertions of other threads: they wait for readers.
LEMMA OthersWrite ==
    ASSUME StorageInv, Typed', NEW t \in Thread, NEW c \in Conn, c \in objects[ProcessOf(t)],
           NEW k \in Nat, NEW n \in Nat, NEW more \in BOOLEAN,
           events' = Append(events, k), ReadersGone(c), LastRowIs(t, n, more)
    PROVE  \A r \in Reader : r # t => KnowledgeStays(r)
<1> SUFFICES ASSUME NEW r \in Reader, r # t
             PROVE  KnowledgeStays(r)
  OBVIOUS
<1>1. Instance(r) # NoConn => Instance(r) \in Conn /\ Instance(r) # c
  BY Elsewhere, InstanceTyped, ThreadsAssumption DEF StorageInv
<1>2. Instance(r) # NoConn => ~Reading(Instance(r))
  BY <1>1 DEF ReadersGone
<1>3. /\ told'[r].more = told[r].more /\ told'[r].wrote = 0
      /\ told'[r].seen = told[r].seen /\ told'[r].total = told[r].total
  BY LastRowTold DEF StorageInv, Typed
<1>4. Len(events') > Len(events)
  BY Appended DEF StorageInv
<1> QED
  BY <1>2, <1>3, <1>4 DEF KnowledgeStays

-----------------------------------------------------------------------------
(* Every action keeps the readers' invariant.                               *)

LEMMA ReaderInvKept ==
    ASSUME StorageInv, StorageInv', ReaderInv, MisusedOpen', ClosedFree',
           NEW t \in Thread,
           \A r \in Reader : r # t => ObjectStays(r) /\ KnowledgeStays(r),
           t \in Reader => ReaderOK(t)'
    PROVE  ReaderInv'
<1>1. ASSUME NEW r \in Reader, r # t
      PROVE  ReaderOK(r)'
  BY <1>1, StaysOK DEF ReaderInv, StorageInv
<1> QED
  BY <1>1 DEF ReaderInv

\* A step of the reader's own that leaves its object and the table alone.
LEMMA OwnStays ==
    ASSUME StorageInv, StorageInv', NEW r \in Reader, ReaderOK(r), CallIsOwn(r)',
           UNCHANGED <<events, vms, m_rs, m_instance, objects, told>>,
           call'[r].at = "construct" => Instance(r) = NoConn,
           call[r].at \in Assigning => call'[r].at \in Assigning,
           \/ call'[r].pVM = call[r].pVM
           \/ /\ Instance(r) # NoConn
              /\ call[r].pVM = NoVM /\ call'[r].pVM = m_rs[Instance(r)].mpVM
    PROVE  ReaderOK(r)'
<1> USE DEF ReaderOK, This, pVM
<1>1. Instance(r)' = Instance(r) /\ Statement(r)' = Statement(r)
  BY DEF Instance, Statement
<1>2. Selecting(r)' <=> Selecting(r)
  BY <1>1 DEF Selecting
<1>3. OneObject(r)'
  BY <1>1 DEF OneObject
<1>4. Owned(r)'
  <2>1. Instance(r) \in Conn \cup {NoConn} /\ \A v \in VM : v # NoVM
    BY ThreadsAssumption, InstanceTyped, HandlesAssumption DEF StorageInv
  <2> QED
    BY <1>1, <2>1 DEF Owned
<1>5. AtRow(r)' /\ MoreSelects(r)' /\ WroteLast(r)'
  BY <1>1, <1>2 DEF AtRow, MoreSelects, WroteLast
<1> QED
  BY <1>3, <1>4, <1>5

\* ... and what such a step means to the others.
LEMMA OthersIgnore ==
    ASSUME StorageInv, ReaderInv, NEW t, OthersStay(t),
           UNCHANGED <<events, vms, m_rs, m_instance, objects, told, misused>>
    PROVE  /\ MisusedOpen' /\ ClosedFree'
           /\ \A r \in Reader : r # t => ObjectStays(r) /\ KnowledgeStays(r)
<1>1. MisusedOpen' /\ ClosedFree'
  BY DEF ReaderInv, MisusedOpen, ClosedFree
<1>2. ASSUME NEW r \in Reader, r # t
      PROVE  ObjectStays(r) /\ KnowledgeStays(r)
  <2>1. r \in Thread /\ Instance(r) \notin misused /\ Instance(r)' = Instance(r)
    BY ThreadsAssumption DEF ReaderInv, ReaderOK, CallIsOwn, Instance
  <2> QED
    BY <1>2, <2>1 DEF OthersStay, ObjectStays, KnowledgeStays
<1> QED
  BY <1>1, <1>2

LEMMA SeesNoInstanceReaders ==
    ASSUME StorageInv, StorageInv', ReaderInv, NEW t \in Thread, SeesNoInstance(t)
    PROVE  ReaderInv'
<1>1. SeesNoInstanceChanges(t) /\ Instance(t) = NoConn
  BY SeesNoInstanceEffect DEF StorageInv, SeesNoInstance
<1>2. /\ MisusedOpen' /\ ClosedFree'
      /\ \A r \in Reader : r # t => ObjectStays(r) /\ KnowledgeStays(r)
  BY <1>1, OthersIgnore DEF SeesNoInstanceChanges
<1>3. ASSUME t \in Reader
      PROVE  ReaderOK(t)'
  <2>1. ReaderOK(t)
    BY <1>3 DEF ReaderInv
  <2>2. CallIsOwn(t)'
    BY <1>1, <2>1 DEF SeesNoInstanceChanges, ReaderOK, CallIsOwn, Outside, Instance, pVM, This
  <2> QED
    BY <1>1, <1>3, <2>1, <2>2, OwnStays DEF SeesNoInstanceChanges, Assigning
<1> QED
  BY <1>2, <1>3, ReaderInvKept

LEMMA LogEventReaders ==
    ASSUME StorageInv, StorageInv', ReaderInv, NEW t \in Thread, LogEvent(t)
    PROVE  ReaderInv'
<1>1. LogEventChanges(t)
  BY LogEventEffect DEF StorageInv
<1>2. /\ MisusedOpen' /\ ClosedFree'
      /\ \A r \in Reader : r # t => ObjectStays(r) /\ KnowledgeStays(r)
  BY <1>1, OthersIgnore DEF LogEventChanges
<1>3. ASSUME t \in Reader
      PROVE  ReaderOK(t)'
  <2>1. ReaderOK(t)
    BY <1>3 DEF ReaderInv
  <2>2. CallIsOwn(t)'
    BY <1>1, <2>1 DEF LogEventChanges, ReaderOK, CallIsOwn, Outside, Instance, pVM, This
  <2> QED
    BY <1>1, <1>3, <2>1, <2>2, OwnStays DEF LogEventChanges, Assigning
<1> QED
  BY <1>2, <1>3, ReaderInvKept

LEMMA BeginWriteReaders ==
    ASSUME StorageInv, StorageInv', ReaderInv, NEW t \in Thread, BeginWrite(t)
    PROVE  ReaderInv'
<1>0. This(t) \in Conn
  BY CallsAtHome DEF StorageInv, FieldsTyped, BeginWrite, At, Compiled
<1>1. BeginWriteChanges(t)
  BY <1>0, BeginWriteEffect DEF StorageInv
<1>2. /\ MisusedOpen' /\ ClosedFree'
      /\ \A r \in Reader : r # t => ObjectStays(r) /\ KnowledgeStays(r)
  BY <1>1, OthersIgnore DEF BeginWriteChanges
<1>3. ASSUME t \in Reader
      PROVE  ReaderOK(t)'
  <2>1. ReaderOK(t)
    BY <1>3 DEF ReaderInv
  <2>2. CallIsOwn(t)'
    BY <1>1, <2>1 DEF BeginWriteChanges, ReaderOK, CallIsOwn, Outside, Instance, pVM, This
  <2> QED
    BY <1>1, <1>3, <2>1, <2>2, OwnStays DEF BeginWriteChanges, Assigning
<1> QED
  BY <1>2, <1>3, ReaderInvKept

LEMMA ReadsOldReaders ==
    ASSUME StorageInv, StorageInv', ReaderInv, NEW t \in Thread, ReadsOld(t)
    PROVE  ReaderInv'
<1>0. This(t) \in Conn
  BY CallsAtHome DEF StorageInv, FieldsTyped, ReadsOld, At, Compiled
<1>1. ReadsOldChanges(t)
  BY <1>0, ReadsOldEffect DEF StorageInv
<1>2. /\ MisusedOpen' /\ ClosedFree'
      /\ \A r \in Reader : r # t => ObjectStays(r) /\ KnowledgeStays(r)
  BY <1>1, OthersIgnore DEF ReadsOldChanges
<1>3. ASSUME t \in Reader
      PROVE  ReaderOK(t)'
  <2>1. ReaderOK(t)
    BY <1>3 DEF ReaderInv
  <2>2. CallIsOwn(t)'
    BY <1>1, <2>1 DEF ReadsOldChanges, ReaderOK, CallIsOwn, Outside, Instance, pVM, This
  <2> QED
    BY <1>1, <1>3, <2>1, <2>2, OwnStays DEF ReadsOldChanges, Assigning
<1> QED
  BY <1>2, <1>3, ReaderInvKept

LEMMA NextRecordRerunsReaders ==
    ASSUME StorageInv, StorageInv', ReaderInv, NEW t \in Reader, NextRecordReruns(t)
    PROVE  ReaderInv'
<1>0. t \in Thread /\ call \in [Thread -> Calls] /\ ReaderOK(t)
  BY ThreadsAssumption DEF StorageInv, Typed, ReaderInv
<1>1. NextRecordRerunsChanges(t)
  BY NextRecordRerunsEffect DEF StorageInv
<1>2. call'[t].pVM = m_rs[Instance(t)].mpVM
  BY <1>0 DEF NextRecordReruns, Idle
<1>3. /\ MisusedOpen' /\ ClosedFree'
      /\ \A r \in Reader : r # t => ObjectStays(r) /\ KnowledgeStays(r)
  BY <1>1, OthersIgnore DEF NextRecordRerunsChanges
<1>4. Instance(t) # NoConn /\ call[t].pVM = NoVM
  BY <1>0, <1>1, HandlesAssumption DEF NextRecordRerunsChanges, ReaderOK, CallIsOwn, Outside, pVM
<1>5. CallIsOwn(t)'
  BY <1>0, <1>1, <1>2, <1>4
     DEF NextRecordRerunsChanges, ReaderOK, CallIsOwn, Outside, Instance, pVM, This
<1>6. ReaderOK(t)'
  BY <1>0, <1>1, <1>2, <1>4, <1>5, OwnStays DEF NextRecordRerunsChanges, Assigning
<1> QED
  BY <1>0, <1>3, <1>6, ReaderInvKept

LEMMA InsertTimedValuesReaders ==
    ASSUME StorageInv, StorageInv', ReaderInv, NEW t \in Thread, InsertTimedValues(t)
    PROVE  ReaderInv'
<1>1. PICK v \in VM : InsertTimedValuesChanges(t, v)
  BY InsertTimedValuesEffect DEF StorageInv
<1>2. /\ OthersStay(t) /\ Instance(t) \in Conn /\ vms[Instance(t)][v] = Free
      /\ call[t].at = "get_instance"
      /\ \A d \in Conn, w \in VM :
           vms'[d][w] = IF d = Instance(t) /\ w = v THEN InsertOf(call[t].key) ELSE vms[d][w]
      /\ call'[t].at = "insert" /\ call'[t].this = Instance(t) /\ call'[t].pVM = v
      /\ UNCHANGED <<events, m_rs, m_instance, objects, told, misused>>
  BY <1>1 DEF InsertTimedValuesChanges, OnlyStatement
<1>3. Instance(t) \in objects[ProcessOf(t)] /\ ProcessOf(t) \in Process
  BY <1>2, ThreadsAssumption, HandlesAssumption DEF StorageInv, Homes, Instance
<1>4. MisusedOpen' /\ ClosedFree'
  BY <1>2, <1>3 DEF ReaderInv, MisusedOpen, ClosedFree
<1>5. \A r \in Reader : r # t => ObjectStays(r) /\ KnowledgeStays(r)
  <2> SUFFICES ASSUME NEW r \in Reader, r # t
               PROVE  ObjectStays(r) /\ KnowledgeStays(r)
    OBVIOUS
  <2>1. /\ r \in Thread /\ Instance(r) \notin misused /\ Instance(r)' = Instance(r)
        /\ Instance(r) \in Conn \cup {NoConn}
    BY <1>2, ThreadsAssumption, InstanceTyped
       DEF StorageInv, ReaderInv, ReaderOK, CallIsOwn, Instance
  <2>2. Instance(r) # NoConn => Instance(r) # Instance(t)
    BY <1>3, Elsewhere
  <2> QED
    BY <1>2, <2>1, <2>2 DEF OthersStay, ObjectStays, KnowledgeStays
<1>6. ASSUME t \in Reader
      PROVE  ReaderOK(t)'
  <2> DEFINE c == Instance(t)
  <2>1. /\ OneObject(t) /\ CallIsOwn(t) /\ Owned(t)
        /\ AtRow(t) /\ MoreSelects(t) /\ WroteLast(t)
    BY <1>6 DEF ReaderInv, ReaderOK
  <2>2. Instance(t)' = c /\ c # NoConn /\ v # NoVM
    BY <1>2, HandlesAssumption DEF Instance
  <2>3. m_rs[c].mpVM # v /\ call[t].pVM = NoVM
    BY <1>2, <2>1, <2>2 DEF Owned, CallIsOwn, Outside, pVM
  <2>4. m_rs[c].mpVM \in VM \cup {NoVM} /\ call[t].key \in Nat
    BY <1>2, FieldTypes DEF StorageInv
  <2>5. Selecting(t) => m_rs[c].mpVM \in VM
    BY <2>4 DEF Selecting
  <2>6. Selecting(t)' => m_rs[c].mpVM \in VM
    BY <1>2, <2>2, <2>4 DEF Selecting
  <2>7. m_rs[c].mpVM \in VM => Statement(t)' = Statement(t)
    BY <1>2, <2>2, <2>3 DEF Statement
  <2>8. Selecting(t)' <=> Selecting(t)
    BY <1>2, <2>2, <2>5, <2>6, <2>7 DEF Selecting
  <2>9. OneObject(t)' /\ CallIsOwn(t)'
    BY <1>2, <2>1, <2>2 DEF OneObject, CallIsOwn, Outside, This, pVM
  <2>10. Owned(t)'
    <3>1. InsertOf(call[t].key) # Free
      BY <2>4 DEF InsertOf, Free
    <3>2. \A w \in VM : vms'[c][w] # Free <=> w = v \/ vms[c][w] # Free
      BY <1>2, <3>1
    <3>3. \A w \in VM : vms[c][w] # Free <=> w \in {m_rs[c].mpVM, NoVM}
      BY <2>1, <2>2, <2>3 DEF Owned, pVM
    <3>4. m_rs' = m_rs /\ call'[t].pVM = v
      BY <1>2
    <3> QED
      BY <2>2, <3>2, <3>3, <3>4, HandlesAssumption DEF Owned, pVM
  <2>11. AtRow(t)' /\ MoreSelects(t)' /\ WroteLast(t)'
    BY <1>2, <2>1, <2>5, <2>7, <2>8 DEF AtRow, MoreSelects, WroteLast, Assigning
  <2> QED
    BY <2>9, <2>10, <2>11 DEF ReaderOK
<1> QED
  BY <1>4, <1>5, <1>6, ReaderInvKept

LEMMA InsertedReaders ==
    ASSUME StorageInv, StorageInv', ReaderInv, NEW t \in Thread, Inserted(t)
    PROVE  ReaderInv'
<1> DEFINE c == This(t)
           k == call[t].key
<1>0. /\ c \in Conn /\ pVM(t) \in VM /\ c \in objects[ProcessOf(t)]
      /\ call[t].at = "inserting" /\ vms[c][pVM(t)].insert > 0
  BY CallsAtHome
     DEF StorageInv, FieldsTyped, Inserted, At, Compiled, Stepped, Stepping
<1>1. vms[c][pVM(t)].insert \in Nat /\ k \in Nat
  BY <1>0, FieldTypes DEF StorageInv
<1>2. InsertedChanges(t)
  BY <1>0, <1>1, InsertedEffect DEF StorageInv
<1>3. /\ OthersStay(t) /\ call'[t].at = "assign"
      /\ events' = Append(events, vms[c][pVM(t)].insert)
      /\ call'[t].this = c /\ call'[t].pVM = call[t].pVM
      /\ UNCHANGED <<vms, m_rs, m_instance, objects, misused>>
  BY <1>2 DEF InsertedChanges, This
<1>4. ReadersGone(c) /\ LastRowIs(t, k, FALSE)
  BY DEF Inserted, Commit
<1>5. MisusedOpen' /\ ClosedFree'
  BY <1>3 DEF ReaderInv, MisusedOpen, ClosedFree
<1>6. \A r \in Reader : r # t => ObjectStays(r)
  BY <1>3, ThreadsAssumption
     DEF ReaderInv, ReaderOK, CallIsOwn, Instance, OthersStay, ObjectStays
<1>7. \A r \in Reader : r # t => KnowledgeStays(r)
  BY <1>0, <1>1, <1>3, <1>4, OthersWrite DEF StorageInv
<1>8. ASSUME t \in Reader
      PROVE  ReaderOK(t)'
  <2>1. /\ OneObject(t) /\ CallIsOwn(t) /\ Owned(t)
        /\ AtRow(t) /\ MoreSelects(t) /\ WroteLast(t)
    BY <1>8 DEF ReaderInv, ReaderOK
  <2>2. Instance(t)' = Instance(t) /\ Statement(t)' = Statement(t)
    BY <1>3 DEF Instance, Statement
  <2>3. Selecting(t)' <=> Selecting(t)
    BY <1>3, <2>2 DEF Selecting
  <2>4. told'[t].more = FALSE /\ told'[t].wrote = k /\ told'[t].seen = told[t].seen
    BY <1>1, <1>4, <1>8, LastRowTold DEF StorageInv, Typed
  <2>5. /\ Len(events) \in Nat /\ Len(events') = Len(events) + 1
        /\ events'[Len(events) + 1] = vms[c][pVM(t)].insert
    BY <1>3, Appended DEF StorageInv
  <2>6. vms[c][pVM(t)].insert = k
    <3>1. c \notin misused
      BY <1>0, <2>1 DEF CallIsOwn, Outside
    <3>2. vms[c][pVM(t)] = InsertOf(k)
      BY <1>0, <3>1 DEF StorageInv, OwnInsert, Compiled
    <3> QED
      BY <3>2 DEF InsertOf
  <2>7. OneObject(t)' /\ CallIsOwn(t)' /\ Owned(t)'
    BY <1>0, <1>3, <2>1, <2>2 DEF OneObject, CallIsOwn, Owned, Outside, This, pVM
  <2>8. AtRow(t)'
    <3>1. Selecting(t) => Statement(t).at \in Nat
      BY ThreadsAssumption, InstanceTyped, FieldTypes, HandlesAssumption
         DEF StorageInv, Selecting, Statement
    <3>2. Selecting(t) => Statement(t).at = told[t].seen + 1 /\ Statement(t).at <= Len(events)
      BY <2>1 DEF AtRow
    <3>3. call'[t].at \in Assigning
      BY <1>3 DEF Assigning
    <3>4. Selecting(t) => Statement(t).at <= Len(events')
      BY <2>5, <3>1, <3>2
    <3> QED
      BY <2>2, <2>3, <2>4, <3>2, <3>3, <3>4 DEF AtRow
  <2>9. MoreSelects(t)' /\ WroteLast(t)'
    BY <2>4, <2>5, <2>6 DEF MoreSelects, WroteLast
  <2> QED
    BY <2>7, <2>8, <2>9 DEF ReaderOK
<1> QED
  BY <1>5, <1>6, <1>7, <1>8, ReaderInvKept

LEMMA FinalizesOldReaders ==
    ASSUME StorageInv, StorageInv', ReaderInv, NEW t \in Thread, FinalizesOld(t)
    PROVE  ReaderInv'
<1> DEFINE c == This(t)
           old == call[t].old
<1>0. c \in Conn /\ pVM(t) \in VM /\ c \in objects[ProcessOf(t)] /\ ProcessOf(t) \in Process
  BY CallsAtHome, ThreadsAssumption DEF StorageInv, FieldsTyped, FinalizesOld, At, Compiled
<1>1. FinalizesOldChanges(t)
  BY <1>0, FinalizesOldEffect DEF StorageInv
<1>2. /\ OthersStay(t) /\ call[t].at = "finalize" /\ call'[t].at = "take_over"
      /\ call'[t].this = c /\ call'[t].pVM = call[t].pVM
      /\ \A d \in Conn, w \in VM :
           vms'[d][w] = IF d = c /\ w = old THEN Free ELSE vms[d][w]
      /\ \A d \in Conn : /\ m_rs'[d].mbEof = m_rs[d].mbEof
                         /\ m_rs'[d].mpVM = IF d = c /\ old # NoVM THEN NoVM
                                            ELSE m_rs[d].mpVM
      /\ misused' = IF old \in {NoVM, m_rs[c].mpVM} THEN misused ELSE misused \cup {c}
      /\ UNCHANGED <<events, m_instance, objects, told>>
  BY <1>1 DEF FinalizesOldChanges, This
<1>3. MisusedOpen' /\ ClosedFree'
  BY <1>0, <1>2 DEF ReaderInv, MisusedOpen, ClosedFree
<1>4. \A r \in Reader : r # t => ObjectStays(r) /\ KnowledgeStays(r)
  <2> SUFFICES ASSUME NEW r \in Reader, r # t
               PROVE  ObjectStays(r) /\ KnowledgeStays(r)
    OBVIOUS
  <2>1. /\ r \in Thread /\ Instance(r) \notin misused /\ Instance(r)' = Instance(r)
        /\ Instance(r) \in Conn \cup {NoConn}
    BY <1>2, ThreadsAssumption, InstanceTyped
       DEF StorageInv, ReaderInv, ReaderOK, CallIsOwn, Instance
  <2>2. Instance(r) # c
    BY <1>0, Elsewhere, HandlesAssumption
  <2> QED
    BY <1>2, <2>1, <2>2 DEF OthersStay, ObjectStays, KnowledgeStays
<1>5. ASSUME t \in Reader
      PROVE  ReaderOK(t)'
  <2>1. /\ OneObject(t) /\ CallIsOwn(t) /\ Owned(t)
        /\ AtRow(t) /\ MoreSelects(t) /\ WroteLast(t)
    BY <1>5 DEF ReaderInv, ReaderOK
  <2>2. Instance(t) = c /\ Instance(t)' = c /\ old = m_rs[c].mpVM /\ c \notin misused
    BY <1>2, <2>1 DEF CallIsOwn, Outside, Instance
  <2>3. m_rs'[c].mpVM = NoVM /\ misused' = misused
    BY <1>0, <1>2, <2>2
  <2>4. OneObject(t)' /\ CallIsOwn(t)'
    BY <1>0, <1>2, <2>1, <2>2, <2>3, HandlesAssumption DEF OneObject, CallIsOwn, Outside, This, pVM
  <2>5. Owned(t)'
    <3>1. old # pVM(t)
      BY <1>2, <2>2 DEF StorageInv, OwnInsert, Compiled
    <3> QED
      BY <1>0, <1>2, <2>1, <2>2, <2>3, <3>1, HandlesAssumption DEF Owned, pVM
  <2>6. told'[t].more = FALSE
    BY <1>2, <1>5 DEF StorageInv, Quiet, Assigning
  <2>7. AtRow(t)' /\ MoreSelects(t)' /\ WroteLast(t)'
    BY <1>2, <2>1, <2>2, <2>3, <2>6 DEF AtRow, Selecting, MoreSelects, WroteLast
  <2> QED
    BY <2>4, <2>5, <2>7 DEF ReaderOK
<1> QED
  BY <1>3, <1>4, <1>5, ReaderInvKept

LEMMA LogReturnsReaders ==
    ASSUME StorageInv, StorageInv', ReaderInv, NEW t \in Thread, LogReturns(t)
    PROVE  ReaderInv'
<1> DEFINE c == This(t)
<1>0. c \in Conn /\ pVM(t) \in VM /\ c \in objects[ProcessOf(t)] /\ ProcessOf(t) \in Process
  BY CallsAtHome, ThreadsAssumption DEF StorageInv, FieldsTyped, LogReturns, At, Compiled
<1>1. LogReturnsChanges(t)
  BY <1>0, LogReturnsEffect DEF StorageInv
<1>2. /\ OthersStay(t) /\ call[t].at = "take_over" /\ call'[t] = Idle
      /\ \A d \in Conn : d # c => m_rs'[d] = m_rs[d]
      /\ m_rs'[c].mpVM = pVM(t) /\ m_rs'[c].mbEof = TRUE
      /\ UNCHANGED <<events, vms, m_instance, objects, told, misused>>
  <2>1. OnlyQuery(c, Query(pVM(t), InsertOf(call[t].key)))
    BY <1>1 DEF LogReturnsChanges
  <2>2. \A d \in Conn : m_rs'[d] = IF d = c THEN Query(pVM(t), InsertOf(call[t].key)) ELSE m_rs[d]
    BY <2>1 DEF OnlyQuery
  <2>3. /\ Query(pVM(t), InsertOf(call[t].key)).mpVM = pVM(t)
        /\ Query(pVM(t), InsertOf(call[t].key)).mbEof = TRUE
    BY DEF Query, InsertOf
  <2> QED
    BY <1>0, <1>1, <2>2, <2>3 DEF LogReturnsChanges
<1>3. MisusedOpen' /\ ClosedFree'
  BY <1>0, <1>2 DEF ReaderInv, MisusedOpen, ClosedFree
<1>4. \A r \in Reader : r # t => ObjectStays(r) /\ KnowledgeStays(r)
  <2> SUFFICES ASSUME NEW r \in Reader, r # t
               PROVE  ObjectStays(r) /\ KnowledgeStays(r)
    OBVIOUS
  <2>1. /\ r \in Thread /\ Instance(r) \notin misused /\ Instance(r)' = Instance(r)
        /\ Instance(r) \in Conn \cup {NoConn}
    BY <1>2, ThreadsAssumption, InstanceTyped
       DEF StorageInv, ReaderInv, ReaderOK, CallIsOwn, Instance
  <2>2. Instance(r) # c
    BY <1>0, Elsewhere, HandlesAssumption
  <2> QED
    BY <1>2, <2>1, <2>2 DEF OthersStay, ObjectStays, KnowledgeStays
<1>5. ASSUME t \in Reader
      PROVE  ReaderOK(t)'
  <2>1. /\ OneObject(t) /\ CallIsOwn(t) /\ Owned(t)
        /\ AtRow(t) /\ MoreSelects(t) /\ WroteLast(t)
    BY <1>5 DEF ReaderInv, ReaderOK
  <2>2. /\ Instance(t) = c /\ Instance(t)' = c /\ m_rs[c].mpVM = NoVM /\ c \notin misused
        /\ call'[t].at = "idle" /\ call'[t].pVM = NoVM
    BY <1>2, <2>1 DEF CallIsOwn, Outside, Instance, Idle
  <2>3. OneObject(t)' /\ CallIsOwn(t)'
    BY <1>0, <1>2, <2>1, <2>2 DEF OneObject, CallIsOwn, Outside, pVM
  <2>4. Owned(t)'
    BY <1>0, <1>2, <2>1, <2>2, HandlesAssumption DEF Owned, pVM
  <2>5. told'[t].more = FALSE
    BY <1>2, <1>5 DEF StorageInv, Quiet, Assigning
  <2>6. AtRow(t)' /\ MoreSelects(t)' /\ WroteLast(t)'
    BY <1>2, <2>1, <2>2, <2>5 DEF AtRow, Selecting, MoreSelects, WroteLast
  <2> QED
    BY <2>3, <2>4, <2>6 DEF ReaderOK
<1> QED
  BY <1>3, <1>4, <1>5, ReaderInvKept

LEMMA ConstructReaders ==
    ASSUME StorageInv, StorageInv', ReaderInv, NEW t \in Thread, Construct(t),
           OthersStay(t), call[t].at \in Outside, call'[t].at \in {"idle", "get_instance"},
           call'[t].pVM = call[t].pVM, t \in Reader => Instance(t) = NoConn
    PROVE  ReaderInv'
<1> DEFINE c == NewConn
           s == SelectStep(SelectAll)
           p == ProcessOf(t)
<1>0. /\ c \in Conn /\ c # NoConn /\ \A o \in Process : c \notin objects[o]
      /\ p \in Process /\ Len(events) \in Nat
  BY NewConnUnopened, ThreadsAssumption, HandlesAssumption DEF Construct, StorageInv, Typed
<1>1. /\ s \in Statements /\ s # Free
      /\ s.insert = 0 /\ s.at = IF Len(events) > 0 THEN 1 ELSE 0
  BY <1>0 DEF SelectStep, SelectAll, Statements, Free
<1>2. PICK v \in VM : /\ vms' = [vms EXCEPT ![c][v] = s]
                      /\ m_rs' = [m_rs EXCEPT ![c] = Query(v, s)]
                      /\ m_instance' = [m_instance EXCEPT ![p] = c]
                      /\ objects' = [objects EXCEPT ![p] = @ \cup {c}]
  BY DEF Construct
<1>3. /\ \A r \in Reader : told'[r] = IF r = t THEN NothingTold(Len(events)) ELSE told[r]
      /\ UNCHANGED <<events, misused>>
  BY DEF Construct
<1>4. /\ \A d \in Conn, w \in VM : vms'[d][w] = IF d = c /\ w = v THEN s ELSE vms[d][w]
      /\ \A d \in Conn : d # c => m_rs'[d] = m_rs[d]
      /\ m_rs'[c].mpVM = v /\ m_rs'[c].mbEof = (s.at = 0)
      /\ \A o \in Process : /\ m_instance'[o] = IF o = p THEN c ELSE m_instance[o]
                            /\ objects'[o] = IF o = p THEN objects[o] \cup {c}
                                             ELSE objects[o]
  <2>1. /\ vms \in [Conn -> [VM -> Statements]] /\ m_rs \in [Conn -> QueryType]
        /\ m_instance \in [Process -> Conn \cup {NoConn}]
        /\ objects \in [Process -> SUBSET Conn]
    BY DEF StorageInv, Typed
  <2>2. Query(v, s).mpVM = v /\ Query(v, s).mbEof = (s.at = 0)
    BY DEF Query
  <2> HIDE DEF c, s, p
  <2> QED
    BY <1>0, <1>2, <2>1, <2>2
<1> HIDE DEF c, s, p
<1>5. MisusedOpen' /\ ClosedFree'
  <2>1. \A o \in Process : objects[o] \subseteq objects'[o]
    BY <1>4
  <2>2. MisusedOpen'
    BY <1>3, <2>1 DEF ReaderInv, MisusedOpen
  <2>3. c \in objects'[p]
    BY <1>0, <1>4
  <2>4. ClosedFree'
    BY <1>0, <1>4, <2>1, <2>3 DEF ReaderInv, ClosedFree
  <2> QED
    BY <2>2, <2>4
<1>6. \A r \in Reader : r # t => ObjectStays(r) /\ KnowledgeStays(r)
  <2> SUFFICES ASSUME NEW r \in Reader, r # t
               PROVE  ObjectStays(r) /\ KnowledgeStays(r)
    OBVIOUS
  <2>1. /\ r \in Thread /\ Instance(r) \notin misused
        /\ Instance(r) \in Conn \cup {NoConn} /\ ProcessOf(r) \in Process /\ ProcessOf(r) # p
    BY ThreadsAssumption, InstanceTyped, Elsewhere
       DEF StorageInv, ReaderInv, ReaderOK, CallIsOwn, p
  <2>2. Instance(r)' = Instance(r) /\ objects'[ProcessOf(r)] = objects[ProcessOf(r)]
    BY <1>4, <2>1 DEF Instance
  <2>3. Instance(r) # NoConn => Instance(r) # c
    BY <1>0, <2>1 DEF StorageInv, Homes, Instance
  <2> QED
    BY <1>3, <1>4, <2>1, <2>2, <2>3 DEF OthersStay, ObjectStays, KnowledgeStays
<1>7. ASSUME t \in Reader
      PROVE  ReaderOK(t)'
  <2>1. /\ OneObject(t) /\ CallIsOwn(t) /\ Instance(t) = NoConn
    BY <1>7 DEF ReaderInv, ReaderOK
  <2>2. Instance(t)' = c /\ c \notin misused'
    BY <1>0, <1>3, <1>4 DEF Instance, p, ReaderInv, MisusedOpen
  <2>3. told'[t].more = FALSE /\ told'[t].wrote = 0
        /\ told'[t].seen = 0 /\ told'[t].total = Len(events)
    BY <1>3, <1>7 DEF NothingTold
  <2>4. OneObject(t)' /\ CallIsOwn(t)'
    BY <1>0, <1>4, <2>1, <2>2 DEF OneObject, CallIsOwn, Outside, p, pVM
  <2>5. Owned(t)'
    <3>1. \A w \in VM : vms[c][w] = Free
      BY <1>0 DEF ReaderInv, ClosedFree
    <3>2. call'[t].pVM = NoVM
      BY <2>1 DEF CallIsOwn, pVM
    <3> QED
      BY <1>0, <1>1, <1>4, <2>2, <3>1, <3>2, HandlesAssumption DEF Owned, pVM
  <2>6. AtRow(t)'
    <3>1. Statement(t)' = s
      BY <1>0, <1>4, <2>2 DEF Statement
    <3>2. Selecting(t)' => s.at # 0
      BY <1>4, <2>2 DEF Selecting
    <3>3. s.at # 0 => s.at = 1 /\ s.at <= Len(events)
      BY <1>0, <1>1
    <3> QED
      BY <1>3, <2>3, <3>1, <3>2, <3>3 DEF AtRow
  <2>7. MoreSelects(t)' /\ WroteLast(t)'
    BY <2>3 DEF MoreSelects, WroteLast
  <2> QED
    BY <2>4, <2>5, <2>6, <2>7 DEF ReaderOK
<1> QED
  BY <1>5, <1>6, <1>7, ReaderInvKept

LEMMA LogConstructsReaders ==
    ASSUME StorageInv, StorageInv', ReaderInv, NEW t \in Thread, LogConstructs(t)
    PROVE  ReaderInv'
<1>1. Goto(t, "get_instance") /\ call[t].at = "construct" /\ Construct(t)
  BY DEF LogConstructs, At
<1>2. call \in [Thread -> Calls] /\ "get_instance" \in Steps
  BY DEF StorageInv, Typed, Steps
<1>3. OthersStay(t) /\ call'[t].at = "get_instance" /\ call'[t].pVM = call[t].pVM
  BY <1>1, <1>2, Goes
<1>4. t \in Reader => Instance(t) = NoConn
  BY <1>1 DEF ReaderInv, ReaderOK, OneObject
<1> QED
  BY <1>1, <1>3, <1>4, ConstructReaders DEF Outside

LEMMA ReaderConstructsReaders ==
    ASSUME StorageInv, StorageInv', ReaderInv, NEW t \in Reader, ReaderConstructs(t)
    PROVE  ReaderInv'
<1>1. t \in Thread /\ call[t].at = "idle" /\ Construct(t) /\ call' = call /\ Instance(t) = NoConn
  BY ThreadsAssumption DEF ReaderConstructs, At
<1> QED
  BY <1>1, ConstructReaders DEF Outside, OthersStay

LEMMA NextRecordReaders ==
    ASSUME StorageInv, StorageInv', ReaderInv, NEW t \in Reader, NextRecord(t)
    PROVE  ReaderInv'
<1> DEFINE c == Instance(t)
           q == m_rs[c]
           v == q.mpVM
           s == SelectStep(Statement(t))
           n == nextRow(q, s.at)
<1>1. /\ t \in Thread /\ call[t].at = "idle" /\ c \in Conn /\ c # NoConn /\ v \in VM
      /\ vms[c][v].insert = 0 /\ q \in QueryType /\ ProcessOf(t) \in Process
      /\ Len(events) \in Nat /\ Statement(t) \in Statements /\ told[t] \in Knowledge
  <2>1. t \in Thread /\ ProcessOf(t) \in Process /\ call[t].at = "idle" /\ c # NoConn
        /\ v # NoVM /\ vms[c][v].insert = 0
    BY ThreadsAssumption DEF NextRecord, Reads, Statement, At
  <2>2. c \in Conn /\ v \in VM
    BY <2>1, FieldTypes DEF StorageInv
  <2> QED
    BY <2>1, <2>2 DEF StorageInv, Typed, Statement
<1>2. /\ s.insert = 0 /\ s # Free
      /\ s.at = IF Statement(t).at < Len(events) THEN Statement(t).at + 1 ELSE 0
  BY <1>1 DEF SelectStep, Statements, Statement, Free
<1>3. n.mpVM = v /\ n.mbEof = (q.mbEof \/ s.at = 0)
  BY <1>1 DEF nextRow, QueryType
<1>4. /\ vms' = [vms EXCEPT ![c][v] = s] /\ m_rs' = [m_rs EXCEPT ![c] = n]
      /\ told' = [told EXCEPT ![t] = NextRecordSays(t, ~n.mbEof)]
      /\ UNCHANGED <<events, m_instance, objects, call, misused>>
  BY DEF NextRecord
<1>5. /\ vms \in [Conn -> [VM -> Statements]] /\ m_rs \in [Conn -> QueryType]
      /\ told \in [Reader -> Knowledge]
  BY DEF StorageInv, Typed
<1>6. /\ told'[t].more = (~n.mbEof) /\ told'[t].wrote = told[t].wrote
      /\ told'[t].total = told[t].total
      /\ told'[t].seen = IF n.mbEof THEN told[t].seen ELSE told[t].seen + 1
  <2>1. told'[t] = NextRecordSays(t, ~n.mbEof)
    BY <1>4, <1>5
  <2> HIDE DEF n
  <2> QED
    BY <1>1, <2>1 DEF NextRecordSays, Knowledge
<1> HIDE DEF s, n
<1>7. /\ \A d \in Conn, w \in VM : vms'[d][w] = IF d = c /\ w = v THEN s ELSE vms[d][w]
      /\ \A d \in Conn : d # c => m_rs'[d] = m_rs[d]
      /\ m_rs'[c].mpVM = v /\ m_rs'[c].mbEof = (q.mbEof \/ s.at = 0)
      /\ \A r \in Reader : r # t => told'[r] = told[r]
  BY <1>1, <1>3, <1>4, <1>5
<1>8. MisusedOpen' /\ ClosedFree'
  <2>1. c \in objects[ProcessOf(t)]
    BY <1>1 DEF StorageInv, Homes, Instance
  <2> QED
    BY <1>1, <1>4, <1>7, <2>1 DEF ReaderInv, MisusedOpen, ClosedFree
<1>9. \A r \in Reader : r # t => ObjectStays(r) /\ KnowledgeStays(r)
  <2> SUFFICES ASSUME NEW r \in Reader, r # t
               PROVE  ObjectStays(r) /\ KnowledgeStays(r)
    OBVIOUS
  <2>1. /\ r \in Thread /\ Instance(r) \notin misused /\ Instance(r)' = Instance(r)
        /\ Instance(r) \in Conn \cup {NoConn}
    BY <1>4, ThreadsAssumption, InstanceTyped
       DEF StorageInv, ReaderInv, ReaderOK, CallIsOwn, Instance
  <2>2. Instance(r) # NoConn => Instance(r) # c
    BY <1>1, Elsewhere DEF StorageInv, Homes, Instance
  <2> QED
    BY <1>4, <1>7, <2>1, <2>2 DEF ObjectStays, KnowledgeStays
<1>10. ReaderOK(t)'
  <2>1. /\ OneObject(t) /\ CallIsOwn(t) /\ Owned(t)
        /\ AtRow(t) /\ MoreSelects(t) /\ WroteLast(t)
    BY DEF ReaderInv, ReaderOK
  <2>2. Instance(t)' = c /\ Statement(t)' = s /\ Statement(t) = vms[c][v]
    BY <1>1, <1>4, <1>7 DEF Instance, Statement
  <2>3. OneObject(t)' /\ CallIsOwn(t)'
    BY <1>1, <1>4, <2>1, <2>2 DEF OneObject, CallIsOwn, Outside, pVM
  <2>4. Owned(t)'
    BY <1>1, <1>2, <1>4, <1>7, <2>1, <2>2 DEF Owned, pVM
  <2>5. Selecting(t)' <=> m_rs'[c].mbEof = FALSE
    BY <1>1, <1>2, <1>7, <2>2, HandlesAssumption DEF Selecting
  <2>6. m_rs'[c].mbEof = FALSE => Selecting(t)
    <3>1. q.mbEof \in BOOLEAN
      BY <1>1 DEF QueryType
    <3>2. m_rs'[c].mbEof = FALSE => q.mbEof = FALSE
      BY <1>7, <3>1
    <3> QED
      BY <1>1, <3>2, HandlesAssumption DEF Selecting, Statement
  <2>7. ASSUME m_rs'[c].mbEof = FALSE
        PROVE  /\ s.at = told'[t].seen + 1 /\ s.at <= Len(events)
               /\ Len(events) = told'[t].total
    <3>1. /\ Statement(t).at = told[t].seen + 1 /\ Len(events) = told[t].total
      BY <1>1, <2>1, <2>6, <2>7 DEF AtRow, Assigning
    <3>2. n.mbEof = FALSE /\ s.at # 0
      BY <1>3, <1>7, <2>7
    <3>3. told[t].seen \in Nat /\ Statement(t).at \in Nat
      BY <1>1 DEF Knowledge, Statements
    <3> QED
      BY <1>1, <1>2, <1>6, <3>1, <3>2, <3>3
  <2>8. AtRow(t)'
    BY <1>4, <2>2, <2>5, <2>7 DEF AtRow
  <2>9. MoreSelects(t)' /\ WroteLast(t)'
    BY <1>3, <1>4, <1>6, <1>7, <2>1, <2>5 DEF MoreSelects, WroteLast
  <2> QED
    BY <2>3, <2>4, <2>8, <2>9 DEF ReaderOK
<1> QED
  BY <1>1, <1>8, <1>9, <1>10, ReaderInvKept

LEMMA RerunReturnsReaders ==
    ASSUME StorageInv, StorageInv', ReaderInv, NEW t \in Reader, RerunReturns(t)
    PROVE  ReaderInv'
<1> DEFINE c == This(t)
           k == vms[c][pVM(t)].insert
<1>0. /\ t \in Thread /\ c \in Conn /\ c # NoConn /\ pVM(t) \in VM
      /\ c \in objects[ProcessOf(t)] /\ call[t].at = "rerunning" /\ k > 0
  BY CallsAtHome, ThreadsAssumption, HandlesAssumption
     DEF StorageInv, FieldsTyped, RerunReturns, At, Stepped, Stepping
<1>1. k \in Nat
  BY <1>0, FieldTypes DEF StorageInv
<1>2. RerunReturnsChanges(t)
  BY <1>0, <1>1, RerunReturnsEffect DEF StorageInv
<1>3. /\ OthersStay(t) /\ call'[t] = Idle
      /\ events' = Append(events, k)
      /\ \A d \in Conn : /\ m_rs'[d].mpVM = m_rs[d].mpVM
                         /\ m_rs'[d].mbEof = IF d = c THEN TRUE ELSE m_rs[d].mbEof
      /\ UNCHANGED <<vms, m_instance, objects, misused>>
  BY <1>2 DEF RerunReturnsChanges
<1>4. ReadersGone(c) /\ LastRowIs(t, k, FALSE)
  <2>1. nextRow(m_rs[c], 0).mbEof = TRUE
    <3>1. m_rs[c] \in QueryType
      BY <1>0 DEF StorageInv, Typed
    <3> QED
      BY <3>1 DEF nextRow, QueryType
  <2> QED
    BY <2>1 DEF RerunReturns, Commit
<1>5. MisusedOpen' /\ ClosedFree'
  BY <1>3 DEF ReaderInv, MisusedOpen, ClosedFree
<1>6. \A r \in Reader : r # t => ObjectStays(r)
  <2> SUFFICES ASSUME NEW r \in Reader, r # t
               PROVE  ObjectStays(r)
    OBVIOUS
  <2>1. /\ r \in Thread /\ Instance(r) \notin misused /\ Instance(r)' = Instance(r)
        /\ Instance(r) \in Conn \cup {NoConn}
    BY <1>3, ThreadsAssumption, InstanceTyped
       DEF StorageInv, ReaderInv, ReaderOK, CallIsOwn, Instance
  <2>2. Instance(r) # c
    BY <1>0, Elsewhere
  <2> QED
    BY <1>3, <2>1, <2>2 DEF OthersStay, ObjectStays
<1>7. \A r \in Reader : r # t => KnowledgeStays(r)
  BY <1>0, <1>1, <1>3, <1>4, OthersWrite DEF StorageInv
<1>8. ReaderOK(t)'
  <2>1. OneObject(t) /\ CallIsOwn(t) /\ Owned(t)
    BY DEF ReaderInv, ReaderOK
  <2>2. /\ Instance(t) = c /\ Instance(t)' = c /\ m_rs[c].mpVM = pVM(t) /\ c \notin misused
        /\ call'[t].at = "idle" /\ call'[t].pVM = NoVM
    BY <1>0, <1>3, <2>1 DEF CallIsOwn, Outside, Instance, Idle
  <2>3. told'[t].more = FALSE /\ told'[t].wrote = k
    <3>1. told \in [Reader -> Knowledge]
      BY DEF StorageInv, Typed
    <3>2. LastRowIs(t, k, FALSE)
      BY <1>4
    <3> HIDE DEF k
    <3> QED
      BY <1>1, <3>1, <3>2, LastRowTold
  <2>4. Len(events) \in Nat /\ Len(events') = Len(events) + 1 /\ events'[Len(events) + 1] = k
    BY <1>3, Appended DEF StorageInv
  <2>5. OneObject(t)' /\ CallIsOwn(t)'
    BY <1>3, <2>1, <2>2 DEF OneObject, CallIsOwn, Outside, pVM
  <2>6. Owned(t)'
    BY <1>0, <1>3, <2>1, <2>2, HandlesAssumption DEF Owned, pVM
  <2>7. AtRow(t)'
    BY <1>0, <1>3, <2>2 DEF AtRow, Selecting
  <2>8. MoreSelects(t)' /\ WroteLast(t)'
    BY <2>3, <2>4 DEF MoreSelects, WroteLast
  <2> QED
    BY <2>5, <2>6, <2>7, <2>8 DEF ReaderOK
<1> QED
  BY <1>0, <1>5, <1>6, <1>7, <1>8, ReaderInvKept

LEMMA ProcessEndsReaders ==
    ASSUME StorageInv, StorageInv', ReaderInv, NEW p \in Process, ProcessEnds(p)
    PROVE  ReaderInv'
<1>1. ProcessEndsChanges(p)
  BY ProcessEndsEffect DEF StorageInv
<1>2. /\ \A t \in Thread : call'[t] = IF ProcessOf(t) = p THEN Idle ELSE call[t]
      /\ \A c \in Conn, v \in VM : vms'[c][v] = IF c \in objects[p] THEN Free ELSE vms[c][v]
      /\ \A c \in Conn : c \notin objects[p] => m_rs'[c] = m_rs[c]
      /\ \A o \in Process : /\ m_instance'[o] = IF o = p THEN NoConn ELSE m_instance[o]
                            /\ objects'[o] = IF o = p THEN {} ELSE objects[o]
      /\ misused' = misused \ objects[p] /\ events' = events
  BY <1>1 DEF ProcessEndsChanges
<1>3. \A r \in Reader : told'[r] = IF ProcessOf(r) = p THEN NothingTold(0) ELSE told[r]
  BY DEF ProcessEnds
<1>4. MisusedOpen'
  BY <1>2 DEF ReaderInv, MisusedOpen
<1>5. ClosedFree'
  <2> SUFFICES ASSUME NEW c \in Conn, \A o \in Process : c \notin objects'[o]
               PROVE  \A v \in VM : vms'[c][v] = Free
    BY DEF ClosedFree
  <2>1. CASE c \in objects[p]
    BY <1>2, <2>1
  <2>2. CASE c \notin objects[p]
    BY <1>2, <2>2 DEF ReaderInv, ClosedFree
  <2> QED
    BY <2>1, <2>2
<1>6. ASSUME NEW r \in Reader
      PROVE  ReaderOK(r)'
  <2>1. r \in Thread /\ ProcessOf(r) \in Process /\ Instance(r) \in Conn \cup {NoConn}
        /\ ReaderOK(r) /\ Instance(r) \notin misused
    BY ThreadsAssumption, InstanceTyped DEF StorageInv, ReaderInv, ReaderOK, CallIsOwn
  <2>2. CASE ProcessOf(r) # p
    <3>1. Instance(r)' = Instance(r) /\ Instance(r) \notin objects[p]
      <4>1. Instance(r) # NoConn => Instance(r) \in objects[ProcessOf(r)]
        BY <2>1 DEF StorageInv, Homes, Instance
      <4>2. NoConn \notin objects[p]
        BY HandlesAssumption DEF StorageInv, Typed
      <4> QED
        BY <1>2, <2>1, <2>2, <4>1, <4>2 DEF StorageInv, Homes, Instance
    <3>2. ObjectStays(r) /\ KnowledgeStays(r)
      BY <1>2, <1>3, <2>1, <2>2, <3>1 DEF ObjectStays, KnowledgeStays
    <3> QED
      BY <2>1, <3>2, StaysOK DEF StorageInv
  <2>3. CASE ProcessOf(r) = p
    <3>1. /\ call'[r].at = "idle" /\ call'[r].pVM = NoVM
          /\ Instance(r)' = NoConn /\ objects'[ProcessOf(r)] = {}
      BY <1>2, <2>1, <2>3 DEF Idle, Instance
    <3>2. told'[r].more = FALSE /\ told'[r].wrote = 0
      BY <1>3, <2>3 DEF NothingTold
    <3>3. NoConn \notin misused'
      BY <1>4, HandlesAssumption DEF MisusedOpen, StorageInv, Typed
    <3>4. OneObject(r)' /\ CallIsOwn(r)' /\ Owned(r)'
      BY <3>1, <3>3 DEF OneObject, CallIsOwn, Owned, Outside, pVM
    <3>5. AtRow(r)' /\ MoreSelects(r)' /\ WroteLast(r)'
      BY <3>1, <3>2 DEF AtRow, Selecting, MoreSelects, WroteLast
    <3> QED
      BY <3>4, <3>5 DEF ReaderOK
  <2> QED
    BY <2>2, <2>3
<1> QED
  BY <1>4, <1>5, <1>6 DEF ReaderInv

-----------------------------------------------------------------------------
LEMMA InitReaders == StorageInit => ReaderInv
<1> SUFFICES ASSUME StorageInit
             PROVE  ReaderInv
  OBVIOUS
<1>1. /\ m_instance = [p \in Process |-> NoConn] /\ objects = [p \in Process |-> {}]
      /\ call = [t \in Thread |-> Idle] /\ told = [r \in Reader |-> NothingTold(0)]
      /\ misused = {} /\ vms = [c \in Conn |-> [v \in VM |-> Free]]
  BY DEF StorageInit, SQLiteInit
<1>2. MisusedOpen /\ ClosedFree
  BY <1>1 DEF MisusedOpen, ClosedFree
<1>3. ASSUME NEW r \in Reader
      PROVE  ReaderOK(r)
  <2>1. /\ r \in Thread /\ ProcessOf(r) \in Process /\ Instance(r) = NoConn
        /\ objects[ProcessOf(r)] = {} /\ call[r] = Idle /\ told[r] = NothingTold(0)
    BY <1>1, ThreadsAssumption DEF Instance
  <2>2. /\ call[r].at = "idle" /\ call[r].pVM = NoVM
        /\ told[r].more = FALSE /\ told[r].wrote = 0
    BY <2>1 DEF Idle, NothingTold
  <2>3. OneObject(r) /\ CallIsOwn(r) /\ Owned(r)
    BY <1>1, <2>1, <2>2 DEF OneObject, CallIsOwn, Owned, Outside, pVM
  <2>4. AtRow(r) /\ MoreSelects(r) /\ WroteLast(r)
    BY <2>1, <2>2 DEF AtRow, Selecting, MoreSelects, WroteLast
  <2> QED
    BY <2>3, <2>4 DEF ReaderOK
<1> QED
  BY <1>2, <1>3 DEF ReaderInv

LEMMA StutterReaders ==
    ASSUME ReaderInv, UNCHANGED vars
    PROVE  ReaderInv'
BY DEF vars, sqliteVars, storageVars, historyVars, ReaderInv, MisusedOpen, ClosedFree,
       ReaderOK, OneObject, CallIsOwn, Owned, AtRow, MoreSelects, WroteLast, Selecting,
       Statement, Instance, This, pVM

LEMMA NextReaders == StorageInv /\ StorageInv' /\ ReaderInv /\ [StorageNext]_vars => ReaderInv'
<1> SUFFICES ASSUME StorageInv, StorageInv', ReaderInv, [StorageNext]_vars
             PROVE  ReaderInv'
  OBVIOUS
<1>1. CASE UNCHANGED vars
  BY <1>1, StutterReaders
<1>2. ASSUME NEW t \in Thread, SeesNoInstance(t) PROVE ReaderInv'
  BY <1>2, SeesNoInstanceReaders
<1>3. ASSUME NEW t \in Thread, LogConstructs(t) PROVE ReaderInv'
  BY <1>3, LogConstructsReaders
<1>4. ASSUME NEW t \in Thread, LogEvent(t) PROVE ReaderInv'
  BY <1>4, LogEventReaders
<1>5. ASSUME NEW t \in Thread, InsertTimedValues(t) PROVE ReaderInv'
  BY <1>5, InsertTimedValuesReaders
<1>6. ASSUME NEW t \in Thread, BeginWrite(t) PROVE ReaderInv'
  BY <1>6, BeginWriteReaders
<1>7. ASSUME NEW t \in Thread, Inserted(t) PROVE ReaderInv'
  BY <1>7, InsertedReaders
<1>8. ASSUME NEW t \in Thread, ReadsOld(t) PROVE ReaderInv'
  BY <1>8, ReadsOldReaders
<1>9. ASSUME NEW t \in Thread, FinalizesOld(t) PROVE ReaderInv'
  BY <1>9, FinalizesOldReaders
<1>10. ASSUME NEW t \in Thread, LogReturns(t) PROVE ReaderInv'
  BY <1>10, LogReturnsReaders
<1>11. ASSUME NEW r \in Reader, ReaderConstructs(r) PROVE ReaderInv'
  BY <1>11, ReaderConstructsReaders
<1>12. ASSUME NEW r \in Reader, NextRecord(r) PROVE ReaderInv'
  BY <1>12, NextRecordReaders
<1>13. ASSUME NEW r \in Reader, NextRecordReruns(r) PROVE ReaderInv'
  BY <1>13, NextRecordRerunsReaders
<1>14. ASSUME NEW r \in Reader, RerunReturns(r) PROVE ReaderInv'
  BY <1>14, RerunReturnsReaders
<1>15. ASSUME NEW p \in Process, ProcessEnds(p) PROVE ReaderInv'
  BY <1>15, ProcessEndsReaders
<1> QED
  BY <1>1, <1>2, <1>3, <1>4, <1>5, <1>6, <1>7, <1>8, <1>9, <1>10,
     <1>11, <1>12, <1>13, <1>14, <1>15 DEF StorageNext

THEOREM ReaderInvariant == StorageSpec => []ReaderInv
<1>1. StorageInit => ReaderInv
  BY InitReaders
<1>2. StorageInv /\ StorageInv' /\ ReaderInv /\ [StorageNext]_vars => ReaderInv'
  BY NextReaders
<1> QED
  BY <1>1, <1>2, StorageInvariant, PTL DEF StorageSpec

-----------------------------------------------------------------------------
\* CppSQLite3U.cpp:517: where one thread at a time uses the storage, each statement
\* of its connection has exactly one owner; and no SELECT without one is left running
\* anywhere.
THEOREM OwnersOfStatements == StorageSpec => []StatementsOwned
<1>1. StorageInv /\ ReaderInv => StatementsOwned
  <2> SUFFICES ASSUME StorageInv, ReaderInv
               PROVE  StatementsOwned
    OBVIOUS
  <2>1. ASSUME NEW r \in Reader, Instance(r) # NoConn
        PROVE  VM \ Unused(Instance(r)) = {m_rs[Instance(r)].mpVM, pVM(r)} \ {NoVM}
    <3>1. r \in Thread /\ Instance(r) \in Conn
      BY <2>1, ThreadsAssumption, InstanceTyped DEF StorageInv
    <3>2. m_rs[Instance(r)].mpVM \in VM \cup {NoVM} /\ pVM(r) \in VM \cup {NoVM}
      BY <3>1, FieldTypes DEF StorageInv, pVM
    <3>3. \A v \in VM : vms[Instance(r)][v] # Free <=> v \in {m_rs[Instance(r)].mpVM, pVM(r)}
      BY <2>1 DEF ReaderInv, ReaderOK, Owned
    <3> QED
      BY <3>2, <3>3, HandlesAssumption DEF Unused
  <2>2. ASSUME NEW c \in Conn, NEW v \in VM \ {m_rs[c].mpVM}
        PROVE  vms[c][v].at = 0
    <3>1. vms[c][v].at \in Nat
      BY FieldTypes DEF StorageInv
    <3> QED
      BY <3>1 DEF StorageInv, OnlySelectsRun, SelectIsQuerys
  <2> QED
    BY <2>1, <2>2 DEF StatementsOwned
<1> QED
  BY <1>1, StorageInvariant, ReaderInvariant, PTL

\* PersistentStorage.cpp:100-102: a reader that was told of a further row finds that
\* row in m_rs, the one behind those it had before.
THEOREM ReadingForward == StorageSpec => []ReadsForward
<1>1. StorageInv /\ ReaderInv => ReadsForward
  <2> SUFFICES ASSUME StorageInv, ReaderInv, NEW r \in Reader, told[r].more
               PROVE  /\ told[r].seen < Len(events)
                      /\ GetRecord(r) = RecordOf(events[told[r].seen + 1])
    BY DEF ReadsForward
  <2>1. told[r] \in Knowledge /\ Len(events) \in Nat
    BY DEF StorageInv, Typed
  <2>2. told[r].more = TRUE /\ told[r].seen \in Nat
    BY <2>1 DEF Knowledge
  <2>3. Selecting(r)
    BY <2>2 DEF ReaderInv, ReaderOK, MoreSelects
  <2>4. Statement(r).at = told[r].seen + 1 /\ Statement(r).at <= Len(events)
    BY <2>3 DEF ReaderInv, ReaderOK, AtRow
  <2>5. m_rs[Instance(r)].mbEof = FALSE
    BY <2>3 DEF Selecting
  <2>6. GetRecord(r) = RecordOf(events[Statement(r).at])
    BY <2>5 DEF GetRecord
  <2> QED
    BY <2>1, <2>2, <2>4, <2>6
<1> QED
  BY <1>1, StorageInvariant, ReaderInvariant, PTL

LEMMA IntFieldExact ==
    ASSUME NEW n \in Int
    PROVE  getIntField(n) = n <=> n \in Int32
<1>1. PICK h \in Nat \ {0} : IntSize = 2 * h
  <2>1. IntSize \in Nat \ {0} /\ IntSize % 2 = 0
    BY IntAssumption
  <2>2. IntSize = 2 * (IntSize \div 2) /\ IntSize \div 2 \in Nat \ {0}
    BY <2>1
  <2> QED
    BY <2>2
<1>2. IntSize \div 2 = h
  BY <1>1
<1>3. \A a \in Int : a % IntSize \in 0 .. IntSize - 1
  BY IntAssumption
<1>4. \A a \in 0 .. IntSize - 1 : a % IntSize = a
  BY IntAssumption
<1>5. getIntField(n) = n <=> (n + h) % IntSize = n + h
  <2>1. n + h \in Int
    OBVIOUS
  <2>2. (n + h) % IntSize \in Int
    BY <1>3, <2>1
  <2>3. getIntField(n) = ((n + h) % IntSize) - h
    BY <1>2 DEF getIntField
  <2> DEFINE m == (n + h) % IntSize
  <2> HIDE DEF m
  <2>4. m \in Int /\ getIntField(n) = m - h
    BY <2>2, <2>3 DEF m
  <2>5. m - h = n <=> m = n + h
    BY <2>4
  <2> QED
    BY <2>4, <2>5 DEF m
<1>6. (n + h) % IntSize = n + h <=> n + h \in 0 .. IntSize - 1
  <2>1. n + h \in Int
    OBVIOUS
  <2> QED
    BY <1>3, <1>4, <2>1
<1>7. n + h \in 0 .. IntSize - 1 <=> n \in Int32
  BY <1>1, <1>2 DEF Int32
<1> QED
  BY <1>5, <1>6, <1>7

\* Utils.cpp:87-100: a reader that has logged gets its event back by GetLastRecord, as
\* long as nobody else writes, and its id exactly if the id fits into an int.
THEOREM ReadingBack == StorageSpec => []ReadsBack
<1>1. StorageInv /\ ReaderInv => ReadsBack
  <2> SUFFICES ASSUME StorageInv, ReaderInv, NEW r \in Reader, told[r].wrote # 0
               PROVE  /\ GetLastRecord.key = told[r].wrote
                      /\ GetLastRecord.event_id = EventId(told[r].wrote)
                           <=> EventId(told[r].wrote) \in Int32
    BY DEF ReadsBack
  <2> DEFINE k == told[r].wrote
  <2>1. Len(events) > 0 /\ events[Len(events)] = k
    BY DEF ReaderInv, ReaderOK, WroteLast
  <2>2. events \in Seq(Nat) /\ Len(events) \in 1 .. Len(events)
    BY <2>1 DEF StorageInv, Typed
  <2>3. EventId(k) \in Int
    <3>1. k \in 1 .. asked /\ asked \in 0 .. MaxRows
      BY <2>1, <2>2 DEF StorageInv, RowKeys, Typed
    <3>2. k \in 1 .. MaxRows
      BY <3>1, BoundsAssumption
    <3> QED
      BY <3>2, BoundsAssumption
  <2>4. GetLastRecord = [key |-> k, event_id |-> getIntField(EventId(k))]
    <3>1. events # <<>>
      BY <2>1
    <3> QED
      BY <2>1, <3>1 DEF GetLastRecord, RecordOf
  <2> QED
    BY <2>3, <2>4, IntFieldExact
<1> QED
  BY <1>1, StorageInvariant, ReaderInvariant, PTL

\* Only NextRecord ends a reading, and only behind the last row.
LEMMA EndOfReading ==
    ASSUME StorageInv, ReaderInv, [StorageNext]_vars, NEW r \in Reader, Ends(r)
    PROVE  Len(events) = told[r].total /\ told[r].seen + 1 = told[r].total
<1>1. told[r] \in Knowledge /\ Len(events) \in Nat /\ r \in Thread /\ ProcessOf(r) \in Process
  BY ThreadsAssumption DEF StorageInv, Typed
<1>2. told[r].more = TRUE /\ told[r].seen \in Nat
  BY <1>1 DEF Ends, Knowledge
<1>3. Selecting(r)
  BY <1>2 DEF ReaderInv, ReaderOK, MoreSelects
<1>4. /\ Instance(r) # NoConn /\ m_rs[Instance(r)].mbEof = FALSE /\ Statement(r).insert = 0
      /\ Statement(r).at = told[r].seen + 1 /\ Statement(r).at <= Len(events)
      /\ call[r].at \notin Assigning => Len(events) = told[r].total
  BY <1>3 DEF Selecting, ReaderInv, ReaderOK, AtRow
<1>5. Instance(r) \in Conn /\ m_rs[Instance(r)].mpVM \in VM
  BY <1>1, <1>3, InstanceTyped, FieldTypes DEF StorageInv, Selecting
<1>6. told'[r] # told[r] /\ m_rs'[Instance(r)] # m_rs[Instance(r)]
  BY <1>2, <1>4 DEF Ends
<1>7. ~UNCHANGED told /\ ~UNCHANGED m_rs
  BY <1>6
<1>8. ASSUME NEW t \in Thread,
             \/ SeesNoInstance(t) \/ LogEvent(t) \/ InsertTimedValues(t) \/ BeginWrite(t)
             \/ Inserted(t) \/ ReadsOld(t) \/ FinalizesOld(t) \/ LogReturns(t)
      PROVE  FALSE
  BY <1>7, <1>8
     DEF SeesNoInstance, LogEvent, InsertTimedValues, BeginWrite, Inserted, ReadsOld,
         FinalizesOld, LogReturns, storageVars, historyVars
<1>9. ASSUME NEW t \in Thread, Construct(t)
      PROVE  FALSE
  <2>1. told'[r] = IF r = t THEN NothingTold(Len(events)) ELSE told[r]
    BY <1>9 DEF Construct
  <2>2. r = t
    BY <1>6, <2>1
  <2>3. Instance(r)' = NewConn
    BY <1>1, <1>9, <2>2 DEF Construct, Instance, StorageInv, Typed
  <2>4. Instance(r) \in objects[ProcessOf(r)] /\ NewConn \notin objects[ProcessOf(r)]
    BY <1>1, <1>4, <1>9, NewConnUnopened DEF Construct, StorageInv, Homes, Instance
  <2> QED
    BY <2>3, <2>4 DEF Ends
<1>10. ASSUME NEW t \in Reader, RerunReturns(t)
       PROVE  FALSE
  <2>1. t \in Thread /\ call[t].at = "rerunning"
    BY <1>10, ThreadsAssumption DEF RerunReturns, At
  <2>2. m_rs' = [m_rs EXCEPT ![This(t)] = nextRow(m_rs[This(t)], 0)]
    BY <1>10 DEF RerunReturns
  <2>3. This(t) = Instance(r)
    BY <1>5, <1>6, <2>2 DEF StorageInv, Typed
  <2>4. t = r
    <3>1. This(t) = Instance(t)
      BY <2>1 DEF ReaderInv, ReaderOK, CallIsOwn, Outside
    <3>2. Instance(t) \in objects[ProcessOf(t)]
      BY <1>4, <2>1, <2>3, <3>1, ThreadsAssumption DEF StorageInv, Homes, Instance
    <3> QED
      BY <1>4, <2>1, <2>3, <3>1, <3>2, Elsewhere
  <2>5. vms[This(t)][pVM(t)].insert > 0 /\ m_rs[This(t)].mpVM = pVM(t)
    BY <2>1 DEF StorageInv, Stepped, Stepping, ReaderInv, ReaderOK, CallIsOwn
  <2> QED
    BY <1>4, <2>3, <2>4, <2>5 DEF Statement
<1>11. ASSUME NEW p \in Process, ProcessEnds(p)
       PROVE  FALSE
  <2>1. told'[r] = IF ProcessOf(r) = p THEN NothingTold(0) ELSE told[r]
    BY <1>11 DEF ProcessEnds
  <2>2. ProcessOf(r) = p
    BY <1>6, <2>1
  <2>3. Instance(r)' = NoConn
    BY <1>1, <1>11, <2>2 DEF ProcessEnds, Instance, StorageInv, Typed
  <2> QED
    BY <1>4, <2>3 DEF Ends
<1>12. ASSUME NEW t \in Reader, NextRecord(t)
       PROVE  Len(events) = told[r].total /\ told[r].seen + 1 = told[r].total
  <2>1. told' = [told EXCEPT ![t] = NextRecordSays(t, ~nextRow(m_rs[Instance(t)],
                                                   SelectStep(Statement(t)).at).mbEof)]
        /\ m_rs' = [m_rs EXCEPT ![Instance(t)] = nextRow(m_rs[Instance(t)],
                                                         SelectStep(Statement(t)).at)]
        /\ call[t].at = "idle"
    BY <1>12 DEF NextRecord, Reads, At
  <2>2. t = r
    BY <1>6, <2>1 DEF StorageInv, Typed
  <2>3. m_rs'[Instance(r)].mbEof = (m_rs[Instance(r)].mbEof \/ SelectStep(Statement(r)).at = 0)
    <3>1. m_rs \in [Conn -> QueryType] /\ m_rs[Instance(r)] \in QueryType
      BY <1>5 DEF StorageInv, Typed
    <3>2. m_rs'[Instance(r)] = nextRow(m_rs[Instance(r)], SelectStep(Statement(r)).at)
      BY <1>5, <2>1, <2>2, <3>1
    <3> QED
      BY <3>1, <3>2 DEF nextRow, QueryType
  <2>4. SelectStep(Statement(r)).at = 0
    BY <1>4, <2>3 DEF Ends
  <2>5. Statement(r) \in Statements
    BY <1>5 DEF StorageInv, Typed, Statement
  <2>6. ~(Statement(r).at < Len(events))
    BY <1>1, <2>4, <2>5 DEF SelectStep, Statements
  <2>7. Len(events) = told[r].total
    BY <1>4, <2>1, <2>2 DEF Assigning
  <2> QED
    BY <1>1, <1>2, <1>4, <2>6, <2>7
<1>13. ASSUME NEW t \in Reader, NextRecordReruns(t)
       PROVE  FALSE
  BY <1>7, <1>13 DEF NextRecordReruns, storageVars, historyVars
<1>14. ~UNCHANGED vars
  BY <1>7 DEF vars, storageVars
<1> QED
  BY <1>8, <1>9, <1>10, <1>11, <1>12, <1>13, <1>14, ThreadsAssumption
     DEF StorageNext, LogConstructs, ReaderConstructs

\* PersistentStorage.cpp:27, 69-76: a reading that NextRecord ends has been through
\* all the rows of when it began, and nobody has written a row meanwhile.
THEOREM ReadingToTheEnd == StorageSpec => ReadsToTheEnd
<1>1. StorageInv /\ ReaderInv /\ [StorageNext]_vars =>
        [\A r \in Reader : Ends(r) =>
           Len(events) = told[r].total /\ told[r].seen + 1 = told[r].total]_vars
  BY EndOfReading
<1> QED
  BY <1>1, StorageInvariant, ReaderInvariant, PTL DEF StorageSpec, ReadsToTheEnd

-----------------------------------------------------------------------------
(* The bounds: no row, key or count beyond them, and no place behind the     *)
(* last row.                                                                *)

\* There is room for the row of a call that is inside the step of an INSERT.
Room == /\ Len(events) <= MaxRows
        /\ \A t \in Thread : call[t].at \in Stepping => Len(events) < MaxRows
Places == \A c \in Conn, v \in VM : vms[c][v].insert >= -1 /\ vms[c][v].at <= Len(events)
ToldBounded == \A r \in Reader : /\ told[r].seen <= MaxRows /\ told[r].total <= MaxRows
                                 /\ told[r].wrote <= MaxRows
KeysBounded == \A t \in Thread : call[t].key <= asked
Counted == starts \in 0 .. MaxStarts /\ acked \subseteq 1 .. asked

Bounded == Room /\ Places /\ ToldBounded /\ KeysBounded /\ Counted

LEMMA RoomKept ==
    ASSUME StorageInv, StorageInv', Room, [StorageNext]_vars
    PROVE  Room'
<1> USE DEF Stepping
<1>0. Len(events) \in Nat /\ MaxRows \in Nat
  BY BoundsAssumption DEF StorageInv, Typed
<1>1. ASSUME UNCHANGED events, \A t \in Thread : call'[t].at \in Stepping => call[t].at \in Stepping
      PROVE  Room'
  BY <1>1 DEF Room
<1>2. ASSUME NEW t \in Thread, OthersStay(t), call'[t].at \notin Stepping
      PROVE  \A u \in Thread : call'[u].at \in Stepping => call[u].at \in Stepping /\ u # t
  BY <1>2 DEF OthersStay
<1>3. ASSUME NEW t \in Thread, NEW k, events' = Append(events, k), OthersStay(t),
             call[t].at \in Stepping, call'[t].at \notin Stepping
      PROVE  Room'
  <2>1. \A u \in Thread : call'[u].at \notin Stepping
    BY <1>2, <1>3 DEF StorageInv, OneSteps
  <2>2. Len(events) < MaxRows /\ Len(events') = Len(events) + 1
    BY <1>3, Appended DEF Room, StorageInv
  <2> QED
    BY <1>0, <2>1, <2>2 DEF Room
<1>4. ASSUME NEW t \in Thread, BeginWrite(t) PROVE Room'
  <2>1. This(t) \in Conn
    BY <1>4, CallsAtHome DEF StorageInv, FieldsTyped, BeginWrite, At, Compiled
  <2>2. BeginWriteChanges(t) /\ Len(events) < MaxRows
    BY <1>4, <2>1, BeginWriteEffect DEF StorageInv, BeginWrite
  <2> QED
    BY <1>0, <2>2 DEF BeginWriteChanges, OthersStay, Room
<1>5. ASSUME NEW t \in Thread, Inserted(t) PROVE Room'
  <2>1. call[t].at = "inserting" /\ call[t].at \in Compiled
    BY <1>5 DEF Inserted, At, Compiled
  <2>2. This(t) \in Conn /\ pVM(t) \in VM
    BY <2>1, CallsAtHome DEF StorageInv, FieldsTyped
  <2>3. vms[This(t)][pVM(t)].insert \in Nat
    BY <2>1, <2>2, FieldTypes DEF StorageInv, Stepped
  <2>4. InsertedChanges(t)
    BY <1>5, <2>3, InsertedEffect DEF StorageInv
  <2> QED
    BY <1>3, <2>4 DEF InsertedChanges
<1>6. ASSUME NEW t \in Reader, RerunReturns(t) PROVE Room'
  <2>1. t \in Thread /\ call[t].at = "rerunning"
    BY <1>6, ThreadsAssumption DEF RerunReturns, At
  <2>2. This(t) \in Conn /\ pVM(t) \in VM
    BY <2>1, CallsAtHome DEF StorageInv, FieldsTyped
  <2>3. vms[This(t)][pVM(t)].insert \in Nat
    BY <2>1, <2>2, FieldTypes DEF StorageInv, Stepped
  <2>4. RerunReturnsChanges(t)
    BY <1>6, <2>2, <2>3, RerunReturnsEffect DEF StorageInv
  <2> QED
    BY <1>3, <2>1, <2>4 DEF RerunReturnsChanges, Idle
<1>7. ASSUME UNCHANGED vars PROVE Room'
  BY <1>7 DEF vars, sqliteVars, Room
<1>8. ASSUME NEW t \in Thread,
             \/ SeesNoInstance(t) \/ LogEvent(t) \/ InsertTimedValues(t) \/ ReadsOld(t)
      PROVE  Room'
  <2>1. This(t) \in Conn \/ ~ReadsOld(t)
    BY CallsAtHome DEF StorageInv, FieldsTyped, ReadsOld, At, Compiled
  <2>2. events' = events /\ OthersStay(t) /\ call'[t].at \notin Stepping
    BY <1>8, <2>1, SeesNoInstanceEffect, LogEventEffect, InsertTimedValuesEffect, ReadsOldEffect
       DEF StorageInv, SeesNoInstanceChanges, LogEventChanges, InsertTimedValuesChanges,
           ReadsOldChanges
  <2> QED
    BY <1>1, <1>2, <2>2
<1>9. ASSUME NEW t \in Thread, FinalizesOld(t) \/ LogReturns(t)
      PROVE  Room'
  <2>1. This(t) \in Conn
    BY <1>9, CallsAtHome DEF StorageInv, FieldsTyped, FinalizesOld, LogReturns, At, Compiled
  <2>2. events' = events /\ OthersStay(t) /\ call'[t].at \notin Stepping
    BY <1>9, <2>1, FinalizesOldEffect, LogReturnsEffect
       DEF StorageInv, FinalizesOldChanges, LogReturnsChanges, Idle
  <2> QED
    BY <1>1, <1>2, <2>2
<1>10. ASSUME NEW t \in Thread, LogConstructs(t) PROVE Room'
  <2>1. events' = events /\ Goto(t, "get_instance") /\ "get_instance" \in Steps
    BY <1>10 DEF LogConstructs, Construct, Steps
  <2>2. OthersStay(t) /\ call'[t].at \notin Stepping
    BY <2>1, Goes DEF StorageInv, Typed
  <2> QED
    BY <1>1, <1>2, <2>1, <2>2
<1>11. ASSUME NEW r \in Reader, ReaderConstructs(r) \/ NextRecord(r) PROVE Room'
  BY <1>11 DEF ReaderConstructs, Construct, NextRecord, Room
<1>12. ASSUME NEW r \in Reader, NextRecordReruns(r) PROVE Room'
  <2>1. r \in Thread /\ NextRecordRerunsChanges(r)
    BY <1>12, ThreadsAssumption, NextRecordRerunsEffect DEF StorageInv
  <2> QED
    BY <1>1, <1>2, <2>1 DEF NextRecordRerunsChanges
<1>13. ASSUME NEW p \in Process, ProcessEnds(p) PROVE Room'
  <2>1. ProcessEndsChanges(p)
    BY <1>13, ProcessEndsEffect DEF StorageInv
  <2> QED
    BY <1>1, <2>1 DEF ProcessEndsChanges, Idle
<1> QED
  BY <1>4, <1>5, <1>6, <1>7, <1>8, <1>9, <1>10, <1>11, <1>12, <1>13 DEF StorageNext

\* The rows never get fewer; a statement that another step leaves alone stays in bounds.
LEMMA PlacesKept ==
    ASSUME StorageInv, StorageInv', Places, [StorageNext]_vars
    PROVE  Places'
<1>0. /\ Len(events) \in Nat
      /\ \A c \in Conn, v \in VM : vms[c][v].insert \in Int /\ vms[c][v].at \in Nat
  BY FieldTypes DEF StorageInv, Typed
<1>1. ASSUME NEW k, events' = Append(events, k), UNCHANGED vms
      PROVE  Places'
  <2>1. Len(events') = Len(events) + 1
    BY <1>1, Appended DEF StorageInv
  <2> QED
    BY <1>0, <1>1, <2>1 DEF Places
<1>2. ASSUME NEW s \in Statements, UNCHANGED events, s.insert >= -1, s.at <= Len(events),
             \A c \in Conn, v \in VM : vms'[c][v] = s \/ vms'[c][v] = vms[c][v]
      PROVE  Places'
  BY <1>0, <1>2 DEF Places
<1>3. Free \in Statements /\ Free.insert >= -1 /\ Free.at <= Len(events)
  BY <1>0 DEF Free, Statements
<1>4. vms \in [Conn -> [VM -> Statements]]
  BY DEF StorageInv, Typed
<1>5. ASSUME NEW q \in Statements, q.insert >= -1
      PROVE  /\ SelectStep(q) \in Statements /\ SelectStep(q).insert >= -1
             /\ SelectStep(q).at <= Len(events)
  BY <1>0, <1>5 DEF SelectStep, Statements
<1>6. ASSUME NEW t \in Thread, Construct(t) PROVE Places'
  <2>1. PICK c \in Conn, v \in VM : vms' = [vms EXCEPT ![c][v] = SelectStep(SelectAll)]
    <3>1. NewConn \in Conn
      BY <1>6, NewConnUnopened DEF Construct
    <3> QED
      BY <1>6, <3>1 DEF Construct
  <2>2. SelectAll \in Statements /\ SelectAll.insert >= -1
    BY DEF SelectAll, Statements
  <2>3. OnlyStatement(c, v, SelectStep(SelectAll))
    BY <1>4, <1>5, <2>1, <2>2, StatementSet
  <2> QED
    BY <1>2, <1>5, <1>6, <2>2, <2>3 DEF OnlyStatement, Construct
<1>7. ASSUME NEW t \in Thread, LogConstructs(t) PROVE Places'
  BY <1>6, <1>7 DEF LogConstructs
<1>8. ASSUME NEW r \in Reader, ReaderConstructs(r) PROVE Places'
  BY <1>6, <1>8, ThreadsAssumption DEF ReaderConstructs
<1>9. ASSUME NEW t \in Thread, InsertTimedValues(t) PROVE Places'
  <2>1. PICK v \in VM : InsertTimedValuesChanges(t, v)
    BY <1>9, InsertTimedValuesEffect DEF StorageInv
  <2>2. call[t].key \in Nat
    BY FieldTypes DEF StorageInv
  <2>3. /\ InsertOf(call[t].key) \in Statements
        /\ InsertOf(call[t].key).insert >= -1 /\ InsertOf(call[t].key).at <= Len(events)
    BY <1>0, <2>2 DEF InsertOf, Statements
  <2>4. UNCHANGED events /\ \A c \in Conn, w \in VM :
          vms'[c][w] = InsertOf(call[t].key) \/ vms'[c][w] = vms[c][w]
    BY <2>1 DEF InsertTimedValuesChanges, OnlyStatement
  <2> QED
    BY <1>2, <2>3, <2>4
<1>10. ASSUME NEW t \in Thread, FinalizesOld(t) PROVE Places'
  <2>1. This(t) \in Conn
    BY <1>10, CallsAtHome DEF StorageInv, FieldsTyped, FinalizesOld, At, Compiled
  <2>2. FinalizesOldChanges(t)
    BY <1>10, <2>1, FinalizesOldEffect DEF StorageInv
  <2> QED
    BY <1>2, <1>3, <2>2 DEF FinalizesOldChanges
<1>11. ASSUME NEW r \in Reader, NextRecord(r) PROVE Places'
  <2>1. Instance(r) \in Conn /\ m_rs[Instance(r)].mpVM \in VM
    BY <1>11, NextRecordEffect DEF StorageInv, NextRecordChanges
  <2>2. Statement(r) \in Statements /\ Statement(r).insert >= -1
    BY <1>4, <2>1 DEF Statement, Places
  <2>3. OnlyStatement(Instance(r), m_rs[Instance(r)].mpVM, SelectStep(Statement(r)))
    BY <1>4, <1>5, <1>11, <2>1, <2>2, StatementSet DEF NextRecord
  <2> QED
    BY <1>2, <1>5, <1>11, <2>2, <2>3 DEF OnlyStatement, NextRecord
<1>12. ASSUME NEW p \in Process, ProcessEnds(p) PROVE Places'
  <2>1. ProcessEndsChanges(p)
    BY <1>12, ProcessEndsEffect DEF StorageInv
  <2> QED
    BY <1>2, <1>3, <2>1 DEF ProcessEndsChanges
<1>13. ASSUME NEW t \in Thread, Inserted(t) PROVE Places'
  BY <1>1, <1>13 DEF Inserted, Commit
<1>14. ASSUME NEW r \in Reader, RerunReturns(r) PROVE Places'
  BY <1>1, <1>14 DEF RerunReturns, Commit
<1>15. ASSUME NEW t \in Thread,
              \/ SeesNoInstance(t) \/ LogEvent(t) \/ BeginWrite(t)
              \/ ReadsOld(t) \/ LogReturns(t)
       PROVE  Places'
  BY <1>15 DEF SeesNoInstance, LogEvent, BeginWrite, ReadsOld, LogReturns, sqliteVars, Places
<1>16. ASSUME NEW r \in Reader, NextRecordReruns(r) PROVE Places'
  BY <1>16 DEF NextRecordReruns, sqliteVars, Places
<1>17. ASSUME UNCHANGED vars PROVE Places'
  BY <1>17 DEF vars, sqliteVars, Places
<1> QED
  BY <1>7, <1>8, <1>9, <1>10, <1>11, <1>12, <1>13, <1>14, <1>15, <1>16, <1>17
     DEF StorageNext

\* A reader that is told of a row stands at a row, and has seen one fewer.
LEMMA ToldKept ==
    ASSUME StorageInv, StorageInv', ReaderInv, Room, ToldBounded, [StorageNext]_vars
    PROVE  ToldBounded'
<1>0. /\ Len(events) \in Nat /\ MaxRows \in Nat /\ Len(events) <= MaxRows
      /\ told \in [Reader -> Knowledge] /\ asked <= MaxRows /\ asked \in Nat
  BY BoundsAssumption DEF StorageInv, Typed, Room
<1>1. ASSUME NEW t, NEW k \in Nat, k <= MaxRows, NEW more \in BOOLEAN, LastRowIs(t, k, more)
      PROVE  ToldBounded'
  BY <1>0, <1>1, LastRowTold DEF ToldBounded
<1>2. ASSUME UNCHANGED told PROVE ToldBounded'
  BY <1>2 DEF ToldBounded
<1>3. ASSUME NEW n \in Nat, n <= MaxRows,
             \A r \in Reader : told'[r] = NothingTold(n) \/ told'[r] = told[r]
      PROVE  ToldBounded'
  BY <1>0, <1>3 DEF ToldBounded, NothingTold
<1>4. ASSUME NEW t \in Thread, Inserted(t) PROVE ToldBounded'
  <2>1. call[t].key \in 1 .. asked
    BY <1>4 DEF StorageInv, CallKeys, Compiled, Inserted, At
  <2>2. call[t].key \in Nat /\ call[t].key <= MaxRows /\ FALSE \in BOOLEAN
    BY <1>0, <2>1
  <2>3. LastRowIs(t, call[t].key, FALSE)
    BY <1>4 DEF Inserted
  <2> QED
    BY <1>1, <2>2, <2>3, Zenon
<1>5. ASSUME NEW r \in Reader, RerunReturns(r) PROVE ToldBounded'
  <2>1. r \in Thread /\ call[r].at = "rerunning"
    BY <1>5, ThreadsAssumption DEF RerunReturns, At
  <2>2. This(r) \in Conn /\ pVM(r) \in VM
    BY <2>1, CallsAtHome DEF StorageInv, FieldsTyped
  <2>3. /\ vms[This(r)][pVM(r)].insert \in Nat /\ vms[This(r)][pVM(r)].insert <= asked
    BY <2>1, <2>2, FieldTypes DEF StorageInv, Stepped, Stepping, StatementKeys
  <2> DEFINE k == vms[This(r)][pVM(r)].insert
             more == ~nextRow(m_rs[This(r)], 0).mbEof
  <2>4. k \in Nat /\ k <= MaxRows /\ more \in BOOLEAN
    BY <1>0, <2>3
  <2>5. LastRowIs(r, k, more)
    BY <1>5 DEF RerunReturns
  <2> HIDE DEF k, more
  <2> QED
    BY <1>1, <2>4, <2>5, Zenon
<1>6. ASSUME NEW t \in Thread, Construct(t) PROVE ToldBounded'
  <2>1. \A r \in Reader : told'[r] = NothingTold(Len(events)) \/ told'[r] = told[r]
    BY <1>6 DEF Construct
  <2> QED
    BY <1>0, <1>3, <2>1
<1>7. ASSUME NEW t \in Thread, LogConstructs(t) PROVE ToldBounded'
  BY <1>6, <1>7 DEF LogConstructs
<1>8. ASSUME NEW r \in Reader, ReaderConstructs(r) PROVE ToldBounded'
  BY <1>6, <1>8, ThreadsAssumption DEF ReaderConstructs
<1>9. ASSUME NEW p \in Process, ProcessEnds(p) PROVE ToldBounded'
  <2>1. \A r \in Reader : told'[r] = NothingTold(0) \/ told'[r] = told[r]
    BY <1>9 DEF ProcessEnds
  <2> QED
    BY <1>0, <1>3, <2>1
<1>10. ASSUME NEW r \in Reader, NextRecord(r) PROVE ToldBounded'
  <2> DEFINE q == m_rs[Instance(r)]
             s == SelectStep(Statement(r))
             yes == ~nextRow(q, s.at).mbEof
  <2>1. /\ Instance(r) \in Conn /\ Instance(r) # NoConn /\ q.mpVM # NoVM
        /\ Statement(r).insert = 0 /\ q \in QueryType
    BY <1>10, NextRecordEffect DEF StorageInv, Typed, NextRecordChanges, NextRecord, Reads
  <2>2. told'[r] = NextRecordSays(r, yes) /\ \A u \in Reader : u # r => told'[u] = told[u]
    BY <1>0, <1>10 DEF NextRecord
  <2>3. yes => told[r].seen + 1 <= Len(events)
    <3>1. yes => Selecting(r)
      BY <2>1 DEF nextRow, QueryType, Selecting
    <3>2. Selecting(r) => told[r].seen + 1 <= Len(events)
      BY DEF ReaderInv, ReaderOK, AtRow
    <3> QED
      BY <3>1, <3>2
  <2> HIDE DEF yes
  <2>4. /\ told'[r].seen = IF yes THEN told[r].seen + 1 ELSE told[r].seen
        /\ told'[r].total = told[r].total /\ told'[r].wrote = told[r].wrote
    BY <1>0, <2>2 DEF NextRecordSays, Knowledge
  <2>5. told[r].seen \in Nat
    BY <1>0 DEF Knowledge
  <2> QED
    BY <1>0, <2>2, <2>3, <2>4, <2>5 DEF ToldBounded
<1>11. ASSUME NEW t \in Thread,
              \/ SeesNoInstance(t) \/ LogEvent(t) \/ InsertTimedValues(t) \/ BeginWrite(t)
              \/ ReadsOld(t) \/ FinalizesOld(t) \/ LogReturns(t)
       PROVE  ToldBounded'
  BY <1>2, <1>11 DEF SeesNoInstance, LogEvent, InsertTimedValues, BeginWrite, ReadsOld,
                     FinalizesOld, LogReturns, historyVars
<1>12. ASSUME NEW r \in Reader, NextRecordReruns(r) PROVE ToldBounded'
  BY <1>2, <1>12 DEF NextRecordReruns, historyVars
<1>13. ASSUME UNCHANGED vars PROVE ToldBounded'
  BY <1>2, <1>13 DEF vars, historyVars
<1> QED
  BY <1>4, <1>5, <1>7, <1>8, <1>9, <1>10, <1>11, <1>12, <1>13 DEF StorageNext

LEMMA KeysKept ==
    ASSUME StorageInv, StorageInv', KeysBounded, [StorageNext]_vars
    PROVE  KeysBounded'
<1>0. asked \in Nat /\ asked' \in Nat /\ \A t \in Thread : call[t].key \in Nat
  BY FieldTypes DEF StorageInv, Typed
<1>1. ASSUME NEW t \in Thread, asked' >= asked, OthersStay(t),
             call'[t].key = call[t].key \/ call'[t].key = asked' \/ call'[t].key = 0
      PROVE  KeysBounded'
  BY <1>0, <1>1 DEF OthersStay, KeysBounded
<1>2. ASSUME UNCHANGED <<call, asked>> PROVE KeysBounded'
  BY <1>2 DEF KeysBounded
<1>3. \A t \in Thread : call[t].at \in Compiled \cup {"rerun", "rerunning"} =>
        This(t) \in Conn /\ pVM(t) \in VM
  BY CallsAtHome DEF StorageInv, FieldsTyped
<1>4. ASSUME NEW t \in Thread, LogEvent(t) PROVE KeysBounded'
  BY <1>0, <1>1, <1>4, LogEventEffect DEF StorageInv, LogEventChanges
<1>5. ASSUME NEW t \in Thread, SeesNoInstance(t) PROVE KeysBounded'
  BY <1>0, <1>1, <1>5, SeesNoInstanceEffect DEF StorageInv, SeesNoInstanceChanges
<1>6. ASSUME NEW t \in Thread, InsertTimedValues(t) PROVE KeysBounded'
  BY <1>0, <1>1, <1>6, InsertTimedValuesEffect DEF StorageInv, InsertTimedValuesChanges
<1>7. ASSUME NEW t \in Thread, BeginWrite(t) PROVE KeysBounded'
  <2>1. BeginWriteChanges(t)
    BY <1>3, <1>7, BeginWriteEffect DEF StorageInv, BeginWrite, At, Compiled
  <2> QED
    BY <1>0, <1>1, <2>1 DEF BeginWriteChanges
<1>8. ASSUME NEW t \in Thread, Inserted(t) PROVE KeysBounded'
  <2>1. Goto(t, "assign") /\ "assign" \in Steps /\ asked' = asked
    BY <1>8 DEF Inserted, Steps
  <2>2. OthersStay(t) /\ call'[t].key = call[t].key
    BY <2>1, Goes DEF StorageInv, Typed
  <2> QED
    BY <1>0, <1>1, <2>1, <2>2
<1>9. ASSUME NEW t \in Thread, ReadsOld(t) \/ FinalizesOld(t) PROVE KeysBounded'
  <2>1. This(t) \in Conn
    BY <1>3, <1>9 DEF ReadsOld, FinalizesOld, At, Compiled
  <2>2. OthersStay(t) /\ call'[t].key = call[t].key /\ asked' = asked
    BY <1>9, <2>1, ReadsOldEffect, FinalizesOldEffect
       DEF StorageInv, ReadsOldChanges, FinalizesOldChanges
  <2> QED
    BY <1>0, <1>1, <2>2
<1>10. ASSUME NEW t \in Thread, LogReturns(t) PROVE KeysBounded'
  <2>1. This(t) \in Conn
    BY <1>3, <1>10 DEF LogReturns, At, Compiled
  <2>2. OthersStay(t) /\ call'[t] = Idle /\ asked' = asked
    BY <1>10, <2>1, LogReturnsEffect DEF StorageInv, LogReturnsChanges
  <2> QED
    BY <1>0, <1>1, <2>2 DEF Idle
<1>11. ASSUME NEW t \in Thread, LogConstructs(t) PROVE KeysBounded'
  <2>1. Goto(t, "get_instance") /\ "get_instance" \in Steps /\ asked' = asked
    BY <1>11 DEF LogConstructs, Construct, Steps
  <2>2. OthersStay(t) /\ call'[t].key = call[t].key
    BY <2>1, Goes DEF StorageInv, Typed
  <2> QED
    BY <1>0, <1>1, <2>1, <2>2
<1>12. ASSUME NEW r \in Reader, ReaderConstructs(r) \/ NextRecord(r) PROVE KeysBounded'
  BY <1>2, <1>12 DEF ReaderConstructs, Construct, NextRecord
<1>13. ASSUME NEW r \in Reader, NextRecordReruns(r) PROVE KeysBounded'
  <2>1. r \in Thread /\ NextRecordRerunsChanges(r)
    BY <1>13, ThreadsAssumption, NextRecordRerunsEffect DEF StorageInv
  <2>2. call'[r].key = 0
    <3>1. call' = [call EXCEPT ![r] = [Idle EXCEPT !.at = "rerun",
                     !.this = Instance(r), !.pVM = m_rs[Instance(r)].mpVM]]
      BY <1>13 DEF NextRecordReruns
    <3>2. call \in [Thread -> Calls]
      BY DEF StorageInv, Typed
    <3> QED
      BY <2>1, <3>1, <3>2 DEF Idle
  <2> QED
    BY <1>0, <1>1, <2>1, <2>2 DEF NextRecordRerunsChanges
<1>14. ASSUME NEW r \in Reader, RerunReturns(r) PROVE KeysBounded'
  <2>1. r \in Thread /\ call' = [call EXCEPT ![r] = Idle] /\ asked' = asked
    BY <1>14, ThreadsAssumption DEF RerunReturns
  <2>2. OthersStay(r) /\ call'[r].key = 0
    BY <2>1 DEF StorageInv, Typed, OthersStay, Idle
  <2> QED
    BY <1>0, <1>1, <2>1, <2>2
<1>15. ASSUME NEW p \in Process, ProcessEnds(p) PROVE KeysBounded'
  <2>1. ProcessEndsChanges(p)
    BY <1>15, ProcessEndsEffect DEF StorageInv
  <2> QED
    BY <1>0, <2>1 DEF ProcessEndsChanges, KeysBounded, Idle
<1>16. ASSUME UNCHANGED vars PROVE KeysBounded'
  BY <1>2, <1>16 DEF vars, historyVars
<1> QED
  BY <1>4, <1>5, <1>6, <1>7, <1>8, <1>9, <1>10, <1>11, <1>12, <1>13, <1>14, <1>15, <1>16
     DEF StorageNext

LEMMA CountedKept ==
    ASSUME StorageInv, Counted, [StorageNext]_vars
    PROVE  Counted'
<1>0. asked \in Nat /\ MaxStarts \in Nat
  BY BoundsAssumption DEF StorageInv, Typed
<1>1. ASSUME UNCHANGED <<asked, acked, starts>> PROVE Counted'
  BY <1>1 DEF Counted
<1>2. ASSUME NEW t \in Thread, Construct(t) PROVE Counted'
  BY <1>0, <1>2 DEF Construct, Counted
<1>3. ASSUME NEW t \in Thread, LogEvent(t) PROVE Counted'
  BY <1>0, <1>3 DEF LogEvent, Counted, storageVars
<1>4. ASSUME NEW t \in Thread, LogReturns(t) PROVE Counted'
  <2>1. call[t].key \in 1 .. asked
    BY <1>4 DEF StorageInv, CallKeys, Compiled, LogReturns, At
  <2> QED
    BY <1>4, <2>1 DEF LogReturns, Counted
<1>5. ASSUME NEW t \in Thread,
             \/ SeesNoInstance(t) \/ InsertTimedValues(t) \/ BeginWrite(t)
             \/ Inserted(t) \/ ReadsOld(t) \/ FinalizesOld(t)
      PROVE  Counted'
  BY <1>1, <1>5 DEF SeesNoInstance, InsertTimedValues, BeginWrite, Inserted, ReadsOld,
                    FinalizesOld, storageVars, historyVars
<1>6. ASSUME NEW r \in Reader, NextRecord(r) \/ NextRecordReruns(r) \/ RerunReturns(r)
      PROVE  Counted'
  BY <1>1, <1>6 DEF NextRecord, NextRecordReruns, RerunReturns, storageVars, historyVars
<1>7. ASSUME NEW p \in Process, ProcessEnds(p) PROVE Counted'
  BY <1>1, <1>7 DEF ProcessEnds
<1>8. ASSUME UNCHANGED vars PROVE Counted'
  BY <1>1, <1>8 DEF vars, storageVars, historyVars
<1> QED
  BY <1>2, <1>3, <1>4, <1>5, <1>6, <1>7, <1>8, ThreadsAssumption
     DEF StorageNext, LogConstructs, ReaderConstructs

LEMMA InitBounded == StorageInit => Bounded
<1> SUFFICES ASSUME StorageInit
             PROVE  Bounded
  OBVIOUS
<1>1. PICK n \in 0 .. MaxRows :
         events = [i \in 1 .. n |-> i] /\ asked = n /\ acked = 1 .. n
  BY DEF StorageInit, SQLiteInit
<1>2. Len(events) = n
  BY <1>1
<1>3. Room
  BY <1>1, <1>2, BoundsAssumption DEF StorageInit, Room, Idle, Stepping
<1>4. Places
  BY <1>1, <1>2 DEF StorageInit, SQLiteInit, Places, Free
<1>5. ToldBounded
  BY BoundsAssumption DEF StorageInit, NothingTold, ToldBounded
<1>6. Counted
  BY <1>1, BoundsAssumption DEF StorageInit, Counted
<1>7. KeysBounded
  BY <1>1 DEF StorageInit, Idle, KeysBounded
<1> QED
  BY <1>3, <1>4, <1>5, <1>6, <1>7 DEF Bounded

LEMMA NextBounded ==
    ASSUME StorageInv, StorageInv', ReaderInv, Bounded, [StorageNext]_vars
    PROVE  Bounded'
BY RoomKept, PlacesKept, ToldKept, KeysKept, CountedKept DEF Bounded

LEMMA Types ==
    ASSUME StorageInv, ReaderInv, Bounded
    PROVE  StorageTypeOK
<1>0. MaxRows \in Nat /\ asked \in 0 .. MaxRows /\ Len(events) \in Nat /\ Typed
  BY BoundsAssumption DEF StorageInv, Typed
<1>1. SQLiteTypeOK
  <2>1. events \in Seq(Nat \ {0})
    <3>1. \A i \in 1 .. Len(events) : events[i] \in Nat \ {0}
      BY <1>0 DEF StorageInv, RowKeys
    <3> QED
      BY <1>0, <3>1 DEF Typed
  <2>2. ASSUME NEW c \in Conn, NEW v \in VM
        PROVE  vms[c][v] \in StatementType
    <3>1. vms[c][v] \in Statements /\ vms[c][v].insert >= -1 /\ vms[c][v].at <= Len(events)
      BY <1>0 DEF Typed, Bounded, Places
    <3> QED
      BY <1>0, <3>1 DEF Statements, StatementType
  <2>3. vms \in [Conn -> [VM -> StatementType]]
    BY <1>0, <2>2 DEF Typed
  <2> QED
    BY <1>0, <2>1, <2>3 DEF SQLiteTypeOK, Typed
<1>2. call \in [Thread -> CallType]
  <2>1. ASSUME NEW t \in Thread
        PROVE  call[t] \in CallType
    <3>0. call[t].key \in Nat /\ call[t].key <= asked
      BY <1>0, FieldTypes DEF Bounded, KeysBounded
    <3>1. call[t] \in Calls /\ call[t].key \in 0 .. MaxRows
      BY <1>0, <3>0 DEF Typed
    <3> QED
      BY <3>1 DEF Calls, CallType
  <2> QED
    BY <1>0, <2>1 DEF Typed
<1>3. told \in [Reader -> Told]
  <2>1. ASSUME NEW r \in Reader
        PROVE  told[r] \in Told
    <3>1. /\ told[r] \in Knowledge /\ told[r].seen <= MaxRows /\ told[r].total <= MaxRows
          /\ told[r].wrote <= MaxRows
      BY <1>0 DEF Typed, Bounded, ToldBounded
    <3> QED
      BY <1>0, <3>1 DEF Knowledge, Told
  <2> QED
    BY <1>0, <2>1 DEF Typed
<1>4. misused \subseteq Conn
  BY <1>0 DEF Typed, ReaderInv, MisusedOpen
<1>5. used \subseteq Conn
  BY DEF StorageInv, UsedEnded
<1>6. acked \subseteq 1 .. MaxRows /\ starts \in 0 .. MaxStarts
  BY <1>0 DEF Bounded, Counted
<1> QED
  BY <1>0, <1>1, <1>2, <1>3, <1>4, <1>5, <1>6 DEF StorageTypeOK, Typed

\* The types, with the bounds: through any number of processes that log, read, end and
\* start, no statement stands behind the table's last row (CppSQLite3U.cpp:404-423),
\* and no reader is told of more rows than there are (PersistentStorage.cpp:69-76).
THEOREM StorageTyped == StorageSpec => []StorageTypeOK
<1>1. StorageInit => Bounded
  BY InitBounded
<1>2. StorageInv /\ StorageInv' /\ ReaderInv /\ Bounded /\ [StorageNext]_vars => Bounded'
  BY NextBounded
<1>3. StorageInv /\ ReaderInv /\ Bounded => StorageTypeOK
  BY Types
<1> QED
  BY <1>1, <1>2, <1>3, StorageInvariant, ReaderInvariant, PTL DEF StorageSpec

=============================================================================
