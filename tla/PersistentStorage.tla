-------------------------- MODULE PersistentStorage --------------------------
(***************************************************************************)
(* The event storage (CPersistentStorage): per process a singleton, made by *)
(* its first user, with a connection and one query object m_rs, which the   *)
(* constructor opens on the table, NextRecord and GetRecord read, and       *)
(* InsertTimedValues overwrites.  There is no lock.                         *)
(*                                                                         *)
(* Loggers are the threads of the program: device handler threads log what  *)
(* they receive (BTDeviceManager.cpp:68), several at a time, but none before *)
(* the monitor thread's first entry has returned (InstanceMonitor.cpp:43):   *)
(* it starts the others after that.  Readers are processes of one thread,   *)
(* the unit tests: they log and read, in any order.  All have the same file. *)
(* Nothing catches the exceptions of the wrapper: a call that throws ends   *)
(* its process.                                                             *)
(***************************************************************************)
EXTENDS CppSQLite3U

CONSTANTS Thread, Process, \* threads and their processes
          ProcessOf(_),
          Reader,      \* the unit tests' threads
          EventId(_),  \* the event id logged with a key
          MaxRows,     \* bound: rows of the table
          MaxStarts,   \* bound: storage objects made
          MaxWork      \* bound: events and storage objects together

ASSUME ThreadsAssumption ==
    /\ Reader \subseteq Thread
    /\ \A t \in Thread : ProcessOf(t) \in Process
    /\ \A r \in Reader, t \in Thread : ProcessOf(t) = ProcessOf(r) => t = r
ASSUME BoundsAssumption ==
    /\ MaxRows \in Nat /\ MaxStarts \in Nat /\ MaxWork \in Nat
    /\ \A k \in 1 .. MaxRows : EventId(k) \in Int

VARIABLES
  m_instance,          \* per process: the storage object, named by its
                       \* connection, or NoConn
  objects,             \* per process: every storage object it has made
  m_rs,                \* per storage object: its query object
  call,                \* per thread: the call it is in
  asked,               \* keys 1 .. asked have been logged
  acked,               \* keys whose LogEvent has returned, from a storage
                       \* object that is not
  misused,             \* ... one on which a freed handle was finalized
  used,                \* storage objects through which an event was logged
  told,                \* per reader: what it knows from its calls
  starts               \* storage objects made so far

storageVars == <<m_instance, objects, m_rs, starts>>
historyVars == <<asked, acked, misused, used, told>>
vars == <<sqliteVars, storageVars, call, historyVars>>

-----------------------------------------------------------------------------
\* A call of LogEvent(key) on storage object this: its step, the statement its
\* temporary query has, the one it is about to finalize.
Idle == [at |-> "idle", key |-> 0, this |-> NoConn, pVM |-> NoVM, old |-> NoVM]
At(t, l) == call[t].at = l
This(t) == call[t].this
pVM(t) == call[t].pVM
Instance(t) == m_instance[ProcessOf(t)]

Goto(t, l) == call' = [call EXCEPT ![t].at = l]

\* A CEvent is its key and event id, or isNull.
NullRecord == [key |-> 0, event_id |-> 0]
RecordOf(k) == [key |-> k, event_id |-> getIntField(EventId(k))]

\* What a reader knows since its storage was made: NextRecord's last answer
\* about the present m_rs, and how often it was TRUE; how many rows the
\* constructor's SELECT found; and the key of the table's last row if the
\* reader itself wrote that.
NothingTold(n) == [more |-> FALSE, seen |-> 0, total |-> n, wrote |-> 0]
NextRecordSays(r, yes) ==
    [told[r] EXCEPT !.more = yes, !.seen = IF yes THEN @ + 1 ELSE @]
LastRowIs(t, k, more) ==
    told' = [r \in Reader |->
               IF r = t THEN [told[r] EXCEPT !.wrote = k, !.more = more]
                        ELSE [told[r] EXCEPT !.wrote = 0]]

-----------------------------------------------------------------------------
(* The singleton.                                                           *)

\* A connection of its own: which of the names it gets does not matter.
Unopened == {c \in Conn : \A p \in Process : c \notin objects[p]}
NewConn == CHOOSE c \in Unopened : TRUE

\* new CPersistentStorageImpl: a connection, m_rs at the first row; m_instance
\* is assigned whatever it is by now.
Construct(t) ==
    /\ Unopened # {} /\ starts < MaxStarts /\ asked + starts < MaxWork
    /\ writer = NoConn
    /\ \E v \in VM : LET c == NewConn  s == SelectStep(SelectAll) IN
         /\ vms' = [vms EXCEPT ![c][v] = s]
         /\ m_rs' = [m_rs EXCEPT ![c] = Query(v, s)]
         /\ m_instance' = [m_instance EXCEPT ![ProcessOf(t)] = c]
         /\ objects' = [objects EXCEPT ![ProcessOf(t)] = @ \cup {c}]
    /\ starts' = starts + 1
    /\ told' = [r \in Reader |-> IF r = t THEN NothingTold(Len(events)) ELSE told[r]]
    /\ UNCHANGED <<events, writer, asked, acked, misused, used>>

ReaderConstructs(t) ==
    /\ t \in Reader /\ At(t, "idle") /\ Instance(t) = NoConn
    /\ Construct(t)
    /\ UNCHANGED call

\* if(m_instance == NULL)
SeesNoInstance(t) ==
    /\ At(t, "get_instance") /\ Instance(t) = NoConn
    /\ Goto(t, "construct")
    /\ UNCHANGED <<sqliteVars, storageVars, historyVars>>

LogConstructs(t) ==
    /\ At(t, "construct")
    /\ Construct(t)
    /\ Goto(t, "get_instance")

-----------------------------------------------------------------------------
(* Writing.                                                                 *)

\* The first entry of a process is its first thread's, with no other beside it:
\* LOGSVREVENT at InstanceMonitor.cpp:43 returns before a worker is registered.
FirstEntryReturned(t) == Instance(t) \in used
NobodyElseLogs(t) ==
    \A u \in Thread : ProcessOf(u) = ProcessOf(t) => At(u, "idle")

LogEventBesideTheFirst(t) ==
    /\ At(t, "idle") /\ asked < MaxRows /\ asked + starts < MaxWork
    /\ asked' = asked + 1
    /\ call' = [call EXCEPT ![t].at = "get_instance", ![t].key = asked']
    /\ UNCHANGED <<sqliteVars, storageVars, acked, misused, used, told>>

\* Utils::LogEvent of a new event.
LogEvent(t) ==
    /\ At(t, "idle") /\ asked < MaxRows /\ asked + starts < MaxWork
    /\ FirstEntryReturned(t) \/ NobodyElseLogs(t)
    /\ asked' = asked + 1
    /\ call' = [call EXCEPT ![t].at = "get_instance", ![t].key = asked']
    /\ UNCHANGED <<sqliteVars, storageVars, acked, misused, used, told>>

\* return m_instance; InsertTimedValues compiles its statement.
InsertTimedValues(t) == LET c == Instance(t) IN
    /\ At(t, "get_instance") /\ c # NoConn /\ MutexFree(c)
    /\ \E v \in Unused(c) :
         /\ vms' = [vms EXCEPT ![c][v] = InsertOf(call[t].key)]
         /\ call' = [call EXCEPT ![t].at = "insert", ![t].this = c, ![t].pVM = v]
    /\ UNCHANGED <<events, writer, storageVars, historyVars>>

\* sqlite3_step begins on an INSERT.  (Of a statement another thread has
\* finalized by mistake it fails: the process ends.)
BeginWrite(t) == LET c == This(t) IN
    /\ At(t, "insert") \/ At(t, "rerun")
    /\ vms[c][pVM(t)].insert > 0 /\ Len(events) < MaxRows
    /\ Reserve(c)
    /\ Goto(t, IF At(t, "insert") THEN "inserting" ELSE "rerunning")
    /\ UNCHANGED <<events, vms, storageVars, historyVars>>

\* ... and has committed; execQuery returns a temporary query.
Inserted(t) ==
    /\ At(t, "inserting")
    /\ Commit(This(t), vms[This(t)][pVM(t)].insert)
    /\ LastRowIs(t, call[t].key, FALSE)
    /\ Goto(t, "assign")
    /\ UNCHANGED <<vms, storageVars, asked, acked, misused, used>>

\* m_rs = the temporary: finalize of what m_rs has, in two steps ...
ReadsOld(t) ==
    /\ At(t, "assign")
    /\ call' = [call EXCEPT ![t].at = "finalize", ![t].old = m_rs[This(t)].mpVM]
    /\ UNCHANGED <<sqliteVars, storageVars, historyVars>>

FinalizesOld(t) == LET c == This(t)  old == call[t].old IN
    /\ At(t, "finalize") /\ MutexFree(c)
    /\ vms' = [vms EXCEPT ![c] = finalize(@, old)]
    /\ m_rs' = [m_rs EXCEPT ![c].mpVM = IF old = NoVM THEN @ ELSE NoVM]
    /\ misused' = IF old \in {NoVM, m_rs[c].mpVM} THEN misused ELSE misused \cup {c}
    /\ call' = [call EXCEPT ![t].at = "take_over", ![t].old = NoVM]
    /\ UNCHANGED <<events, writer, m_instance, objects, starts, asked, acked, used, told>>

\* ... and the temporary's statement changes hands.  LogEvent returns.
Drops(t) == UNCHANGED m_rs

TakesOver(t) == m_rs' = [m_rs EXCEPT ![This(t)] =
                                         Query(pVM(t), InsertOf(call[t].key))]

LogReturns(t) ==
    /\ At(t, "take_over")
    /\ TakesOver(t)
    /\ call' = [call EXCEPT ![t] = Idle]
    /\ acked' = IF This(t) \in misused THEN acked ELSE acked \cup {call[t].key}
    /\ used' = used \cup {This(t)}
    /\ UNCHANGED <<sqliteVars, m_instance, objects, starts, asked, misused, told>>

-----------------------------------------------------------------------------
(* Reading.  checkVM throws for a query without a statement.                *)

Reads(r) == /\ r \in Reader /\ At(r, "idle") /\ Instance(r) # NoConn
            /\ m_rs[Instance(r)].mpVM # NoVM
Statement(r) == vms[Instance(r)][m_rs[Instance(r)].mpVM]

\* NextRecord on the SELECT.
NextRecord(r) ==
    /\ Reads(r) /\ Statement(r).insert = 0 /\ MayRead(Instance(r))
    /\ LET c == Instance(r)  q == m_rs[c]  s == SelectStep(Statement(r)) IN
         /\ vms' = [vms EXCEPT ![c][q.mpVM] = s]
         /\ m_rs' = [m_rs EXCEPT ![c] = nextRow(q, s.at)]
         /\ told' = [told EXCEPT ![r] = NextRecordSays(r, ~nextRow(q, s.at).mbEof)]
    /\ UNCHANGED <<events, writer, m_instance, objects, starts, call,
                   asked, acked, misused, used>>

\* NextRecord on what InsertTimedValues left: the step runs the INSERT again.
NextRecordReruns(r) ==
    /\ Reads(r) /\ Statement(r).insert > 0
    /\ call' = [call EXCEPT ![r] = [Idle EXCEPT !.at = "rerun",
                  !.this = Instance(r), !.pVM = m_rs[Instance(r)].mpVM]]
    /\ UNCHANGED <<sqliteVars, storageVars, historyVars>>

RerunReturns(r) == LET c == This(r) IN
    /\ At(r, "rerunning")
    /\ Commit(c, vms[c][pVM(r)].insert)
    /\ m_rs' = [m_rs EXCEPT ![c] = nextRow(@, 0)]
    /\ LastRowIs(r, vms[c][pVM(r)].insert, ~nextRow(m_rs[c], 0).mbEof)
    /\ call' = [call EXCEPT ![r] = Idle]
    /\ UNCHANGED <<vms, m_instance, objects, starts, asked, acked, misused, used>>

\* What GetRecord and GetLastRecord return; neither changes anything.
GetRecord(r) == IF m_rs[Instance(r)].mbEof THEN NullRecord
                ELSE RecordOf(events[Statement(r).at])

\* SELECT ... order by rowid desc limit 1, with a query of its own.
FirstRow == IF events = <<>> THEN NullRecord ELSE RecordOf(events[1])

GetLastRecord == IF events = <<>> THEN NullRecord ELSE RecordOf(events[Len(events)])

-----------------------------------------------------------------------------
\* The process exits, is killed, or is ended by an exception: the busy handler
\* has given up, the disk is full.  It may be so inside any call.
ProcessEnds(p) ==
    /\ objects[p] # {} \/ \E t \in Thread : ProcessOf(t) = p /\ ~At(t, "idle")
    /\ Disconnect(objects[p])
    /\ m_instance' = [m_instance EXCEPT ![p] = NoConn]
    /\ objects' = [objects EXCEPT ![p] = {}]
    /\ m_rs' = [c \in Conn |-> IF c \in objects[p] THEN NullQuery ELSE m_rs[c]]
    /\ used' = used \ objects[p]
    /\ misused' = misused \ objects[p]
    /\ call' = [t \in Thread |-> IF ProcessOf(t) = p THEN Idle ELSE call[t]]
    /\ told' = [r \in Reader |-> IF ProcessOf(r) = p THEN NothingTold(0) ELSE told[r]]
    /\ UNCHANGED <<asked, acked, starts>>

StorageInit ==
    /\ \E n \in 0 .. MaxRows : /\ SQLiteInit([i \in 1 .. n |-> i])
                               /\ asked = n /\ acked = 1 .. n
    /\ m_instance = [p \in Process |-> NoConn]
    /\ objects = [p \in Process |-> {}]
    /\ m_rs = [c \in Conn |-> NullQuery]
    /\ call = [t \in Thread |-> Idle]
    /\ told = [r \in Reader |-> NothingTold(0)]
    /\ misused = {} /\ used = {} /\ starts = 0

StorageNext ==
    \/ \E t \in Thread : \/ SeesNoInstance(t) \/ LogConstructs(t)
                         \/ LogEvent(t) \/ InsertTimedValues(t) \/ BeginWrite(t)
                         \/ Inserted(t) \/ ReadsOld(t) \/ FinalizesOld(t)
                         \/ LogReturns(t)
    \/ \E r \in Reader : \/ ReaderConstructs(r) \/ NextRecord(r)
                         \/ NextRecordReruns(r) \/ RerunReturns(r)
    \/ \E p \in Process : ProcessEnds(p)

StorageSpec == StorageInit /\ [][StorageNext]_vars

-----------------------------------------------------------------------------
Steps == {"idle", "get_instance", "construct", "insert", "inserting", "assign",
          "finalize", "take_over", "rerun", "rerunning"}
CallType == [at : Steps, key : 0 .. MaxRows, this : Conn \cup {NoConn},
             pVM : VM \cup {NoVM}, old : VM \cup {NoVM}]
Told == [more : BOOLEAN, seen : 0 .. MaxRows, total : 0 .. MaxRows, wrote : 0 .. MaxRows]

StorageTypeOK ==
    /\ SQLiteTypeOK
    /\ m_instance \in [Process -> Conn \cup {NoConn}]
    /\ objects \in [Process -> SUBSET Conn]
    /\ m_rs \in [Conn -> QueryType]
    /\ call \in [Thread -> CallType]
    /\ asked \in 0 .. MaxRows /\ acked \subseteq 1 .. MaxRows
    /\ misused \subseteq Conn /\ used \subseteq Conn
    /\ told \in [Reader -> Told]
    /\ starts \in 0 .. MaxStarts

\* GetInstance has no lock (PersistentStorage.cpp:14-20), and still no process makes
\* two storage objects, a second of which would take the place of the first and
\* leave it with its connection and its SELECT: the storage is there before the
\* threads that could race for it (InstanceMonitor.cpp:43).
OneStorage ==
    \A p \in Process : objects[p] = {m_instance[p]} \ {NoConn}

\* CppSQLite3U.cpp:517, "Only one object can own the VM": in a process of one
\* thread the compiled statements are m_rs's and, inside InsertTimedValues, the
\* new one; none is leaked, none pointed to after it was finalized.  Loggers
\* whose assignments to m_rs overlap do leak statements, but no SELECT: what
\* nobody owns has ended, and keeps no lock on the table.
StatementsOwned ==
    /\ \A r \in Reader : Instance(r) # NoConn =>
         VM \ Unused(Instance(r)) = {m_rs[Instance(r)].mpVM, pVM(r)} \ {NoVM}
    /\ \A c \in Conn : \A v \in VM \ {m_rs[c].mpVM} : vms[c][v].at = 0

\* The first event logged through a storage object ends the reading its
\* constructor began (PersistentStorage.cpp:27, 45): the object has no lock any
\* more, however the assignments to m_rs overlap, and NextRecord says FALSE.
InsertionEndsReading ==
    /\ \A c \in used : ~Reading(c) /\ m_rs[c].mbEof
    /\ \A r \in Reader : Instance(r) \in used => ~told[r].more

\* PersistentStorage.cpp:100-102: when NextRecord has said TRUE, GetRecord gives a
\* record that is not null; it is the row after those given before, whatever
\* other processes do meanwhile.  The constructor has stepped to the first row
\* already: the loop never gives that one.
ReadsForward ==
    \A r \in Reader : told[r].more =>
        /\ told[r].seen < Len(events)
        /\ GetRecord(r) = RecordOf(events[told[r].seen + 1])

\* When NextRecord ends a reading it has been TRUE once for every row but the
\* first, and these are the rows of when the storage was made: a SELECT at a
\* row keeps every writer out (PersistentStorage.cpp:27, 69-76).
Ends(r) == /\ told[r].more /\ ~told'[r].more
           /\ Instance(r)' = Instance(r) /\ m_rs'[Instance(r)].mbEof
ReadsToTheEnd ==
    [][\A r \in Reader : Ends(r) =>
         Len(events) = told[r].total /\ told[r].seen + 1 = told[r].total]_vars

\* Utils.cpp:87-100: GetLastRecord after an insertion gives the event inserted, if
\* no other process has written since: its id, a long long, comes back exactly
\* if it fits into an int (PersistentStorage.cpp:59).
Int32 == -(IntSize \div 2) .. IntSize \div 2 - 1
ReadsBack ==
    \A r \in Reader : told[r].wrote # 0 =>
        /\ GetLastRecord.key = told[r].wrote
        /\ GetLastRecord.event_id = EventId(told[r].wrote)
             <=> EventId(told[r].wrote) \in Int32

\* All of it together is a log: asked events only, none lost once its LogEvent has
\* returned, across the ends and starts of processes and through overlapping calls
\* (PersistentStorage.cpp:45) -- as long as no freed handle is finalized: it may be
\* in use again, for another call's INSERT.
Log == INSTANCE EventLog WITH
    Event <- 1 .. MaxRows, log <- events, asked <- 1 .. asked, acked <- acked

ImplementsEventLog == Log!Spec

=============================================================================
