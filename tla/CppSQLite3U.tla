---------------------------- MODULE CppSQLite3U ----------------------------
(***************************************************************************)
(* The SQLite wrapper as the event storage uses it: statements compiled on  *)
(* a connection, query objects that own them, and the one database file     *)
(* under all connections.                                                   *)
(*                                                                         *)
(* SQLite (version 3.7.4, db/sqlite3.c) runs every statement in a           *)
(* transaction of its own and serialises the calls on one connection by a   *)
(* mutex.  What the storage's behaviour hangs on is modelled: stepping a    *)
(* statement that has ended starts it again; a SELECT that stands at a row  *)
(* keeps a shared lock; an INSERT commits only when no other connection,    *)
(* of this process or another, has one.                                     *)
(***************************************************************************)
EXTENDS Integers, Sequences, FiniteSets

CONSTANTS Conn,        \* connections to the database file
          NoConn,      \* none
          VM,          \* handles of compiled statements
          NoVM,        \* the null handle
          IntSize      \* the number of values of an int, a power of two

ASSUME HandlesAssumption == NoConn \notin Conn /\ NoVM \notin VM
ASSUME IntAssumption == IntSize \in Nat \ {0} /\ IntSize % 2 = 0

VARIABLES
  events,              \* the rows of the table events, in rowid order
  writer,              \* the connection that has the write lock; an INSERT is
                       \* being stepped, under the mutex of that connection
  vms                  \* per connection and handle: its statement, or Free

sqliteVars == <<events, writer, vms>>

-----------------------------------------------------------------------------
(* Statements.  An INSERT has the key of its row; at is the row a running   *)
(* SELECT stands at, 0 when the statement is not running.                   *)

SelectAll == [insert |-> 0, at |-> 0]
InsertOf(k) == [insert |-> k, at |-> 0]
Free == [insert |-> -1, at |-> 0]
Unused(c) == {v \in VM : vms[c][v] = Free}

\* sqlite3_step of SELECT * FROM events: the next row, SQLITE_ROW; at the end
\* SQLITE_DONE; and from the beginning when it has ended before.
SelectStepOnwards(s) == [s EXCEPT !.at = s.at + 1]

SelectStep(s) == [s EXCEPT !.at = IF s.at < Len(events) THEN s.at + 1 ELSE 0]

\* A statement of c stands at a row: c has a shared lock.
Reading(c) == \E v \in VM : vms[c][v].at > 0

\* A connection without a lock gets a shared one while nobody else waits to
\* commit; until then the busy handler (60 seconds) makes it wait.  (A writer
\* that waits for readers keeps new ones out, not those that are reading.)
MayRead(c) == Reading(c) \/ writer = NoConn

\* Nobody is inside a step of c: its mutex is free.
MutexFree(c) == writer # c

\* sqlite3_step of an INSERT, first half: the write lock.
Reserve(c) ==
    /\ writer = NoConn
    /\ writer' = c

\* ... second half: the commit, once every reader is gone.  The inserting
\* connection's own SELECT may go on.
ReadersGone(c) == \A d \in Conn \ {c} : ~Reading(d)

DoneUnwritten(c, k) ==
    /\ writer = c /\ ReadersGone(c)
    /\ writer' = NoConn
    /\ UNCHANGED events

Commit(c, k) ==
    /\ writer = c /\ ReadersGone(c)
    /\ writer' = NoConn
    /\ events' = Append(events, k)

\* The process of the connections cs is gone: the kernel takes its locks and
\* memory; the journal of an unfinished INSERT is rolled back by the next reader.
Disconnect(cs) ==
    /\ vms' = [c \in Conn |-> IF c \in cs THEN [v \in VM |-> Free] ELSE vms[c]]
    /\ writer' = IF writer \in cs THEN NoConn ELSE writer
    /\ UNCHANGED events

-----------------------------------------------------------------------------
(* Query objects.  A query that has a statement owns it; mbEof is set when   *)
(* a step says SQLITE_DONE and never taken back.                            *)

NullQuery == [mpVM |-> NoVM, mbEof |-> TRUE]
Query(v, s) == [mpVM |-> v, mbEof |-> s.at = 0]
QueryType == [mpVM : VM \cup {NoVM}, mbEof : BOOLEAN]

\* The statements h of a connection after sqlite3_finalize(v): of a handle that
\* was finalized before, this is most often SQLITE_MISUSE and no effect.
unfinalized(h, v) == h

finalize(h, v) == IF v = NoVM THEN h ELSE [h EXCEPT ![v] = Free]

\* nextRow, once the step has left its statement at row at.
nextRowReopens(q, at) == [q EXCEPT !.mbEof = at = 0]

nextRowEarly(q, at) == [q EXCEPT !.mbEof = @ \/ at \in {0, Len(events)}]

nextRow(q, at) == [q EXCEPT !.mbEof = @ \/ at = 0]

\* getIntField of an INT64 column: sqlite3_column_int keeps the low bits.
getIntField(n) == ((n + IntSize \div 2) % IntSize) - IntSize \div 2

-----------------------------------------------------------------------------
StatementType == [insert : Nat \cup {-1}, at : 0 .. Len(events)]

SQLiteInit(rows) ==
    /\ events = rows
    /\ writer = NoConn
    /\ vms = [c \in Conn |-> [v \in VM |-> Free]]

SQLiteTypeOK ==
    /\ events \in Seq(Nat \ {0})
    /\ writer \in Conn \cup {NoConn}
    /\ vms \in [Conn -> [VM -> StatementType]]

=============================================================================
