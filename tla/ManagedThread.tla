--------------------------- MODULE ManagedThread ---------------------------
(***************************************************************************)
(* CManagedThread and its CPrivateManagedThread, for a set of workers.  The *)
(* operations are cut where another thread that uses the same object can    *)
(* come in between: new, ::CreateThread and the assignment of its result    *)
(* are three steps, delete is another.                                      *)
(***************************************************************************)
EXTENDS Naturals, Sequences

CONSTANTS Worker       \* the CManagedThread objects

VARIABLES
  m_ptrThread,         \* "null", "wild" (m_hThread not assigned), "valid", "freed"
  thread,              \* the thread created last: "none", "running", "ended"
  strays,              \* running threads of the object that no handle names
  up                   \* no undefined behaviour has ended the process

threadVars == <<m_ptrThread, thread, strays, up>>

Pointers == {"null", "wild", "valid", "freed"}
Threads == {"none", "running", "ended"}

\* Dereferencing m_ptrThread.  A freed or missing object ends the process (a
\* bound: freed memory may also still read as it was).
Usable(w) == m_ptrThread[w] \in {"wild", "valid"}
Crash == up' = FALSE /\ UNCHANGED <<m_ptrThread, thread, strays>>

\* m_ptrThread = new CPrivateManagedThread(this)
NewThreadObject(w) ==
    /\ m_ptrThread' = [m_ptrThread EXCEPT ![w] = "wild"]
    /\ UNCHANGED <<thread, strays, up>>

\* ::CreateThread(..): the thread runs, its handle is not yet stored; or there is
\* none, and the handle to store is NULL.
CreatesThread(w, t) ==
    /\ thread' = [thread EXCEPT ![w] = t]
    /\ strays' = [strays EXCEPT ![w] = @ + (IF thread[w] = "running" THEN 1 ELSE 0)]
    /\ UNCHANGED <<m_ptrThread, up>>

CreateThread(w) == CreatesThread(w, "running")
NoThread(w) == CreatesThread(w, "none")

\* m_hThread = ..
StoreHandle(w) ==
    /\ m_ptrThread' = [m_ptrThread EXCEPT ![w] = "valid"]
    /\ UNCHANGED <<thread, strays, up>>

\* if(m_ptrThread!=NULL) delete m_ptrThread, in Restart and in the destructor.
DeleteThreadObject(w) ==
    IF m_ptrThread[w] = "freed" THEN Crash
    ELSE /\ m_ptrThread' = [m_ptrThread EXCEPT ![w] = IF @ = "null" THEN @ ELSE "freed"]
         /\ UNCHANGED <<thread, strays, up>>

\* WaitForSingleObject(m_hThread, 0) == WAIT_TIMEOUT; on a handle that is none or
\* NULL the wait fails.
IsAlive(w) == m_ptrThread[w] = "valid" /\ thread[w] = "running"

\* TerminateThread(m_hThread, 0).
Shutdown(w) ==
    IF ~Usable(w) THEN Crash
    ELSE /\ thread' = [thread EXCEPT ![w] = IF m_ptrThread[w] = "valid" /\ @ = "running"
                                            THEN "ended" ELSE @]
         /\ UNCHANGED <<m_ptrThread, strays, up>>

\* WaitForSingleObject(m_hThread, INFINITE).
GraceShutdown(w) ==
    IF ~Usable(w) THEN Crash
    ELSE ~IsAlive(w) /\ UNCHANGED threadVars

\* The runnable's Run returns, or dies.
RunReturns(w) ==
    /\ thread[w] = "running"
    /\ thread' = [thread EXCEPT ![w] = "ended"]
    /\ UNCHANGED <<m_ptrThread, strays, up>>

ThreadInit ==
    /\ m_ptrThread = [w \in Worker |-> "null"]
    /\ thread = [w \in Worker |-> "none"]
    /\ strays = [w \in Worker |-> 0]
    /\ up = TRUE

ThreadTypeOK ==
    /\ m_ptrThread \in [Worker -> Pointers]
    /\ thread \in [Worker -> Threads]
    /\ strays \in [Worker -> Nat]
    /\ up \in BOOLEAN

=============================================================================
