---------------------------- MODULE Win32Mutex ----------------------------
(***************************************************************************)
(* The kernel mutex behind CBTDeviceManager::m_hMutex, as the code uses it: *)
(* WaitForSingleObject(m_hMutex, INFINITE), ReleaseMutex(m_hMutex) and the  *)
(* end of a thread that still owns the mutex.  No return value is ever      *)
(* looked at by the code, so none is modelled.                              *)
(*                                                                         *)
(* HasMutex tells the two constructors of CBTDeviceManager apart.           *)
(* CBTDeviceManager(void) calls CreateMutex (BTDeviceManager.cpp:104-112):  *)
(* HasMutex = TRUE.  CBTDeviceManager(wstring), the one GetInstance calls   *)
(* (BTDeviceManager.h:73, 91-96), leaves m_hMutex uninitialised, and no     *)
(* mutex exists in the process: the wait on the garbage handle fails at     *)
(* once and excludes nobody, HasMutex = FALSE.                              *)
(***************************************************************************)
EXTENDS Naturals

CONSTANTS Thread,      \* the threads that may call the manager
          NoThread,    \* the owner of a free mutex
          HasMutex     \* which constructor built the manager

ASSUME HasMutexAssumption == HasMutex \in BOOLEAN
ASSUME NoThreadAssumption == NoThread \notin Thread

VARIABLES owner,       \* the owning thread, or NoThread
          depth        \* the recursion count of the owner

mutexVars == <<owner, depth>>

MutexTypeOK == /\ owner \in Thread \cup {NoThread}
               /\ depth \in Nat

\* Mutant of MutexInit: the mutex is created as owned by its creator.
MutexInitOwned == owner \in Thread /\ depth = 1

MutexInit == owner = NoThread /\ depth = 0

(***************************************************************************)
(* WaitForSingleObject(m_hMutex, INFINITE): blocks while another thread     *)
(* owns the mutex, counts a recursive acquisition by the owner.             *)
(***************************************************************************)
WaitForMutex(t) ==
    IF HasMutex
    THEN /\ owner \in {NoThread, t}
         /\ owner' = t
         /\ depth' = depth + 1
    ELSE UNCHANGED mutexVars

(***************************************************************************)
(* ReleaseMutex(m_hMutex): fails, without effect, for a thread that does    *)
(* not own it (and always on the garbage handle).                           *)
(***************************************************************************)
ReleaseMutex(t) ==
    IF HasMutex /\ owner = t
    THEN /\ depth' = depth - 1
         /\ owner' = IF depth = 1 THEN NoThread ELSE t
    ELSE UNCHANGED mutexVars

(***************************************************************************)
(* A thread ends while it owns the mutex: the kernel abandons the mutex and *)
(* the next waiter gets WAIT_ABANDONED, which also makes it the owner.      *)
(***************************************************************************)
AbandonMutex(t) ==
    IF owner = t THEN owner' = NoThread /\ depth' = 0 ELSE UNCHANGED mutexVars

=============================================================================
