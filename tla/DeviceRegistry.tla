-------------------------- MODULE DeviceRegistry --------------------------
(***************************************************************************)
(* CBTDeviceManager as a shared object: the map from Bluetooth addresses to *)
(* heap-allocated CBTDevice objects, the mutex that is meant to protect it, *)
(* and the manager's public operations, run step by step by any number of   *)
(* threads.  A thread inside an operation is described by its program       *)
(* counter and the operation's local variables; a thread outside one has    *)
(* pc "idle".                                                               *)
(*                                                                         *)
(* The steps are cut where the code can be overtaken: at every wait for the *)
(* mutex, before and after every unlocked find(), and in the middle of the  *)
(* two operations that relink the nodes of the std::map (insert and erase). *)
(* A find() is one step; what it may meet depends on who is in the middle   *)
(* of relinking at that step.                                               *)
(***************************************************************************)
EXTENDS Win32Mutex, FiniteSets

CONSTANTS Addr,        \* Bluetooth addresses (BTH_ADDR)
          Ptr,         \* heap cells a CBTDevice may be allocated in
          NULL,        \* the null pointer
          Absent,      \* "no such key" in the map
          MaxDepth,    \* bound: no call is begun at this recursion count
          MaxFaults    \* bound: no fault is survived after so many kinds of others

ASSUME PtrAssumption == NULL \notin Ptr /\ Absent \notin Ptr /\ Absent # NULL
ASSUME BoundsAssumption == MaxDepth \in Nat /\ MaxFaults \in Nat

VARIABLES
  m_mapBTDevice,       \* [Addr -> pointer, NULL or Absent]
  live,                \* the allocated cells
  m_addrBth,           \* CBTDevice::m_addrBth of every cell
  m_listService,       \* whether CBTDevice::m_listService is non-empty
  pc, arg, obj, snap,  \* per thread: step, deviceAddr, pDevice, the map it relinks
  ret,                 \* per thread: the boolean its last operation returned
  fault,               \* the kinds of undefined behaviour that have happened
  up                   \* the process is running

localVars == <<pc, arg, obj, snap, ret>>
fieldVars == <<m_addrBth, m_listService>>
heapVars  == <<m_mapBTDevice, live, fieldVars>>
procVars  == <<fault, up>>
registryVars == <<mutexVars, heapVars, localVars, procVars>>

Faults == {"null_deref", "wild_pointer", "use_after_free", "double_free", "map_race",
           "find_race"}

PcLabels ==
  {"idle", "exited",
   "reg_find", "reg_lock", "reg_check", "reg_insert", "reg_release", "reg_delete",
   "upd_find", "upd_lock", "upd_index", "upd_write", "upd_release",
   "svc_find", "svc_lock", "svc_index", "svc_write", "svc_release",
   "unp_find", "unp_call",
   "unr_lock", "unr_check", "unr_delete", "unr_erase", "unr_release",
   "gcs_lock", "gcs_find", "gcs_deref", "gcs_release",
   "lst_lock", "lst_walk", "lst_release"}

\* Between the two ends of these steps the nodes of the map are being relinked.
Relinking == {"reg_insert", "unr_erase"}

\* The code these labels stand before runs between a wait and its release.
Locked == {"reg_check", "reg_insert", "reg_release",
           "upd_index", "upd_write", "upd_release",
           "svc_index", "svc_write", "svc_release",
           "unr_check", "unr_delete", "unr_erase", "unr_release",
           "gcs_find", "gcs_deref", "gcs_release",
           "lst_walk", "lst_release"}

Maps == [Addr -> Ptr \cup {NULL, Absent}]
EmptyMap == [a \in Addr |-> Absent]
Present(a) == m_mapBTDevice[a] # Absent
Registered == {a \in Addr : m_mapBTDevice[a] \in Ptr}

-----------------------------------------------------------------------------
(* Undefined behaviour.  The process dies, or goes on with what the step     *)
(* would have done (stale memory read or written, a freed cell freed again). *)
(* A dereference of NULL always ends the process, and so does, as a bound,   *)
(* a fault after MaxFaults others, searches beside an erasure not counted.   *)

NoFault == UNCHANGED procVars

Fault(kind) ==
    /\ fault' = fault \cup {kind}
    /\ up' \in IF \/ kind = "null_deref"
                  \/ /\ kind # "find_race"
                     /\ Cardinality(fault \ {"find_race"}) >= MaxFaults
               THEN {FALSE} ELSE BOOLEAN

\* The effect on the process of dereferencing p.
Deref(p) == IF p \in live THEN NoFault
            ELSE Fault(IF p = NULL THEN "null_deref" ELSE "use_after_free")

\* The effect of "delete p" on the heap and the process.
Delete(p) == /\ live' = live \ {p}
             /\ IF p \in live \cup {NULL} THEN NoFault ELSE Fault("double_free")

\* Another thread is relinking the nodes of the map.
Racing(t) == \E u \in Thread \ {t} : pc[u] \in Relinking

\* Another thread is inside erase(), which frees a node of the tree.
EraseBeside(t) == \E u \in Thread \ {t} : pc[u] = "unr_erase"

\* What m_mapBTDevice.find(a) may tell t.  A search that walks the tree while
\* another thread inserts, and rotates it, may miss a key; beside an erase() it
\* may read the freed node: any answer, or the end of the process.
FindResults(t, a) == IF EraseBeside(t) THEN BOOLEAN
                     ELSE {Present(a)} \cup (IF Racing(t) THEN {FALSE} ELSE {})
FindFault(t) == IF EraseBeside(t) THEN Fault("find_race") ELSE NoFault

\* Begin to relink: remember the nodes as they are now.
BeginRelink(t) == snap' = [snap EXCEPT ![t] = m_mapBTDevice]

\* End to relink: the change is made to the nodes as they are, or, if another
\* thread relinked them in between, to the nodes as they were.
EndRelink(t, a, v) ==
    /\ \E base \in {m_mapBTDevice, snap[t]} :
          m_mapBTDevice' = [base EXCEPT ![a] = v]
    /\ IF Racing(t) \/ snap[t] # m_mapBTDevice THEN Fault("map_race") ELSE NoFault
    /\ snap' = [snap EXCEPT ![t] = EmptyMap]

-----------------------------------------------------------------------------
(* Calls and returns.                                                       *)

Goto(t, l) == pc' = [pc EXCEPT ![t] = l]

Return(t, r) == /\ Goto(t, "idle")
                /\ ret' = [ret EXCEPT ![t] = r]
                /\ obj' = [obj EXCEPT ![t] = NULL]
                /\ arg' = [arg EXCEPT ![t] = NULL]

At(t, l) == up /\ pc[t] = l

Call(t, l, a) ==
    /\ At(t, "idle")
    /\ depth < MaxDepth
    /\ Goto(t, l)
    /\ arg' = [arg EXCEPT ![t] = a]
    /\ ret' = [ret EXCEPT ![t] = FALSE]
    /\ UNCHANGED <<mutexVars, heapVars, obj, snap, procVars>>

\* WaitForSingleObject(m_hMutex, INFINITE) between two labels.
Wait(t, from, to) ==
    /\ At(t, from)
    /\ WaitForMutex(t)
    /\ Goto(t, to)
    /\ UNCHANGED <<heapVars, arg, obj, snap, ret, procVars>>

\* ReleaseMutex(m_hMutex), then return r.
ReleaseAndReturn(t, from, r) ==
    /\ At(t, from)
    /\ ReleaseMutex(t)
    /\ Return(t, r)
    /\ UNCHANGED <<heapVars, snap, procVars>>

\* find(deviceAddr): return false for an unknown address.
FindOrReturn(t, from, to) ==
    /\ At(t, from)
    /\ \E found \in FindResults(t, arg[t]) :
         IF found THEN Goto(t, to) /\ UNCHANGED <<arg, obj, ret>>
                  ELSE Return(t, FALSE)
    /\ FindFault(t)
    /\ UNCHANGED <<mutexVars, heapVars, snap>>

\* m_mapBTDevice[a]: operator[] inserts a NULL entry for a missing key.  This
\* insertion is taken as one step, unlike the one of RegisterDevice.
Index(a) == IF Present(a) THEN m_mapBTDevice[a] ELSE NULL
IndexInserts(a) == m_mapBTDevice' = [m_mapBTDevice EXCEPT ![a] = Index(a)]

\* Mutant of IndexDevice: find(deviceAddr)->second, be it the end of the map.
IndexDeviceUnchecked(t, from, to) ==
    /\ At(t, from)
    /\ obj' = [obj EXCEPT ![t] = m_mapBTDevice[arg[t]]]
    /\ Goto(t, to)
    /\ UNCHANGED <<mutexVars, heapVars, arg, snap, ret, procVars>>

\* pDevice = m_mapBTDevice[deviceAddr], which searches the tree as find() does.
IndexDevice(t, from, to) ==
    /\ At(t, from)
    /\ obj' = [obj EXCEPT ![t] = Index(arg[t])]
    /\ IndexInserts(arg[t])
    /\ FindFault(t)
    /\ Goto(t, to)
    /\ UNCHANGED <<mutexVars, live, fieldVars, arg, snap, ret>>

\* pDevice->field = v.
WriteField(t, field, v) == field' = IF obj[t] = NULL THEN field
                                    ELSE [field EXCEPT ![obj[t]] = v]

-----------------------------------------------------------------------------
(* RegisterDevice(deviceAddr, ...) and RegisterDevice(pDevice).             *)

\* The unlocked find; "new CBTDevice" when the address is unknown.
RegFind(t) ==
    /\ At(t, "reg_find")
    /\ \E found \in FindResults(t, arg[t]) :
         \/ /\ found
            /\ Return(t, FALSE)
            /\ UNCHANGED <<live, fieldVars>>
         \/ /\ ~found
            /\ \E p \in Ptr \ live :
                 /\ live' = live \cup {p}
                 /\ m_addrBth' = [m_addrBth EXCEPT ![p] = arg[t]]
                 /\ m_listService' = [m_listService EXCEPT ![p] = FALSE]
                 /\ obj' = [obj EXCEPT ![t] = p]
            /\ Goto(t, "reg_lock")
            /\ UNCHANGED <<arg, ret>>
    /\ FindFault(t)
    /\ UNCHANGED <<mutexVars, m_mapBTDevice, snap>>

\* A lock step that does not wait, and the mutant of RegLock made of it.
Unlocked(t, from, to) ==
    /\ At(t, from) /\ Goto(t, to)
    /\ UNCHANGED <<mutexVars, heapVars, arg, obj, snap, ret, procVars>>
RegLockOmitted(t) == Unlocked(t, "reg_lock", "reg_check")

RegLock(t) == Wait(t, "reg_lock", "reg_check")

\* Mutant of RegCheck: the find made before the wait is trusted.
RegCheckOmitted(t) ==
    /\ At(t, "reg_check")
    /\ Goto(t, "reg_insert") /\ BeginRelink(t)
    /\ UNCHANGED <<mutexVars, heapVars, arg, obj, ret, procVars>>

RegCheck(t) ==
    /\ At(t, "reg_check")
    /\ \E found \in FindResults(t, arg[t]) :
         IF found
         THEN Goto(t, "reg_release") /\ UNCHANGED snap
         ELSE Goto(t, "reg_insert") /\ BeginRelink(t)
    /\ FindFault(t)
    /\ UNCHANGED <<mutexVars, heapVars, arg, obj, ret>>

\* m_mapBTDevice[addr] = pDevice; return true -- without ReleaseMutex.
RegInsert(t) ==
    /\ At(t, "reg_insert")
    /\ EndRelink(t, arg[t], obj[t])
    /\ Return(t, TRUE)
    /\ UNCHANGED <<mutexVars, live, fieldVars>>

RegRelease(t) ==
    /\ At(t, "reg_release")
    /\ ReleaseMutex(t)
    /\ Goto(t, "reg_delete")
    /\ UNCHANGED <<heapVars, arg, obj, snap, ret, procVars>>

RegDelete(t) ==
    /\ At(t, "reg_delete")
    /\ Delete(obj[t])
    /\ Return(t, FALSE)
    /\ UNCHANGED <<mutexVars, m_mapBTDevice, fieldVars, snap>>

-----------------------------------------------------------------------------
(* UpdateDevice(deviceAddr, ...).                                           *)

\* Mutant of UpdLock: no wait.
UpdLockOmitted(t) == Unlocked(t, "upd_lock", "upd_index")

UpdFind(t)  == FindOrReturn(t, "upd_find", "upd_lock")
UpdLock(t)  == Wait(t, "upd_lock", "upd_index")
UpdIndex(t) == IndexDevice(t, "upd_index", "upd_write")

\* Of the fields it writes only the key matters here.
UpdWrite(t) ==
    /\ At(t, "upd_write")
    /\ Deref(obj[t])
    /\ WriteField(t, m_addrBth, arg[t])
    /\ Goto(t, "upd_release")
    /\ UNCHANGED <<mutexVars, m_mapBTDevice, live, m_listService, arg, obj, snap, ret>>

UpdRelease(t) == ReleaseAndReturn(t, "upd_release", TRUE)

-----------------------------------------------------------------------------
(* UpdateServices(deviceAddr, serviceList); its one caller passes a         *)
(* non-empty list.                                                          *)

SvcFind(t)  == FindOrReturn(t, "svc_find", "svc_lock")
SvcLock(t)  == Wait(t, "svc_lock", "svc_index")
SvcIndex(t) == IndexDevice(t, "svc_index", "svc_write")

SvcWrite(t) ==
    /\ At(t, "svc_write")
    /\ Deref(obj[t])
    /\ WriteField(t, m_listService, TRUE)
    /\ Goto(t, "svc_release")
    /\ UNCHANGED <<mutexVars, m_mapBTDevice, live, m_addrBth, arg, obj, snap, ret>>

SvcRelease(t) == ReleaseAndReturn(t, "svc_release", TRUE)

-----------------------------------------------------------------------------
(* UnregisterDevice(deviceAddr).                                            *)

\* Mutant of UnrLock: no wait.
UnrLockOmitted(t) == Unlocked(t, "unr_lock", "unr_check")

UnrLock(t) == Wait(t, "unr_lock", "unr_check")

\* An unknown address: return false -- without ReleaseMutex.
UnrCheck(t) == FindOrReturn(t, "unr_check", "unr_delete")

\* delete m_mapBTDevice[deviceAddr]; then erase() begins.
UnrDelete(t) ==
    /\ At(t, "unr_delete")
    /\ IndexInserts(arg[t])
    /\ Delete(Index(arg[t]))
    /\ snap' = [snap EXCEPT ![t] = m_mapBTDevice']
    /\ Goto(t, "unr_erase")
    /\ UNCHANGED <<mutexVars, fieldVars, arg, obj, ret>>

\* Mutant of UnrErase: the entry of the deleted device stays.
UnrEraseOmitted(t) ==
    /\ At(t, "unr_erase") /\ Goto(t, "unr_release")
    /\ snap' = [snap EXCEPT ![t] = EmptyMap]
    /\ UNCHANGED <<mutexVars, heapVars, arg, obj, ret, procVars>>

UnrErase(t) ==
    /\ At(t, "unr_erase")
    /\ EndRelink(t, arg[t], Absent)
    /\ Goto(t, "unr_release")
    /\ UNCHANGED <<mutexVars, live, fieldVars, arg, obj, ret>>

UnrRelease(t) == ReleaseAndReturn(t, "unr_release", TRUE)

-----------------------------------------------------------------------------
(* UnregisterDevice(pDevice), pDevice in obj[t]: reads the address twice and *)
(* searches the map unlocked, then unregisters the address.                 *)

UnpFind(t) ==
    /\ At(t, "unp_find")
    /\ IF obj[t] \in live THEN FindFault(t) ELSE Deref(obj[t])
    /\ \E found \in FindResults(t, m_addrBth[obj[t]]) :
         IF found THEN Goto(t, "unp_call") /\ UNCHANGED <<arg, obj, ret>>
                  ELSE Return(t, FALSE)
    /\ UNCHANGED <<mutexVars, heapVars, snap>>

UnpCall(t) ==
    /\ At(t, "unp_call")
    /\ Deref(obj[t])
    /\ arg' = [arg EXCEPT ![t] = m_addrBth[obj[t]]]
    /\ Goto(t, "unr_lock")
    /\ UNCHANGED <<mutexVars, heapVars, obj, snap, ret>>

-----------------------------------------------------------------------------
(* GetDeviceConnStatus(deviceAddr), up to the device object: obj[t] is the  *)
(* object whose m_pSockHandler is consulted, NULL when there is none.       *)

GcsLock(t) == Wait(t, "gcs_lock", "gcs_find")

GcsFind(t) ==
    /\ At(t, "gcs_find")
    /\ \E found \in FindResults(t, arg[t]) :
         Goto(t, IF found THEN "gcs_deref" ELSE "gcs_release")
    /\ FindFault(t)
    /\ UNCHANGED <<mutexVars, heapVars, arg, obj, snap, ret>>

GcsDeref(t) ==
    /\ At(t, "gcs_deref")
    /\ IndexInserts(arg[t])
    /\ Deref(Index(arg[t]))
    /\ obj' = [obj EXCEPT ![t] = Index(arg[t])]
    /\ Goto(t, "gcs_release")
    /\ UNCHANGED <<mutexVars, live, fieldVars, arg, snap, ret>>

GcsRelease(t) == ReleaseAndReturn(t, "gcs_release", FALSE)

-----------------------------------------------------------------------------
(* ListDevices(): walks the map and reads every device.                     *)

LstLock(t) == Wait(t, "lst_lock", "lst_walk")

LstWalk(t) ==
    /\ At(t, "lst_walk")
    /\ IF Registered \subseteq {a \in Addr : m_mapBTDevice[a] \in live} /\ ~Racing(t)
       THEN NoFault
       ELSE Fault("use_after_free")
    /\ Goto(t, "lst_release")
    /\ UNCHANGED <<mutexVars, heapVars, arg, obj, snap, ret>>

LstRelease(t) == ReleaseAndReturn(t, "lst_release", FALSE)

-----------------------------------------------------------------------------
(* A thread ends outside the manager's operations.                          *)

ThreadExit(t) ==
    /\ At(t, "idle")
    /\ AbandonMutex(t)
    /\ Goto(t, "exited")
    /\ ret' = [ret EXCEPT ![t] = FALSE]
    /\ UNCHANGED <<heapVars, arg, obj, snap, procVars>>

(* Nothing runs any more: every thread has ended, or the process has.       *)
Finished == ~up \/ \A t \in Thread : pc[t] = "exited"
Stop == Finished /\ UNCHANGED registryVars

ManagerInit ==
    /\ m_mapBTDevice = EmptyMap
    /\ live = {}
    /\ m_addrBth = [p \in Ptr |-> NULL]
    /\ m_listService = [p \in Ptr |-> FALSE]
    /\ pc = [t \in Thread |-> "idle"]
    /\ arg = [t \in Thread |-> NULL]
    /\ obj = [t \in Thread |-> NULL]
    /\ snap = [t \in Thread |-> EmptyMap]
    /\ ret = [t \in Thread |-> FALSE]
    /\ fault = {}
    /\ up = TRUE

RegistryInit == MutexInit /\ ManagerInit

\* A step of t inside the operation it has called.
Step(t) ==
    \/ RegFind(t) \/ RegLock(t) \/ RegCheck(t) \/ RegInsert(t)
    \/ RegRelease(t) \/ RegDelete(t)
    \/ UpdFind(t) \/ UpdLock(t) \/ UpdIndex(t) \/ UpdWrite(t) \/ UpdRelease(t)
    \/ SvcFind(t) \/ SvcLock(t) \/ SvcIndex(t) \/ SvcWrite(t) \/ SvcRelease(t)
    \/ UnrLock(t) \/ UnrCheck(t) \/ UnrDelete(t) \/ UnrErase(t) \/ UnrRelease(t)
    \/ GcsLock(t) \/ GcsFind(t) \/ GcsDeref(t) \/ GcsRelease(t)
    \/ LstLock(t) \/ LstWalk(t) \/ LstRelease(t)

Operations == {"reg_find", "upd_find", "svc_find", "unr_lock", "gcs_lock", "lst_lock"}

Invoke(t) == \E l \in Operations, a \in Addr : Call(t, l, a)

Next == \/ \E t \in Thread : Invoke(t) \/ Step(t) \/ ThreadExit(t)
        \/ Stop

Spec == RegistryInit /\ [][Next]_registryVars

-----------------------------------------------------------------------------
(***************************************************************************)
(* Properties.  Except for the type invariant they are about a manager that *)
(* has its mutex, HasMutex = TRUE, and hold for threads that call any       *)
(* operation with any address in any order and end whenever they are not    *)
(* inside one.                                                              *)
(***************************************************************************)

\* Every variable has its type (CBTDeviceManager's and CBTDevice's members,
\* and the locals of a call).
TypeOK ==
    /\ MutexTypeOK
    /\ m_mapBTDevice \in Maps
    /\ live \subseteq Ptr
    /\ m_addrBth \in [Ptr -> Addr \cup {NULL}]
    /\ m_listService \in [Ptr -> BOOLEAN]
    /\ pc \in [Thread -> PcLabels]
    /\ arg \in [Thread -> Addr \cup {NULL}]
    /\ obj \in [Thread -> Ptr \cup {NULL}]
    /\ snap \in [Thread -> Maps]
    /\ ret \in [Thread -> BOOLEAN]
    /\ fault \subseteq Faults
    /\ up \in BOOLEAN

\* The returns that skip ReleaseMutex never let a second thread in: the code
\* after a wait runs only in the thread that owns m_hMutex, whatever was
\* leaked or abandoned before (BTDeviceManager.cpp:221-228, 286-296).
MutualExclusion == up => \A t \in Thread : pc[t] \in Locked => owner = t

\* UnregisterDevice has deleted the device of address a and is about to erase
\* the entry (BTDeviceManager.cpp:291-292).
Erasing(a) == \E t \in Thread : pc[t] = "unr_erase" /\ arg[t] = a
Linked(a, p) == m_mapBTDevice[a] = p /\ ~Erasing(a)

\* Every pointer in m_mapBTDevice is an allocated device stored under its own
\* address, except the entry that is about to be erased.
MapSound ==
    up => \A a \in Addr, p \in Ptr :
            Linked(a, p) => p \in live /\ m_addrBth[p] = a

\* The mutex leaves two kinds of undefined behaviour, both of the finds made
\* without it (BTDeviceManager.cpp:201, 256, 279): the search itself may walk a
\* node that erase() frees (292), and acting on its answer after the wait may
\* dereference NULL (206-207, 261-262).  No thread uses or frees a freed device,
\* and the map is never relinked by two threads at once.
OnlyFindsGoWrong == fault \subseteq {"null_deref", "find_race"}

\* A device that is allocated is in the map or in the hands of the
\* RegisterDevice call that created it, in one place only: none is lost, and
\* none is shared (BTDeviceManager.cpp:222-228, 234-235, 291).
Creating == {"reg_lock", "reg_check", "reg_insert", "reg_release", "reg_delete"}
Owns(t, p) == pc[t] \in Creating /\ obj[t] = p
Places(p) == {a \in Addr : Linked(a, p)} \cup {t \in Thread : Owns(t, p)}
NoDeviceLost == up => \A p \in live : Cardinality(Places(p)) = 1

=============================================================================
