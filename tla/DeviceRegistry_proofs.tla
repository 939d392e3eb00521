----------------------- MODULE DeviceRegistry_proofs -----------------------
(***************************************************************************)
(* Proofs about DeviceRegistry, for every set of threads, addresses and     *)
(* heap cells: its invariants, and that it implements DeviceSet.            *)
(***************************************************************************)
EXTENDS DeviceRegistryRefinement, FiniteSetTheorems, TLAPS

(***************************************************************************)
(* Type correctness.  An owned mutex has a positive recursion count, so     *)
(* ReleaseMutex never counts below zero; a call has an address, except one  *)
(* that is given a device or lists them all.                                *)
(***************************************************************************)
NoAddress == {"idle", "exited", "unp_find", "unp_call", "lst_lock", "lst_walk", "lst_release"}
Typed == /\ TypeOK
         /\ owner # NoThread => depth > 0
         /\ \A t \in Thread : pc[t] \notin NoAddress => arg[t] \in Addr

USE DEF NoAddress

LEMMA WaitTyped ==
    ASSUME NEW t \in Thread, Typed, WaitForMutex(t)
    PROVE  MutexTypeOK' /\ (owner' # NoThread => depth' > 0)
BY DEF Typed, TypeOK, MutexTypeOK, WaitForMutex, mutexVars

LEMMA ReleaseTyped ==
    ASSUME NEW t \in Thread, Typed, ReleaseMutex(t)
    PROVE  MutexTypeOK' /\ (owner' # NoThread => depth' > 0)
BY NoThreadAssumption DEF Typed, TypeOK, MutexTypeOK, ReleaseMutex, mutexVars

LEMMA AbandonTyped ==
    ASSUME NEW t \in Thread, Typed, AbandonMutex(t)
    PROVE  MutexTypeOK' /\ (owner' # NoThread => depth' > 0)
BY DEF Typed, TypeOK, MutexTypeOK, AbandonMutex, mutexVars

LEMMA FaultTyped ==
    ASSUME Typed, NEW k \in Faults, Fault(k) \/ NoFault
    PROVE  fault' \subseteq Faults /\ up' \in BOOLEAN
BY DEF Typed, TypeOK, Fault, NoFault, procVars

LEMMA DerefTyped ==
    ASSUME Typed, NEW p, Deref(p)
    PROVE  fault' \subseteq Faults /\ up' \in BOOLEAN
BY FaultTyped DEF Deref, Faults

LEMMA FindFaultTyped ==
    ASSUME Typed, NEW t, FindFault(t)
    PROVE  fault' \subseteq Faults /\ up' \in BOOLEAN
BY FaultTyped DEF FindFault, Faults

LEMMA DeleteTyped ==
    ASSUME Typed, NEW p, Delete(p)
    PROVE  live' \subseteq Ptr /\ fault' \subseteq Faults /\ up' \in BOOLEAN
<1>1. live' \subseteq Ptr
  BY DEF Delete, Typed, TypeOK
<1>2. fault' \subseteq Faults /\ up' \in BOOLEAN
  BY FaultTyped DEF Delete, Faults
<1> QED BY <1>1, <1>2

LEMMA EndRelinkTyped ==
    ASSUME NEW t \in Thread, NEW a \in Addr, NEW v \in Ptr \cup {NULL, Absent},
           Typed, EndRelink(t, a, v)
    PROVE  /\ m_mapBTDevice' \in Maps
           /\ snap' \in [Thread -> Maps]
           /\ fault' \subseteq Faults /\ up' \in BOOLEAN
<1>1. fault' \subseteq Faults /\ up' \in BOOLEAN
  BY FaultTyped DEF EndRelink, Faults
<1>2. m_mapBTDevice' \in Maps
  BY DEF EndRelink, Typed, TypeOK, Maps
<1>3. snap' \in [Thread -> Maps]
  BY DEF EndRelink, Typed, TypeOK, Maps, EmptyMap
<1> QED BY <1>1, <1>2, <1>3

LEMMA IndexTyped ==
    ASSUME NEW a \in Addr, Typed
    PROVE  /\ Index(a) \in Ptr \cup {NULL}
           /\ IndexInserts(a) => m_mapBTDevice' \in Maps
BY DEF Typed, TypeOK, Maps, Index, IndexInserts, Present

\* find() in front of an operation's lock, and what follows it.
LEMMA FindTyped ==
    ASSUME Typed, NEW t \in Thread, NEW from \in PcLabels \ NoAddress, NEW to \in PcLabels,
           FindOrReturn(t, from, to)
    PROVE  Typed'
<1>1. /\ pc[t] = from /\ arg[t] \in Addr /\ UNCHANGED <<mutexVars, heapVars, snap>>
      /\ fault' \subseteq Faults /\ up' \in BOOLEAN
  BY FindFaultTyped DEF FindOrReturn, At, Typed
<1>2. CASE Goto(t, to) /\ UNCHANGED <<arg, obj, ret>>
  BY <1>1, <1>2 DEF Goto, Typed, TypeOK, MutexTypeOK, mutexVars, heapVars, fieldVars
<1>3. CASE Return(t, FALSE)
  <2>1. "idle" \in PcLabels
    BY DEF PcLabels
  <2> QED
    BY <1>1, <1>3, <2>1
       DEF Return, Goto, Typed, TypeOK, MutexTypeOK, mutexVars, heapVars, fieldVars
<1> QED
  BY <1>2, <1>3 DEF FindOrReturn

LEMMA InitTyped == RegistryInit => Typed
BY NoThreadAssumption
   DEF RegistryInit, ManagerInit, Typed, TypeOK, MutexTypeOK, MutexInit, Maps, EmptyMap, PcLabels, Faults

LEMMA NextTyped == Typed /\ [Next]_registryVars => Typed'
<1> SUFFICES ASSUME Typed, [Next]_registryVars
             PROVE  Typed'
  OBVIOUS
<1> USE DEF PcLabels
<1>1. ASSUME NEW t \in Thread, Invoke(t) PROVE Typed'
  BY <1>1 DEF Invoke, Operations, Call, Typed, TypeOK, mutexVars, heapVars, fieldVars, localVars, procVars, Goto, At, MutexTypeOK
<1>2. ASSUME NEW t \in Thread, RegFind(t) PROVE Typed'
  <2>0. fault' \subseteq Faults /\ up' \in BOOLEAN
    BY <1>2, FindFaultTyped DEF RegFind
  <2> USE <1>2, <2>0 DEF RegFind, Typed, TypeOK, mutexVars, Goto, At, MutexTypeOK
  <2>1. CASE Return(t, FALSE) /\ UNCHANGED <<live, fieldVars>>
    BY <2>1 DEF Return, fieldVars
  <2>2. ASSUME NEW p \in Ptr \ live,
               /\ live' = live \cup {p}
               /\ m_addrBth' = [m_addrBth EXCEPT ![p] = arg[t]]
               /\ m_listService' = [m_listService EXCEPT ![p] = FALSE]
               /\ obj' = [obj EXCEPT ![t] = p]
               /\ Goto(t, "reg_lock")
               /\ UNCHANGED <<arg, ret>>
        PROVE  Typed'
    BY <2>2
  <2> QED BY <2>1, <2>2
<1>3. ASSUME NEW t \in Thread, RegLock(t) PROVE Typed'
  BY <1>3, WaitTyped DEF RegLock, Wait, Typed, TypeOK, mutexVars, heapVars, fieldVars, localVars, procVars, Goto, At, MutexTypeOK
<1>4. ASSUME NEW t \in Thread, RegCheck(t) PROVE Typed'
  BY <1>4, FindFaultTyped DEF RegCheck, BeginRelink, Typed, TypeOK, mutexVars, heapVars, fieldVars, localVars, procVars, Goto, At, MutexTypeOK
<1>5. ASSUME NEW t \in Thread, RegInsert(t) PROVE Typed'
  BY <1>5, EndRelinkTyped DEF RegInsert, Return, Typed, TypeOK, mutexVars, heapVars, fieldVars, localVars, procVars, Goto, At, MutexTypeOK
<1>6. ASSUME NEW t \in Thread, RegRelease(t) PROVE Typed'
  BY <1>6, ReleaseTyped DEF RegRelease, Typed, TypeOK, mutexVars, heapVars, fieldVars, localVars, procVars, Goto, At, MutexTypeOK
<1>7. ASSUME NEW t \in Thread, RegDelete(t) PROVE Typed'
  BY <1>7, DeleteTyped DEF RegDelete, Return, Typed, TypeOK, mutexVars, heapVars, fieldVars, localVars, procVars, Goto, At, MutexTypeOK
<1>8. ASSUME NEW t \in Thread, UpdFind(t) PROVE Typed'
  BY <1>8, FindTyped DEF UpdFind
<1>9. ASSUME NEW t \in Thread, UpdLock(t) PROVE Typed'
  BY <1>9, WaitTyped DEF UpdLock, Wait, Typed, TypeOK, mutexVars, heapVars, fieldVars, localVars, procVars, Goto, At, MutexTypeOK
<1>10. ASSUME NEW t \in Thread, UpdIndex(t) PROVE Typed'
  BY <1>10, FindFaultTyped, IndexTyped DEF UpdIndex, IndexDevice, Typed, TypeOK, mutexVars, heapVars, fieldVars, localVars, procVars, Goto, At, MutexTypeOK
<1>11. ASSUME NEW t \in Thread, UpdWrite(t) PROVE Typed'
  BY <1>11, DerefTyped DEF UpdWrite, WriteField, Typed, TypeOK, mutexVars, heapVars, fieldVars, localVars, procVars, Goto, At, MutexTypeOK
<1>12. ASSUME NEW t \in Thread, UpdRelease(t) PROVE Typed'
  BY <1>12, ReleaseTyped DEF UpdRelease, ReleaseAndReturn, Return, Typed, TypeOK, mutexVars, heapVars, fieldVars, localVars, procVars, Goto, At, MutexTypeOK
<1>13. ASSUME NEW t \in Thread, SvcFind(t) PROVE Typed'
  BY <1>13, FindTyped DEF SvcFind
<1>14. ASSUME NEW t \in Thread, SvcLock(t) PROVE Typed'
  BY <1>14, WaitTyped DEF SvcLock, Wait, Typed, TypeOK, mutexVars, heapVars, fieldVars, localVars, procVars, Goto, At, MutexTypeOK
<1>15. ASSUME NEW t \in Thread, SvcIndex(t) PROVE Typed'
  BY <1>15, FindFaultTyped, IndexTyped DEF SvcIndex, IndexDevice, Typed, TypeOK, mutexVars, heapVars, fieldVars, localVars, procVars, Goto, At, MutexTypeOK
<1>16. ASSUME NEW t \in Thread, SvcWrite(t) PROVE Typed'
  BY <1>16, DerefTyped DEF SvcWrite, WriteField, Typed, TypeOK, mutexVars, heapVars, fieldVars, localVars, procVars, Goto, At, MutexTypeOK
<1>17. ASSUME NEW t \in Thread, SvcRelease(t) PROVE Typed'
  BY <1>17, ReleaseTyped DEF SvcRelease, ReleaseAndReturn, Return, Typed, TypeOK, mutexVars, heapVars, fieldVars, localVars, procVars, Goto, At, MutexTypeOK
<1>18. ASSUME NEW t \in Thread, UnrLock(t) PROVE Typed'
  BY <1>18, WaitTyped DEF UnrLock, Wait, Typed, TypeOK, mutexVars, heapVars, fieldVars, localVars, procVars, Goto, At, MutexTypeOK
<1>19. ASSUME NEW t \in Thread, UnrCheck(t) PROVE Typed'
  BY <1>19, FindTyped DEF UnrCheck
<1>20. ASSUME NEW t \in Thread, UnrDelete(t) PROVE Typed'
  BY <1>20, DeleteTyped, IndexTyped DEF UnrDelete, Typed, TypeOK, mutexVars, heapVars, fieldVars, localVars, procVars, Goto, At, MutexTypeOK
<1>21. ASSUME NEW t \in Thread, UnrErase(t) PROVE Typed'
  BY <1>21, EndRelinkTyped DEF UnrErase, Typed, TypeOK, mutexVars, heapVars, fieldVars, localVars, procVars, Goto, At, MutexTypeOK
<1>22. ASSUME NEW t \in Thread, UnrRelease(t) PROVE Typed'
  BY <1>22, ReleaseTyped DEF UnrRelease, ReleaseAndReturn, Return, Typed, TypeOK, mutexVars, heapVars, fieldVars, localVars, procVars, Goto, At, MutexTypeOK
<1>23. ASSUME NEW t \in Thread, GcsLock(t) PROVE Typed'
  BY <1>23, WaitTyped DEF GcsLock, Wait, Typed, TypeOK, mutexVars, heapVars, fieldVars, localVars, procVars, Goto, At, MutexTypeOK
<1>24. ASSUME NEW t \in Thread, GcsFind(t) PROVE Typed'
  BY <1>24, FindFaultTyped DEF GcsFind, Typed, TypeOK, mutexVars, heapVars, fieldVars, localVars, procVars, Goto, At, MutexTypeOK
<1>25. ASSUME NEW t \in Thread, GcsDeref(t) PROVE Typed'
  BY <1>25, DerefTyped, IndexTyped DEF GcsDeref, Typed, TypeOK, mutexVars, heapVars, fieldVars, localVars, procVars, Goto, At, MutexTypeOK
<1>26. ASSUME NEW t \in Thread, GcsRelease(t) PROVE Typed'
  BY <1>26, ReleaseTyped DEF GcsRelease, ReleaseAndReturn, Return, Typed, TypeOK, mutexVars, heapVars, fieldVars, localVars, procVars, Goto, At, MutexTypeOK
<1>27. ASSUME NEW t \in Thread, LstLock(t) PROVE Typed'
  BY <1>27, WaitTyped DEF LstLock, Wait, Typed, TypeOK, mutexVars, heapVars, fieldVars, localVars, procVars, Goto, At, MutexTypeOK
<1>28. ASSUME NEW t \in Thread, LstWalk(t) PROVE Typed'
  BY <1>28, FaultTyped DEF LstWalk, Faults, Typed, TypeOK, mutexVars, heapVars, fieldVars, localVars, procVars, Goto, At, MutexTypeOK
<1>29. ASSUME NEW t \in Thread, LstRelease(t) PROVE Typed'
  BY <1>29, ReleaseTyped DEF LstRelease, ReleaseAndReturn, Return, Typed, TypeOK, mutexVars, heapVars, fieldVars, localVars, procVars, Goto, At, MutexTypeOK
<1>30. ASSUME NEW t \in Thread, ThreadExit(t) PROVE Typed'
  BY <1>30, AbandonTyped DEF ThreadExit, Typed, TypeOK, mutexVars, heapVars, fieldVars, localVars, procVars, Goto, At, MutexTypeOK
<1>31. CASE Stop \/ UNCHANGED registryVars
  BY <1>31 DEF Stop, registryVars, Typed, TypeOK, mutexVars, heapVars, fieldVars, localVars, procVars, Goto, At, MutexTypeOK
<1> QED
  BY <1>1, <1>2, <1>3, <1>4, <1>5, <1>6, <1>7, <1>8, <1>9, <1>10, <1>11, <1>12, <1>13, <1>14, <1>15, <1>16, <1>17, <1>18, <1>19, <1>20, <1>21, <1>22, <1>23, <1>24, <1>25, <1>26, <1>27, <1>28, <1>29, <1>30, <1>31 DEF Next, Step

\* CBTDeviceManager's members and the locals of its operations keep their types.
THEOREM TypeCorrect == Spec => []TypeOK
<1>1. Typed => TypeOK
  BY DEF Typed
<1> QED
  BY InitTyped, NextTyped, <1>1, PTL DEF Spec

(***************************************************************************)
(* Mutual exclusion, for a manager that has its mutex.                      *)
(***************************************************************************)
LEMMA WaitOwns ==
    ASSUME HasMutex, NEW t, WaitForMutex(t)
    PROVE  owner' = t /\ owner \in {NoThread, t}
BY DEF WaitForMutex

LEMMA ReleaseOwns ==
    ASSUME HasMutex, NEW t \in Thread, NEW u \in Thread \ {t}, ReleaseMutex(t),
           owner = u
    PROVE  owner' = u
BY DEF ReleaseMutex, mutexVars

LEMMA NextExclusive ==
    HasMutex /\ Typed /\ MutualExclusion /\ [Next]_registryVars => MutualExclusion'
<1> SUFFICES ASSUME HasMutex, Typed, MutualExclusion, [Next]_registryVars
             PROVE  MutualExclusion'
  OBVIOUS
<1>1. ASSUME NEW t \in Thread, Invoke(t) PROVE MutualExclusion'
  BY <1>1, NoThreadAssumption DEF Invoke, Operations, Call, MutualExclusion, TypeOK, Typed, mutexVars, Goto, At, Locked
<1>2. ASSUME NEW t \in Thread, RegFind(t) PROVE MutualExclusion'
  BY <1>2, NoThreadAssumption DEF RegFind, Return, MutualExclusion, TypeOK, Typed, mutexVars, Goto, At, Locked
<1>3. ASSUME NEW t \in Thread, RegLock(t) PROVE MutualExclusion'
  BY <1>3, NoThreadAssumption, WaitOwns DEF RegLock, Wait, MutualExclusion, TypeOK, Typed, mutexVars, Goto, At, Locked
<1>4. ASSUME NEW t \in Thread, RegCheck(t) PROVE MutualExclusion'
  BY <1>4, NoThreadAssumption DEF RegCheck, MutualExclusion, TypeOK, Typed, mutexVars, Goto, At, Locked
<1>5. ASSUME NEW t \in Thread, RegInsert(t) PROVE MutualExclusion'
  BY <1>5, NoThreadAssumption DEF RegInsert, Return, MutualExclusion, TypeOK, Typed, mutexVars, Goto, At, Locked
<1>6. ASSUME NEW t \in Thread, RegRelease(t) PROVE MutualExclusion'
  BY <1>6, NoThreadAssumption, ReleaseOwns DEF RegRelease, MutualExclusion, TypeOK, Typed, mutexVars, Goto, At, Locked
<1>7. ASSUME NEW t \in Thread, RegDelete(t) PROVE MutualExclusion'
  BY <1>7, NoThreadAssumption DEF RegDelete, Return, MutualExclusion, TypeOK, Typed, mutexVars, Goto, At, Locked
<1>8. ASSUME NEW t \in Thread, UpdFind(t) PROVE MutualExclusion'
  BY <1>8, NoThreadAssumption DEF UpdFind, FindOrReturn, Return, MutualExclusion, TypeOK, Typed, mutexVars, Goto, At, Locked
<1>9. ASSUME NEW t \in Thread, UpdLock(t) PROVE MutualExclusion'
  BY <1>9, NoThreadAssumption, WaitOwns DEF UpdLock, Wait, MutualExclusion, TypeOK, Typed, mutexVars, Goto, At, Locked
<1>10. ASSUME NEW t \in Thread, UpdIndex(t) PROVE MutualExclusion'
  BY <1>10, NoThreadAssumption DEF UpdIndex, IndexDevice, MutualExclusion, TypeOK, Typed, mutexVars, Goto, At, Locked
<1>11. ASSUME NEW t \in Thread, UpdWrite(t) PROVE MutualExclusion'
  BY <1>11, NoThreadAssumption DEF UpdWrite, MutualExclusion, TypeOK, Typed, mutexVars, Goto, At, Locked
<1>12. ASSUME NEW t \in Thread, UpdRelease(t) PROVE MutualExclusion'
  BY <1>12, NoThreadAssumption, ReleaseOwns DEF UpdRelease, ReleaseAndReturn, Return, MutualExclusion, TypeOK, Typed, mutexVars, Goto, At, Locked
<1>13. ASSUME NEW t \in Thread, SvcFind(t) PROVE MutualExclusion'
  BY <1>13, NoThreadAssumption DEF SvcFind, FindOrReturn, Return, MutualExclusion, TypeOK, Typed, mutexVars, Goto, At, Locked
<1>14. ASSUME NEW t \in Thread, SvcLock(t) PROVE MutualExclusion'
  BY <1>14, NoThreadAssumption, WaitOwns DEF SvcLock, Wait, MutualExclusion, TypeOK, Typed, mutexVars, Goto, At, Locked
<1>15. ASSUME NEW t \in Thread, SvcIndex(t) PROVE MutualExclusion'
  BY <1>15, NoThreadAssumption DEF SvcIndex, IndexDevice, MutualExclusion, TypeOK, Typed, mutexVars, Goto, At, Locked
<1>16. ASSUME NEW t \in Thread, SvcWrite(t) PROVE MutualExclusion'
  BY <1>16, NoThreadAssumption DEF SvcWrite, MutualExclusion, TypeOK, Typed, mutexVars, Goto, At, Locked
<1>17. ASSUME NEW t \in Thread, SvcRelease(t) PROVE MutualExclusion'
  BY <1>17, NoThreadAssumption, ReleaseOwns DEF SvcRelease, ReleaseAndReturn, Return, MutualExclusion, TypeOK, Typed, mutexVars, Goto, At, Locked
<1>18. ASSUME NEW t \in Thread, UnrLock(t) PROVE MutualExclusion'
  BY <1>18, NoThreadAssumption, WaitOwns DEF UnrLock, Wait, MutualExclusion, TypeOK, Typed, mutexVars, Goto, At, Locked
<1>19. ASSUME NEW t \in Thread, UnrCheck(t) PROVE MutualExclusion'
  BY <1>19, NoThreadAssumption DEF UnrCheck, FindOrReturn, Return, MutualExclusion, TypeOK, Typed, mutexVars, Goto, At, Locked
<1>20. ASSUME NEW t \in Thread, UnrDelete(t) PROVE MutualExclusion'
  BY <1>20, NoThreadAssumption DEF UnrDelete, MutualExclusion, TypeOK, Typed, mutexVars, Goto, At, Locked
<1>21. ASSUME NEW t \in Thread, UnrErase(t) PROVE MutualExclusion'
  BY <1>21, NoThreadAssumption DEF UnrErase, MutualExclusion, TypeOK, Typed, mutexVars, Goto, At, Locked
<1>22. ASSUME NEW t \in Thread, UnrRelease(t) PROVE MutualExclusion'
  BY <1>22, NoThreadAssumption, ReleaseOwns DEF UnrRelease, ReleaseAndReturn, Return, MutualExclusion, TypeOK, Typed, mutexVars, Goto, At, Locked
<1>23. ASSUME NEW t \in Thread, GcsLock(t) PROVE MutualExclusion'
  BY <1>23, NoThreadAssumption, WaitOwns DEF GcsLock, Wait, MutualExclusion, TypeOK, Typed, mutexVars, Goto, At, Locked
<1>24. ASSUME NEW t \in Thread, GcsFind(t) PROVE MutualExclusion'
  BY <1>24, NoThreadAssumption DEF GcsFind, MutualExclusion, TypeOK, Typed, mutexVars, Goto, At, Locked
<1>25. ASSUME NEW t \in Thread, GcsDeref(t) PROVE MutualExclusion'
  BY <1>25, NoThreadAssumption DEF GcsDeref, MutualExclusion, TypeOK, Typed, mutexVars, Goto, At, Locked
<1>26. ASSUME NEW t \in Thread, GcsRelease(t) PROVE MutualExclusion'
  BY <1>26, NoThreadAssumption, ReleaseOwns DEF GcsRelease, ReleaseAndReturn, Return, MutualExclusion, TypeOK, Typed, mutexVars, Goto, At, Locked
<1>27. ASSUME NEW t \in Thread, LstLock(t) PROVE MutualExclusion'
  BY <1>27, NoThreadAssumption, WaitOwns DEF LstLock, Wait, MutualExclusion, TypeOK, Typed, mutexVars, Goto, At, Locked
<1>28. ASSUME NEW t \in Thread, LstWalk(t) PROVE MutualExclusion'
  BY <1>28, NoThreadAssumption DEF LstWalk, MutualExclusion, TypeOK, Typed, mutexVars, Goto, At, Locked
<1>29. ASSUME NEW t \in Thread, LstRelease(t) PROVE MutualExclusion'
  BY <1>29, NoThreadAssumption, ReleaseOwns DEF LstRelease, ReleaseAndReturn, Return, MutualExclusion, TypeOK, Typed, mutexVars, Goto, At, Locked
<1>30. ASSUME NEW t \in Thread, ThreadExit(t) PROVE MutualExclusion'
  BY <1>30, NoThreadAssumption DEF ThreadExit, AbandonMutex, MutualExclusion, TypeOK, Typed, mutexVars, Goto, At, Locked
<1>31. CASE Stop \/ UNCHANGED registryVars
  BY <1>31 DEF Stop, registryVars, localVars, procVars, MutualExclusion, TypeOK, Typed, mutexVars, Goto, At, Locked
<1> QED
  BY <1>1, <1>2, <1>3, <1>4, <1>5, <1>6, <1>7, <1>8, <1>9, <1>10, <1>11, <1>12, <1>13, <1>14, <1>15, <1>16, <1>17, <1>18, <1>19, <1>20, <1>21, <1>22, <1>23, <1>24, <1>25, <1>26, <1>27, <1>28, <1>29, <1>30, <1>31 DEF Next, Step

\* The code between a wait and its release runs in the owner of the mutex only.
THEOREM Exclusive == ASSUME HasMutex PROVE Spec => []MutualExclusion
<1>1. RegistryInit => MutualExclusion
  BY DEF RegistryInit, ManagerInit, MutualExclusion, Locked
<1> QED
  BY HasMutex, InitTyped, NextTyped, NextExclusive, <1>1, PTL DEF Spec

(***************************************************************************)
(* The inductive invariant behind MapSound, OnlyFindsGoWrong and NoDeviceLost. *)
(* What a thread has found out about the map stays true while it owns the   *)
(* mutex; a device belongs to one entry or to one creating call; a NULL     *)
(* entry is there only between the operator[] that made it and the          *)
(* dereference that ends the process.                                       *)
(***************************************************************************)
Writing == {"upd_write", "svc_write"}

Knows(t) ==
    /\ pc[t] \notin {"unp_find", "unp_call"}
    /\ pc[t] \in Relinking => snap[t] = m_mapBTDevice
    /\ pc[t] = "reg_insert" => m_mapBTDevice[arg[t]] = Absent
    /\ pc[t] \in {"unr_delete", "unr_erase", "gcs_deref"} => m_mapBTDevice[arg[t]] \in Ptr
    /\ pc[t] \in Writing /\ obj[t] # NULL => m_mapBTDevice[arg[t]] = obj[t]

NullEntries ==
    \A a \in Addr : m_mapBTDevice[a] = NULL =>
      \E t \in Thread : pc[t] \in Writing /\ obj[t] = NULL

Entries == \A a \in Addr, p \in Ptr : Linked(a, p) => p \in live /\ m_addrBth[p] = a

Created(t) ==
    pc[t] \in Creating =>
      /\ obj[t] \in live
      /\ m_addrBth[obj[t]] = arg[t]
      /\ \A a \in Addr : ~Linked(a, obj[t])

CreatedOnce == \A t, u \in Thread :
    pc[t] \in Creating /\ pc[u] \in Creating /\ obj[t] = obj[u] => t = u

Placed == \A p \in live : \/ \E a \in Addr : Linked(a, p)
                          \/ \E t \in Thread : Owns(t, p)

HeapInv ==
    /\ fault \subseteq {"null_deref", "find_race"}
    /\ up => /\ fault \subseteq {"find_race"}
             /\ \A t \in Thread : Knows(t) /\ Created(t)
             /\ NullEntries
             /\ Entries
             /\ CreatedOnce
             /\ Placed

LEMMA Alone ==
    ASSUME MutualExclusion, up, NEW t \in Thread, pc[t] \in Locked
    PROVE  /\ \A u \in Thread \ {t} : pc[u] \notin Locked
           /\ ~Racing(t)
           /\ \A a : FindResults(t, a) = {Present(a)}
           /\ FindFault(t) => NoFault
<1>1. \A u \in Thread \ {t} : pc[u] \notin Locked
  BY DEF MutualExclusion
<1>2. ~Racing(t)
  BY <1>1 DEF Racing, Relinking, Locked
<1>3. ~EraseBeside(t)
  BY <1>1 DEF EraseBeside, Locked
<1> QED BY <1>1, <1>2, <1>3 DEF FindResults, FindFault

\* What a search beside an erasure does to the process.
LEMMA SearchEnds ==
    ASSUME HeapInv, up, NEW t, FindFault(t)
    PROVE  fault' \subseteq {"null_deref", "find_race"} /\ (up' => fault' \subseteq {"find_race"})
BY DEF FindFault, Fault, NoFault, procVars, HeapInv

LEMMA NullDerefEnds ==
    ASSUME Typed, fault \subseteq {"find_race"}, Deref(NULL)
    PROVE  up' = FALSE /\ fault' = fault \cup {"null_deref"}
<1>1. NULL \notin live
  BY PtrAssumption DEF Typed, TypeOK
<1> QED BY <1>1 DEF Deref, Fault

LEMMA NextHeap ==
    MutualExclusion /\ Typed /\ HeapInv /\ [Next]_registryVars => HeapInv'
<1> SUFFICES ASSUME MutualExclusion, Typed, HeapInv, [Next]_registryVars
             PROVE  HeapInv'
  OBVIOUS
<1>1. ASSUME NEW t \in Thread, Invoke(t) PROVE HeapInv'
  BY <1>1, Alone, PtrAssumption, SMTT(20) DEF Invoke, Operations, Call, HeapInv, Knows, NullEntries, Entries, Created, CreatedOnce, Placed, Linked, Erasing, Owns, Creating, Writing, Relinking, Locked, TypeOK, Typed, mutexVars, heapVars, fieldVars, procVars, Goto, At
<1>2. ASSUME NEW t \in Thread, RegFind(t) PROVE HeapInv'
  <2>1. /\ up /\ fault' \subseteq {"null_deref", "find_race"}
        /\ up' => fault' \subseteq {"find_race"}
    BY <1>2, SearchEnds DEF RegFind, At
  <2> QED
    BY <1>2, <2>1, PtrAssumption, SMTT(20) DEF RegFind, Return, HeapInv, Knows, NullEntries, Entries, Created, CreatedOnce, Placed, Linked, Erasing, Owns, Creating, Writing, Relinking, Locked, TypeOK, Typed, mutexVars, heapVars, fieldVars, Goto, At
<1>3. ASSUME NEW t \in Thread, RegLock(t) PROVE HeapInv'
  BY <1>3, Alone, PtrAssumption, SMTT(20) DEF RegLock, Wait, HeapInv, Knows, NullEntries, Entries, Created, CreatedOnce, Placed, Linked, Erasing, Owns, Creating, Writing, Relinking, Locked, TypeOK, Typed, mutexVars, heapVars, fieldVars, procVars, Goto, At
<1>4. ASSUME NEW t \in Thread, RegCheck(t) PROVE HeapInv'
  <2>1. up /\ pc[t] = "reg_check" /\ pc[t] \in Locked
    BY <1>4 DEF RegCheck, At, Locked
  <2>2. ~Racing(t) /\ FindResults(t, arg[t]) = {Present(arg[t])}
    BY <2>1, Alone
  <2>3. \/ Present(arg[t]) /\ Goto(t, "reg_release") /\ UNCHANGED snap
        \/ ~Present(arg[t]) /\ Goto(t, "reg_insert") /\ BeginRelink(t)
    BY <1>4, <2>2 DEF RegCheck
  <2>4. UNCHANGED <<mutexVars, heapVars, arg, obj, ret, procVars>>
    BY <1>4, <2>1, Alone DEF RegCheck, NoFault
  <2>5. \A u \in Thread \ {t} : pc[u] \notin Locked
    BY <2>1, Alone
  <2> QED
    BY <2>1, <2>3, <2>4, <2>5 DEF BeginRelink, Present, HeapInv, Knows, NullEntries, Entries, Created, CreatedOnce, Placed, Linked, Erasing, Owns, Creating, Writing, Relinking, Locked, TypeOK, Typed, mutexVars, heapVars, fieldVars, procVars, Goto, At
<1>5. ASSUME NEW t \in Thread, RegInsert(t) PROVE HeapInv'
  <2>1. up /\ pc[t] = "reg_insert" /\ pc[t] \in Locked
    BY <1>5 DEF RegInsert, At, Locked
  <2>2. ~Racing(t) /\ FindResults(t, arg[t]) = {Present(arg[t])}
    BY <2>1, Alone
  <2>3. \A u \in Thread \ {t} : pc[u] \notin Locked
    BY <2>1, Alone
  <2>4. /\ snap[t] = m_mapBTDevice /\ m_mapBTDevice[arg[t]] = Absent
        /\ obj[t] \in live /\ m_addrBth[obj[t]] = arg[t] /\ arg[t] \in Addr
        /\ \A a \in Addr : ~Linked(a, obj[t])
    BY <2>1 DEF HeapInv, Knows, Created, Creating, Relinking, Typed
  <2>5. /\ m_mapBTDevice' = [m_mapBTDevice EXCEPT ![arg[t]] = obj[t]]
        /\ UNCHANGED <<fault, up, live, m_addrBth>>
        /\ pc' = [pc EXCEPT ![t] = "idle"]
        /\ obj' = [obj EXCEPT ![t] = NULL]
        /\ arg' = [arg EXCEPT ![t] = NULL]
        /\ snap' = [snap EXCEPT ![t] = EmptyMap]
    BY <1>5, <2>2, <2>4 DEF RegInsert, EndRelink, Return, Goto, NoFault, procVars, fieldVars
  <2>6. \A a \in Addr : ~Erasing(a) /\ ~Erasing(a)'
    BY <2>1, <2>3, <2>5 DEF Erasing, Locked, Typed, TypeOK
  <2>7. \A u \in Thread : Knows(u)'
    BY <2>1, <2>3, <2>4, <2>5 DEF HeapInv, Knows, Relinking, Writing, Locked, Typed, TypeOK
  <2>8. \A a \in Addr, p \in Ptr :
          Linked(a, p)' <=> (Linked(a, p) \/ (a = arg[t] /\ p = obj[t]))
    BY <2>4, <2>5, <2>6, PtrAssumption DEF Linked, Typed, TypeOK, Maps
  <2>9. \A u \in Thread : Created(u)'
    BY <2>1, <2>4, <2>5, <2>8 DEF HeapInv, Created, CreatedOnce, Creating, Typed, TypeOK
  <2>10. NullEntries'
    BY <2>1, <2>4, <2>5, PtrAssumption
       DEF HeapInv, NullEntries, Writing, Typed, TypeOK, Maps
  <2>11. Entries'
    BY <2>1, <2>4, <2>5, <2>8 DEF HeapInv, Entries
  <2>12. CreatedOnce'
    BY <2>1, <2>5 DEF HeapInv, CreatedOnce, Creating, Typed, TypeOK
  <2>13. Placed'
    BY <2>1, <2>4, <2>5, <2>8 DEF HeapInv, Placed, Owns, Creating, Typed, TypeOK
  <2> QED BY <2>1, <2>5, <2>7, <2>9, <2>10, <2>11, <2>12, <2>13 DEF HeapInv
<1>6. ASSUME NEW t \in Thread, RegRelease(t) PROVE HeapInv'
  BY <1>6, Alone, PtrAssumption, SMTT(20) DEF RegRelease, HeapInv, Knows, NullEntries, Entries, Created, CreatedOnce, Placed, Linked, Erasing, Owns, Creating, Writing, Relinking, Locked, TypeOK, Typed, mutexVars, heapVars, fieldVars, procVars, Goto, At
<1>7. ASSUME NEW t \in Thread, RegDelete(t) PROVE HeapInv'
  <2>1. up /\ pc[t] = "reg_delete" /\ obj[t] \in live
    BY <1>7 DEF RegDelete, At, HeapInv, Created, Creating
  <2>2. /\ live' = live \ {obj[t]}
        /\ UNCHANGED <<fault, up, m_mapBTDevice, m_addrBth, snap>>
        /\ pc' = [pc EXCEPT ![t] = "idle"]
        /\ obj' = [obj EXCEPT ![t] = NULL]
        /\ arg' = [arg EXCEPT ![t] = NULL]
    BY <1>7, <2>1 DEF RegDelete, Delete, Return, Goto, NoFault, procVars, fieldVars
  <2>3. \A a \in Addr : Erasing(a)' <=> Erasing(a)
    BY <2>1, <2>2 DEF Erasing, Typed, TypeOK
  <2>4. \A a \in Addr, p \in Ptr : Linked(a, p)' <=> Linked(a, p)
    BY <2>2, <2>3 DEF Linked
  <2>5. \A u \in Thread : Knows(u)'
    BY <2>1, <2>2 DEF HeapInv, Knows, Relinking, Writing, Typed, TypeOK
  <2>6. \A u \in Thread : Created(u)'
    BY <2>1, <2>2, <2>4 DEF HeapInv, Created, CreatedOnce, Creating, Typed, TypeOK
  <2>7. NullEntries'
    BY <2>1, <2>2 DEF HeapInv, NullEntries, Writing, Typed, TypeOK
  <2>8. Entries'
    BY <2>1, <2>2, <2>4 DEF HeapInv, Entries, Created, Creating
  <2>9. CreatedOnce'
    BY <2>1, <2>2 DEF HeapInv, CreatedOnce, Creating, Typed, TypeOK
  <2>10. Placed'
    BY <2>1, <2>2, <2>4 DEF HeapInv, Placed, Owns, Creating, Typed, TypeOK
  <2> QED BY <2>1, <2>2, <2>5, <2>6, <2>7, <2>8, <2>9, <2>10 DEF HeapInv
<1>8. ASSUME NEW t \in Thread, UpdFind(t) PROVE HeapInv'
  <2>1. /\ up /\ fault' \subseteq {"null_deref", "find_race"}
        /\ up' => fault' \subseteq {"find_race"}
    BY <1>8, SearchEnds DEF UpdFind, FindOrReturn, At
  <2> QED
    BY <1>8, <2>1, PtrAssumption, SMTT(20) DEF UpdFind, FindOrReturn, Return, HeapInv, Knows, NullEntries, Entries, Created, CreatedOnce, Placed, Linked, Erasing, Owns, Creating, Writing, Relinking, Locked, TypeOK, Typed, mutexVars, heapVars, fieldVars, Goto, At
<1>9. ASSUME NEW t \in Thread, UpdLock(t) PROVE HeapInv'
  BY <1>9, Alone, PtrAssumption, SMTT(20) DEF UpdLock, Wait, HeapInv, Knows, NullEntries, Entries, Created, CreatedOnce, Placed, Linked, Erasing, Owns, Creating, Writing, Relinking, Locked, TypeOK, Typed, mutexVars, heapVars, fieldVars, procVars, Goto, At
<1>10. ASSUME NEW t \in Thread, UpdIndex(t) PROVE HeapInv'
  <2>1. up /\ pc[t] = "upd_index" /\ pc[t] \in Locked
    BY <1>10 DEF UpdIndex, IndexDevice, At, Locked
  <2>2. NoFault /\ \A u \in Thread \ {t} : pc[u] \notin Locked
    BY <1>10, <2>1, Alone DEF UpdIndex, IndexDevice
  <2> QED
    BY <1>10, <2>1, <2>2, PtrAssumption, SMTT(20) DEF NoFault, UpdIndex, IndexDevice, Index, IndexInserts, Present, HeapInv, Knows, NullEntries, Entries, Created, CreatedOnce, Placed, Linked, Erasing, Owns, Creating, Writing, Relinking, Locked, TypeOK, Typed, mutexVars, heapVars, fieldVars, procVars, Goto, At
<1>11. ASSUME NEW t \in Thread, UpdWrite(t) PROVE HeapInv'
  <2>1. up /\ pc[t] = "upd_write" /\ pc[t] \in Locked /\ fault \subseteq {"find_race"} /\ arg[t] \in Addr
    BY <1>11 DEF UpdWrite, At, Locked, HeapInv, Typed
  <2>2. \A u \in Thread \ {t} : pc[u] \notin Locked
    BY <2>1, Alone
  <2>3. CASE obj[t] = NULL
    <3>1. up' = FALSE /\ fault' = fault \cup {"null_deref"}
      BY <1>11, <2>1, <2>3, NullDerefEnds DEF UpdWrite
    <3> QED BY <3>1 DEF HeapInv
  <2>4. CASE obj[t] # NULL
    <3>1. obj[t] \in Ptr /\ m_mapBTDevice[arg[t]] = obj[t]
      BY <2>1, <2>4 DEF HeapInv, Knows, Writing, Typed, TypeOK
    <3>2. ~Erasing(arg[t])
      BY <2>1, <2>2 DEF Erasing, Locked
    <3>3. obj[t] \in live /\ m_addrBth[obj[t]] = arg[t]
      BY <2>1, <3>1, <3>2 DEF HeapInv, Entries, Linked
    <3>4. /\ UNCHANGED <<fault, up, live, m_mapBTDevice, m_addrBth, arg, obj, snap>>
          /\ pc' = [pc EXCEPT ![t] = "upd_release"]
      BY <1>11, <3>3, PtrAssumption
         DEF UpdWrite, Deref, NoFault, procVars, fieldVars, WriteField, Goto, Typed, TypeOK
    <3>5. \A a \in Addr : m_mapBTDevice[a] # NULL
      BY <2>1, <2>2, <2>4 DEF HeapInv, NullEntries, Writing, Locked
    <3> QED
      BY <2>1, <3>4, <3>5 DEF HeapInv, Knows, NullEntries, Entries, Created, CreatedOnce, Placed, Linked, Erasing, Owns, Creating, Writing, Relinking, Locked, TypeOK, Typed, mutexVars, heapVars, fieldVars, procVars, Goto, At
  <2> QED BY <2>3, <2>4
<1>12. ASSUME NEW t \in Thread, UpdRelease(t) PROVE HeapInv'
  BY <1>12, Alone, PtrAssumption, SMTT(20) DEF UpdRelease, ReleaseAndReturn, Return, HeapInv, Knows, NullEntries, Entries, Created, CreatedOnce, Placed, Linked, Erasing, Owns, Creating, Writing, Relinking, Locked, TypeOK, Typed, mutexVars, heapVars, fieldVars, procVars, Goto, At
<1>13. ASSUME NEW t \in Thread, SvcFind(t) PROVE HeapInv'
  <2>1. /\ up /\ fault' \subseteq {"null_deref", "find_race"}
        /\ up' => fault' \subseteq {"find_race"}
    BY <1>13, SearchEnds DEF SvcFind, FindOrReturn, At
  <2> QED
    BY <1>13, <2>1, PtrAssumption, SMTT(20) DEF SvcFind, FindOrReturn, Return, HeapInv, Knows, NullEntries, Entries, Created, CreatedOnce, Placed, Linked, Erasing, Owns, Creating, Writing, Relinking, Locked, TypeOK, Typed, mutexVars, heapVars, fieldVars, Goto, At
<1>14. ASSUME NEW t \in Thread, SvcLock(t) PROVE HeapInv'
  BY <1>14, Alone, PtrAssumption, SMTT(20) DEF SvcLock, Wait, HeapInv, Knows, NullEntries, Entries, Created, CreatedOnce, Placed, Linked, Erasing, Owns, Creating, Writing, Relinking, Locked, TypeOK, Typed, mutexVars, heapVars, fieldVars, procVars, Goto, At
<1>15. ASSUME NEW t \in Thread, SvcIndex(t) PROVE HeapInv'
  <2>1. up /\ pc[t] = "svc_index" /\ pc[t] \in Locked
    BY <1>15 DEF SvcIndex, IndexDevice, At, Locked
  <2>2. NoFault /\ \A u \in Thread \ {t} : pc[u] \notin Locked
    BY <1>15, <2>1, Alone DEF SvcIndex, IndexDevice
  <2> QED
    BY <1>15, <2>1, <2>2, PtrAssumption, SMTT(20) DEF NoFault, SvcIndex, IndexDevice, Index, IndexInserts, Present, HeapInv, Knows, NullEntries, Entries, Created, CreatedOnce, Placed, Linked, Erasing, Owns, Creating, Writing, Relinking, Locked, TypeOK, Typed, mutexVars, heapVars, fieldVars, procVars, Goto, At
<1>16. ASSUME NEW t \in Thread, SvcWrite(t) PROVE HeapInv'
  <2>1. up /\ pc[t] = "svc_write" /\ pc[t] \in Locked /\ fault \subseteq {"find_race"} /\ arg[t] \in Addr
    BY <1>16 DEF SvcWrite, At, Locked, HeapInv, Typed
  <2>2. \A u \in Thread \ {t} : pc[u] \notin Locked
    BY <2>1, Alone
  <2>3. CASE obj[t] = NULL
    <3>1. up' = FALSE /\ fault' = fault \cup {"null_deref"}
      BY <1>16, <2>1, <2>3, NullDerefEnds DEF SvcWrite
    <3> QED BY <3>1 DEF HeapInv
  <2>4. CASE obj[t] # NULL
    <3>1. obj[t] \in Ptr /\ m_mapBTDevice[arg[t]] = obj[t]
      BY <2>1, <2>4 DEF HeapInv, Knows, Writing, Typed, TypeOK
    <3>2. ~Erasing(arg[t])
      BY <2>1, <2>2 DEF Erasing, Locked
    <3>3. obj[t] \in live /\ m_addrBth[obj[t]] = arg[t]
      BY <2>1, <3>1, <3>2 DEF HeapInv, Entries, Linked
    <3>4. /\ UNCHANGED <<fault, up, live, m_mapBTDevice, m_addrBth, arg, obj, snap>>
          /\ pc' = [pc EXCEPT ![t] = "svc_release"]
      BY <1>16, <3>3, PtrAssumption
         DEF SvcWrite, Deref, NoFault, procVars, fieldVars, WriteField, Goto, Typed, TypeOK
    <3>5. \A a \in Addr : m_mapBTDevice[a] # NULL
      BY <2>1, <2>2, <2>4 DEF HeapInv, NullEntries, Writing, Locked
    <3> QED
      BY <2>1, <3>4, <3>5 DEF HeapInv, Knows, NullEntries, Entries, Created, CreatedOnce, Placed, Linked, Erasing, Owns, Creating, Writing, Relinking, Locked, TypeOK, Typed, mutexVars, heapVars, fieldVars, procVars, Goto, At
  <2> QED BY <2>3, <2>4
<1>17. ASSUME NEW t \in Thread, SvcRelease(t) PROVE HeapInv'
  BY <1>17, Alone, PtrAssumption, SMTT(20) DEF SvcRelease, ReleaseAndReturn, Return, HeapInv, Knows, NullEntries, Entries, Created, CreatedOnce, Placed, Linked, Erasing, Owns, Creating, Writing, Relinking, Locked, TypeOK, Typed, mutexVars, heapVars, fieldVars, procVars, Goto, At
<1>18. ASSUME NEW t \in Thread, UnrLock(t) PROVE HeapInv'
  BY <1>18, Alone, PtrAssumption, SMTT(20) DEF UnrLock, Wait, HeapInv, Knows, NullEntries, Entries, Created, CreatedOnce, Placed, Linked, Erasing, Owns, Creating, Writing, Relinking, Locked, TypeOK, Typed, mutexVars, heapVars, fieldVars, procVars, Goto, At
<1>19. ASSUME NEW t \in Thread, UnrCheck(t) PROVE HeapInv'
  <2>1. up /\ pc[t] = "unr_check" /\ pc[t] \in Locked
    BY <1>19 DEF UnrCheck, FindOrReturn, At, Locked
  <2>2. ~Racing(t) /\ FindResults(t, arg[t]) = {Present(arg[t])}
    BY <2>1, Alone
  <2>3. \/ Present(arg[t]) /\ Goto(t, "unr_delete") /\ UNCHANGED <<arg, obj, ret>>
        \/ Return(t, FALSE)
    BY <1>19, <2>2 DEF UnrCheck, FindOrReturn
  <2>4. UNCHANGED <<mutexVars, heapVars, snap, procVars>>
    BY <1>19, <2>1, Alone DEF UnrCheck, FindOrReturn, NoFault
  <2>5. \A u \in Thread \ {t} : pc[u] \notin Locked
    BY <2>1, Alone
  <2>6. arg[t] \in Addr /\ (Present(arg[t]) => m_mapBTDevice[arg[t]] \in Ptr)
    BY <2>1, <2>5 DEF HeapInv, NullEntries, Writing, Present, Locked, Typed, TypeOK, Maps
  <2> QED
    BY <2>1, <2>3, <2>4, <2>5, <2>6 DEF Return, HeapInv, Knows, NullEntries, Entries, Created, CreatedOnce, Placed, Linked, Erasing, Owns, Creating, Writing, Relinking, Locked, TypeOK, Typed, mutexVars, heapVars, fieldVars, procVars, Goto, At
<1>20. ASSUME NEW t \in Thread, UnrDelete(t) PROVE HeapInv'
  <2> DEFINE p == m_mapBTDevice[arg[t]]
  <2>1. up /\ pc[t] = "unr_delete" /\ pc[t] \in Locked
    BY <1>20 DEF UnrDelete, At, Locked
  <2>2. \A u \in Thread \ {t} : pc[u] \notin Locked
    BY <2>1, Alone
  <2>3. \A a \in Addr : ~Erasing(a)
    BY <2>1, <2>2 DEF Erasing, Locked
  <2>4. arg[t] \in Addr /\ p \in Ptr /\ Index(arg[t]) = p
    BY <2>1, PtrAssumption DEF HeapInv, Knows, Typed, Index, Present
  <2>5. Linked(arg[t], p) /\ p \in live /\ m_addrBth[p] = arg[t]
    BY <2>1, <2>3, <2>4 DEF Linked, HeapInv, Entries
  <2>6. /\ live' = live \ {p}
        /\ UNCHANGED <<fault, up, m_mapBTDevice, m_addrBth, arg, obj>>
        /\ pc' = [pc EXCEPT ![t] = "unr_erase"]
        /\ snap' = [snap EXCEPT ![t] = m_mapBTDevice]
    BY <1>20, <2>4, <2>5
       DEF UnrDelete, IndexInserts, Delete, NoFault, Goto, procVars, fieldVars, Typed, TypeOK, Maps
  <2>7. \A a \in Addr : Erasing(a)' <=> a = arg[t]
    BY <2>2, <2>4, <2>6 DEF Erasing, Locked, Typed, TypeOK
  <2>8. \A a \in Addr, q \in Ptr : Linked(a, q)' <=> Linked(a, q) /\ a # arg[t]
    BY <2>3, <2>6, <2>7 DEF Linked
  <2>9. \A u \in Thread : Knows(u)'
    BY <2>1, <2>2, <2>4, <2>6 DEF HeapInv, Knows, Relinking, Writing, Locked, Typed, TypeOK
  <2>10. \A u \in Thread : Created(u)'
    <3>1. SUFFICES ASSUME NEW u \in Thread, pc'[u] \in Creating PROVE Created(u)'
      BY DEF Created
    <3>2. u # t /\ pc[u] \in Creating
      BY <2>6, <3>1 DEF Creating, Typed, TypeOK
    <3>3. /\ obj[u] \in live /\ m_addrBth[obj[u]] = arg[u] /\ obj[u] \in Ptr
          /\ \A a \in Addr : ~Linked(a, obj[u])
      BY <2>1, <3>2 DEF HeapInv, Created, Typed, TypeOK
    <3>4. obj[u] # p
      BY <2>4, <2>5, <3>3
    <3> QED BY <2>6, <2>8, <3>3, <3>4 DEF Created
  <2>11. NullEntries'
    BY <2>1, <2>6 DEF HeapInv, NullEntries, Writing, Typed, TypeOK
  <2>12. Entries'
    <3>1. SUFFICES ASSUME NEW a \in Addr, NEW q \in Ptr, Linked(a, q)'
                   PROVE  q \in live' /\ m_addrBth'[q] = a
      BY DEF Entries
    <3>2. a # arg[t] /\ q \in live /\ m_addrBth[q] = a
      BY <2>1, <2>8, <3>1 DEF HeapInv, Entries
    <3> QED BY <2>5, <2>6, <3>2
  <2>13. CreatedOnce'
    BY <2>1, <2>6 DEF HeapInv, CreatedOnce, Creating, Typed, TypeOK
  <2>14. Placed'
    <3>1. SUFFICES ASSUME NEW q \in live, q # p
                   PROVE  (\E a \in Addr : Linked(a, q)') \/ (\E u \in Thread : Owns(u, q)')
      BY <2>6 DEF Placed
    <3>2. CASE \E a \in Addr : Linked(a, q)
      BY <2>8, <3>1, <3>2 DEF Linked, Typed, TypeOK
    <3>3. CASE \E u \in Thread : Owns(u, q)
      BY <2>1, <2>6, <3>3 DEF Owns, Creating, Typed, TypeOK
    <3> QED BY <2>1, <3>2, <3>3 DEF HeapInv, Placed
  <2> QED BY <2>1, <2>6, <2>9, <2>10, <2>11, <2>12, <2>13, <2>14 DEF HeapInv
<1>21. ASSUME NEW t \in Thread, UnrErase(t) PROVE HeapInv'
  <2>1. up /\ pc[t] = "unr_erase" /\ pc[t] \in Locked /\ arg[t] \in Addr
    BY <1>21 DEF UnrErase, At, Locked, Typed
  <2>2. ~Racing(t) /\ \A u \in Thread \ {t} : pc[u] \notin Locked
    BY <2>1, Alone
  <2>3. snap[t] = m_mapBTDevice
    BY <2>1 DEF HeapInv, Knows, Relinking
  <2>4. /\ m_mapBTDevice' = [m_mapBTDevice EXCEPT ![arg[t]] = Absent]
        /\ UNCHANGED <<fault, up, live, m_addrBth, arg, obj>>
        /\ pc' = [pc EXCEPT ![t] = "unr_release"]
        /\ snap' = [snap EXCEPT ![t] = EmptyMap]
    BY <1>21, <2>2, <2>3 DEF UnrErase, EndRelink, NoFault, Goto, procVars, fieldVars
  <2>5. \A a \in Addr : (Erasing(a) <=> a = arg[t]) /\ ~Erasing(a)'
    BY <2>1, <2>2, <2>4 DEF Erasing, Locked, Typed, TypeOK
  <2>6. \A a \in Addr, p \in Ptr : Linked(a, p)' <=> Linked(a, p)
    BY <2>4, <2>5, PtrAssumption DEF Linked, Typed, TypeOK, Maps
  <2>7. \A u \in Thread : Knows(u)'
    BY <2>1, <2>2, <2>4 DEF HeapInv, Knows, Relinking, Writing, Locked, Typed, TypeOK
  <2>8. \A u \in Thread : Created(u)'
    BY <2>1, <2>4, <2>6 DEF HeapInv, Created, Creating, Typed, TypeOK
  <2>9. NullEntries'
    BY <2>1, <2>4, PtrAssumption DEF HeapInv, NullEntries, Writing, Typed, TypeOK, Maps
  <2>10. Entries'
    BY <2>1, <2>4, <2>6 DEF HeapInv, Entries
  <2>11. CreatedOnce'
    BY <2>1, <2>4 DEF HeapInv, CreatedOnce, Creating, Typed, TypeOK
  <2>12. Placed'
    BY <2>1, <2>4, <2>6 DEF HeapInv, Placed, Owns, Creating, Typed, TypeOK
  <2> QED BY <2>1, <2>4, <2>7, <2>8, <2>9, <2>10, <2>11, <2>12 DEF HeapInv
<1>22. ASSUME NEW t \in Thread, UnrRelease(t) PROVE HeapInv'
  BY <1>22, Alone, PtrAssumption, SMTT(20) DEF UnrRelease, ReleaseAndReturn, Return, HeapInv, Knows, NullEntries, Entries, Created, CreatedOnce, Placed, Linked, Erasing, Owns, Creating, Writing, Relinking, Locked, TypeOK, Typed, mutexVars, heapVars, fieldVars, procVars, Goto, At
<1>23. ASSUME NEW t \in Thread, GcsLock(t) PROVE HeapInv'
  BY <1>23, Alone, PtrAssumption, SMTT(20) DEF GcsLock, Wait, HeapInv, Knows, NullEntries, Entries, Created, CreatedOnce, Placed, Linked, Erasing, Owns, Creating, Writing, Relinking, Locked, TypeOK, Typed, mutexVars, heapVars, fieldVars, procVars, Goto, At
<1>24. ASSUME NEW t \in Thread, GcsFind(t) PROVE HeapInv'
  <2>1. up /\ pc[t] = "gcs_find" /\ pc[t] \in Locked
    BY <1>24 DEF GcsFind, At, Locked
  <2>2. ~Racing(t) /\ FindResults(t, arg[t]) = {Present(arg[t])}
    BY <2>1, Alone
  <2>3. \/ Present(arg[t]) /\ Goto(t, "gcs_deref")
        \/ Goto(t, "gcs_release")
    BY <1>24, <2>2 DEF GcsFind
  <2>4. UNCHANGED <<mutexVars, heapVars, arg, obj, snap, ret, procVars>>
    BY <1>24, <2>1, Alone DEF GcsFind, NoFault
  <2>5. \A u \in Thread \ {t} : pc[u] \notin Locked
    BY <2>1, Alone
  <2>6. arg[t] \in Addr /\ (Present(arg[t]) => m_mapBTDevice[arg[t]] \in Ptr)
    BY <2>1, <2>5 DEF HeapInv, NullEntries, Writing, Present, Locked, Typed, TypeOK, Maps
  <2> QED
    BY <2>1, <2>3, <2>4, <2>5, <2>6 DEF HeapInv, Knows, NullEntries, Entries, Created, CreatedOnce, Placed, Linked, Erasing, Owns, Creating, Writing, Relinking, Locked, TypeOK, Typed, mutexVars, heapVars, fieldVars, procVars, Goto, At
<1>25. ASSUME NEW t \in Thread, GcsDeref(t) PROVE HeapInv'
  <2> DEFINE p == m_mapBTDevice[arg[t]]
  <2>1. up /\ pc[t] = "gcs_deref" /\ pc[t] \in Locked
    BY <1>25 DEF GcsDeref, At, Locked
  <2>2. \A u \in Thread \ {t} : pc[u] \notin Locked
    BY <2>1, Alone
  <2>3. arg[t] \in Addr /\ p \in Ptr /\ Index(arg[t]) = p
    BY <2>1, PtrAssumption DEF HeapInv, Knows, Typed, Index, Present
  <2>4. ~Erasing(arg[t])
    BY <2>1, <2>2 DEF Erasing, Locked
  <2>5. p \in live /\ p # NULL
    BY <2>1, <2>3, <2>4, PtrAssumption DEF Linked, HeapInv, Entries
  <2>6. /\ UNCHANGED <<fault, up, live, m_mapBTDevice, m_addrBth, arg, snap>>
        /\ pc' = [pc EXCEPT ![t] = "gcs_release"]
        /\ obj' = [obj EXCEPT ![t] = p]
    BY <1>25, <2>3, <2>5
       DEF GcsDeref, IndexInserts, Deref, NoFault, Goto, procVars, fieldVars, Typed, TypeOK, Maps
  <2> QED
    BY <2>1, <2>2, <2>6 DEF HeapInv, Knows, NullEntries, Entries, Created, CreatedOnce, Placed, Linked, Erasing, Owns, Creating, Writing, Relinking, Locked, TypeOK, Typed
<1>26. ASSUME NEW t \in Thread, GcsRelease(t) PROVE HeapInv'
  BY <1>26, Alone, PtrAssumption, SMTT(20) DEF GcsRelease, ReleaseAndReturn, Return, HeapInv, Knows, NullEntries, Entries, Created, CreatedOnce, Placed, Linked, Erasing, Owns, Creating, Writing, Relinking, Locked, TypeOK, Typed, mutexVars, heapVars, fieldVars, procVars, Goto, At
<1>27. ASSUME NEW t \in Thread, LstLock(t) PROVE HeapInv'
  BY <1>27, Alone, PtrAssumption, SMTT(20) DEF LstLock, Wait, HeapInv, Knows, NullEntries, Entries, Created, CreatedOnce, Placed, Linked, Erasing, Owns, Creating, Writing, Relinking, Locked, TypeOK, Typed, mutexVars, heapVars, fieldVars, procVars, Goto, At
<1>28. ASSUME NEW t \in Thread, LstWalk(t) PROVE HeapInv'
  <2>1. up /\ pc[t] = "lst_walk" /\ pc[t] \in Locked
    BY <1>28 DEF LstWalk, At, Locked
  <2>2. ~Racing(t) /\ \A u \in Thread \ {t} : pc[u] \notin Locked
    BY <2>1, Alone
  <2>3. \A a \in Addr : ~Erasing(a)
    BY <2>1, <2>2 DEF Erasing, Locked
  <2>4. Registered \subseteq {a \in Addr : m_mapBTDevice[a] \in live}
    BY <2>1, <2>3 DEF Registered, Linked, HeapInv, Entries
  <2>5. /\ UNCHANGED <<fault, up, live, m_mapBTDevice, m_addrBth, arg, obj, snap>>
        /\ pc' = [pc EXCEPT ![t] = "lst_release"]
    BY <1>28, <2>2, <2>4 DEF LstWalk, NoFault, Goto, procVars, heapVars, fieldVars
  <2> QED
    BY <2>1, <2>2, <2>5 DEF HeapInv, Knows, NullEntries, Entries, Created, CreatedOnce, Placed, Linked, Erasing, Owns, Creating, Writing, Relinking, Locked, TypeOK, Typed
<1>29. ASSUME NEW t \in Thread, LstRelease(t) PROVE HeapInv'
  BY <1>29, Alone, PtrAssumption, SMTT(20) DEF LstRelease, ReleaseAndReturn, Return, HeapInv, Knows, NullEntries, Entries, Created, CreatedOnce, Placed, Linked, Erasing, Owns, Creating, Writing, Relinking, Locked, TypeOK, Typed, mutexVars, heapVars, fieldVars, procVars, Goto, At
<1>30. ASSUME NEW t \in Thread, ThreadExit(t) PROVE HeapInv'
  BY <1>30, Alone, PtrAssumption, SMTT(20) DEF ThreadExit, HeapInv, Knows, NullEntries, Entries, Created, CreatedOnce, Placed, Linked, Erasing, Owns, Creating, Writing, Relinking, Locked, TypeOK, Typed, mutexVars, heapVars, fieldVars, procVars, Goto, At
<1>31. CASE Stop \/ UNCHANGED registryVars
  <2>1. UNCHANGED <<fault, up, live, m_mapBTDevice, m_addrBth, pc, arg, obj, snap>>
    BY <1>31 DEF Stop, registryVars, localVars, heapVars, fieldVars, procVars
  <2>2. \A a, p : Linked(a, p)' <=> Linked(a, p)
    BY <2>1 DEF Linked, Erasing
  <2> QED
    BY <2>1, <2>2 DEF HeapInv, Knows, NullEntries, Entries, Created, CreatedOnce, Placed, Owns
<1> QED
  BY <1>1, <1>2, <1>3, <1>4, <1>5, <1>6, <1>7, <1>8, <1>9, <1>10, <1>11, <1>12, <1>13, <1>14, <1>15, <1>16, <1>17, <1>18, <1>19, <1>20, <1>21, <1>22, <1>23, <1>24, <1>25, <1>26, <1>27, <1>28, <1>29, <1>30, <1>31 DEF Next, Step

(***************************************************************************)
(* The three properties, for a manager that has its mutex.                  *)
(***************************************************************************)
LEMMA StartsSound == ManagerInit => HeapInv
BY PtrAssumption
   DEF ManagerInit, HeapInv, Knows, NullEntries, Entries, Created, CreatedOnce, Placed,
       Linked, EmptyMap, Creating, Relinking, Writing

LEMMA InitHeap == RegistryInit => HeapInv
BY StartsSound DEF RegistryInit

LEMMA HeapCorrect == ASSUME HasMutex PROVE Spec => [](Typed /\ HeapInv)
<1>1. RegistryInit => MutualExclusion
  BY DEF RegistryInit, ManagerInit, MutualExclusion, Locked
<1> QED
  BY HasMutex, InitTyped, NextTyped, <1>1, NextExclusive, InitHeap, NextHeap, PTL DEF Spec

\* Whatever the threads call and whenever they end, the entries of the map are
\* allocated devices under their own addresses.
THEOREM MapIsSound == ASSUME HasMutex PROVE Spec => []MapSound
<1>1. HeapInv => MapSound
  BY DEF HeapInv, Entries, MapSound
<1> QED BY HasMutex, HeapCorrect, <1>1, PTL

\* All undefined behaviour is that of the finds made without the mutex: a search
\* beside an erasure, and the NULL dereference of UpdateDevice and
\* UpdateServices.  Behind the waits nothing goes wrong.
THEOREM ErrorsAreOfFinds == ASSUME HasMutex PROVE Spec => []OnlyFindsGoWrong
<1>1. HeapInv => OnlyFindsGoWrong
  BY DEF HeapInv, OnlyFindsGoWrong
<1> QED BY HasMutex, HeapCorrect, <1>1, PTL

\* No device is lost or shared: it is in one entry of the map, or with the one
\* RegisterDevice call that created it.
THEOREM DevicesAccountedFor == ASSUME HasMutex PROVE Spec => []NoDeviceLost
<1>1. Typed /\ HeapInv => NoDeviceLost
  <2> SUFFICES ASSUME Typed, HeapInv, up, NEW p \in live
               PROVE  Cardinality(Places(p)) = 1
    BY DEF NoDeviceLost
  <2>1. p \in Ptr
    BY DEF Typed, TypeOK
  <2>2. \A a \in Addr, b \in Addr : Linked(a, p) /\ Linked(b, p) => a = b
    BY <2>1 DEF HeapInv, Entries
  <2>3. \A t \in Thread, u \in Thread : Owns(t, p) /\ Owns(u, p) => t = u
    BY DEF HeapInv, CreatedOnce, Owns
  <2>4. \A a \in Addr, t \in Thread : ~(Linked(a, p) /\ Owns(t, p))
    BY DEF HeapInv, Created, Owns
  <2>5. \E x : Places(p) = {x}
    <3>1. CASE \E a \in Addr : Linked(a, p)
      <4>1. PICK a \in Addr : Linked(a, p)
        BY <3>1
      <4>2. Places(p) = {a}
        BY <4>1, <2>2, <2>4 DEF Places
      <4> QED BY <4>2
    <3>2. CASE \E t \in Thread : Owns(t, p)
      <4>1. PICK t \in Thread : Owns(t, p)
        BY <3>2
      <4>2. Places(p) = {t}
        BY <4>1, <2>3, <2>4 DEF Places
      <4> QED BY <4>2
    <3> QED BY <3>1, <3>2 DEF HeapInv, Placed
  <2> QED BY <2>5, FS_Singleton
<1> QED BY HasMutex, HeapCorrect, <1>1, PTL

(***************************************************************************)
(* The registry, with its mutex, implements DeviceSet: every step of an     *)
(* operation is a step of the set, or leaves it alone.                      *)
(***************************************************************************)
-----------------------------------------------------------------------------
(* The mapping, when one thread moves.                                      *)

ArgumentOf(a) == IF a = NULL THEN "none" ELSE a

LEMMA Changed ==
    ASSUME NEW S, NEW t \in S, NEW v, NEW f, NEW g,
           f = [u \in S |-> f[u]], g = [u \in S |-> g[u]],
           g[t] = v, \A u \in S \ {t} : g[u] = f[u]
    PROVE  g = [f EXCEPT ![t] = v]
OBVIOUS

LEMMA OneMoves ==
    ASSUME Typed, NEW t \in Thread, NEW l, pc' = [pc EXCEPT ![t] = l],
           \A u \in Thread \ {t} : arg'[u] = arg[u] /\ ret'[u] = ret[u],
           \/ Lost' <=> Lost
           \/ \A u \in Thread \ {t} : pc[u] \notin Fetched
    PROVE  /\ Calls' = [Calls EXCEPT ![t] = CallAt(l)]
           /\ Arguments' = [Arguments EXCEPT ![t] = ArgumentOf(arg'[t])]
           /\ Results' = [Results EXCEPT ![t] = IF Lost' /\ l \in Fetched THEN {}
                                                ELSE ResultAt(l, ret'[t])]
<1>1. pc'[t] = l /\ \A u \in Thread \ {t} : pc'[u] = pc[u]
  BY DEF Typed, TypeOK
<1>2. Calls' = [Calls EXCEPT ![t] = CallAt(l)]
  <2>1. \A u \in Thread : Calls[u] = CallAt(pc[u]) /\ Calls'[u] = CallAt(pc'[u])
    BY Zenon DEF Calls
  <2>2. Calls'[t] = CallAt(l) /\ \A u \in Thread \ {t} : Calls'[u] = Calls[u]
    BY <1>1, <2>1
  <2>3. Calls = [u \in Thread |-> Calls[u]] /\ Calls' = [u \in Thread |-> Calls'[u]]
    BY DEF Calls
  <2> QED
    BY <2>2, <2>3, Changed, Zenon
<1>3. Arguments' = [Arguments EXCEPT ![t] = ArgumentOf(arg'[t])]
  BY DEF Arguments, ArgumentOf
<1>4. Results' = [Results EXCEPT ![t] = IF Lost' /\ l \in Fetched THEN {}
                                        ELSE ResultAt(l, ret'[t])]
  <2>1. \A u \in Thread :
          /\ Results[u] = IF Lost /\ pc[u] \in Fetched THEN {} ELSE ResultAt(pc[u], ret[u])
          /\ Results'[u] = IF Lost' /\ pc'[u] \in Fetched THEN {}
                                                         ELSE ResultAt(pc'[u], ret'[u])
    BY Zenon DEF Results
  <2>2. Results'[t] = IF Lost' /\ l \in Fetched THEN {} ELSE ResultAt(l, ret'[t])
    BY <1>1, <2>1, Zenon
  <2>3. ASSUME NEW u \in Thread \ {t} PROVE Results'[u] = Results[u]
    <3>1. pc'[u] = pc[u] /\ ret'[u] = ret[u]
      BY <1>1
    <3>2. (Lost' /\ pc[u] \in Fetched) <=> (Lost /\ pc[u] \in Fetched)
      OBVIOUS
    <3>3. Results'[u] = IF Lost' /\ pc[u] \in Fetched THEN {} ELSE ResultAt(pc[u], ret[u])
      BY <2>1, <3>1
    <3> QED
      BY <2>1, <3>2, <3>3
  <2>4. Results = [u \in Thread |-> Results[u]] /\ Results' = [u \in Thread |-> Results'[u]]
    BY DEF Results
  <2> QED
    BY <2>2, <2>3, <2>4, Changed, Zenon
<1> QED
  BY <1>2, <1>3, <1>4

LEMMA LostStays ==
    ASSUME Typed, NEW t \in Thread, NEW l, pc' = [pc EXCEPT ![t] = l],
           pc[t] \notin Fetched, l \notin Fetched,
           \A u \in Thread \ {t} : obj'[u] = obj[u]
    PROVE  Lost' <=> Lost
BY DEF Lost, Typed, TypeOK

LEMMA MovesOutside ==
    ASSUME Typed, NEW t \in Thread, NEW l, pc' = [pc EXCEPT ![t] = l],
           pc[t] \notin Fetched, l \notin Fetched,
           \A u \in Thread \ {t} : arg'[u] = arg[u] /\ ret'[u] = ret[u] /\ obj'[u] = obj[u]
    PROVE  /\ Lost' <=> Lost
           /\ Calls' = [Calls EXCEPT ![t] = CallAt(l)]
           /\ Arguments' = [Arguments EXCEPT ![t] = ArgumentOf(arg'[t])]
           /\ Results' = [Results EXCEPT ![t] = ResultAt(l, ret'[t])]
<1>1. \A u \in Thread \ {t} : obj'[u] = obj[u]
  OBVIOUS
<1>2. Lost' <=> Lost
  BY <1>1, LostStays, Zenon
<1>3. \A u \in Thread \ {t} : arg'[u] = arg[u] /\ ret'[u] = ret[u]
  OBVIOUS
<1>4. /\ Calls' = [Calls EXCEPT ![t] = CallAt(l)]
      /\ Arguments' = [Arguments EXCEPT ![t] = ArgumentOf(arg'[t])]
      /\ Results' = [Results EXCEPT ![t] = IF Lost' /\ l \in Fetched THEN {}
                                           ELSE ResultAt(l, ret'[t])]
  BY <1>2, <1>3, OneMoves, Zenon
<1>5. (IF Lost' /\ l \in Fetched THEN {} ELSE ResultAt(l, ret'[t])) = ResultAt(l, ret'[t])
  OBVIOUS
<1> QED
  BY <1>2, <1>4, <1>5, Zenon

LEMMA Mapped ==
    ASSUME Typed, NEW t \in Thread
    PROVE  /\ Calls[t] = CallAt(pc[t]) /\ Arguments[t] = ArgumentOf(arg[t])
           /\ pc[t] \notin Fetched => Results[t] = ResultAt(pc[t], ret[t])
           /\ arg[t] \in Addr => ArgumentOf(arg[t]) = arg[t]
BY AddrAssumption DEF Calls, Arguments, ArgumentOf, Results

-----------------------------------------------------------------------------
(* The kinds of steps.                                                      *)

LEMMA SameCalls ==
    ASSUME Typed, NEW t \in Thread, NEW l, pc' = [pc EXCEPT ![t] = l],
           arg' = arg, ret' = ret, Lost' <=> Lost,
           CallAt(l) = CallAt(pc[t]),
           (IF Lost /\ l \in Fetched THEN {} ELSE ResultAt(l, ret[t])) = Results[t]
    PROVE  UNCHANGED <<Calls, Arguments, Results>>
<1>1. Calls' = [Calls EXCEPT ![t] = CallAt(l)] /\ Calls[t] = CallAt(l)
  BY OneMoves, Mapped, Zenon
<1>2. Calls' = Calls
  BY <1>1 DEF Calls
<1>3. Arguments' = Arguments
  BY DEF Arguments
<1>4. Results' = [Results EXCEPT ![t] = Results[t]]
  <2>1. Results' = [Results EXCEPT ![t] = IF Lost' /\ l \in Fetched THEN {}
                                         ELSE ResultAt(l, ret'[t])]
    BY OneMoves, Zenon
  <2>2. (IF Lost' /\ l \in Fetched THEN {} ELSE ResultAt(l, ret'[t])) = Results[t]
    OBVIOUS
  <2> QED
    BY <2>1, <2>2, Zenon
<1>5. Results' = Results
  BY <1>4 DEF Results
<1> QED
  BY <1>2, <1>3, <1>5

LEMMA Silent ==
    ASSUME Typed, NEW t \in Thread, NEW l, pc' = [pc EXCEPT ![t] = l],
           arg' = arg, ret' = ret, Lost' <=> Lost, up' = up, Registered' = Registered,
           CallAt(l) = CallAt(pc[t]),
           (IF Lost /\ l \in Fetched THEN {} ELSE ResultAt(l, ret[t])) = Results[t]
    PROVE  UNCHANGED DeviceSet!vars
<1>1. UNCHANGED <<Calls, Arguments, Results>>
  BY SameCalls, Zenon
<1>2. Broken' = Broken
  BY DEF Broken
<1> QED
  BY <1>1, <1>2 DEF DeviceSet!vars

\* A search may end the process, beside an unregistration only.
SearchUp(t) == up' = up \/ (up' = FALSE /\ DeviceSet!Endangered(t))

LEMMA ErasersUnregister ==
    ASSUME Typed, NEW t \in Thread, EraseBeside(t), CallAt(pc[t]) \in {"register", "update"}
    PROVE  DeviceSet!Endangered(t)
<1>1. PICK u \in Thread \ {t} : pc[u] = "unr_erase"
  BY DEF EraseBeside
<1>2. Calls[u] = "unregister"
  BY <1>1, Mapped DEF CallAt
<1>3. Calls[t] \in {"register", "update"}
  BY Mapped
<1> QED
  BY <1>2, <1>3 DEF DeviceSet!Endangered

LEMMA SearchingUp ==
    ASSUME Typed, up, NEW t \in Thread, FindFault(t), CallAt(pc[t]) \in {"register", "update"}
    PROVE  SearchUp(t)
<1>1. CASE EraseBeside(t)
  BY <1>1, ErasersUnregister DEF FindFault, Fault, SearchUp
<1>2. CASE ~EraseBeside(t)
  BY <1>2 DEF FindFault, NoFault, procVars, SearchUp
<1> QED
  BY <1>1, <1>2

LEMMA Returns ==
    ASSUME Typed, NEW t \in Thread, NEW r \in BOOLEAN, Return(t, r),
           pc[t] \notin Fetched, CallAt(pc[t]) \notin {"none", "exited"}, SearchUp(t),
           \/ Results[t] = {r} /\ Registered' = Registered
           \/ Results[t] = {} /\ DeviceSet!Effect(t, r)
    PROVE  DeviceSet!Return(t)
<1>1. pc' = [pc EXCEPT ![t] = "idle"] /\ "idle" \notin Fetched
  BY DEF Return, Goto, Fetched
<1>2. /\ arg'[t] = NULL /\ ret'[t] = r
      /\ \A u \in Thread \ {t} : arg'[u] = arg[u] /\ ret'[u] = ret[u] /\ obj'[u] = obj[u]
  BY DEF Return, Typed, TypeOK
<1>3. /\ Lost' <=> Lost
      /\ Calls' = [Calls EXCEPT ![t] = CallAt("idle")]
      /\ Arguments' = [Arguments EXCEPT ![t] = ArgumentOf(arg'[t])]
      /\ Results' = [Results EXCEPT ![t] = ResultAt("idle", ret'[t])]
  BY <1>1, <1>2, MovesOutside, Zenon
<1>4. /\ Calls' = [Calls EXCEPT ![t] = CallAt("idle")]
      /\ Arguments' = [Arguments EXCEPT ![t] = ArgumentOf(NULL)]
      /\ Results' = [Results EXCEPT ![t] = ResultAt("idle", r)]
  BY <1>2, <1>3, Zenon
<1>5. CallAt("idle") = "none" /\ ArgumentOf(NULL) = "none" /\ ResultAt("idle", r) = {r}
  BY DEF CallAt, ArgumentOf, ResultAt
<1>6. Broken' \in IF DeviceSet!Endangered(t) THEN {Broken, TRUE} ELSE {Broken}
  <2>1. Broken' = (Lost \/ ~up')
    BY <1>3 DEF Broken
  <2>2. Lost \in BOOLEAN /\ up \in BOOLEAN
    BY DEF Lost, Typed, TypeOK
  <2>3. CASE up' = up
    BY <2>1, <2>3 DEF Broken
  <2>4. CASE up' = FALSE /\ DeviceSet!Endangered(t)
    <3>1. Broken' = TRUE
      BY <2>1, <2>4
    <3> QED
      BY <2>4, <3>1
  <2> QED
    BY <2>3, <2>4 DEF SearchUp
<1>7. Calls[t] \notin {"none", "exited"}
  BY Mapped
<1>8. CASE Results[t] = {r} /\ Registered' = Registered
  <2>1. Results[t] # {}
    BY <1>8
  <2>2. Results' = Results
    BY <1>4, <1>5, <1>8 DEF Results
  <2> QED
    BY <1>4, <1>5, <1>6, <1>7, <1>8, <2>1, <2>2, Zenon DEF DeviceSet!Return
<1>9. CASE Results[t] = {} /\ DeviceSet!Effect(t, r)
  BY <1>4, <1>5, <1>6, <1>7, <1>9, Zenon DEF DeviceSet!Return
<1> QED
  BY <1>8, <1>9

LEMMA Effects ==
    ASSUME Typed, NEW t \in Thread, NEW r \in BOOLEAN, NEW l, pc' = [pc EXCEPT ![t] = l],
           arg' = arg, ret' = ret, Broken' = Broken,
           (Lost' <=> Lost) \/ \A u \in Thread \ {t} : pc[u] \notin Fetched,
           CallAt(l) = CallAt(pc[t]), Results[t] = {},
           (IF Lost' /\ l \in Fetched THEN {} ELSE ResultAt(l, ret[t])) = {r},
           DeviceSet!Effect(t, r)
    PROVE  DeviceSet!TakeEffect(t)
<1>1. /\ Calls' = [Calls EXCEPT ![t] = CallAt(l)] /\ Calls[t] = CallAt(l)
      /\ Results' = [Results EXCEPT ![t] = {r}]
  <2>1. /\ Calls' = [Calls EXCEPT ![t] = CallAt(l)] /\ Calls[t] = CallAt(pc[t])
        /\ Results' = [Results EXCEPT ![t] = IF Lost' /\ l \in Fetched THEN {}
                                             ELSE ResultAt(l, ret'[t])]
    BY OneMoves, Mapped, Zenon
  <2>2. (IF Lost' /\ l \in Fetched THEN {} ELSE ResultAt(l, ret'[t])) = {r}
    OBVIOUS
  <2> QED
    BY <2>1, <2>2, Zenon
<1>2. Calls' = Calls
  BY <1>1 DEF Calls
<1>3. Arguments' = Arguments
  BY DEF Arguments
<1> QED
  BY <1>1, <1>2, <1>3, Zenon DEF DeviceSet!TakeEffect

\* A step that touches no device of an update, and decides nothing; it may be a
\* search.
LEMMA QuietSearch ==
    ASSUME Typed, NEW t \in Thread, NEW l, Goto(t, l),
           pc[t] \notin Fetched, l \notin Fetched,
           \A u \in Thread \ {t} : obj'[u] = obj[u],
           arg' = arg, ret' = ret, SearchUp(t), Registered' = Registered,
           CallAt(l) = CallAt(pc[t]), ResultAt(l, ret[t]) = ResultAt(pc[t], ret[t])
    PROVE  DeviceSet!Break(t) \/ UNCHANGED DeviceSet!vars
<1>1. pc' = [pc EXCEPT ![t] = l]
  BY DEF Goto
<1>2. Lost' <=> Lost
  BY <1>1, LostStays, Zenon
<1>3. Results[t] = ResultAt(pc[t], ret[t])
  BY Mapped, Zenon
<1>4. (IF Lost /\ l \in Fetched THEN {} ELSE ResultAt(l, ret[t])) = Results[t]
  BY <1>3
<1>5. CASE up' = up
  BY <1>1, <1>2, <1>4, <1>5, Silent, Zenon
<1>6. CASE up' = FALSE /\ DeviceSet!Endangered(t)
  <2>1. UNCHANGED <<Calls, Arguments, Results>>
    BY <1>1, <1>2, <1>4, SameCalls, Zenon
  <2>2. Broken' = TRUE
    BY <1>6 DEF Broken
  <2> QED
    BY <1>6, <2>1, <2>2 DEF DeviceSet!Break
<1> QED
  BY <1>5, <1>6 DEF SearchUp

\* The same without a search.
LEMMA Quiet ==
    ASSUME Typed, NEW t \in Thread, NEW l, Goto(t, l),
           pc[t] \notin Fetched, l \notin Fetched,
           \A u \in Thread \ {t} : obj'[u] = obj[u],
           arg' = arg, ret' = ret, up' = up, Registered' = Registered,
           CallAt(l) = CallAt(pc[t]), ResultAt(l, ret[t]) = ResultAt(pc[t], ret[t])
    PROVE  UNCHANGED DeviceSet!vars
<1>1. pc' = [pc EXCEPT ![t] = l]
  BY DEF Goto
<1>2. Lost' <=> Lost
  BY <1>1, LostStays, Zenon
<1>3. Results[t] = ResultAt(pc[t], ret[t])
  BY Mapped, Zenon
<1>4. (IF Lost /\ l \in Fetched THEN {} ELSE ResultAt(l, ret[t])) = Results[t]
  BY <1>3
<1> QED
  BY <1>1, <1>2, <1>4, Silent, Zenon

\* What each operation may answer.
LEMMA Decides ==
    ASSUME NEW t \in Thread
    PROVE  /\ Calls[t] = "register" /\ Arguments[t] \in Registered
              /\ Registered' = Registered => DeviceSet!Effect(t, FALSE)
           /\ DeviceSet!Endangered(t) /\ Calls[t] = "register"
              /\ Registered' = Registered => DeviceSet!Effect(t, FALSE)
           /\ Calls[t] = "register" /\ Arguments[t] \notin Registered
              /\ Registered' = Registered \cup {Arguments[t]} => DeviceSet!Effect(t, TRUE)
           /\ Calls[t] = "unregister" /\ Arguments[t] \notin Registered
              /\ Registered' = Registered => DeviceSet!Effect(t, FALSE)
           /\ Calls[t] = "unregister" /\ Arguments[t] \in Registered
              /\ Registered' = Registered \ {Arguments[t]} => DeviceSet!Effect(t, TRUE)
           /\ Calls[t] = "update" /\ Arguments[t] \in Registered
              /\ Registered' = Registered => DeviceSet!Effect(t, TRUE)
           /\ Calls[t] = "update"
              /\ (Arguments[t] \notin Registered \/ DeviceSet!Contended(t))
              /\ Registered' = Registered => DeviceSet!Effect(t, FALSE)
           /\ Calls[t] = "query" /\ Registered' = Registered => DeviceSet!Effect(t, FALSE)
           /\ Broken /\ Registered' = Registered =>
                \A r \in BOOLEAN : DeviceSet!Effect(t, r)
BY DEF DeviceSet!Effect

\* An entry is a device's, unless an update is lost.
LEMMA Entry ==
    ASSUME Typed, HeapInv, up, NEW a \in Addr, Present(a)
    PROVE  a \in Registered \/ Broken
BY DEF Typed, TypeOK, Maps, HeapInv, NullEntries, Present, Registered, Broken, Lost,
   Writing, Fetched

-----------------------------------------------------------------------------
(* The steps.                                                               *)

Simulated == [DeviceSet!Next]_(DeviceSet!vars)

LEMMA SetSteps ==
    ASSUME NEW t \in Thread,
           \/ DeviceSet!Invoke(t) \/ DeviceSet!TakeEffect(t) \/ DeviceSet!Return(t)
           \/ DeviceSet!Exit(t) \/ DeviceSet!Break(t) \/ UNCHANGED DeviceSet!vars
    PROVE  Simulated
BY Zenon DEF Simulated, DeviceSet!Next

USE DEF At, mutexVars, heapVars, fieldVars, procVars

LEMMA InvokeSimulated ==
    ASSUME Typed, NEW t \in Thread, Invoke(t)
    PROVE  Simulated
<1>1. PICK l \in Operations, a \in Addr : Call(t, l, a)
  BY Zenon DEF Invoke
<1>2. /\ pc[t] = "idle" /\ pc' = [pc EXCEPT ![t] = l] /\ arg' = [arg EXCEPT ![t] = a]
      /\ ret' = [ret EXCEPT ![t] = FALSE] /\ obj' = obj /\ up' = up
      /\ m_mapBTDevice' = m_mapBTDevice
  BY <1>1 DEF Call, Goto
<1>3. /\ pc[t] \notin Fetched /\ l \notin Fetched
      /\ CallAt(pc[t]) = "none" /\ ResultAt(l, FALSE) = {}
      /\ CallAt(l) \in {"register", "unregister", "update", "query"}
  BY <1>2 DEF Operations, Fetched, CallAt, ResultAt
<1>4. /\ arg'[t] = a /\ ret'[t] = FALSE
      /\ \A u \in Thread \ {t} : arg'[u] = arg[u] /\ ret'[u] = ret[u] /\ obj'[u] = obj[u]
  BY <1>2 DEF Typed, TypeOK
<1>5. /\ Lost' <=> Lost
      /\ Calls' = [Calls EXCEPT ![t] = CallAt(l)]
      /\ Arguments' = [Arguments EXCEPT ![t] = ArgumentOf(arg'[t])]
      /\ Results' = [Results EXCEPT ![t] = ResultAt(l, ret'[t])]
  <2>1. pc' = [pc EXCEPT ![t] = l]
    BY <1>2
  <2> QED
    BY <1>3, <1>4, <2>1, MovesOutside, Zenon
<1>6. ArgumentOf(a) = a
  BY AddrAssumption DEF ArgumentOf
<1>7. /\ Calls[t] = "none"
      /\ Arguments' = [Arguments EXCEPT ![t] = a]
      /\ Results' = [Results EXCEPT ![t] = {}]
  <2>1. Calls[t] = "none"
    BY <1>2, <1>3, Mapped
  <2> QED
    BY <1>3, <1>4, <1>5, <1>6, <2>1, Zenon
<1>8. UNCHANGED <<Registered, Broken>>
  BY <1>2, <1>5 DEF Registered, Broken
<1>9. DeviceSet!Invoke(t)
  BY <1>3, <1>5, <1>7, <1>8, Zenon DEF DeviceSet!Invoke
<1> QED
  BY <1>9, SetSteps, Zenon

LEMMA ExitSimulated ==
    ASSUME Typed, NEW t \in Thread, ThreadExit(t)
    PROVE  Simulated
<1>1. /\ pc[t] = "idle" /\ pc' = [pc EXCEPT ![t] = "exited"]
      /\ ret' = [ret EXCEPT ![t] = FALSE] /\ arg' = arg /\ obj' = obj /\ up' = up
      /\ m_mapBTDevice' = m_mapBTDevice
  BY DEF ThreadExit, Goto
<1>2. /\ pc[t] \notin Fetched /\ "exited" \notin Fetched
      /\ CallAt(pc[t]) = "none" /\ CallAt("exited") = "exited"
      /\ ResultAt("exited", FALSE) = {FALSE}
  BY <1>1 DEF Fetched, CallAt, ResultAt
<1>3. /\ ret'[t] = FALSE
      /\ \A u \in Thread \ {t} : arg'[u] = arg[u] /\ ret'[u] = ret[u] /\ obj'[u] = obj[u]
  BY <1>1 DEF Typed, TypeOK
<1>4. /\ Lost' <=> Lost
      /\ Calls' = [Calls EXCEPT ![t] = CallAt("exited")]
      /\ Results' = [Results EXCEPT ![t] = ResultAt("exited", ret'[t])]
  <2>1. pc' = [pc EXCEPT ![t] = "exited"]
    BY <1>1
  <2> QED
    BY <1>2, <1>3, <2>1, MovesOutside, Zenon
<1>5. /\ Calls' = [Calls EXCEPT ![t] = "exited"] /\ Calls[t] = "none"
      /\ Results' = [Results EXCEPT ![t] = {FALSE}]
  <2>1. Calls[t] = "none"
    BY <1>1, <1>2, Mapped
  <2> QED
    BY <1>2, <1>3, <1>4, <2>1, Zenon
<1>6. UNCHANGED <<Registered, Arguments, Broken>>
  BY <1>1, <1>4 DEF Registered, Arguments, Broken
<1>7. DeviceSet!Exit(t)
  BY <1>5, <1>6, Zenon DEF DeviceSet!Exit
<1> QED
  BY <1>7, SetSteps, Zenon

\* The waits for the mutex, and the steps to a release.
LEMMA WaitSimulated ==
    ASSUME MutualExclusion, Typed, NEW t \in Thread,
           \/ RegLock(t) \/ UpdLock(t) \/ SvcLock(t) \/ UnrLock(t) \/ GcsLock(t)
           \/ LstLock(t) \/ RegRelease(t) \/ GcsFind(t)
    PROVE  Simulated
<1>1. PICK l : /\ Goto(t, l)
               /\ <<pc[t], l>> \in {<<"reg_lock", "reg_check">>, <<"upd_lock", "upd_index">>,
                                   <<"svc_lock", "svc_index">>, <<"unr_lock", "unr_check">>,
                                   <<"gcs_lock", "gcs_find">>, <<"lst_lock", "lst_walk">>,
                                   <<"reg_release", "reg_delete">>,
                                   <<"gcs_find", "gcs_deref">>, <<"gcs_find", "gcs_release">>}
  BY DEF RegLock, UpdLock, SvcLock, UnrLock, GcsLock, LstLock, RegRelease, GcsFind, Wait
<1>2. UNCHANGED <<arg, obj, ret, up, m_mapBTDevice>>
  <2>1. CASE GcsFind(t)
    <3>1. up /\ pc[t] \in Locked
      BY <2>1 DEF GcsFind, Locked
    <3> QED
      BY <2>1, <3>1, Alone DEF GcsFind, NoFault
  <2> QED
    BY <2>1 DEF RegLock, UpdLock, SvcLock, UnrLock, GcsLock, LstLock, RegRelease, Wait
<1>3. /\ pc[t] \notin Fetched /\ l \notin Fetched /\ CallAt(l) = CallAt(pc[t])
      /\ ResultAt(l, ret[t]) = ResultAt(pc[t], ret[t])
  BY <1>1 DEF Fetched, CallAt, ResultAt
<1>4. Registered' = Registered
  BY <1>2 DEF Registered
<1> QED
  BY <1>1, <1>2, <1>3, <1>4, Quiet, SetSteps

\* What the thread that has the mutex to itself finds is there.
LEMMA FoundAlone ==
    ASSUME MutualExclusion, Typed, HeapInv, up, NEW t \in Thread, pc[t] \in Locked \ (Fetched \cup NoAddress)
    PROVE  /\ arg[t] \in Addr /\ Arguments[t] = arg[t]
           /\ FindResults(t, arg[t]) = {Present(arg[t])}
           /\ Present(arg[t]) <=> arg[t] \in Registered
           /\ ~Lost
<1>1. arg[t] \in Addr /\ Arguments[t] = arg[t]
  BY Mapped DEF Typed, Locked
<1>2. /\ FindResults(t, arg[t]) = {Present(arg[t])}
      /\ \A u \in Thread \ {t} : pc[u] \notin Locked
  BY Alone
<1>3. ~Lost
  BY <1>2 DEF Lost, Fetched, Locked
<1>4. Present(arg[t]) => arg[t] \in Registered
  BY <1>1, <1>3, Entry DEF Broken
<1>5. arg[t] \in Registered => Present(arg[t])
  BY PtrAssumption DEF Registered, Present
<1> QED
  BY <1>1, <1>2, <1>3, <1>4, <1>5

LEMMA RegFindSimulated ==
    ASSUME Typed, HeapInv, NEW t \in Thread, RegFind(t)
    PROVE  Simulated
<1>1. /\ up /\ pc[t] = "reg_find" /\ arg[t] \in Addr /\ Arguments[t] = arg[t]
      /\ Registered' = Registered /\ FindFault(t)
  BY Mapped DEF RegFind, Typed, Registered
<1>2. /\ pc[t] \notin Fetched /\ "reg_lock" \notin Fetched
      /\ CallAt(pc[t]) = "register" /\ CallAt("reg_lock") = "register"
      /\ ResultAt(pc[t], ret[t]) = {} /\ ResultAt("reg_lock", ret[t]) = {}
  BY <1>1 DEF Fetched, CallAt, ResultAt
<1>3. SearchUp(t)
  BY <1>1, <1>2, SearchingUp
<1>4. CASE TRUE \in FindResults(t, arg[t]) /\ Return(t, FALSE)
  <2>1. Calls[t] = "register" /\ Results[t] = {}
    BY <1>2, Mapped
  <2>2. DeviceSet!Effect(t, FALSE)
    <3>1. CASE EraseBeside(t)
      BY <1>1, <1>2, <2>1, <3>1, ErasersUnregister, Decides
    <3>2. CASE ~EraseBeside(t)
      <4>1. Present(arg[t])
        BY <1>4, <3>2 DEF FindResults
      <4>2. arg[t] \in Registered \/ Broken
        BY <1>1, <4>1, Entry
      <4> QED
        BY <1>1, <2>1, <4>2, Decides
    <3> QED
      BY <3>1, <3>2
  <2>3. DeviceSet!Return(t)
    BY <1>1, <1>2, <1>3, <1>4, <2>1, <2>2, Returns
  <2> QED
    BY <2>3, SetSteps
<1>5. CASE /\ Goto(t, "reg_lock") /\ UNCHANGED <<arg, ret>>
           /\ \E q \in Ptr : obj' = [obj EXCEPT ![t] = q]
  <2>1. \A u \in Thread \ {t} : obj'[u] = obj[u]
    BY <1>5 DEF Typed, TypeOK
  <2> QED
    BY <1>1, <1>2, <1>3, <1>5, <2>1, QuietSearch, SetSteps
<1>6. PICK found \in FindResults(t, arg[t]) :
        \/ found /\ Return(t, FALSE)
        \/ /\ Goto(t, "reg_lock") /\ UNCHANGED <<arg, ret>>
           /\ \E q \in Ptr : obj' = [obj EXCEPT ![t] = q]
  BY DEF RegFind
<1>7. found \in BOOLEAN
  BY DEF FindResults, Present
<1> QED
  BY <1>4, <1>5, <1>6, <1>7

LEMMA RegCheckSimulated ==
    ASSUME MutualExclusion, Typed, HeapInv, NEW t \in Thread, RegCheck(t)
    PROVE  Simulated
<1>1. up /\ pc[t] = "reg_check" /\ UNCHANGED <<m_mapBTDevice, arg, obj, ret, up>>
  BY Alone DEF RegCheck, Locked, NoFault
<1>2. /\ pc[t] \in Locked \ Fetched
      /\ "reg_insert" \notin Fetched /\ "reg_release" \notin Fetched
      /\ CallAt(pc[t]) = "register" /\ CallAt("reg_insert") = "register"
      /\ CallAt("reg_release") = "register"
      /\ ResultAt(pc[t], ret[t]) = {} /\ ResultAt("reg_insert", ret[t]) = {}
      /\ ResultAt("reg_release", ret[t]) = {FALSE}
  BY <1>1 DEF Locked, Fetched, CallAt, ResultAt
<1>3. /\ Arguments[t] = arg[t] /\ FindResults(t, arg[t]) = {Present(arg[t])}
      /\ Present(arg[t]) <=> arg[t] \in Registered
  BY <1>1, <1>2, FoundAlone
<1>4. Registered' = Registered
  BY <1>1 DEF Registered
<1>5. CASE arg[t] \in Registered /\ Goto(t, "reg_release")
  <2>1. pc' = [pc EXCEPT ![t] = "reg_release"]
    BY <1>5 DEF Goto
  <2>2. Lost' <=> Lost
    BY <1>1, <1>2, <2>1, LostStays
  <2>3. Broken' = Broken
    BY <1>1, <2>2 DEF Broken
  <2>4. Calls[t] = "register" /\ Results[t] = {}
    BY <1>2, Mapped
  <2>5. DeviceSet!Effect(t, FALSE)
    BY <1>3, <1>4, <1>5, <2>4, Decides
  <2>6. (IF Lost' /\ "reg_release" \in Fetched THEN {} ELSE ResultAt("reg_release", ret[t]))
          = {FALSE}
    BY <1>2
  <2>7. DeviceSet!TakeEffect(t)
    BY <1>1, <1>2, <2>1, <2>2, <2>3, <2>4, <2>5, <2>6, Effects
  <2> QED
    BY <2>7, SetSteps
<1>6. CASE Goto(t, "reg_insert")
  BY <1>1, <1>2, <1>4, <1>6, Quiet, SetSteps
<1> QED
  BY <1>3, <1>5, <1>6 DEF RegCheck

LEMMA RegInsertSimulated ==
    ASSUME MutualExclusion, Typed, HeapInv, NEW t \in Thread, RegInsert(t)
    PROVE  Simulated
<1>1. up /\ pc[t] = "reg_insert" /\ Return(t, TRUE) /\ EndRelink(t, arg[t], obj[t])
  BY DEF RegInsert
<1>2. /\ pc[t] \in Locked \ Fetched /\ CallAt(pc[t]) = "register"
      /\ ResultAt(pc[t], ret[t]) = {}
  BY <1>1 DEF Locked, Fetched, CallAt, ResultAt
<1>3. arg[t] \in Addr /\ Arguments[t] = arg[t] /\ ~Racing(t)
  BY <1>1, <1>2, FoundAlone, Alone
<1>4. /\ snap[t] = m_mapBTDevice /\ m_mapBTDevice[arg[t]] = Absent /\ obj[t] \in Ptr
  BY <1>1 DEF HeapInv, Knows, Created, Creating, Relinking, Typed, TypeOK
<1>5. m_mapBTDevice' = [m_mapBTDevice EXCEPT ![arg[t]] = obj[t]] /\ up' = up
  BY <1>1, <1>3, <1>4 DEF EndRelink, NoFault
<1>6. Registered' = Registered \cup {arg[t]} /\ arg[t] \notin Registered
  BY <1>3, <1>4, <1>5, PtrAssumption DEF Registered, Typed, TypeOK, Maps
<1>7. Calls[t] = "register" /\ Results[t] = {}
  BY <1>2, Mapped
<1>8. DeviceSet!Effect(t, TRUE)
  BY <1>3, <1>6, <1>7, Decides
<1>9. DeviceSet!Return(t)
  BY <1>1, <1>2, <1>5, <1>7, <1>8, Returns DEF SearchUp
<1> QED
  BY <1>9, SetSteps

\* A release that returns what has been decided, and the deletion of a device that
\* could not be registered.
LEMMA ReleaseSimulated ==
    ASSUME Typed, HeapInv, NEW t \in Thread,
           \/ RegDelete(t) \/ UpdRelease(t) \/ SvcRelease(t) \/ UnrRelease(t)
    PROVE  Simulated
<1>1. PICK r \in BOOLEAN :
        /\ Return(t, r) /\ m_mapBTDevice' = m_mapBTDevice
        /\ <<pc[t], r>> \in {<<"reg_delete", FALSE>>, <<"upd_release", TRUE>>,
                            <<"svc_release", TRUE>>, <<"unr_release", TRUE>>}
  BY DEF RegDelete, UpdRelease, SvcRelease, UnrRelease, ReleaseAndReturn
<1>2. up' = up
  <2>1. CASE RegDelete(t)
    <3>1. obj[t] \in live
      BY <2>1 DEF RegDelete, HeapInv, Created, Creating
    <3> QED
      BY <2>1, <3>1 DEF RegDelete, Delete, NoFault
  <2> QED
    BY <2>1 DEF UpdRelease, SvcRelease, UnrRelease, ReleaseAndReturn
<1>3. /\ pc[t] \notin Fetched /\ CallAt(pc[t]) \notin {"none", "exited"}
      /\ ResultAt(pc[t], ret[t]) = {r}
  BY <1>1 DEF Fetched, CallAt, ResultAt
<1>4. Results[t] = {r} /\ Registered' = Registered
  BY <1>1, <1>3, Mapped DEF Registered
<1> QED
  BY <1>1, <1>2, <1>3, <1>4, Returns, SetSteps DEF SearchUp

LEMMA QueryReturnSimulated ==
    ASSUME Typed, NEW t \in Thread, GcsRelease(t) \/ LstRelease(t)
    PROVE  Simulated
<1>1. /\ Return(t, FALSE) /\ m_mapBTDevice' = m_mapBTDevice /\ up' = up
      /\ pc[t] \in {"gcs_release", "lst_release"}
  BY DEF GcsRelease, LstRelease, ReleaseAndReturn
<1>2. /\ pc[t] \notin Fetched /\ CallAt(pc[t]) = "query"
      /\ ResultAt(pc[t], ret[t]) = {}
  BY <1>1 DEF Fetched, CallAt, ResultAt
<1>3. Calls[t] = "query" /\ Results[t] = {} /\ Registered' = Registered
  BY <1>1, <1>2, Mapped DEF Registered
<1>4. DeviceSet!Effect(t, FALSE)
  BY <1>3, Decides
<1> QED
  BY <1>1, <1>2, <1>3, <1>4, Returns, SetSteps DEF SearchUp

\* The unlocked searches of the updates.
LEMMA UpdateFindSimulated ==
    ASSUME Typed, NEW t \in Thread, UpdFind(t) \/ SvcFind(t)
    PROVE  Simulated
<1>1. PICK to \in {"upd_lock", "svc_lock"} :
        /\ pc[t] \in {"upd_find", "svc_find"}
        /\ \/ Goto(t, to) /\ UNCHANGED <<arg, obj, ret>>
           \/ FALSE \in FindResults(t, arg[t]) /\ Return(t, FALSE)
        /\ up /\ FindFault(t) /\ m_mapBTDevice' = m_mapBTDevice
  <2>1. PICK from \in {"upd_find", "svc_find"}, to \in {"upd_lock", "svc_lock"} :
          FindOrReturn(t, from, to)
    BY Zenon DEF UpdFind, SvcFind
  <2>2. PICK found \in FindResults(t, arg[t]) :
          IF found THEN Goto(t, to) /\ UNCHANGED <<arg, obj, ret>> ELSE Return(t, FALSE)
    BY <2>1, Zenon DEF FindOrReturn
  <2>3. found \in BOOLEAN
    BY DEF FindResults, Present
  <2>4. /\ pc[t] \in {"upd_find", "svc_find"} /\ m_mapBTDevice' = m_mapBTDevice
        /\ up /\ FindFault(t)
    BY <2>1 DEF FindOrReturn
  <2> QED
    BY <2>2, <2>3, <2>4
<1>2. /\ pc[t] \notin Fetched /\ to \notin Fetched
      /\ CallAt(pc[t]) = "update" /\ CallAt(to) = "update"
      /\ ResultAt(pc[t], ret[t]) = {} /\ ResultAt(to, ret[t]) = {}
  BY <1>1 DEF Fetched, CallAt, ResultAt
<1>3. arg[t] \in Addr /\ Arguments[t] = arg[t] /\ Registered' = Registered
  BY <1>1, Mapped DEF Typed, Registered
<1>4. Calls[t] = "update" /\ Results[t] = {}
  BY <1>2, Mapped
<1>5. SearchUp(t)
  BY <1>1, <1>2, SearchingUp
<1>6. CASE Goto(t, to) /\ UNCHANGED <<arg, obj, ret>>
  BY <1>1, <1>2, <1>3, <1>5, <1>6, QuietSearch, SetSteps
<1>7. CASE FALSE \in FindResults(t, arg[t]) /\ Return(t, FALSE)
  <2>1. Arguments[t] \notin Registered \/ DeviceSet!Contended(t)
    <3>1. CASE Racing(t)
      <4>1. PICK u \in Thread \ {t} : pc[u] \in Relinking
        BY <3>1 DEF Racing
      <4>2. Calls[u] \in {"register", "unregister"}
        BY <4>1, Mapped DEF CallAt, Relinking
      <4> QED
        BY <4>2 DEF DeviceSet!Contended
    <3>2. CASE ~Racing(t)
      <4>1. ~Present(arg[t])
        BY <1>7, <3>2 DEF FindResults, EraseBeside, Racing, Relinking
      <4> QED
        BY <1>3, <4>1, PtrAssumption DEF Present, Registered
    <3> QED
      BY <3>1, <3>2
  <2>2. DeviceSet!Effect(t, FALSE)
    BY <1>3, <1>4, <2>1, Decides
  <2> QED
    BY <1>1, <1>2, <1>4, <1>5, <1>7, <2>2, Returns, SetSteps
<1> QED
  BY <1>1, <1>6, <1>7

LEMMA UnrCheckSimulated ==
    ASSUME MutualExclusion, Typed, HeapInv, NEW t \in Thread, UnrCheck(t)
    PROVE  Simulated
<1>1. up /\ pc[t] = "unr_check" /\ UNCHANGED <<m_mapBTDevice, up>>
  BY Alone DEF UnrCheck, FindOrReturn, Locked, NoFault
<1>2. /\ pc[t] \in Locked \ Fetched /\ "unr_delete" \notin Fetched
      /\ CallAt(pc[t]) = "unregister" /\ CallAt("unr_delete") = "unregister"
      /\ ResultAt(pc[t], ret[t]) = {} /\ ResultAt("unr_delete", ret[t]) = {}
  BY <1>1 DEF Locked, Fetched, CallAt, ResultAt
<1>3. /\ Arguments[t] = arg[t] /\ FindResults(t, arg[t]) = {Present(arg[t])}
      /\ Present(arg[t]) <=> arg[t] \in Registered
  BY <1>1, <1>2, FoundAlone
<1>4. Registered' = Registered
  BY <1>1 DEF Registered
<1>5. CASE Goto(t, "unr_delete") /\ UNCHANGED <<arg, obj, ret>>
  BY <1>1, <1>2, <1>4, <1>5, Quiet, SetSteps
<1>6. CASE arg[t] \notin Registered /\ Return(t, FALSE)
  <2>1. Calls[t] = "unregister" /\ Results[t] = {}
    BY <1>2, Mapped
  <2>2. DeviceSet!Effect(t, FALSE)
    BY <1>3, <1>4, <1>6, <2>1, Decides
  <2> QED
    BY <1>1, <1>2, <1>6, <2>1, <2>2, Returns, SetSteps DEF SearchUp
<1> QED
  BY <1>3, <1>5, <1>6 DEF UnrCheck, FindOrReturn

LEMMA UnrDeleteSimulated ==
    ASSUME MutualExclusion, Typed, HeapInv, NEW t \in Thread, UnrDelete(t)
    PROVE  Simulated
<1>1. up /\ pc[t] = "unr_delete" /\ Goto(t, "unr_erase") /\ UNCHANGED <<arg, obj, ret>>
  BY DEF UnrDelete
<1>2. /\ pc[t] \in Locked \ Fetched /\ "unr_erase" \notin Fetched
      /\ CallAt(pc[t]) = "unregister" /\ CallAt("unr_erase") = "unregister"
      /\ ResultAt(pc[t], ret[t]) = {} /\ ResultAt("unr_erase", ret[t]) = {}
  BY <1>1 DEF Locked, Fetched, CallAt, ResultAt
<1>3. arg[t] \in Addr /\ m_mapBTDevice[arg[t]] \in Ptr
  BY <1>1 DEF HeapInv, Knows, Typed
<1>4. Index(arg[t]) = m_mapBTDevice[arg[t]]
  BY <1>3, PtrAssumption DEF Index, Present
<1>5. Index(arg[t]) \in live
  <2>1. ~Erasing(arg[t])
    BY <1>1, <1>2, Alone DEF Erasing, Locked
  <2> QED
    BY <1>1, <1>3, <1>4, <2>1 DEF HeapInv, Entries, Linked
<1>6. m_mapBTDevice' = m_mapBTDevice /\ up' = up
  BY <1>3, <1>4, <1>5 DEF UnrDelete, IndexInserts, Delete, NoFault, Typed, TypeOK, Maps
<1>7. Registered' = Registered
  BY <1>6 DEF Registered
<1> QED
  BY <1>1, <1>2, <1>6, <1>7, Quiet, SetSteps

LEMMA UnrEraseSimulated ==
    ASSUME MutualExclusion, Typed, HeapInv, NEW t \in Thread, UnrErase(t)
    PROVE  Simulated
<1>1. /\ up /\ pc[t] = "unr_erase" /\ pc' = [pc EXCEPT ![t] = "unr_release"]
      /\ UNCHANGED <<arg, obj, ret>> /\ EndRelink(t, arg[t], Absent)
  BY DEF UnrErase, Goto
<1>2. /\ pc[t] \in Locked \ Fetched /\ "unr_release" \notin Fetched
      /\ CallAt(pc[t]) = "unregister" /\ CallAt("unr_release") = "unregister"
      /\ ResultAt(pc[t], ret[t]) = {} /\ ResultAt("unr_release", ret[t]) = {TRUE}
  BY <1>1 DEF Locked, Fetched, CallAt, ResultAt
<1>3. arg[t] \in Addr /\ Arguments[t] = arg[t] /\ ~Racing(t)
  BY <1>1, <1>2, FoundAlone, Alone
<1>4. snap[t] = m_mapBTDevice /\ m_mapBTDevice[arg[t]] \in Ptr
  BY <1>1 DEF HeapInv, Knows, Relinking
<1>5. m_mapBTDevice' = [m_mapBTDevice EXCEPT ![arg[t]] = Absent] /\ up' = up
  BY <1>1, <1>3, <1>4 DEF EndRelink, NoFault
<1>6. Registered' = Registered \ {arg[t]} /\ arg[t] \in Registered
  BY <1>3, <1>4, <1>5, PtrAssumption DEF Registered, Typed, TypeOK, Maps
<1>7. Lost' <=> Lost
  BY <1>1, <1>2, LostStays
<1>8. Broken' = Broken /\ Calls[t] = "unregister" /\ Results[t] = {}
  BY <1>2, <1>5, <1>7, Mapped DEF Broken
<1>9. DeviceSet!Effect(t, TRUE)
  BY <1>3, <1>6, <1>8, Decides
<1>10. (IF Lost' /\ "unr_release" \in Fetched THEN {} ELSE ResultAt("unr_release", ret[t]))
          = {TRUE}
  BY <1>2
<1>11. DeviceSet!TakeEffect(t)
  BY <1>1, <1>2, <1>7, <1>8, <1>9, <1>10, Effects
<1> QED
  BY <1>11, SetSteps

LEMMA QuerySimulated ==
    ASSUME MutualExclusion, Typed, HeapInv, NEW t \in Thread, GcsDeref(t) \/ LstWalk(t)
    PROVE  Simulated
<1>1. PICK l : /\ up /\ Goto(t, l) /\ UNCHANGED <<arg, ret>>
               /\ <<pc[t], l>> \in {<<"gcs_deref", "gcs_release">>,
                                   <<"lst_walk", "lst_release">>}
               /\ \A u \in Thread \ {t} : obj'[u] = obj[u]
  BY DEF GcsDeref, LstWalk, Typed, TypeOK
<1>2. /\ pc[t] \in Locked \ Fetched /\ l \notin Fetched /\ CallAt(l) = CallAt(pc[t])
      /\ ResultAt(l, ret[t]) = ResultAt(pc[t], ret[t])
  BY <1>1 DEF Locked, Fetched, CallAt, ResultAt
<1>3. /\ \A u \in Thread \ {t} : pc[u] \notin Locked
      /\ ~Racing(t)
  BY <1>1, <1>2, Alone
<1>4. \A a \in Addr : ~Erasing(a)
  BY <1>1, <1>3 DEF Erasing, Locked
<1>5. m_mapBTDevice' = m_mapBTDevice /\ up' = up
  <2>1. CASE GcsDeref(t)
    <3>1. arg[t] \in Addr /\ m_mapBTDevice[arg[t]] \in Ptr
      BY <2>1 DEF GcsDeref, HeapInv, Knows, Typed
    <3>2. Index(arg[t]) = m_mapBTDevice[arg[t]]
      BY <3>1, PtrAssumption DEF Index, Present
    <3>3. Index(arg[t]) \in live
      BY <1>1, <1>4, <3>1, <3>2 DEF HeapInv, Entries, Linked
    <3> QED
      BY <2>1, <3>1, <3>2, <3>3
         DEF GcsDeref, IndexInserts, Deref, NoFault, Typed, TypeOK, Maps
  <2>2. CASE LstWalk(t)
    <3>1. Registered \subseteq {a \in Addr : m_mapBTDevice[a] \in live}
      BY <1>1, <1>4 DEF Registered, Linked, HeapInv, Entries
    <3> QED
      BY <1>3, <2>2, <3>1 DEF LstWalk, NoFault
  <2> QED
    BY <2>1, <2>2
<1>6. Registered' = Registered
  BY <1>5 DEF Registered
<1> QED
  BY <1>1, <1>2, <1>5, <1>6, Quiet, SetSteps

\* pDevice = m_mapBTDevice[deviceAddr]: the update takes effect, or is lost.
LEMMA IndexSimulated ==
    ASSUME MutualExclusion, Typed, HeapInv, NEW t \in Thread, UpdIndex(t) \/ SvcIndex(t)
    PROVE  Simulated
<1>1. PICK l \in Fetched :
        /\ up /\ up' = up /\ pc[t] \in {"upd_index", "svc_index"}
        /\ pc' = [pc EXCEPT ![t] = l] /\ UNCHANGED <<arg, ret>>
        /\ obj' = [obj EXCEPT ![t] = Index(arg[t])] /\ IndexInserts(arg[t])
  <2>1. up /\ pc[t] \in {"upd_index", "svc_index"} /\ FindFault(t)
    BY DEF UpdIndex, SvcIndex, IndexDevice
  <2>2. up' = up
    BY <2>1, Alone DEF Locked, NoFault
  <2> QED
    BY <2>1, <2>2 DEF UpdIndex, SvcIndex, IndexDevice, Goto, Fetched
<1>2. /\ pc[t] \in Locked \ Fetched /\ CallAt(pc[t]) = "update" /\ CallAt(l) = "update"
      /\ ResultAt(pc[t], ret[t]) = {} /\ ResultAt(l, ret[t]) = {TRUE}
  BY <1>1 DEF Locked, Fetched, CallAt, ResultAt
<1>3. /\ arg[t] \in Addr /\ Arguments[t] = arg[t] /\ ~Lost
      /\ Present(arg[t]) <=> arg[t] \in Registered
  BY <1>1, <1>2, FoundAlone
<1>4. \A u \in Thread \ {t} : pc[u] \notin Fetched
  BY <1>1, <1>2, Alone DEF Fetched, Locked
<1>5. Calls[t] = "update" /\ Results[t] = {}
  BY <1>2, Mapped
<1>6. Registered' = Registered
  BY <1>1, <1>3, PtrAssumption
     DEF Registered, IndexInserts, Index, Present, Typed, TypeOK, Maps
<1>7. Lost' <=> Index(arg[t]) = NULL
  BY <1>1, <1>4 DEF Lost, Typed, TypeOK
<1>8. Index(arg[t]) = NULL <=> arg[t] \notin Registered
  BY <1>3, PtrAssumption DEF Index, Registered
<1>9. CASE arg[t] \in Registered
  <2>1. ~Lost' /\ Broken' = Broken
    BY <1>1, <1>3, <1>7, <1>8, <1>9 DEF Broken
  <2>2. DeviceSet!Effect(t, TRUE)
    BY <1>3, <1>5, <1>6, <1>9, Decides
  <2>3. (IF Lost' /\ l \in Fetched THEN {} ELSE ResultAt(l, ret[t])) = {TRUE}
    BY <1>2, <2>1
  <2>4. DeviceSet!TakeEffect(t)
    BY <1>1, <1>2, <1>3, <1>5, <2>1, <2>2, <2>3, Effects
  <2> QED
    BY <2>4, SetSteps
<1>10. CASE arg[t] \notin Registered
  <2>1. Lost' /\ Broken' = TRUE
    BY <1>7, <1>8, <1>10 DEF Broken
  <2>2. /\ Calls' = [Calls EXCEPT ![t] = Calls[t]]
        /\ Results' = [Results EXCEPT ![t] = {}]
    <3>1. /\ Calls' = [Calls EXCEPT ![t] = CallAt(l)]
          /\ Results' = [Results EXCEPT ![t] = IF Lost' /\ l \in Fetched THEN {}
                                               ELSE ResultAt(l, ret'[t])]
      BY <1>1, <1>4, OneMoves
    <3> QED
      BY <1>2, <1>5, <2>1, <3>1
  <2>3. UNCHANGED <<Calls, Arguments, Results>>
    <3>1. Calls' = Calls
      BY <2>2 DEF Calls
    <3>2. Results' = Results
      BY <1>5, <2>2 DEF Results
    <3>3. Arguments' = Arguments
      BY <1>1 DEF Arguments
    <3> QED
      BY <3>1, <3>2, <3>3
  <2>4. DeviceSet!Break(t)
    BY <1>3, <1>5, <1>6, <1>10, <2>1, <2>3 DEF DeviceSet!Break
  <2> QED
    BY <2>4, SetSteps
<1> QED
  BY <1>9, <1>10

\* The device is written to; or there is none, and the process ends.
LEMMA WriteSimulated ==
    ASSUME MutualExclusion, Typed, HeapInv, NEW t \in Thread, UpdWrite(t) \/ SvcWrite(t)
    PROVE  Simulated
<1>1. PICK l \in {"upd_release", "svc_release"} :
        /\ up /\ pc[t] \in Fetched /\ pc' = [pc EXCEPT ![t] = l]
        /\ UNCHANGED <<arg, obj, ret, m_mapBTDevice>> /\ Deref(obj[t])
  BY DEF UpdWrite, SvcWrite, Goto, Fetched
<1>2. /\ pc[t] \in Locked /\ l \notin Fetched
      /\ CallAt(pc[t]) = "update" /\ CallAt(l) = "update"
      /\ ResultAt(pc[t], ret[t]) = {TRUE} /\ ResultAt(l, ret[t]) = {TRUE}
  BY <1>1 DEF Locked, Fetched, CallAt, ResultAt
<1>3. \A u \in Thread \ {t} : pc[u] \notin Locked
  BY <1>1, <1>2, Alone
<1>4. /\ Lost <=> obj[t] = NULL
      /\ ~Lost'
      /\ \A u \in Thread \ {t} : pc[u] \notin Fetched
  BY <1>1, <1>2, <1>3 DEF Lost, Fetched, Locked, Typed, TypeOK
<1>5. Registered' = Registered
  BY <1>1 DEF Registered
<1>6. Results[t] = IF Lost THEN {} ELSE {TRUE}
  BY <1>1, <1>2 DEF Results
<1>7. CASE obj[t] = NULL
  <2>1. up' = FALSE
    BY <1>1, <1>7, NullDerefEnds DEF HeapInv
  <2>2. Broken' = Broken /\ Broken = TRUE
    BY <1>4, <1>7, <2>1 DEF Broken
  <2>3. DeviceSet!Effect(t, TRUE)
    BY <1>5, <2>2, Decides
  <2>4. (IF Lost' /\ l \in Fetched THEN {} ELSE ResultAt(l, ret[t])) = {TRUE}
    BY <1>2
  <2>5. Results[t] = {}
    BY <1>4, <1>6, <1>7
  <2>6. DeviceSet!TakeEffect(t)
    BY <1>1, <1>2, <1>4, <2>2, <2>3, <2>4, <2>5, Effects
  <2> QED
    BY <2>6, SetSteps
<1>8. CASE obj[t] # NULL
  <2>1. arg[t] \in Addr /\ m_mapBTDevice[arg[t]] = obj[t] /\ obj[t] \in Ptr
    BY <1>1, <1>8 DEF HeapInv, Knows, Writing, Fetched, Typed, TypeOK
  <2>2. ~Erasing(arg[t])
    BY <1>1, <1>3 DEF Erasing, Locked, Fetched
  <2>3. obj[t] \in live
    BY <1>1, <2>1, <2>2 DEF HeapInv, Entries, Linked
  <2>4. up' = up
    BY <1>1, <2>3 DEF Deref, NoFault
  <2>5. Lost' <=> Lost
    BY <1>4, <1>8
  <2>6. (IF Lost /\ l \in Fetched THEN {} ELSE ResultAt(l, ret[t])) = Results[t]
    BY <1>2, <1>4, <1>6, <1>8
  <2> QED
    BY <1>1, <1>2, <1>5, <2>4, <2>5, <2>6, Silent, SetSteps
<1> QED
  BY <1>7, <1>8

-----------------------------------------------------------------------------
(* The theorem.                                                             *)

LEMMA RegistryStarts == ASSUME RegistryInit PROVE DeviceSet!Init
<1>1. /\ \A t \in Thread : pc[t] = "idle" /\ arg[t] = NULL /\ ret[t] = FALSE
      /\ up /\ m_mapBTDevice = EmptyMap
  BY DEF RegistryInit, ManagerInit
<1>2. Registered = {}
  BY <1>1, PtrAssumption DEF Registered, EmptyMap
<1>3. ~Lost /\ Broken = FALSE
  BY <1>1 DEF Lost, Fetched, Broken
<1>4. CallAt("idle") = "none" /\ ResultAt("idle", FALSE) = {FALSE}
  BY DEF CallAt, ResultAt
<1>5. /\ Calls = [t \in Thread |-> "none"] /\ Arguments = [t \in Thread |-> "none"]
      /\ Results = [t \in Thread |-> {FALSE}]
  BY <1>1, <1>3, <1>4 DEF Calls, Arguments, Results
<1> QED
  BY <1>2, <1>3, <1>5 DEF DeviceSet!Init

LEMMA RegistrySteps ==
    ASSUME MutualExclusion, Typed, HeapInv, [Next]_registryVars
    PROVE  Simulated
<1>1. ASSUME NEW t \in Thread, Invoke(t) \/ Step(t) \/ ThreadExit(t) PROVE Simulated
  BY <1>1, InvokeSimulated, ExitSimulated, WaitSimulated, RegFindSimulated,
     RegCheckSimulated, RegInsertSimulated, ReleaseSimulated, QueryReturnSimulated,
     UpdateFindSimulated, UnrCheckSimulated, UnrDeleteSimulated, UnrEraseSimulated,
     QuerySimulated, IndexSimulated, WriteSimulated, Zenon DEF Step
<1>2. CASE Stop \/ UNCHANGED registryVars
  <2>1. UNCHANGED <<pc, arg, ret, obj, m_mapBTDevice, up>>
    BY <1>2 DEF Stop, registryVars, localVars
  <2>2. UNCHANGED <<Registered, Calls, Arguments, Results, Broken>>
    BY <2>1 DEF Registered, Calls, Arguments, Results, Broken, Lost
  <2> QED
    BY <2>2 DEF Simulated, DeviceSet!vars
<1> QED
  BY <1>1, <1>2, Zenon DEF Next

\* With its mutex, the manager implements the set its callers may rely on: whatever
\* any number of threads call, each operation on each address takes effect at one instant
\* between its call and its return (BTDeviceManager.cpp:216-238, 254-297).
THEOREM ImplementsSet == ASSUME HasMutex PROVE Spec => ImplementsDeviceSet
<1>1. RegistryInit => MutualExclusion
  BY DEF RegistryInit, ManagerInit, MutualExclusion, Locked
<1>2. MutualExclusion /\ Typed /\ HeapInv /\ [Next]_registryVars =>
        [DeviceSet!Next]_(DeviceSet!vars)
  BY RegistrySteps DEF Simulated
<1> QED
  BY HasMutex, InitTyped, NextTyped, <1>1, NextExclusive, InitHeap, NextHeap,
     RegistryStarts, <1>2, PTL DEF Spec, ImplementsDeviceSet, DeviceSet!Spec

=============================================================================
