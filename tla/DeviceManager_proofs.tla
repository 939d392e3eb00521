------------------------ MODULE DeviceManager_proofs ------------------------
(***************************************************************************)
(* Proofs about the running monitor, for every set of addresses, cells and  *)
(* handlers, with and without the mutex, and however many faults it         *)
(* survives: its types, that no connected device is un-paired, and, until   *)
(* the first fault, what devices know of handlers and how many handlers are *)
(* left without one.                                                        *)
(***************************************************************************)
EXTENDS DeviceManager, DeviceRegistry_proofs, WellFoundedInduction

USE DEF NoAddress

-----------------------------------------------------------------------------
(* Where pointers come from.  UnregisterDevice(pDevice) takes an address     *)
(* from a cell, which may be freed by then: it is one all the same, since    *)
(* every pointer anywhere is to a cell a CBTDevice has been constructed in.  *)

Born(p) == m_addrBth[p] \in Addr
BornCell(p) == p \in Ptr => Born(p)

Origins == /\ \A p \in live : Born(p)
           /\ \A a \in Addr : BornCell(m_mapBTDevice[a])
           /\ \A t \in Thread, a \in Addr : BornCell(snap[t][a])
           /\ \A t \in Thread : BornCell(obj[t])

\* What was constructed once has had an address ever since.
BornOnce == \A p \in Ptr : Born(p) => Born(p)'

LEMMA SamePointers ==
    ASSUME Typed, Origins, UNCHANGED <<m_mapBTDevice, m_addrBth, snap>>, live' \subseteq live,
           \A t \in Thread : obj'[t] \in {obj[t], NULL}
    PROVE  BornOnce /\ Origins'
BY PtrAssumption DEF BornOnce, Origins, Born, BornCell, Typed, TypeOK

LEMMA CellWritten ==
    ASSUME Typed, Origins, NEW p \in Ptr, NEW a \in Addr,
           m_addrBth' = [m_addrBth EXCEPT ![p] = a],
           UNCHANGED <<m_mapBTDevice, snap>>, live' \subseteq live \cup {p},
           \A t \in Thread : obj'[t] \in {obj[t], p}
    PROVE  BornOnce /\ Origins'
<1>1. \A q \in Ptr : Born(q) \/ q = p => Born(q)'
  BY DEF Born, Typed, TypeOK
<1> QED
  BY <1>1 DEF BornOnce, Origins, BornCell, Typed, TypeOK

LEMMA Relinked ==
    ASSUME Typed, Origins, NEW t \in Thread, NEW a \in Addr, UNCHANGED m_addrBth,
           NEW v \in Ptr \cup {NULL, Absent}, BornCell(v), EndRelink(t, a, v), live' = live,
           \A u \in Thread : obj'[u] \in {obj[u], NULL}
    PROVE  BornOnce /\ Origins'
<1>1. PICK base \in {m_mapBTDevice, snap[t]} : m_mapBTDevice' = [base EXCEPT ![a] = v]
  BY DEF EndRelink
<1>2. \A b \in Addr : BornCell(base[b])
  BY <1>1 DEF Origins
<1>3. base \in Maps
  BY <1>1 DEF Typed, TypeOK
<1>4. \A b \in Addr : BornCell(m_mapBTDevice'[b])
  BY <1>1, <1>2, <1>3 DEF Maps
<1>5. \A u \in Thread, b \in Addr : BornCell(snap'[u][b])
  <2>1. snap' = [snap EXCEPT ![t] = EmptyMap]
    BY DEF EndRelink
  <2> QED
    BY <2>1, PtrAssumption DEF Origins, BornCell, EmptyMap, Typed, TypeOK
<1> QED
  BY <1>4, <1>5, PtrAssumption DEF BornOnce, Origins, Born, BornCell, Typed, TypeOK

LEMMA Indexed ==
    ASSUME Typed, Origins, NEW a \in Addr, IndexInserts(a), UNCHANGED m_addrBth,
           live' \subseteq live,
           \A t \in Thread : obj'[t] \in {obj[t], Index(a)},
           \A t \in Thread : snap'[t] \in {snap[t], m_mapBTDevice'}
    PROVE  BornOnce /\ Origins'
<1>1. BornCell(Index(a))
  BY PtrAssumption DEF Index, Origins, BornCell
<1>2. \A b \in Addr : m_mapBTDevice'[b] \in {m_mapBTDevice[b], Index(a)}
  BY DEF IndexInserts, Typed, TypeOK, Maps
<1>3. \A b \in Addr : BornCell(m_mapBTDevice'[b])
  BY <1>1, <1>2 DEF Origins, BornCell
<1> QED
  BY <1>1, <1>3 DEF BornOnce, Origins, Born, BornCell, Typed, TypeOK

LEMMA StepOrigins ==
    ASSUME Typed, Origins, NEW t \in Thread, Step(t) \/ UnpFind(t) \/ UnpCall(t)
    PROVE  BornOnce /\ Origins'
<1> USE DEF At
<1>0. obj \in [Thread -> Ptr \cup {NULL}] /\ snap \in [Thread -> Maps]
  BY DEF Typed, TypeOK
<1>1. ASSUME \/ RegLock(t) \/ UpdLock(t) \/ SvcLock(t) \/ UnrLock(t) \/ GcsLock(t) \/ LstLock(t)
             \/ RegRelease(t) \/ GcsFind(t) \/ LstWalk(t) \/ UnpCall(t)
      PROVE  BornOnce /\ Origins'
  <2>1. UNCHANGED <<m_mapBTDevice, m_addrBth, snap, live, obj>>
    BY <1>1 DEF RegLock, UpdLock, SvcLock, UnrLock, GcsLock, LstLock, Wait, RegRelease, GcsFind,
                LstWalk, UnpCall, heapVars, fieldVars
  <2> QED
    BY <2>1, SamePointers
<1>2. ASSUME \/ UpdFind(t) \/ SvcFind(t) \/ UnrCheck(t) \/ UpdRelease(t) \/ SvcRelease(t)
             \/ UnrRelease(t) \/ GcsRelease(t) \/ LstRelease(t) \/ RegDelete(t) \/ UnpFind(t)
      PROVE  BornOnce /\ Origins'
  <2>1. UNCHANGED <<m_mapBTDevice, m_addrBth, snap>> /\ live' \subseteq live
    BY <1>2 DEF UpdFind, SvcFind, UnrCheck, FindOrReturn, UpdRelease, SvcRelease, UnrRelease,
                GcsRelease, LstRelease, ReleaseAndReturn, RegDelete, Delete, UnpFind, heapVars,
                fieldVars
  <2>2. obj' = obj \/ obj' = [obj EXCEPT ![t] = NULL]
    BY <1>2 DEF UpdFind, SvcFind, UnrCheck, FindOrReturn, UpdRelease, SvcRelease, UnrRelease,
                GcsRelease, LstRelease, ReleaseAndReturn, RegDelete, UnpFind, Return
  <2>3. \A u \in Thread : obj'[u] \in {obj[u], NULL}
    BY <1>0, <2>2
  <2> QED
    BY <2>1, <2>3, SamePointers
<1>3. ASSUME RegCheck(t) PROVE BornOnce /\ Origins'
  <2>1. UNCHANGED <<m_mapBTDevice, m_addrBth, live, obj>>
    BY <1>3 DEF RegCheck, heapVars, fieldVars
  <2>2. snap' = snap \/ snap' = [snap EXCEPT ![t] = m_mapBTDevice]
    BY <1>3 DEF RegCheck, BeginRelink
  <2>3. \A u \in Thread : snap'[u] = snap[u] \/ snap'[u] = m_mapBTDevice
    BY <1>0, <2>2
  <2> QED
    BY <2>1, <2>3 DEF BornOnce, Origins, Born, BornCell
<1>4. ASSUME RegFind(t) PROVE BornOnce /\ Origins'
  <2>1. CASE Return(t, FALSE) /\ UNCHANGED <<live, fieldVars>>
    <3>1. UNCHANGED <<m_mapBTDevice, m_addrBth, snap, live>>
          /\ \A u \in Thread : obj'[u] \in {obj[u], NULL}
      BY <1>0, <1>4, <2>1 DEF RegFind, Return, fieldVars
    <3> QED
      BY <3>1, SamePointers
  <2>2. ASSUME NEW p \in Ptr \ live, live' = live \cup {p},
               m_addrBth' = [m_addrBth EXCEPT ![p] = arg[t]],
               obj' = [obj EXCEPT ![t] = p]
        PROVE  BornOnce /\ Origins'
    <3>1. arg[t] \in Addr /\ UNCHANGED <<m_mapBTDevice, snap>>
      BY <1>4 DEF RegFind, Typed
    <3>2. \A u \in Thread : obj'[u] \in {obj[u], p}
      BY <1>0, <2>2
    <3> QED
      BY <2>2, <3>1, <3>2, CellWritten
  <2> QED
    BY <1>4, <2>1, <2>2 DEF RegFind
<1>5. ASSUME RegInsert(t) PROVE BornOnce /\ Origins'
  <2>1. /\ arg[t] \in Addr /\ obj[t] \in Ptr \cup {NULL, Absent} /\ BornCell(obj[t])
        /\ UNCHANGED m_addrBth /\ live' = live /\ EndRelink(t, arg[t], obj[t])
    BY <1>0, <1>5 DEF RegInsert, fieldVars, Typed, Origins
  <2>2. \A u \in Thread : obj'[u] \in {obj[u], NULL}
    BY <1>0, <1>5 DEF RegInsert, Return
  <2> QED
    BY <2>1, <2>2, Relinked
<1>6. ASSUME UnrErase(t) PROVE BornOnce /\ Origins'
  <2>1. /\ arg[t] \in Addr /\ BornCell(Absent) /\ UNCHANGED <<m_addrBth, obj>>
        /\ live' = live /\ EndRelink(t, arg[t], Absent)
    BY <1>6, PtrAssumption DEF UnrErase, fieldVars, Typed, BornCell
  <2> QED
    BY <2>1, Relinked
<1>7. ASSUME UpdIndex(t) \/ SvcIndex(t) \/ GcsDeref(t) PROVE BornOnce /\ Origins'
  <2>1. /\ arg[t] \in Addr /\ IndexInserts(arg[t]) /\ UNCHANGED <<m_addrBth, live, snap>>
        /\ obj' = [obj EXCEPT ![t] = Index(arg[t])]
    BY <1>7 DEF UpdIndex, SvcIndex, IndexDevice, GcsDeref, fieldVars, Typed
  <2>2. \A u \in Thread : obj'[u] \in {obj[u], Index(arg[t])}
    BY <1>0, <2>1
  <2> QED
    BY <2>1, <2>2, Indexed
<1>8. ASSUME UnrDelete(t) PROVE BornOnce /\ Origins'
  <2>1. /\ arg[t] \in Addr /\ IndexInserts(arg[t]) /\ UNCHANGED <<m_addrBth, obj>>
        /\ live' \subseteq live /\ snap' = [snap EXCEPT ![t] = m_mapBTDevice']
    BY <1>8 DEF UnrDelete, Delete, fieldVars, Typed
  <2>2. \A u \in Thread : snap'[u] \in {snap[u], m_mapBTDevice'}
    BY <1>0, <2>1
  <2> QED
    BY <2>1, <2>2, Indexed
<1>9. ASSUME UpdWrite(t) PROVE BornOnce /\ Origins'
  <2>1. /\ arg[t] \in Addr /\ UNCHANGED <<m_mapBTDevice, snap, live, obj>>
        /\ WriteField(t, m_addrBth, arg[t])
    BY <1>9 DEF UpdWrite, Typed
  <2>2. CASE obj[t] = NULL
    BY <2>1, <2>2, SamePointers DEF WriteField
  <2>3. CASE obj[t] # NULL
    <3>1. obj[t] \in Ptr /\ m_addrBth' = [m_addrBth EXCEPT ![obj[t]] = arg[t]]
      BY <1>0, <2>1, <2>3 DEF WriteField
    <3> QED
      BY <2>1, <3>1, CellWritten
  <2> QED
    BY <2>2, <2>3
<1>10. ASSUME SvcWrite(t) PROVE BornOnce /\ Origins'
  BY <1>10, SamePointers DEF SvcWrite
<1> QED
  BY <1>1, <1>2, <1>3, <1>4, <1>5, <1>6, <1>7, <1>8, <1>9, <1>10 DEF Step
-----------------------------------------------------------------------------
(* Types.                                                                   *)

DetSteps == {"inquiry", "registered", "updated", "connected?", "connecting?", "removed"}
MgrSteps == {"sleeping", "walk", "visit", "connect", "print", "reap", "forget", "advance"}

\* The manager handles a device, or has yet to erase one, that was constructed.
Handling == {"visit", "connect", "print", "reap", "forget"}
Passing ==
    /\ dpc \in DetSteps /\ mpc \in MgrSteps
    /\ mpc \in Handling => pDev \in Ptr
    /\ BornCell(pDev)
    /\ \A i \in 1 .. Len(eraseList) : Born(eraseList[i])
    /\ pc[Mgr] \in {"unp_find", "unp_call"} => obj[Mgr] \in Ptr

TypesInv == MonitorTypeOK /\ Typed /\ Origins /\ Passing

LEMMA ActorsThreads == Det \in Thread /\ Mgr \in Thread
BY ActorsAssumption

LEMMA Least ==
    ASSUME NEW S \in SUBSET Nat, S # {}
    PROVE  \E x \in S : \A y \in S : x <= y
<1> DEFINE R == {ss \in Nat \X Nat : ss[1] < ss[2]}
<1>1. IsWellFoundedOn(R, Nat)
  BY NatLessThanWellFounded DEF OpToRel
<1>2. PICK x \in S : \A y \in S : ~(<<y, x>> \in R)
  <2> HIDE DEF R
  <2> QED
    BY <1>1, WFMin
<1>3. ASSUME NEW y \in S PROVE x <= y
  <2>1. x \in Nat /\ y \in Nat
    OBVIOUS
  <2>2. ~(y < x)
    BY <1>2, <2>1
  <2> QED
    BY <2>1, <2>2
<1> QED
  BY <1>3

\* The iterator stands at a key of the map behind the last one, or at the end.
LEMMA NextKeyTyped ==
    ASSUME NEW k
    PROVE  /\ NextKey(k) \in Addr \cup {0}
           /\ NextKey(k) # 0 => NextKey(k) \in KeysAfter(k)
<1>1. CASE KeysAfter(k) = {}
  BY <1>1 DEF NextKey
<1>2. CASE KeysAfter(k) # {}
  <2>1. KeysAfter(k) \in SUBSET Nat /\ KeysAfter(k) \subseteq Addr
    BY KeysAssumption DEF KeysAfter
  <2>2. \E a \in KeysAfter(k) : \A b \in KeysAfter(k) : a <= b
    BY <1>2, <2>1, Least
  <2>3. NextKey(k) \in KeysAfter(k)
    BY <1>2, <2>2 DEF NextKey
  <2> QED
    BY <2>1, <2>3
<1> QED
  BY <1>1, <1>2

\* A step that leaves the registry's map, cells and calls alone.
LEMMA RegistryKept ==
    ASSUME Typed, Origins, UNCHANGED <<heapVars, localVars>>,
           MutexTypeOK', owner' # NoThread => depth' > 0,
           fault' \subseteq Faults, up' \in BOOLEAN
    PROVE  Typed' /\ Origins'
<1>1. Typed'
  BY DEF Typed, TypeOK, heapVars, fieldVars, localVars
<1>2. Origins'
  BY SamePointers DEF heapVars, fieldVars, localVars
<1> QED
  BY <1>1, <1>2

LEMMA ProcessKept ==
    ASSUME Typed, Origins, UNCHANGED <<mutexVars, heapVars, localVars>>,
           \/ NoFault
           \/ \E k \in Faults : Fault(k)
    PROVE  Typed' /\ Origins'
<1>1. fault' \subseteq Faults /\ up' \in BOOLEAN
  <2>1. ASSUME NEW k \in Faults, Fault(k) PROVE fault' \subseteq Faults /\ up' \in BOOLEAN
    BY <2>1, FaultTyped
  <2>2. CASE NoFault
    BY <2>2 DEF NoFault, procVars, Typed, TypeOK
  <2> QED
    BY <2>1, <2>2
<1>2. MutexTypeOK' /\ (owner' # NoThread => depth' > 0)
  BY DEF Typed, TypeOK, MutexTypeOK, mutexVars
<1> QED
  BY <1>1, <1>2, RegistryKept

LEMMA DerefFaults == ASSUME NEW p, Deref(p) PROVE NoFault \/ \E k \in Faults : Fault(k)
BY DEF Deref, Faults

LEMMA FindFaults == ASSUME NEW t, FindFault(t) PROVE NoFault \/ \E k \in Faults : Fault(k)
BY DEF FindFault, Faults

LEMMA AskFaults == ASSUME NEW h, AskHandler(h) PROVE NoFault \/ \E k \in Faults : Fault(k)
BY DEF AskHandler, Faults

\* UnregisterDevice(pDevice), up to the call of UnregisterDevice(deviceAddr).
LEMMA UnpTyped ==
    ASSUME Typed, Origins, UnpFind(Mgr) \/ UnpCall(Mgr), obj[Mgr] \in Ptr
    PROVE  Typed' /\ Origins' /\ BornOnce
<1>0. Mgr \in Thread /\ BornOnce /\ Origins'
  BY ActorsThreads, StepOrigins
<1>1. fault' \subseteq Faults /\ up' \in BOOLEAN
  BY DerefTyped, FindFaultTyped DEF UnpFind, UnpCall
<1>2. m_addrBth[obj[Mgr]] \in Addr
  BY <1>0 DEF Origins, BornCell, Born
<1>3. UNCHANGED <<mutexVars, heapVars, snap>>
  BY DEF UnpFind, UnpCall
<1>4. CASE UnpFind(Mgr)
  <2>1. \/ Goto(Mgr, "unp_call") /\ UNCHANGED <<arg, obj, ret>>
        \/ Return(Mgr, FALSE)
    BY <1>4 DEF UnpFind
  <2>2. "unp_call" \in PcLabels /\ "idle" \in PcLabels
    BY DEF PcLabels
  <2>3. Typed'
    BY <1>0, <1>1, <1>3, <2>1, <2>2
       DEF Goto, Return, Typed, TypeOK, MutexTypeOK, mutexVars, heapVars, fieldVars
  <2> QED
    BY <1>0, <2>3
<1>5. CASE UnpCall(Mgr)
  <2>1. /\ arg' = [arg EXCEPT ![Mgr] = m_addrBth[obj[Mgr]]] /\ UNCHANGED <<obj, ret>>
        /\ pc' = [pc EXCEPT ![Mgr] = "unr_lock"] /\ "unr_lock" \in PcLabels
    BY <1>5 DEF UnpCall, Goto, PcLabels
  <2>2. Typed'
    BY <1>0, <1>1, <1>2, <1>3, <2>1
       DEF Typed, TypeOK, MutexTypeOK, mutexVars, heapVars, fieldVars
  <2> QED
    BY <1>0, <2>2
<1> QED
  BY <1>4, <1>5

-----------------------------------------------------------------------------
(* The detector keeps the types.                                            *)

\* What the detector's steps leave alone of the manager.
LEMMA PassingKept ==
    ASSUME TypesInv, Origins', BornOnce, UNCHANGED mgrVars, dpc' \in DetSteps,
           pc'[Mgr] = pc[Mgr], obj'[Mgr] = obj[Mgr]
    PROVE  Passing'
<1>1. pDev \in Ptr \cup {NULL} /\ eraseList \in Seq(Ptr)
  BY DEF TypesInv, MonitorTypeOK
<1>2. \A i \in 1 .. Len(eraseList) : Born(eraseList[i])'
  BY <1>1 DEF TypesInv, Passing, BornOnce, mgrVars
<1>3. BornCell(pDev)'
  BY DEF TypesInv, Passing, BornOnce, BornCell, mgrVars
<1> QED
  BY <1>2, <1>3 DEF TypesInv, Passing, mgrVars

LEMMA OthersPc ==
    ASSUME Typed, NEW t \in Thread, NEW u \in Thread, u # t, Step(t)
    PROVE  pc'[u] = pc[u] /\ obj'[u] = obj[u] /\ arg'[u] = arg[u]
<1>1. /\ \E l : pc' = [pc EXCEPT ![t] = l]
      /\ obj' = obj \/ \E p : obj' = [obj EXCEPT ![t] = p]
      /\ arg' = arg \/ \E a : arg' = [arg EXCEPT ![t] = a]
  <2> USE DEF Goto, Return
  <2>1. ASSUME \/ RegLock(t) \/ UpdLock(t) \/ SvcLock(t) \/ UnrLock(t) \/ GcsLock(t) \/ LstLock(t)
        PROVE  <1>1!:
    BY <2>1 DEF RegLock, UpdLock, SvcLock, UnrLock, GcsLock, LstLock, Wait
  <2>2. ASSUME \/ UpdFind(t) \/ SvcFind(t) \/ UnrCheck(t) \/ UpdRelease(t) \/ SvcRelease(t)
               \/ UnrRelease(t) \/ GcsRelease(t) \/ LstRelease(t)
        PROVE  <1>1!:
    BY <2>2 DEF UpdFind, SvcFind, UnrCheck, FindOrReturn, UpdRelease, SvcRelease, UnrRelease,
                GcsRelease, LstRelease, ReleaseAndReturn
  <2>3. ASSUME RegFind(t) \/ RegCheck(t) \/ RegInsert(t) \/ RegRelease(t) \/ RegDelete(t)
        PROVE  <1>1!:
    BY <2>3 DEF RegFind, RegCheck, RegInsert, RegRelease, RegDelete
  <2>4. ASSUME \/ UpdIndex(t) \/ SvcIndex(t) \/ UpdWrite(t) \/ SvcWrite(t) \/ UnrDelete(t)
               \/ UnrErase(t) \/ GcsFind(t) \/ GcsDeref(t) \/ LstWalk(t)
        PROVE  <1>1!:
    BY <2>4 DEF UpdIndex, SvcIndex, IndexDevice, UpdWrite, SvcWrite, UnrDelete, UnrErase, GcsFind,
                GcsDeref, LstWalk
  <2> QED
    BY <2>1, <2>2, <2>3, <2>4 DEF Step
<1> QED
  BY <1>1 DEF Typed, TypeOK

\* An operation, once called, goes on to its end and calls no other.
LEMMA StepLabels ==
    ASSUME Typed, NEW t \in Thread, Step(t)
    PROVE  pc'[t] \notin {"unp_find", "unp_call"}
<1>1. \E l : pc' = [pc EXCEPT ![t] = l] /\ l \notin {"unp_find", "unp_call"}
  <2> USE DEF Goto, Return
  <2>1. ASSUME \/ RegLock(t) \/ UpdLock(t) \/ SvcLock(t) \/ UnrLock(t) \/ GcsLock(t) \/ LstLock(t)
        PROVE  <1>1!:
    BY <2>1 DEF RegLock, UpdLock, SvcLock, UnrLock, GcsLock, LstLock, Wait
  <2>2. ASSUME \/ UpdFind(t) \/ SvcFind(t) \/ UnrCheck(t) \/ UpdRelease(t) \/ SvcRelease(t)
               \/ UnrRelease(t) \/ GcsRelease(t) \/ LstRelease(t)
        PROVE  <1>1!:
    BY <2>2 DEF UpdFind, SvcFind, UnrCheck, FindOrReturn, UpdRelease, SvcRelease, UnrRelease,
                GcsRelease, LstRelease, ReleaseAndReturn
  <2>3. ASSUME RegFind(t) \/ RegCheck(t) \/ RegInsert(t) \/ RegRelease(t) \/ RegDelete(t)
        PROVE  <1>1!:
    BY <2>3 DEF RegFind, RegCheck, RegInsert, RegRelease, RegDelete
  <2>4. ASSUME UpdIndex(t) \/ SvcIndex(t) PROVE <1>1!:
    BY <2>4 DEF UpdIndex, SvcIndex, IndexDevice
  <2>5. ASSUME UpdWrite(t) \/ SvcWrite(t) PROVE <1>1!:
    <3>1. Goto(t, "upd_release") \/ Goto(t, "svc_release")
      BY <2>5 DEF UpdWrite, SvcWrite
    <3> QED
      BY <3>1
  <2>6. ASSUME UnrDelete(t) \/ UnrErase(t) \/ GcsDeref(t) PROVE <1>1!:
    BY <2>6 DEF UnrDelete, UnrErase, GcsDeref
  <2>7. ASSUME GcsFind(t) \/ LstWalk(t) PROVE <1>1!:
    BY <2>7 DEF GcsFind, LstWalk
  <2> QED
    BY <2>1, <2>2, <2>3, <2>4, <2>5, <2>6, <2>7 DEF Step
<1> QED
  BY <1>1 DEF Typed, TypeOK

LEMMA DetectorTyped ==
    ASSUME TypesInv, Typed', Origins', BornOnce, UNCHANGED <<handler, mgrVars>>,
           stayed' \in BOOLEAN, m_pSockHandler' \in [Ptr -> Handler \cup {NULL}],
           dpc' \in DetSteps, paired' \in BOOLEAN, target' \in Addr, found' \in 0..MaxFound,
           consult' \in BOOLEAN, seen' \in Answers, pc'[Mgr] = pc[Mgr], obj'[Mgr] = obj[Mgr]
    PROVE  TypesInv'
<1>1. Passing'
  BY PassingKept
<1>2. TypeOK'
  BY DEF Typed
<1>3. mit' \in Addr \cup {0} /\ pDev' \in Ptr \cup {NULL} /\ eraseList' \in Seq(Ptr)
  BY DEF TypesInv, MonitorTypeOK, mgrVars
<1>4. handler' \in [Handler -> AllHandlerStates]
  BY DEF TypesInv, MonitorTypeOK
<1>5. MonitorTypeOK'
  BY <1>2, <1>3, <1>4 DEF MonitorTypeOK
<1> QED
  BY <1>1, <1>5 DEF TypesInv

LEMMA DetInsideCallTypes ==
    ASSUME TypesInv, DetInsideCall, stayed' \in BOOLEAN
    PROVE  TypesInv'
<1>1. Step(Det) /\ UNCHANGED <<handler, dpc, paired, target, found, seen, mgrVars>>
  BY DEF DetInsideCall
<1>2. Typed'
  BY <1>1, NextTyped, ActorsThreads DEF TypesInv, Next
<1>3. BornOnce /\ Origins'
  BY <1>1, StepOrigins, ActorsThreads DEF TypesInv
<1>4. m_pSockHandler' \in [Ptr -> Handler \cup {NULL}] /\ consult' \in BOOLEAN
  <2>1. m_pSockHandler' = [p \in Ptr |-> IF p \in live' \ live THEN NULL ELSE m_pSockHandler[p]]
    BY DEF DetInsideCall
  <2>2. consult' = (HandlerAt(Index(arg[Det])) # NULL) \/ consult' = consult
    BY DEF DetInsideCall
  <2> QED
    BY <2>1, <2>2 DEF TypesInv, MonitorTypeOK
<1>5. pc'[Mgr] = pc[Mgr] /\ obj'[Mgr] = obj[Mgr]
  BY <1>1, OthersPc, ActorsThreads, ActorsAssumption DEF TypesInv
<1>6. dpc' \in DetSteps /\ paired' \in BOOLEAN /\ target' \in Addr /\ found' \in 0..MaxFound
      /\ seen' \in Answers
  BY <1>1 DEF TypesInv, Passing, MonitorTypeOK
<1> QED
  BY <1>1, <1>2, <1>3, <1>4, <1>5, <1>6, DetectorTyped

LEMMA AnswersTyped ==
    ASSUME TypesInv, NEW h \in Handler \cup {NULL}
    PROVE  StatusOf(h) \subseteq Answers
BY DEF StatusOf, Answers

LEMMA DetConsultTypes ==
    ASSUME TypesInv, DetConsult, stayed' \in BOOLEAN
    PROVE  TypesInv'
<1> DEFINE p == Index(arg[Det])
<1>1. /\ pc[Det] = "gcs_release" /\ IndexInserts(arg[Det]) /\ consult' = FALSE
      /\ seen' \in StatusOf(HandlerAt(p))
      /\ UNCHANGED <<mutexVars, live, fieldVars, localVars, m_pSockHandler, handler,
                     dpc, paired, target, found, mgrVars>>
  BY DEF DetConsult, At
<1>2. arg[Det] \in Addr /\ Det \in Thread
  BY <1>1, ActorsThreads DEF TypesInv, Typed
<1>3. fault' \subseteq Faults /\ up' \in BOOLEAN
  <2>1. Fault("null_deref") \/ AskHandler(HandlerAt(p)) \/ Fault("use_after_free")
    BY DEF DetConsult
  <2>2. "null_deref" \in Faults /\ "use_after_free" \in Faults
    BY DEF Faults
  <2>3. ASSUME NEW k \in Faults, Fault(k) PROVE fault' \subseteq Faults /\ up' \in BOOLEAN
    BY <2>3, FaultTyped DEF TypesInv
  <2>4. ASSUME NoFault PROVE fault' \subseteq Faults /\ up' \in BOOLEAN
    BY <2>4 DEF NoFault, procVars, TypesInv, Typed, TypeOK
  <2> QED
    BY <2>1, <2>2, <2>3, <2>4, AskFaults
<1>4. m_mapBTDevice' \in Maps
  BY <1>1, <1>2, IndexTyped DEF TypesInv
<1>5. Typed'
  BY <1>1, <1>3, <1>4 DEF TypesInv, Typed, TypeOK, MutexTypeOK, mutexVars, fieldVars, localVars
<1>6. BornOnce /\ Origins'
  BY <1>1, <1>2, Indexed DEF TypesInv, fieldVars, localVars
<1>7. p \in Ptr \cup {NULL}
  BY <1>2, IndexTyped DEF TypesInv
<1>8. HandlerAt(p) \in Handler \cup {NULL}
  BY <1>7 DEF HandlerAt, TypesInv, MonitorTypeOK
<1>9. seen' \in Answers
  BY <1>1, <1>8, AnswersTyped
<1>10. /\ m_pSockHandler' \in [Ptr -> Handler \cup {NULL}]
       /\ dpc' \in DetSteps /\ paired' \in BOOLEAN /\ target' \in Addr /\ found' \in 0..MaxFound
  BY <1>1 DEF TypesInv, Passing, MonitorTypeOK
<1> QED
  BY <1>1, <1>5, <1>6, <1>9, <1>10, DetectorTyped DEF localVars

LEMMA CallTyped ==
    ASSUME Typed, Origins, NEW a \in Addr, NEW l \in Operations, Call(Det, l, a)
    PROVE  /\ Typed' /\ BornOnce /\ Origins' /\ pc'[Mgr] = pc[Mgr] /\ obj' = obj
           /\ pc'[Det] = l /\ arg'[Det] = a
<1>1. Typed'
  BY NextTyped, ActorsThreads DEF Next, Invoke
<1>2. UNCHANGED <<mutexVars, heapVars, obj, snap, procVars>>
  BY DEF Call
<1>3. BornOnce /\ Origins'
  BY <1>2, SamePointers DEF heapVars, fieldVars
<1>4. pc' = [pc EXCEPT ![Det] = l] /\ arg' = [arg EXCEPT ![Det] = a]
  BY DEF Call, Goto
<1> QED
  BY <1>1, <1>2, <1>3, <1>4, ActorsAssumption DEF Typed, TypeOK

LEMMA OnDeviceDiscoveredTypes ==
    ASSUME TypesInv, OnDeviceDiscovered, stayed' \in BOOLEAN
    PROVE  TypesInv'
<1>1. PICK a \in Addr : target' = a /\ Call(Det, "reg_find", a)
  BY DEF OnDeviceDiscovered
<1>2. /\ Typed' /\ BornOnce /\ Origins' /\ pc'[Mgr] = pc[Mgr] /\ obj' = obj
  BY <1>1, CallTyped DEF Operations, TypesInv
<1>3. /\ UNCHANGED <<m_pSockHandler, handler, consult, seen, mgrVars>>
      /\ dpc' \in DetSteps /\ paired' \in BOOLEAN /\ found' = found + 1 /\ found < MaxFound
  BY DEF OnDeviceDiscovered, DetSteps
<1>4. found' \in 0..MaxFound
  BY <1>3, HandlerAssumption DEF TypesInv, MonitorTypeOK
<1>5. /\ m_pSockHandler' \in [Ptr -> Handler \cup {NULL}]
      /\ consult' \in BOOLEAN /\ seen' \in Answers
  BY <1>3 DEF TypesInv, MonitorTypeOK
<1> QED
  BY <1>1, <1>2, <1>3, <1>4, <1>5, DetectorTyped

LEMMA DetCallTypes ==
    ASSUME TypesInv, NEW l \in Operations, NEW to \in DetSteps, DetCall(l, to),
           stayed' \in BOOLEAN
    PROVE  TypesInv'
<1>1. /\ Call(Det, l, target) /\ dpc' = to /\ seen' = "other" /\ target \in Addr
      /\ UNCHANGED <<m_pSockHandler, handler, paired, target, found, consult, mgrVars>>
  BY DEF DetCall, TypesInv, MonitorTypeOK
<1>2. /\ Typed' /\ BornOnce /\ Origins' /\ pc'[Mgr] = pc[Mgr] /\ obj' = obj
  BY <1>1, CallTyped DEF TypesInv
<1>3. /\ m_pSockHandler' \in [Ptr -> Handler \cup {NULL}] /\ paired' \in BOOLEAN
      /\ target' \in Addr /\ found' \in 0..MaxFound /\ consult' \in BOOLEAN /\ seen' \in Answers
  BY <1>1 DEF TypesInv, MonitorTypeOK, Answers
<1> QED
  BY <1>1, <1>2, <1>3, DetectorTyped

LEMMA RadioTypes ==
    ASSUME TypesInv, BluetoothRemoveDevice \/ ServicesUnreported, stayed' \in BOOLEAN
    PROVE  TypesInv'
<1>1. /\ UNCHANGED <<registryVars, m_pSockHandler, handler, paired, target, found,
                     consult, seen, mgrVars>>
      /\ dpc' \in DetSteps
  BY DEF BluetoothRemoveDevice, ServicesUnreported, DetSteps
<1>2. Typed' /\ BornOnce /\ Origins'
  BY <1>1, NextTyped, SamePointers DEF TypesInv, registryVars, heapVars, fieldVars, localVars
<1>3. /\ m_pSockHandler' \in [Ptr -> Handler \cup {NULL}] /\ paired' \in BOOLEAN
      /\ target' \in Addr /\ found' \in 0..MaxFound /\ consult' \in BOOLEAN /\ seen' \in Answers
  BY <1>1 DEF TypesInv, MonitorTypeOK
<1> QED
  BY <1>1, <1>2, <1>3, DetectorTyped DEF registryVars, localVars

\* Which calls the callback makes, and what it does next.
LEMMA DetectorCalls ==
    ASSUME Detector
    PROVE  \/ DetInsideCall \/ DetConsult \/ OnDeviceDiscovered \/ BluetoothRemoveDevice
           \/ ServicesUnreported
           \/ /\ \E l \in Operations, to \in DetSteps : DetCall(l, to)
              /\ CheckConnecting \/ RegisteringFailed \/ CheckConnected
                 \/ OnServiceDiscovered \/ ServiceSearchFailed
BY DEF Detector, RegisteringFailed, CheckConnected, CheckConnecting, OnServiceDiscovered,
       ServiceSearchFailed, Operations, DetSteps

LEMMA DetectorTypes ==
    ASSUME TypesInv, Detector, stayed' \in BOOLEAN
    PROVE  TypesInv'
BY DetectorCalls, DetInsideCallTypes, DetConsultTypes, OnDeviceDiscoveredTypes,
   RadioTypes, DetCallTypes


-----------------------------------------------------------------------------
(* The manager keeps the types.                                             *)

LEMMA ManagerTyped ==
    ASSUME TypesInv, Typed', Origins', BornOnce, UNCHANGED detVars, stayed' \in BOOLEAN,
           m_pSockHandler' \in [Ptr -> Handler \cup {NULL}],
           handler' \in [Handler -> AllHandlerStates],
           mpc' \in MgrSteps, mit' \in Addr \cup {0}, pDev' \in Ptr \cup {NULL},
           mpc' \in Handling => pDev' \in Ptr, BornCell(pDev'),
           eraseList' \in Seq(Ptr), \A i \in 1 .. Len(eraseList') : Born(eraseList'[i]),
           pc'[Mgr] \in {"unp_find", "unp_call"} => obj'[Mgr] \in Ptr
    PROVE  TypesInv'
<1>1. TypeOK'
  BY DEF Typed
<1>2. /\ paired' \in BOOLEAN /\ target' \in Addr /\ found' \in 0..MaxFound
      /\ consult' \in BOOLEAN /\ seen' \in Answers /\ dpc' \in DetSteps
  BY DEF TypesInv, MonitorTypeOK, Passing, detVars
<1>3. MonitorTypeOK'
  BY <1>1, <1>2 DEF MonitorTypeOK
<1>4. BornCell(pDev)' /\ \A i \in 1 .. Len(eraseList') : Born(eraseList[i])'
  <2>1. \A p \in Ptr : Born(p) => Born(p)'
    BY DEF BornOnce
  <2>2. \A i \in 1 .. Len(eraseList') : eraseList'[i] \in Ptr
    OBVIOUS
  <2> QED
    BY <2>1, <2>2 DEF BornCell, Born
<1> QED
  BY <1>2, <1>3, <1>4 DEF TypesInv, Passing

\* The steps of the walk: the registry's map, cells and calls stay as they are.
LEMMA WalkTypes ==
    ASSUME TypesInv, UNCHANGED <<mutexVars, heapVars, localVars, detVars>>,
           NoFault \/ \E k \in Faults : Fault(k), stayed' \in BOOLEAN, pc[Mgr] = "idle",
           m_pSockHandler' \in [Ptr -> Handler \cup {NULL}],
           handler' \in [Handler -> AllHandlerStates],
           mpc' \in MgrSteps, mit' \in Addr \cup {0}, pDev' \in Ptr \cup {NULL},
           mpc' \in Handling => pDev' \in Ptr, BornCell(pDev'),
           eraseList' \in Seq(Ptr), \A i \in 1 .. Len(eraseList') : Born(eraseList'[i])
    PROVE  TypesInv'
<1>1. Typed' /\ Origins'
  BY ProcessKept DEF TypesInv
<1>2. BornOnce /\ pc'[Mgr] = "idle"
  BY DEF BornOnce, Born, heapVars, fieldVars, localVars
<1> QED
  BY <1>1, <1>2, ManagerTyped

\* ... and of the visit of one device.
LEMMA VisitTypes ==
    ASSUME TypesInv, UNCHANGED <<mutexVars, heapVars, localVars, detVars, mit, pDev>>,
           NoFault \/ \E k \in Faults : Fault(k), stayed' \in BOOLEAN, pc[Mgr] = "idle",
           m_pSockHandler' \in [Ptr -> Handler \cup {NULL}],
           handler' \in [Handler -> AllHandlerStates],
           mpc \in Handling, mpc' \in MgrSteps,
           eraseList' = eraseList \/ eraseList' = Append(eraseList, pDev)
    PROVE  TypesInv'
<1>1. pDev \in Ptr /\ Born(pDev) /\ eraseList \in Seq(Ptr) /\ mit \in Addr \cup {0}
  BY DEF TypesInv, MonitorTypeOK, Passing, BornCell
<1>2. eraseList' \in Seq(Ptr)
  BY <1>1
<1>3. \A i \in 1 .. Len(eraseList) : Born(eraseList[i])
  BY DEF TypesInv, Passing
<1>4. \A i \in 1 .. Len(eraseList') : Born(eraseList'[i])
  <2>1. CASE eraseList' = eraseList
    BY <2>1, <1>3
  <2>2. CASE eraseList' = Append(eraseList, pDev)
    <3>1. \A i \in 1 .. Len(eraseList') : eraseList'[i] = IF i = Len(eraseList) + 1 THEN pDev
                                                         ELSE eraseList[i]
      BY <1>1, <2>2
    <3>2. Len(eraseList') = Len(eraseList) + 1 /\ Len(eraseList) \in Nat
      BY <1>1, <2>2
    <3> QED
      BY <1>1, <1>3, <3>1, <3>2
  <2> QED
    BY <2>1, <2>2
<1> QED
  BY <1>1, <1>2, <1>4, WalkTypes DEF BornCell

LEMMA ManagerVisitsTypes ==
    ASSUME TypesInv, stayed' \in BOOLEAN,
           MgrVisit \/ MgrConnect \/ MgrPrint \/ MgrReap \/ MgrForget
    PROVE  TypesInv'
<1>0. /\ m_pSockHandler \in [Ptr -> Handler \cup {NULL}]
      /\ handler \in [Handler -> AllHandlerStates]
  BY DEF TypesInv, MonitorTypeOK
<1> USE DEF Handling, MgrSteps, MgrAt, MgrGoto
<1>1. CASE MgrVisit
  <2>1. /\ mpc = "visit" /\ pc[Mgr] = "idle" /\ (NoFault \/ Fault("use_after_free"))
        /\ mpc' \in {"connect", "advance", "print", "reap"}
        /\ UNCHANGED <<mutexVars, heapVars, localVars, m_pSockHandler, handler,
                       detVars, mit, pDev, eraseList>>
    BY <1>1 DEF MgrVisit
  <2>2. NoFault \/ \E k \in Faults : Fault(k)
    BY <2>1 DEF Faults
  <2> QED
    BY <1>0, <2>1, <2>2, VisitTypes
<1>2. CASE MgrConnect
  <2>1. /\ mpc = "connect" /\ pc[Mgr] = "idle" /\ Deref(pDev) /\ mpc' = "advance"
        /\ UNCHANGED <<mutexVars, heapVars, localVars, detVars, mit, pDev, eraseList>>
    BY <1>2 DEF MgrConnect, MgrStep
  <2>2. /\ m_pSockHandler' \in [Ptr -> Handler \cup {NULL}]
        /\ handler' \in [Handler -> AllHandlerStates]
    <3>1. CASE UNCHANGED <<m_pSockHandler, handler>>
      BY <1>0, <3>1
    <3>2. ASSUME NEW h \in Available, m_pSockHandler' = [m_pSockHandler EXCEPT ![pDev] = h],
                 handler' = [handler EXCEPT ![h] = "started"]
          PROVE  <2>2!:
      BY <1>0, <3>2 DEF Available, AllHandlerStates, Running
    <3> QED
      BY <1>2, <3>1, <3>2 DEF MgrConnect
  <2> QED
    BY <2>1, <2>2, DerefFaults, VisitTypes
<1>3. CASE MgrPrint
  <2>1. /\ mpc = "print" /\ pc[Mgr] = "idle" /\ mpc' = "advance"
        /\ AskHandler(m_pSockHandler[pDev]) \/ Fault("use_after_free")
        /\ UNCHANGED <<mutexVars, heapVars, localVars, m_pSockHandler, handler,
                       detVars, mit, pDev, eraseList>>
    BY <1>3 DEF MgrPrint
  <2>2. NoFault \/ \E k \in Faults : Fault(k)
    BY <2>1, AskFaults DEF Faults
  <2> QED
    BY <1>0, <2>1, <2>2, VisitTypes
<1>4. CASE MgrReap
  <2>1. /\ mpc = "reap" /\ pc[Mgr] = "idle" /\ mpc' = "forget"
        /\ (NoFault \/ Fault("use_after_free") \/ Fault("double_free"))
        /\ handler' = [h \in Handler |-> IF h = m_pSockHandler[pDev] THEN "free" ELSE handler[h]]
        /\ UNCHANGED <<mutexVars, heapVars, localVars, m_pSockHandler, detVars,
                       mit, pDev, eraseList>>
    BY <1>4 DEF MgrReap
  <2>2. handler' \in [Handler -> AllHandlerStates]
    BY <1>0, <2>1 DEF AllHandlerStates
  <2>3. NoFault \/ \E k \in Faults : Fault(k)
    BY <2>1 DEF Faults
  <2> QED
    BY <1>0, <2>1, <2>2, <2>3, VisitTypes
<1>5. CASE MgrForget
  <2>1. /\ mpc = "forget" /\ pc[Mgr] = "idle" /\ mpc' = "advance" /\ Deref(pDev)
        /\ m_pSockHandler' = [m_pSockHandler EXCEPT ![pDev] = NULL]
        /\ eraseList' = Append(eraseList, pDev)
        /\ UNCHANGED <<mutexVars, heapVars, localVars, handler, detVars, mit, pDev>>
    BY <1>5 DEF MgrForget, MgrStep
  <2>2. m_pSockHandler' \in [Ptr -> Handler \cup {NULL}]
    BY <1>0, <2>1
  <2> QED
    BY <1>0, <2>1, <2>2, DerefFaults, VisitTypes
<1> QED
  BY <1>1, <1>2, <1>3, <1>4, <1>5

LEMMA ManagerWalksTypes ==
    ASSUME TypesInv, stayed' \in BOOLEAN,
           MgrLock \/ MgrFetch \/ MgrAdvance \/ MgrRelease
    PROVE  TypesInv'
<1>0. /\ m_pSockHandler \in [Ptr -> Handler \cup {NULL}]
      /\ handler \in [Handler -> AllHandlerStates] /\ pDev \in Ptr \cup {NULL}
      /\ mit \in Addr \cup {0} /\ eraseList \in Seq(Ptr) /\ BornCell(pDev)
      /\ \A i \in 1 .. Len(eraseList) : Born(eraseList[i])
  BY DEF TypesInv, MonitorTypeOK, Passing
<1> USE DEF Handling, MgrSteps, MgrAt, MgrGoto
<1>1. CASE MgrLock
  <2>1. /\ WaitForMutex(Mgr) /\ mit' = NextKey(0) /\ mpc' = "walk" /\ pc[Mgr] = "idle"
        /\ UNCHANGED <<heapVars, localVars, procVars, m_pSockHandler, handler,
                       detVars, pDev, eraseList>>
    BY <1>1 DEF MgrLock
  <2>2. /\ MutexTypeOK' /\ (owner' # NoThread => depth' > 0)
        /\ fault' \subseteq Faults /\ up' \in BOOLEAN
    BY <2>1, WaitTyped, ActorsThreads DEF TypesInv, procVars, Typed, TypeOK
  <2>3. Typed' /\ Origins' /\ BornOnce
    BY <2>1, <2>2, RegistryKept DEF TypesInv, BornOnce, Born, heapVars, fieldVars
  <2> QED
    BY <1>0, <2>1, <2>3, NextKeyTyped, ManagerTyped DEF localVars
<1>2. CASE MgrRelease
  <2>1. /\ ReleaseMutex(Mgr) /\ mpc' = "sleeping" /\ pc[Mgr] = "idle"
        /\ UNCHANGED <<heapVars, localVars, procVars, m_pSockHandler, handler,
                       detVars, mit, pDev, eraseList>>
    BY <1>2 DEF MgrRelease
  <2>2. /\ MutexTypeOK' /\ (owner' # NoThread => depth' > 0)
        /\ fault' \subseteq Faults /\ up' \in BOOLEAN
    BY <2>1, ReleaseTyped, ActorsThreads DEF TypesInv, procVars, Typed, TypeOK
  <2>3. Typed' /\ Origins' /\ BornOnce
    BY <2>1, <2>2, RegistryKept DEF TypesInv, BornOnce, Born, heapVars, fieldVars
  <2> QED
    BY <1>0, <2>1, <2>3, ManagerTyped DEF localVars
<1>3. CASE MgrFetch
  <2>1. /\ mit # 0 /\ pc[Mgr] = "idle" /\ (NoFault \/ Fault("use_after_free"))
        /\ UNCHANGED <<mutexVars, heapVars, localVars, m_pSockHandler, handler,
                       detVars, mit, eraseList>>
    BY <1>3 DEF MgrFetch
  <2>2. /\ pDev' \in Ptr \cup {NULL} /\ BornCell(pDev') /\ mpc' \in MgrSteps
        /\ mpc' \in Handling => pDev' \in Ptr
    <3>1. mit \in Addr
      BY <1>0, <2>1
    <3>2. BornCell(m_mapBTDevice[mit]) /\ BornCell(NULL)
      BY <3>1, PtrAssumption DEF TypesInv, Origins, BornCell
    <3> QED
      BY <1>3, <3>2 DEF MgrFetch
  <2>3. NoFault \/ \E k \in Faults : Fault(k)
    BY <2>1 DEF Faults
  <2> QED
    BY <1>0, <2>1, <2>2, <2>3, WalkTypes
<1>4. CASE MgrAdvance
  <2>1. /\ pc[Mgr] = "idle" /\ (FindFault(Mgr) \/ Fault("use_after_free"))
        /\ mit' = NextKey(mit) \/ mit' \in KeysAfter(mit) \cup {0}
        /\ pDev' = NULL /\ mpc' = "walk"
        /\ UNCHANGED <<mutexVars, heapVars, localVars, m_pSockHandler, handler,
                       detVars, eraseList>>
    BY <1>4 DEF MgrAdvance
  <2>2. BornCell(pDev')
    BY <2>1, PtrAssumption DEF BornCell
  <2>3. NoFault \/ \E k \in Faults : Fault(k)
    BY <2>1, FindFaults DEF Faults
  <2>4. mit' \in Addr \cup {0}
    BY <2>1, NextKeyTyped DEF KeysAfter
  <2> QED
    BY <1>0, <2>1, <2>2, <2>3, <2>4, WalkTypes
<1> QED
  BY <1>1, <1>2, <1>3, <1>4

LEMMA ManagerErasesTypes ==
    ASSUME TypesInv, stayed' \in BOOLEAN, MgrErase \/ MgrInsideCall
    PROVE  TypesInv'
<1>0. /\ m_pSockHandler \in [Ptr -> Handler \cup {NULL}] /\ mpc \in MgrSteps
      /\ handler \in [Handler -> AllHandlerStates] /\ pDev \in Ptr \cup {NULL}
      /\ mit \in Addr \cup {0} /\ eraseList \in Seq(Ptr) /\ BornCell(pDev)
      /\ \A i \in 1 .. Len(eraseList) : Born(eraseList[i])
      /\ mpc \in Handling => pDev \in Ptr
      /\ Mgr \in Thread
  BY ActorsThreads DEF TypesInv, MonitorTypeOK, Passing
<1>1. CASE MgrErase
  <2>1. /\ eraseList # <<>> /\ pc' = [pc EXCEPT ![Mgr] = "unp_find"]
        /\ obj' = [obj EXCEPT ![Mgr] = Head(eraseList)] /\ eraseList' = Tail(eraseList)
        /\ UNCHANGED <<mutexVars, heapVars, arg, snap, ret, procVars, m_pSockHandler,
                       handler, detVars, mpc, mit, pDev>>
    BY <1>1 DEF MgrErase
  <2>2. Head(eraseList) \in Ptr /\ Born(Head(eraseList))
    BY <1>0, <2>1
  <2>3. eraseList' \in Seq(Ptr) /\ \A i \in 1 .. Len(eraseList') : Born(eraseList'[i])
    <3>1. /\ eraseList' \in Seq(Ptr) /\ Len(eraseList) \in Nat
          /\ Len(eraseList') = Len(eraseList) - 1
          /\ \A i \in 1 .. Len(eraseList') : eraseList'[i] = eraseList[i + 1]
      BY <1>0, <2>1
    <3> QED
      BY <1>0, <3>1
  <2>4. obj' \in [Thread -> Ptr \cup {NULL}] /\ obj'[Mgr] \in Ptr
    BY <1>0, <2>1, <2>2 DEF TypesInv, Typed, TypeOK
  <2>5. Typed'
    <3>1. "unp_find" \in PcLabels
      BY DEF PcLabels
    <3> QED
      BY <1>0, <2>1, <2>4, <3>1
         DEF TypesInv, Typed, TypeOK, MutexTypeOK, mutexVars, heapVars, fieldVars, procVars
  <2>6. BornOnce
    BY <2>1 DEF BornOnce, Born, heapVars, fieldVars
  <2>7. Origins'
    <3>1. \A t \in Thread : obj'[t] = obj[t] \/ obj'[t] = Head(eraseList)
      BY <1>0, <2>1 DEF TypesInv, Typed, TypeOK
    <3> QED
      BY <2>1, <2>2, <3>1 DEF TypesInv, Origins, Born, BornCell, heapVars, fieldVars
  <2> QED
    BY <1>0, <2>1, <2>3, <2>4, <2>5, <2>6, <2>7, ManagerTyped
<1>2. CASE MgrInsideCall
  <2>1. UNCHANGED <<m_pSockHandler, handler, detVars, mgrVars>>
    BY <1>2 DEF MgrInsideCall
  <2>2. /\ Typed' /\ Origins' /\ BornOnce
        /\ pc'[Mgr] \in {"unp_find", "unp_call"} => obj'[Mgr] \in Ptr
    <3>1. CASE Step(Mgr)
      <4>1. Typed' /\ Origins' /\ BornOnce
        BY <1>0, <3>1, NextTyped, StepOrigins DEF TypesInv, Next
      <4>2. pc'[Mgr] \notin {"unp_find", "unp_call"}
        BY <1>0, <3>1, StepLabels DEF TypesInv
      <4> QED
        BY <4>1, <4>2
    <3>2. CASE UnpFind(Mgr) \/ UnpCall(Mgr)
      <4>1. obj[Mgr] \in Ptr
        BY <3>2 DEF UnpFind, UnpCall, At, TypesInv, Passing
      <4>2. pc'[Mgr] \in {"unp_find", "unp_call"} => obj'[Mgr] = obj[Mgr]
        BY <1>0, <3>2 DEF UnpFind, UnpCall, Return, Goto, TypesInv, Typed, TypeOK
      <4> QED
        BY <3>2, <4>1, <4>2, UnpTyped DEF TypesInv
    <3> QED
      BY <1>2, <3>1, <3>2 DEF MgrInsideCall
  <2> QED
    BY <1>0, <2>1, <2>2, ManagerTyped DEF mgrVars
<1> QED
  BY <1>1, <1>2

LEMMA MonitorTypesKept ==
    ASSUME TypesInv, [MonitorNext]_vars
    PROVE  TypesInv'
<1>0. Remember => stayed' \in BOOLEAN
  BY DEF Remember
<1>1. ASSUME DetectorThread PROVE TypesInv'
  BY <1>0, <1>1, DetectorTypes DEF DetectorThread
<1>2. ASSUME ManagerThread PROVE TypesInv'
  BY <1>0, <1>2, ManagerVisitsTypes, ManagerWalksTypes, ManagerErasesTypes
     DEF ManagerThread, Manager
<1>3. ASSUME NEW h \in Handler, HandlerThread(h) PROVE TypesInv'
  <2>1. /\ stayed' \in BOOLEAN
        /\ UNCHANGED <<registryVars, m_pSockHandler, detVars, mgrVars>>
        /\ \E to \in AllHandlerStates : handler' = [handler EXCEPT ![h] = to]
    BY <1>0, <1>3 DEF HandlerThread, HandlerRun
  <2>2. handler' \in [Handler -> AllHandlerStates]
    BY <2>1 DEF TypesInv, MonitorTypeOK
  <2>3. Typed' /\ Origins' /\ BornOnce /\ pc' = pc /\ obj' = obj
    BY <2>1, NextTyped, SamePointers
       DEF TypesInv, registryVars, heapVars, fieldVars, localVars
  <2>4. /\ m_pSockHandler' \in [Ptr -> Handler \cup {NULL}] /\ mpc' \in MgrSteps
        /\ pDev' \in Ptr \cup {NULL} /\ mit' \in Addr \cup {0} /\ eraseList' \in Seq(Ptr)
        /\ BornCell(pDev') /\ \A i \in 1 .. Len(eraseList') : Born(eraseList'[i])
        /\ mpc' \in Handling => pDev' \in Ptr
        /\ pc'[Mgr] \in {"unp_find", "unp_call"} => obj'[Mgr] \in Ptr
    BY <2>1, <2>3 DEF TypesInv, MonitorTypeOK, Passing, mgrVars
  <2> QED
    BY <2>1, <2>2, <2>3, <2>4, ManagerTyped
<1>4. ASSUME UNCHANGED vars PROVE TypesInv'
  <2>1. /\ UNCHANGED <<registryVars, m_pSockHandler, handler, detVars, mgrVars>>
        /\ stayed' \in BOOLEAN
    BY <1>4 DEF vars, TypesInv, MonitorTypeOK
  <2>2. Typed' /\ Origins' /\ BornOnce /\ pc' = pc /\ obj' = obj
    BY <2>1, NextTyped, SamePointers
       DEF TypesInv, registryVars, heapVars, fieldVars, localVars
  <2>3. /\ m_pSockHandler' \in [Ptr -> Handler \cup {NULL}]
        /\ dpc' \in DetSteps /\ paired' \in BOOLEAN /\ target' \in Addr /\ found' \in 0..MaxFound
        /\ consult' \in BOOLEAN /\ seen' \in Answers
    BY <2>1 DEF TypesInv, MonitorTypeOK, Passing, detVars
  <2> QED
    BY <2>1, <2>2, <2>3, DetectorTyped
<1> QED
  BY <1>1, <1>2, <1>3, <1>4 DEF MonitorNext

LEMMA MonitorStarts == MonitorInit => TypesInv
<1> SUFFICES ASSUME MonitorInit
             PROVE  TypesInv
  OBVIOUS
<1>1. Typed
  BY InitTyped DEF MonitorInit
<1>2. Origins
  BY PtrAssumption DEF MonitorInit, RegistryInit, ManagerInit, EmptyMap, Origins, BornCell
<1>3. Passing
  BY PtrAssumption, ActorsThreads
     DEF MonitorInit, RegistryInit, ManagerInit, Passing, DetSteps, MgrSteps, Handling, BornCell
<1>4. MonitorTypeOK
  <2>1. /\ m_pSockHandler \in [Ptr -> Handler \cup {NULL}]
        /\ handler \in [Handler -> AllHandlerStates]
    BY DEF MonitorInit, AllHandlerStates
  <2>2. /\ target \in Addr /\ seen \in Answers
        /\ found \in 0..MaxFound
    BY HandlerAssumption DEF MonitorInit, Answers
  <2>4. paired \in BOOLEAN /\ consult \in BOOLEAN /\ stayed \in BOOLEAN
    BY DEF MonitorInit
  <2>3. mit \in Addr \cup {0} /\ pDev \in Ptr \cup {NULL} /\ eraseList \in Seq(Ptr)
    BY DEF MonitorInit
  <2> QED
    BY <1>1, <2>1, <2>2, <2>3, <2>4 DEF Typed, MonitorTypeOK
<1> QED
  BY <1>1, <1>2, <1>3, <1>4 DEF TypesInv

LEMMA MonitorTypes == MonitorSpec => []TypesInv
<1>1. TypesInv /\ [MonitorNext]_vars => TypesInv'
  BY MonitorTypesKept
<1> QED
  BY <1>1, MonitorStarts, PTL DEF MonitorSpec

\* Members, locals and iterators keep their types whatever is freed or reused under a
\* thread's feet: the manager's unregistration by pointer reads an address, and no
\* cell that was never constructed (BTDeviceManager.cpp:160-200, 254-267).
THEOREM MonitorTyped == MonitorSpec => []MonitorTypeOK
<1>1. TypesInv => MonitorTypeOK
  BY DEF TypesInv
<1> QED
  BY <1>1, MonitorTypes, PTL

-----------------------------------------------------------------------------
(* A device that stays connected keeps its pairing.  While the target's      *)
(* handler is connected and the manager relinks nothing, every search of the  *)
(* callback finds the target, and the first answer it gets is CONNECTED.      *)

Asking == {"gcs_lock", "gcs_find", "gcs_deref", "gcs_release"}

\* Where the callback can be with a target that has stayed connected.
Callback ==
    /\ dpc \notin {"connecting?", "removed"}
    /\ dpc = "registered" =>
         \/ pc[Det] = "idle"
         \/ pc[Det] = "reg_find" /\ arg[Det] = target
    /\ dpc = "connected?" =>
         \/ pc[Det] \in Asking /\ arg[Det] = target
            /\ (pc[Det] = "gcs_release" => consult \/ seen = "CONNECTED")
         \/ pc[Det] = "idle" /\ seen = "CONNECTED"

Pairing == stayed => TargetConnected /\ pc[Mgr] \notin Relinking /\ Callback

\* No search misses the target.
LEMMA TargetFound ==
    ASSUME TypesInv, TargetConnected, pc[Mgr] \notin Relinking
    PROVE  /\ FindResults(Det, target) = {TRUE}
           /\ Index(target) = m_mapBTDevice[target]
           /\ HandlerAt(Index(target)) # NULL /\ StatusOf(HandlerAt(Index(target))) = {"CONNECTED"}
<1>1. m_mapBTDevice[target] \in Ptr /\ Present(target)
  BY PtrAssumption DEF TargetConnected, Present
<1>2. ~Racing(Det) /\ ~EraseBeside(Det)
  BY ActorsAssumption DEF Racing, EraseBeside, Relinking
<1>3. FindResults(Det, target) = {TRUE}
  BY <1>1, <1>2 DEF FindResults
<1>4. Index(target) = m_mapBTDevice[target]
  BY <1>1 DEF Index
<1>5. HandlerAt(Index(target)) # NULL /\ handler[HandlerAt(Index(target))] = "CONNECTED"
  BY <1>4 DEF TargetConnected
<1>6. StateOf(HandlerAt(Index(target))) = "CONNECTED"
  BY <1>5 DEF StateOf
<1>7. StatusOf(HandlerAt(Index(target))) = {"CONNECTED"}
  BY <1>6 DEF StatusOf, Answers
<1> QED
  BY <1>3, <1>4, <1>5, <1>7

\* What one step of a call does to the callback's place in it.
LEMMA CallSteps ==
    ASSUME TypesInv, Step(Det)
    PROVE  /\ pc[Det] # "idle"
           /\ pc[Det] = "reg_find" => RegFind(Det)
           /\ pc[Det] = "gcs_lock" => GcsLock(Det)
           /\ pc[Det] = "gcs_find" => GcsFind(Det)
           /\ pc[Det] = "gcs_deref" => GcsDeref(Det)
           /\ pc[Det] = "gcs_release" => GcsRelease(Det)
<1> USE DEF At
<1>1. ASSUME \/ RegLock(Det) \/ UpdLock(Det) \/ SvcLock(Det) \/ UnrLock(Det) \/ LstLock(Det)
      PROVE  pc[Det] \in {"reg_lock", "upd_lock", "svc_lock", "unr_lock", "lst_lock"}
  BY <1>1 DEF RegLock, UpdLock, SvcLock, UnrLock, LstLock, Wait
<1>2. ASSUME \/ UpdFind(Det) \/ SvcFind(Det) \/ UnrCheck(Det) \/ UpdRelease(Det)
             \/ SvcRelease(Det) \/ UnrRelease(Det) \/ LstRelease(Det)
      PROVE  pc[Det] \in {"upd_find", "svc_find", "unr_check", "upd_release", "svc_release",
                          "unr_release", "lst_release"}
  BY <1>2 DEF UpdFind, SvcFind, UnrCheck, FindOrReturn, UpdRelease, SvcRelease, UnrRelease,
              LstRelease, ReleaseAndReturn
<1>3. ASSUME RegCheck(Det) \/ RegInsert(Det) \/ RegRelease(Det) \/ RegDelete(Det)
      PROVE  pc[Det] \in {"reg_check", "reg_insert", "reg_release", "reg_delete"}
  BY <1>3 DEF RegCheck, RegInsert, RegRelease, RegDelete
<1>4. ASSUME UpdIndex(Det) \/ SvcIndex(Det)
      PROVE  pc[Det] \in {"upd_index", "svc_index"}
  BY <1>4 DEF UpdIndex, SvcIndex, IndexDevice
<1>5. ASSUME UpdWrite(Det) \/ SvcWrite(Det)
      PROVE  pc[Det] \in {"upd_write", "svc_write"}
  BY <1>5 DEF UpdWrite, SvcWrite
<1>6. ASSUME UnrDelete(Det) \/ UnrErase(Det) \/ LstWalk(Det)
      PROVE  pc[Det] \in {"unr_delete", "unr_erase", "lst_walk"}
  BY <1>6 DEF UnrDelete, UnrErase, LstWalk
<1>7. /\ RegFind(Det) => pc[Det] = "reg_find"
      /\ GcsLock(Det) => pc[Det] = "gcs_lock"
      /\ GcsFind(Det) => pc[Det] = "gcs_find"
      /\ GcsDeref(Det) => pc[Det] = "gcs_deref"
      /\ GcsRelease(Det) => pc[Det] = "gcs_release"
  BY DEF RegFind, GcsLock, Wait, GcsFind, GcsDeref, GcsRelease, ReleaseAndReturn
<1> HIDE DEF At
<1>8. \/ pc[Det] \notin {"idle", "reg_find"} \cup Asking
      \/ RegFind(Det) \/ GcsLock(Det) \/ GcsFind(Det) \/ GcsDeref(Det) \/ GcsRelease(Det)
  BY <1>1, <1>2, <1>3, <1>4, <1>5, <1>6 DEF Step, Asking
<1> QED
  BY <1>7, <1>8 DEF Asking

LEMMA InsideCallPairing ==
    ASSUME TypesInv, Pairing, stayed, DetInsideCall
    PROVE  Callback'
<1>1. /\ TargetConnected /\ pc[Mgr] \notin Relinking /\ Callback
      /\ Step(Det) /\ UNCHANGED <<dpc, target, seen>>
      /\ pc[Det] # "gcs_release" \/ ~consult
      /\ pc \in [Thread -> PcLabels] /\ Det \in Thread
      /\ arg \in [Thread -> Addr \cup {NULL}]
  BY ActorsThreads DEF Pairing, DetInsideCall, TypesInv, Typed, TypeOK
<1>2. ASSUME dpc = "registered" PROVE pc'[Det] = "idle"
  <2>1. pc[Det] = "reg_find" /\ arg[Det] = target /\ RegFind(Det)
    BY <1>1, <1>2, CallSteps DEF Callback
  <2>2. FindResults(Det, arg[Det]) = {TRUE}
    BY <1>1, <2>1, TargetFound
  <2>3. Return(Det, FALSE)
    BY <2>1, <2>2 DEF RegFind
  <2> QED
    BY <1>1, <2>3 DEF Return, Goto
<1>3. ASSUME dpc = "connected?"
      PROVE  \/ pc'[Det] \in Asking /\ arg'[Det] = target
                /\ (pc'[Det] = "gcs_release" => consult')
             \/ pc'[Det] = "idle" /\ seen = "CONNECTED"
  <2>1. /\ pc[Det] \in Asking /\ arg[Det] = target
        /\ pc[Det] = "gcs_release" => consult \/ seen = "CONNECTED"
    BY <1>1, <1>3, CallSteps DEF Callback
  <2>2. CASE pc[Det] = "gcs_lock"
    <3>1. Goto(Det, "gcs_find") /\ arg' = arg
      BY <1>1, <2>2, CallSteps DEF GcsLock, Wait
    <3> QED
      BY <1>1, <2>1, <3>1 DEF Goto, Asking
  <2>3. CASE pc[Det] = "gcs_find"
    <3>1. FindResults(Det, arg[Det]) = {TRUE}
      BY <1>1, <2>1, TargetFound
    <3>2. GcsFind(Det)
      BY <1>1, <2>3, CallSteps
    <3>3. Goto(Det, "gcs_deref") /\ arg' = arg
      BY <3>1, <3>2 DEF GcsFind
    <3> QED
      BY <1>1, <2>1, <3>3 DEF Goto, Asking
  <2>4. CASE pc[Det] = "gcs_deref"
    <3>1. Goto(Det, "gcs_release") /\ arg' = arg
      BY <1>1, <2>4, CallSteps DEF GcsDeref
    <3>2. consult' = TRUE
      BY <1>1, <2>1, <2>4, TargetFound DEF DetInsideCall
    <3> QED
      BY <1>1, <2>1, <3>1, <3>2 DEF Goto, Asking
  <2>5. CASE pc[Det] = "gcs_release"
    <3>1. Return(Det, FALSE)
      BY <1>1, <2>5, CallSteps DEF GcsRelease, ReleaseAndReturn
    <3>2. pc'[Det] = "idle"
      BY <1>1, <3>1 DEF Return, Goto
    <3> QED
      BY <1>1, <2>1, <2>5, <3>2
  <2> QED
    BY <2>1, <2>2, <2>3, <2>4, <2>5 DEF Asking
<1>4. /\ dpc' \notin {"connecting?", "removed"}
      /\ dpc' = "registered" => pc'[Det] = "idle"
  BY <1>1, <1>2 DEF Callback
<1>5. dpc' = "connected?" =>
        \/ pc'[Det] \in Asking /\ arg'[Det] = target'
           /\ (pc'[Det] = "gcs_release" => consult' \/ seen' = "CONNECTED")
        \/ pc'[Det] = "idle" /\ seen' = "CONNECTED"
  BY <1>1, <1>3
<1> QED
  BY <1>4, <1>5 DEF Callback

LEMMA DetectorPairing ==
    ASSUME TypesInv, Pairing, dpc = "inquiry" \/ stayed, Detector
    PROVE  Callback'
<1>0. /\ arg \in [Thread -> Addr \cup {NULL}] /\ pc \in [Thread -> PcLabels] /\ Det \in Thread
      /\ target \in Addr
  BY ActorsThreads DEF TypesInv, MonitorTypeOK, Typed, TypeOK
<1>1. CASE DetInsideCall
  <2>1. CASE stayed
    BY <1>1, <2>1, InsideCallPairing
  <2>2. CASE dpc = "inquiry"
    BY <1>1, <2>2 DEF DetInsideCall, Callback
  <2> QED
    BY <2>1, <2>2
<1>2. CASE DetConsult
  <2>1. /\ UNCHANGED <<dpc, target, pc, arg>> /\ pc[Det] = "gcs_release"
        /\ seen' \in StatusOf(HandlerAt(Index(arg[Det])))
    BY <1>2 DEF DetConsult, At, localVars
  <2>2. CASE dpc = "inquiry"
    BY <2>1, <2>2 DEF Callback
  <2>3. CASE stayed
    <3>1. TargetConnected /\ pc[Mgr] \notin Relinking /\ Callback
      BY <2>3 DEF Pairing
    <3>2. dpc = "connected?" => seen' = "CONNECTED" /\ arg[Det] = target
      BY <2>1, <3>1, TargetFound DEF Callback
    <3> QED
      BY <2>1, <3>1, <3>2 DEF Callback
  <2> QED
    BY <2>2, <2>3
<1>3. CASE OnDeviceDiscovered
  <2>1. PICK a \in Addr : target' = a /\ Call(Det, "reg_find", a)
    BY <1>3 DEF OnDeviceDiscovered
  <2>2. pc'[Det] = "reg_find" /\ arg'[Det] = target' /\ dpc' = "registered"
    BY <1>0, <1>3, <2>1 DEF Call, Goto, OnDeviceDiscovered
  <2> QED
    BY <2>2 DEF Callback
<1>4. CASE RegisteringFailed
  BY <1>4 DEF RegisteringFailed, DetCall, Callback
<1>5. CASE CheckConnected
  <2>1. dpc' = "connected?" /\ Call(Det, "gcs_lock", target) /\ target' = target
    BY <1>5 DEF CheckConnected, DetCall
  <2>2. pc'[Det] = "gcs_lock" /\ arg'[Det] = target'
    BY <1>0, <2>1 DEF Call, Goto
  <2> QED
    BY <2>1, <2>2 DEF Callback, Asking
<1>6. CASE CheckConnecting
  <2>1. dpc = "connected?" /\ seen # "CONNECTED" /\ pc[Det] = "idle"
    BY <1>6 DEF CheckConnecting, DetCall, Call, At
  <2>2. Callback
    BY <2>1 DEF Pairing
  <2> QED
    BY <2>1, <2>2 DEF Callback, Asking
<1>7. CASE BluetoothRemoveDevice \/ ServicesUnreported
  BY <1>7 DEF BluetoothRemoveDevice, ServicesUnreported, Unpairs, Pairing, Callback
<1>8. CASE OnServiceDiscovered \/ ServiceSearchFailed
  BY <1>8 DEF OnServiceDiscovered, ServiceSearchFailed, DetCall, Callback
<1> QED
  BY <1>1, <1>2, <1>3, <1>4, <1>5, <1>6, <1>7, <1>8 DEF Detector

\* Neither the manager nor a handler moves the detector.
LEMMA OthersPairing ==
    ASSUME TypesInv, Pairing, dpc = "inquiry" \/ stayed,
           Manager \/ \E h \in Handler : HandlerRun(h)
    PROVE  Callback'
<1>1. UNCHANGED detVars
  <2>1. ASSUME MgrLock \/ MgrFetch \/ MgrVisit \/ MgrConnect \/ MgrPrint PROVE <1>1!:
    BY <2>1 DEF MgrLock, MgrFetch, MgrVisit, MgrConnect, MgrStep, MgrPrint
  <2>2. ASSUME MgrReap \/ MgrForget \/ MgrAdvance \/ MgrErase PROVE <1>1!:
    BY <2>2 DEF MgrReap, MgrForget, MgrStep, MgrAdvance, MgrErase
  <2>3. ASSUME MgrInsideCall \/ MgrRelease PROVE <1>1!:
    BY <2>3 DEF MgrInsideCall, MgrRelease
  <2> QED
    BY <2>1, <2>2, <2>3 DEF Manager, HandlerRun
<1>2. pc'[Det] = pc[Det] /\ arg'[Det] = arg[Det]
  <2>0. /\ pc \in [Thread -> PcLabels] /\ arg \in [Thread -> Addr \cup {NULL}]
        /\ Det \in Thread /\ Mgr \in Thread /\ Det # Mgr
    BY ActorsThreads, ActorsAssumption DEF TypesInv, Typed, TypeOK
  <2>1. ASSUME MgrLock \/ MgrFetch \/ MgrVisit \/ MgrConnect \/ MgrPrint PROVE <1>2!:
    BY <2>1 DEF MgrLock, MgrFetch, MgrVisit, MgrConnect, MgrStep, MgrPrint, localVars
  <2>2. ASSUME MgrReap \/ MgrForget \/ MgrAdvance \/ MgrRelease PROVE <1>2!:
    BY <2>2 DEF MgrReap, MgrForget, MgrStep, MgrAdvance, MgrRelease, localVars
  <2>3. ASSUME MgrErase PROVE <1>2!:
    <3>1. pc' = [pc EXCEPT ![Mgr] = "unp_find"] /\ arg' = arg
      BY <2>3 DEF MgrErase
    <3> QED
      BY <2>0, <3>1
  <2>4. ASSUME Step(Mgr) PROVE <1>2!:
    BY <2>0, <2>4, OthersPc DEF TypesInv
  <2>5. ASSUME UnpFind(Mgr) PROVE <1>2!:
    <3>1. (Goto(Mgr, "unp_call") /\ arg' = arg) \/ Return(Mgr, FALSE)
      BY <2>5 DEF UnpFind
    <3> QED
      BY <2>0, <3>1 DEF Goto, Return
  <2>6. ASSUME UnpCall(Mgr) PROVE <1>2!:
    BY <2>0, <2>6 DEF UnpCall, Goto
  <2>7. ASSUME NEW h \in Handler, HandlerRun(h) PROVE <1>2!:
    BY <2>7 DEF HandlerRun, registryVars, localVars
  <2> QED
    BY <2>1, <2>2, <2>3, <2>4, <2>5, <2>6, <2>7 DEF Manager, MgrInsideCall
<1>3. dpc # "inquiry" => Callback
  BY DEF Pairing
<1> QED
  BY <1>1, <1>2, <1>3 DEF detVars, Callback

LEMMA PairingKept ==
    ASSUME TypesInv, Pairing, [MonitorNext]_vars
    PROVE  Pairing'
<1>1. ASSUME Detector \/ Manager \/ \E h \in Handler : HandlerRun(h), Remember
      PROVE  Pairing'
  <2>1. stayed' = /\ dpc = "inquiry" \/ stayed
                  /\ TargetConnected'
                  /\ pc'[Mgr] \notin Relinking
    BY <1>1 DEF Remember
  <2>2. SUFFICES ASSUME stayed' PROVE Pairing'
    BY DEF Pairing
  <2>3. (dpc = "inquiry" \/ stayed) /\ TargetConnected' /\ pc'[Mgr] \notin Relinking
    BY <2>1, <2>2
  <2>4. Callback'
    BY <1>1, <2>3, DetectorPairing, OthersPairing
  <2> QED
    BY <2>3, <2>4 DEF Pairing
<1>2. ASSUME UNCHANGED vars PROVE Pairing'
  BY <1>2 DEF vars, registryVars, heapVars, localVars, detVars, Pairing, TargetConnected,
              HandlerAt, Callback
<1> QED
  BY <1>1, <1>2 DEF MonitorNext, DetectorThread, ManagerThread, HandlerThread

\* A paired device that has been connected ever since the inquiry reported it is not
\* un-paired, whatever memory the two threads have freed or reused in between, with
\* and without the mutex (BTDeviceManager.cpp:31-40).
THEOREM PairingSurvives == MonitorSpec => []ConnectedKeepsPairing
<1>1. MonitorInit => Pairing
  BY DEF MonitorInit, Pairing
<1>2. TypesInv /\ Pairing /\ [MonitorNext]_vars => Pairing'
  BY PairingKept
<1>3. Pairing => ConnectedKeepsPairing
  BY DEF Pairing, Callback, ConnectedKeepsPairing, Unpairs
<1> QED
  BY <1>1, <1>2, <1>3, MonitorTypes, PTL DEF MonitorSpec

-----------------------------------------------------------------------------
(* What the devices know of the handlers, until a fault happens.             *)

\* The operations of the registry fault in the ways of Faults.
LEMMA StepFaults ==
    ASSUME NEW t \in Thread, Step(t) \/ UnpFind(t) \/ UnpCall(t)
    PROVE  NoFault \/ \E k \in Faults : Fault(k)
<1>1. ASSUME \/ RegLock(t) \/ UpdLock(t) \/ SvcLock(t) \/ UnrLock(t) \/ GcsLock(t) \/ LstLock(t)
      PROVE  NoFault
  BY <1>1 DEF RegLock, UpdLock, SvcLock, UnrLock, GcsLock, LstLock, Wait, NoFault
<1>2. ASSUME \/ RegRelease(t) \/ UpdRelease(t) \/ SvcRelease(t)
             \/ UnrRelease(t) \/ GcsRelease(t) \/ LstRelease(t)
      PROVE  NoFault
  BY <1>2 DEF RegRelease, UpdRelease, SvcRelease, UnrRelease,
              GcsRelease, LstRelease, ReleaseAndReturn, NoFault
<1>3. ASSUME \/ UpdFind(t) \/ SvcFind(t) \/ UnrCheck(t)
             \/ RegFind(t) \/ RegCheck(t) \/ UpdIndex(t) \/ SvcIndex(t) \/ GcsFind(t)
      PROVE  NoFault \/ \E k \in Faults : Fault(k)
  <2>1. FindFault(t)
    BY <1>3 DEF UpdFind, SvcFind, UnrCheck, FindOrReturn, RegFind, RegCheck, UpdIndex, SvcIndex,
                IndexDevice, GcsFind
  <2> QED
    BY <2>1, FindFaults
<1>4. ASSUME RegInsert(t) \/ UnrErase(t) PROVE NoFault \/ Fault("map_race")
  BY <1>4 DEF RegInsert, UnrErase, EndRelink
<1>5. ASSUME RegDelete(t) \/ UnrDelete(t) PROVE NoFault \/ Fault("double_free")
  BY <1>5 DEF RegDelete, UnrDelete, Delete
<1>6. ASSUME UpdWrite(t) \/ SvcWrite(t) PROVE NoFault \/ \E k \in Faults : Fault(k)
  <2>1. Deref(obj[t])
    BY <1>6 DEF UpdWrite, SvcWrite
  <2> QED
    BY <2>1, DerefFaults
<1>7. ASSUME GcsDeref(t) \/ UnpFind(t) \/ UnpCall(t)
      PROVE  NoFault \/ \E k \in Faults : Fault(k)
  <2>1. FindFault(t) \/ \E p : Deref(p)
    BY <1>7 DEF GcsDeref, UnpFind, UnpCall
  <2> QED
    BY <2>1, DerefFaults, FindFaults
<1>8. ASSUME LstWalk(t) PROVE NoFault \/ Fault("use_after_free")
  BY <1>8 DEF LstWalk
<1> QED
  BY <1>1, <1>2, <1>3, <1>4, <1>5, <1>6, <1>7, <1>8 DEF Step, Faults

\* The manager calls nothing but UnregisterDevice.
Unregistering == {"idle", "unp_find", "unp_call",
                  "unr_lock", "unr_check", "unr_delete", "unr_erase", "unr_release"}

LEMMA UnregisterOnly ==
    ASSUME NEW t \in Thread, pc[t] \in Unregistering, Step(t)
    PROVE  UnrLock(t) \/ UnrCheck(t) \/ UnrDelete(t) \/ UnrErase(t) \/ UnrRelease(t)
<1> USE DEF Unregistering, At
<1>1. ASSUME \/ RegLock(t) \/ UpdLock(t) \/ SvcLock(t) \/ GcsLock(t) \/ LstLock(t) PROVE FALSE
  BY <1>1 DEF RegLock, UpdLock, SvcLock, GcsLock, LstLock, Wait
<1>2. ASSUME \/ UpdFind(t) \/ SvcFind(t) \/ UpdRelease(t) \/ SvcRelease(t) \/ GcsRelease(t)
             \/ LstRelease(t)
      PROVE  FALSE
  BY <1>2 DEF UpdFind, SvcFind, FindOrReturn, UpdRelease, SvcRelease, GcsRelease, LstRelease,
              ReleaseAndReturn
<1>3. ASSUME RegFind(t) \/ RegCheck(t) \/ RegInsert(t) \/ RegRelease(t) \/ RegDelete(t)
      PROVE  FALSE
  BY <1>3 DEF RegFind, RegCheck, RegInsert, RegRelease, RegDelete
<1>4. ASSUME UpdIndex(t) \/ SvcIndex(t) PROVE FALSE
  BY <1>4 DEF UpdIndex, SvcIndex, IndexDevice
<1>5. ASSUME UpdWrite(t) \/ SvcWrite(t) PROVE FALSE
  <2>1. pc[t] \in {"upd_write", "svc_write"}
    BY <1>5 DEF UpdWrite, SvcWrite
  <2> QED
    BY <2>1
<1>6. ASSUME GcsFind(t) \/ GcsDeref(t) \/ LstWalk(t) PROVE FALSE
  BY <1>6 DEF GcsFind, GcsDeref, LstWalk
<1> HIDE DEF At
<1> QED
  BY <1>1, <1>2, <1>3, <1>4, <1>5, <1>6 DEF Step

LEMMA UnregisterSteps ==
    ASSUME Typed, NEW t \in Thread, pc[t] \in Unregistering, Step(t) \/ UnpFind(t) \/ UnpCall(t)
    PROVE  pc'[t] \in Unregistering /\ live' \subseteq live
<1> USE DEF Unregistering, At
<1>0. pc \in [Thread -> PcLabels]
  BY DEF Typed, TypeOK
<1>1. \/ UnrLock(t) \/ UnrCheck(t) \/ UnrDelete(t) \/ UnrErase(t) \/ UnrRelease(t)
      \/ UnpFind(t) \/ UnpCall(t)
  BY UnregisterOnly
<1>2. ASSUME UnrLock(t) \/ UnrCheck(t) \/ UnrRelease(t)
      PROVE  pc'[t] \in Unregistering /\ live' = live
  BY <1>0, <1>2 DEF UnrLock, Wait, UnrCheck, FindOrReturn, UnrRelease, ReleaseAndReturn, Return,
                    Goto, heapVars
<1>3. ASSUME UnrDelete(t) PROVE pc'[t] \in Unregistering /\ live' \subseteq live
  BY <1>0, <1>3 DEF UnrDelete, Delete, Goto
<1>4. ASSUME UnrErase(t) PROVE pc'[t] \in Unregistering /\ live' = live
  BY <1>0, <1>4 DEF UnrErase, Goto
<1>5. ASSUME UnpFind(t) PROVE pc'[t] \in Unregistering /\ live' = live
  <2>1. Goto(t, "unp_call") \/ Return(t, FALSE)
    BY <1>5 DEF UnpFind
  <2> QED
    BY <1>0, <1>5, <2>1 DEF UnpFind, Return, Goto, heapVars
<1>6. ASSUME UnpCall(t) PROVE pc'[t] \in Unregistering /\ live' = live
  BY <1>0, <1>6 DEF UnpCall, Goto, heapVars
<1> QED
  BY <1>1, <1>2, <1>3, <1>4, <1>5, <1>6

\* A device's handler has not been deleted, unless the manager is just about to
\* forget it, and no other device points to it.
Sole(p) == \A q \in live \ {p} : m_pSockHandler[q] # m_pSockHandler[p]
Kept(p) == /\ handler[m_pSockHandler[p]] = "free" => mpc = "forget" /\ p = pDev
           /\ Sole(p)
Pointers == \A p \in live : m_pSockHandler[p] # NULL => Kept(p)

\* The handler the manager is about to delete is still no other device's, even if the
\* device has been freed since the manager looked at it.
Doomed == mpc = "reap" /\ m_pSockHandler[pDev] # NULL => Sole(pDev)

\* Nothing has gone wrong but searches beside an erasure.
Clean == fault \subseteq {"find_race"}

KnownHandlers ==
    /\ pc[Mgr] \in Unregistering
    /\ MaxFaults = 0 /\ up => Clean
    /\ MaxFaults = 0 \/ Clean => Pointers
    /\ Clean => Doomed

LEMMA ProcessSteps ==
    ASSUME TypesInv, NoFault \/ \E k \in Faults : Fault(k),
           up, KnownHandlers
    PROVE  /\ Clean' => Clean
           /\ MaxFaults = 0 => Clean
           /\ MaxFaults = 0 /\ up' => Clean'
<1>0. MaxFaults = 0 => Clean
  BY DEF KnownHandlers
<1>1. CASE NoFault
  BY <1>0, <1>1 DEF NoFault, procVars, Clean
<1>2. ASSUME NEW k \in Faults, Fault(k)
      PROVE  /\ Clean' => Clean
             /\ MaxFaults = 0 /\ up' => Clean'
  <2>1. fault' = fault \cup {k}
    BY <1>2 DEF Fault
  <2>2. ASSUME MaxFaults = 0, k # "find_race" PROVE ~up'
    <3>1. fault \ {"find_race"} = {}
      BY <1>0, <2>2 DEF Clean
    <3>2. Cardinality(fault \ {"find_race"}) = 0
      BY <3>1, FS_EmptySet
    <3>3. up' \in {FALSE}
      BY <1>2, <2>2, <3>2 DEF Fault
    <3> QED
      BY <3>3
  <2> QED
    BY <1>0, <2>1, <2>2 DEF Clean
<1> QED
  BY <1>0, <1>1, <1>2

\* Cells are freed and constructed, and nothing else about devices and handlers changes.
LEMMA HeapPointers ==
    ASSUME KnownHandlers, m_pSockHandler' = [p \in Ptr |-> IF p \in live' \ live THEN NULL
                                                         ELSE m_pSockHandler[p]],
           TypesInv, TypesInv', UNCHANGED <<handler, mpc, pDev>>
    PROVE  /\ Pointers => Pointers'
           /\ Doomed => Doomed'
<1>1. /\ live \subseteq Ptr /\ live' \subseteq Ptr /\ m_pSockHandler \in [Ptr -> Handler \cup {NULL}]
      /\ mpc = "reap" => pDev \in Ptr
  BY DEF TypesInv, MonitorTypeOK, TypeOK, Passing, Handling
<1>2. \A p \in Ptr : /\ m_pSockHandler'[p] = IF p \in live' \ live THEN NULL ELSE m_pSockHandler[p]
                     /\ p \in live' /\ m_pSockHandler'[p] # NULL => p \in live
  OBVIOUS
<1>3. ASSUME NEW p \in Ptr, m_pSockHandler'[p] # NULL
      PROVE  m_pSockHandler'[p] = m_pSockHandler[p] /\ (Sole(p) => Sole(p)')
  BY <1>1, <1>2, <1>3 DEF Sole
<1> QED
  BY <1>1, <1>2, <1>3 DEF Pointers, Kept, Doomed

\* The walk looks at devices, and changes none.
LEMMA WalkPointers ==
    ASSUME KnownHandlers, UNCHANGED <<m_pSockHandler, handler>>, live' \subseteq live,
           mpc # "forget" \/ UNCHANGED <<mpc, pDev>>
    PROVE  /\ Pointers => Pointers'
           /\ Doomed /\ UNCHANGED <<mpc, pDev>> => Doomed'
<1>1. \A p : Sole(p) => Sole(p)'
  BY DEF Sole
<1> QED
  BY <1>1 DEF Pointers, Kept, Doomed

\* Nothing runs in a process that has ended.
LEMMA StepUp == ASSUME NEW t \in Thread, Step(t) \/ UnpFind(t) \/ UnpCall(t) PROVE up
<1> USE DEF At
<1>1. ASSUME \/ RegLock(t) \/ UpdLock(t) \/ SvcLock(t) \/ UnrLock(t) \/ GcsLock(t) \/ LstLock(t)
      PROVE  up
  BY <1>1 DEF RegLock, UpdLock, SvcLock, UnrLock, GcsLock, LstLock, Wait
<1>2. ASSUME \/ UpdFind(t) \/ SvcFind(t) \/ UnrCheck(t) \/ UpdRelease(t) \/ SvcRelease(t)
             \/ UnrRelease(t) \/ GcsRelease(t) \/ LstRelease(t)
      PROVE  up
  BY <1>2 DEF UpdFind, SvcFind, UnrCheck, FindOrReturn, UpdRelease, SvcRelease, UnrRelease,
              GcsRelease, LstRelease, ReleaseAndReturn
<1>3. ASSUME RegFind(t) \/ RegCheck(t) \/ RegInsert(t) \/ RegRelease(t) \/ RegDelete(t) PROVE up
  BY <1>3 DEF RegFind, RegCheck, RegInsert, RegRelease, RegDelete
<1>4. ASSUME UpdIndex(t) \/ SvcIndex(t) \/ UnrDelete(t) \/ UnrErase(t) PROVE up
  BY <1>4 DEF UpdIndex, SvcIndex, IndexDevice, UnrDelete, UnrErase
<1>5. ASSUME UpdWrite(t) \/ SvcWrite(t) PROVE up
  BY <1>5 DEF UpdWrite, SvcWrite
<1>6. ASSUME GcsFind(t) \/ GcsDeref(t) \/ LstWalk(t) \/ UnpFind(t) \/ UnpCall(t) PROVE up
  BY <1>6 DEF GcsFind, GcsDeref, LstWalk, UnpFind, UnpCall
<1> HIDE DEF At
<1> QED
  BY <1>1, <1>2, <1>3, <1>4, <1>5, <1>6 DEF Step

LEMMA DetectorPointers ==
    ASSUME TypesInv, TypesInv', KnownHandlers, Detector
    PROVE  KnownHandlers'
<1>0. pc \in [Thread -> PcLabels] /\ Det \in Thread /\ Mgr \in Thread /\ Det # Mgr
  BY ActorsThreads, ActorsAssumption DEF TypesInv, Typed, TypeOK
<1>1. /\ up /\ UNCHANGED <<handler, mgrVars>> /\ pc'[Mgr] = pc[Mgr]
      /\ NoFault \/ \E k \in Faults : Fault(k)
      /\ m_pSockHandler' = [p \in Ptr |-> IF p \in live' \ live THEN NULL ELSE m_pSockHandler[p]]
  <2>0. live' = live /\ m_pSockHandler' = m_pSockHandler =>
          m_pSockHandler' = [p \in Ptr |-> IF p \in live' \ live THEN NULL ELSE m_pSockHandler[p]]
    BY DEF TypesInv, MonitorTypeOK
  <2>1. CASE DetInsideCall
    <3>1. Step(Det)
      BY <2>1 DEF DetInsideCall
    <3>2. up /\ (NoFault \/ \E k \in Faults : Fault(k))
      BY <1>0, <3>1, StepUp, StepFaults
    <3>3. pc'[Mgr] = pc[Mgr]
      BY <1>0, <3>1, OthersPc DEF TypesInv
    <3> QED
      BY <2>1, <3>2, <3>3 DEF DetInsideCall
  <2>2. CASE DetConsult
    <3>1. \/ Fault("null_deref") \/ Fault("use_after_free")
          \/ AskHandler(HandlerAt(Index(arg[Det])))
      BY <2>2 DEF DetConsult
    <3>2. NoFault \/ \E k \in Faults : Fault(k)
      BY <3>1, AskFaults DEF Faults
    <3>3. up /\ UNCHANGED <<live, localVars, m_pSockHandler, handler, mgrVars>>
      BY <2>2 DEF DetConsult, At
    <3> QED
      BY <2>0, <3>2, <3>3 DEF localVars
  <2>3. ASSUME NEW l, NEW a, Call(Det, l, a), UNCHANGED <<m_pSockHandler, handler, mgrVars>>
        PROVE  <1>1!:
    <3>1. up /\ pc'[Mgr] = pc[Mgr] /\ NoFault /\ live' = live
      BY <1>0, <2>3 DEF Call, At, Goto, NoFault, heapVars
    <3> QED
      BY <2>0, <2>3, <3>1
  <2>4. CASE BluetoothRemoveDevice \/ ServicesUnreported
    <3>1. up /\ UNCHANGED <<registryVars, m_pSockHandler, handler, mgrVars>>
      BY <2>4 DEF BluetoothRemoveDevice, ServicesUnreported, Unpairs, At
    <3> QED
      BY <2>0, <3>1 DEF registryVars, heapVars, localVars, NoFault
  <2>5. CASE OnDeviceDiscovered
    <3>1. PICK a \in Addr : Call(Det, "reg_find", a)
      BY <2>5 DEF OnDeviceDiscovered
    <3> QED
      BY <2>3, <2>5, <3>1 DEF OnDeviceDiscovered
  <2>6. ASSUME NEW l \in Operations, NEW to \in DetSteps, DetCall(l, to) PROVE <1>1!:
    BY <2>3, <2>6 DEF DetCall
  <2> QED
    BY <2>1, <2>2, <2>4, <2>5, <2>6, DetectorCalls
<1>2. /\ Clean' => Clean
      /\ MaxFaults = 0 => Clean
      /\ MaxFaults = 0 /\ up' => Clean'
  BY <1>1, ProcessSteps
<1>3. (Pointers => Pointers') /\ (Doomed => Doomed')
  BY <1>1, HeapPointers DEF mgrVars
<1> QED
  BY <1>1, <1>2, <1>3 DEF KnownHandlers

LEMMA HandlerPointers ==
    ASSUME TypesInv, KnownHandlers, NEW h \in Handler, HandlerRun(h)
    PROVE  KnownHandlers'
<1>1. UNCHANGED <<registryVars, m_pSockHandler, detVars, mgrVars>>
  BY DEF HandlerRun
<1>2. PICK to \in AllHandlerStates : /\ <<handler[h], to>> \in HandlerMoves
                                     /\ handler' = [handler EXCEPT ![h] = to]
  BY DEF HandlerRun
<1>3. to # "free"
  BY <1>2 DEF HandlerMoves
<1>4. \A g \in Handler : handler'[g] = "free" => handler[g] = "free"
  BY <1>2, <1>3 DEF TypesInv, MonitorTypeOK
<1>5. \A p \in live : m_pSockHandler[p] # NULL => m_pSockHandler[p] \in Handler
  BY DEF TypesInv, MonitorTypeOK, TypeOK
<1>6. UNCHANGED <<live, pc, fault, up, mpc, pDev, m_pSockHandler>>
  BY <1>1 DEF registryVars, heapVars, localVars, procVars, mgrVars
<1>7. (Pointers => Pointers') /\ (Doomed => Doomed')
  BY <1>4, <1>5, <1>6 DEF Pointers, Kept, Sole, Doomed
<1> QED
  BY <1>6, <1>7 DEF KnownHandlers, Clean

\* What the steps of the walk do to the process and to the calls.
LEMMA WalkProcess ==
    ASSUME TypesInv, KnownHandlers, MgrAt(mpc), pc' = pc,
           NoFault \/ \E k \in Faults : Fault(k),
           MaxFaults = 0 \/ Clean => Pointers', Clean' => Doomed'
    PROVE  KnownHandlers'
<1>1. up
  BY DEF MgrAt
<1>2. /\ Clean' => Clean
      /\ MaxFaults = 0 => Clean
      /\ MaxFaults = 0 /\ up' => Clean'
  BY <1>1, ProcessSteps
<1> QED
  BY <1>2 DEF KnownHandlers

LEMMA ManagerWalkPointers ==
    ASSUME TypesInv, KnownHandlers,
           MgrLock \/ MgrFetch \/ MgrPrint \/ MgrAdvance \/ MgrRelease
    PROVE  KnownHandlers'
<1>1. /\ MgrAt(mpc) /\ mpc \in {"sleeping", "walk", "print", "advance"}
      /\ mpc' \in {"walk", "visit", "advance", "sleeping"}
      /\ UNCHANGED <<heapVars, localVars, m_pSockHandler, handler>>
  <2>1. ASSUME MgrLock \/ MgrAdvance \/ MgrRelease PROVE <1>1!:
    BY <2>1 DEF MgrLock, MgrAdvance, MgrRelease, MgrAt, MgrGoto
  <2>2. ASSUME MgrFetch \/ MgrPrint PROVE <1>1!:
    BY <2>2 DEF MgrFetch, MgrPrint, MgrAt, MgrGoto
  <2> QED
    BY <2>1, <2>2
<1>2. NoFault \/ \E k \in Faults : Fault(k)
  <2>1. ASSUME MgrLock \/ MgrRelease PROVE NoFault
    BY <2>1 DEF MgrLock, MgrRelease, NoFault
  <2>2. ASSUME MgrFetch \/ MgrAdvance
        PROVE  NoFault \/ FindFault(Mgr) \/ Fault("use_after_free")
    BY <2>2 DEF MgrFetch, MgrAdvance
  <2>3. ASSUME MgrPrint PROVE AskHandler(m_pSockHandler[pDev]) \/ Fault("use_after_free")
    BY <2>3 DEF MgrPrint
  <2> QED
    BY <2>1, <2>2, <2>3, AskFaults, FindFaults DEF Faults
<1>3. pc' = pc /\ live' = live
  BY <1>1 DEF heapVars, localVars
<1>4. Pointers => Pointers'
  BY <1>1, <1>3, WalkPointers
<1>5. Doomed'
  BY <1>1 DEF Doomed
<1> QED
  BY <1>1, <1>2, <1>3, <1>4, <1>5, WalkProcess DEF KnownHandlers

LEMMA ManagerVisitPointers ==
    ASSUME TypesInv, KnownHandlers, MgrVisit
    PROVE  KnownHandlers'
<1>1. /\ MgrAt(mpc) /\ mpc = "visit" /\ UNCHANGED <<heapVars, localVars, m_pSockHandler, handler>>
      /\ pDev' = pDev
      /\ IF pDev \notin live \/ StateOf(m_pSockHandler[pDev]) = "free"
         THEN Fault("use_after_free") ELSE NoFault
  BY DEF MgrVisit, MgrAt
<1>2. NoFault \/ \E k \in Faults : Fault(k)
  BY <1>1 DEF Faults
<1>3. pc' = pc /\ live' = live
  BY <1>1 DEF heapVars, localVars
<1>4. Pointers => Pointers'
  BY <1>1, <1>3, WalkPointers
<1>5. ASSUME Clean' PROVE Doomed'
  <2>1. pDev \in live
    <3>1. Fault("use_after_free") => "use_after_free" \in fault'
      BY DEF Fault
    <3>2. "use_after_free" \notin fault'
      BY <1>5 DEF Clean
    <3> QED
      BY <1>1, <3>1, <3>2
  <2>2. Clean
    BY <1>1, <1>2, <1>5, ProcessSteps DEF MgrAt
  <2>3. Pointers
    BY <2>2 DEF KnownHandlers
  <2> QED
    BY <1>1, <1>3, <2>1, <2>3 DEF Pointers, Kept, Sole, Doomed
<1> QED
  BY <1>1, <1>2, <1>3, <1>4, <1>5, WalkProcess DEF KnownHandlers

LEMMA ManagerConnectPointers ==
    ASSUME TypesInv, KnownHandlers, MgrConnect
    PROVE  KnownHandlers'
<1>1. /\ MgrAt(mpc) /\ mpc = "connect" /\ mpc' = "advance" /\ Deref(pDev)
      /\ UNCHANGED <<heapVars, localVars, pDev>>
  BY DEF MgrConnect, MgrStep, MgrAt, MgrGoto
<1>2. NoFault \/ \E k \in Faults : Fault(k)
  BY <1>1, DerefFaults
<1>3. pc' = pc /\ live' = live
  BY <1>1 DEF heapVars, localVars
<1>4. ASSUME Pointers PROVE Pointers'
  <2>1. CASE UNCHANGED <<m_pSockHandler, handler>>
    BY <1>1, <1>3, <1>4, <2>1, WalkPointers
  <2>2. ASSUME NEW h \in Available, m_pSockHandler' = [m_pSockHandler EXCEPT ![pDev] = h],
               handler' = [handler EXCEPT ![h] = "started"]
        PROVE  Pointers'
    <3>1. /\ m_pSockHandler \in [Ptr -> Handler \cup {NULL}] /\ live \subseteq Ptr /\ h \in Handler
          /\ handler \in [Handler -> AllHandlerStates] /\ NULL \notin Handler
      BY HandlerAssumption DEF TypesInv, MonitorTypeOK, TypeOK, Available
    <3>2. \A p \in live : m_pSockHandler[p] # h
      BY <1>1, <1>4, <3>1 DEF Available, Pointers, Kept
    <3>3. \A p \in Ptr : m_pSockHandler'[p] = IF p = pDev THEN h ELSE m_pSockHandler[p]
      BY <2>2, <3>1
    <3>4. \A g \in Handler : handler'[g] = IF g = h THEN "started" ELSE handler[g]
      BY <2>2, <3>1
    <3>5. ASSUME NEW p \in live, m_pSockHandler'[p] # NULL
          PROVE  handler'[m_pSockHandler'[p]] # "free" /\ Sole(p)'
      <4>1. CASE p = pDev
        <5>1. m_pSockHandler'[p] = h
          BY <3>1, <3>3, <4>1
        <5> QED
          BY <1>3, <3>1, <3>2, <3>3, <3>4, <4>1, <5>1 DEF Sole
      <4>2. CASE p # pDev
        <5>1. m_pSockHandler'[p] = m_pSockHandler[p] /\ m_pSockHandler[p] \in Handler \ {h}
          BY <3>1, <3>2, <3>3, <3>5, <4>2
        <5>2. handler[m_pSockHandler[p]] # "free" /\ Sole(p)
          BY <1>1, <1>4, <3>5, <5>1 DEF Pointers, Kept
        <5>3. handler'[m_pSockHandler'[p]] # "free"
          BY <3>4, <5>1, <5>2
        <5>4. Sole(p)'
          BY <1>3, <3>1, <3>3, <5>1, <5>2 DEF Sole
        <5> QED
          BY <5>3, <5>4
      <4> QED
        BY <4>1, <4>2
    <3> QED
      BY <1>3, <3>5 DEF Pointers, Kept
  <2> QED
    BY <2>1, <2>2 DEF MgrConnect
<1>5. Doomed'
  BY <1>1 DEF Doomed
<1> QED
  BY <1>1, <1>2, <1>3, <1>4, <1>5, WalkProcess DEF KnownHandlers

LEMMA ManagerReapPointers ==
    ASSUME TypesInv, KnownHandlers, MgrReap
    PROVE  KnownHandlers'
<1> DEFINE g == m_pSockHandler[pDev]
<1>1. /\ MgrAt(mpc) /\ mpc = "reap" /\ mpc' = "forget"
      /\ UNCHANGED <<heapVars, localVars, m_pSockHandler, pDev>>
      /\ handler' = [h \in Handler |-> IF h = g THEN "free" ELSE handler[h]]
  BY DEF MgrReap, MgrAt, MgrGoto
<1>2. NoFault \/ \E k \in Faults : Fault(k)
  <2>1. NoFault \/ Fault("use_after_free") \/ Fault("double_free")
    BY DEF MgrReap
  <2> QED
    BY <2>1 DEF Faults
<1>3. pc' = pc /\ live' = live
  BY <1>1 DEF heapVars, localVars
<1>4. ASSUME Pointers, Doomed PROVE Pointers'
  <2>1. /\ m_pSockHandler \in [Ptr -> Handler \cup {NULL}] /\ live \subseteq Ptr
    BY DEF TypesInv, MonitorTypeOK, TypeOK
  <2>2. \A p \in live : Sole(p) => Sole(p)'
    BY <1>1, <1>3 DEF Sole
  <2>3. ASSUME NEW p \in live, m_pSockHandler[p] # NULL, p # pDev
        PROVE  handler'[m_pSockHandler[p]] # "free"
    <3>1. m_pSockHandler[p] # g
      BY <1>1, <1>4, <2>3 DEF Doomed, Sole
    <3>2. m_pSockHandler[p] \in Handler
      BY <2>1, <2>3
    <3>3. handler[m_pSockHandler[p]] # "free"
      BY <1>1, <1>4, <2>3 DEF Pointers, Kept
    <3> QED
      BY <1>1, <3>1, <3>2, <3>3
  <2> QED
    BY <1>1, <1>3, <1>4, <2>2, <2>3 DEF Pointers, Kept
<1>5. Doomed'
  BY <1>1 DEF Doomed
<1>6. MaxFaults = 0 \/ Clean => Pointers /\ Doomed
  BY <1>1, <1>2, ProcessSteps DEF KnownHandlers, MgrAt
<1> QED
  BY <1>1, <1>2, <1>3, <1>4, <1>5, <1>6, WalkProcess

LEMMA ManagerForgetPointers ==
    ASSUME TypesInv, KnownHandlers, MgrForget
    PROVE  KnownHandlers'
<1>1. /\ MgrAt(mpc) /\ mpc = "forget" /\ mpc' = "advance" /\ Deref(pDev)
      /\ UNCHANGED <<heapVars, localVars, handler, pDev>>
      /\ m_pSockHandler' = [m_pSockHandler EXCEPT ![pDev] = NULL]
  BY DEF MgrForget, MgrStep, MgrAt, MgrGoto
<1>2. NoFault \/ \E k \in Faults : Fault(k)
  BY <1>1, DerefFaults
<1>3. pc' = pc /\ live' = live
  BY <1>1 DEF heapVars, localVars
<1>4. ASSUME Pointers PROVE Pointers'
  <2>1. /\ m_pSockHandler \in [Ptr -> Handler \cup {NULL}] /\ live \subseteq Ptr
    BY DEF TypesInv, MonitorTypeOK, TypeOK
  <2>2. \A p \in Ptr : m_pSockHandler'[p] = IF p = pDev THEN NULL ELSE m_pSockHandler[p]
    BY <1>1, <2>1
  <2>3. ASSUME NEW p \in live, m_pSockHandler'[p] # NULL
        PROVE  handler[m_pSockHandler'[p]] # "free" /\ Sole(p)'
    <3>1. m_pSockHandler'[p] = m_pSockHandler[p] /\ p # pDev
      BY <2>1, <2>2, <2>3
    <3>2. handler[m_pSockHandler[p]] # "free" /\ Sole(p)
      BY <1>4, <2>3, <3>1 DEF Pointers, Kept
    <3> QED
      BY <1>3, <2>1, <2>2, <2>3, <3>1, <3>2 DEF Sole
  <2> QED
    BY <1>1, <1>3, <2>3 DEF Pointers, Kept
<1>5. Doomed'
  BY <1>1 DEF Doomed
<1> QED
  BY <1>1, <1>2, <1>3, <1>4, <1>5, WalkProcess DEF KnownHandlers

LEMMA ManagerErasePointers ==
    ASSUME TypesInv, KnownHandlers, MgrErase \/ MgrInsideCall
    PROVE  KnownHandlers'
<1>0. Mgr \in Thread /\ pc \in [Thread -> PcLabels]
  BY ActorsThreads DEF TypesInv, Typed, TypeOK
<1>1. /\ up /\ UNCHANGED <<m_pSockHandler, handler, mpc, pDev>>
      /\ NoFault \/ \E k \in Faults : Fault(k)
      /\ pc'[Mgr] \in Unregistering /\ live' \subseteq live
  <2>1. CASE MgrErase
    <3>1. /\ up /\ pc' = [pc EXCEPT ![Mgr] = "unp_find"]
          /\ UNCHANGED <<heapVars, procVars, m_pSockHandler, handler, mpc, pDev>>
      BY <2>1 DEF MgrErase, MgrAt
    <3> QED
      BY <1>0, <3>1 DEF heapVars, NoFault, Unregistering
  <2>2. CASE MgrInsideCall
    <3>1. /\ Step(Mgr) \/ UnpFind(Mgr) \/ UnpCall(Mgr)
          /\ UNCHANGED <<m_pSockHandler, handler, mgrVars>>
      BY <2>2 DEF MgrInsideCall
    <3>2. up /\ (NoFault \/ \E k \in Faults : Fault(k))
      BY <1>0, <3>1, StepUp, StepFaults
    <3>3. pc'[Mgr] \in Unregistering /\ live' \subseteq live
      BY <1>0, <3>1, UnregisterSteps DEF TypesInv, KnownHandlers
    <3> QED
      BY <3>1, <3>2, <3>3 DEF mgrVars
  <2> QED
    BY <2>1, <2>2
<1>2. /\ Clean' => Clean
      /\ MaxFaults = 0 => Clean
      /\ MaxFaults = 0 /\ up' => Clean'
  BY <1>1, ProcessSteps
<1>3. (Pointers => Pointers') /\ (Doomed => Doomed')
  BY <1>1, WalkPointers
<1> QED
  BY <1>1, <1>2, <1>3 DEF KnownHandlers

LEMMA PointersKept ==
    ASSUME TypesInv, TypesInv', KnownHandlers, [MonitorNext]_vars
    PROVE  KnownHandlers'
<1>1. ASSUME UNCHANGED vars PROVE KnownHandlers'
  <2>1. UNCHANGED <<pc, live, fault, up, m_pSockHandler, handler, mpc, pDev>>
    BY <1>1 DEF vars, registryVars, heapVars, localVars, procVars, mgrVars
  <2> QED
    BY <2>1 DEF KnownHandlers, Pointers, Kept, Sole, Doomed, Clean
<1>2. ASSUME Manager PROVE KnownHandlers'
  BY <1>2, ManagerWalkPointers, ManagerVisitPointers, ManagerConnectPointers,
     ManagerReapPointers, ManagerForgetPointers, ManagerErasePointers DEF Manager
<1> QED
  BY <1>1, <1>2, DetectorPointers, HandlerPointers
     DEF MonitorNext, DetectorThread, ManagerThread, HandlerThread

LEMMA HandlersKnown == MonitorSpec => []KnownHandlers
<1>1. MonitorInit => KnownHandlers
  BY ActorsThreads
     DEF MonitorInit, RegistryInit, ManagerInit, KnownHandlers, Pointers, Doomed, Unregistering, Clean
<1>2. TypesInv /\ TypesInv' /\ KnownHandlers /\ [MonitorNext]_vars => KnownHandlers'
  BY PointersKept
<1> QED
  BY <1>1, <1>2, MonitorTypes, PTL DEF MonitorSpec

\* Until memory has been misused in another way than by a search beside an erasure, no
\* registered device points to a handler the manager has deleted, and no two point to
\* the same one, whatever the detector frees and constructs between the manager's
\* steps and however searches answer, with and without the mutex
\* (BTDeviceManager.cpp:160-200).
THEOREM HandlersAreSound == MonitorSpec => [](Clean => PointersSound)
<1>1. KnownHandlers => (Clean => PointersSound)
  BY DEF KnownHandlers, PointersSound, Pointers, Kept, Sole
<1> QED
  BY <1>1, HandlersKnown, PTL

-----------------------------------------------------------------------------
(* Orphans are paid for.                                                    *)

InMap(p) == Linked(m_addrBth[p], p)

\* A device that is allocated is in the map, under its own address, or still with
\* the RegisterDevice call of the detector that constructed it.
Located == \A p \in live : Owns(Det, p) \/ InMap(p)
Filed == \A a \in Addr, p \in Ptr :
            Linked(a, p) => p \in live /\ m_addrBth[p] = a /\ ~Owns(Det, p)
Constructed == pc[Det] \in Creating => obj[Det] \in live /\ m_addrBth[obj[Det]] = arg[Det]
Vacant == pc[Det] = "reg_insert" => ~Present(arg[Det]) \/ pc[Mgr] = "unr_erase"
SameKey == pc[Det] = "upd_write" /\ obj[Det] \in live => m_addrBth[obj[Det]] = arg[Det]
DeadEntry(t) == m_mapBTDevice[arg[t]] \notin live \/ (t = Mgr /\ Owns(Det, m_mapBTDevice[arg[t]]))
Deleted == \A t \in Thread : pc[t] = "unr_erase" => DeadEntry(t)

Heap == Located /\ Filed /\ Constructed /\ Vacant /\ SameKey /\ Deleted

\* How the manager's walk and its calls go together.
Control ==
    /\ mpc \in Handling \cup {"advance"} => pc[Mgr] = "idle" /\ mit \in Addr
    /\ pc[Mgr] # "idle" => mpc = "walk" /\ mit = 0
    /\ mpc = "sleeping" => eraseList = <<>> /\ mit = 0

Settled == {"idle", "svc_release", "unr_erase", "unr_release"}
Final == {"svc_find", "svc_lock", "svc_index", "svc_write", "svc_release",
          "unr_lock", "unr_check", "unr_delete", "unr_erase", "unr_release"}
LastCall == pc[Det] \in Final => dpc = "inquiry"

\* A step of the detector that leaves the map and its devices alone.
DetMoves ==
    /\ UNCHANGED <<m_mapBTDevice, live, m_addrBth>>
    /\ pc[Det] # "unr_erase" /\ pc'[Det] \notin {"upd_write", "unr_erase"}
    /\ pc[Det] \in Creating <=> pc'[Det] \in Creating
    /\ pc'[Det] \in Creating =>
         /\ obj'[Det] = obj[Det] /\ arg'[Det] = arg[Det]
         /\ pc'[Det] \in {"reg_release", "reg_delete"} =>
              pc[Det] \in {"reg_release", "reg_delete"} \/ Present(arg[Det])
         /\ pc'[Det] = "reg_insert" => ~Present(arg[Det]) \/ pc[Mgr] = "unr_erase"

Others(t) == \A u \in Thread \ {t} : pc'[u] = pc[u] /\ obj'[u] = obj[u] /\ arg'[u] = arg[u]

LEMMA TwoThreads ==
    ASSUME TypesInv, KnownHandlers
    PROVE  /\ \A t \in Thread : t = Det \/ t = Mgr
           /\ Det \in Thread /\ Mgr \in Thread /\ Det # Mgr
           /\ Racing(Det) <=> pc[Mgr] = "unr_erase"
           /\ Racing(Mgr) <=> pc[Det] \in Relinking
           /\ \A a : Erasing(a) <=> \/ pc[Det] = "unr_erase" /\ arg[Det] = a
                                    \/ pc[Mgr] = "unr_erase" /\ arg[Mgr] = a
BY ActorsAssumption DEF Racing, Relinking, Erasing, KnownHandlers, Unregistering

LEMMA MovesHeap ==
    ASSUME TypesInv, KnownHandlers, KnownHandlers', TypesInv', Heap, DetMoves, Others(Det)
    PROVE  Heap'
<1>1. /\ Mgr \in Thread \ {Det} /\ pc'[Mgr] = pc[Mgr] /\ arg'[Mgr] = arg[Mgr]
      /\ \A t \in Thread : t = Det \/ t = Mgr
  BY TwoThreads DEF Others
<1>2. \A a : Erasing(a)' <=> Erasing(a)
  <2>1. /\ pc[Det] # "unr_erase" /\ pc'[Det] # "unr_erase"
    BY DEF DetMoves
  <2> QED
    BY <1>1, <2>1, TwoThreads DEF Erasing
<1>3. \A p : Owns(Det, p)' <=> Owns(Det, p)
  BY DEF DetMoves, Owns
<1>4. \A p : InMap(p)' <=> InMap(p)
  BY <1>2 DEF DetMoves, InMap, Linked
<1>5. Located' /\ Filed'
  BY <1>2, <1>3, <1>4 DEF DetMoves, Heap, Located, Filed, Linked
<1>6. Constructed' /\ SameKey'
  BY DEF DetMoves, Heap, Constructed, SameKey
<1>7. Vacant'
  BY <1>1 DEF DetMoves, Vacant, Present, Creating
<1>8. Deleted'
  BY <1>1, <1>3 DEF DetMoves, Heap, Deleted, DeadEntry
<1> QED
  BY <1>5, <1>6, <1>7, <1>8 DEF Heap

\* The steps of the detector inside a call that change what devices there are.
Allocates(p) ==
    /\ p \in Ptr \ live
    /\ pc[Det] = "reg_find" /\ (~Present(arg[Det]) \/ pc[Mgr] = "unr_erase")
    /\ live' = live \cup {p} /\ UNCHANGED m_mapBTDevice
    /\ m_addrBth' = [m_addrBth EXCEPT ![p] = arg[Det]]
    /\ m_listService' = [m_listService EXCEPT ![p] = FALSE]
    /\ pc'[Det] = "reg_lock" /\ obj'[Det] = p /\ arg'[Det] = arg[Det]

Changes == \/ \E p \in Ptr : Allocates(p)
           \/ RegInsert(Det) \/ RegDelete(Det) \/ UpdIndex(Det) \/ SvcIndex(Det)
           \/ SvcWrite(Det) \/ UnrDelete(Det) \/ UnrErase(Det)

LEMMA FaultlessDeref ==
    ASSUME NEW p, Deref(p), fault' = {} PROVE p \in live /\ NoFault
BY DEF Deref, Fault

LEMMA DetectorKinds ==
    ASSUME TypesInv, KnownHandlers, Heap, Step(Det), fault' = {}
    PROVE  (DetMoves /\ m_listService' = m_listService) \/ Changes
<1> USE DEF At
<1>0. /\ pc \in [Thread -> PcLabels] /\ obj \in [Thread -> Ptr \cup {NULL}] /\ Det \in Thread
      /\ arg \in [Thread -> Addr \cup {NULL}] /\ m_mapBTDevice \in Maps
      /\ m_addrBth \in [Ptr -> Addr \cup {NULL}] /\ live \subseteq Ptr
      /\ Racing(Det) <=> pc[Mgr] = "unr_erase"
  BY TwoThreads DEF TypesInv, Typed, TypeOK
<1>f. ASSUME NEW b \in FindResults(Det, arg[Det]), FindFault(Det)
      PROVE  b = Present(arg[Det])
  <2>1. ~EraseBeside(Det)
    BY <1>f DEF FindFault, Fault
  <2>2. ~Racing(Det)
    BY <1>0, <2>1, TwoThreads DEF EraseBeside
  <2> QED
    BY <1>f, <2>1, <2>2 DEF FindResults
<1>1. ASSUME NEW from, NEW to, Wait(Det, from, to), from # "unr_erase",
             to \notin {"upd_write", "unr_erase", "reg_release", "reg_delete", "reg_insert"},
             from \in Creating <=> to \in Creating
      PROVE  DetMoves /\ m_listService' = m_listService
  BY <1>0, <1>1 DEF Wait, Goto, DetMoves, heapVars, fieldVars
<1>2. ASSUME NEW from, NEW to, FindOrReturn(Det, from, to), from \notin Creating \cup {"unr_erase"},
             to \notin Creating \cup {"upd_write", "unr_erase"}
      PROVE  DetMoves /\ m_listService' = m_listService
  BY <1>0, <1>2 DEF FindOrReturn, Return, Goto, DetMoves, heapVars, fieldVars, Creating
<1>3. ASSUME NEW from, NEW r, ReleaseAndReturn(Det, from, r), from \notin Creating \cup {"unr_erase"}
      PROVE  DetMoves /\ m_listService' = m_listService
  BY <1>0, <1>3 DEF ReleaseAndReturn, Return, Goto, DetMoves, heapVars, fieldVars, Creating
<1>4. ASSUME RegFind(Det) PROVE (DetMoves /\ m_listService' = m_listService) \/ Changes
  <2>1. CASE Return(Det, FALSE) /\ UNCHANGED <<live, fieldVars>>
    BY <1>0, <1>4, <2>1 DEF RegFind, Return, Goto, DetMoves, fieldVars, Creating
  <2>2. CASE ~(Return(Det, FALSE) /\ UNCHANGED <<live, fieldVars>>)
    <3>0. FindFault(Det) /\ \E b \in FindResults(Det, arg[Det]) : ~b
      BY <1>4, <2>2 DEF RegFind
    <3>1. /\ Goto(Det, "reg_lock") /\ UNCHANGED <<arg, m_mapBTDevice>>
          /\ \E p \in Ptr \ live :
               /\ live' = live \cup {p}
               /\ m_addrBth' = [m_addrBth EXCEPT ![p] = arg[Det]]
               /\ m_listService' = [m_listService EXCEPT ![p] = FALSE]
               /\ obj' = [obj EXCEPT ![Det] = p]
      BY <1>4, <2>2 DEF RegFind
    <3>2. ~Present(arg[Det]) \/ pc[Mgr] = "unr_erase"
      BY <1>f, <3>0
    <3>3. pc[Det] = "reg_find"
      BY <1>4 DEF RegFind
    <3>4. \E p \in Ptr : Allocates(p)
      BY <1>0, <3>1, <3>2, <3>3 DEF Allocates, Goto
    <3> QED
      BY <3>4 DEF Changes
  <2> QED
    BY <2>1, <2>2
<1>5. ASSUME RegCheck(Det) PROVE DetMoves /\ m_listService' = m_listService
  <2>1. \/ Present(arg[Det]) /\ Goto(Det, "reg_release")
        \/ (~Present(arg[Det]) \/ pc[Mgr] = "unr_erase") /\ Goto(Det, "reg_insert")
    BY <1>f, <1>5 DEF RegCheck
  <2>2. pc[Det] = "reg_check" /\ UNCHANGED <<heapVars, arg, obj>>
    BY <1>5 DEF RegCheck
  <2> QED
    BY <1>0, <2>1, <2>2 DEF DetMoves, Goto, heapVars, fieldVars, Creating
<1>6. ASSUME RegRelease(Det) PROVE DetMoves /\ m_listService' = m_listService
  BY <1>0, <1>6 DEF RegRelease, Goto, DetMoves, heapVars, fieldVars, Creating
<1>7. ASSUME UpdWrite(Det) PROVE DetMoves /\ m_listService' = m_listService
  <2>1. pc[Det] = "upd_write" /\ obj[Det] \in live /\ arg[Det] = m_addrBth[obj[Det]]
    BY <1>7, FaultlessDeref DEF UpdWrite, Heap, SameKey
  <2>2. /\ WriteField(Det, m_addrBth, arg[Det]) /\ Goto(Det, "upd_release")
        /\ UNCHANGED <<m_mapBTDevice, live, m_listService>>
    BY <1>7 DEF UpdWrite
  <2>3. m_addrBth' = m_addrBth
    BY <1>0, <2>1, <2>2 DEF WriteField
  <2> QED
    BY <1>0, <2>1, <2>2, <2>3 DEF DetMoves, Goto, Creating
<1>8. ASSUME GcsFind(Det) \/ LstWalk(Det) PROVE DetMoves /\ m_listService' = m_listService
  BY <1>0, <1>8 DEF GcsFind, LstWalk, Goto, DetMoves, heapVars, fieldVars, Creating
<1>9. ASSUME GcsDeref(Det) PROVE DetMoves /\ m_listService' = m_listService
  <2>1. Index(arg[Det]) \in Ptr
    BY <1>0, <1>9, FaultlessDeref DEF GcsDeref
  <2>2. /\ IndexInserts(arg[Det]) /\ Goto(Det, "gcs_release") /\ pc[Det] = "gcs_deref"
        /\ UNCHANGED <<live, fieldVars>>
    BY <1>9 DEF GcsDeref
  <2>3. m_mapBTDevice' = m_mapBTDevice
    BY <1>0, <2>1, <2>2, PtrAssumption DEF Index, IndexInserts, Present, Maps
  <2> QED
    BY <1>0, <2>2, <2>3 DEF DetMoves, Goto, fieldVars, Creating
<1>10. ASSUME RegLock(Det) \/ UpdLock(Det) \/ SvcLock(Det) \/ UnrLock(Det) \/ GcsLock(Det) \/ LstLock(Det)
       PROVE  DetMoves /\ m_listService' = m_listService
  BY <1>1, <1>10 DEF RegLock, UpdLock, SvcLock, UnrLock, GcsLock, LstLock, Creating
<1>11. ASSUME UpdFind(Det) \/ SvcFind(Det) \/ UnrCheck(Det) PROVE DetMoves /\ m_listService' = m_listService
  BY <1>2, <1>11 DEF UpdFind, SvcFind, UnrCheck, Creating
<1>12. ASSUME UpdRelease(Det) \/ SvcRelease(Det) \/ UnrRelease(Det) \/ GcsRelease(Det) \/ LstRelease(Det)
       PROVE  DetMoves /\ m_listService' = m_listService
  BY <1>3, <1>12 DEF UpdRelease, SvcRelease, UnrRelease, GcsRelease, LstRelease, Creating
<1> QED
  BY <1>4, <1>5, <1>6, <1>7, <1>8, <1>9, <1>10, <1>11, <1>12 DEF Step, Changes

\* What the steps that change devices do, when nothing goes wrong.
LEMMA InsertDoes ==
    ASSUME TypesInv, KnownHandlers, Heap, RegInsert(Det), fault' = {}
    PROVE  /\ pc[Det] = "reg_insert" /\ pc[Mgr] # "unr_erase" /\ ~Present(arg[Det])
           /\ m_mapBTDevice' = [m_mapBTDevice EXCEPT ![arg[Det]] = obj[Det]]
           /\ UNCHANGED <<live, m_addrBth, m_listService>>
           /\ pc'[Det] = "idle" /\ arg[Det] \in Addr /\ obj[Det] \in live
<1>1. /\ pc[Det] = "reg_insert" /\ EndRelink(Det, arg[Det], obj[Det]) /\ Return(Det, TRUE)
      /\ UNCHANGED <<live, fieldVars>>
  BY DEF RegInsert, At
<1>2. ~Racing(Det) /\ snap[Det] = m_mapBTDevice
  BY <1>1 DEF EndRelink, Fault
<1>3. m_mapBTDevice' = [m_mapBTDevice EXCEPT ![arg[Det]] = obj[Det]]
  BY <1>1, <1>2 DEF EndRelink
<1>4. pc[Mgr] # "unr_erase"
  BY <1>2, TwoThreads
<1>5. pc'[Det] = "idle"
  BY <1>1, TwoThreads DEF Return, Goto, TypesInv, Typed, TypeOK
<1>6. arg[Det] \in Addr
  BY <1>1, TwoThreads DEF TypesInv, Typed
<1> QED
  BY <1>1, <1>3, <1>4, <1>5, <1>6 DEF Heap, Vacant, Constructed, Creating, fieldVars

LEMMA DeleteDoes ==
    ASSUME TypesInv, KnownHandlers, NEW t \in Thread, UnrDelete(t), fault' = {}
    PROVE  /\ pc[t] = "unr_delete" /\ arg[t] \in Addr /\ Index(arg[t]) \in live \cup {NULL}
           /\ m_mapBTDevice' = [m_mapBTDevice EXCEPT ![arg[t]] = Index(arg[t])]
           /\ live' = live \ {Index(arg[t])} /\ UNCHANGED <<m_addrBth, m_listService, arg, obj>>
           /\ pc' = [pc EXCEPT ![t] = "unr_erase"] /\ pc'[t] = "unr_erase"
<1>1. /\ pc[t] = "unr_delete" /\ IndexInserts(arg[t]) /\ Delete(Index(arg[t]))
      /\ Goto(t, "unr_erase") /\ UNCHANGED <<fieldVars, arg, obj>>
  BY DEF UnrDelete, At
<1>2. Index(arg[t]) \in live \cup {NULL} /\ live' = live \ {Index(arg[t])}
  BY <1>1 DEF Delete, Fault
<1>3. arg[t] \in Addr /\ pc \in [Thread -> PcLabels]
  BY <1>1 DEF TypesInv, Typed, TypeOK
<1> QED
  BY <1>1, <1>2, <1>3 DEF IndexInserts, Goto, fieldVars

LEMMA EraseDoes ==
    ASSUME TypesInv, KnownHandlers, NEW t \in Thread, UnrErase(t), fault' = {}
    PROVE  /\ pc[t] = "unr_erase" /\ arg[t] \in Addr /\ ~Racing(t)
           /\ m_mapBTDevice' = [m_mapBTDevice EXCEPT ![arg[t]] = Absent]
           /\ UNCHANGED <<live, m_addrBth, m_listService, arg, obj>>
           /\ pc' = [pc EXCEPT ![t] = "unr_release"] /\ pc'[t] = "unr_release"
<1>1. /\ pc[t] = "unr_erase" /\ EndRelink(t, arg[t], Absent)
      /\ Goto(t, "unr_release") /\ UNCHANGED <<live, fieldVars, arg, obj>>
  BY DEF UnrErase, At
<1>2. ~Racing(t) /\ snap[t] = m_mapBTDevice
  BY <1>1 DEF EndRelink, Fault
<1>3. m_mapBTDevice' = [m_mapBTDevice EXCEPT ![arg[t]] = Absent]
  BY <1>1, <1>2 DEF EndRelink
<1>4. arg[t] \in Addr /\ pc \in [Thread -> PcLabels]
  BY <1>1 DEF TypesInv, Typed, TypeOK
<1> QED
  BY <1>1, <1>2, <1>3, <1>4 DEF Goto, fieldVars

LEMMA RegDeleteDoes ==
    ASSUME TypesInv, KnownHandlers, RegDelete(Det), fault' = {}
    PROVE  /\ pc[Det] = "reg_delete" /\ live' = live \ {obj[Det]}
           /\ UNCHANGED <<m_mapBTDevice, m_addrBth, m_listService>>
           /\ pc'[Det] = "idle"
<1>1. /\ pc[Det] = "reg_delete" /\ Delete(obj[Det]) /\ Return(Det, FALSE)
      /\ UNCHANGED <<m_mapBTDevice, fieldVars>>
  BY DEF RegDelete, At
<1> QED
  BY <1>1, TwoThreads DEF Delete, Return, Goto, fieldVars, TypesInv, Typed, TypeOK

LEMMA IndexDoes ==
    ASSUME TypesInv, KnownHandlers, UpdIndex(Det) \/ SvcIndex(Det)
    PROVE  /\ pc[Det] \in {"upd_index", "svc_index"} /\ arg[Det] \in Addr
           /\ m_mapBTDevice' = [m_mapBTDevice EXCEPT ![arg[Det]] = Index(arg[Det])]
           /\ UNCHANGED <<live, m_addrBth, m_listService, arg>>
           /\ obj'[Det] = Index(arg[Det])
           /\ pc[Det] = "upd_index" => pc'[Det] = "upd_write"
           /\ pc[Det] = "svc_index" => pc'[Det] = "svc_write"
<1>0. /\ pc \in [Thread -> PcLabels] /\ obj \in [Thread -> Ptr \cup {NULL}] /\ Det \in Thread
  BY TwoThreads DEF TypesInv, Typed, TypeOK
<1>1. ASSUME NEW from, NEW to, from \notin NoAddress, IndexDevice(Det, from, to)
      PROVE  /\ pc[Det] = from /\ arg[Det] \in Addr
             /\ m_mapBTDevice' = [m_mapBTDevice EXCEPT ![arg[Det]] = Index(arg[Det])]
             /\ UNCHANGED <<live, m_addrBth, m_listService, arg>>
             /\ obj'[Det] = Index(arg[Det]) /\ pc'[Det] = to
  BY <1>0, <1>1 DEF IndexDevice, At, Goto, IndexInserts, fieldVars, TypesInv, Typed
<1>2. UpdIndex(Det) => IndexDevice(Det, "upd_index", "upd_write")
  BY DEF UpdIndex
<1>3. SvcIndex(Det) => IndexDevice(Det, "svc_index", "svc_write")
  BY DEF SvcIndex
<1> QED
  BY <1>1, <1>2, <1>3

LEMMA SvcWriteDoes ==
    ASSUME TypesInv, KnownHandlers, SvcWrite(Det), fault' = {}
    PROVE  /\ pc[Det] = "svc_write" /\ obj[Det] \in live
           /\ m_listService' = [m_listService EXCEPT ![obj[Det]] = TRUE]
           /\ UNCHANGED <<m_mapBTDevice, live, m_addrBth, arg, obj>>
           /\ pc'[Det] = "svc_release"
<1>0. pc \in [Thread -> PcLabels] /\ Det \in Thread /\ NULL \notin live
  BY TwoThreads, PtrAssumption DEF TypesInv, Typed, TypeOK
<1>1. /\ pc[Det] = "svc_write" /\ Deref(obj[Det]) /\ WriteField(Det, m_listService, TRUE)
      /\ Goto(Det, "svc_release") /\ UNCHANGED <<m_mapBTDevice, live, m_addrBth, arg, obj>>
  BY DEF SvcWrite, At
<1>2. obj[Det] \in live
  BY <1>1, FaultlessDeref
<1>3. pc'[Det] = "svc_release"
  BY <1>0, <1>1 DEF Goto
<1> QED
  BY <1>0, <1>1, <1>2, <1>3 DEF WriteField

LEMMA AllocHeap ==
    ASSUME TypesInv, TypesInv', KnownHandlers, KnownHandlers', Heap, NEW p \in Ptr, Allocates(p),
           Others(Det)
    PROVE  Heap'
<1>0. /\ Mgr \in Thread \ {Det} /\ pc'[Mgr] = pc[Mgr] /\ arg'[Mgr] = arg[Mgr]
      /\ \A t \in Thread : t = Det \/ t = Mgr
      /\ live \subseteq Ptr /\ m_addrBth \in [Ptr -> Addr \cup {NULL}] /\ arg[Det] \in Addr
  BY TwoThreads DEF Others, Allocates, TypesInv, Typed, TypeOK
<1>1. \A a : Erasing(a)' <=> Erasing(a)
  BY <1>0, TwoThreads DEF Erasing, Allocates
<1>2. /\ m_addrBth'[p] = arg[Det] /\ \A q \in Ptr \ {p} : m_addrBth'[q] = m_addrBth[q]
      /\ p \notin live /\ live' = live \cup {p} /\ m_mapBTDevice' = m_mapBTDevice
      /\ pc[Det] = "reg_find" /\ pc'[Det] = "reg_lock" /\ obj'[Det] = p /\ arg'[Det] = arg[Det]
  BY <1>0 DEF Allocates
<1>3. \A q : ~Owns(Det, q) /\ (Owns(Det, q)' <=> q = p)
  BY <1>2 DEF Owns, Creating
<1>4. \A a \in Addr : ~Linked(a, p)
  BY <1>2 DEF Heap, Filed
<1>5. Located'
  BY <1>0, <1>1, <1>2, <1>3 DEF Heap, Located, InMap, Linked
<1>6. Filed'
  BY <1>0, <1>1, <1>2, <1>3, <1>4 DEF Heap, Filed, Linked
<1>7. Constructed' /\ Vacant' /\ SameKey'
  BY <1>2 DEF Constructed, Vacant, SameKey
<1>8. Deleted'
  <2>1. SUFFICES ASSUME pc[Mgr] = "unr_erase" PROVE DeadEntry(Mgr)'
    BY <1>0, <1>2 DEF Deleted
  <2>2. m_mapBTDevice[arg[Mgr]] \notin live
    BY <1>0, <1>3, <2>1 DEF Heap, Deleted, DeadEntry
  <2> QED
    BY <1>0, <1>2, <1>3, <2>2 DEF DeadEntry
<1> QED
  BY <1>5, <1>6, <1>7, <1>8 DEF Heap

LEMMA InsertHeap ==
    ASSUME TypesInv, TypesInv', KnownHandlers, KnownHandlers', Heap, RegInsert(Det), fault' = {},
           Others(Det)
    PROVE  Heap'
<1>0. /\ Mgr \in Thread \ {Det} /\ pc'[Mgr] = pc[Mgr] /\ arg'[Mgr] = arg[Mgr]
      /\ \A t \in Thread : t = Det \/ t = Mgr
      /\ live \subseteq Ptr /\ m_mapBTDevice \in Maps
  BY TwoThreads DEF Others, TypesInv, Typed, TypeOK
<1>1. /\ pc[Det] = "reg_insert" /\ pc[Mgr] # "unr_erase" /\ ~Present(arg[Det])
      /\ m_mapBTDevice' = [m_mapBTDevice EXCEPT ![arg[Det]] = obj[Det]]
      /\ UNCHANGED <<live, m_addrBth, m_listService>>
      /\ pc'[Det] = "idle" /\ arg[Det] \in Addr /\ obj[Det] \in live
  BY InsertDoes
<1>2. \A a : ~Erasing(a) /\ ~Erasing(a)'
  BY <1>0, <1>1, TwoThreads DEF Erasing
<1>3. \A q : ~Owns(Det, q)' /\ (Owns(Det, q) <=> q = obj[Det])
  BY <1>1 DEF Owns, Creating
<1>4. m_addrBth[obj[Det]] = arg[Det]
  BY <1>1 DEF Heap, Constructed, Creating
<1>5. \A a \in Addr, p \in Ptr :
        Linked(a, p)' <=> Linked(a, p) \/ (a = arg[Det] /\ p = obj[Det])
  BY <1>0, <1>1, <1>2, PtrAssumption DEF Linked, Maps, Present
<1>6. \A p \in live : m_addrBth[p] \in Addr
  BY DEF TypesInv, Origins, Born
<1>7. Located'
  BY <1>0, <1>1, <1>3, <1>4, <1>5, <1>6 DEF Heap, Located, InMap
<1>8. Filed'
  BY <1>0, <1>1, <1>3, <1>4, <1>5 DEF Heap, Filed
<1>9. Constructed' /\ Vacant' /\ SameKey' /\ Deleted'
  BY <1>0, <1>1 DEF Constructed, Vacant, SameKey, Deleted, Creating
<1> QED
  BY <1>7, <1>8, <1>9 DEF Heap

LEMMA RegDeleteHeap ==
    ASSUME TypesInv, TypesInv', KnownHandlers, KnownHandlers', Heap, RegDelete(Det), fault' = {},
           Others(Det)
    PROVE  Heap'
<1>0. /\ Mgr \in Thread \ {Det} /\ pc'[Mgr] = pc[Mgr] /\ arg'[Mgr] = arg[Mgr]
      /\ \A t \in Thread : t = Det \/ t = Mgr
      /\ live \subseteq Ptr
  BY TwoThreads DEF Others, TypesInv, Typed, TypeOK
<1>1. /\ pc[Det] = "reg_delete" /\ live' = live \ {obj[Det]}
      /\ UNCHANGED <<m_mapBTDevice, m_addrBth, m_listService>>
      /\ pc'[Det] = "idle"
  BY RegDeleteDoes
<1>2. \A a : Erasing(a)' <=> Erasing(a)
  BY <1>0, <1>1, TwoThreads DEF Erasing
<1>3. \A q : ~Owns(Det, q)' /\ (Owns(Det, q) <=> q = obj[Det])
  BY <1>1 DEF Owns, Creating
<1>4. Located' /\ Filed'
  BY <1>0, <1>1, <1>2, <1>3 DEF Heap, Located, Filed, InMap, Linked
<1>5. Constructed' /\ Vacant' /\ SameKey'
  BY <1>1 DEF Constructed, Vacant, SameKey, Creating
<1>6. Deleted'
  BY <1>0, <1>1, <1>3 DEF Heap, Deleted, DeadEntry
<1> QED
  BY <1>4, <1>5, <1>6 DEF Heap

LEMMA IndexHeap ==
    ASSUME TypesInv, TypesInv', KnownHandlers, KnownHandlers', Heap, UpdIndex(Det) \/ SvcIndex(Det),
           Others(Det)
    PROVE  Heap'
<1>0. /\ Mgr \in Thread \ {Det} /\ pc'[Mgr] = pc[Mgr] /\ arg'[Mgr] = arg[Mgr]
      /\ \A t \in Thread : t = Det \/ t = Mgr
      /\ live \subseteq Ptr /\ m_mapBTDevice \in Maps
  BY TwoThreads DEF Others, TypesInv, Typed, TypeOK
<1>1. /\ pc[Det] \in {"upd_index", "svc_index"} /\ arg[Det] \in Addr
      /\ m_mapBTDevice' = [m_mapBTDevice EXCEPT ![arg[Det]] = Index(arg[Det])]
      /\ UNCHANGED <<live, m_addrBth, m_listService, arg>>
      /\ obj'[Det] = Index(arg[Det])
      /\ pc[Det] = "upd_index" => pc'[Det] = "upd_write"
      /\ pc[Det] = "svc_index" => pc'[Det] = "svc_write"
  BY IndexDoes
<1>2. \A a : Erasing(a)' <=> Erasing(a)
  BY <1>0, <1>1, TwoThreads DEF Erasing
<1>3. \A q : ~Owns(Det, q)' /\ ~Owns(Det, q)
  BY <1>1 DEF Owns, Creating
<1>4. \A a \in Addr : \/ m_mapBTDevice'[a] = m_mapBTDevice[a]
                      \/ m_mapBTDevice[a] = Absent /\ m_mapBTDevice'[a] = NULL
  BY <1>0, <1>1 DEF Index, Present, Maps
<1>5. \A a \in Addr, p \in Ptr : Linked(a, p)' <=> Linked(a, p)
  BY <1>2, <1>4, PtrAssumption DEF Linked
<1>6. \A p \in live : m_addrBth[p] \in Addr
  BY DEF TypesInv, Origins, Born
<1>7. Located' /\ Filed'
  BY <1>0, <1>1, <1>3, <1>5, <1>6 DEF Heap, Located, Filed, InMap
<1>8. Constructed' /\ Vacant'
  BY <1>1 DEF Constructed, Vacant, Creating
<1>9. SameKey'
  <2>1. SUFFICES ASSUME Index(arg[Det]) \in live PROVE m_addrBth[Index(arg[Det])] = arg[Det]
    BY <1>1 DEF SameKey
  <2>2. m_mapBTDevice[arg[Det]] = Index(arg[Det])
    BY <1>0, <2>1, PtrAssumption DEF Index
  <2>3. ~Erasing(arg[Det])
    BY <1>0, <1>1, <1>3, <2>1, <2>2, TwoThreads DEF Heap, Deleted, DeadEntry
  <2> QED
    BY <1>0, <1>1, <2>1, <2>2, <2>3 DEF Heap, Filed, Linked
<1>10. Deleted'
  <2>1. SUFFICES ASSUME pc[Mgr] = "unr_erase" PROVE DeadEntry(Mgr)'
    BY <1>0, <1>1 DEF Deleted
  <2>2. m_mapBTDevice[arg[Mgr]] \notin live /\ arg[Mgr] \in Addr
    BY <1>0, <1>3, <2>1 DEF Heap, Deleted, DeadEntry, TypesInv, Typed, NoAddress
  <2> QED
    BY <1>0, <1>1, <1>4, <2>2, PtrAssumption DEF DeadEntry
<1> QED
  BY <1>7, <1>8, <1>9, <1>10 DEF Heap

LEMMA DeleteHeap ==
    ASSUME TypesInv, TypesInv', KnownHandlers, KnownHandlers', Heap, NEW t \in Thread, UnrDelete(t),
           fault' = {}, Others(t)
    PROVE  Heap'
<1> DEFINE p == Index(arg[t])
<1>0. /\ live \subseteq Ptr /\ m_mapBTDevice \in Maps /\ Det \in Thread /\ Mgr \in Thread
      /\ Det # Mgr /\ \A u \in Thread : u = Det \/ u = Mgr
  BY TwoThreads DEF TypesInv, Typed, TypeOK
<1>1. /\ pc[t] = "unr_delete" /\ arg[t] \in Addr /\ p \in live \cup {NULL}
      /\ m_mapBTDevice' = [m_mapBTDevice EXCEPT ![arg[t]] = p]
      /\ live' = live \ {p} /\ UNCHANGED <<m_addrBth, m_listService, arg, obj>>
      /\ pc'[t] = "unr_erase" /\ \A u \in Thread \ {t} : pc'[u] = pc[u]
  BY DeleteDoes DEF Others
<1>2. \A a : Erasing(a)' <=> Erasing(a) \/ a = arg[t]
  BY <1>0, <1>1, TwoThreads DEF Erasing
<1>3. \A q : Owns(Det, q)' <=> Owns(Det, q)
  BY <1>0, <1>1 DEF Owns, Creating
<1>4. \A a \in Addr : a # arg[t] => m_mapBTDevice'[a] = m_mapBTDevice[a]
  BY <1>0, <1>1 DEF Maps
<1>5. \A a \in Addr, q \in Ptr : Linked(a, q)' <=> Linked(a, q) /\ a # arg[t]
  BY <1>2, <1>4 DEF Linked
<1>6. \A q \in live : m_addrBth[q] \in Addr
  BY DEF TypesInv, Origins, Born
<1>7. p \in live => m_mapBTDevice[arg[t]] = p
  BY <1>0, PtrAssumption DEF Index
<1>8. ASSUME p \in live, ~Owns(Det, p) PROVE Linked(arg[t], p)
  BY <1>0, <1>1, <1>7, <1>8, TwoThreads DEF Linked, Heap, Deleted, DeadEntry
<1>9. ASSUME p \in live PROVE ~Owns(Det, p)
  <2>1. ~Linked(arg[t], p) => t = Det
    BY <1>0, <1>1, <1>7, <1>9, TwoThreads DEF Linked, Heap, Deleted, DeadEntry
  <2> QED
    BY <1>0, <1>1, <1>9, <2>1 DEF Heap, Filed, Owns, Creating
<1>10. Located'
  <2>1. ASSUME NEW q \in live, q # p, Linked(m_addrBth[q], q) PROVE Linked(m_addrBth[q], q)'
    <3>1. m_addrBth[q] # arg[t]
      BY <1>0, <1>1, <2>1, PtrAssumption DEF Linked, Index, Present
    <3> QED
      BY <1>0, <1>1, <1>5, <1>6, <2>1, <3>1
  <2> QED
    BY <1>1, <1>3, <2>1 DEF Heap, Located, InMap
<1>11. Filed'
  BY <1>0, <1>1, <1>3, <1>5, <1>8, <1>9 DEF Heap, Filed
<1>12. Constructed'
  BY <1>0, <1>1, <1>9 DEF Heap, Constructed, Creating, Owns
<1>13. Vacant'
  <2>1. SUFFICES ASSUME t = Mgr PROVE Vacant'
    BY <1>0, <1>1 DEF Vacant
  <2> QED
    BY <1>1, <2>1 DEF Vacant
<1>14. SameKey'
  BY <1>0, <1>1 DEF Heap, SameKey
<1>15. Deleted'
  <2>1. DeadEntry(t)'
    BY <1>0, <1>1 DEF DeadEntry, Maps
  <2>2. ASSUME NEW u \in Thread, u # t, pc[u] = "unr_erase" PROVE DeadEntry(u)'
    <3>1. DeadEntry(u) /\ arg[u] \in Addr
      BY <2>2 DEF Heap, Deleted, TypesInv, Typed, NoAddress
    <3>2. arg[u] = arg[t] => DeadEntry(u)'
      BY <1>0, <1>1 DEF DeadEntry, Maps
    <3>3. arg[u] # arg[t] => DeadEntry(u)'
      BY <1>0, <1>1, <1>3, <1>4, <3>1 DEF DeadEntry
    <3> QED
      BY <3>2, <3>3
  <2> QED
    BY <1>1, <2>1, <2>2 DEF Deleted
<1> QED
  BY <1>10, <1>11, <1>12, <1>13, <1>14, <1>15 DEF Heap

LEMMA EraseHeap ==
    ASSUME TypesInv, TypesInv', KnownHandlers, KnownHandlers', Heap, NEW t \in Thread, UnrErase(t),
           fault' = {}, Others(t)
    PROVE  Heap'
<1>0. /\ live \subseteq Ptr /\ m_mapBTDevice \in Maps /\ Det \in Thread /\ Mgr \in Thread
      /\ Det # Mgr /\ \A u \in Thread : u = Det \/ u = Mgr
  BY TwoThreads DEF TypesInv, Typed, TypeOK
<1>1. /\ pc[t] = "unr_erase" /\ arg[t] \in Addr /\ ~Racing(t)
      /\ m_mapBTDevice' = [m_mapBTDevice EXCEPT ![arg[t]] = Absent]
      /\ UNCHANGED <<live, m_addrBth, m_listService, arg, obj>>
      /\ pc'[t] = "unr_release" /\ \A u \in Thread \ {t} : pc'[u] = pc[u]
  BY EraseDoes DEF Others
<1>2. \A u \in Thread \ {t} : pc[u] \notin Relinking
  BY <1>1 DEF Racing
<1>3. \A a : ~Erasing(a)' /\ (Erasing(a) <=> a = arg[t])
  BY <1>0, <1>1, <1>2 DEF Erasing, Relinking
<1>4. \A q : Owns(Det, q)' <=> Owns(Det, q)
  BY <1>0, <1>1 DEF Owns, Creating
<1>5. \A a \in Addr, q \in Ptr : Linked(a, q)' <=> Linked(a, q)
  BY <1>0, <1>1, <1>3, PtrAssumption DEF Linked, Maps
<1>6. \A q \in live : m_addrBth[q] \in Addr
  BY DEF TypesInv, Origins, Born
<1>7. Located' /\ Filed'
  BY <1>0, <1>1, <1>4, <1>5, <1>6 DEF Heap, Located, Filed, InMap
<1>8. Constructed' /\ SameKey'
  BY <1>0, <1>1 DEF Heap, Constructed, SameKey, Creating
<1>9. Vacant' /\ Deleted'
  <2>1. \A u \in Thread : pc'[u] \notin Relinking
    BY <1>1, <1>2 DEF Relinking
  <2> QED
    BY <1>0, <2>1 DEF Vacant, Deleted, Relinking
<1> QED
  BY <1>7, <1>8, <1>9 DEF Heap

LEMMA ChangesHeap ==
    ASSUME TypesInv, TypesInv', KnownHandlers, KnownHandlers', Heap, Changes, fault' = {}, Others(Det)
    PROVE  Heap'
<1>1. ASSUME SvcWrite(Det) PROVE Heap'
  <2>1. DetMoves
    BY <1>1, SvcWriteDoes DEF DetMoves, Creating
  <2> QED
    BY <2>1, MovesHeap
<1>2. Det \in Thread
  BY TwoThreads
<1> QED
  BY <1>1, <1>2, AllocHeap, InsertHeap, RegDeleteHeap, IndexHeap, DeleteHeap, EraseHeap DEF Changes

\* The detector moves, outside the calls too.
LEMMA DetectorDoes ==
    ASSUME TypesInv, KnownHandlers, Heap, Detector, fault' = {}
    PROVE  /\ Others(Det) /\ UNCHANGED <<handler, mgrVars>>
           /\ m_pSockHandler' = [p \in Ptr |-> IF p \in live' \ live THEN NULL ELSE m_pSockHandler[p]]
           /\ \/ DetInsideCall /\ Changes
              \/ /\ DetMoves /\ UNCHANGED <<m_listService, m_pSockHandler>>
                 /\ DetInsideCall \/ pc[Det] \in {"idle", "gcs_release"}
<1>0. /\ pc \in [Thread -> PcLabels] /\ Det \in Thread /\ m_mapBTDevice \in Maps
      /\ arg \in [Thread -> Addr \cup {NULL}] /\ live \subseteq Ptr
  BY TwoThreads DEF TypesInv, Typed, TypeOK
<1>1. live' = live /\ m_pSockHandler' = m_pSockHandler =>
        m_pSockHandler' = [p \in Ptr |-> IF p \in live' \ live THEN NULL ELSE m_pSockHandler[p]]
  BY DEF TypesInv, MonitorTypeOK
<1>2. CASE DetInsideCall
  <2>1. Step(Det) /\ UNCHANGED <<handler, mgrVars>>
        /\ m_pSockHandler' = [p \in Ptr |-> IF p \in live' \ live THEN NULL ELSE m_pSockHandler[p]]
    BY <1>2 DEF DetInsideCall
  <2>2. Others(Det)
    BY <1>0, <2>1, OthersPc DEF TypesInv, Others
  <2>3. (DetMoves /\ m_listService' = m_listService) \/ Changes
    BY <2>1, DetectorKinds
  <2>4. DetMoves => m_pSockHandler' = m_pSockHandler
    BY <2>1 DEF DetMoves, TypesInv, MonitorTypeOK
  <2> QED
    BY <1>2, <2>1, <2>2, <2>3, <2>4
<1>3. CASE DetConsult
  <2>1. /\ pc[Det] = "gcs_release" /\ IndexInserts(arg[Det])
        /\ UNCHANGED <<live, fieldVars, localVars, m_pSockHandler, handler, mgrVars>>
        /\ IF Index(arg[Det]) = NULL THEN Fault("null_deref")
           ELSE IF Index(arg[Det]) \in live THEN AskHandler(HandlerAt(Index(arg[Det])))
           ELSE Fault("use_after_free")
    BY <1>3 DEF DetConsult, At
  <2>2. Index(arg[Det]) # NULL /\ arg[Det] \in Addr
    <3>1. NULL \notin live
      BY <1>0, PtrAssumption
    <3>2. Index(arg[Det]) = NULL => Fault("null_deref")
      BY <2>1, <3>1
    <3>3. arg[Det] \in Addr
      BY <1>0, <2>1 DEF TypesInv, Typed
    <3> QED
      BY <3>2, <3>3 DEF Fault
  <2>3. m_mapBTDevice' = m_mapBTDevice
    BY <1>0, <2>1, <2>2 DEF IndexInserts, Index, Maps
  <2> QED
    BY <1>1, <2>1, <2>3 DEF DetMoves, Others, Creating, fieldVars, localVars
<1>4. ASSUME NEW l \in Operations, NEW a, Call(Det, l, a), UNCHANGED <<m_pSockHandler, handler, mgrVars>>
      PROVE  /\ Others(Det) /\ UNCHANGED <<handler, mgrVars>>
             /\ m_pSockHandler' = [p \in Ptr |-> IF p \in live' \ live THEN NULL ELSE m_pSockHandler[p]]
             /\ DetMoves /\ UNCHANGED <<m_listService, m_pSockHandler>> /\ pc[Det] = "idle"
  <2>1. /\ pc[Det] = "idle" /\ pc' = [pc EXCEPT ![Det] = l] /\ arg' = [arg EXCEPT ![Det] = a]
        /\ UNCHANGED <<heapVars, obj>>
    BY <1>4 DEF Call, At, Goto
  <2>2. pc'[Det] = l /\ l \notin Creating \cup {"upd_write", "unr_erase"}
    BY <1>0, <2>1 DEF Operations, Creating
  <2> QED
    BY <1>0, <1>1, <1>4, <2>1, <2>2 DEF DetMoves, Others, Creating, heapVars, fieldVars
<1>5. CASE OnDeviceDiscovered
  <2>1. PICK a \in Addr : Call(Det, "reg_find", a)
    BY <1>5 DEF OnDeviceDiscovered
  <2> QED
    BY <1>4, <1>5, <2>1 DEF OnDeviceDiscovered, Operations
<1>6. ASSUME NEW l \in Operations, NEW to, DetCall(l, to)
      PROVE  /\ Others(Det) /\ UNCHANGED <<handler, mgrVars>>
             /\ m_pSockHandler' = [p \in Ptr |-> IF p \in live' \ live THEN NULL ELSE m_pSockHandler[p]]
             /\ DetMoves /\ UNCHANGED <<m_listService, m_pSockHandler>> /\ pc[Det] = "idle"
  BY <1>4, <1>6 DEF DetCall
<1>7. CASE BluetoothRemoveDevice \/ ServicesUnreported
  <2>1. pc[Det] = "idle" /\ UNCHANGED <<registryVars, m_pSockHandler, handler, mgrVars>>
    BY <1>7 DEF BluetoothRemoveDevice, ServicesUnreported, Unpairs, At
  <2> QED
    BY <1>1, <2>1 DEF DetMoves, Others, Creating, registryVars, heapVars, fieldVars, localVars
<1> QED
  BY <1>2, <1>3, <1>5, <1>6, <1>7, DetectorCalls

LEMMA MgrMovesHeap ==
    ASSUME TypesInv, TypesInv', KnownHandlers, KnownHandlers', Heap, Others(Mgr),
           UNCHANGED <<m_mapBTDevice, live, m_addrBth>>,
           pc[Mgr] # "unr_erase", pc'[Mgr] # "unr_erase"
    PROVE  Heap'
<1>1. /\ Det \in Thread \ {Mgr} /\ pc'[Det] = pc[Det] /\ arg'[Det] = arg[Det] /\ obj'[Det] = obj[Det]
      /\ \A t \in Thread : t = Det \/ t = Mgr
  BY TwoThreads DEF Others
<1>2. \A a : Erasing(a)' <=> Erasing(a)
  BY <1>1, TwoThreads DEF Erasing
<1>3. \A p : Owns(Det, p)' <=> Owns(Det, p)
  BY <1>1 DEF Owns
<1>4. Located' /\ Filed'
  BY <1>2, <1>3 DEF Heap, Located, Filed, Linked, InMap
<1>5. Constructed' /\ SameKey' /\ Vacant'
  BY <1>1 DEF Heap, Constructed, SameKey, Vacant, Present
<1>6. Deleted'
  BY <1>1, <1>3 DEF Heap, Deleted, DeadEntry
<1> QED
  BY <1>4, <1>5, <1>6 DEF Heap

\* What has gone wrong is not forgotten.
LEMMA FaultsStay ==
    ASSUME [MonitorNext]_vars PROVE fault \subseteq fault'
<1>0. ASSUME NoFault \/ \E k \in Faults : Fault(k) PROVE fault \subseteq fault'
  BY <1>0 DEF NoFault, Fault, procVars
<1>1. ASSUME Detector PROVE fault \subseteq fault'
  <2>1. ASSUME DetInsideCall PROVE fault \subseteq fault'
    BY <1>0, <2>1, StepFaults, ActorsThreads DEF DetInsideCall
  <2>2. ASSUME DetConsult PROVE fault \subseteq fault'
    <3>1. \/ Fault("null_deref") \/ Fault("use_after_free")
          \/ AskHandler(HandlerAt(Index(arg[Det])))
      BY <2>2 DEF DetConsult
    <3> QED
      BY <1>0, <3>1, AskFaults DEF Faults
  <2>3. ASSUME NEW l, NEW a, Call(Det, l, a) PROVE fault \subseteq fault'
    BY <2>3 DEF Call, procVars
  <2>4. ASSUME BluetoothRemoveDevice \/ ServicesUnreported PROVE fault \subseteq fault'
    BY <2>4 DEF BluetoothRemoveDevice, ServicesUnreported, registryVars, procVars
  <2>5. ASSUME OnDeviceDiscovered PROVE fault \subseteq fault'
    BY <2>3, <2>5 DEF OnDeviceDiscovered
  <2>6. ASSUME NEW l, NEW to, DetCall(l, to) PROVE fault \subseteq fault'
    BY <2>3, <2>6 DEF DetCall
  <2> QED
    BY <1>1, <2>1, <2>2, <2>4, <2>5, <2>6, DetectorCalls
<1>2. ASSUME Manager PROVE fault \subseteq fault'
  <2>1. ASSUME MgrLock \/ MgrRelease \/ MgrErase PROVE NoFault
    BY <2>1 DEF MgrLock, MgrRelease, MgrErase, NoFault
  <2>2. ASSUME MgrFetch \/ MgrAdvance \/ MgrVisit
        PROVE  NoFault \/ FindFault(Mgr) \/ Fault("use_after_free")
    BY <2>2 DEF MgrFetch, MgrAdvance, MgrVisit
  <2>3. ASSUME MgrPrint PROVE AskHandler(m_pSockHandler[pDev]) \/ Fault("use_after_free")
    BY <2>3 DEF MgrPrint
  <2>4. ASSUME MgrConnect \/ MgrForget PROVE Deref(pDev)
    BY <2>4 DEF MgrConnect, MgrForget, MgrStep
  <2>5. ASSUME MgrReap PROVE NoFault \/ Fault("use_after_free") \/ Fault("double_free")
    BY <2>5 DEF MgrReap
  <2>6. ASSUME MgrInsideCall PROVE NoFault \/ \E k \in Faults : Fault(k)
    BY <2>6, StepFaults, ActorsThreads DEF MgrInsideCall
  <2> QED
    BY <1>0, <1>2, <2>1, <2>2, <2>3, <2>4, <2>5, <2>6, AskFaults, DerefFaults, FindFaults
       DEF Manager, Faults
<1>3. ASSUME NEW h \in Handler, HandlerRun(h) PROVE fault \subseteq fault'
  BY <1>3 DEF HandlerRun, registryVars, procVars
<1>4. ASSUME UNCHANGED vars PROVE fault \subseteq fault'
  BY <1>4 DEF vars, registryVars, procVars
<1> QED
  BY <1>1, <1>2, <1>3, <1>4 DEF MonitorNext, DetectorThread, ManagerThread, HandlerThread

\* The manager's calls: how it gets from one step of UnregisterDevice to the next.
MgrMoves ==
    /\ UNCHANGED <<m_mapBTDevice, live, m_addrBth, m_listService>>
    /\ pc[Mgr] # "unr_erase" /\ pc'[Mgr] # "unr_erase"
    /\ \/ pc[Mgr] = "unp_find" /\ pc'[Mgr] = "unp_call" /\ obj'[Mgr] = obj[Mgr]
       \/ pc[Mgr] = "unr_lock" /\ pc'[Mgr] = "unr_check" /\ arg'[Mgr] = arg[Mgr]
       \/ pc[Mgr] = "unr_check" /\ pc'[Mgr] = "unr_delete" /\ arg'[Mgr] = arg[Mgr]
          /\ Present(arg[Mgr])
       \/ pc[Mgr] \in {"unp_find", "unr_check", "unr_release"} /\ pc'[Mgr] = "idle"

\* ... and the one that makes of a device an address to unregister.
MgrNames ==
    /\ UNCHANGED <<m_mapBTDevice, live, m_addrBth, m_listService>>
    /\ pc[Mgr] = "unp_call" /\ pc'[Mgr] = "unr_lock"
    /\ obj[Mgr] \in live /\ arg'[Mgr] = m_addrBth[obj[Mgr]]

LEMMA ManagerCalls ==
    ASSUME TypesInv, KnownHandlers, MgrInsideCall, fault' = {}
    PROVE  /\ Others(Mgr) /\ UNCHANGED <<m_pSockHandler, handler, detVars, mgrVars>>
           /\ MgrMoves \/ MgrNames \/ UnrDelete(Mgr) \/ UnrErase(Mgr)
<1> USE DEF At
<1>0. /\ pc \in [Thread -> PcLabels] /\ obj \in [Thread -> Ptr \cup {NULL}] /\ Mgr \in Thread
      /\ arg \in [Thread -> Addr \cup {NULL}]
  BY TwoThreads DEF TypesInv, Typed, TypeOK
<1>1. UNCHANGED <<m_pSockHandler, handler, detVars, mgrVars>>
  BY DEF MgrInsideCall
<1>2. CASE UnpFind(Mgr)
  <2>1. /\ pc[Mgr] = "unp_find" /\ UNCHANGED heapVars
        /\ \/ Goto(Mgr, "unp_call") /\ UNCHANGED <<arg, obj>>
           \/ Return(Mgr, FALSE)
    BY <1>2 DEF UnpFind
  <2>2. Others(Mgr)
    BY <1>0, <2>1 DEF Others, Goto, Return
  <2>3. MgrMoves
    BY <1>0, <2>1 DEF MgrMoves, Goto, Return, heapVars, fieldVars
  <2> QED
    BY <1>1, <2>2, <2>3
<1>3. CASE UnpCall(Mgr)
  <2>1. /\ pc[Mgr] = "unp_call" /\ UNCHANGED <<heapVars, obj>> /\ Goto(Mgr, "unr_lock")
        /\ arg' = [arg EXCEPT ![Mgr] = m_addrBth[obj[Mgr]]] /\ obj[Mgr] \in live
    BY <1>3, FaultlessDeref DEF UnpCall
  <2> QED
    BY <1>0, <1>1, <2>1 DEF Others, Goto, MgrNames, heapVars, fieldVars
<1>4. CASE Step(Mgr)
  <2>1. Others(Mgr)
    BY <1>0, <1>4, OthersPc DEF TypesInv, Others
  <2>2. UnrLock(Mgr) \/ UnrCheck(Mgr) \/ UnrDelete(Mgr) \/ UnrErase(Mgr) \/ UnrRelease(Mgr)
    BY <1>0, <1>4, UnregisterOnly DEF KnownHandlers
  <2>3. UnrLock(Mgr) => MgrMoves
    BY <1>0 DEF UnrLock, Wait, Goto, MgrMoves, heapVars, fieldVars
  <2>4. UnrRelease(Mgr) => MgrMoves
    BY <1>0 DEF UnrRelease, ReleaseAndReturn, Return, Goto, MgrMoves, heapVars, fieldVars
  <2>5. ASSUME UnrCheck(Mgr) PROVE MgrMoves
    <3>0. /\ FindFault(Mgr)
          /\ \E b \in FindResults(Mgr, arg[Mgr]) :
                IF b THEN Goto(Mgr, "unr_delete") /\ arg' = arg ELSE Return(Mgr, FALSE)
      BY <2>5 DEF UnrCheck, FindOrReturn
    <3>2. ~EraseBeside(Mgr)
      BY <3>0 DEF FindFault, Fault
    <3>1. /\ pc[Mgr] = "unr_check" /\ UNCHANGED heapVars
          /\ \/ Present(arg[Mgr]) /\ Goto(Mgr, "unr_delete") /\ arg' = arg
             \/ Return(Mgr, FALSE)
      BY <2>5, <3>0, <3>2 DEF UnrCheck, FindOrReturn, FindResults
    <3> QED
      BY <1>0, <3>1 DEF Return, Goto, MgrMoves, heapVars, fieldVars
  <2> QED
    BY <1>1, <2>1, <2>2, <2>3, <2>4, <2>5
<1> QED
  BY <1>2, <1>3, <1>4 DEF MgrInsideCall

LEMMA MgrErases ==
    ASSUME TypesInv, KnownHandlers, MgrErase
    PROVE  /\ Others(Mgr) /\ UNCHANGED <<m_mapBTDevice, live, m_addrBth, m_listService>>
           /\ UNCHANGED <<m_pSockHandler, handler, detVars, mpc, mit, pDev>>
           /\ pc[Mgr] = "idle" /\ pc'[Mgr] = "unp_find" /\ mpc = "walk" /\ mit = 0
           /\ eraseList # <<>> /\ eraseList' = Tail(eraseList) /\ obj'[Mgr] = Head(eraseList)
<1>0. /\ pc \in [Thread -> PcLabels] /\ obj \in [Thread -> Ptr \cup {NULL}] /\ Mgr \in Thread
  BY TwoThreads DEF TypesInv, Typed, TypeOK
<1> QED
  BY <1>0 DEF MgrErase, MgrAt, Others, heapVars, fieldVars

\* The steps of the walk.
Walks == \/ MgrLock \/ MgrFetch \/ MgrVisit \/ MgrConnect \/ MgrPrint
         \/ MgrReap \/ MgrForget \/ MgrAdvance \/ MgrRelease

LEMMA ManagerWalks ==
    ASSUME Walks
    PROVE  pc[Mgr] = "idle" /\ UNCHANGED <<heapVars, localVars, detVars>> /\ Others(Mgr)
<1>1. ASSUME MgrLock \/ MgrFetch \/ MgrVisit \/ MgrConnect \/ MgrPrint
      PROVE  pc[Mgr] = "idle" /\ UNCHANGED <<heapVars, localVars, detVars>>
  BY <1>1 DEF MgrLock, MgrFetch, MgrVisit, MgrConnect, MgrPrint, MgrStep, MgrAt
<1>2. ASSUME MgrReap \/ MgrForget \/ MgrAdvance \/ MgrRelease
      PROVE  pc[Mgr] = "idle" /\ UNCHANGED <<heapVars, localVars, detVars>>
  BY <1>2 DEF MgrReap, MgrForget, MgrAdvance, MgrRelease, MgrStep, MgrAt
<1> QED
  BY <1>1, <1>2 DEF Walks, Others, localVars

LEMMA HeapKept ==
    ASSUME TypesInv, TypesInv', KnownHandlers, KnownHandlers', Heap, [MonitorNext]_vars, fault' = {}
    PROVE  Heap'
<1>0. Mgr \in Thread
  BY TwoThreads
<1>1. ASSUME Detector PROVE Heap'
  BY <1>1, DetectorDoes, MovesHeap, ChangesHeap
<1>2. ASSUME Walks PROVE Heap'
  BY <1>2, ManagerWalks, MgrMovesHeap DEF heapVars, fieldVars, localVars
<1>3. ASSUME MgrErase PROVE Heap'
  BY <1>3, MgrErases, MgrMovesHeap
<1>4. ASSUME MgrInsideCall PROVE Heap'
  BY <1>0, <1>4, ManagerCalls, MgrMovesHeap, DeleteHeap, EraseHeap DEF MgrMoves, MgrNames
<1>5. ASSUME UNCHANGED registryVars PROVE Heap'
  BY <1>5 DEF registryVars, heapVars, fieldVars, localVars, Heap, Located, Filed, Constructed, Vacant,
              SameKey, Deleted, DeadEntry, InMap, Linked, Erasing, Owns, Present
<1> QED
  BY <1>1, <1>2, <1>3, <1>4, <1>5
     DEF MonitorNext, DetectorThread, ManagerThread, HandlerThread, Manager, Walks, HandlerRun, vars

-----------------------------------------------------------------------------
(* What the manager's walk can rely on.                                     *)

Busy(p) == m_pSockHandler[p] # NULL /\ handler[m_pSockHandler[p]] \in Running
Attending == {"visit", "connect"}
Held(p) == m_pSockHandler[p] # NULL \/ (mpc \in Attending /\ pDev = p)

\* A cell constructed anew under the manager's feet is registered without fail.
Recycled ==
    pc[Det] \in Creating /\ Held(obj[Det]) =>
      /\ pc[Det] \in {"reg_lock", "reg_check", "reg_insert"}
      /\ ~Present(arg[Det])
      /\ ~(pc[Mgr] = "unr_delete" /\ arg[Mgr] = arg[Det])
Visited == mpc = "visit" /\ pDev \in live /\ m_pSockHandler[pDev] # NULL =>
             m_addrBth[pDev] = mit /\ InMap(pDev)
Unconnected == mpc = "connect" /\ pDev \in live => m_pSockHandler[pDev] = NULL
Ended == mpc \in {"reap", "forget"} => ~Busy(pDev)

Walk == Recycled /\ Visited /\ Unconnected /\ Ended /\ Control /\ LastCall

\* A device that is not freed keeps its address and its place in the map.
Stays == \A q \in live \cap live' : /\ m_addrBth'[q] = m_addrBth[q]
                                    /\ InMap(q) => InMap(q)'

LEMMA DeleteStays ==
    ASSUME TypesInv, KnownHandlers, Heap, NEW t \in Thread, UnrDelete(t), fault' = {}, Others(t)
    PROVE  Stays
<1>1. /\ pc[t] = "unr_delete" /\ arg[t] \in Addr
      /\ m_mapBTDevice' = [m_mapBTDevice EXCEPT ![arg[t]] = Index(arg[t])]
      /\ live' = live \ {Index(arg[t])} /\ UNCHANGED <<m_addrBth, arg>>
      /\ pc'[t] = "unr_erase" /\ \A u \in Thread \ {t} : pc'[u] = pc[u]
  BY DeleteDoes DEF Others
<1>2. ASSUME NEW q \in live \cap live', InMap(q) PROVE InMap(q)'
  <2>1. m_addrBth[q] \in Addr /\ m_mapBTDevice[m_addrBth[q]] = q /\ q \in Ptr
    BY <1>2 DEF TypesInv, Typed, TypeOK, Origins, Born, InMap, Linked
  <2>2. m_addrBth[q] # arg[t]
    BY <1>1, <1>2, <2>1, PtrAssumption DEF Index, Present
  <2>3. m_mapBTDevice'[m_addrBth[q]] = q
    BY <1>1, <2>1, <2>2 DEF TypesInv, Typed, TypeOK, Maps
  <2>4. ~Erasing(m_addrBth[q])'
    BY <1>1, <1>2, <2>2 DEF InMap, Linked, Erasing
  <2> QED
    BY <1>1, <2>3, <2>4 DEF InMap, Linked
<1> QED
  BY <1>1, <1>2 DEF Stays

LEMMA EraseStays ==
    ASSUME TypesInv, KnownHandlers, Heap, NEW t \in Thread, UnrErase(t), fault' = {}, Others(t)
    PROVE  Stays
<1>1. /\ pc[t] = "unr_erase" /\ arg[t] \in Addr
      /\ m_mapBTDevice' = [m_mapBTDevice EXCEPT ![arg[t]] = Absent]
      /\ UNCHANGED <<live, m_addrBth, arg>>
      /\ pc'[t] = "unr_release" /\ \A u \in Thread \ {t} : pc'[u] = pc[u]
  BY EraseDoes DEF Others
<1>2. ASSUME NEW q \in live, InMap(q) PROVE InMap(q)'
  <2>1. m_addrBth[q] # arg[t]
    BY <1>1, <1>2 DEF InMap, Linked, Erasing
  <2>2. m_mapBTDevice'[m_addrBth[q]] = m_mapBTDevice[m_addrBth[q]]
    BY <1>1, <2>1 DEF TypesInv, Typed, TypeOK, Maps, Origins, Born
  <2>3. ~Erasing(m_addrBth[q])'
    BY <1>1, <1>2, <2>1 DEF InMap, Linked, Erasing
  <2> QED
    BY <1>1, <1>2, <2>2, <2>3 DEF InMap, Linked
<1> QED
  BY <1>1, <1>2 DEF Stays

\* Steps in which nobody erases an entry.
LEMMA MovesStay ==
    ASSUME TypesInv, KnownHandlers, Heap, UNCHANGED m_addrBth,
           \A t \in Thread : pc'[t] = "unr_erase" => pc[t] = "unr_erase" /\ arg'[t] = arg[t],
           \A a \in Addr, q \in live : m_mapBTDevice[a] = q => m_mapBTDevice'[a] = q
    PROVE  Stays
<1>1. ASSUME NEW q \in live, InMap(q) PROVE InMap(q)'
  <2>1. m_addrBth[q] \in Addr
    BY DEF TypesInv, Origins, Born
  <2> QED
    BY <1>1, <2>1 DEF InMap, Linked, Erasing
<1> QED
  BY <1>1 DEF Stays

LEMMA ChangesStay ==
    ASSUME TypesInv, KnownHandlers, Heap, Changes, fault' = {}, Others(Det)
    PROVE  Stays
<1>0. /\ m_mapBTDevice \in Maps /\ \A t \in Thread : t = Det \/ t = Mgr
      /\ Mgr \in Thread \ {Det} /\ Det \in Thread /\ live \subseteq Ptr
  BY TwoThreads DEF TypesInv, Typed, TypeOK
<1>1. ASSUME NEW p \in Ptr, Allocates(p) PROVE Stays
  <2>1. /\ m_addrBth' = [m_addrBth EXCEPT ![p] = arg[Det]] /\ p \notin live
        /\ m_mapBTDevice' = m_mapBTDevice /\ pc'[Det] = "reg_lock"
    BY <1>1 DEF Allocates
  <2>2. \A a : Erasing(a)' => Erasing(a)
    BY <1>0, <2>1 DEF Erasing, Others
  <2>3. \A q \in live : m_addrBth'[q] = m_addrBth[q]
    BY <1>0, <2>1 DEF TypesInv, Typed, TypeOK
  <2> QED
    BY <2>1, <2>2, <2>3 DEF Stays, InMap, Linked
<1>2. ASSUME RegInsert(Det) PROVE Stays
  <2>1. \A a \in Addr, q \in live : m_mapBTDevice[a] = q => m_mapBTDevice'[a] = q
    BY <1>0, <1>2, InsertDoes, PtrAssumption DEF Present, Maps
  <2> QED
    BY <1>0, <1>2, <2>1, InsertDoes, MovesStay DEF Others
<1>3. ASSUME RegDelete(Det) PROVE Stays
  BY <1>0, <1>3, RegDeleteDoes, MovesStay DEF Others
<1>4. ASSUME UpdIndex(Det) \/ SvcIndex(Det) PROVE Stays
  <2>1. \A a \in Addr, q \in live : m_mapBTDevice[a] = q => m_mapBTDevice'[a] = q
    BY <1>0, <1>4, IndexDoes, PtrAssumption DEF Index, Present, Maps
  <2> QED
    BY <1>0, <1>4, <2>1, IndexDoes, MovesStay DEF Others
<1>5. ASSUME SvcWrite(Det) PROVE Stays
  BY <1>0, <1>5, SvcWriteDoes, MovesStay DEF Others
<1> QED
  BY <1>0, <1>1, <1>2, <1>3, <1>4, <1>5, DeleteStays, EraseStays DEF Changes

LEMMA DetMovesStay ==
    ASSUME TypesInv, KnownHandlers, Heap, DetMoves, Others(Det)
    PROVE  Stays
BY TwoThreads, MovesStay DEF DetMoves, Others

\* Which calls are the callback's last, and where they have done their work.
LEMMA DetLabels ==
    ASSUME Typed, NEW t \in Thread, Step(t)
    PROVE  /\ pc'[t] \in Final => pc[t] \in Final
           /\ pc[t] \in Settled => pc'[t] \in Settled
           /\ pc[t] # "idle"
<1>0. pc \in [Thread -> PcLabels]
  BY DEF Typed, TypeOK
<1>1. /\ pc'[t] \in Final => pc[t] \in Final
      /\ pc[t] \in Settled => pc'[t] \in Settled
      /\ pc[t] # "idle"
  <2> USE DEF At, Goto, Return, Final, Settled
  <2>1. ASSUME \/ RegLock(t) \/ UpdLock(t) \/ SvcLock(t) \/ UnrLock(t) \/ GcsLock(t) \/ LstLock(t)
        PROVE  <1>1!:
    BY <1>0, <2>1 DEF RegLock, UpdLock, SvcLock, UnrLock, GcsLock, LstLock, Wait
  <2>2. ASSUME UpdFind(t) \/ SvcFind(t) \/ UnrCheck(t) PROVE <1>1!:
    BY <1>0, <2>2 DEF UpdFind, SvcFind, UnrCheck, FindOrReturn
  <2>3. ASSUME UpdRelease(t) \/ SvcRelease(t) \/ UnrRelease(t) \/ GcsRelease(t) \/ LstRelease(t)
        PROVE  <1>1!:
    BY <1>0, <2>3 DEF UpdRelease, SvcRelease, UnrRelease, GcsRelease, LstRelease, ReleaseAndReturn
  <2>4. ASSUME RegFind(t) \/ RegCheck(t) \/ RegInsert(t) \/ RegRelease(t) \/ RegDelete(t)
        PROVE  <1>1!:
    BY <1>0, <2>4 DEF RegFind, RegCheck, RegInsert, RegRelease, RegDelete
  <2>5. ASSUME UpdIndex(t) \/ SvcIndex(t) PROVE <1>1!:
    BY <1>0, <2>5 DEF UpdIndex, SvcIndex, IndexDevice
  <2>6. ASSUME UpdWrite(t) PROVE <1>1!:
    <3>1. Goto(t, "upd_release") /\ pc[t] = "upd_write"
      BY <2>6 DEF UpdWrite
    <3> QED
      BY <1>0, <3>1
  <2>7. ASSUME SvcWrite(t) PROVE <1>1!:
    <3>1. Goto(t, "svc_release") /\ pc[t] = "svc_write"
      BY <2>7 DEF SvcWrite
    <3> QED
      BY <1>0, <3>1
  <2>8. ASSUME UnrDelete(t) \/ UnrErase(t) \/ GcsDeref(t) PROVE <1>1!:
    BY <1>0, <2>8 DEF UnrDelete, UnrErase, GcsDeref
  <2>9. ASSUME GcsFind(t) \/ LstWalk(t) PROVE <1>1!:
    BY <1>0, <2>9 DEF GcsFind, LstWalk
  <2> HIDE DEF At, Goto, Return, Final, Settled
  <2> QED
    BY <2>1, <2>2, <2>3, <2>4, <2>5, <2>6, <2>7, <2>8, <2>9 DEF Step
<1> QED
  BY <1>1

LEMMA LastCallKept ==
    ASSUME TypesInv, KnownHandlers, LastCall, Detector
    PROVE  LastCall'
<1>0. /\ Det \in Thread /\ pc \in [Thread -> PcLabels]
  BY TwoThreads DEF TypesInv, Typed, TypeOK
<1>1. CASE DetInsideCall
  <2>1. pc'[Det] \in Final => pc[Det] \in Final
    BY <1>0, <1>1, DetLabels DEF DetInsideCall, TypesInv
  <2> QED
    BY <1>1, <2>1 DEF DetInsideCall, LastCall
<1>2. CASE DetConsult \/ BluetoothRemoveDevice \/ ServicesUnreported
  <2>1. pc'[Det] = pc[Det] /\ pc[Det] \in {"idle", "gcs_release"}
    BY <1>2 DEF DetConsult, BluetoothRemoveDevice, ServicesUnreported, Unpairs, At, registryVars,
                localVars
  <2> QED
    BY <2>1 DEF LastCall, Final
<1>3. ASSUME NEW l, NEW a, Call(Det, l, a) PROVE pc'[Det] = l
  BY <1>0, <1>3 DEF Call, Goto
<1>4. CASE OnDeviceDiscovered
  <2>1. pc'[Det] = "reg_find"
    BY <1>3, <1>4 DEF OnDeviceDiscovered
  <2> QED
    BY <2>1 DEF LastCall, Final
<1>5. CASE RegisteringFailed \/ CheckConnected \/ CheckConnecting
  <2>1. pc'[Det] = "upd_find" \/ pc'[Det] = "gcs_lock"
    BY <1>3, <1>5 DEF RegisteringFailed, CheckConnected, CheckConnecting, DetCall
  <2> QED
    BY <2>1 DEF LastCall, Final
<1>6. CASE OnServiceDiscovered \/ ServiceSearchFailed
  BY <1>6 DEF OnServiceDiscovered, ServiceSearchFailed, DetCall, LastCall
<1> QED
  BY <1>1, <1>2, <1>4, <1>5, <1>6 DEF Detector

\* What the detector does to the cells the manager may hold.
DetCells == /\ \A q \in Ptr : m_pSockHandler'[q] = IF q \in live' \ live THEN NULL
                                                   ELSE m_pSockHandler[q]
            /\ UNCHANGED <<handler, mgrVars>>
            /\ pc'[Mgr] = pc[Mgr] /\ arg'[Mgr] = arg[Mgr] /\ obj'[Mgr] = obj[Mgr]

LEMMA DetectorWalk ==
    ASSUME TypesInv, TypesInv', KnownHandlers, Heap, Walk, Detector, fault' = {}
    PROVE  Walk' /\ DetCells /\ Stays
<1>0. /\ Mgr \in Thread \ {Det} /\ Det \in Thread /\ live \subseteq Ptr /\ live' \subseteq Ptr
      /\ pDev \in Ptr \cup {NULL}
      /\ mpc \in Handling => pDev \in Ptr
      /\ obj[Det] \in Ptr \cup {NULL}
  BY TwoThreads DEF TypesInv, MonitorTypeOK, Typed, TypeOK, Passing
<1>1. DetCells
  BY <1>0, DetectorDoes DEF DetCells, Others
<1>2. Stays
  BY DetectorDoes, ChangesStay, DetMovesStay
<1>3. /\ mpc' = mpc /\ pDev' = pDev /\ mit' = mit /\ eraseList' = eraseList /\ handler' = handler
  BY <1>1 DEF DetCells, mgrVars
<1>4. Visited' /\ Unconnected'
  BY <1>0, <1>1, <1>2, <1>3 DEF Walk, Visited, Unconnected, DetCells, Stays, Handling
<1>5. Ended'
  <2>1. ASSUME mpc \in {"reap", "forget"}, Busy(pDev)' PROVE Busy(pDev)
    <3>1. pDev \in Ptr
      BY <1>0, <2>1 DEF Handling
    <3> QED
      BY <1>1, <1>3, <2>1, <3>1 DEF Busy, DetCells
  <2> QED
    BY <1>3, <2>1 DEF Walk, Ended
<1>6. Control'
  BY <1>1, <1>3 DEF Walk, Control, DetCells
<1>7. LastCall'
  BY LastCallKept DEF Walk
<1>8. Recycled'
  <2>1. CASE DetMoves /\ m_pSockHandler' = m_pSockHandler
    <3>1. Held(obj[Det])' /\ pc'[Det] \in Creating => Held(obj[Det]) /\ pc[Det] \in Creating
      BY <1>3, <2>1 DEF Held, DetMoves
    <3> QED
      BY <1>1, <2>1, <3>1 DEF Walk, Recycled, DetMoves, DetCells, Present, Creating
  <2>2. ASSUME NEW p \in Ptr, Allocates(p) PROVE Recycled'
    <3>1. /\ p \in live' \ live /\ pc'[Det] = "reg_lock" /\ obj'[Det] = p /\ arg'[Det] = arg[Det]
          /\ m_mapBTDevice' = m_mapBTDevice /\ (~Present(arg[Det]) \/ pc[Mgr] = "unr_erase")
      BY <2>2 DEF Allocates
    <3>2. SUFFICES ASSUME mpc \in Attending PROVE Recycled'
      BY <1>0, <1>1, <1>3, <3>1 DEF Recycled, Held, DetCells
    <3>3. pc[Mgr] = "idle"
      BY <3>2 DEF Walk, Control, Attending, Handling
    <3> QED
      BY <1>1, <3>1, <3>3 DEF Recycled, Present, DetCells
  <2>3. ASSUME Changes, \A p \in Ptr : ~Allocates(p) PROVE Recycled'
    <3>1. pc'[Det] \notin Creating
      BY <1>0, <2>3, InsertDoes, RegDeleteDoes, IndexDoes, SvcWriteDoes, DeleteDoes, EraseDoes
         DEF Changes, Creating
    <3> QED
      BY <3>1 DEF Recycled
  <2> QED
    BY <2>1, <2>2, <2>3, DetectorDoes
<1> QED
  BY <1>1, <1>2, <1>4, <1>5, <1>6, <1>7, <1>8 DEF Walk

\* One lemma per step of the walk: what it does without a fault.
LEMMA FetchDoes ==
    ASSUME TypesInv, KnownHandlers, Heap, MgrFetch, fault' = {}
    PROVE  /\ mpc = "walk" /\ mit \in Addr /\ UNCHANGED <<mit, eraseList, m_pSockHandler, handler>>
           /\ mpc' \in {"visit", "advance"}
           /\ mpc' = "visit" => /\ pDev' \in Ptr
                                /\ pDev' \in live => Linked(mit, pDev')
                                /\ ~Owns(Det, pDev')
<1>1. /\ mpc = "walk" /\ mit \in Addr /\ pc[Mgr] = "idle"
      /\ UNCHANGED <<mit, eraseList, m_pSockHandler, handler>>
      /\ IF m_mapBTDevice[mit] \in Ptr THEN pDev' = m_mapBTDevice[mit] /\ mpc' = "visit"
                                       ELSE pDev' = NULL /\ mpc' = "advance"
  BY DEF MgrFetch, MgrAt, MgrGoto, TypesInv, MonitorTypeOK
<1>2. ASSUME mpc' = "visit", pDev' \in live PROVE Linked(mit, pDev')
  BY <1>1, <1>2, TwoThreads DEF Linked, Heap, Deleted, DeadEntry
<1>3. ASSUME mpc' = "visit" PROVE ~Owns(Det, pDev')
  <2>1. pc[Det] = "unr_erase" => ~Owns(Det, pDev')
    BY DEF Owns, Creating
  <2>2. pc[Det] # "unr_erase" => Linked(mit, m_mapBTDevice[mit])
    BY <1>1, TwoThreads DEF Linked
  <2> QED
    BY <1>1, <1>3, <2>1, <2>2 DEF Heap, Filed
<1> QED
  BY <1>1, <1>2, <1>3

LEMMA VisitDoes ==
    ASSUME TypesInv, MgrVisit, fault' = {}
    PROVE  /\ mpc = "visit" /\ pDev \in live /\ pDev \in Ptr
           /\ UNCHANGED <<mit, pDev, eraseList, m_pSockHandler, handler>>
           /\ \/ mpc' = "connect" /\ m_pSockHandler[pDev] = NULL /\ m_listService[pDev]
              \/ mpc' = "reap" /\ m_pSockHandler[pDev] # NULL /\ ~Busy(pDev)
              \/ mpc' \in {"advance", "print"}
<1>1. /\ mpc = "visit" /\ pDev \in live /\ UNCHANGED <<mit, pDev, eraseList, m_pSockHandler, handler>>
  BY DEF MgrVisit, MgrAt, Fault
<1>2. pDev \in Ptr
  BY <1>1 DEF TypesInv, Typed, TypeOK
<1>3. mpc' = IF m_pSockHandler[pDev] = NULL
             THEN IF m_listService[pDev] THEN "connect" ELSE "advance"
             ELSE IF StateOf(m_pSockHandler[pDev]) \in Running THEN "print"
             ELSE "reap"
  BY DEF MgrVisit, MgrGoto
<1>4. m_pSockHandler[pDev] # NULL => StateOf(m_pSockHandler[pDev]) = handler[m_pSockHandler[pDev]]
  BY DEF StateOf
<1>5. m_pSockHandler[pDev] = NULL => StateOf(m_pSockHandler[pDev]) \notin Running
  BY DEF StateOf, Running
<1>6. CASE m_pSockHandler[pDev] = NULL
  BY <1>1, <1>2, <1>3, <1>5, <1>6
<1>7. CASE m_pSockHandler[pDev] # NULL
  BY <1>1, <1>2, <1>3, <1>4, <1>7 DEF Busy
<1> QED
  BY <1>6, <1>7

LEMMA ConnectDoes ==
    ASSUME TypesInv, MgrConnect, fault' = {}
    PROVE  /\ mpc = "connect" /\ mpc' = "advance" /\ pDev \in live /\ pDev \in Ptr
           /\ UNCHANGED <<mit, pDev, eraseList>>
           /\ \/ UNCHANGED <<m_pSockHandler, handler>>
              \/ \E h \in Available : /\ m_pSockHandler' = [m_pSockHandler EXCEPT ![pDev] = h]
                                      /\ handler' = [handler EXCEPT ![h] = "started"]
<1>1. /\ mpc = "connect" /\ Deref(pDev) /\ mpc' = "advance"
      /\ UNCHANGED <<mit, pDev, eraseList>>
  BY DEF MgrConnect, MgrStep, MgrAt, MgrGoto
<1>2. pDev \in live /\ pDev \in Ptr
  BY <1>1, FaultlessDeref DEF TypesInv, Typed, TypeOK
<1> QED
  BY <1>1, <1>2 DEF MgrConnect

LEMMA PrintDoes ==
    ASSUME MgrPrint
    PROVE  mpc = "print" /\ mpc' = "advance" /\ UNCHANGED <<m_pSockHandler, handler, mit, pDev, eraseList>>
BY DEF MgrPrint, MgrAt, MgrGoto

LEMMA ReapDoes ==
    ASSUME TypesInv, MgrReap
    PROVE  /\ mpc = "reap" /\ mpc' = "forget"
           /\ UNCHANGED <<m_pSockHandler, mit, pDev, eraseList>>
           /\ \A h \in Handler : handler'[h] = IF h = m_pSockHandler[pDev] THEN "free" ELSE handler[h]
BY DEF MgrReap, MgrAt, MgrGoto

LEMMA ForgetDoes ==
    ASSUME TypesInv, MgrForget
    PROVE  /\ mpc = "forget" /\ mpc' = "advance" /\ pDev \in Ptr
           /\ UNCHANGED <<mit, pDev, handler>> /\ eraseList' = Append(eraseList, pDev)
           /\ \A p \in Ptr : m_pSockHandler'[p] = IF p = pDev THEN NULL ELSE m_pSockHandler[p]
<1>1. /\ mpc = "forget" /\ mpc' = "advance" /\ UNCHANGED <<mit, pDev, handler>>
      /\ eraseList' = Append(eraseList, pDev)
      /\ m_pSockHandler' = [m_pSockHandler EXCEPT ![pDev] = NULL]
  BY DEF MgrForget, MgrStep, MgrAt, MgrGoto
<1> QED
  BY <1>1 DEF TypesInv, MonitorTypeOK, Passing, Handling

LEMMA AdvanceDoes ==
    ASSUME MgrAdvance
    PROVE  /\ mpc = "advance" /\ mpc' = "walk" /\ UNCHANGED <<m_pSockHandler, handler, eraseList>>
           /\ mit' = 0 \/ mit' \in KeysAfter(mit)
<1>1. mit' = NextKey(mit) \/ mit' \in KeysAfter(mit) \cup {0}
  BY DEF MgrAdvance
<1> QED
  BY <1>1, NextKeyTyped DEF MgrAdvance, MgrAt, MgrGoto

LEMMA LockDoes ==
    ASSUME MgrLock
    PROVE  mpc = "sleeping" /\ mpc' = "walk" /\ UNCHANGED <<m_pSockHandler, handler, eraseList>>
BY DEF MgrLock, MgrAt, MgrGoto

LEMMA ReleaseDoes ==
    ASSUME MgrRelease
    PROVE  /\ mpc = "walk" /\ mpc' = "sleeping" /\ mit = 0 /\ eraseList = <<>>
           /\ UNCHANGED <<m_pSockHandler, handler, mit, pDev, eraseList>>
BY DEF MgrRelease, MgrAt, MgrGoto

\* The walk leaves the detector its cell.
LEMMA WalkKeeps ==
    ASSUME KnownHandlers, Walk, Walks, pc[Det] \in Creating => (Held(obj[Det])' => Held(obj[Det])),
           Visited', Unconnected', Ended',
           mpc' \in Handling \cup {"advance"} => mit' \in Addr,
           mpc' = "sleeping" => eraseList' = <<>> /\ mit' = 0
    PROVE  Walk'
<1>1. /\ pc' = pc /\ arg' = arg /\ obj' = obj /\ pc[Mgr] = "idle" /\ dpc' = dpc
      /\ m_mapBTDevice' = m_mapBTDevice
  BY ManagerWalks DEF localVars, heapVars, detVars
<1>2. Recycled'
  BY <1>1 DEF Walk, Recycled, Present
<1>3. Control' /\ LastCall'
  BY <1>1 DEF Walk, Control, LastCall
<1> QED
  BY <1>2, <1>3 DEF Walk

LEMMA WalksWalk ==
    ASSUME TypesInv, KnownHandlers, Heap, Walk, Walks, fault' = {}
    PROVE  Walk'
<1>0. /\ m_pSockHandler \in [Ptr -> Handler \cup {NULL}]
      /\ handler \in [Handler -> AllHandlerStates] /\ NULL \notin Handler /\ live \subseteq Ptr
  BY HandlerAssumption DEF TypesInv, MonitorTypeOK, Typed, TypeOK
<1>1. /\ pc' = pc /\ arg' = arg /\ obj' = obj /\ pc[Mgr] = "idle"
      /\ UNCHANGED <<m_mapBTDevice, live, m_addrBth, m_listService>>
  BY ManagerWalks DEF localVars, heapVars, fieldVars
<1>2. pc[Det] \in Creating => obj[Det] \in Ptr
  BY <1>0 DEF Heap, Constructed
<1> USE DEF Visited, Unconnected, Ended, Handling
<1>3. CASE MgrFetch
  <2>1. pc[Det] \in Creating => (Held(obj[Det])' => Held(obj[Det]))
    BY <1>1, <1>3, FetchDoes DEF Held, Owns, Attending
  <2>2. Visited'
    <3>1. SUFFICES ASSUME mpc' = "visit", pDev' \in live PROVE m_addrBth[pDev'] = mit' /\ InMap(pDev)'
      BY <1>1
    <3>2. Linked(mit, pDev') /\ mit' = mit /\ mit \in Addr /\ pDev' \in Ptr
      BY <1>3, <3>1, FetchDoes
    <3>3. m_addrBth[pDev'] = mit
      BY <3>2 DEF Heap, Filed
    <3> QED
      BY <1>1, <3>2, <3>3 DEF InMap, Linked, Erasing
  <2> QED
    BY <1>3, <2>1, <2>2, FetchDoes, WalkKeeps DEF Walks
<1>4. CASE MgrVisit
  <2>1. pc[Det] \in Creating => (Held(obj[Det])' => Held(obj[Det]))
    BY <1>1, <1>4, VisitDoes DEF Held, Attending
  <2>2. Ended'
    BY <1>4, VisitDoes DEF Busy
  <2>3. mit \in Addr
    BY <1>4, VisitDoes DEF Walk, Control
  <2> QED
    BY <1>1, <1>4, <2>1, <2>2, <2>3, VisitDoes, WalkKeeps DEF Walks
<1>5. CASE MgrConnect
  <2>1. pc[Det] \in Creating => (Held(obj[Det])' => Held(obj[Det]))
    BY <1>0, <1>1, <1>2, <1>5, ConnectDoes DEF Held, Attending
  <2>2. mit \in Addr
    BY <1>5, ConnectDoes DEF Walk, Control
  <2> QED
    BY <1>5, <2>1, <2>2, ConnectDoes, WalkKeeps DEF Walks
<1>6. CASE MgrPrint
  <2>1. pc[Det] \in Creating => (Held(obj[Det])' => Held(obj[Det]))
    BY <1>1, <1>6, PrintDoes DEF Held, Attending
  <2>2. mit \in Addr
    BY <1>6, PrintDoes DEF Walk, Control
  <2> QED
    BY <1>6, <2>1, <2>2, PrintDoes, WalkKeeps DEF Walks
<1>7. CASE MgrReap
  <2>1. pc[Det] \in Creating => (Held(obj[Det])' => Held(obj[Det]))
    BY <1>1, <1>7, ReapDoes DEF Held, Attending
  <2>2. mit \in Addr /\ pDev \in Ptr
    BY <1>7, ReapDoes DEF Walk, Control, TypesInv, Passing
  <2>3. Ended'
    BY <1>0, <1>7, <2>2, ReapDoes DEF Busy, Running
  <2> QED
    BY <1>7, <2>1, <2>2, <2>3, ReapDoes, WalkKeeps DEF Walks
<1>8. CASE MgrForget
  <2>1. pc[Det] \in Creating => (Held(obj[Det])' => Held(obj[Det]))
    BY <1>1, <1>2, <1>8, ForgetDoes DEF Held, Attending
  <2>2. mit \in Addr
    BY <1>8, ForgetDoes DEF Walk, Control
  <2> QED
    BY <1>8, <2>1, <2>2, ForgetDoes, WalkKeeps DEF Walks
<1>9. CASE MgrAdvance
  <2>1. pc[Det] \in Creating => (Held(obj[Det])' => Held(obj[Det]))
    BY <1>1, <1>9, AdvanceDoes DEF Held, Attending
  <2> QED
    BY <1>9, <2>1, AdvanceDoes, WalkKeeps DEF Walks
<1>10. CASE MgrLock
  <2>1. pc[Det] \in Creating => (Held(obj[Det])' => Held(obj[Det]))
    BY <1>1, <1>10, LockDoes DEF Held, Attending
  <2> QED
    BY <1>10, <2>1, LockDoes, WalkKeeps DEF Walks
<1>11. CASE MgrRelease
  <2>1. pc[Det] \in Creating => (Held(obj[Det])' => Held(obj[Det]))
    BY <1>1, <1>11, ReleaseDoes DEF Held, Attending
  <2> QED
    BY <1>11, <2>1, ReleaseDoes, WalkKeeps DEF Walks
<1> QED
  BY <1>3, <1>4, <1>5, <1>6, <1>7, <1>8, <1>9, <1>10, <1>11 DEF Walks

\* The manager's calls do not walk.
LEMMA CallsWalk ==
    ASSUME TypesInv, KnownHandlers, Heap, Walk, MgrErase \/ MgrInsideCall, fault' = {}
    PROVE  Walk' /\ mpc = "walk" /\ mit = 0
<1>0. /\ Det \in Thread \ {Mgr} /\ Mgr \in Thread
  BY TwoThreads
<1>1. CASE MgrErase
  <2>1. /\ pc'[Det] = pc[Det] /\ obj'[Det] = obj[Det] /\ arg'[Det] = arg[Det]
        /\ UNCHANGED <<m_mapBTDevice, m_pSockHandler, mpc, mit, pDev, dpc>>
        /\ pc'[Mgr] = "unp_find" /\ mpc = "walk" /\ mit = 0
    BY <1>0, <1>1, MgrErases DEF Others, detVars
  <2> QED
    BY <2>1 DEF Walk, Recycled, Visited, Unconnected, Ended, Control, LastCall, Held, Present, Handling
<1>2. CASE MgrInsideCall
  <2>1. /\ pc'[Det] = pc[Det] /\ obj'[Det] = obj[Det] /\ arg'[Det] = arg[Det]
        /\ UNCHANGED <<m_pSockHandler, mpc, mit, pDev, dpc>>
        /\ MgrMoves \/ MgrNames \/ UnrDelete(Mgr) \/ UnrErase(Mgr)
    BY <1>0, <1>2, ManagerCalls DEF Others, detVars, mgrVars
  <2>2. pc[Mgr] # "idle"
    BY <1>0, <2>1, DeleteDoes, EraseDoes DEF MgrMoves, MgrNames
  <2>3. mpc = "walk" /\ mit = 0
    BY <2>2 DEF Walk, Control
  <2>4. Recycled'
    <3>1. SUFFICES ASSUME pc[Det] \in Creating, Held(obj[Det])
                   PROVE  ~Present(arg[Det])' /\ ~(pc'[Mgr] = "unr_delete" /\ arg'[Mgr] = arg[Det])
      BY <2>1 DEF Walk, Recycled, Held
    <3>2. ~Present(arg[Det]) /\ ~(pc[Mgr] = "unr_delete" /\ arg[Mgr] = arg[Det])
      BY <3>1 DEF Walk, Recycled
    <3>3. CASE MgrMoves \/ MgrNames
      BY <2>1, <3>2, <3>3 DEF MgrMoves, MgrNames, Present
    <3>0. /\ arg[Det] \in Addr /\ m_mapBTDevice \in Maps /\ m_mapBTDevice[arg[Det]] = Absent
          /\ arg'[Det] = arg[Det]
      BY <1>0, <2>1, <3>1, <3>2 DEF Present, TypesInv, Typed, TypeOK, Creating
    <3>4. CASE UnrDelete(Mgr)
      <4>1. /\ arg[Mgr] # arg[Det] /\ arg[Mgr] \in Addr /\ pc'[Mgr] = "unr_erase"
            /\ m_mapBTDevice' = [m_mapBTDevice EXCEPT ![arg[Mgr]] = Index(arg[Mgr])]
        BY <1>0, <3>2, <3>4, DeleteDoes
      <4>2. m_mapBTDevice'[arg[Det]] = Absent
        BY <3>0, <4>1 DEF Maps
      <4> QED
        BY <3>0, <4>1, <4>2 DEF Present
    <3>5. CASE UnrErase(Mgr)
      <4>1. /\ arg[Mgr] \in Addr /\ pc'[Mgr] = "unr_release"
            /\ m_mapBTDevice' = [m_mapBTDevice EXCEPT ![arg[Mgr]] = Absent]
        BY <1>0, <3>5, EraseDoes
      <4>2. m_mapBTDevice'[arg[Det]] = Absent
        BY <3>0, <4>1 DEF Maps
      <4> QED
        BY <3>0, <4>1, <4>2 DEF Present
    <3> QED
      BY <2>1, <3>3, <3>4, <3>5
  <2> QED
    BY <2>1, <2>3, <2>4 DEF Walk, Visited, Unconnected, Ended, Control, LastCall, Handling
<1> QED
  BY <1>1, <1>2

LEMMA HandlerDoes ==
    ASSUME TypesInv, NEW h \in Handler, HandlerRun(h)
    PROVE  /\ UNCHANGED <<registryVars, m_pSockHandler, detVars, mgrVars>>
           /\ \A g \in Handler : handler'[g] \in Running => handler[g] \in Running
BY DEF HandlerRun, TypesInv, MonitorTypeOK, HandlerMoves, Running

LEMMA HandlerWalk ==
    ASSUME TypesInv, KnownHandlers, Heap, Walk, NEW h \in Handler, HandlerRun(h)
    PROVE  Walk'
<1>1. /\ UNCHANGED <<registryVars, m_pSockHandler, detVars, mgrVars>>
      /\ \A g \in Handler : handler'[g] \in Running => handler[g] \in Running
  BY HandlerDoes
<1>2. UNCHANGED <<m_mapBTDevice, live, m_addrBth, pc, arg, obj, dpc, mpc, mit, pDev, eraseList>>
  BY <1>1 DEF registryVars, heapVars, fieldVars, localVars, detVars, mgrVars
<1>3. Ended'
  BY <1>1, <1>2 DEF Walk, Ended, Busy, TypesInv, MonitorTypeOK, Passing, Handling
<1>4. Recycled' /\ Visited' /\ Unconnected'
  BY <1>1, <1>2 DEF Walk, Recycled, Visited, Unconnected, Held, Present, InMap, Linked, Erasing
<1> QED
  BY <1>2, <1>3, <1>4 DEF Walk, Control, LastCall

LEMMA WalkKept ==
    ASSUME TypesInv, TypesInv', KnownHandlers, Heap, Walk, [MonitorNext]_vars, fault' = {}
    PROVE  Walk'
<1>1. ASSUME UNCHANGED vars PROVE Walk'
  <2>1. UNCHANGED <<m_mapBTDevice, live, m_addrBth, m_pSockHandler, handler, pc, arg, obj, dpc, mpc,
                    mit, pDev, eraseList>>
    BY <1>1 DEF vars, registryVars, heapVars, fieldVars, localVars, detVars, mgrVars
  <2> QED
    BY <2>1 DEF Walk, Recycled, Visited, Unconnected, Ended, Control, LastCall, Held, Busy, Present,
                InMap, Linked, Erasing
<1> QED
  BY <1>1, DetectorWalk, WalksWalk, CallsWalk, HandlerWalk
     DEF MonitorNext, DetectorThread, ManagerThread, HandlerThread, Manager, Walks

-----------------------------------------------------------------------------
(* The account of a discovery.  An orphan costs two: its own discovery, and  *)
(* the one whose failed search took its device away.  The rest is held for   *)
(* what may still become an orphan: for a device that has services or a      *)
(* handler; for a device in the list of those to erase that may have been    *)
(* reused, so that the erasure of it could hit another one; for such an      *)
(* erasure under way; and for a discovery whose outcome is still open.       *)

Serviced == {p \in Ptr : \/ p \in live /\ (m_listService[p] \/ Busy(p))
                         \/ mpc = "connect" /\ p = pDev}

\* The devices still to erase: the one the call under way is about, those in
\* the list, and the one about to be put on it.
Slots == {i \in Nat : \/ i = 0 /\ pc[Mgr] \in {"unp_find", "unp_call"}
                      \/ i \in 1 .. Len(eraseList)
                      \/ i = Len(eraseList) + 1 /\ mpc \in {"reap", "forget"}}
InSlot(i) == IF i = 0 THEN obj[Mgr] ELSE IF i <= Len(eraseList) THEN eraseList[i] ELSE pDev

\* A device whose erasure takes no other device's place in the map, and no handler.
ToVisit(a) == mit # 0 /\ (a > mit \/ (a = mit /\ mpc = "walk"))
ErasingSoon(a) == pc[Mgr] \in {"unr_lock", "unr_check", "unr_delete"} /\ arg[Mgr] = a
Honest(p) == /\ p \in live /\ InMap(p) /\ ~Busy(p)
             /\ ~ToVisit(m_addrBth[p])
             /\ ~(mpc \in Attending /\ p = pDev)
             /\ ~ErasingSoon(m_addrBth[p])
Bad == {i \in Slots : ~Honest(InSlot(i)) \/ \E j \in Slots : j > i /\ InSlot(j) = InSlot(i)}

Condemned == \E p \in live : Busy(p) /\ ErasingSoon(m_addrBth[p])
Pending == ~(dpc = "inquiry" /\ pc[Det] \in Settled)
Toll(b) == IF b THEN 1 ELSE 0

Weighed == /\ IsFiniteSet(Orphans) /\ IsFiniteSet(Serviced)
           /\ 2 * Cardinality(Orphans) + Cardinality(Serviced) + Cardinality(Bad)
                + Toll(Condemned) + Toll(Pending) <= found

LEMMA Shrinks ==
    ASSUME NEW S, IsFiniteSet(S), NEW T, T \subseteq S
    PROVE  /\ IsFiniteSet(T) /\ Cardinality(S) \in Nat /\ Cardinality(T) \in Nat
           /\ Cardinality(T) <= Cardinality(S)
BY FS_Subset, FS_CardinalityType

LEMMA NoMore ==
    ASSUME NEW S, IsFiniteSet(S), NEW T, T \subseteq S
    PROVE  IsFiniteSet(T) /\ Cardinality(T) <= Cardinality(S) + 0
<1>1. /\ IsFiniteSet(T) /\ Cardinality(S) \in Nat /\ Cardinality(T) <= Cardinality(S)
  BY Shrinks
<1> QED
  BY <1>1

LEMMA GrowsByOne ==
    ASSUME NEW S, IsFiniteSet(S), NEW x, NEW T, T \subseteq S \cup {x}
    PROVE  /\ IsFiniteSet(T) /\ Cardinality(S) \in Nat /\ Cardinality(T) \in Nat
           /\ Cardinality(T) <= Cardinality(S) + 1
<1>1. Cardinality(S) \in Nat
  BY FS_CardinalityType
<1>2. /\ IsFiniteSet(S \cup {x})
      /\ Cardinality(S \cup {x}) = IF x \in S THEN Cardinality(S) ELSE Cardinality(S) + 1
  BY FS_AddElement
<1>3. /\ IsFiniteSet(T) /\ Cardinality(T) \in Nat
      /\ Cardinality(T) <= Cardinality(S \cup {x})
  BY <1>2, Shrinks
<1> QED
  BY <1>1, <1>2, <1>3

LEMMA LosesOne ==
    ASSUME NEW S, IsFiniteSet(S), NEW x \in S, NEW T, T \subseteq S \ {x}
    PROVE  /\ IsFiniteSet(T) /\ Cardinality(S) \in Nat /\ Cardinality(T) \in Nat
           /\ Cardinality(T) + 1 <= Cardinality(S)
<1>1. /\ IsFiniteSet(S \ {x}) /\ Cardinality(S) \in Nat
      /\ Cardinality(S \ {x}) = Cardinality(S) - 1
  BY FS_RemoveElement, FS_CardinalityType
<1>2. /\ IsFiniteSet(T) /\ Cardinality(T) \in Nat /\ Cardinality(S \ {x}) \in Nat
      /\ Cardinality(T) <= Cardinality(S \ {x})
  BY <1>1, Shrinks
<1> QED
  BY <1>1, <1>2

LEMMA ExchangesOne ==
    ASSUME NEW S, IsFiniteSet(S), NEW x \in S, NEW y, NEW T, T \subseteq (S \ {x}) \cup {y}
    PROVE  /\ IsFiniteSet(T) /\ Cardinality(S) \in Nat /\ Cardinality(T) \in Nat
           /\ Cardinality(T) <= Cardinality(S)
<1>1. /\ IsFiniteSet(S \ {x}) /\ Cardinality(S) \in Nat /\ Cardinality(S \ {x}) \in Nat
      /\ Cardinality(S \ {x}) + 1 <= Cardinality(S)
  BY LosesOne
<1>2. IsFiniteSet(T) /\ Cardinality(T) \in Nat /\ Cardinality(T) <= Cardinality(S \ {x}) + 1
  BY <1>1, GrowsByOne
<1> QED
  BY <1>1, <1>2

LEMMA Tolls ==
    /\ \A b : Toll(b) \in Nat /\ Toll(b) <= 1
    /\ \A b : b => Toll(b) = 1
    /\ \A b : ~b => Toll(b) = 0
BY DEF Toll

LEMMA BadFinite ==
    ASSUME TypesInv
    PROVE  /\ IsFiniteSet(Slots) /\ IsFiniteSet(Bad) /\ Cardinality(Bad) \in Nat /\ found \in Nat
<1>1. Len(eraseList) \in Nat /\ found \in Nat
  BY HandlerAssumption DEF TypesInv, MonitorTypeOK
<1>2. Slots \subseteq 0 .. (Len(eraseList) + 1)
  BY <1>1 DEF Slots
<1>3. IsFiniteSet(Slots)
  <2>1. IsFiniteSet(0 .. (Len(eraseList) + 1))
    BY <1>1, FS_Interval
  <2> QED
    BY <1>2, <2>1, FS_Subset
<1> QED
  BY <1>1, <1>3, FS_Subset, FS_CardinalityType DEF Bad

\* The common case.
LEMMA Lighter ==
    ASSUME TypesInv, TypesInv', Weighed,
           Orphans' \subseteq Orphans, Serviced' \subseteq Serviced, Bad' \subseteq Bad,
           Condemned' => Condemned, Pending' => Pending, found' = found
    PROVE  Weighed'
<1>1. /\ IsFiniteSet(Orphans') /\ Cardinality(Orphans) \in Nat /\ Cardinality(Orphans') \in Nat
      /\ Cardinality(Orphans') <= Cardinality(Orphans)
  BY Shrinks DEF Weighed
<1>2. /\ IsFiniteSet(Serviced') /\ Cardinality(Serviced) \in Nat /\ Cardinality(Serviced') \in Nat
      /\ Cardinality(Serviced') <= Cardinality(Serviced)
  BY Shrinks DEF Weighed
<1>3. /\ Cardinality(Bad) \in Nat /\ Cardinality(Bad') \in Nat
      /\ Cardinality(Bad') <= Cardinality(Bad)
  BY BadFinite, Shrinks
<1>4. /\ Toll(Condemned) \in Nat /\ Toll(Condemned') \in Nat /\ Toll(Condemned') <= Toll(Condemned)
      /\ Toll(Pending) \in Nat /\ Toll(Pending') \in Nat /\ Toll(Pending') <= Toll(Pending)
  BY DEF Toll
<1>5. found \in Nat
  BY BadFinite
<1>6. 2 * Cardinality(Orphans') + Cardinality(Serviced') + Cardinality(Bad')
                + Toll(Condemned') + Toll(Pending') <= found'
  BY <1>1, <1>2, <1>3, <1>4, <1>5 DEF Weighed
<1> QED
  BY <1>1, <1>2, <1>6 DEF Weighed, Toll

\* Slots that are kept stay good while their devices stay honest.
LEMMA SlotsKept ==
    ASSUME Slots' \subseteq Slots, \A i \in Slots' : InSlot(i)' = InSlot(i),
           \A i \in Slots' : Honest(InSlot(i)) => Honest(InSlot(i))'
    PROVE  Bad' \subseteq Bad
<1> SUFFICES ASSUME NEW i \in Bad' PROVE i \in Bad
  OBVIOUS
<1>1. i \in Slots' /\ i \in Slots
  BY DEF Bad
<1>2. CASE ~Honest(InSlot(i))'
  BY <1>1, <1>2 DEF Bad
<1>3. CASE \E j \in Slots' : j > i /\ InSlot(j)' = InSlot(i)'
  BY <1>1, <1>3 DEF Bad
<1> QED
  BY <1>2, <1>3 DEF Bad

\* What the detector does to the account, apart from the cells it frees.
LEMMA DetAccount ==
    ASSUME TypesInv, TypesInv', Stays, DetCells
    PROVE  /\ Slots' = Slots /\ \A i \in Slots : InSlot(i)' = InSlot(i)
           /\ \A q \in live' : Honest(q) => Honest(q)'
           /\ Condemned' => Condemned
           /\ \A h \in Orphans' : h \in Orphans \/ \E p \in live \ live' : Busy(p) /\ m_pSockHandler[p] = h
           /\ \A p \in Ptr : p \in live' /\ Busy(p)' => p \in live /\ Busy(p)
<1>0. /\ mpc' = mpc /\ mit' = mit /\ pDev' = pDev /\ eraseList' = eraseList /\ handler' = handler
      /\ pc'[Mgr] = pc[Mgr] /\ arg'[Mgr] = arg[Mgr] /\ obj'[Mgr] = obj[Mgr]
      /\ live \subseteq Ptr /\ live' \subseteq Ptr
      /\ NULL \notin Handler
  BY HandlerAssumption DEF DetCells, mgrVars, TypesInv, Typed, TypeOK
<1>1. Slots' = Slots /\ \A i \in Slots : InSlot(i)' = InSlot(i)
  BY <1>0 DEF Slots, InSlot
<1>2. \A p \in Ptr : p \in live' /\ Busy(p)' => p \in live /\ Busy(p)
  BY <1>0 DEF Busy, DetCells
<1>3. ASSUME NEW q \in live', Honest(q) PROVE Honest(q)'
  <2>1. q \in live \cap live' /\ m_addrBth'[q] = m_addrBth[q] /\ InMap(q)'
    BY <1>3 DEF Honest, Stays
  <2> QED
    BY <1>0, <1>2, <1>3, <2>1 DEF Honest, ToVisit, ErasingSoon
<1>4. Condemned' => Condemned
  BY <1>0, <1>2 DEF Condemned, ErasingSoon, Stays
<1>5. ASSUME NEW h \in Orphans'
      PROVE  h \in Orphans \/ \E p \in live \ live' : Busy(p) /\ m_pSockHandler[p] = h
  <2>1. h \in Handler /\ handler[h] \in Running /\ \A p \in live' : m_pSockHandler'[p] # h
    BY <1>0, <1>5 DEF Orphans
  <2>2. \A p \in live : m_pSockHandler[p] = h => p \notin live' /\ Busy(p)
    BY <1>0, <2>1 DEF DetCells, Busy
  <2> QED
    BY <2>1, <2>2 DEF Orphans
<1> QED
  BY <1>1, <1>2, <1>3, <1>4, <1>5

LEMMA PendingKept ==
    ASSUME TypesInv, KnownHandlers, Detector, ~OnDeviceDiscovered
    PROVE  (Pending' => Pending) /\ found' = found
<1>0. Det \in Thread
  BY TwoThreads
<1>1. CASE DetInsideCall
  <2>1. /\ dpc' = dpc /\ found' = found
        /\ pc[Det] \in Settled => pc'[Det] \in Settled
    BY <1>0, <1>1, DetLabels DEF DetInsideCall, TypesInv
  <2> QED
    BY <2>1 DEF Pending
<1>2. CASE DetConsult
  BY <1>2 DEF DetConsult, localVars, Pending
<1>3. CASE \/ RegisteringFailed \/ CheckConnected \/ CheckConnecting \/ BluetoothRemoveDevice
           \/ OnServiceDiscovered \/ ServiceSearchFailed \/ ServicesUnreported
  <2>1. dpc # "inquiry" /\ found' = found
    BY <1>3 DEF RegisteringFailed, CheckConnected, CheckConnecting, BluetoothRemoveDevice,
                OnServiceDiscovered, ServiceSearchFailed, ServicesUnreported, DetCall, Known,
                Searches, Unpairs
  <2> QED
    BY <2>1 DEF Pending
<1> QED
  BY <1>1, <1>2, <1>3 DEF Detector

\* What is in a slot stays honest unless it is freed.
LEMMA DetHonest ==
    ASSUME TypesInv, TypesInv', Stays, DetCells, NEW i \in Slots', Honest(InSlot(i)),
           InSlot(i) \in live'
    PROVE  Honest(InSlot(i))'
<1>1. i \in Slots /\ InSlot(i)' = InSlot(i)
  BY DetAccount
<1>2. \A q \in live' : Honest(q) => Honest(q)'
  BY DetAccount
<1>3. \A q \in live' : q = InSlot(i)' => (Honest(q)' <=> Honest(InSlot(i))')
  BY DEF Honest, Busy, InMap, Linked, ToVisit, ErasingSoon
<1> QED
  BY <1>1, <1>2, <1>3

\* A step of the detector that frees no cell but one nobody attends to, and finds
\* no services.
LEMMA DetShrinks ==
    ASSUME TypesInv, TypesInv', Stays, DetCells,
           \A p \in live \ live' : ~Busy(p) /\ ~Honest(p),
           \A p \in live' \cap Ptr : m_listService'[p] => m_listService[p] /\ p \in live
    PROVE  Orphans' \subseteq Orphans /\ Serviced' \subseteq Serviced /\ Bad' \subseteq Bad
<1>0. mpc' = mpc /\ pDev' = pDev /\ live' \subseteq Ptr
  BY DEF DetCells, mgrVars, TypesInv, Typed, TypeOK
<1>1. Orphans' \subseteq Orphans
  BY DetAccount
<1>2. Serviced' \subseteq Serviced
  BY <1>0, DetAccount DEF Serviced
<1>3. Bad' \subseteq Bad
  <2>1. ASSUME NEW i \in Slots', Honest(InSlot(i)) PROVE Honest(InSlot(i))'
    <3>1. InSlot(i) \in live'
      BY <2>1 DEF Honest
    <3> QED
      BY <2>1, <3>1, DetHonest
  <2> QED
    BY <2>1, DetAccount, SlotsKept
<1> QED
  BY <1>1, <1>2, <1>3

LEMMA DetLighter ==
    ASSUME TypesInv, TypesInv', Weighed, Stays, DetCells, Pending' => Pending, found' = found,
           \A p \in live \ live' : ~Busy(p) /\ ~Honest(p),
           \A p \in live' \cap Ptr : m_listService'[p] => m_listService[p] /\ p \in live
    PROVE  Weighed'
BY DetShrinks, DetAccount, Lighter

\* The other case: what is gained here is lost there.
LEMMA Balanced ==
    ASSUME TypesInv, TypesInv', Weighed,
           IsFiniteSet(Orphans'), IsFiniteSet(Serviced'), IsFiniteSet(Bad'),
           NEW o \in Int, Cardinality(Orphans') <= Cardinality(Orphans) + o,
           NEW s \in Int, Cardinality(Serviced') <= Cardinality(Serviced) + s,
           NEW b \in Int, Cardinality(Bad') <= Cardinality(Bad) + b,
           2 * o + s + b + Toll(Condemned') + Toll(Pending') + found
             <= Toll(Condemned) + Toll(Pending) + found'
    PROVE  Weighed'
<1>1. /\ Cardinality(Orphans) \in Nat /\ Cardinality(Orphans') \in Nat
      /\ Cardinality(Serviced) \in Nat /\ Cardinality(Serviced') \in Nat
  BY FS_CardinalityType DEF Weighed
<1>2. Cardinality(Bad) \in Nat /\ Cardinality(Bad') \in Nat /\ found \in Nat /\ found' \in Nat
  BY BadFinite, FS_CardinalityType, HandlerAssumption DEF TypesInv, MonitorTypeOK
<1>3. /\ Toll(Condemned) \in Nat /\ Toll(Condemned') \in Nat
      /\ Toll(Pending) \in Nat /\ Toll(Pending') \in Nat
  BY DEF Toll
<1>4. 2 * Cardinality(Orphans') + Cardinality(Serviced') + Cardinality(Bad')
                + Toll(Condemned') + Toll(Pending') <= found'
  BY <1>1, <1>2, <1>3 DEF Weighed
<1> QED
  BY <1>4 DEF Weighed, Toll

\* A discovery opens an account.
LEMMA DiscoveryWeighed ==
    ASSUME TypesInv, TypesInv', KnownHandlers, Weighed, Stays, DetCells, OnDeviceDiscovered
    PROVE  Weighed'
<1>1. /\ dpc = "inquiry" /\ pc[Det] = "idle" /\ found' = found + 1
      /\ UNCHANGED <<live, m_listService>>
  BY DEF OnDeviceDiscovered, Call, At, heapVars, fieldVars
<1>2. Orphans' \subseteq Orphans /\ Serviced' \subseteq Serviced /\ Bad' \subseteq Bad
  BY <1>1, DetShrinks
<1>3. /\ IsFiniteSet(Orphans') /\ Cardinality(Orphans') <= Cardinality(Orphans) + 0
      /\ IsFiniteSet(Serviced') /\ Cardinality(Serviced') <= Cardinality(Serviced) + 0
      /\ IsFiniteSet(Bad') /\ Cardinality(Bad') <= Cardinality(Bad) + 0
  BY <1>2, BadFinite, NoMore DEF Weighed
<1>4. ~Pending /\ (Condemned' => Condemned)
  BY <1>1, DetAccount DEF Pending, Settled
<1>5. 2 * 0 + 0 + 0 + Toll(Condemned') + Toll(Pending') + found
        <= Toll(Condemned) + Toll(Pending) + found'
  BY <1>1, <1>4, BadFinite DEF Toll
<1> QED
  BY <1>3, <1>5, Balanced

\* Which device UnregisterDevice deletes.
LEMMA Victim ==
    ASSUME TypesInv, KnownHandlers, Heap, NEW t \in Thread, UnrDelete(t), fault' = {},
           Index(arg[t]) \in live
    PROVE  /\ Linked(arg[t], Index(arg[t])) /\ m_addrBth[Index(arg[t])] = arg[t]
           /\ ~Owns(Det, Index(arg[t]))
<1>0. /\ live \subseteq Ptr /\ Det \in Thread /\ Mgr \in Thread
      /\ Det # Mgr /\ \A u \in Thread : u = Det \/ u = Mgr
  BY TwoThreads DEF TypesInv, Typed, TypeOK
<1>1. pc[t] = "unr_delete" /\ arg[t] \in Addr
  BY DeleteDoes
<1>2. m_mapBTDevice[arg[t]] = Index(arg[t])
  BY <1>0, PtrAssumption DEF Index
<1>3. Linked(arg[t], Index(arg[t]))
  <2>1. CASE t = Det
    <3>1. pc[Mgr] = "unr_erase" => m_mapBTDevice[arg[Mgr]] \notin live
      BY <1>0, <1>1, <2>1 DEF Heap, Deleted, DeadEntry, Owns, Creating
    <3> QED
      BY <1>0, <1>1, <1>2, <2>1, <3>1, TwoThreads DEF Linked
  <2>2. CASE t = Mgr
    <3>1. pc[Det] = "unr_erase" => m_mapBTDevice[arg[Det]] \notin live
      BY <1>0 DEF Heap, Deleted, DeadEntry
    <3> QED
      BY <1>0, <1>1, <1>2, <2>2, <3>1, TwoThreads DEF Linked
  <2> QED
    BY <1>0, <2>1, <2>2
<1> QED
  BY <1>0, <1>1, <1>3 DEF Heap, Filed

\* Services found are the account's last entry; they may cost it a handler.
LEMMA SvcWriteWeighed ==
    ASSUME TypesInv, TypesInv', KnownHandlers, Heap, Walk, Weighed, Stays, DetCells,
           DetInsideCall, SvcWrite(Det), fault' = {}
    PROVE  Weighed'
<1>1. /\ pc[Det] = "svc_write" /\ pc'[Det] = "svc_release" /\ dpc' = dpc /\ found' = found
      /\ obj[Det] \in live /\ live' = live /\ live \subseteq Ptr
      /\ m_listService' = [m_listService EXCEPT ![obj[Det]] = TRUE]
  BY SvcWriteDoes DEF DetInsideCall, TypesInv, Typed, TypeOK
<1>2. Pending /\ ~Pending'
  BY <1>1 DEF Pending, Settled, Walk, LastCall, Final
<1>3. mpc' = mpc /\ pDev' = pDev /\ m_listService \in [Ptr -> BOOLEAN]
  BY DEF DetCells, mgrVars, TypesInv, Typed, TypeOK
<1>4. Serviced' \subseteq Serviced \cup {obj[Det]}
  BY <1>1, <1>3, DetAccount DEF Serviced
<1>5. /\ IsFiniteSet(Serviced') /\ Cardinality(Serviced') <= Cardinality(Serviced) + 1
  BY <1>4, GrowsByOne DEF Weighed
<1>6. Orphans' \subseteq Orphans
  BY <1>1, DetAccount
<1>7. IsFiniteSet(Orphans') /\ Cardinality(Orphans') <= Cardinality(Orphans) + 0
  BY <1>6, NoMore DEF Weighed
<1>8. Bad' \subseteq Bad
  <2>1. ASSUME NEW i \in Slots', Honest(InSlot(i)) PROVE Honest(InSlot(i))'
    <3>1. InSlot(i) \in live'
      BY <1>1, <2>1 DEF Honest
    <3> QED
      BY <2>1, <3>1, DetHonest
  <2> QED
    BY <2>1, DetAccount, SlotsKept
<1>9. IsFiniteSet(Bad') /\ Cardinality(Bad') <= Cardinality(Bad) + 0
  BY <1>8, BadFinite, NoMore
<1>10. 2 * 0 + 1 + 0 + Toll(Condemned') + Toll(Pending') + found
         <= Toll(Condemned) + Toll(Pending) + found'
  BY <1>1, <1>2, DetAccount, BadFinite DEF Toll
<1> QED
  BY <1>5, <1>7, <1>9, <1>10, Balanced

\* A failed search may take a device from its handler, or from the manager's list.
LEMMA DetDeleteWeighed ==
    ASSUME TypesInv, TypesInv', KnownHandlers, Heap, Walk, Weighed, Stays, DetCells,
           DetInsideCall, UnrDelete(Det), fault' = {}
    PROVE  Weighed'
<1> DEFINE p == Index(arg[Det])
<1>0. Det \in Thread /\ live \subseteq Ptr /\ NULL \notin live /\ NULL \notin Handler
  BY TwoThreads, PtrAssumption, HandlerAssumption DEF TypesInv, Typed, TypeOK
<1>1. /\ pc[Det] = "unr_delete" /\ pc'[Det] = "unr_erase" /\ dpc' = dpc /\ found' = found
      /\ p \in live \cup {NULL} /\ live' = live \ {p} /\ m_listService' = m_listService
  BY <1>0, DeleteDoes DEF DetInsideCall
<1>2. Pending /\ ~Pending'
  BY <1>1 DEF Pending, Settled, Walk, LastCall, Final
<1>3. mpc' = mpc /\ pDev' = pDev
  BY DEF DetCells, mgrVars
<1> HIDE DEF p
<1>4. CASE p \notin live
  BY <1>1, <1>2, <1>4, DetLighter
<1>5. CASE p \in live /\ Busy(p)
  <2>1. /\ Orphans' \subseteq Orphans \cup {m_pSockHandler[p]}
        /\ Serviced' \subseteq Serviced \ {p} /\ p \in Serviced
    <3>1. Orphans' \subseteq Orphans \cup {m_pSockHandler[p]}
      BY <1>1, DetAccount
    <3>2. ~(mpc = "connect" /\ pDev = p)
      BY <1>5 DEF Walk, Unconnected, Busy
    <3>3. p \in Serviced
      BY <1>0, <1>5 DEF Serviced
    <3>4. Serviced' \subseteq Serviced \ {p}
      BY <1>1, <1>3, <3>2, DetAccount DEF Serviced
    <3> QED
      BY <3>1, <3>3, <3>4
  <2>2. Bad' \subseteq Bad
    <3>1. ASSUME NEW i \in Slots', Honest(InSlot(i)) PROVE Honest(InSlot(i))'
      <4>1. InSlot(i) \in live'
        BY <1>1, <1>5, <3>1 DEF Honest
      <4> QED
        BY <3>1, <4>1, DetHonest
    <3> QED
      BY <3>1, DetAccount, SlotsKept
  <2>3. /\ IsFiniteSet(Orphans') /\ Cardinality(Orphans') <= Cardinality(Orphans) + 1
    BY <2>1, GrowsByOne DEF Weighed
  <2>4. /\ IsFiniteSet(Serviced') /\ Cardinality(Serviced') <= Cardinality(Serviced) + (-1)
    <3>1. /\ IsFiniteSet(Serviced') /\ Cardinality(Serviced') \in Nat /\ Cardinality(Serviced) \in Nat
          /\ Cardinality(Serviced') + 1 <= Cardinality(Serviced)
      BY <2>1, LosesOne DEF Weighed
    <3> QED
      BY <3>1
  <2>5. IsFiniteSet(Bad') /\ Cardinality(Bad') <= Cardinality(Bad) + 0
    BY <2>2, BadFinite, NoMore
  <2>6. 2 * 1 + (-1) + 0 + Toll(Condemned') + Toll(Pending') + found
          <= Toll(Condemned) + Toll(Pending) + found'
    BY <1>1, <1>2, DetAccount, BadFinite DEF Toll
  <2> QED
    BY <2>3, <2>4, <2>5, <2>6, Balanced
<1>6. CASE p \in live /\ ~Busy(p)
  <2>1. Orphans' \subseteq Orphans
    BY <1>1, <1>6, DetAccount
  <2>2. Serviced' \subseteq Serviced
    BY <1>1, <1>3, DetAccount DEF Serviced
  <2>3. \E i : Bad' \subseteq Bad \cup {i}
    <3>1. ASSUME NEW i \in Bad', i \notin Bad
          PROVE  InSlot(i) = p /\ i \in Slots /\ \A j \in Slots : InSlot(j) = p => ~(j > i)
      <4>1. i \in Slots' /\ i \in Slots /\ Honest(InSlot(i))
            /\ \A j \in Slots : InSlot(j) = InSlot(i) => ~(j > i)
        BY <3>1, DetAccount DEF Bad
      <4>2. ~Honest(InSlot(i))'
        BY <3>1, <4>1, DetAccount DEF Bad
      <4>3. InSlot(i) \in live /\ InSlot(i) \notin live'
        BY <4>1, <4>2, DetHonest DEF Honest
      <4> QED
        BY <1>1, <4>1, <4>3
    <3>2. ASSUME NEW i \in Bad', i \notin Bad, NEW j \in Bad', j \notin Bad PROVE i = j
      <4>1. i \in Nat /\ j \in Nat /\ ~(j > i) /\ ~(i > j)
        BY <3>1, <3>2 DEF Slots
      <4> QED
        BY <4>1
    <3> QED
      BY <3>2
  <2>4. /\ IsFiniteSet(Orphans') /\ Cardinality(Orphans') <= Cardinality(Orphans) + 0
        /\ IsFiniteSet(Serviced') /\ Cardinality(Serviced') <= Cardinality(Serviced) + 0
    BY <2>1, <2>2, NoMore DEF Weighed
  <2>5. IsFiniteSet(Bad') /\ Cardinality(Bad') <= Cardinality(Bad) + 1
    BY <2>3, BadFinite, GrowsByOne
  <2>6. 2 * 0 + 0 + 1 + Toll(Condemned') + Toll(Pending') + found
          <= Toll(Condemned) + Toll(Pending) + found'
    BY <1>1, <1>2, DetAccount, BadFinite DEF Toll
  <2> QED
    BY <2>4, <2>5, <2>6, Balanced
<1> QED
  BY <1>4, <1>5, <1>6

LEMMA DetectorWeighed ==
    ASSUME TypesInv, TypesInv', KnownHandlers, Heap, Walk, Weighed, Detector, fault' = {}
    PROVE  Weighed'
<1>0. /\ Det \in Thread /\ Stays /\ DetCells /\ live \subseteq Ptr /\ live' \subseteq Ptr
      /\ m_listService \in [Ptr -> BOOLEAN]
  BY TwoThreads, DetectorWalk DEF TypesInv, Typed, TypeOK
<1>1. CASE OnDeviceDiscovered
  BY <1>0, <1>1, DiscoveryWeighed
<1>2. ASSUME ~OnDeviceDiscovered, live' = live, m_listService' = m_listService PROVE Weighed'
  BY <1>0, <1>2, PendingKept, DetLighter
<1>3. CASE DetInsideCall /\ Changes
  <2>1. ~OnDeviceDiscovered
    <3>1. Step(Det)
      BY <1>3 DEF DetInsideCall
    <3>2. pc[Det] # "idle"
      BY <1>0, <3>1, DetLabels DEF TypesInv
    <3> QED
      BY <3>2 DEF OnDeviceDiscovered, Call, At
  <2>2. ASSUME NEW p \in Ptr, Allocates(p) PROVE Weighed'
    <3>1. live' = live \cup {p} /\ p \notin live /\ m_listService' = [m_listService EXCEPT ![p] = FALSE]
      BY <2>2 DEF Allocates
    <3>2. \A q \in live' \cap Ptr : m_listService'[q] => m_listService[q] /\ q \in live
      BY <1>0, <3>1
    <3>3. live \ live' = {}
      BY <3>1
    <3> QED
      BY <1>0, <2>1, <3>2, <3>3, PendingKept, DetLighter
  <2>3. ASSUME RegDelete(Det) PROVE Weighed'
    <3>1. /\ pc[Det] = "reg_delete" /\ live' = live \ {obj[Det]} /\ m_listService' = m_listService
      BY <2>3, RegDeleteDoes
    <3>2. ~Busy(obj[Det])
      BY <3>1 DEF Walk, Recycled, Held, Busy, Creating
    <3>3. obj[Det] \in live => ~Honest(obj[Det])
      <4>1. obj[Det] \in live => ~InMap(obj[Det])
        BY <1>0, <3>1 DEF Heap, Filed, InMap, Owns, Creating, TypesInv, Origins, Born
      <4> QED
        BY <4>1 DEF Honest
    <3> QED
      BY <1>0, <2>1, <3>1, <3>2, <3>3, PendingKept, DetLighter
  <2> QED
    BY <1>0, <1>2, <1>3, <2>1, <2>2, <2>3, InsertDoes, IndexDoes, EraseDoes, SvcWriteWeighed,
       DetDeleteWeighed DEF Changes
<1> QED
  BY <1>1, <1>2, <1>3, DetectorDoes DEF DetMoves

\* The walk leaves devices where they are and unregisters none.
LEMMA WalkLighter ==
    ASSUME TypesInv, TypesInv', Weighed, Walks,
           Orphans' \subseteq Orphans, Serviced' \subseteq Serviced,
           Slots' = Slots, \A i \in Slots : InSlot(i)' = InSlot(i),
           \A q \in live : Honest(q) => /\ ~Busy(q)' /\ ~ToVisit(m_addrBth[q])'
                                        /\ ~(mpc' \in Attending /\ q = pDev')
    PROVE  Weighed'
<1>1. /\ pc' = pc /\ arg' = arg /\ pc[Mgr] = "idle" /\ dpc' = dpc /\ found' = found
      /\ UNCHANGED <<m_mapBTDevice, live, m_addrBth>>
  BY ManagerWalks DEF localVars, heapVars, fieldVars, detVars
<1>2. ~Condemned' /\ (Pending' <=> Pending)
  BY <1>1 DEF Condemned, Pending, ErasingSoon
<1>3. \A q : InMap(q)' <=> InMap(q)
  BY <1>1 DEF InMap, Linked, Erasing
<1>4. \A q \in live : Honest(q) => Honest(q)'
  BY <1>1, <1>3 DEF Honest, ErasingSoon
<1>5. ASSUME NEW i \in Slots', Honest(InSlot(i)) PROVE Honest(InSlot(i))'
  <2>1. \A q \in live : q = InSlot(i)' => (Honest(q)' <=> Honest(InSlot(i))')
    BY DEF Honest, Busy, InMap, Linked, ToVisit, ErasingSoon
  <2>2. InSlot(i) \in live
    BY <1>5 DEF Honest
  <2> QED
    BY <1>4, <1>5, <2>1, <2>2
<1>6. Bad' \subseteq Bad
  BY <1>5, SlotsKept
<1> QED
  BY <1>1, <1>2, <1>6, Lighter

LEMMA SameHandlers ==
    ASSUME UNCHANGED <<live, m_pSockHandler, handler>>
    PROVE  Orphans' = Orphans /\ \A q : Busy(q)' <=> Busy(q)
BY DEF Orphans, Busy

LEMMA FetchWeighed ==
    ASSUME TypesInv, TypesInv', KnownHandlers, Heap, Walk, Weighed, MgrFetch, fault' = {}
    PROVE  Weighed'
<1>0. Walks
  BY DEF Walks
<1>1. /\ pc' = pc /\ arg' = arg /\ obj' = obj /\ pc[Mgr] = "idle"
      /\ UNCHANGED <<m_mapBTDevice, live, m_addrBth, m_listService>>
  BY <1>0, ManagerWalks DEF localVars, heapVars, fieldVars
<1>2. /\ mpc = "walk" /\ mit \in Addr /\ UNCHANGED <<mit, eraseList, m_pSockHandler, handler>>
      /\ mpc' \in {"visit", "advance"}
      /\ mpc' = "visit" => /\ pDev' \in Ptr
                           /\ pDev' \in live => Linked(mit, pDev')
  BY FetchDoes
<1>3. Orphans' = Orphans /\ \A q : Busy(q)' <=> Busy(q)
  BY <1>1, <1>2, SameHandlers
<1>4. Serviced' \subseteq Serviced
  BY <1>1, <1>2, <1>3 DEF Serviced
<1>5. Slots' = Slots /\ \A i \in Slots : InSlot(i)' = InSlot(i)
  BY <1>1, <1>2 DEF Slots, InSlot
<1>6. ASSUME NEW q \in live, Honest(q)
      PROVE  ~ToVisit(m_addrBth[q])' /\ ~(mpc' \in Attending /\ q = pDev')
  <2>1. m_addrBth[q] \in Addr /\ q \in Ptr /\ mit \in Nat \ {0}
    BY <1>2, KeysAssumption DEF TypesInv, Origins, Born, Typed, TypeOK
  <2>2. ~ToVisit(m_addrBth[q]) /\ mit' = mit /\ m_addrBth' = m_addrBth
    BY <1>1, <1>2, <1>6 DEF Honest
  <2>3. ~ToVisit(m_addrBth[q])'
    BY <1>2, <2>2 DEF ToVisit
  <2>4. ASSUME mpc' \in Attending, q = pDev' PROVE FALSE
    <3>1. Linked(mit, q)
      BY <1>2, <2>4 DEF Attending
    <3>2. m_addrBth[q] = mit
      BY <1>2, <2>1, <3>1 DEF Heap, Filed
    <3> QED
      BY <1>2, <2>1, <2>2, <3>2 DEF ToVisit
  <2> QED
    BY <2>3, <2>4
<1> QED
  BY <1>0, <1>3, <1>4, <1>5, <1>6, WalkLighter DEF Honest

LEMMA PrintWeighed ==
    ASSUME TypesInv, TypesInv', KnownHandlers, Weighed, MgrPrint
    PROVE  Weighed'
<1>0. Walks
  BY DEF Walks
<1>1. /\ pc' = pc /\ arg' = arg /\ obj' = obj /\ pc[Mgr] = "idle"
      /\ UNCHANGED <<m_mapBTDevice, live, m_addrBth, m_listService>>
  BY <1>0, ManagerWalks DEF localVars, heapVars, fieldVars
<1>2. mpc = "print" /\ mpc' = "advance" /\ UNCHANGED <<m_pSockHandler, handler, mit, pDev, eraseList>>
  BY PrintDoes
<1>3. Orphans' = Orphans /\ \A q : Busy(q)' <=> Busy(q)
  BY <1>1, <1>2, SameHandlers
<1>4. Serviced' \subseteq Serviced /\ Slots' = Slots /\ \A i \in Slots : InSlot(i)' = InSlot(i)
  BY <1>1, <1>2, <1>3 DEF Serviced, Slots, InSlot
<1>5. \A q : Honest(q) => ~ToVisit(m_addrBth[q])' /\ ~(mpc' \in Attending /\ q = pDev')
  BY <1>1, <1>2 DEF Honest, ToVisit, Attending
<1> QED
  BY <1>0, <1>3, <1>4, <1>5, WalkLighter DEF Honest

\* The manager connects a device it has found services on.
LEMMA ConnectWeighed ==
    ASSUME TypesInv, TypesInv', KnownHandlers, Walk, Weighed, MgrConnect, fault = {}, fault' = {}
    PROVE  Weighed'
<1>0. Walks /\ live \subseteq Ptr /\ NULL \notin Handler /\ handler \in [Handler -> AllHandlerStates]
      /\ m_pSockHandler \in [Ptr -> Handler \cup {NULL}]
  BY HandlerAssumption DEF Walks, TypesInv, Typed, TypeOK, MonitorTypeOK
<1>1. /\ pc' = pc /\ arg' = arg /\ obj' = obj /\ pc[Mgr] = "idle"
      /\ UNCHANGED <<m_mapBTDevice, live, m_addrBth, m_listService>>
  BY <1>0, ManagerWalks DEF localVars, heapVars, fieldVars
<1>2. /\ mpc = "connect" /\ mpc' = "advance" /\ pDev \in live /\ pDev \in Ptr
      /\ UNCHANGED <<mit, pDev, eraseList>>
  BY ConnectDoes
<1>3. /\ Orphans' \subseteq Orphans
      /\ \A q \in live : Busy(q)' => Busy(q) \/ q = pDev
  <2>1. CASE UNCHANGED <<m_pSockHandler, handler>>
    BY <1>1, <2>1, SameHandlers
  <2>2. ASSUME NEW h \in Available, m_pSockHandler' = [m_pSockHandler EXCEPT ![pDev] = h],
               handler' = [handler EXCEPT ![h] = "started"]
        PROVE  <1>3!:
    <3>1. h \in Handler /\ m_pSockHandler[pDev] = NULL
      BY <1>2 DEF Walk, Unconnected, Available
    <3>2. \A q \in live : m_pSockHandler[q] # h
      BY <1>0, <1>2, <2>2, <3>1 DEF Available, KnownHandlers, Pointers, Kept, Clean
    <3>3. ASSUME NEW g \in Orphans' PROVE g \in Orphans
      <4>1. g \in Handler /\ handler'[g] \in Running /\ \A q \in live : m_pSockHandler'[q] # g
        BY <1>1, <3>3 DEF Orphans
      <4>2. g # h
        BY <1>0, <1>2, <2>2, <4>1
      <4>3. handler[g] \in Running /\ \A q \in live : m_pSockHandler[q] # g
        BY <1>0, <1>2, <2>2, <3>1, <4>1, <4>2
      <4> QED
        BY <4>1, <4>3 DEF Orphans
    <3>4. ASSUME NEW q \in live, Busy(q)', q # pDev PROVE Busy(q)
      <4>1. m_pSockHandler'[q] = m_pSockHandler[q] /\ m_pSockHandler[q] # h
        BY <1>0, <1>2, <2>2, <3>2, <3>4
      <4>2. handler'[m_pSockHandler[q]] \in Running /\ m_pSockHandler[q] \in Handler
        BY <1>0, <3>4, <4>1 DEF Busy
      <4> QED
        BY <1>0, <2>2, <3>1, <4>1, <4>2 DEF Busy
    <3> QED
      BY <3>3, <3>4
  <2> QED
    BY <2>1, <2>2, ConnectDoes
<1>4. Serviced' \subseteq Serviced
  BY <1>1, <1>2, <1>3 DEF Serviced
<1>5. Slots' = Slots /\ \A i \in Slots : InSlot(i)' = InSlot(i)
  BY <1>1, <1>2 DEF Slots, InSlot
<1>6. ASSUME NEW q \in live, Honest(q)
      PROVE  ~Busy(q)' /\ ~ToVisit(m_addrBth[q])' /\ ~(mpc' \in Attending /\ q = pDev')
  BY <1>1, <1>2, <1>3, <1>6 DEF Honest, ToVisit, Attending
<1> QED
  BY <1>0, <1>3, <1>4, <1>5, <1>6, WalkLighter

LEMMA ReapWeighed ==
    ASSUME TypesInv, TypesInv', KnownHandlers, Walk, Weighed, MgrReap
    PROVE  Weighed'
<1>0. Walks /\ live \subseteq Ptr /\ m_pSockHandler \in [Ptr -> Handler \cup {NULL}]
      /\ pDev \in Ptr
  BY ReapDoes DEF Walks, TypesInv, Typed, TypeOK, MonitorTypeOK, Passing, Handling
<1>1. /\ pc' = pc /\ arg' = arg /\ obj' = obj /\ pc[Mgr] = "idle"
      /\ UNCHANGED <<m_mapBTDevice, live, m_addrBth, m_listService>>
  BY <1>0, ManagerWalks DEF localVars, heapVars, fieldVars
<1>2. /\ mpc = "reap" /\ mpc' = "forget" /\ UNCHANGED <<m_pSockHandler, mit, pDev, eraseList>>
      /\ \A h \in Handler : handler'[h] = IF h = m_pSockHandler[pDev] THEN "free" ELSE handler[h]
  BY ReapDoes
<1>3. /\ Orphans' \subseteq Orphans
      /\ \A q \in live : Busy(q)' => Busy(q)
  BY <1>0, <1>1, <1>2 DEF Orphans, Busy, Running
<1>4. Serviced' \subseteq Serviced
  BY <1>1, <1>2, <1>3 DEF Serviced
<1>5. Slots' = Slots /\ \A i \in Slots : InSlot(i)' = InSlot(i)
  BY <1>1, <1>2 DEF Slots, InSlot
<1>6. ASSUME NEW q \in live, Honest(q)
      PROVE  ~Busy(q)' /\ ~ToVisit(m_addrBth[q])' /\ ~(mpc' \in Attending /\ q = pDev')
  BY <1>1, <1>2, <1>3, <1>6 DEF Honest, ToVisit, Attending
<1> QED
  BY <1>0, <1>3, <1>4, <1>5, <1>6, WalkLighter

LEMMA ForgetWeighed ==
    ASSUME TypesInv, TypesInv', KnownHandlers, Walk, Weighed, MgrForget
    PROVE  Weighed'
<1>0. Walks /\ live \subseteq Ptr /\ m_pSockHandler \in [Ptr -> Handler \cup {NULL}]
      /\ NULL \notin Handler
  BY HandlerAssumption DEF Walks, TypesInv, Typed, TypeOK, MonitorTypeOK
<1>1. /\ pc' = pc /\ arg' = arg /\ obj' = obj /\ pc[Mgr] = "idle"
      /\ UNCHANGED <<m_mapBTDevice, live, m_addrBth, m_listService>>
  BY <1>0, ManagerWalks DEF localVars, heapVars, fieldVars
<1>2. /\ mpc = "forget" /\ mpc' = "advance" /\ pDev \in Ptr
      /\ UNCHANGED <<mit, pDev, handler>> /\ eraseList' = Append(eraseList, pDev)
      /\ \A p \in Ptr : m_pSockHandler'[p] = IF p = pDev THEN NULL ELSE m_pSockHandler[p]
  BY ForgetDoes
<1>3. ~Busy(pDev)
  BY <1>2 DEF Walk, Ended
<1>4. /\ Orphans' \subseteq Orphans
      /\ \A q \in live : Busy(q)' => Busy(q)
  BY <1>0, <1>1, <1>2, <1>3 DEF Orphans, Busy
<1>5. Serviced' \subseteq Serviced
  BY <1>1, <1>2, <1>4 DEF Serviced
<1>6. /\ Len(eraseList) \in Nat /\ Len(eraseList') = Len(eraseList) + 1
      /\ \A i \in 1 .. Len(eraseList) : eraseList'[i] = eraseList[i]
      /\ eraseList'[Len(eraseList) + 1] = pDev
  BY <1>2 DEF TypesInv, MonitorTypeOK
<1>7. Slots' = Slots
  BY <1>1, <1>2, <1>6 DEF Slots
<1>8. \A i \in Slots : InSlot(i)' = InSlot(i)
  BY <1>1, <1>2, <1>6 DEF Slots, InSlot
<1>9. ASSUME NEW q \in live, Honest(q)
      PROVE  ~Busy(q)' /\ ~ToVisit(m_addrBth[q])' /\ ~(mpc' \in Attending /\ q = pDev')
  BY <1>1, <1>2, <1>4, <1>9 DEF Honest, ToVisit, Attending
<1> QED
  BY <1>0, <1>4, <1>5, <1>7, <1>8, <1>9, WalkLighter

LEMMA AdvanceWeighed ==
    ASSUME TypesInv, TypesInv', KnownHandlers, Walk, Weighed, MgrAdvance
    PROVE  Weighed'
<1>0. Walks /\ live \subseteq Ptr
  BY DEF Walks, TypesInv, Typed, TypeOK
<1>1. /\ pc' = pc /\ arg' = arg /\ obj' = obj /\ pc[Mgr] = "idle"
      /\ UNCHANGED <<m_mapBTDevice, live, m_addrBth, m_listService>>
  BY <1>0, ManagerWalks DEF localVars, heapVars, fieldVars
<1>2. /\ mpc = "advance" /\ mpc' = "walk" /\ UNCHANGED <<m_pSockHandler, handler, eraseList>>
      /\ mit' = 0 \/ mit' \in KeysAfter(mit)
  BY AdvanceDoes
<1>3. Orphans' = Orphans /\ \A q : Busy(q)' <=> Busy(q)
  BY <1>1, <1>2, SameHandlers
<1>4. Serviced' \subseteq Serviced
  BY <1>1, <1>2, <1>3 DEF Serviced
<1>5. Slots' = Slots /\ \A i \in Slots : InSlot(i)' = InSlot(i)
  BY <1>1, <1>2 DEF Slots, InSlot
<1>6. mit \in Nat \ {0} /\ (mit' = 0 \/ (mit' \in Nat /\ mit' > mit))
  <2>1. mit \in Addr /\ mit \in Nat \ {0}
    BY <1>2, KeysAssumption DEF Walk, Control
  <2>2. mit' = 0 \/ mit' \in KeysAfter(mit)
    BY <1>2
  <2> QED
    BY <2>1, <2>2, KeysAssumption DEF KeysAfter
<1>7. ASSUME NEW q \in live, Honest(q)
      PROVE  ~ToVisit(m_addrBth[q])' /\ ~(mpc' \in Attending /\ q = pDev')
  <2>1. m_addrBth[q] \in Nat /\ m_addrBth'[q] = m_addrBth[q]
    BY <1>1, KeysAssumption DEF TypesInv, Origins, Born
  <2>2. ~ToVisit(m_addrBth[q])
    BY <1>7 DEF Honest
  <2>3. ~ToVisit(m_addrBth[q])'
    BY <1>1, <1>2, <1>6, <2>1, <2>2 DEF ToVisit
  <2> QED
    BY <1>2, <2>3 DEF Attending
<1> QED
  BY <1>0, <1>3, <1>4, <1>5, <1>7, WalkLighter DEF Honest

\* Between two walks there is nothing to erase.
LEMMA RestWeighed ==
    ASSUME TypesInv, TypesInv', KnownHandlers, Walk, Weighed, MgrLock \/ MgrRelease
    PROVE  Weighed'
<1>0. Walks
  BY DEF Walks
<1>1. /\ pc' = pc /\ arg' = arg /\ pc[Mgr] = "idle" /\ dpc' = dpc /\ found' = found
      /\ UNCHANGED <<m_mapBTDevice, live, m_addrBth, m_listService>>
  BY <1>0, ManagerWalks DEF localVars, heapVars, fieldVars, detVars
<1>2. /\ mpc \in {"sleeping", "walk"} /\ mpc' \in {"sleeping", "walk"}
      /\ UNCHANGED <<m_pSockHandler, handler>> /\ eraseList' = <<>>
  BY LockDoes, ReleaseDoes DEF Walk, Control
<1>3. Orphans' = Orphans /\ \A q : Busy(q)' <=> Busy(q)
  BY <1>1, <1>2, SameHandlers
<1>4. Serviced' \subseteq Serviced
  BY <1>1, <1>2, <1>3 DEF Serviced
<1>5. Bad' \subseteq Bad
  <2>1. Slots' = {}
    BY <1>1, <1>2 DEF Slots
  <2> QED
    BY <2>1 DEF Bad
<1>6. ~Condemned' /\ (Pending' <=> Pending)
  BY <1>1 DEF Condemned, Pending, ErasingSoon
<1> QED
  BY <1>1, <1>3, <1>4, <1>5, <1>6, Lighter

\* The manager looks at a device: what it puts on the list of those to erase is in
\* the map, under the key it has just visited.
LEMMA VisitWeighed ==
    ASSUME TypesInv, TypesInv', KnownHandlers, Walk, Weighed, MgrVisit, fault' = {}
    PROVE  Weighed'
<1>0. Walks /\ live \subseteq Ptr /\ mit \in Addr /\ Addr \subseteq Nat \ {0}
      /\ Len(eraseList) \in Nat
  BY VisitDoes, KeysAssumption DEF Walks, Walk, Control, Handling, TypesInv, Typed, TypeOK, MonitorTypeOK
<1>1. /\ pc' = pc /\ arg' = arg /\ obj' = obj /\ pc[Mgr] = "idle" /\ dpc' = dpc /\ found' = found
      /\ UNCHANGED <<m_mapBTDevice, live, m_addrBth, m_listService>>
  BY <1>0, ManagerWalks DEF localVars, heapVars, fieldVars, detVars
<1>2. /\ mpc = "visit" /\ pDev \in live /\ pDev \in Ptr
      /\ UNCHANGED <<mit, pDev, eraseList, m_pSockHandler, handler>>
      /\ \/ mpc' = "connect" /\ m_pSockHandler[pDev] = NULL /\ m_listService[pDev]
         \/ mpc' = "reap" /\ m_pSockHandler[pDev] # NULL /\ ~Busy(pDev)
         \/ mpc' \in {"advance", "print"}
  BY VisitDoes
<1>3. Orphans' = Orphans /\ \A q : Busy(q)' <=> Busy(q)
  BY <1>1, <1>2, SameHandlers
<1>4. Serviced' \subseteq Serviced
  BY <1>1, <1>2, <1>3 DEF Serviced
<1>5. ASSUME NEW q \in live, Honest(q)
      PROVE  ~ToVisit(m_addrBth[q])' /\ ~(mpc' \in Attending /\ q = pDev')
  BY <1>1, <1>2, <1>5 DEF Honest, ToVisit, Attending
<1>6. CASE mpc' # "reap"
  <2>1. Slots' = Slots /\ \A i \in Slots : InSlot(i)' = InSlot(i)
    BY <1>1, <1>2, <1>6 DEF Slots, InSlot
  <2> QED
    BY <1>0, <1>3, <1>4, <1>5, <2>1, WalkLighter DEF Honest
<1>7. CASE mpc' = "reap"
  <2> DEFINE last == Len(eraseList) + 1
  <2>1. Slots' = Slots \cup {last} /\ last \notin Slots
    BY <1>0, <1>1, <1>2, <1>7 DEF Slots
  <2>2. /\ \A i \in Slots' : InSlot(i)' = IF i = last THEN pDev ELSE InSlot(i)
        /\ \A i \in Slots : i < last /\ i \in Nat
    BY <1>0, <1>1, <1>2, <1>7 DEF Slots, InSlot
  <2>3. \A q : InMap(q)' <=> InMap(q)
    BY <1>1 DEF InMap, Linked, Erasing
  <2>4. Honest(pDev)'
    <3>1. m_addrBth[pDev] = mit /\ InMap(pDev) /\ ~Busy(pDev)
      BY <1>2, <1>7 DEF Walk, Visited
    <3>2. ~ToVisit(m_addrBth[pDev])'
      BY <1>0, <1>1, <1>2, <1>7, <3>1 DEF ToVisit
    <3>3. InMap(pDev)' /\ ~Busy(pDev)'
      BY <1>1, <1>2, <3>1 DEF InMap, Linked, Erasing, Busy
    <3> QED
      BY <1>1, <1>2, <1>7, <3>2, <3>3 DEF Honest, ErasingSoon, Attending
  <2>5. \A q \in live : Honest(q) => Honest(q)' /\ q # pDev
    BY <1>1, <1>2, <1>3, <1>5, <2>3 DEF Honest, ErasingSoon, Attending
  <2>6. \A q \in live, i \in Slots' : q = InSlot(i)' => (Honest(q)' <=> Honest(InSlot(i))')
    BY DEF Honest, Busy, InMap, Linked, ToVisit, ErasingSoon
  <2> HIDE DEF last
  <2>7. ASSUME NEW i \in Bad' PROVE i \in Bad
    <3>1. i # last
      <4>1. i = last => Honest(InSlot(i))'
        BY <1>2, <2>2, <2>4, <2>6, <2>7 DEF Bad
      <4>2. \A j \in Slots' : ~(j > last)
        <5>1. last \in Nat
          BY <1>0 DEF last
        <5> QED
          BY <2>1, <2>2, <5>1
      <4> QED
        BY <2>7, <4>1, <4>2 DEF Bad
    <3>2. i \in Slots
      BY <2>1, <3>1 DEF Bad
    <3>3. SUFFICES ASSUME Honest(InSlot(i)) PROVE \E j \in Slots : j > i /\ InSlot(j) = InSlot(i)
      BY <3>2 DEF Bad
    <3>4. InSlot(i) \in live /\ InSlot(i)' = InSlot(i) /\ i \in Slots'
      BY <2>1, <2>2, <3>2, <3>3 DEF Honest
    <3>5. Honest(InSlot(i))' /\ InSlot(i) # pDev
      BY <2>5, <2>6, <3>3, <3>4
    <3>6. PICK j \in Slots' : j > i /\ InSlot(j)' = InSlot(i)'
      BY <2>7, <3>5 DEF Bad
    <3>7. j # last
      BY <2>2, <3>4, <3>5, <3>6
    <3> QED
      BY <2>1, <2>2, <3>4, <3>6, <3>7
  <2>8. ~Condemned' /\ (Pending' <=> Pending)
    BY <1>1 DEF Condemned, Pending, ErasingSoon
  <2> QED
    BY <1>1, <1>3, <1>4, <2>7, <2>8, Lighter
<1> QED
  BY <1>6, <1>7

\* The manager begins to erase what is first in its list: the slots move up by one.
LEMMA EraseWeighed ==
    ASSUME TypesInv, TypesInv', KnownHandlers, Walk, Weighed, MgrErase
    PROVE  Weighed'
<1>0. Det \in Thread \ {Mgr} /\ eraseList \in Seq(Ptr)
  BY TwoThreads DEF TypesInv, MonitorTypeOK
<1>1. /\ pc'[Det] = pc[Det] /\ UNCHANGED <<m_mapBTDevice, live, m_addrBth, m_listService>>
      /\ arg'[Det] = arg[Det]
      /\ UNCHANGED <<m_pSockHandler, handler, dpc, found, mpc, mit, pDev>>
      /\ pc[Mgr] = "idle" /\ pc'[Mgr] = "unp_find" /\ mpc = "walk" /\ mit = 0
      /\ eraseList # <<>> /\ eraseList' = Tail(eraseList) /\ obj'[Mgr] = Head(eraseList)
  BY <1>0, MgrErases DEF Others, detVars
<1>2. Orphans' = Orphans /\ \A q : Busy(q)' <=> Busy(q)
  BY <1>1, SameHandlers
<1>3. Serviced' \subseteq Serviced
  BY <1>1, <1>2 DEF Serviced
<1>4. /\ Len(eraseList) \in Nat /\ Len(eraseList') = Len(eraseList) - 1 /\ Len(eraseList) >= 1
      /\ \A i \in 1 .. (Len(eraseList) - 1) : eraseList'[i] = eraseList[i + 1]
      /\ obj'[Mgr] = eraseList[1]
  BY <1>0, <1>1
<1>5. Slots = 1 .. Len(eraseList) /\ Slots' = 0 .. (Len(eraseList) - 1)
  BY <1>1, <1>4 DEF Slots
<1>6. \A i \in Slots' : InSlot(i)' = InSlot(i + 1) /\ i + 1 \in Slots /\ i \in Nat
  BY <1>1, <1>4, <1>5 DEF InSlot
<1>7. \A q : Honest(q)' <=> Honest(q)
  <2>1. \A a : Erasing(a)' <=> Erasing(a)
    BY <1>0, <1>1, ActorsAssumption DEF Erasing
  <2>2. \A q : InMap(q)' <=> InMap(q)
    BY <1>1, <2>1 DEF InMap, Linked
  <2> QED
    BY <1>1, <1>2, <2>2 DEF Honest, ToVisit, ErasingSoon
<1>8. \A q, i : q = InSlot(i)' => (Honest(q)' <=> Honest(InSlot(i))')
  BY DEF Honest, Busy, InMap, Linked, ToVisit, ErasingSoon
<1>9. ASSUME NEW i \in Bad' PROVE i + 1 \in Bad /\ i \in Nat
  <2>1. i \in Slots' /\ i \in Nat /\ i + 1 \in Slots /\ InSlot(i)' = InSlot(i + 1)
    BY <1>6 DEF Bad
  <2>2. CASE ~Honest(InSlot(i))'
    BY <1>7, <1>8, <2>1, <2>2 DEF Bad
  <2>3. ASSUME NEW j \in Slots', j > i, InSlot(j)' = InSlot(i)' PROVE i + 1 \in Bad
    <3>1. j + 1 \in Slots /\ j + 1 > i + 1 /\ InSlot(j + 1) = InSlot(i + 1)
      BY <1>6, <2>1, <2>3
    <3> QED
      BY <2>1, <3>1 DEF Bad
  <2> QED
    BY <2>1, <2>2, <2>3 DEF Bad
<1>10. IsFiniteSet(Bad') /\ Cardinality(Bad') <= Cardinality(Bad) + 0
  <2> DEFINE next == [i \in Bad' |-> i + 1]
  <2>1. next \in [Bad' -> Bad]
    BY <1>9
  <2>2. \A i, j \in Bad' : next[i] = next[j] => i = j
    BY <1>9
  <2>3. next \in Injection(Bad', Bad)
    BY <2>1, <2>2 DEF Injection, IsInjective
  <2> HIDE DEF next
  <2>4. IsFiniteSet(Bad') /\ Cardinality(Bad') <= Cardinality(Bad) /\ Cardinality(Bad) \in Nat
    BY <2>3, BadFinite, FS_Injection
  <2> QED
    BY <2>4
<1>11. /\ IsFiniteSet(Orphans') /\ Cardinality(Orphans') <= Cardinality(Orphans) + 0
       /\ IsFiniteSet(Serviced') /\ Cardinality(Serviced') <= Cardinality(Serviced) + 0
  BY <1>2, <1>3, NoMore DEF Weighed
<1>12. 2 * 0 + 0 + 0 + Toll(Condemned') + Toll(Pending') + found
         <= Toll(Condemned) + Toll(Pending) + found'
  <2>1. ~Condemned' /\ (Pending' <=> Pending)
    BY <1>1 DEF Condemned, Pending, ErasingSoon
  <2> QED
    BY <1>1, <2>1, BadFinite DEF Toll
<1> QED
  BY <1>10, <1>11, <1>12, Balanced

\* What holds of every step inside a call of the manager.
CallOf == /\ mpc = "walk" /\ mit = 0 /\ UNCHANGED <<mpc, mit, pDev, eraseList>>
          /\ UNCHANGED <<m_pSockHandler, handler, dpc, found, m_listService>>
          /\ pc'[Det] = pc[Det] /\ arg'[Det] = arg[Det] /\ obj'[Det] = obj[Det]
          /\ pc[Mgr] # "idle" /\ live' \subseteq live /\ Stays

LEMMA CallDoes ==
    ASSUME TypesInv, KnownHandlers, Heap, Walk, MgrInsideCall, fault' = {}
    PROVE  CallOf /\ (MgrMoves \/ MgrNames \/ UnrDelete(Mgr) \/ UnrErase(Mgr))
<1>0. /\ Det \in Thread \ {Mgr} /\ Mgr \in Thread /\ \A t \in Thread : t = Det \/ t = Mgr
  BY TwoThreads
<1>1. /\ pc'[Det] = pc[Det] /\ obj'[Det] = obj[Det] /\ arg'[Det] = arg[Det] /\ Others(Mgr)
      /\ UNCHANGED <<m_pSockHandler, handler, mpc, mit, pDev, eraseList, dpc, found>>
      /\ MgrMoves \/ MgrNames \/ UnrDelete(Mgr) \/ UnrErase(Mgr)
  BY <1>0, ManagerCalls DEF Others, detVars, mgrVars
<1>2. mpc = "walk" /\ mit = 0
  BY CallsWalk
<1>3. pc[Mgr] # "idle" /\ live' \subseteq live /\ m_listService' = m_listService
  BY <1>0, <1>1, DeleteDoes, EraseDoes DEF MgrMoves, MgrNames
<1>4. MgrMoves \/ MgrNames => Stays
  BY <1>0, <1>1, MovesStay DEF MgrMoves, MgrNames
<1> QED
  BY <1>0, <1>1, <1>2, <1>3, <1>4, DeleteStays, EraseStays DEF CallOf

LEMMA CallAccount ==
    ASSUME TypesInv, TypesInv', CallOf
    PROVE  /\ \A q : Busy(q)' <=> Busy(q)
           /\ \A h \in Orphans' : h \in Orphans \/ \E p \in live \ live' : Busy(p) /\ m_pSockHandler[p] = h
           /\ Serviced' \subseteq Serviced
           /\ \A p \in live \ live' : p \notin Serviced'
           /\ pc'[Mgr] \notin {"unp_find", "unp_call"} => Slots' \subseteq Slots \ {0}
           /\ \A i \in Slots \ {0} : InSlot(i)' = InSlot(i)
           /\ Pending' <=> Pending
           /\ \A q \in live' : Honest(q) /\ ~ErasingSoon(m_addrBth[q])' => Honest(q)'
           /\ \A i \in Slots \ {0} : Honest(InSlot(i)) /\ ~Honest(InSlot(i))' =>
                InSlot(i) \notin live' \/ ErasingSoon(m_addrBth[InSlot(i)])'
           /\ Len(eraseList) \in Nat
<1>1. Len(eraseList) \in Nat
  BY DEF TypesInv, MonitorTypeOK
<1>2. \A q : Busy(q)' <=> Busy(q)
  BY DEF Busy, CallOf
<1>3. \A h \in Orphans' : h \in Orphans \/ \E p \in live \ live' : Busy(p) /\ m_pSockHandler[p] = h
  BY HandlerAssumption DEF Orphans, Busy, CallOf
<1>4. Serviced' \subseteq Serviced /\ \A p \in live \ live' : p \notin Serviced'
  BY <1>2 DEF Serviced, CallOf
<1>5. /\ pc'[Mgr] \notin {"unp_find", "unp_call"} => Slots' \subseteq Slots \ {0}
      /\ \A i \in Slots \ {0} : InSlot(i)' = InSlot(i)
  BY <1>1 DEF CallOf, Slots, InSlot
<1>6. Pending' <=> Pending
  BY DEF Pending, CallOf
<1>7. ASSUME NEW q \in live', Honest(q), ~ErasingSoon(m_addrBth[q])' PROVE Honest(q)'
  BY <1>2, <1>7 DEF Honest, CallOf, Stays, ToVisit, Attending
<1>8. \A q, i : q = InSlot(i)' => /\ Honest(q)' <=> Honest(InSlot(i))'
                                  /\ ErasingSoon(m_addrBth[q])' <=> ErasingSoon(m_addrBth[InSlot(i)])'
  BY DEF Honest, Busy, InMap, Linked, ToVisit, ErasingSoon
<1>9. ASSUME NEW i \in Slots \ {0}, Honest(InSlot(i)), ~Honest(InSlot(i))', InSlot(i) \in live'
      PROVE  ErasingSoon(m_addrBth[InSlot(i)])'
  BY <1>5, <1>7, <1>8, <1>9
<1> QED
  BY <1>1, <1>2, <1>3, <1>4, <1>5, <1>6, <1>7, <1>9

LEMMA MovesWeighed ==
    ASSUME TypesInv, TypesInv', KnownHandlers, Weighed, CallOf, MgrMoves
    PROVE  Weighed'
<1>1. UNCHANGED <<m_mapBTDevice, live, m_addrBth, m_listService>>
  BY DEF MgrMoves
<1>2. \A a : ErasingSoon(a)' => ErasingSoon(a)
  BY DEF MgrMoves, ErasingSoon
<1>3. Slots' \subseteq Slots /\ \A i \in Slots' : InSlot(i)' = InSlot(i)
  BY DEF MgrMoves, CallOf, Slots, InSlot
<1>4. \A q \in live : Honest(q) => Honest(q)'
  BY <1>1, <1>2, CallAccount DEF Honest
<1>5. \A q \in live, i \in Slots' : q = InSlot(i)' => (Honest(q)' <=> Honest(InSlot(i))')
  BY DEF Honest, Busy, InMap, Linked, ToVisit, ErasingSoon
<1>6. ASSUME NEW i \in Slots', Honest(InSlot(i)) PROVE Honest(InSlot(i))'
  <2>1. InSlot(i) \in live
    BY <1>6 DEF Honest
  <2> QED
    BY <1>3, <1>4, <1>5, <1>6, <2>1
<1>7. Bad' \subseteq Bad
  BY <1>3, <1>6, SlotsKept
<1>8. Condemned' => Condemned
  BY <1>1, <1>2, CallAccount DEF Condemned
<1>9. Orphans' \subseteq Orphans /\ Serviced' \subseteq Serviced /\ (Pending' => Pending) /\ found' = found
  BY <1>1, CallAccount DEF CallOf
<1> QED
  BY <1>7, <1>8, <1>9, Lighter

\* UnregisterDevice ends its work on the map.
LEMMA EntryErasedWeighed ==
    ASSUME TypesInv, TypesInv', KnownHandlers, Weighed, CallOf, UnrErase(Mgr), fault' = {}
    PROVE  Weighed'
<1>1. /\ pc[Mgr] = "unr_erase" /\ pc'[Mgr] = "unr_release" /\ UNCHANGED <<live, m_addrBth>>
  BY TwoThreads, EraseDoes
<1>2. ~Condemned' /\ \A a : ~ErasingSoon(a)'
  BY <1>1 DEF Condemned, ErasingSoon
<1>3. Slots' \subseteq Slots \ {0} /\ \A i \in Slots' : InSlot(i)' = InSlot(i)
  BY <1>1, CallAccount
<1>4. ASSUME NEW i \in Slots', Honest(InSlot(i)) PROVE Honest(InSlot(i))'
  <2>1. InSlot(i) \in live
    BY <1>4 DEF Honest
  <2> QED
    BY <1>1, <1>3, <1>4, <2>1, CallAccount DEF ErasingSoon
<1>5. Bad' \subseteq Bad
  BY <1>3, <1>4, SlotsKept
<1>6. Orphans' \subseteq Orphans /\ Serviced' \subseteq Serviced /\ (Pending' => Pending) /\ found' = found
  BY <1>1, CallAccount DEF CallOf
<1> QED
  BY <1>2, <1>5, <1>6, Lighter

\* The manager deletes a device: with a handler that runs only if it is condemned.
LEMMA MgrDeleteWeighed ==
    ASSUME TypesInv, TypesInv', KnownHandlers, Heap, Weighed, CallOf, UnrDelete(Mgr), fault' = {}
    PROVE  Weighed'
<1> DEFINE p == Index(arg[Mgr])
<1>0. Mgr \in Thread /\ live \subseteq Ptr
  BY TwoThreads DEF TypesInv, Typed, TypeOK
<1>1. /\ pc[Mgr] = "unr_delete" /\ pc'[Mgr] = "unr_erase" /\ live' = live \ {p} /\ found' = found
      /\ p \in live => m_addrBth[p] = arg[Mgr]
      /\ UNCHANGED m_addrBth
  BY <1>0, DeleteDoes, Victim DEF CallOf
<1> HIDE DEF p
<1>2. ~Condemned' /\ \A a : ~ErasingSoon(a)'
  BY <1>1 DEF Condemned, ErasingSoon
<1>3. Slots' \subseteq Slots \ {0} /\ \A i \in Slots' : InSlot(i)' = InSlot(i)
  BY <1>1, CallAccount
<1>4. ASSUME NEW i \in Slots', Honest(InSlot(i)) PROVE Honest(InSlot(i))'
  <2>1. InSlot(i) \in live /\ m_addrBth[InSlot(i)] # arg[Mgr]
    BY <1>1, <1>4 DEF Honest, ErasingSoon
  <2>2. InSlot(i) \in live'
    BY <1>1, <2>1
  <2> QED
    BY <1>1, <1>3, <1>4, <2>2, CallAccount DEF ErasingSoon
<1>5. Bad' \subseteq Bad
  BY <1>3, <1>4, SlotsKept
<1>6. Serviced' \subseteq Serviced /\ (Pending' <=> Pending)
  BY CallAccount
<1>7. CASE p \in live /\ Busy(p)
  <2>1. Condemned
    BY <1>1, <1>7 DEF Condemned, ErasingSoon
  <2>2. p \in Serviced /\ Serviced' \subseteq Serviced \ {p}
    BY <1>0, <1>1, <1>6, <1>7, CallAccount DEF Serviced
  <2>3. Orphans' \subseteq Orphans \cup {m_pSockHandler[p]}
    BY <1>1, CallAccount
  <2>4. IsFiniteSet(Orphans') /\ Cardinality(Orphans') <= Cardinality(Orphans) + 1
    BY <2>3, GrowsByOne DEF Weighed
  <2>5. IsFiniteSet(Serviced') /\ Cardinality(Serviced') <= Cardinality(Serviced) + (-1)
    <3>1. /\ IsFiniteSet(Serviced') /\ Cardinality(Serviced') \in Nat /\ Cardinality(Serviced) \in Nat
          /\ Cardinality(Serviced') + 1 <= Cardinality(Serviced)
      BY <2>2, LosesOne DEF Weighed
    <3> QED
      BY <3>1
  <2>6. IsFiniteSet(Bad') /\ Cardinality(Bad') <= Cardinality(Bad) + 0
    BY <1>5, BadFinite, NoMore
  <2>7. 2 * 1 + (-1) + 0 + Toll(Condemned') + Toll(Pending') + found
          <= Toll(Condemned) + Toll(Pending) + found'
    BY <1>1, <1>2, <1>6, <2>1, BadFinite DEF Toll
  <2> QED
    BY <2>4, <2>5, <2>6, <2>7, Balanced
<1>8. CASE ~(p \in live /\ Busy(p))
  <2>1. Orphans' \subseteq Orphans
    BY <1>1, <1>8, CallAccount
  <2> QED
    BY <1>1, <1>2, <1>5, <1>6, <2>1, Lighter
<1> QED
  BY <1>7, <1>8

\* The manager takes from a cell the address to unregister.  It condemns another
\* device than it meant only if the cell has been reused, and the slot was bad.
LEMMA NamesWeighed ==
    ASSUME TypesInv, TypesInv', KnownHandlers, Heap, Walk, Weighed, CallOf, MgrNames
    PROVE  Weighed'
<1> DEFINE d == obj[Mgr]
           a == m_addrBth[obj[Mgr]]
<1>0. live \subseteq Ptr /\ Det \in Thread /\ \A p \in live : m_addrBth[p] \in Addr
  BY TwoThreads DEF TypesInv, Typed, TypeOK, Origins, Born
<1>1. /\ pc[Mgr] = "unp_call" /\ pc'[Mgr] = "unr_lock" /\ d \in live /\ arg'[Mgr] = a
      /\ UNCHANGED <<m_mapBTDevice, live, m_addrBth, m_listService>> /\ found' = found
      /\ mpc = "walk" /\ mit = 0
  BY DEF MgrNames, CallOf
<1>2. a \in Addr /\ 0 \in Slots /\ InSlot(0) = d
  BY <1>0, <1>1 DEF Slots, InSlot
<1> HIDE DEF d, a
<1>3. ~Condemned
  BY <1>1 DEF Condemned, ErasingSoon
<1>4. Slots' \subseteq Slots \ {0} /\ \A i \in Slots' : InSlot(i)' = InSlot(i) /\ i > 0 /\ i \in Nat
  BY <1>1, CallAccount DEF Slots
<1>5. Orphans' \subseteq Orphans /\ Serviced' \subseteq Serviced /\ (Pending' <=> Pending)
  BY <1>1, CallAccount
<1>6. m_addrBth[d] = a
  BY DEF d, a
\* Of the devices at this address at most one is in the map, and if one is, no other
\* one is busy.
<1>7. ASSUME NEW q \in live, InMap(q), m_addrBth[q] = a, NEW r \in live, m_addrBth[r] = a, r # q
      PROVE  ~Busy(r) /\ ~Honest(r)
  <2>1. ~InMap(r) /\ Present(a)
    BY <1>0, <1>7, PtrAssumption DEF InMap, Linked, Present
  <2>2. Owns(Det, r)
    BY <1>7, <2>1 DEF Heap, Located
  <2>3. pc[Det] \in Creating /\ obj[Det] = r /\ arg[Det] = a
    BY <1>7, <2>2 DEF Owns, Heap, Constructed
  <2>4. ~Busy(r)
    BY <2>1, <2>3 DEF Walk, Recycled, Held, Busy
  <2> QED
    BY <2>1, <2>4 DEF Honest
<1>8. ASSUME NEW i \in Bad', i \notin Bad
      PROVE  /\ i \in Slots /\ i > 0 /\ Honest(InSlot(i)) /\ m_addrBth[InSlot(i)] = a
             /\ \A j \in Slots : j > i => InSlot(j) # InSlot(i)
  <2>1. i \in Slots' /\ i \in Slots \ {0} /\ i > 0
    BY <1>4, <1>8 DEF Bad
  <2>2. Honest(InSlot(i)) /\ \A j \in Slots : j > i => InSlot(j) # InSlot(i)
    BY <1>8, <2>1 DEF Bad
  <2>3. ~Honest(InSlot(i))'
    BY <1>4, <1>8, <2>1, <2>2 DEF Bad
  <2>4. InSlot(i)' = InSlot(i) /\ InSlot(i) \in live /\ live' = live /\ m_addrBth' = m_addrBth
    BY <1>1, <1>4, <2>1, <2>2 DEF Honest
  <2>5. ErasingSoon(m_addrBth[InSlot(i)])'
    BY <2>1, <2>2, <2>3, <2>4, CallAccount
  <2>6. m_addrBth[InSlot(i)] = a
    BY <1>1, <2>4, <2>5 DEF ErasingSoon
  <2> QED
    BY <2>1, <2>2, <2>6
<1>9. Condemned' => \E r \in live : Busy(r) /\ m_addrBth[r] = a
  BY <1>1, CallAccount DEF Condemned, ErasingSoon
<1>10. CASE \E i \in Bad' : i \notin Bad
  <2>1. PICK i \in Bad' : i \notin Bad
    BY <1>10
  <2> DEFINE q == InSlot(i)
  <2>2. i \in Slots /\ i > 0 /\ Honest(q) /\ m_addrBth[q] = a /\ q \in live /\ InMap(q) /\ ~Busy(q)
    BY <1>8, <2>1 DEF Honest
  <2>3. 0 \in Bad
    <3>1. CASE d = q
      BY <1>2, <2>2, <3>1 DEF Bad
    <3>2. CASE d # q
      BY <1>1, <1>2, <1>6, <1>7, <2>2, <3>2 DEF Bad
    <3> QED
      BY <3>1, <3>2
  <2>4. ~Condemned'
    BY <1>7, <1>9, <2>2
  <2>5. ASSUME NEW j \in Bad', j \notin Bad PROVE j = i
    <3>1. InSlot(j) = q
      BY <1>7, <1>8, <2>2, <2>5 DEF Honest
    <3>2. i \in Nat /\ j \in Nat /\ ~(j > i) /\ ~(i > j)
      BY <1>8, <2>1, <2>5, <3>1 DEF Slots
    <3> QED
      BY <3>2
  <2>6. Bad' \subseteq (Bad \ {0}) \cup {i}
    BY <1>4, <2>5 DEF Bad
  <2>7. IsFiniteSet(Bad') /\ Cardinality(Bad') <= Cardinality(Bad) + 0
    <3>1. IsFiniteSet(Bad') /\ Cardinality(Bad') <= Cardinality(Bad) /\ Cardinality(Bad) \in Nat
      BY <2>3, <2>6, BadFinite, ExchangesOne
    <3> QED
      BY <3>1
  <2>8. /\ IsFiniteSet(Orphans') /\ Cardinality(Orphans') <= Cardinality(Orphans) + 0
        /\ IsFiniteSet(Serviced') /\ Cardinality(Serviced') <= Cardinality(Serviced) + 0
    BY <1>5, NoMore DEF Weighed
  <2>9. 2 * 0 + 0 + 0 + Toll(Condemned') + Toll(Pending') + found
          <= Toll(Condemned) + Toll(Pending) + found'
    BY <1>1, <1>5, <2>4, BadFinite DEF Toll
  <2> QED
    BY <2>7, <2>8, <2>9, Balanced
<1>11. CASE Bad' \subseteq Bad /\ ~Condemned'
  BY <1>1, <1>5, <1>11, Lighter
<1>12. CASE Bad' \subseteq Bad /\ Condemned'
  <2>1. PICK r \in live : Busy(r) /\ m_addrBth[r] = a
    BY <1>9, <1>12
  <2>2. ~Honest(d)
    BY <1>1, <1>6, <1>7, <2>1 DEF Honest
  <2>3. 0 \in Bad /\ Bad' \subseteq Bad \ {0}
    BY <1>2, <1>4, <1>12, <2>2 DEF Bad
  <2>4. IsFiniteSet(Bad') /\ Cardinality(Bad') <= Cardinality(Bad) + (-1)
    <3>1. /\ IsFiniteSet(Bad') /\ Cardinality(Bad') + 1 <= Cardinality(Bad)
          /\ Cardinality(Bad) \in Nat /\ Cardinality(Bad') \in Nat
      BY <2>3, BadFinite, LosesOne
    <3> QED
      BY <3>1
  <2>5. /\ IsFiniteSet(Orphans') /\ Cardinality(Orphans') <= Cardinality(Orphans) + 0
        /\ IsFiniteSet(Serviced') /\ Cardinality(Serviced') <= Cardinality(Serviced) + 0
    BY <1>5, NoMore DEF Weighed
  <2>6. 2 * 0 + 0 + (-1) + Toll(Condemned') + Toll(Pending') + found
          <= Toll(Condemned) + Toll(Pending) + found'
    BY <1>1, <1>3, <1>5, <1>12, BadFinite DEF Toll
  <2> QED
    BY <2>4, <2>5, <2>6, Balanced
<1> QED
  BY <1>10, <1>11, <1>12

LEMMA HandlerWeighed ==
    ASSUME TypesInv, TypesInv', Weighed, NEW h \in Handler, HandlerRun(h)
    PROVE  Weighed'
<1>1. /\ UNCHANGED <<registryVars, m_pSockHandler, detVars, mgrVars>>
      /\ \A g \in Handler : handler'[g] \in Running => handler[g] \in Running
  BY HandlerDoes
<1>2. UNCHANGED <<m_mapBTDevice, live, m_addrBth, m_listService, m_pSockHandler, pc, arg, obj, dpc,
                  found, mpc, mit, pDev, eraseList>>
  BY <1>1 DEF registryVars, heapVars, fieldVars, localVars, detVars, mgrVars
<1>3. \A p \in live : p \in Ptr /\ (Busy(p)' => Busy(p))
  BY <1>1, <1>2 DEF Busy, TypesInv, MonitorTypeOK, Typed, TypeOK
<1>4. Orphans' \subseteq Orphans /\ Serviced' \subseteq Serviced
  BY <1>1, <1>2, <1>3 DEF Orphans, Serviced
<1>5. Slots' = Slots /\ \A i \in Slots : InSlot(i)' = InSlot(i)
  BY <1>2 DEF Slots, InSlot
<1>6. \A q \in live : Honest(q) => Honest(q)'
  BY <1>2, <1>3 DEF Honest, InMap, Linked, Erasing, ToVisit, ErasingSoon
<1>7. \A q, i : q = InSlot(i)' => (Honest(q)' <=> Honest(InSlot(i))')
  BY DEF Honest, Busy, InMap, Linked, ToVisit, ErasingSoon
<1>8. ASSUME NEW i \in Slots', Honest(InSlot(i)) PROVE Honest(InSlot(i))'
  <2>1. InSlot(i) \in live
    BY <1>8 DEF Honest
  <2> QED
    BY <1>5, <1>6, <1>7, <1>8, <2>1
<1>9. Bad' \subseteq Bad
  BY <1>5, <1>8, SlotsKept
<1>10. (Condemned' => Condemned) /\ (Pending' => Pending)
  BY <1>2, <1>3 DEF Condemned, Pending, ErasingSoon
<1> QED
  BY <1>2, <1>4, <1>9, <1>10, Lighter

LEMMA WeighedKept ==
    ASSUME TypesInv, TypesInv', KnownHandlers, Heap, Walk, Weighed, [MonitorNext]_vars,
           fault = {}, fault' = {}
    PROVE  Weighed'
<1>1. ASSUME Walks PROVE Weighed'
  BY <1>1, FetchWeighed, VisitWeighed, ConnectWeighed, PrintWeighed, ReapWeighed, ForgetWeighed,
     AdvanceWeighed, RestWeighed DEF Walks
<1>2. ASSUME MgrInsideCall PROVE Weighed'
  BY <1>2, CallDoes, MovesWeighed, NamesWeighed, MgrDeleteWeighed, EntryErasedWeighed
<1>3. ASSUME UNCHANGED vars PROVE Weighed'
  <2>1. UNCHANGED <<m_mapBTDevice, live, m_addrBth, m_listService, m_pSockHandler, handler, pc, arg,
                    obj, dpc, found, mpc, mit, pDev, eraseList>>
    BY <1>3 DEF vars, registryVars, heapVars, fieldVars, localVars, detVars, mgrVars
  <2>2. \A q : Honest(q)' <=> Honest(q)
    BY <2>1 DEF Honest, Busy, InMap, Linked, Erasing, ToVisit, ErasingSoon
  <2>3. Slots' = Slots /\ \A i : InSlot(i)' = InSlot(i)
    BY <2>1 DEF Slots, InSlot
  <2>4. \A q, i : q = InSlot(i)' => (Honest(q)' <=> Honest(InSlot(i))')
    BY DEF Honest, Busy, InMap, Linked, ToVisit, ErasingSoon
  <2>5. Bad' \subseteq Bad
    BY <2>2, <2>3, <2>4, SlotsKept
  <2>6. /\ Orphans' \subseteq Orphans /\ Serviced' \subseteq Serviced
        /\ Condemned' => Condemned
        /\ Pending' => Pending
    BY <2>1 DEF Orphans, Serviced, Busy, Condemned, Pending, ErasingSoon
  <2> QED
    BY <2>1, <2>5, <2>6, Lighter
<1> QED
  BY <1>1, <1>2, <1>3, DetectorWeighed, EraseWeighed, HandlerWeighed
     DEF MonitorNext, DetectorThread, ManagerThread, HandlerThread, Manager, Walks

\* Until something goes wrong the account is balanced.
Account == fault = {} => Heap /\ Walk /\ Weighed

LEMMA AccountKept ==
    ASSUME TypesInv, TypesInv', KnownHandlers, KnownHandlers', Account, [MonitorNext]_vars
    PROVE  Account'
<1>1. SUFFICES ASSUME fault' = {} PROVE Heap' /\ Walk' /\ Weighed'
  BY DEF Account
<1>2. fault = {}
  BY <1>1, FaultsStay
<1> QED
  BY <1>1, <1>2, HeapKept, WalkKept, WeighedKept DEF Account

LEMMA AccountOpens == MonitorInit => Account
<1> SUFFICES ASSUME MonitorInit PROVE Heap /\ Walk /\ Weighed
  BY DEF Account
<1>1. /\ Det \in Thread /\ Mgr \in Thread /\ pc[Det] = "idle" /\ pc[Mgr] = "idle"
      /\ pc = [t \in Thread |-> "idle"]
      /\ live = {} /\ \A a \in Addr : m_mapBTDevice[a] = Absent
      /\ dpc = "inquiry" /\ found = 0 /\ mpc = "sleeping" /\ mit = 0 /\ eraseList = <<>>
      /\ handler = [h \in Handler |-> "free"]
  BY ActorsAssumption DEF MonitorInit, RegistryInit, ManagerInit, EmptyMap
<1>2. Heap
  BY <1>1, PtrAssumption DEF Heap, Located, Filed, Constructed, Vacant, SameKey, Deleted, Linked, Creating
<1>3. Walk
  BY <1>1 DEF Walk, Recycled, Visited, Unconnected, Ended, Control, LastCall, Creating, Handling
<1>4. Weighed
  <2>1. Orphans = {} /\ Serviced = {} /\ Slots = {}
    BY <1>1 DEF Orphans, Serviced, Slots, Running
  <2>2. Bad = {} /\ ~Condemned /\ ~Pending
    BY <1>1, <2>1 DEF Bad, Condemned, Pending, Settled
  <2>3. IsFiniteSet({}) /\ Cardinality({}) = 0
    BY FS_EmptySet
  <2> QED
    BY <1>1, <2>1, <2>2, <2>3 DEF Weighed, Toll
<1> QED
  BY <1>2, <1>3, <1>4

\* Until the first misuse of memory every handler that runs without a device has cost
\* two discoveries of its own, the one that brought the services it was started for and
\* the one whose failed search took its device away (BTDeviceManager.cpp:43-45), however
\* often cells are freed and reused under the manager's list of devices to erase.
THEOREM OrphansArePaidFor ==
    MonitorSpec => [](fault = {} => IsFiniteSet(Orphans) /\ 2 * Cardinality(Orphans) <= found)
<1>1. TypesInv /\ TypesInv' /\ KnownHandlers /\ KnownHandlers' /\ Account /\ [MonitorNext]_vars => Account'
  BY AccountKept
<1>2. MonitorSpec => []Account
  BY <1>1, AccountOpens, MonitorTypes, HandlersKnown, PTL DEF MonitorSpec
<1>3. TypesInv /\ Account => (fault = {} => IsFiniteSet(Orphans) /\ 2 * Cardinality(Orphans) <= found)
  <2> SUFFICES ASSUME TypesInv, Weighed
               PROVE  IsFiniteSet(Orphans) /\ 2 * Cardinality(Orphans) <= found
    BY DEF Account
  <2>1. IsFiniteSet(Orphans) /\ Cardinality(Orphans) \in Nat /\ Cardinality(Serviced) \in Nat
    BY FS_CardinalityType DEF Weighed
  <2>2. /\ Cardinality(Bad) \in Nat /\ found \in Nat
        /\ Toll(Condemned) \in Nat /\ Toll(Pending) \in Nat
    BY BadFinite DEF Toll
  <2> QED
    BY <2>1, <2>2 DEF Weighed
<1> QED
  BY <1>2, <1>3, MonitorTypes, PTL

\* In a process that ends with its first fault, searches beside an erasure not counted,
\* the pointers are sound at every moment, and the orphans are paid for as long as no
\* search has raced an erasure.
THEOREM HandlersAreSoundToTheEnd ==
    ASSUME MaxFaults = 0
    PROVE  MonitorSpec => [](PointersSound /\ (fault = {} => HandlersSound))
<1>1. KnownHandlers /\ (fault = {} => IsFiniteSet(Orphans) /\ 2 * Cardinality(Orphans) <= found)
        => PointersSound /\ (fault = {} => HandlersSound)
  BY DEF KnownHandlers, HandlersSound, PointersSound, Pointers, Kept, Sole
<1> QED
  BY <1>1, HandlersKnown, OrphansArePaidFor, PTL

=============================================================================
