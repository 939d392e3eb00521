----------------------- MODULE DevMgrUnitTest_proofs -----------------------
(***************************************************************************)
(* Proofs about the multi-threaded unit tests, for every number of threads  *)
(* and of addresses: with the mutex, both assertions on the map hold.       *)
(***************************************************************************)
EXTENDS DevMgrUnitTest, DeviceRegistry_proofs

USE DEF NoAddress

-----------------------------------------------------------------------------
(* What a step of an operation is, where the tests can be.                  *)

RegSteps == {"reg_find", "reg_lock", "reg_check", "reg_insert"}
UnrSteps == {"unr_lock", "unr_check", "unr_delete", "unr_erase", "unr_release"}
LstSteps == {"lst_lock", "lst_walk", "lst_release"}

LEMMA StepsOf ==
    ASSUME NEW t \in Thread, Step(t)
    PROVE  /\ pc[t] \notin {"idle", "exited"} /\ up
           /\ pc[t] \in RegSteps =>
                RegFind(t) \/ RegLock(t) \/ RegCheck(t) \/ RegInsert(t)
           /\ pc[t] \in UnrSteps =>
                UnrLock(t) \/ UnrCheck(t) \/ UnrDelete(t) \/ UnrErase(t) \/ UnrRelease(t)
           /\ pc[t] \in LstSteps => LstLock(t) \/ LstWalk(t) \/ LstRelease(t)
<1> USE DEF At, RegSteps, UnrSteps, LstSteps
<1>1. ASSUME \/ RegFind(t) \/ RegLock(t) \/ RegCheck(t) \/ RegInsert(t)
      PROVE  pc[t] \in RegSteps /\ up
  BY <1>1 DEF RegFind, RegLock, Wait, RegCheck, RegInsert
<1>2. ASSUME UnrLock(t) \/ UnrCheck(t) \/ UnrDelete(t) \/ UnrErase(t) \/ UnrRelease(t)
      PROVE  pc[t] \in UnrSteps /\ up
  BY <1>2 DEF UnrLock, Wait, UnrCheck, FindOrReturn, UnrDelete, UnrErase, UnrRelease,
              ReleaseAndReturn
<1>3. ASSUME LstLock(t) \/ LstWalk(t) \/ LstRelease(t)
      PROVE  pc[t] \in LstSteps /\ up
  BY <1>3 DEF LstLock, Wait, LstWalk, LstRelease, ReleaseAndReturn
<1>4. ASSUME \/ RegRelease(t) \/ RegDelete(t) \/ UpdFind(t) \/ UpdLock(t) \/ UpdRelease(t)
             \/ SvcFind(t) \/ SvcLock(t) \/ SvcRelease(t)
      PROVE  pc[t] \in {"reg_release", "reg_delete", "upd_find", "upd_lock", "upd_release",
                        "svc_find", "svc_lock", "svc_release"} /\ up
  BY <1>4 DEF RegRelease, RegDelete, UpdFind, FindOrReturn, UpdLock, UpdRelease, SvcFind, SvcLock,
              SvcRelease, Wait, ReleaseAndReturn
<1>5. ASSUME UpdIndex(t) \/ SvcIndex(t) PROVE pc[t] \in {"upd_index", "svc_index"} /\ up
  BY <1>5 DEF UpdIndex, SvcIndex, IndexDevice
<1>6. ASSUME UpdWrite(t) \/ SvcWrite(t) PROVE pc[t] \in {"upd_write", "svc_write"} /\ up
  BY <1>6 DEF UpdWrite, SvcWrite
<1>7. ASSUME GcsLock(t) \/ GcsFind(t) \/ GcsDeref(t) \/ GcsRelease(t)
      PROVE  pc[t] \in {"gcs_lock", "gcs_find", "gcs_deref", "gcs_release"} /\ up
  BY <1>7 DEF GcsLock, Wait, GcsFind, GcsDeref, GcsRelease, ReleaseAndReturn
<1> HIDE DEF At
<1>8. /\ pc[t] \notin {"idle", "exited"} /\ up
      /\ \/ RegFind(t) \/ RegLock(t) \/ RegCheck(t) \/ RegInsert(t)
         \/ pc[t] \notin RegSteps
      /\ \/ UnrLock(t) \/ UnrCheck(t) \/ UnrDelete(t) \/ UnrErase(t) \/ UnrRelease(t)
         \/ pc[t] \notin UnrSteps
      /\ \/ LstLock(t) \/ LstWalk(t) \/ LstRelease(t)
         \/ pc[t] \notin LstSteps
  BY <1>1, <1>2, <1>3, <1>4, <1>5, <1>6, <1>7 DEF Step
<1> QED
  BY <1>8

-----------------------------------------------------------------------------
(* The inductive invariant: where every thread of the tests is, and what is  *)
(* in the map then.                                                         *)

Fresh(t) == t \notin called /\ pc[t] = "idle"
Busy(t, S) == t \in called /\ pc[t] \in S /\ arg[t] = Target(t)
Done(t) == t \in called /\ pc[t] \in {"idle", "exited"}

Registering ==
    phase = "registering" =>
      /\ \A t \in Registrar : Fresh(t) \/ Busy(t, RegSteps) \/ Done(t)
      /\ \A t \in Unregistrar : Fresh(t)
      /\ pc[Main] = "idle"
      /\ \A a \in Addr : Present(a) <=> \E t \in Registrar : Done(t) /\ Target(t) = a

Between ==
    phase = "registered" =>
      /\ \A t \in Registrar : pc[t] = "exited"
      /\ \A t \in Unregistrar : Fresh(t)
      /\ pc[Main] = "idle"
      /\ \A a \in Addr : Present(a) <=> \E t \in Registrar : Target(t) = a

Unregistering ==
    phase = "unregistering" =>
      /\ \A t \in Registrar : pc[t] = "exited"
      /\ \A t \in Unregistrar : Fresh(t) \/ Busy(t, UnrSteps) \/ Done(t)
      /\ pc[Main] = "idle"
      /\ \A a \in Addr : Present(a) => \E t \in Registrar : Target(t) = a
      /\ \A t \in Unregistrar : Done(t) \/ pc[t] = "unr_release" => ~Present(Target(t))

Listing ==
    phase \in {"unregistered", "listing", "done"} =>
      /\ \A t \in Registrar \cup Unregistrar : pc[t] = "exited"
      /\ pc[Main] \in {"idle", "exited"} \cup LstSteps
      /\ \A a \in Addr : ~Present(a)

Phases == {"registering", "registered", "unregistering", "unregistered", "listing", "done"}

Registry == Typed /\ MutualExclusion /\ HeapInv
Tests == up => phase \in Phases /\ Registering /\ Between /\ Unregistering /\ Listing

\* The main thread's call of ListDevices, which has no address.
LEMMA ListCalled ==
    ASSUME Registry, Call(Main, "lst_lock", NULL)
    PROVE  Registry'
<1>0. Main \in Thread
  BY WorkersAssumption
<1>1. Typed'
  BY <1>0 DEF Registry, Call, Typed, TypeOK, PcLabels, mutexVars, heapVars, fieldVars, procVars, Goto,
              At, MutexTypeOK
<1>2. MutualExclusion'
  BY <1>0 DEF Registry, Call, MutualExclusion, TypeOK, Typed, mutexVars, procVars, Goto, At, Locked
<1>3. HeapInv'
  BY <1>0, PtrAssumption, SMTT(20)
     DEF Registry, Call, HeapInv, Knows, NullEntries, Entries, Created, CreatedOnce, Placed, Linked,
         Erasing, Owns, Creating, Writing, Relinking, TypeOK, Typed, mutexVars, heapVars, fieldVars,
         procVars, Goto, At
<1> QED
  BY <1>1, <1>2, <1>3 DEF Registry

LEMMA RegistryHolds ==
    ASSUME HasMutex, Registry, [TestNext]_vars
    PROVE  Registry'
<1>1. ASSUME [Next]_registryVars PROVE Registry'
  BY <1>1, HasMutex, NextTyped, NextExclusive, NextHeap DEF Registry
<1>2. ASSUME NEW t \in Registrar \cup Unregistrar, NEW l \in {"reg_find", "unr_lock"}, Worker(t, l)
      PROVE  Registry'
  <2>1. t \in Thread /\ Target(t) \in Addr
    BY WorkersAssumption, TargetsAssumption
  <2>2. Invoke(t) \/ Step(t) \/ ThreadExit(t)
    BY <1>2, <2>1 DEF Worker, Invoke, Operations
  <2> QED
    BY <1>1, <2>1, <2>2 DEF Next
<1>3. ASSUME MainThread PROVE Registry'
  <2>1. Main \in Thread
    BY WorkersAssumption
  <2>2. UNCHANGED registryVars \/ Call(Main, "lst_lock", NULL) \/ Step(Main) \/ ThreadExit(Main)
    BY <1>3 DEF MainThread, JoinRegistrars, JoinUnregistrars, Join, ResumeUnregistrars, ListResult
  <2> QED
    BY <1>1, <2>1, <2>2, ListCalled DEF Next
<1> QED
  BY <1>1, <1>2, <1>3
     DEF TestNext, RegisterDeviceThreadFunc, UnregisterDeviceThreadFunc, vars

-----------------------------------------------------------------------------
(* Registering: an address is in the map when its thread's call is over.     *)

LEMMA RegistrarMoves ==
    ASSUME Typed, Registering, phase = "registering", phase' = phase, NEW t \in Registrar,
           NEW l, pc' = [pc EXCEPT ![t] = l], UNCHANGED m_mapBTDevice,
           \A u \in Thread \ {t} : arg'[u] = arg[u], called' = called \cup {t},
           \/ l \in RegSteps /\ arg'[t] = Target(t) /\ ~Done(t)
           \/ l = "exited" /\ Done(t)
    PROVE  Registering'
<1>0. /\ pc \in [Thread -> PcLabels] /\ t \in Thread /\ Registrar \subseteq Thread
      /\ Unregistrar \subseteq Thread \ {t} /\ Main \in Thread \ {t}
  BY WorkersAssumption DEF Typed, TypeOK
<1>1. pc'[t] = l /\ \A u \in Thread \ {t} : pc'[u] = pc[u] /\ (u \in called' <=> u \in called)
  BY <1>0
<1>2. \A u \in Thread \ {t} : /\ Done(u)' <=> Done(u)
                              /\ Fresh(u) => Fresh(u)'
                              /\ Busy(u, RegSteps) => Busy(u, RegSteps)'
  BY <1>1 DEF Done, Fresh, Busy
<1>3. (Done(t)' <=> Done(t)) /\ (Done(t)' \/ Busy(t, RegSteps)')
  BY <1>1 DEF Done, Busy, RegSteps
<1>4. \A a \in Addr : Present(a)' <=> Present(a)
  BY DEF Present
<1>5. \A u \in Registrar : (Done(u)' <=> Done(u)) /\ (Fresh(u)' \/ Busy(u, RegSteps)' \/ Done(u)')
  BY <1>0, <1>2, <1>3 DEF Registering
<1>6. \A u \in Unregistrar : Fresh(u)'
  BY <1>0, <1>2 DEF Registering
<1>7. pc'[Main] = "idle"
  BY <1>0, <1>1 DEF Registering
<1>8. \A a \in Addr : Present(a)' <=> \E u \in Registrar : Done(u)' /\ Target(u) = a
  BY <1>4, <1>5 DEF Registering
<1> QED
  BY <1>5, <1>6, <1>7, <1>8 DEF Registering

LEMMA RegistrarInserts ==
    ASSUME Typed, Registering, phase = "registering", phase' = phase, NEW t \in Registrar,
           pc' = [pc EXCEPT ![t] = "idle"], NEW p \in Ptr,
           m_mapBTDevice' = [m_mapBTDevice EXCEPT ![Target(t)] = p],
           \A u \in Thread \ {t} : arg'[u] = arg[u], called' = called, t \in called
    PROVE  Registering'
<1>0. /\ pc \in [Thread -> PcLabels] /\ t \in Thread /\ Registrar \subseteq Thread
      /\ Unregistrar \subseteq Thread \ {t} /\ Main \in Thread \ {t} /\ m_mapBTDevice \in Maps
  BY WorkersAssumption DEF Typed, TypeOK
<1>1. pc'[t] = "idle" /\ \A u \in Thread \ {t} : pc'[u] = pc[u]
  BY <1>0
<1>2. \A u \in Thread \ {t} : /\ Done(u)' <=> Done(u)
                              /\ Fresh(u) => Fresh(u)'
                              /\ Busy(u, RegSteps) => Busy(u, RegSteps)'
  BY <1>1 DEF Done, Fresh, Busy
<1>3. Done(t)'
  BY <1>1 DEF Done
<1>4. \A a \in Addr : Present(a)' <=> Present(a) \/ a = Target(t)
  BY <1>0, PtrAssumption DEF Present, Maps
<1>5. \A u \in Registrar : (Done(u)' <=> Done(u) \/ u = t)
                           /\ (Fresh(u)' \/ Busy(u, RegSteps)' \/ Done(u)')
  BY <1>0, <1>2, <1>3 DEF Registering
<1>6. \A u \in Unregistrar : Fresh(u)'
  BY <1>0, <1>2 DEF Registering
<1>7. pc'[Main] = "idle"
  BY <1>0, <1>1 DEF Registering
<1>8. \A a \in Addr : Present(a)' <=> \E u \in Registrar : Done(u)' /\ Target(u) = a
  BY <1>4, <1>5 DEF Registering
<1> QED
  BY <1>5, <1>6, <1>7, <1>8 DEF Registering

\* With exclusion, the map is relinked as it is.
LEMMA RelinkedAlone ==
    ASSUME Registry, up, NEW t \in Thread, pc[t] \in Relinking, NEW a, NEW v, EndRelink(t, a, v)
    PROVE  m_mapBTDevice' = [m_mapBTDevice EXCEPT ![a] = v]
<1>1. snap[t] = m_mapBTDevice
  BY DEF Registry, HeapInv, Knows
<1> QED
  BY <1>1 DEF EndRelink

LEMMA RegistrarSteps ==
    ASSUME HasMutex, Registry, Registering, phase = "registering", NEW t \in Registrar,
           Worker(t, "reg_find")
    PROVE  Registering'
<1>0. /\ Typed /\ t \in Thread /\ phase' = phase /\ arg \in [Thread -> Addr \cup {NULL}]
      /\ pc \in [Thread -> PcLabels]
  BY WorkersAssumption DEF Registry, Typed, TypeOK, Worker
<1>1. CASE t \notin called /\ Call(t, "reg_find", Target(t)) /\ called' = called \cup {t}
  <2>1. /\ pc' = [pc EXCEPT ![t] = "reg_find"] /\ UNCHANGED m_mapBTDevice
        /\ arg'[t] = Target(t) /\ \A u \in Thread \ {t} : arg'[u] = arg[u]
    BY <1>0, <1>1 DEF Call, Goto, heapVars
  <2>2. ~Done(t) /\ "reg_find" \in RegSteps
    BY <1>1 DEF Done, RegSteps
  <2> QED
    BY <1>0, <1>1, <2>1, <2>2, RegistrarMoves
<1>2. CASE t \in called /\ ThreadExit(t) /\ UNCHANGED called
  <2>1. /\ pc' = [pc EXCEPT ![t] = "exited"] /\ pc[t] = "idle" /\ UNCHANGED <<m_mapBTDevice, arg>>
    BY <1>2 DEF ThreadExit, Goto, At, heapVars
  <2>2. Done(t) /\ called' = called \cup {t}
    BY <1>2, <2>1 DEF Done
  <2> QED
    BY <1>0, <2>1, <2>2, RegistrarMoves
<1>3. CASE Step(t) /\ UNCHANGED called
  <2>1. /\ Busy(t, RegSteps) /\ ~Done(t) /\ up
        /\ RegFind(t) \/ RegLock(t) \/ RegCheck(t) \/ RegInsert(t)
    BY <1>0, <1>3, StepsOf DEF Registering, Fresh, Busy, Done
  <2>2. t \in called /\ arg[t] = Target(t) /\ Target(t) \in Addr /\ called' = called \cup {t}
    BY <1>3, <2>1, TargetsAssumption DEF Busy
  <2>3. ~Present(arg[t])
    BY <2>1, <2>2, TargetsAssumption DEF Registering
  <2>4. ASSUME NEW l \in RegSteps, Goto(t, l), UNCHANGED <<arg, m_mapBTDevice>> PROVE Registering'
    BY <1>0, <2>1, <2>2, <2>4, RegistrarMoves DEF Goto
  <2>5. CASE RegFind(t)
    <3>0. ~EraseBeside(t)
      BY WorkersAssumption DEF EraseBeside, Registering, Fresh, Busy, Done, RegSteps
    <3>1. FindResults(t, arg[t]) = {FALSE}
      BY <2>3, <3>0 DEF FindResults, Present
    <3>2. Goto(t, "reg_lock") /\ UNCHANGED <<arg, m_mapBTDevice>>
      BY <2>5, <3>1 DEF RegFind
    <3> QED
      BY <2>4, <3>2 DEF RegSteps
  <2>6. CASE RegLock(t)
    BY <2>4, <2>6 DEF RegLock, Wait, RegSteps, heapVars
  <2>7. CASE RegCheck(t)
    <3>1. pc[t] \in Locked
      BY <2>7 DEF RegCheck, At, Locked
    <3>2. FindResults(t, arg[t]) = {FALSE}
      BY <1>0, <2>1, <2>3, <3>1, Alone DEF Registry, Present
    <3>3. Goto(t, "reg_insert") /\ UNCHANGED <<arg, m_mapBTDevice>>
      BY <2>7, <3>2 DEF RegCheck, heapVars
    <3> QED
      BY <2>4, <3>3 DEF RegSteps
  <2>8. CASE RegInsert(t)
    <3>1. pc[t] = "reg_insert" /\ EndRelink(t, arg[t], obj[t]) /\ Return(t, TRUE)
      BY <2>8 DEF RegInsert, At
    <3>2. m_mapBTDevice' = [m_mapBTDevice EXCEPT ![Target(t)] = obj[t]]
      BY <1>0, <2>1, <2>2, <3>1, RelinkedAlone DEF Relinking
    <3>3. obj[t] \in Ptr
      BY <1>0, <2>1, <3>1 DEF Registry, HeapInv, Created, Creating, Typed, TypeOK
    <3>4. pc' = [pc EXCEPT ![t] = "idle"] /\ \A u \in Thread \ {t} : arg'[u] = arg[u]
      BY <1>0, <3>1 DEF Return, Goto
    <3> QED
      BY <1>0, <1>3, <2>2, <3>2, <3>3, <3>4, RegistrarInserts
  <2> QED
    BY <2>1, <2>5, <2>6, <2>7, <2>8
<1> QED
  BY <1>1, <1>2, <1>3 DEF Worker

-----------------------------------------------------------------------------
(* Unregistering: an address is gone when the call of any of its threads is  *)
(* over, whichever of them has erased it.                                    *)

LEMMA UnregistrarMoves ==
    ASSUME Typed, Unregistering, phase = "unregistering", phase' = phase, NEW t \in Unregistrar,
           NEW l, pc' = [pc EXCEPT ![t] = l],
           \A a \in Addr : Present(a)' => Present(a),
           \A u \in Thread \ {t} : arg'[u] = arg[u], called' = called \cup {t},
           \/ l \in UnrSteps /\ arg'[t] = Target(t)
           \/ l \in {"idle", "exited"},
           l \in {"idle", "exited", "unr_release"} => ~Present(Target(t))'
    PROVE  Unregistering'
<1>0. /\ pc \in [Thread -> PcLabels] /\ t \in Thread /\ Unregistrar \subseteq Thread
      /\ Registrar \subseteq Thread \ {t} /\ Main \in Thread \ {t}
      /\ \A u \in Unregistrar : Target(u) \in Addr
  BY WorkersAssumption, TargetsAssumption DEF Typed, TypeOK
<1>1. pc'[t] = l /\ \A u \in Thread \ {t} : pc'[u] = pc[u] /\ (u \in called' <=> u \in called)
  BY <1>0
<1>2. \A u \in Thread \ {t} : /\ Done(u)' <=> Done(u)
                              /\ Fresh(u) => Fresh(u)'
                              /\ Busy(u, UnrSteps) => Busy(u, UnrSteps)'
  BY <1>1 DEF Done, Fresh, Busy
<1>3. Done(t)' \/ Busy(t, UnrSteps)'
  BY <1>1 DEF Done, Busy
<1>4. Done(t)' \/ pc'[t] = "unr_release" => ~Present(Target(t))'
  BY <1>1 DEF Done
<1>5. \A u \in Unregistrar : Fresh(u)' \/ Busy(u, UnrSteps)' \/ Done(u)'
  BY <1>0, <1>2, <1>3 DEF Unregistering
<1>6. \A u \in Unregistrar : Done(u)' \/ pc'[u] = "unr_release" => ~Present(Target(u))'
  BY <1>0, <1>1, <1>2, <1>4 DEF Unregistering
<1>7. pc'[Main] = "idle" /\ \A u \in Registrar : pc'[u] = "exited"
  BY <1>0, <1>1 DEF Unregistering
<1>8. \A a \in Addr : Present(a)' => \E u \in Registrar : Target(u) = a
  BY DEF Unregistering
<1> QED
  BY <1>5, <1>6, <1>7, <1>8 DEF Unregistering

LEMMA UnregistrarSteps ==
    ASSUME HasMutex, Registry, Unregistering, phase = "unregistering", NEW t \in Unregistrar,
           Worker(t, "unr_lock")
    PROVE  Unregistering'
<1>0. /\ Typed /\ t \in Thread /\ phase' = phase /\ arg \in [Thread -> Addr \cup {NULL}]
      /\ pc \in [Thread -> PcLabels] /\ Target(t) \in Addr /\ m_mapBTDevice \in Maps
  BY WorkersAssumption, TargetsAssumption DEF Registry, Typed, TypeOK, Worker
<1>1. CASE t \notin called /\ Call(t, "unr_lock", Target(t)) /\ called' = called \cup {t}
  <2>1. /\ pc' = [pc EXCEPT ![t] = "unr_lock"] /\ UNCHANGED m_mapBTDevice
        /\ arg'[t] = Target(t) /\ \A u \in Thread \ {t} : arg'[u] = arg[u]
    BY <1>0, <1>1 DEF Call, Goto, heapVars
  <2>2. "unr_lock" \in UnrSteps /\ \A a \in Addr : Present(a)' => Present(a)
    BY <2>1 DEF UnrSteps, Present
  <2> QED
    BY <1>0, <1>1, <2>1, <2>2, UnregistrarMoves
<1>2. CASE t \in called /\ ThreadExit(t) /\ UNCHANGED called
  <2>1. /\ pc' = [pc EXCEPT ![t] = "exited"] /\ pc[t] = "idle" /\ UNCHANGED <<m_mapBTDevice, arg>>
    BY <1>2 DEF ThreadExit, Goto, At, heapVars
  <2>2. Done(t) /\ called' = called \cup {t}
    BY <1>2, <2>1 DEF Done
  <2>3. ~Present(Target(t))' /\ \A a \in Addr : Present(a)' => Present(a)
    BY <2>1, <2>2 DEF Unregistering, Present
  <2> QED
    BY <1>0, <2>1, <2>2, <2>3, UnregistrarMoves
<1>3. CASE Step(t) /\ UNCHANGED called
  <2>1. /\ Busy(t, UnrSteps) /\ up
        /\ UnrLock(t) \/ UnrCheck(t) \/ UnrDelete(t) \/ UnrErase(t) \/ UnrRelease(t)
    BY <1>0, <1>3, StepsOf DEF Unregistering, Fresh, Busy, Done
  <2>2. t \in called /\ arg[t] = Target(t) /\ called' = called \cup {t}
    BY <1>3, <2>1 DEF Busy
  <2>3. CASE UnrLock(t)
    <3>1. pc' = [pc EXCEPT ![t] = "unr_check"] /\ UNCHANGED <<arg, m_mapBTDevice>>
      BY <2>3 DEF UnrLock, Wait, Goto, heapVars
    <3> QED
      BY <1>0, <2>2, <3>1, UnregistrarMoves DEF Present, UnrSteps
  <2>4. CASE UnrCheck(t)
    <3>1. pc[t] \in Locked /\ UNCHANGED m_mapBTDevice
      BY <2>4 DEF UnrCheck, FindOrReturn, At, Locked, heapVars
    <3>2. FindResults(t, arg[t]) = {Present(arg[t])}
      BY <1>0, <2>1, <3>1, Alone DEF Registry
    <3>3. CASE Present(arg[t])
      <4>1. pc' = [pc EXCEPT ![t] = "unr_delete"] /\ UNCHANGED arg
        BY <2>4, <3>2, <3>3 DEF UnrCheck, FindOrReturn, Goto
      <4> QED
        BY <1>0, <2>2, <3>1, <4>1, UnregistrarMoves DEF Present, UnrSteps
    <3>4. CASE ~Present(arg[t])
      <4>1. pc' = [pc EXCEPT ![t] = "idle"] /\ \A u \in Thread \ {t} : arg'[u] = arg[u]
        BY <1>0, <2>4, <3>2, <3>4 DEF UnrCheck, FindOrReturn, Return, Goto
      <4> QED
        BY <1>0, <2>2, <3>1, <3>4, <4>1, UnregistrarMoves DEF Present
    <3> QED
      BY <3>3, <3>4
  <2>5. CASE UnrDelete(t)
    <3>1. pc[t] = "unr_delete" /\ IndexInserts(arg[t]) /\ arg' = arg
          /\ pc' = [pc EXCEPT ![t] = "unr_erase"]
      BY <2>5 DEF UnrDelete, At, Goto
    <3>2. m_mapBTDevice[arg[t]] \in Ptr
      BY <1>0, <2>1, <3>1 DEF Registry, HeapInv, Knows
    <3>3. m_mapBTDevice' = m_mapBTDevice
      BY <1>0, <3>1, <3>2, PtrAssumption DEF IndexInserts, Index, Present, Maps
    <3> QED
      BY <1>0, <2>2, <3>1, <3>3, UnregistrarMoves DEF Present, UnrSteps
  <2>6. CASE UnrErase(t)
    <3>1. pc[t] = "unr_erase" /\ EndRelink(t, arg[t], Absent) /\ arg' = arg
          /\ pc' = [pc EXCEPT ![t] = "unr_release"]
      BY <2>6 DEF UnrErase, At, Goto
    <3>2. m_mapBTDevice' = [m_mapBTDevice EXCEPT ![Target(t)] = Absent]
      BY <1>0, <2>1, <2>2, <3>1, RelinkedAlone DEF Relinking
    <3>3. ~Present(Target(t))' /\ \A a \in Addr : Present(a)' => Present(a)
      BY <1>0, <3>2 DEF Present, Maps
    <3> QED
      BY <1>0, <2>2, <3>1, <3>3, UnregistrarMoves DEF UnrSteps
  <2>7. CASE UnrRelease(t)
    <3>1. /\ pc[t] = "unr_release" /\ pc' = [pc EXCEPT ![t] = "idle"] /\ UNCHANGED m_mapBTDevice
          /\ \A u \in Thread \ {t} : arg'[u] = arg[u]
      BY <1>0, <2>7 DEF UnrRelease, ReleaseAndReturn, At, Return, Goto, heapVars
    <3>2. ~Present(Target(t))
      BY <3>1 DEF Unregistering
    <3> QED
      BY <1>0, <2>2, <3>1, <3>2, UnregistrarMoves DEF Present
  <2> QED
    BY <2>1, <2>3, <2>4, <2>5, <2>6, <2>7
<1> QED
  BY <1>1, <1>2, <1>3 DEF Worker

-----------------------------------------------------------------------------
(* The main thread.                                                         *)

LEMMA MainSteps ==
    ASSUME Registry, Registering, Between, Unregistering, Listing, phase \in Phases, MainThread
    PROVE  Registering' /\ Between' /\ Unregistering' /\ Listing' /\ phase' \in Phases
<1>0. Main \in Thread \ (Registrar \cup Unregistrar) /\ Registrar \cup Unregistrar \subseteq Thread
  BY WorkersAssumption
<1>1. CASE JoinRegistrars
  <2>1. /\ phase = "registering" /\ phase' = "registered" /\ UNCHANGED <<pc, m_mapBTDevice, called>>
        /\ \A t \in Registrar : pc[t] = "exited"
    BY <1>1 DEF JoinRegistrars, Join, registryVars, localVars, heapVars
  <2>2. \A t \in Registrar : Done(t)
    BY <2>1 DEF Registering, Fresh, Busy, Done, RegSteps
  <2>3. Between'
    BY <2>1, <2>2 DEF Registering, Between, Fresh, Present
  <2> QED
    BY <2>1, <2>3 DEF Registering, Unregistering, Listing, Phases
<1>2. CASE ResumeUnregistrars
  <2>1. phase = "registered" /\ phase' = "unregistering" /\ UNCHANGED <<pc, m_mapBTDevice, called>>
    BY <1>2 DEF ResumeUnregistrars, registryVars, localVars, heapVars
  <2>2. Unregistering'
    BY <2>1 DEF Between, Unregistering, Fresh, Done, Present
  <2> QED
    BY <2>1, <2>2 DEF Registering, Between, Listing, Phases
<1>3. CASE JoinUnregistrars
  <2>1. /\ phase = "unregistering" /\ phase' = "unregistered"
        /\ UNCHANGED <<pc, m_mapBTDevice, called>> /\ \A t \in Unregistrar : pc[t] = "exited"
    BY <1>3 DEF JoinUnregistrars, Join, registryVars, localVars, heapVars
  <2>2. \A t \in Unregistrar : ~Present(Target(t))
    BY <2>1 DEF Unregistering, Fresh, Busy, Done, UnrSteps
  <2>3. \A a \in Addr : ~Present(a)
    BY <2>1, <2>2, TargetsAssumption DEF Unregistering
  <2>4. Listing'
    BY <2>1, <2>3 DEF Unregistering, Listing, Present
  <2> QED
    BY <2>1, <2>4 DEF Registering, Between, Unregistering, Phases
<1>4. CASE ListResult
  <2>1. /\ phase \in {"unregistered", "listing"} /\ phase' \in {"listing", "done"}
    BY <1>4 DEF ListResult
  <2>2. /\ \E l \in {"idle", "exited"} \cup LstSteps : pc' = [pc EXCEPT ![Main] = l]
        /\ UNCHANGED m_mapBTDevice
    <3>1. CASE Call(Main, "lst_lock", NULL)
      BY <3>1 DEF Call, Goto, heapVars, LstSteps
    <3>2. CASE ThreadExit(Main)
      BY <3>2 DEF ThreadExit, Goto, heapVars
    <3>3. CASE Step(Main)
      <4>1. LstLock(Main) \/ LstWalk(Main) \/ LstRelease(Main)
        BY <1>0, <2>1, <3>3, StepsOf DEF Listing
      <4> QED
        BY <4>1 DEF LstLock, Wait, LstWalk, LstRelease, ReleaseAndReturn, Return, Goto, heapVars,
                    LstSteps
    <3> QED
      BY <1>4, <3>1, <3>2, <3>3 DEF ListResult
  <2>3. Listing'
    BY <1>0, <2>1, <2>2 DEF Listing, Present, Registry, Typed, TypeOK
  <2> QED
    BY <2>1, <2>3 DEF Registering, Between, Unregistering, Phases
<1> QED
  BY <1>1, <1>2, <1>3, <1>4 DEF MainThread

LEMMA TestsHold ==
    ASSUME HasMutex, Registry, Tests, [TestNext]_vars
    PROVE  Tests'
<1>1. ASSUME up, NEW t \in Registrar, RegisterDeviceThreadFunc(t) PROVE Tests'
  <2>1. phase = "registering" /\ Worker(t, "reg_find") /\ phase' = phase
    BY <1>1 DEF RegisterDeviceThreadFunc, Worker
  <2>2. Registering'
    BY <1>1, <2>1, RegistrarSteps DEF Tests
  <2> QED
    BY <2>1, <2>2 DEF Tests, Between, Unregistering, Listing, Phases
<1>2. ASSUME up, NEW t \in Unregistrar, UnregisterDeviceThreadFunc(t) PROVE Tests'
  <2>1. phase = "unregistering" /\ Worker(t, "unr_lock") /\ phase' = phase
    BY <1>2 DEF UnregisterDeviceThreadFunc, Worker
  <2>2. Unregistering'
    BY <1>2, <2>1, UnregistrarSteps DEF Tests
  <2> QED
    BY <2>1, <2>2 DEF Tests, Registering, Between, Listing, Phases
<1>3. ASSUME up, MainThread PROVE Tests'
  BY <1>3, MainSteps DEF Tests
<1>4. ASSUME UNCHANGED vars PROVE Tests'
  BY <1>4 DEF vars, registryVars, localVars, heapVars, procVars, Tests, Registering, Between,
              Unregistering, Listing, Fresh, Busy, Done, Present
<1>5. ASSUME ~up, TestNext PROVE UNCHANGED vars
  <2>1. \A t \in Thread : /\ ~ThreadExit(t) /\ ~Step(t)
                         /\ \A l : \A a : ~Call(t, l, a)
    BY <1>5, StepsOf DEF Call, ThreadExit, At
  <2>2. ~MainThread
    BY <1>5, <2>1, WorkersAssumption
       DEF MainThread, JoinRegistrars, JoinUnregistrars, Join, ResumeUnregistrars, ListResult
  <2>3. \A t \in Registrar \cup Unregistrar : \A l : ~Worker(t, l)
    BY <2>1, WorkersAssumption DEF Worker
  <2> QED
    BY <1>5, <2>2, <2>3 DEF TestNext, RegisterDeviceThreadFunc, UnregisterDeviceThreadFunc
<1> QED
  BY <1>1, <1>2, <1>3, <1>4, <1>5 DEF TestNext

-----------------------------------------------------------------------------
(* The assertions of the two tests.                                         *)

LEMMA TestsStart == TestInit => Registry /\ Tests
<1> SUFFICES ASSUME TestInit PROVE Registry /\ Tests
  OBVIOUS
<1>1. /\ ManagerInit /\ phase = "registering" /\ called = {}
      /\ MutexInit \/ AfterFirstTests
  BY DEF TestInit
<1>2. Registry
  <2>1. Typed
    BY <1>1, NoThreadAssumption, WorkersAssumption
       DEF ManagerInit, Typed, TypeOK, MutexTypeOK, MutexInit, AfterFirstTests, Maps, EmptyMap,
           PcLabels, Faults
  <2>2. HeapInv
    BY <1>1, StartsSound
  <2>3. MutualExclusion
    BY <1>1 DEF ManagerInit, MutualExclusion, Locked
  <2> QED
    BY <2>1, <2>2, <2>3 DEF Registry
<1>3. (\A t \in Thread : pc[t] = "idle") /\ \A a \in Addr : ~Present(a)
  BY <1>1 DEF ManagerInit, EmptyMap, Present
<1> QED
  BY <1>1, <1>2, <1>3, WorkersAssumption
     DEF Tests, Phases, Registering, Between, Unregistering, Listing, Fresh, Done

LEMMA TestsCorrect == ASSUME HasMutex PROVE TestSpec => [](Registry /\ Tests)
<1>1. Registry /\ Tests /\ [TestNext]_vars => Registry' /\ Tests'
  BY HasMutex, RegistryHolds, TestsHold
<1> QED
  BY <1>1, TestsStart, PTL DEF TestSpec

\* However the threads of MTRegisterDevice are scheduled, and although every successful
\* registration returns with the mutex held, all their addresses are in the map when
\* they have ended (BTDeviceManager.cpp:380).
THEOREM EveryAddressRegistered == ASSUME HasMutex PROVE TestSpec => []AllRegistered
<1>1. ASSUME Registry, Tests, up, phase = "registered"
      PROVE  MapSize = Cardinality(Registrar)
  <2> DEFINE S == {a \in Addr : Present(a)}
             f == [t \in Registrar |-> Target(t)]
  <2>1. \A a \in Addr : Present(a) <=> \E t \in Registrar : Target(t) = a
    BY <1>1 DEF Tests, Between
  <2>2. f \in [Registrar -> S]
    BY <2>1, TargetsAssumption
  <2>3. f \in Bijection(Registrar, S)
    BY <2>1, <2>2, TargetsAssumption DEF Bijection, Injection, Surjection, IsInjective
  <2>4. ExistsBijection(Registrar, S)
    BY <2>3 DEF ExistsBijection
  <2>5. Cardinality(S) = Cardinality(Registrar)
    BY <2>4, FS_Bijection, TargetsAssumption
  <2> QED
    BY <2>5 DEF MapSize
<1>2. Registry /\ Tests => AllRegistered
  BY <1>1 DEF AllRegistered
<1> QED
  BY HasMutex, TestsCorrect, <1>2, PTL

\* However the threads of MTUnregisterDevice contend for the addresses, the map is empty
\* and no device is left on the heap when they have ended (BTDeviceManager.cpp:415).
THEOREM EveryDeviceUnregistered == ASSUME HasMutex PROVE TestSpec => []AllUnregistered
<1>1. ASSUME Registry, Tests, up, phase \in {"unregistered", "listing", "done"}
      PROVE  MapSize = 0 /\ live = {}
  <2>1. /\ \A a \in Addr : ~Present(a)
        /\ \A t \in Thread : pc[t] \notin Creating
    BY <1>1, WorkersAssumption DEF Tests, Listing, LstSteps, Creating
  <2>2. MapSize = 0
    <3>1. {a \in Addr : Present(a)} = {}
      BY <2>1
    <3> QED
      BY <3>1, FS_EmptySet DEF MapSize
  <2>3. live = {}
    <3>1. live \subseteq Ptr /\ Placed
      BY <1>1 DEF Registry, Typed, TypeOK, HeapInv
    <3> QED
      BY <2>1, <3>1, PtrAssumption DEF Placed, Linked, Owns, Present
  <2> QED
    BY <2>2, <2>3
<1>2. Registry /\ Tests => AllUnregistered
  BY <1>1 DEF AllUnregistered
<1> QED
  BY HasMutex, TestsCorrect, <1>2, PTL

=============================================================================
