--------------------------- MODULE DeviceManager ---------------------------
(***************************************************************************)
(* The monitor at work: the detector thread, which registers, updates and   *)
(* unregisters devices as inquiries find them (CBTDeviceMgrBTHandler, run   *)
(* inside CBlueTooth::RunDeviceInquiry), the manager thread, which walks    *)
(* the device map, starts a handler thread per device and reaps the ended   *)
(* ones (CBTDeviceManager::Run), and the handler threads                    *)
(* (CDevMgrBTHandlerThread::Run).  Detector and manager act on the one      *)
(* DeviceRegistry.                                                          *)
(*                                                                         *)
(* Addr is a set of numbers: the map is walked in the order of its keys.    *)
(***************************************************************************)
EXTENDS DeviceRegistry, HandlerStates, Sequences

CONSTANTS Det, Mgr,     \* the two threads that use the registry
          Handler,      \* bound: handler objects that exist at a time
          MaxFound      \* bound: devices the inquiries report

ASSUME ActorsAssumption == Thread = {Det, Mgr} /\ Det # Mgr
ASSUME KeysAssumption == Addr \subseteq Nat \ {0}
ASSUME HandlerAssumption == NULL \notin Handler /\ MaxFound \in Nat

VARIABLES
  m_pSockHandler,       \* CBTDevice::m_pSockHandler of every cell
  handler,              \* [Handler -> AllHandlerStates]
  dpc, paired, target,  \* the detector: what it does next, for which discovery
  found,                \* discoveries so far
  consult, seen,        \* GetDeviceConnStatus: a handler is to be asked; its answer
  mpc, mit, pDev, eraseList, \* the manager: step, iterator, device, devices to erase
  stayed                \* history: since its discovery the target has been
                        \* connected and the manager has erased nothing

detVars == <<dpc, paired, target, found, consult, seen>>
mgrVars == <<mpc, mit, pDev, eraseList>>
vars == <<registryVars, m_pSockHandler, handler, detVars, mgrVars, stayed>>

-----------------------------------------------------------------------------
(* Handler objects, in the states of HandlerStates; "free" ones are not      *)
(* allocated.  DeviceHandlerThread is what is inside.                        *)

AllHandlerStates == {"free", "exited"} \cup Running

HandlerRun(h) ==
    /\ up
    /\ \E to \in AllHandlerStates : /\ <<handler[h], to>> \in HandlerMoves
                                 /\ handler' = [handler EXCEPT ![h] = to]
    /\ UNCHANGED <<registryVars, m_pSockHandler, detVars, mgrVars>>

\* A handler no cell points to any more and whose thread has ended is leaked
\* for good: the model uses its name again.
Available == {h \in Handler : \/ handler[h] = "free"
                              \/ /\ handler[h] = "exited"
                                 /\ \A p \in Ptr : m_pSockHandler[p] # h}

StateOf(h) == IF h = NULL THEN "null" ELSE handler[h]

\* h->GetStatus() or h->GetStatusString(): both go through m_pSocket.
AskHandler(h) == IF StateOf(h) = "null" THEN Fault("null_deref")
                 ELSE IF StateOf(h) = "free" THEN Fault("use_after_free")
                 ELSE IF StateOf(h) = "started" THEN Fault("wild_pointer")
                 ELSE NoFault

\* What GetStatus tells; "other" stands for every status the caller does not
\* test for.  Garbage answers anything.
Answers == {"other", "CONNECTING", "CONNECTED"}
StatusOf(h) == IF StateOf(h) \in Answers THEN {StateOf(h)}
               ELSE IF StateOf(h) \in {"free", "started"} THEN Answers
               ELSE {"other"}

-----------------------------------------------------------------------------
(* The detector.  A step of the registry operation it is in; a CBTDevice is  *)
(* constructed with m_pSockHandler(NULL).                                    *)

HandlerAt(p) == IF p \in Ptr THEN m_pSockHandler[p] ELSE NULL

DetInsideCall ==
    /\ pc[Det] # "gcs_release" \/ ~consult
    /\ Step(Det)
    /\ m_pSockHandler' = [p \in Ptr |-> IF p \in live' \ live THEN NULL
                                        ELSE m_pSockHandler[p]]
    /\ consult' = IF pc[Det] = "gcs_deref" THEN HandlerAt(Index(arg[Det])) # NULL
                                           ELSE consult
    /\ UNCHANGED <<handler, dpc, paired, target, found, seen, mgrVars>>

\* status = m_mapBTDevice[deviceAddr]->m_pSockHandler->GetStatus()
DetConsult ==
    /\ At(Det, "gcs_release") /\ consult
    /\ LET p == Index(arg[Det]) IN
         /\ IndexInserts(arg[Det])
         /\ IF p = NULL THEN Fault("null_deref")
            ELSE IF p \in live THEN AskHandler(HandlerAt(p))
            ELSE Fault("use_after_free")
         /\ seen' \in StatusOf(HandlerAt(p))
    /\ consult' = FALSE
    /\ UNCHANGED <<mutexVars, live, fieldVars, localVars, m_pSockHandler, handler,
                   dpc, paired, target, found, mgrVars>>

\* Between two calls of the callback: make the next call, l, on the target.
DetCall(l, to) ==
    /\ Call(Det, l, target)
    /\ dpc' = to
    /\ seen' = "other"
    /\ UNCHANGED <<m_pSockHandler, handler, paired, target, found, consult, mgrVars>>

\* The inquiry calls OnDeviceDiscovered, which calls RegisterDevice.
OnDeviceDiscovered ==
    /\ dpc = "inquiry"
    /\ found < MaxFound
    /\ found' = found + 1
    /\ \E a \in Addr : target' = a /\ Call(Det, "reg_find", a)
    /\ paired' \in BOOLEAN
    /\ dpc' = "registered"
    /\ UNCHANGED <<m_pSockHandler, handler, consult, seen, mgrVars>>

RegisteringFailed == dpc = "registered" /\ ~ret[Det] /\ DetCall("upd_find", "updated")

Known == (dpc = "registered" /\ ret[Det]) \/ dpc = "updated"

\* paired && GetDeviceConnStatus(..) != CONNECTED && GetDeviceConnStatus(..)
\* != CONNECTING: two calls, each with its own answer.
CheckConnected  == Known /\ paired /\ DetCall("gcs_lock", "connected?")
\* Mutant of CheckConnecting: the first answer is ignored.
CheckConnectingAlways == dpc = "connected?" /\ DetCall("gcs_lock", "connecting?")
CheckConnecting == /\ dpc = "connected?" /\ seen # "CONNECTED"
                   /\ DetCall("gcs_lock", "connecting?")

Unpairs == At(Det, "idle") /\ dpc = "connecting?" /\ seen # "CONNECTING"

\* BluetoothRemoveDevice: the radio forgets the pairing.
BluetoothRemoveDevice ==
    /\ Unpairs
    /\ dpc' = "removed"
    /\ UNCHANGED <<registryVars, m_pSockHandler, handler, paired, target, found,
                   consult, seen, mgrVars>>

\* RunSearchServices: finds serial services and calls OnServiceDiscovered, or
\* returns false; or, run on a CBlueTooth without a handler (BlueTooth says
\* which), finds services and tells nobody.  Its end is the callback's.
Searches == \/ Known /\ ~paired
            \/ dpc = "connected?" /\ seen = "CONNECTED"
            \/ dpc = "connecting?" /\ seen = "CONNECTING"
            \/ dpc = "removed"
OnServiceDiscovered == Searches /\ DetCall("svc_find", "inquiry")
ServiceSearchFailed == Searches /\ DetCall("unr_lock", "inquiry")
ServicesUnreported ==
    /\ Searches /\ At(Det, "idle")
    /\ dpc' = "inquiry"
    /\ UNCHANGED <<registryVars, m_pSockHandler, handler, paired, target, found,
                   consult, seen, mgrVars>>

Detector ==
    \/ DetInsideCall \/ DetConsult
    \/ OnDeviceDiscovered \/ RegisteringFailed \/ CheckConnected \/ CheckConnecting
    \/ BluetoothRemoveDevice
    \/ OnServiceDiscovered \/ ServiceSearchFailed \/ ServicesUnreported

-----------------------------------------------------------------------------
(* The manager.                                                             *)

MgrAt(l) == up /\ pc[Mgr] = "idle" /\ mpc = l
MgrGoto(l) == mpc' = l

\* The iterator's next key: 0 is end().  (Keys are positive.)
KeysAfter(k) == {a \in Addr : Present(a) /\ a > k}
NextKey(k) == IF KeysAfter(k) = {} THEN 0
              ELSE CHOOSE a \in KeysAfter(k) : \A b \in KeysAfter(k) : a <= b

\* One pass begins: wait for the mutex, then begin().
MgrLock ==
    /\ MgrAt("sleeping")
    /\ WaitForMutex(Mgr)
    /\ mit' = NextKey(0)
    /\ MgrGoto("walk")
    /\ UNCHANGED <<heapVars, localVars, procVars, m_pSockHandler, handler,
                   detVars, pDev, eraseList>>

\* mit->second; an entry erased under the iterator is freed memory.
MgrFetch ==
    /\ MgrAt("walk") /\ mit # 0
    /\ IF Present(mit) THEN NoFault ELSE Fault("use_after_free")
    /\ IF m_mapBTDevice[mit] \in Ptr
       THEN pDev' = m_mapBTDevice[mit] /\ MgrGoto("visit")
       ELSE pDev' = NULL /\ MgrGoto("advance")
    /\ UNCHANGED <<mutexVars, heapVars, localVars, m_pSockHandler, handler,
                   detVars, mit, eraseList>>

MgrStep(from) ==
    /\ MgrAt(from)
    /\ Deref(pDev)
    /\ UNCHANGED <<mutexVars, heapVars, localVars, detVars, mit, pDev>>

\* Mutants of MgrVisit: a handler is never found dead; services are not looked at.
MgrVisitAs(next(_)) ==
    /\ MgrAt("visit")
    /\ LET h == m_pSockHandler[pDev] IN
         /\ IF pDev \notin live \/ StateOf(h) = "free" THEN Fault("use_after_free")
                                                      ELSE NoFault
         /\ MgrGoto(next(h))
    /\ UNCHANGED <<mutexVars, heapVars, localVars, m_pSockHandler, handler,
                   detVars, mit, pDev, eraseList>>
MgrVisitNeverReaps ==
    LET next(h) == IF h # NULL THEN "print"
                   ELSE IF m_listService[pDev] THEN "connect" ELSE "advance"
    IN  MgrVisitAs(next)
MgrVisitNeverConnects ==
    LET next(h) == IF h = NULL THEN "advance"
                   ELSE IF StateOf(h) \in Running THEN "print" ELSE "reap"
    IN  MgrVisitAs(next)

\* if(pDev->m_pSockHandler == NULL) .. else if(..->IsAlive()) .. else
MgrVisit ==
    /\ MgrAt("visit")
    /\ LET h == m_pSockHandler[pDev] IN
         /\ IF pDev \notin live \/ StateOf(h) = "free" THEN Fault("use_after_free")
                                                      ELSE NoFault
         /\ MgrGoto(IF h = NULL THEN IF m_listService[pDev] THEN "connect" ELSE "advance"
                    ELSE IF StateOf(h) \in Running THEN "print"
                    ELSE "reap")
    /\ UNCHANGED <<mutexVars, heapVars, localVars, m_pSockHandler, handler,
                   detVars, mit, pDev, eraseList>>

\* new CDevMgrBTHandlerThread(...) and Start(), as one step: nobody but the
\* manager starts a handler or looks whether it is alive.  At the bound on
\* handlers the device waits for a later pass.
MgrConnect ==
    /\ MgrStep("connect")
    /\ MgrGoto("advance")
    /\ IF Available = {} THEN UNCHANGED <<m_pSockHandler, handler>>
       ELSE \E h \in Available :
              /\ m_pSockHandler' = [m_pSockHandler EXCEPT ![pDev] = h]
              /\ handler' = [handler EXCEPT ![h] = "started"]
    /\ UNCHANGED eraseList

\* pDev->m_pSockHandler->GetStatusString()
MgrPrint ==
    /\ MgrAt("print")
    /\ IF pDev \in live THEN AskHandler(m_pSockHandler[pDev])
                        ELSE Fault("use_after_free")
    /\ MgrGoto("advance")
    /\ UNCHANGED <<mutexVars, heapVars, localVars, m_pSockHandler, handler,
                   detVars, mit, pDev, eraseList>>

\* delete pDev->m_pSockHandler
MgrReap ==
    /\ MgrAt("reap")
    /\ IF pDev \notin live THEN Fault("use_after_free")
       ELSE IF StateOf(m_pSockHandler[pDev]) = "free" THEN Fault("double_free")
       ELSE NoFault
    /\ handler' = [h \in Handler |-> IF h = m_pSockHandler[pDev] THEN "free"
                                     ELSE handler[h]]
    /\ MgrGoto("forget")
    /\ UNCHANGED <<mutexVars, heapVars, localVars, m_pSockHandler, detVars,
                   mit, pDev, eraseList>>

\* Mutant of MgrForget: the pointer to the deleted handler stays.
MgrForgetKeepsPointer ==
    /\ MgrStep("forget")
    /\ eraseList' = Append(eraseList, pDev)
    /\ MgrGoto("advance")
    /\ UNCHANGED <<m_pSockHandler, handler>>

\* pDev->m_pSockHandler = NULL; eraseList.push_back(pDev)
MgrForget ==
    /\ MgrStep("forget")
    /\ m_pSockHandler' = [m_pSockHandler EXCEPT ![pDev] = NULL]
    /\ eraseList' = Append(eraseList, pDev)
    /\ MgrGoto("advance")
    /\ UNCHANGED handler

\* mit++.  Beside the detector's insertion it may pass over entries; beside an
\* erase() it may read the freed node, as a search may.  (An entry erased and
\* inserted again counts as the one the iterator was at.)
MgrAdvance ==
    /\ MgrAt("advance")
    /\ IF Present(mit) THEN FindFault(Mgr) ELSE Fault("use_after_free")
    /\ mit' \in IF Racing(Mgr) THEN KeysAfter(mit) \cup {0} ELSE {NextKey(mit)}
    /\ pDev' = NULL
    /\ MgrGoto("walk")
    /\ UNCHANGED <<mutexVars, heapVars, localVars, m_pSockHandler, handler,
                   detVars, eraseList>>

\* UnregisterDevice(*vit)
MgrErase ==
    /\ MgrAt("walk") /\ mit = 0 /\ eraseList # <<>>
    /\ pc' = [pc EXCEPT ![Mgr] = "unp_find"]
    /\ obj' = [obj EXCEPT ![Mgr] = Head(eraseList)]
    /\ eraseList' = Tail(eraseList)
    /\ UNCHANGED <<mutexVars, heapVars, arg, snap, ret, procVars, m_pSockHandler,
                   handler, detVars, mpc, mit, pDev>>

MgrInsideCall ==
    /\ Step(Mgr) \/ UnpFind(Mgr) \/ UnpCall(Mgr)
    /\ UNCHANGED <<m_pSockHandler, handler, detVars, mgrVars>>

\* ReleaseMutex and Sleep.
MgrRelease ==
    /\ MgrAt("walk") /\ mit = 0 /\ eraseList = <<>>
    /\ ReleaseMutex(Mgr)
    /\ MgrGoto("sleeping")
    /\ UNCHANGED <<heapVars, localVars, procVars, m_pSockHandler, handler,
                   detVars, mit, pDev, eraseList>>

Manager ==
    \/ MgrLock \/ MgrFetch \/ MgrVisit \/ MgrConnect \/ MgrPrint
    \/ MgrReap \/ MgrForget \/ MgrAdvance \/ MgrErase \/ MgrInsideCall \/ MgrRelease

-----------------------------------------------------------------------------
\* The device registered under the target has a connected handler.
TargetConnected ==
    /\ m_mapBTDevice[target] \in Ptr
    /\ HandlerAt(m_mapBTDevice[target]) # NULL
    /\ handler[HandlerAt(m_mapBTDevice[target])] = "CONNECTED"

MonitorInit ==
    /\ RegistryInit
    /\ m_pSockHandler = [p \in Ptr |-> NULL]
    /\ handler = [h \in Handler |-> "free"]
    /\ dpc = "inquiry" /\ paired = FALSE /\ target \in Addr /\ found = 0
    /\ consult = FALSE /\ seen = "other"
    /\ mpc = "sleeping" /\ mit = 0 /\ pDev = NULL /\ eraseList = <<>>
    /\ stayed = FALSE

Remember == stayed' = /\ dpc = "inquiry" \/ stayed
                      /\ TargetConnected'
                      /\ pc'[Mgr] \notin Relinking

DetectorThread == Detector /\ Remember
ManagerThread == Manager /\ Remember
HandlerThread(h) == HandlerRun(h) /\ Remember

MonitorNext == \/ DetectorThread
               \/ ManagerThread
               \/ \E h \in Handler : HandlerThread(h)
               \/ ~up /\ UNCHANGED vars

MonitorSpec == MonitorInit /\ [][MonitorNext]_vars

\* The scheduler runs every thread that can run; a handler's Connect gives up
\* after its retries, but nothing makes a connected peer speak or leave.
FairMonitorSpec ==
    /\ MonitorSpec
    /\ WF_vars(DetectorThread)
    /\ WF_vars(ManagerThread)
    /\ \A h \in Handler : WF_vars(handler[h] # "CONNECTED" /\ HandlerThread(h))

-----------------------------------------------------------------------------
MonitorTypeOK ==
    /\ TypeOK
    /\ m_pSockHandler \in [Ptr -> Handler \cup {NULL}]
    /\ handler \in [Handler -> AllHandlerStates]
    /\ paired \in BOOLEAN /\ target \in Addr /\ found \in 0..MaxFound
    /\ consult \in BOOLEAN /\ seen \in Answers
    /\ mit \in Addr \cup {0} /\ pDev \in Ptr \cup {NULL}
    /\ eraseList \in Seq(Ptr)
    /\ stayed \in BOOLEAN

\* Whatever the detector frees or reuses under the manager's feet, the handler
\* a registered device points to is one the manager has not deleted, and no
\* two devices point to the same one.  A handler that runs without a device is
\* the orphan of a failed search (BTDeviceManager.cpp:43-45), each of its own:
\* one discovery brought the services it was started for, another one failed.
Orphans == {h \in Handler : /\ handler[h] \in Running
                            /\ \A p \in live : m_pSockHandler[p] # h}
PointersSound ==
    \A p \in live :
      m_pSockHandler[p] # NULL =>
        /\ handler[m_pSockHandler[p]] = "free" => mpc = "forget"
        /\ \A q \in live \ {p} : m_pSockHandler[q] # m_pSockHandler[p]
HandlersSound == PointersSound /\ (up => 2 * Cardinality(Orphans) <= found)

\* A paired device that has been connected ever since the inquiry reported it
\* is not un-paired (BTDeviceManager.cpp:31-40), whatever the two threads have
\* done to the heap -- as long as the manager was not erasing an entry
\* meanwhile: the search for the device's status may miss it then.
ConnectedKeepsPairing == Unpairs => ~stayed

HandlerOf(a) == IF m_mapBTDevice[a] \in Ptr THEN HandlerAt(m_mapBTDevice[a]) ELSE NULL

\* A registered device whose handler thread has ended does not stay in the map
\* with it: a later pass of the manager deletes the handler and the device
\* (BTDeviceManager.cpp:174-190), or the process has met its end.
EndedHandlerIsReaped ==
    \A a \in Addr, h \in Handler :
      HandlerOf(a) = h /\ handler[h] = "exited" ~> HandlerOf(a) # h \/ ~up

\* A registered device with a serial service does not wait for ever for its
\* handler thread (BTDeviceManager.cpp:165-170): it gets one, is unregistered,
\* or the handlers are exhausted by connections that last.
Awaits(a) == /\ m_mapBTDevice[a] \in live
             /\ m_listService[m_mapBTDevice[a]]
             /\ HandlerOf(a) = NULL
ServicesGetAHandler ==
    \A a \in Addr : Awaits(a) ~> ~Awaits(a) \/ ~up \/ Available = {}

=============================================================================
