----------------------------- MODULE BlueTooth -----------------------------
(***************************************************************************)
(* CBlueTooth and the detector thread that drives it: CBTDeviceDetector's   *)
(* loop, RunDeviceInquiry, its callback OnDeviceDiscovered and, inside that *)
(* callback, RunSearchServices.  The manager's thread joins in only to      *)
(* register the callback's object, through the same unprotected singleton.  *)
(*                                                                         *)
(* The registry is seen from here as three states of an address: absent,    *)
(* registered, or served (its services are known); DeviceManager has what   *)
(* is inside.  Descriptors and lookup handles are counted, because not all  *)
(* of them are given back.                                                  *)
(***************************************************************************)
EXTENDS Naturals, FiniteSets

CONSTANTS Addr,          \* Bluetooth addresses
          HasSerial,     \* those that offer a serial service
          MaxSockets,    \* descriptors the process may have open
          MaxFailures    \* bound: calls into Winsock that fail for no reason

ASSUME WorldAssumption == HasSerial \subseteq Addr
ASSUME LimitsAssumption == MaxSockets \in Nat /\ MaxFailures \in Nat

VARIABLES
  m_instance,            \* CBlueTooth::m_instance; 0 is NULL
  made,                  \* CBlueTooth objects constructed
  m_pHandler,            \* per object: the callback is registered
  m_hDeviceLookup,       \* per object: not NULL
  m_bBluetoothStackPresent, \* per object
  mpc,                   \* the manager's thread: "get", "new", "register", "done"
  dpc,                   \* the detector's thread
  inquirer, inquiry,     \* RunDeviceInquiry: this; devices not yet returned
  searcher, search,      \* RunSearchServices: this; devices not yet returned
  target, serial,        \* the device discovered; serviceList is not empty
  sockets, lookups,      \* open descriptors; open lookup handles
  failures,              \* calls that have failed so
  inRange,               \* the devices that answer
  registry,              \* per address: "absent", "registered", "served"
  undisturbed            \* history: since its discovery the target has been in
                         \* range, no call has failed, and a descriptor was left

singletonVars == <<m_instance, made>>
memberVars == <<m_pHandler, m_hDeviceLookup, m_bBluetoothStackPresent>>
inquiryVars == <<inquirer, inquiry, target>>
searchVars == <<searcher, search, serial>>
handleVars == <<sockets, lookups>>
worldVars == <<inRange, registry>>
vars == <<singletonVars, memberVars, mpc, dpc, inquiryVars, searchVars,
          handleVars, failures, worldVars, undisturbed>>

Instance == 1 .. 2       \* each of the two threads constructs one at most

DGoto(l) == dpc' = l

\* Something in Winsock fails.
Fails == failures < MaxFailures /\ failures' = failures + 1
Works == UNCHANGED failures

-----------------------------------------------------------------------------
(* GetInstance(): test, construct and assign are not one step.              *)

Construct == made' = made + 1 /\ m_instance' = made'

MgrGet == /\ mpc = "get"
          /\ mpc' = IF m_instance = 0 THEN "new" ELSE "register"
          /\ UNCHANGED singletonVars
MgrNew == mpc = "new" /\ Construct /\ mpc' = "register"

\* DEF_BTDEVICE->RegisterHandler(DEF_BTDEV_HANDLER)
MgrRegister == /\ mpc = "register"
               /\ m_pHandler' = [m_pHandler EXCEPT ![m_instance] = TRUE]
               /\ mpc' = "done"

Manager ==
    /\ \/ (MgrGet \/ MgrNew) /\ UNCHANGED m_pHandler
       \/ MgrRegister /\ UNCHANGED singletonVars
    /\ UNCHANGED <<m_hDeviceLookup, m_bBluetoothStackPresent, dpc, inquiryVars,
                   searchVars, handleVars, failures, worldVars>>

DetGet ==
    /\ dpc = "get"
    /\ DGoto(IF m_instance = 0 THEN "new" ELSE "status")
    /\ UNCHANGED <<singletonVars, memberVars, inquiryVars, searchVars, handleVars,
                   failures, worldVars>>

DetNew ==
    /\ dpc = "new" /\ Construct /\ DGoto("status")
    /\ UNCHANGED <<memberVars, inquiryVars, searchVars, handleVars, failures, worldVars>>

-----------------------------------------------------------------------------
(* The detector's loop.                                                     *)

\* InitializationStatus(): looks for the stack, with a socket of its own, until
\* it has been seen once; without it, the detector sleeps.
InitializationStatus ==
    /\ dpc = "status"
    /\ \/ /\ m_bBluetoothStackPresent[m_instance] \/ sockets < MaxSockets
          /\ m_bBluetoothStackPresent' =
               [m_bBluetoothStackPresent EXCEPT ![m_instance] = TRUE]
          /\ DGoto("register") /\ Works
       \/ /\ ~m_bBluetoothStackPresent[m_instance]
          /\ Fails \/ (sockets = MaxSockets /\ Works)
          /\ DGoto("get") /\ UNCHANGED m_bBluetoothStackPresent
    /\ UNCHANGED <<singletonVars, m_pHandler, m_hDeviceLookup, inquiryVars,
                   searchVars, handleVars, worldVars>>

RegisterHandler ==
    /\ dpc = "register"
    /\ m_pHandler' = [m_pHandler EXCEPT ![m_instance] = TRUE]
    /\ DGoto("inquire")
    /\ UNCHANGED <<singletonVars, m_hDeviceLookup, m_bBluetoothStackPresent,
                   inquiryVars, searchVars, handleVars, failures, worldVars>>

\* RunDeviceInquiry, up to WSALookupServiceBegin: INQUIRY_ERROR when an inquiry
\* of the same object is under way, or when it fails.
InquiryBegin ==
    /\ dpc = "inquire"
    /\ inquirer' = m_instance
    /\ \/ /\ ~m_hDeviceLookup[m_instance]
          /\ m_hDeviceLookup' = [m_hDeviceLookup EXCEPT ![m_instance] = TRUE]
          /\ lookups' = lookups + 1
          /\ inquiry' = inRange
          /\ DGoto("next") /\ Works
       \/ /\ IF m_hDeviceLookup[m_instance] THEN Works ELSE Fails
          /\ DGoto("get")
          /\ UNCHANGED <<m_hDeviceLookup, lookups, inquiry>>
    /\ UNCHANGED <<singletonVars, m_pHandler, m_bBluetoothStackPresent, target,
                   searchVars, sockets, worldVars>>

\* WSALookupServiceNext returns a device: the callback, if there is one.
InquiryNext ==
    /\ dpc = "next"
    /\ \E a \in inquiry : target' = a /\ inquiry' = inquiry \ {a}
    /\ DGoto(IF m_pHandler[inquirer] THEN "discovered" ELSE "next")
    /\ UNCHANGED <<singletonVars, memberVars, inquirer, searchVars, handleVars,
                   failures, worldVars>>

InquiryEndKeepsHandle ==
    /\ dpc = "next"
    /\ \/ Fails /\ UNCHANGED <<m_hDeviceLookup, lookups>>
       \/ /\ inquiry = {} /\ Works /\ lookups' = lookups - 1
          /\ m_hDeviceLookup' = [m_hDeviceLookup EXCEPT ![inquirer] = FALSE]
    /\ inquiry' = {}
    /\ DGoto("get")
    /\ UNCHANGED <<singletonVars, m_pHandler, m_bBluetoothStackPresent, inquirer,
                   target, searchVars, sockets, worldVars>>

\* No more devices, or an error: the handle is closed either way.
InquiryEnd ==
    /\ dpc = "next"
    /\ Fails \/ (inquiry = {} /\ Works)
    /\ m_hDeviceLookup' = [m_hDeviceLookup EXCEPT ![inquirer] = FALSE]
    /\ lookups' = lookups - 1
    /\ inquiry' = {}
    /\ DGoto("get")
    /\ UNCHANGED <<singletonVars, m_pHandler, m_bBluetoothStackPresent, inquirer,
                   target, searchVars, sockets, worldVars>>

\* OnDeviceDiscovered: registers the device if need be, then searches.
OnDeviceDiscovered ==
    /\ dpc = "discovered"
    /\ registry' = [registry EXCEPT ![target] = IF @ = "absent" THEN "registered" ELSE @]
    /\ searcher' = m_instance /\ serial' = FALSE
    /\ DGoto("socket")
    /\ UNCHANGED <<singletonVars, memberVars, inquiryVars, search, handleVars,
                   failures, inRange>>

Detector == \/ DetGet \/ DetNew \/ InitializationStatus \/ RegisterHandler
            \/ InquiryBegin \/ InquiryNext \/ InquiryEnd \/ OnDeviceDiscovered

-----------------------------------------------------------------------------
(* RunSearchServices.  "search_error" is the label of the code, where every  *)
(* search ends.                                                             *)

\* socket() and getsockopt(); nothing ever closes the socket.
SearchSocket ==
    /\ dpc = "socket"
    /\ \/ sockets < MaxSockets /\ sockets' = sockets + 1 /\ Works /\ DGoto("begin")
       \/ sockets < MaxSockets /\ sockets' = sockets + 1 /\ Fails /\ DGoto("search_error")
       \/ /\ Fails \/ (sockets = MaxSockets /\ Works)
          /\ UNCHANGED sockets /\ DGoto("search_error")
    /\ UNCHANGED search /\ UNCHANGED serial /\ UNCHANGED lookups

\* WSALookupServiceBegin(.., &hLookup)
SearchBegin ==
    /\ dpc = "begin"
    /\ \/ Works /\ lookups' = lookups + 1 /\ search' = inRange /\ DGoto("walk")
       \/ Fails /\ UNCHANGED <<lookups, search>> /\ DGoto("search_error")
    /\ UNCHANGED <<serial, sockets>>

SearchNextTakesFirst ==
    /\ dpc = "walk"
    /\ \/ /\ \E a \in search :
              DGoto(IF a = target THEN "services" ELSE "search_error")
          /\ Works
       \/ /\ Fails \/ (search = {} /\ Works)
          /\ DGoto("search_error")
    /\ search' = {}
    /\ UNCHANGED <<serial, handleVars>>

\* WSALookupServiceNext(hLookup): another device, the target, or no more of
\* them, which is an error and leaves hLookup open.
SearchNext ==
    /\ dpc = "walk"
    /\ \/ /\ \E a \in search : /\ search' = search \ {a}
                               /\ DGoto(IF a = target THEN "services" ELSE "walk")
          /\ Works
       \/ /\ Fails \/ (search = {} /\ Works)
          /\ search' = {}
          /\ DGoto("search_error")
    /\ UNCHANGED <<serial, handleVars>>

ServicesBeginClosesAnyway ==
    /\ dpc = "services"
    /\ \/ target \in inRange /\ Works /\ lookups' = lookups + 1 /\ DGoto("records")
       \/ /\ Fails \/ (target \notin inRange /\ Works)
          /\ lookups' = lookups - 1 /\ DGoto("close")
    /\ UNCHANGED <<search, serial, sockets>>

\* WSALookupServiceBegin(.., &hLookup2): fails for a device that has gone.  The
\* loop over the devices ends here in any case: result is not 0 afterwards.
ServicesBegin ==
    /\ dpc = "services"
    /\ \/ target \in inRange /\ Works /\ lookups' = lookups + 1 /\ DGoto("records")
       \/ /\ Fails \/ (target \notin inRange /\ Works)
          /\ UNCHANGED lookups /\ DGoto("close")
    /\ UNCHANGED <<search, serial, sockets>>

ServicesNextKeepsHandle ==
    /\ dpc = "records"
    /\ \/ /\ ~serial /\ target \in HasSerial \cap inRange
          /\ serial' = TRUE /\ Works /\ UNCHANGED dpc
       \/ /\ Fails \/ (Works /\ (serial \/ target \notin HasSerial \cap inRange))
          /\ UNCHANGED serial /\ DGoto("close")
    /\ UNCHANGED <<search, sockets, lookups>>

\* The loop over the device's services, which keeps the serial ones; then
\* WSALookupServiceEnd(hLookup2).
ServicesNext ==
    /\ dpc = "records"
    /\ \/ /\ ~serial /\ target \in HasSerial \cap inRange
          /\ serial' = TRUE /\ Works
          /\ UNCHANGED <<lookups, dpc>>
       \/ /\ Fails \/ (Works /\ (serial \/ target \notin HasSerial \cap inRange))
          /\ UNCHANGED serial
          /\ lookups' = lookups - 1
          /\ DGoto("close")
    /\ UNCHANGED <<search, sockets>>

\* WSALookupServiceEnd(hLookup): the next line is search_error either way.  Here
\* and elsewhere the handle counts as closed, since no caller acts on a failure.
SearchClose ==
    /\ dpc = "close"
    /\ lookups' = lookups - 1
    /\ search' = {}
    /\ DGoto("search_error") /\ Works
    /\ UNCHANGED <<serial, sockets>>

Search ==
    /\ \/ SearchSocket \/ SearchBegin \/ SearchNext
       \/ ServicesBegin \/ ServicesNext \/ SearchClose
    /\ UNCHANGED <<singletonVars, memberVars, mpc, inquiryVars, searcher, worldVars>>

\* search_error: report the services, if any; without any, the result is false
\* and OnDeviceDiscovered unregisters the device.
SearchEnd ==
    /\ dpc = "search_error"
    /\ registry' = [registry EXCEPT ![target] =
         IF ~serial THEN "absent"
         ELSE IF m_pHandler[searcher] /\ @ # "absent" THEN "served" ELSE @]
    /\ serial' = FALSE
    /\ DGoto("next")
    /\ UNCHANGED <<singletonVars, memberVars, mpc, inquiryVars, searcher, search,
                   handleVars, failures, inRange>>

DetectorThread == (Detector /\ UNCHANGED mpc) \/ Search \/ SearchEnd

-----------------------------------------------------------------------------
\* A device comes or goes.
Moves(a) == /\ inRange' = (inRange \ {a}) \cup ({a} \ inRange)
            /\ UNCHANGED <<singletonVars, memberVars, mpc, dpc, inquiryVars,
                           searchVars, handleVars, failures, registry>>

\* The manager reaps the device's handler and unregisters it.
Reaped(a) == /\ registry[a] = "served"
             /\ registry' = [registry EXCEPT ![a] = "absent"]
             /\ UNCHANGED <<singletonVars, memberVars, mpc, dpc, inquiryVars,
                            searchVars, handleVars, failures, inRange>>

Init ==
    /\ m_instance = 0 /\ made = 0
    /\ m_pHandler = [i \in Instance |-> FALSE]
    /\ m_hDeviceLookup = [i \in Instance |-> FALSE]
    /\ m_bBluetoothStackPresent = [i \in Instance |-> FALSE]
    /\ mpc = "get" /\ dpc = "get"
    /\ inquirer = 0 /\ inquiry = {} /\ target \in Addr
    /\ searcher = 0 /\ search = {} /\ serial = FALSE
    /\ sockets = 0 /\ lookups = 0 /\ failures = 0
    /\ inRange \in SUBSET Addr
    /\ registry = [a \in Addr |-> "absent"]
    /\ undisturbed = FALSE

Remember ==
    undisturbed' = IF dpc = "discovered" /\ dpc' = "socket"
                   THEN target \in inRange /\ sockets < MaxSockets
                   ELSE undisturbed /\ target \in inRange' /\ failures' = failures

DetectorStep == DetectorThread /\ Remember
ManagerStep == Manager /\ Remember

Next == \/ DetectorStep
        \/ ManagerStep
        \/ \E a \in Addr : (Moves(a) \/ Reaped(a)) /\ Remember

\* The scheduler runs both threads; devices and their owners do as they like.
Spec == Init /\ [][Next]_vars /\ WF_vars(DetectorStep) /\ WF_vars(ManagerStep)

-----------------------------------------------------------------------------
TypeOK ==
    /\ made \in 0 .. 2 /\ m_instance \in 0 .. made
    /\ m_pHandler \in [Instance -> BOOLEAN]
    /\ m_hDeviceLookup \in [Instance -> BOOLEAN]
    /\ m_bBluetoothStackPresent \in [Instance -> BOOLEAN]
    /\ mpc \in {"get", "new", "register", "done"}
    /\ dpc \in {"get", "new", "status", "register", "inquire", "next", "discovered",
                "socket", "begin", "walk", "services", "records", "close", "search_error"}
    /\ inquirer \in 0 .. made /\ searcher \in 0 .. made
    /\ inquiry \subseteq Addr /\ search \subseteq Addr /\ inRange \subseteq Addr
    /\ target \in Addr /\ serial \in BOOLEAN
    /\ sockets \in 0 .. MaxSockets /\ lookups \in Nat
    /\ failures \in 0 .. MaxFailures
    /\ registry \in [Addr -> {"absent", "registered", "served"}]
    /\ undisturbed \in BOOLEAN

\* The guard against a second inquiry never turns the detector away: every way
\* out of an inquiry leaves m_hDeviceLookup NULL, whichever object it ran on
\* (BlueTooth.cpp:288-291, 326-343, 380-383).
GuardNeverRejects == dpc = "inquire" => ~m_hDeviceLookup[m_instance]

\* A search, whatever fails in it, leaves behind no more than one lookup handle
\* and one socket: what is open beyond the inquiry's handle and the handle on
\* the services is no more than the sockets (BlueTooth.cpp:441-641).
InUse == Cardinality({i \in Instance : m_hDeviceLookup[i]})
           + (IF dpc = "records" THEN 1 ELSE 0)
LeaksBounded == lookups <= sockets + InUse

\* A registered device with a serial service that has been in range all through
\* its search is served after it: found among the other devices and reported --
\* unless a call failed, no descriptor was left, or the search ran on a second
\* CBlueTooth the manager's thread has constructed and not yet given the
\* callback (BlueTooth.cpp:503-661, BlueTooth.h:129-134).
SecondObject == made = 2 /\ mpc = "register"
DiscoveredIsServed ==
    [][dpc = "search_error" /\ dpc' # dpc /\ undisturbed /\ target \in HasSerial
         /\ registry[target] # "absent"
       => registry'[target] = "served" \/ SecondObject]_vars

\* The detector never stops to inquire, whatever fails and however many sockets
\* the searches have left open -- unless a second CBlueTooth comes too late to
\* find a descriptor for its look at the stack
\* (BTDeviceDetector.cpp:30-43, BlueTooth.cpp:122-178, 288-343).
TooLate == /\ m_instance # 0 /\ ~m_bBluetoothStackPresent[m_instance]
           /\ sockets = MaxSockets
KeepsInquiring == []<>(dpc = "next" \/ TooLate)

=============================================================================
