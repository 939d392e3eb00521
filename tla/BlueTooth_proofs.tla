-------------------------- MODULE BlueTooth_proofs --------------------------
(***************************************************************************)
(* Proofs about the inquiry and the service searches, for any devices and   *)
(* any number of sockets and failures.                                      *)
(***************************************************************************)
EXTENDS BlueTooth, TLAPS, FiniteSetTheorems

Searching == {"socket", "begin", "walk", "services", "records", "close", "search_error"}
Inquiring == {"next", "discovered"} \cup Searching

\* How many objects the two threads have constructed: a thread constructs one if it
\* found none, the manager's thread at most once.
Objects ==
    /\ m_instance = made /\ made \in 0 .. 2
    /\ mpc = "new" \/ dpc = "new" => made <= 1
    /\ mpc \in {"get", "new"} /\ dpc = "new" => made = 0
    /\ mpc \in {"register", "done"} \/ dpc \notin {"get", "new"} => made >= 1

\* The inquiry's handle is that of the object it runs on, and there is none outside.
Lookups ==
    /\ dpc \in Inquiring => inquirer \in 1 .. made
    /\ \A i \in Instance : m_hDeviceLookup[i] <=> dpc \in Inquiring /\ i = inquirer

\* Open lookup handles: those still to be closed at least; beyond these one per
\* socket at most, and the socket at "begin" has not led to one yet.
Handles ==
    /\ dpc \in Inquiring => lookups >= 1
    /\ dpc \in {"walk", "services", "close"} => lookups >= 2
    /\ dpc = "records" => lookups >= 3
    /\ dpc \notin Inquiring => lookups <= sockets
    /\ dpc \in Inquiring \ {"begin", "records"} => lookups <= sockets + 1
    /\ dpc = "begin" => lookups <= sockets
    /\ dpc = "records" => lookups <= sockets + 2

\* The object of a search has the callback, unless it is a second one that the
\* manager's thread is about to give it.
Second == made = 2 /\ mpc = "register"
Callbacks ==
    /\ dpc \in {"inquire"} \cup Inquiring => m_pHandler[m_instance] \/ Second
    /\ dpc \in Searching => /\ searcher \in 1 .. made
                            /\ m_pHandler[searcher] \/ (Second /\ searcher = 2)
    /\ dpc \notin Searching => serial = FALSE

\* While nothing disturbs it, a search comes nearer to its end: the target is still
\* to be met, its serial service to be found.
Undisturbed ==
    undisturbed /\ dpc \in Searching =>
      /\ target \in inRange
      /\ dpc = "socket" => sockets < MaxSockets
      /\ dpc = "walk" => target \in search
      /\ dpc \in {"close", "search_error"} => serial \/ target \notin HasSerial

SearchInv == TypeOK /\ Objects /\ Lookups /\ Handles /\ Callbacks /\ Undisturbed

\* What every step of the manager's thread, and every step of a search, leaves alone.
ManagerFrame == UNCHANGED <<m_hDeviceLookup, m_bBluetoothStackPresent, dpc, inquiryVars,
                            searchVars, handleVars, failures, worldVars>>
SearchFrame == UNCHANGED <<singletonVars, memberVars, mpc, inquiryVars, searcher, worldVars>>

USE DEF Instance, singletonVars, memberVars, inquiryVars, searchVars, handleVars, worldVars

-----------------------------------------------------------------------------
(* The manager's thread.                                                   *)

LEMMA MgrGetKeeps ==
    ASSUME SearchInv, MgrGet, UNCHANGED m_pHandler, ManagerFrame, Remember
    PROVE  SearchInv'
<1>1. TypeOK'
  <2>1. undisturbed' \in BOOLEAN /\ serial' \in BOOLEAN
    BY Zenon DEF SearchInv, TypeOK, Remember, MgrGet, ManagerFrame
  <2>. QED BY <2>1 DEF SearchInv, TypeOK, MgrGet, ManagerFrame
<1>2. Objects'
  BY DEF SearchInv, TypeOK, Objects, MgrGet, ManagerFrame
<1>3. Lookups'
  BY DEF SearchInv, TypeOK, Objects, Lookups, Inquiring, Searching, MgrGet, ManagerFrame
<1>4. Handles'
  BY DEF SearchInv, TypeOK, Handles, Inquiring, Searching, MgrGet, ManagerFrame
<1>5. Callbacks'
  BY DEF SearchInv, TypeOK, Objects, Lookups, Callbacks, Second, Inquiring, Searching,
       MgrGet, ManagerFrame
<1>6. Undisturbed'
  BY DEF SearchInv, TypeOK, Undisturbed, Searching, Remember, MgrGet, ManagerFrame
<1>. QED BY <1>1, <1>2, <1>3, <1>4, <1>5, <1>6 DEF SearchInv

LEMMA MgrNewKeeps ==
    ASSUME SearchInv, MgrNew, UNCHANGED m_pHandler, ManagerFrame, Remember
    PROVE  SearchInv'
<1>1. TypeOK'
  <2>1. undisturbed' \in BOOLEAN /\ serial' \in BOOLEAN
    BY Zenon DEF SearchInv, TypeOK, Remember, MgrNew, Construct, ManagerFrame
  <2>. QED BY <2>1 DEF SearchInv, TypeOK, Objects, MgrNew, Construct, ManagerFrame
<1>2. Objects'
  BY DEF SearchInv, TypeOK, Objects, MgrNew, Construct, ManagerFrame
<1>3. Lookups'
  BY DEF SearchInv, TypeOK, Objects, Lookups, Inquiring, Searching, MgrNew, Construct,
       ManagerFrame
<1>4. Handles'
  BY DEF SearchInv, TypeOK, Handles, Inquiring, Searching, MgrNew, Construct,
       ManagerFrame
<1>5. Callbacks'
  BY DEF SearchInv, TypeOK, Objects, Lookups, Callbacks, Second, Inquiring, Searching,
       MgrNew, Construct, ManagerFrame
<1>6. Undisturbed'
  BY DEF SearchInv, TypeOK, Undisturbed, Searching, Remember, MgrNew, Construct,
       ManagerFrame
<1>. QED BY <1>1, <1>2, <1>3, <1>4, <1>5, <1>6 DEF SearchInv

LEMMA MgrRegisterKeeps ==
    ASSUME SearchInv, MgrRegister, UNCHANGED singletonVars, ManagerFrame, Remember
    PROVE  SearchInv'
<1>1. TypeOK'
  <2>1. undisturbed' \in BOOLEAN /\ serial' \in BOOLEAN
    BY Zenon DEF SearchInv, TypeOK, Remember, MgrRegister, ManagerFrame
  <2>. QED BY <2>1 DEF SearchInv, TypeOK, MgrRegister, ManagerFrame
<1>2. Objects'
  BY DEF SearchInv, TypeOK, Objects, MgrRegister, ManagerFrame
<1>3. Lookups'
  BY DEF SearchInv, TypeOK, Objects, Lookups, Inquiring, Searching, MgrRegister,
       ManagerFrame
<1>4. Handles'
  BY DEF SearchInv, TypeOK, Handles, Inquiring, Searching, MgrRegister, ManagerFrame
<1>5. Callbacks'
  BY DEF SearchInv, TypeOK, Objects, Lookups, Callbacks, Second, Inquiring, Searching,
       MgrRegister, ManagerFrame
<1>6. Undisturbed'
  BY DEF SearchInv, TypeOK, Undisturbed, Searching, Remember, MgrRegister, ManagerFrame
<1>. QED BY <1>1, <1>2, <1>3, <1>4, <1>5, <1>6 DEF SearchInv

-----------------------------------------------------------------------------
(* The detector's loop and its inquiry.                                    *)

LEMMA DetGetKeeps ==
    ASSUME SearchInv, DetGet, UNCHANGED mpc, Remember
    PROVE  SearchInv'
<1>1. TypeOK'
  <2>1. undisturbed' \in BOOLEAN /\ serial' \in BOOLEAN
    BY Zenon DEF SearchInv, TypeOK, Remember, DetGet, DGoto
  <2>. QED BY <2>1 DEF SearchInv, TypeOK, DetGet, DGoto
<1>2. Objects'
  BY DEF SearchInv, TypeOK, Objects, DetGet, DGoto
<1>3. Lookups'
  BY DEF SearchInv, TypeOK, Objects, Lookups, Inquiring, Searching, DetGet, DGoto
<1>4. Handles'
  BY DEF SearchInv, TypeOK, Handles, Inquiring, Searching, DetGet, DGoto
<1>5. Callbacks'
  BY DEF SearchInv, TypeOK, Objects, Lookups, Callbacks, Second, Inquiring, Searching,
       DetGet, DGoto
<1>6. Undisturbed'
  BY DEF SearchInv, TypeOK, Undisturbed, Searching, Remember, DetGet, DGoto
<1>. QED BY <1>1, <1>2, <1>3, <1>4, <1>5, <1>6 DEF SearchInv

LEMMA DetNewKeeps ==
    ASSUME SearchInv, DetNew, UNCHANGED mpc, Remember
    PROVE  SearchInv'
<1>1. TypeOK'
  <2>1. undisturbed' \in BOOLEAN /\ serial' \in BOOLEAN
    BY Zenon DEF SearchInv, TypeOK, Remember, DetNew, Construct, DGoto
  <2>. QED BY <2>1 DEF SearchInv, TypeOK, Objects, DetNew, Construct, DGoto
<1>2. Objects'
  BY DEF SearchInv, TypeOK, Objects, DetNew, Construct, DGoto
<1>3. Lookups'
  BY DEF SearchInv, TypeOK, Objects, Lookups, Inquiring, Searching, DetNew, Construct,
       DGoto
<1>4. Handles'
  BY DEF SearchInv, TypeOK, Handles, Inquiring, Searching, DetNew, Construct, DGoto
<1>5. Callbacks'
  BY DEF SearchInv, TypeOK, Objects, Lookups, Callbacks, Second, Inquiring, Searching,
       DetNew, Construct, DGoto
<1>6. Undisturbed'
  BY DEF SearchInv, TypeOK, Undisturbed, Searching, Remember, DetNew, Construct, DGoto
<1>. QED BY <1>1, <1>2, <1>3, <1>4, <1>5, <1>6 DEF SearchInv

LEMMA InitializationStatusKeeps ==
    ASSUME SearchInv, InitializationStatus, UNCHANGED mpc, Remember
    PROVE  SearchInv'
<1>1. TypeOK'
  <2>1. undisturbed' \in BOOLEAN /\ serial' \in BOOLEAN
    BY Zenon DEF SearchInv, TypeOK, Remember, InitializationStatus, DGoto, Works, Fails
  <2>2. m_bBluetoothStackPresent' \in [Instance -> BOOLEAN]
    BY Zenon DEF SearchInv, TypeOK, InitializationStatus
  <2>3. failures' \in 0 .. MaxFailures
    BY LimitsAssumption DEF SearchInv, TypeOK, InitializationStatus, Works, Fails
  <2>4. dpc' \in {"get", "register"} /\ UNCHANGED <<made, m_instance>>
    BY Zenon DEF InitializationStatus, DGoto
  <2>. QED BY <2>1, <2>2, <2>3, <2>4 DEF SearchInv, TypeOK, InitializationStatus, DGoto, Works,
       Fails
<1>2. Objects'
  BY DEF SearchInv, TypeOK, Objects, InitializationStatus, DGoto, Works, Fails
<1>3. Lookups'
  BY DEF SearchInv, TypeOK, Objects, Lookups, Inquiring, Searching,
       InitializationStatus, DGoto, Works, Fails
<1>4. Handles'
  BY DEF SearchInv, TypeOK, Handles, Inquiring, Searching, InitializationStatus, DGoto,
       Works, Fails
<1>5. Callbacks'
  BY DEF SearchInv, TypeOK, Objects, Lookups, Callbacks, Second, Inquiring, Searching,
       InitializationStatus, DGoto, Works, Fails
<1>6. Undisturbed'
  BY DEF SearchInv, TypeOK, Undisturbed, Searching, Remember, InitializationStatus,
       DGoto, Works, Fails
<1>. QED BY <1>1, <1>2, <1>3, <1>4, <1>5, <1>6 DEF SearchInv

LEMMA RegisterHandlerKeeps ==
    ASSUME SearchInv, RegisterHandler, UNCHANGED mpc, Remember
    PROVE  SearchInv'
<1>1. TypeOK'
  <2>1. undisturbed' \in BOOLEAN /\ serial' \in BOOLEAN
    BY Zenon DEF SearchInv, TypeOK, Remember, RegisterHandler, DGoto
  <2>. QED BY <2>1 DEF SearchInv, TypeOK, RegisterHandler, DGoto
<1>2. Objects'
  BY DEF SearchInv, TypeOK, Objects, RegisterHandler, DGoto
<1>3. Lookups'
  BY DEF SearchInv, TypeOK, Objects, Lookups, Inquiring, Searching, RegisterHandler,
       DGoto
<1>4. Handles'
  BY DEF SearchInv, TypeOK, Handles, Inquiring, Searching, RegisterHandler, DGoto
<1>5. Callbacks'
  BY DEF SearchInv, TypeOK, Objects, Lookups, Callbacks, Second, Inquiring, Searching,
       RegisterHandler, DGoto
<1>6. Undisturbed'
  BY DEF SearchInv, TypeOK, Undisturbed, Searching, Remember, RegisterHandler, DGoto
<1>. QED BY <1>1, <1>2, <1>3, <1>4, <1>5, <1>6 DEF SearchInv

LEMMA InquiryBeginKeeps ==
    ASSUME SearchInv, InquiryBegin, UNCHANGED mpc, Remember
    PROVE  SearchInv'
<1>1. TypeOK'
  <2>1. undisturbed' \in BOOLEAN /\ serial' \in BOOLEAN
    BY Zenon DEF SearchInv, TypeOK, Remember, InquiryBegin, DGoto, Works, Fails
  <2>2. m_hDeviceLookup' \in [Instance -> BOOLEAN]
    BY Zenon DEF SearchInv, TypeOK, InquiryBegin
  <2>3. failures' \in 0 .. MaxFailures /\ lookups' \in Nat
    BY LimitsAssumption DEF SearchInv, TypeOK, InquiryBegin, Works, Fails
  <2>4. inquiry' \subseteq Addr /\ inquirer' \in 0 .. made
    BY Zenon DEF SearchInv, TypeOK, InquiryBegin
  <2>. QED BY <2>1, <2>2, <2>3, <2>4 DEF SearchInv, TypeOK, InquiryBegin, DGoto, Works, Fails
<1>2. Objects'
  BY DEF SearchInv, TypeOK, Objects, InquiryBegin, DGoto, Works, Fails
<1>3. Lookups'
  <2>1. m_instance \in Instance /\ m_instance <= made
    BY DEF SearchInv, TypeOK, Objects, InquiryBegin
  <2>2. \A i \in Instance : ~m_hDeviceLookup[i]
    BY Zenon DEF SearchInv, Lookups, Inquiring, Searching, InquiryBegin
  <2>3. CASE dpc' = "next"
    <3>1. /\ inquirer' = m_instance
          /\ m_hDeviceLookup' = [m_hDeviceLookup EXCEPT ![m_instance] = TRUE]
      BY <2>3 DEF InquiryBegin, DGoto
    <3>2. \A i \in Instance : m_hDeviceLookup'[i] <=> i = inquirer'
      BY <2>1, <2>2, <3>1 DEF SearchInv, TypeOK
    <3>. QED BY <2>1, <2>3, <3>1, <3>2
         DEF SearchInv, TypeOK, Objects, Lookups, Inquiring, InquiryBegin
  <2>4. CASE dpc' = "get"
    BY <2>2, <2>4 DEF Lookups, Inquiring, Searching, InquiryBegin, DGoto
  <2>. QED BY <2>3, <2>4, Zenon DEF InquiryBegin, DGoto
<1>4. Handles'
  BY DEF SearchInv, TypeOK, Handles, Inquiring, Searching, InquiryBegin, DGoto, Works,
       Fails
<1>5. Callbacks'
  BY DEF SearchInv, TypeOK, Objects, Lookups, Callbacks, Second, Inquiring, Searching,
       InquiryBegin, DGoto, Works, Fails
<1>6. Undisturbed'
  BY DEF SearchInv, TypeOK, Undisturbed, Searching, Remember, InquiryBegin, DGoto,
       Works, Fails
<1>. QED BY <1>1, <1>2, <1>3, <1>4, <1>5, <1>6 DEF SearchInv

LEMMA InquiryNextKeeps ==
    ASSUME SearchInv, InquiryNext, UNCHANGED mpc, Remember
    PROVE  SearchInv'
<1>1. TypeOK'
  <2>1. undisturbed' \in BOOLEAN /\ serial' \in BOOLEAN
    BY Zenon DEF SearchInv, TypeOK, Remember, InquiryNext, DGoto
  <2>. QED BY <2>1 DEF SearchInv, TypeOK, InquiryNext, DGoto
<1>2. Objects'
  BY DEF SearchInv, TypeOK, Objects, InquiryNext, DGoto
<1>3. Lookups'
  BY DEF SearchInv, TypeOK, Objects, Lookups, Inquiring, Searching, InquiryNext, DGoto
<1>4. Handles'
  BY DEF SearchInv, TypeOK, Handles, Inquiring, Searching, InquiryNext, DGoto
<1>5. Callbacks'
  BY DEF SearchInv, TypeOK, Objects, Lookups, Callbacks, Second, Inquiring, Searching,
       InquiryNext, DGoto
<1>6. Undisturbed'
  BY DEF SearchInv, TypeOK, Undisturbed, Searching, Remember, InquiryNext, DGoto
<1>. QED BY <1>1, <1>2, <1>3, <1>4, <1>5, <1>6 DEF SearchInv

LEMMA InquiryEndKeeps ==
    ASSUME SearchInv, InquiryEnd, UNCHANGED mpc, Remember
    PROVE  SearchInv'
<1>1. TypeOK'
  <2>1. undisturbed' \in BOOLEAN /\ serial' \in BOOLEAN
    BY Zenon DEF SearchInv, TypeOK, Remember, InquiryEnd, DGoto, Works, Fails
  <2>2. m_hDeviceLookup' \in [Instance -> BOOLEAN]
    BY Zenon DEF SearchInv, TypeOK, InquiryEnd
  <2>3. failures' \in 0 .. MaxFailures
    BY LimitsAssumption DEF SearchInv, TypeOK, InquiryEnd, Works, Fails
  <2>4. lookups' \in Nat
    BY DEF SearchInv, TypeOK, Handles, Inquiring, InquiryEnd
  <2>. QED BY <2>1, <2>2, <2>3, <2>4 DEF SearchInv, TypeOK, InquiryEnd, DGoto, Works, Fails
<1>2. Objects'
  BY DEF SearchInv, TypeOK, Objects, InquiryEnd, DGoto, Works, Fails
<1>3. Lookups'
  BY DEF SearchInv, TypeOK, Objects, Lookups, Inquiring, Searching, InquiryEnd, DGoto,
       Works, Fails
<1>4. Handles'
  BY DEF SearchInv, TypeOK, Handles, Inquiring, Searching, InquiryEnd, DGoto, Works,
       Fails
<1>5. Callbacks'
  BY DEF SearchInv, TypeOK, Objects, Lookups, Callbacks, Second, Inquiring, Searching,
       InquiryEnd, DGoto, Works, Fails
<1>6. Undisturbed'
  BY DEF SearchInv, TypeOK, Undisturbed, Searching, Remember, InquiryEnd, DGoto, Works,
       Fails
<1>. QED BY <1>1, <1>2, <1>3, <1>4, <1>5, <1>6 DEF SearchInv

LEMMA OnDeviceDiscoveredKeeps ==
    ASSUME SearchInv, OnDeviceDiscovered, UNCHANGED mpc, Remember
    PROVE  SearchInv'
<1>1. TypeOK'
  <2>1. undisturbed' \in BOOLEAN /\ serial' \in BOOLEAN
    BY Zenon DEF SearchInv, TypeOK, Remember, OnDeviceDiscovered, DGoto
  <2>. QED BY <2>1 DEF SearchInv, TypeOK, OnDeviceDiscovered, DGoto
<1>2. Objects'
  BY DEF SearchInv, TypeOK, Objects, OnDeviceDiscovered, DGoto
<1>3. Lookups'
  BY DEF SearchInv, TypeOK, Objects, Lookups, Inquiring, Searching, OnDeviceDiscovered,
       DGoto
<1>4. Handles'
  BY DEF SearchInv, TypeOK, Handles, Inquiring, Searching, OnDeviceDiscovered, DGoto
<1>5. Callbacks'
  BY DEF SearchInv, TypeOK, Objects, Lookups, Callbacks, Second, Inquiring, Searching,
       OnDeviceDiscovered, DGoto
<1>6. Undisturbed'
  BY DEF SearchInv, TypeOK, Undisturbed, Searching, Remember, OnDeviceDiscovered, DGoto
<1>. QED BY <1>1, <1>2, <1>3, <1>4, <1>5, <1>6 DEF SearchInv

-----------------------------------------------------------------------------
(* The service search.                                                     *)

LEMMA SearchSocketKeeps ==
    ASSUME SearchInv, SearchSocket, SearchFrame, Remember
    PROVE  SearchInv'
<1>1. TypeOK'
  <2>1. undisturbed' \in BOOLEAN /\ serial' \in BOOLEAN
    BY Zenon DEF SearchInv, TypeOK, Remember, SearchSocket, SearchFrame, DGoto, Works,
         Fails
  <2>. QED BY <2>1, LimitsAssumption DEF SearchInv, TypeOK, SearchSocket, SearchFrame, DGoto,
       Works, Fails
<1>2. Objects'
  BY DEF SearchInv, TypeOK, Objects, SearchSocket, SearchFrame, DGoto, Works, Fails
<1>3. Lookups'
  BY DEF SearchInv, TypeOK, Objects, Lookups, Inquiring, Searching, SearchSocket,
       SearchFrame, DGoto, Works, Fails
<1>4. Handles'
  BY DEF SearchInv, TypeOK, Handles, Inquiring, Searching, SearchSocket, SearchFrame,
       DGoto, Works, Fails
<1>5. Callbacks'
  BY DEF SearchInv, TypeOK, Objects, Lookups, Callbacks, Second, Inquiring, Searching,
       SearchSocket, SearchFrame, DGoto, Works, Fails
<1>6. Undisturbed'
  BY DEF SearchInv, TypeOK, Undisturbed, Searching, Remember, SearchSocket,
       SearchFrame, DGoto, Works, Fails
<1>. QED BY <1>1, <1>2, <1>3, <1>4, <1>5, <1>6 DEF SearchInv

LEMMA SearchBeginKeeps ==
    ASSUME SearchInv, SearchBegin, SearchFrame, Remember
    PROVE  SearchInv'
<1>1. TypeOK'
  <2>1. undisturbed' \in BOOLEAN /\ serial' \in BOOLEAN
    BY Zenon DEF SearchInv, TypeOK, Remember, SearchBegin, SearchFrame, DGoto, Works,
         Fails
  <2>. QED BY <2>1, LimitsAssumption DEF SearchInv, TypeOK, SearchBegin, SearchFrame, DGoto,
       Works, Fails
<1>2. Objects'
  BY DEF SearchInv, TypeOK, Objects, SearchBegin, SearchFrame, DGoto, Works, Fails
<1>3. Lookups'
  BY DEF SearchInv, TypeOK, Objects, Lookups, Inquiring, Searching, SearchBegin,
       SearchFrame, DGoto, Works, Fails
<1>4. Handles'
  BY DEF SearchInv, TypeOK, Handles, Inquiring, Searching, SearchBegin, SearchFrame,
       DGoto, Works, Fails
<1>5. Callbacks'
  BY DEF SearchInv, TypeOK, Objects, Lookups, Callbacks, Second, Inquiring, Searching,
       SearchBegin, SearchFrame, DGoto, Works, Fails
<1>6. Undisturbed'
  BY DEF SearchInv, TypeOK, Undisturbed, Searching, Remember, SearchBegin, SearchFrame,
       DGoto, Works, Fails
<1>. QED BY <1>1, <1>2, <1>3, <1>4, <1>5, <1>6 DEF SearchInv

LEMMA SearchNextKeeps ==
    ASSUME SearchInv, SearchNext, SearchFrame, Remember
    PROVE  SearchInv'
<1>1. TypeOK'
  <2>1. undisturbed' \in BOOLEAN /\ serial' \in BOOLEAN
    BY Zenon DEF SearchInv, TypeOK, Remember, SearchNext, SearchFrame, DGoto, Works,
         Fails
  <2>. QED BY <2>1, LimitsAssumption DEF SearchInv, TypeOK, SearchNext, SearchFrame, DGoto,
       Works, Fails
<1>2. Objects'
  BY DEF SearchInv, TypeOK, Objects, SearchNext, SearchFrame, DGoto, Works, Fails
<1>3. Lookups'
  BY DEF SearchInv, TypeOK, Objects, Lookups, Inquiring, Searching, SearchNext,
       SearchFrame, DGoto, Works, Fails
<1>4. Handles'
  BY DEF SearchInv, TypeOK, Handles, Inquiring, Searching, SearchNext, SearchFrame,
       DGoto, Works, Fails
<1>5. Callbacks'
  BY DEF SearchInv, TypeOK, Objects, Lookups, Callbacks, Second, Inquiring, Searching,
       SearchNext, SearchFrame, DGoto, Works, Fails
<1>6. Undisturbed'
  BY DEF SearchInv, TypeOK, Undisturbed, Searching, Remember, SearchNext, SearchFrame,
       DGoto, Works, Fails
<1>. QED BY <1>1, <1>2, <1>3, <1>4, <1>5, <1>6 DEF SearchInv

LEMMA ServicesBeginKeeps ==
    ASSUME SearchInv, ServicesBegin, SearchFrame, Remember
    PROVE  SearchInv'
<1>1. TypeOK'
  <2>1. undisturbed' \in BOOLEAN /\ serial' \in BOOLEAN
    BY Zenon DEF SearchInv, TypeOK, Remember, ServicesBegin, SearchFrame, DGoto, Works,
         Fails
  <2>. QED BY <2>1, LimitsAssumption DEF SearchInv, TypeOK, ServicesBegin, SearchFrame, DGoto,
       Works, Fails
<1>2. Objects'
  BY DEF SearchInv, TypeOK, Objects, ServicesBegin, SearchFrame, DGoto, Works, Fails
<1>3. Lookups'
  BY DEF SearchInv, TypeOK, Objects, Lookups, Inquiring, Searching, ServicesBegin,
       SearchFrame, DGoto, Works, Fails
<1>4. Handles'
  BY DEF SearchInv, TypeOK, Handles, Inquiring, Searching, ServicesBegin, SearchFrame,
       DGoto, Works, Fails
<1>5. Callbacks'
  BY DEF SearchInv, TypeOK, Objects, Lookups, Callbacks, Second, Inquiring, Searching,
       ServicesBegin, SearchFrame, DGoto, Works, Fails
<1>6. Undisturbed'
  BY DEF SearchInv, TypeOK, Undisturbed, Searching, Remember, ServicesBegin,
       SearchFrame, DGoto, Works, Fails
<1>. QED BY <1>1, <1>2, <1>3, <1>4, <1>5, <1>6 DEF SearchInv

LEMMA ServicesNextKeeps ==
    ASSUME SearchInv, ServicesNext, SearchFrame, Remember
    PROVE  SearchInv'
<1>1. TypeOK'
  <2>1. undisturbed' \in BOOLEAN /\ serial' \in BOOLEAN
    BY Zenon DEF SearchInv, TypeOK, Remember, ServicesNext, SearchFrame, DGoto, Works,
         Fails
  <2>. QED BY <2>1, LimitsAssumption DEF SearchInv, TypeOK, Handles, Inquiring, Searching,
       ServicesNext, SearchFrame, DGoto, Works, Fails
<1>2. Objects'
  BY DEF SearchInv, TypeOK, Objects, ServicesNext, SearchFrame, DGoto, Works, Fails
<1>3. Lookups'
  BY DEF SearchInv, TypeOK, Objects, Lookups, Inquiring, Searching, ServicesNext,
       SearchFrame, DGoto, Works, Fails
<1>4. Handles'
  BY DEF SearchInv, TypeOK, Handles, Inquiring, Searching, ServicesNext, SearchFrame,
       DGoto, Works, Fails
<1>5. Callbacks'
  BY DEF SearchInv, TypeOK, Objects, Lookups, Callbacks, Second, Inquiring, Searching,
       ServicesNext, SearchFrame, DGoto, Works, Fails
<1>6. Undisturbed'
  BY DEF SearchInv, TypeOK, Undisturbed, Searching, Remember, ServicesNext,
       SearchFrame, DGoto, Works, Fails
<1>. QED BY <1>1, <1>2, <1>3, <1>4, <1>5, <1>6 DEF SearchInv

LEMMA SearchCloseKeeps ==
    ASSUME SearchInv, SearchClose, SearchFrame, Remember
    PROVE  SearchInv'
<1>1. TypeOK'
  <2>1. undisturbed' \in BOOLEAN /\ serial' \in BOOLEAN
    BY Zenon DEF SearchInv, TypeOK, Remember, SearchClose, SearchFrame, DGoto, Works
  <2>. QED BY <2>1, LimitsAssumption DEF SearchInv, TypeOK, Handles, Inquiring, Searching,
       SearchClose, SearchFrame, DGoto, Works
<1>2. Objects'
  BY DEF SearchInv, TypeOK, Objects, SearchClose, SearchFrame, DGoto, Works
<1>3. Lookups'
  BY DEF SearchInv, TypeOK, Objects, Lookups, Inquiring, Searching, SearchClose,
       SearchFrame, DGoto, Works
<1>4. Handles'
  BY DEF SearchInv, TypeOK, Handles, Inquiring, Searching, SearchClose, SearchFrame,
       DGoto, Works
<1>5. Callbacks'
  BY DEF SearchInv, TypeOK, Objects, Lookups, Callbacks, Second, Inquiring, Searching,
       SearchClose, SearchFrame, DGoto, Works
<1>6. Undisturbed'
  BY DEF SearchInv, TypeOK, Undisturbed, Searching, Remember, SearchClose, SearchFrame,
       DGoto, Works
<1>. QED BY <1>1, <1>2, <1>3, <1>4, <1>5, <1>6 DEF SearchInv

LEMMA SearchEndKeeps ==
    ASSUME SearchInv, SearchEnd, Remember
    PROVE  SearchInv'
<1>1. TypeOK'
  <2>1. undisturbed' \in BOOLEAN /\ serial' \in BOOLEAN
    BY Zenon DEF SearchInv, TypeOK, Remember, SearchEnd, DGoto
  <2>. QED BY <2>1, LimitsAssumption DEF SearchInv, TypeOK, SearchEnd, DGoto
<1>2. Objects'
  BY DEF SearchInv, TypeOK, Objects, SearchEnd, DGoto
<1>3. Lookups'
  BY DEF SearchInv, TypeOK, Objects, Lookups, Inquiring, Searching, SearchEnd, DGoto
<1>4. Handles'
  BY DEF SearchInv, TypeOK, Handles, Inquiring, Searching, SearchEnd, DGoto
<1>5. Callbacks'
  BY DEF SearchInv, TypeOK, Objects, Lookups, Callbacks, Second, Inquiring, Searching,
       SearchEnd, DGoto
<1>6. Undisturbed'
  BY DEF SearchInv, TypeOK, Undisturbed, Searching, Remember, SearchEnd, DGoto
<1>. QED BY <1>1, <1>2, <1>3, <1>4, <1>5, <1>6 DEF SearchInv

-----------------------------------------------------------------------------
(* Devices that come and go, and the manager that reaps a handler.         *)

LEMMA MovesKeeps ==
    ASSUME SearchInv, NEW a \in Addr, Moves(a), Remember
    PROVE  SearchInv'
<1>1. TypeOK'
  <2>1. undisturbed' \in BOOLEAN /\ serial' \in BOOLEAN
    BY Zenon DEF SearchInv, TypeOK, Remember, Moves
  <2>. QED BY <2>1 DEF SearchInv, TypeOK, Moves
<1>2. Objects'
  BY DEF SearchInv, TypeOK, Objects, Moves
<1>3. Lookups'
  BY DEF SearchInv, TypeOK, Objects, Lookups, Inquiring, Searching, Moves
<1>4. Handles'
  BY DEF SearchInv, TypeOK, Handles, Inquiring, Searching, Moves
<1>5. Callbacks'
  BY DEF SearchInv, TypeOK, Objects, Lookups, Callbacks, Second, Inquiring, Searching,
       Moves
<1>6. Undisturbed'
  BY DEF SearchInv, TypeOK, Undisturbed, Searching, Remember, Moves
<1>. QED BY <1>1, <1>2, <1>3, <1>4, <1>5, <1>6 DEF SearchInv

LEMMA ReapedKeeps ==
    ASSUME SearchInv, NEW a \in Addr, Reaped(a), Remember
    PROVE  SearchInv'
<1>1. TypeOK'
  <2>1. undisturbed' \in BOOLEAN /\ serial' \in BOOLEAN
    BY Zenon DEF SearchInv, TypeOK, Remember, Reaped
  <2>. QED BY <2>1 DEF SearchInv, TypeOK, Reaped
<1>2. Objects'
  BY DEF SearchInv, TypeOK, Objects, Reaped
<1>3. Lookups'
  BY DEF SearchInv, TypeOK, Objects, Lookups, Inquiring, Searching, Reaped
<1>4. Handles'
  BY DEF SearchInv, TypeOK, Handles, Inquiring, Searching, Reaped
<1>5. Callbacks'
  BY DEF SearchInv, TypeOK, Objects, Lookups, Callbacks, Second, Inquiring, Searching,
       Reaped
<1>6. Undisturbed'
  BY DEF SearchInv, TypeOK, Undisturbed, Searching, Remember, Reaped
<1>. QED BY <1>1, <1>2, <1>3, <1>4, <1>5, <1>6 DEF SearchInv

-----------------------------------------------------------------------------
(* The invariant.                                                           *)

LEMMA SearchInit == ASSUME Init PROVE SearchInv
<1>1. TypeOK
  <2>1. /\ m_pHandler \in [Instance -> BOOLEAN] /\ m_hDeviceLookup \in [Instance -> BOOLEAN]
        /\ m_bBluetoothStackPresent \in [Instance -> BOOLEAN]
        /\ serial \in BOOLEAN /\ undisturbed \in BOOLEAN
    BY Zenon DEF Init
  <2>. QED BY <2>1, LimitsAssumption DEF Init, TypeOK
<1>2. Objects /\ Lookups /\ Handles /\ Callbacks /\ Undisturbed
  BY <1>1 DEF Init, TypeOK, Objects, Lookups, Handles, Callbacks, Undisturbed,
     Inquiring, Searching
<1>. QED BY <1>1, <1>2 DEF SearchInv

LEMMA SearchStutter == ASSUME SearchInv, UNCHANGED vars PROVE SearchInv'
BY DEF SearchInv, TypeOK, Objects, Lookups, Handles, Callbacks, Second, Undisturbed,
   Inquiring, Searching, vars

LEMMA SearchStep == ASSUME SearchInv, Next PROVE SearchInv'
<1>1. CASE DetectorStep
  <2>1. CASE Detector /\ UNCHANGED mpc
    BY <1>1, <2>1, Zenon, DetGetKeeps, DetNewKeeps, InitializationStatusKeeps,
       RegisterHandlerKeeps, InquiryBeginKeeps, InquiryNextKeeps, InquiryEndKeeps,
       OnDeviceDiscoveredKeeps DEF DetectorStep, Detector
  <2>2. CASE Search
    BY <1>1, <2>2, Zenon, SearchSocketKeeps, SearchBeginKeeps, SearchNextKeeps,
       ServicesBeginKeeps, ServicesNextKeeps, SearchCloseKeeps
       DEF DetectorStep, Search, SearchFrame
  <2>3. CASE SearchEnd
    BY <1>1, <2>3, Zenon, SearchEndKeeps DEF DetectorStep
  <2>. QED BY <1>1, <2>1, <2>2, <2>3, Zenon DEF DetectorStep, DetectorThread
<1>2. CASE ManagerStep
  <2>1. Remember /\ ManagerFrame
    BY <1>2, Zenon DEF ManagerStep, Manager, ManagerFrame
  <2>2. \/ (MgrGet \/ MgrNew) /\ UNCHANGED m_pHandler
        \/ MgrRegister /\ UNCHANGED singletonVars
    BY <1>2, Zenon DEF ManagerStep, Manager
  <2>. QED BY <2>1, <2>2, Zenon, MgrGetKeeps, MgrNewKeeps, MgrRegisterKeeps
<1>3. CASE \E a \in Addr : (Moves(a) \/ Reaped(a)) /\ Remember
  BY <1>3, Zenon, MovesKeeps, ReapedKeeps
<1>. QED BY <1>1, <1>2, <1>3, Zenon DEF Next

\* The inductive invariant holds of every behaviour (BlueTooth.cpp:278-661).
THEOREM SearchInvariant == Spec => []SearchInv
<1>1. Init => SearchInv
  BY SearchInit
<1>2. SearchInv /\ [Next]_vars => SearchInv'
  BY SearchStep, SearchStutter
<1>. QED BY <1>1, <1>2, PTL DEF Spec

\* Every variable keeps its type: the two threads construct two objects at most,
\* and no handle is closed that was not open (BlueTooth.h:129-134, BlueTooth.cpp:278-661).
THEOREM SearchTyped == Spec => []TypeOK
<1>1. SearchInv => TypeOK
  BY DEF SearchInv
<1>. QED BY <1>1, SearchInvariant, PTL

\* An inquiry that starts finds no lookup handle in the object it runs on: the
\* guard against a second inquiry never turns the detector away
\* (BlueTooth.cpp:288-291, 326-343, 380-383).
THEOREM NeverRejected == Spec => []GuardNeverRejects
<1>1. SearchInv => GuardNeverRejects
  BY DEF SearchInv, TypeOK, Objects, Lookups, Inquiring, Searching, GuardNeverRejects
<1>. QED BY <1>1, SearchInvariant, PTL

LEMMA OpenInquiries ==
    ASSUME SearchInv
    PROVE  Cardinality({i \in Instance : m_hDeviceLookup[i]}) =
             (IF dpc \in Inquiring THEN 1 ELSE 0)
<1>1. CASE dpc \in Inquiring
  <2>1. {i \in Instance : m_hDeviceLookup[i]} = {inquirer}
    BY <1>1 DEF SearchInv, TypeOK, Objects, Lookups
  <2>. QED BY <1>1, <2>1, FS_Singleton, Zenon
<1>2. CASE dpc \notin Inquiring
  <2>1. {i \in Instance : m_hDeviceLookup[i]} = {}
    BY <1>2 DEF SearchInv, Lookups
  <2>. QED BY <1>2, <2>1, FS_EmptySet, Zenon
<1>. QED BY <1>1, <1>2

\* The lookup handles and the sockets left open by searches, however they ended,
\* are bound to each other (BlueTooth.cpp:441-641).
THEOREM LeaksAreBounded == Spec => []LeaksBounded
<1>1. SearchInv => LeaksBounded
  <2>1. SUFFICES ASSUME SearchInv PROVE LeaksBounded
    OBVIOUS
  <2>2. lookups \in Nat /\ sockets \in Nat
    BY <2>1, LimitsAssumption DEF SearchInv, TypeOK
  <2>3. CASE dpc \in Inquiring
    BY <2>1, <2>2, <2>3, OpenInquiries
       DEF SearchInv, Handles, LeaksBounded, InUse, Inquiring, Searching
  <2>4. CASE dpc \notin Inquiring
    BY <2>1, <2>2, <2>4, OpenInquiries
       DEF SearchInv, Handles, LeaksBounded, InUse, Inquiring, Searching
  <2>. QED BY <2>3, <2>4
<1>. QED BY <1>1, SearchInvariant, PTL

\* A search that nothing disturbs finds its device and its serial service, and
\* reports it: the device is served after it, unless the search ran on a second
\* object that had no callback yet (BlueTooth.cpp:503-661, BlueTooth.h:129-134).
THEOREM UndisturbedIsServed == Spec => DiscoveredIsServed
<1> DEFINE Ends == dpc = "search_error" /\ dpc' # dpc /\ undisturbed
                     /\ target \in HasSerial /\ registry[target] # "absent"
<1>1. ASSUME SearchInv, [Next]_vars, Ends
      PROVE  registry'[target] = "served" \/ SecondObject
  <2>1. SearchEnd
    <3>1. ~Detector
      BY <1>1 DEF Detector, DetGet, DetNew, InitializationStatus, RegisterHandler,
         InquiryBegin, InquiryNext, InquiryEnd, OnDeviceDiscovered
    <3>2. ~Search
      BY <1>1 DEF Search, SearchSocket, SearchBegin, SearchNext, ServicesBegin,
         ServicesNext, SearchClose
    <3>3. ~Manager /\ ~UNCHANGED vars
      BY <1>1 DEF Manager, vars
    <3>4. \A a \in Addr : ~Moves(a) /\ ~Reaped(a)
      BY <1>1 DEF Moves, Reaped
    <3>. QED BY <1>1, <3>1, <3>2, <3>3, <3>4, Zenon
         DEF Next, DetectorStep, ManagerStep, DetectorThread
  <2>2. serial
    BY <1>1, Zenon DEF SearchInv, Undisturbed, Searching
  <2>3. m_pHandler[searcher] \/ SecondObject
    BY <1>1, Zenon DEF SearchInv, Callbacks, Searching, Second, SecondObject
  <2>4. target \in Addr /\ registry \in [Addr -> {"absent", "registered", "served"}]
    BY <1>1, Zenon DEF SearchInv, TypeOK
  <2>. QED BY <1>1, <2>1, <2>2, <2>3, <2>4 DEF SearchEnd
<1>2. SearchInv /\ [Next]_vars => [Ends => registry'[target] = "served" \/ SecondObject]_vars
  BY <1>1
<1>. QED BY <1>2, SearchInvariant, PTL DEF Spec, DiscoveredIsServed

=============================================================================
