-------------------------- MODULE DevMgrUnitTest --------------------------
(***************************************************************************)
(* The two multi-threaded unit tests of the device manager, MTRegisterDevice *)
(* and MTUnregisterDevice (BTDeviceManager.cpp:349-416), one after the other *)
(* as gtest runs them.  The main thread resumes the worker threads of a     *)
(* test, waits until all of them have ended and looks at the map; a worker  *)
(* calls the manager once, with its own address, and ends.                  *)
(*                                                                         *)
(* They are run alone (gtest's filter selects tests), or after the tests    *)
(* RegisterDevice and UnregisterDevice (329-347) in the same main thread.   *)
(***************************************************************************)
EXTENDS DeviceRegistry

CONSTANTS Main,          \* the thread gtest runs in
          Registrar,     \* the workers of MTRegisterDevice
          Unregistrar,   \* the workers of MTUnregisterDevice
          Target(_)      \* the address a worker is given

ASSUME WorkersAssumption ==
    /\ Thread = {Main} \cup Registrar \cup Unregistrar
    /\ Registrar \cap Unregistrar = {}
    /\ Main \notin Registrar \cup Unregistrar

\* lpParam is the thread's number, taken modulo the number of registrars for an
\* unregistrar: every address is registered once and unregistered at least once.
ASSUME TargetsAssumption ==
    /\ IsFiniteSet(Registrar)
    /\ \A t \in Registrar \cup Unregistrar : Target(t) \in Addr
    /\ \A t, u \in Registrar : Target(t) = Target(u) => t = u
    /\ \A t \in Registrar : \E u \in Unregistrar : Target(u) = Target(t)

VARIABLES phase,         \* what the main thread is doing
          called         \* the workers that have made their call

vars == <<registryVars, phase, called>>

\* What RegisterDevice and UnregisterDevice leave behind: an empty map, and, of a
\* real mutex, the main thread as the owner, which has returned without
\* ReleaseMutex twice (BTDeviceManager.cpp:224, 288).
AfterFirstTests == HasMutex /\ owner = Main /\ depth = 2

TestInit == /\ ManagerInit
            /\ MutexInit \/ AfterFirstTests
            /\ phase = "registering" /\ called = {}

\* The thread function of a worker: one call beginning at label l, then return.
Worker(t, l) ==
    /\ \/ /\ t \notin called
          /\ Call(t, l, Target(t))
          /\ called' = called \cup {t}
       \/ Step(t) /\ UNCHANGED called
       \/ /\ t \in called
          /\ ThreadExit(t)
          /\ UNCHANGED called
    /\ UNCHANGED phase

RegisterDeviceThreadFunc(t) == phase = "registering" /\ Worker(t, "reg_find")

UnregisterDeviceThreadFunc(t) == phase = "unregistering" /\ Worker(t, "unr_lock")

\* WaitForSingleObject(hThreads[cnt], INFINITE) for every worker in turn.
Join(T, from, to) ==
    /\ up /\ phase = from
    /\ \A t \in T : pc[t] = "exited"
    /\ phase' = to
    /\ UNCHANGED <<registryVars, called>>

JoinRegistrars == Join(Registrar, "registering", "registered")

ResumeUnregistrars == /\ up /\ phase = "registered"
                      /\ phase' = "unregistering"
                      /\ UNCHANGED <<registryVars, called>>

JoinUnregistrars == Join(Unregistrar, "unregistering", "unregistered")

\* DEF_BTDEV_MGR->ListDevices()
ListResult ==
    \/ /\ phase = "unregistered"
       /\ Call(Main, "lst_lock", NULL)
       /\ phase' = "listing"
       /\ UNCHANGED called
    \/ phase = "listing" /\ Step(Main) /\ UNCHANGED <<phase, called>>
    \/ /\ phase = "listing"
       /\ ThreadExit(Main)
       /\ phase' = "done"
       /\ UNCHANGED called

MainThread == JoinRegistrars \/ ResumeUnregistrars \/ JoinUnregistrars \/ ListResult

TestNext ==
    \/ \E t \in Registrar : RegisterDeviceThreadFunc(t)
    \/ \E t \in Unregistrar : UnregisterDeviceThreadFunc(t)
    \/ MainThread
    \/ (phase = "done" \/ ~up) /\ UNCHANGED vars

\* The scheduler runs every thread that can run.
TestSpec ==
    /\ TestInit /\ [][TestNext]_vars
    /\ \A t \in Registrar : WF_vars(RegisterDeviceThreadFunc(t))
    /\ \A t \in Unregistrar : WF_vars(UnregisterDeviceThreadFunc(t))
    /\ WF_vars(MainThread)

-----------------------------------------------------------------------------
MapSize == Cardinality({a \in Addr : Present(a)})

\* BTDeviceManager.cpp:380, "ASSERT_TRUE(DEF_BTDEV_MGR->GetDeviceMap().size()
\* == UNITTEST_DEVMGR_MAX_THREADS)": after MTRegisterDevice every address is
\* in the map.
AllRegistered ==
    up /\ phase = "registered" => MapSize = Cardinality(Registrar)

\* BTDeviceManager.cpp:415: after MTUnregisterDevice, whose workers contend for
\* the same addresses, the map is empty and no device is left on the heap.
AllUnregistered ==
    up /\ phase \in {"unregistered", "listing", "done"} => MapSize = 0 /\ live = {}

\* Run alone, the tests end, although every successful registration and every
\* failed unregistration returns with the mutex held: the worker's end abandons
\* it.  Run after the tests of the main thread, which does not end, they never get
\* past the first join (375-377): with a working mutex the suite would hang.
TestsEnd == /\ ~AfterFirstTests => <>(phase = "done")
            /\ AfterFirstTests => [](phase = "registering")

=============================================================================
