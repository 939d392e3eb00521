----------------------- MODULE InstanceMonitor_proofs -----------------------
(***************************************************************************)
(* Proofs about the application's life, for any workers: none has two       *)
(* threads, and those that theApp's destructor deletes have none.           *)
(***************************************************************************)
EXTENDS InstanceMonitor, TLAPS

Starting == {"new", "create", "store"}
Watching == {"check", "delete", "renew", "recreate", "restore"}

\* A worker the monitor has not come to yet, one it is done with, one with its
\* thread at rest.
Fresh(w) == m_ptrThread[w] = "null" /\ thread[w] = "none"
Ready(w) == m_ptrThread[w] = "valid"
Resting(w) == thread[w] # "running"

\* The step of the monitor and the worker it is at: what it tests in one step still
\* holds in the later ones, whatever the window's thread has ended meanwhile.
MonitoredIs ==
    /\ mpc = "new" => Fresh(Monitored)
    /\ mpc \in {"create", "recreate"} => m_ptrThread[Monitored] = "wild" /\ Resting(Monitored)
    /\ mpc \in {"store", "restore"} => m_ptrThread[Monitored] = "wild"
    /\ mpc = "check" => Ready(Monitored)
    /\ mpc = "delete" => Ready(Monitored) /\ Resting(Monitored)
    /\ mpc = "renew" => m_ptrThread[Monitored] = "freed" /\ Resting(Monitored)

OthersAre ==
    \A i \in 1 .. Count :
      /\ mpc \in {"log", "register"} => Fresh(Services[i])
      /\ mpc \in Starting => (i > mi => Fresh(Services[i])) /\ (i < mi => Ready(Services[i]))
      /\ mpc \in Watching /\ i # mi => Ready(Services[i])

\* The window's thread: once it waits, the monitor is gone, and the workers it has
\* waited for are at rest, but for a thread whose handle was never stored.
Rests(w) == /\ m_ptrThread[w] \in {"wild", "valid"}
            /\ thread[w] = "running" => m_ptrThread[w] = "wild"
MonitorGone == upc \in {"wait", "delete", "ended"} => mpc = "terminated"
WaitedFor ==
    /\ upc = "wait" => \A i \in 1 .. registered : i < ui => Rests(Services[i])
    /\ upc = "delete" => \A i \in 1 .. registered : i >= ui => Rests(Services[i])

Registered ==
    /\ mpc \in {"log", "register"} => registered < Count
    /\ mpc \notin {"log", "register", "terminated"} => registered = Count
    /\ upc = "terminate" \/ upc = "wait" \/ upc = "delete" => ui <= registered + 1

LifeInv ==
    /\ MonitorTypeOK /\ OneThreadPerWorker
    /\ up => /\ MonitoredIs /\ OthersAre /\ MonitorGone /\ WaitedFor /\ Registered

-----------------------------------------------------------------------------
LEMMA ServicesAre ==
    /\ Count \in Nat \ {0}
    /\ \A i \in 1 .. Count : Services[i] \in Worker
    /\ \A i, j \in 1 .. Count : i # j => Services[i] # Services[j]
<1>1. Services \in Seq(Worker) /\ Services # <<>>
  BY ServicesAssumption
<1>2. Count \in Nat \ {0} /\ DOMAIN Services = 1 .. Count
  BY <1>1 DEF Count
<1> QED
  BY <1>1, <1>2, ServicesAssumption

\* The types, as facts about the single values.
Values ==
    /\ m_ptrThread \in [Worker -> Pointers] /\ thread \in [Worker -> Threads]
    /\ strays \in [Worker -> Nat]
    /\ Monitored \in Worker /\ (ui <= registered => Visited \in Worker)
    /\ registered \in 0 .. Count /\ mi \in 1 .. Count /\ ui \in 1 .. Count + 1

LEMMA ValuesTyped ==
    ASSUME MonitorTypeOK
    PROVE  Values
BY ServicesAre DEF MonitorTypeOK, ThreadTypeOK, Values, Monitored, Visited

USE DEF bounds

LEMMA RegisterKeeps ==
    ASSUME LifeInv, Register
    PROVE  LifeInv'
<1> USE DEF LifeInv, Register, MonitorAt
<1>0. Values /\ up /\ mpc = "register" /\ registered < Count
  BY ValuesTyped DEF Registered
<1>1. MonitorTypeOK'
  <2>1. registered' \in 0 .. Count /\ mi' \in 1 .. Count
    BY <1>0, ServicesAre DEF Values
  <2>2. mpc' \in {"register", "new"}
    OBVIOUS
  <2>3. UNCHANGED <<m_ptrThread, thread, strays, upc, ui, bounds>>
    OBVIOUS
  <2>4. up' \in BOOLEAN
    BY Zenon
  <2> QED
    BY <2>1, <2>2, <2>3, <2>4 DEF MonitorTypeOK, ThreadTypeOK
<1>2. OneThreadPerWorker'
  BY DEF OneThreadPerWorker
<1>3. MonitoredIs' /\ OthersAre'
  BY <1>0, ServicesAre
     DEF MonitoredIs, OthersAre, Monitored, Fresh, Ready, Resting, Starting, Watching, Values
<1>4. MonitorGone' /\ WaitedFor'
  BY <1>0 DEF MonitorGone, WaitedFor
<1>5. Registered'
  BY <1>0, ServicesAre DEF Registered, Values
<1> QED
  BY <1>1, <1>2, <1>3, <1>4, <1>5

LEMMA NewObjectKeeps ==
    ASSUME LifeInv, NewObject
    PROVE  LifeInv'
<1> USE DEF LifeInv, NewObject, NewThreadObject, MonitorAt, MonitorGoes
<1>0. Values /\ up /\ mpc \in {"new", "renew"} /\ registered = Count
  BY ValuesTyped DEF Registered
<1>1. MonitorTypeOK'
  BY <1>0 DEF MonitorTypeOK, ThreadTypeOK, Values, Pointers
<1>2. OneThreadPerWorker'
  BY DEF OneThreadPerWorker
<1>3. MonitoredIs'
  BY <1>0 DEF MonitoredIs, Monitored, Fresh, Resting, Values
<1>4. OthersAre'
  BY <1>0, ServicesAre
     DEF OthersAre, Monitored, Fresh, Ready, Starting, Watching, Values
<1>5. MonitorGone' /\ WaitedFor' /\ Registered'
  BY <1>0 DEF MonitorGone, WaitedFor, Registered
<1> QED
  BY <1>1, <1>2, <1>3, <1>4, <1>5

\* The thread is created for a worker that has none.
LEMMA CreateKeeps ==
    ASSUME LifeInv, Create
    PROVE  LifeInv'
<1> USE DEF LifeInv, Create, CreateThread, CreatesThread, MonitorAt, MonitorGoes
<1>0. /\ Values /\ up /\ mpc \in {"create", "recreate"} /\ registered = Count
      /\ m_ptrThread[Monitored] = "wild" /\ thread[Monitored] # "running"
  BY ValuesTyped DEF Registered, MonitoredIs, Resting
<1>1. strays' = strays
  BY <1>0 DEF Values
<1>2. MonitorTypeOK'
  BY <1>0, <1>1 DEF MonitorTypeOK, ThreadTypeOK, Values, Threads
<1>3. OneThreadPerWorker'
  BY <1>1 DEF OneThreadPerWorker
<1>4. MonitoredIs'
  BY <1>0 DEF MonitoredIs, Monitored, Values
<1>5. OthersAre'
  BY <1>0, ServicesAre
     DEF OthersAre, Monitored, Fresh, Ready, Starting, Watching, Values
<1>6. MonitorGone' /\ WaitedFor' /\ Registered'
  BY <1>0 DEF MonitorGone, WaitedFor, Registered
<1> QED
  BY <1>2, <1>3, <1>4, <1>5, <1>6

\* A thread that could not be created leaves its worker at rest.
LEMMA CreateFailsKeeps ==
    ASSUME LifeInv, CreateFails
    PROVE  LifeInv'
<1> USE DEF LifeInv, CreateFails, NoThread, CreatesThread, MonitorAt
<1>0. /\ Values /\ up /\ mpc \in {"create", "recreate"} /\ registered = Count
      /\ m_ptrThread[Monitored] = "wild" /\ thread[Monitored] # "running"
  BY ValuesTyped DEF Registered, MonitoredIs, Resting
<1>1. strays' = strays
  BY <1>0 DEF Values
<1>2. MonitorTypeOK'
  BY <1>0, <1>1, ReturnsAssumption DEF MonitorTypeOK, ThreadTypeOK, Values, Threads
<1>3. OneThreadPerWorker'
  BY <1>1 DEF OneThreadPerWorker
<1>4. MonitoredIs'
  BY <1>0 DEF MonitoredIs, Monitored, Values
<1>5. OthersAre'
  BY <1>0, ServicesAre
     DEF OthersAre, Monitored, Fresh, Ready, Starting, Watching, Values
<1>6. MonitorGone' /\ WaitedFor' /\ Registered'
  BY <1>0 DEF MonitorGone, WaitedFor, Registered
<1> QED
  BY <1>2, <1>3, <1>4, <1>5, <1>6

LEMMA NextServiceIs ==
    ASSUME Values
    PROVE  NextService \in 1 .. Count
BY ServicesAre DEF NextService, Values

LEMMA StoreKeeps ==
    ASSUME LifeInv, Store
    PROVE  LifeInv'
<1> USE DEF LifeInv, Store, StoreHandle, MonitorAt, MonitorGoes
<1>0. Values /\ up /\ mpc \in {"store", "restore"} /\ registered = Count
  BY ValuesTyped DEF Registered
<1>1. MonitorTypeOK'
  BY <1>0, NextServiceIs DEF MonitorTypeOK, ThreadTypeOK, Values, Pointers
<1>2. OneThreadPerWorker'
  BY DEF OneThreadPerWorker
<1>3. /\ \A w \in Worker : /\ thread'[w] = thread[w]
                           /\ m_ptrThread'[w] = IF w = Services[mi] THEN "valid"
                                                ELSE m_ptrThread[w]
      /\ mi' = NextService
      /\ mpc' = IF mpc = "store" /\ mi < Count THEN "new" ELSE "check"
  BY <1>0 DEF Values, Monitored
<1>4. MonitoredIs' /\ OthersAre'
  <2>1. CASE mpc = "store" /\ mi < Count
    <3>1. mi' = mi + 1 /\ mpc' = "new"
      BY <1>3, <2>1 DEF NextService
    <3>2. \A i \in 1 .. Count : /\ i > mi => Fresh(Services[i])
                                /\ i < mi => Ready(Services[i])
      BY <1>0, <2>1 DEF OthersAre, Starting
    <3> QED
      BY <1>0, <1>3, <2>1, <3>1, <3>2, ServicesAre
         DEF MonitoredIs, OthersAre, Monitored, Fresh, Ready, Starting, Watching, Values
  <2>2. CASE ~(mpc = "store" /\ mi < Count)
    <3>1. mi' \in 1 .. Count /\ mpc' = "check"
      BY <1>0, <1>3, <2>2, NextServiceIs
    <3>2. \A i \in 1 .. Count : i # mi => Ready(Services[i])
      BY <1>0, <2>2 DEF OthersAre, Starting, Watching, Values
    <3>3. \A i \in 1 .. Count : Ready(Services[i])'
      BY <1>3, <3>2, ServicesAre DEF Ready
    <3> QED
      BY <3>1, <3>3 DEF MonitoredIs, OthersAre, Monitored, Starting, Watching
  <2> QED
    BY <2>1, <2>2
<1>5. MonitorGone' /\ WaitedFor' /\ Registered'
  BY <1>0 DEF MonitorGone, WaitedFor, Registered
<1> QED
  BY <1>1, <1>2, <1>4, <1>5

LEMMA CheckKeeps ==
    ASSUME LifeInv, Check
    PROVE  LifeInv'
<1> USE DEF LifeInv, Check, MonitorAt, MonitorGoes
<1>0. Values /\ up /\ mpc = "check" /\ registered = Count /\ Ready(Monitored)
  BY ValuesTyped DEF Registered, MonitoredIs
<1>1. UNCHANGED threadVars
  BY <1>0 DEF Usable, Ready
<1>2. /\ IF thread[Monitored] = "running" THEN mpc' = "check" /\ mi' = NextService
                                          ELSE mpc' = "delete" /\ mi' = mi
      /\ UNCHANGED <<registered, upc, ui, bounds>>
  BY <1>0 DEF IsAlive, Ready
<1>3. MonitorTypeOK'
  BY <1>0, <1>1, <1>2, NextServiceIs DEF MonitorTypeOK, ThreadTypeOK, threadVars, Values
<1>4. OneThreadPerWorker'
  BY <1>1 DEF OneThreadPerWorker, threadVars
<1>5. \A i \in 1 .. Count : Ready(Services[i]) /\ Ready(Services[i])'
  BY <1>0, <1>1 DEF OthersAre, Watching, Monitored, Ready, threadVars
<1>6. MonitoredIs' /\ OthersAre'
  BY <1>0, <1>1, <1>2, <1>5, NextServiceIs
     DEF MonitoredIs, OthersAre, Monitored, Resting, Starting, Watching, threadVars, Values
<1>7. MonitorGone' /\ WaitedFor' /\ Registered'
  BY <1>0, <1>2 DEF MonitorGone, WaitedFor, Registered
<1> QED
  BY <1>3, <1>4, <1>6, <1>7

LEMMA RestartKeeps ==
    ASSUME LifeInv, Restart
    PROVE  LifeInv'
<1> USE DEF LifeInv, Restart, DeleteThreadObject, MonitorAt, MonitorGoes
<1>0. /\ Values /\ up /\ mpc = "delete" /\ registered = Count
      /\ m_ptrThread[Monitored] = "valid" /\ thread[Monitored] # "running"
  BY ValuesTyped DEF Registered, MonitoredIs, Ready, Resting
<1>1. /\ m_ptrThread' = [m_ptrThread EXCEPT ![Monitored] = "freed"]
      /\ UNCHANGED <<thread, strays, up>>
  BY <1>0 DEF Values
<1>2. MonitorTypeOK'
  BY <1>0, <1>1 DEF MonitorTypeOK, ThreadTypeOK, Values, Pointers
<1>3. OneThreadPerWorker'
  BY <1>1 DEF OneThreadPerWorker
<1>4. MonitoredIs'
  BY <1>0, <1>1 DEF MonitoredIs, Monitored, Resting, Values
<1>5. OthersAre'
  BY <1>0, <1>1, ServicesAre DEF OthersAre, Monitored, Ready, Starting, Watching, Values
<1>6. MonitorGone' /\ WaitedFor' /\ Registered'
  BY <1>0 DEF MonitorGone, WaitedFor, Registered
<1> QED
  BY <1>2, <1>3, <1>4, <1>5, <1>6

-----------------------------------------------------------------------------
\* Threads that end, by themselves or terminated, change nothing for the monitor.
ThreadsEnd ==
    /\ thread' \in [Worker -> Threads]
    /\ \A w \in Worker : \/ thread'[w] = thread[w]
                         \/ thread[w] = "running" /\ thread'[w] = "ended"
    /\ UNCHANGED <<m_ptrThread, strays, up, registered, mpc, mi>>

LEMMA EndsKeep ==
    ASSUME LifeInv, up, ThreadsEnd
    PROVE  /\ OneThreadPerWorker' /\ MonitoredIs' /\ OthersAre'
           /\ \A i \in 1 .. Count : Rests(Services[i]) => Rests(Services[i])'
<1> USE DEF LifeInv, ThreadsEnd
<1>0. Values
  BY ValuesTyped
<1>1. OneThreadPerWorker'
  BY DEF OneThreadPerWorker
<1>2. Monitored' = Monitored /\ Monitored \in Worker
  BY <1>0 DEF Monitored, Values
<1>3. MonitoredIs'
  BY <1>2 DEF MonitoredIs, Fresh, Ready, Resting
<1>4. OthersAre'
  BY <1>0, ServicesAre DEF OthersAre, Fresh, Ready
<1>5. \A i \in 1 .. Count : Rests(Services[i]) => Rests(Services[i])'
  BY ServicesAre DEF Rests
<1> QED
  BY <1>1, <1>3, <1>4, <1>5

LEMMA CrashKeeps ==
    ASSUME LifeInv, Crash, ui' \in 1 .. Count + 1,
           UNCHANGED <<registered, mpc, mi, upc, bounds>>
    PROVE  LifeInv'
<1>1. up' = FALSE /\ UNCHANGED <<m_ptrThread, thread, strays>>
  BY DEF Crash
<1>2. up' \in BOOLEAN
  BY <1>1, Zenon
<1>3. MonitorTypeOK'
  BY <1>1, <1>2 DEF LifeInv, MonitorTypeOK, ThreadTypeOK
<1> QED
  BY <1>1, <1>3 DEF LifeInv, OneThreadPerWorker

\* Logging leaves the workers as they are, or ends the process.
LEMMA LogKeeps ==
    ASSUME LifeInv, Log
    PROVE  LifeInv'
<1>0. Values /\ up /\ mpc = "log"
  BY ValuesTyped DEF LifeInv, Log, MonitorAt
<1>1. CASE Crash /\ MonitorGoes("log", mi)
  <2>1. ui' \in 1 .. Count + 1 /\ UNCHANGED <<registered, mpc, mi, upc, bounds>>
    BY <1>0, <1>1 DEF MonitorGoes, Values
  <2> QED
    BY <1>1, <2>1, CrashKeeps
<1>2. CASE UNCHANGED threadVars /\ MonitorGoes("register", mi)
  <2> USE <1>2 DEF MonitorGoes, LifeInv, threadVars
  <2>1. MonitorTypeOK' /\ OneThreadPerWorker'
    BY DEF MonitorTypeOK, ThreadTypeOK, OneThreadPerWorker
  <2>2. MonitoredIs' /\ OthersAre'
    BY <1>0 DEF MonitoredIs, OthersAre, Fresh, Starting, Watching
  <2>3. MonitorGone' /\ WaitedFor' /\ Registered'
    BY <1>0 DEF MonitorGone, WaitedFor, Registered, Rests
  <2> QED
    BY <2>1, <2>2, <2>3
<1> QED
  BY <1>1, <1>2 DEF Log

LEMMA WorkerReturnsKeeps ==
    ASSUME LifeInv, NEW w \in Worker, WorkerReturns(w)
    PROVE  LifeInv'
<1> USE DEF LifeInv, WorkerReturns, RunReturns
<1>0. Values /\ up
  BY ValuesTyped
<1>1. ThreadsEnd
  BY <1>0 DEF ThreadsEnd, Values, Threads
<1>2. MonitorTypeOK'
  BY <1>0, <1>1, ReturnsAssumption DEF MonitorTypeOK, ThreadTypeOK, ThreadsEnd
<1>3. /\ OneThreadPerWorker' /\ MonitoredIs' /\ OthersAre'
      /\ \A i \in 1 .. Count : Rests(Services[i]) => Rests(Services[i])'
  BY <1>0, <1>1, EndsKeep
<1>4. MonitorGone' /\ Registered'
  BY <1>0 DEF MonitorGone, Registered
<1>5. WaitedFor'
  <2>1. \A i \in 1 .. registered : i \in 1 .. Count
    BY <1>0, ServicesAre DEF Values
  <2> QED
    BY <1>3, <1>0, <2>1 DEF WaitedFor
<1> QED
  BY <1>2, <1>3, <1>4, <1>5

-----------------------------------------------------------------------------
LEMMA ConfirmKeeps ==
    ASSUME LifeInv, Confirm
    PROVE  LifeInv'
<1> USE DEF LifeInv, Confirm, WindowAt, WindowGoes, threadVars
<1>0. Values /\ up
  BY ValuesTyped
<1>1. MonitorTypeOK' /\ OneThreadPerWorker'
  BY <1>0, ServicesAre DEF MonitorTypeOK, ThreadTypeOK, OneThreadPerWorker
<1>2. MonitoredIs' /\ OthersAre'
  BY <1>0 DEF MonitoredIs, OthersAre, Monitored, Fresh, Ready, Resting
<1>3. MonitorGone' /\ WaitedFor' /\ Registered'
  BY <1>0 DEF MonitorGone, WaitedFor, Registered, Values
<1> QED
  BY <1>1, <1>2, <1>3

LEMMA TerminateWorkerKeeps ==
    ASSUME LifeInv, TerminateWorker
    PROVE  LifeInv'
<1> USE DEF LifeInv, TerminateWorker, WindowAt, WindowGoes
<1>0. Values /\ up /\ ui <= registered /\ Visited \in Worker /\ upc = "terminate"
  BY ValuesTyped DEF Values
<1>1. CASE ~Usable(Visited)
  <2>1. Crash
    BY <1>1 DEF Shutdown
  <2>2. ui' \in 1 .. Count + 1 /\ UNCHANGED <<registered, mpc, mi, upc, bounds>>
    BY <1>0, ServicesAre DEF Values
  <2> QED
    BY <2>1, <2>2, CrashKeeps
<1>2. CASE Usable(Visited)
  <2>1. ThreadsEnd
    BY <1>0, <1>2 DEF ThreadsEnd, Shutdown, Values, Threads
  <2>2. MonitorTypeOK'
    BY <1>0, <2>1, ServicesAre DEF MonitorTypeOK, ThreadTypeOK, ThreadsEnd, Values
  <2>3. OneThreadPerWorker' /\ MonitoredIs' /\ OthersAre'
    BY <1>0, <2>1, EndsKeep
  <2>4. MonitorGone' /\ WaitedFor' /\ Registered'
    BY <1>0 DEF MonitorGone, WaitedFor, Registered, Values
  <2> QED
    BY <2>2, <2>3, <2>4
<1> QED
  BY <1>1, <1>2

LEMMA TerminateMonitorKeeps ==
    ASSUME LifeInv, TerminateMonitor
    PROVE  LifeInv'
<1> USE DEF LifeInv, TerminateMonitor, WindowAt, threadVars
<1>0. Values /\ up
  BY ValuesTyped
<1>1. MonitorTypeOK' /\ OneThreadPerWorker'
  BY <1>0, ServicesAre DEF MonitorTypeOK, ThreadTypeOK, OneThreadPerWorker, Values
<1>2. MonitoredIs' /\ OthersAre'
  BY DEF MonitoredIs, OthersAre, Starting, Watching
<1>3. MonitorGone' /\ WaitedFor' /\ Registered'
  BY <1>0 DEF MonitorGone, WaitedFor, Registered, Values
<1> QED
  BY <1>1, <1>2, <1>3

\* A wait that ends has found the worker at rest.
LEMMA WaitForWorkerKeeps ==
    ASSUME LifeInv, WaitForWorker
    PROVE  LifeInv'
<1> USE DEF LifeInv, WaitForWorker, WindowAt, WindowGoes, threadVars
<1>0. Values /\ up /\ upc = "wait" /\ mpc = "terminated"
  BY ValuesTyped DEF MonitorGone
<1>1. CASE ui <= registered /\ ~Usable(Visited)
  <2>1. Crash
    BY <1>1 DEF GraceShutdown
  <2>2. ui' \in 1 .. Count + 1 /\ UNCHANGED <<registered, mpc, mi, upc, bounds>>
    BY <1>0, <1>1, ServicesAre DEF Values
  <2> QED
    BY <2>1, <2>2, CrashKeeps
<1>2. CASE ui <= registered /\ Usable(Visited)
  <2>1. /\ ~IsAlive(Visited) /\ UNCHANGED threadVars /\ upc' = "wait" /\ ui' = ui + 1
        /\ UNCHANGED <<registered, mpc, mi, bounds>>
    BY <1>2 DEF GraceShutdown
  <2>2. MonitorTypeOK' /\ OneThreadPerWorker'
    BY <1>0, <1>2, <2>1, ServicesAre DEF MonitorTypeOK, ThreadTypeOK, OneThreadPerWorker, Values
  <2>3. MonitoredIs' /\ OthersAre' /\ MonitorGone'
    BY <1>0, <2>1 DEF MonitoredIs, OthersAre, Starting, Watching, MonitorGone
  <2>4. Rests(Services[ui])
    BY <1>2, <2>1 DEF Rests, Usable, IsAlive, Visited
  <2>5. WaitedFor'
    <3>1. \A i \in 1 .. registered : i < ui \/ i = ui => Rests(Services[i])
      BY <1>0, <2>4 DEF WaitedFor
    <3>2. \A i \in 1 .. registered : i < ui + 1 => i < ui \/ i = ui
      BY <1>0 DEF Values
    <3>3. \A i \in 1 .. registered : i < ui' => Rests(Services[i])'
      BY <2>1, <3>1, <3>2 DEF Rests
    <3> QED
      BY <2>1, <3>3 DEF WaitedFor
  <2>6. Registered'
    BY <1>0, <1>2, <2>1 DEF Registered, Values
  <2> QED
    BY <2>2, <2>3, <2>5, <2>6
<1>3. CASE ~(ui <= registered)
  <2>1. /\ UNCHANGED <<threadVars, registered, mpc, mi, bounds>>
        /\ upc' = "delete" /\ ui' = 1
    BY <1>3
  <2>2. MonitorTypeOK' /\ OneThreadPerWorker'
    BY <1>0, <2>1, ServicesAre DEF MonitorTypeOK, ThreadTypeOK, OneThreadPerWorker, Values
  <2>3. MonitoredIs' /\ OthersAre' /\ MonitorGone'
    BY <1>0, <2>1 DEF MonitoredIs, OthersAre, Starting, Watching, MonitorGone
  <2>4. WaitedFor'
    BY <1>0, <1>3, <2>1 DEF WaitedFor, Rests, Values
  <2>5. Registered'
    BY <1>0, <2>1 DEF Registered, Values
  <2> QED
    BY <2>2, <2>3, <2>4, <2>5
<1> QED
  BY <1>1, <1>2, <1>3

LEMMA DeleteWorkerKeeps ==
    ASSUME LifeInv, DeleteWorker
    PROVE  LifeInv'
<1> USE DEF LifeInv, DeleteWorker, WindowAt, WindowGoes, threadVars
<1>0. Values /\ up /\ upc = "delete" /\ mpc = "terminated"
  BY ValuesTyped DEF MonitorGone
<1>1. CASE ui <= registered
  <2>1. Rests(Services[ui])
    BY <1>0, <1>1 DEF WaitedFor, Values
  <2>2. /\ m_ptrThread' = [m_ptrThread EXCEPT ![Visited] = "freed"]
        /\ UNCHANGED <<thread, strays, up, registered, mpc, mi, bounds>>
        /\ upc' = "delete" /\ ui' = ui + 1
    BY <1>0, <1>1, <2>1 DEF DeleteThreadObject, Rests, Visited, Values
  <2>3. MonitorTypeOK' /\ OneThreadPerWorker'
    BY <1>0, <1>1, <2>2, ServicesAre
       DEF MonitorTypeOK, ThreadTypeOK, OneThreadPerWorker, Values, Pointers
  <2>4. MonitoredIs' /\ OthersAre' /\ MonitorGone'
    BY <1>0, <2>2 DEF MonitoredIs, OthersAre, Starting, Watching, MonitorGone
  <2>5. WaitedFor'
    <3>1. ASSUME NEW i \in 1 .. registered, i >= ui + 1
          PROVE  Rests(Services[i])'
      <4>1. i \in 1 .. Count /\ ui \in 1 .. Count /\ i # ui /\ i >= ui
        BY <1>0, <1>1, <3>1, ServicesAre DEF Values
      <4>2. Rests(Services[i]) /\ Services[i] # Visited /\ Services[i] \in Worker
        BY <1>0, <4>1, ServicesAre DEF WaitedFor, Visited
      <4> QED
        BY <1>0, <2>2, <4>2 DEF Rests, Values
    <3> QED
      BY <2>2, <3>1 DEF WaitedFor
  <2>6. Registered'
    BY <1>0, <1>1, <2>2 DEF Registered, Values
  <2> QED
    BY <2>3, <2>4, <2>5, <2>6
<1>2. CASE ~(ui <= registered)
  <2>1. UNCHANGED <<threadVars, registered, mpc, mi, ui, bounds>> /\ upc' = "ended"
    BY <1>2
  <2>2. MonitorTypeOK' /\ OneThreadPerWorker'
    BY <1>0, <2>1 DEF MonitorTypeOK, ThreadTypeOK, OneThreadPerWorker
  <2>3. MonitoredIs' /\ OthersAre' /\ MonitorGone' /\ WaitedFor' /\ Registered'
    BY <1>0, <2>1 DEF MonitoredIs, OthersAre, Starting, Watching, MonitorGone, WaitedFor,
       Registered
  <2> QED
    BY <2>2, <2>3
<1> QED
  BY <1>1, <1>2

-----------------------------------------------------------------------------
LEMMA InitLife == MonitorInit => LifeInv
<1> SUFFICES ASSUME MonitorInit
             PROVE  LifeInv
  OBVIOUS
<1> USE DEF MonitorInit, ThreadInit
<1>1. MonitorTypeOK
  BY ServicesAre, ReturnsAssumption DEF MonitorTypeOK, ThreadTypeOK, Pointers, Threads
<1>2. OneThreadPerWorker
  BY DEF OneThreadPerWorker
<1>3. MonitoredIs /\ OthersAre /\ MonitorGone /\ WaitedFor /\ Registered
  BY ServicesAre DEF MonitoredIs, OthersAre, Fresh, Starting, Watching, MonitorGone,
     WaitedFor, Registered
<1> QED
  BY <1>1, <1>2, <1>3 DEF LifeInv

LEMMA StutterLife ==
    ASSUME LifeInv, UNCHANGED vars
    PROVE  LifeInv'
BY DEF vars, threadVars, LifeInv, MonitorTypeOK, ThreadTypeOK, OneThreadPerWorker, MonitoredIs,
       OthersAre, MonitorGone, WaitedFor, Registered, Fresh, Ready, Resting, Rests, Monitored

LEMMA NextLife == LifeInv /\ [MonitorNext]_vars => LifeInv'
<1> SUFFICES ASSUME LifeInv, [MonitorNext]_vars
             PROVE  LifeInv'
  OBVIOUS
<1>1. CASE UNCHANGED vars
  BY <1>1, StutterLife
<1>2. CASE Monitor
  BY <1>2, LogKeeps, RegisterKeeps, NewObjectKeeps, CreateKeeps, StoreKeeps, CheckKeeps, RestartKeeps
     DEF Monitor
<1>3. CASE Window
  BY <1>3, ConfirmKeeps, TerminateWorkerKeeps, TerminateMonitorKeeps, WaitForWorkerKeeps,
     DeleteWorkerKeeps DEF Window
<1>4. ASSUME NEW w \in Worker, WorkerReturns(w)
      PROVE  LifeInv'
  BY <1>4, WorkerReturnsKeeps
<1>5. CASE CreateFails
  BY <1>5, CreateFailsKeeps
<1> QED
  BY <1>1, <1>2, <1>3, <1>4, <1>5 DEF MonitorNext

\* The inductive invariant holds of every behaviour: what the monitor has found of its
\* workers, and TerminateApp of the threads it ends, stays so (InstanceMonitor.cpp:30-70).
THEOREM LifeInvariant == MonitorSpec => []LifeInv
<1>1. MonitorInit => LifeInv
  BY InitLife
<1>2. LifeInv /\ [MonitorNext]_vars => LifeInv'
  BY NextLife
<1> QED
  BY <1>1, <1>2, PTL DEF MonitorSpec

\* The threads' and the monitor's variables keep their types, the indices into the list
\* of workers among them (InstanceMonitor.cpp:41-70).
THEOREM LifeTyped == MonitorSpec => []MonitorTypeOK
<1>1. LifeInv => MonitorTypeOK
  BY DEF LifeInv
<1> QED
  BY <1>1, LifeInvariant, PTL

\* InstanceMonitor.cpp:59-67, ManagedThread.cpp:68-90: no worker has two threads, however
\* many workers there are and whenever they end.
THEOREM OneThread == MonitorSpec => []OneThreadPerWorker
<1>1. LifeInv => OneThreadPerWorker
  BY DEF LifeInv
<1> QED
  BY <1>1, LifeInvariant, PTL

\* InstanceMonitor.cpp:30-39, bbt.cpp:73-78: a worker that theApp's destructor deletes has
\* no thread that runs, but for one whose handle was never stored.
THEOREM DeletedRest == MonitorSpec => []DeletedWorkersRest
<1>1. LifeInv => DeletedWorkersRest
  <2> SUFFICES ASSUME LifeInv, up, upc = "delete", NEW i \in ui .. registered,
                      thread[Services[i]] = "running"
               PROVE  m_ptrThread[Services[i]] = "wild"
    BY DEF DeletedWorkersRest
  <2>1. Values
    BY ValuesTyped DEF LifeInv
  <2>2. i \in 1 .. registered /\ i >= ui
    BY <2>1 DEF Values
  <2> QED
    BY <2>2 DEF LifeInv, WaitedFor, Rests
<1> QED
  BY <1>1, LifeInvariant, PTL

=============================================================================
