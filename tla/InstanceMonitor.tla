-------------------------- MODULE InstanceMonitor --------------------------
(***************************************************************************)
(* The application's life: the monitor thread, which registers, starts and  *)
(* keeps alive the workers (CInstanceMonitor::AppStart), and the window's   *)
(* thread, which at the user's word terminates the workers and the monitor  *)
(* and leaves WinMain, whereupon the global theApp is destroyed.  The two   *)
(* share m_listThreads and the workers without any lock.  What the workers   *)
(* do is not modelled here, but that a Run may return.                       *)
(***************************************************************************)
EXTENDS ManagedThread

CONSTANTS Services,    \* the workers in the order AppStart registers them
          MayReturn,   \* the workers whose Run can return
          MaxReturns,  \* bound: times they do
          MaxFailures  \* bound: times ::CreateThread fails

ASSUME ServicesAssumption ==
    /\ Services \in Seq(Worker) /\ Services # <<>>
    /\ Worker = {Services[i] : i \in DOMAIN Services}
    /\ \A i, j \in DOMAIN Services : i # j => Services[i] # Services[j]
ASSUME ReturnsAssumption == MayReturn \subseteq Worker /\ {MaxReturns, MaxFailures} \subseteq Nat

VARIABLES
  registered,          \* m_listThreads is the first so many services
  mpc, mi,             \* the monitor thread: step, vi
  upc, ui,             \* the window's thread: step, vi
  returns,             \* times a Run has returned
  failures             \* times ::CreateThread has failed

bounds == <<returns, failures>>
vars == <<threadVars, registered, mpc, mi, upc, ui, bounds>>

Count == Len(Services)
Monitored == Services[mi]
Visited == Services[ui]

-----------------------------------------------------------------------------
(* The monitor thread: AppStart.                                            *)

MonitorAt(l) == up /\ mpc = l
MonitorGoes(l, i) == mpc' = l /\ mi' = i /\ UNCHANGED <<registered, upc, ui, bounds>>

\* LOGSVREVENT opens the database and inserts a row, waiting up to a minute for
\* another process's lock; an exception of it is caught by nobody and ends the
\* process.
Log ==
    /\ MonitorAt("log")
    /\ \/ UNCHANGED threadVars /\ MonitorGoes("register", mi)
       \/ Crash /\ MonitorGoes("log", mi)

\* push_back: the vector may move under an iteration of the window's thread.
Register ==
    /\ MonitorAt("register")
    /\ registered' = registered + 1
    /\ mpc' = IF registered' = Count THEN "new" ELSE "register"
    /\ mi' = 1
    /\ up' \in IF upc = "terminate" THEN BOOLEAN ELSE {TRUE}
    /\ UNCHANGED <<m_ptrThread, thread, strays, upc, ui, bounds>>

\* The three steps of Start and Restart, first for the starting loop, then for
\* the watching one.
NewObject ==
    /\ MonitorAt("new") \/ MonitorAt("renew")
    /\ NewThreadObject(Monitored)
    /\ MonitorGoes(IF mpc = "new" THEN "create" ELSE "recreate", mi)

Create ==
    /\ MonitorAt("create") \/ MonitorAt("recreate")
    /\ CreateThread(Monitored)
    /\ MonitorGoes(IF mpc = "create" THEN "store" ELSE "restore", mi)

\* ::CreateThread fails: nobody looks at the NULL it returns, which is stored as
\* the handle and found not alive.
CreateFails ==
    /\ MonitorAt("create") \/ MonitorAt("recreate")
    /\ failures < MaxFailures /\ failures' = failures + 1
    /\ NoThread(Monitored)
    /\ mpc' = IF mpc = "create" THEN "store" ELSE "restore"
    /\ UNCHANGED <<registered, mi, upc, ui, returns>>

NextServiceUnwrapped == mi + 1

NextService == IF mi < Count THEN mi + 1 ELSE 1

Store ==
    /\ MonitorAt("store") \/ MonitorAt("restore")
    /\ StoreHandle(Monitored)
    /\ MonitorGoes(IF mpc = "store" /\ mi < Count THEN "new" ELSE "check", NextService)

\* if(!(*vi)->IsAlive()) (*vi)->Restart(); the Sleep between two rounds has no
\* step of its own.
RestartAlways ==
    /\ MonitorAt("check")
    /\ IF ~Usable(Monitored) THEN Crash ELSE UNCHANGED threadVars
    /\ MonitorGoes("delete", mi)

WatchFirstOnly ==
    /\ MonitorAt("check")
    /\ IF ~Usable(Monitored) THEN Crash ELSE UNCHANGED threadVars
    /\ IF IsAlive(Monitored) THEN MonitorGoes("check", 1)
                             ELSE MonitorGoes("delete", mi)

Check ==
    /\ MonitorAt("check")
    /\ IF ~Usable(Monitored) THEN Crash ELSE UNCHANGED threadVars
    /\ IF IsAlive(Monitored) THEN MonitorGoes("check", NextService)
                             ELSE MonitorGoes("delete", mi)

Restart ==
    /\ MonitorAt("delete")
    /\ DeleteThreadObject(Monitored)
    /\ MonitorGoes("renew", mi)

Monitor == Log \/ Register \/ NewObject \/ Create \/ Store \/ Check \/ Restart

-----------------------------------------------------------------------------
(* The window's thread.                                                     *)

WindowAt(l) == up /\ upc = l
WindowGoes(l, i) == upc' = l /\ ui' = i /\ UNCHANGED <<registered, mpc, mi, bounds>>

\* The user confirms the question of WM_CLOSE or of the tray icon, or the
\* window is destroyed: TerminateApp.
Confirm == /\ WindowAt("messages")
           /\ WindowGoes("terminate", 1)
           /\ UNCHANGED threadVars

\* theApp.Shutdown(), as far as m_listThreads has got.
TerminateWorker ==
    /\ WindowAt("terminate") /\ ui <= registered
    /\ Shutdown(Visited)
    /\ WindowGoes("terminate", ui + 1)

\* TerminateThread(hThread, 0); PostQuitMessage ends the message loop, WinMain
\* returns and theApp's destructor begins.
LeaveMonitorRunning ==
    /\ WindowAt("terminate") /\ ui > registered
    /\ upc' = "wait" /\ ui' = 1
    /\ UNCHANGED <<threadVars, registered, mpc, mi, bounds>>

TerminateMonitor ==
    /\ WindowAt("terminate") /\ ui > registered
    /\ upc' = "wait" /\ ui' = 1
    /\ mpc' = "terminated"
    /\ UNCHANGED <<threadVars, registered, mi, bounds>>

\* ~CInstanceMonitor: GraceShutdown of every worker, then delete it.
WaitForWorker ==
    /\ WindowAt("wait")
    /\ IF ui <= registered THEN GraceShutdown(Visited) /\ WindowGoes("wait", ui + 1)
                           ELSE UNCHANGED threadVars /\ WindowGoes("delete", 1)

DeleteWorker ==
    /\ WindowAt("delete")
    /\ IF ui <= registered THEN DeleteThreadObject(Visited) /\ WindowGoes("delete", ui + 1)
                           ELSE UNCHANGED threadVars /\ WindowGoes("ended", ui)

Window == Confirm \/ TerminateWorker \/ TerminateMonitor \/ WaitForWorker \/ DeleteWorker

WorkerReturns(w) ==
    /\ up /\ w \in MayReturn /\ returns < MaxReturns
    /\ RunReturns(w)
    /\ returns' = returns + 1
    /\ UNCHANGED <<registered, mpc, mi, upc, ui, failures>>

-----------------------------------------------------------------------------
MonitorInit ==
    /\ ThreadInit
    /\ registered = 0 /\ mpc = "log" /\ mi = 1
    /\ upc = "messages" /\ ui = 1 /\ returns = 0 /\ failures = 0

MonitorNext == Monitor \/ CreateFails \/ Window \/ \E w \in Worker : WorkerReturns(w)

\* The scheduler runs both threads; the user need not quit, no Run need return and
\* no ::CreateThread need fail.
MonitorSpec ==
    /\ MonitorInit /\ [][MonitorNext]_vars
    /\ WF_vars(Monitor)
    /\ WF_vars(TerminateWorker \/ TerminateMonitor \/ WaitForWorker \/ DeleteWorker)

-----------------------------------------------------------------------------
MonitorTypeOK ==
    /\ ThreadTypeOK
    /\ registered \in 0 .. Count
    /\ mi \in 1 .. Count /\ ui \in 1 .. Count + 1
    /\ mpc \in {"log", "register", "new", "create", "store", "check", "delete", "renew",
                "recreate", "restore", "terminated"}
    /\ upc \in {"messages", "terminate", "wait", "delete", "ended"}
    /\ returns \in 0 .. MaxReturns /\ failures \in 0 .. MaxFailures

\* No worker ever has two threads, however its end, a restart and the quitting
\* user come together: Run is not written to be run twice at a time
\* (InstanceMonitor.cpp:59-67, ManagedThread.cpp:68-90).
OneThreadPerWorker == \A w \in Worker : strays[w] = 0

\* A worker that theApp's destructor is about to delete has no running thread,
\* which would go on using it -- but for one whose handle the monitor had not
\* stored yet when it was terminated (InstanceMonitor.cpp:30-39, bbt.cpp:73-78,
\* ManagedThread.cpp:34-42).
DeletedWorkersRest ==
    up /\ upc = "delete" =>
      \A i \in ui .. registered :
        thread[Services[i]] = "running" => m_ptrThread[Services[i]] = "wild"

\* InstanceMonitor.cpp:58, "Main loop: Monitor workers and keep alive.": a
\* worker that is not running is started again, until the user quits, whatever its
\* Run and ::CreateThread did -- unless the process ends of the monitor's first log
\* entry, before any worker is started (InstanceMonitor.cpp:43).
KeepAlive ==
    \A w \in Worker :
      thread[w] # "running" ~> \/ thread[w] = "running"
                               \/ upc # "messages"
                               \/ ~up /\ mpc = "log"

\* bbt.cpp:103 and 134, "Are you sure to quit Health Monitor?": when the user has
\* confirmed it, the program ends.
QuitEnds == upc = "terminate" ~> upc = "ended" \/ ~up

=============================================================================
