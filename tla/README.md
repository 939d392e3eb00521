# Blueplus: a model of the Bluetooth monitor

Blueplus is a Windows program that watches for Bluetooth devices with a serial
service, keeps a registry of them, connects a handler thread to each, and runs
a Bluetooth server of its own. It is a handful of threads that share singletons,
a `std::map` of heap objects, one mutex that the program never creates, and
blocking sockets. The modules here model what those threads do to the shared
state; TLC checks the modules on small instances, and TLAPS proves what they
promise for any number of threads, addresses, devices and clients (section 5).

File names without a directory are under `src/`.

## 1. The system

| Part | State | Operations | Speaks to |
|---|---|---|---|
| Registry: `CBTDeviceManager` as an object (`BTDeviceManager.cpp`, `.h`) | `m_mapBTDevice`, the `CBTDevice` objects it points to, `m_hMutex` | `RegisterDevice`, `UpdateDevice`, `UpdateServices`, `UnregisterDevice` (two each), `GetDeviceConnStatus`, `ListDevices` | called by the detector, the manager's thread, the tests |
| Manager thread: `CBTDeviceManager::Run` | its iterator, `eraseList`, `CBTDevice::m_pSockHandler` | a pass every second: start a handler thread for a device with services, reap ended ones | registry, handler threads |
| Discovery callback: `CBTDeviceMgrBTHandler` | none | `OnDeviceDiscovered`, `OnServiceDiscovered` | called inside an inquiry; registry, `CBlueTooth` |
| Handler thread: `CDevMgrBTHandlerThread` | its `m_pSocket` | connect, beacon, receive and echo until `Recveive` returns -1 | socket |
| Socket: `CBlueToothSocket` (`BlueToothSocket.cpp`) | `m_socket`, `m_iStatus`, `m_pHandler` | `Create`, `Connect`, `Bind`, `Listen`, `Accept`, `Recveive`, `Send` | Winsock; calls its handler back |
| Server: `CBTServer`, `CBTServerHandler` (`BTServer.cpp`) | listening socket, `m_lastBuff` | `Run`, `OnAccept`, the handlers' `Run`, `OnReceive` | socket |
| Bluetooth: `CBlueTooth` (`BlueTooth.cpp`) | `m_instance`, `m_hDeviceLookup`, `m_pHandler`, `m_bBluetoothStackPresent` | `InitializationStatus`, `RunDeviceInquiry`, `RunSearchServices`, `RegisterHandler` | Winsock; calls the discovery callback |
| Detector: `CBTDeviceDetector` | none | its loop | `CBlueTooth` |
| Managed threads: `framework/ManagedThread.cpp` | `m_ptrThread` and its `m_hThread` | `Start`, `Restart`, `IsAlive`, `Shutdown`, `GraceShutdown` | kernel threads |
| Life cycle: `CInstanceMonitor`, `bbt.cpp` | `m_listThreads` | `AppStart` (start and keep alive), `Shutdown`, `GraceShutdown`, the destructor, `TerminateApp` | managed threads |
| Storage: `framework/PersistentStorage.cpp` | `m_instance`, its connection `m_db`, its query `m_rs` | `GetInstance`, `InsertTimedValues`, `GetLastRecord`, `NextRecord`, `GetRecord` | the wrapper; called by handler threads through `Utils::LogEvent` (`BTDeviceManager.cpp:68`) and by the unit tests |
| SQLite wrapper: `db/CppSQLite3U.cpp` | `CppSQLite3Query`: `mpVM`, `mbEof` | `open`, `execQuery`, `operator=`, `nextRow`, `finalize` | SQLite: the file's locks, one mutex per connection |

Left aside altogether: what the storage does not use of SQLite and its wrapper
(vendored), Google Test, the generated documentation, `Utils` but for `LogEvent`,
`BTHandler.cpp` (not in the project file) and `LocalMessage` (used by nothing).

### What is hard here

* **A mutex nobody creates.** `GetInstance` calls the constructor that leaves
  `m_hMutex` uninitialised (`BTDeviceManager.h:73, 91-96`); the one that calls
  `CreateMutex` is called by nothing. All exclusion in the program is void.
* **A mutex that would leak.** A successful `RegisterDevice` and an
  `UnregisterDevice` of an unknown address return without `ReleaseMutex`. With a
  real mutex the exclusion survives this only because Win32 mutexes recurse and
  are abandoned when their owner ends; an owner that does not end keeps everybody out.
* **Searches without the mutex**, beside an `erase()` that frees nodes of the tree they walk.
* **Decisions on what was read before**: finds made before the wait, iterators and
  device pointers kept over unlocked stretches, two status queries for one question.
* **Objects used while they are built**: `m_hThread` assigned after the thread
  runs, `m_pSocket` assigned by the handler's own thread.
* **Signed and unsigned**: `Send` counts a failed `send()` as `(size_t)-1` bytes.
* **Half-done operations**: reads that fail after some bytes, partial sends,
  retries with different errors, exits of the service search that keep handles.
* **A database cursor everybody shares**: logging an event replaces the query that others
  read, handler threads do so at once and without a lock, an open query keeps other processes
  out, and no exception of the wrapper is caught.
* **Streams taken for messages**: the server's handler receives once, whatever has arrived by then.
* **Failures nobody looks at**: of `Accept` (which returns `INVALID_SOCKET`, not 0), `CreateThread`, and
  the monitor's own first log entry.
* **Two threads that end the program against each other**: the one that keeps
  workers alive and the one that terminates them.

`PROJECT.json` lists each hazard at its line with the properties that cover it.

## 2. The modules

```
Win32Mutex <- DeviceRegistry <- DeviceRegistryRefinement ..implements.. DeviceSet
                    ^    ^----- DeviceRegistry_proofs
                    |---------- DevMgrUnitTest <- DevMgrUnitTest_proofs
                    '---------- DeviceManager (<- DeviceManager_proofs) -> HandlerStates <- HandlerLife
                                                                                               : implements
BlueToothSocket <- DeviceHandlerThread (<- DeviceHandlerThread_proofs) ........................'
      ^----------- BTServer <- BTServer_proofs
ManagedThread <- InstanceMonitor <- InstanceMonitor_proofs
BlueTooth <- BlueTooth_proofs
CppSQLite3U <- PersistentStorage ..implements.. EventLog
                    ^----- PersistentStorage_proofs
```

`MC*` modules give the constants their values for TLC.

**Win32Mutex** models the mutex as the code uses it: owner and recursion count, release
by a non-owner without effect, abandonment. `HasMutex` tells the two
constructors apart; `FALSE` is the program's manager, whose waits return at once.

**DeviceRegistry** has a program counter per calling thread and one action per step of each
operation, cut where another thread can come in: at waits, around unlocked
finds, and in the middle of the two operations that relink tree nodes. A search is one step; beside an
insertion it may miss its key, and beside an `erase()`, which frees a node it may be at, it
may answer anything or end the process, with the mutex or without (`find_race`).
`m_mapBTDevice`, `live`, `m_addrBth` and `m_listService` are the map, the heap
and the fields that matter (name, class and the like are only printed);
`arg`, `obj`, `ret` are a call's parameter, device and result. Two overlapping
relinks are undefined behaviour: the second may work on the nodes as it saw them
(`snap`), and `fault` remembers that it happened. `operator[]` of a missing key
inserts a NULL entry, as in C++; that insertion, unlike `RegisterDevice`'s, is one step.

**DeviceSet** is the abstract registry: a set of addresses on which every call
acts at one instant, but for what it says of searches beside an unregistration, which may be wrong or
break the process. **DeviceRegistryRefinement** has the mapping;
that every step respects it is proved in `DeviceRegistry_proofs`, which extends it.

**DevMgrUnitTest** is the two multi-threaded unit tests
(`BTDeviceManager.cpp:350-416`) as a main thread and workers on DeviceRegistry. They begin either
alone, with a free mutex, or after the two tests before them (329-347), which leave the
map empty and a real mutex with the main thread, twice over (`AfterFirstTests`).

**HandlerStates** and **HandlerLife** state the life of a handler thread as its manager sees
it, the first as a relation, the second as a specification with fairness.

**DeviceManager** is the program's monitor: the detector's callback, the manager's
walk and the handler threads, all on DeviceRegistry without a mutex. The
inquiry is an input here: any address, paired or not, with services or not, or with services that
are not reported. Three simplifications: assigning `m_pSockHandler` and starting its thread is one step
(167-168; only the manager looks at whether a handler runs), the iterator's `mit++` beside an
insertion may pass over entries but is one step, and an entry erased and inserted again counts as
the one the iterator was at.

**BlueToothSocket** has the operations of a socket as actions with a continuation label, so that
the threads that use one compose them; the kernel's side is a link, an incoming and an
outgoing byte queue. `SizeMod` is the width of `size_t`.
`Close` and `RecveiveChar` are called by nothing and left out; so is the branch for a `recv()` of 0
bytes (391-401), which cannot be taken where bytes were seen to be available.

**DeviceHandlerThread** is the handler thread with its device at the other end. It implements
`HandlerLife`, which closes the gap between it and DeviceManager.

**BTServer** has the server's thread, its handlers, clients like the unit test's,
and the kernel's backlog, also that of descriptors an earlier run has leaked. A connection is a
stream: `Carry` delivers any part of what is on its way (`Pieces`). `AcceptFails` is an `accept()`
that fails, after which `Run` goes on with another handler.

**ManagedThread** and **InstanceMonitor** model the workers and the two threads that rule them.
`m_ptrThread` is `"wild"` between `new` and the assignment of `m_hThread`. The monitor begins with its
log entry (`InstanceMonitor.cpp:43`), which may end the process; `CreateThread` may fail. What ends
the process from inside a worker is left to the workers' own modules.

**BlueTooth** has the detector's loop, the inquiry, the callback and, in it, the
service search with each of its exits; the manager's thread takes part for
its `RegisterHandler` at start. The registry is three states per address.

**CppSQLite3U** is the wrapper with what matters of SQLite below it: connections with their
statements (a SELECT by the row it stands at, an INSERT by its key), the one write lock,
shared locks held by SELECTs at a row, and query objects that own statements.
`writer = c` is the stepping of an INSERT on `c`, which keeps the connection's mutex
throughout (`MutexFree`). Stepping a statement that has ended begins it again:
SQLite 3.7.4 resets it by itself. Row and lock are taken in one step by a SELECT
and in two by an INSERT, so that the wait for readers (up to 60 seconds) is a state.

**PersistentStorage** has the threads: loggers, the threads of one program, of which the monitor's logs
its first entry alone (`InstanceMonitor.cpp:43` comes before the others are started),
and readers, each the one thread of a process of unit tests. `call` is what a thread is in:
`GetInstance` (the test for NULL and the assignment are two steps), the statement's
compilation, its stepping, and the three steps of `m_rs = ...` (`ReadsOld`,
`FinalizesOld`, `TakesOver`), between which other threads come in. A storage object
and its connection are one value of `Conn`. `sqlite3_finalize` and
`mpVM = 0` are one step. Finalizing a handle twice has no effect, as
SQLite mostly finds out (`vdbeSafety`), unless the address has been used again: then
it hits another thread's statement. `GetRecord` and `GetLastRecord` change nothing and are operators.
`ProcessEnds` is exit, kill and uncaught exception, at any point. **EventLog**
is what callers may rely on.

## 3. The runs

| Run | Module, configuration | What it shows |
|---|---|---|
| `registry` | MCDeviceRegistry | With its mutex the manager keeps exclusion in spite of the leaked locks (`MutualExclusion`), a sound map (`MapSound`), every device in one place (`NoDeviceLost`), no fault but that of searches made without it: beside an erasure, or the NULL dereference after a stale one (`OnlyFindsGoWrong`); callers see one atomic set as long as no such search goes wrong (`ImplementsDeviceSet`). |
| `unit_tests` | MCDevMgrUnitTest | The multi-threaded tests, against a manager with its mutex, have the results they assert (`AllRegistered`, `AllUnregistered`). Run alone they end; after the tests of the main thread they never do (`TestsEnd`). |
| `unit_tests_get_instance` | MCDevMgrUnitTestGetInstance.cfg | *Violation*: against the manager `GetInstance` makes, an address can be missing. |
| `monitor` | MCDeviceManager | What survives without a mutex: no device points to a deleted handler or shares one, and only failed searches orphan one (`HandlersSound`), a device that stays connected is not un-paired, unless the manager erases an entry meanwhile (`ConnectedKeepsPairing`). |
| `monitor_live` | MCDeviceManagerLive.cfg | Ended handlers are reaped (`EndedHandlerIsReaped`), devices with services get a handler (`ServicesGetAHandler`). |
| `handler_thread` | MCDeviceHandlerThread | Bytes read are handed over once and in order (`HandedOver`), result and status agree (`EndMatchesStatus`), `Send` ends with the length or -1 (`SendEndsExactly`), a broken link ends the thread (`BrokenLinkEndsThread`), and the thread lives the life DeviceManager assumes (`ImplementsHandlerLife`). |
| `server` | MCBTServer | Each handler object serves one connection (`HandlerServesOne`) and receives a beginning of its own client's message (`NoCrossTalk`), through restarts, failed accepts and deliveries in pieces; something of every message sent is received, save for what a restart drops (`EveryMessageReceived`). |
| `server_test` | MCBTServerTest.cfg | *Violation*: where `send()` may take a part of the message, the server's test can fail (`TestReceives`). |
| `lifecycle` | MCInstanceMonitor | No worker has two threads (`OneThreadPerWorker`), a deleted worker has none (`DeletedWorkersRest`), dead workers are started again until the user quits, unless the first log entry has ended the process (`KeepAlive`). |
| `lifecycle_quit` | MCInstanceMonitorQuit.cfg | *Violation*: quitting may wait for a worker for ever (`QuitEnds`). |
| `inquiry` | MCBlueTooth | A search leaves behind at most one socket and one handle (`LeaksBounded`), a device with a serial service is served by its search (`DiscoveredIsServed`), the detector keeps inquiring, never turned away for good by its own guard (`KeepsInquiring`; that the guard never rejects, `GuardNeverRejects`, is proved for all constants). |
| `storage` | MCPersistentStorage | What was logged stays in the table, whatever assignments overlap and processes end, as long as no freed handle is finalized (`ImplementsEventLog`); no process makes two storage objects, although nothing locks `GetInstance` (`OneStorage`); the statements are owned, and those leaked hold no lock (`StatementsOwned`); a storage object that has logged reads no more (`InsertionEndsReading`); a reader gets every row but the first, once and in order, of the table as it was (`ReadsForward`, `ReadsToTheEnd`), and its own last event, with an id that fits into an int (`ReadsBack`). |

The configurations with `CHECK_DEADLOCK FALSE` are those of systems that stop or
may wait for ever: the server waits for connections, the application ends, the table is full,
the tests' workers wait for a mutex the main thread keeps.

### Bounds

* *Registry:* three threads, one address, three heap cells (as many as three
  registrations can hold at once). Operations of one address are what interferes;
  addresses meet only in the relinking of the tree, and there any two calls do,
  of one address or of two. `MaxDepth = 2` begins no call at recursion
  count 2 or above: one leaked lock is recursed into, and leaked on top of.
  Threads are interchangeable, hence the symmetry (the run has no liveness property).
  `MaxFaults` does not count searches beside an erasure: the process may survive any number of them.
* *Unit tests:* two registering and four unregistering threads for
  two addresses; the tests use ten and more of the same. Against the manager without a mutex
  `MaxFaults = 2` lets the process survive both of two overlapping insertions, each of which is
  undefined behaviour; with the mutex no fault occurs in these tests. `MaxDepth = 3` is above the count
  of two that the first tests leave.
* *Monitor:* two addresses, three discoveries, three cells, two handlers: one
  address is discovered twice while the other is in the map, and a cell and a handler are
  used again. `MaxFaults = 0` ends the process at its first fault other than a search beside an erasure, after
  which no guarantee is left to check. Cells and handlers are interchangeable. The liveness run has one address. `MaxFound` bounds discoveries: after
  the last, what remains must still settle.
* *Handler thread:* four bytes from the device, every split of `recv()` and `send()`,
  `size_t` of 8 values (a message and (size_t)-1 are far apart), three retries of the program's ten.
* *Server:* two clients, with messages of two bytes and of one, two starts of the server, and a failure of
  `accept()` while there are fewer than `MaxHandlers = 2` handlers; a stream that delivers in pieces. `send()`
  takes the whole message in this run; `server_test` has the other case, with whole deliveries.
* *Life cycle:* the three workers in the order `AppStart` registers them, of which the server can
  return (the others' loops do not), twice; two failures of `CreateThread`. `lifecycle_quit` has none.
* *Inquiry:* two devices, one of them with a serial service; three descriptors, so that leaked
  sockets do run out; one call into Winsock that fails for no reason, at any place.

* *Storage:* two threads of one program (each stands for one of the program's threads after another,
  the monitor's first) and one reader in its own process, which
  also logs; a table of up to five rows of which any number is there at the start, so that a
  reading has a first, a middle and a last row; three storage objects, so that one of the two processes
  ends and starts again; six events and storage objects together (`MaxWork`); three
  statements per connection (the one in `m_rs` and one per logger); ints of four values.
  Threads of the program and handles are interchangeable. In these bounds handles are finalized
  twice, used again after that, left dangling in `m_rs` and leaked. They reach the loss of an event
  too: without `misused`, TLC finds `ImplementsEventLog` violated.

### Fairness

Weak fairness for every thread of the program: Windows schedules a ready thread
sooner or later, and each of the modelled loops polls and sleeps. None for users, devices,
radio and clients, with these exceptions, which are the kernel's: bytes accepted by
`send()` are carried (`Carry`), and a call on a broken or unconnected link returns. No failure is
fair: `accept()`, `CreateThread` and the log entry may fail, or not.
A handler whose connection lasts may wait for ever in `select()`, and the
fairness of its thread is cut accordingly (`FairMonitorSpec`, `HandlerSpec`).

### Assumptions about the world

WSAStartup succeeds. `WSALookupServiceEnd` closes its handle. Freed memory may
read as it was or as anything; a thread that returns from such an access goes on with
the values it had, or the process dies. A dereference of NULL ends the process.
In the life cycle, an access to a freed thread object ends the process (a bound).
An `accept()` that failed for ever would serve nobody: `MaxHandlers` bounds its failures, and `MaxFailures` those of
`CreateThread`. The table `events` exists. SQLite is built with its default `SQLITE_THREADSAFE`.
A reader that gets in after an INSERT has its reserved lock and before it wants the exclusive one
is as if it had come before the INSERT; reads that meet a waiting writer wait. Stepping a
statement another thread has finalized fails, or ends the process.

## 4. Findings

1. `BTDeviceManager.h:73`: the manager the program uses has no mutex; the unit
   test's assertion at `BTDeviceManager.cpp:380` can fail (`unit_tests_get_instance`).
2. `BlueToothSocket.cpp:437`: after a partial `send()`, `Send` starts again at the
   front of the buffer (`server_test`).
3. `bbt.cpp:75`: quitting terminates the workers before the thread that keeps them alive,
   which may start one again; the destructor then waits for it for ever (`lifecycle_quit`).

What the modules also have, with no text in the repository to contradict it: the NULL
dereference after a stale find (`BTDeviceManager.cpp:256-263`), searches that walk what `erase()` frees
(201, 233, 256, 279 against 292), the server's handler that receives once and so has only a part of a
message that arrives in pieces (`BTServer.cpp:49`; the test's assertion at 121 fails then, as TLC shows with
`Pieces = TRUE`), the read of
`m_pSocket` before the handler's thread has set it (`BTDeviceManager.h:48`), the leak
of a socket per service search (`BlueTooth.cpp:441`), and the handler orphaned by
a failed search (`BTDeviceManager.cpp:45`). In the storage: `NextRecord` after an
insertion writes the event again (`PersistentStorage.cpp:71`: `m_rs` is the INSERT), `NextRecord`
after the end starts the SELECT again and takes its lock again, although `eof` stays TRUE; two processes
that both log at first wait for each other, until one's 60 seconds are over and the exception ends it
(`:27`); overlapping assignments to `m_rs` (`:45`) finalize statements twice
and leave `m_rs` pointing to freed ones: where the second finalization hits a handle
that is in use again, a third call's INSERT is gone before its step, and that `LogEvent` may return
without its event in the table (`acked` excepts the object, by `misused`); the test's reading loop (`:100`) never sees the first row;
and `event_id` is cut to an int (`:59`).

## 5. The proofs

`DeviceRegistry_proofs` proves, for every set of threads, addresses and heap
cells and every bound:

* `TypeCorrect`: `Spec => []TypeOK`. Inductive as `Typed`: an owned mutex has a
  positive count (or `ReleaseMutex` would leave the naturals) and a thread in a call has an address.
* `Exclusive` (given `HasMutex`): `Spec => []MutualExclusion`. The invariant is
  inductive together with `Typed`; each wait makes the caller the owner, each release keeps or frees it, and
  no step takes the mutex from a thread that is inside a call, since only an idle thread ends.
* `MapIsSound`, `ErrorsAreOfFinds`, `DevicesAccountedFor` (given `HasMutex`):
  `[]MapSound`, `[]OnlyFindsGoWrong`, `[]NoDeviceLost`. They need one another; the inductive
  invariant is `HeapInv`: what a thread has found out about the map stays true while it is
  between wait and release (`Knows`); a NULL entry exists only for an update that is about
  to dereference it (`NullEntries`); linked entries are allocated and under their own address
  (`Entries`); a device belongs to one creating call or to one entry (`Created`,
  `CreatedOnce`, `Placed`).
  `Alone` turns `MutualExclusion` into what each step needs: nobody else is inside.
  A search beside an erasure answers anything, but what is done on its answer is done behind a wait, after
  another look at the map, or dereferences NULL: that is why nothing else goes wrong.
  `NullDerefEnds` is why a NULL entry does no further harm: the thread that inserted it is
  the only one that can meet it, holding the mutex, and the process ends there.

In the same module, given `HasMutex`:

* `ImplementsSet`: `Spec => ImplementsDeviceSet`.

The initial states map to the abstract ones (`RegistryStarts`), and every step to a step or a stutter
(`RegistrySteps`, from one lemma `...Simulated` per action). A step is of one of four kinds: it
changes nothing that the mapping shows (`Quiet`, `Silent`), takes effect (`Effects`),
returns (`Returns`), or is the `operator[]` of an update whose device was unregistered between
the search and its wait, which maps to `Break`. `OneMoves` and `MovesOutside` say
that one thread's step moves only that thread's abstract call. The proof rests on
`MutualExclusion`, `Typed` and `HeapInv`: an effect is what the abstract set says because
what the thread found under the mutex is still so when it acts (`FoundAlone`, `Knows`, which
for this reason also says that `UnregisterDevice`'s entry is still there when it is erased). While a
NULL entry exists the mapping is `broken`, and only the thread that made it can be affected (`LostStays`).

`DevMgrUnitTest_proofs` proves, given `HasMutex`, for any number of registering and
unregistering threads:

* `EveryAddressRegistered`: `TestSpec => []AllRegistered`, `EveryDeviceUnregistered`: `[]AllUnregistered`.

The registry's invariants hold in the tests (`Registry`), because each of their steps is a step of the
registry; `Tests` adds what a phase has done so far. While threads register, the keys of the map are
just the addresses of those that are done (`Registering`): no thread finds its key already
there, since no two have one address. While threads unregister, every key is
some registered address, and the address of a thread that is done, or about to release, is
gone, whoever has erased it (`Unregistering`). With the registry's `NoDeviceLost`, an empty map
is an empty heap. `TargetsAssumption` is the tests' choice of addresses: the registering thread's number,
for the unregistering threads modulo the number of addresses.

`DeviceManager_proofs` proves of the program's monitor, for any addresses, heap cells, handlers and
discoveries, with and without the mutex:

* `MonitorTyped`: `MonitorSpec => []MonitorTypeOK`. Without a mutex a thread goes on with pointers to
  freed and reused devices, and an overlapping relink brings back a map as it was. What saves the types is `Origins`:
  every pointer a thread, the map or a remembered map holds is to a cell that was constructed once,
  and its memory holds an address then, freed or not.
* `PairingSurvives`: `[]ConnectedKeepsPairing`. The two queries of the callback are two passes through
  the map; `Pairing` and `Callback` say what each has seen of a handler that stays connected, and
  `TargetFound` that the search for it cannot miss unless an entry is being erased. The proof needs no
  absence of faults: the read of an unset `m_pSocket`, which may
  return anything, is not that of a connected handler. (The property was first stated for
  runs without a fault; the proof showed that the exception was not needed.)
* `HandlersAreSound`: `[](Clean => PointersSound)`, `Clean` being that no fault but searches beside an
  erasure has happened. `KnownHandlers` follows a handler's pointer from
  the creation of its thread to the erasure of its device: no other device points to an allocated
  device's handler, and it has not been deleted unless the manager is about to forget it (`Pointers`); that
  is so for the handler the manager is about to delete even if the detector has freed its device
  since (`Doomed`).
* `OrphansArePaidFor`: `[](fault = {} => 2 * Cardinality(Orphans) <= found)`, and that the orphans
  are finitely many, of however many handlers there may be.
* `HandlersAreSoundToTheEnd`: where the first fault that is no such search ends the process,
  `[](PointersSound /\ (fault = {} => HandlersSound))`.

The bound on orphans is an account (`Weighed`). A discovery pays one into it. An orphan costs two; what
else has a claim on the account are the devices that have services or a handler (`Serviced`), a discovery
whose outcome is open (`Pending`), the places in the manager's list of devices to erase
whose device may no longer be the one that was put there (`Bad`), and an erasure under way that would
hit a device whose handler runs (`Condemned`). Every step keeps the account. Most only give claims up
(`Lighter`); the others trade (`Balanced`): services found turn the open discovery into a claim of
the device (`SvcWriteWeighed`); a failed search turns it, with the device's claim, into an
orphan, or makes a place in the list bad (`DetDeleteWeighed`); and the manager condemns a device it
did not mean only when it takes it from a bad place (`NamesWeighed`). The last is the subtle one: a cell
that was freed and constructed anew while it stood in the list bears another device's address. It is so
much work because the list outlives the devices in it: were a place in
the list always honest (`Honest`), the manager could orphan nothing. The account needs to know that every allocated
device is in the map under its own address or is still being registered (`Heap`), and
what the walk relies on: the device it puts on the list is in the map under the key it has visited
(`Visited`), the one it connects has no handler (`Unconnected`), the one it reaps has none that
runs (`Ended`), and a cell constructed anew under its feet is registered without fail (`Recycled`).
TLC checked the account on the bounds of `monitor` before it was proved. It is proved until a search has
run beside an erasure; that `HandlersSound` holds after it too is only model-checked (`monitor`).

`PersistentStorage_proofs` proves, for any threads, processes, storage objects and
statement handles, and any bounds:

* `OneStorageEach`: `StorageSpec => []OneStorage`. Inductive as `AloneInv`: a thread in a call before the first
  entry has returned has no other of its process in one (`Alone`).
* `EndsReading`: `StorageSpec => []InsertionEndsReading`.
* `StorageTyped`: `StorageSpec => []StorageTypeOK`. Its bounds are the work of it: no statement, reader or
  row is at a place beyond the table (`Places`, `ToldBounded`), a call inside the step of its INSERT has room for its row
  (`Room`), and no call or answer is of an event that was not asked for (`KeysBounded`, `Counted`).
* `Implements`: `StorageSpec => ImplementsEventLog`, by the initial states (`InitLog`) and every
  step (`NextLog`): `LogEvent` asks, the end of a step writes, `LogReturns` tells, all others
  leave the log alone.

All rest on one inductive invariant, `StorageInv`, whose parts need one another: an object belongs to
one process, and only an existing one has statements (`Homes`); one thread at a time is inside the step
of an INSERT, whose statement nobody frees meanwhile (`Stepped`, `OneSteps`); keys are of events asked for
(`StatementKeys`, `RowKeys`, `CallKeys`); while no freed handle has been finalized on a connection, a call
owns its INSERT alone (`OwnInsert`, `NotShared`, `QueryAlive`), and so its row is in the table
(`InTable`); a SELECT is `m_rs`'s only, and gone once any call has finalized what it found there
(`SelectIsQuerys`, `SelectGone`, `UsedEnded`). `...Changes` says what an action does to each
variable, `...Effect` that it does, `...Keeps` that the invariant is kept.

It proves of the readers, whatever any number of others log meanwhile:

* `OwnersOfStatements`: `StorageSpec => []StatementsOwned`.
* `ReadingForward`: `StorageSpec => []ReadsForward`.
* `ReadingToTheEnd`: `StorageSpec => ReadsToTheEnd`, an action property.
* `ReadingBack`: `StorageSpec => []ReadsBack`; `IntFieldExact` is the arithmetic of the cut id.

These rest on `ReaderInv`, inductive on top of `StorageInv`: a reader has one object, whose
statements are `m_rs`'s and its call's (`OneObject`, `CallIsOwn`, `Owned`); while the
SELECT runs it stands behind the rows told of, and the table is as the constructor
found it (`AtRow`); the last row is the reader's own if it wrote it and nobody has
written since (`WroteLast`). Each action has one lemma, `...Readers`: what it does for
the reader that takes it, and that it leaves the others' objects and knowledge alone
(`ObjectStays`, `KnowledgeStays`). The one subtle case is another's INSERT:
it commits only when no reader stands at a row, so it can change the table under
no reading (`OthersWrite`, `StaysOK`).

`InstanceMonitor_proofs` proves, for any list of workers, whichever of their `Run`s return and
however often `CreateThread` fails:

* `LifeTyped`: `MonitorSpec => []MonitorTypeOK`, `OneThread`: `[]OneThreadPerWorker`,
  `DeletedRest`: `[]DeletedWorkersRest`.

`OneThreadPerWorker` alone is not inductive: the monitor tests a worker in one step and
creates its thread in later ones. `LifeInv` says what it knows at each step of the worker it is
at (`MonitoredIs`) and of the others (`OthersAre`). That stays true because only the
monitor creates threads, and the others' steps only end them. `MonitorGone` and `WaitedFor` carry
what `TerminateApp` has reached to the deletion of the workers.

`BlueTooth_proofs` proves, for any devices and any number of sockets and failures:

* `SearchTyped`: `Spec => []TypeOK`, `NeverRejected`: `[]GuardNeverRejects`, `LeaksAreBounded`:
  `[]LeaksBounded`.
* `UndisturbedIsServed`: `Spec => DiscoveredIsServed`, an action property.

`SearchInv` counts the objects the two threads have constructed (`Objects`); says that an
object has a lookup handle just while the inquiry runs on it (`Lookups`), and how many handles each step of
a search still has to close (`Handles`); who has given the searching object its callback
(`Callbacks`); and that an undisturbed search has its target still before it, then its service
(`Undisturbed`).

`DeviceHandlerThread_proofs` proves, for every width of `size_t` and any number of bytes and retries:

* `HandlerTyped`: `HandlerSpec => []HandlerTypeOK`, `AllHandedOver`: `[]HandedOver`, `EndIsSeen`:
  `[]EndMatchesStatus`, `SendIsExact`: `[]SendEndsExactly`.
* `LivesAsAssumed`: `HandlerSpec => Life!Init /\ [][Life!Next]_StateOf`: each of its steps is a move
  of the life DeviceManager gives its handlers, or one the manager cannot see.

The inductive invariant, `HandlerInv`, cuts the device's stream at two places (`Flow`): what has been handed
over and what `Recveive` holds are the first bytes, up to `taken`, and the kernel has the rest (`Bytes`;
`BytesCut` and `Reading` are what a `recv()` of some of them does). `Receiving` says what the status is at
each step of `Recveive`, `Sent` that `Send` has counted at most the buffer, or a failure before
all else: `SizeOfFailure` is the addition of `(size_t)-1`, which takes back one byte or, from 0,
ends the loop. Each action has one lemma, `...Keeps`. For `LivesAsAssumed`, `OnTheWay` says what the
status is at every place of `Run`.

`BTServer_proofs` proves, for any clients, connections, sizes of message, ways the stream cuts them up,
failed accepts and restarts of the server:

* `ServerTyped`: `ServerSpec => []ServerTypeOK`, `OneConnectionEach`: `ServerSpec => HandlerServesOne`, an
  action property.
* `BeginningOfOneMessage`, where `PartialSend = FALSE`: `ServerSpec => []NoCrossTalk`.

`ServerInv` has every socket's place in its operations (`Labelled`), that the handler `OnAccept` is about
to give a socket to has none (`HandlerIsNew`), that a connection and its client are each
other's peers and no client waits twice (`Paired`, `Queued`), and the bytes of a message
in their three places: with the sender, on the wire, and in the buffer of the receiver (`Sent`, `Receiving`).
`HandlerServesOne` needs `HandlerIsNew`: the index `m_pHandler` the server holds from
`RegisterHandler` to `OnAccept` is that of the handler it has just appended.

The assumptions are those of the modules: NULL, Absent and NoThread are distinct from cells and
threads, NULL is no address, the bounds are naturals, there is at least one service, and what a device sends fits, with its time stamp,
into a buffer (`BuffersFit`). `HasMutex` is a hypothesis of the theorems: they
speak of the manager as the other constructor would have built it. They do not say that creating
the mutex would make the registry safe: the searches outside it would still walk freed nodes and lead
to NULL; they say that nothing else would go wrong, leaked locks and all. Nor would it make the program
live: the detector would keep the mutex, as the main thread of the tests would.

No definition that a proof expands is a `CASE` expression: two that differ can be equal for the
SMT translation of tlapm 1.4.5, and where two of its guards hold TLA+ leaves the choice open.

Only model-checked: everything under fairness (`TestsEnd`, `EndedHandlerIsReaped`, `ServicesGetAHandler`,
`BrokenLinkEndsThread`, `EveryMessageReceived`, `KeepAlive`, `KeepsInquiring`), and of the refinement of
`HandlerLife` the part that is fairness. Every other property of a passing run is stated by a theorem.

## 6. Not modelled, and the plan

Done in this order: registry and its proofs, unit tests, manager with
detector and handlers, socket and handler thread, server, life cycle, inquiry,
storage, proofs of the handler thread, life cycle, inquiry and storage, the registry's refinement.

Next:

* A composition of `BlueTooth` with the registry's operations in place of its three states.

Not planned:

* SQLite (`db/sqlite3.c` and `.h`, 129,000 of the 134,000 lines of C in the tree) beyond
  the little that the storage's behaviour hangs on: it is another project's program, vendored, and a
  model of its parser, b-tree or pager would say nothing about this one.
* The rest of its wrapper (prepared statements, tables, buffers, `execDML`, `execScalar`): third-party
  code that nothing in the program calls.
* Code without state: printing, tray icon and window painting, `ShowError`, string conversions,
  `GetServiceAttributes`, `GetLocalAddress`, the radio and device information calls.
* Code nothing calls: `UpdateDevice(CBTDevice*)`, `Close`, `RecveiveChar`, the second
  `RunSearchServices`, `BTHandler.cpp`, `LocalMessage.h`.
