--------------------- MODULE DeviceRegistryRefinement ---------------------
(***************************************************************************)
(* DeviceRegistry implements DeviceSet: the refinement mapping.             *)
(*                                                                         *)
(* The registered addresses are those with a device in the map.  Register   *)
(* takes effect when it inserts or finds the address taken, Unregister when *)
(* it erases or finds nothing, an update when it fetches the device.        *)
(***************************************************************************)
EXTENDS DeviceRegistry

\* NULL stands for "no address" in arg.
ASSUME AddrAssumption == NULL \notin Addr

\* The operator[] of an update is done, its device not yet written to.
Fetched == {"upd_write", "svc_write"}

\* The operation that the code at label l belongs to.
CallAt(l) ==
    IF l \in {"reg_find", "reg_lock", "reg_check", "reg_insert",
              "reg_release", "reg_delete"} THEN "register"
    ELSE IF l \in {"unr_lock", "unr_check", "unr_delete", "unr_erase",
                   "unr_release"} THEN "unregister"
    ELSE IF l \in {"upd_find", "upd_lock", "upd_index", "upd_write", "upd_release",
                   "svc_find", "svc_lock", "svc_index", "svc_write",
                   "svc_release"} THEN "update"
    ELSE IF l = "idle" THEN "none"
    ELSE IF l = "exited" THEN "exited"
    ELSE "query"

\* What it has been decided to return there, r being the result of the last call.
ResultAt(l, r) ==
    IF l \in {"reg_release", "reg_delete"} THEN {FALSE}
    ELSE IF l \in {"unr_release", "upd_write", "svc_write",
                   "upd_release", "svc_release"} THEN {TRUE}
    ELSE IF l \in {"idle", "exited"} THEN {r}
    ELSE {}

\* A stale operator[] has inserted a NULL entry: its thread dereferences it next.
Lost == \E t \in Thread : pc[t] \in Fetched /\ obj[t] = NULL

Calls == [t \in Thread |-> CallAt(pc[t])]
Arguments == [t \in Thread |-> IF arg[t] = NULL THEN "none" ELSE arg[t]]
Results == [t \in Thread |-> IF Lost /\ pc[t] \in Fetched THEN {}
                                                          ELSE ResultAt(pc[t], ret[t])]
Broken == Lost \/ ~up

DeviceSet == INSTANCE DeviceSet WITH
    devs <- Registered, call <- Calls, on <- Arguments, result <- Results, broken <- Broken

\* Callers of the manager's operations, overlapping in any way, see one set of
\* addresses on which each operation acts at once: of several registrations of
\* one address at most one returns true, of several unregistrations too, and just
\* one if no other thread unregisters a device beside the searches of the
\* registrations (BTDeviceManager.cpp:216-238, 254-297).
ImplementsDeviceSet == DeviceSet!Spec

=============================================================================
