----------------------------- MODULE DeviceSet -----------------------------
(***************************************************************************)
(* What the callers of CBTDeviceManager may rely on: a set of registered    *)
(* addresses on which every operation takes effect at one instant between   *)
(* its call and its return.                                                 *)
(*                                                                         *)
(* Three reservations of the code are part of the promise, all because it   *)
(* searches the map without the mutex.  An update may report "unknown       *)
(* address" for a registered one while another thread is changing the set;  *)
(* an update of an address that is unregistered meanwhile breaks the        *)
(* process; and while another thread is unregistering, a registration may   *)
(* fail for a free address, and a registration or an update may break the   *)
(* process.  What always holds: a registration that succeeds has entered    *)
(* the address, an unregistration that succeeds has taken it out.           *)
(***************************************************************************)
CONSTANTS Thread, Addr

VARIABLES devs,        \* the registered addresses
          call,        \* per thread: the operation it is in, or "none" or "exited"
          on,          \* per thread: the address of that operation
          result,      \* per thread: {} until the operation has taken effect,
                       \* then {its result}; the last result outside a call
          broken       \* a search has gone wrong: nothing is promised any more

vars == <<devs, call, on, result, broken>>

Init == /\ devs = {}
        /\ call = [t \in Thread |-> "none"]
        /\ on = [t \in Thread |-> "none"]
        /\ result = [t \in Thread |-> {FALSE}]
        /\ broken = FALSE

Invoke(t) ==
    /\ call[t] = "none"
    /\ \E op \in {"register", "unregister", "update", "query"}, a \in Addr :
         /\ call' = [call EXCEPT ![t] = op]
         /\ on' = [on EXCEPT ![t] = a]
    /\ result' = [result EXCEPT ![t] = {}]
    /\ UNCHANGED <<devs, broken>>

\* Another thread is inside an operation that may change the set.
Contended(t) == \E u \in Thread \ {t} : call[u] \in {"register", "unregister"}

\* The search of t may run beside another thread's erasure.
Endangered(t) == /\ call[t] \in {"register", "update"}
                 /\ \E u \in Thread \ {t} : call[u] = "unregister"

\* The operation takes effect: the set changes and the result is r.
Effect(t, r) ==
    \/ /\ call[t] = "register"
       /\ r = (on[t] \notin devs)
       /\ devs' = devs \cup {on[t]}
    \/ /\ call[t] = "register"
       /\ ~r /\ Endangered(t)
       /\ UNCHANGED devs
    \/ /\ call[t] = "unregister"
       /\ r = (on[t] \in devs)
       /\ devs' = devs \ {on[t]}
    \/ /\ call[t] = "update"
       /\ r = (on[t] \in devs) \/ (~r /\ Contended(t))
       /\ UNCHANGED devs
    \/ /\ call[t] = "query"
       /\ r = FALSE
       /\ UNCHANGED devs
    \/ /\ broken
       /\ UNCHANGED devs

TakeEffect(t) ==
    /\ result[t] = {}
    /\ \E r \in BOOLEAN : /\ Effect(t, r)
                          /\ result' = [result EXCEPT ![t] = {r}]
    /\ UNCHANGED <<call, on, broken>>

Return(t) ==
    /\ call[t] \notin {"none", "exited"}
    /\ call' = [call EXCEPT ![t] = "none"]
    /\ on' = [on EXCEPT ![t] = "none"]
    /\ \/ result[t] # {} /\ UNCHANGED <<result, devs>>
       \/ /\ result[t] = {}
          /\ \E r \in BOOLEAN : /\ Effect(t, r)
                                /\ result' = [result EXCEPT ![t] = {r}]
    /\ broken' \in IF Endangered(t) THEN {broken, TRUE} ELSE {broken}

Exit(t) ==
    /\ call[t] = "none"
    /\ call' = [call EXCEPT ![t] = "exited"]
    /\ result' = [result EXCEPT ![t] = {FALSE}]
    /\ UNCHANGED <<devs, on, broken>>

\* The address of an update is unregistered between its find and its write, or
\* a search reads what an erasure frees.
Break(t) == /\ (call[t] = "update" /\ on[t] \notin devs) \/ Endangered(t)
            /\ broken' = TRUE
            /\ UNCHANGED <<devs, call, on, result>>

Next == \E t \in Thread :
          Invoke(t) \/ TakeEffect(t) \/ Return(t) \/ Exit(t) \/ Break(t)

Spec == Init /\ [][Next]_vars

=============================================================================
