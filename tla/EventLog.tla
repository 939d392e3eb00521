------------------------------ MODULE EventLog ------------------------------
(***************************************************************************)
(* What the callers of the event storage may rely on: a log shared by all   *)
(* processes that only grows, contains nothing that was not asked for and   *)
(* everything a caller was told is in.  An event is logged at least once:   *)
(* the code does not promise "exactly once".                                *)
(***************************************************************************)
EXTENDS Sequences, FiniteSets

CONSTANT Event

VARIABLES log,         \* the events, oldest first
          asked,       \* events some caller wanted logged
          acked        \* events whose caller was told so

vars == <<log, asked, acked>>

Logged == {log[i] : i \in DOMAIN log}

Init == /\ Logged \subseteq asked
        /\ asked \subseteq Event
        /\ acked = Logged

Ask(e) == /\ e \notin asked
          /\ asked' = asked \cup {e}
          /\ UNCHANGED <<log, acked>>

\* An event asked for is written, now or again.
Write(e) == /\ e \in asked
            /\ log' = Append(log, e)
            /\ UNCHANGED <<asked, acked>>

\* A caller is told that its event is in the log.
Tell(e) == /\ e \in Logged
           /\ acked' = acked \cup {e}
           /\ UNCHANGED <<log, asked>>

Next == \E e \in Event : Ask(e) \/ Write(e) \/ Tell(e)

Spec == Init /\ [][Next]_vars

=============================================================================
