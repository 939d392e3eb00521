---------------------------- MODULE HandlerLife ----------------------------
(***************************************************************************)
(* The life of one handler thread as DeviceManager assumes it: the moves of *)
(* HandlerStates, and no delay for ever outside a connection that lasts.    *)
(***************************************************************************)
EXTENDS HandlerStates

VARIABLE state

Init == state = "started"

Next == <<state, state'>> \in HandlerMoves

\* What weak fairness of Next outside "CONNECTED" amounts to: every other state
\* has a move, and is left.
GoesOn == \A st \in Running \ {"CONNECTED"} : state = st ~> state # st

Spec == Init /\ [][Next]_state /\ GoesOn

=============================================================================
