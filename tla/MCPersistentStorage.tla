------------------------ MODULE MCPersistentStorage ------------------------
(* The program with two handler threads that log, and the unit tests, on a    *)
(* table of up to five rows; ints of four values.                            *)
EXTENDS PersistentStorage, TLC

CONSTANTS h1, h2, test, monitor, tests

Loggers == {h1, h2}
MCThread == Loggers \cup {test}
MCProcess == {monitor, tests}
MCReader == {test}
Owner(t) == IF t = test THEN tests ELSE monitor

\* The ids of even events do not fit into an int.
LongId(k) == IF k % 2 = 0 THEN k + 3 ELSE 1

Sym == Permutations(Loggers) \cup Permutations(VM)
=============================================================================
