------------------------- MODULE MCDevMgrUnitTest -------------------------
(* Two registering threads, and two unregistering threads per address, where *)
(* the tests have 10 and 30.                                                *)
EXTENDS DevMgrUnitTest

CONSTANTS a1, a2, main, r1, r2, u1, u2, u3, u4

MCRegistrar == {r1, r2}
MCUnregistrar == {u1, u2, u3, u4}
MCThread == {main} \cup MCRegistrar \cup MCUnregistrar
MCAddr == {a1, a2}
MCTarget(t) == IF t \in {r1, u1, u2} THEN a1 ELSE a2

=============================================================================
