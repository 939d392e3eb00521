------------------------- MODULE MCDeviceRegistry -------------------------
(* DeviceRegistry and its refinement for TLC: three threads that contend    *)
(* for one address, and as many heap cells as they can hold at once.        *)
EXTENDS DeviceRegistryRefinement, TLC

\* Threads are interchangeable.
Symmetry == Permutations(Thread)

=============================================================================
