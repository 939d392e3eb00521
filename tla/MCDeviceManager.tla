-------------------------- MODULE MCDeviceManager --------------------------
EXTENDS DeviceManager, TLC
CONSTANTS det, mgr
MCThread == {det, mgr}
\* Cells and handlers are interchangeable.
Symmetry == Permutations(Ptr) \cup Permutations(Handler)

=============================================================================
