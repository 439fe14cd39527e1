-------------------------- MODULE MCProcessManager --------------------------
(* Instances of ProcessManager: the sets and bounds are in the .cfg files. The *)
(* calls are interchangeable, and so are the children they name.               *)
EXTENDS ProcessManager, TLC

Symmetry == Permutations(Calls)
=============================================================================
