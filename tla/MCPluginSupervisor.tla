------------------------- MODULE MCPluginSupervisor -------------------------
(* Instances of PluginSupervisor: the bounds are in the .cfg files. The calls *)
(* are interchangeable, and so are the children they name.                    *)
EXTENDS PluginSupervisor, TLC

Symmetry == Permutations(Calls)
=============================================================================
