-------------------------- MODULE MCBenchLifecycle --------------------------
(* Model values and bounds for checking BenchLifecycle. *)
EXTENDS BenchLifecycle, TLC

Symmetry == Permutations(Ids) \cup Permutations(Calls)

\* The state up to bench objects nothing refers to: no action reads those before
\* createBench overwrites them.
Reachable == <<registered, benches, round, call, recorded, savedSetup, disk, boot,
               left, contested, overran, [b \in Ids |-> IF FreeId(b) THEN NewBench ELSE bench[b]]>>
=============================================================================
