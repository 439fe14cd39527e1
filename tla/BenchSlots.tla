----------------------------- MODULE BenchSlots -----------------------------
(***************************************************************************)
(* What src/server/services/bench-manager.ts promises about its slots,     *)
(* whatever it does to worktrees, processes and components on the way:     *)
(* createBench reserves the lowest free slot of its project and never      *)
(* exceeds the global cap, a bench is recorded in state.json from the end  *)
(* of its provisioning on, and only recorded benches outlive a crash.      *)
(* BenchLifecycle implements this specification (BenchLifecycle!Slots).    *)
(***************************************************************************)
EXTENDS Naturals, FiniteSets

CONSTANTS
    Projects,    \* the projects registered at the start
    MaxBenches,  \* benches.max of roubo.yaml, the slots of one project
    MaxGlobal    \* benches.maxGlobal of settings.json

\* What the theorems require of them; BenchLifecycle assumes as much of its own.
SlotParameters ==
    /\ IsFiniteSet(Projects)
    /\ MaxBenches \in Nat \ {0}
    /\ MaxGlobal \in Nat \ {0}

VARIABLES
    projects,  \* the registered projects
    slot       \* what each slot of a registered project holds

slotVars == <<projects, slot>>

Slots == Projects \X (1..MaxBenches)
Taken == {k \in Slots : slot[k] # "free"}

TypeOK ==
    /\ projects \subseteq Projects
    /\ slot \in [Slots -> {"free", "reserved", "recorded"}]

Init ==
    /\ projects = Projects
    /\ slot = [k \in Slots |-> "free"]

BelowCap == Cardinality(Taken) < MaxGlobal

\* createBench: the cap, then the lowest number that is free.
Reserve(k) ==
    /\ k[1] \in projects
    /\ BelowCap
    /\ slot[k] = "free"
    /\ \A m \in 1..(k[2] - 1) : slot[<<k[1], m>>] # "free"
    /\ slot' = [slot EXCEPT ![k] = "reserved"]
    /\ UNCHANGED projects

\* Provisioning has finished and the record is written.
Record(k) ==
    /\ slot[k] = "reserved"
    /\ slot' = [slot EXCEPT ![k] = "recorded"]
    /\ UNCHANGED projects

\* Cleanup & Retry has removed the worktree and drops the record with it.
Unrecord(k) ==
    /\ slot[k] = "recorded"
    /\ slot' = [slot EXCEPT ![k] = "reserved"]
    /\ UNCHANGED projects

\* Clear frees the slot, whether the bench was recorded or not.
Release(k) ==
    /\ slot' = [slot EXCEPT ![k] = "free"]
    /\ UNCHANGED projects

\* Unregister drops the project and everything it holds in one step.
Unregister(p) ==
    /\ p \in projects
    /\ projects' = projects \ {p}
    /\ slot' = [k \in Slots |-> IF k[1] = p THEN "free" ELSE slot[k]]

\* A crash and the next start: a bench without a record is gone.
Restart ==
    /\ slot' = [k \in Slots |-> IF slot[k] = "reserved" THEN "free" ELSE slot[k]]
    /\ UNCHANGED projects

Next ==
    \/ \E k \in Slots : Reserve(k) \/ Record(k) \/ Unrecord(k) \/ Release(k)
    \/ \E p \in Projects : Unregister(p)
    \/ Restart

Spec == Init /\ [][Next]_slotVars

-----------------------------------------------------------------------------

\* The benches of all projects together never exceed benches.maxGlobal, not even
\* after a restart, which checks no cap when it hydrates the records.
CapHolds == Cardinality(Taken) <= MaxGlobal

\* An unregistered project holds no slot, so it uses up none of the cap.
UnregisteredHoldsNone == \A k \in Slots : k[1] \notin projects => slot[k] = "free"

=============================================================================
