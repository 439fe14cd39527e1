----------------------- MODULE MCComponentLifecycle -----------------------
(* Instances of ComponentLifecycle: what roubo.yaml binds the components to.  *)
EXTENDS ComponentLifecycle, TLC
CONSTANTS db, web, g1, g2

Binding(g, k, f) == [plugin |-> g, kind |-> k, first |-> f]

\* Benches of two components of one plugin: two containers, which share a compose
\* project, and two one-shots, which share a ledger entry.
Both(b) == (db :> b) @@ (web :> b)
SamePlugin == {Both(Binding(g1, "docker", FALSE)), Both(Binding(g1, "oneshot", FALSE))}

\* A bench of one component, of each kind.
EachKind ==
    {db :> Binding(g1, "docker", TRUE), db :> Binding(g1, "process", TRUE),
     db :> Binding(g1, "oneshot", FALSE)}

\* Two containers, each of a plugin of its own.
TwoPlugins ==
    {(db :> Binding(g1, "docker", FALSE)) @@ (web :> Binding(g2, "docker", FALSE))}

Symmetry == Permutations(Workers)

\* Components with the same binding are interchangeable, too.
Alike == Symmetry \cup Permutations({db, web})

\* Bound: a listing is in flight beside one handler.
Bounded == listings = {} \/ \E w \in Workers : job[w].task = "none"
=============================================================================
