-------------------------- MODULE BenchSlots_proofs --------------------------
(***************************************************************************)
(* Proofs about BenchSlots, for every set of projects and every bound: the *)
(* slots are well typed, an unregistered project holds none, and the       *)
(* global cap holds. The cap needs finite sets: a reservation adds one     *)
(* slot to those taken, every other step takes none.                       *)
(***************************************************************************)
EXTENDS BenchSlots, FiniteSetTheorems, TLAPS

\* Every step keeps the registry and the slots well typed.
THEOREM SlotTypes == Spec => []TypeOK
<1>1. Init => TypeOK
  BY DEF Init, TypeOK
<1>2. TypeOK /\ [Next]_slotVars => TypeOK'
  BY DEF TypeOK, Next, slotVars, Reserve, Record, Unrecord, Release, Unregister, Restart
<1> QED
  BY <1>1, <1>2, PTL DEF Spec

LEMMA SlotsFinite == ASSUME SlotParameters PROVE IsFiniteSet(Slots)
<1>1. IsFiniteSet(1..MaxBenches)
  BY FS_Interval DEF SlotParameters
<1> QED
  BY <1>1, FS_Product DEF Slots, SlotParameters

\* An unregistered project holds no slot.
THEOREM UnregisteredHolds == Spec => []UnregisteredHoldsNone
<1>1. Init => UnregisteredHoldsNone
  BY DEF Init, UnregisteredHoldsNone
<1>2. TypeOK /\ UnregisteredHoldsNone /\ [Next]_slotVars => UnregisteredHoldsNone'
  <2> SUFFICES ASSUME TypeOK, UnregisteredHoldsNone, [Next]_slotVars
               PROVE  UnregisteredHoldsNone'
    OBVIOUS
  <2>1. CASE UNCHANGED slotVars
    BY <2>1 DEF UnregisteredHoldsNone, slotVars
  <2>2. ASSUME NEW k \in Slots, Reserve(k) \/ Record(k) \/ Unrecord(k) \/ Release(k)
        PROVE  UnregisteredHoldsNone'
    BY <2>2 DEF TypeOK, UnregisteredHoldsNone, Reserve, Record, Unrecord, Release
  <2>3. ASSUME NEW p \in Projects, Unregister(p)
        PROVE  UnregisteredHoldsNone'
    BY <2>3 DEF TypeOK, UnregisteredHoldsNone, Unregister
  <2>4. CASE Restart
    BY <2>4 DEF TypeOK, UnregisteredHoldsNone, Restart
  <2> QED
    BY <2>1, <2>2, <2>3, <2>4 DEF Next
<1> QED
  BY <1>1, <1>2, SlotTypes, PTL DEF Spec

\* A step that takes no slot cannot exceed the cap.
LEMMA FewerTaken ==
    ASSUME SlotParameters, CapHolds, Taken' \subseteq Taken
    PROVE  CapHolds'
<1>1. IsFiniteSet(Taken)
  BY SlotsFinite, FS_Subset DEF Taken
<1>2. /\ IsFiniteSet(Taken')
      /\ Cardinality(Taken') <= Cardinality(Taken)
  BY <1>1, FS_Subset
<1>3. Cardinality(Taken) \in Nat /\ Cardinality(Taken') \in Nat
  BY <1>1, <1>2, FS_CardinalityType
<1> QED
  BY <1>2, <1>3 DEF CapHolds, SlotParameters

\* The benches of all projects together never exceed benches.maxGlobal.
THEOREM CapAlwaysHolds == ASSUME SlotParameters PROVE Spec => []CapHolds
<1>1. Init => CapHolds
  <2> SUFFICES ASSUME Init PROVE CapHolds
    OBVIOUS
  <2>1. Taken = {}
    BY DEF Init, Taken
  <2> QED
    BY <2>1, FS_EmptySet DEF CapHolds, SlotParameters
<1>2. TypeOK /\ CapHolds /\ [Next]_slotVars => CapHolds'
  <2> SUFFICES ASSUME TypeOK, CapHolds, [Next]_slotVars
               PROVE  CapHolds'
    OBVIOUS
  <2>1. ASSUME NEW k \in Slots, Reserve(k)
        PROVE  CapHolds'
    <3>1. IsFiniteSet(Taken)
      BY SlotsFinite, FS_Subset DEF Taken
    <3>2. Taken' = Taken \cup {k}
      BY <2>1 DEF TypeOK, Taken, Reserve
    <3>3. k \notin Taken
      BY <2>1 DEF Taken, Reserve
    <3>4. Cardinality(Taken \cup {k}) = Cardinality(Taken) + 1
      BY <3>1, <3>3, FS_AddElement
    <3>5. Cardinality(Taken) \in Nat
      BY <3>1, FS_CardinalityType
    <3> QED
      BY <2>1, <3>2, <3>4, <3>5 DEF Reserve, BelowCap, CapHolds, SlotParameters
  <2>2. ASSUME NEW k \in Slots, Record(k) \/ Unrecord(k) \/ Release(k)
        PROVE  CapHolds'
    <3>1. Taken' \subseteq Taken
      BY <2>2 DEF TypeOK, Taken, Record, Unrecord, Release
    <3> QED
      BY <3>1, FewerTaken
  <2>3. ASSUME NEW p \in Projects, Unregister(p)
        PROVE  CapHolds'
    <3>1. Taken' \subseteq Taken
      BY <2>3 DEF Taken, Unregister
    <3> QED
      BY <3>1, FewerTaken
  <2>4. CASE Restart
    <3>1. Taken' \subseteq Taken
      BY <2>4 DEF Taken, Restart
    <3> QED
      BY <3>1, FewerTaken
  <2>5. CASE UNCHANGED slotVars
    <3>1. Taken' \subseteq Taken
      BY <2>5 DEF Taken, slotVars
    <3> QED
      BY <3>1, FewerTaken
  <2> QED
    BY <2>1, <2>2, <2>3, <2>4, <2>5 DEF Next
<1> QED
  BY <1>1, <1>2, SlotTypes, PTL DEF Spec

=============================================================================
