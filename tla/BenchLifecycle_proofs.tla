------------------------ MODULE BenchLifecycle_proofs ------------------------
(***************************************************************************)
(* Proofs about BenchLifecycle for any projects, slots, bench objects and  *)
(* calls: type correctness, that no record outlives its bench, and that    *)
(* the lifecycle implements BenchSlots.                                    *)
(***************************************************************************)
EXTENDS BenchLifecycle, FiniteSetTheorems, TLAPS

-----------------------------------------------------------------------------
(* The parts every action is built from keep the calls well typed. *)

LEMMA NoCallType == NoCall \in Call
BY Parameters DEF NoCall, Call, CallRecord, Pcs

LEMMA NewBenchType == NewBench \in Bench
BY DEF NewBench, Bench, Status

\* A call that moves on to another command of its operation keeps its fields.
LEMMA GotoType ==
    ASSUME call \in [Calls -> Call], NEW c \in Calls, NEW pc \in Pcs \ (UnregPcs \cup {"launch"}),
           call[c].pc \notin UnregPcs \cup {"done"}, Goto(c, pc)
    PROVE  call' \in [Calls -> Call]
<1>1. [call[c] EXCEPT !.pc = pc] \in Call
  BY DEF Call, CallRecord
<1> QED
  BY <1>1 DEF Goto

LEMMA FinishType ==
    ASSUME call \in [Calls -> Call], NEW c \in Calls, Finish(c)
    PROVE  call' \in [Calls -> Call]
BY NoCallType DEF Finish

LEMMA DropRoundType ==
    ASSUME round \in [Keys -> Calls \cup {None}], NEW c \in Calls, NEW k \in Keys
    PROVE  DropRound(c, k) \in [Keys -> Calls \cup {None}]
BY DEF DropRound

\* The call of a round that ends goes on to setup or launch, or is done.
LEMMA EndRoundType ==
    ASSUME TypeOK, NEW c \in Calls, call[c].pc \in RoundPcs, NEW r \in Bench, EndRound(c, r)
    PROVE  /\ round' \in [Keys -> Calls \cup {None}]
           /\ bench' \in [Ids -> Bench]
           /\ call' \in [Calls -> Call]
<1> DEFINE k == call[c].key
           b == call[c].id
           goesOn == /\ call[c].creates
                     /\ r.status \notin {"error", "clearing"}
                     /\ Live(k)
                     /\ AutoStart \/ HasSetup
           pc   == FirstStep(r)
           next == IF goesOn
                   THEN [NoCall EXCEPT !.pc = pc, !.key = k, !.id = b, !.creates = TRUE,
                                       !.on = IF pc = "launch" THEN benches[k] ELSE None]
                   ELSE NoCall
<1>1. k \in Keys /\ b \in Ids
  BY DEF TypeOK, Call, CallRecord, RoundPcs, UnregPcs
<1>2. next \in Call
  <2>1. CASE ~goesOn
    BY <2>1, NoCallType
  <2>2. CASE goesOn
    <3>1. pc \in {"setup", "launch"}
      BY DEF FirstStep
    <3>2. benches[k] \in Ids
      BY <1>1, <2>2 DEF TypeOK, Live
    <3> HIDE DEF k, b, pc
    <3> QED
      BY <1>1, <2>2, <3>1, <3>2, NoCallType DEF Call, CallRecord, Pcs, UnregPcs, NoCall
  <2> QED
    BY <2>1, <2>2
<1>3. round' \in [Keys -> Calls \cup {None}]
  BY <1>1, DropRoundType DEF EndRound, TypeOK
<1>4. bench' \in [Ids -> Bench]
  <2>1. [r EXCEPT !.status = "preparing"] \in Bench
    BY DEF Bench, Status
  <2> QED
    BY <2>1 DEF EndRound, TypeOK
<1>5. call' \in [Calls -> Call]
  <2>1. call' = [d \in Calls |-> IF d = c THEN next ELSE [call[d] EXCEPT !.wait = @ \ {c}]]
    BY DEF EndRound
  <2>2. ASSUME NEW d \in Calls PROVE [call[d] EXCEPT !.wait = @ \ {c}] \in Call
    BY DEF TypeOK, Call, CallRecord
  <2> HIDE DEF next
  <2> QED
    BY <1>2, <2>1, <2>2
<1> QED
  BY <1>3, <1>4, <1>5

-----------------------------------------------------------------------------
(* Writes to state.json *)

StateTypes == /\ recorded' \in [Keys -> Ids \cup {None}]
              /\ savedSetup' \in [Keys -> BOOLEAN]

\* The same slots have a record before and after the step.
SameRecords == \A k \in Keys : recorded'[k] = None <=> recorded[k] = None

\* A record is created, for a live bench, and the other slots are left alone.
Records(k) == /\ Live(k)
              /\ recorded'[k] # None
              /\ \A j \in Keys \ {k} : recorded'[j] = recorded[j]

LEMMA StateUnchanged ==
    ASSUME TypeOK, UNCHANGED state
    PROVE  StateTypes /\ SameRecords
BY DEF TypeOK, state, StateTypes, SameRecords

\* updateBench neither adds nor removes a record.
LEMMA UpdateRecordEffect ==
    ASSUME TypeOK, NEW k \in Keys, NEW b \in Ids, NEW setup \in BOOLEAN,
           UpdateRecord(k, b, setup)
    PROVE  StateTypes /\ SameRecords
<1>1. b # None
  BY Parameters
<1> QED
  BY <1>1 DEF TypeOK, UpdateRecord, state, StateTypes, SameRecords

LEMMA NotifyEffect ==
    ASSUME TypeOK, NEW k \in Keys, NEW b \in Ids, NEW setup \in BOOLEAN, Notify(k, b, setup)
    PROVE  StateTypes /\ SameRecords
BY UpdateRecordEffect, StateUnchanged DEF Notify

\* removeBench leaves the other slots alone.
LEMMA RemoveRecordEffect ==
    ASSUME TypeOK, NEW k \in Keys, RemoveRecord(k)
    PROVE  /\ StateTypes
           /\ recorded'[k] = None
           /\ \A j \in Keys \ {k} : recorded'[j] = recorded[j]
BY DEF TypeOK, RemoveRecord, StateTypes

-----------------------------------------------------------------------------
(* Rounds *)

RoundTypes == /\ round' \in [Keys -> Calls \cup {None}]
              /\ bench' \in [Ids -> Bench]
              /\ call' \in [Calls -> Call]

\* A parked round has a key and a bench.
LEMMA RoundCall ==
    ASSUME TypeOK, NEW c \in Calls, call[c].pc \in RoundPcs
    PROVE  /\ call[c].key \in Keys
           /\ call[c].id \in Ids
           /\ bench[call[c].id] \in Bench
BY DEF TypeOK, Call, CallRecord, RoundPcs, UnregPcs

LEMMA RoundGoto ==
    ASSUME TypeOK, NEW c \in Calls, call[c].pc \in RoundPcs, NEW pc \in RoundPcs,
           Goto(c, pc), UNCHANGED <<round, bench>>
    PROVE  RoundTypes
<1>1. call[c].pc \notin UnregPcs \cup {"done"} /\ pc \in Pcs \ (UnregPcs \cup {"launch"})
  BY DEF RoundPcs, UnregPcs, Pcs
<1> QED
  BY <1>1, GotoType DEF TypeOK, RoundTypes

LEMMA EndsUnchanged ==
    ASSUME TypeOK, NEW c \in Calls, call[c].pc \in RoundPcs, EndRound(c, bench[call[c].id])
    PROVE  RoundTypes
BY RoundCall, EndRoundType DEF RoundTypes

LEMMA FailRoundEffect ==
    ASSUME TypeOK, NEW c \in Calls, call[c].pc \in RoundPcs, FailRound(c)
    PROVE  RoundTypes /\ StateTypes /\ SameRecords
<1> DEFINE k == call[c].key
           b == call[c].id
           r == [bench[b] EXCEPT !.status = "error", !.err = TRUE]
<1>1. k \in Keys /\ b \in Ids /\ r \in Bench /\ r.setup \in BOOLEAN
  BY RoundCall DEF Bench, Status
<1>2. CASE call[c].aborted
  BY <1>2, EndsUnchanged, StateUnchanged DEF FailRound
<1>3. CASE ~call[c].aborted /\ HasDir(k)
  <2>1. bench' = [bench EXCEPT ![b] = r] /\ Goto(c, "failList") /\ UNCHANGED <<round, state>>
    BY <1>3 DEF FailRound
  <2>2. call[c].pc \notin UnregPcs \cup {"done"} /\ "failList" \in Pcs \ (UnregPcs \cup {"launch"})
    BY DEF RoundPcs, UnregPcs, Pcs
  <2>3. call' \in [Calls -> Call]
    BY <2>1, <2>2, GotoType DEF TypeOK
  <2>4. bench' \in [Ids -> Bench] /\ round' \in [Keys -> Calls \cup {None}]
    BY <1>1, <2>1 DEF TypeOK
  <2> QED
    BY <2>1, <2>3, <2>4, StateUnchanged DEF RoundTypes
<1>4. CASE ~call[c].aborted /\ ~HasDir(k)
  <2>1. EndRound(c, r) /\ Notify(k, b, r.setup)
    BY <1>4 DEF FailRound
  <2> HIDE DEF k, b, r
  <2> QED
    BY <1>1, <2>1, EndRoundType, NotifyEffect DEF RoundTypes
<1> QED
  BY <1>2, <1>3, <1>4

LEMMA BeforeAddEffect ==
    ASSUME TypeOK, NEW c \in Calls, call[c].pc \in RoundPcs, BeforeAdd(c)
    PROVE  RoundTypes
<1>1. "preList" \in RoundPcs /\ "add" \in RoundPcs
  BY DEF RoundPcs
<1> QED
  BY <1>1, EndsUnchanged, RoundGoto DEF BeforeAdd

LEMMA EnterAddEffect ==
    ASSUME TypeOK, NEW c \in Calls, call[c].pc \in RoundPcs, EnterAdd(c)
    PROVE  RoundTypes
<1>1. "add" \in RoundPcs
  BY DEF RoundPcs
<1> QED
  BY <1>1, EndsUnchanged, RoundGoto DEF EnterAdd

\* Only here is a record created, and only while the bench is live.
LEMMA RecordBenchEffect ==
    ASSUME TypeOK, NEW c \in Calls, call[c].pc \in RoundPcs, RecordBench(c)
    PROVE  /\ RoundTypes /\ StateTypes
           /\ SameRecords \/ Records(call[c].key)
<1> DEFINE k == call[c].key
           b == call[c].id
           r == [bench[b] EXCEPT !.status = "idle"]
<1>1. /\ k \in Keys /\ b \in Ids /\ b # None
      /\ r \in Bench /\ bench[b].setup \in BOOLEAN
  BY RoundCall, Parameters DEF Bench, Status
<1>2. CASE Stopped(c)
  BY <1>2, EndsUnchanged, StateUnchanged DEF RecordBench
<1>3. CASE ~Stopped(c)
  <2>1. /\ recorded' = [recorded EXCEPT ![k] = b]
        /\ savedSetup' = [savedSetup EXCEPT ![k] = bench[b].setup]
        /\ EndRound(c, r)
    BY <1>3 DEF RecordBench
  <2>2. Live(k)
    BY <1>3 DEF Stopped
  <2>3. StateTypes
    BY <1>1, <2>1 DEF TypeOK, StateTypes
  <2>4. RoundTypes
    BY <1>1, <2>1, EndRoundType DEF RoundTypes
  <2> QED
    BY <1>1, <2>1, <2>2, <2>3, <2>4 DEF TypeOK, Records
<1> QED
  BY <1>2, <1>3

LEMMA EndFailedEffect ==
    ASSUME TypeOK, NEW c \in Calls, call[c].pc \in RoundPcs, EndFailed(c)
    PROVE  RoundTypes /\ StateTypes /\ SameRecords
<1>1. call[c].key \in Keys /\ call[c].id \in Ids /\ bench[call[c].id].setup \in BOOLEAN
  BY RoundCall DEF Bench
<1> QED
  BY <1>1, EndsUnchanged, NotifyEffect, StateUnchanged DEF EndFailed

LEMMA ForcedType == ASSUME NEW d \in Disk PROVE Forced(d) \subseteq Disk
BY DEF Forced, Disk

LEMMA SetDiskType ==
    ASSUME disk \in [Keys -> Disk], NEW k \in Keys, NEW d \in Disk, SetDisk(k, d)
    PROVE  disk' \in [Keys -> Disk]
BY DEF SetDisk

\* What every step of a round does: it changes neither the registry nor the map
\* of benches, and it creates at most the record of its own live bench.
LEMMA RoundStepEffect ==
    ASSUME TypeOK, NEW c \in Calls, RoundStep(c)
    PROVE  /\ TypeOK'
           /\ call[c].key \in Keys
           /\ UNCHANGED <<registered, benches>>
           /\ SameRecords \/ Records(call[c].key)
<1> DEFINE k == call[c].key
<1>1. call[c].pc \in RoundPcs
  BY DEF RoundStep, RoundPcs, ResolveEnds, FetchEnds, PullEnds, PreListEnds, PreRemoveEnds,
         AddEnds, InspectEnds, SubmodulesEnd, FailListEnds, FailRemoveEnds
<1>2. k \in Keys /\ disk[k] \in Disk /\ Forced(disk[k]) \subseteq Disk /\ "none" \in Disk
  BY <1>1, RoundCall, ForcedType DEF TypeOK, Disk
<1>3. {"pull", "fetch", "preRemove", "inspect", "submodules", "failRemove"} \subseteq RoundPcs
  BY DEF RoundPcs
<1>4. /\ RoundTypes /\ StateTypes
      /\ disk' \in [Keys -> Disk]
      /\ boot' \in [Keys -> Boot]
      /\ UNCHANGED <<registered, benches, ghosts>>
      /\ SameRecords \/ Records(k)
      => TypeOK'
  BY DEF TypeOK, RoundTypes, StateTypes, ghosts
<1> USE DEF TypeOK
<1>5. CASE ResolveEnds(c)
  BY <1>1, <1>3, <1>4, <1>5, <1>2, FailRoundEffect, EndsUnchanged, RoundGoto, BeforeAddEffect,
     StateUnchanged DEF ResolveEnds
<1>6. CASE FetchEnds(c)
  BY <1>1, <1>2, <1>3, <1>4, <1>6, FailRoundEffect, RoundGoto, StateUnchanged DEF FetchEnds
<1>7. CASE PullEnds(c)
  BY <1>1, <1>2, <1>4, <1>7, FailRoundEffect, BeforeAddEffect, StateUnchanged DEF PullEnds
<1>8. CASE PreListEnds(c)
  BY <1>1, <1>2, <1>3, <1>4, <1>8, RoundGoto, EnterAddEffect, SetDiskType, StateUnchanged
     DEF PreListEnds
<1>9. CASE PreRemoveEnds(c)
  BY <1>1, <1>2, <1>4, <1>9, EnterAddEffect, SetDiskType, StateUnchanged DEF PreRemoveEnds
<1>10. CASE AddEnds(c)
  <2>1. {"tracked", "locked"} \subseteq Disk /\ "readded" \in Boot
    BY DEF Disk, Boot
  <2>2. RoundTypes /\ StateTypes /\ SameRecords
    BY <1>1, <1>3, <1>10, EndsUnchanged, RoundGoto, FailRoundEffect, StateUnchanged DEF AddEnds
  <2>3. disk' \in [Keys -> Disk]
    BY <1>2, <1>10, <2>1, SetDiskType DEF AddEnds
  <2>4. boot' \in [Keys -> Boot]
    BY <1>2, <1>10, <2>1 DEF AddEnds
  <2> QED
    BY <1>2, <1>4, <1>10, <2>2, <2>3, <2>4 DEF AddEnds
<1>11. CASE InspectEnds(c)
  BY <1>1, <1>2, <1>3, <1>4, <1>11, FailRoundEffect, RoundGoto, RecordBenchEffect, StateUnchanged
     DEF InspectEnds
<1>12. CASE SubmodulesEnd(c)
  BY <1>1, <1>2, <1>4, <1>12, RecordBenchEffect DEF SubmodulesEnd
<1>13. CASE FailListEnds(c)
  BY <1>1, <1>2, <1>3, <1>4, <1>13, RoundGoto, EndFailedEffect, SetDiskType, StateUnchanged
     DEF FailListEnds
<1>14. CASE FailRemoveEnds(c)
  BY <1>1, <1>2, <1>4, <1>14, EndFailedEffect, SetDiskType DEF FailRemoveEnds
<1> QED
  BY <1>5, <1>6, <1>7, <1>8, <1>9, <1>10, <1>11, <1>12, <1>13, <1>14 DEF RoundStep

-----------------------------------------------------------------------------
(* createBench, setup, launch and status polls *)

LEMMA CallOf ==
    ASSUME TypeOK, NEW c \in Calls, call[c].pc \in Pcs \ (UnregPcs \cup {"done"})
    PROVE  /\ call[c].key \in Keys
           /\ call[c].id \in Ids
           /\ bench[call[c].id] \in Bench
           /\ call[c].pc = "launch" => call[c].on \in Ids
BY DEF TypeOK, Call, CallRecord

LEMMA CreateBenchType ==
    ASSUME TypeOK, NEW p \in Projects, CreateBench(p)
    PROVE  TypeOK'
<1>1. PICK n \in 1..MaxBenches, b \in Ids, c \in Calls :
        /\ benches' = [benches EXCEPT ![<<p, n>>] = b]
        /\ bench' = [bench EXCEPT ![b] = NewBench]
        /\ round' = [round EXCEPT ![<<p, n>>] = c]
        /\ call' = [call EXCEPT ![c] = [NoCall EXCEPT !.pc = "resolve", !.key = <<p, n>>,
                                                      !.id = b, !.creates = TRUE]]
        /\ left' = left \ {<<p, n>>}
  BY DEF CreateBench
<1>2. <<p, n>> \in Keys
  BY DEF Keys
<1>3. [NoCall EXCEPT !.pc = "resolve", !.key = <<p, n>>, !.id = b, !.creates = TRUE] \in Call
  BY <1>2, NoCallType DEF NoCall, Call, CallRecord, Pcs, RoundPcs, UnregPcs
<1> QED
  BY <1>1, <1>2, <1>3, NewBenchType DEF TypeOK, CreateBench, state

LEMMA StartAllEffect ==
    ASSUME TypeOK, NEW k \in Keys, StartAll(k)
    PROVE  TypeOK' /\ UNCHANGED <<registered, benches>> /\ SameRecords
<1> DEFINE b  == benches[k]
           r  == [bench[b] EXCEPT !.status = "preparing", !.err = FALSE]
           pc == FirstStep(r)
<1>1. PICK c \in Calls :
        call' = [call EXCEPT ![c] = [NoCall EXCEPT !.pc = pc, !.key = k, !.id = b,
                                           !.on = IF pc = "launch" THEN b ELSE None]]
  BY DEF StartAll
<1>2. b \in Ids /\ bench' = [bench EXCEPT ![b] = r]
  BY DEF TypeOK, StartAll, Live
<1>3. r \in Bench
  <2>1. bench[b] \in Bench
    BY <1>2 DEF TypeOK
  <2> HIDE DEF b
  <2> QED
    BY <2>1 DEF Bench, Status
<1>4. pc \in {"setup", "launch"}
  BY DEF FirstStep
<1> HIDE DEF b, r, pc
<1>5. [NoCall EXCEPT !.pc = pc, !.key = k, !.id = b,
                     !.on = IF pc = "launch" THEN b ELSE None] \in Call
  BY <1>2, <1>4, NoCallType DEF NoCall, Call, CallRecord, Pcs, UnregPcs
<1> QED
  BY <1>1, <1>2, <1>3, <1>5 DEF TypeOK, StartAll, SameRecords, state, ghosts

LEMMA SetupEndsEffect ==
    ASSUME TypeOK, NEW c \in Calls, SetupEnds(c)
    PROVE  TypeOK' /\ UNCHANGED <<registered, benches>> /\ SameRecords
<1> DEFINE k == call[c].key
           b == call[c].id
           failed == [bench[b] EXCEPT !.status = "error", !.err = TRUE]
<1>1. k \in Keys /\ b \in Ids /\ bench[b] \in Bench
  BY CallOf DEF SetupEnds, Pcs, UnregPcs
<1>2. failed \in Bench /\ failed.setup \in BOOLEAN
  BY <1>1 DEF Bench, Status
<1>3. /\ bench' \in [Ids -> Bench]
      /\ call' \in [Calls -> Call]
      /\ StateTypes /\ SameRecords
      => TypeOK' /\ UNCHANGED <<registered, benches>> /\ SameRecords
  BY DEF TypeOK, SetupEnds, StateTypes, ghosts
<1>4. CASE bench' = [bench EXCEPT ![b] = failed] /\ Finish(c)
           /\ IF call[c].creates THEN Notify(k, b, failed.setup) ELSE UNCHANGED state
  <2>1. StateTypes /\ SameRecords
    BY <1>1, <1>2, <1>4, NotifyEffect, StateUnchanged
  <2>2. bench' \in [Ids -> Bench] /\ call' \in [Calls -> Call]
    BY <1>2, <1>4, FinishType DEF TypeOK
  <2> QED
    BY <1>3, <2>1, <2>2
<1>5. CASE Finish(c) /\ UNCHANGED <<bench, state>>
  BY <1>3, <1>5, FinishType, StateUnchanged DEF TypeOK
<1>6. CASE /\ Live(k)
           /\ UpdateRecord(k, b, TRUE)
           /\ IF ~call[c].creates \/ AutoStart
              THEN /\ bench' = [bench EXCEPT ![b].setup = TRUE]
                   /\ call' = [call EXCEPT ![c].pc = "launch", ![c].on = benches[k]]
              ELSE /\ bench' = [bench EXCEPT ![b].setup = TRUE, ![b].status = "idle"]
                   /\ Finish(c)
  <2>1. StateTypes /\ SameRecords
    BY <1>1, <1>6, UpdateRecordEffect
  <2>2. benches[k] \in Ids
    BY <1>1, <1>6 DEF TypeOK, Live
  <2>3. [call[c] EXCEPT !.pc = "launch", !.on = benches[k]] \in Call
    <3>1. "launch" \in Pcs /\ "launch" \notin UnregPcs /\ call[c] \in CallRecord
      BY DEF TypeOK, Call, Pcs, UnregPcs
    <3> QED
      BY <1>1, <2>2, <3>1 DEF Call, CallRecord
  <2>4. call' \in [Calls -> Call]
    BY <1>6, <2>3, FinishType DEF TypeOK
  <2>5. /\ [bench[b] EXCEPT !.setup = TRUE] \in Bench
        /\ [bench[b] EXCEPT !.setup = TRUE, !.status = "idle"] \in Bench
    BY <1>1 DEF Bench, Status
  <2>6. bench' \in [Ids -> Bench]
    BY <1>1, <1>6, <2>5 DEF TypeOK
  <2> QED
    BY <1>3, <2>1, <2>4, <2>6
<1> QED
  BY <1>4, <1>5, <1>6 DEF SetupEnds

LEMMA LaunchEndsEffect ==
    ASSUME TypeOK, NEW c \in Calls, LaunchEnds(c)
    PROVE  TypeOK' /\ UNCHANGED <<registered, benches>> /\ SameRecords
<1>1. /\ call[c].key \in Keys /\ call[c].id \in Ids /\ call[c].on \in Ids
      /\ \A h \in Ids : bench[h].setup \in BOOLEAN
  BY CallOf DEF LaunchEnds, Pcs, UnregPcs, TypeOK, Bench
<1>2. StateTypes /\ SameRecords
  BY <1>1, UpdateRecordEffect, NotifyEffect, StateUnchanged DEF LaunchEnds
<1>3. bench' \in [Ids -> Bench]
  BY <1>1 DEF LaunchEnds, TypeOK, Bench, Status
<1>4. call' \in [Calls -> Call]
  BY FinishType DEF LaunchEnds, TypeOK
<1> QED
  BY <1>2, <1>3, <1>4 DEF TypeOK, StateTypes, LaunchEnds, ghosts

LEMMA UpdateBenchStatusEffect ==
    ASSUME TypeOK, NEW k \in Keys, UpdateBenchStatus(k)
    PROVE  TypeOK' /\ UNCHANGED <<registered, benches>> /\ SameRecords
<1>1. benches[k] \in Ids
  BY DEF TypeOK, UpdateBenchStatus, Live
<1>2. \A t \in {"idle", "error"} : [bench[benches[k]] EXCEPT !.status = t] \in Bench
  BY <1>1 DEF TypeOK, Bench, Status
<1>3. bench' \in [Ids -> Bench]
  BY <1>1, <1>2 DEF TypeOK, UpdateBenchStatus
<1> QED
  BY <1>3 DEF TypeOK, UpdateBenchStatus, SameRecords, state, ghosts

-----------------------------------------------------------------------------
(* Clear *)

LEMMA AbortType ==
    ASSUME NEW f \in [Calls -> Call], NEW cs
    PROVE  Abort(cs, f) \in [Calls -> Call]
<1>1. \A r \in Call : [r EXCEPT !.aborted = TRUE] \in Call
  BY DEF Call, CallRecord
<1> QED
  BY <1>1 DEF Abort

LEMMA TeardownBenchEffect ==
    ASSUME TypeOK, NEW k \in Keys, NEW keep \in BOOLEAN, TeardownBench(k, keep)
    PROVE  TypeOK' /\ UNCHANGED <<registered, benches>> /\ SameRecords
<1> DEFINE b == benches[k]
           clear == [NoCall EXCEPT !.pc = "tdWait", !.key = k, !.id = b,
                                   !.keep = keep \/ k[1] \notin registered,
                                   !.wait = {round[k]} \ {None}]
<1>1. b \in Ids /\ bench[b] \in Bench
  BY DEF TypeOK, TeardownBench, Live
<1>2. PICK c \in Calls : call' = Abort({round[k]}, [call EXCEPT ![c] = clear])
  BY DEF TeardownBench
<1>3. clear \in Call
  <2>1. {round[k]} \ {None} \subseteq Calls
    BY DEF TypeOK
  <2>2. (keep \/ k[1] \notin registered) \in BOOLEAN
    OBVIOUS
  <2>3. /\ "tdWait" \in Pcs /\ "tdWait" \notin UnregPcs
        /\ "tdWait" # "launch"
    BY DEF Pcs, ClearPcs, UnregPcs
  <2> HIDE DEF b
  <2>4. clear \in CallRecord
    BY <1>1, <2>1, <2>2, <2>3 DEF NoCall, CallRecord
  <2>5. clear.pc = "tdWait" /\ clear.key = k /\ clear.id = b
    BY DEF NoCall
  <2> HIDE DEF clear
  <2> QED
    BY <1>1, <2>3, <2>4, <2>5 DEF Call
<1>4. call' \in [Calls -> Call]
  <2> HIDE DEF clear
  <2>1. [call EXCEPT ![c] = clear] \in [Calls -> Call]
    BY <1>3 DEF TypeOK
  <2> QED
    BY <1>2, <2>1, AbortType
<1>5. bench' \in [Ids -> Bench]
  <2> HIDE DEF b
  <2>1. [bench[b] EXCEPT !.status = "clearing", !.steps = "active"] \in Bench
    BY <1>1 DEF Bench, Status
  <2>2. bench' = [bench EXCEPT ![b].status = "clearing", ![b].steps = "active"]
    BY DEF TeardownBench, b
  <2> QED
    BY <2>1, <2>2 DEF TypeOK
<1> QED
  BY <1>4, <1>5 DEF TypeOK, TeardownBench, SameRecords, state

\* A removal's wait is over and its call goes on.
LEMMA WaitEndsEffect ==
    ASSUME TypeOK, NEW c \in Calls, NEW pc,
           \/ call[c].pc \in ClearPcs /\ pc \in ClearPcs
           \/ call[c].pc \in UnregPcs /\ pc \in UnregPcs,
           call' = [call EXCEPT ![c].pc = pc, ![c].wait = {}]
    PROVE  call' \in [Calls -> Call]
<1>1. /\ call[c] \in Call /\ call[c] \in CallRecord
      /\ pc \in Pcs /\ pc # "launch" /\ pc # "done"
  BY DEF TypeOK, Call, Pcs, ClearPcs, UnregPcs
<1>2. pc \in UnregPcs <=> call[c].pc \in UnregPcs
  BY DEF ClearPcs, UnregPcs
<1>3. call[c].pc # "done"
  BY DEF ClearPcs, UnregPcs
<1>4. [call[c] EXCEPT !.pc = pc, !.wait = {}] \in Call
  BY <1>1, <1>2, <1>3 DEF Call, CallRecord
<1> QED
  BY <1>4 DEF TypeOK

\* A slot is freed: its record and its bench go in the same step.
Frees(k) == /\ recorded'[k] = None /\ benches'[k] = None
            /\ \A j \in Keys \ {k} : recorded'[j] = recorded[j] /\ benches'[j] = benches[j]

MapTypes == /\ benches' \in [Keys -> Ids \cup {None}]
            /\ left' \subseteq Keys

LEMMA ClearCall ==
    ASSUME TypeOK, NEW c \in Calls, call[c].pc \in ClearPcs
    PROVE  /\ call[c].key \in Keys
           /\ call[c].id \in Ids
           /\ bench[call[c].id] \in Bench
BY DEF TypeOK, Call, CallRecord, ClearPcs, UnregPcs

LEMMA ClearFailsEffect ==
    ASSUME TypeOK, NEW c \in Calls, call[c].pc \in ClearPcs, ClearFails(c)
    PROVE  RoundTypes /\ StateTypes /\ MapTypes /\ UNCHANGED benches /\ SameRecords
<1> DEFINE b == call[c].id
<1>1. call[c].key \in Keys /\ b \in Ids /\ bench[b] \in Bench /\ bench[b].setup \in BOOLEAN
  BY ClearCall DEF Bench
<1>2. bench' = [bench EXCEPT ![b].status = "error", ![b].err = TRUE, ![b].steps = "failed"]
  BY DEF ClearFails
<1>3. StateTypes /\ SameRecords
  BY <1>1, UpdateRecordEffect DEF ClearFails
<1>4. call' \in [Calls -> Call] /\ UNCHANGED <<benches, round, left>>
  BY FinishType DEF ClearFails, TypeOK
<1> HIDE DEF b
<1>5. [bench[b] EXCEPT !.status = "error", !.err = TRUE, !.steps = "failed"] \in Bench
  BY <1>1 DEF Bench, Status
<1>6. bench' \in [Ids -> Bench]
  BY <1>2, <1>5 DEF TypeOK
<1> QED
  BY <1>3, <1>4, <1>6 DEF TypeOK, RoundTypes, MapTypes

LEMMA ClearSucceedsEffect ==
    ASSUME TypeOK, NEW c \in Calls, call[c].pc \in ClearPcs, ClearSucceeds(c)
    PROVE  RoundTypes /\ StateTypes /\ MapTypes /\ Frees(call[c].key)
<1>1. call[c].key \in Keys
  BY ClearCall
<1>2. StateTypes /\ Frees(call[c].key)
  BY <1>1, RemoveRecordEffect DEF ClearSucceeds, TypeOK, Frees
<1>3. call' \in [Calls -> Call]
  BY FinishType DEF ClearSucceeds, TypeOK
<1> QED
  BY <1>1, <1>2, <1>3 DEF ClearSucceeds, TypeOK, RoundTypes, MapTypes

LEMMA ClearGoto ==
    ASSUME TypeOK, NEW c \in Calls, call[c].pc \in ClearPcs, NEW pc \in ClearPcs,
           Goto(c, pc), UNCHANGED <<benches, bench, round, state, left>>
    PROVE  RoundTypes /\ StateTypes /\ MapTypes /\ UNCHANGED benches /\ SameRecords
<1>1. call[c].pc \notin UnregPcs \cup {"done"} /\ pc \in Pcs \ (UnregPcs \cup {"launch"})
  BY DEF ClearPcs, UnregPcs, Pcs
<1>2. call' \in [Calls -> Call]
  BY <1>1, GotoType DEF TypeOK
<1> QED
  BY <1>2, StateUnchanged DEF TypeOK, RoundTypes, MapTypes

\* A step of a Clear leaves the slots alone or frees its own.
LEMMA ClearStepEffect ==
    ASSUME TypeOK, NEW c \in Calls, ClearStep(c)
    PROVE  /\ TypeOK'
           /\ call[c].key \in Keys
           /\ UNCHANGED registered
           /\ (UNCHANGED benches /\ SameRecords) \/ Frees(call[c].key)
<1> DEFINE k == call[c].key
<1>1. call[c].pc \in ClearPcs
  BY DEF ClearStep, ClearPcs, ClearWaitEnds, ClearStopEnds, ClearListEnds, ClearRemoveEnds,
         ClearBranchEnds
<1>2. k \in Keys /\ "none" \in Disk
  BY <1>1, ClearCall DEF Disk
<1>3. {"tdStop", "tdList", "tdRemove", "tdBranch", "tdLeftover"} \subseteq ClearPcs
  BY DEF ClearPcs
<1>4. /\ RoundTypes /\ StateTypes /\ MapTypes
      /\ disk' \in [Keys -> Disk]
      /\ UNCHANGED <<registered, boot, contested, overran>>
      => TypeOK'
  BY DEF TypeOK, RoundTypes, StateTypes, MapTypes
<1>5. CASE ClearWaitEnds(c)
  <2>1. call' \in [Calls -> Call]
    BY <1>1, <1>3, <1>5, WaitEndsEffect DEF ClearWaitEnds
  <2> QED
    BY <1>2, <1>5, <2>1 DEF ClearWaitEnds, TypeOK, SameRecords, state
<1>6. CASE ClearStopEnds(c)
  BY <1>1, <1>2, <1>3, <1>4, <1>6, ClearFailsEffect, ClearSucceedsEffect, ClearGoto
     DEF ClearStopEnds, TypeOK
<1>7. CASE ClearListEnds(c)
  <2>1. disk' \in [Keys -> Disk]
    BY <1>2, <1>7, SetDiskType DEF ClearListEnds, TypeOK
  <2> QED
    BY <1>1, <1>2, <1>3, <1>4, <1>7, <2>1, ClearGoto DEF ClearListEnds, ghosts
<1>8. CASE ClearRemoveEnds(c)
  <2>1. disk' \in [Keys -> Disk]
    BY <1>2, <1>8, SetDiskType DEF ClearRemoveEnds, TypeOK
  <2> QED
    BY <1>1, <1>2, <1>3, <1>4, <1>8, <2>1, ClearFailsEffect, ClearGoto DEF ClearRemoveEnds
<1>9. CASE ClearBranchEnds(c)
  BY <1>1, <1>2, <1>4, <1>9, ClearFailsEffect, ClearSucceedsEffect DEF ClearBranchEnds, TypeOK
<1> QED
  BY <1>5, <1>6, <1>7, <1>8, <1>9 DEF ClearStep

-----------------------------------------------------------------------------
(* Cleanup & Retry *)

LEMMA CleanupAndRetryEffect ==
    ASSUME TypeOK, NEW k \in Keys, CleanupAndRetry(k)
    PROVE  TypeOK' /\ UNCHANGED <<registered, benches>> /\ SameRecords
<1> DEFINE retry == [NoCall EXCEPT !.pc = "rtStop", !.key = k, !.id = benches[k]]
<1>1. benches[k] \in Ids
  BY DEF TypeOK, CleanupAndRetry, Live
<1>2. PICK c \in Calls : call' = [call EXCEPT ![c] = retry]
  BY DEF CleanupAndRetry
<1>3. retry \in Call
  BY <1>1, NoCallType DEF NoCall, Call, CallRecord, Pcs, RetryPcs, UnregPcs
<1> HIDE DEF retry
<1>4. call' \in [Calls -> Call]
  BY <1>2, <1>3 DEF TypeOK
<1> QED
  BY <1>4 DEF TypeOK, CleanupAndRetry, SameRecords, state

\* The record of a slot is dropped, and nothing else about the slots changes.
Drops(k) == /\ recorded'[k] = None
            /\ \A j \in Keys \ {k} : recorded'[j] = recorded[j]

LEMMA RetryCall ==
    ASSUME TypeOK, NEW c \in Calls, call[c].pc \in RetryPcs
    PROVE  call[c].key \in Keys /\ call[c].id \in Ids
BY DEF TypeOK, Call, CallRecord, RetryPcs, UnregPcs

LEMMA RetryGoto ==
    ASSUME TypeOK, NEW c \in Calls, call[c].pc \in RetryPcs, NEW pc \in RetryPcs \cup {"resolve"},
           call' = [call EXCEPT ![c].pc = pc]
    PROVE  call' \in [Calls -> Call]
<1>1. call[c].pc \notin UnregPcs \cup {"done"} /\ pc \in Pcs \ (UnregPcs \cup {"launch"})
  BY DEF RetryPcs, RoundPcs, UnregPcs, Pcs
<1> QED
  BY <1>1, GotoType DEF TypeOK, Goto

LEMMA RetryResetsEffect ==
    ASSUME TypeOK, NEW c \in Calls, call[c].pc \in RetryPcs, RetryResets(c)
    PROVE  RoundTypes /\ StateTypes /\ Drops(call[c].key)
<1>1. call[c].key \in Keys /\ call[c].id \in Ids
  BY RetryCall
<1>2. StateTypes /\ Drops(call[c].key)
  BY <1>1, RemoveRecordEffect DEF RetryResets, Drops
<1>3. call' \in [Calls -> Call]
  <2>1. Finish(c) \/ call' = [call EXCEPT ![c].pc = "resolve"]
    BY DEF RetryResets
  <2> QED
    BY <2>1, FinishType, RetryGoto DEF TypeOK
<1> QED
  BY <1>1, <1>2, <1>3, NewBenchType DEF RetryResets, TypeOK, RoundTypes

\* A step of a Cleanup & Retry leaves the slots alone or drops its own record.
LEMMA RetryStepEffect ==
    ASSUME TypeOK, NEW c \in Calls, RetryStep(c)
    PROVE  /\ TypeOK'
           /\ call[c].key \in Keys
           /\ UNCHANGED <<registered, benches>>
           /\ SameRecords \/ Drops(call[c].key)
<1> DEFINE k == call[c].key
<1>1. call[c].pc \in RetryPcs
  BY DEF RetryStep, RetryPcs, RetryStopEnds, RetryListEnds, RetryRemoveEnds
<1>2. k \in Keys /\ "none" \in Disk
  BY <1>1, RetryCall DEF Disk
<1>3. {"rtList", "rtRemove"} \subseteq RetryPcs
  BY DEF RetryPcs
<1>4. /\ RoundTypes /\ StateTypes
      /\ disk' \in [Keys -> Disk]
      /\ UNCHANGED <<registered, benches, boot, ghosts>>
      => TypeOK'
  BY DEF TypeOK, RoundTypes, StateTypes, ghosts
<1>5. CASE RetryStopEnds(c)
  <2>1. call' \in [Calls -> Call]
    BY <1>1, <1>3, <1>5, RetryGoto DEF RetryStopEnds, Goto
  <2> QED
    BY <1>2, <1>4, <1>5, <2>1, StateUnchanged DEF RetryStopEnds, TypeOK, RoundTypes
<1>6. CASE RetryListEnds(c)
  <2>1. disk' \in [Keys -> Disk]
    BY <1>2, <1>6, SetDiskType DEF RetryListEnds, TypeOK
  <2>2. CASE Goto(c, "rtRemove") /\ UNCHANGED <<bench, round, state, disk>>
    <3>1. call' \in [Calls -> Call]
      BY <1>1, <1>3, <2>2, RetryGoto DEF Goto
    <3> QED
      BY <1>2, <1>4, <1>6, <2>1, <2>2, <3>1, StateUnchanged
      DEF RetryListEnds, TypeOK, RoundTypes
  <2>3. CASE RetryResets(c)
    BY <1>1, <1>2, <1>4, <1>6, <2>1, <2>3, RetryResetsEffect DEF RetryListEnds
  <2> QED
    BY <1>6, <2>2, <2>3 DEF RetryListEnds
<1>7. CASE RetryRemoveEnds(c)
  <2>1. disk' \in [Keys -> Disk]
    BY <1>2, <1>7, SetDiskType DEF RetryRemoveEnds, TypeOK
  <2>2. CASE Finish(c) /\ UNCHANGED <<bench, round, state, disk>>
    BY <1>2, <1>4, <1>7, <2>1, <2>2, FinishType, StateUnchanged
    DEF RetryRemoveEnds, TypeOK, RoundTypes
  <2>3. CASE RetryResets(c)
    BY <1>1, <1>2, <1>4, <1>7, <2>1, <2>3, RetryResetsEffect DEF RetryRemoveEnds
  <2> QED
    BY <1>7, <2>2, <2>3 DEF RetryRemoveEnds
<1> QED
  BY <1>5, <1>6, <1>7 DEF RetryStep

-----------------------------------------------------------------------------
(* Unregister *)

\* A project goes with the benches of its slots; other slots are left alone.
Unregisters(p) == /\ registered' = registered \ {p}
                  /\ \A k \in Keys : k[1] # p => /\ benches'[k] = benches[k]
                                                 /\ recorded'[k] = recorded[k]

LEMMA UnregisterEmptyEffect ==
    ASSUME TypeOK, NEW p \in Projects, UnregisterEmpty(p)
    PROVE  TypeOK' /\ Unregisters(p)
BY DEF TypeOK, UnregisterEmpty, Unregisters, state, ghosts

LEMMA ForceUnregisterEffect ==
    ASSUME TypeOK, NEW p \in Projects, ForceUnregister(p)
    PROVE  TypeOK' /\ UNCHANGED <<registered, benches>> /\ SameRecords
<1> DEFINE rounds == {round[k] : k \in KeysOf(p) \cap LiveKeys} \ {None}
           unreg == [NoCall EXCEPT !.pc = "urWait", !.key = <<p, 1>>, !.wait = rounds,
                                   !.todo = Active(p),
                                   !.recs = {k \in Active(p) : recorded[k] # None}]
<1>1. PICK c \in Calls : call' = Abort(rounds, [call EXCEPT ![c] = unreg])
  BY DEF ForceUnregister
<1>2. <<p, 1>> \in Keys
  BY Parameters DEF Keys
<1>3. rounds \subseteq Calls
  BY DEF TypeOK, KeysOf
<1>4. Active(p) \subseteq Keys /\ \A k \in Active(p) : k[1] = p
  BY DEF Active, KeysOf
<1>5. unreg \in Call
  <2> DEFINE recs == {k \in Active(p) : recorded[k] # None}
  <2>1. recs \subseteq Keys /\ \A k \in recs : k[1] = p
    BY <1>4
  <2> HIDE DEF rounds, recs
  <2> QED
    BY <1>2, <1>3, <1>4, <2>1, NoCallType DEF recs, NoCall, Call, CallRecord, Pcs, UnregPcs
<1>6. call' \in [Calls -> Call]
  <2> HIDE DEF unreg, rounds
  <2>1. [call EXCEPT ![c] = unreg] \in [Calls -> Call]
    BY <1>5 DEF TypeOK
  <2> QED
    BY <1>1, <2>1, AbortType
<1> QED
  BY <1>6 DEF TypeOK, ForceUnregister, SameRecords, state, ghosts

LEMMA UnregisterDoneEffect ==
    ASSUME TypeOK, NEW c \in Calls, call[c].pc \in UnregPcs, NEW d, UnregisterDone(c, d)
    PROVE  /\ StateTypes /\ MapTypes
           /\ registered' \subseteq Projects
           /\ round' \in [Keys -> Calls \cup {None}]
           /\ call' \in [Calls -> Call]
           /\ Unregisters(call[c].key[1])
<1>1. \A k \in call[c].recs : k[1] = call[c].key[1]
  BY DEF TypeOK, Call, UnregPcs
<1>2. call' \in [Calls -> Call]
  BY FinishType DEF TypeOK, UnregisterDone
<1>3. Unregisters(call[c].key[1])
  BY <1>1 DEF UnregisterDone, Unregisters
<1>4. StateTypes
  BY DEF TypeOK, UnregisterDone, StateTypes
<1> QED
  BY <1>2, <1>3, <1>4 DEF TypeOK, UnregisterDone, MapTypes, KeysOf

\* A step of an unregister leaves the slots alone or drops its own project.
LEMMA UnregisterStepEffect ==
    ASSUME TypeOK, NEW c \in Calls, UnregisterStep(c)
    PROVE  /\ TypeOK'
           /\ call[c].key[1] \in Projects
           /\ \/ UNCHANGED <<registered, benches>> /\ SameRecords
              \/ Unregisters(call[c].key[1])
<1>1. call[c].pc \in UnregPcs
  BY DEF UnregisterStep, UnregPcs, UnregisterWaitEnds, UnregisterStopEnds, UnregisterRemoves
<1>2. /\ call[c] \in CallRecord /\ call[c].key \in Keys /\ call[c].key[1] \in Projects
      /\ {"urStop", "urRemove"} \subseteq UnregPcs
  BY <1>1 DEF TypeOK, Call, Keys, UnregPcs
<1>3. CASE UnregisterWaitEnds(c)
  <2>1. call' \in [Calls -> Call]
    BY <1>1, <1>2, <1>3, WaitEndsEffect DEF UnregisterWaitEnds
  <2> QED
    BY <1>2, <1>3, <2>1 DEF UnregisterWaitEnds, TypeOK, SameRecords, state
<1>4. CASE UnregisterStopEnds(c)
  <2>1. CASE Goto(c, "urRemove") /\ UNCHANGED <<registered, benches, round, state, left>>
    <3> DEFINE next == [call[c] EXCEPT !.pc = "urRemove"]
    <3>2. call[c] \in Call /\ "urRemove" \in Pcs
      BY DEF TypeOK, Pcs, UnregPcs
    <3>3. next \in CallRecord
      BY <1>2, <3>2 DEF CallRecord
    <3>4. /\ next.pc = "urRemove" /\ next.key = call[c].key /\ next.id = call[c].id
          /\ next.on = call[c].on /\ next.recs = call[c].recs
          /\ next.todo = call[c].todo
      BY <1>2 DEF CallRecord
    <3>1. next \in Call
      BY <1>1, <1>2, <3>2, <3>3, <3>4 DEF Call, UnregPcs
    <3> QED
      BY <1>2, <1>4, <2>1, <3>1 DEF UnregisterStopEnds, Goto, TypeOK, SameRecords, state
  <2>2. CASE UnregisterDone(c, disk)
    BY <1>1, <1>2, <1>4, <2>2, UnregisterDoneEffect
    DEF UnregisterStopEnds, TypeOK, StateTypes, MapTypes
  <2> QED
    BY <1>4, <2>1, <2>2 DEF UnregisterStopEnds
<1>5. CASE UnregisterRemoves(c)
  <2>1. PICK k \in call[c].todo :
          /\ \E d \in Forced(disk[k]) : SetDisk(k, d)
          /\ IF call[c].todo = {k} THEN UnregisterDone(c, disk')
             ELSE /\ call' = [call EXCEPT ![c].todo = @ \ {k}]
                  /\ UNCHANGED <<registered, benches, round, state, left>>
    BY <1>5 DEF UnregisterRemoves
  <2>2. k \in Keys
    BY <1>2 DEF CallRecord
  <2>3. disk' \in [Keys -> Disk]
    BY <2>1, <2>2, ForcedType, SetDiskType DEF TypeOK
  <2>4. CASE UnregisterDone(c, disk')
    BY <1>1, <1>2, <1>5, <2>3, <2>4, UnregisterDoneEffect
    DEF UnregisterRemoves, TypeOK, StateTypes, MapTypes
  <2>5. CASE /\ call' = [call EXCEPT ![c].todo = @ \ {k}]
             /\ UNCHANGED <<registered, benches, round, state, left>>
    <3> DEFINE next == [call[c] EXCEPT !.todo = @ \ {k}]
    <3>2. call[c] \in Call
      BY DEF TypeOK
    <3>3. /\ next \in CallRecord
          /\ next.pc = call[c].pc /\ next.key = call[c].key /\ next.id = call[c].id
          /\ next.on = call[c].on /\ next.recs = call[c].recs
          /\ next.todo = call[c].todo \ {k}
      BY <1>2 DEF CallRecord
    <3>1. next \in Call
      <4> HIDE DEF next
      <4> QED
        BY <3>2, <3>3 DEF Call
    <3> QED
      BY <1>2, <1>5, <2>3, <2>5, <3>1 DEF UnregisterRemoves, TypeOK, SameRecords, state
  <2> QED
    BY <2>1, <2>4, <2>5
<1> QED
  BY <1>3, <1>4, <1>5 DEF UnregisterStep

-----------------------------------------------------------------------------
(* Restart, reconcile and sweep *)

LEMMA RestartType ==
    ASSUME TypeOK, Restart
    PROVE  TypeOK'
<1>1. call' \in [Calls -> Call]
  BY NoCallType DEF Restart
<1>2. bench' \in [Ids -> Bench]
  <2>1. \A u \in BOOLEAN : [NewBench EXCEPT !.status = "idle", !.setup = u] \in Bench
    BY DEF NewBench, Bench, Status
  <2> QED
    BY <2>1 DEF Restart
<1>3. round' \in [Keys -> Calls \cup {None}] /\ boot' \in [Keys -> Boot]
  BY DEF Restart, Boot
<1> QED
  BY <1>1, <1>2, <1>3 DEF TypeOK, Restart, state

LEMMA ReconcileEffect ==
    ASSUME TypeOK, NEW k \in Keys, Reconcile(k)
    PROVE  TypeOK' /\ UNCHANGED <<registered, benches>> /\ SameRecords
<1> DEFINE b == benches[k]
           refused == [bench EXCEPT ![b].status = "error", ![b].err = TRUE]
           accepted == IF bench[b].status \in {"preparing", "clearing"} THEN bench
                       ELSE [bench EXCEPT ![b].status = "idle"]
<1>1. ASSUME Live(k)
      PROVE  refused \in [Ids -> Bench] /\ accepted \in [Ids -> Bench]
  <2>1. b \in Ids
    BY <1>1 DEF TypeOK, Live
  <2> HIDE DEF b
  <2>2. /\ [bench[b] EXCEPT !.status = "error", !.err = TRUE] \in Bench
        /\ [bench[b] EXCEPT !.status = "idle"] \in Bench
    BY <2>1 DEF TypeOK, Bench, Status
  <2> QED
    BY <2>1, <2>2 DEF TypeOK
<1>2. \/ bench' = bench
      \/ Live(k) /\ bench' = refused
      \/ Live(k) /\ bench' = accepted
  BY DEF Reconcile
<1>3. bench' \in [Ids -> Bench]
  BY <1>1, <1>2 DEF TypeOK
<1>4. boot' \in [Keys -> Boot]
  BY DEF TypeOK, Reconcile, Boot
<1> QED
  BY <1>3, <1>4 DEF TypeOK, Reconcile, SameRecords, state, ghosts

LEMMA SweepEffect ==
    ASSUME TypeOK, NEW k \in Keys, SweepList(k) \/ SweepRemove(k)
    PROVE  TypeOK' /\ UNCHANGED <<registered, benches>> /\ SameRecords
BY DEF TypeOK, SweepList, SweepRemove, SetDisk, Disk, Boot, SameRecords, state, ghosts

-----------------------------------------------------------------------------
(* What any step does to the registry, the map of benches and the records *)

Quiet == UNCHANGED <<registered, benches>> /\ SameRecords

SlotEffect ==
    \/ Quiet
    \/ UNCHANGED <<registered, benches>> /\ \E k \in Keys : Records(k) \/ Drops(k)
    \/ UNCHANGED registered /\ \E k \in Keys : Frees(k)
    \/ \E p \in Projects : Unregisters(p) \/ CreateBench(p)
    \/ Restart

LEMMA StepEffect ==
    ASSUME TypeOK, [Next]_vars
    PROVE  TypeOK' /\ SlotEffect
<1>1. CASE UNCHANGED vars
  BY <1>1 DEF vars, TypeOK, SlotEffect, Quiet, SameRecords
<1>2. ASSUME NEW p \in Projects, CreateBench(p) \/ UnregisterEmpty(p) \/ ForceUnregister(p)
      PROVE  TypeOK' /\ SlotEffect
  BY <1>2, CreateBenchType, UnregisterEmptyEffect, ForceUnregisterEffect DEF SlotEffect, Quiet
<1>3. ASSUME NEW k \in Keys,
             \/ StartAll(k) \/ UpdateBenchStatus(k) \/ CleanupAndRetry(k)
             \/ \E keep \in BOOLEAN : TeardownBench(k, keep)
             \/ Reconcile(k) \/ SweepList(k) \/ SweepRemove(k)
      PROVE  TypeOK' /\ SlotEffect
  BY <1>3, StartAllEffect, UpdateBenchStatusEffect, CleanupAndRetryEffect, TeardownBenchEffect,
     ReconcileEffect, SweepEffect DEF SlotEffect, Quiet
<1>4. ASSUME NEW c \in Calls, CallStep(c)
      PROVE  TypeOK' /\ SlotEffect
  <2>1. CASE RoundStep(c)
    BY <2>1, RoundStepEffect DEF SlotEffect, Quiet
  <2>2. CASE SetupEnds(c) \/ LaunchEnds(c)
    BY <2>2, SetupEndsEffect, LaunchEndsEffect DEF SlotEffect, Quiet
  <2>3. CASE ClearStep(c)
    BY <2>3, ClearStepEffect DEF SlotEffect, Quiet
  <2>4. CASE RetryStep(c)
    BY <2>4, RetryStepEffect DEF SlotEffect, Quiet
  <2>5. CASE UnregisterStep(c)
    BY <2>5, UnregisterStepEffect DEF SlotEffect, Quiet
  <2> QED
    BY <1>4, <2>1, <2>2, <2>3, <2>4, <2>5 DEF CallStep
<1>5. CASE Restart
  BY <1>5, RestartType DEF SlotEffect
<1> QED
  BY <1>1, <1>2, <1>3, <1>4, <1>5 DEF Next

LEMMA InitTypes == Init => TypeOK
<1> SUFFICES ASSUME Init PROVE TypeOK
  OBVIOUS
<1>1. call \in [Calls -> Call] /\ bench \in [Ids -> Bench]
  BY NoCallType, NewBenchType DEF Init
<1> QED
  BY <1>1 DEF Init, TypeOK, Disk, Boot

\* Every variable keeps its type, and every call in flight its key and its bench.
THEOREM TypeCorrect == Spec => []TypeOK
<1>1. TypeOK /\ [Next]_vars => TypeOK'
  BY StepEffect
<1> QED
  BY <1>1, InitTypes, PTL DEF Spec

-----------------------------------------------------------------------------
(* Records *)

\* Step by step: a record appears only for a live bench, and a bench leaves the map
\* of a registered project only together with its record.
LEMMA NoPhantomStep ==
    ASSUME TypeOK, NoPhantomRecord, [Next]_vars
    PROVE  NoPhantomRecord'
<1>1. SlotEffect
  BY StepEffect
<1>2. CASE Quiet
  BY <1>2 DEF Quiet, SameRecords, NoPhantomRecord, Live
<1>3. ASSUME UNCHANGED <<registered, benches>>, NEW k \in Keys, Records(k) \/ Drops(k)
      PROVE  NoPhantomRecord'
  BY <1>3 DEF Records, Drops, NoPhantomRecord, Live
<1>4. ASSUME UNCHANGED registered, NEW k \in Keys, Frees(k)
      PROVE  NoPhantomRecord'
  BY <1>4 DEF Frees, NoPhantomRecord, Live
<1>5. ASSUME NEW p \in Projects, Unregisters(p)
      PROVE  NoPhantomRecord'
  BY <1>5 DEF Unregisters, NoPhantomRecord, Live
<1>6. ASSUME NEW p \in Projects, CreateBench(p)
      PROVE  NoPhantomRecord'
  <2>1. PICK n \in 1..MaxBenches, b \in Ids : benches' = [benches EXCEPT ![<<p, n>>] = b]
    BY <1>6 DEF CreateBench
  <2> QED
    BY <1>6, <2>1, Parameters DEF CreateBench, TypeOK, NoPhantomRecord, Live, state
<1>7. CASE Restart
  BY <1>7 DEF Restart, NoPhantomRecord, Live, state
<1> QED
  BY <1>1, <1>2, <1>3, <1>4, <1>5, <1>6, <1>7 DEF SlotEffect

\* Whatever calls outlive a Clear, a retry or an unregister, and whenever the server
\* crashes, no record of a registered project is left without its bench.
THEOREM NoPhantom == Spec => []NoPhantomRecord
<1>1. Init => NoPhantomRecord
  BY DEF Init, NoPhantomRecord
<1>2. TypeOK /\ NoPhantomRecord /\ [Next]_vars => NoPhantomRecord'
  BY NoPhantomStep
<1> QED
  BY <1>1, <1>2, TypeCorrect, PTL DEF Spec

-----------------------------------------------------------------------------
(* The lifecycle implements BenchSlots. With NoPhantomRecord a slot is recorded  *)
(* exactly when its project is registered and state.json has a record for it.    *)

LEMMA SlotsAreKeys == Slots!Slots = Keys
BY DEF Slots!Slots, Keys

\* A step that changes no registered project's bench or record is a stutter.
LEMMA SameSlots ==
    ASSUME UNCHANGED registered,
           \A k \in Keys : k[1] \in registered
               => (benches'[k] = None <=> benches[k] = None)
                  /\ (recorded'[k] = None <=> recorded[k] = None)
    PROVE  UNCHANGED Slots!slotVars
<1>1. \A k \in Keys : /\ Held(k)' <=> Held(k)
                      /\ Held(k) => (recorded'[k] = None <=> recorded[k] = None)
  BY DEF Held, Live
<1>2. slotOf' = slotOf
  BY <1>1 DEF slotOf
<1> QED
  BY <1>2 DEF Slots!slotVars

\* A step that changes the slot of one key only.
LEMMA OneSlot ==
    ASSUME UNCHANGED registered, NEW k \in Keys,
           \A j \in Keys \ {k} : benches'[j] = benches[j] /\ recorded'[j] = recorded[j]
    PROVE  slotOf' = [slotOf EXCEPT ![k] = slotOf'[k]]
<1>1. \A j \in Keys \ {k} : slotOf'[j] = slotOf[j]
  BY DEF slotOf, Held, Live
<1>2. slotOf = [j \in Keys |-> slotOf[j]] /\ slotOf' = [j \in Keys |-> slotOf'[j]]
  BY DEF slotOf
<1> HIDE DEF slotOf
<1> QED
  BY <1>1, <1>2

LEMMA InitSlots == Init => Slots!Init
BY DEF Init, Slots!Init, slotOf, Held, Live, Slots!Slots, Keys

LEMMA SameCardinality ==
    ASSUME NEW S
    PROVE  Slots!Cardinality(S) = Cardinality(S)
BY Zenon DEF Slots!Cardinality, Cardinality

\* createBench reserves the lowest free slot, below the cap: the benches it counts
\* include every slot that is taken.
LEMMA CreateReserves ==
    ASSUME TypeOK, NoPhantomRecord, NEW p \in Projects, CreateBench(p)
    PROVE  Slots!Next
<1>1. PICK n \in 1..MaxBenches, b \in Ids :
        /\ ~Live(<<p, n>>) /\ \A m \in 1..(n-1) : Live(<<p, m>>)
        /\ benches' = [benches EXCEPT ![<<p, n>>] = b]
  BY DEF CreateBench
<1> DEFINE k == <<p, n>>
<1>2. k \in Keys /\ k[1] = p /\ k[2] = n /\ b # None
  BY Parameters DEF Keys
<1>3. p \in registered /\ UNCHANGED <<registered, recorded>>
  BY DEF CreateBench, state
<1>4. recorded[k] = None
  BY <1>1, <1>2, <1>3 DEF NoPhantomRecord
<1>5. slotOf[k] = "free" /\ slotOf'[k] = "reserved"
  BY <1>1, <1>2, <1>3, <1>4 DEF slotOf, Held, Live, TypeOK
<1>6. slotOf' = [slotOf EXCEPT ![k] = "reserved"]
  <2>1. \A j \in Keys \ {k} : benches'[j] = benches[j] /\ recorded'[j] = recorded[j]
    BY <1>1, <1>2, <1>3 DEF TypeOK
  <2> HIDE DEF k
  <2> QED
    BY <1>2, <1>3, <1>5, <2>1, OneSlot
<1>7. \A m \in 1..(n-1) : slotOf[<<p, m>>] # "free"
  <2> SUFFICES ASSUME NEW m \in 1..(n-1) PROVE slotOf[<<p, m>>] # "free"
    OBVIOUS
  <2>1. <<p, m>> \in Keys
    BY Parameters DEF Keys
  <2>2. Held(<<p, m>>)
    BY <1>1, <1>3 DEF Held
  <2> QED
    BY <2>1, <2>2 DEF slotOf
<1>8. Cardinality(Slots!Taken) < MaxGlobal
  <2>1. Slots!Taken \subseteq LiveKeys
    BY SlotsAreKeys DEF Slots!Taken, slotOf, Held, LiveKeys
  <2>2. IsFiniteSet(Keys)
    <3>1. IsFiniteSet(1..MaxBenches)
      BY Parameters, FS_Interval
    <3> QED
      BY <3>1, Parameters, FS_Product DEF Keys
  <2>3. IsFiniteSet(LiveKeys)
    BY <2>2, FS_Subset DEF LiveKeys
  <2>4. /\ Cardinality(Slots!Taken) <= Cardinality(LiveKeys)
        /\ Cardinality(Slots!Taken) \in Nat /\ Cardinality(LiveKeys) \in Nat
    BY <2>1, <2>3, FS_Subset, FS_CardinalityType
  <2>5. Cardinality(LiveKeys) < MaxGlobal
    BY DEF CreateBench, BelowCap
  <2> QED
    BY <2>4, <2>5, Parameters
<1>9. Slots!Reserve(k)
  BY <1>2, <1>3, <1>5, <1>6, <1>7, <1>8, SameCardinality DEF Slots!Reserve, Slots!BelowCap
<1> QED
  BY <1>2, <1>9, SlotsAreKeys DEF Slots!Next

\* Every other effect of a step maps to one step of BenchSlots or to none.
LEMMA RecordsMaps ==
    ASSUME TypeOK, NoPhantomRecord, UNCHANGED <<registered, benches>>, NEW k \in Keys, Records(k)
    PROVE  [Slots!Next]_Slots!slotVars
<1>1. CASE k[1] \notin registered
  BY <1>1, SameSlots DEF Records
<1>2. CASE recorded[k] # None
  BY <1>2, SameSlots DEF Records
<1>3. CASE k[1] \in registered /\ recorded[k] = None
  <2>1. slotOf[k] = "reserved" /\ slotOf'[k] = "recorded"
    BY <1>3 DEF Records, slotOf, Held, Live
  <2>2. slotOf' = [slotOf EXCEPT ![k] = "recorded"]
    BY <2>1, OneSlot DEF Records
  <2>3. Slots!Record(k)
    BY <2>1, <2>2 DEF Slots!Record
  <2> QED
    BY <2>3, SlotsAreKeys DEF Slots!Next
<1> QED
  BY <1>1, <1>2, <1>3

LEMMA DropsMaps ==
    ASSUME TypeOK, NoPhantomRecord, UNCHANGED <<registered, benches>>, NEW k \in Keys, Drops(k)
    PROVE  [Slots!Next]_Slots!slotVars
<1>1. CASE k[1] \notin registered
  BY <1>1, SameSlots DEF Drops
<1>2. CASE recorded[k] = None
  BY <1>2, SameSlots DEF Drops
<1>3. CASE k[1] \in registered /\ recorded[k] # None
  <2>1. slotOf[k] = "recorded" /\ slotOf'[k] = "reserved"
    BY <1>3 DEF NoPhantomRecord, Drops, slotOf, Held, Live
  <2>2. slotOf' = [slotOf EXCEPT ![k] = "reserved"]
    BY <2>1, OneSlot DEF Drops
  <2>3. Slots!Unrecord(k)
    BY <2>1, <2>2 DEF Slots!Unrecord
  <2> QED
    BY <2>3, SlotsAreKeys DEF Slots!Next
<1> QED
  BY <1>1, <1>2, <1>3

LEMMA FreesMaps ==
    ASSUME UNCHANGED registered, NEW k \in Keys, Frees(k)
    PROVE  [Slots!Next]_Slots!slotVars
<1>1. slotOf'[k] = "free"
  BY DEF Frees, slotOf, Held, Live
<1>2. slotOf' = [slotOf EXCEPT ![k] = "free"]
  BY <1>1, OneSlot DEF Frees
<1>3. Slots!Release(k)
  BY <1>2 DEF Slots!Release
<1> QED
  BY <1>3, SlotsAreKeys DEF Slots!Next

LEMMA UnregistersMaps ==
    ASSUME NEW p \in Projects, Unregisters(p)
    PROVE  [Slots!Next]_Slots!slotVars
<1>1. CASE p \notin registered
  <2>1. UNCHANGED registered
    BY <1>1 DEF Unregisters
  <2> QED
    BY <1>1, <2>1, SameSlots DEF Unregisters
<1>2. CASE p \in registered
  <2>1. \A k \in Keys : slotOf'[k] = IF k[1] = p THEN "free" ELSE slotOf[k]
    BY DEF Unregisters, slotOf, Held, Live
  <2>2. slotOf' = [k \in Keys |-> slotOf'[k]]
    BY DEF slotOf
  <2>3. slotOf' = [k \in Keys |-> IF k[1] = p THEN "free" ELSE slotOf[k]]
    <3> HIDE DEF slotOf
    <3> QED
      BY <2>1, <2>2
  <2>4. Slots!Unregister(p)
    BY <1>2, <2>3, SlotsAreKeys DEF Slots!Unregister, Unregisters
  <2> QED
    BY <2>4 DEF Slots!Next
<1> QED
  BY <1>1, <1>2

\* A crash: with NoPhantomRecord, the records left are those of slots already recorded.
LEMMA RestartMaps ==
    ASSUME NoPhantomRecord, Restart
    PROVE  [Slots!Next]_Slots!slotVars
<1>1. benches' = recorded /\ UNCHANGED <<registered, recorded>>
  BY DEF Restart, state
<1>2. \A k \in Keys : slotOf'[k] = IF slotOf[k] = "reserved" THEN "free" ELSE slotOf[k]
  BY <1>1 DEF NoPhantomRecord, slotOf, Held, Live
<1>3. slotOf' = [k \in Keys |-> slotOf'[k]]
  BY DEF slotOf
<1>4. slotOf' = [k \in Keys |-> IF slotOf[k] = "reserved" THEN "free" ELSE slotOf[k]]
  <2> HIDE DEF slotOf
  <2> QED
    BY <1>2, <1>3
<1>5. Slots!Restart
  BY <1>1, <1>4, SlotsAreKeys DEF Slots!Restart
<1> QED
  BY <1>5 DEF Slots!Next

LEMMA StepMaps ==
    ASSUME TypeOK, NoPhantomRecord, [Next]_vars
    PROVE  [Slots!Next]_Slots!slotVars
<1>1. SlotEffect
  BY StepEffect
<1>2. CASE Quiet
  BY <1>2, SameSlots DEF Quiet, SameRecords
<1> QED
  BY <1>1, <1>2, RecordsMaps, DropsMaps, FreesMaps, UnregistersMaps, CreateReserves, RestartMaps
     DEF SlotEffect

\* Whatever Clear, retry, unregister, setup, launch and crashes interleave, slots are
\* reserved, recorded and released as BenchSlots says.
THEOREM Implements == Spec => ImplementsSlots
<1>1. TypeOK /\ NoPhantomRecord /\ [Next]_vars => [Slots!Next]_Slots!slotVars
  BY StepMaps
<1> QED
  BY <1>1, InitSlots, TypeCorrect, NoPhantom, PTL DEF Spec, ImplementsSlots, Slots!Spec

-----------------------------------------------------------------------------
(* The cap, carried over from BenchSlots: only a reservation takes a slot. *)

LEMMA TakenFinite ==
    /\ Slots!Taken \subseteq Keys
    /\ IsFiniteSet(Slots!Taken)
<1>1. IsFiniteSet(1..MaxBenches)
  BY Parameters, FS_Interval
<1>2. IsFiniteSet(Keys)
  BY <1>1, Parameters, FS_Product DEF Keys
<1>3. Slots!Taken \subseteq Keys
  BY SlotsAreKeys DEF Slots!Taken
<1> QED
  BY <1>2, <1>3, FS_Subset

LEMMA TakenStep ==
    ASSUME [Slots!Next]_Slots!slotVars
    PROVE  \/ Slots!Taken' \subseteq Slots!Taken
           \/ Slots!BelowCap /\ \E k \in Keys : Slots!Taken' = Slots!Taken \cup {k}
<1> DEFINE S == slotOf
<1>1. DOMAIN S = Keys /\ S = [j \in Keys |-> S[j]]
  BY DEF slotOf
<1>2. Slots!Slots' = Slots!Slots
  BY DEF Slots!Slots
<1> HIDE DEF S
<1> USE SlotsAreKeys, <1>1, <1>2 DEF Slots!Taken, S
<1>3. CASE UNCHANGED Slots!slotVars
  BY <1>3 DEF Slots!slotVars
<1>4. ASSUME NEW k \in Keys, Slots!Reserve(k)
      PROVE  Slots!BelowCap /\ Slots!Taken' = Slots!Taken \cup {k}
  BY <1>4 DEF Slots!Reserve
<1>5. ASSUME NEW k \in Keys, Slots!Record(k) \/ Slots!Unrecord(k) \/ Slots!Release(k)
      PROVE  Slots!Taken' \subseteq Slots!Taken
  BY <1>5 DEF Slots!Record, Slots!Unrecord, Slots!Release
<1>6. ASSUME NEW p \in Projects, Slots!Unregister(p)
      PROVE  Slots!Taken' \subseteq Slots!Taken
  BY <1>6 DEF Slots!Unregister
<1>7. CASE Slots!Restart
  BY <1>7 DEF Slots!Restart
<1> QED
  BY <1>3, <1>4, <1>5, <1>6, <1>7 DEF Slots!Next

\* No interleaving of calls, crashes and requests leaves the registered projects with
\* more benches than benches.maxGlobal.
THEOREM CapNeverExceeded == Spec => []CapHolds
<1>1. Init => CapHolds
  <2> SUFFICES ASSUME Init PROVE CapHolds
    OBVIOUS
  <2>1. Slots!Taken = {}
    BY InitSlots DEF Slots!Init, Slots!Taken
  <2> QED
    BY <2>1, SameCardinality, FS_EmptySet, Parameters DEF CapHolds, Slots!CapHolds
<1>2. TypeOK /\ NoPhantomRecord /\ CapHolds /\ [Next]_vars => CapHolds'
  <2> SUFFICES ASSUME TypeOK, NoPhantomRecord, CapHolds, [Next]_vars
               PROVE  CapHolds'
    OBVIOUS
  <2> DEFINE T == Slots!Taken
             U == Slots!Taken'
  <2>1. \/ U \subseteq T
        \/ Cardinality(T) < MaxGlobal /\ \E k \in Keys : U = T \cup {k}
    BY StepMaps, TakenStep, SameCardinality DEF Slots!BelowCap
  <2>2. IsFiniteSet(T) /\ Cardinality(T) <= MaxGlobal
    BY TakenFinite, SameCardinality DEF CapHolds, Slots!CapHolds
  <2> HIDE DEF T, U
  <2>3. Cardinality(U) <= MaxGlobal
    <3>1. Cardinality(T) \in Nat
      BY <2>2, FS_CardinalityType
    <3>2. CASE U \subseteq T
      <4>1. Cardinality(U) \in Nat /\ Cardinality(U) <= Cardinality(T)
        BY <2>2, <3>2, FS_Subset, FS_CardinalityType
      <4> QED
        BY <2>2, <3>1, <4>1, Parameters
    <3>3. ASSUME NEW k \in Keys, U = T \cup {k}, Cardinality(T) < MaxGlobal
          PROVE  Cardinality(U) <= MaxGlobal
      <4>1. Cardinality(U) = Cardinality(T) \/ Cardinality(U) = Cardinality(T) + 1
        BY <2>2, <3>3, FS_AddElement
      <4> QED
        BY <3>1, <3>3, <4>1, Parameters
    <3> QED
      BY <2>1, <3>2, <3>3
  <2> QED
    BY <2>3, SameCardinality DEF U, CapHolds, Slots!CapHolds
<1> QED
  BY <1>1, <1>2, TypeCorrect, NoPhantom, PTL DEF Spec

=============================================================================
