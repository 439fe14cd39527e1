------------------------- MODULE BenchRecords_proofs -------------------------
(***************************************************************************)
(* Proofs about what the records of BenchLifecycle say of the benches they *)
(* describe, which bench a record is of, that a bench being cleared does   *)
(* not become usable again, and that a usable bench has its worktree, for  *)
(* any number of projects, slots, bench objects and calls.                 *)
(***************************************************************************)
EXTENDS BenchOverlap_proofs

-----------------------------------------------------------------------------
(* The invariant *)

\* The map, the records or a call in flight refer to bench object b under key k.
Refs(b, k) ==
    \/ benches[k] = b
    \/ recorded[k] = b
    \/ \E c \in Calls : /\ call[c].pc # "done" /\ call[c].key = k
                        /\ call[c].id = b \/ call[c].on = b

\* A bench object belongs to one key for as long as anything refers to it, so that
\* a call which writes the record of its key and a call which resets its bench cannot
\* meet on one object under two keys.
OneKey == \A b \in Ids : \A j, k \in Keys : Refs(b, j) /\ Refs(b, k) => j = k

\* A record says setup is complete only when it is for the bench it describes, live or not.
SavedIsSet == \A k \in Keys : recorded[k] # None /\ savedSetup[k] => bench[recorded[k]].setup

Truthful == OneKey /\ SavedIsSet

-----------------------------------------------------------------------------
(* What a step does to the references and to benchSetupComplete *)

\* Calls and the map refer to the benches referred to before.
CallsKeep ==
    \A c \in Calls, b \in Ids, k \in Keys :
        call'[c].pc # "done" /\ call'[c].key = k /\ (call'[c].id = b \/ call'[c].on = b)
            => Refs(b, k)

\* A record is left alone or written from a bench of its key.
Writes ==
    \A k \in Keys : recorded'[k] # None =>
        \/ recorded'[k] = recorded[k] /\ savedSetup'[k] = savedSetup[k]
        \/ Refs(recorded'[k], k) /\ (savedSetup'[k] => bench'[recorded'[k]].setup)

\* Only a bench without a record loses its setup.
KeepsSetup ==
    \A b \in Ids : bench[b].setup => bench'[b].setup \/ \A k \in Keys : recorded'[k] # b

\* No bench enters the map.
MapKept == \A k \in Keys : benches'[k] # None => benches'[k] = benches[k]

SameSetup == \A b \in Ids : bench'[b].setup = bench[b].setup

LEMMA TruthfulKept ==
    ASSUME TypeOK, TypeOK', Truthful, CallsKeep, Writes, KeepsSetup, MapKept
    PROVE  Truthful'
<1>1. OneKey'
  <2>1. ASSUME NEW b \in Ids, NEW k \in Keys, Refs(b, k)'
        PROVE  Refs(b, k)
    <3>1. b # None
      BY Parameters
    <3>2. CASE benches'[k] = b
      BY <3>1, <3>2 DEF Refs, MapKept
    <3>3. CASE recorded'[k] = b
      BY <3>1, <3>3 DEF Refs, Writes
    <3>4. CASE \E c \in Calls : /\ call'[c].pc # "done" /\ call'[c].key = k
                                /\ call'[c].id = b \/ call'[c].on = b
      BY <3>4 DEF CallsKeep
    <3> QED
      BY <2>1, <3>2, <3>3, <3>4 DEF Refs
  <2> QED
    BY <2>1 DEF Truthful, OneKey
<1>2. SavedIsSet'
  <2> SUFFICES ASSUME NEW k \in Keys, recorded'[k] # None, savedSetup'[k]
               PROVE  bench'[recorded'[k]].setup
    BY DEF SavedIsSet
  <2>1. recorded'[k] \in Ids
    BY DEF TypeOK
  <2> QED
    BY <2>1 DEF Truthful, SavedIsSet, Writes, KeepsSetup
<1> QED
  BY <1>1, <1>2 DEF Truthful

LEMMA SameSetupKept == ASSUME SameSetup PROVE KeepsSetup
BY DEF SameSetup, KeepsSetup

-----------------------------------------------------------------------------
(* The parts the actions are built from *)

LEMMA SameCallsRefs == ASSUME UNCHANGED call PROVE CallsKeep
BY DEF CallsKeep, Refs

LEMMA FinishRefs ==
    ASSUME TypeOK, NEW c \in Calls, Finish(c)
    PROVE  CallsKeep
<1>1. call'[c].pc = "done" /\ \A d \in Calls \ {c} : call'[d] = call[d]
  BY DEF Finish, NoCall, TypeOK
<1> QED
  BY <1>1 DEF CallsKeep, Refs

\* A call that keeps its key and its benches.
LEMMA SameCallRefs ==
    ASSUME \A d \in Calls : /\ call'[d].key = call[d].key /\ call'[d].id = call[d].id
                            /\ call'[d].on = call[d].on
                            /\ call'[d].pc # "done" => call[d].pc # "done"
    PROVE  CallsKeep
BY DEF CallsKeep, Refs

LEMMA GotoRefs ==
    ASSUME TypeOK, NEW c \in Calls, call[c].pc # "done", NEW pc, Goto(c, pc)
    PROVE  CallsKeep
<1>1. call'[c] = [call[c] EXCEPT !.pc = pc] /\ \A d \in Calls \ {c} : call'[d] = call[d]
  BY DEF Goto, TypeOK
<1>2. call[c] \in CallRecord
  BY DEF TypeOK, Call
<1>3. call'[c].key = call[c].key /\ call'[c].id = call[c].id /\ call'[c].on = call[c].on
  BY <1>1, <1>2 DEF CallRecord
<1> QED
  BY <1>1, <1>3, SameCallRefs

LEMMA SameWrites == ASSUME UNCHANGED state PROVE Writes
BY DEF state, Writes

LEMMA UpdateWrites ==
    ASSUME TypeOK, NEW k \in Keys, NEW b \in Ids, NEW setup, UpdateRecord(k, b, setup),
           Refs(b, k), setup => bench'[b].setup
    PROVE  Writes
<1>1. CASE recorded[k] = None
  BY <1>1, SameWrites DEF UpdateRecord
<1>2. CASE recorded[k] # None
  BY <1>2 DEF UpdateRecord, TypeOK, Writes
<1> QED
  BY <1>1, <1>2

LEMMA NotifyWrites ==
    ASSUME TypeOK, NEW k \in Keys, NEW b \in Ids, NEW setup, Notify(k, b, setup),
           Refs(b, k), setup => bench'[b].setup
    PROVE  Writes
BY UpdateWrites, SameWrites DEF Notify

LEMMA RemoveWrites ==
    ASSUME TypeOK, NEW k \in Keys, RemoveRecord(k)
    PROVE  Writes
BY DEF RemoveRecord, TypeOK, Writes

\* The end of a round: its call goes on to setup or to a launch on the live bench.
LEMMA EndRoundRefs ==
    ASSUME TypeOK, NEW c \in Calls, call[c].pc \in RoundPcs, NEW r \in Bench, EndRound(c, r),
           r.setup = bench[call[c].id].setup
    PROVE  CallsKeep /\ SameSetup
<1> DEFINE k == call[c].key
           b == call[c].id
           goesOn == /\ call[c].creates
                     /\ r.status \notin {"error", "clearing"}
                     /\ Live(k)
                     /\ AutoStart \/ HasSetup
           pc   == FirstStep(r)
           next == IF goesOn
                   THEN [NoCall EXCEPT !.pc = pc, !.key = k, !.id = b, !.creates = TRUE,
                                       !.on = IF pc = "launch" THEN benches[k] ELSE None]
                   ELSE NoCall
<1>1. /\ call' = [d \in Calls |-> IF d = c THEN next ELSE [call[d] EXCEPT !.wait = @ \ {c}]]
      /\ bench' = [bench EXCEPT ![b] = IF goesOn THEN [r EXCEPT !.status = "preparing"] ELSE r]
  BY DEF EndRound
<1>2. k \in Keys /\ b \in Ids /\ call[c].pc # "done"
  BY RoundCall DEF RoundPcs
<1>3. SameSetup
  <2>1. [r EXCEPT !.status = "preparing"].setup = r.setup
    BY DEF Bench
  <2> HIDE DEF goesOn, b
  <2> QED
    BY <1>1, <1>2, <2>1 DEF SameSetup, TypeOK, b
<1>4. next.pc = "done" \/ (next.key = k /\ next.id = b /\ next.on \in {benches[k], None})
  <2> HIDE DEF k, b, pc, goesOn
  <2> QED
    BY DEF next, NoCall
<1>5. ASSUME NEW d \in Calls \ {c}
      PROVE  LET s == [call[d] EXCEPT !.wait = @ \ {c}] IN
             s.pc = call[d].pc /\ s.key = call[d].key /\ s.id = call[d].id /\ s.on = call[d].on
  BY DEF TypeOK, Call, CallRecord
<1> HIDE DEF next
<1>6. CallsKeep
  <2> SUFFICES ASSUME NEW d \in Calls, NEW e \in Ids, NEW j \in Keys,
                      call'[d].pc # "done", call'[d].key = j, call'[d].id = e \/ call'[d].on = e
               PROVE  Refs(e, j)
    BY DEF CallsKeep
  <2>1. CASE d = c
    <3>1. call'[d] = next /\ j = k /\ e \in {b, benches[k], None} /\ e # None
      BY <1>1, <1>4, <2>1, Parameters
    <3> QED
      BY <1>2, <3>1 DEF Refs
  <2>2. CASE d # c
    <3>1. /\ call'[d].pc = call[d].pc /\ call'[d].key = call[d].key
          /\ call'[d].id = call[d].id /\ call'[d].on = call[d].on
      BY <1>1, <1>5, <2>2
    <3> QED
      BY <3>1 DEF Refs
  <2> QED
    BY <2>1, <2>2
<1> QED
  BY <1>3, <1>6

-----------------------------------------------------------------------------
(* Rounds *)

Safe == CallsKeep /\ Writes /\ SameSetup

LEMMA RoundRefs ==
    ASSUME TypeOK, NEW c \in Calls, call[c].pc \in RoundPcs
    PROVE  call[c].pc # "done" /\ Refs(call[c].id, call[c].key)
BY DEF Refs, RoundPcs

LEMMA EndsSafe ==
    ASSUME TypeOK, NEW c \in Calls, call[c].pc \in RoundPcs,
           EndRound(c, bench[call[c].id])
    PROVE  CallsKeep /\ SameSetup
BY RoundCall, EndRoundRefs

LEMMA RoundGotoSafe ==
    ASSUME TypeOK, NEW c \in Calls, call[c].pc \in RoundPcs, NEW pc, Goto(c, pc), UNCHANGED bench
    PROVE  CallsKeep /\ SameSetup
BY RoundRefs, GotoRefs DEF SameSetup

LEMMA BeforeAddSafe ==
    ASSUME TypeOK, NEW c \in Calls, call[c].pc \in RoundPcs, BeforeAdd(c) \/ EnterAdd(c)
    PROVE  CallsKeep /\ SameSetup
BY EndsSafe, RoundGotoSafe DEF BeforeAdd, EnterAdd

LEMMA FailRoundSafe ==
    ASSUME TypeOK, NEW c \in Calls, call[c].pc \in RoundPcs, FailRound(c)
    PROVE  Safe
<1> DEFINE k == call[c].key
           b == call[c].id
           r == [bench[b] EXCEPT !.status = "error", !.err = TRUE]
<1>1. k \in Keys /\ b \in Ids /\ bench[b] \in Bench /\ Refs(b, k)
  BY RoundCall, RoundRefs
<1>2. r \in Bench /\ r.setup = bench[b].setup
  BY <1>1 DEF Bench, Status
<1>3. CASE call[c].aborted
  BY <1>3, EndsSafe, SameWrites DEF FailRound, Safe
<1>4. CASE ~call[c].aborted /\ HasDir(k)
  <2>1. bench' = [bench EXCEPT ![b] = r] /\ Goto(c, "failList") /\ UNCHANGED state
    BY <1>4 DEF FailRound
  <2>2. SameSetup
    BY <1>1, <1>2, <2>1 DEF SameSetup, TypeOK
  <2> QED
    BY <2>1, <2>2, RoundRefs, GotoRefs, SameWrites DEF Safe
<1>5. CASE ~call[c].aborted /\ ~HasDir(k)
  <2>1. EndRound(c, r) /\ Notify(k, b, r.setup)
    BY <1>5 DEF FailRound
  <2> HIDE DEF k, r
  <2>2. CallsKeep /\ SameSetup
    BY <1>2, <2>1, EndRoundRefs
  <2>3. Writes
    BY <1>1, <1>2, <2>1, <2>2, NotifyWrites DEF SameSetup
  <2> QED
    BY <2>2, <2>3 DEF Safe
<1> QED
  BY <1>3, <1>4, <1>5

LEMMA EndFailedSafe ==
    ASSUME TypeOK, NEW c \in Calls, call[c].pc \in RoundPcs, EndFailed(c)
    PROVE  Safe
<1>1. call[c].key \in Keys /\ call[c].id \in Ids /\ Refs(call[c].id, call[c].key)
  BY RoundCall, RoundRefs
<1>2. CallsKeep /\ SameSetup
  BY EndsSafe DEF EndFailed
<1>3. Writes
  BY <1>1, <1>2, NotifyWrites, SameWrites DEF EndFailed, SameSetup
<1> QED
  BY <1>2, <1>3 DEF Safe

LEMMA RecordBenchSafe ==
    ASSUME TypeOK, NEW c \in Calls, call[c].pc \in RoundPcs, RecordBench(c)
    PROVE  Safe
<1> DEFINE k == call[c].key
           b == call[c].id
           r == [bench[b] EXCEPT !.status = "idle"]
<1>1. k \in Keys /\ b \in Ids /\ bench[b] \in Bench /\ Refs(b, k)
  BY RoundCall, RoundRefs
<1>2. r \in Bench /\ r.setup = bench[b].setup
  BY <1>1 DEF Bench, Status
<1>3. CASE Stopped(c)
  BY <1>3, EndsSafe, SameWrites DEF RecordBench, Safe
<1>4. CASE ~Stopped(c)
  <2>1. /\ recorded' = [recorded EXCEPT ![k] = b]
        /\ savedSetup' = [savedSetup EXCEPT ![k] = bench[b].setup]
        /\ EndRound(c, r)
    BY <1>4 DEF RecordBench
  <2>2. CallsKeep /\ SameSetup
    BY <1>2, <2>1, EndRoundRefs
  <2>3. Writes
    BY <1>1, <2>1, <2>2 DEF Writes, SameSetup, TypeOK
  <2> QED
    BY <2>2, <2>3 DEF Safe
<1> QED
  BY <1>3, <1>4

LEMMA RoundStepSafe ==
    ASSUME TypeOK, NEW c \in Calls, RoundStep(c)
    PROVE  Safe
<1>1. call[c].pc \in RoundPcs
  BY DEF RoundStep, RoundPcs, ResolveEnds, FetchEnds, PullEnds, PreListEnds, PreRemoveEnds,
         AddEnds, InspectEnds, SubmodulesEnd, FailListEnds, FailRemoveEnds
<1> USE <1>1 DEF Safe
<1>2. CASE ResolveEnds(c)
  BY <1>2, FailRoundSafe, EndsSafe, RoundGotoSafe, BeforeAddSafe, SameWrites DEF ResolveEnds
<1>3. CASE FetchEnds(c)
  BY <1>3, FailRoundSafe, RoundGotoSafe, SameWrites DEF FetchEnds
<1>4. CASE PullEnds(c)
  BY <1>4, FailRoundSafe, BeforeAddSafe, SameWrites DEF PullEnds
<1>5. CASE PreListEnds(c)
  BY <1>5, RoundGotoSafe, BeforeAddSafe, SameWrites DEF PreListEnds
<1>6. CASE PreRemoveEnds(c)
  BY <1>6, BeforeAddSafe, SameWrites DEF PreRemoveEnds
<1>7. CASE AddEnds(c)
  BY <1>7, FailRoundSafe, EndsSafe, RoundGotoSafe, SameWrites DEF AddEnds
<1>8. CASE InspectEnds(c)
  BY <1>8, FailRoundSafe, RecordBenchSafe, RoundGotoSafe, SameWrites DEF InspectEnds
<1>9. CASE SubmodulesEnd(c)
  BY <1>9, RecordBenchSafe DEF SubmodulesEnd
<1>10. CASE FailListEnds(c)
  BY <1>10, EndFailedSafe, RoundGotoSafe, SameWrites DEF FailListEnds
<1>11. CASE FailRemoveEnds(c)
  BY <1>11, EndFailedSafe DEF FailRemoveEnds
<1> QED
  BY <1>2, <1>3, <1>4, <1>5, <1>6, <1>7, <1>8, <1>9, <1>10, <1>11 DEF RoundStep

-----------------------------------------------------------------------------
(* Setup, launch, status polls, reconcile and sweep *)

\* A call on bench b whose fields refer to the benches of its key.
LEMMA CallRefs ==
    ASSUME TypeOK, NEW c \in Calls, call[c].pc \in Pcs \ (UnregPcs \cup {"done"})
    PROVE  /\ call[c].key \in Keys /\ call[c].id \in Ids /\ bench[call[c].id] \in Bench
           /\ Refs(call[c].id, call[c].key)
           /\ call[c].pc = "launch" => call[c].on \in Ids /\ Refs(call[c].on, call[c].key)
BY CallOf DEF Refs

LEMMA StartAllSafe ==
    ASSUME TypeOK, NEW k \in Keys, StartAll(k)
    PROVE  Safe
<1> DEFINE b  == benches[k]
           r  == [bench[b] EXCEPT !.status = "preparing", !.err = FALSE]
           pc == FirstStep(r)
<1>1. PICK c \in Calls :
        call' = [call EXCEPT ![c] = [NoCall EXCEPT !.pc = pc, !.key = k, !.id = b,
                                           !.on = IF pc = "launch" THEN b ELSE None]]
  BY DEF StartAll
<1>2. b \in Ids /\ bench[b] \in Bench /\ Refs(b, k)
  BY DEF TypeOK, StartAll, Live, Refs
<1>3. bench' = [bench EXCEPT ![b] = r] /\ UNCHANGED state /\ r.setup = bench[b].setup
  BY <1>2 DEF StartAll, Bench
<1> HIDE DEF b, r, pc
<1>4. SameSetup
  BY <1>2, <1>3 DEF SameSetup, TypeOK
<1>5. /\ call'[c].key = k /\ call'[c].id = b /\ call'[c].on \in {b, None}
      /\ \A d \in Calls \ {c} : call'[d] = call[d]
  BY <1>1 DEF TypeOK, NoCall
<1>6. CallsKeep
  BY <1>2, <1>5, Parameters DEF CallsKeep, Refs
<1> QED
  BY <1>3, <1>4, <1>6, SameWrites DEF Safe

LEMMA SetupEndsKeeps ==
    ASSUME TypeOK, NEW c \in Calls, SetupEnds(c)
    PROVE  CallsKeep /\ Writes /\ KeepsSetup
<1> DEFINE k == call[c].key
           b == call[c].id
           failed == [bench[b] EXCEPT !.status = "error", !.err = TRUE]
<1>1. k \in Keys /\ b \in Ids /\ bench[b] \in Bench /\ Refs(b, k) /\ call[c].pc = "setup"
  BY CallRefs DEF SetupEnds, Pcs, UnregPcs
<1>2. failed.setup = bench[b].setup
  BY <1>1 DEF Bench
<1>3. CASE /\ bench' = [bench EXCEPT ![b] = failed] /\ Finish(c)
           /\ IF call[c].creates THEN Notify(k, b, failed.setup) ELSE UNCHANGED state
  <2>1. SameSetup
    BY <1>1, <1>2, <1>3 DEF SameSetup, TypeOK
  <2>2. Writes
    BY <1>1, <1>2, <1>3, <2>1, NotifyWrites, SameWrites DEF SameSetup
  <2> QED
    BY <1>3, <2>1, <2>2, FinishRefs, SameSetupKept
<1>4. CASE Finish(c) /\ UNCHANGED <<bench, state>>
  BY <1>4, FinishRefs, SameWrites DEF KeepsSetup
<1>5. CASE /\ Live(k)
           /\ UpdateRecord(k, b, TRUE)
           /\ IF ~call[c].creates \/ AutoStart
              THEN /\ bench' = [bench EXCEPT ![b].setup = TRUE]
                   /\ call' = [call EXCEPT ![c].pc = "launch", ![c].on = benches[k]]
              ELSE /\ bench' = [bench EXCEPT ![b].setup = TRUE, ![b].status = "idle"]
                   /\ Finish(c)
  <2>1. /\ bench'[b].setup
        /\ \A e \in Ids \ {b} : bench'[e] = bench[e]
    BY <1>1, <1>5 DEF TypeOK, Bench
  <2>2. KeepsSetup
    BY <2>1 DEF KeepsSetup
  <2>3. Writes
    BY <1>1, <1>5, <2>1, UpdateWrites
  <2>4. ASSUME call' = [call EXCEPT ![c].pc = "launch", ![c].on = benches[k]]
        PROVE  CallsKeep
    <3>1. call[c] \in CallRecord
      BY DEF TypeOK, Call
    <3>2. /\ call'[c] = [call[c] EXCEPT !.pc = "launch", !.on = benches[k]]
          /\ \A d \in Calls \ {c} : call'[d] = call[d]
      BY <2>4 DEF TypeOK
    <3>3. call'[c].key = k /\ call'[c].id = b /\ call'[c].on = benches[k]
      BY <3>1, <3>2 DEF CallRecord
    <3> QED
      BY <1>1, <3>2, <3>3 DEF CallsKeep, Refs
  <2> QED
    BY <1>5, <2>2, <2>3, <2>4, FinishRefs
<1> QED
  BY <1>3, <1>4, <1>5 DEF SetupEnds

LEMMA LaunchEndsSafe ==
    ASSUME TypeOK, NEW c \in Calls, LaunchEnds(c)
    PROVE  Safe
<1> DEFINE k == call[c].key
           b == call[c].id
           o == call[c].on
<1>1. /\ k \in Keys /\ b \in Ids /\ o \in Ids /\ bench[b] \in Bench /\ Refs(b, k) /\ Refs(o, k)
  BY CallRefs DEF LaunchEnds, Pcs, UnregPcs
<1>2. /\ Finish(c)
      /\ \/ bench' = [bench EXCEPT ![b].status = "idle"]
         \/ bench' = [bench EXCEPT ![b].status = "error", ![b].err = TRUE]
      /\ \/ UpdateRecord(k, o, bench[o].setup) \/ UNCHANGED state
         \/ \E h \in {b, o} : Notify(k, h, bench[h].setup)
  BY DEF LaunchEnds
<1>3. SameSetup
  BY <1>1, <1>2 DEF SameSetup, TypeOK, Bench
<1>4. Writes
  BY <1>1, <1>2, <1>3, UpdateWrites, NotifyWrites, SameWrites DEF SameSetup
<1> QED
  BY <1>2, <1>3, <1>4, FinishRefs DEF Safe

LEMMA PollsSafe ==
    ASSUME TypeOK, NEW k \in Keys,
           UpdateBenchStatus(k) \/ Reconcile(k) \/ SweepList(k) \/ SweepRemove(k)
    PROVE  Safe
<1>1. UNCHANGED <<call, state>>
  BY DEF UpdateBenchStatus, Reconcile, SweepList, SweepRemove
<1>2. \/ bench' = bench
      \/ benches[k] \in Ids /\ \E s \in Status : bench' = [bench EXCEPT ![benches[k]].status = s]
      \/ benches[k] \in Ids /\ bench' = [bench EXCEPT ![benches[k]].status = "error",
                                                      ![benches[k]].err = TRUE]
  BY DEF UpdateBenchStatus, Reconcile, SweepList, SweepRemove, Live, TypeOK, Status
<1>3. SameSetup
  BY <1>2 DEF SameSetup, TypeOK, Bench
<1> QED
  BY <1>1, <1>3, SameCallsRefs, SameWrites DEF Safe

-----------------------------------------------------------------------------
(* Clear, Cleanup & Retry and unregister *)

\* A Clear or an unregister that begins refers to no bench but the one of its key.
LEMMA AbortRefs ==
    ASSUME TypeOK, NEW c \in Calls, NEW r \in Call, NEW cs, NEW k \in Keys,
           call' = Abort(cs, [call EXCEPT ![c] = r]), r.key = k,
           \A b \in Ids : r.id = b \/ r.on = b => Refs(b, k)
    PROVE  CallsKeep
<1>1. ASSUME NEW s \in Call
      PROVE  LET t == [s EXCEPT !.aborted = TRUE] IN
             t.pc = s.pc /\ t.key = s.key /\ t.id = s.id /\ t.on = s.on
  BY DEF Call, CallRecord
<1>2. /\ \A d \in Calls \ {c} : call'[d] = call[d] \/ call'[d] = [call[d] EXCEPT !.aborted = TRUE]
      /\ call'[c] = r \/ call'[c] = [r EXCEPT !.aborted = TRUE]
  BY DEF Abort, TypeOK
<1>3. call'[c].key = k /\ call'[c].id = r.id /\ call'[c].on = r.on
  BY <1>1, <1>2
<1>4. ASSUME NEW d \in Calls \ {c}
      PROVE  /\ call'[d].pc = call[d].pc /\ call'[d].key = call[d].key
             /\ call'[d].id = call[d].id /\ call'[d].on = call[d].on
  <2>1. call[d] \in Call
    BY DEF TypeOK
  <2> QED
    BY <1>1, <1>2, <2>1
<1> SUFFICES ASSUME NEW d \in Calls, NEW e \in Ids, NEW j \in Keys,
                    call'[d].pc # "done", call'[d].key = j, call'[d].id = e \/ call'[d].on = e
             PROVE  Refs(e, j)
  BY DEF CallsKeep
<1>5. CASE d = c
  BY <1>3, <1>5
<1>6. CASE d # c
  BY <1>4, <1>6 DEF Refs
<1> QED
  BY <1>5, <1>6

LEMMA TeardownSafe ==
    ASSUME TypeOK, NEW k \in Keys, NEW keep \in BOOLEAN, TeardownBench(k, keep)
    PROVE  Safe
<1> DEFINE b == benches[k]
           r == [NoCall EXCEPT !.pc = "tdWait", !.key = k, !.id = b,
                               !.keep = keep \/ k[1] \notin registered,
                               !.wait = {round[k]} \ {None}]
<1>1. b \in Ids /\ bench[b] \in Bench /\ Refs(b, k)
  BY DEF TypeOK, TeardownBench, Live, Refs
<1>2. PICK c \in Calls : call' = Abort({round[k]}, [call EXCEPT ![c] = r])
  BY DEF TeardownBench
<1>3. r \in Call /\ r.key = k /\ r.id = b /\ r.on = None
  <2>1. {round[k]} \ {None} \subseteq Calls
    BY DEF TypeOK
  <2>2. (keep \/ k[1] \notin registered) \in BOOLEAN
    OBVIOUS
  <2>3. "tdWait" \in Pcs /\ "tdWait" \notin UnregPcs
    BY DEF Pcs, ClearPcs, UnregPcs
  <2> HIDE DEF b
  <2>4. r.pc = "tdWait" /\ r.key = k /\ r.id = b /\ r.on = None
    BY DEF NoCall
  <2>5. r \in CallRecord
    BY <1>1, <2>1, <2>2, <2>3 DEF NoCall, CallRecord
  <2> HIDE DEF r
  <2> QED
    BY <1>1, <2>3, <2>4, <2>5 DEF Call
<1> HIDE DEF r
<1>4. CallsKeep
  BY <1>1, <1>2, <1>3, AbortRefs, Parameters
<1>5. SameSetup
  <2>1. bench' = [bench EXCEPT ![b].status = "clearing", ![b].steps = "active"]
    BY DEF TeardownBench
  <2> HIDE DEF b
  <2> QED
    BY <1>1, <2>1 DEF SameSetup, TypeOK, Bench
<1>6. Writes
  BY SameWrites DEF TeardownBench
<1> QED
  BY <1>4, <1>5, <1>6 DEF Safe

\* What a Clear does to calls, records and benches, whichever way it goes.
LEMMA ClearStepKeepsRefs ==
    ASSUME TypeOK, NEW c \in Calls, ClearStep(c)
    PROVE  Safe /\ MapKept
<1>1. call[c].pc \in ClearPcs /\ call[c].pc # "done"
  BY DEF ClearStep, ClearPcs, ClearWaitEnds, ClearStopEnds, ClearListEnds, ClearRemoveEnds,
         ClearBranchEnds
<1>2. /\ call[c].key \in Keys /\ call[c].id \in Ids /\ bench[call[c].id] \in Bench
      /\ Refs(call[c].id, call[c].key)
  BY <1>1, ClearCall DEF Refs
<1>3. ASSUME ClearFails(c) PROVE Safe /\ MapKept
  <2>1. bench' = [bench EXCEPT ![call[c].id].status = "error", ![call[c].id].err = TRUE,
                               ![call[c].id].steps = "failed"]
    BY <1>3 DEF ClearFails
  <2>2. SameSetup
    BY <1>2, <2>1 DEF SameSetup, TypeOK, Bench
  <2>3. Writes
    <3>1. UpdateRecord(call[c].key, call[c].id, bench[call[c].id].setup)
      BY <1>3 DEF ClearFails
    <3> QED
      BY <1>2, <2>2, <3>1, UpdateWrites DEF SameSetup
  <2> QED
    BY <1>3, <2>2, <2>3, FinishRefs DEF ClearFails, Safe, MapKept
<1>4. ASSUME ClearSucceeds(c) PROVE Safe /\ MapKept
  <2>1. MapKept
    BY <1>2, <1>4 DEF ClearSucceeds, TypeOK, MapKept
  <2>2. SameSetup
    BY <1>4 DEF ClearSucceeds, SameSetup
  <2> QED
    BY <1>2, <1>4, <2>1, <2>2, RemoveWrites, FinishRefs DEF ClearSucceeds, Safe
<1>5. ASSUME NEW pc, Goto(c, pc), UNCHANGED <<benches, bench, state>> PROVE Safe /\ MapKept
  BY <1>1, <1>5, GotoRefs, SameWrites DEF Safe, SameSetup, MapKept
<1>6. CASE ClearWaitEnds(c)
  <2>1. /\ call'[c] = [call[c] EXCEPT !.pc = "tdStop", !.wait = {}]
        /\ \A d \in Calls \ {c} : call'[d] = call[d]
    BY <1>6 DEF ClearWaitEnds, TypeOK
  <2>2. call[c] \in CallRecord
    BY DEF TypeOK, Call
  <2>3. call'[c].key = call[c].key /\ call'[c].id = call[c].id /\ call'[c].on = call[c].on
    BY <2>1, <2>2 DEF CallRecord
  <2> QED
    BY <1>1, <1>6, <2>1, <2>3, SameCallRefs, SameWrites DEF ClearWaitEnds, Safe, SameSetup, MapKept
<1>7. CASE ClearStopEnds(c)
  BY <1>3, <1>4, <1>5, <1>7 DEF ClearStopEnds
<1>8. CASE ClearListEnds(c)
  BY <1>5, <1>8 DEF ClearListEnds
<1>9. CASE ClearRemoveEnds(c)
  BY <1>3, <1>5, <1>9 DEF ClearRemoveEnds
<1>10. CASE ClearBranchEnds(c)
  BY <1>3, <1>4, <1>10 DEF ClearBranchEnds
<1> QED
  BY <1>6, <1>7, <1>8, <1>9, <1>10 DEF ClearStep, MapKept

LEMMA CleanupAndRetrySafe ==
    ASSUME TypeOK, NEW k \in Keys, CleanupAndRetry(k)
    PROVE  Safe
<1>1. PICK c \in Calls :
        call' = [call EXCEPT ![c] = [NoCall EXCEPT !.pc = "rtStop", !.key = k, !.id = benches[k]]]
  BY DEF CleanupAndRetry
<1>2. /\ call'[c].key = k /\ call'[c].id = benches[k] /\ call'[c].on = None
      /\ \A d \in Calls \ {c} : call'[d] = call[d]
  BY <1>1 DEF TypeOK, NoCall
<1>3. CallsKeep
  BY <1>2, Parameters DEF CallsKeep, Refs
<1> QED
  BY <1>3, SameWrites DEF CleanupAndRetry, Safe, SameSetup

\* The reset bench loses its setup, and the record of its key is gone by then.
LEMMA RetryStepRefs ==
    ASSUME TypeOK, OneKey, NEW c \in Calls, RetryStep(c)
    PROVE  CallsKeep /\ Writes /\ KeepsSetup
<1> DEFINE k == call[c].key
           b == call[c].id
<1>1. call[c].pc \in RetryPcs /\ call[c].pc # "done"
  BY DEF RetryStep, RetryPcs, RetryStopEnds, RetryListEnds, RetryRemoveEnds
<1>2. k \in Keys /\ b \in Ids /\ Refs(b, k)
  BY <1>1, RetryCall DEF Refs
<1>3. ASSUME NEW pc, Goto(c, pc), UNCHANGED <<bench, state>>
      PROVE  CallsKeep /\ Writes /\ KeepsSetup
  BY <1>1, <1>3, GotoRefs, SameWrites DEF KeepsSetup
<1>4. ASSUME Finish(c), UNCHANGED <<bench, state>>
      PROVE  CallsKeep /\ Writes /\ KeepsSetup
  BY <1>4, FinishRefs, SameWrites DEF KeepsSetup
<1>5. ASSUME RetryResets(c)
      PROVE  CallsKeep /\ Writes /\ KeepsSetup
  <2>1. Finish(c) \/ Goto(c, "resolve")
    BY <1>5 DEF RetryResets, Goto
  <2>2. /\ recorded' = [recorded EXCEPT ![k] = None]
        /\ bench' = bench \/ bench' = [bench EXCEPT ![b] = NewBench]
    BY <1>5 DEF RetryResets, RemoveRecord
  <2>3. \A j \in Keys : recorded'[j] # b
    <3> SUFFICES ASSUME NEW j \in Keys, recorded'[j] = b PROVE FALSE
      OBVIOUS
    <3>1. j # k /\ recorded[j] = b
      BY <1>2, <2>2, Parameters DEF TypeOK
    <3> QED
      BY <1>2, <3>1 DEF OneKey, Refs
  <2>4. KeepsSetup
    BY <1>2, <2>2, <2>3 DEF KeepsSetup, TypeOK
  <2>5. Writes
    BY <1>2, <1>5, RemoveWrites DEF RetryResets
  <2> QED
    BY <1>1, <2>1, <2>4, <2>5, FinishRefs, GotoRefs
<1>6. CASE RetryStopEnds(c)
  BY <1>3, <1>6 DEF RetryStopEnds
<1>7. CASE RetryListEnds(c)
  BY <1>3, <1>5, <1>7 DEF RetryListEnds
<1>8. CASE RetryRemoveEnds(c)
  BY <1>4, <1>5, <1>8 DEF RetryRemoveEnds
<1> QED
  BY <1>6, <1>7, <1>8 DEF RetryStep

LEMMA ForceUnregisterSafe ==
    ASSUME TypeOK, NEW p \in Projects, ForceUnregister(p)
    PROVE  Safe
<1> DEFINE cs == {round[k] : k \in KeysOf(p) \cap LiveKeys} \ {None}
           r == [NoCall EXCEPT !.pc = "urWait", !.key = <<p, 1>>, !.wait = cs,
                               !.todo = Active(p),
                               !.recs = {k \in Active(p) : recorded[k] # None}]
<1>1. PICK c \in Calls : call' = Abort(cs, [call EXCEPT ![c] = r])
  BY DEF ForceUnregister, MapKept
<1>2. <<p, 1>> \in Keys /\ <<p, 1>>[1] = p
  BY Parameters DEF Keys
<1>3. r \in Call /\ r.key = <<p, 1>> /\ r.id = None /\ r.on = None
  <2> DEFINE recs == {k \in Active(p) : recorded[k] # None}
  <2>1. cs \subseteq Calls
    BY DEF TypeOK, KeysOf
  <2>2. Active(p) \subseteq Keys /\ recs \subseteq Keys /\ \A k \in recs \cup Active(p) : k[1] = p
    BY DEF Active, KeysOf
  <2> HIDE DEF cs, recs
  <2>3. r \in Call
    BY <1>2, <2>1, <2>2, NoCallType DEF recs, NoCall, Call, CallRecord, Pcs, UnregPcs
  <2> QED
    BY <2>3 DEF NoCall
<1> HIDE DEF r, cs
<1>4. CallsKeep
  BY <1>1, <1>2, <1>3, AbortRefs, Parameters
<1> QED
  BY <1>4, SameWrites DEF ForceUnregister, Safe, SameSetup

LEMMA UnregisterStepRefs ==
    ASSUME TypeOK, NEW c \in Calls, UnregisterStep(c)
    PROVE  Safe /\ MapKept
<1>1. call[c].pc \in UnregPcs /\ call[c].pc # "done" /\ UNCHANGED bench
  BY DEF UnregisterStep, UnregPcs, UnregisterWaitEnds, UnregisterStopEnds, UnregisterRemoves
<1>2. call[c] \in CallRecord
  BY DEF TypeOK, Call
<1>3. ASSUME NEW d, UnregisterDone(c, d) PROVE Safe /\ MapKept
  <2>1. Writes /\ MapKept
    BY <1>3 DEF UnregisterDone, Writes, TypeOK, MapKept
  <2> QED
    BY <1>1, <1>3, <2>1, FinishRefs DEF UnregisterDone, Safe, SameSetup
<1>4. CASE UnregisterWaitEnds(c)
  <2>1. /\ call'[c] = [call[c] EXCEPT !.pc = "urStop", !.wait = {}]
        /\ \A d \in Calls \ {c} : call'[d] = call[d]
    BY <1>4 DEF UnregisterWaitEnds, TypeOK
  <2>2. call'[c].key = call[c].key /\ call'[c].id = call[c].id /\ call'[c].on = call[c].on
    BY <1>2, <2>1 DEF CallRecord
  <2> QED
    BY <1>1, <1>4, <2>1, <2>2, SameCallRefs, SameWrites DEF UnregisterWaitEnds, Safe, SameSetup,
       MapKept
<1>5. CASE UnregisterStopEnds(c)
  BY <1>1, <1>3, <1>5, GotoRefs, SameWrites DEF UnregisterStopEnds, Safe,
     SameSetup, MapKept
<1>6. CASE UnregisterRemoves(c)
  <2>1. PICK k \in call[c].todo :
          IF call[c].todo = {k} THEN UnregisterDone(c, disk')
          ELSE /\ call' = [call EXCEPT ![c].todo = @ \ {k}]
               /\ UNCHANGED <<registered, benches, round, state, left>>
    BY <1>6 DEF UnregisterRemoves
  <2>2. CASE UnregisterDone(c, disk')
    BY <1>3, <2>2
  <2>3. CASE /\ call' = [call EXCEPT ![c].todo = @ \ {k}]
             /\ UNCHANGED <<registered, benches, round, state, left>>
    <3>1. /\ call'[c] = [call[c] EXCEPT !.todo = @ \ {k}]
          /\ \A d \in Calls \ {c} : call'[d] = call[d]
      BY <2>3 DEF TypeOK
    <3>2. call'[c].key = call[c].key /\ call'[c].id = call[c].id /\ call'[c].on = call[c].on
      BY <1>2, <3>1 DEF CallRecord
    <3> QED
      BY <1>1, <2>3, <3>1, <3>2, SameCallRefs, SameWrites DEF Safe, SameSetup, MapKept
  <2> QED
    BY <2>1, <2>2, <2>3
<1> QED
  BY <1>4, <1>5, <1>6 DEF UnregisterStep

-----------------------------------------------------------------------------
(* New benches, a restart, and the theorem *)

\* createBench takes a bench object that nothing refers to, under one key.
LEMMA CreateTruthful ==
    ASSUME TypeOK, TypeOK', Truthful, NEW p \in Projects, CreateBench(p)
    PROVE  Truthful'
<1>1. PICK n \in 1..MaxBenches, b \in Ids, c \in Calls :
        /\ FreeId(b)
        /\ benches' = [benches EXCEPT ![<<p, n>>] = b]
        /\ bench' = [bench EXCEPT ![b] = NewBench]
        /\ call' = [call EXCEPT ![c] = [NoCall EXCEPT !.pc = "resolve", !.key = <<p, n>>,
                                                      !.id = b, !.creates = TRUE]]
  BY DEF CreateBench
<1> DEFINE k == <<p, n>>
<1>2. k \in Keys
  BY DEF Keys
<1>3. /\ benches' = [benches EXCEPT ![k] = b]
      /\ call'[c].key = k /\ call'[c].id = b /\ call'[c].on = None
      /\ \A d \in Calls \ {c} : call'[d] = call[d]
  BY <1>1 DEF TypeOK, NoCall
<1>4. UNCHANGED <<recorded, savedSetup>> /\ \A j \in Keys : recorded[j] # b
  BY <1>1 DEF CreateBench, state, FreeId
<1> HIDE DEF k
<1>5. ASSUME NEW e \in Ids, NEW j \in Keys, Refs(e, j)'
      PROVE  IF e = b THEN j = k ELSE Refs(e, j)
  <2>1. CASE e = b
    <3>1. ~Refs(b, j)
      BY <1>1 DEF FreeId, Refs
    <3> QED
      BY <1>2, <1>3, <1>4, <1>5, <2>1, <3>1 DEF Refs, TypeOK
  <2>2. CASE e # b
    <3>1. e # None
      BY Parameters
    <3> QED
      BY <1>2, <1>3, <1>4, <1>5, <2>2, <3>1 DEF Refs, TypeOK
  <2> QED
    BY <2>1, <2>2
<1>6. OneKey'
  BY <1>5 DEF Truthful, OneKey
<1>7. SavedIsSet'
  BY <1>1, <1>4 DEF Truthful, SavedIsSet, TypeOK
<1> QED
  BY <1>6, <1>7 DEF Truthful

LEMMA RestartTruthful ==
    ASSUME TypeOK, Truthful, Restart
    PROVE  Truthful'
<1>1. \A c \in Calls : call'[c].pc = "done"
  BY DEF Restart, NoCall
<1>2. benches' = recorded /\ UNCHANGED <<recorded, savedSetup>>
  BY DEF Restart, state
<1>3. \A b \in Ids, k \in Keys : Refs(b, k)' => Refs(b, k)
  BY <1>1, <1>2 DEF Refs
<1>4. OneKey'
  BY <1>3 DEF Truthful, OneKey
<1>5. SavedIsSet'
  <2> SUFFICES ASSUME NEW k \in Keys, recorded'[k] # None, savedSetup'[k]
               PROVE  bench'[recorded'[k]].setup
    BY DEF SavedIsSet
  <2>1. recorded[k] \in Ids
    BY <1>2 DEF TypeOK
  <2>2. bench'[recorded[k]].setup = \E j \in Keys : recorded[j] = recorded[k] /\ savedSetup[j]
    BY <2>1 DEF Restart, NewBench
  <2> QED
    BY <1>2, <2>2
<1> QED
  BY <1>4, <1>5 DEF Truthful

LEMMA TruthfulStep ==
    ASSUME TypeOK, Truthful, [Next]_vars
    PROVE  Truthful'
<1>1. TypeOK'
  BY StepEffect
<1>2. ASSUME Safe, MapKept
      PROVE  Truthful'
  BY <1>1, <1>2, TruthfulKept, SameSetupKept DEF Safe
<1>3. CASE UNCHANGED vars
  BY <1>2, <1>3, SameCallsRefs, SameWrites DEF vars, state, Safe, SameSetup, MapKept
<1>4. ASSUME NEW p \in Projects, CreateBench(p) \/ UnregisterEmpty(p) \/ ForceUnregister(p)
      PROVE  Truthful'
  <2>1. CASE UnregisterEmpty(p)
    BY <1>2, <2>1, SameCallsRefs, SameWrites DEF UnregisterEmpty, Safe, SameSetup, MapKept
  <2>2. CASE ForceUnregister(p)
    BY <1>2, <2>2, ForceUnregisterSafe DEF ForceUnregister, MapKept
  <2> QED
    BY <1>1, <1>4, <2>1, <2>2, CreateTruthful
<1>5. ASSUME NEW k \in Keys,
             \/ StartAll(k) \/ UpdateBenchStatus(k) \/ CleanupAndRetry(k)
             \/ \E keep \in BOOLEAN : TeardownBench(k, keep)
             \/ Reconcile(k) \/ SweepList(k) \/ SweepRemove(k)
      PROVE  Truthful'
  <2>1. Safe
    BY <1>5, StartAllSafe, PollsSafe, CleanupAndRetrySafe, TeardownSafe
  <2>2. UNCHANGED benches
    BY <1>5, StartAllEffect, UpdateBenchStatusEffect, CleanupAndRetryEffect, TeardownBenchEffect,
       ReconcileEffect, SweepEffect
  <2> QED
    BY <1>2, <2>1, <2>2 DEF MapKept
<1>6. ASSUME NEW c \in Calls, CallStep(c)
      PROVE  Truthful'
  <2>1. CASE RoundStep(c)
    BY <1>2, <2>1, RoundStepSafe, RoundStepEffect DEF MapKept
  <2>2. CASE SetupEnds(c)
    BY <1>1, <2>2, SetupEndsKeeps, SetupEndsEffect, TruthfulKept DEF MapKept
  <2>3. CASE LaunchEnds(c)
    BY <1>2, <2>3, LaunchEndsSafe, LaunchEndsEffect DEF MapKept
  <2>4. CASE ClearStep(c)
    BY <1>2, <2>4, ClearStepKeepsRefs
  <2>5. CASE RetryStep(c)
    <3>1. CallsKeep /\ Writes /\ KeepsSetup /\ UNCHANGED benches
      BY <2>5, RetryStepRefs, RetryStepEffect DEF Truthful
    <3> QED
      BY <1>1, <3>1, TruthfulKept DEF MapKept
  <2>6. CASE UnregisterStep(c)
    BY <1>2, <2>6, UnregisterStepRefs
  <2> QED
    BY <1>6, <2>1, <2>2, <2>3, <2>4, <2>5, <2>6 DEF CallStep
<1>7. CASE Restart
  BY <1>7, RestartTruthful
<1> QED
  BY <1>3, <1>4, <1>5, <1>6, <1>7 DEF Next

LEMMA InitTruthful == Init => Truthful
<1> SUFFICES ASSUME Init PROVE Truthful
  OBVIOUS
<1>1. \A b \in Ids, k \in Keys : ~Refs(b, k)
  BY Parameters DEF Init, Refs, NoCall
<1> QED
  BY <1>1 DEF Init, Truthful, OneKey, SavedIsSet

LEMMA TruthfulAlways == Spec => []Truthful
<1>1. TypeOK /\ Truthful /\ [Next]_vars => Truthful'
  BY TruthfulStep
<1> QED
  BY <1>1, InitTruthful, TypeCorrect, PTL DEF Spec

\* A restart never skips the setup a bench still needs, whatever calls of earlier benches
\* of the slot end late: a record says setup is complete only when it is for its bench.
THEOREM SavedSetupTrue == Spec => []SavedSetupIsLive
<1>1. Truthful => SavedSetupIsLive
  BY DEF Truthful, SavedIsSet, SavedSetupIsLive, Live
<1> QED
  BY <1>1, TruthfulAlways, PTL

-----------------------------------------------------------------------------
(* Which bench a record is of. A setup or a launch that outlives its bench writes  *)
(* the record of the next one, so this holds where nothing starts components.      *)

NothingStarts == ~HasSetup /\ ~AutoStart /\ "start" \notin Operations

Late   == {"setup", "launch"}
NoLate == \A c \in Calls : call[c].pc \notin Late

Current ==
    \A k \in Keys : recorded[k] # None => recorded[k] = benches[k] \/ k \in Excused

\* A bench that no user can work in yet, or any more.
Unsaved(r) == r.err \/ r.steps # "none" \/ r.status \in {"preparing", "clearing"}

Saved ==
    \A k \in Keys : Live(k) =>
        k \in Excused \/ recorded[k] = benches[k] \/ Unsaved(bench[benches[k]])

\* A bench stays in error until its Cleanup & Retry resets it.
RetryOfError ==
    \A c \in Calls : call[c].pc \in RetryPcs
        => call[c].key \in contested \/ bench[call[c].id].err

Kept == NoLate /\ Current /\ Saved /\ RetryOfError

\* No setup, launch or Cleanup & Retry begins.
CallsStay ==
    \A c \in Calls :
        /\ call'[c].pc \in Late => call[c].pc \in Late
        /\ call'[c].pc \in RetryPcs => /\ call[c].pc \in RetryPcs
                                       /\ call'[c].key = call[c].key
                                       /\ call'[c].id = call[c].id

ExcusesMore == Excused \subseteq Excused' /\ contested \subseteq contested'

RecordStep(k) ==
    recorded'[k] # None =>
        \/ k \in Excused'
        \/ recorded'[k] = benches'[k]
        \/ recorded'[k] = recorded[k] /\ benches'[k] = benches[k]

SavedStep(k) ==
    benches'[k] # None =>
        \/ k \in Excused'
        \/ recorded'[k] = benches'[k]
        \/ Unsaved(bench'[benches'[k]])
        \/ /\ recorded'[k] = recorded[k] /\ benches'[k] = benches[k]
           /\ Unsaved(bench[benches[k]]) => Unsaved(bench'[benches[k]])

RetriesStay ==
    \A c \in Calls : call'[c].pc \in RetryPcs
        => call[c].key \in contested' \/ (bench[call[c].id].err => bench'[call[c].id].err)

LEMMA KeptBy ==
    ASSUME Kept, CallsStay, RetriesStay, ExcusesMore,
           \A k \in Keys : RecordStep(k) /\ SavedStep(k)
    PROVE  Kept'
<1>1. NoLate'
  BY DEF Kept, NoLate, CallsStay
<1>2. Current'
  BY DEF Kept, Current, RecordStep, ExcusesMore
<1>3. Saved'
  BY DEF Kept, Saved, SavedStep, ExcusesMore, Live
<1>4. RetryOfError'
  BY DEF Kept, RetryOfError, CallsStay, RetriesStay, ExcusesMore
<1> QED
  BY <1>1, <1>2, <1>3, <1>4 DEF Kept

LEMMA SameBenchKept ==
    ASSUME Kept, CallsStay, ExcusesMore, UNCHANGED <<bench, benches, recorded>>
    PROVE  Kept'
BY KeptBy DEF RetriesStay, RecordStep, SavedStep

LEMMA FinishStays ==
    ASSUME TypeOK, NEW c \in Calls, Finish(c)
    PROVE  CallsStay
<1>1. call'[c].pc = "done" /\ \A d \in Calls \ {c} : call'[d] = call[d]
  BY DEF Finish, NoCall, TypeOK
<1> QED
  BY <1>1 DEF CallsStay, Late, RetryPcs

LEMMA GotoStaysAt ==
    ASSUME TypeOK, NEW c \in Calls, NEW pc, Goto(c, pc), pc \notin Late,
           pc \in RetryPcs => call[c].pc \in RetryPcs
    PROVE  CallsStay
<1>1. call'[c] = [call[c] EXCEPT !.pc = pc] /\ \A d \in Calls \ {c} : call'[d] = call[d]
  BY DEF Goto, TypeOK
<1>2. call[c] \in CallRecord
  BY DEF TypeOK, Call
<1>3. call'[c].pc = pc /\ call'[c].key = call[c].key /\ call'[c].id = call[c].id
  BY <1>1, <1>2 DEF CallRecord
<1> QED
  BY <1>1, <1>3 DEF CallsStay

\* A round writes the record of its bench only, fails it, or makes it usable with its
\* record.
RoundOutcome(c) ==
    /\ \A k \in Keys : recorded'[k] = recorded[k] \/ (k = call[c].key /\ recorded'[k] = call[c].id)
    /\ \/ UNCHANGED bench
       \/ \E r \in Bench : r.err /\ bench' = [bench EXCEPT ![call[c].id] = r]
       \/ /\ bench' = [bench EXCEPT ![call[c].id].status = "idle"]
          /\ recorded'[call[c].key] = call[c].id

Fares(c) == CallsStay /\ RoundOutcome(c)

LEMMA EndRoundStays ==
    ASSUME TypeOK, NothingStarts, NEW c \in Calls, call[c].pc \in RoundPcs, NEW r \in Bench,
           EndRound(c, r)
    PROVE  CallsStay /\ bench' = [bench EXCEPT ![call[c].id] = r]
<1>1. /\ call' = [d \in Calls |-> IF d = c THEN NoCall ELSE [call[d] EXCEPT !.wait = @ \ {c}]]
      /\ bench' = [bench EXCEPT ![call[c].id] = r]
  BY DEF EndRound, NothingStarts
<1>2. ASSUME NEW d \in Calls \ {c}
      PROVE  /\ call'[d].pc = call[d].pc /\ call'[d].key = call[d].key
             /\ call'[d].id = call[d].id
  <2>1. call'[d] = [call[d] EXCEPT !.wait = @ \ {c}] /\ call[d] \in CallRecord
    BY <1>1 DEF TypeOK, Call
  <2> QED
    BY <2>1 DEF CallRecord
<1>3. call'[c].pc = "done"
  BY <1>1 DEF NoCall
<1> QED
  BY <1>1, <1>2, <1>3 DEF CallsStay, Late, RetryPcs

LEMMA RoundSame ==
    ASSUME TypeOK, NothingStarts, NEW c \in Calls, call[c].pc \in RoundPcs, UNCHANGED state,
           \/ EndRound(c, bench[call[c].id])
           \/ (\E pc \in RoundPcs : Goto(c, pc)) /\ UNCHANGED bench
    PROVE  Fares(c)
<1>1. CASE EndRound(c, bench[call[c].id])
  <2>1. bench[call[c].id] \in Bench /\ call[c].id \in Ids
    BY RoundCall
  <2>2. CallsStay /\ bench' = [bench EXCEPT ![call[c].id] = bench[call[c].id]]
    BY <1>1, <2>1, EndRoundStays
  <2>3. UNCHANGED bench
    BY <2>1, <2>2 DEF TypeOK
  <2> QED
    BY <2>2, <2>3 DEF Fares, RoundOutcome, state
<1>2. ASSUME NEW pc \in RoundPcs, Goto(c, pc), UNCHANGED bench
      PROVE  Fares(c)
  <2>1. pc \notin Late /\ pc \notin RetryPcs
    BY DEF RoundPcs, Late, RetryPcs
  <2> QED
    BY <1>2, <2>1, GotoStaysAt DEF Fares, RoundOutcome, state
<1> QED
  BY <1>1, <1>2

LEMMA NotifyOutcome ==
    ASSUME TypeOK, NEW k \in Keys, NEW b, NEW setup, Notify(k, b, setup)
    PROVE  \A j \in Keys : recorded'[j] = recorded[j] \/ (j = k /\ recorded'[j] = b)
BY DEF Notify, UpdateRecord, TypeOK, state

LEMMA FailRoundFares ==
    ASSUME TypeOK, NothingStarts, NEW c \in Calls, call[c].pc \in RoundPcs, FailRound(c)
    PROVE  Fares(c)
<1> DEFINE k == call[c].key
           b == call[c].id
           r == [bench[b] EXCEPT !.status = "error", !.err = TRUE]
<1>1. k \in Keys /\ b \in Ids /\ bench[b] \in Bench
  BY RoundCall
<1>2. r \in Bench /\ r.err
  BY <1>1 DEF Bench, Status
<1>3. CASE call[c].aborted
  BY <1>3, RoundSame DEF FailRound
<1>4. CASE ~call[c].aborted /\ HasDir(k)
  <2>1. bench' = [bench EXCEPT ![b] = r] /\ Goto(c, "failList") /\ UNCHANGED state
    BY <1>4 DEF FailRound
  <2>2. CallsStay
    BY <2>1, GotoStaysAt DEF Late, RetryPcs
  <2> HIDE DEF r
  <2> QED
    BY <1>2, <2>1, <2>2 DEF Fares, RoundOutcome, state
<1>5. CASE ~call[c].aborted /\ ~HasDir(k)
  <2>1. EndRound(c, r) /\ Notify(k, b, r.setup)
    BY <1>5 DEF FailRound
  <2> HIDE DEF r
  <2>2. CallsStay /\ bench' = [bench EXCEPT ![b] = r]
    BY <1>2, <2>1, EndRoundStays
  <2> QED
    BY <1>1, <1>2, <2>1, <2>2, NotifyOutcome DEF Fares, RoundOutcome
<1> QED
  BY <1>3, <1>4, <1>5

LEMMA EndFailedFares ==
    ASSUME TypeOK, NothingStarts, NEW c \in Calls, call[c].pc \in RoundPcs, EndFailed(c)
    PROVE  Fares(c)
<1>1. call[c].key \in Keys /\ call[c].id \in Ids /\ bench[call[c].id] \in Bench
  BY RoundCall
<1>2. EndRound(c, bench[call[c].id])
  BY DEF EndFailed
<1>3. CallsStay /\ bench' = [bench EXCEPT ![call[c].id] = bench[call[c].id]]
  BY <1>1, <1>2, EndRoundStays
<1>4. UNCHANGED bench
  BY <1>1, <1>3 DEF TypeOK
<1>5. \A j \in Keys : recorded'[j] = recorded[j]
                       \/ (j = call[c].key /\ recorded'[j] = call[c].id)
  BY <1>1, NotifyOutcome DEF EndFailed, state
<1> QED
  BY <1>3, <1>4, <1>5 DEF Fares, RoundOutcome

LEMMA RecordBenchFares ==
    ASSUME TypeOK, NothingStarts, NEW c \in Calls, call[c].pc \in RoundPcs, RecordBench(c)
    PROVE  Fares(c)
<1> DEFINE b == call[c].id
           r == [bench[b] EXCEPT !.status = "idle"]
<1>1. call[c].key \in Keys /\ b \in Ids /\ bench[b] \in Bench
  BY RoundCall
<1>2. CASE Stopped(c)
  BY <1>2, RoundSame DEF RecordBench
<1>3. CASE ~Stopped(c)
  <2>1. recorded' = [recorded EXCEPT ![call[c].key] = b] /\ EndRound(c, r)
    BY <1>3 DEF RecordBench
  <2>2. r \in Bench
    BY <1>1 DEF Bench, Status
  <2>3. CallsStay /\ bench' = [bench EXCEPT ![b] = r]
    BY <2>1, <2>2, EndRoundStays
  <2> QED
    BY <1>1, <2>1, <2>3 DEF Fares, RoundOutcome, TypeOK
<1> QED
  BY <1>2, <1>3

LEMMA RoundFares ==
    ASSUME TypeOK, NothingStarts, NEW c \in Calls, RoundStep(c)
    PROVE  Fares(c)
<1>1. /\ call[c].pc \in RoundPcs
      /\ {"fetch", "pull", "preList", "preRemove", "add", "inspect", "submodules",
          "failRemove"} \subseteq RoundPcs
  BY DEF RoundStep, RoundPcs, ResolveEnds, FetchEnds, PullEnds, PreListEnds, PreRemoveEnds,
         AddEnds, InspectEnds, SubmodulesEnd, FailListEnds, FailRemoveEnds
<1> USE <1>1
<1>2. ASSUME BeforeAdd(c) \/ EnterAdd(c), UNCHANGED state
      PROVE  Fares(c)
  BY <1>2, RoundSame DEF BeforeAdd, EnterAdd
<1>3. CASE ResolveEnds(c)
  BY <1>2, <1>3, FailRoundFares, RoundSame DEF ResolveEnds
<1>4. CASE FetchEnds(c)
  BY <1>4, FailRoundFares, RoundSame DEF FetchEnds
<1>5. CASE PullEnds(c)
  BY <1>2, <1>5, FailRoundFares DEF PullEnds
<1>6. CASE PreListEnds(c)
  BY <1>2, <1>6, RoundSame DEF PreListEnds
<1>7. CASE PreRemoveEnds(c)
  BY <1>2, <1>7 DEF PreRemoveEnds
<1>8. CASE AddEnds(c)
  BY <1>8, FailRoundFares, RoundSame DEF AddEnds
<1>9. CASE InspectEnds(c)
  BY <1>9, FailRoundFares, RecordBenchFares, RoundSame DEF InspectEnds
<1>10. CASE SubmodulesEnd(c)
  BY <1>10, RecordBenchFares DEF SubmodulesEnd
<1>11. CASE FailListEnds(c)
  BY <1>11, EndFailedFares, RoundSame DEF FailListEnds
<1>12. CASE FailRemoveEnds(c)
  BY <1>12, EndFailedFares DEF FailRemoveEnds
<1> QED
  BY <1>3, <1>4, <1>5, <1>6, <1>7, <1>8, <1>9, <1>10, <1>11, <1>12 DEF RoundStep

\* The bench of a call is under no other key.
LEMMA OtherBenches ==
    ASSUME TypeOK, OneKey, NEW c \in Calls, call[c].pc \in Pcs \ (UnregPcs \cup {"done"})
    PROVE  /\ \A j \in Keys \ {call[c].key} : benches[j] # call[c].id /\ recorded[j] # call[c].id
           /\ \A d \in Calls : call[d].pc \in RetryPcs /\ call[d].key # call[c].key
                                => call[d].id # call[c].id
<1>1. call[c].key \in Keys /\ call[c].id \in Ids /\ Refs(call[c].id, call[c].key)
  BY CallRefs
<1>2. ASSUME NEW j \in Keys, Refs(call[c].id, j)
      PROVE  j = call[c].key
  BY <1>1, <1>2 DEF OneKey
<1>3. ASSUME NEW d \in Calls, call[d].pc \in RetryPcs
      PROVE  call[d].key \in Keys /\ Refs(call[d].id, call[d].key)
  BY <1>3, RetryCall DEF Refs, RetryPcs
<1> QED
  BY <1>2, <1>3 DEF Refs

LEMMA RoundKept ==
    ASSUME NothingStarts, TypeOK, OneKey, Overlapping, Followed, Kept, NEW c \in Calls,
           RoundStep(c)
    PROVE  Kept'
<1> DEFINE k == call[c].key
           b == call[c].id
<1>1. CallsStay /\ RoundOutcome(c)
  BY RoundFares DEF Fares
<1>2. /\ call[c].pc \in RoundPcs /\ call[c].pc \in Pcs \ (UnregPcs \cup {"done"})
      /\ k \in Keys /\ b \in Ids /\ bench[b] \in Bench
  <2>1. call[c].pc \in RoundPcs
    BY RoundStepMoves
  <2> QED
    BY <2>1, RoundCall DEF RoundPcs, UnregPcs, Pcs
<1>3. ExcusesMore /\ UNCHANGED benches
  BY RoundStepEffect DEF RoundStep, ResolveEnds, FetchEnds, PullEnds, PreListEnds, PreRemoveEnds,
     AddEnds, InspectEnds, SubmodulesEnd, FailListEnds, FailRemoveEnds, ghosts, ExcusesMore, Excused
<1>4. k \in Excused \/ benches[k] = b
  BY <1>2 DEF Followed, Found, AtRound
<1>5. \A j \in Keys \ {k} : benches[j] # b
  BY <1>2, OtherBenches
<1>6. \A e \in Ids \ {b} : bench'[e] = bench[e]
  BY <1>1 DEF RoundOutcome, TypeOK
<1>7. \/ bench'[b] = bench[b]
      \/ bench'[b].err
      \/ recorded'[k] = b
  BY <1>1, <1>2 DEF RoundOutcome, TypeOK
<1>8. ASSUME NEW j \in Keys
      PROVE  RecordStep(j) /\ SavedStep(j)
  <2>1. recorded'[j] = recorded[j] \/ (j = k /\ recorded'[j] = b)
    BY <1>1 DEF RoundOutcome
  <2>2. RecordStep(j)
    BY <1>3, <1>4, <2>1 DEF RecordStep, ExcusesMore
  <2>3. CASE j # k
    <3>1. benches[j] # None => benches[j] \in Ids \ {b}
      BY <1>5, <2>3 DEF TypeOK
    <3> QED
      BY <1>3, <1>6, <2>1, <2>2, <2>3, <3>1 DEF SavedStep
  <2>4. CASE j = k
    BY <1>3, <1>4, <1>7, <2>1, <2>2, <2>4 DEF SavedStep, ExcusesMore, Unsaved
  <2> QED
    BY <2>2, <2>3, <2>4
<1>9. RetriesStay
  <2> SUFFICES ASSUME NEW x \in Calls, call'[x].pc \in RetryPcs
               PROVE  call[x].key \in contested' \/ (bench[call[x].id].err => bench'[call[x].id].err)
    BY DEF RetriesStay
  <2>1. call[x].pc \in RetryPcs /\ call[x].key \in Keys /\ call[x].id \in Ids
    BY <1>1, RetryCall DEF CallsStay
  <2>2. CASE call[x].key = k
    BY <1>2, <1>3, <2>1, <2>2 DEF Overlapping, Removals, AtRemoval, AtRound, ExcusesMore
  <2>3. CASE call[x].key # k
    <3>1. call[x].id # b
      BY <1>2, <2>1, <2>3, OtherBenches
    <3> QED
      BY <1>6, <2>1, <3>1
  <2> QED
    BY <2>2, <2>3
<1> QED
  BY <1>1, <1>3, <1>8, <1>9, KeptBy

\* The bench of a removal is the live one of its key, and the one its record is of.
LEMMA RemovalBench ==
    ASSUME TypeOK, Overlapping, NEW c \in Calls, AtRemoval(c),
           Live(call[c].key) \/ recorded[call[c].key] # None
    PROVE  call[c].key \in contested \/ benches[call[c].key] = call[c].id
<1>1. call[c].key \in Keys
  BY ClearCall, RetryCall DEF AtRemoval
<1> QED
  BY <1>1 DEF Overlapping, Removals, UnregisterDropsBenches

LEMMA ClearKept ==
    ASSUME TypeOK, OneKey, Overlapping, Kept, NEW c \in Calls, ClearStep(c)
    PROVE  Kept'
<1> DEFINE k == call[c].key
           b == call[c].id
<1>1. /\ call[c].pc \in ClearPcs
      /\ {"tdStop", "tdList", "tdRemove", "tdBranch", "tdLeftover"} \cap (Late \cup RetryPcs) = {}
  BY DEF ClearStep, ClearPcs, ClearWaitEnds, ClearStopEnds, ClearListEnds, ClearRemoveEnds,
         ClearBranchEnds, Late, RetryPcs
<1>2. k \in Keys /\ b \in Ids /\ bench[b] \in Bench /\ AtRemoval(c)
  BY <1>1, ClearCall DEF AtRemoval
<1>3. ASSUME ClearFails(c), UNCHANGED <<contested, overran>>
      PROVE  Kept'
  <2>1. /\ CallsStay /\ ExcusesMore /\ UNCHANGED benches
        /\ bench' = [bench EXCEPT ![b].status = "error", ![b].err = TRUE, ![b].steps = "failed"]
        /\ UpdateRecord(k, b, bench[b].setup)
    BY <1>3, FinishStays DEF ClearFails, ExcusesMore, Excused
  <2>2. bench'[b].err /\ \A e \in Ids \ {b} : bench'[e] = bench[e]
    BY <1>2, <2>1 DEF TypeOK, Bench
  <2>3. \A j \in Keys : recorded'[j] = recorded[j]
                         \/ (j = k /\ recorded[k] # None /\ recorded'[j] = b)
    BY <1>2, <2>1 DEF UpdateRecord, state, TypeOK
  <2>4. ASSUME NEW j \in Keys
        PROVE  RecordStep(j) /\ SavedStep(j)
    <3>1. RecordStep(j)
      BY <1>2, <2>1, <2>3, RemovalBench DEF RecordStep, ExcusesMore, Excused
    <3>2. CASE benches[j] = b
      BY <2>1, <2>2, <3>1, <3>2 DEF SavedStep, Unsaved
    <3>3. CASE benches[j] # b
      <4>1. benches[j] # None => bench'[benches[j]] = bench[benches[j]]
        BY <2>2, <3>3 DEF TypeOK
      <4>2. recorded'[j] = recorded[j] \/ recorded'[j] # None
        BY <1>2, <2>3, Parameters
      <4> QED
        BY <2>1, <3>1, <4>1, <4>2 DEF SavedStep, RecordStep
    <3> QED
      BY <3>1, <3>2, <3>3
  <2>5. RetriesStay
    <3> SUFFICES ASSUME NEW x \in Calls, call'[x].pc \in RetryPcs
                 PROVE  bench[call[x].id].err => bench'[call[x].id].err
      BY DEF RetriesStay
    <3>1. call[x].id \in Ids
      BY <2>1, RetryCall DEF CallsStay
    <3> QED
      BY <2>2, <3>1
  <2> QED
    BY <2>1, <2>4, <2>5, KeptBy
<1>4. ASSUME ClearSucceeds(c), UNCHANGED <<contested, overran>>
      PROVE  Kept'
  <2>1. /\ CallsStay /\ ExcusesMore /\ UNCHANGED bench
        /\ recorded' = [recorded EXCEPT ![k] = None]
        /\ benches' = [benches EXCEPT ![k] = None]
    BY <1>4, FinishStays DEF ClearSucceeds, RemoveRecord, ExcusesMore, Excused
  <2>2. \A j \in Keys : RecordStep(j) /\ SavedStep(j)
    BY <1>2, <2>1 DEF RecordStep, SavedStep, TypeOK
  <2> QED
    BY <2>1, <2>2, KeptBy DEF RetriesStay
<1>5. ASSUME NEW pc \in {"tdStop", "tdList", "tdRemove", "tdBranch", "tdLeftover"}, Goto(c, pc),
             UNCHANGED <<benches, bench, state, contested, overran>>
      PROVE  Kept'
  BY <1>1, <1>5, GotoStaysAt, SameBenchKept DEF state, ExcusesMore, Excused
<1>6. CASE ClearWaitEnds(c)
  <2>1. /\ call'[c] = [call[c] EXCEPT !.pc = "tdStop", !.wait = {}]
        /\ \A d \in Calls \ {c} : call'[d] = call[d]
    BY <1>6 DEF ClearWaitEnds, TypeOK
  <2>2. call[c] \in CallRecord
    BY DEF TypeOK, Call
  <2>3. call'[c].pc = "tdStop"
    BY <2>1, <2>2 DEF CallRecord
  <2>4. CallsStay
    BY <1>1, <2>1, <2>3 DEF CallsStay
  <2> QED
    BY <1>6, <2>4, SameBenchKept DEF ClearWaitEnds, state, ExcusesMore, Excused
<1>7. CASE ClearStopEnds(c)
  BY <1>3, <1>4, <1>5, <1>7 DEF ClearStopEnds
<1>8. CASE ClearListEnds(c)
  BY <1>5, <1>8 DEF ClearListEnds, ghosts
<1>9. CASE ClearRemoveEnds(c)
  BY <1>3, <1>5, <1>9 DEF ClearRemoveEnds
<1>10. CASE ClearBranchEnds(c)
  BY <1>3, <1>4, <1>10 DEF ClearBranchEnds
<1> QED
  BY <1>6, <1>7, <1>8, <1>9, <1>10 DEF ClearStep

\* The record of the retried bench goes, and the bench is in error until it is reset.
LEMMA RetryKept ==
    ASSUME TypeOK, OneKey, Overlapping, Kept, NEW c \in Calls, RetryStep(c)
    PROVE  Kept'
<1> DEFINE k == call[c].key
           b == call[c].id
<1>1. /\ call[c].pc \in RetryPcs /\ {"rtList", "rtRemove"} \subseteq RetryPcs \ Late
      /\ UNCHANGED <<benches, contested, overran>>
  BY RetryStepEffect
     DEF RetryStep, RetryPcs, RetryStopEnds, RetryListEnds, RetryRemoveEnds, Late, ghosts
<1>2. /\ k \in Keys /\ b \in Ids /\ AtRemoval(c)
      /\ call[c].pc \in Pcs \ (UnregPcs \cup {"done"})
  BY <1>1, RetryCall DEF AtRemoval, RetryPcs, UnregPcs, Pcs
<1>3. ExcusesMore
  BY <1>1 DEF ExcusesMore, Excused
<1>4. ASSUME NEW pc \in {"rtList", "rtRemove"}, Goto(c, pc), UNCHANGED <<bench, state>>
      PROVE  Kept'
  BY <1>1, <1>3, <1>4, GotoStaysAt, SameBenchKept DEF state
<1>5. CASE Finish(c) /\ UNCHANGED <<bench, state>>
  BY <1>1, <1>3, <1>5, FinishStays, SameBenchKept DEF state
<1>6. CASE RetryResets(c)
  <2>1. /\ recorded' = [recorded EXCEPT ![k] = None]
        /\ Finish(c) \/ Goto(c, "resolve")
        /\ bench' = bench \/ bench' = [bench EXCEPT ![b] = NewBench]
    BY <1>6 DEF RetryResets, RemoveRecord, Goto
  <2>2. CallsStay /\ ~(call'[c].pc \in RetryPcs)
    <3>1. CASE Finish(c)
      BY <3>1, FinishStays, FinishEnds, Classes DEF Ends
    <3>2. CASE Goto(c, "resolve")
      <4>1. call'[c] = [call[c] EXCEPT !.pc = "resolve"] /\ call[c] \in CallRecord
        BY <3>2 DEF Goto, TypeOK, Call
      <4>2. call'[c].pc = "resolve"
        BY <4>1 DEF CallRecord
      <4> QED
        BY <3>2, <4>2, GotoStaysAt DEF Late, RetryPcs
    <3> QED
      BY <2>1, <3>1, <3>2
  <2>3. \A e \in Ids \ {b} : bench'[e] = bench[e]
    BY <2>1 DEF TypeOK
  <2>4. ASSUME NEW j \in Keys
        PROVE  RecordStep(j) /\ SavedStep(j)
    <3>1. CASE j = k
      <4>1. RecordStep(j)
        BY <1>2, <2>1, <3>1 DEF RecordStep, TypeOK
      <4>2. ASSUME Live(k) PROVE k \in contested \/ Unsaved(bench'[benches[k]])
        <5>1. k \in contested \/ benches[k] = b
          BY <1>2, <4>2, RemovalBench
        <5>2. k \in contested \/ bench[b].err
          BY <1>1 DEF Kept, RetryOfError
        <5>3. bench'[b] = bench[b] \/ bench'[b] = NewBench
          BY <1>2, <2>1 DEF TypeOK
        <5> QED
          BY <5>1, <5>2, <5>3 DEF Unsaved, NewBench
      <4> QED
        BY <1>1, <1>3, <3>1, <4>1, <4>2 DEF SavedStep, Live, ExcusesMore, Excused
    <3>2. CASE j # k
      <4>1. benches[j] # None => benches[j] \in Ids \ {b}
        BY <1>2, <3>2, OtherBenches DEF TypeOK
      <4> QED
        BY <1>1, <2>1, <2>3, <3>2, <4>1 DEF RecordStep, SavedStep, TypeOK
    <3> QED
      BY <3>1, <3>2
  <2>5. RetriesStay
    <3> SUFFICES ASSUME NEW x \in Calls, call'[x].pc \in RetryPcs
                 PROVE  call[x].key \in contested' \/ (bench[call[x].id].err => bench'[call[x].id].err)
      BY DEF RetriesStay
    <3>1. x # c /\ call[x].pc \in RetryPcs /\ call[x].key \in Keys /\ call[x].id \in Ids
      BY <2>2, RetryCall DEF CallsStay
    <3>2. CASE call[x].key = k
      BY <1>2, <1>3, <3>1, <3>2 DEF Overlapping, Removals, AtRemoval, ExcusesMore
    <3>3. CASE call[x].key # k
      <4>1. call[x].id # b
        BY <1>2, <3>1, <3>3, OtherBenches
      <4> QED
        BY <2>3, <3>1, <4>1
    <3> QED
      BY <3>2, <3>3
  <2> QED
    BY <1>3, <2>2, <2>4, <2>5, KeptBy
<1>7. CASE RetryStopEnds(c)
  BY <1>4, <1>7 DEF RetryStopEnds
<1>8. CASE RetryListEnds(c)
  BY <1>4, <1>6, <1>8 DEF RetryListEnds
<1>9. CASE RetryRemoveEnds(c)
  BY <1>5, <1>6, <1>9 DEF RetryRemoveEnds
<1> QED
  BY <1>7, <1>8, <1>9 DEF RetryStep

\* An unregister drops the records it saw, and a record it did not see is of a contested key.
LEMMA UnregisterKept ==
    ASSUME TypeOK, Overlapping, Kept, NEW c \in Calls, UnregisterStep(c)
    PROVE  Kept'
<1> DEFINE p == call[c].key[1]
<1>1. /\ call[c].pc \in UnregPcs /\ UNCHANGED bench
      /\ {"urStop", "urRemove"} \cap (Late \cup RetryPcs) = {} /\ UnregPcs \cap (Late \cup RetryPcs) = {}
  BY DEF UnregisterStep, UnregPcs, UnregisterWaitEnds, UnregisterStopEnds, UnregisterRemoves,
     Late, RetryPcs
<1>2. call[c] \in Call /\ call[c] \in CallRecord
  BY DEF TypeOK, Call
<1>3. ExcusesMore
  BY DEF UnregisterStep, UnregisterWaitEnds, UnregisterStopEnds, UnregisterRemoves, ExcusesMore,
     Excused
<1>4. ASSUME NEW d, UnregisterDone(c, d)
      PROVE  Kept'
  <2>1. /\ recorded' = [k \in Keys |-> IF k \in call[c].recs THEN None ELSE recorded[k]]
        /\ benches' = [k \in Keys |-> IF k[1] = p THEN None ELSE benches[k]]
        /\ CallsStay
    BY <1>4, FinishStays DEF UnregisterDone
  <2>2. \A k \in call[c].recs : k[1] = p
    BY <1>1, <1>2 DEF Call, UnregPcs
  <2>3. \A k \in Keys : k[1] = p /\ recorded[k] # None => k \in call[c].recs \cup contested
    BY <1>1 DEF Overlapping, Unregisterings
  <2>4. ASSUME NEW k \in Keys
        PROVE  RecordStep(k) /\ SavedStep(k)
    <3>1. CASE k[1] = p
      <4>1. benches'[k] = None /\ (recorded'[k] # None => k \in contested)
        BY <2>1, <2>3, <3>1
      <4> QED
        BY <1>3, <4>1 DEF RecordStep, SavedStep, ExcusesMore, Excused
    <3>2. CASE k[1] # p
      <4>1. benches'[k] = benches[k] /\ recorded'[k] = recorded[k]
        BY <2>1, <2>2, <3>2
      <4> QED
        BY <1>1, <4>1 DEF RecordStep, SavedStep
    <3> QED
      BY <3>1, <3>2
  <2> QED
    BY <1>1, <1>3, <2>1, <2>4, KeptBy DEF RetriesStay
<1>5. CASE UnregisterWaitEnds(c)
  <2>1. /\ call'[c] = [call[c] EXCEPT !.pc = "urStop", !.wait = {}]
        /\ \A d \in Calls \ {c} : call'[d] = call[d]
    BY <1>5 DEF UnregisterWaitEnds, TypeOK
  <2>2. call'[c].pc = "urStop"
    BY <1>2, <2>1 DEF CallRecord
  <2>3. CallsStay
    BY <1>1, <2>1, <2>2 DEF CallsStay
  <2> QED
    BY <1>1, <1>3, <1>5, <2>3, SameBenchKept DEF UnregisterWaitEnds, state
<1>6. CASE UnregisterStopEnds(c)
  BY <1>1, <1>3, <1>4, <1>6, GotoStaysAt, SameBenchKept DEF UnregisterStopEnds, state
<1>7. CASE UnregisterRemoves(c)
  <2>1. PICK k \in call[c].todo :
          IF call[c].todo = {k} THEN UnregisterDone(c, disk')
          ELSE /\ call' = [call EXCEPT ![c].todo = @ \ {k}]
               /\ UNCHANGED <<registered, benches, round, state, left>>
    BY <1>7 DEF UnregisterRemoves
  <2>2. CASE /\ call' = [call EXCEPT ![c].todo = @ \ {k}]
             /\ UNCHANGED <<registered, benches, round, state, left>>
    <3>1. /\ call'[c] = [call[c] EXCEPT !.todo = @ \ {k}]
          /\ \A d \in Calls \ {c} : call'[d] = call[d]
      BY <2>2 DEF TypeOK
    <3>2. call'[c].pc = call[c].pc
      BY <1>2, <3>1 DEF CallRecord
    <3>3. CallsStay
      BY <1>1, <3>1, <3>2 DEF CallsStay
    <3> QED
      BY <1>1, <1>3, <2>2, <3>3, SameBenchKept DEF state
  <2> QED
    BY <1>4, <2>1, <2>2
<1> QED
  BY <1>5, <1>6, <1>7 DEF UnregisterStep

LEMMA CreateKept ==
    ASSUME TypeOK, Kept, NEW p \in Projects, CreateBench(p)
    PROVE  Kept'
<1>1. PICK n \in 1..MaxBenches, b \in Ids, c \in Calls :
        /\ ~Live(<<p, n>>) /\ FreeId(b)
        /\ benches' = [benches EXCEPT ![<<p, n>>] = b]
        /\ bench' = [bench EXCEPT ![b] = NewBench]
        /\ call' = [call EXCEPT ![c] = [NoCall EXCEPT !.pc = "resolve", !.key = <<p, n>>,
                                                      !.id = b, !.creates = TRUE]]
  BY DEF CreateBench
<1> DEFINE k == <<p, n>>
<1>2. k \in Keys /\ benches[k] = None
  BY <1>1 DEF Keys, Live
<1>3. call'[c].pc = "resolve" /\ \A d \in Calls \ {c} : call'[d] = call[d]
  BY <1>1 DEF TypeOK, NoCall
<1>4. CallsStay
  BY <1>3 DEF CallsStay, Late, RetryPcs
<1>5. UNCHANGED recorded /\ ExcusesMore
  BY DEF CreateBench, state, ExcusesMore, Excused
<1> HIDE DEF k
<1>6. benches' = [benches EXCEPT ![k] = b]
  BY <1>1 DEF k
<1>7. ASSUME NEW j \in Keys
      PROVE  RecordStep(j) /\ SavedStep(j)
  <2>1. CASE j = k
    <3>1. benches'[j] = b /\ bench'[b] = NewBench /\ Unsaved(NewBench)
      BY <1>1, <1>2, <1>6, <2>1 DEF TypeOK, NewBench, Unsaved
    <3>2. recorded[j] # None => j \in Excused
      BY <1>2, <2>1 DEF Kept, Current
    <3> QED
      BY <1>5, <3>1, <3>2 DEF RecordStep, SavedStep, ExcusesMore
  <2>2. CASE j # k
    <3>1. benches'[j] = benches[j] /\ benches[j] # b
      BY <1>1, <1>6, <2>2 DEF TypeOK, FreeId
    <3> QED
      BY <1>1, <1>5, <3>1 DEF RecordStep, SavedStep, TypeOK
  <2> QED
    BY <2>1, <2>2
<1>8. RetriesStay
  <2>1. \A x \in Calls : call[x].id # b
    BY <1>1 DEF FreeId
  <2> QED
    BY <1>1, <1>4, <2>1, RetryCall DEF RetriesStay, CallsStay, TypeOK
<1> QED
  BY <1>4, <1>5, <1>7, <1>8, KeptBy

\* A new call that is a Clear or an unregister.
LEMMA BeginsStays ==
    ASSUME TypeOK, NEW c \in Calls, NEW r \in Call, NEW cs, Begins(c, r, cs),
           r.pc \in {"tdWait", "urWait"}
    PROVE  CallsStay
BY AbortedCalls DEF CallsStay, Late, RetryPcs

LEMMA TeardownKept ==
    ASSUME TypeOK, Kept, NEW k \in Keys, NEW keep \in BOOLEAN, TeardownBench(k, keep)
    PROVE  Kept'
<1> DEFINE b == benches[k]
<1>1. CallsStay
  BY TeardownBegins, BeginsStays
<1>2. /\ b \in Ids /\ UNCHANGED <<benches, recorded>> /\ ExcusesMore
      /\ bench' = [bench EXCEPT ![b].status = "clearing", ![b].steps = "active"]
  BY DEF TeardownBench, TypeOK, Live, state, ExcusesMore, Excused
<1> HIDE DEF b
<1>3. /\ Unsaved(bench'[b]) /\ bench'[b].err = bench[b].err
      /\ \A e \in Ids \ {b} : bench'[e] = bench[e]
  BY <1>2 DEF TypeOK, Bench, Unsaved
<1>4. \A j \in Keys : RecordStep(j) /\ SavedStep(j)
  BY <1>2, <1>3 DEF RecordStep, SavedStep, TypeOK
<1>5. RetriesStay
  BY <1>1, <1>3, RetryCall DEF RetriesStay, CallsStay
<1> QED
  BY <1>1, <1>2, <1>4, <1>5, KeptBy

\* Cleanup & Retry is for a bench in error.
LEMMA CleanupAndRetryKept ==
    ASSUME TypeOK, Kept, NEW k \in Keys, CleanupAndRetry(k)
    PROVE  Kept'
<1>1. PICK c \in Calls :
        call' = [call EXCEPT ![c] = [NoCall EXCEPT !.pc = "rtStop", !.key = k, !.id = benches[k]]]
  BY DEF CleanupAndRetry
<1>2. /\ call'[c].pc = "rtStop" /\ call'[c].key = k /\ call'[c].id = benches[k]
      /\ \A d \in Calls \ {c} : call'[d] = call[d]
  BY <1>1 DEF TypeOK, NoCall
<1>3. /\ bench[benches[k]].err /\ UNCHANGED <<bench, benches, recorded>>
      /\ contested \subseteq contested' /\ Excused \subseteq Excused'
  BY DEF CleanupAndRetry, state, Excused
<1>4. NoLate' /\ RetryOfError'
  BY <1>2, <1>3 DEF Kept, NoLate, Late, RetryOfError
<1>5. Current' /\ Saved'
  BY <1>3 DEF Kept, Current, Saved, Live
<1> QED
  BY <1>4, <1>5 DEF Kept

LEMMA UnregisterRequestsKept ==
    ASSUME TypeOK, Kept, NEW p \in Projects, UnregisterEmpty(p) \/ ForceUnregister(p)
    PROVE  Kept'
<1>1. CASE UnregisterEmpty(p)
  BY <1>1, SameBenchKept DEF UnregisterEmpty, state, ghosts, ExcusesMore, Excused, CallsStay
<1>2. CASE ForceUnregister(p)
  <2>1. PICK c \in Calls, r \in Call : (\E cs : Begins(c, r, cs)) /\ r.pc = "urWait"
    BY <1>2, UnregisterBegins
  <2>2. CallsStay
    BY <2>1, BeginsStays
  <2> QED
    BY <1>2, <2>2, SameBenchKept DEF ForceUnregister, state, ghosts, ExcusesMore, Excused
<1> QED
  BY <1>1, <1>2

\* The status poll and reconcile leave the error of a bench, and one in preparing or clearing.
LEMMA PollsKept ==
    ASSUME TypeOK, Kept, NEW k \in Keys,
           UpdateBenchStatus(k) \/ Reconcile(k) \/ SweepList(k) \/ SweepRemove(k)
    PROVE  Kept'
<1>1. /\ UNCHANGED <<call, benches, recorded>> /\ ExcusesMore
      /\ CallsStay
  BY DEF UpdateBenchStatus, Reconcile, SweepList, SweepRemove, state, ghosts, ExcusesMore, Excused,
     CallsStay
<1>2. ASSUME NEW b \in Ids
      PROVE  (bench[b].err => bench'[b].err) /\ (Unsaved(bench[b]) => Unsaved(bench'[b]))
  <2>1. bench[b] \in Bench
    BY DEF TypeOK
  <2>2. CASE UpdateBenchStatus(k)
    <3>1. PICK s \in {"idle", "error"} : bench' = [bench EXCEPT ![benches[k]].status = s]
      BY <2>2 DEF UpdateBenchStatus
    <3>2. bench'[b] = bench[b]
          \/ (bench'[b] = [bench[b] EXCEPT !.status = s]
               /\ bench[b].status \notin {"preparing", "clearing"})
      BY <2>2, <3>1 DEF UpdateBenchStatus, TypeOK
    <3> QED
      BY <2>1, <3>2 DEF Unsaved, Bench
  <2>3. CASE Reconcile(k)
    <3>1. \/ bench'[b] = bench[b]
          \/ bench'[b] = [bench[b] EXCEPT !.status = "error", !.err = TRUE]
          \/ /\ bench'[b] = [bench[b] EXCEPT !.status = "idle"]
             /\ bench[b].status \notin {"preparing", "clearing"}
      BY <2>3 DEF Reconcile, TypeOK
    <3> QED
      BY <2>1, <3>1 DEF Unsaved, Bench
  <2>4. CASE SweepList(k) \/ SweepRemove(k)
    BY <2>4 DEF SweepList, SweepRemove
  <2> QED
    BY <2>2, <2>3, <2>4
<1>3. \A j \in Keys : RecordStep(j) /\ SavedStep(j)
  BY <1>1, <1>2 DEF RecordStep, SavedStep, TypeOK
<1>4. RetriesStay
  BY <1>1, <1>2, RetryCall DEF RetriesStay
<1> QED
  BY <1>1, <1>3, <1>4, KeptBy

LEMMA RestartKept ==
    ASSUME Restart
    PROVE  Kept'
<1>1. \A c \in Calls : call'[c].pc = "done"
  BY DEF Restart, NoCall
<1>2. benches' = recorded /\ UNCHANGED recorded
  BY DEF Restart, state
<1> QED
  BY <1>1, <1>2 DEF Kept, NoLate, Late, Current, Saved, RetryOfError, RetryPcs

LEMMA KeptStep ==
    ASSUME NothingStarts, TypeOK, OneKey, Overlapping, Followed, Kept, [Next]_vars
    PROVE  Kept'
<1>1. CASE UNCHANGED vars
  BY <1>1, SameBenchKept DEF vars, ExcusesMore, Excused, CallsStay
<1>2. ASSUME NEW p \in Projects, CreateBench(p) \/ UnregisterEmpty(p) \/ ForceUnregister(p)
      PROVE  Kept'
  BY <1>2, CreateKept, UnregisterRequestsKept
<1>3. ASSUME NEW k \in Keys,
             \/ StartAll(k) \/ UpdateBenchStatus(k) \/ CleanupAndRetry(k)
             \/ \E keep \in BOOLEAN : TeardownBench(k, keep)
             \/ Reconcile(k) \/ SweepList(k) \/ SweepRemove(k)
      PROVE  Kept'
  <2>1. ~StartAll(k)
    BY DEF NothingStarts, StartAll
  <2> QED
    BY <1>3, <2>1, PollsKept, CleanupAndRetryKept, TeardownKept
<1>4. ASSUME NEW c \in Calls, CallStep(c)
      PROVE  Kept'
  <2>1. ~SetupEnds(c) /\ ~LaunchEnds(c)
    BY DEF Kept, NoLate, Late, SetupEnds, LaunchEnds
  <2> QED
    BY <1>4, <2>1, RoundKept, ClearKept, RetryKept, UnregisterKept DEF CallStep
<1>5. CASE Restart
  BY <1>5, RestartKept
<1> QED
  BY <1>1, <1>2, <1>3, <1>4, <1>5 DEF Next

LEMMA KeptAlways ==
    ASSUME NothingStarts
    PROVE  Spec => []Kept
<1>1. Init => Kept
  BY DEF Init, NoCall, Kept, NoLate, Late, Current, Saved, RetryOfError, RetryPcs, Live
<1>2. TypeOK /\ Truthful /\ Overlapping /\ Followed /\ Kept /\ [Next]_vars => Kept'
  BY KeptStep DEF Truthful
<1> QED
  BY <1>1, <1>2, TypeCorrect, TruthfulAlways, OverlappingAlways, FollowedAlways, PTL DEF Spec

\* As long as no component is started, a record is of the bench that is live in its slot,
\* whatever Clears, retries, unregisters and crashes interleave with rounds: none of them
\* writes the record of a later bench of the slot.
THEOREM RecordsCurrent == ASSUME NothingStarts PROVE Spec => []RecordIsCurrent
<1>1. Kept => RecordIsCurrent
  BY DEF Kept, Current, RecordIsCurrent, Excused
<1> QED
  BY <1>1, KeptAlways, PTL

\* As long as no component is started, a bench a user can work in has its record, so that
\* a crash does not lose it.
THEOREM UsablesRecorded == ASSUME NothingStarts PROVE Spec => []UsableIsRecorded
<1>1. TypeOK /\ Kept => UsableIsRecorded
  BY DEF Kept, Saved, Unsaved, UsableIsRecorded, Usable, Excused
<1> QED
  BY <1>1, KeptAlways, TypeCorrect, PTL

-----------------------------------------------------------------------------
(* Clearing. Start does not read the status, so this too holds where nothing is  *)
(* started by hand; setup and launch of a creation are the property's own case.  *)

\* A bench that is being cleared has its Clear.
Clearing ==
    \A k \in Keys : Live(k) /\ bench[benches[k]].status = "clearing" =>
        \/ k \in contested
        \/ \E c \in Calls : call[c].pc \in ClearPcs /\ call[c].key = k /\ call[c].id = benches[k]

StaysCleared(k) ==
    Live(k) /\ bench[benches[k]].status = "clearing"
    => LET r == bench'[benches[k]] IN
       \/ benches'[k] = None
       \/ r.status = "clearing"
       \/ r.status = "error" /\ r.steps = "failed"
       \/ boot'[k] # boot[k] \/ boot'[k] = "hydrated"
       \/ On(k, {"setup", "launch"}) # {}
       \/ k \in contested'

\* No bench begins to be cleared, and a Clear goes on until its bench is not.
NoneCleared ==
    \A k \in Keys : benches'[k] # None /\ bench'[benches'[k]].status = "clearing"
        => benches'[k] = benches[k] /\ bench[benches[k]].status = "clearing"

SameClear(c) == /\ call'[c].pc \in ClearPcs
                /\ call'[c].key = call[c].key /\ call'[c].id = call[c].id

ClearsGoOn ==
    \A c \in Calls : call[c].pc \in ClearPcs
        => \/ SameClear(c)
           \/ benches'[call[c].key] = None
           \/ bench'[call[c].id].status # "clearing"

Sticks == /\ contested \subseteq contested' /\ NoneCleared /\ ClearsGoOn
          /\ \A k \in Keys : StaysCleared(k)

LEMMA ClearingKept ==
    ASSUME Clearing, Sticks
    PROVE  Clearing'
<1> SUFFICES ASSUME NEW k \in Keys, benches'[k] # None, bench'[benches'[k]].status = "clearing"
             PROVE  \/ k \in contested'
                    \/ \E c \in Calls : /\ call'[c].pc \in ClearPcs /\ call'[c].key = k
                                        /\ call'[c].id = benches'[k]
  BY DEF Clearing, Live
<1>1. benches'[k] = benches[k] /\ bench[benches[k]].status = "clearing" /\ Live(k)
  BY DEF Sticks, NoneCleared, Live
<1>2. CASE k \in contested
  BY <1>2 DEF Sticks
<1>3. ASSUME NEW c \in Calls, call[c].pc \in ClearPcs, call[c].key = k, call[c].id = benches[k]
      PROVE  SameClear(c)
  BY <1>1, <1>3 DEF Sticks, ClearsGoOn
<1> QED
  BY <1>1, <1>2, <1>3 DEF Clearing, SameClear

\* The Clear of a bench is on the bench's own key.
OthersStay(c) == \A d \in Calls \ {c} : /\ call'[d].pc = call[d].pc
                                        /\ call'[d].key = call[d].key
                                        /\ call'[d].id = call[d].id

LEMMA NotAClear ==
    ASSUME NEW c \in Calls, OthersStay(c), call[c].pc \notin ClearPcs
    PROVE  ClearsGoOn
BY DEF ClearsGoOn, SameClear, OthersStay

LEMMA SameBenchSticks ==
    ASSUME UNCHANGED bench, contested \subseteq contested', ClearsGoOn,
           \A k \in Keys : benches'[k] = None \/ benches'[k] = benches[k]
    PROVE  Sticks
BY DEF Sticks, NoneCleared, StaysCleared

-----------------------------------------------------------------------------
(* Rounds and the status of their bench *)

\* A round never begins a Clear, and one that was aborted does not end one.
StatusKept(c) ==
    LET b == call[c].id IN
    /\ \A e \in Ids \ {b} : bench'[e] = bench[e]
    /\ bench'[b].status = "clearing" => bench[b].status = "clearing"
    /\ call[c].aborted /\ bench[b].status = "clearing" => bench'[b].status = "clearing"

RoundSafe(c) == OthersStay(c) /\ StatusKept(c)

LEMMA EndRoundStatus ==
    ASSUME TypeOK, NEW c \in Calls, call[c].pc \in RoundPcs, NEW r \in Bench, EndRound(c, r)
    PROVE  /\ OthersStay(c)
           /\ \A e \in Ids \ {call[c].id} : bench'[e] = bench[e]
           /\ bench'[call[c].id].status \in {r.status, "preparing"}
           /\ r.status = "clearing" => bench'[call[c].id].status = "clearing"
<1> DEFINE b == call[c].id
           goesOn == /\ call[c].creates
                     /\ r.status \notin {"error", "clearing"}
                     /\ Live(call[c].key)
                     /\ AutoStart \/ HasSetup
<1>1. bench' = [bench EXCEPT ![b] = IF goesOn THEN [r EXCEPT !.status = "preparing"] ELSE r]
  BY DEF EndRound
<1>2. b \in Ids
  BY RoundCall
<1>3. ASSUME NEW d \in Calls \ {c}
      PROVE  /\ call'[d].pc = call[d].pc /\ call'[d].key = call[d].key
             /\ call'[d].id = call[d].id
  <2>1. call'[d] = [call[d] EXCEPT !.wait = @ \ {c}] /\ call[d] \in CallRecord
    BY DEF EndRound, TypeOK, Call
  <2> QED
    BY <2>1 DEF CallRecord
<1>4. [r EXCEPT !.status = "preparing"].status = "preparing"
  BY DEF Bench
<1>5. r.status = "clearing" => ~goesOn
  OBVIOUS
<1> HIDE DEF goesOn
<1>6. bench'[b].status = IF goesOn THEN "preparing" ELSE r.status
  BY <1>1, <1>2, <1>4 DEF TypeOK
<1> QED
  BY <1>1, <1>3, <1>5, <1>6 DEF OthersStay, TypeOK

LEMMA RoundEndsStatus ==
    ASSUME TypeOK, NEW c \in Calls, call[c].pc \in RoundPcs,
           EndRound(c, bench[call[c].id])
    PROVE  RoundSafe(c)
BY RoundCall, EndRoundStatus DEF RoundSafe, StatusKept

LEMMA RoundGoesStatus ==
    ASSUME TypeOK, NEW c \in Calls, NEW pc, Goto(c, pc), UNCHANGED bench
    PROVE  RoundSafe(c)
BY DEF Goto, TypeOK, RoundSafe, OthersStay, StatusKept

LEMMA FailRoundStatus ==
    ASSUME TypeOK, NEW c \in Calls, call[c].pc \in RoundPcs, FailRound(c)
    PROVE  RoundSafe(c)
<1> DEFINE b == call[c].id
           r == [bench[b] EXCEPT !.status = "error", !.err = TRUE]
<1>1. b \in Ids /\ bench[b] \in Bench
  BY RoundCall
<1>2. r \in Bench /\ r.status = "error"
  BY <1>1 DEF Bench, Status
<1>3. CASE call[c].aborted
  BY <1>3, RoundEndsStatus DEF FailRound
<1>4. CASE ~call[c].aborted /\ HasDir(call[c].key)
  <2>1. bench' = [bench EXCEPT ![b] = r] /\ Goto(c, "failList")
    BY <1>4 DEF FailRound
  <2> HIDE DEF r
  <2> QED
    BY <1>1, <1>2, <1>4, <2>1 DEF Goto, TypeOK, RoundSafe, OthersStay, StatusKept
<1>5. CASE ~call[c].aborted /\ ~HasDir(call[c].key)
  <2>1. EndRound(c, r)
    BY <1>5 DEF FailRound
  <2> HIDE DEF r
  <2>2. /\ OthersStay(c) /\ \A e \in Ids \ {b} : bench'[e] = bench[e]
        /\ bench'[b].status \in {r.status, "preparing"}
    BY <1>2, <2>1, EndRoundStatus
  <2> QED
    BY <1>2, <1>5, <2>2 DEF RoundSafe, StatusKept
<1> QED
  BY <1>3, <1>4, <1>5

LEMMA RecordBenchStatus ==
    ASSUME TypeOK, NEW c \in Calls, call[c].pc \in RoundPcs, RecordBench(c)
    PROVE  RoundSafe(c)
<1> DEFINE b == call[c].id
           r == [bench[b] EXCEPT !.status = "idle"]
<1>1. b \in Ids /\ bench[b] \in Bench
  BY RoundCall
<1>2. r \in Bench /\ r.status = "idle"
  BY <1>1 DEF Bench, Status
<1>3. CASE Stopped(c)
  BY <1>3, RoundEndsStatus DEF RecordBench
<1>4. CASE ~Stopped(c)
  <2>1. EndRound(c, r) /\ ~call[c].aborted
    BY <1>4 DEF RecordBench, Stopped
  <2> HIDE DEF r
  <2>2. /\ OthersStay(c) /\ \A e \in Ids \ {b} : bench'[e] = bench[e]
        /\ bench'[b].status \in {r.status, "preparing"}
    BY <1>2, <2>1, EndRoundStatus
  <2> QED
    BY <1>2, <2>1, <2>2 DEF RoundSafe, StatusKept
<1> QED
  BY <1>3, <1>4

LEMMA RoundStepStatus ==
    ASSUME TypeOK, NEW c \in Calls, RoundStep(c)
    PROVE  RoundSafe(c)
<1>1. call[c].pc \in RoundPcs
  BY RoundStepMoves
<1> USE <1>1
<1>2. ASSUME BeforeAdd(c) \/ EnterAdd(c)
      PROVE  RoundSafe(c)
  BY <1>2, RoundEndsStatus, RoundGoesStatus DEF BeforeAdd, EnterAdd
<1>3. CASE ResolveEnds(c)
  BY <1>2, <1>3, FailRoundStatus, RoundEndsStatus, RoundGoesStatus DEF ResolveEnds
<1>4. CASE FetchEnds(c)
  BY <1>4, FailRoundStatus, RoundGoesStatus DEF FetchEnds
<1>5. CASE PullEnds(c)
  BY <1>2, <1>5, FailRoundStatus DEF PullEnds
<1>6. CASE PreListEnds(c)
  BY <1>2, <1>6, RoundGoesStatus DEF PreListEnds
<1>7. CASE PreRemoveEnds(c)
  BY <1>2, <1>7 DEF PreRemoveEnds
<1>8. CASE AddEnds(c)
  BY <1>8, FailRoundStatus, RoundEndsStatus, RoundGoesStatus DEF AddEnds
<1>9. CASE InspectEnds(c)
  BY <1>9, FailRoundStatus, RecordBenchStatus, RoundGoesStatus DEF InspectEnds
<1>10. CASE SubmodulesEnd(c)
  BY <1>10, RecordBenchStatus DEF SubmodulesEnd
<1>11. CASE FailListEnds(c)
  BY <1>11, RoundEndsStatus, RoundGoesStatus DEF FailListEnds, EndFailed
<1>12. CASE FailRemoveEnds(c)
  BY <1>12, RoundEndsStatus DEF FailRemoveEnds, EndFailed
<1> QED
  BY <1>3, <1>4, <1>5, <1>6, <1>7, <1>8, <1>9, <1>10, <1>11, <1>12 DEF RoundStep

\* The Clear has aborted the round of its bench.
LEMMA RoundSticks ==
    ASSUME TypeOK, OneKey, Overlapping, Clearing, NEW c \in Calls, RoundStep(c)
    PROVE  Sticks
<1> DEFINE b == call[c].id
<1>1. /\ call[c].pc \in RoundPcs /\ call[c].pc \in Pcs \ (UnregPcs \cup {"done"})
      /\ b \in Ids /\ AtRound(c) /\ UNCHANGED contested
  <2>1. call[c].pc \in RoundPcs /\ UNCHANGED contested
    BY RoundStepMoves
  <2> QED
    BY <2>1, RoundCall DEF RoundPcs, UnregPcs, Pcs, AtRound
<1>2. UNCHANGED benches
  BY RoundStepEffect
<1>3. RoundSafe(c)
  BY RoundStepStatus
<1>4. ClearsGoOn
  BY <1>1, <1>3, NotAClear, Classes DEF RoundSafe
<1>5. NoneCleared
  BY <1>2, <1>3 DEF RoundSafe, StatusKept, NoneCleared, TypeOK
<1>6. ASSUME NEW k \in Keys, Live(k), bench[benches[k]].status = "clearing"
      PROVE  k \in contested \/ bench'[benches[k]].status = "clearing"
  <2>1. CASE benches[k] # b
    BY <1>3, <1>6, <2>1 DEF RoundSafe, StatusKept, Live, TypeOK
  <2>2. CASE benches[k] = b /\ k \notin contested
    <3>1. call[c].key = k
      BY <1>1, <2>2, OtherBenches
    <3>2. PICK x \in Calls : call[x].pc \in ClearPcs /\ call[x].key = k
      BY <1>6, <2>2 DEF Clearing
    <3>3. call[c].aborted
      BY <1>1, <2>2, <3>1, <3>2 DEF Overlapping, Waited, Takes
    <3> QED
      BY <1>3, <1>6, <2>2, <3>3 DEF RoundSafe, StatusKept
  <2> QED
    BY <2>1, <2>2
<1> QED
  BY <1>1, <1>4, <1>5, <1>6 DEF Sticks, StaysCleared

-----------------------------------------------------------------------------
(* The other steps *)

\* The setup or the launch of a bench is on the bench's own key.
LEMMA LateSticks ==
    ASSUME TypeOK, OneKey, NEW c \in Calls, SetupEnds(c) \/ LaunchEnds(c)
    PROVE  Sticks
<1> DEFINE b == call[c].id
<1>1. /\ call[c].pc \in {"setup", "launch"} /\ call[c].pc \notin ClearPcs
      /\ call[c].pc \in Pcs \ (UnregPcs \cup {"done"})
      /\ UNCHANGED <<benches, contested>>
  BY DEF SetupEnds, LaunchEnds, ClearPcs, UnregPcs, Pcs, ghosts
<1>2. b \in Ids /\ bench[b] \in Bench
  BY <1>1, CallRefs
<1>3. \A d \in Calls \ {c} : call'[d] = call[d]
  BY DEF SetupEnds, LaunchEnds, Finish, TypeOK
<1>4. ClearsGoOn
  BY <1>1, <1>3, NotAClear DEF OthersStay
<1>5. /\ \A e \in Ids \ {b} : bench'[e] = bench[e]
      /\ bench'[b].status = "clearing" => bench[b].status = "clearing"
  <2>1. \/ bench' = bench
        \/ bench' = [bench EXCEPT ![b] = [bench[b] EXCEPT !.status = "error", !.err = TRUE]]
        \/ bench' = [bench EXCEPT ![b].setup = TRUE]
        \/ bench' = [bench EXCEPT ![b].setup = TRUE, ![b].status = "idle"]
        \/ bench' = [bench EXCEPT ![b].status = "idle"]
        \/ bench' = [bench EXCEPT ![b].status = "error", ![b].err = TRUE]
    BY DEF SetupEnds, LaunchEnds
  <2> HIDE DEF b
  <2>2. \A e \in Ids \ {b} : bench'[e] = bench[e]
    BY <1>2, <2>1 DEF TypeOK
  <2>3. \/ bench'[b] = bench[b]
        \/ bench'[b] = [bench[b] EXCEPT !.status = "error", !.err = TRUE]
        \/ bench'[b] = [bench[b] EXCEPT !.setup = TRUE]
        \/ bench'[b] = [bench[b] EXCEPT !.setup = TRUE, !.status = "idle"]
        \/ bench'[b] = [bench[b] EXCEPT !.status = "idle"]
    BY <1>2, <2>1 DEF TypeOK
  <2>4. ASSUME NEW u \in Bench
        PROVE  /\ [u EXCEPT !.status = "error", !.err = TRUE].status = "error"
               /\ [u EXCEPT !.setup = TRUE].status = u.status
               /\ [u EXCEPT !.setup = TRUE, !.status = "idle"].status = "idle"
               /\ [u EXCEPT !.status = "idle"].status = "idle"
    BY DEF Bench
  <2>5. bench'[b].status \in {bench[b].status, "idle", "error"}
    BY <1>2, <2>3, <2>4
  <2> QED
    BY <2>2, <2>5
<1>6. NoneCleared
  BY <1>1, <1>5 DEF NoneCleared, TypeOK
<1>7. ASSUME NEW k \in Keys, Live(k), bench[benches[k]].status = "clearing"
      PROVE  bench'[benches[k]].status = "clearing" \/ On(k, {"setup", "launch"}) # {}
  <2>1. CASE benches[k] = b
    <3>1. call[c].key = k
      BY <1>1, <2>1, OtherBenches
    <3> QED
      BY <1>1, <3>1 DEF On
  <2>2. CASE benches[k] # b
    BY <1>5, <1>7, <2>2 DEF Live, TypeOK
  <2> QED
    BY <2>1, <2>2
<1> QED
  BY <1>1, <1>4, <1>6, <1>7 DEF Sticks, StaysCleared

\* A Clear that ends without its bench gone leaves it in error.
LEMMA ClearSticks ==
    ASSUME TypeOK, NEW c \in Calls, ClearStep(c)
    PROVE  Sticks
<1> DEFINE k == call[c].key
           b == call[c].id
<1>1. /\ call[c].pc \in ClearPcs
      /\ {"tdStop", "tdList", "tdRemove", "tdBranch", "tdLeftover"} \subseteq ClearPcs
      /\ UNCHANGED contested
  BY DEF ClearStep, ClearPcs, ClearWaitEnds, ClearStopEnds, ClearListEnds, ClearRemoveEnds,
         ClearBranchEnds, ghosts
<1>2. k \in Keys /\ b \in Ids /\ bench[b] \in Bench
  BY <1>1, ClearCall
<1>3. ASSUME ClearFails(c)
      PROVE  Sticks
  <2>1. /\ Finish(c) /\ UNCHANGED benches
        /\ bench' = [bench EXCEPT ![b].status = "error", ![b].err = TRUE, ![b].steps = "failed"]
    BY <1>3 DEF ClearFails
  <2>2. /\ bench'[b].status = "error" /\ bench'[b].steps = "failed"
        /\ \A e \in Ids \ {b} : bench'[e] = bench[e]
    BY <1>2, <2>1 DEF TypeOK, Bench
  <2>3. ClearsGoOn
    BY <2>1, <2>2 DEF ClearsGoOn, SameClear, Finish, TypeOK
  <2>4. NoneCleared /\ \A j \in Keys : StaysCleared(j)
    BY <2>1, <2>2 DEF NoneCleared, StaysCleared, TypeOK
  <2> QED
    BY <1>1, <2>3, <2>4 DEF Sticks
<1>4. ASSUME ClearSucceeds(c)
      PROVE  Sticks
  <2>1. Finish(c) /\ UNCHANGED bench /\ benches' = [benches EXCEPT ![k] = None]
    BY <1>4 DEF ClearSucceeds
  <2>2. ClearsGoOn
    BY <1>2, <2>1 DEF ClearsGoOn, SameClear, Finish, TypeOK
  <2> QED
    BY <1>1, <2>1, <2>2, SameBenchSticks DEF TypeOK
<1>5. ASSUME NEW pc \in ClearPcs, Goto(c, pc), UNCHANGED <<benches, bench>>
      PROVE  Sticks
  <2>1. call'[c] = [call[c] EXCEPT !.pc = pc] /\ \A d \in Calls \ {c} : call'[d] = call[d]
    BY <1>5 DEF Goto, TypeOK
  <2>2. call[c] \in CallRecord
    BY DEF TypeOK, Call
  <2>3. call'[c].pc = pc /\ call'[c].key = k /\ call'[c].id = b
    BY <2>1, <2>2 DEF CallRecord
  <2>4. ClearsGoOn
    BY <2>1, <2>3 DEF ClearsGoOn, SameClear
  <2> QED
    BY <1>1, <1>5, <2>4, SameBenchSticks
<1>6. CASE ClearWaitEnds(c)
  <2>1. /\ call'[c] = [call[c] EXCEPT !.pc = "tdStop", !.wait = {}]
        /\ \A d \in Calls \ {c} : call'[d] = call[d]
    BY <1>6 DEF ClearWaitEnds, TypeOK
  <2>2. call[c] \in CallRecord
    BY DEF TypeOK, Call
  <2>3. call'[c].pc = "tdStop" /\ call'[c].key = k /\ call'[c].id = b
    <3>1. ASSUME NEW r \in CallRecord, NEW s, s = [r EXCEPT !.pc = "tdStop", !.wait = {}]
          PROVE  s.pc = "tdStop" /\ s.key = r.key /\ s.id = r.id
      BY <3>1 DEF CallRecord
    <3> QED
      BY <2>1, <2>2, <3>1
  <2>4. ClearsGoOn
    BY <1>1, <2>1, <2>3 DEF ClearsGoOn, SameClear
  <2> QED
    BY <1>1, <1>6, <2>4, SameBenchSticks DEF ClearWaitEnds
<1>7. CASE ClearStopEnds(c)
  BY <1>1, <1>3, <1>4, <1>5, <1>7 DEF ClearStopEnds
<1>8. CASE ClearListEnds(c)
  BY <1>1, <1>5, <1>8 DEF ClearListEnds
<1>9. CASE ClearRemoveEnds(c)
  BY <1>1, <1>3, <1>5, <1>9 DEF ClearRemoveEnds
<1>10. CASE ClearBranchEnds(c)
  BY <1>3, <1>4, <1>10 DEF ClearBranchEnds
<1> QED
  BY <1>6, <1>7, <1>8, <1>9, <1>10 DEF ClearStep

\* A bench is reset only while no Clear of it runs.
LEMMA RetrySticks ==
    ASSUME TypeOK, OneKey, Overlapping, Clearing, NEW c \in Calls, RetryStep(c)
    PROVE  Sticks
<1> DEFINE k == call[c].key
           b == call[c].id
<1>1. /\ call[c].pc \in RetryPcs /\ call[c].pc \notin ClearPcs
      /\ UNCHANGED <<benches, contested>>
      /\ \A d \in Calls \ {c} : call'[d] = call[d]
  BY RetryStepEffect, Classes
     DEF RetryStep, RetryPcs, RetryStopEnds, RetryListEnds, RetryRemoveEnds, RetryResets, ghosts,
         Goto, Finish, TypeOK
<1>2. /\ k \in Keys /\ b \in Ids /\ AtRemoval(c)
      /\ call[c].pc \in Pcs \ (UnregPcs \cup {"done"})
  BY <1>1, RetryCall DEF AtRemoval, RetryPcs, UnregPcs, Pcs
<1>3. ClearsGoOn
  BY <1>1, NotAClear DEF OthersStay
<1>4. CASE UNCHANGED bench
  BY <1>1, <1>3, <1>4, SameBenchSticks
<1>5. CASE bench' = [bench EXCEPT ![b] = NewBench]
  <2>1. bench'[b] = NewBench /\ \A e \in Ids \ {b} : bench'[e] = bench[e]
    BY <1>2, <1>5 DEF TypeOK
  <2>2. NoneCleared
    BY <1>1, <2>1 DEF NoneCleared, NewBench, TypeOK
  <2>3. ASSUME NEW j \in Keys, Live(j), bench[benches[j]].status = "clearing"
        PROVE  j \in contested \/ bench'[benches[j]].status = "clearing"
    <3>1. CASE benches[j] # b
      BY <2>1, <2>3, <3>1 DEF Live, TypeOK
    <3>2. CASE benches[j] = b /\ j \notin contested
      <4>1. call[c].key = j
        BY <1>2, <3>2, OtherBenches
      <4>2. PICK x \in Calls : call[x].pc \in ClearPcs /\ call[x].key = j
        BY <2>3, <3>2 DEF Clearing
      <4>3. x = c
        BY <1>2, <3>2, <4>1, <4>2 DEF Overlapping, Removals, AtRemoval
      <4> QED
        BY <1>1, <4>2, <4>3
    <3> QED
      BY <3>1, <3>2
  <2> QED
    BY <1>1, <1>3, <2>2, <2>3 DEF Sticks, StaysCleared
<1> QED
  BY <1>4, <1>5 DEF RetryStep, RetryStopEnds, RetryListEnds, RetryRemoveEnds, RetryResets

LEMMA UnregisterSticks ==
    ASSUME TypeOK, NEW c \in Calls, UnregisterStep(c)
    PROVE  Sticks
<1>1. /\ call[c].pc \in UnregPcs /\ call[c].pc \notin ClearPcs /\ UNCHANGED <<bench, contested>>
      /\ \A d \in Calls \ {c} : call'[d] = call[d]
  BY Classes DEF UnregisterStep, UnregPcs, UnregisterWaitEnds, UnregisterStopEnds,
     UnregisterRemoves, UnregisterDone, Goto, Finish, TypeOK
<1>2. \A k \in Keys : benches'[k] = None \/ benches'[k] = benches[k]
  BY DEF UnregisterStep, UnregisterWaitEnds, UnregisterStopEnds, UnregisterRemoves, UnregisterDone
<1>3. ClearsGoOn
  BY <1>1, NotAClear DEF OthersStay
<1> QED
  BY <1>1, <1>2, <1>3, SameBenchSticks

\* A call that begins was no Clear before.
LEMMA BegunClears ==
    ASSUME TypeOK, NEW c \in Calls, NEW r \in Call, NEW cs, Begins(c, r, cs)
    PROVE  ClearsGoOn
<1>1. call[c].pc \notin ClearPcs
  BY DEF Begins, FreeCall, ClearPcs
<1>2. OthersStay(c)
  BY AbortedCalls DEF OthersStay
<1> QED
  BY <1>1, <1>2, NotAClear

LEMMA ProjectRequestsStick ==
    ASSUME TypeOK, NEW p \in Projects,
           CreateBench(p) \/ UnregisterEmpty(p) \/ ForceUnregister(p)
    PROVE  Sticks
<1>1. CASE UnregisterEmpty(p)
  BY <1>1, SameBenchSticks DEF UnregisterEmpty, ghosts, ClearsGoOn, SameClear
<1>2. CASE ForceUnregister(p)
  <2>1. PICK c \in Calls, r \in Call : \E cs : Begins(c, r, cs)
    BY <1>2, UnregisterBegins
  <2>2. ClearsGoOn
    BY <2>1, BegunClears
  <2> QED
    BY <1>2, <2>2, SameBenchSticks DEF ForceUnregister, ghosts
<1>3. CASE CreateBench(p)
  <2>1. PICK n \in 1..MaxBenches, b \in Ids, c \in Calls :
          /\ FreeId(b) /\ FreeCall(c)
          /\ benches' = [benches EXCEPT ![<<p, n>>] = b]
          /\ bench' = [bench EXCEPT ![b] = NewBench]
          /\ call' = [call EXCEPT ![c] = [NoCall EXCEPT !.pc = "resolve", !.key = <<p, n>>,
                                                        !.id = b, !.creates = TRUE]]
    BY <1>3 DEF CreateBench
  <2> DEFINE k == <<p, n>>
  <2>2. k \in Keys /\ UNCHANGED contested
    BY <1>3 DEF Keys, CreateBench
  <2>3. ClearsGoOn
    BY <2>1, NotAClear DEF OthersStay, FreeCall, ClearPcs, TypeOK
  <2>4. benches' = [benches EXCEPT ![k] = b]
    BY <2>1
  <2> HIDE DEF k
  <2>5. /\ benches'[k] = b /\ bench'[b].status = "preparing"
        /\ \A j \in Keys \ {k} : benches'[j] = benches[j]
        /\ \A e \in Ids \ {b} : bench'[e] = bench[e]
        /\ \A j \in Keys : benches[j] # b
    BY <2>1, <2>2, <2>4 DEF TypeOK, NewBench, FreeId
  <2>6. NoneCleared
    <3> SUFFICES ASSUME NEW j \in Keys, benches'[j] # None, bench'[benches'[j]].status = "clearing"
                 PROVE  benches'[j] = benches[j] /\ bench[benches[j]].status = "clearing"
      BY DEF NoneCleared
    <3>1. j # k
      BY <2>5
    <3>2. benches'[j] = benches[j] /\ benches[j] \in Ids \ {b}
      BY <2>5, <3>1 DEF TypeOK
    <3> QED
      BY <2>5, <3>2
  <2>7. \A j \in Keys : StaysCleared(j)
    BY <2>5 DEF StaysCleared, Live, TypeOK
  <2> QED
    BY <2>2, <2>3, <2>6, <2>7 DEF Sticks
<1> QED
  BY <1>1, <1>2, <1>3

LEMMA PollsStick ==
    ASSUME TypeOK, OneKey, NEW k \in Keys,
           UpdateBenchStatus(k) \/ Reconcile(k) \/ SweepList(k) \/ SweepRemove(k)
    PROVE  Sticks
<1>1. UNCHANGED <<call, benches, contested>> /\ ClearsGoOn
  BY DEF UpdateBenchStatus, Reconcile, SweepList, SweepRemove, ghosts, ClearsGoOn, SameClear
<1>2. CASE UpdateBenchStatus(k)
  <2>1. PICK s \in {"idle", "error"} : bench' = [bench EXCEPT ![benches[k]].status = s]
    BY <1>2 DEF UpdateBenchStatus
  <2>2. benches[k] \in Ids /\ bench[benches[k]].status # "clearing"
    BY <1>2 DEF UpdateBenchStatus, Live, TypeOK
  <2>3. /\ bench'[benches[k]].status = s
        /\ \A e \in Ids \ {benches[k]} : bench'[e] = bench[e]
    BY <2>1, <2>2 DEF TypeOK, Bench
  <2>4. NoneCleared /\ \A j \in Keys : StaysCleared(j)
    BY <1>1, <2>2, <2>3 DEF NoneCleared, StaysCleared, Live, TypeOK
  <2> QED
    BY <1>1, <2>4 DEF Sticks
<1>3. CASE Reconcile(k)
  <2>1. boot'[k] # boot[k]
    BY <1>3 DEF Reconcile, TypeOK
  <2>2. /\ \A e \in Ids \ {benches[k]} : bench'[e] = bench[e]
        /\ \A e \in Ids : bench'[e].status = "clearing" => bench[e].status = "clearing"
    BY <1>3 DEF Reconcile, TypeOK, Bench
  <2>3. NoneCleared
    BY <1>1, <2>2 DEF NoneCleared, TypeOK
  <2>4. ASSUME NEW j \in Keys \ {k}, Live(j), bench[benches[j]].status = "clearing"
        PROVE  bench'[benches[j]].status = "clearing"
    <3>1. benches[j] \in Ids /\ benches[j] # benches[k]
      BY <2>4 DEF OneKey, Refs, Live, TypeOK
    <3> QED
      BY <2>2, <2>4, <3>1
  <2> QED
    BY <1>1, <2>1, <2>3, <2>4 DEF Sticks, StaysCleared
<1>4. CASE SweepList(k) \/ SweepRemove(k)
  BY <1>1, <1>4, SameBenchSticks DEF SweepList, SweepRemove
<1> QED
  BY <1>2, <1>3, <1>4

LEMMA CleanupAndRetrySticks ==
    ASSUME TypeOK, NEW k \in Keys, CleanupAndRetry(k)
    PROVE  Sticks
<1>1. PICK c \in Calls :
        /\ FreeCall(c)
        /\ call' = [call EXCEPT ![c] = [NoCall EXCEPT !.pc = "rtStop", !.key = k, !.id = benches[k]]]
  BY DEF CleanupAndRetry
<1>2. ClearsGoOn
  BY <1>1, NotAClear DEF OthersStay, FreeCall, ClearPcs, TypeOK
<1> QED
  BY <1>2, SameBenchSticks DEF CleanupAndRetry

\* A Clear begins with its call.
LEMMA TeardownClears ==
    ASSUME TypeOK, OneKey, Clearing, NEW k \in Keys, NEW keep \in BOOLEAN, TeardownBench(k, keep)
    PROVE  Clearing' /\ \A j \in Keys : StaysCleared(j)
<1> DEFINE b == benches[k]
<1>1. PICK c \in Calls, r \in Call :
        /\ Begins(c, r, {round[k]})
        /\ r.pc = "tdWait" /\ r.key = k /\ r.id = b
  BY TeardownBegins
<1>2. /\ call'[c].pc = "tdWait" /\ call'[c].key = k /\ call'[c].id = b
      /\ \A d \in Calls \ {c} :
           call'[d].pc = call[d].pc /\ call'[d].key = call[d].key /\ call'[d].id = call[d].id
  BY <1>1, AbortedCalls
<1>3. /\ b \in Ids /\ UNCHANGED benches /\ contested \subseteq contested'
      /\ bench' = [bench EXCEPT ![b].status = "clearing", ![b].steps = "active"]
  BY DEF TeardownBench, TypeOK, Live
<1>4. call[c].pc \notin ClearPcs /\ call'[c].pc \in ClearPcs
  BY <1>1, <1>2 DEF Begins, FreeCall, ClearPcs
<1>5. bench'[b].status = "clearing" /\ \A e \in Ids \ {b} : bench'[e] = bench[e]
  <2> HIDE DEF b
  <2> QED
    BY <1>3 DEF TypeOK, Bench
<1>6. \A j \in Keys : StaysCleared(j)
  BY <1>5 DEF StaysCleared, Live, TypeOK
<1>7. Clearing'
  <2> SUFFICES ASSUME NEW j \in Keys, benches[j] # None, bench'[benches[j]].status = "clearing"
               PROVE  \/ j \in contested'
                      \/ \E d \in Calls : /\ call'[d].pc \in ClearPcs /\ call'[d].key = j
                                          /\ call'[d].id = benches[j]
    BY <1>3 DEF Clearing, Live
  <2>1. CASE j = k
    BY <1>2, <1>4, <2>1
  <2>2. CASE j # k
    <3>1. benches[j] \in Ids /\ benches[j] # b
      BY <1>3, <2>2 DEF OneKey, Refs, TypeOK
    <3>2. bench[benches[j]].status = "clearing"
      BY <1>5, <3>1
    <3> QED
      BY <1>2, <1>3, <1>4, <3>2 DEF Clearing, Live
  <2> QED
    BY <2>1, <2>2
<1> QED
  BY <1>6, <1>7

LEMMA RestartClears ==
    ASSUME TypeOK, Restart
    PROVE  Clearing' /\ \A k \in Keys : StaysCleared(k)
<1>1. \A k \in Keys : boot'[k] = "hydrated" /\ benches'[k] = recorded[k]
  BY DEF Restart
<1>2. \A b \in Ids : bench'[b].status = "idle"
  BY DEF Restart, NewBench
<1> QED
  BY <1>1, <1>2 DEF StaysCleared, Clearing, Live, TypeOK

LEMMA ClearingStep ==
    ASSUME "start" \notin Operations, TypeOK, OneKey, Overlapping, Clearing, [Next]_vars
    PROVE  Clearing' /\ \A k \in Keys : StaysCleared(k)
<1>1. ASSUME Sticks
      PROVE  Clearing' /\ \A k \in Keys : StaysCleared(k)
  BY <1>1, ClearingKept DEF Sticks
<1>2. CASE UNCHANGED vars
  BY <1>1, <1>2, SameBenchSticks DEF vars, ClearsGoOn, SameClear
<1>3. ASSUME NEW p \in Projects, CreateBench(p) \/ UnregisterEmpty(p) \/ ForceUnregister(p)
      PROVE  Sticks
  BY <1>3, ProjectRequestsStick
<1>4. ASSUME NEW k \in Keys,
             \/ StartAll(k) \/ UpdateBenchStatus(k) \/ CleanupAndRetry(k)
             \/ \E keep \in BOOLEAN : TeardownBench(k, keep)
             \/ Reconcile(k) \/ SweepList(k) \/ SweepRemove(k)
      PROVE  Clearing' /\ \A j \in Keys : StaysCleared(j)
  <2>1. ~StartAll(k)
    BY DEF StartAll
  <2> QED
    BY <1>1, <1>4, <2>1, PollsStick, CleanupAndRetrySticks, TeardownClears
<1>5. ASSUME NEW c \in Calls, CallStep(c)
      PROVE  Sticks
  BY <1>5, RoundSticks, LateSticks, ClearSticks, RetrySticks, UnregisterSticks DEF CallStep
<1>6. CASE Restart
  BY <1>6, RestartClears
<1> QED
  BY <1>1, <1>2, <1>3, <1>4, <1>5, <1>6 DEF Next

\* As long as nobody starts the components of a bench by hand, a bench being cleared leaves
\* that status only by going away, by its Clear failing, by a restart, or by the setup or
\* the launch of its creation: the Clear has aborted the round, and no Cleanup & Retry
\* resets the bench beside it.
THEOREM ClearingSticks == ASSUME "start" \notin Operations PROVE Spec => ClearingIsSticky
<1>1. Init => Clearing
  BY DEF Init, Clearing, Live
<1>2. TypeOK /\ Truthful /\ Overlapping /\ Clearing /\ [Next]_vars
      => Clearing' /\ \A k \in Keys : StaysCleared(k)
  BY ClearingStep DEF Truthful
<1>3. (\A k \in Keys : StaysCleared(k))
      => [\A k \in Keys :
            Live(k) /\ bench[benches[k]].status = "clearing"
            => LET r == bench'[benches[k]] IN
               \/ benches'[k] = None
               \/ r.status = "clearing"
               \/ r.status = "error" /\ r.steps = "failed"
               \/ boot'[k] # boot[k] \/ boot'[k] = "hydrated"
               \/ On(k, {"setup", "launch"}) # {}
               \/ k \in contested']_vars
  BY DEF StaysCleared
<1> QED
  BY <1>1, <1>2, <1>3, TypeCorrect, TruthfulAlways, OverlappingAlways, PTL
     DEF Spec, ClearingIsSticky

-----------------------------------------------------------------------------
(* Worktrees: what the calls in flight know of the worktree of a live bench. Not across *)
(* a restart: the startup sweep can remove a worktree that was added since its list.    *)

Sought(k) == Live(k) /\ k \notin Excused /\ ~Unregistering(k[1])
Fits(r)   == ~r.err /\ r.steps = "none"
Clears(r) == r.status = "clearing" => r.steps # "none"

Retries(c) == call[c].pc \in RetryPcs
Adds(c)    == call[c].pc \in {"inspect", "submodules"}
Fails(c)   == call[c].pc \in {"failList", "failRemove"} \/ Retries(c)
Aborts(c)  == AtRound(c) /\ call[c].aborted
Works(c, k) == (AtRound(c) \/ AtRemoval(c)) /\ call[c].key = k
Working(k) == \E c \in Calls : Works(c, k)

\* A bench that no failure and no Clear has marked has its worktree, unless a round or a
\* removal is at work on it; a round has the worktree it has added; and what a failed or
\* aborted round and a Cleanup & Retry work on is marked.
Housed(k) == Sought(k) =>
    /\ Fits(bench[benches[k]]) /\ ~Working(k) => disk[k] = "tracked"
    /\ Clears(bench[benches[k]])
    /\ \A c \in Calls : call[c].key = k /\ call[c].id = benches[k] =>
         /\ Adds(c) => disk[k] = "tracked"
         /\ Fails(c) \/ Aborts(c) => ~Fits(bench[benches[k]])

\* workspaceReady names rounds on its own key only, so that no other call is aborted.
Marked == /\ \A k \in Keys, d \in Calls : round[k] = d => AtRound(d) /\ call[d].key = k
          /\ \A c \in Calls : Retries(c) => ~call[c].aborted

Booted == \A k \in Keys : boot[k] = "done"

Worktrees == Marked /\ Booted /\ \A k \in Keys : Housed(k)

-----------------------------------------------------------------------------
(* What a step leaves of a key it is not about *)

\* The bench is no less marked than before.
MarksKept(b) ==
    /\ Fits(bench'[b]) => Fits(bench[b])
    /\ Clears(bench[b]) => Clears(bench'[b])

\* The worktree is left alone, and the calls at work on it do the same as before.
Beside(k) ==
    /\ k \in Excused => k \in Excused'
    /\ benches'[k] = benches[k] \/ benches'[k] = None
    /\ disk'[k] = disk[k]
    /\ Live(k) => MarksKept(benches[k])
    /\ Working(k) => Working(k)'
    /\ Unregistering(k[1]) => Unregistering(k[1])' \/ benches'[k] = None
    /\ \A c \in Calls : call'[c].key = k /\ (AtRound(c)' \/ Retries(c)') =>
         /\ call[c].key = k /\ call'[c].id = call[c].id
         /\ Adds(c)' => Adds(c)
         /\ Fails(c)' => Fails(c)
         /\ Aborts(c)' => Aborts(c)

LEMMA BesideHoused ==
    ASSUME NEW k \in Keys, Housed(k), Beside(k)
    PROVE  Housed(k)'
<1> SUFFICES ASSUME Sought(k)'
             PROVE  /\ Fits(bench'[benches'[k]]) /\ ~Working(k)' => disk'[k] = "tracked"
                    /\ Clears(bench'[benches'[k]])
                    /\ \A c \in Calls : call'[c].key = k /\ call'[c].id = benches'[k] =>
                         /\ Adds(c)' => disk'[k] = "tracked"
                         /\ Fails(c)' \/ Aborts(c)' => ~Fits(bench'[benches'[k]])
  BY DEF Housed
<1>1. benches'[k] = benches[k] /\ Sought(k)
  BY DEF Beside, Sought, Live
<1>2. /\ Fits(bench'[benches[k]]) => Fits(bench[benches[k]])
      /\ Clears(bench[benches[k]]) => Clears(bench'[benches[k]])
  BY <1>1 DEF Beside, Sought, MarksKept
<1>3. ASSUME NEW c \in Calls, call'[c].key = k, call'[c].id = benches'[k],
             Adds(c)' \/ Fails(c)' \/ Aborts(c)'
      PROVE  /\ Adds(c)' => disk'[k] = "tracked"
             /\ Fails(c)' \/ Aborts(c)' => ~Fits(bench'[benches'[k]])
  <2>1. AtRound(c)' \/ Retries(c)'
    BY <1>3 DEF Adds, Fails, Aborts, AtRound, RoundPcs
  <2> QED
    BY <1>1, <1>2, <1>3, <2>1 DEF Beside, Housed
<1> QED
  BY <1>1, <1>2, <1>3 DEF Beside, Housed

\* A call that a step of another leaves to its work.
SameWork(d) == /\ call'[d].pc = call[d].pc /\ call'[d].key = call[d].key
               /\ call'[d].id = call[d].id /\ call'[d].aborted = call[d].aborted

\* Call c is at no work on k, neither before nor after the step.
Away(c, k) == ~Works(c, k) /\ ~Works(c, k)'

\* An unregister goes on, or drops the benches of its project.
StaysUnregistering(c, k) == call[c].pc \in UnregPcs /\ call[c].key[1] = k[1] =>
    (call'[c].pc \in UnregPcs /\ call'[c].key = call[c].key) \/ benches'[k] = None

LEMMA AwayBeside ==
    ASSUME NEW c \in Calls, NEW k \in Keys, \A d \in Calls \ {c} : SameWork(d),
           Away(c, k), StaysUnregistering(c, k),
           k \in Excused => k \in Excused',
           benches'[k] = benches[k] \/ benches'[k] = None,
           disk'[k] = disk[k], Live(k) => MarksKept(benches[k])
    PROVE  Beside(k)
<1>1. \A d \in Calls \ {c} : /\ Works(d, k) <=> Works(d, k)'
                             /\ Adds(d)' <=> Adds(d)
                             /\ Fails(d)' <=> Fails(d)
                             /\ Aborts(d)' <=> Aborts(d)
  BY DEF SameWork, Works, AtRound, AtRemoval, Adds, Fails, Retries, Aborts
<1>2. Working(k) => Working(k)'
  BY <1>1 DEF Working, Away
<1>3. Unregistering(k[1]) => Unregistering(k[1])' \/ benches'[k] = None
  <2> SUFFICES ASSUME NEW d \in Calls, call[d].pc \in UnregPcs, call[d].key[1] = k[1]
               PROVE  Unregistering(k[1])' \/ benches'[k] = None
    BY DEF Unregistering
  <2> QED
    BY DEF Unregistering, StaysUnregistering, SameWork
<1>4. ASSUME NEW d \in Calls, call'[d].key = k, AtRound(d)' \/ Retries(d)'
      PROVE  d # c /\ call[d].key = k /\ call'[d].id = call[d].id
  <2>1. Works(d, k)'
    BY <1>4 DEF Works, AtRemoval, Retries
  <2> QED
    BY <1>4, <2>1 DEF Away, SameWork
<1> QED
  BY <1>1, <1>2, <1>3, <1>4 DEF Beside

\* Nothing but a call that is at no work on any key.
LEMMA QuietHoused ==
    ASSUME \A k \in Keys : Housed(k), NEW c \in Calls, \A d \in Calls \ {c} : SameWork(d),
           \A k \in Keys : Away(c, k) /\ StaysUnregistering(c, k),
           Excused \subseteq Excused', UNCHANGED <<benches, disk>>,
           \A k \in Keys : Live(k) => MarksKept(benches[k])
    PROVE  \A k \in Keys : Housed(k)'
BY AwayBeside, BesideHoused

LEMMA SameMarks ==
    ASSUME UNCHANGED bench
    PROVE  \A k \in Keys : Live(k) => MarksKept(benches[k])
BY DEF MarksKept

\* Rounds stay where their key names them, or are forgotten there.
LEMMA MarkedBy ==
    ASSUME TypeOK', Marked,
           \A k \in Keys, d \in Calls : round'[k] = d =>
               \/ AtRound(d)' /\ call'[d].key = k
               \/ round[k] = d /\ SameWork(d),
           \A c \in Calls : Retries(c)' => ~call'[c].aborted \/ SameWork(c)
    PROVE  Marked'
<1>1. ASSUME NEW k \in Keys, NEW d \in Calls, round'[k] = d
      PROVE  AtRound(d)' /\ call'[d].key = k
  <2>1. CASE round[k] = d /\ SameWork(d)
    BY <2>1, Parameters DEF Marked, SameWork, AtRound
  <2> QED
    BY <1>1, <2>1
<1>2. ASSUME NEW c \in Calls, Retries(c)'
      PROVE  ~call'[c].aborted
  BY <1>2 DEF Marked, SameWork, Retries
<1> QED
  BY <1>1, <1>2 DEF Marked, TypeOK

\* A step of a call that is no round and begins no round.
LEMMA MarkedByOne ==
    ASSUME TypeOK', Marked, NEW c \in Calls, \A d \in Calls \ {c} : SameWork(d), ~AtRound(c),
           Retries(c)' => ~call'[c].aborted,
           \A k \in Keys : round'[k] = None \/ round'[k] = round[k]
    PROVE  Marked'
<1>1. ASSUME NEW k \in Keys, NEW d \in Calls, round'[k] = d
      PROVE  round[k] = d /\ SameWork(d)
  <2>1. round[k] = d
    BY <1>1, Parameters
  <2>2. d # c
    BY <2>1, Parameters DEF Marked
  <2> QED
    BY <2>1, <2>2
<1> QED
  BY <1>1, MarkedBy

-----------------------------------------------------------------------------
(* Rounds *)

\* A round goes on: to the removal of a failure when its bench is marked, past `git worktree
\* add` when the worktree is there.
RoundGoes(c) == LET k == call[c].key
                    b == call[c].id
                IN
    \E pc \in RoundPcs :
        /\ Goto(c, pc) /\ UNCHANGED round
        /\ \/ pc \notin {"inspect", "submodules", "failList", "failRemove"} /\ UNCHANGED bench
           \/ pc = "inspect" /\ disk'[k] = "tracked" /\ UNCHANGED bench
           \/ pc = "submodules" /\ call[c].pc = "inspect" /\ UNCHANGED <<bench, disk>>
           \/ pc = "failRemove" /\ call[c].pc = "failList" /\ UNCHANGED bench
           \/ /\ pc = "failList"
              /\ \E r \in Bench : /\ bench' = [bench EXCEPT ![b] = r]
                                  /\ r.err /\ r.steps = bench[b].steps /\ r.status = "error"

\* Why a round may end without marking its bench.
Leaves(c) ==
    \/ call[c].aborted \/ ~Live(call[c].key)
    \/ bench[call[c].id].status = "clearing"
    \/ call[c].pc \in {"failList", "failRemove"}
    \/ Adds(c) /\ UNCHANGED disk

RoundStops(c) == LET b == call[c].id IN
    \E r \in Bench :
        /\ EndRound(c, r)
        /\ r.steps = bench[b].steps
        /\ r.status = "clearing" => bench[b].status = "clearing"
        /\ r.err \/ (r.err = bench[b].err /\ Leaves(c))

RoundFate(c) == RoundGoes(c) \/ RoundStops(c)

LEMMA LeavingStops ==
    ASSUME TypeOK, NEW c \in Calls, call[c].pc \in RoundPcs, EndRound(c, bench[call[c].id]),
           Leaves(c)
    PROVE  RoundFate(c)
<1>1. bench[call[c].id] \in Bench
  BY RoundCall
<1> QED
  BY <1>1 DEF RoundFate, RoundStops

LEMMA PlainGoes ==
    ASSUME NEW c \in Calls, NEW pc \in RoundPcs, Goto(c, pc), UNCHANGED <<round, bench>>,
           \/ pc \notin {"inspect", "submodules", "failList", "failRemove"}
           \/ pc = "inspect" /\ disk'[call[c].key] = "tracked"
           \/ pc = "submodules" /\ call[c].pc = "inspect" /\ UNCHANGED disk
           \/ pc = "failRemove" /\ call[c].pc = "failList"
    PROVE  RoundFate(c)
BY DEF RoundFate, RoundGoes

LEMMA FailRoundFate ==
    ASSUME TypeOK, NEW c \in Calls, call[c].pc \in RoundPcs, FailRound(c)
    PROVE  RoundFate(c)
<1> DEFINE k == call[c].key
           b == call[c].id
           r == [bench[b] EXCEPT !.status = "error", !.err = TRUE]
<1>1. k \in Keys /\ b \in Ids /\ bench[b] \in Bench
  BY RoundCall
<1>2. r \in Bench /\ r.err /\ r.steps = bench[b].steps /\ r.status = "error"
  BY <1>1 DEF Bench, Status
<1>3. CASE call[c].aborted
  BY <1>3, LeavingStops DEF FailRound, Leaves
<1>4. CASE ~call[c].aborted /\ HasDir(k)
  <2>1. bench' = [bench EXCEPT ![b] = r] /\ Goto(c, "failList") /\ UNCHANGED round
    BY <1>4 DEF FailRound
  <2>2. "failList" \in RoundPcs
    BY DEF RoundPcs
  <2> HIDE DEF r
  <2> QED
    BY <1>2, <2>1, <2>2 DEF RoundFate, RoundGoes
<1>5. CASE ~call[c].aborted /\ ~HasDir(k)
  <2>1. EndRound(c, r)
    BY <1>5 DEF FailRound
  <2> HIDE DEF r
  <2> QED
    BY <1>2, <2>1 DEF RoundFate, RoundStops
<1> QED
  BY <1>3, <1>4, <1>5

LEMMA RecordBenchFate ==
    ASSUME TypeOK, NEW c \in Calls, Adds(c), RecordBench(c), UNCHANGED disk
    PROVE  RoundFate(c)
<1> DEFINE b == call[c].id
           r == [bench[b] EXCEPT !.status = "idle"]
<1>1. call[c].pc \in RoundPcs
  BY DEF Adds, RoundPcs
<1>2. b \in Ids /\ bench[b] \in Bench
  BY <1>1, RoundCall
<1>3. CASE Stopped(c)
  BY <1>1, <1>3, LeavingStops DEF RecordBench, Stopped, Leaves
<1>4. CASE ~Stopped(c)
  <2>1. EndRound(c, r)
    BY <1>4 DEF RecordBench
  <2>2. /\ r \in Bench /\ r.steps = bench[b].steps /\ r.err = bench[b].err
        /\ r.status = "idle"
    BY <1>2 DEF Bench, Status
  <2> HIDE DEF r
  <2> QED
    BY <2>1, <2>2 DEF RoundFate, RoundStops, Leaves
<1> QED
  BY <1>3, <1>4

LEMMA RoundFates ==
    ASSUME TypeOK, NEW c \in Calls, RoundStep(c)
    PROVE  RoundFate(c)
<1>1. /\ call[c].pc \in RoundPcs
      /\ {"fetch", "pull", "preList", "preRemove", "add", "inspect", "submodules",
          "failRemove"} \subseteq RoundPcs
      /\ call[c].key \in Keys
  <2>1. call[c].pc \in RoundPcs
    BY RoundStepMoves
  <2> QED
    BY <2>1, RoundCall DEF RoundPcs
<1> USE <1>1
<1>2. BeforeAdd(c) => RoundFate(c)
  BY LeavingStops, PlainGoes DEF BeforeAdd, Stopped, Leaves
<1>3. EnterAdd(c) => RoundFate(c)
  BY LeavingStops, PlainGoes DEF EnterAdd, Leaves
<1>4. CASE ResolveEnds(c)
  BY <1>2, <1>4, FailRoundFate, LeavingStops, PlainGoes DEF ResolveEnds, Stopped, Leaves
<1>5. CASE FetchEnds(c)
  BY <1>5, FailRoundFate, PlainGoes DEF FetchEnds
<1>6. CASE PullEnds(c)
  BY <1>2, <1>6, FailRoundFate DEF PullEnds
<1>7. CASE PreListEnds(c)
  BY <1>3, <1>7, PlainGoes DEF PreListEnds
<1>8. CASE PreRemoveEnds(c)
  BY <1>3, <1>8 DEF PreRemoveEnds
<1>9. CASE AddEnds(c)
  <2>1. SetDisk(call[c].key, "tracked") => disk'[call[c].key] = "tracked"
    BY DEF SetDisk, TypeOK
  <2> QED
    BY <1>9, <2>1, FailRoundFate, LeavingStops, PlainGoes DEF AddEnds, Stopped, Leaves
<1>10. CASE InspectEnds(c)
  BY <1>10, FailRoundFate, RecordBenchFate, PlainGoes DEF InspectEnds, Adds
<1>11. CASE SubmodulesEnd(c)
  BY <1>11, RecordBenchFate DEF SubmodulesEnd, Adds
<1>12. CASE FailListEnds(c)
  BY <1>12, LeavingStops, PlainGoes DEF FailListEnds, EndFailed, Leaves
<1>13. CASE FailRemoveEnds(c)
  BY <1>13, LeavingStops DEF FailRemoveEnds, EndFailed, Leaves
<1> QED
  BY <1>4, <1>5, <1>6, <1>7, <1>8, <1>9, <1>10, <1>11, <1>12, <1>13 DEF RoundStep

LEMMA OthersSame ==
    ASSUME NEW c \in Calls, \A d \in Calls \ {c} : call'[d] = call[d]
    PROVE  \A d \in Calls \ {c} : SameWork(d)
BY DEF SameWork

LEMMA GotoWork ==
    ASSUME TypeOK, NEW c \in Calls, NEW pc, Goto(c, pc)
    PROVE  /\ \A d \in Calls \ {c} : SameWork(d)
           /\ call'[c].pc = pc /\ call'[c].key = call[c].key /\ call'[c].id = call[c].id
           /\ call'[c].aborted = call[c].aborted
<1>1. call'[c] = [call[c] EXCEPT !.pc = pc] /\ \A d \in Calls \ {c} : call'[d] = call[d]
  BY DEF Goto, TypeOK
<1>2. call[c] \in CallRecord
  BY DEF TypeOK, Call
<1> QED
  BY <1>1, <1>2, OthersSame DEF CallRecord

LEMMA EndRoundWork ==
    ASSUME TypeOK, NEW c \in Calls, NEW r \in Bench, call[c].pc \in RoundPcs, EndRound(c, r)
    PROVE  /\ \A d \in Calls \ {c} : SameWork(d)
           /\ call'[c].pc \in Others
           /\ \A e \in Ids \ {call[c].id} : bench'[e] = bench[e]
           /\ bench'[call[c].id].err = r.err /\ bench'[call[c].id].steps = r.steps
           /\ bench'[call[c].id].status = "clearing" => r.status = "clearing"
           /\ \A k \in Keys \ {call[c].key} : round'[k] = round[k]
           /\ round'[call[c].key] # c
<1>1. call[c].key \in Keys /\ call[c].id \in Ids
  BY RoundCall
<1>2. \A d \in Calls \ {c} : call'[d] = [call[d] EXCEPT !.wait = @ \ {c}]
  BY DEF EndRound
<1>3. ASSUME NEW d \in Calls \ {c}
      PROVE  SameWork(d)
  <2>1. call'[d] = [call[d] EXCEPT !.wait = @ \ {c}] /\ call[d] \in CallRecord
    BY <1>2 DEF TypeOK, Call
  <2> QED
    BY <2>1 DEF CallRecord, SameWork
<1>4. call'[c].pc \in {NoCall.pc, FirstStep(r)}
  BY DEF EndRound, NoCall
<1>5. bench' = [bench EXCEPT ![call[c].id] = r]
      \/ bench' = [bench EXCEPT ![call[c].id] = [r EXCEPT !.status = "preparing"]]
  BY DEF EndRound
<1>6. /\ [r EXCEPT !.status = "preparing"].err = r.err
      /\ [r EXCEPT !.status = "preparing"].steps = r.steps
      /\ [r EXCEPT !.status = "preparing"].status = "preparing"
  BY DEF Bench
<1>7. /\ \A e \in Ids \ {call[c].id} : bench'[e] = bench[e]
      /\ bench'[call[c].id] \in {r, [r EXCEPT !.status = "preparing"]}
  BY <1>1, <1>5 DEF TypeOK
<1>8. /\ \A k \in Keys \ {call[c].key} : round'[k] = round[k]
      /\ round'[call[c].key] # c
  BY <1>1, Parameters DEF EndRound, DropRound, TypeOK
<1> QED
  BY <1>3, <1>4, <1>6, <1>7, <1>8 DEF NoCall, FirstStep, Others

LEMMA RoundFrame ==
    ASSUME TypeOK, NEW c \in Calls, RoundStep(c)
    PROVE  /\ \A d \in Calls \ {c} : SameWork(d)
           /\ UNCHANGED <<registered, benches, ghosts>>
           /\ \A j \in Keys \ {call[c].key} : disk'[j] = disk[j]
           /\ \A e \in Ids \ {call[c].id} : bench'[e] = bench[e]
           /\ Booted => Booted'
<1>1. call[c].pc \in RoundPcs /\ RoundFate(c)
  BY RoundStepMoves, RoundFates
<1>2. call[c].key \in Keys /\ call[c].id \in Ids
  BY <1>1, RoundCall
<1>3. (\A d \in Calls \ {c} : SameWork(d)) /\ (\A e \in Ids \ {call[c].id} : bench'[e] = bench[e])
  <2>1. CASE RoundGoes(c)
    BY <1>2, <2>1, GotoWork DEF RoundGoes, TypeOK
  <2>2. CASE RoundStops(c)
    BY <1>1, <2>2, EndRoundWork DEF RoundStops
  <2> QED
    BY <1>1, <2>1, <2>2 DEF RoundFate
<1>4. UNCHANGED <<registered, benches, ghosts>>
  BY DEF RoundStep, ResolveEnds, FetchEnds, PullEnds, PreListEnds, PreRemoveEnds,
         AddEnds, InspectEnds, SubmodulesEnd, FailListEnds, FailRemoveEnds
<1>5. UNCHANGED disk \/ \E d : SetDisk(call[c].key, d)
  BY DEF RoundStep, ResolveEnds, FetchEnds, PullEnds, PreListEnds, PreRemoveEnds,
         AddEnds, InspectEnds, SubmodulesEnd, FailListEnds, FailRemoveEnds
<1>6. UNCHANGED boot
      \/ boot' = [boot EXCEPT ![call[c].key] = IF @ = "hydrated" THEN "readded" ELSE @]
  BY DEF RoundStep, ResolveEnds, FetchEnds, PullEnds, PreListEnds, PreRemoveEnds,
         AddEnds, InspectEnds, SubmodulesEnd, FailListEnds, FailRemoveEnds
<1>7. Booted => Booted'
  BY <1>2, <1>6 DEF Booted, TypeOK
<1> QED
  BY <1>2, <1>3, <1>4, <1>5, <1>7 DEF SetDisk, TypeOK

LEMMA RoundMarked ==
    ASSUME TypeOK, TypeOK', Marked, NEW c \in Calls, RoundStep(c)
    PROVE  Marked'
<1>1. call[c].pc \in RoundPcs /\ RoundFate(c) /\ \A d \in Calls \ {c} : SameWork(d)
  BY RoundStepMoves, RoundFates, RoundFrame
<1>2. CASE RoundGoes(c)
  <2>1. PICK pc \in RoundPcs : Goto(c, pc) /\ UNCHANGED round
    BY <1>2 DEF RoundGoes
  <2>2. call'[c].pc \in RoundPcs /\ call'[c].key = call[c].key
    BY <2>1, GotoWork
  <2>3. AtRound(c)' /\ ~Retries(c)'
    BY <2>2, Classes DEF AtRound, Retries
  <2>4. \A k \in Keys, d \in Calls : round'[k] = d =>
          (AtRound(d)' /\ call'[d].key = k) \/ (round[k] = d /\ SameWork(d))
    BY <1>1, <2>1, <2>2, <2>3 DEF Marked
  <2> QED
    BY <1>1, <2>3, <2>4, MarkedBy
<1>3. CASE RoundStops(c)
  <2>1. PICK r \in Bench : EndRound(c, r)
    BY <1>3 DEF RoundStops
  <2>2. /\ call'[c].pc \in Others
        /\ \A k \in Keys \ {call[c].key} : round'[k] = round[k]
        /\ round'[call[c].key] # c
    BY <1>1, <2>1, EndRoundWork
  <2>3. ~Retries(c)'
    BY <2>2, Classes DEF Retries
  <2>4. ASSUME NEW k \in Keys, NEW d \in Calls, round'[k] = d
        PROVE  round[k] = d /\ d # c
    <3>1. d # None
      BY Parameters
    <3>2. round[k] = d
      BY <2>1, <2>4, <3>1, <1>1, RoundCall DEF EndRound, DropRound, TypeOK
    <3> QED
      BY <2>2, <2>4, <3>2 DEF Marked
  <2> QED
    BY <1>1, <2>3, <2>4, MarkedBy
<1> QED
  BY <1>1, <1>2, <1>3 DEF RoundFate

LEMMA RoundHoused ==
    ASSUME TypeOK, OneKey, Overlapping, Followed, \A k \in Keys : Housed(k), NEW c \in Calls,
           RoundStep(c)
    PROVE  \A k \in Keys : Housed(k)'
<1>0. PICK k \in Keys, b \in Ids : k = call[c].key /\ b = call[c].id
  BY RoundStepMoves, RoundCall
<1>1. /\ \A d \in Calls \ {c} : SameWork(d)
      /\ UNCHANGED <<benches, contested, overran>>
      /\ \A j \in Keys \ {k} : disk'[j] = disk[j]
      /\ \A e \in Ids \ {b} : bench'[e] = bench[e]
  BY <1>0, RoundFrame DEF ghosts
<1>2. /\ call[c].pc \in RoundPcs /\ AtRound(c) /\ RoundFate(c)
      /\ k = call[c].key /\ b = call[c].id /\ bench[b] \in Bench
  BY <1>0, RoundStepMoves, RoundFates, RoundCall DEF AtRound
<1>3. Excused' = Excused /\ call[c].pc \notin UnregPcs
  BY <1>1, <1>2, Classes DEF Excused
<1>4. call'[c].pc \in Others \/ (call'[c].pc \in RoundPcs /\ call'[c].key = k /\ call'[c].id = b
                                  /\ call'[c].aborted = call[c].aborted)
  <2>1. CASE RoundGoes(c)
    BY <1>2, <2>1, GotoWork DEF RoundGoes
  <2>2. CASE RoundStops(c)
    BY <1>2, <2>2, EndRoundWork DEF RoundStops
  <2> QED
    BY <1>2, <2>1, <2>2 DEF RoundFate
<1>5. ASSUME NEW j \in Keys \ {k}
      PROVE  Housed(j)'
  <2>1. benches[j] # b
    BY <1>2, OtherBenches DEF RoundPcs, UnregPcs, Pcs
  <2>2. Live(j) => MarksKept(benches[j])
    BY <1>1, <2>1 DEF Live, MarksKept, TypeOK
  <2>3. Away(c, j)
    BY <1>2, <1>4, Classes DEF Away, Works, AtRound, AtRemoval
  <2>4. Beside(j)
    BY <1>1, <1>3, <2>2, <2>3, AwayBeside DEF StaysUnregistering
  <2> QED
    BY <2>4, BesideHoused
<1>6. Housed(k)'
  <2> SUFFICES ASSUME Sought(k)'
               PROVE  /\ Fits(bench'[benches'[k]]) /\ ~Working(k)' => disk'[k] = "tracked"
                      /\ Clears(bench'[benches'[k]])
                      /\ \A x \in Calls : call'[x].key = k /\ call'[x].id = benches'[k] =>
                           /\ Adds(x)' => disk'[k] = "tracked"
                           /\ Fails(x)' \/ Aborts(x)' => ~Fits(bench'[benches'[k]])
    BY DEF Housed
  <2>1. Live(k) /\ k \notin Excused
    BY <1>1, <1>3 DEF Sought, Live
  <2>2. ~Unregistering(k[1])
    <3> SUFFICES ASSUME NEW d \in Calls, call[d].pc \in UnregPcs, call[d].key[1] = k[1]
                 PROVE  FALSE
      BY DEF Unregistering
    <3> QED
      BY <1>1, <1>3 DEF Sought, Unregistering, SameWork
  <2>3. Sought(k) /\ benches'[k] = b /\ benches[k] = b
    BY <1>1, <1>2, <2>1, <2>2 DEF Sought, Followed, Found
  <2>4. \A x \in Calls \ {c} : call[x].key = k => ~AtRound(x) /\ ~Retries(x)
    <3> SUFFICES ASSUME NEW x \in Calls \ {c}, call[x].key = k, AtRound(x) \/ Retries(x)
                 PROVE  FALSE
      OBVIOUS
    <3>1. CASE AtRound(x)
      BY <1>2, <2>1, <2>3, <3>1 DEF Overlapping, Placed, Excused, Followed, Found
    <3>2. CASE Retries(x)
      BY <1>2, <2>1, <3>2 DEF Overlapping, Removals, AtRemoval, Retries, Excused
    <3> QED
      BY <3>1, <3>2
  <2>5. ASSUME NEW x \in Calls, call'[x].key = k, call'[x].id = b, Adds(x)' \/ Fails(x)' \/ Aborts(x)'
        PROVE  x = c /\ AtRound(c)'
    <3>1. AtRound(x)' \/ Retries(x)'
      BY <2>5 DEF Adds, Fails, Aborts, AtRound, RoundPcs
    <3>2. x = c
      BY <1>1, <2>4, <2>5, <3>1 DEF SameWork, AtRound, Retries
    <3> QED
      BY <1>4, <3>1, <3>2, Classes DEF AtRound, Retries
  <2>6. /\ Clears(bench[b])
        /\ Adds(c) => disk[k] = "tracked"
        /\ Fails(c) \/ Aborts(c) => ~Fits(bench[b])
    BY <1>2, <2>3 DEF Housed
  <2>7. CASE RoundGoes(c)
    <3>1. PICK pc \in RoundPcs :
            /\ Goto(c, pc)
            /\ \/ pc \notin {"inspect", "submodules", "failList", "failRemove"} /\ UNCHANGED bench
               \/ pc = "inspect" /\ disk'[k] = "tracked" /\ UNCHANGED bench
               \/ pc = "submodules" /\ call[c].pc = "inspect" /\ UNCHANGED <<bench, disk>>
               \/ pc = "failRemove" /\ call[c].pc = "failList" /\ UNCHANGED bench
               \/ /\ pc = "failList"
                  /\ \E r \in Bench : /\ bench' = [bench EXCEPT ![b] = r]
                                      /\ r.err /\ r.steps = bench[b].steps /\ r.status = "error"
      BY <1>2, <2>7 DEF RoundGoes
    <3>2. /\ call'[c].pc = pc /\ call'[c].key = k /\ call'[c].aborted = call[c].aborted
          /\ AtRound(c)' /\ ~Retries(c)'
      BY <1>2, <3>1, GotoWork, Classes DEF AtRound, Retries
    <3>3. Working(k)'
      BY <3>2 DEF Working, Works
    <3>4. ASSUME NEW r \in Bench, bench' = [bench EXCEPT ![b] = r], r.err, r.status = "error",
                 pc = "failList"
          PROVE  /\ Fits(bench'[benches'[k]]) /\ ~Working(k)' => disk'[k] = "tracked"
                 /\ Clears(bench'[benches'[k]])
                 /\ \A x \in Calls : call'[x].key = k /\ call'[x].id = benches'[k] =>
                      /\ Adds(x)' => disk'[k] = "tracked"
                      /\ Fails(x)' \/ Aborts(x)' => ~Fits(bench'[benches'[k]])
      <4>1. bench'[b].err /\ bench'[b].status = "error"
        BY <1>2, <3>4 DEF TypeOK
      <4>2. ~Fits(bench'[b]) /\ Clears(bench'[b])
        BY <4>1 DEF Fits, Clears
      <4>3. ~Adds(c)'
        BY <3>2, <3>4 DEF Adds
      <4> QED
        BY <2>3, <2>5, <3>3, <4>2, <4>3
    <3>5. CASE pc # "failList" /\ UNCHANGED bench
      <4>1. Adds(c)' => disk'[k] = "tracked"
        BY <2>6, <3>1, <3>2, <3>5 DEF Adds
      <4>2. Fails(c)' \/ Aborts(c)' => ~Fits(bench[b])
        BY <1>2, <2>6, <3>1, <3>2, <3>5 DEF Fails, Aborts
      <4> QED
        BY <2>3, <2>5, <2>6, <3>3, <3>5, <4>1, <4>2
    <3> QED
      BY <3>1, <3>4, <3>5
  <2>8. CASE RoundStops(c)
    <3>1. PICK r \in Bench :
            /\ EndRound(c, r)
            /\ r.steps = bench[b].steps
            /\ r.status = "clearing" => bench[b].status = "clearing"
            /\ r.err \/ (r.err = bench[b].err /\ Leaves(c))
      BY <1>2, <2>8 DEF RoundStops
    <3>2. /\ call'[c].pc \in Others
          /\ bench'[b].err = r.err /\ bench'[b].steps = r.steps
          /\ bench'[b].status = "clearing" => r.status = "clearing"
      BY <1>2, <3>1, EndRoundWork
    <3>3. ~AtRound(c)'
      BY <3>2, Classes DEF AtRound
    <3>4. Fits(bench'[b]) => Fits(bench[b]) /\ Leaves(c)
      BY <3>1, <3>2 DEF Fits
    <3>5. Fits(bench[b]) /\ Leaves(c) => disk'[k] = "tracked"
      BY <1>2, <2>1, <2>6 DEF Leaves, Fails, Aborts, Clears, Fits
    <3>6. Clears(bench'[b])
      BY <2>6, <3>1, <3>2 DEF Clears
    <3> QED
      BY <2>3, <2>5, <3>3, <3>4, <3>5, <3>6
  <2> QED
    BY <1>2, <2>7, <2>8 DEF RoundFate
<1> QED
  BY <1>5, <1>6

-----------------------------------------------------------------------------
(* Setup, launch, Start and the status poll *)

\* A call that is at no work on a worktree, neither before nor after the step.
LEMMA QuietWorktrees ==
    ASSUME TypeOK', Worktrees, NEW c \in Calls, \A d \in Calls \ {c} : SameWork(d),
           call[c].pc \in Others, call'[c].pc \in Others,
           Excused \subseteq Excused', UNCHANGED <<benches, disk, boot, round>>,
           \A k \in Keys : Live(k) => MarksKept(benches[k])
    PROVE  Worktrees'
<1>1. /\ ~AtRound(c) /\ ~AtRemoval(c) /\ call[c].pc \notin UnregPcs
      /\ ~AtRound(c)' /\ ~AtRemoval(c)' /\ ~Retries(c)'
  BY Classes DEF AtRound, AtRemoval, Retries
<1>2. \A k \in Keys : Away(c, k) /\ StaysUnregistering(c, k)
  BY <1>1 DEF Away, Works, StaysUnregistering
<1>3. \A k \in Keys : Housed(k)'
  BY <1>2, QuietHoused DEF Worktrees
<1>4. Marked'
  BY <1>1, MarkedByOne DEF Worktrees
<1> QED
  BY <1>3, <1>4 DEF Worktrees, Booted

\* Nothing happens to the calls.
LEMMA SameCallsWorktrees ==
    ASSUME Worktrees, UNCHANGED <<call, benches, disk, boot, round>>, Excused \subseteq Excused',
           \A k \in Keys : Live(k) => MarksKept(benches[k])
    PROVE  Worktrees'
<1>1. ASSUME NEW k \in Keys
      PROVE  Beside(k)
  BY DEF Beside, Working, Works, Unregistering, AtRound, AtRemoval, Adds, Fails, Retries, Aborts
<1>2. \A k \in Keys : Housed(k)'
  BY <1>1, BesideHoused DEF Worktrees
<1> QED
  BY <1>2 DEF Worktrees, Marked, Booted, AtRound, Retries

\* A bench stays marked when its status becomes idle or an error.
LEMMA PlainMarks ==
    ASSUME TypeOK,
           \A b \in Ids : /\ bench[b].err => bench'[b].err
                          /\ bench'[b].steps = bench[b].steps
                          /\ bench'[b].status \in {bench[b].status, "idle", "error"}
    PROVE  \A k \in Keys : Live(k) => MarksKept(benches[k])
BY DEF Live, TypeOK, MarksKept, Fits, Clears

\* The bench of a call is marked no less than before.
Marks(r, b) == r.steps = bench[b].steps /\ (bench[b].err => r.err)
               /\ r.status \in {bench[b].status, "idle", "error"}

LEMMA OneBenchMarks ==
    ASSUME TypeOK, NEW b \in Ids, NEW r, Marks(r, b), bench' = [bench EXCEPT ![b] = r]
    PROVE  \A k \in Keys : Live(k) => MarksKept(benches[k])
<1>1. \A e \in Ids : /\ bench[e].err => bench'[e].err
                     /\ bench'[e].steps = bench[e].steps
                     /\ bench'[e].status \in {bench[e].status, "idle", "error"}
  BY DEF TypeOK, Marks
<1> QED
  BY <1>1, PlainMarks

LEMMA SetupWorktrees ==
    ASSUME TypeOK, TypeOK', Worktrees, NEW c \in Calls, SetupEnds(c)
    PROVE  Worktrees'
<1>1. call[c].pc = "setup" /\ call[c].id \in Ids /\ call[c] \in CallRecord
      /\ bench[call[c].id] \in Bench
  BY DEF SetupEnds, TypeOK, Call, CallRecord, RoundPcs, UnregPcs
<1>2. \/ Finish(c)
      \/ call' = [call EXCEPT ![c].pc = "launch", ![c].on = benches[call[c].key]]
  BY DEF SetupEnds
<1>3. call'[c].pc \in Others /\ \A d \in Calls \ {c} : call'[d] = call[d]
  <2>1. CASE Finish(c)
    BY <2>1, FinishEnds DEF Ends
  <2>2. CASE call' = [call EXCEPT ![c].pc = "launch", ![c].on = benches[call[c].key]]
    <3>1. /\ call'[c] = [call[c] EXCEPT !.pc = "launch", !.on = benches[call[c].key]]
          /\ \A d \in Calls \ {c} : call'[d] = call[d]
      BY <2>2 DEF TypeOK
    <3> QED
      BY <1>1, <3>1 DEF CallRecord, Others
  <2> QED
    BY <1>2, <2>1, <2>2
<1>4. /\ Marks([bench[call[c].id] EXCEPT !.status = "error", !.err = TRUE], call[c].id)
      /\ Marks([bench[call[c].id] EXCEPT !.setup = TRUE], call[c].id)
      /\ Marks([bench[call[c].id] EXCEPT !.setup = TRUE, !.status = "idle"], call[c].id)
  BY <1>1 DEF Bench, Marks
<1>5. \/ UNCHANGED bench
      \/ \E r : Marks(r, call[c].id) /\ bench' = [bench EXCEPT ![call[c].id] = r]
  BY <1>1, <1>4 DEF SetupEnds, TypeOK
<1>6. \A k \in Keys : Live(k) => MarksKept(benches[k])
  BY <1>1, <1>5, OneBenchMarks, SameMarks
<1> QED
  BY <1>1, <1>3, <1>6, OthersSame, QuietWorktrees DEF SetupEnds, ghosts, Excused, Others

LEMMA LaunchWorktrees ==
    ASSUME TypeOK, TypeOK', Worktrees, NEW c \in Calls, LaunchEnds(c)
    PROVE  Worktrees'
<1>1. call[c].pc = "launch" /\ call[c].id \in Ids /\ bench[call[c].id] \in Bench
  BY DEF LaunchEnds, TypeOK, Call, CallRecord, RoundPcs, UnregPcs
<1>2. call'[c].pc \in Others /\ \A d \in Calls \ {c} : call'[d] = call[d]
  BY FinishEnds DEF Ends, LaunchEnds
<1>3. /\ Marks([bench[call[c].id] EXCEPT !.status = "error", !.err = TRUE], call[c].id)
      /\ Marks([bench[call[c].id] EXCEPT !.status = "idle"], call[c].id)
  BY <1>1 DEF Bench, Marks
<1>4. \E r : Marks(r, call[c].id) /\ bench' = [bench EXCEPT ![call[c].id] = r]
  BY <1>1, <1>3 DEF LaunchEnds, TypeOK
<1>5. \A k \in Keys : Live(k) => MarksKept(benches[k])
  BY <1>1, <1>4, OneBenchMarks
<1> QED
  BY <1>1, <1>2, <1>5, OthersSame, QuietWorktrees DEF LaunchEnds, ghosts, Excused, Others

LEMMA PollWorktrees ==
    ASSUME TypeOK, Worktrees, NEW k \in Keys, UpdateBenchStatus(k)
    PROVE  Worktrees'
<1>1. benches[k] \in Ids
  BY DEF UpdateBenchStatus, Live, TypeOK
<1>2. \A s \in {"idle", "error"} : Marks([bench[benches[k]] EXCEPT !.status = s], benches[k])
  BY <1>1 DEF TypeOK, Bench, Marks
<1>3. \E r : Marks(r, benches[k]) /\ bench' = [bench EXCEPT ![benches[k]] = r]
  BY <1>1, <1>2 DEF UpdateBenchStatus, TypeOK
<1>4. \A j \in Keys : Live(j) => MarksKept(benches[j])
  BY <1>1, <1>3, OneBenchMarks
<1> QED
  BY <1>4, SameCallsWorktrees DEF UpdateBenchStatus, ghosts, Excused

\* A Start that unmarks its bench finds the worktree and nothing at work on it.
LEMMA StartWorktrees ==
    ASSUME TypeOK, TypeOK', OneKey, Worktrees, NEW k \in Keys, StartAll(k)
    PROVE  Worktrees'
<1>1. PICK c \in Calls :
        /\ FreeCall(c)
        /\ call' = [call EXCEPT ![c] = [NoCall EXCEPT !.pc = FirstStep([bench[benches[k]]
                                                  EXCEPT !.status = "preparing", !.err = FALSE]),
                                           !.key = k, !.id = benches[k],
                                           !.on = IF FirstStep([bench[benches[k]]
                                                  EXCEPT !.status = "preparing", !.err = FALSE])
                                                  = "launch" THEN benches[k] ELSE None]]
  BY DEF StartAll
<1>2. /\ call[c].pc \in Others /\ call'[c].pc \in Others
      /\ \A d \in Calls \ {c} : call'[d] = call[d]
  BY <1>1 DEF FreeCall, TypeOK, NoCall, FirstStep, Others
<1>3. /\ ~AtRound(c) /\ ~AtRemoval(c) /\ call[c].pc \notin UnregPcs
      /\ ~AtRound(c)' /\ ~AtRemoval(c)' /\ ~Retries(c)'
  BY <1>2, Classes DEF AtRound, AtRemoval, Retries
<1>4. \A j \in Keys : Away(c, j) /\ StaysUnregistering(c, j)
  BY <1>3 DEF Away, Works, StaysUnregistering
<1>5. /\ benches[k] \in Ids /\ UNCHANGED <<benches, round, disk, boot>>
      /\ bench' = [bench EXCEPT ![benches[k]] = [bench[benches[k]] EXCEPT !.status = "preparing",
                                                                         !.err = FALSE]]
      /\ Excused \subseteq Excused'
      /\ k \in Excused' \/ (disk[k] = "tracked" /\ ~Busy(k))
  BY DEF StartAll, Live, TypeOK, Excused
<1>6. Marked'
  BY <1>2, <1>3, <1>5, OthersSame, MarkedByOne DEF Worktrees
<1>7. ASSUME NEW j \in Keys \ {k}
      PROVE  Housed(j)'
  <2>1. benches[j] # benches[k]
    BY <1>5 DEF OneKey, Refs
  <2>2. Live(j) => MarksKept(benches[j])
    BY <1>5, <2>1 DEF Live, TypeOK, MarksKept
  <2> QED
    BY <1>2, <1>4, <1>5, <2>2, OthersSame, AwayBeside, BesideHoused DEF Worktrees
<1>8. Housed(k)'
  <2> SUFFICES ASSUME k \notin Excused'
               PROVE  Housed(k)'
    BY DEF Housed, Sought
  <2>1. disk[k] = "tracked" /\ ~Busy(k)
    BY <1>5
  <2>2. \A d \in Calls : ~Works(d, k)
    BY <2>1 DEF Busy, On, Works, AtRound, AtRemoval
  <2>3. \A d \in Calls : ~Works(d, k)'
    BY <1>2, <1>4, <2>2 DEF Away, Works, AtRound, AtRemoval
  <2>4. \A d \in Calls : call'[d].key = k => ~Fails(d)' /\ ~Aborts(d)'
    BY <2>3 DEF Works, Fails, Aborts, AtRound, AtRemoval, Retries, RoundPcs
  <2>5. Clears(bench'[benches[k]])
    BY <1>5 DEF TypeOK, Bench, Clears
  <2> QED
    BY <1>5, <2>1, <2>4, <2>5 DEF Housed
<1> QED
  BY <1>5, <1>6, <1>7, <1>8 DEF Worktrees, Booted

-----------------------------------------------------------------------------
(* The requests that begin a removal *)

LEMMA CleanupAndRetryWorktrees ==
    ASSUME TypeOK, TypeOK', Worktrees, NEW k \in Keys, CleanupAndRetry(k)
    PROVE  Worktrees'
<1>1. PICK c \in Calls :
        /\ FreeCall(c)
        /\ call' = [call EXCEPT ![c] = [NoCall EXCEPT !.pc = "rtStop", !.key = k,
                                                     !.id = benches[k]]]
  BY DEF CleanupAndRetry
<1>2. /\ call[c].pc = "done" /\ call'[c].pc = "rtStop" /\ call'[c].key = k
      /\ ~call'[c].aborted /\ \A d \in Calls \ {c} : call'[d] = call[d]
  BY <1>1 DEF FreeCall, TypeOK, NoCall
<1>3. /\ ~AtRound(c) /\ ~AtRemoval(c) /\ call[c].pc \notin UnregPcs
      /\ ~AtRound(c)' /\ call'[c].pc \notin UnregPcs /\ ~Adds(c)' /\ AtRemoval(c)'
  BY <1>2 DEF AtRound, AtRemoval, Adds, RoundPcs, RetryPcs, ClearPcs, UnregPcs
<1>4. UNCHANGED <<benches, bench, disk, round, boot>> /\ Excused \subseteq Excused'
  BY DEF CleanupAndRetry, Excused
<1>5. Marked'
  BY <1>2, <1>3, <1>4, OthersSame, MarkedByOne DEF Worktrees
<1>6. ASSUME NEW j \in Keys \ {k}
      PROVE  Housed(j)'
  <2>1. Away(c, j) /\ StaysUnregistering(c, j)
    BY <1>2, <1>3 DEF Away, Works, StaysUnregistering
  <2> QED
    BY <1>2, <1>4, <2>1, OthersSame, SameMarks, AwayBeside, BesideHoused DEF Worktrees
<1>7. Housed(k)'
  <2> SUFFICES ASSUME Sought(k)'
               PROVE  Housed(k)'
    BY DEF Housed
  <2>1. Sought(k)
    BY <1>2, <1>3, <1>4 DEF Sought, Live, Unregistering
  <2>2. bench[benches[k]].err
    BY DEF CleanupAndRetry
  <2>3. ~Fits(bench[benches[k]]) /\ Housed(k)
    BY <2>2 DEF Fits, Worktrees
  <2>4. \A d \in Calls \ {c} : (Adds(d)' <=> Adds(d)) /\ call'[d].key = call[d].key
                               /\ call'[d].id = call[d].id
    BY <1>2 DEF Adds
  <2> QED
    BY <1>3, <1>4, <2>1, <2>3, <2>4 DEF Housed
<1> QED
  BY <1>4, <1>5, <1>6, <1>7 DEF Worktrees, Booted

\* The calls that a Clear or an unregister aborts are rounds on the keys it takes.
LEMMA AbortedWork ==
    ASSUME TypeOK, Marked, NEW c \in Calls, NEW r \in Call, NEW taken \in SUBSET Keys,
           Begins(c, r, {round[k] : k \in taken} \ {None}), r.pc \in {"tdWait", "urWait"}
    PROVE  /\ call'[c].pc = r.pc /\ call'[c].key = r.key
           /\ ~AtRound(c) /\ ~AtRemoval(c) /\ call[c].pc \notin UnregPcs
           /\ \A d \in Calls \ {c} :
                /\ call'[d].pc = call[d].pc /\ call'[d].key = call[d].key
                /\ call'[d].id = call[d].id
                /\ SameWork(d) \/ (AtRound(d) /\ call[d].key \in taken)
<1> DEFINE cs == {round[k] : k \in taken} \ {None}
<1>1. /\ call'[c].pc = r.pc /\ call'[c].key = r.key
      /\ \A d \in Calls \ {c} : /\ call'[d].pc = call[d].pc /\ call'[d].key = call[d].key
                                /\ call'[d].id = call[d].id
  BY AbortedCalls
<1>2. \A d \in Calls \ ({c} \cup cs) : call'[d] = call[d]
  BY DEF Begins, Abort, TypeOK
<1>3. \A d \in cs : AtRound(d) /\ call[d].key \in taken
  BY DEF Marked, TypeOK
<1>4. call[c].pc = "done"
  BY DEF Begins, FreeCall
<1>5. ~AtRound(c) /\ ~AtRemoval(c) /\ call[c].pc \notin UnregPcs
  BY <1>4 DEF AtRound, AtRemoval, RoundPcs, RetryPcs, ClearPcs, UnregPcs
<1> QED
  BY <1>1, <1>2, <1>3, <1>5 DEF SameWork

LEMMA AbortMarked ==
    ASSUME TypeOK, TypeOK', Marked, NEW c \in Calls, NEW r \in Call, NEW taken \in SUBSET Keys,
           Begins(c, r, {round[k] : k \in taken} \ {None}), r.pc \in {"tdWait", "urWait"},
           UNCHANGED round
    PROVE  Marked'
<1>1. /\ call'[c].pc = r.pc /\ ~AtRound(c)
      /\ \A d \in Calls \ {c} : /\ call'[d].pc = call[d].pc /\ call'[d].key = call[d].key
                                /\ SameWork(d) \/ AtRound(d)
  BY AbortedWork
<1>2. ~Retries(c)'
  BY <1>1 DEF Retries, RetryPcs
<1>3. \A d \in Calls \ {c} : Retries(d)' => SameWork(d)
  BY <1>1, Classes DEF Retries, AtRound
<1>4. \A k \in Keys, d \in Calls : round'[k] = d => AtRound(d)' /\ call'[d].key = k
  BY <1>1 DEF Marked, AtRound
<1> QED
  BY <1>2, <1>3, <1>4, MarkedBy

\* What it leaves of a key it does not take.
LEMMA AbortBeside ==
    ASSUME TypeOK, Marked, NEW c \in Calls, NEW r \in Call, NEW taken \in SUBSET Keys,
           Begins(c, r, {round[k] : k \in taken} \ {None}), r.pc \in {"tdWait", "urWait"},
           NEW j \in Keys \ taken, r.pc = "tdWait" => r.key # j,
           Excused \subseteq Excused', UNCHANGED <<benches, disk>>,
           Live(j) => MarksKept(benches[j])
    PROVE  Beside(j)
<1>1. /\ call'[c].pc = r.pc /\ call'[c].key = r.key
      /\ ~AtRound(c) /\ ~AtRemoval(c) /\ call[c].pc \notin UnregPcs
      /\ \A d \in Calls \ {c} :
           /\ call'[d].pc = call[d].pc /\ call'[d].key = call[d].key
           /\ call'[d].id = call[d].id
           /\ SameWork(d) \/ (AtRound(d) /\ call[d].key \in taken)
  BY AbortedWork
<1>2. ~AtRound(c)' /\ ~Retries(c)'
  BY <1>1 DEF AtRound, Retries, RoundPcs, RetryPcs
<1>3. Working(j) => Working(j)'
  <2> SUFFICES ASSUME NEW d \in Calls, Works(d, j) PROVE Works(d, j)'
    BY DEF Working
  <2> QED
    BY <1>1 DEF Works, AtRound, AtRemoval
<1>4. Unregistering(j[1]) => Unregistering(j[1])'
  <2> SUFFICES ASSUME NEW d \in Calls, call[d].pc \in UnregPcs, call[d].key[1] = j[1]
               PROVE  Unregistering(j[1])'
    BY DEF Unregistering
  <2> QED
    BY <1>1 DEF Unregistering
<1>5. ASSUME NEW d \in Calls, call'[d].key = j, AtRound(d)' \/ Retries(d)'
      PROVE  /\ call[d].key = j /\ call'[d].id = call[d].id
             /\ Adds(d)' => Adds(d)
             /\ Fails(d)' => Fails(d)
             /\ Aborts(d)' => Aborts(d)
  <2>1. d # c /\ SameWork(d)
    BY <1>1, <1>2, <1>5
  <2> QED
    BY <1>5, <2>1 DEF SameWork, Adds, Fails, Aborts, Retries, AtRound
<1> QED
  BY <1>3, <1>4, <1>5 DEF Beside

LEMMA TeardownWorktrees ==
    ASSUME TypeOK, TypeOK', OneKey, Worktrees, NEW k \in Keys, NEW keep \in BOOLEAN,
           TeardownBench(k, keep)
    PROVE  Worktrees'
<1> DEFINE b == benches[k]
<1>1. PICK c \in Calls, r \in Call : Begins(c, r, {round[k]}) /\ r.pc = "tdWait" /\ r.key = k
  BY TeardownBegins
<1>2. PICK taken \in SUBSET Keys :
        taken = {k} /\ Begins(c, r, {round[j] : j \in taken} \ {None})
  <2>1. Abort({round[k]}, [call EXCEPT ![c] = r]) = Abort({round[k]} \ {None}, [call EXCEPT ![c] = r])
    BY Parameters DEF Abort
  <2>2. {round[j] : j \in {k}} \ {None} = {round[k]} \ {None}
    OBVIOUS
  <2>3. FreeCall(c) /\ call' = Abort({round[k]}, [call EXCEPT ![c] = r])
    BY <1>1 DEF Begins
  <2>4. Begins(c, r, {round[j] : j \in {k}} \ {None})
    BY <2>1, <2>2, <2>3, Zenon DEF Begins
  <2> QED
    BY <2>4
<1>3. /\ b \in Ids /\ UNCHANGED <<benches, disk, boot, round>> /\ Excused \subseteq Excused'
      /\ bench' = [bench EXCEPT ![b].status = "clearing", ![b].steps = "active"]
  BY DEF TeardownBench, Live, TypeOK, Excused
<1>4. bench'[b].steps = "active" /\ \A e \in Ids \ {b} : bench'[e] = bench[e]
  BY <1>3 DEF TypeOK, Bench
<1>5. Marked'
  BY <1>1, <1>2, <1>3, AbortMarked DEF Worktrees
<1>6. ASSUME NEW j \in Keys \ {k}
      PROVE  Housed(j)'
  <2>1. benches[j] # b
    BY <1>3 DEF OneKey, Refs
  <2>2. Live(j) => MarksKept(benches[j])
    BY <1>4, <2>1 DEF Live, TypeOK, MarksKept
  <2> QED
    BY <1>1, <1>2, <1>3, <2>2, AbortBeside, BesideHoused DEF Worktrees
<1>7. Housed(k)'
  <2> SUFFICES ASSUME Sought(k)'
               PROVE  Housed(k)'
    BY DEF Housed
  <2>1. /\ call'[c].pc = "tdWait" /\ call[c].pc \notin UnregPcs
        /\ \A d \in Calls \ {c} : /\ call'[d].pc = call[d].pc /\ call'[d].key = call[d].key
                                  /\ call'[d].id = call[d].id
    BY <1>1, <1>2, AbortedWork DEF Worktrees
  <2>2. Sought(k)
    BY <1>3, <2>1 DEF Sought, Live, Unregistering
  <2>3. ~Fits(bench'[b]) /\ Clears(bench'[b])
    BY <1>4 DEF Fits, Clears
  <2>4. ~Adds(c)' /\ \A d \in Calls \ {c} : Adds(d)' <=> Adds(d)
    BY <2>1 DEF Adds
  <2>5. Housed(k)
    BY DEF Worktrees
  <2> QED
    BY <1>3, <2>1, <2>2, <2>3, <2>4, <2>5 DEF Housed
<1> QED
  BY <1>3, <1>5, <1>6, <1>7 DEF Worktrees, Booted

LEMMA ForceUnregisterWorktrees ==
    ASSUME TypeOK, TypeOK', Worktrees, NEW p \in Projects, ForceUnregister(p)
    PROVE  Worktrees'
<1> DEFINE taken == KeysOf(p) \cap LiveKeys
<1>1. PICK c \in Calls, r \in Call :
        Begins(c, r, {round[k] : k \in taken} \ {None}) /\ r.pc = "urWait" /\ r.key[1] = p
  BY UnregisterBegins
<1>2. UNCHANGED <<benches, bench, disk, boot, round, contested, overran>>
  BY DEF ForceUnregister, ghosts
<1>3. taken \in SUBSET Keys /\ \A j \in Keys : j[1] # p => j \notin taken
  BY DEF KeysOf
<1> HIDE DEF taken
<1>4. Marked'
  BY <1>1, <1>2, <1>3, AbortMarked DEF Worktrees
<1>5. ASSUME NEW j \in Keys
      PROVE  Housed(j)'
  <2>1. CASE j[1] = p
    <3>1. call'[c].pc = "urWait" /\ call'[c].key[1] = p
      BY <1>1, <1>3, AbortedWork DEF Worktrees
    <3>2. Unregistering(j[1])'
      BY <2>1, <3>1 DEF Unregistering, UnregPcs
    <3> QED
      BY <3>2 DEF Housed, Sought
  <2>2. CASE j[1] # p
    <3>1. Beside(j)
      BY <1>1, <1>2, <1>3, <2>2, SameMarks, AbortBeside DEF Worktrees, Excused
    <3> QED
      BY <3>1, BesideHoused DEF Worktrees
  <2> QED
    BY <2>1, <2>2
<1> QED
  BY <1>2, <1>4, <1>5 DEF Worktrees, Booted

-----------------------------------------------------------------------------
(* Clear *)

\* A Clear goes on, and takes the worktree only when its wait is over.
ClearGoes(c) ==
    /\ call'[c].pc \in ClearPcs /\ call'[c].key = call[c].key
    /\ \A d \in Calls \ {c} : SameWork(d)
    /\ UNCHANGED <<benches, bench, round>>
    /\ UNCHANGED disk \/ (Past(c) /\ SetDisk(call[c].key, "none"))

LEMMA ClearFates ==
    ASSUME TypeOK, NEW c \in Calls, ClearStep(c)
    PROVE  /\ ClearGoes(c) \/ ((ClearFails(c) \/ ClearSucceeds(c)) /\ UNCHANGED disk)
           /\ call[c].pc \in ClearPcs /\ UNCHANGED boot /\ Excused \subseteq Excused'
<1>1. call[c].pc \in ClearPcs /\ UNCHANGED boot /\ Excused \subseteq Excused'
  BY DEF ClearStep, ClearPcs, ClearWaitEnds, ClearStopEnds, ClearListEnds, ClearRemoveEnds,
         ClearBranchEnds, Excused, ghosts
<1>2. ASSUME NEW pc \in ClearPcs, Goto(c, pc), UNCHANGED <<benches, bench, round>>,
             UNCHANGED disk \/ (Past(c) /\ SetDisk(call[c].key, "none"))
      PROVE  ClearGoes(c)
  BY <1>2, GotoWork DEF ClearGoes
<1>3. {"tdStop", "tdList", "tdRemove", "tdBranch", "tdLeftover"} \subseteq ClearPcs
  BY DEF ClearPcs
<1>4. CASE ClearWaitEnds(c)
  <2>1. /\ call'[c] = [call[c] EXCEPT !.pc = "tdStop", !.wait = {}]
        /\ \A d \in Calls \ {c} : call'[d] = call[d]
    BY <1>4 DEF ClearWaitEnds, TypeOK
  <2>2. call[c] \in CallRecord
    BY DEF TypeOK, Call
  <2>3. call'[c].pc = "tdStop" /\ call'[c].key = call[c].key
    BY <2>1, <2>2 DEF CallRecord
  <2> QED
    BY <1>1, <1>3, <1>4, <2>1, <2>3, OthersSame DEF ClearWaitEnds, ClearGoes
<1>5. CASE ClearStopEnds(c)
  BY <1>1, <1>2, <1>3, <1>5 DEF ClearStopEnds
<1>6. CASE ClearListEnds(c)
  <2>1. Past(c)
    BY <1>6 DEF ClearListEnds, Past, ClearPcs
  <2> QED
    BY <1>1, <1>2, <1>3, <1>6, <2>1 DEF ClearListEnds
<1>7. CASE ClearRemoveEnds(c)
  <2>1. Past(c)
    BY <1>7 DEF ClearRemoveEnds, Past, ClearPcs
  <2> QED
    BY <1>1, <1>2, <1>3, <1>7, <2>1 DEF ClearRemoveEnds
<1>8. CASE ClearBranchEnds(c)
  BY <1>1, <1>8 DEF ClearBranchEnds
<1> QED
  BY <1>4, <1>5, <1>6, <1>7, <1>8 DEF ClearStep

LEMMA ClearWorktrees ==
    ASSUME TypeOK, TypeOK', OneKey, Overlapping, Followed, Worktrees, NEW c \in Calls,
           ClearStep(c)
    PROVE  Worktrees'
<1>0. PICK k \in Keys, b \in Ids : k = call[c].key /\ b = call[c].id
  BY ClearFates, ClearCall
<1>1. /\ call[c].pc \in ClearPcs /\ UNCHANGED boot /\ Excused \subseteq Excused'
      /\ ClearGoes(c) \/ ((ClearFails(c) \/ ClearSucceeds(c)) /\ UNCHANGED disk)
  BY ClearFates
<1>2. /\ ~AtRound(c) /\ ~Retries(c) /\ AtRemoval(c) /\ call[c].pc \notin UnregPcs
      /\ call[c].pc \in Pcs \ (UnregPcs \cup {"done"})
  BY <1>1, Classes DEF AtRound, Retries, AtRemoval, Others
<1>3. /\ \A d \in Calls \ {c} : SameWork(d)
      /\ call'[c].pc \in Others \/ (call'[c].pc \in ClearPcs /\ call'[c].key = k)
  <2>1. CASE ClearGoes(c)
    BY <1>0, <2>1 DEF ClearGoes
  <2>2. CASE Finish(c)
    BY <2>2, FinishEnds, OthersSame DEF Ends
  <2> QED
    BY <1>1, <2>1, <2>2 DEF ClearFails, ClearSucceeds
<1>4. ~AtRound(c)' /\ ~Retries(c)' /\ \A j \in Keys \ {k} : Away(c, j)
  BY <1>0, <1>2, <1>3, Classes DEF AtRound, Retries, AtRemoval, Away, Works
<1>5. /\ \A e \in Ids \ {b} : bench'[e] = bench[e]
      /\ \A j \in Keys \ {k} : benches'[j] = benches[j] /\ disk'[j] = disk[j]
      /\ \A j \in Keys : round'[j] = None \/ round'[j] = round[j]
  BY <1>0, <1>1 DEF ClearGoes, ClearFails, ClearSucceeds, SetDisk, TypeOK
<1>6. Marked'
  BY <1>2, <1>3, <1>4, <1>5, MarkedByOne DEF Worktrees
<1>7. ASSUME NEW j \in Keys \ {k}
      PROVE  Housed(j)'
  <2>1. benches[j] # b
    BY <1>0, <1>2, OtherBenches
  <2>2. Live(j) => MarksKept(benches[j])
    BY <1>5, <2>1 DEF Live, TypeOK, MarksKept
  <2>3. Beside(j)
    BY <1>1, <1>2, <1>3, <1>4, <1>5, <2>2, AwayBeside DEF StaysUnregistering
  <2> QED
    BY <2>3, BesideHoused DEF Worktrees
<1>8. Housed(k)'
  <2> SUFFICES ASSUME Sought(k)'
               PROVE  /\ Fits(bench'[benches'[k]]) /\ ~Working(k)' => disk'[k] = "tracked"
                      /\ Clears(bench'[benches'[k]])
                      /\ \A d \in Calls : call'[d].key = k /\ call'[d].id = benches'[k] =>
                           /\ Adds(d)' => disk'[k] = "tracked"
                           /\ Fails(d)' \/ Aborts(d)' => ~Fits(bench'[benches'[k]])
    BY DEF Housed
  <2>1. ~ClearSucceeds(c)
    BY <1>0 DEF Sought, Live, ClearSucceeds, TypeOK
  <2>2. UNCHANGED benches
    BY <1>1, <2>1 DEF ClearGoes, ClearFails
  <2>3. ~Unregistering(k[1])
    <3> SUFFICES ASSUME NEW d \in Calls, call[d].pc \in UnregPcs, call[d].key[1] = k[1]
                 PROVE  FALSE
      BY DEF Unregistering
    <3> QED
      BY <1>2, <1>3 DEF Sought, Unregistering, SameWork
  <2>4. Sought(k) /\ benches[k] = b
    BY <1>0, <1>1, <1>2, <2>2, <2>3, RemovalBench DEF Sought, Live, Excused
  <2>5. ASSUME NEW d \in Calls, Adds(d)' \/ Fails(d)' \/ Aborts(d)'
        PROVE  d # c /\ SameWork(d) /\ (AtRound(d) \/ Retries(d))
    <3>1. AtRound(d)' \/ Retries(d)'
      BY <2>5 DEF Adds, Fails, Aborts, AtRound, RoundPcs
    <3> QED
      BY <1>3, <1>4, <3>1 DEF SameWork, AtRound, Retries
  <2>6. Housed(k)
    BY DEF Worktrees
  <2>7. CASE ClearFails(c) /\ UNCHANGED disk
    <3>1. bench'[b].err /\ bench'[b].status = "error"
      BY <1>0, <2>7 DEF ClearFails, TypeOK, Bench
    <3>2. ~Fits(bench'[b]) /\ Clears(bench'[b])
      BY <3>1 DEF Fits, Clears
    <3>3. ASSUME NEW d \in Calls, call'[d].key = k, call'[d].id = b, Adds(d)'
          PROVE  disk'[k] = "tracked"
      <4>1. call[d].key = k /\ call[d].id = b /\ Adds(d)
        BY <2>5, <3>3 DEF SameWork, Adds
      <4> QED
        BY <2>4, <2>6, <2>7, <4>1 DEF Housed
    <3> QED
      BY <2>2, <2>4, <3>2, <3>3
  <2>8. CASE ClearGoes(c)
    <3>1. Working(k)'
      BY <1>0, <2>8 DEF ClearGoes, Working, Works, AtRemoval
    <3>2. UNCHANGED bench /\ Clears(bench[b])
      BY <2>4, <2>6, <2>8 DEF ClearGoes, Housed
    <3>3. ASSUME NEW d \in Calls, call'[d].key = k, call'[d].id = b, Fails(d)' \/ Aborts(d)'
          PROVE  ~Fits(bench[b])
      <4>1. call[d].key = k /\ call[d].id = b /\ (Fails(d) \/ Aborts(d))
        BY <2>5, <3>3 DEF SameWork, Fails, Retries, Aborts, AtRound
      <4> QED
        BY <2>4, <2>6, <4>1 DEF Housed
    <3>4. ASSUME NEW d \in Calls, call'[d].key = k, call'[d].id = b, Adds(d)'
          PROVE  disk'[k] = "tracked"
      <4>1. call[d].key = k /\ call[d].id = b /\ Adds(d) /\ AtRound(d)
        BY <2>5, <3>4 DEF SameWork, Adds, AtRound, RoundPcs
      <4>2. ~Past(c)
        BY <1>0, <1>1, <2>4, <4>1, WaitRanOut DEF Takes, Sought, Overlapping
      <4> QED
        BY <2>4, <2>6, <2>8, <4>1, <4>2 DEF Housed, ClearGoes
    <3> QED
      BY <2>2, <2>4, <3>1, <3>2, <3>3, <3>4
  <2> QED
    BY <1>1, <2>1, <2>7, <2>8
<1> QED
  BY <1>1, <1>6, <1>7, <1>8 DEF Worktrees, Booted

-----------------------------------------------------------------------------
(* Cleanup & Retry *)

\* It goes on, gives up, or has removed the worktree and resets the bench.
RetryGoes(c) == \E pc \in RetryPcs : Goto(c, pc) /\ UNCHANGED <<bench, round, disk>>
RetryEnds(c) == Finish(c) /\ UNCHANGED <<bench, round, disk>>
RetryMoves(c) == RetryResets(c) /\ \E d : SetDisk(call[c].key, d)

LEMMA RetryFates ==
    ASSUME NEW c \in Calls, RetryStep(c)
    PROVE  /\ RetryGoes(c) \/ RetryEnds(c) \/ RetryMoves(c)
           /\ call[c].pc \in RetryPcs /\ UNCHANGED <<benches, boot, contested, overran>>
<1>1. call[c].pc \in RetryPcs /\ UNCHANGED <<benches, boot, contested, overran>>
  BY DEF RetryStep, RetryPcs, RetryStopEnds, RetryListEnds, RetryRemoveEnds, ghosts
<1>2. {"rtList", "rtRemove"} \subseteq RetryPcs
  BY DEF RetryPcs
<1>3. CASE RetryStopEnds(c)
  BY <1>1, <1>2, <1>3 DEF RetryStopEnds, RetryGoes
<1>4. CASE RetryListEnds(c)
  BY <1>1, <1>2, <1>4 DEF RetryListEnds, RetryGoes, RetryMoves
<1>5. CASE RetryRemoveEnds(c)
  BY <1>1, <1>5 DEF RetryRemoveEnds, RetryEnds, RetryMoves
<1> QED
  BY <1>3, <1>4, <1>5 DEF RetryStep

LEMMA RetryWorktrees ==
    ASSUME TypeOK, TypeOK', OneKey, Overlapping, Worktrees, NEW c \in Calls, RetryStep(c)
    PROVE  Worktrees'
<1>0. PICK k \in Keys, b \in Ids : k = call[c].key /\ b = call[c].id
  BY RetryFates, RetryCall
<1>1. /\ call[c].pc \in RetryPcs /\ UNCHANGED <<benches, boot>> /\ Excused' = Excused
      /\ RetryGoes(c) \/ RetryEnds(c) \/ RetryMoves(c)
  BY RetryFates DEF Excused
<1>2. /\ ~AtRound(c) /\ Retries(c) /\ AtRemoval(c) /\ call[c].pc \notin UnregPcs
      /\ call[c].pc \in Pcs \ (UnregPcs \cup {"done"}) /\ ~call[c].aborted
  BY <1>1, Classes DEF AtRound, Retries, AtRemoval, Others, Worktrees, Marked
<1>3. RetryMoves(c) =>
        \/ Finish(c) /\ (\A j \in Keys : round'[j] = None \/ round'[j] = round[j])
             /\ (Unregistering(k[1]) \/ ~Live(k))
        \/ /\ Goto(c, "resolve") /\ round' = [round EXCEPT ![k] = c]
           /\ bench' = [bench EXCEPT ![b] = NewBench]
  BY <1>0 DEF RetryMoves, RetryResets, Goto, TypeOK
<1>4. /\ \A d \in Calls \ {c} : SameWork(d)
      /\ \/ call'[c].pc \in Others
         \/ /\ call'[c].pc \in RetryPcs \cup {"resolve"} /\ call'[c].key = k
            /\ call'[c].id = b /\ ~call'[c].aborted
  <2>1. CASE Finish(c)
    BY <2>1, FinishEnds, OthersSame DEF Ends
  <2>2. ASSUME NEW pc \in RetryPcs \cup {"resolve"}, Goto(c, pc)
        PROVE  /\ \A d \in Calls \ {c} : SameWork(d)
               /\ call'[c].pc = pc /\ call'[c].key = k
               /\ call'[c].id = b /\ ~call'[c].aborted
    BY <1>0, <1>2, <2>2, GotoWork
  <2> QED
    BY <1>1, <1>3, <2>1, <2>2 DEF RetryGoes, RetryEnds
<1>5. "resolve" \in RoundPcs /\ "resolve" \notin UnregPcs
  BY DEF RoundPcs, UnregPcs
<1>6. \A j \in Keys \ {k} : Away(c, j)
  BY <1>0, <1>2, <1>4, <1>5, Classes DEF AtRound, Retries, AtRemoval, Away, Works
<1>7. /\ \A e \in Ids \ {b} : bench'[e] = bench[e]
      /\ \A j \in Keys \ {k} : disk'[j] = disk[j]
  <2>1. UNCHANGED bench \/ bench' = [bench EXCEPT ![b] = NewBench]
    BY <1>0, <1>1 DEF RetryGoes, RetryEnds, RetryMoves, RetryResets
  <2>2. UNCHANGED disk \/ \E d : SetDisk(k, d)
    BY <1>0, <1>1 DEF RetryGoes, RetryEnds, RetryMoves
  <2> QED
    BY <2>1, <2>2 DEF SetDisk, TypeOK
<1>8. Marked'
  <2>1. CASE \A j \in Keys : round'[j] = None \/ round'[j] = round[j]
    <3>1. Retries(c)' => ~call'[c].aborted
      BY <1>4, Classes DEF Retries
    <3> QED
      BY <1>2, <1>4, <2>1, <3>1, MarkedByOne DEF Worktrees
  <2>2. CASE Goto(c, "resolve") /\ round' = [round EXCEPT ![k] = c]
    <3>1. AtRound(c)' /\ ~Retries(c)' /\ call'[c].key = k
      BY <1>0, <1>5, <2>2, GotoWork, Classes DEF AtRound, Retries
    <3>2. ASSUME NEW j \in Keys, NEW d \in Calls, round'[j] = d
          PROVE  (AtRound(d)' /\ call'[d].key = j) \/ (round[j] = d /\ SameWork(d))
      <4>1. CASE j = k
        BY <2>2, <3>1, <3>2, <4>1 DEF TypeOK
      <4>2. CASE j # k
        <5>1. round[j] = d
          BY <2>2, <3>2, <4>2 DEF TypeOK
        <5>2. d # c
          BY <1>2, <5>1 DEF Worktrees, Marked
        <5> QED
          BY <1>4, <5>1, <5>2
      <4> QED
        BY <4>1, <4>2
    <3> QED
      BY <1>4, <3>1, <3>2, MarkedBy DEF Worktrees
  <2> QED
    BY <1>1, <1>3, <2>1, <2>2 DEF RetryGoes, RetryEnds
<1>9. ASSUME NEW j \in Keys \ {k}
      PROVE  Housed(j)'
  <2>1. benches[j] # b
    BY <1>0, <1>2, OtherBenches
  <2>2. Live(j) => MarksKept(benches[j])
    BY <1>7, <2>1 DEF Live, TypeOK, MarksKept
  <2>3. Beside(j)
    BY <1>1, <1>2, <1>4, <1>6, <1>7, <2>2, AwayBeside DEF StaysUnregistering
  <2> QED
    BY <2>3, BesideHoused DEF Worktrees
<1>10. Housed(k)'
  <2> SUFFICES ASSUME Sought(k)'
               PROVE  /\ Fits(bench'[benches'[k]]) /\ ~Working(k)' => disk'[k] = "tracked"
                      /\ Clears(bench'[benches'[k]])
                      /\ \A d \in Calls : call'[d].key = k /\ call'[d].id = benches'[k] =>
                           /\ Adds(d)' => disk'[k] = "tracked"
                           /\ Fails(d)' \/ Aborts(d)' => ~Fits(bench'[benches'[k]])
    BY DEF Housed
  <2>1. ~Unregistering(k[1])
    <3> SUFFICES ASSUME NEW d \in Calls, call[d].pc \in UnregPcs, call[d].key[1] = k[1]
                 PROVE  FALSE
      BY DEF Unregistering
    <3> QED
      BY <1>2, <1>4 DEF Sought, Unregistering, SameWork
  <2>2. Sought(k) /\ benches[k] = b
    BY <1>0, <1>1, <1>2, <2>1, RemovalBench DEF Sought, Live, Excused
  <2>3. /\ Clears(bench[b]) /\ ~Fits(bench[b])
    BY <1>0, <1>2, <2>2 DEF Worktrees, Housed, Fails
  <2>4. \A d \in Calls \ {c} : call[d].key = k => ~AtRound(d) /\ ~Retries(d)
    BY <1>0, <1>1, <1>2, <2>2 DEF Overlapping, Removals, Sought, Excused, AtRemoval, Retries
  <2>5. ASSUME NEW d \in Calls, call'[d].key = k, Adds(d)' \/ Fails(d)' \/ Aborts(d)'
        PROVE  d = c
    <3>1. AtRound(d)' \/ Retries(d)'
      BY <2>5 DEF Adds, Fails, Aborts, AtRound, RoundPcs
    <3> QED
      BY <1>4, <2>4, <2>5, <3>1 DEF SameWork, AtRound, Retries
  <2>6. ~Adds(c)' /\ ~Aborts(c)'
    BY <1>4, <1>5, Classes DEF Adds, Aborts, AtRound, RetryPcs, Others
  <2>7. CASE UNCHANGED bench
    <3>1. \A d \in Calls : call'[d].key = k => ~Adds(d)'
      BY <2>5, <2>6
    <3> QED
      BY <1>1, <2>2, <2>3, <2>7, <3>1
  <2>8. CASE Goto(c, "resolve") /\ bench' = [bench EXCEPT ![b] = NewBench]
    <3>1. call'[c].pc = "resolve" /\ call'[c].key = k
      BY <1>0, <2>8, GotoWork
    <3>2. Working(k)' /\ ~Fails(c)'
      BY <1>5, <3>1, Classes DEF Working, Works, AtRound, Fails, Retries
    <3>3. Clears(bench'[b])
      BY <2>8 DEF TypeOK, Clears, NewBench
    <3> QED
      BY <1>1, <2>2, <2>5, <2>6, <3>2, <3>3
  <2> QED
    BY <1>1, <1>3, <2>1, <2>2, <2>7, <2>8 DEF RetryGoes, RetryEnds, Sought
<1> QED
  BY <1>1, <1>8, <1>9, <1>10 DEF Worktrees, Booted

-----------------------------------------------------------------------------
(* Unregister *)

\* An unregister goes on, or drops the benches of its project.
UnregisterGoes(c) ==
    /\ call'[c].pc \in UnregPcs /\ call'[c].key = call[c].key
    /\ \A d \in Calls \ {c} : call'[d] = call[d]
    /\ UNCHANGED <<benches, round>>

LEMMA UnregisterFates ==
    ASSUME TypeOK, NEW c \in Calls, UnregisterStep(c)
    PROVE  /\ UnregisterGoes(c) \/ \E d : UnregisterDone(c, d)
           /\ call[c].pc \in UnregPcs /\ call[c].key \in Keys
           /\ UNCHANGED <<bench, boot>> /\ Excused \subseteq Excused'
           /\ \A j \in Keys : j[1] # call[c].key[1] => disk'[j] = disk[j]
<1>1. /\ call[c].pc \in UnregPcs /\ UNCHANGED <<bench, boot>> /\ Excused \subseteq Excused'
      /\ call[c].pc # "done"
  BY DEF UnregisterStep, UnregisterWaitEnds, UnregisterStopEnds, UnregisterRemoves, UnregPcs,
         Excused
<1>2. /\ call[c] \in CallRecord /\ call[c].key \in Keys
      /\ \A j \in call[c].todo : j[1] = call[c].key[1]
  BY <1>1 DEF TypeOK, Call
<1>3. {"urStop", "urRemove"} \subseteq UnregPcs
  BY DEF UnregPcs
<1>4. CASE UnregisterWaitEnds(c)
  <2>1. /\ call'[c] = [call[c] EXCEPT !.pc = "urStop", !.wait = {}]
        /\ \A d \in Calls \ {c} : call'[d] = call[d]
    BY <1>4 DEF UnregisterWaitEnds, TypeOK
  <2>2. call'[c].pc = "urStop" /\ call'[c].key = call[c].key
    BY <1>2, <2>1 DEF CallRecord
  <2> QED
    BY <1>1, <1>2, <1>3, <1>4, <2>1, <2>2 DEF UnregisterWaitEnds, UnregisterGoes
<1>5. CASE UnregisterStopEnds(c)
  <2>1. CASE Goto(c, "urRemove") /\ UNCHANGED <<benches, round>>
    <3>1. call'[c].pc = "urRemove" /\ call'[c].key = call[c].key
      BY <2>1, GotoWork
    <3>2. \A d \in Calls \ {c} : call'[d] = call[d]
      BY <2>1 DEF Goto, TypeOK
    <3> QED
      BY <1>1, <1>2, <1>3, <1>5, <2>1, <3>1, <3>2 DEF UnregisterStopEnds, UnregisterGoes
  <2> QED
    BY <1>1, <1>2, <1>5, <2>1 DEF UnregisterStopEnds
<1>6. CASE UnregisterRemoves(c)
  <2>1. PICK k \in call[c].todo :
          /\ \E d \in Forced(disk[k]) : SetDisk(k, d)
          /\ \/ UnregisterDone(c, disk')
             \/ /\ call' = [call EXCEPT ![c].todo = @ \ {k}]
                /\ UNCHANGED <<benches, round>>
    BY <1>6 DEF UnregisterRemoves
  <2>2. \A j \in Keys : j[1] # call[c].key[1] => disk'[j] = disk[j]
    BY <1>2, <2>1 DEF SetDisk, TypeOK
  <2>3. CASE call' = [call EXCEPT ![c].todo = @ \ {k}] /\ UNCHANGED <<benches, round>>
    <3>1. /\ call'[c] = [call[c] EXCEPT !.todo = @ \ {k}]
          /\ \A d \in Calls \ {c} : call'[d] = call[d]
      BY <2>3 DEF TypeOK
    <3>2. call'[c].pc = call[c].pc /\ call'[c].key = call[c].key
      BY <1>2, <3>1 DEF CallRecord
    <3> QED
      BY <1>1, <1>2, <2>2, <2>3, <3>1, <3>2 DEF UnregisterGoes
  <2> QED
    BY <1>1, <1>2, <2>1, <2>2, <2>3
<1> QED
  BY <1>4, <1>5, <1>6 DEF UnregisterStep

LEMMA UnregisterWorktrees ==
    ASSUME TypeOK, TypeOK', Worktrees, NEW c \in Calls, UnregisterStep(c)
    PROVE  Worktrees'
<1>0. PICK k \in Keys : k = call[c].key
  BY UnregisterFates
<1>1. /\ call[c].pc \in UnregPcs /\ UNCHANGED <<bench, boot>> /\ Excused \subseteq Excused'
      /\ \A j \in Keys : j[1] # k[1] => disk'[j] = disk[j]
      /\ UnregisterGoes(c) \/ \E d : UnregisterDone(c, d)
  BY <1>0, UnregisterFates
<1>2. /\ \A d \in Calls \ {c} : SameWork(d)
      /\ call'[c].pc \in Others \/ UnregisterGoes(c)
  <2>1. CASE Finish(c)
    BY <2>1, FinishEnds, OthersSame DEF Ends
  <2> QED
    BY <1>1, <2>1, OthersSame DEF UnregisterGoes, UnregisterDone
<1>3. /\ ~AtRound(c) /\ ~AtRemoval(c) /\ ~AtRound(c)' /\ ~AtRemoval(c)' /\ ~Retries(c)'
  BY <1>1, <1>2, Classes DEF UnregisterGoes, AtRound, AtRemoval, Retries
<1>4. /\ \A j \in Keys : round'[j] = None \/ round'[j] = round[j]
      /\ \A j \in Keys : j[1] # k[1] => benches'[j] = benches[j]
  BY <1>0, <1>1 DEF UnregisterGoes, UnregisterDone
<1>5. Marked'
  BY <1>2, <1>3, <1>4, MarkedByOne DEF Worktrees
<1>6. ASSUME NEW j \in Keys
      PROVE  Housed(j)'
  <2>1. CASE j[1] = k[1]
    <3>1. benches'[j] = None \/ Unregistering(j[1])'
      BY <1>0, <1>1, <2>1 DEF UnregisterGoes, UnregisterDone, Unregistering
    <3> QED
      BY <3>1 DEF Housed, Sought, Live
  <2>2. CASE j[1] # k[1]
    <3>1. Away(c, j) /\ StaysUnregistering(c, j)
      BY <1>0, <1>3, <2>2 DEF Away, Works, StaysUnregistering
    <3>2. Live(j) => MarksKept(benches[j])
      BY <1>1, SameMarks
    <3> QED
      BY <1>1, <1>2, <1>4, <2>2, <3>1, <3>2, AwayBeside, BesideHoused DEF Worktrees
  <2> QED
    BY <2>1, <2>2
<1> QED
  BY <1>1, <1>5, <1>6 DEF Worktrees, Booted

-----------------------------------------------------------------------------
(* Creation *)

LEMMA CreateWorktrees ==
    ASSUME TypeOK, TypeOK', Worktrees, NEW p \in Projects, CreateBench(p)
    PROVE  Worktrees'
<1>1. PICK n \in 1..MaxBenches, b \in Ids, c \in Calls :
        /\ ~Live(<<p, n>>) /\ FreeId(b) /\ FreeCall(c)
        /\ benches' = [benches EXCEPT ![<<p, n>>] = b]
        /\ bench' = [bench EXCEPT ![b] = NewBench]
        /\ round' = [round EXCEPT ![<<p, n>>] = c]
        /\ call' = [call EXCEPT ![c] = [NoCall EXCEPT !.pc = "resolve", !.key = <<p, n>>,
                                                     !.id = b, !.creates = TRUE]]
  BY DEF CreateBench
<1>2. PICK k \in Keys : k = <<p, n>>
  BY DEF Keys
<1>3. UNCHANGED <<disk, boot, contested, overran>>
  BY DEF CreateBench
<1>4. /\ call[c].pc = "done" /\ call'[c].pc = "resolve" /\ call'[c].key = k
      /\ ~call'[c].aborted /\ \A d \in Calls \ {c} : call'[d] = call[d]
  BY <1>1, <1>2 DEF FreeCall, TypeOK, NoCall
<1>5. /\ ~AtRound(c) /\ ~AtRemoval(c) /\ call[c].pc \notin UnregPcs
      /\ AtRound(c)' /\ ~AtRemoval(c)' /\ ~Retries(c)' /\ ~Adds(c)' /\ ~Fails(c)'
  BY <1>4 DEF AtRound, AtRemoval, Retries, Adds, Fails, RoundPcs, RetryPcs, ClearPcs, UnregPcs
<1>6. /\ benches'[k] = b /\ bench'[b] = NewBench /\ round'[k] = c
      /\ \A j \in Keys \ {k} : benches'[j] = benches[j] /\ benches[j] # b /\ round'[j] = round[j]
      /\ \A e \in Ids \ {b} : bench'[e] = bench[e]
      /\ \A d \in Calls : call[d].id # b
  BY <1>1, <1>2 DEF FreeId, TypeOK
<1>7. Marked'
  <2>1. ASSUME NEW j \in Keys, NEW d \in Calls, round'[j] = d
        PROVE  (AtRound(d)' /\ call'[d].key = j) \/ (round[j] = d /\ SameWork(d))
    <3>1. CASE j = k
      BY <1>4, <1>5, <1>6, <2>1, <3>1
    <3>2. CASE j # k
      <4>1. round[j] = d /\ d # c
        BY <1>5, <1>6, <2>1, <3>2 DEF Worktrees, Marked
      <4> QED
        BY <1>4, <4>1, OthersSame
    <3> QED
      BY <3>1, <3>2
  <2> QED
    BY <1>4, <1>5, <2>1, OthersSame, MarkedBy DEF Worktrees
<1>8. ASSUME NEW j \in Keys \ {k}
      PROVE  Housed(j)'
  <2>1. Live(j) => MarksKept(benches[j])
    BY <1>6 DEF Live, TypeOK, MarksKept
  <2>2. Away(c, j) /\ StaysUnregistering(c, j)
    BY <1>4, <1>5 DEF Away, Works, StaysUnregistering
  <2> QED
    BY <1>3, <1>4, <1>6, <2>1, <2>2, OthersSame, AwayBeside, BesideHoused DEF Worktrees, Excused
<1>9. Housed(k)'
  <2>1. Working(k)'
    BY <1>4, <1>5 DEF Working, Works
  <2>2. Clears(bench'[b])
    BY <1>6 DEF Clears, NewBench
  <2>3. \A d \in Calls : call'[d].id = b => ~Adds(d)' /\ ~Fails(d)' /\ ~Aborts(d)'
    BY <1>4, <1>5, <1>6 DEF Aborts
  <2> QED
    BY <1>6, <2>1, <2>2, <2>3 DEF Housed
<1> QED
  BY <1>3, <1>7, <1>8, <1>9 DEF Worktrees, Booted

-----------------------------------------------------------------------------
(* The theorem *)

LEMMA WorktreesStep ==
    ASSUME "crash" \notin Operations, TypeOK, TypeOK', OneKey, Overlapping, Followed, Worktrees,
           [Next]_vars
    PROVE  Worktrees'
<1>1. CASE UNCHANGED vars
  BY <1>1, SameMarks, SameCallsWorktrees DEF vars, Excused
<1>2. ASSUME NEW p \in Projects, CreateBench(p) \/ UnregisterEmpty(p) \/ ForceUnregister(p)
      PROVE  Worktrees'
  <2>1. CASE UnregisterEmpty(p)
    BY <2>1, SameMarks, SameCallsWorktrees DEF UnregisterEmpty, Excused, ghosts
  <2> QED
    BY <1>2, <2>1, CreateWorktrees, ForceUnregisterWorktrees
<1>3. ASSUME NEW k \in Keys,
             \/ StartAll(k) \/ UpdateBenchStatus(k) \/ CleanupAndRetry(k)
             \/ \E keep \in BOOLEAN : TeardownBench(k, keep)
             \/ Reconcile(k) \/ SweepList(k) \/ SweepRemove(k)
      PROVE  Worktrees'
  <2>1. ~Reconcile(k) /\ ~SweepList(k) /\ ~SweepRemove(k)
    BY DEF Worktrees, Booted, Reconcile, SweepList, SweepRemove
  <2> QED
    BY <1>3, <2>1, StartWorktrees, PollWorktrees, CleanupAndRetryWorktrees, TeardownWorktrees
<1>4. ASSUME NEW c \in Calls, CallStep(c)
      PROVE  Worktrees'
  <2>1. CASE RoundStep(c)
    BY <2>1, RoundFrame, RoundMarked, RoundHoused DEF Worktrees
  <2> QED
    BY <1>4, <2>1, SetupWorktrees, LaunchWorktrees, ClearWorktrees, RetryWorktrees,
       UnregisterWorktrees DEF CallStep
<1>5. ~Restart
  BY DEF Restart
<1> QED
  BY <1>1, <1>2, <1>3, <1>4, <1>5 DEF Next

LEMMA WorktreesAlways ==
    ASSUME "crash" \notin Operations
    PROVE  Spec => []Worktrees
<1>1. Init => Worktrees
  BY Parameters DEF Init, NoCall, Worktrees, Marked, Booted, Housed, Sought, Live, Retries, RetryPcs
<1>2. TypeOK /\ TypeOK' /\ Truthful /\ Overlapping /\ Followed /\ Worktrees /\ [Next]_vars
      => Worktrees'
  BY WorktreesStep DEF Truthful
<1> QED
  BY <1>1, <1>2, TypeCorrect, TruthfulAlways, OverlappingAlways, FollowedAlways, PTL DEF Spec

\* Between two starts of the server a bench a user can work in has its worktree, whatever
\* creations, Starts, Clears, retries and unregisters interleave: whoever takes a worktree
\* away is still at work, or has marked the bench. (Reconcile judges by an older list, and
\* the startup sweep can remove what was added since its own.)
THEOREM UsablesHoused == ASSUME "crash" \notin Operations PROVE Spec => []UsableHasWorktree
<1>1. Worktrees => UsableHasWorktree
  <2> SUFFICES ASSUME Worktrees, NEW k \in Keys, Usable(k), ~Busy(k), ~Unregistering(k[1]),
                      k \notin Excused
               PROVE  disk[k] = "tracked"
    BY DEF UsableHasWorktree, Excused
  <2>1. Sought(k) /\ Fits(bench[benches[k]])
    BY DEF Usable, Sought, Fits
  <2>2. ~Working(k)
    BY DEF Busy, On, Working, Works, AtRound, AtRemoval
  <2> QED
    BY <2>1, <2>2 DEF Worktrees, Housed
<1> QED
  BY <1>1, WorktreesAlways, PTL

==============================================================================
