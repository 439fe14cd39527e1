------------------------- MODULE BenchOverlap_proofs -------------------------
(***************************************************************************)
(* Proofs about the calls of BenchLifecycle that are in flight on one key: *)
(* which round a Clear and an unregister find, that they remove nothing    *)
(* beside a round that writes, what is left of an unregistered project and *)
(* of a slot that was freed, and when the rounds of a bench that is gone   *)
(* are over -- for any number of projects, slots, bench objects and calls. *)
(***************************************************************************)
EXTENDS BenchLifecycle_proofs

-----------------------------------------------------------------------------
(* The invariant. A key is excused from it once it is contested. *)

AtRound(c)   == call[c].pc \in RoundPcs
AtRemoval(c) == call[c].pc \in ClearPcs \cup RetryPcs
Idle(c)      == call[c].pc \notin {"add", "submodules"}

\* The Clear or the unregister of c takes the worktree of key k.
Takes(c, k) == \/ call[c].pc \in ClearPcs /\ call[c].key = k
               \/ call[c].pc \in UnregPcs /\ call[c].key[1] = k[1]

\* A round is the one its key names, or it belongs to a bench that is gone, and then
\* it was aborted and is past the commands that write the worktree.
Placed ==
    \A d \in Calls : LET k == call[d].key IN
        AtRound(d) => \/ k \in contested
                      \/ benches[k] = call[d].id /\ round[k] = d
                      \/ benches[k] # call[d].id /\ call[d].aborted /\ Idle(d)

\* Who takes a worktree has aborted the rounds on its key, and waits for those that
\* may still write it.
Waited ==
    \A c, d \in Calls : LET k == call[d].key IN
        AtRound(d) /\ Takes(c, k) =>
            \/ k \in contested
            \/ call[d].aborted /\ (Idle(d) \/ d \in call[c].wait)

\* A removal is the only one of its key, and of the bench that is live there; no round
\* runs beside a Cleanup & Retry.
Removals ==
    \A c \in Calls : LET k == call[c].key IN
        AtRemoval(c) =>
            \/ k \in contested
            \/ /\ k[1] \in registered => benches[k] = call[c].id
               /\ \A d \in Calls : AtRemoval(d) /\ call[d].key = k => d = c
               /\ call[c].pc \in RetryPcs
                    => \A d \in Calls : AtRound(d) => call[d].key # k

\* The unregister of a project is the only one, and holds its records.
Unregisterings ==
    \A u \in Calls : LET p == call[u].key[1] IN
        call[u].pc \in UnregPcs =>
            /\ p \in registered
            /\ \A v \in Calls : call[v].pc \in UnregPcs /\ call[v].key[1] = p => v = u
            /\ \A k \in Keys : k[1] = p /\ recorded[k] # None
                                 => k \in call[u].recs \cup contested

\* The wait is over when a Clear or an unregister goes on.
Past(c) == call[c].pc \in (ClearPcs \ {"tdWait"}) \cup (UnregPcs \ {"urWait"})

WaitsFirst == \A c \in Calls : Past(c) => call[c].wait = {}

Overlapping == Placed /\ Waited /\ Removals /\ Unregisterings /\ WaitsFirst
               /\ UnregisterDropsBenches

-----------------------------------------------------------------------------
(* Most steps only move calls on within their operation, or end them. *)

Others == {"done", "setup", "launch"}

LEMMA Classes ==
    /\ RoundPcs \cap (RetryPcs \cup ClearPcs \cup UnregPcs \cup Others) = {}
    /\ RetryPcs \cap (ClearPcs \cup UnregPcs \cup Others) = {}
    /\ ClearPcs \cap (UnregPcs \cup Others) = {}
    /\ UnregPcs \cap Others = {}
    /\ Pcs = RoundPcs \cup RetryPcs \cup ClearPcs \cup UnregPcs \cup Others
BY DEF RoundPcs, RetryPcs, ClearPcs, UnregPcs, Others, Pcs

\* A call that stays in its operation keeps what it is about; an aborted round starts
\* no command that writes.
Stays(d) ==
    /\ call'[d].pc \in RoundPcs <=> call[d].pc \in RoundPcs
    /\ call'[d].pc \in RetryPcs <=> call[d].pc \in RetryPcs
    /\ call'[d].pc \in ClearPcs <=> call[d].pc \in ClearPcs
    /\ call'[d].pc \in UnregPcs <=> call[d].pc \in UnregPcs
    /\ call'[d].key = call[d].key /\ call'[d].id = call[d].id
    /\ call'[d].recs = call[d].recs
    /\ call[d].aborted => call'[d].aborted
    /\ call[d].aborted /\ Idle(d) => Idle(d)'
    /\ call'[d].wait \subseteq call[d].wait
    /\ Past(d)' => Past(d) \/ call'[d].wait = {}

Ends(d) == call'[d].pc \in Others

\* A call gives up waiting for a round only when it does not write.
Waits(c) == \A d \in Calls : AtRound(d)' /\ d \in call[c].wait
                => d \in call'[c].wait \/ Idle(d)'

\* A record appears only by a round that was not aborted.
RecordsByRound ==
    \A k \in Keys : recorded'[k] # None =>
        \/ recorded[k] # None
        \/ /\ Live(k)
           /\ \E d \in Calls : AtRound(d) /\ call[d].key = k /\ ~call[d].aborted

KeepsRounds ==
    \A d \in Calls : LET k == call[d].key IN
        AtRound(d) /\ AtRound(d)' /\ round[k] = d => k \in contested \/ round'[k] = d

Moves ==
    /\ \A d \in Calls : (Stays(d) /\ Waits(d)) \/ Ends(d)
    /\ UNCHANGED <<registered, benches>>
    /\ contested \subseteq contested'
    /\ RecordsByRound /\ KeepsRounds

LEMMA MovesKeep ==
    ASSUME TypeOK, Overlapping, Moves
    PROVE  Overlapping'
<1> USE DEF Overlapping
<1>1. ASSUME NEW d \in Calls, call'[d].pc \notin Others
      PROVE  /\ Stays(d) /\ Waits(d)
             /\ AtRound(d)' <=> AtRound(d)
             /\ AtRemoval(d)' <=> AtRemoval(d)
             /\ call'[d].key = call[d].key
             /\ \A k : Takes(d, k)' <=> Takes(d, k)
  BY <1>1 DEF Moves, Ends, Stays, AtRound, AtRemoval, Takes
<1>2. ASSUME NEW d \in Calls, AtRound(d)' \/ AtRemoval(d)' \/ call'[d].pc \in UnregPcs
      PROVE  call'[d].pc \notin Others
  BY <1>2, Classes DEF AtRound, AtRemoval
<1>3. Placed'
  <2> SUFFICES ASSUME NEW d \in Calls, AtRound(d)'
               PROVE  LET k == call'[d].key IN
                      \/ k \in contested'
                      \/ benches'[k] = call'[d].id /\ round'[k] = d
                      \/ benches'[k] # call'[d].id /\ call'[d].aborted /\ Idle(d)'
    BY DEF Placed
  <2>1. AtRound(d) /\ Stays(d)
    BY <1>1, <1>2
  <2> QED
    BY <2>1 DEF Placed, Moves, KeepsRounds, Stays
<1>4. Waited'
  <2> SUFFICES ASSUME NEW c \in Calls, NEW d \in Calls,
                      AtRound(d)' /\ Takes(c, call[d].key)', call'[d].key = call[d].key
               PROVE  LET k == call[d].key IN
                      \/ k \in contested'
                      \/ call'[d].aborted /\ (Idle(d)' \/ d \in call'[c].wait)
    BY <1>1, <1>2 DEF Waited
  <2>1. AtRound(d) /\ Stays(d)
    BY <1>1, <1>2
  <2>2. call'[c].pc \notin Others
    BY Classes DEF Takes
  <2>3. Takes(c, call[d].key) /\ Waits(c)
    BY <1>1, <2>2
  <2> QED
    BY <2>1, <2>3 DEF Waited, Moves, Stays, Waits
<1>5. Removals'
  <2> SUFFICES ASSUME NEW c \in Calls, AtRemoval(c)'
               PROVE  LET k == call'[c].key IN
                      \/ k \in contested'
                      \/ /\ k[1] \in registered' => benches'[k] = call'[c].id
                         /\ \A d \in Calls : AtRemoval(d)' /\ call'[d].key = k => d = c
                         /\ call'[c].pc \in RetryPcs
                              => \A d \in Calls : AtRound(d)' => call'[d].key # k
    BY DEF Removals
  <2>1. AtRemoval(c) /\ Stays(c)
    BY <1>1, <1>2
  <2> QED
    BY <1>1, <1>2, <2>1 DEF Removals, Moves, Stays
<1>6. Unregisterings'
  <2> SUFFICES ASSUME NEW u \in Calls, call'[u].pc \in UnregPcs
               PROVE  LET p == call'[u].key[1] IN
                      /\ p \in registered'
                      /\ \A v \in Calls : call'[v].pc \in UnregPcs /\ call'[v].key[1] = p => v = u
                      /\ \A k \in Keys : k[1] = p /\ recorded'[k] # None
                                           => k \in call'[u].recs \cup contested'
    BY DEF Unregisterings
  <2>1. call[u].pc \in UnregPcs /\ Stays(u)
    BY <1>1, <1>2 DEF Stays
  <2>2. \A v \in Calls : call'[v].pc \in UnregPcs
                           => call[v].pc \in UnregPcs /\ call'[v].key = call[v].key
    BY <1>1, <1>2 DEF Stays
  <2>3. ASSUME NEW k \in Keys, k[1] = call[u].key[1], recorded'[k] # None
        PROVE  k \in call[u].recs \cup contested
    <3>1. ASSUME NEW d \in Calls, AtRound(d), call[d].key = k, ~call[d].aborted
          PROVE  k \in contested
      BY <2>1, <2>3, <3>1 DEF Waited, Takes
    <3> QED
      BY <2>1, <2>3, <3>1 DEF Unregisterings, Moves, RecordsByRound
  <2> QED
    BY <2>1, <2>2, <2>3 DEF Unregisterings, Moves, Stays
<1>7. WaitsFirst'
  <2> SUFFICES ASSUME NEW c \in Calls, Past(c)' PROVE call'[c].wait = {}
    BY DEF WaitsFirst
  <2>1. call'[c].pc \notin Others
    BY Classes DEF Past
  <2> QED
    BY <1>1, <2>1 DEF WaitsFirst, Stays
<1>8. UnregisterDropsBenches'
  BY DEF UnregisterDropsBenches, Moves, RecordsByRound, Live
<1> QED
  BY <1>3, <1>4, <1>5, <1>6, <1>7, <1>8

-----------------------------------------------------------------------------
(* Rounds only move on: a step of a round goes to another command or ends it. *)

MovesOn(c) == \E pc \in RoundPcs : /\ Goto(c, pc) /\ UNCHANGED round
                                   /\ call[c].aborted => pc \notin {"add", "submodules"}
RoundEnds(c) == \E r \in Bench : EndRound(c, r)

LEMMA RoundMoves ==
    ASSUME TypeOK, NEW c \in Calls, call[c].pc \in RoundPcs
    PROVE  /\ BeforeAdd(c) => MovesOn(c) \/ RoundEnds(c)
           /\ EnterAdd(c) => MovesOn(c) \/ RoundEnds(c)
           /\ EndFailed(c) => RoundEnds(c)
           /\ FailRound(c) => MovesOn(c) \/ RoundEnds(c)
           /\ RecordBench(c) => RoundEnds(c) /\ (call[c].aborted => UNCHANGED state)
<1> DEFINE b == call[c].id
<1>1. b \in Ids /\ bench[b] \in Bench
  BY RoundCall
<1>2. {"preList", "add", "failList"} \subseteq RoundPcs
  BY DEF RoundPcs
<1>3. BeforeAdd(c) => MovesOn(c) \/ RoundEnds(c)
  BY <1>1, <1>2 DEF BeforeAdd, MovesOn, RoundEnds, Stopped
<1>4. EnterAdd(c) => MovesOn(c) \/ RoundEnds(c)
  BY <1>1, <1>2 DEF EnterAdd, MovesOn, RoundEnds
<1>5. EndFailed(c) => RoundEnds(c)
  BY <1>1 DEF EndFailed, RoundEnds
<1>6. FailRound(c) => MovesOn(c) \/ RoundEnds(c)
  <2>1. [bench[b] EXCEPT !.status = "error", !.err = TRUE] \in Bench
    BY <1>1 DEF Bench, Status
  <2> QED
    BY <1>1, <1>2, <2>1 DEF FailRound, MovesOn, RoundEnds
<1>7. RecordBench(c) => RoundEnds(c) /\ (call[c].aborted => UNCHANGED state)
  <2>1. [bench[b] EXCEPT !.status = "idle"] \in Bench
    BY <1>1 DEF Bench, Status
  <2> QED
    BY <1>1, <2>1 DEF RecordBench, RoundEnds, Stopped
<1> QED
  BY <1>3, <1>4, <1>5, <1>6, <1>7

LEMMA RoundStepMoves ==
    ASSUME TypeOK, NEW c \in Calls, RoundStep(c)
    PROVE  /\ call[c].pc \in RoundPcs
           /\ MovesOn(c) \/ RoundEnds(c)
           /\ call[c].aborted => SameRecords
           /\ UNCHANGED contested
<1>1. call[c].pc \in RoundPcs
  BY DEF RoundStep, RoundPcs, ResolveEnds, FetchEnds, PullEnds, PreListEnds, PreRemoveEnds,
         AddEnds, InspectEnds, SubmodulesEnd, FailListEnds, FailRemoveEnds
<1>2. {"fetch", "pull", "preRemove", "inspect", "submodules", "failRemove"} \subseteq RoundPcs
  BY DEF RoundPcs
<1>3. EndRound(c, bench[call[c].id]) => RoundEnds(c)
  BY <1>1, RoundCall DEF RoundEnds
<1>4. \A pc \in RoundPcs \ {"add", "submodules"} :
        Goto(c, pc) /\ UNCHANGED round => MovesOn(c)
  BY DEF MovesOn
<1> USE <1>1, <1>2, RoundMoves, StateUnchanged DEF ghosts
<1>5. CASE ResolveEnds(c)
  BY <1>3, <1>4, <1>5, FailRoundEffect DEF ResolveEnds
<1>6. CASE FetchEnds(c)
  BY <1>4, <1>6, FailRoundEffect DEF FetchEnds
<1>7. CASE PullEnds(c)
  BY <1>7, FailRoundEffect DEF PullEnds
<1>8. CASE PreListEnds(c)
  BY <1>4, <1>8 DEF PreListEnds
<1>9. CASE PreRemoveEnds(c)
  BY <1>9 DEF PreRemoveEnds
<1>10. CASE AddEnds(c)
  BY <1>3, <1>4, <1>10, FailRoundEffect DEF AddEnds
<1>11. CASE InspectEnds(c)
  <2>1. CASE MetaRepo /\ ~Stopped(c) /\ Goto(c, "submodules") /\ UNCHANGED <<round, bench, state>>
    BY <1>11, <2>1 DEF InspectEnds, MovesOn, Stopped
  <2> QED
    BY <1>11, <2>1, FailRoundEffect DEF InspectEnds
<1>12. CASE SubmodulesEnd(c)
  BY <1>12 DEF SubmodulesEnd
<1>13. CASE FailListEnds(c)
  BY <1>4, <1>13, EndFailedEffect DEF FailListEnds
<1>14. CASE FailRemoveEnds(c)
  BY <1>14, EndFailedEffect DEF FailRemoveEnds
<1> QED
  BY <1>5, <1>6, <1>7, <1>8, <1>9, <1>10, <1>11, <1>12, <1>13, <1>14 DEF RoundStep

\* The steps that leave the other calls alone.
LEMMA OneCallMoves ==
    ASSUME TypeOK, NEW c \in Calls, \A d \in Calls \ {c} : call'[d] = call[d],
           (Stays(c) /\ Waits(c)) \/ Ends(c)
    PROVE  \A d \in Calls : (Stays(d) /\ Waits(d)) \/ Ends(d)
<1> SUFFICES ASSUME NEW d \in Calls, d # c PROVE Stays(d) /\ Waits(d)
  OBVIOUS
<1>1. call'[d] = call[d]
  OBVIOUS
<1>2. Stays(d)
  BY <1>1 DEF Stays, Past, Idle
<1> QED
  BY <1>1, <1>2 DEF Waits

LEMMA RoundStepKeeps ==
    ASSUME TypeOK, Overlapping, NEW c \in Calls, RoundStep(c)
    PROVE  Overlapping'
<1> DEFINE k == call[c].key
<1>1. /\ call[c].pc \in RoundPcs
      /\ MovesOn(c) \/ RoundEnds(c)
      /\ call[c].aborted => SameRecords
      /\ UNCHANGED contested
  BY RoundStepMoves
<1>2. /\ k \in Keys /\ UNCHANGED <<registered, benches>>
      /\ SameRecords \/ Records(k)
  BY RoundStepEffect
<1>3. RecordsByRound
  BY <1>1, <1>2 DEF RecordsByRound, SameRecords, Records, AtRound
<1>4. CASE MovesOn(c)
  <2>1. PICK pc \in RoundPcs : /\ Goto(c, pc) /\ UNCHANGED round
                               /\ call[c].aborted => pc \notin {"add", "submodules"}
    BY <1>4 DEF MovesOn
  <2>2. call'[c] = [call[c] EXCEPT !.pc = pc] /\ \A d \in Calls \ {c} : call'[d] = call[d]
    BY <2>1 DEF Goto, TypeOK
  <2>3. call[c] \in CallRecord
    BY DEF TypeOK, Call
  <2>4. /\ call'[c].pc = pc /\ call'[c].key = call[c].key /\ call'[c].id = call[c].id
        /\ call'[c].recs = call[c].recs /\ call'[c].aborted = call[c].aborted
        /\ call'[c].wait = call[c].wait
    BY <2>2, <2>3 DEF CallRecord
  <2>5. Stays(c)
    BY <1>1, <2>1, <2>4, Classes DEF Stays, Idle, Past
  <2>6. Waits(c)
    BY <2>4 DEF Waits
  <2>7. KeepsRounds
    BY <2>1 DEF KeepsRounds
  <2> QED
    BY <1>1, <1>2, <1>3, <2>2, <2>5, <2>6, <2>7, OneCallMoves, MovesKeep DEF Moves
<1>5. CASE RoundEnds(c)
  <2>1. PICK r \in Bench : EndRound(c, r)
    BY <1>5 DEF RoundEnds
  <2>2. \A d \in Calls \ {c} : call'[d] = [call[d] EXCEPT !.wait = @ \ {c}]
    BY <2>1 DEF EndRound
  <2>3. Ends(c)
    <3>1. call'[c].pc \in {NoCall.pc, FirstStep(r)}
      BY <2>1 DEF EndRound, NoCall
    <3> QED
      BY <3>1 DEF NoCall, FirstStep, Ends, Others
  <2>4. ASSUME NEW d \in Calls \ {c} PROVE Stays(d) /\ Waits(d)
    <3>1. call[d] \in CallRecord
      BY DEF TypeOK, Call
    <3>2. /\ call'[d].pc = call[d].pc /\ call'[d].key = call[d].key
          /\ call'[d].id = call[d].id /\ call'[d].recs = call[d].recs
          /\ call'[d].aborted = call[d].aborted /\ call'[d].wait = call[d].wait \ {c}
      BY <2>2, <3>1 DEF CallRecord
    <3>3. Stays(d)
      BY <3>2 DEF Stays, Idle, Past
    <3>4. ~AtRound(c)'
      BY <2>3, Classes DEF Ends, AtRound
    <3> QED
      BY <3>2, <3>3, <3>4 DEF Waits
  <2>5. KeepsRounds
    <3>1. round' = [round EXCEPT ![k] = IF @ = c THEN None ELSE @]
      BY <2>1 DEF EndRound, DropRound
    <3>2. ~AtRound(c)'
      BY <2>3, Classes DEF Ends, AtRound
    <3> QED
      BY <1>2, <3>1, <3>2 DEF KeepsRounds, TypeOK
  <2> QED
    BY <1>1, <1>2, <1>3, <2>3, <2>4, <2>5, MovesKeep DEF Moves
<1> QED
  BY <1>1, <1>4, <1>5

-----------------------------------------------------------------------------
(* The other steps that only move a call on or end it *)

LEMMA NoRecordMoves ==
    ASSUME SameRecords
    PROVE  RecordsByRound
BY DEF SameRecords, RecordsByRound

LEMMA SameCallsKeep ==
    ASSUME TypeOK, Overlapping, SameRecords,
           UNCHANGED <<registered, benches, round, call, contested>>
    PROVE  Overlapping'
<1>1. \A d \in Calls : Stays(d) /\ Waits(d)
  BY DEF Stays, Waits, Past, Idle
<1>2. KeepsRounds
  BY DEF KeepsRounds
<1> QED
  BY <1>1, <1>2, NoRecordMoves, MovesKeep DEF Moves

\* A step of one call that ends, or that goes on and waits for no round that writes.
LEMMA OneCallKeeps ==
    ASSUME TypeOK, Overlapping, RecordsByRound, KeepsRounds,
           UNCHANGED <<registered, benches, contested>>,
           NEW c \in Calls, \A d \in Calls \ {c} : call'[d] = call[d],
           (Stays(c) /\ Waits(c)) \/ Ends(c)
    PROVE  Overlapping'
BY OneCallMoves, MovesKeep DEF Moves

LEMMA GotoStays ==
    ASSUME TypeOK, NEW c \in Calls, NEW pc, Goto(c, pc),
           \/ call[c].pc \in ClearPcs \ {"tdWait"} /\ pc \in ClearPcs
           \/ call[c].pc \in RetryPcs /\ pc \in RetryPcs
           \/ call[c].pc \in UnregPcs \ {"urWait"} /\ pc \in UnregPcs
    PROVE  /\ Stays(c) /\ Waits(c)
           /\ \A d \in Calls \ {c} : call'[d] = call[d]
<1>1. call'[c] = [call[c] EXCEPT !.pc = pc] /\ \A d \in Calls \ {c} : call'[d] = call[d]
  BY DEF Goto, TypeOK
<1>2. call[c] \in CallRecord
  BY DEF TypeOK, Call
<1>3. /\ call'[c].pc = pc /\ call'[c].key = call[c].key /\ call'[c].id = call[c].id
      /\ call'[c].recs = call[c].recs /\ call'[c].aborted = call[c].aborted
      /\ call'[c].wait = call[c].wait
  BY <1>1, <1>2 DEF CallRecord
<1>4. {"add", "submodules"} \subseteq RoundPcs
  BY DEF RoundPcs
<1>5. Stays(c)
  BY <1>3, <1>4, Classes DEF Stays, Past, Idle
<1> QED
  BY <1>1, <1>3, <1>5 DEF Waits

LEMMA FinishEnds ==
    ASSUME TypeOK, NEW c \in Calls, Finish(c)
    PROVE  Ends(c) /\ \A d \in Calls \ {c} : call'[d] = call[d]
BY DEF TypeOK, Finish, NoCall, Ends, Others

LEMMA SameRoundsKept == ASSUME UNCHANGED round PROVE KeepsRounds
BY DEF KeepsRounds

LEMMA SmallStepsKeep ==
    ASSUME TypeOK, Overlapping,
           \/ \E k \in Keys : \/ StartAll(k) \/ UpdateBenchStatus(k) \/ Reconcile(k)
                              \/ SweepList(k) \/ SweepRemove(k)
           \/ \E c \in Calls : SetupEnds(c) \/ LaunchEnds(c)
    PROVE  Overlapping'
<1>1. ASSUME NEW k \in Keys, UpdateBenchStatus(k) \/ Reconcile(k) \/ SweepList(k) \/ SweepRemove(k)
      PROVE  Overlapping'
  <2>1. UNCHANGED <<registered, benches, round, call, contested>>
    BY <1>1 DEF UpdateBenchStatus, Reconcile, SweepList, SweepRemove, ghosts
  <2>2. SameRecords
    BY <1>1, UpdateBenchStatusEffect, ReconcileEffect, SweepEffect
  <2> QED
    BY <2>1, <2>2, SameCallsKeep
<1>2. ASSUME NEW k \in Keys, StartAll(k)
      PROVE  Overlapping'
  <2> DEFINE pc == FirstStep([bench[benches[k]] EXCEPT !.status = "preparing", !.err = FALSE])
  <2>1. PICK c \in Calls :
          call' = [call EXCEPT ![c] = [NoCall EXCEPT !.pc = pc, !.key = k, !.id = benches[k],
                                             !.on = IF pc = "launch" THEN benches[k] ELSE None]]
    BY <1>2 DEF StartAll
  <2>2. pc \in Others
    BY DEF FirstStep, Others
  <2> HIDE DEF pc
  <2>3. Ends(c) /\ \A d \in Calls \ {c} : call'[d] = call[d]
    BY <2>1, <2>2 DEF TypeOK, NoCall, Ends
  <2>4. UNCHANGED <<registered, benches, contested, round>>
    BY <1>2 DEF StartAll
  <2> QED
    BY <1>2, <2>3, <2>4, StartAllEffect, NoRecordMoves, SameRoundsKept, OneCallKeeps
<1>3. ASSUME NEW c \in Calls, SetupEnds(c) \/ LaunchEnds(c)
      PROVE  Overlapping'
  <2>1. \/ Finish(c)
        \/ call' = [call EXCEPT ![c].pc = "launch", ![c].on = benches[call[c].key]]
    BY <1>3 DEF SetupEnds, LaunchEnds
  <2>2. ASSUME call' = [call EXCEPT ![c].pc = "launch", ![c].on = benches[call[c].key]]
        PROVE  Ends(c) /\ \A d \in Calls \ {c} : call'[d] = call[d]
    <3>1. /\ call'[c] = [call[c] EXCEPT !.pc = "launch", !.on = benches[call[c].key]]
          /\ \A d \in Calls \ {c} : call'[d] = call[d]
      BY <2>2 DEF TypeOK
    <3>2. call[c] \in CallRecord
      BY DEF TypeOK, Call
    <3>3. call'[c].pc = "launch"
      BY <3>1, <3>2 DEF CallRecord
    <3> QED
      BY <3>1, <3>3 DEF Ends, Others
  <2>3. Ends(c) /\ \A d \in Calls \ {c} : call'[d] = call[d]
    BY <2>1, <2>2, FinishEnds
  <2>4. UNCHANGED <<registered, benches, contested, round>> /\ SameRecords
    BY <1>3, SetupEndsEffect, LaunchEndsEffect DEF SetupEnds, LaunchEnds, ghosts
  <2> QED
    BY <2>3, <2>4, NoRecordMoves, SameRoundsKept, OneCallKeeps
<1> QED
  BY <1>1, <1>2, <1>3

\* A removal's wait ends: it goes on past rounds that are parked where they do not write.
LEMMA WaitEndKeeps ==
    ASSUME TypeOK, Overlapping, NEW c \in Calls, WaitOver(c), NEW pc,
           \/ call[c].pc \in ClearPcs /\ pc \in ClearPcs
           \/ call[c].pc \in UnregPcs /\ pc \in UnregPcs,
           call' = [call EXCEPT ![c].pc = pc, ![c].wait = {}],
           UNCHANGED <<registered, benches, round, state, contested>>
    PROVE  Overlapping'
<1>1. /\ call'[c] = [call[c] EXCEPT !.pc = pc, !.wait = {}]
      /\ \A d \in Calls \ {c} : call'[d] = call[d]
  BY DEF TypeOK
<1>2. call[c] \in CallRecord
  BY DEF TypeOK, Call
<1>3. /\ call'[c].pc = pc /\ call'[c].key = call[c].key /\ call'[c].id = call[c].id
      /\ call'[c].recs = call[c].recs /\ call'[c].aborted = call[c].aborted
      /\ call'[c].wait = {}
  <2>1. ASSUME NEW r \in CallRecord, NEW s, s = [r EXCEPT !.pc = pc, !.wait = {}]
        PROVE  /\ s.pc = pc /\ s.key = r.key /\ s.id = r.id /\ s.recs = r.recs
               /\ s.aborted = r.aborted /\ s.wait = {}
    BY <2>1 DEF CallRecord
  <2> QED
    BY <1>1, <1>2, <2>1
<1>4. {"add", "submodules"} \subseteq RoundPcs
  BY DEF RoundPcs
<1>5. Stays(c)
  <2>1. /\ pc \in RoundPcs <=> call[c].pc \in RoundPcs
        /\ pc \in RetryPcs <=> call[c].pc \in RetryPcs
        /\ pc \in ClearPcs <=> call[c].pc \in ClearPcs
        /\ pc \in UnregPcs <=> call[c].pc \in UnregPcs
        /\ pc \notin {"add", "submodules"}
    BY <1>4, Classes
  <2> QED
    BY <1>3, <2>1 DEF Stays, Idle
<1>6. Waits(c)
  <2> SUFFICES ASSUME NEW d \in Calls, AtRound(d)', d \in call[c].wait PROVE Idle(d)'
    BY DEF Waits
  <2>1. d # c
    BY <1>3, Classes DEF AtRound
  <2> QED
    BY <1>1, <2>1 DEF WaitOver, Killable, Idle
<1> QED
  BY <1>1, <1>5, <1>6, StateUnchanged, NoRecordMoves, SameRoundsKept, OneCallKeeps

-----------------------------------------------------------------------------
(* Clear *)

LEMMA FinishKeeps ==
    ASSUME TypeOK, Overlapping, NEW c \in Calls, Finish(c), SameRecords,
           UNCHANGED <<registered, benches, round, contested>>
    PROVE  Overlapping'
BY FinishEnds, NoRecordMoves, SameRoundsKept, OneCallKeeps

LEMMA GotoKeeps ==
    ASSUME TypeOK, Overlapping, NEW c \in Calls, NEW pc, Goto(c, pc), SameRecords,
           \/ call[c].pc \in ClearPcs \ {"tdWait"} /\ pc \in ClearPcs
           \/ call[c].pc \in RetryPcs /\ pc \in RetryPcs
           \/ call[c].pc \in UnregPcs \ {"urWait"} /\ pc \in UnregPcs,
           UNCHANGED <<registered, benches, round, contested>>
    PROVE  Overlapping'
BY GotoStays, NoRecordMoves, SameRoundsKept, OneCallKeeps

\* What a step that ends call c, and touches no other call, leaves of the calls.
LEMMA FinishCalls ==
    ASSUME TypeOK, NEW c \in Calls, Finish(c)
    PROVE  /\ ~AtRound(c)' /\ ~AtRemoval(c)' /\ call'[c].pc \notin UnregPcs /\ ~Past(c)'
           /\ \A k : ~Takes(c, k)'
           /\ \A d \in Calls \ {c} : call'[d] = call[d]
           /\ \A d \in Calls \ {c} : AtRound(d)' <=> AtRound(d)
           /\ \A d \in Calls \ {c} : AtRemoval(d)' <=> AtRemoval(d)
           /\ \A d \in Calls \ {c} : \A k : Takes(d, k)' <=> Takes(d, k)
           /\ \A d \in Calls \ {c} : Idle(d)' <=> Idle(d)
           /\ \A d \in Calls \ {c} : Past(d)' <=> Past(d)
<1>1. call'[c].pc \in Others /\ \A d \in Calls \ {c} : call'[d] = call[d]
  BY FinishEnds DEF Ends
<1> QED
  BY <1>1, Classes DEF AtRound, AtRemoval, Past, Takes, Idle

\* Beside a removal whose wait is over the rounds of its keys no longer write.
LEMMA WaitIsOver ==
    ASSUME Waited, WaitsFirst, NEW c \in Calls, Past(c), NEW d \in Calls, AtRound(d),
           Takes(c, call[d].key)
    PROVE  call[d].key \in contested \/ (call[d].aborted /\ Idle(d))
BY DEF Waited, WaitsFirst

\* The bench of the Clear goes with its record: rounds still at its key were aborted.
LEMMA ClearSucceedsKeeps ==
    ASSUME TypeOK, Overlapping, NEW c \in Calls, call[c].pc \in ClearPcs \ {"tdWait"},
           ClearSucceeds(c), UNCHANGED <<registered, contested>>
    PROVE  Overlapping'
<1> USE DEF Overlapping
<1> DEFINE k == call[c].key
<1>1. /\ k \in Keys /\ Finish(c)
      /\ benches' = [benches EXCEPT ![k] = None] /\ round' = [round EXCEPT ![k] = None]
      /\ recorded' = [recorded EXCEPT ![k] = None]
  BY ClearCall DEF ClearSucceeds, RemoveRecord
<1>2. Past(c) /\ AtRemoval(c)
  BY DEF Past, AtRemoval
<1>3. Placed'
  <2> SUFFICES ASSUME NEW d \in Calls, AtRound(d)'
               PROVE  LET j == call'[d].key IN
                      \/ j \in contested'
                      \/ benches'[j] = call'[d].id /\ round'[j] = d
                      \/ benches'[j] # call'[d].id /\ call'[d].aborted /\ Idle(d)'
    BY DEF Placed
  <2>1. d # c /\ AtRound(d) /\ call'[d] = call[d] /\ (Idle(d)' <=> Idle(d))
    BY <1>1, FinishCalls
  <2>2. CASE call[d].key = k
    <3>1. k \in contested \/ (call[d].aborted /\ Idle(d))
      BY <1>2, <2>1, <2>2, WaitIsOver DEF Takes
    <3>2. call[d].id # None
      BY <2>1, RoundCall, Parameters DEF AtRound
    <3> QED
      BY <1>1, <2>1, <2>2, <3>1, <3>2 DEF TypeOK
  <2>3. CASE call[d].key # k
    BY <1>1, <2>1, <2>3, RoundCall DEF Placed, TypeOK, AtRound
  <2> QED
    BY <2>2, <2>3
<1>4. Waited'
  BY <1>1, FinishCalls DEF Waited
<1>5. Removals'
  <2> SUFFICES ASSUME NEW d \in Calls, AtRemoval(d)'
               PROVE  LET j == call'[d].key IN
                      \/ j \in contested'
                      \/ /\ j[1] \in registered' => benches'[j] = call'[d].id
                         /\ \A e \in Calls : AtRemoval(e)' /\ call'[e].key = j => e = d
                         /\ call'[d].pc \in RetryPcs
                              => \A e \in Calls : AtRound(e)' => call'[e].key # j
    BY DEF Removals
  <2>1. d # c /\ AtRemoval(d) /\ call'[d] = call[d]
    BY <1>1, FinishCalls
  <2>2. CASE call[d].key = k
    BY <1>2, <2>1, <2>2 DEF Removals
  <2>3. CASE call[d].key # k
    BY <1>1, <2>1, <2>3, FinishCalls DEF Removals, TypeOK
  <2> QED
    BY <2>2, <2>3
<1>6. Unregisterings'
  BY <1>1, FinishCalls DEF Unregisterings, TypeOK
<1>7. WaitsFirst'
  BY <1>1, FinishCalls DEF WaitsFirst
<1>8. UnregisterDropsBenches'
  BY <1>1 DEF UnregisterDropsBenches, Live, TypeOK
<1> QED
  BY <1>3, <1>4, <1>5, <1>6, <1>7, <1>8

LEMMA ClearStepKeeps ==
    ASSUME TypeOK, Overlapping, NEW c \in Calls, ClearStep(c)
    PROVE  Overlapping'
<1>1. {"tdWait", "tdStop", "tdList", "tdRemove", "tdBranch", "tdLeftover"} \subseteq ClearPcs
  BY DEF ClearPcs
<1>2. ASSUME call[c].pc \in ClearPcs, ClearFails(c), UNCHANGED <<registered, contested>>
      PROVE  Overlapping'
  BY <1>2, ClearFailsEffect, FinishKeeps DEF ClearFails
<1>3. CASE ClearWaitEnds(c)
  BY <1>1, <1>3, WaitEndKeeps DEF ClearWaitEnds
<1>4. CASE ClearStopEnds(c)
  <2>1. CASE Goto(c, "tdList") /\ UNCHANGED <<benches, bench, round, state, left>>
    BY <1>1, <1>4, <2>1, GotoKeeps, StateUnchanged DEF ClearStopEnds
  <2> QED
    BY <1>1, <1>2, <1>4, <2>1, ClearSucceedsKeeps DEF ClearStopEnds
<1>5. CASE ClearListEnds(c)
  BY <1>1, <1>5, GotoKeeps, StateUnchanged DEF ClearListEnds, ghosts
<1>6. CASE ClearRemoveEnds(c)
  <2>1. CASE Goto(c, "tdBranch") /\ UNCHANGED <<benches, bench, round, state, left>>
    BY <1>1, <1>6, <2>1, GotoKeeps, StateUnchanged DEF ClearRemoveEnds
  <2> QED
    BY <1>1, <1>2, <1>6, <2>1 DEF ClearRemoveEnds
<1>7. CASE ClearBranchEnds(c)
  BY <1>1, <1>2, <1>7, ClearSucceedsKeeps DEF ClearBranchEnds
<1> QED
  BY <1>3, <1>4, <1>5, <1>6, <1>7 DEF ClearStep

\* A Clear or an unregister begins: it aborts the rounds it finds, and waits for them.
Begins(c, r, cs) == FreeCall(c) /\ call' = Abort(cs, [call EXCEPT ![c] = r])

LEMMA AbortedCalls ==
    ASSUME TypeOK, NEW c \in Calls, NEW r \in Call, NEW cs, Begins(c, r, cs)
    PROVE  /\ call'[c].pc = r.pc /\ call'[c].key = r.key /\ call'[c].id = r.id
           /\ call'[c].wait = r.wait /\ call'[c].recs = r.recs
           /\ \A d \in Calls \ {c} :
                /\ call'[d].pc = call[d].pc /\ call'[d].key = call[d].key
                /\ call'[d].id = call[d].id /\ call'[d].wait = call[d].wait
                /\ call'[d].recs = call[d].recs
                /\ call[d].aborted \/ d \in cs => call'[d].aborted
<1>1. ASSUME NEW s \in Call
      PROVE  LET t == [s EXCEPT !.aborted = TRUE] IN
             /\ t.pc = s.pc /\ t.key = s.key /\ t.id = s.id /\ t.wait = s.wait
             /\ t.recs = s.recs /\ t.aborted
  BY DEF Call, CallRecord
<1>2. call'[c] = r \/ call'[c] = [r EXCEPT !.aborted = TRUE]
  BY DEF Begins, Abort, TypeOK
<1>3. \A d \in Calls \ {c} :
        call'[d] = IF d \in cs THEN [call[d] EXCEPT !.aborted = TRUE] ELSE call[d]
  BY DEF Begins, Abort, TypeOK
<1>4. call'[c].pc = r.pc /\ call'[c].key = r.key /\ call'[c].id = r.id
      /\ call'[c].wait = r.wait /\ call'[c].recs = r.recs
  BY <1>1, <1>2
<1>5. ASSUME NEW d \in Calls \ {c}
      PROVE  /\ call'[d].pc = call[d].pc /\ call'[d].key = call[d].key
             /\ call'[d].id = call[d].id /\ call'[d].wait = call[d].wait
             /\ call'[d].recs = call[d].recs
             /\ call[d].aborted \/ d \in cs => call'[d].aborted
  <2>1. call[d] \in Call
    BY DEF TypeOK
  <2>2. CASE d \in cs
    <3>1. call'[d] = [call[d] EXCEPT !.aborted = TRUE]
      BY <1>3, <2>2
    <3> QED
      BY <1>1, <2>1, <2>2, <3>1
  <2>3. CASE d \notin cs
    BY <1>3, <2>3
  <2> QED
    BY <2>2, <2>3
<1> QED
  BY <1>4, <1>5

LEMMA AbortKeeps ==
    ASSUME TypeOK, Overlapping, NEW c \in Calls, NEW r \in Call, NEW cs, Begins(c, r, cs),
           r.pc \in {"tdWait", "urWait"}, r.wait = cs \ {None},
           \A d \in Calls : LET k == call[d].key IN
               /\ AtRound(d) /\ benches[k] = call[d].id /\ round[k] = d
               /\ IF r.pc = "tdWait" THEN r.key = k ELSE r.key[1] = k[1]
               => d \in cs,
           UNCHANGED <<benches, round>>, contested \subseteq contested'
    PROVE  Placed' /\ Waited' /\ WaitsFirst'
<1> USE DEF Overlapping
<1>1. \A d \in Calls \ {c} :
        /\ call'[d].pc = call[d].pc /\ call'[d].key = call[d].key
        /\ call'[d].id = call[d].id /\ call'[d].wait = call[d].wait
        /\ call[d].aborted \/ d \in cs => call'[d].aborted
  BY AbortedCalls
<1>2. /\ call'[c].pc = r.pc /\ call'[c].key = r.key /\ call'[c].wait = cs \ {None}
      /\ ~AtRound(c)' /\ ~Past(c)'
  <2>1. call'[c].pc = r.pc /\ call'[c].key = r.key /\ call'[c].wait = r.wait
    BY AbortedCalls
  <2> QED
    BY <2>1 DEF AtRound, Past, RoundPcs, ClearPcs, UnregPcs
<1>3. ASSUME NEW d \in Calls, AtRound(d)'
      PROVE  d # c /\ AtRound(d) /\ call'[d].key = call[d].key /\ (Idle(d) => Idle(d)')
  BY <1>1, <1>2, <1>3 DEF AtRound, Idle
<1>4. Placed'
  <2> SUFFICES ASSUME NEW d \in Calls, AtRound(d)'
               PROVE  LET k == call'[d].key IN
                      \/ k \in contested'
                      \/ benches'[k] = call'[d].id /\ round'[k] = d
                      \/ benches'[k] # call'[d].id /\ call'[d].aborted /\ Idle(d)'
    BY DEF Placed
  <2> QED
    BY <1>1, <1>3 DEF Placed
<1>5. Waited'
  <2> SUFFICES ASSUME NEW x \in Calls, NEW d \in Calls, AtRound(d)', Takes(x, call[d].key)',
                      call'[d].key = call[d].key
               PROVE  LET k == call[d].key IN
                      \/ k \in contested'
                      \/ call'[d].aborted /\ (Idle(d)' \/ d \in call'[x].wait)
    BY <1>3 DEF Waited
  <2>1. CASE x = c
    <3>1. d \in Calls /\ d # None
      BY Parameters
    <3>2. IF r.pc = "tdWait" THEN r.key = call[d].key ELSE r.key[1] = call[d].key[1]
      <4>1. Takes(c, call[d].key)'
        BY <2>1
      <4> QED
        BY <1>2, <1>3, <4>1 DEF Takes, ClearPcs, UnregPcs
    <3> QED
      BY <1>1, <1>2, <1>3, <2>1, <3>1, <3>2 DEF Placed
  <2>2. CASE x # c
    <3>1. Takes(x, call[d].key)
      BY <1>1, <2>2 DEF Takes
    <3> QED
      BY <1>1, <1>3, <2>2, <3>1 DEF Waited
  <2> QED
    BY <2>1, <2>2
<1>6. WaitsFirst'
  <2> SUFFICES ASSUME NEW x \in Calls, Past(x)' PROVE call'[x].wait = {}
    BY DEF WaitsFirst
  <2> QED
    BY <1>1, <1>2 DEF WaitsFirst, Past
<1> QED
  BY <1>4, <1>5, <1>6

LEMMA TeardownBegins ==
    ASSUME TypeOK, NEW k \in Keys, NEW keep \in BOOLEAN, TeardownBench(k, keep)
    PROVE  \E c \in Calls, r \in Call :
               /\ Begins(c, r, {round[k]})
               /\ r.pc = "tdWait" /\ r.key = k /\ r.id = benches[k]
               /\ r.wait = {round[k]} \ {None}
<1> DEFINE r == [NoCall EXCEPT !.pc = "tdWait", !.key = k, !.id = benches[k],
                               !.keep = keep \/ k[1] \notin registered,
                               !.wait = {round[k]} \ {None}]
<1>1. PICK c \in Calls : Begins(c, r, {round[k]})
  BY DEF TeardownBench, Begins
<1>2. benches[k] \in Ids /\ {round[k]} \ {None} \subseteq Calls
  BY DEF TypeOK, TeardownBench, Live
<1>3. (keep \/ k[1] \notin registered) \in BOOLEAN
  OBVIOUS
<1>4. r.pc = "tdWait" /\ r.key = k /\ r.id = benches[k] /\ r.wait = {round[k]} \ {None}
  BY DEF NoCall
<1>5. "tdWait" \in Pcs /\ "tdWait" \notin UnregPcs
  BY DEF Pcs, ClearPcs, UnregPcs
<1>6. r \in CallRecord
  BY <1>2, <1>3, <1>5 DEF NoCall, CallRecord
<1> HIDE DEF r
<1>7. r \in Call
  BY <1>2, <1>4, <1>5, <1>6 DEF Call
<1> QED
  BY <1>1, <1>4, <1>7

LEMMA TeardownKeeps ==
    ASSUME TypeOK, Overlapping, NEW k \in Keys, NEW keep \in BOOLEAN, TeardownBench(k, keep)
    PROVE  Overlapping'
<1> USE DEF Overlapping
<1> DEFINE cs == {round[k]}
<1>1. PICK c \in Calls, r \in Call :
        /\ Begins(c, r, cs)
        /\ r.pc = "tdWait" /\ r.key = k /\ r.id = benches[k] /\ r.wait = cs \ {None}
  BY TeardownBegins
<1>3. /\ UNCHANGED <<registered, benches, round, state>> /\ contested \subseteq contested'
      /\ On(k, ClearPcs \cup RetryPcs) # {} => k \in contested'
  BY DEF TeardownBench, Overlaps
<1>4. /\ call'[c].pc = "tdWait" /\ call'[c].key = k /\ call'[c].id = benches[k]
      /\ \A d \in Calls \ {c} :
           /\ call'[d].pc = call[d].pc /\ call'[d].key = call[d].key
           /\ call'[d].id = call[d].id /\ call'[d].recs = call[d].recs
  BY <1>1, AbortedCalls
<1>5. Placed' /\ Waited' /\ WaitsFirst'
  BY <1>1, <1>3, AbortKeeps
<1>6. Removals'
  <2> SUFFICES ASSUME NEW x \in Calls, AtRemoval(x)'
               PROVE  LET j == call'[x].key IN
                      \/ j \in contested'
                      \/ /\ j[1] \in registered' => benches'[j] = call'[x].id
                         /\ \A y \in Calls : AtRemoval(y)' /\ call'[y].key = j => y = x
                         /\ call'[x].pc \in RetryPcs
                              => \A y \in Calls : AtRound(y)' => call'[y].key # j
    BY DEF Removals
  <2>1. \A y \in Calls \ {c} : AtRemoval(y)' <=> AtRemoval(y)
    BY <1>4 DEF AtRemoval
  <2>2. \A y \in Calls \ {c} : AtRemoval(y) /\ call[y].key = k => k \in contested'
    BY <1>3 DEF On, AtRemoval
  <2>3. call'[c].pc \notin RetryPcs /\ ~AtRound(c)'
    BY <1>4 DEF RetryPcs, RoundPcs, AtRound
  <2>4. CASE x = c
    BY <1>3, <1>4, <2>1, <2>2, <2>3, <2>4
  <2>5. CASE x # c /\ call[x].key = k
    BY <1>4, <2>1, <2>2, <2>5
  <2>6. CASE x # c /\ call[x].key # k
    <3>1. \A y \in Calls \ {c} : AtRound(y)' <=> AtRound(y)
      BY <1>4 DEF AtRound
    <3> QED
      BY <1>3, <1>4, <2>1, <2>3, <2>6, <3>1 DEF Removals
  <2> QED
    BY <2>4, <2>5, <2>6
<1>7. Unregisterings'
  <2>1. call'[c].pc \notin UnregPcs
    BY <1>4 DEF UnregPcs
  <2> QED
    BY <1>3, <1>4, <2>1 DEF Unregisterings, state
<1>8. UnregisterDropsBenches'
  BY <1>3 DEF UnregisterDropsBenches, Live, state
<1> QED
  BY <1>5, <1>6, <1>7, <1>8

-----------------------------------------------------------------------------
(* Cleanup & Retry, and the rounds that begin *)

LEMMA CleanupAndRetryKeeps ==
    ASSUME TypeOK, Overlapping, NEW k \in Keys, CleanupAndRetry(k)
    PROVE  Overlapping'
<1> USE DEF Overlapping
<1>1. PICK c \in Calls : /\ FreeCall(c)
                         /\ call' = [call EXCEPT ![c] = [NoCall EXCEPT !.pc = "rtStop", !.key = k,
                                                                       !.id = benches[k]]]
  BY DEF CleanupAndRetry
<1>2. /\ call'[c].pc = "rtStop" /\ call'[c].key = k /\ call'[c].id = benches[k]
      /\ \A d \in Calls \ {c} : call'[d] = call[d]
  BY <1>1 DEF TypeOK, NoCall
<1>3. /\ ~AtRound(c)' /\ ~Past(c)' /\ call'[c].pc \notin UnregPcs /\ \A j : ~Takes(c, j)'
  BY <1>2 DEF AtRound, Past, Takes, RoundPcs, ClearPcs, UnregPcs
<1>4. \A d \in Calls \ {c} : /\ AtRound(d)' <=> AtRound(d)
                             /\ AtRemoval(d)' <=> AtRemoval(d)
                             /\ \A j : Takes(d, j)' <=> Takes(d, j)
                             /\ Idle(d)' <=> Idle(d)
                             /\ Past(d)' <=> Past(d)
  BY <1>2 DEF AtRound, AtRemoval, Takes, Idle, Past
<1>5. /\ UNCHANGED <<registered, benches, round, state>> /\ contested \subseteq contested'
      /\ On(k, ClearPcs \cup RetryPcs \cup RoundPcs) # {} => k \in contested'
  BY DEF CleanupAndRetry, Overlaps
<1>6. Placed'
  BY <1>2, <1>3, <1>4, <1>5 DEF Placed
<1>7. Waited'
  BY <1>2, <1>3, <1>4, <1>5 DEF Waited
<1>8. Removals'
  <2> SUFFICES ASSUME NEW x \in Calls, AtRemoval(x)'
               PROVE  LET j == call'[x].key IN
                      \/ j \in contested'
                      \/ /\ j[1] \in registered' => benches'[j] = call'[x].id
                         /\ \A y \in Calls : AtRemoval(y)' /\ call'[y].key = j => y = x
                         /\ call'[x].pc \in RetryPcs
                              => \A y \in Calls : AtRound(y)' => call'[y].key # j
    BY DEF Removals
  <2>1. \A y \in Calls \ {c} : AtRemoval(y) \/ AtRound(y) => call[y].key # k \/ k \in contested'
    BY <1>5 DEF On, AtRemoval, AtRound
  <2>2. CASE x = c
    BY <1>2, <1>3, <1>4, <1>5, <2>1, <2>2
  <2>3. CASE x # c /\ call[x].key = k
    BY <1>2, <1>4, <2>1, <2>3
  <2>4. CASE x # c /\ call[x].key # k
    BY <1>2, <1>3, <1>4, <1>5, <2>4 DEF Removals
  <2> QED
    BY <2>2, <2>3, <2>4
<1>9. Unregisterings'
  BY <1>2, <1>3, <1>5 DEF Unregisterings, state
<1>10. WaitsFirst'
  BY <1>2, <1>3, <1>4 DEF WaitsFirst
<1>11. UnregisterDropsBenches'
  BY <1>5 DEF UnregisterDropsBenches, Live, state
<1> QED
  BY <1>6, <1>7, <1>8, <1>9, <1>10, <1>11

\* A round begins on a key that no other call works on, but for rounds of benches that
\* are gone.
BeginsRound(c, k) ==
    /\ \A d \in Calls \ {c} : call'[d] = call[d]
    /\ call'[c].pc = "resolve" /\ call'[c].key = k
    /\ call'[c].id = benches'[k] \/ k \in contested
    /\ round' = [round EXCEPT ![k] = c]
    /\ UNCHANGED <<registered, contested>>
    /\ \A j \in Keys \ {k} : benches'[j] = benches[j]
    /\ \A j \in Keys : recorded'[j] # None => recorded[j] # None
    /\ k[1] \in registered \/ k \in contested
    /\ ~Unregistering(k[1])
    /\ \A d \in Calls \ {c} : AtRemoval(d) => call[d].key # k \/ k \in contested
    /\ \A d \in Calls \ {c} : AtRound(d) /\ call[d].key = k =>
           k \in contested \/ (benches'[k] # call[d].id /\ call[d].aborted /\ Idle(d))

LEMMA NewRoundKeeps ==
    ASSUME TypeOK, Overlapping, NEW c \in Calls, NEW k \in Keys, BeginsRound(c, k)
    PROVE  Overlapping'
<1> USE DEF Overlapping, BeginsRound
<1>1. AtRound(c)' /\ ~AtRemoval(c)' /\ ~Past(c)' /\ call'[c].pc \notin UnregPcs
      /\ \A j : ~Takes(c, j)'
  BY DEF AtRound, AtRemoval, Past, Takes, RoundPcs, RetryPcs, ClearPcs, UnregPcs
<1>2. \A d \in Calls \ {c} : /\ AtRound(d)' <=> AtRound(d)
                             /\ AtRemoval(d)' <=> AtRemoval(d)
                             /\ \A j : Takes(d, j)' <=> Takes(d, j)
                             /\ Idle(d)' <=> Idle(d)
                             /\ Past(d)' <=> Past(d)
  BY DEF AtRound, AtRemoval, Takes, Idle, Past
<1>3. Placed'
  <2> SUFFICES ASSUME NEW d \in Calls, AtRound(d)'
               PROVE  LET j == call'[d].key IN
                      \/ j \in contested'
                      \/ benches'[j] = call'[d].id /\ round'[j] = d
                      \/ benches'[j] # call'[d].id /\ call'[d].aborted /\ Idle(d)'
    BY DEF Placed
  <2>1. CASE d = c
    BY <2>1 DEF TypeOK
  <2>2. CASE d # c /\ call[d].key = k
    BY <1>2, <2>2
  <2>3. CASE d # c /\ call[d].key # k
    <3>1. AtRound(d) /\ call[d].key \in Keys
      BY <1>2, <2>3, RoundCall DEF AtRound
    <3> QED
      BY <1>2, <2>3, <3>1 DEF Placed, TypeOK
  <2> QED
    BY <2>1, <2>2, <2>3
<1>4. Waited'
  <2> SUFFICES ASSUME NEW x \in Calls, NEW d \in Calls, AtRound(d)', Takes(x, call[d].key)',
                      x # c
               PROVE  LET j == call'[d].key IN
                      \/ j \in contested'
                      \/ call'[d].aborted /\ (Idle(d)' \/ d \in call'[x].wait)
    BY <1>1 DEF Waited
  <2>1. CASE d = c
    BY <1>1, <2>1 DEF Takes, AtRemoval, Unregistering
  <2>2. CASE d # c
    BY <1>2, <2>2 DEF Waited
  <2> QED
    BY <2>1, <2>2
<1>5. Removals'
  <2> SUFFICES ASSUME NEW x \in Calls, AtRemoval(x)'
               PROVE  LET j == call'[x].key IN
                      \/ j \in contested'
                      \/ /\ j[1] \in registered' => benches'[j] = call'[x].id
                         /\ \A y \in Calls : AtRemoval(y)' /\ call'[y].key = j => y = x
                         /\ call'[x].pc \in RetryPcs
                              => \A y \in Calls : AtRound(y)' => call'[y].key # j
    BY DEF Removals
  <2>1. x # c /\ AtRemoval(x) /\ call[x].key \in Keys
    BY <1>1, <1>2, RetryCall, ClearCall DEF AtRemoval
  <2>2. CASE call[x].key = k
    BY <2>1, <2>2
  <2>3. CASE call[x].key # k
    BY <1>1, <1>2, <2>1, <2>3 DEF Removals
  <2> QED
    BY <2>2, <2>3
<1>6. Unregisterings'
  BY <1>1 DEF Unregisterings
<1>7. WaitsFirst'
  BY <1>1, <1>2 DEF WaitsFirst
<1>8. UnregisterDropsBenches'
  BY DEF UnregisterDropsBenches, Live
<1> QED
  BY <1>3, <1>4, <1>5, <1>6, <1>7, <1>8

LEMMA CreateBegins ==
    ASSUME TypeOK, Overlapping, NEW p \in Projects, CreateBench(p)
    PROVE  \E c \in Calls, k \in Keys : BeginsRound(c, k) /\ benches[k] = None
<1>1. PICK n \in 1..MaxBenches, b \in Ids, c \in Calls :
        /\ ~Live(<<p, n>>) /\ FreeId(b) /\ FreeCall(c)
        /\ benches' = [benches EXCEPT ![<<p, n>>] = b]
        /\ round' = [round EXCEPT ![<<p, n>>] = c]
        /\ call' = [call EXCEPT ![c] = [NoCall EXCEPT !.pc = "resolve", !.key = <<p, n>>,
                                                      !.id = b, !.creates = TRUE]]
  BY DEF CreateBench
<1> DEFINE k == <<p, n>>
<1>2. k \in Keys /\ k[1] = p
  BY DEF Keys
<1>3. p \in registered /\ ~Unregistering(p) /\ UNCHANGED <<registered, contested, recorded>>
  BY DEF CreateBench, state
<1>4. benches[k] = None
  BY <1>1 DEF Live
<1> HIDE DEF k
<1>5. /\ benches' = [benches EXCEPT ![k] = b] /\ round' = [round EXCEPT ![k] = c]
      /\ call' = [call EXCEPT ![c] = [NoCall EXCEPT !.pc = "resolve", !.key = k, !.id = b,
                                                    !.creates = TRUE]]
  BY <1>1 DEF k
<1>6. /\ call'[c].pc = "resolve" /\ call'[c].key = k /\ call'[c].id = b /\ benches'[k] = b
      /\ \A d \in Calls \ {c} : call'[d] = call[d]
      /\ \A j \in Keys \ {k} : benches'[j] = benches[j]
  BY <1>2, <1>5 DEF TypeOK, NoCall
<1>7. ASSUME NEW d \in Calls, AtRemoval(d), call[d].key = k
      PROVE  k \in contested
  <2>1. call[d].id # None
    BY <1>7, RetryCall, ClearCall, Parameters DEF AtRemoval
  <2> QED
    BY <1>2, <1>3, <1>4, <1>7, <2>1 DEF Overlapping, Removals
<1>8. ASSUME NEW d \in Calls, AtRound(d), call[d].key = k
      PROVE  k \in contested \/ (b # call[d].id /\ call[d].aborted /\ Idle(d))
  <2>1. call[d].id # None
    BY <1>8, RoundCall, Parameters DEF AtRound
  <2>2. b # call[d].id
    BY <1>1 DEF FreeId
  <2> QED
    BY <1>4, <1>8, <2>1, <2>2 DEF Overlapping, Placed
<1>9. \A d \in Calls \ {c} : AtRemoval(d) => call[d].key # k \/ k \in contested
  BY <1>7
<1>10. \A d \in Calls \ {c} : AtRound(d) /\ call[d].key = k =>
          k \in contested \/ (benches'[k] # call[d].id /\ call[d].aborted /\ Idle(d))
  BY <1>6, <1>8
<1>11. BeginsRound(c, k)
  BY <1>2, <1>3, <1>5, <1>6, <1>9, <1>10 DEF BeginsRound
<1> QED
  BY <1>2, <1>4, <1>11

LEMMA CreateKeeps ==
    ASSUME TypeOK, Overlapping, NEW p \in Projects, CreateBench(p)
    PROVE  Overlapping'
BY CreateBegins, NewRoundKeeps

\* The retried bench gets its new round: nothing else works on its key.
LEMMA RetryBegins ==
    ASSUME TypeOK, Overlapping, NEW c \in Calls, call[c].pc \in RetryPcs, RetryResets(c),
           UNCHANGED <<registered, benches, contested>>, ~Finish(c)
    PROVE  BeginsRound(c, call[c].key)
<1> DEFINE k == call[c].key
<1>1. k \in Keys /\ AtRemoval(c)
  BY RetryCall DEF AtRemoval
<1>2. \A j \in Keys : recorded'[j] # None => recorded[j] # None
  BY <1>1, RetryResetsEffect DEF Drops
<1>3. \A d \in Calls : AtRound(d) /\ call[d].key = k => k \in contested
  BY <1>1 DEF Overlapping, Removals
<1>4. /\ ~Unregistering(k[1]) /\ Live(k)
      /\ round' = [round EXCEPT ![k] = c] /\ call' = [call EXCEPT ![c].pc = "resolve"]
  BY DEF RetryResets
<1>5. call'[c] = [call[c] EXCEPT !.pc = "resolve"] /\ \A d \in Calls \ {c} : call'[d] = call[d]
  BY <1>4 DEF TypeOK
<1>6. call[c] \in CallRecord
  BY DEF TypeOK, Call
<1>7. call'[c].pc = "resolve" /\ call'[c].key = k /\ call'[c].id = call[c].id
  BY <1>5, <1>6 DEF CallRecord
<1>8. k[1] \in registered \/ k \in contested
  BY <1>1, <1>4 DEF Overlapping, UnregisterDropsBenches
<1>9. k \in contested \/ benches[k] = call[c].id
  BY <1>1, <1>8 DEF Overlapping, Removals
<1>10. \A d \in Calls \ {c} : AtRemoval(d) => call[d].key # k \/ k \in contested
  BY <1>1 DEF Overlapping, Removals
<1> HIDE DEF k
<1>11. \A d \in Calls \ {c} : AtRound(d) /\ call[d].key = k =>
          k \in contested \/ (benches'[k] # call[d].id /\ call[d].aborted /\ Idle(d))
  BY <1>3 DEF k
<1>12. BeginsRound(c, k)
  BY <1>2, <1>4, <1>5, <1>7, <1>8, <1>9, <1>10, <1>11 DEF BeginsRound
<1> QED
  BY <1>12 DEF k

LEMMA RetryResetsKeeps ==
    ASSUME TypeOK, Overlapping, NEW c \in Calls, call[c].pc \in RetryPcs, RetryResets(c),
           UNCHANGED <<registered, benches, contested>>
    PROVE  Overlapping'
<1> DEFINE k == call[c].key
<1>1. k \in Keys /\ AtRemoval(c)
  BY RetryCall DEF AtRemoval
<1>2. \A j \in Keys : recorded'[j] # None => recorded[j] # None
  BY <1>1, RetryResetsEffect DEF Drops
<1>3. \A d \in Calls : AtRound(d) /\ call[d].key = k => k \in contested
  BY <1>1 DEF Overlapping, Removals
<1>4. CASE Finish(c) /\ (UNCHANGED round \/ round' = [round EXCEPT ![k] = None])
  <2>1. KeepsRounds
    <3> SUFFICES ASSUME NEW d \in Calls, AtRound(d), round[call[d].key] = d
                 PROVE  call[d].key \in contested \/ round'[call[d].key] = d
      BY DEF KeepsRounds
    <3>1. CASE call[d].key = k
      BY <1>3, <3>1
    <3>2. CASE call[d].key # k
      BY <1>4, <3>2, RoundCall DEF AtRound, TypeOK
    <3> QED
      BY <3>1, <3>2
  <2>2. RecordsByRound
    BY <1>2 DEF RecordsByRound
  <2> QED
    BY <1>4, <2>1, <2>2, FinishEnds, OneCallKeeps
<1>5. CASE ~Finish(c)
  BY <1>1, <1>5, RetryBegins, NewRoundKeeps
<1>6. ASSUME call' = [call EXCEPT ![c].pc = "resolve"]
      PROVE  ~Finish(c)
  <2>1. call'[c] = [call[c] EXCEPT !.pc = "resolve"] /\ call[c] \in CallRecord
    BY <1>6 DEF TypeOK, Call
  <2>2. call'[c].pc = "resolve"
    BY <2>1 DEF CallRecord
  <2> QED
    BY <2>2, FinishEnds DEF Ends, Others
<1> QED
  BY <1>4, <1>5, <1>6 DEF RetryResets

LEMMA RetryStepKeeps ==
    ASSUME TypeOK, Overlapping, NEW c \in Calls, RetryStep(c)
    PROVE  Overlapping'
<1>1. {"rtStop", "rtList", "rtRemove"} \subseteq RetryPcs
  BY DEF RetryPcs
<1>2. CASE RetryStopEnds(c)
  BY <1>1, <1>2, GotoKeeps, StateUnchanged DEF RetryStopEnds, ghosts
<1>3. CASE RetryListEnds(c)
  <2>1. CASE Goto(c, "rtRemove") /\ UNCHANGED <<bench, round, state, disk>>
    BY <1>1, <1>3, <2>1, GotoKeeps, StateUnchanged DEF RetryListEnds, ghosts
  <2> QED
    BY <1>1, <1>3, <2>1, RetryResetsKeeps DEF RetryListEnds, ghosts
<1>4. CASE RetryRemoveEnds(c)
  <2>1. CASE Finish(c) /\ UNCHANGED <<bench, round, state, disk>>
    BY <1>4, <2>1, FinishKeeps, StateUnchanged DEF RetryRemoveEnds, ghosts
  <2> QED
    BY <1>1, <1>4, <2>1, RetryResetsKeeps DEF RetryRemoveEnds, ghosts
<1> QED
  BY <1>2, <1>3, <1>4 DEF RetryStep

-----------------------------------------------------------------------------
(* Unregister *)

LEMMA UnregisterBegins ==
    ASSUME TypeOK, NEW p \in Projects, ForceUnregister(p)
    PROVE  \E c \in Calls, r \in Call :
             LET cs == {round[k] : k \in KeysOf(p) \cap LiveKeys} \ {None} IN
             /\ Begins(c, r, cs)
             /\ r.pc = "urWait" /\ r.key[1] = p /\ r.wait = cs \ {None}
             /\ r.recs = {k \in Active(p) : recorded[k] # None}
<1> DEFINE cs == {round[k] : k \in KeysOf(p) \cap LiveKeys} \ {None}
           recs == {k \in Active(p) : recorded[k] # None}
           r == [NoCall EXCEPT !.pc = "urWait", !.key = <<p, 1>>, !.wait = cs,
                               !.todo = Active(p), !.recs = recs]
<1>1. PICK c \in Calls : Begins(c, r, cs)
  BY DEF ForceUnregister, Begins
<1>2. <<p, 1>> \in Keys /\ <<p, 1>>[1] = p
  BY Parameters DEF Keys
<1>3. cs \subseteq Calls /\ cs \ {None} = cs
  BY DEF TypeOK, KeysOf
<1>4. Active(p) \subseteq Keys /\ recs \subseteq Keys /\ \A k \in recs \cup Active(p) : k[1] = p
  BY DEF Active, KeysOf
<1> HIDE DEF cs, recs
<1>5. r \in Call
  BY <1>2, <1>3, <1>4, NoCallType DEF NoCall, Call, CallRecord, Pcs, UnregPcs
<1>6. r.pc = "urWait" /\ r.key[1] = p /\ r.wait = cs \ {None} /\ r.recs = recs
  BY <1>2, <1>3 DEF NoCall
<1> QED
  BY <1>1, <1>5, <1>6 DEF cs, recs

LEMMA ForceUnregisterKeeps ==
    ASSUME TypeOK, Overlapping, NEW p \in Projects, ForceUnregister(p)
    PROVE  Overlapping'
<1> USE DEF Overlapping
<1> DEFINE cs == {round[k] : k \in KeysOf(p) \cap LiveKeys} \ {None}
<1>1. PICK c \in Calls, r \in Call :
        /\ Begins(c, r, cs)
        /\ r.pc = "urWait" /\ r.key[1] = p /\ r.wait = cs \ {None}
        /\ r.recs = {k \in Active(p) : recorded[k] # None}
  BY UnregisterBegins
<1>3. /\ UNCHANGED <<registered, benches, round, state, contested>>
      /\ p \in registered /\ ~Unregistering(p)
  BY DEF ForceUnregister, ghosts
<1>4. /\ call'[c].pc = "urWait" /\ call'[c].key[1] = p
      /\ call'[c].recs = {k \in Active(p) : recorded[k] # None}
      /\ \A d \in Calls \ {c} :
           /\ call'[d].pc = call[d].pc /\ call'[d].key = call[d].key
           /\ call'[d].id = call[d].id /\ call'[d].recs = call[d].recs
  <2> HIDE DEF cs
  <2> QED
    BY <1>1, AbortedCalls
<1>5. Placed' /\ Waited' /\ WaitsFirst'
  <2>1. ASSUME NEW d \in Calls, AtRound(d), benches[call[d].key] = call[d].id,
               round[call[d].key] = d, p = call[d].key[1]
        PROVE  d \in cs
    <3>1. call[d].key \in Keys /\ call[d].id # None /\ d # None
      BY <2>1, RoundCall, Parameters DEF AtRound
    <3> QED
      BY <2>1, <3>1 DEF KeysOf, LiveKeys, Live
  <2> HIDE DEF cs
  <2> QED
    BY <1>1, <1>3, <2>1, AbortKeeps
<1>6. Removals'
  <2>1. ~AtRemoval(c)' /\ ~AtRound(c)'
    BY <1>4 DEF AtRemoval, AtRound, RoundPcs, ClearPcs, RetryPcs
  <2>2. \A d \in Calls \ {c} : (AtRemoval(d)' <=> AtRemoval(d)) /\ (AtRound(d)' <=> AtRound(d))
    BY <1>4 DEF AtRemoval, AtRound
  <2> QED
    BY <1>3, <1>4, <2>1, <2>2 DEF Removals
<1>7. Unregisterings'
  <2> SUFFICES ASSUME NEW u \in Calls, call'[u].pc \in UnregPcs
               PROVE  LET q == call'[u].key[1] IN
                      /\ q \in registered'
                      /\ \A v \in Calls : call'[v].pc \in UnregPcs /\ call'[v].key[1] = q => v = u
                      /\ \A k \in Keys : k[1] = q /\ recorded'[k] # None
                                           => k \in call'[u].recs \cup contested'
    BY DEF Unregisterings
  <2>1. \A v \in Calls \ {c} : call'[v].pc \in UnregPcs => call'[v].key[1] # p
    BY <1>3, <1>4 DEF Unregistering
  <2>2. CASE u = c
    BY <1>3, <1>4, <2>1, <2>2 DEF state, Active, KeysOf
  <2>3. CASE u # c
    BY <1>3, <1>4, <2>1, <2>3 DEF Unregisterings, state
  <2> QED
    BY <2>2, <2>3
<1>8. UnregisterDropsBenches'
  BY <1>3 DEF UnregisterDropsBenches, Live, state
<1> QED
  BY <1>5, <1>6, <1>7, <1>8

LEMMA UnregisterEmptyKeeps ==
    ASSUME TypeOK, Overlapping, NEW p \in Projects, UnregisterEmpty(p)
    PROVE  Overlapping'
<1> USE DEF Overlapping
<1>1. /\ UNCHANGED <<benches, round, call, recorded, contested>> /\ registered' = registered \ {p}
      /\ ~Unregistering(p)
      /\ \A k \in Keys : k[1] = p => ~Live(k) /\ recorded[k] = None
  BY DEF UnregisterEmpty, state, ghosts, Active, KeysOf
<1>2. Placed' /\ Waited' /\ WaitsFirst'
  BY <1>1 DEF Placed, Waited, WaitsFirst, AtRound, Takes, Past, Idle
<1>3. Removals'
  BY <1>1 DEF Removals, AtRemoval, AtRound
<1>4. Unregisterings'
  BY <1>1 DEF Unregisterings, Unregistering
<1>5. UnregisterDropsBenches'
  BY <1>1 DEF UnregisterDropsBenches, Live
<1> QED
  BY <1>2, <1>3, <1>4, <1>5

\* The project goes with its benches and their records: the rounds left over were aborted.
LEMMA UnregisterDoneKeeps ==
    ASSUME TypeOK, Overlapping, NEW c \in Calls, call[c].pc \in UnregPcs \ {"urWait"}, NEW d,
           UnregisterDone(c, d), UNCHANGED contested
    PROVE  Overlapping'
<1> USE DEF Overlapping
<1> DEFINE p == call[c].key[1]
<1>1. /\ benches' = [k \in Keys |-> IF k[1] = p THEN None ELSE benches[k]]
      /\ recorded' = [k \in Keys |-> IF k \in call[c].recs THEN None ELSE recorded[k]]
      /\ round' = [k \in Keys |-> IF k[1] = p /\ Live(k) THEN None ELSE round[k]]
      /\ registered' = registered \ {p} /\ Finish(c)
  BY DEF UnregisterDone
<1>2. Past(c)
  BY DEF Past
<1>3. Placed'
  <2> SUFFICES ASSUME NEW x \in Calls, AtRound(x)'
               PROVE  LET j == call'[x].key IN
                      \/ j \in contested'
                      \/ benches'[j] = call'[x].id /\ round'[j] = x
                      \/ benches'[j] # call'[x].id /\ call'[x].aborted /\ Idle(x)'
    BY DEF Placed
  <2>1. x # c /\ AtRound(x) /\ call'[x] = call[x] /\ (Idle(x)' <=> Idle(x))
    BY <1>1, FinishCalls
  <2>2. call[x].key \in Keys /\ call[x].id # None
    BY <2>1, RoundCall, Parameters DEF AtRound
  <2>3. CASE call[x].key[1] = p
    <3>1. call[x].key \in contested \/ (call[x].aborted /\ Idle(x))
      BY <1>2, <2>1, <2>3, WaitIsOver DEF Takes
    <3> QED
      BY <1>1, <2>1, <2>2, <2>3, <3>1
  <2>4. CASE call[x].key[1] # p
    BY <1>1, <2>1, <2>2, <2>4 DEF Placed
  <2> QED
    BY <2>3, <2>4
<1>4. Waited'
  BY <1>1, FinishCalls DEF Waited
<1>5. Removals'
  <2> SUFFICES ASSUME NEW x \in Calls, AtRemoval(x)'
               PROVE  LET j == call'[x].key IN
                      \/ j \in contested'
                      \/ /\ j[1] \in registered' => benches'[j] = call'[x].id
                         /\ \A y \in Calls : AtRemoval(y)' /\ call'[y].key = j => y = x
                         /\ call'[x].pc \in RetryPcs
                              => \A y \in Calls : AtRound(y)' => call'[y].key # j
    BY DEF Removals
  <2>1. x # c /\ AtRemoval(x) /\ call'[x] = call[x] /\ call[x].key \in Keys
    BY <1>1, FinishCalls, RetryCall, ClearCall DEF AtRemoval
  <2> QED
    BY <1>1, <2>1, FinishCalls DEF Removals
<1>6. Unregisterings'
  <2> SUFFICES ASSUME NEW u \in Calls, call'[u].pc \in UnregPcs
               PROVE  LET q == call'[u].key[1] IN
                      /\ q \in registered'
                      /\ \A v \in Calls : call'[v].pc \in UnregPcs /\ call'[v].key[1] = q => v = u
                      /\ \A k \in Keys : k[1] = q /\ recorded'[k] # None
                                           => k \in call'[u].recs \cup contested'
    BY DEF Unregisterings
  <2>1. u # c /\ call'[u] = call[u] /\ call[u].key[1] # p
    BY <1>1, FinishCalls DEF Unregisterings
  <2> QED
    BY <1>1, <2>1, FinishCalls DEF Unregisterings
<1>7. WaitsFirst'
  BY <1>1, FinishCalls DEF WaitsFirst
<1>8. UnregisterDropsBenches'
  <2> SUFFICES ASSUME NEW k \in Keys, k[1] \notin registered', k \notin contested
               PROVE  recorded'[k] = None /\ benches'[k] = None
    BY DEF UnregisterDropsBenches, Live
  <2>1. CASE k[1] = p
    BY <1>1, <2>1 DEF Unregisterings
  <2>2. CASE k[1] # p
    BY <1>1, <2>2 DEF UnregisterDropsBenches, Live
  <2> QED
    BY <2>1, <2>2
<1> QED
  BY <1>3, <1>4, <1>5, <1>6, <1>7, <1>8

LEMMA UnregisterStepKeeps ==
    ASSUME TypeOK, Overlapping, NEW c \in Calls, UnregisterStep(c)
    PROVE  Overlapping'
<1>1. {"urWait", "urStop", "urRemove"} \subseteq UnregPcs
  BY DEF UnregPcs
<1>2. CASE UnregisterWaitEnds(c)
  BY <1>1, <1>2, WaitEndKeeps DEF UnregisterWaitEnds
<1>3. CASE UnregisterStopEnds(c)
  <2>1. CASE Goto(c, "urRemove") /\ UNCHANGED <<registered, benches, round, state, left>>
    BY <1>1, <1>3, <2>1, GotoKeeps, StateUnchanged DEF UnregisterStopEnds
  <2> QED
    BY <1>1, <1>3, <2>1, UnregisterDoneKeeps DEF UnregisterStopEnds
<1>4. CASE UnregisterRemoves(c)
  <2>1. PICK k \in call[c].todo :
          IF call[c].todo = {k} THEN UnregisterDone(c, disk')
          ELSE /\ call' = [call EXCEPT ![c].todo = @ \ {k}]
               /\ UNCHANGED <<registered, benches, round, state, left>>
    BY <1>4 DEF UnregisterRemoves
  <2>2. CASE UnregisterDone(c, disk')
    BY <1>1, <1>4, <2>2, UnregisterDoneKeeps DEF UnregisterRemoves
  <2>3. CASE /\ call' = [call EXCEPT ![c].todo = @ \ {k}]
             /\ UNCHANGED <<registered, benches, round, state, left>>
    <3>1. /\ call'[c] = [call[c] EXCEPT !.todo = @ \ {k}]
          /\ \A d \in Calls \ {c} : call'[d] = call[d]
      BY <2>3 DEF TypeOK
    <3>2. call[c] \in CallRecord
      BY DEF TypeOK, Call
    <3>3. /\ call'[c].pc = call[c].pc /\ call'[c].key = call[c].key /\ call'[c].id = call[c].id
          /\ call'[c].recs = call[c].recs /\ call'[c].aborted = call[c].aborted
          /\ call'[c].wait = call[c].wait
      BY <3>1, <3>2 DEF CallRecord
    <3>4. Stays(c) /\ Waits(c)
      BY <3>3 DEF Stays, Waits, Past, Idle
    <3> QED
      BY <1>4, <2>3, <3>1, <3>4, StateUnchanged, NoRecordMoves, SameRoundsKept, OneCallKeeps
      DEF UnregisterRemoves
  <2> QED
    BY <2>1, <2>2, <2>3
<1> QED
  BY <1>2, <1>3, <1>4 DEF UnregisterStep

-----------------------------------------------------------------------------
(* The theorems *)

LEMMA RestartKeeps ==
    ASSUME TypeOK, Overlapping, Restart
    PROVE  Overlapping'
<1>1. \A c \in Calls : call'[c].pc = "done"
  BY DEF Restart, NoCall
<1>2. \A c \in Calls : /\ ~AtRound(c)' /\ ~AtRemoval(c)' /\ ~Past(c)'
                       /\ call'[c].pc \notin UnregPcs
  BY <1>1 DEF AtRound, AtRemoval, Past, RoundPcs, ClearPcs, RetryPcs, UnregPcs
<1>3. UnregisterDropsBenches'
  BY DEF Restart, state, Overlapping, UnregisterDropsBenches, Live
<1> QED
  BY <1>2, <1>3 DEF Overlapping, Placed, Waited, Removals, Unregisterings, WaitsFirst

LEMMA InitOverlapping == Init => Overlapping
<1> SUFFICES ASSUME Init PROVE Overlapping
  OBVIOUS
<1>1. \A c \in Calls : call[c].pc = "done"
  BY DEF Init, NoCall
<1>2. \A c \in Calls : ~AtRound(c) /\ ~AtRemoval(c) /\ ~Past(c) /\ call[c].pc \notin UnregPcs
  BY <1>1 DEF AtRound, AtRemoval, Past, RoundPcs, ClearPcs, RetryPcs, UnregPcs
<1>3. UnregisterDropsBenches
  BY DEF Init, UnregisterDropsBenches, Live, Keys
<1> QED
  BY <1>2, <1>3 DEF Overlapping, Placed, Waited, Removals, Unregisterings, WaitsFirst

LEMMA OverlappingStep ==
    ASSUME TypeOK, Overlapping, [Next]_vars
    PROVE  Overlapping'
<1>1. CASE UNCHANGED vars
  BY <1>1, StateUnchanged, SameCallsKeep DEF vars, state
<1>2. ASSUME NEW p \in Projects, CreateBench(p) \/ UnregisterEmpty(p) \/ ForceUnregister(p)
      PROVE  Overlapping'
  BY <1>2, CreateKeeps, UnregisterEmptyKeeps, ForceUnregisterKeeps
<1>3. ASSUME NEW k \in Keys,
             \/ StartAll(k) \/ UpdateBenchStatus(k) \/ CleanupAndRetry(k)
             \/ \E keep \in BOOLEAN : TeardownBench(k, keep)
             \/ Reconcile(k) \/ SweepList(k) \/ SweepRemove(k)
      PROVE  Overlapping'
  BY <1>3, SmallStepsKeep, CleanupAndRetryKeeps, TeardownKeeps
<1>4. ASSUME NEW c \in Calls, CallStep(c)
      PROVE  Overlapping'
  BY <1>4, RoundStepKeeps, SmallStepsKeep, ClearStepKeeps, RetryStepKeeps, UnregisterStepKeeps
     DEF CallStep
<1>5. CASE Restart
  BY <1>5, RestartKeeps
<1> QED
  BY <1>1, <1>2, <1>3, <1>4, <1>5 DEF Next

LEMMA OverlappingAlways == Spec => []Overlapping
<1>1. TypeOK /\ Overlapping /\ [Next]_vars => Overlapping'
  BY OverlappingStep
<1> QED
  BY <1>1, InitOverlapping, TypeCorrect, PTL DEF Spec

\* The round of a live bench is the one its key names, so that Clear, unregister and
\* whenWorkspaceProvisioned find it, however rounds, removals and crashes interleave.
THEOREM RoundsFindable == Spec => []RoundIsFindable
<1>1. Overlapping => RoundIsFindable
  BY DEF Overlapping, Placed, AtRound, RoundIsFindable
<1> QED
  BY <1>1, OverlappingAlways, PTL

\* An unregistered project leaves no bench and no record, whatever rounds, Clears and
\* retries of its benches end while it is removed or after it.
THEOREM UnregisterDrops == Spec => []UnregisterDropsBenches
<1>1. Overlapping => UnregisterDropsBenches
  BY DEF Overlapping
<1> QED
  BY <1>1, OverlappingAlways, PTL

\* No round writes a worktree that a Clear is removing: the Clear has aborted the round
\* and waited for the command that writes.
THEOREM RemovalsExclusive == Spec => []RemovalIsExclusive
<1>1. ASSUME Overlapping PROVE RemovalIsExclusive
  <2> SUFFICES ASSUME NEW c \in Calls, NEW d \in Calls,
                      call[c].pc \in {"tdList", "tdRemove", "tdBranch", "tdLeftover"},
                      call[d].pc \in {"add", "submodules"}, call[c].key = call[d].key
               PROVE  call[c].key \in contested
    BY DEF RemovalIsExclusive
  <2>1. Past(c) /\ AtRound(d) /\ Takes(c, call[d].key) /\ ~Idle(d)
    BY DEF Past, AtRound, Takes, Idle, ClearPcs, RoundPcs
  <2> QED
    BY <1>1, <2>1, WaitIsOver DEF Overlapping
<1> QED
  BY <1>1, OverlappingAlways, PTL

-----------------------------------------------------------------------------
(* Directories: what is left at the workspace path of a slot that no bench holds *)

\* A directory of a free slot was left there on purpose, and a Clear that has removed
\* its worktree finds no new directory when it frees the slot.
Cleaned ==
    /\ \A k \in Keys : HasDir(k) /\ ~Live(k) => k \in left \cup contested
    /\ \A c \in Calls, k \in Keys :
           call[c].pc = "tdBranch" /\ call[c].key = k => k \in contested \/ ~HasDir(k)

\* No Clear comes to its last command.
NoneBranches ==
    \A c \in Calls : call'[c].pc = "tdBranch"
                        => call[c].pc = "tdBranch" /\ call'[c].key = call[c].key

\* A directory appears only for a live bench that no Clear is done removing, and a slot is
\* freed, or no longer marked, only without a directory.
Cleans ==
    /\ contested \subseteq contested'
    /\ \A k \in Keys : HasDir(k)' =>
           \/ HasDir(k) \/ k \in contested
           \/ Live(k)' /\ \A c \in Calls : call'[c].pc = "tdBranch" => call'[c].key # k
    /\ \A k \in Keys : Live(k) \/ k \in left =>
           Live(k)' \/ k \in left' \cup contested' \/ ~HasDir(k)'
    /\ \A c \in Calls, k \in Keys : call'[c].pc = "tdBranch" /\ call'[c].key = k =>
           \/ call[c].pc = "tdBranch" /\ call[c].key = k
           \/ k \in contested' \/ ~HasDir(k)'

LEMMA CleanedKept ==
    ASSUME Cleaned, Cleans
    PROVE  Cleaned'
<1>1. ASSUME NEW k \in Keys, HasDir(k)', ~Live(k)'
      PROVE  k \in left' \cup contested'
  BY <1>1 DEF Cleaned, Cleans
<1>2. ASSUME NEW c \in Calls, NEW k \in Keys, call'[c].pc = "tdBranch", call'[c].key = k
      PROVE  k \in contested' \/ ~HasDir(k)'
  BY <1>2 DEF Cleaned, Cleans
<1> QED
  BY <1>1, <1>2 DEF Cleaned

LEMMA QuietCleans ==
    ASSUME UNCHANGED <<benches, disk, left>>, contested \subseteq contested', NoneBranches
    PROVE  Cleans
BY DEF Cleans, NoneBranches, HasDir, Live

\* The other calls are left alone and c does not come to `git branch -D`.
LEMMA OneCallBranches ==
    ASSUME NEW c \in Calls, \A d \in Calls \ {c} : call'[d] = call[d], call'[c].pc # "tdBranch"
    PROVE  NoneBranches
BY DEF NoneBranches

LEMMA FinishBranches ==
    ASSUME TypeOK, NEW c \in Calls, Finish(c)
    PROVE  NoneBranches
BY FinishEnds, OneCallBranches DEF Ends, Others

LEMMA GotoBranches ==
    ASSUME TypeOK, NEW c \in Calls, NEW pc, pc # "tdBranch", Goto(c, pc)
    PROVE  NoneBranches
<1>1. call'[c] = [call[c] EXCEPT !.pc = pc] /\ \A d \in Calls \ {c} : call'[d] = call[d]
  BY DEF Goto, TypeOK
<1>2. call[c] \in CallRecord
  BY DEF TypeOK, Call
<1> QED
  BY <1>1, <1>2, OneCallBranches DEF CallRecord

\* Only `git worktree add` makes a directory.
LEMMA RoundStepDisk ==
    ASSUME TypeOK, NEW c \in Calls, RoundStep(c)
    PROVE  /\ UNCHANGED <<benches, left, contested>>
           /\ \A k \in Keys : HasDir(k)' => HasDir(k) \/ (call[c].pc = "add" /\ k = call[c].key)
           /\ NoneBranches
<1> DEFINE k == call[c].key
<1>1. /\ call[c].pc \in RoundPcs
      /\ MovesOn(c) \/ RoundEnds(c)
      /\ UNCHANGED contested
  BY RoundStepMoves
<1>2. k \in Keys /\ disk \in [Keys -> Disk]
  BY <1>1, RoundCall DEF TypeOK
<1>3. NoneBranches
  <2>1. CASE MovesOn(c)
    BY <2>1, GotoBranches DEF MovesOn, RoundPcs
  <2>2. CASE RoundEnds(c)
    <3>1. PICK r \in Bench : EndRound(c, r)
      BY <2>2 DEF RoundEnds
    <3>2. \A d \in Calls \ {c} : call'[d] = [call[d] EXCEPT !.wait = @ \ {c}]
      BY <3>1 DEF EndRound
    <3>3. ASSUME NEW d \in Calls \ {c} PROVE call'[d].pc = call[d].pc /\ call'[d].key = call[d].key
      <4>1. call[d] \in CallRecord
        BY DEF TypeOK, Call
      <4> QED
        BY <3>2, <4>1 DEF CallRecord
    <3>4. call'[c].pc \in {NoCall.pc, FirstStep(r)}
      BY <3>1 DEF EndRound, NoCall
    <3> QED
      BY <3>3, <3>4 DEF NoneBranches, NoCall, FirstStep
  <2> QED
    BY <1>1, <2>1, <2>2
<1>4. ASSUME NEW d, SetDisk(k, d), d \in Forced(disk[k]) \cup {disk[k], "none"}
      PROVE  \A j \in Keys : HasDir(j)' => HasDir(j)
  BY <1>2, <1>4 DEF SetDisk, HasDir, Forced
<1>5. UNCHANGED <<benches, left>>
  BY DEF RoundStep, ResolveEnds, FetchEnds, PullEnds, PreListEnds, PreRemoveEnds, AddEnds,
         InspectEnds, SubmodulesEnd, FailListEnds, FailRemoveEnds, ghosts
<1>6. CASE ResolveEnds(c) \/ FetchEnds(c) \/ PullEnds(c) \/ InspectEnds(c) \/ SubmodulesEnd(c)
  <2>1. UNCHANGED disk
    BY <1>6 DEF ResolveEnds, FetchEnds, PullEnds, InspectEnds, SubmodulesEnd
  <2> QED
    BY <1>1, <1>3, <1>5, <2>1 DEF HasDir
<1>7. CASE PreListEnds(c) \/ FailListEnds(c)
  <2>1. UNCHANGED disk \/ \E d \in {disk[k], "none"} : SetDisk(k, d)
    BY <1>7 DEF PreListEnds, FailListEnds
  <2> QED
    BY <1>1, <1>3, <1>4, <1>5, <2>1 DEF HasDir
<1>8. CASE PreRemoveEnds(c) \/ FailRemoveEnds(c)
  <2>1. \E d \in Forced(disk[k]) : SetDisk(k, d)
    BY <1>8 DEF PreRemoveEnds, FailRemoveEnds
  <2> QED
    BY <1>1, <1>3, <1>4, <1>5, <2>1
<1>9. CASE AddEnds(c)
  <2>1. call[c].pc = "add" /\ (UNCHANGED disk \/ \E d : SetDisk(k, d))
    BY <1>9 DEF AddEnds
  <2> QED
    BY <1>1, <1>2, <1>3, <1>5, <2>1 DEF SetDisk, HasDir
<1> QED
  BY <1>6, <1>7, <1>8, <1>9 DEF RoundStep

\* A round that adds a worktree is not beside a Clear whose wait is over.
LEMMA RoundStepCleans ==
    ASSUME TypeOK, Overlapping, NEW c \in Calls, RoundStep(c)
    PROVE  Cleans
<1>1. /\ UNCHANGED <<benches, left, contested>>
      /\ \A k \in Keys : HasDir(k)' => HasDir(k) \/ (call[c].pc = "add" /\ k = call[c].key)
      /\ NoneBranches
  BY RoundStepDisk
<1>2. ASSUME call[c].pc = "add", call[c].key \notin contested
      PROVE  /\ Live(call[c].key)
             /\ \A d \in Calls : call[d].pc = "tdBranch" => call[d].key # call[c].key
  <2>1. AtRound(c) /\ ~Idle(c) /\ call[c].id # None
    BY <1>2, RoundCall, Parameters DEF AtRound, Idle, RoundPcs
  <2>2. benches[call[c].key] = call[c].id
    BY <1>2, <2>1 DEF Overlapping, Placed
  <2>3. ASSUME NEW d \in Calls, call[d].pc = "tdBranch", call[d].key = call[c].key PROVE FALSE
    BY <1>2, <2>1, <2>3, WaitIsOver DEF Overlapping, Past, Takes, ClearPcs
  <2> QED
    BY <2>1, <2>2, <2>3 DEF Live
<1> QED
  BY <1>1, <1>2 DEF Cleans, NoneBranches, Live

LEMMA SmallStepsClean ==
    ASSUME TypeOK,
           \/ \E k \in Keys : \/ StartAll(k) \/ UpdateBenchStatus(k) \/ Reconcile(k)
                              \/ SweepList(k) \/ SweepRemove(k) \/ CleanupAndRetry(k)
           \/ \E c \in Calls : SetupEnds(c) \/ LaunchEnds(c)
    PROVE  Cleans
<1>1. ASSUME NEW k \in Keys, UpdateBenchStatus(k) \/ Reconcile(k) \/ SweepList(k)
      PROVE  Cleans
  <2>1. UNCHANGED <<benches, disk, left, contested, call>>
    BY <1>1 DEF UpdateBenchStatus, Reconcile, SweepList, ghosts
  <2> QED
    BY <2>1, QuietCleans DEF NoneBranches
<1>2. ASSUME NEW k \in Keys, SweepRemove(k)
      PROVE  Cleans
  <2>1. /\ UNCHANGED <<benches, left, contested, call>>
        /\ UNCHANGED disk \/ SetDisk(k, "none")
    BY <1>2 DEF SweepRemove, ghosts
  <2>2. \A j \in Keys : HasDir(j)' => HasDir(j)
    BY <2>1 DEF SetDisk, HasDir, TypeOK
  <2> QED
    BY <2>1, <2>2 DEF Cleans, Live
<1>3. ASSUME NEW k \in Keys, StartAll(k)
      PROVE  Cleans
  <2> DEFINE pc == FirstStep([bench[benches[k]] EXCEPT !.status = "preparing", !.err = FALSE])
  <2>1. PICK c \in Calls :
          call' = [call EXCEPT ![c] = [NoCall EXCEPT !.pc = pc, !.key = k, !.id = benches[k],
                                             !.on = IF pc = "launch" THEN benches[k] ELSE None]]
    BY <1>3 DEF StartAll
  <2>2. pc \in {"setup", "launch"} /\ UNCHANGED <<benches, disk, left, contested>>
    BY <1>3 DEF FirstStep, StartAll
  <2> HIDE DEF pc
  <2>3. call'[c].pc = pc /\ \A d \in Calls \ {c} : call'[d] = call[d]
    BY <2>1 DEF TypeOK, NoCall
  <2> QED
    BY <2>2, <2>3, OneCallBranches, QuietCleans
<1>4. ASSUME NEW k \in Keys, CleanupAndRetry(k)
      PROVE  Cleans
  <2>1. PICK c \in Calls :
          call' = [call EXCEPT ![c] = [NoCall EXCEPT !.pc = "rtStop", !.key = k, !.id = benches[k]]]
    BY <1>4 DEF CleanupAndRetry
  <2>2. call'[c].pc = "rtStop" /\ \A d \in Calls \ {c} : call'[d] = call[d]
    BY <2>1 DEF TypeOK, NoCall
  <2>3. UNCHANGED <<benches, disk, left>> /\ contested \subseteq contested'
    BY <1>4 DEF CleanupAndRetry
  <2> QED
    BY <2>2, <2>3, OneCallBranches, QuietCleans
<1>5. ASSUME NEW c \in Calls, SetupEnds(c) \/ LaunchEnds(c)
      PROVE  Cleans
  <2>1. UNCHANGED <<benches, disk, left, contested>>
    BY <1>5 DEF SetupEnds, LaunchEnds, ghosts
  <2>2. \/ Finish(c)
        \/ call' = [call EXCEPT ![c].pc = "launch", ![c].on = benches[call[c].key]]
    BY <1>5 DEF SetupEnds, LaunchEnds
  <2>3. ASSUME call' = [call EXCEPT ![c].pc = "launch", ![c].on = benches[call[c].key]]
        PROVE  NoneBranches
    <3>1. /\ call'[c] = [call[c] EXCEPT !.pc = "launch", !.on = benches[call[c].key]]
          /\ \A d \in Calls \ {c} : call'[d] = call[d]
      BY <2>3 DEF TypeOK
    <3>2. call[c] \in CallRecord
      BY DEF TypeOK, Call
    <3> QED
      BY <3>1, <3>2, OneCallBranches DEF CallRecord
  <2> QED
    BY <2>1, <2>2, <2>3, FinishBranches, QuietCleans
<1> QED
  BY <1>1, <1>2, <1>3, <1>4, <1>5

\* A Clear or an unregister that begins is at its first await.
LEMMA AbortBranches ==
    ASSUME TypeOK, NEW c \in Calls, NEW r \in CallRecord, r.pc # "tdBranch", NEW cs,
           call' = Abort(cs, [call EXCEPT ![c] = r])
    PROVE  NoneBranches
<1>1. \A d \in Calls \ {c} : call'[d] = call[d] \/ call'[d] = [call[d] EXCEPT !.aborted = TRUE]
  BY DEF Abort, TypeOK
<1>2. ASSUME NEW s \in CallRecord
      PROVE  LET t == [s EXCEPT !.aborted = TRUE] IN t.pc = s.pc /\ t.key = s.key
  BY DEF CallRecord
<1>3. \A d \in Calls : call[d] \in CallRecord
  BY DEF TypeOK, Call
<1>4. \A d \in Calls \ {c} : call'[d].pc = call[d].pc /\ call'[d].key = call[d].key
  BY <1>1, <1>2, <1>3
<1>5. call'[c] = r \/ call'[c] = [r EXCEPT !.aborted = TRUE]
  BY DEF Abort, TypeOK
<1>6. call'[c].pc = r.pc
  BY <1>2, <1>5
<1> QED
  BY <1>4, <1>6 DEF NoneBranches

\* The requests that begin a call, and the unregister of a project without benches.
LEMMA RequestsClean ==
    ASSUME TypeOK, NEW p \in Projects, CreateBench(p) \/ UnregisterEmpty(p) \/ ForceUnregister(p)
    PROVE  Cleans
<1>1. CASE CreateBench(p)
  <2>1. PICK n \in 1..MaxBenches, b \in Ids, c \in Calls :
          /\ benches' = [benches EXCEPT ![<<p, n>>] = b] /\ left' = left \ {<<p, n>>}
          /\ call' = [call EXCEPT ![c] = [NoCall EXCEPT !.pc = "resolve", !.key = <<p, n>>,
                                                        !.id = b, !.creates = TRUE]]
    BY <1>1 DEF CreateBench
  <2>2. <<p, n>> \in Keys /\ b # None /\ UNCHANGED <<disk, contested>>
    BY <1>1, Parameters DEF Keys, CreateBench
  <2>3. call'[c].pc = "resolve" /\ \A d \in Calls \ {c} : call'[d] = call[d]
    BY <2>1 DEF TypeOK, NoCall
  <2>4. NoneBranches
    BY <2>3, OneCallBranches
  <2> QED
    BY <2>1, <2>2, <2>4 DEF Cleans, NoneBranches, Live, HasDir, TypeOK
<1>2. CASE UnregisterEmpty(p)
  BY <1>2, QuietCleans DEF UnregisterEmpty, ghosts, NoneBranches
<1>3. CASE ForceUnregister(p)
  <2> DEFINE cs == {round[k] : k \in KeysOf(p) \cap LiveKeys} \ {None}
             r == [NoCall EXCEPT !.pc = "urWait", !.key = <<p, 1>>, !.wait = cs,
                                 !.todo = Active(p),
                                 !.recs = {k \in Active(p) : recorded[k] # None}]
  <2>1. PICK c \in Calls : call' = Abort(cs, [call EXCEPT ![c] = r])
    BY <1>3 DEF ForceUnregister
  <2>2. r.pc = "urWait" /\ r \in CallRecord
    <3>1. <<p, 1>> \in Keys
      BY Parameters DEF Keys
    <3>2. cs \subseteq Calls
      BY DEF TypeOK, KeysOf
    <3>3. Active(p) \subseteq Keys /\ {k \in Active(p) : recorded[k] # None} \subseteq Keys
      BY DEF Active, KeysOf
    <3>4. "urWait" \in Pcs
      BY DEF Pcs, UnregPcs
    <3> HIDE DEF cs
    <3> QED
      BY <3>1, <3>2, <3>3, <3>4 DEF NoCall, CallRecord
  <2> HIDE DEF r, cs
  <2>3. UNCHANGED <<benches, disk, left, contested>>
    BY <1>3 DEF ForceUnregister, ghosts
  <2> QED
    BY <2>1, <2>2, <2>3, AbortBranches, QuietCleans
<1> QED
  BY <1>1, <1>2, <1>3

LEMMA TeardownCleans ==
    ASSUME TypeOK, NEW k \in Keys, NEW keep \in BOOLEAN, TeardownBench(k, keep)
    PROVE  Cleans
<1> DEFINE r == [NoCall EXCEPT !.pc = "tdWait", !.key = k, !.id = benches[k],
                               !.keep = keep \/ k[1] \notin registered,
                               !.wait = {round[k]} \ {None}]
<1>1. PICK c \in Calls : call' = Abort({round[k]}, [call EXCEPT ![c] = r])
  BY DEF TeardownBench
<1>2. r.pc = "tdWait" /\ r \in CallRecord
  <2>1. {round[k]} \ {None} \subseteq Calls /\ benches[k] \in Ids \cup {None}
    BY DEF TypeOK
  <2>2. (keep \/ k[1] \notin registered) \in BOOLEAN
    OBVIOUS
  <2>3. "tdWait" \in Pcs
    BY DEF Pcs, ClearPcs
  <2> QED
    BY <2>1, <2>2, <2>3 DEF NoCall, CallRecord
<1> HIDE DEF r
<1>3. UNCHANGED <<benches, disk, left>> /\ contested \subseteq contested'
  BY DEF TeardownBench
<1> QED
  BY <1>1, <1>2, <1>3, AbortBranches, QuietCleans

LEMMA ClearSucceedsCleans ==
    ASSUME TypeOK, Cleaned, NEW c \in Calls, call[c].pc \in ClearPcs,
           call[c].pc = "tdBranch" \/ call[c].keep,
           ClearSucceeds(c), UNCHANGED <<disk, contested>>
    PROVE  Cleans
<1> DEFINE k == call[c].key
<1>1. /\ k \in Keys /\ Finish(c)
      /\ benches' = [benches EXCEPT ![k] = None]
      /\ left' = IF call[c].keep THEN left \cup {k} ELSE left
  BY ClearCall DEF ClearSucceeds
<1>2. NoneBranches
  BY <1>1, FinishBranches
<1>3. k \in left' \cup contested \/ ~HasDir(k)
  BY <1>1 DEF Cleaned
<1>4. \A j \in Keys : Live(j) => Live(j)' \/ j = k
  BY <1>1 DEF Live, TypeOK
<1> HIDE DEF k
<1> QED
  BY <1>1, <1>2, <1>3, <1>4 DEF Cleans, NoneBranches, HasDir

\* Only the removal itself brings a Clear to its last command, and no directory is left then.
LEMMA ClearStepCleans ==
    ASSUME TypeOK, Cleaned, NEW c \in Calls, ClearStep(c)
    PROVE  Cleans
<1> DEFINE k == call[c].key
<1>1. call[c].pc \in ClearPcs
  BY DEF ClearStep, ClearPcs, ClearWaitEnds, ClearStopEnds, ClearListEnds, ClearRemoveEnds,
         ClearBranchEnds
<1>2. k \in Keys
  BY <1>1, ClearCall
<1>3. ASSUME ClearFails(c), UNCHANGED <<disk, contested>>
      PROVE  Cleans
  BY <1>3, FinishBranches, QuietCleans DEF ClearFails
<1>4. ASSUME NEW pc, Goto(c, pc), pc # "tdBranch", UNCHANGED <<benches, disk, left, contested>>
      PROVE  Cleans
  BY <1>4, GotoBranches, QuietCleans
<1>5. ASSUME Goto(c, "tdBranch"), SetDisk(k, "none"), UNCHANGED <<benches, left, contested>>
      PROVE  Cleans
  <2>1. call'[c] = [call[c] EXCEPT !.pc = "tdBranch"] /\ \A d \in Calls \ {c} : call'[d] = call[d]
    BY <1>5 DEF Goto, TypeOK
  <2>2. call[c] \in CallRecord
    BY DEF TypeOK, Call
  <2>3. call'[c].key = k
    BY <2>1, <2>2 DEF CallRecord
  <2>4. PICK j \in Keys : j = k
    BY <1>2
  <2>5. disk' = [disk EXCEPT ![j] = "none"]
    BY <1>5, <2>4 DEF SetDisk
  <2>6. ~HasDir(j)' /\ \A i \in Keys : HasDir(i)' => HasDir(i)
    BY <2>5 DEF HasDir, TypeOK
  <2> QED
    BY <1>5, <2>1, <2>3, <2>4, <2>6 DEF Cleans, Live
<1>6. CASE ClearWaitEnds(c)
  <2>1. /\ call'[c] = [call[c] EXCEPT !.pc = "tdStop", !.wait = {}]
        /\ \A d \in Calls \ {c} : call'[d] = call[d]
    BY <1>6 DEF ClearWaitEnds, TypeOK
  <2>2. call[c] \in CallRecord
    BY DEF TypeOK, Call
  <2>3. call'[c].pc = "tdStop"
    BY <2>1, <2>2 DEF CallRecord
  <2> QED
    BY <1>6, <2>1, <2>3, OneCallBranches, QuietCleans DEF ClearWaitEnds
<1>7. CASE ClearStopEnds(c)
  BY <1>1, <1>3, <1>4, <1>7, ClearSucceedsCleans DEF ClearStopEnds
<1>8. CASE ClearListEnds(c)
  BY <1>4, <1>5, <1>8 DEF ClearListEnds, ghosts
<1>9. CASE ClearRemoveEnds(c)
  BY <1>3, <1>5, <1>9 DEF ClearRemoveEnds
<1>10. CASE ClearBranchEnds(c)
  BY <1>1, <1>3, <1>10, ClearSucceedsCleans DEF ClearBranchEnds
<1> QED
  BY <1>6, <1>7, <1>8, <1>9, <1>10 DEF ClearStep

LEMMA RetryStepCleans ==
    ASSUME TypeOK, NEW c \in Calls, RetryStep(c)
    PROVE  Cleans
<1> DEFINE k == call[c].key
<1>1. call[c].pc \in RetryPcs /\ UNCHANGED <<benches, left, contested>>
  BY DEF RetryStep, RetryPcs, RetryStopEnds, RetryListEnds, RetryRemoveEnds, ghosts
<1>2. k \in Keys
  BY <1>1, RetryCall
<1>3. Finish(c) \/ \E pc \in {"rtList", "rtRemove", "resolve"} : Goto(c, pc)
  BY DEF RetryStep, RetryStopEnds, RetryListEnds, RetryRemoveEnds, RetryResets, Goto
<1>4. NoneBranches
  BY <1>3, FinishBranches, GotoBranches
<1>5. UNCHANGED disk \/ \E d \in {disk[k], "none"} : SetDisk(k, d)
  BY DEF RetryStep, RetryStopEnds, RetryListEnds, RetryRemoveEnds
<1>6. \A j \in Keys : HasDir(j)' => HasDir(j)
  BY <1>2, <1>5 DEF SetDisk, HasDir, TypeOK
<1> QED
  BY <1>1, <1>4, <1>6 DEF Cleans, NoneBranches, Live

\* The directories that an unregister does not remove are marked when it frees the slots.
LEMMA UnregisterStepCleans ==
    ASSUME TypeOK, NEW c \in Calls, UnregisterStep(c)
    PROVE  Cleans
<1>1. UNCHANGED contested
  BY DEF UnregisterStep, UnregisterWaitEnds, UnregisterStopEnds, UnregisterRemoves
<1>2. \A j \in Keys : HasDir(j)' => HasDir(j)
  <2>1. ASSUME NEW k, NEW d \in Forced(disk[k]), SetDisk(k, d)
        PROVE  \A j \in Keys : HasDir(j)' => HasDir(j)
    BY <2>1 DEF SetDisk, HasDir, Forced, TypeOK
  <2> QED
    BY <2>1 DEF UnregisterStep, UnregisterWaitEnds, UnregisterStopEnds, UnregisterRemoves, HasDir
<1>3. ASSUME UnregisterDone(c, disk')
      PROVE  Cleans
  <2>1. /\ benches' = [k \in Keys |-> IF k[1] = call[c].key[1] THEN None ELSE benches[k]]
        /\ left' = left \cup {k \in KeysOf(call[c].key[1]) : disk'[k] # "none"}
        /\ Finish(c)
    BY <1>3 DEF UnregisterDone
  <2>2. NoneBranches
    BY <2>1, FinishBranches
  <2>3. ASSUME NEW j \in Keys, Live(j), ~Live(j)', HasDir(j)' PROVE j \in left'
    BY <2>1, <2>3 DEF Live, KeysOf, HasDir
  <2> QED
    BY <1>1, <1>2, <2>1, <2>2, <2>3 DEF Cleans, NoneBranches
<1>4. ASSUME NEW pc, call' = [call EXCEPT ![c].pc = pc, ![c].wait = {}], pc # "tdBranch"
      PROVE  NoneBranches
  <2>1. call'[c] = [call[c] EXCEPT !.pc = pc, !.wait = {}] /\ \A d \in Calls \ {c} : call'[d] = call[d]
    BY <1>4 DEF TypeOK
  <2>2. call[c] \in CallRecord
    BY DEF TypeOK, Call
  <2>3. call'[c].pc = pc
    BY <2>1, <2>2 DEF CallRecord
  <2> QED
    BY <1>4, <2>1, <2>3, OneCallBranches
<1>5. ASSUME NEW k, call' = [call EXCEPT ![c].todo = @ \ {k}], call[c].pc = "urRemove"
      PROVE  NoneBranches
  <2>1. call'[c] = [call[c] EXCEPT !.todo = @ \ {k}] /\ \A d \in Calls \ {c} : call'[d] = call[d]
    BY <1>5 DEF TypeOK
  <2>2. call[c] \in CallRecord
    BY DEF TypeOK, Call
  <2>3. call'[c].pc = "urRemove"
    BY <1>5, <2>1, <2>2 DEF CallRecord
  <2> QED
    BY <2>1, <2>3, OneCallBranches
<1>6. ASSUME NoneBranches, UNCHANGED <<benches, left>>
      PROVE  Cleans
  BY <1>1, <1>2, <1>6 DEF Cleans, NoneBranches, Live
<1>7. CASE UnregisterWaitEnds(c)
  BY <1>4, <1>6, <1>7 DEF UnregisterWaitEnds
<1>8. CASE UnregisterStopEnds(c)
  BY <1>3, <1>6, <1>8, GotoBranches DEF UnregisterStopEnds
<1>9. CASE UnregisterRemoves(c)
  BY <1>3, <1>5, <1>6, <1>9 DEF UnregisterRemoves
<1> QED
  BY <1>7, <1>8, <1>9 DEF UnregisterStep

LEMMA RestartCleans ==
    ASSUME TypeOK, Restart
    PROVE  Cleaned'
<1>1. \A c \in Calls : call'[c].pc # "tdBranch"
  BY DEF Restart, NoCall
<1>2. /\ benches' = recorded
      /\ left' = left \cup {k \in Keys : recorded[k] = None /\ disk'[k] # "none"}
  BY DEF Restart
<1> QED
  BY <1>1, <1>2 DEF Cleaned, HasDir, Live

LEMMA CleanedStep ==
    ASSUME TypeOK, Overlapping, Cleaned, [Next]_vars
    PROVE  Cleaned'
<1>2. CASE UNCHANGED vars
  BY <1>2, QuietCleans, CleanedKept DEF vars, NoneBranches
<1>3. ASSUME NEW p \in Projects, CreateBench(p) \/ UnregisterEmpty(p) \/ ForceUnregister(p)
      PROVE  Cleaned'
  BY <1>3, RequestsClean, CleanedKept
<1>4. ASSUME NEW k \in Keys,
             \/ StartAll(k) \/ UpdateBenchStatus(k) \/ CleanupAndRetry(k)
             \/ \E keep \in BOOLEAN : TeardownBench(k, keep)
             \/ Reconcile(k) \/ SweepList(k) \/ SweepRemove(k)
      PROVE  Cleaned'
  BY <1>4, SmallStepsClean, TeardownCleans, CleanedKept
<1>5. ASSUME NEW c \in Calls, CallStep(c)
      PROVE  Cleaned'
  BY <1>5, RoundStepCleans, SmallStepsClean, ClearStepCleans, RetryStepCleans,
     UnregisterStepCleans, CleanedKept DEF CallStep
<1>6. CASE Restart
  BY <1>6, RestartCleans
<1> QED
  BY <1>2, <1>3, <1>4, <1>5, <1>6 DEF Next

\* A directory in a slot without a bench was left there on purpose, or its key is contested:
\* no round of a cleared bench adds a worktree once the Clear has removed it. It holds of
\* every directory, also while an aborted round is still running.
THEOREM NoOrphans == Spec => []NoOrphanWorktree
<1>1. Init => Cleaned
  BY DEF Init, Cleaned, HasDir, NoCall
<1>2. TypeOK /\ Overlapping /\ Cleaned /\ [Next]_vars => Cleaned'
  BY CleanedStep
<1>3. Cleaned => NoOrphanWorktree
  BY DEF Cleaned, NoOrphanWorktree
<1> QED
  BY <1>1, <1>2, <1>3, OverlappingAlways, TypeCorrect, PTL DEF Spec

-----------------------------------------------------------------------------
(* Rounds of benches that are gone *)

Excused == contested \cup overran

\* A round that is not on the live bench of its key is one that a removal has stopped
\* waiting for.
Found ==
    \A d \in Calls : LET k == call[d].key IN
        AtRound(d) => k \in Excused \/ benches[k] = call[d].id

\* Until then who takes the worktree waits for it.
Awaited ==
    \A c, d \in Calls : LET k == call[d].key IN
        AtRound(d) /\ Takes(c, k) => k \in Excused \/ d \in call[c].wait

Followed == Found /\ Awaited

\* A step of call c leaves what the other calls are about, and their waits for rounds.
OthersKeep(c) ==
    /\ Excused \subseteq Excused'
    /\ \A x \in Calls \ {c} :
         /\ call'[x].pc = call[x].pc /\ call'[x].key = call[x].key /\ call'[x].id = call[x].id
         /\ \A e \in call[x].wait : e \in call'[x].wait \/ ~AtRound(e)'

\* The benches of rounds stay in the map.
BenchesKeep ==
    \A d \in Calls : LET k == call[d].key IN
        AtRound(d) => k \in Excused' \/ benches'[k] = benches[k]

\* Call c stays a round, or a removal that waits for the same rounds, or is neither.
Follows(c) ==
    /\ OthersKeep(c) /\ BenchesKeep
    /\ AtRound(c)' => AtRound(c) /\ call'[c].key = call[c].key /\ call'[c].id = call[c].id
    /\ \A k \in Keys : Takes(c, k)' => Takes(c, k)
    /\ \A e \in call[c].wait : AtRound(e)' /\ (\E k \in Keys : Takes(c, k)')
                                 => e \in call'[c].wait \/ call[e].key \in Excused'

LEMMA FollowedKept ==
    ASSUME TypeOK, Followed, NEW c \in Calls, Follows(c)
    PROVE  Followed'
<1> USE DEF Followed
<1>1. ASSUME NEW d \in Calls, AtRound(d)'
      PROVE  /\ AtRound(d) /\ call'[d].key = call[d].key /\ call'[d].id = call[d].id
             /\ call[d].key \in Keys
  <2>1. AtRound(d) /\ call'[d].key = call[d].key /\ call'[d].id = call[d].id
    BY <1>1 DEF Follows, OthersKeep, AtRound
  <2> QED
    BY <2>1, RoundCall DEF AtRound
<1>2. Found'
  <2> SUFFICES ASSUME NEW d \in Calls, AtRound(d)'
               PROVE  LET k == call'[d].key IN k \in Excused' \/ benches'[k] = call'[d].id
    BY DEF Found
  <2> QED
    BY <1>1 DEF Found, Follows, BenchesKeep, OthersKeep
<1>3. Awaited'
  <2> SUFFICES ASSUME NEW x \in Calls, NEW d \in Calls, AtRound(d)', NEW k \in Keys,
                      call'[d].key = k, Takes(x, k)'
               PROVE  k \in Excused' \/ d \in call'[x].wait
    BY <1>1 DEF Awaited, Takes
  <2>1. AtRound(d) /\ call[d].key = k
    BY <1>1
  <2>2. Takes(x, k)
    BY DEF Follows, OthersKeep, Takes
  <2>3. k \in Excused \/ d \in call[x].wait
    BY <2>1, <2>2 DEF Awaited
  <2> QED
    BY <2>1, <2>3 DEF Follows, OthersKeep
<1> QED
  BY <1>2, <1>3

LEMMA SameCallsFollowed ==
    ASSUME Followed, UNCHANGED <<call, benches>>, Excused \subseteq Excused'
    PROVE  Followed'
BY DEF Followed, Found, Awaited, AtRound, Takes

\* Call c ends, begins or goes on as neither a round nor a removal of Clear or unregister.
LEMMA NeitherFollows ==
    ASSUME TypeOK, Followed, NEW c \in Calls, \A d \in Calls \ {c} : call'[d] = call[d],
           call'[c].pc \in Others \cup RetryPcs, BenchesKeep, Excused \subseteq Excused'
    PROVE  Followed'
<1>1. ~AtRound(c)' /\ \A k \in Keys : ~Takes(c, k)'
  BY Classes DEF AtRound, Takes
<1> QED
  BY <1>1, FollowedKept DEF Follows, OthersKeep

LEMMA FinishFollows ==
    ASSUME TypeOK, Followed, NEW c \in Calls, Finish(c), BenchesKeep, Excused \subseteq Excused'
    PROVE  Followed'
BY FinishEnds, NeitherFollows DEF Ends

LEMMA SameBenchesKeep == ASSUME UNCHANGED benches PROVE BenchesKeep
BY DEF BenchesKeep

LEMMA RoundStepFollowed ==
    ASSUME TypeOK, Followed, NEW c \in Calls, RoundStep(c)
    PROVE  Followed'
<1>1. /\ call[c].pc \in RoundPcs
      /\ MovesOn(c) \/ RoundEnds(c)
      /\ UNCHANGED contested
  BY RoundStepMoves
<1>2. UNCHANGED <<benches, overran>>
  BY RoundStepEffect DEF RoundStep, ResolveEnds, FetchEnds, PullEnds, PreListEnds, PreRemoveEnds,
     AddEnds, InspectEnds, SubmodulesEnd, FailListEnds, FailRemoveEnds, ghosts
<1>3. Excused' = Excused /\ BenchesKeep
  BY <1>1, <1>2 DEF Excused, BenchesKeep
<1>4. CASE MovesOn(c)
  <2>1. PICK pc \in RoundPcs : Goto(c, pc)
    BY <1>4 DEF MovesOn
  <2>2. call'[c] = [call[c] EXCEPT !.pc = pc] /\ \A d \in Calls \ {c} : call'[d] = call[d]
    BY <2>1 DEF Goto, TypeOK
  <2>3. call[c] \in CallRecord
    BY DEF TypeOK, Call
  <2>4. call'[c].pc = pc /\ call'[c].key = call[c].key /\ call'[c].id = call[c].id
    BY <2>2, <2>3 DEF CallRecord
  <2>5. \A k \in Keys : ~Takes(c, k)'
    BY <2>4, Classes DEF Takes
  <2> QED
    BY <1>1, <1>3, <2>2, <2>4, <2>5, FollowedKept DEF Follows, OthersKeep, AtRound
<1>5. CASE RoundEnds(c)
  <2>1. PICK r \in Bench : EndRound(c, r)
    BY <1>5 DEF RoundEnds
  <2>2. \A d \in Calls \ {c} : call'[d] = [call[d] EXCEPT !.wait = @ \ {c}]
    BY <2>1 DEF EndRound
  <2>3. call'[c].pc \in Others
    <3>1. call'[c].pc \in {NoCall.pc, FirstStep(r)}
      BY <2>1 DEF EndRound, NoCall
    <3> QED
      BY <3>1 DEF NoCall, FirstStep, Others
  <2>4. ASSUME NEW d \in Calls \ {c}
        PROVE  /\ call'[d].pc = call[d].pc /\ call'[d].key = call[d].key
               /\ call'[d].id = call[d].id /\ call'[d].wait = call[d].wait \ {c}
    <3>1. call[d] \in CallRecord
      BY DEF TypeOK, Call
    <3> QED
      BY <2>2, <3>1 DEF CallRecord
  <2>5. ~AtRound(c)' /\ \A k \in Keys : ~Takes(c, k)'
    BY <2>3, Classes DEF AtRound, Takes
  <2> QED
    BY <1>3, <2>4, <2>5, FollowedKept DEF Follows, OthersKeep
<1> QED
  BY <1>1, <1>4, <1>5

LEMMA SmallStepsFollowed ==
    ASSUME TypeOK, Followed,
           \/ \E k \in Keys : \/ StartAll(k) \/ UpdateBenchStatus(k) \/ Reconcile(k)
                              \/ SweepList(k) \/ SweepRemove(k) \/ CleanupAndRetry(k)
           \/ \E c \in Calls : SetupEnds(c) \/ LaunchEnds(c)
    PROVE  Followed'
<1>1. ASSUME NEW k \in Keys, UpdateBenchStatus(k) \/ Reconcile(k) \/ SweepList(k) \/ SweepRemove(k)
      PROVE  Followed'
  <2>1. UNCHANGED <<benches, contested, overran, call>>
    BY <1>1 DEF UpdateBenchStatus, Reconcile, SweepList, SweepRemove, ghosts
  <2> QED
    BY <2>1, SameCallsFollowed DEF Excused
<1>2. ASSUME NEW k \in Keys, StartAll(k)
      PROVE  Followed'
  <2> DEFINE pc == FirstStep([bench[benches[k]] EXCEPT !.status = "preparing", !.err = FALSE])
  <2>1. PICK c \in Calls :
          call' = [call EXCEPT ![c] = [NoCall EXCEPT !.pc = pc, !.key = k, !.id = benches[k],
                                             !.on = IF pc = "launch" THEN benches[k] ELSE None]]
    BY <1>2 DEF StartAll
  <2>2. pc \in Others /\ UNCHANGED benches /\ Excused \subseteq Excused'
    BY <1>2 DEF FirstStep, StartAll, Others, Excused
  <2> HIDE DEF pc
  <2>3. call'[c].pc = pc /\ \A d \in Calls \ {c} : call'[d] = call[d]
    BY <2>1 DEF TypeOK, NoCall
  <2> QED
    BY <2>2, <2>3, NeitherFollows, SameBenchesKeep
<1>3. ASSUME NEW k \in Keys, CleanupAndRetry(k)
      PROVE  Followed'
  <2>1. PICK c \in Calls :
          call' = [call EXCEPT ![c] = [NoCall EXCEPT !.pc = "rtStop", !.key = k, !.id = benches[k]]]
    BY <1>3 DEF CleanupAndRetry
  <2>2. call'[c].pc = "rtStop" /\ \A d \in Calls \ {c} : call'[d] = call[d]
    BY <2>1 DEF TypeOK, NoCall
  <2>3. UNCHANGED benches /\ Excused \subseteq Excused' /\ "rtStop" \in RetryPcs
    BY <1>3 DEF CleanupAndRetry, Excused, RetryPcs
  <2> QED
    BY <2>2, <2>3, NeitherFollows, SameBenchesKeep
<1>4. ASSUME NEW c \in Calls, SetupEnds(c) \/ LaunchEnds(c)
      PROVE  Followed'
  <2>1. UNCHANGED <<benches, contested, overran>>
    BY <1>4 DEF SetupEnds, LaunchEnds, ghosts
  <2>2. \/ Finish(c)
        \/ call' = [call EXCEPT ![c].pc = "launch", ![c].on = benches[call[c].key]]
    BY <1>4 DEF SetupEnds, LaunchEnds
  <2>3. CASE call' = [call EXCEPT ![c].pc = "launch", ![c].on = benches[call[c].key]]
    <3>1. /\ call'[c] = [call[c] EXCEPT !.pc = "launch", !.on = benches[call[c].key]]
          /\ \A d \in Calls \ {c} : call'[d] = call[d]
      BY <2>3 DEF TypeOK
    <3>2. call[c] \in CallRecord
      BY DEF TypeOK, Call
    <3>3. call'[c].pc = "launch"
      BY <3>1, <3>2 DEF CallRecord
    <3> QED
      BY <2>1, <3>1, <3>3, NeitherFollows, SameBenchesKeep DEF Excused, Others
  <2> QED
    BY <2>1, <2>2, <2>3, FinishFollows, SameBenchesKeep DEF Excused
<1> QED
  BY <1>1, <1>2, <1>3, <1>4

\* A Clear or an unregister that goes on, past its wait, changes nothing else of its call.
LEMMA GotoFollows ==
    ASSUME TypeOK, Followed, NEW c \in Calls, NEW pc, Goto(c, pc),
           \/ call[c].pc \in ClearPcs /\ pc \in ClearPcs
           \/ call[c].pc \in UnregPcs /\ pc \in UnregPcs,
           UNCHANGED <<benches, contested, overran>>
    PROVE  Followed'
<1>1. call'[c] = [call[c] EXCEPT !.pc = pc] /\ \A d \in Calls \ {c} : call'[d] = call[d]
  BY DEF Goto, TypeOK
<1>2. call[c] \in CallRecord
  BY DEF TypeOK, Call
<1>3. call'[c].pc = pc /\ call'[c].key = call[c].key /\ call'[c].wait = call[c].wait
  BY <1>1, <1>2 DEF CallRecord
<1>4. ~AtRound(c)' /\ \A k \in Keys : Takes(c, k)' => Takes(c, k)
  BY <1>3, Classes DEF AtRound, Takes
<1> QED
  BY <1>1, <1>3, <1>4, FollowedKept DEF Follows, OthersKeep, BenchesKeep, Excused

\* A removal that stops waiting excuses the keys of the rounds it was waiting for.
LEMMA WaitEndFollows ==
    ASSUME TypeOK, Followed, NEW c \in Calls, NEW pc,
           \/ call[c].pc \in ClearPcs /\ pc \in ClearPcs
           \/ call[c].pc \in UnregPcs /\ pc \in UnregPcs,
           call' = [call EXCEPT ![c].pc = pc, ![c].wait = {}],
           overran' = overran \cup {k \in Keys : \E d \in call[c].wait : call[d].key = k},
           UNCHANGED <<benches, contested>>
    PROVE  Followed'
<1>1. /\ call'[c] = [call[c] EXCEPT !.pc = pc, !.wait = {}]
      /\ \A d \in Calls \ {c} : call'[d] = call[d]
  BY DEF TypeOK
<1>2. call[c] \in CallRecord
  BY DEF TypeOK, Call
<1>3. call'[c].pc = pc /\ call'[c].key = call[c].key
  <2>1. ASSUME NEW r \in CallRecord, NEW s, s = [r EXCEPT !.pc = pc, !.wait = {}]
        PROVE  s.pc = pc /\ s.key = r.key
    BY <2>1 DEF CallRecord
  <2> QED
    BY <1>1, <1>2, <2>1
<1>4. ~AtRound(c)' /\ \A k \in Keys : Takes(c, k)' => Takes(c, k)
  BY <1>3, Classes DEF AtRound, Takes
<1>5. ASSUME NEW e \in call[c].wait, AtRound(e)'
      PROVE  call[e].key \in Excused'
  <2>1. e \in Calls
    BY <1>2 DEF CallRecord
  <2>2. AtRound(e)
    BY <1>1, <1>4, <1>5, <2>1 DEF AtRound
  <2> QED
    BY <2>1, <2>2, RoundCall DEF AtRound, Excused
<1> QED
  BY <1>1, <1>4, <1>5, FollowedKept DEF Follows, OthersKeep, BenchesKeep, Excused

\* The rounds that are still on the key of a removal whose wait is over.
LEMMA WaitRanOut ==
    ASSUME Followed, WaitsFirst, NEW c \in Calls, Past(c), NEW d \in Calls, AtRound(d),
           Takes(c, call[d].key)
    PROVE  call[d].key \in Excused
BY DEF Followed, Awaited, WaitsFirst

LEMMA ClearStepFollowed ==
    ASSUME TypeOK, Overlapping, Followed, NEW c \in Calls, ClearStep(c)
    PROVE  Followed'
<1> DEFINE k == call[c].key
<1>1. {"tdWait", "tdStop", "tdList", "tdRemove", "tdBranch", "tdLeftover"} \subseteq ClearPcs
  BY DEF ClearPcs
<1>2. ASSUME ClearFails(c), UNCHANGED <<contested, overran>>
      PROVE  Followed'
  BY <1>2, FinishFollows, SameBenchesKeep DEF ClearFails, Excused
<1>3. ASSUME call[c].pc \in ClearPcs \ {"tdWait"}, ClearSucceeds(c),
             UNCHANGED <<contested, overran>>
      PROVE  Followed'
  <2>1. k \in Keys /\ Finish(c) /\ benches' = [benches EXCEPT ![k] = None]
    BY <1>3, ClearCall DEF ClearSucceeds
  <2>2. BenchesKeep
    <3> SUFFICES ASSUME NEW d \in Calls, AtRound(d)
                 PROVE  call[d].key \in Excused' \/ benches'[call[d].key] = benches[call[d].key]
      BY DEF BenchesKeep
    <3>1. CASE call[d].key = k
      BY <1>3, <3>1, WaitRanOut DEF Overlapping, Past, Takes, Excused
    <3>2. CASE call[d].key # k
      BY <2>1, <3>2, RoundCall DEF AtRound, TypeOK
    <3> QED
      BY <3>1, <3>2
  <2> QED
    BY <1>3, <2>1, <2>2, FinishFollows DEF Excused
<1>4. CASE ClearWaitEnds(c)
  BY <1>1, <1>4, WaitEndFollows DEF ClearWaitEnds
<1>5. CASE ClearStopEnds(c)
  BY <1>1, <1>2, <1>3, <1>5, GotoFollows DEF ClearStopEnds
<1>6. CASE ClearListEnds(c)
  BY <1>1, <1>6, GotoFollows DEF ClearListEnds, ghosts
<1>7. CASE ClearRemoveEnds(c)
  BY <1>1, <1>2, <1>7, GotoFollows DEF ClearRemoveEnds
<1>8. CASE ClearBranchEnds(c)
  BY <1>1, <1>2, <1>3, <1>8 DEF ClearBranchEnds
<1> QED
  BY <1>4, <1>5, <1>6, <1>7, <1>8 DEF ClearStep

LEMMA UnregisterStepFollowed ==
    ASSUME TypeOK, Overlapping, Followed, NEW c \in Calls, UnregisterStep(c)
    PROVE  Followed'
<1> DEFINE p == call[c].key[1]
<1>1. {"urWait", "urStop", "urRemove"} \subseteq UnregPcs
  BY DEF UnregPcs
<1>2. ASSUME call[c].pc \in UnregPcs \ {"urWait"}, NEW d, UnregisterDone(c, d),
             UNCHANGED <<contested, overran>>
      PROVE  Followed'
  <2>1. Finish(c) /\ benches' = [k \in Keys |-> IF k[1] = p THEN None ELSE benches[k]]
    BY <1>2 DEF UnregisterDone
  <2>2. BenchesKeep
    <3> SUFFICES ASSUME NEW x \in Calls, AtRound(x)
                 PROVE  call[x].key \in Excused' \/ benches'[call[x].key] = benches[call[x].key]
      BY DEF BenchesKeep
    <3>1. CASE call[x].key[1] = p
      BY <1>2, <3>1, WaitRanOut DEF Overlapping, Past, Takes, Excused
    <3>2. CASE call[x].key[1] # p
      BY <2>1, <3>2, RoundCall DEF AtRound
    <3> QED
      BY <3>1, <3>2
  <2> QED
    BY <1>2, <2>1, <2>2, FinishFollows DEF Excused
<1>3. CASE UnregisterWaitEnds(c)
  BY <1>1, <1>3, WaitEndFollows DEF UnregisterWaitEnds
<1>4. CASE UnregisterStopEnds(c)
  BY <1>1, <1>2, <1>4, GotoFollows DEF UnregisterStopEnds
<1>5. CASE UnregisterRemoves(c)
  <2>1. PICK k \in call[c].todo :
          IF call[c].todo = {k} THEN UnregisterDone(c, disk')
          ELSE /\ call' = [call EXCEPT ![c].todo = @ \ {k}]
               /\ UNCHANGED <<registered, benches, round, state, left>>
    BY <1>5 DEF UnregisterRemoves
  <2>2. CASE UnregisterDone(c, disk')
    BY <1>1, <1>2, <1>5, <2>2 DEF UnregisterRemoves
  <2>3. CASE call' = [call EXCEPT ![c].todo = @ \ {k}] /\ UNCHANGED benches
    <3>1. /\ call'[c] = [call[c] EXCEPT !.todo = @ \ {k}]
          /\ \A d \in Calls \ {c} : call'[d] = call[d]
      BY <2>3 DEF TypeOK
    <3>2. call[c] \in CallRecord
      BY DEF TypeOK, Call
    <3>3. call'[c].pc = call[c].pc /\ call'[c].key = call[c].key /\ call'[c].wait = call[c].wait
      BY <3>1, <3>2 DEF CallRecord
    <3>4. ~AtRound(c)' /\ \A j \in Keys : Takes(c, j)' => Takes(c, j)
      BY <1>1, <1>5, <3>3, Classes DEF UnregisterRemoves, AtRound, Takes
    <3> QED
      BY <1>5, <2>3, <3>1, <3>3, <3>4, FollowedKept
      DEF UnregisterRemoves, Follows, OthersKeep, BenchesKeep, Excused
  <2> QED
    BY <2>1, <2>2, <2>3
<1> QED
  BY <1>3, <1>4, <1>5 DEF UnregisterStep

\* A Clear or an unregister that begins waits for the rounds of the benches it takes.
LEMMA AbortFollowed ==
    ASSUME TypeOK, Overlapping, Followed, NEW c \in Calls, NEW r \in Call, NEW cs,
           Begins(c, r, cs), r.pc \in {"tdWait", "urWait"}, r.wait = cs \ {None},
           \A d \in Calls : LET k == call[d].key IN
               /\ AtRound(d) /\ benches[k] = call[d].id /\ round[k] = d
               /\ IF r.pc = "tdWait" THEN r.key = k ELSE r.key[1] = k[1]
               => d \in cs,
           UNCHANGED benches, Excused \subseteq Excused'
    PROVE  Followed'
<1> USE DEF Followed
<1>1. \A d \in Calls \ {c} :
        /\ call'[d].pc = call[d].pc /\ call'[d].key = call[d].key
        /\ call'[d].id = call[d].id /\ call'[d].wait = call[d].wait
  BY AbortedCalls
<1>2. /\ call'[c].pc = r.pc /\ call'[c].key = r.key /\ call'[c].wait = cs \ {None}
      /\ ~AtRound(c)'
  <2>1. call'[c].pc = r.pc /\ call'[c].key = r.key /\ call'[c].wait = r.wait
    BY AbortedCalls
  <2> QED
    BY <2>1 DEF AtRound, RoundPcs
<1>3. ASSUME NEW d \in Calls, AtRound(d)'
      PROVE  d # c /\ AtRound(d) /\ call'[d].key = call[d].key
  BY <1>1, <1>2, <1>3 DEF AtRound
<1>4. Found'
  BY <1>1, <1>3 DEF Found
<1>5. Awaited'
  <2> SUFFICES ASSUME NEW x \in Calls, NEW d \in Calls, AtRound(d)', NEW k,
                      call[d].key = k, Takes(x, k)'
               PROVE  k \in Excused' \/ d \in call'[x].wait
    BY <1>3 DEF Awaited, Takes
  <2>1. CASE x = c
    <3>1. d \in Calls /\ d # None
      BY Parameters
    <3>2. IF r.pc = "tdWait" THEN r.key = k ELSE r.key[1] = k[1]
      BY <1>2, <2>1 DEF Takes, ClearPcs, UnregPcs
    <3>3. CASE k \notin Excused
      BY <1>1, <1>2, <1>3, <2>1, <3>1, <3>2, <3>3 DEF Overlapping, Placed, Found, Excused
    <3> QED
      BY <3>3
  <2>2. CASE x # c
    <3>1. Takes(x, k)
      BY <1>1, <2>2 DEF Takes
    <3> QED
      BY <1>1, <1>3, <2>2, <3>1 DEF Awaited
  <2> QED
    BY <2>1, <2>2
<1> QED
  BY <1>4, <1>5

\* A new round is on the live bench of its key, and no removal takes that key.
LEMMA NewRoundFollowed ==
    ASSUME TypeOK, Followed, NEW c \in Calls, NEW k \in Keys, BeginsRound(c, k),
           UNCHANGED overran,
           \A d \in Calls \ {c} : AtRound(d) /\ call[d].key = k => k \in Excused
    PROVE  Followed'
<1> USE DEF Followed, BeginsRound
<1>1. \A j : ~Takes(c, j)'
  BY DEF Takes, ClearPcs, UnregPcs
<1>2. \A d \in Calls \ {c} : /\ AtRound(d)' <=> AtRound(d)
                             /\ \A j : Takes(d, j)' <=> Takes(d, j)
  BY DEF AtRound, Takes
<1>3. Excused' = Excused
  BY DEF Excused
<1>4. Found'
  <2> SUFFICES ASSUME NEW d \in Calls, AtRound(d)'
               PROVE  LET j == call'[d].key IN j \in Excused' \/ benches'[j] = call'[d].id
    BY DEF Found
  <2>1. CASE d = c
    BY <1>3, <2>1 DEF Excused
  <2>2. CASE d # c /\ call[d].key = k
    BY <1>2, <1>3, <2>2
  <2>3. CASE d # c /\ call[d].key # k
    <3>1. AtRound(d) /\ call[d].key \in Keys
      BY <1>2, <2>3, RoundCall DEF AtRound
    <3> QED
      BY <1>3, <2>3, <3>1 DEF Found
  <2> QED
    BY <2>1, <2>2, <2>3
<1>5. Awaited'
  <2> SUFFICES ASSUME NEW x \in Calls, NEW d \in Calls, AtRound(d)', NEW j,
                      call'[d].key = j, Takes(x, j)'
               PROVE  j \in Excused' \/ d \in call'[x].wait
    BY DEF Awaited, Takes
  <2>1. x # c /\ Takes(x, j)
    BY <1>1, <1>2
  <2>2. CASE d = c
    BY <1>3, <2>1, <2>2 DEF Takes, AtRemoval, Unregistering, Excused
  <2>3. CASE d # c
    BY <1>2, <1>3, <2>1, <2>3 DEF Awaited
  <2> QED
    BY <2>2, <2>3
<1> QED
  BY <1>4, <1>5

LEMMA TeardownFollowed ==
    ASSUME TypeOK, Overlapping, Followed, NEW k \in Keys, NEW keep \in BOOLEAN,
           TeardownBench(k, keep)
    PROVE  Followed'
<1> DEFINE cs == {round[k]}
<1>1. PICK c \in Calls, r \in Call :
        Begins(c, r, cs) /\ r.pc = "tdWait" /\ r.key = k /\ r.wait = cs \ {None}
  BY TeardownBegins
<1>2. UNCHANGED benches /\ Excused \subseteq Excused'
  BY DEF TeardownBench, Excused
<1> QED
  BY <1>1, <1>2, AbortFollowed

LEMMA ForceUnregisterFollowed ==
    ASSUME TypeOK, Overlapping, Followed, NEW p \in Projects, ForceUnregister(p)
    PROVE  Followed'
<1> DEFINE cs == {round[k] : k \in KeysOf(p) \cap LiveKeys} \ {None}
<1>1. PICK c \in Calls, r \in Call :
        Begins(c, r, cs) /\ r.pc = "urWait" /\ r.key[1] = p /\ r.wait = cs \ {None}
  BY UnregisterBegins
<1>2. UNCHANGED benches /\ Excused \subseteq Excused'
  BY DEF ForceUnregister, Excused, ghosts
<1>3. ASSUME NEW d \in Calls, AtRound(d), benches[call[d].key] = call[d].id,
             round[call[d].key] = d, p = call[d].key[1]
      PROVE  d \in cs
  <2>1. call[d].key \in Keys /\ call[d].id # None /\ d # None
    BY <1>3, RoundCall, Parameters DEF AtRound
  <2> QED
    BY <1>3, <2>1 DEF KeysOf, LiveKeys, Live
<1> HIDE DEF cs
<1> QED
  BY <1>1, <1>2, <1>3, AbortFollowed

LEMMA CreateFollowed ==
    ASSUME TypeOK, Overlapping, Followed, NEW p \in Projects, CreateBench(p)
    PROVE  Followed'
<1>1. PICK c \in Calls, k \in Keys : BeginsRound(c, k) /\ benches[k] = None
  BY CreateBegins
<1>2. ASSUME NEW d \in Calls, AtRound(d), call[d].key = k
      PROVE  k \in Excused
  <2>1. call[d].id # None
    BY <1>2, RoundCall, Parameters DEF AtRound
  <2> QED
    BY <1>1, <1>2, <2>1 DEF Followed, Found
<1> QED
  BY <1>1, <1>2, NewRoundFollowed DEF CreateBench

LEMMA RetryStepFollowed ==
    ASSUME TypeOK, Overlapping, Followed, NEW c \in Calls, RetryStep(c)
    PROVE  Followed'
<1> DEFINE k == call[c].key
<1>1. {"rtStop", "rtList", "rtRemove"} \subseteq RetryPcs
  BY DEF RetryPcs
<1>2. /\ call[c].pc \in RetryPcs
      /\ UNCHANGED <<registered, benches, contested, overran>>
  BY <1>1 DEF RetryStep, RetryStopEnds, RetryListEnds, RetryRemoveEnds, ghosts
<1>3. k \in Keys /\ AtRemoval(c) /\ Excused' = Excused
  BY <1>2, RetryCall DEF AtRemoval, Excused
<1>4. CASE Finish(c)
  BY <1>2, <1>3, <1>4, FinishFollows, SameBenchesKeep
<1>5. ASSUME NEW pc \in RetryPcs, Goto(c, pc)
      PROVE  Followed'
  <2>1. call'[c] = [call[c] EXCEPT !.pc = pc] /\ \A d \in Calls \ {c} : call'[d] = call[d]
    BY <1>5 DEF Goto, TypeOK
  <2>2. call[c] \in CallRecord
    BY DEF TypeOK, Call
  <2>3. call'[c].pc = pc
    BY <2>1, <2>2 DEF CallRecord
  <2> QED
    BY <1>2, <1>3, <2>1, <2>3, NeitherFollows, SameBenchesKeep
<1>6. CASE ~Finish(c) /\ RetryResets(c)
  <2>1. BeginsRound(c, k)
    BY <1>2, <1>6, RetryBegins
  <2>2. ASSUME NEW d \in Calls, AtRound(d), call[d].key = k
        PROVE  k \in Excused
    BY <1>2, <1>3, <2>2 DEF Overlapping, Removals, Excused
  <2> HIDE DEF k
  <2> QED
    BY <1>2, <1>3, <2>1, <2>2, NewRoundFollowed
<1> QED
  BY <1>1, <1>4, <1>5, <1>6 DEF RetryStep, RetryStopEnds, RetryListEnds, RetryRemoveEnds

LEMMA FollowedStep ==
    ASSUME TypeOK, Overlapping, Followed, [Next]_vars
    PROVE  Followed'
<1>1. CASE UNCHANGED vars
  BY <1>1, SameCallsFollowed DEF vars, Excused
<1>2. ASSUME NEW p \in Projects, CreateBench(p) \/ UnregisterEmpty(p) \/ ForceUnregister(p)
      PROVE  Followed'
  <2>1. CASE UnregisterEmpty(p)
    BY <2>1, SameCallsFollowed DEF UnregisterEmpty, Excused, ghosts
  <2> QED
    BY <1>2, <2>1, CreateFollowed, ForceUnregisterFollowed
<1>3. ASSUME NEW k \in Keys,
             \/ StartAll(k) \/ UpdateBenchStatus(k) \/ CleanupAndRetry(k)
             \/ \E keep \in BOOLEAN : TeardownBench(k, keep)
             \/ Reconcile(k) \/ SweepList(k) \/ SweepRemove(k)
      PROVE  Followed'
  BY <1>3, SmallStepsFollowed, TeardownFollowed
<1>4. ASSUME NEW c \in Calls, CallStep(c)
      PROVE  Followed'
  BY <1>4, RoundStepFollowed, SmallStepsFollowed, ClearStepFollowed, RetryStepFollowed,
     UnregisterStepFollowed DEF CallStep
<1>5. CASE Restart
  <2>1. \A c \in Calls : call'[c].pc = "done"
    BY <1>5 DEF Restart, NoCall
  <2> QED
    BY <2>1 DEF Followed, Found, Awaited, AtRound, RoundPcs
<1> QED
  BY <1>1, <1>2, <1>3, <1>4, <1>5 DEF Next

LEMMA FollowedAlways == Spec => []Followed
<1>1. Init => Followed
  BY DEF Init, NoCall, Followed, Found, Awaited, AtRound, RoundPcs
<1>2. TypeOK /\ Overlapping /\ Followed /\ [Next]_vars => Followed'
  BY FollowedStep
<1> QED
  BY <1>1, <1>2, OverlappingAlways, TypeCorrect, PTL DEF Spec

=============================================================================
