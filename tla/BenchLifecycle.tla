--------------------------- MODULE BenchLifecycle ---------------------------
(***************************************************************************)
(* The life of a bench in src/server/services/bench-manager.ts: reserving  *)
(* a slot, provisioning its git worktree, bench-level setup and component  *)
(* launch, Clear, Cleanup & Retry, forced unregister, and a crash followed *)
(* by hydrate / reconcile / sweep.                                         *)
(*                                                                         *)
(* The server is one event loop, so code between two awaits is one step.   *)
(* An asynchronous function in flight is a "call": call[c].pc names the    *)
(* await it is parked at, and an action is what runs when that await ends. *)
(* A command that can fail has one action with both outcomes.              *)
(***************************************************************************)
EXTENDS Naturals, FiniteSets

CONSTANTS
    Projects,    \* registered projects
    MaxBenches,  \* benches.max of roubo.yaml, the slots of one project
    MaxGlobal,   \* benches.maxGlobal of settings.json
    Ids,         \* identities of in-memory Bench objects
    Calls,       \* identities of asynchronous calls; bounds the concurrency
    None,        \* no bench, no call
    PullLatest,  \* worktreeSource.pullLatest of the project settings
    MetaRepo,    \* layout.type is meta-repo and submodules are declared
    HasSetup,    \* roubo.yaml has benches.setup
    AutoStart,   \* settings.benches.autoStartComponents
    Operations   \* the operations a run explores: bounds a run's behaviours

ASSUME Parameters ==
    /\ IsFiniteSet(Projects)
    /\ MaxBenches \in Nat \ {0}
    /\ MaxGlobal \in Nat \ {0}
    /\ None \notin Ids \cup Calls
    /\ {PullLatest, MetaRepo, HasSetup, AutoStart} \subseteq BOOLEAN
    /\ Operations \subseteq {"create", "clear", "retry", "start", "unregister", "crash"}

VARIABLES
    registered,  \* the project registry
    benches,     \* Map benches: the bench object live at each key
    bench,       \* the Bench objects, live or still held by a call
    round,       \* workspaceReady and provisioningAborts: the round in flight
    call,        \* the asynchronous calls
    recorded,    \* state.json: the bench object each record describes
    savedSetup,  \* state.json: the record's benchSetupComplete
    disk,        \* the workspace directory and git's admin entry of each key
    boot,        \* what reconcile still has to do after a restart
    left,        \* history: directories the code leaves behind on purpose
    contested,   \* history: keys on which removals or rounds were overlapped
    overran      \* history: keys of rounds still running after a removal's wait, and
                 \* of benches started without their worktree or amid other work

state  == <<recorded, savedSetup>>
ghosts == <<left, contested, overran>>
vars   == <<registered, benches, bench, round, call, recorded, savedSetup,
            disk, boot, left, contested, overran>>

-----------------------------------------------------------------------------
(* Types *)

Keys == Projects \X (1..MaxBenches)

\* "idle" stands for idle and active, which differ in component status only.
Status == {"preparing", "idle", "error", "clearing"}
Bench  == [status : Status, err : BOOLEAN, steps : {"none", "active", "failed"},
           setup : BOOLEAN]

RoundPcs  == {"resolve", "fetch", "pull", "preList", "preRemove", "add",
              "inspect", "submodules", "failList", "failRemove"}
\* The commands started with the round's AbortSignal: an abort kills them.
Killable  == {"fetch", "add", "submodules"}
RetryPcs  == {"rtStop", "rtList", "rtRemove"}
ClearPcs  == {"tdWait", "tdStop", "tdList", "tdRemove", "tdBranch", "tdLeftover"}
UnregPcs  == {"urWait", "urStop", "urRemove"}
Pcs == {"done", "setup", "launch"} \cup RoundPcs \cup RetryPcs \cup ClearPcs \cup UnregPcs

CallRecord == [pc : Pcs, key : Keys \cup {None}, id : Ids \cup {None}, on : Ids \cup {None},
               aborted : BOOLEAN, creates : BOOLEAN, keep : BOOLEAN,
               wait : SUBSET Calls, todo : SUBSET Keys, recs : SUBSET Keys]

\* A call in flight works on a key and, but for an unregister, on a bench object.
Call == {r \in CallRecord :
            r.pc # "done" => /\ r.key \in Keys
                             /\ r.pc \notin UnregPcs => r.id \in Ids
                             /\ r.pc = "launch" => r.on \in Ids
                             /\ r.pc \in UnregPcs => \A k \in r.recs \cup r.todo : k[1] = r.key[1]}

\* What is at a key's workspace path: nothing, a tracked worktree, a worktree
\* locked by a killed `worktree add`, a directory git does not track, or an
\* admin entry whose directory is gone.
Disk == {"none", "tracked", "locked", "orphan", "prunable"}

\* "readded": not reconciled yet, and its worktree was added after the restart.
\* "listed": the sweep saw a prunable entry that no bench claimed.
Boot == {"done", "hydrated", "readded", "reconciled", "listed"}

TypeOK ==
    /\ registered \subseteq Projects
    /\ benches \in [Keys -> Ids \cup {None}]
    /\ bench \in [Ids -> Bench]
    /\ round \in [Keys -> Calls \cup {None}]
    /\ call \in [Calls -> Call]
    /\ recorded \in [Keys -> Ids \cup {None}]
    /\ savedSetup \in [Keys -> BOOLEAN]
    /\ disk \in [Keys -> Disk]
    /\ boot \in [Keys -> Boot]
    /\ left \subseteq Keys
    /\ contested \subseteq Keys
    /\ overran \subseteq Keys

-----------------------------------------------------------------------------
(* Helpers *)

NewBench == [status |-> "preparing", err |-> FALSE, steps |-> "none", setup |-> FALSE]
NoCall   == [pc |-> "done", key |-> None, id |-> None, on |-> None,
             aborted |-> FALSE, creates |-> FALSE, keep |-> FALSE,
             wait |-> {}, todo |-> {}, recs |-> {}]

Live(k)  == benches[k] # None
LiveKeys == {k \in Keys : Live(k)}
On(k, pcs) == {c \in Calls : call[c].pc \in pcs /\ call[c].key = k}

\* A round or a removal is at work on the bench of key k.
Busy(k) == \/ On(k, RoundPcs \cup RetryPcs \cup ClearPcs) # {}
           \/ \E c \in Calls : call[c].pc \in UnregPcs /\ k \in call[c].todo

HasDir(k)   == disk[k] \in {"tracked", "locked", "orphan"}
HasEntry(k) == disk[k] \in {"tracked", "locked", "prunable"}

\* Bug: createBench and Cleanup & Retry do not see an unregister under way.
NeverUnregistering(p) == FALSE
Unregistering(p) == \E c \in Calls : call[c].pc \in UnregPcs /\ call[c].key[1] = p

\* A call identity no call waits on, and a bench object nothing refers to.
FreeCall(c) == call[c].pc = "done" /\ \A d \in Calls : c \notin call[d].wait
FreeId(b) == /\ \A k \in Keys : benches[k] # b /\ recorded[k] # b
             /\ \A c \in Calls : call[c].id # b /\ call[c].on # b

\* Bug: the checkpoints of a round do not read the abort signal.
StoppedWhenGone(c) == ~Live(call[c].key)

\* isBenchLive and the abort signal, read at every checkpoint of a round.
Stopped(c) == call[c].aborted \/ ~Live(call[c].key)

\* Bug: updateBench inserts a record that is gone, as addBench does.
UpsertRecord(k, b, setup) ==
    /\ recorded' = [recorded EXCEPT ![k] = b]
    /\ savedSetup' = [savedSetup EXCEPT ![k] = setup]

\* updateBench: replaces an existing record, no-op when there is none.
UpdateRecord(k, b, setup) ==
    IF recorded[k] = None THEN UNCHANGED state
    ELSE /\ recorded' = [recorded EXCEPT ![k] = b]
         /\ savedSetup' = [savedSetup EXCEPT ![k] = setup]

\* Bugs: the record stays, or its fields are blanked instead of removed.
KeepRecord(k) == UNCHANGED state
BlankRecord(k) ==
    /\ recorded' = [recorded EXCEPT ![k] = None]
    /\ savedSetup' = [savedSetup EXCEPT ![k] = None]

RemoveRecord(k) ==
    /\ recorded' = [recorded EXCEPT ![k] = None]
    /\ savedSetup' = [savedSetup EXCEPT ![k] = FALSE]

\* createNotification: persistBench when the key is live; a repeat without a
\* new payload writes nothing.
Notify(k, b, setup) ==
    \/ Live(k) /\ UpdateRecord(k, b, setup)
    \/ UNCHANGED state

Goto(c, pc)   == call' = [call EXCEPT ![c].pc = pc]
Finish(c)     == call' = [call EXCEPT ![c] = NoCall]
SetDisk(k, d) == disk' = [disk EXCEPT ![k] = d]

-----------------------------------------------------------------------------
(* Worktree provisioning: runWorktreeProvisioning and what follows it *)

\* Where a start of components begins: setup if it has not completed, then launch.
FirstStep(r) == IF HasSetup /\ ~r.setup THEN "setup" ELSE "launch"

\* Bug: a round that ends drops the entry of its key, even a newer round's.
DropAnyRound(c, k) == [round EXCEPT ![k] = None]
DropRound(c, k) == [round EXCEPT ![k] = IF @ = c THEN None ELSE @]

\* The round of c ends leaving its bench as r: waiters resume, its entry is
\* dropped if still its own, and createBench's background call goes on to setup
\* and launch unless the bench failed, is being cleared or is gone.
EndRound(c, r) ==
    LET k == call[c].key
        b == call[c].id
        goesOn == /\ call[c].creates
                  /\ r.status \notin {"error", "clearing"}
                  /\ Live(k)
                  /\ AutoStart \/ HasSetup
        pc   == FirstStep(r)
        next == IF goesOn
                THEN [NoCall EXCEPT !.pc = pc, !.key = k, !.id = b, !.creates = TRUE,
                                    !.on = IF pc = "launch" THEN benches[k] ELSE None]
                ELSE NoCall
    IN /\ round' = DropRound(c, k)
       /\ bench' = [bench EXCEPT ![b] = IF goesOn THEN [r EXCEPT !.status = "preparing"]
                                                 ELSE r]
       /\ call' = [d \in Calls |-> IF d = c THEN next
                                   ELSE [call[d] EXCEPT !.wait = @ \ {c}]]

\* Bug: a failed round ends without marking its bench.
FailRoundSilently(c) == EndRound(c, bench[call[c].id]) /\ UNCHANGED state

\* The catch block: an aborted round is teardown's to report; otherwise the bench
\* is marked and what was created is removed before the round ends.
FailRound(c) ==
    LET k == call[c].key
        b == call[c].id
        r == [bench[b] EXCEPT !.status = "error", !.err = TRUE]
    IN CASE call[c].aborted -> EndRound(c, bench[b]) /\ UNCHANGED state
         [] ~call[c].aborted /\ HasDir(k) ->
              /\ bench' = [bench EXCEPT ![b] = r]
              /\ Goto(c, "failList")
              /\ UNCHANGED <<round, state>>
         [] OTHER -> EndRound(c, r) /\ Notify(k, b, r.setup)

\* The checkpoint before anything is created, then the pre-flight removal.
BeforeAdd(c) ==
    CASE Stopped(c) -> EndRound(c, bench[call[c].id])
      [] ~Stopped(c) /\ HasDir(call[c].key) -> Goto(c, "preList") /\ UNCHANGED <<round, bench>>
      [] OTHER -> Goto(c, "add") /\ UNCHANGED <<round, bench>>

\* runCommand with an already aborted signal returns without running git.
EnterAdd(c) ==
    IF call[c].aborted THEN EndRound(c, bench[call[c].id])
    ELSE Goto(c, "add") /\ UNCHANGED <<round, bench>>

\* Bug: provisioning writes its record with updateBench, which finds none to replace.
RecordByUpdate(c) ==
    IF Stopped(c) THEN EndRound(c, bench[call[c].id]) /\ UNCHANGED state
    ELSE /\ UpdateRecord(call[c].key, call[c].id, bench[call[c].id].setup)
         /\ EndRound(c, [bench[call[c].id] EXCEPT !.status = "idle"])

\* The record's creation, guarded like every checkpoint, then the bench is usable.
RecordBench(c) ==
    LET k == call[c].key
        b == call[c].id
    IN IF Stopped(c) THEN EndRound(c, bench[b]) /\ UNCHANGED state
       ELSE /\ recorded' = [recorded EXCEPT ![k] = b]
            /\ savedSetup' = [savedSetup EXCEPT ![k] = bench[b].setup]
            /\ EndRound(c, [bench[b] EXCEPT !.status = "idle"])

\* What a non-strict removeBenchWorktree leaves: it forces git, then removes the
\* admin entry and the directory by hand, and each of these can fail.
Forced(d) == {"none", d} \cup (IF d \in {"tracked", "locked"} THEN {"orphan", "prunable"} ELSE {})

ResolveEnds(c) ==
    /\ call[c].pc = "resolve"
    /\ \/ FailRound(c)
       \/ /\ IF Stopped(c) \/ bench[call[c].id].status = "clearing"
             THEN EndRound(c, bench[call[c].id])
             ELSE IF PullLatest
             THEN Goto(c, "fetch") /\ UNCHANGED <<round, bench>>
             ELSE BeforeAdd(c)
          /\ UNCHANGED state
    /\ UNCHANGED <<registered, benches, disk, boot, ghosts>>

FetchEnds(c) ==
    /\ call[c].pc = "fetch"
    /\ \/ FailRound(c)
       \/ Goto(c, "pull") /\ UNCHANGED <<round, bench, state>>
    /\ UNCHANGED <<registered, benches, disk, boot, ghosts>>

\* The fast-forward and the submodule updates in the main checkout.
PullEnds(c) ==
    /\ call[c].pc = "pull"
    /\ \/ FailRound(c)
       \/ BeforeAdd(c) /\ UNCHANGED state
    /\ UNCHANGED <<registered, benches, disk, boot, ghosts>>

\* `git worktree list`; a list that fails counts as an entry seen.
PreListEnds(c) ==
    LET k == call[c].key IN
    /\ call[c].pc = "preList"
    /\ \/ Goto(c, "preRemove") /\ UNCHANGED <<round, bench, disk>>
       \/ /\ ~HasEntry(k)
          /\ \E d \in {disk[k], "none"} : SetDisk(k, d)
          /\ EnterAdd(c)
    /\ UNCHANGED <<registered, benches, state, boot, ghosts>>

PreRemoveEnds(c) ==
    LET k == call[c].key IN
    /\ call[c].pc = "preRemove"
    /\ \E d \in Forced(disk[k]) : SetDisk(k, d)
    /\ EnterAdd(c)
    /\ UNCHANGED <<registered, benches, state, boot, ghosts>>

\* `git worktree add` ends: done, refused, or killed by an abort, which can leave
\* a locked entry behind.
AddEnds(c) ==
    LET k == call[c].key IN
    /\ call[c].pc = "add"
    /\ \/ /\ disk[k] = "none"
          /\ SetDisk(k, "tracked")
          /\ boot' = [boot EXCEPT ![k] = IF @ = "hydrated" THEN "readded" ELSE @]
          /\ IF Stopped(c) THEN EndRound(c, bench[call[c].id])
             ELSE Goto(c, "inspect") /\ UNCHANGED <<round, bench>>
          /\ UNCHANGED state
       \/ /\ disk[k] = "none" /\ call[c].aborted
          /\ SetDisk(k, "locked")
          /\ EndRound(c, bench[call[c].id])
          /\ UNCHANGED <<boot, state>>
       \/ /\ UNCHANGED <<boot, disk>>
          /\ IF Stopped(c) THEN EndRound(c, bench[call[c].id]) /\ UNCHANGED state
             ELSE FailRound(c)
    /\ UNCHANGED <<registered, benches, ghosts>>

\* rev-parse in the new worktree and, for a meta-repo, the .gitmodules checks.
InspectEnds(c) ==
    /\ call[c].pc = "inspect"
    /\ \/ MetaRepo /\ FailRound(c)
       \/ IF MetaRepo /\ ~Stopped(c)
          THEN Goto(c, "submodules") /\ UNCHANGED <<round, bench, state>>
          ELSE RecordBench(c)
    /\ UNCHANGED <<registered, benches, disk, boot, ghosts>>

\* A failed submodule update is a warning, not an error.
SubmodulesEnd(c) ==
    /\ call[c].pc = "submodules"
    /\ RecordBench(c)
    /\ UNCHANGED <<registered, benches, disk, boot, ghosts>>

\* After the failure path's removal: the notification, unless the status moved on.
EndFailed(c) ==
    LET b == call[c].id IN
    /\ EndRound(c, bench[b])
    /\ IF bench[b].status = "error" THEN Notify(call[c].key, b, bench[b].setup)
       ELSE UNCHANGED state

FailListEnds(c) ==
    LET k == call[c].key IN
    /\ call[c].pc = "failList"
    /\ \/ Goto(c, "failRemove") /\ UNCHANGED <<round, bench, state, disk>>
       \/ /\ ~HasEntry(k)
          /\ \E d \in {disk[k], "none"} : SetDisk(k, d)
          /\ EndFailed(c)
    /\ UNCHANGED <<registered, benches, boot, ghosts>>

FailRemoveEnds(c) ==
    /\ call[c].pc = "failRemove"
    /\ \E d \in Forced(disk[call[c].key]) : SetDisk(call[c].key, d)
    /\ EndFailed(c)
    /\ UNCHANGED <<registered, benches, boot, ghosts>>

RoundStep(c) ==
    \/ ResolveEnds(c) \/ FetchEnds(c) \/ PullEnds(c) \/ PreListEnds(c) \/ PreRemoveEnds(c)
    \/ AddEnds(c) \/ InspectEnds(c) \/ SubmodulesEnd(c) \/ FailListEnds(c) \/ FailRemoveEnds(c)

-----------------------------------------------------------------------------
(* createBench, bench-level setup and component launch *)

\* Bug: the cap is off by one.
UpToCap == Cardinality(LiveKeys) <= MaxGlobal
BelowCap == Cardinality(LiveKeys) < MaxGlobal

\* createBench: the reservation is one synchronous block.
CreateBench(p) ==
    /\ "create" \in Operations
    /\ p \in registered /\ ~Unregistering(p)
    /\ BelowCap
    /\ \E n \in 1..MaxBenches, b \in Ids, c \in Calls :
        LET k == <<p, n>> IN
        /\ ~Live(k) /\ \A m \in 1..(n-1) : Live(<<p, m>>)
        /\ FreeId(b) /\ FreeCall(c)
        /\ benches' = [benches EXCEPT ![k] = b]
        /\ bench' = [bench EXCEPT ![b] = NewBench]
        /\ round' = [round EXCEPT ![k] = c]
        /\ call' = [call EXCEPT ![c] = [NoCall EXCEPT !.pc = "resolve", !.key = k,
                                                     !.id = b, !.creates = TRUE]]
        /\ left' = left \ {k}
    /\ UNCHANGED <<registered, state, disk, boot, contested, overran>>

\* startAllComponents: no check of preparing or clearing.
StartAll(k) ==
    LET b  == benches[k]
        r  == [bench[b] EXCEPT !.status = "preparing", !.err = FALSE]
        pc == FirstStep(r)
    IN /\ "start" \in Operations
       /\ Live(k) /\ k[1] \in registered
       /\ bench' = [bench EXCEPT ![b] = r]
       /\ \E c \in Calls :
            /\ FreeCall(c)
            /\ call' = [call EXCEPT ![c] = [NoCall EXCEPT !.pc = pc, !.key = k, !.id = b,
                                           !.on = IF pc = "launch" THEN b ELSE None]]
       /\ overran' = IF disk[k] = "tracked" /\ ~Busy(k) THEN overran ELSE overran \cup {k}
       /\ UNCHANGED <<registered, benches, round, state, disk, boot, left, contested>>

\* The bench-setup command ends. It runs for up to ten minutes and nothing stops
\* it; only the presence of the key is checked afterwards.
SetupEnds(c) ==
    LET k == call[c].key
        b == call[c].id
        failed == [bench[b] EXCEPT !.status = "error", !.err = TRUE]
        launches == ~call[c].creates \/ AutoStart
    IN /\ call[c].pc = "setup"
       /\ \/ /\ bench' = [bench EXCEPT ![b] = failed]
             /\ Finish(c)
             /\ IF call[c].creates THEN Notify(k, b, failed.setup) ELSE UNCHANGED state
          \/ /\ ~Live(k)
             /\ Finish(c)
             /\ UNCHANGED <<bench, state>>
          \/ /\ Live(k)
             /\ UpdateRecord(k, b, TRUE)
             /\ IF launches
                THEN /\ bench' = [bench EXCEPT ![b].setup = TRUE]
                     /\ call' = [call EXCEPT ![c].pc = "launch", ![c].on = benches[k]]
                ELSE /\ bench' = [bench EXCEPT ![b].setup = TRUE, ![b].status = "idle"]
                     /\ Finish(c)
       /\ UNCHANGED <<registered, benches, round, disk, boot, ghosts>>

\* The components have been launched, on the bench that was live at the key when
\* the launch began; the status is set on the bench the call holds.
LaunchEnds(c) ==
    LET k == call[c].key
        b == call[c].id
        o == call[c].on
    IN /\ call[c].pc = "launch"
       /\ Finish(c)
       /\ \/ /\ bench' = [bench EXCEPT ![b].status = "idle"]
             /\ UpdateRecord(k, o, bench[o].setup) \/ UNCHANGED state
          \/ /\ bench' = [bench EXCEPT ![b].status = "error", ![b].err = TRUE]
             /\ \E h \in {b, o} : Notify(k, h, bench[h].setup)
       /\ UNCHANGED <<registered, benches, round, disk, boot, ghosts>>

\* updateBenchStatus, called by the status poll and by component operations.
UpdateBenchStatus(k) ==
    /\ Live(k) /\ bench[benches[k]].status \notin {"preparing", "clearing"}
    /\ \E s \in {"idle", "error"} : bench' = [bench EXCEPT ![benches[k]].status = s]
    /\ UNCHANGED <<registered, benches, round, call, state, disk, boot, ghosts>>

-----------------------------------------------------------------------------
(* Clear: teardownBench and runTeardownBackground *)

\* Removals of key k, or rounds a removal of k would not wait for.
Overlaps(k, pcs) == On(k, pcs) # {}

\* Bug: Clear and unregister do not abort the round they wait for.
AbortNone(cs, f) == f
Abort(cs, f) == [d \in Calls |-> IF d \in cs THEN [f[d] EXCEPT !.aborted = TRUE] ELSE f[d]]

TeardownBench(k, keep) ==
    LET b == benches[k] IN
    /\ "clear" \in Operations
    /\ Live(k)
    /\ ~(bench[b].status = "clearing" /\ bench[b].steps = "active")
    /\ bench' = [bench EXCEPT ![b].status = "clearing", ![b].steps = "active"]
    /\ \E c \in Calls :
        /\ FreeCall(c)
        /\ call' = Abort({round[k]},
               [call EXCEPT ![c] = [NoCall EXCEPT
                   !.pc = "tdWait", !.key = k, !.id = b,
                   !.keep = keep \/ k[1] \notin registered,
                   !.wait = {round[k]} \ {None}]])
    /\ contested' = IF Overlaps(k, ClearPcs \cup RetryPcs) THEN contested \cup {k} ELSE contested
    /\ UNCHANGED <<registered, benches, round, state, disk, boot, left, overran>>

\* Bug: Clear does not wait for the round it has aborted.
WaitNever(c) == TRUE

\* settleWithin(15 s) is over: the rounds have settled, or each is parked at a
\* command an abort does not kill. A killed command ends within the 5 s grace.
WaitOver(c) == \A d \in call[c].wait : call[d].pc \notin Killable

ClearWaitEnds(c) ==
    /\ call[c].pc = "tdWait" /\ WaitOver(c)
    /\ call' = [call EXCEPT ![c].pc = "tdStop", ![c].wait = {}]
    /\ overran' = overran \cup {k \in Keys : \E d \in call[c].wait : call[d].key = k}
    /\ UNCHANGED <<registered, benches, bench, round, state, disk, boot, left, contested>>

\* Bugs: a failed Clear reports nothing, or puts back the status from before it.
ClearFailsSilently(c) ==
    /\ UpdateRecord(call[c].key, call[c].id, bench[call[c].id].setup)
    /\ Finish(c)
    /\ UNCHANGED <<benches, bench, round, left>>
ClearFailsRestoring(c) ==
    /\ bench' = [bench EXCEPT ![call[c].id] = [@ EXCEPT !.status = "idle", !.steps = "none"]]
    /\ UpdateRecord(call[c].key, call[c].id, bench[call[c].id].setup)
    /\ Finish(c)
    /\ UNCHANGED <<benches, round, left>>

\* The catch block: the bench is kept, in error, and its record is rewritten.
ClearFails(c) ==
    LET b == call[c].id IN
    /\ bench' = [bench EXCEPT ![b].status = "error", ![b].err = TRUE, ![b].steps = "failed"]
    /\ UpdateRecord(call[c].key, b, bench[b].setup)
    /\ Finish(c)
    /\ UNCHANGED <<benches, round, left>>

\* Step 6: record, map entry and workspaceReady entry go in one tick.
ClearSucceeds(c) ==
    LET k == call[c].key IN
    /\ RemoveRecord(k)
    /\ benches' = [benches EXCEPT ![k] = None]
    /\ round' = [round EXCEPT ![k] = None]
    /\ left' = IF call[c].keep THEN left \cup {k} ELSE left
    /\ Finish(c)
    /\ UNCHANGED bench

\* Terminals, processes and compose projects are stopped; compose down can fail.
ClearStopEnds(c) ==
    /\ call[c].pc = "tdStop"
    /\ \/ ClearFails(c)
       \/ call[c].keep /\ ClearSucceeds(c)
       \/ ~call[c].keep /\ Goto(c, "tdList") /\ UNCHANGED <<benches, bench, round, state, left>>
    /\ UNCHANGED <<registered, disk, boot, contested, overran>>

\* Strict removal, first await: an entry is removed through git, a directory git
\* does not track is removed by hand.
ClearListEnds(c) ==
    LET k == call[c].key IN
    /\ call[c].pc = "tdList"
    /\ \/ Goto(c, "tdRemove") /\ UNCHANGED disk
       \/ ~HasEntry(k) /\ SetDisk(k, "none") /\ Goto(c, "tdBranch")
       \/ disk[k] = "orphan" /\ UNCHANGED disk /\ Goto(c, "tdLeftover")
    /\ UNCHANGED <<registered, benches, bench, round, state, boot, ghosts>>

\* Strict removal through git: a locked worktree, or one already gone, is refused.
ClearRemoveEnds(c) ==
    LET k == call[c].key IN
    /\ call[c].pc = "tdRemove"
    /\ \/ /\ disk[k] \in {"tracked", "prunable"}
          /\ SetDisk(k, "none")
          /\ Goto(c, "tdBranch")
          /\ UNCHANGED <<benches, bench, round, state, left>>
       \/ ClearFails(c) /\ UNCHANGED disk
    /\ UNCHANGED <<registered, boot, contested, overran>>

\* `git branch -D`, which tolerates a missing branch; a leftover directory fails.
ClearBranchEnds(c) ==
    /\ call[c].pc \in {"tdBranch", "tdLeftover"}
    /\ \/ ClearFails(c)
       \/ call[c].pc = "tdBranch" /\ ClearSucceeds(c)
    /\ UNCHANGED <<registered, disk, boot, contested, overran>>

ClearStep(c) ==
    \/ ClearWaitEnds(c) \/ ClearStopEnds(c) \/ ClearListEnds(c) \/ ClearRemoveEnds(c)
    \/ ClearBranchEnds(c)

-----------------------------------------------------------------------------
(* Cleanup & Retry: cleanupAndRetryBench *)

\* Requires an error, not a status: a bench being cleared or retried qualifies.
CleanupAndRetry(k) ==
    LET b == benches[k] IN
    /\ "retry" \in Operations
    /\ Live(k) /\ bench[b].err
    /\ k[1] \in registered /\ ~Unregistering(k[1])
    /\ \E c \in Calls :
        /\ FreeCall(c)
        /\ call' = [call EXCEPT ![c] = [NoCall EXCEPT !.pc = "rtStop", !.key = k, !.id = b]]
    /\ contested' = IF Overlaps(k, ClearPcs \cup RetryPcs \cup RoundPcs)
                    THEN contested \cup {k} ELSE contested
    /\ UNCHANGED <<registered, benches, bench, round, state, disk, boot, left, overran>>

RetryStopEnds(c) ==
    /\ call[c].pc = "rtStop"
    /\ Goto(c, "rtList")
    /\ UNCHANGED <<registered, benches, bench, round, state, disk, boot, ghosts>>

\* After the removal: the record goes, then the bench is reset and a new round
\* takes over the key, unless a forced unregister started meanwhile.
RetryResets(c) ==
    LET k == call[c].key
        b == call[c].id
    IN /\ RemoveRecord(k)
       /\ IF Unregistering(k[1])
          THEN Finish(c) /\ UNCHANGED <<bench, round>>
          ELSE /\ bench' = [bench EXCEPT ![b] = NewBench]
               /\ IF Live(k)
                  THEN /\ round' = [round EXCEPT ![k] = c]
                       /\ call' = [call EXCEPT ![c].pc = "resolve"]
                  ELSE Finish(c) /\ round' = [round EXCEPT ![k] = None]

RetryListEnds(c) ==
    LET k == call[c].key IN
    /\ call[c].pc = "rtList"
    /\ \/ Goto(c, "rtRemove") /\ UNCHANGED <<bench, round, state, disk>>
       \/ /\ ~HasEntry(k)
          /\ \E d \in {disk[k], "none"} : SetDisk(k, d)
          /\ RetryResets(c)
    /\ UNCHANGED <<registered, benches, boot, ghosts>>

RetryRemoveEnds(c) ==
    LET k == call[c].key IN
    /\ call[c].pc = "rtRemove"
    /\ \/ /\ disk[k] \in {"tracked", "prunable"}
          /\ SetDisk(k, "none")
          /\ RetryResets(c)
       \/ Finish(c) /\ UNCHANGED <<bench, round, state, disk>>
    /\ UNCHANGED <<registered, benches, boot, ghosts>>

RetryStep(c) == RetryStopEnds(c) \/ RetryListEnds(c) \/ RetryRemoveEnds(c)

-----------------------------------------------------------------------------
(* Unregister: unregisterProject and removeProjectBenchWorkspaces *)

KeysOf(p)  == {k \in Keys : k[1] = p}
Active(p)  == {k \in KeysOf(p) : Live(k) \/ recorded[k] # None}

UnregisterEmpty(p) ==
    /\ "unregister" \in Operations
    /\ p \in registered /\ Active(p) = {} /\ ~Unregistering(p)
    /\ registered' = registered \ {p}
    /\ UNCHANGED <<benches, bench, round, call, state, disk, boot, ghosts>>

\* Force path: abort the rounds of the live benches, then wait for them. A second
\* unregister shares the pending one.
ForceUnregister(p) ==
    LET rounds == {round[k] : k \in KeysOf(p) \cap LiveKeys} \ {None} IN
    /\ "unregister" \in Operations
    /\ p \in registered /\ Active(p) # {} /\ ~Unregistering(p)
    /\ \E c \in Calls :
        /\ FreeCall(c)
        /\ call' = Abort(rounds,
               [call EXCEPT ![c] = [NoCall EXCEPT
                   !.pc = "urWait", !.key = <<p, 1>>, !.wait = rounds, !.todo = Active(p),
                   !.recs = {k \in Active(p) : recorded[k] # None}]])
    /\ UNCHANGED <<registered, benches, bench, round, state, disk, boot, ghosts>>

UnregisterWaitEnds(c) ==
    /\ call[c].pc = "urWait" /\ WaitOver(c)
    /\ call' = [call EXCEPT ![c].pc = "urStop", ![c].wait = {}]
    /\ overran' = overran \cup {k \in Keys : \E d \in call[c].wait : call[d].key = k}
    /\ UNCHANGED <<registered, benches, bench, round, state, disk, boot, left, contested>>

\* The records seen at the start, the project's map entries and the project go in
\* one tick. d is the disk they leave.
UnregisterDone(c, d) ==
    LET p == call[c].key[1] IN
    /\ recorded' = [k \in Keys |-> IF k \in call[c].recs THEN None ELSE recorded[k]]
    /\ savedSetup' = [k \in Keys |-> IF k \in call[c].recs THEN FALSE ELSE savedSetup[k]]
    /\ benches' = [k \in Keys |-> IF k[1] = p THEN None ELSE benches[k]]
    /\ round' = [k \in Keys |-> IF k[1] = p /\ Live(k) THEN None ELSE round[k]]
    /\ registered' = registered \ {p}
    /\ left' = left \cup {k \in KeysOf(p) : d[k] # "none"}
    /\ Finish(c)

\* Every stop is best effort. With the repository missing nothing is removed.
UnregisterStopEnds(c) ==
    /\ call[c].pc = "urStop"
    /\ \/ /\ Goto(c, "urRemove")
          /\ UNCHANGED <<registered, benches, round, state, left>>
       \/ UnregisterDone(c, disk)
    /\ UNCHANGED <<bench, disk, boot, contested, overran>>

\* One target at a time, non-strict.
UnregisterRemoves(c) ==
    /\ call[c].pc = "urRemove"
    /\ \E k \in call[c].todo :
        /\ \E d \in Forced(disk[k]) : SetDisk(k, d)
        /\ IF call[c].todo = {k} THEN UnregisterDone(c, disk')
           ELSE /\ call' = [call EXCEPT ![c].todo = @ \ {k}]
                /\ UNCHANGED <<registered, benches, round, state, left>>
    /\ UNCHANGED <<bench, boot, contested, overran>>

UnregisterStep(c) == UnregisterWaitEnds(c) \/ UnregisterStopEnds(c) \/ UnregisterRemoves(c)

-----------------------------------------------------------------------------
(* A crash and the next start: initialize, reconcile, sweepLeakedWorktrees *)

\* What a git command cut short by the crash can leave at k.
CrashDisk(k) ==
    {disk[k]}
    \cup (IF disk[k] = "none" /\ On(k, {"add"}) # {} THEN {"tracked", "locked"} ELSE {})
    \cup (IF On(k, {"tdRemove", "rtRemove"}) # {}
          THEN {"none"} \cup (IF disk[k] = "tracked" THEN {"prunable"} ELSE {})
          ELSE {})
    \cup (IF \/ On(k, {"preRemove", "failRemove"}) # {}
             \/ \E c \in Calls : call[c].pc = "urRemove" /\ k \in call[c].todo
          THEN Forced(disk[k]) ELSE {})

\* Memory is lost; initialize hydrates one idle bench per record.
Restart ==
    /\ "crash" \in Operations
    /\ benches' = recorded
    /\ bench' = [b \in Ids |-> [NewBench EXCEPT
                   !.status = "idle",
                   !.setup = \E k \in Keys : recorded[k] = b /\ savedSetup[k]]]
    /\ round' = [k \in Keys |-> None]
    /\ call' = [c \in Calls |-> NoCall]
    /\ disk' \in [Keys -> Disk] /\ \A k \in Keys : disk'[k] \in CrashDisk(k)
    /\ boot' = [k \in Keys |-> "hydrated"]
    /\ left' = left \cup {k \in Keys : recorded[k] = None /\ disk'[k] # "none"}
    /\ UNCHANGED <<registered, state, contested, overran>>

\* reconcile, one bench at a time, while requests are already served. It judges by
\* a `git worktree list` read earlier, which can lack a worktree added since; when
\* that failed, the directory is enough.
Reconcile(k) ==
    LET b == benches[k]
        refused == [bench EXCEPT ![b].status = "error", ![b].err = TRUE]
        accepted == IF bench[b].status \in {"preparing", "clearing"} THEN bench
                    ELSE [bench EXCEPT ![b].status = "idle"]
    IN /\ boot[k] \in {"hydrated", "readded"}
       /\ boot' = [boot EXCEPT ![k] = "reconciled"]
       /\ \/ ~Live(k) /\ UNCHANGED bench
          \/ Live(k) /\ ~HasDir(k) /\ bench' = refused
          \/ /\ Live(k) /\ HasDir(k) /\ k[1] \in registered
             /\ ~HasEntry(k) \/ boot[k] = "readded"
             /\ bench' = refused
          \/ Live(k) /\ HasDir(k) /\ bench' = accepted
       /\ UNCHANGED <<registered, benches, round, call, state, disk, ghosts>>

\* sweepLeakedWorktrees, after all benches: it lists the prunable worktrees no bench
\* claims, and removes them one by one through git.
SweepList(k) ==
    /\ boot[k] = "reconciled" /\ \A j \in Keys : boot[j] \notin {"hydrated", "readded"}
    /\ \E b \in {"done", "listed"} :
        /\ b = "listed" => disk[k] = "prunable" /\ ~Live(k) /\ k[1] \in registered
        /\ boot' = [boot EXCEPT ![k] = b]
    /\ UNCHANGED <<registered, benches, bench, round, call, state, disk, ghosts>>

SweepRemove(k) ==
    /\ boot[k] = "listed"
    /\ boot' = [boot EXCEPT ![k] = "done"]
    /\ \/ disk[k] \in {"tracked", "prunable"} /\ SetDisk(k, "none")
       \/ UNCHANGED disk
    /\ UNCHANGED <<registered, benches, bench, round, call, state, ghosts>>

-----------------------------------------------------------------------------
(* Specification *)

Init ==
    /\ registered = Projects
    /\ benches = [k \in Keys |-> None]
    /\ bench = [b \in Ids |-> NewBench]
    /\ round = [k \in Keys |-> None]
    /\ call = [c \in Calls |-> NoCall]
    /\ recorded = [k \in Keys |-> None]
    /\ savedSetup = [k \in Keys |-> FALSE]
    /\ disk = [k \in Keys |-> "none"]
    /\ boot = [k \in Keys |-> "done"]
    /\ left = {}
    /\ contested = {}
    /\ overran = {}

CallStep(c) == \/ RoundStep(c) \/ SetupEnds(c) \/ LaunchEnds(c)
               \/ ClearStep(c) \/ RetryStep(c) \/ UnregisterStep(c)

Next ==
    \/ \E p \in Projects : CreateBench(p) \/ UnregisterEmpty(p) \/ ForceUnregister(p)
    \/ \E k \in Keys : \/ StartAll(k) \/ UpdateBenchStatus(k) \/ CleanupAndRetry(k)
                       \/ \E keep \in BOOLEAN : TeardownBench(k, keep)
                       \/ Reconcile(k) \/ SweepList(k) \/ SweepRemove(k)
    \/ \E c \in Calls : CallStep(c)
    \/ Restart

Spec == Init /\ [][Next]_vars

-----------------------------------------------------------------------------
(* Safety. `contested` and `overran` name the two cases in which the code lets   *)
(* actors overlap on one bench; README.md, "Overlap", says what each one permits. *)

\* A record of a registered project always has its bench in memory, so a bench
\* that was cleared does not come back at the next start: every write to
\* state.json after an await re-checks that the bench is still there.
NoPhantomRecord ==
    \A k \in Keys : k[1] \in registered /\ recorded[k] # None => Live(k)

\* A directory whose slot is free was left there on purpose, or a round is still
\* running that will remove it: teardown waits for provisioning to stop.
NoOrphanWorktree ==
    \A k \in Keys : HasDir(k) /\ ~Live(k) /\ On(k, RoundPcs) = {} => k \in left \cup contested

\* Clear and a round never change one worktree at once: Clear aborts the round
\* and waits for it before it removes anything.
RemovalIsExclusive ==
    \A c, d \in Calls :
        /\ call[c].pc \in {"tdList", "tdRemove", "tdBranch", "tdLeftover"}
        /\ call[d].pc \in {"add", "submodules"}
        /\ call[c].key = call[d].key
        => call[c].key \in contested

\* A record describes the bench that is live in its slot, never an earlier bench
\* that had the same number.
RecordIsCurrent ==
    \A k \in Keys : k[1] \in registered /\ recorded[k] # None
        => recorded[k] = benches[k] \/ k \in contested \cup overran

\* A bench a user can work in.
Usable(k) == /\ Live(k) /\ bench[benches[k]].status = "idle"
             /\ ~bench[benches[k]].err /\ bench[benches[k]].steps = "none"

\* A bench that creation or Cleanup & Retry made usable is in state.json, so a crash
\* does not lose it. (Start is another matter: on a bench whose provisioning failed
\* it ends in idle without ever writing a record.)
UsableIsRecorded ==
    \A k \in Keys : Usable(k) => recorded[k] = benches[k] \/ k \in contested \cup overran

\* A usable bench has its worktree, once reconcile has looked at it, while no round or
\* removal is at work on it and its project is not being unregistered. (The setup or the
\* launch of an earlier call makes a bench idle in the middle of the round of a Cleanup &
\* Retry; an unregister keeps its benches in the map until it has removed all of them.)
UsableHasWorktree ==
    \A k \in Keys :
        /\ Usable(k) /\ ~Busy(k) /\ ~Unregistering(k[1])
        /\ boot[k] \notin {"hydrated", "readded"}
        => disk[k] = "tracked" \/ k \in contested \cup overran

\* The round of a live bench is always the one Clear and whenWorkspaceProvisioned
\* find: no other round hides it, and it is not dropped before it ends.
RoundIsFindable ==
    \A c \in Calls :
        LET k == call[c].key IN
        call[c].pc \in RoundPcs /\ benches[k] = call[c].id => round[k] = c \/ k \in contested

\* A restart never skips the setup a bench still needs: the record says it is
\* complete only when it is complete for the bench the record describes.
SavedSetupIsLive ==
    \A k \in Keys : Live(k) /\ recorded[k] = benches[k] /\ savedSetup[k]
        => bench[benches[k]].setup

\* Once a project is unregistered nothing in memory or in state.json refers to its
\* benches: no bench is reserved, and no record is written, while it is removed.
UnregisterDropsBenches ==
    \A k \in Keys : k[1] \notin registered
        => (recorded[k] = None /\ ~Live(k)) \/ k \in contested

\* A bench being cleared leaves that status only by going away, by its Clear
\* failing, or by a restart and the reconcile after it, which judges every bench:
\* no round makes it usable again. A setup or a launch that was in flight
\* when the Clear began can: runComponentsInOrder ends with status idle, unread.
ClearingIsSticky ==
    [][\A k \in Keys :
          Live(k) /\ bench[benches[k]].status = "clearing"
          => LET r == bench'[benches[k]] IN
             \/ benches'[k] = None
             \/ r.status = "clearing"
             \/ r.status = "error" /\ r.steps = "failed"
             \/ boot'[k] # boot[k] \/ boot'[k] = "hydrated"
             \/ On(k, {"setup", "launch"}) # {}
             \/ k \in contested']_vars

-----------------------------------------------------------------------------
(* The slots this module implements *)

\* A slot of a registered project as BenchSlots sees it.
Held(k) == k[1] \in registered /\ Live(k)
slotOf  == [k \in Keys |-> IF ~Held(k) THEN "free"
                           ELSE IF recorded[k] # None THEN "recorded" ELSE "reserved"]

Slots == INSTANCE BenchSlots WITH projects <- registered, slot <- slotOf

\* Reservation, recording and release keep the promise of BenchSlots, whatever
\* Clear, Cleanup & Retry, unregister, setup, launch and crashes interleave.
ImplementsSlots == Slots!Spec

\* benches.maxGlobal is never exceeded by the benches of registered projects.
CapHolds == Slots!CapHolds

-----------------------------------------------------------------------------
(* Liveness. A call that is parked resumes: every command a step waits for has a *)
(* timeout in exec.ts or ends by itself. No fairness on requests or crashes.      *)

Fairness == \A c \in Calls : WF_vars(CallStep(c))
FairSpec == Spec /\ Fairness

\* A Clear always reaches an outcome: the bench goes, or is back in error.
ClearEnds ==
    \A k \in Keys : (Live(k) /\ bench[benches[k]].status = "clearing")
        ~> (~Live(k) \/ bench[benches[k]].status # "clearing")

\* Nothing leaves a bench preparing for ever, whatever overlaps its creation.
PreparingEnds ==
    \A k \in Keys : (Live(k) /\ bench[benches[k]].status = "preparing")
        ~> (~Live(k) \/ bench[benches[k]].status # "preparing")

=============================================================================
