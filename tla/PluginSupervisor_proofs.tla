---------------------- MODULE PluginSupervisor_proofs ----------------------
(***************************************************************************)
(* Proofs about PluginSupervisor, for every set of calls and every budget: *)
(* the types, the bound on automatic restarts, that a plugin shown enabled *)
(* has a process or is getting one, that a recovery starts under a living  *)
(* process, and, until something crosses, that the entry owns its child,   *)
(* that a stopped plugin stays stopped and that one recovery runs.         *)
(***************************************************************************)
EXTENDS PluginSupervisor, TLAPS

-----------------------------------------------------------------------------
(* What holds however requests overlap *)

\* The timer names a callback that is still waiting.
TimerWaits == timer # None => At(timer, "backoff")

\* A call that has yet to spawn has no living child.
Expecting(c) ==
    \/ call[c].pc \in {"backoff", "spawning"}
    \/ call[c].op = "restart" /\ call[c].pc \in {"stopping", "stopped"}
UnspawnedIsDead == \A c \in Calls : Expecting(c) => ~Live(c)

\* A child that exits gives the entry up.
OwnerLives == process # None => Live(process)

\* A plugin that went down while enabled: the crash superseded every restart
\* callback, so the latest one, if there is one, is spawning again...
LatestSpawns ==
    status = "enabled" /\ process = None => \A c \in latest : At(c, "spawning")

\* ... and something brings it up, unless it is being stopped.
Coming ==
    known /\ status = "enabled" /\ ~intentional /\ process = None =>
        \E c \in Calls : call[c].pc \in {"backoff", "spawning"}

\* A shut down manager has forgotten its plugins.
Forgotten == known => initialized

\* Every automatic restart is an event of the window.
Counted == tries <= history /\ tries < Budget

\* A call that waits for an exit waits for a child's.
AwaitsChild == \A c \in Calls : call[c].pc \in {"stopping", "settling"} => call[c].on \in Calls

\* Who spawns, and who waits for a child to settle.
Roles == \A c \in Calls :
    /\ At(c, "spawning") => Spawns(c)
    /\ At(c, "settling") => call[c].op = "enable"

\* What a step that begins a recovery does it under.
RecoveryBegins == \A c \in Calls :
    ~At(c, "recovering") /\ At(c, "recovering")' =>
        process # None /\ Live(process) /\ teardowns = {}

\* The types, in three parts.
CallType == [op : Op, pc : Pc, on : Calls \cup {None}]
Booleans == {known, initialized, saved, intentional, off, crossed} \subseteq BOOLEAN
Types ==
    /\ status \in {"disabled", "enabled", "errored"}
    /\ process \in Calls \cup {None} /\ timer \in Calls \cup {None}
    /\ history \in 0..Budget /\ tries \in 0..Budget
    /\ teardowns \subseteq Calls /\ latest \subseteq Calls /\ missed \subseteq Calls
CallsTyped ==
    /\ call \in [Calls -> CallType]
    /\ child \in [Calls -> {"none", "running", "closed", "exited"}]

Inv == /\ Booleans /\ Types /\ CallsTyped /\ TimerWaits /\ UnspawnedIsDead /\ OwnerLives
       /\ LatestSpawns /\ Coming /\ Forgotten /\ Counted /\ AwaitsChild /\ Roles

-----------------------------------------------------------------------------
(* What holds as long as nothing has crossed *)

\* One spawn or stop at a time.
OneBusy == \A c, d \in Calls : Busy(c) /\ Busy(d) => c = d

\* A restart that is due is the one the entry knows of, the plugin is down, and
\* no callback is the latest one.
DueIsKnown == \A r \in Calls :
    At(r, "backoff") => timer = r /\ process = None /\ latest = {}

\* What a busy call knows of the process and of the restarts that are due.
SpawnsAlone == \A c \in Calls :
    At(c, "spawning") => process = None /\ \A r \in Calls : ~At(r, "backoff")
StopsOwner == \A c \in Calls : At(c, "stopping") =>
    /\ intentional /\ process = call[c].on /\ process # None
    /\ \A r \in Calls : ~At(r, "backoff")
StopLeavesNone == \A c \in Calls : call[c].pc \in {"stopped", "removing"} =>
    process = None /\ \A r \in Calls : ~At(r, "backoff")
SettleWatches == \A c \in Calls :
    /\ At(c, "settling") => process = call[c].on /\ process # None
    /\ At(c, "early") => process = None

\* One restart callback at most is the latest one.
OneLatest == \A c, d \in latest : c = d

Owned == \A c \in Calls : Live(c) => process = c

Quieted ==
    off =>
        /\ known => status # "enabled"
        /\ \A c \in Calls : ~Live(c) /\ ~At(c, "backoff") /\ ~(Spawns(c) /\ Busy(c))

Apart == /\ OneBusy /\ DueIsKnown /\ SpawnsAlone /\ StopsOwner /\ StopLeavesNone
         /\ SettleWatches /\ OneLatest /\ Owned

Serial == Apart /\ Quieted

SerialInv == ~crossed /\ missed = {} => Serial

-----------------------------------------------------------------------------
(* What the helpers do to the calls *)

\* The calls other than c are as they were.
Others(c) == \A d \in Calls : d # c => call'[d] = call[d]

Went(c, pc) ==
    /\ call' \in [Calls -> CallType]
    /\ call'[c].pc = pc /\ call'[c].op = call[c].op /\ call'[c].on = call[c].on
    /\ Others(c)

Finished(c) ==
    /\ call' \in [Calls -> CallType]
    /\ call'[c].pc = "idle" /\ call'[c].op = "none" /\ call'[c].on = None
    /\ Others(c)

\* A call whose timer was cleared is idle, the others are as they were.
Cleared(c) == \A d \in Calls : d # c =>
    \/ d = timer /\ call'[d].pc = "idle" /\ call'[d].op = "none" /\ call'[d].on = None
    \/ d # timer /\ call'[d] = call[d]

SpawnBegun(c, what) ==
    /\ call' \in [Calls -> CallType]
    /\ intentional' = FALSE
    /\ child' \in [Calls -> {"none", "running", "closed", "exited"}]
    /\ child'[c] = "none" /\ \A d \in Calls : d # c => child'[d] = child[d]
    /\ call'[c].op = what /\ call'[c].on = None
    /\ \/ /\ call'[c].pc = "spawning"
          /\ IF what = "enable" THEN status' = "disabled" ELSE status' = status
       \/ call'[c].pc = "returned" /\ status' = "errored"
    /\ Others(c)

StopBegun(c, what) ==
    /\ call' \in [Calls -> CallType]
    /\ intentional' = TRUE /\ timer' = None
    /\ call'[c].op = what /\ call'[c].on = process
    /\ \/ process = None /\ call'[c].pc = "stopped"
       \/ process # None /\ call'[c].pc = "stopping"
    /\ Cleared(c)

ExitedEarly(c) ==
    /\ call' \in [Calls -> CallType]
    /\ call'[c].pc = "idle" /\ call'[c].op = "none" /\ call'[c].on = None
    /\ Cleared(c)

NowSettling(c) ==
    /\ call' \in [Calls -> CallType]
    /\ call'[c].pc = "settling" /\ call'[c].op = "enable" /\ call'[c].on = process
    /\ Others(c)

\* What the exit of c does to a call.
Answered(c, d) ==
    /\ call'[d].op = call[d].op /\ call'[d].on = call[d].on
    /\ \/ At(d, "stopping") /\ call[d].on = c /\ call'[d].pc = "stopped"
       \/ At(d, "settling") /\ call[d].on = c /\ call'[d].pc = "early"
       \/ At(d, "dying") /\ d = c /\ call'[d].pc = "returned"
       \/ /\ call'[d].pc = call[d].pc
          /\ ~(At(d, "stopping") /\ call[d].on = c)
          /\ ~(At(d, "settling") /\ call[d].on = c)

LEMMA InvTypes == Inv => TypeOK
BY DEF Inv, TypeOK, Booleans, Types, CallsTyped, CallType

LEMMA GotoCalls ==
    ASSUME TypeOK, NEW c \in Calls, NEW pc \in Pc, Goto(c, pc)
    PROVE  Went(c, pc)
BY DEF TypeOK, Goto, Went, CallType, Others

LEMMA FinishCalls ==
    ASSUME TypeOK, NEW c \in Calls, Finish(c)
    PROVE  Finished(c)
BY DEF TypeOK, Finish, Finished, CallType, Others, Idle, Op, Pc, Urgent

LEMMA BeginSpawnCalls ==
    ASSUME TypeOK, NEW c \in Calls, NEW what \in Op, BeginSpawn(c, what)
    PROVE  SpawnBegun(c, what)
<1>1. PICK pc \in {"spawning", "returned"} : call' = [call EXCEPT ![c] = NewCall(what, pc)]
  BY DEF BeginSpawn
<1>2. NewCall(what, pc) \in CallType
  BY DEF NewCall, CallType, Pc, Urgent
<1>3. call' \in [Calls -> CallType] /\ call'[c] = NewCall(what, pc) /\ Others(c)
  BY <1>1, <1>2 DEF TypeOK, CallType, Others
<1>4. /\ child' \in [Calls -> {"none", "running", "closed", "exited"}]
      /\ child'[c] = "none" /\ \A d \in Calls : d # c => child'[d] = child[d]
  BY DEF TypeOK, BeginSpawn
<1>5. \/ /\ call'[c].pc = "spawning"
         /\ IF what = "enable" THEN status' = "disabled" ELSE status' = status
      \/ call'[c].pc = "returned" /\ status' = "errored"
  <2>1. CASE /\ call' = [call EXCEPT ![c] = NewCall(what, "spawning")]
             /\ status' = IF what = "enable" THEN "disabled" ELSE status
    <3>1. call'[c] = NewCall(what, "spawning")
      BY <2>1 DEF TypeOK
    <3>2. call'[c].pc = "spawning"
      BY <3>1 DEF NewCall
    <3>3. IF what = "enable" THEN status' = "disabled" ELSE status' = status
      BY <2>1
    <3> QED BY <3>2, <3>3
  <2>2. CASE call' = [call EXCEPT ![c] = NewCall(what, "returned")] /\ status' = "errored"
    BY <2>2, <1>3 DEF TypeOK, NewCall
  <2> QED BY <2>1, <2>2 DEF BeginSpawn
<1> QED BY <1>3, <1>4, <1>5 DEF SpawnBegun, BeginSpawn, NewCall

LEMMA DisarmedCalls ==
    ASSUME TypeOK
    PROVE  /\ Disarmed \in [Calls -> CallType]
           /\ \A d \in Calls : Disarmed[d] = IF d = timer THEN Idle ELSE call[d]
BY DEF TypeOK, Disarmed, CallType, Idle, Op, Pc, Urgent

LEMMA BeginStopCalls ==
    ASSUME TypeOK, NEW c \in Calls, NEW what \in Op, BeginStop(c, what)
    PROVE  StopBegun(c, what)
BY DisarmedCalls DEF TypeOK, BeginStop, StopBegun, CallType, Cleared, Idle, Op, Pc, Urgent

LEMMA EarlyExitCalls ==
    ASSUME TypeOK, NEW c \in Calls, EarlyExit(c)
    PROVE  ExitedEarly(c)
BY DisarmedCalls DEF EarlyExit, ExitedEarly, CallType, Cleared, Idle, Op, Pc, Urgent

LEMMA ResumedCalls ==
    ASSUME TypeOK, NEW c \in Calls
    PROVE  /\ Resumed(c) \in [Calls -> CallType]
           /\ call' = Resumed(c) => \A d \in Calls : Answered(c, d)
<1>1. Resumed(c) \in [Calls -> CallType]
  BY DEF TypeOK, Resumed, CallType, Op, Pc, Urgent
<1>2. ASSUME call' = Resumed(c), NEW d \in Calls PROVE Answered(c, d)
  BY <1>2 DEF TypeOK, Resumed, Answered, At
<1> QED BY <1>1, <1>2

LEMMA SettlingCalls ==
    ASSUME TypeOK, NEW c \in Calls, At(c, "returned"), process # None,
           call[c].op = "enable",
           call' = [call EXCEPT ![c] = [@ EXCEPT !.pc = "settling", !.on = process]]
    PROVE  NowSettling(c)
<1> DEFINE r == [call[c] EXCEPT !.pc = "settling", !.on = process]
<1>1. call[c] \in CallType
  BY DEF TypeOK, CallType
<1>2. r \in CallType /\ r.pc = "settling" /\ r.op = "enable" /\ r.on = process
  BY <1>1 DEF TypeOK, CallType, Op, Pc, Urgent
<1>3. call' = [call EXCEPT ![c] = r]
  OBVIOUS
<1> HIDE DEF r
<1>4. call' \in [Calls -> CallType] /\ call'[c] = r /\ Others(c)
  BY <1>2, <1>3 DEF TypeOK, CallType, Others
<1> QED BY <1>2, <1>4 DEF NowSettling

\* A crash arms the timer of a new restart callback.
LEMMA CrashCalls ==
    ASSUME TypeOK, NEW c \in Calls, Crash(c), ~Exhausted
    PROVE  \E r \in Calls \ {c} :
             /\ Free(r) /\ timer' = r
             /\ call' \in [Calls -> CallType]
             /\ call'[r].pc = "backoff" /\ call'[r].op = "respawn" /\ call'[r].on = None
             /\ \A d \in Calls : d # r => Answered(c, d)
<1>1. PICK r \in Calls \ {c} :
        /\ Free(r) /\ timer' = r
        /\ call' = [Resumed(c) EXCEPT ![r] = NewCall("respawn", "backoff")]
  BY DEF Crash
<1>2. Resumed(c) \in [Calls -> CallType]
  BY ResumedCalls
<1>3. call' \in [Calls -> CallType]
  BY <1>1, <1>2 DEF NewCall, CallType, Op, Pc, Urgent
<1>4. call'[r] = NewCall("respawn", "backoff")
  BY <1>1, <1>2
<1>5. ASSUME NEW d \in Calls, d # r PROVE Answered(c, d)
  <2>1. call'[d] = Resumed(c)[d]
    BY <1>1, <1>2, <1>5
  <2> QED BY <2>1 DEF TypeOK, Resumed, Answered, At
<1> QED BY <1>1, <1>3, <1>4, <1>5 DEF NewCall

-----------------------------------------------------------------------------
(* The first invariant is inductive *)

LEMMA InitInv == Init => Inv
<1> SUFFICES ASSUME Init PROVE Inv
  OBVIOUS
<1>1. Booleans
  BY Parameters DEF Init, Booleans, Idle, NewCall
<1>2. Types
  BY Parameters DEF Init, Types, Idle, NewCall
<1>3. CallsTyped
  BY Parameters DEF Init, CallsTyped, Op, Pc, Urgent, CallType, Idle, NewCall
<1>4. TimerWaits
  BY Parameters DEF Init, TimerWaits, At, Idle, NewCall
<1>5. UnspawnedIsDead
  BY Parameters DEF Init, UnspawnedIsDead, Expecting, Live, Idle, NewCall
<1>6. OwnerLives
  BY Parameters DEF Init, OwnerLives, Live, Idle, NewCall
<1>7. LatestSpawns
  BY Parameters DEF Init, LatestSpawns, At, Idle, NewCall
<1>8. Coming
  BY Parameters DEF Init, Coming, Idle, NewCall
<1>9. Forgotten
  BY Parameters DEF Init, Forgotten, Idle, NewCall
<1>10. Counted
  BY Parameters DEF Init, Counted, Idle, NewCall
<1>11. AwaitsChild
  BY Parameters DEF Init, AwaitsChild, Idle, NewCall
<1>12. Roles
  BY Parameters DEF Init, Roles, At, Spawns, Idle, NewCall
<1> QED BY <1>1, <1>2, <1>3, <1>4, <1>5, <1>6, <1>7, <1>8, <1>9, <1>10, <1>11, <1>12 DEF Inv

\* The steps of a spawn.
LEMMA SpawnInv ==
    ASSUME Inv, NEW c \in Calls, SpawnStep(c)
    PROVE  Inv' /\ RecoveryBegins
<1> USE Parameters
<1>1. CASE SpawnEnds(c)
  <2>0. \E pc \in {"wiring", "failed"} : Went(c, pc)
    BY <1>1, InvTypes, GotoCalls DEF SpawnEnds, Pc, Urgent
  <2>1. Booleans' /\ Types' /\ Forgotten' /\ Counted'
    BY <1>1, <2>0 DEF Inv, Types, Booleans, Forgotten, Counted, SpawnEnds, Capped, entry,
          notes, Went, Others, At
  <2>2. CallsTyped' /\ TimerWaits' /\ AwaitsChild' /\ Roles'
    BY <1>1, <2>0 DEF Inv, Types, CallsTyped, CallType, Op, Pc, Urgent, TimerWaits, At,
          AwaitsChild, Roles, Spawns, SpawnEnds, Capped, entry, notes, Went,
          Others
  <2>3. UnspawnedIsDead' /\ OwnerLives'
    BY <1>1, <2>0 DEF Inv, Types, CallsTyped, CallType, UnspawnedIsDead, Expecting, Live,
          OwnerLives, SpawnEnds, Capped, entry, notes, Went, Others, At
  <2>4. LatestSpawns' /\ Coming' /\ RecoveryBegins
    BY <1>1, <2>0 DEF Inv, Types, LatestSpawns, TimerWaits, At, Coming, Forgotten,
          RecoveryBegins, SpawnEnds, Capped, entry, notes, Went, Others
  <2> QED BY <2>1, <2>2, <2>3, <2>4 DEF Inv
<1>2. CASE FailureLogged(c)
  BY <1>2 DEF Inv, CallType, Booleans, Types, CallsTyped, TimerWaits,
      UnspawnedIsDead, OwnerLives, LatestSpawns, Coming, Forgotten, Counted,
      AwaitsChild, Roles, RecoveryBegins, Expecting, Live, At, Spawns, Op,
      Pc, Urgent, FailureLogged, Goto, Finish, Idle, entry, notes
<1>3. CASE WiringEnds(c)
  <2>0. \E pc \in {"returned", "dying"} : Went(c, pc)
    BY <1>3, InvTypes, GotoCalls DEF WiringEnds, Pc, Urgent
  <2>1. Booleans' /\ Types' /\ Forgotten' /\ Counted'
    BY <1>3, <2>0 DEF Inv, Types, Booleans, Forgotten, Counted, WiringEnds, At, entry,
          notes, Went, Others
  <2>2. CallsTyped' /\ TimerWaits' /\ AwaitsChild' /\ Roles'
    BY <1>3, <2>0 DEF Inv, Types, CallsTyped, CallType, Op, Pc, Urgent, TimerWaits, At,
          AwaitsChild, Roles, Spawns, WiringEnds, entry, notes, Went, Others
  <2>3. UnspawnedIsDead' /\ OwnerLives'
    BY <1>3, <2>0 DEF Inv, Types, CallsTyped, CallType, UnspawnedIsDead, Expecting, Live,
          OwnerLives, WiringEnds, At, entry, notes, Went, Others
  <2>4. LatestSpawns' /\ Coming' /\ RecoveryBegins
    BY <1>3, <2>0 DEF Inv, Types, LatestSpawns, TimerWaits, At, Coming, Forgotten,
          RecoveryBegins, WiringEnds, entry, notes, Went, Others
  <2> QED BY <2>1, <2>2, <2>3, <2>4 DEF Inv
<1>4. CASE Returned(c) /\ ReturnedLast(c)
  BY <1>4 DEF Inv, CallType, Booleans, Types, CallsTyped, TimerWaits,
      UnspawnedIsDead, OwnerLives, LatestSpawns, Coming, Forgotten, Counted,
      AwaitsChild, Roles, RecoveryBegins, Expecting, Live, At, Spawns, Op,
      Pc, Urgent, Returned, ReturnedLast, Goto, Finish, Idle, entry, notes
<1>5. CASE Returned(c) /\ ReturnedToTimer(c)
  BY <1>5 DEF Inv, CallType, Booleans, Types, CallsTyped, TimerWaits,
      UnspawnedIsDead, OwnerLives, LatestSpawns, Coming, Forgotten, Counted,
      AwaitsChild, Roles, RecoveryBegins, Expecting, Live, At, Spawns, Op,
      Pc, Urgent, Returned, ReturnedToTimer, Goto, Finish, Idle, entry, notes
<1>6. CASE Returned(c) /\ ReturnedToEnable(c) /\ process # None
  <2>0. NowSettling(c)
    BY <1>6, InvTypes, SettlingCalls DEF Returned, ReturnedToEnable
  <2>1. Booleans' /\ Types' /\ Forgotten' /\ Counted'
    BY <1>6, <2>0 DEF Inv, Types, Booleans, Forgotten, Counted, Returned,
          ReturnedToEnable, entry, notes, NowSettling, Others, At
  <2>2. CallsTyped' /\ TimerWaits' /\ AwaitsChild' /\ Roles'
    BY <1>6, <2>0 DEF Inv, Types, CallsTyped, CallType, Op, Pc, Urgent, TimerWaits, At,
          AwaitsChild, Roles, Spawns, Returned, ReturnedToEnable, entry,
          notes, NowSettling, Others
  <2>3. UnspawnedIsDead' /\ OwnerLives'
    BY <1>6, <2>0 DEF Inv, Types, CallsTyped, CallType, UnspawnedIsDead, Expecting, Live,
          OwnerLives, Returned, ReturnedToEnable, entry, notes, NowSettling,
          Others, At
  <2>4. LatestSpawns' /\ Coming' /\ RecoveryBegins
    BY <1>6, <2>0 DEF Inv, Types, LatestSpawns, TimerWaits, At, Coming, Forgotten,
          RecoveryBegins, Returned, ReturnedToEnable, entry, notes,
          NowSettling, Others
  <2> QED BY <2>1, <2>2, <2>3, <2>4 DEF Inv
<1>7. CASE Returned(c) /\ ReturnedToEnable(c) /\ process = None
  <2>0. EarlyExit(c) /\ ExitedEarly(c)
    BY <1>7, InvTypes, EarlyExitCalls DEF Returned, ReturnedToEnable
  <2>1. Booleans' /\ Types' /\ Forgotten' /\ Counted'
    BY <1>7, <2>0 DEF Inv, Types, Booleans, Forgotten, Counted, Returned,
          ReturnedToEnable, EarlyExit, entry, notes, ExitedEarly, Cleared, At
  <2>2. CallsTyped' /\ TimerWaits' /\ AwaitsChild' /\ Roles'
    BY <1>7, <2>0 DEF Inv, Types, CallsTyped, CallType, Op, Pc, Urgent, TimerWaits, At,
          AwaitsChild, Roles, Spawns, Returned, ReturnedToEnable, EarlyExit,
          entry, notes, ExitedEarly, Cleared
  <2>3. UnspawnedIsDead' /\ OwnerLives'
    BY <1>7, <2>0 DEF Inv, Types, CallsTyped, CallType, UnspawnedIsDead, Expecting, Live,
          OwnerLives, Returned, ReturnedToEnable, EarlyExit, entry, notes,
          ExitedEarly, Cleared, At
  <2>4. LatestSpawns' /\ Coming' /\ RecoveryBegins
    BY <1>7, <2>0 DEF Inv, Types, LatestSpawns, TimerWaits, At, Coming, Forgotten,
          RecoveryBegins, Returned, ReturnedToEnable, EarlyExit, entry,
          notes, ExitedEarly, Cleared
  <2> QED BY <2>1, <2>2, <2>3, <2>4 DEF Inv
<1> QED BY <1>1, <1>2, <1>3, <1>4, <1>5, <1>6, <1>7 DEF SpawnStep, Returned

\* The restart timer and the recovery.
LEMMA RecoveryInv ==
    ASSUME Inv, NEW c \in Calls, RecoveryStep(c)
    PROVE  Inv' /\ RecoveryBegins
<1> USE Parameters
<1>1. CASE TimerFires(c) /\ Cancelled
  <2>0. Finished(c)
    BY <1>1, InvTypes, FinishCalls DEF TimerFires
  <2>1. Booleans' /\ Types' /\ Forgotten' /\ Counted'
    BY <1>1, <2>0 DEF Inv, Types, Booleans, Forgotten, Counted, TimerFires, Cancelled,
          entry, notes, Finished, Others, At
  <2>2. CallsTyped' /\ TimerWaits' /\ AwaitsChild' /\ Roles'
    BY <1>1, <2>0 DEF Inv, Types, CallsTyped, CallType, Op, Pc, Urgent, TimerWaits, At,
          AwaitsChild, Roles, Spawns, TimerFires, Cancelled, entry, notes,
          Finished, Others
  <2>3. UnspawnedIsDead' /\ OwnerLives'
    BY <1>1, <2>0 DEF Inv, Types, CallsTyped, CallType, UnspawnedIsDead, Expecting, Live,
          OwnerLives, TimerFires, Cancelled, entry, notes, Finished, Others,
          At
  <2>4. LatestSpawns' /\ Coming' /\ RecoveryBegins
    BY <1>1, <2>0 DEF Inv, Types, LatestSpawns, TimerWaits, At, Coming, Forgotten,
          RecoveryBegins, TimerFires, Cancelled, entry, notes, Finished,
          Others
  <2> QED BY <2>1, <2>2, <2>3, <2>4 DEF Inv
<1>2. CASE TimerFires(c) /\ ~Cancelled
  <2>0. SpawnBegun(c, "respawn")
    BY <1>2, InvTypes, BeginSpawnCalls DEF TimerFires, Op
  <2>1. Booleans' /\ Types' /\ Forgotten' /\ Counted'
    BY <1>2, <2>0 DEF Inv, Types, Booleans, Forgotten, Counted, TimerFires, Cancelled,
          entry, notes, SpawnBegun, Others, At
  <2>2. CallsTyped' /\ TimerWaits' /\ AwaitsChild' /\ Roles'
    BY <1>2, <2>0 DEF Inv, Types, CallsTyped, CallType, Op, Pc, Urgent, TimerWaits, At,
          AwaitsChild, Roles, Spawns, TimerFires, Cancelled, entry, notes,
          SpawnBegun, Others
  <2>3. UnspawnedIsDead' /\ OwnerLives'
    BY <1>2, <2>0 DEF Inv, Types, CallsTyped, CallType, UnspawnedIsDead, Expecting, Live,
          OwnerLives, TimerFires, Cancelled, entry, notes, SpawnBegun,
          Others, At
  <2>4. LatestSpawns' /\ Coming' /\ RecoveryBegins
    BY <1>2, <2>0 DEF Inv, Types, LatestSpawns, TimerWaits, At, Coming, Forgotten,
          RecoveryBegins, TimerFires, Cancelled, entry, notes, SpawnBegun,
          Others
  <2> QED BY <2>1, <2>2, <2>3, <2>4 DEF Inv
<1>3. CASE TeardownEnds(c)
  BY <1>3 DEF Inv, CallType, Booleans, Types, CallsTyped, TimerWaits,
      UnspawnedIsDead, OwnerLives, LatestSpawns, Coming, Forgotten, Counted,
      AwaitsChild, Roles, RecoveryBegins, Expecting, Live, At, Spawns, Op,
      Pc, Urgent, TeardownEnds, Deleted, Goto, Finish, Idle, entry, notes
<1>4. CASE Drained(c) /\ c \in latest /\ StillUp
  <2>0. Went(c, "recovering")
    BY <1>4, InvTypes, GotoCalls DEF Drained, Pc, Urgent
  <2>1. Booleans' /\ Types' /\ Forgotten' /\ Counted'
    BY <1>4, <2>0 DEF Inv, Types, Booleans, Forgotten, Counted, Drained, StillUp, entry,
          notes, Went, Others, At
  <2>2. CallsTyped' /\ TimerWaits' /\ AwaitsChild' /\ Roles'
    BY <1>4, <2>0 DEF Inv, Types, CallsTyped, CallType, Op, Pc, Urgent, TimerWaits, At,
          AwaitsChild, Roles, Spawns, Drained, StillUp, entry, notes, Went,
          Others
  <2>3. UnspawnedIsDead' /\ OwnerLives'
    BY <1>4, <2>0 DEF Inv, Types, CallsTyped, CallType, UnspawnedIsDead, Expecting, Live,
          OwnerLives, Drained, StillUp, entry, notes, Went, Others, At
  <2>4. LatestSpawns' /\ Coming'
    BY <1>4, <2>0 DEF Inv, Types, LatestSpawns, TimerWaits, At, Coming, Forgotten,
          Drained, StillUp, entry, notes, Went, Others
  <2>5. RecoveryBegins
    <3>1. process # None
      BY <1>4 DEF Drained, StillUp, Inv, LatestSpawns, At
    <3> QED BY <1>4, <2>0, <3>1 DEF Drained, Inv, OwnerLives, RecoveryBegins, Went, Others, At
  <2> QED BY <2>1, <2>2, <2>3, <2>4, <2>5 DEF Inv
<1>5. CASE Drained(c) /\ ~(c \in latest /\ StillUp)
  <2>0. Finished(c)
    BY <1>5, InvTypes, FinishCalls DEF Drained
  <2>1. Booleans' /\ Types' /\ Forgotten' /\ Counted'
    BY <1>5, <2>0 DEF Inv, Types, Booleans, Forgotten, Counted, Drained, entry, notes,
          Finished, Others, At
  <2>2. CallsTyped' /\ TimerWaits' /\ AwaitsChild' /\ Roles'
    BY <1>5, <2>0 DEF Inv, Types, CallsTyped, CallType, Op, Pc, Urgent, TimerWaits, At,
          AwaitsChild, Roles, Spawns, Drained, entry, notes, Finished, Others
  <2>3. UnspawnedIsDead' /\ OwnerLives'
    BY <1>5, <2>0 DEF Inv, Types, CallsTyped, CallType, UnspawnedIsDead, Expecting, Live,
          OwnerLives, Drained, entry, notes, Finished, Others, At
  <2>4. LatestSpawns' /\ Coming' /\ RecoveryBegins
    BY <1>5, <2>0 DEF Inv, Types, LatestSpawns, TimerWaits, At, Coming, Forgotten,
          RecoveryBegins, Drained, entry, notes, Finished, Others
  <2> QED BY <2>1, <2>2, <2>3, <2>4 DEF Inv
<1>6. CASE RecoveryEnds(c)
  BY <1>6 DEF Inv, CallType, Booleans, Types, CallsTyped, TimerWaits,
      UnspawnedIsDead, OwnerLives, LatestSpawns, Coming, Forgotten, Counted,
      AwaitsChild, Roles, RecoveryBegins, Expecting, Live, At, Spawns, Op,
      Pc, Urgent, RecoveryEnds, Goto, Finish, Idle, entry, notes
<1> QED BY <1>1, <1>2, <1>3, <1>4, <1>5, <1>6 DEF RecoveryStep

\* The steps of a stop, and of an enable that settles.
LEMMA StopInv ==
    ASSUME Inv, NEW c \in Calls, StopStep(c)
    PROVE  Inv' /\ RecoveryBegins
<1> USE Parameters
<1>1. CASE StopGivesUp(c)
  <2>0. Went(c, "stopped")
    BY <1>1, InvTypes, GotoCalls DEF StopGivesUp, Pc, Urgent
  <2>1. Booleans' /\ Types' /\ Forgotten' /\ Counted'
    BY <1>1, <2>0 DEF Inv, Types, Booleans, Forgotten, Counted, StopGivesUp, AwaitsChild,
          entry, notes, Went, Others, At
  <2>2. CallsTyped' /\ TimerWaits' /\ AwaitsChild' /\ Roles'
    BY <1>1, <2>0 DEF Inv, Types, CallsTyped, CallType, Op, Pc, Urgent, TimerWaits, At,
          AwaitsChild, Roles, Spawns, StopGivesUp, entry, notes, Went, Others
  <2>3. UnspawnedIsDead' /\ OwnerLives'
    BY <1>1, <2>0 DEF Inv, Types, CallsTyped, CallType, UnspawnedIsDead, Expecting, Live,
          OwnerLives, StopGivesUp, AwaitsChild, entry, notes, Went, Others,
          At
  <2>4. LatestSpawns' /\ Coming' /\ RecoveryBegins
    BY <1>1, <2>0 DEF Inv, Types, LatestSpawns, TimerWaits, At, Coming, Forgotten,
          RecoveryBegins, StopGivesUp, AwaitsChild, entry, notes, Went,
          Others
  <2> QED BY <2>1, <2>2, <2>3, <2>4 DEF Inv
<1>2. CASE Stopped(c) /\ call[c].op = "restart"
  <2>0. SpawnBegun(c, "restart")
    BY <1>2, InvTypes, BeginSpawnCalls DEF Stopped, Op
  <2>1. Booleans'
    BY <1>2, <2>0 DEF Inv, Booleans, Stopped, entry, notes, SpawnBegun, Others, At
  <2>2. Types'
    BY <1>2, <2>0 DEF Inv, Types, Stopped, entry, notes, SpawnBegun, Others, At
  <2>3. Forgotten'
    <3>1. known' = FALSE \/ UNCHANGED <<known, initialized>>
      BY <1>2 DEF Stopped
    <3> QED BY <3>1 DEF Inv, Forgotten
  <2>4. Counted'
    BY <1>2 DEF Inv, Types, Counted, Stopped, entry, notes
  <2>5. CallsTyped' /\ TimerWaits' /\ AwaitsChild' /\ Roles'
    BY <1>2, <2>0 DEF Inv, Types, CallsTyped, CallType, Op, Pc, Urgent, TimerWaits, At,
          AwaitsChild, Roles, Spawns, Stopped, entry, notes, SpawnBegun,
          Others
  <2>6. UnspawnedIsDead' /\ OwnerLives'
    BY <1>2, <2>0 DEF Inv, Types, CallsTyped, CallType, UnspawnedIsDead, Expecting, Live,
          OwnerLives, Stopped, entry, notes, SpawnBegun, Others, At
  <2>7. LatestSpawns' /\ Coming' /\ RecoveryBegins
    BY <1>2, <2>0 DEF Inv, Types, LatestSpawns, TimerWaits, At, Coming, Forgotten,
          RecoveryBegins, Stopped, entry, notes, SpawnBegun, Others
  <2> QED BY <2>1, <2>2, <2>3, <2>4, <2>5, <2>6, <2>7 DEF Inv
<1>3. CASE Stopped(c) /\ call[c].op = "uninstall"
  <2>0. Went(c, "removing")
    BY <1>3, InvTypes, GotoCalls DEF Stopped, Pc, Urgent
  <2>1. Booleans' /\ Types' /\ Counted'
    BY <1>3, <2>0 DEF Inv, Types, Booleans, Counted, Stopped, entry, notes, Went, Others,
          At
  <2>2. Forgotten'
    <3>1. known' = FALSE \/ UNCHANGED <<known, initialized>>
      BY <1>3 DEF Stopped
    <3> QED BY <3>1 DEF Inv, Forgotten
  <2>3. CallsTyped' /\ TimerWaits' /\ AwaitsChild' /\ Roles'
    BY <1>3, <2>0 DEF Inv, Types, CallsTyped, CallType, Op, Pc, Urgent, TimerWaits, At,
          AwaitsChild, Roles, Spawns, Stopped, entry, notes, Went, Others
  <2>4. UnspawnedIsDead' /\ OwnerLives'
    BY <1>3, <2>0 DEF Inv, Types, CallsTyped, CallType, UnspawnedIsDead, Expecting, Live,
          OwnerLives, Stopped, entry, notes, Went, Others, At
  <2>5. LatestSpawns' /\ Coming' /\ RecoveryBegins
    BY <1>3, <2>0 DEF Inv, Types, LatestSpawns, TimerWaits, At, Coming, Forgotten,
          RecoveryBegins, Stopped, entry, notes, Went, Others
  <2> QED BY <2>1, <2>2, <2>3, <2>4, <2>5 DEF Inv
<1>4. CASE Stopped(c) /\ call[c].op \notin {"restart", "uninstall"}
  <2>0. Finished(c)
    BY <1>4, InvTypes, FinishCalls DEF Stopped
  <2>1. Booleans' /\ Types' /\ Counted'
    BY <1>4, <2>0 DEF Inv, Types, Booleans, Counted, Stopped, entry, notes, Finished,
          Others, At
  <2>2. Forgotten'
    <3>1. known' = FALSE \/ UNCHANGED <<known, initialized>>
      BY <1>4 DEF Stopped
    <3> QED BY <3>1 DEF Inv, Forgotten
  <2>3. CallsTyped' /\ TimerWaits' /\ AwaitsChild' /\ Roles'
    BY <1>4, <2>0 DEF Inv, Types, CallsTyped, CallType, Op, Pc, Urgent, TimerWaits, At,
          AwaitsChild, Roles, Spawns, Stopped, entry, notes, Finished, Others
  <2>4. UnspawnedIsDead' /\ OwnerLives'
    BY <1>4, <2>0 DEF Inv, Types, CallsTyped, CallType, UnspawnedIsDead, Expecting, Live,
          OwnerLives, Stopped, entry, notes, Finished, Others, At
  <2>5. LatestSpawns' /\ Coming' /\ RecoveryBegins
    BY <1>4, <2>0 DEF Inv, Types, LatestSpawns, TimerWaits, At, Coming, Forgotten,
          RecoveryBegins, Stopped, entry, notes, Finished, Others
  <2> QED BY <2>1, <2>2, <2>3, <2>4, <2>5 DEF Inv
<1>5. CASE Removed(c)
  <2>0. Finished(c)
    BY <1>5, InvTypes, FinishCalls DEF Removed
  <2>1. Booleans'
    BY <1>5, <2>0 DEF Inv, Booleans, Removed, entry, notes, Finished, Others, At
  <2>2. Types'
    BY <1>5, <2>0 DEF Inv, Types, Removed, entry, notes, Finished, Others, At
  <2>3. Forgotten'
    BY <1>5 DEF Inv, Forgotten, Removed, entry, notes
  <2>4. Counted'
    BY <1>5 DEF Inv, Types, Counted, Removed, entry, notes
  <2>5. CallsTyped' /\ TimerWaits' /\ AwaitsChild' /\ Roles'
    BY <1>5, <2>0 DEF Inv, Types, CallsTyped, CallType, Op, Pc, Urgent, TimerWaits, At,
          AwaitsChild, Roles, Spawns, Removed, entry, notes, Finished, Others
  <2>6. UnspawnedIsDead' /\ OwnerLives'
    BY <1>5, <2>0 DEF Inv, Types, CallsTyped, CallType, UnspawnedIsDead, Expecting, Live,
          OwnerLives, Removed, entry, notes, Finished, Others, At
  <2>7. LatestSpawns' /\ Coming' /\ RecoveryBegins
    BY <1>5, <2>0 DEF Inv, Types, LatestSpawns, TimerWaits, At, Coming, Forgotten,
          RecoveryBegins, Removed, entry, notes, Finished, Others
  <2> QED BY <2>1, <2>2, <2>3, <2>4, <2>5, <2>6, <2>7 DEF Inv
<1>6. CASE Settles(c) /\ Finish(c) /\ UNCHANGED <<intentional, timer>>
  <2>0. Finished(c)
    BY <1>6, InvTypes, FinishCalls 
  <2>1. Booleans' /\ Types' /\ Forgotten' /\ Counted'
    BY <1>6, <2>0 DEF Inv, Types, Booleans, Forgotten, Counted, Settles, entry, notes,
          Finished, Others, At
  <2>2. CallsTyped' /\ TimerWaits' /\ AwaitsChild' /\ Roles'
    BY <1>6, <2>0 DEF Inv, Types, CallsTyped, CallType, Op, Pc, Urgent, TimerWaits, At,
          AwaitsChild, Roles, Spawns, Settles, entry, notes, Finished, Others
  <2>3. UnspawnedIsDead' /\ OwnerLives'
    BY <1>6, <2>0 DEF Inv, Types, CallsTyped, CallType, UnspawnedIsDead, Expecting, Live,
          OwnerLives, Settles, entry, notes, Finished, Others, At
  <2>4. LatestSpawns' /\ Coming' /\ RecoveryBegins
    BY <1>6, <2>0 DEF Inv, Types, LatestSpawns, TimerWaits, At, Coming, Forgotten,
          RecoveryBegins, Settles, entry, notes, Finished, Others
  <2> QED BY <2>1, <2>2, <2>3, <2>4 DEF Inv
<1>7. CASE Settles(c) /\ BeginStop(c, "enable")
  <2>0. StopBegun(c, "enable")
    BY <1>7, InvTypes, BeginStopCalls DEF Op
  <2>1. Booleans' /\ Types' /\ Forgotten' /\ Counted'
    BY <1>7, <2>0 DEF Inv, Types, Booleans, Forgotten, Counted, Settles, entry, notes,
          StopBegun, Cleared, At
  <2>2. CallsTyped' /\ TimerWaits' /\ AwaitsChild' /\ Roles'
    BY <1>7, <2>0 DEF Inv, Types, CallsTyped, CallType, Op, Pc, Urgent, TimerWaits, At,
          AwaitsChild, Roles, Spawns, Settles, entry, notes, StopBegun,
          Cleared
  <2>3. UnspawnedIsDead' /\ OwnerLives'
    BY <1>7, <2>0 DEF Inv, Types, CallsTyped, CallType, UnspawnedIsDead, Expecting, Live,
          OwnerLives, Settles, entry, notes, StopBegun, Cleared, At
  <2>4. LatestSpawns' /\ Coming' /\ RecoveryBegins
    BY <1>7, <2>0 DEF Inv, Types, LatestSpawns, TimerWaits, At, Coming, Forgotten,
          RecoveryBegins, Settles, entry, notes, StopBegun, Cleared
  <2> QED BY <2>1, <2>2, <2>3, <2>4 DEF Inv
<1>8. CASE SettleFails(c)
  <2>0. ExitedEarly(c)
    BY <1>8, InvTypes, EarlyExitCalls DEF SettleFails
  <2>1. Booleans' /\ Types' /\ Forgotten' /\ Counted'
    BY <1>8, <2>0 DEF Inv, Types, Booleans, Forgotten, Counted, SettleFails, EarlyExit,
          entry, notes, ExitedEarly, Cleared, At
  <2>2. CallsTyped' /\ TimerWaits' /\ AwaitsChild' /\ Roles'
    BY <1>8, <2>0 DEF Inv, Types, CallsTyped, CallType, Op, Pc, Urgent, TimerWaits, At,
          AwaitsChild, Roles, Spawns, SettleFails, EarlyExit, entry, notes,
          ExitedEarly, Cleared
  <2>3. UnspawnedIsDead' /\ OwnerLives'
    BY <1>8, <2>0 DEF Inv, Types, CallsTyped, CallType, UnspawnedIsDead, Expecting, Live,
          OwnerLives, SettleFails, EarlyExit, entry, notes, ExitedEarly,
          Cleared, At
  <2>4. LatestSpawns' /\ Coming' /\ RecoveryBegins
    BY <1>8, <2>0 DEF Inv, Types, LatestSpawns, TimerWaits, At, Coming, Forgotten,
          RecoveryBegins, SettleFails, EarlyExit, entry, notes, ExitedEarly,
          Cleared
  <2> QED BY <2>1, <2>2, <2>3, <2>4 DEF Inv
<1> QED BY <1>1, <1>2, <1>3, <1>4, <1>5, <1>6, <1>7, <1>8 DEF StopStep, Stopped, Settles

\* Requests.
LEMMA UserInv ==
    ASSUME Inv, NEW c \in Calls, UserStep(c)
    PROVE  Inv' /\ RecoveryBegins
<1> USE Parameters
<1>1. CASE Enable(c)
  <2>0. SpawnBegun(c, "enable")
    BY <1>1, InvTypes, BeginSpawnCalls DEF Enable, Op
  <2>1. Booleans' /\ Types' /\ Forgotten' /\ Counted'
    BY <1>1, <2>0 DEF Inv, Types, Booleans, Forgotten, Counted, Enable, Crossing, Request, Free,
          entry, notes, SpawnBegun, Others, At
  <2>2. CallsTyped' /\ TimerWaits' /\ AwaitsChild' /\ Roles'
    BY <1>1, <2>0 DEF Inv, Types, CallsTyped, CallType, Op, Pc, Urgent, TimerWaits, At,
          AwaitsChild, Roles, Spawns, Enable, Request, Free, entry, notes,
          SpawnBegun, Others
  <2>3. UnspawnedIsDead' /\ OwnerLives'
    BY <1>1, <2>0 DEF Inv, Types, CallsTyped, CallType, UnspawnedIsDead, Expecting, Live,
          OwnerLives, Enable, Request, Free, entry, notes, SpawnBegun,
          Others, At
  <2>4. LatestSpawns' /\ Coming' /\ RecoveryBegins
    BY <1>1, <2>0 DEF Inv, Types, LatestSpawns, TimerWaits, At, Coming, Forgotten,
          RecoveryBegins, Enable, Request, Free, entry, notes, SpawnBegun,
          Others
  <2> QED BY <2>1, <2>2, <2>3, <2>4 DEF Inv
<1>2. CASE Disable(c) /\ process = None
  BY <1>2 DEF Inv, CallType, Booleans, Types, CallsTyped, TimerWaits,
      UnspawnedIsDead, OwnerLives, LatestSpawns, Coming, Forgotten, Counted,
      AwaitsChild, Roles, RecoveryBegins, Expecting, Live, At, Spawns, Op,
      Pc, Urgent, Disable, Request, Free
<1>3. CASE Disable(c) /\ process # None
  <2>0. StopBegun(c, "disable")
    BY <1>3, InvTypes, BeginStopCalls DEF Disable, Op
  <2>1. Booleans' /\ Types' /\ Forgotten' /\ Counted'
    BY <1>3, <2>0 DEF Inv, Types, Booleans, Forgotten, Counted, Disable, Request, Free,
          entry, notes, StopBegun, Cleared, At
  <2>2. CallsTyped' /\ TimerWaits' /\ AwaitsChild' /\ Roles'
    BY <1>3, <2>0 DEF Inv, Types, CallsTyped, CallType, Op, Pc, Urgent, TimerWaits, At,
          AwaitsChild, Roles, Spawns, Disable, Request, Free, entry, notes,
          StopBegun, Cleared
  <2>3. UnspawnedIsDead' /\ OwnerLives'
    BY <1>3, <2>0 DEF Inv, Types, CallsTyped, CallType, UnspawnedIsDead, Expecting, Live,
          OwnerLives, Disable, Request, Free, entry, notes, StopBegun,
          Cleared, At
  <2>4. LatestSpawns' /\ Coming' /\ RecoveryBegins
    BY <1>3, <2>0 DEF Inv, Types, LatestSpawns, TimerWaits, At, Coming, Forgotten,
          RecoveryBegins, Disable, Request, Free, entry, notes, StopBegun,
          Cleared
  <2> QED BY <2>1, <2>2, <2>3, <2>4 DEF Inv
<1>4. CASE Restart(c) /\ process = None
  <2>0. SpawnBegun(c, "restart")
    BY <1>4, InvTypes, BeginSpawnCalls DEF Restart, Op
  <2>1. Booleans'
    BY <1>4, <2>0 DEF Inv, Booleans, Restart, Crossing, Request, Free, entry, notes, SpawnBegun,
          Others, At
  <2>2. Types'
    BY <1>4, <2>0 DEF Inv, Types, Restart, Request, Free, entry, notes, SpawnBegun,
          Others, At
  <2>3. Forgotten'
    BY <1>4 DEF Inv, Forgotten, Restart, Request, Free, entry, notes
  <2>4. Counted'
    BY <1>4 DEF Inv, Types, Counted, Restart, Request, Free, entry, notes
  <2>5. CallsTyped' /\ TimerWaits' /\ AwaitsChild' /\ Roles'
    BY <1>4, <2>0 DEF Inv, Types, CallsTyped, CallType, Op, Pc, Urgent, TimerWaits, At,
          AwaitsChild, Roles, Spawns, Restart, Request, Free, entry, notes,
          SpawnBegun, Others
  <2>6. UnspawnedIsDead' /\ OwnerLives'
    BY <1>4, <2>0 DEF Inv, Types, CallsTyped, CallType, UnspawnedIsDead, Expecting, Live,
          OwnerLives, Restart, Request, Free, entry, notes, SpawnBegun,
          Others, At
  <2>7. LatestSpawns' /\ Coming' /\ RecoveryBegins
    BY <1>4, <2>0 DEF Inv, Types, LatestSpawns, TimerWaits, At, Coming, Forgotten,
          RecoveryBegins, Restart, Request, Free, entry, notes, SpawnBegun,
          Others
  <2> QED BY <2>1, <2>2, <2>3, <2>4, <2>5, <2>6, <2>7 DEF Inv
<1>5. CASE Restart(c) /\ process # None
  <2>0. StopBegun(c, "restart")
    BY <1>5, InvTypes, BeginStopCalls DEF Restart, Op
  <2>1. Booleans' /\ Types' /\ Forgotten' /\ Counted'
    BY <1>5, <2>0 DEF Inv, Types, Booleans, Forgotten, Counted, Restart, Crossing, Request, Free,
          entry, notes, StopBegun, Cleared, At
  <2>2. CallsTyped' /\ TimerWaits' /\ AwaitsChild' /\ Roles'
    BY <1>5, <2>0 DEF Inv, Types, CallsTyped, CallType, Op, Pc, Urgent, TimerWaits, At,
          AwaitsChild, Roles, Spawns, Restart, Request, Free, entry, notes,
          StopBegun, Cleared
  <2>3. UnspawnedIsDead' /\ OwnerLives'
    BY <1>5, <2>0 DEF Inv, Types, CallsTyped, CallType, UnspawnedIsDead, Expecting, Live,
          OwnerLives, Restart, Request, Free, entry, notes, StopBegun,
          Cleared, At
  <2>4. LatestSpawns' /\ Coming' /\ RecoveryBegins
    BY <1>5, <2>0 DEF Inv, Types, LatestSpawns, TimerWaits, At, Coming, Forgotten,
          RecoveryBegins, Restart, Request, Free, entry, notes, StopBegun,
          Cleared
  <2> QED BY <2>1, <2>2, <2>3, <2>4 DEF Inv
<1>6. CASE Uninstall(c)
  <2>0. StopBegun(c, "uninstall")
    BY <1>6, InvTypes, BeginStopCalls DEF Uninstall, Op
  <2>1. Booleans' /\ Types' /\ Forgotten' /\ Counted'
    BY <1>6, <2>0 DEF Inv, Types, Booleans, Forgotten, Counted, Uninstall, Request, Free,
          entry, notes, StopBegun, Cleared, At
  <2>2. CallsTyped' /\ TimerWaits' /\ AwaitsChild' /\ Roles'
    BY <1>6, <2>0 DEF Inv, Types, CallsTyped, CallType, Op, Pc, Urgent, TimerWaits, At,
          AwaitsChild, Roles, Spawns, Uninstall, Request, Free, entry, notes,
          StopBegun, Cleared
  <2>3. UnspawnedIsDead' /\ OwnerLives'
    BY <1>6, <2>0 DEF Inv, Types, CallsTyped, CallType, UnspawnedIsDead, Expecting, Live,
          OwnerLives, Uninstall, Request, Free, entry, notes, StopBegun,
          Cleared, At
  <2>4. LatestSpawns' /\ Coming' /\ RecoveryBegins
    BY <1>6, <2>0 DEF Inv, Types, LatestSpawns, TimerWaits, At, Coming, Forgotten,
          RecoveryBegins, Uninstall, Request, Free, entry, notes, StopBegun,
          Cleared
  <2> QED BY <2>1, <2>2, <2>3, <2>4 DEF Inv
<1>7. CASE Shutdown(c)
  <2>0. StopBegun(c, "shutdown")
    BY <1>7, InvTypes, BeginStopCalls DEF Shutdown, Op
  <2>1. Booleans' /\ Types' /\ Forgotten' /\ Counted'
    BY <1>7, <2>0 DEF Inv, Types, Booleans, Forgotten, Counted, Shutdown, Request, Free,
          entry, notes, StopBegun, Cleared, At
  <2>2. CallsTyped' /\ TimerWaits' /\ AwaitsChild' /\ Roles'
    BY <1>7, <2>0 DEF Inv, Types, CallsTyped, CallType, Op, Pc, Urgent, TimerWaits, At,
          AwaitsChild, Roles, Spawns, Shutdown, Request, Free, entry, notes,
          StopBegun, Cleared
  <2>3. UnspawnedIsDead' /\ OwnerLives'
    BY <1>7, <2>0 DEF Inv, Types, CallsTyped, CallType, UnspawnedIsDead, Expecting, Live,
          OwnerLives, Shutdown, Request, Free, entry, notes, StopBegun,
          Cleared, At
  <2>4. LatestSpawns' /\ Coming' /\ RecoveryBegins
    BY <1>7, <2>0 DEF Inv, Types, LatestSpawns, TimerWaits, At, Coming, Forgotten,
          RecoveryBegins, Shutdown, Request, Free, entry, notes, StopBegun,
          Cleared
  <2> QED BY <2>1, <2>2, <2>3, <2>4 DEF Inv
<1> QED BY <1>1, <1>2, <1>3, <1>4, <1>5, <1>6, <1>7 DEF UserStep

\* A child goes away.
LEMMA ChildInv ==
    ASSUME Inv, NEW c \in Calls, Closes(c) \/ Exits(c)
    PROVE  Inv' /\ RecoveryBegins
<1> USE Parameters
<1>1. CASE Closes(c)
  BY <1>1 DEF Inv, CallType, Booleans, Types, CallsTyped, TimerWaits,
      UnspawnedIsDead, OwnerLives, LatestSpawns, Coming, Forgotten, Counted,
      AwaitsChild, Roles, RecoveryBegins, Expecting, Live, At, Spawns, Op,
      Pc, Urgent, Closes, Goto, Finish, Idle, entry, notes
<1>2. CASE Exits(c) /\ ~Owns(c)
  <2>0. call' \in [Calls -> CallType] /\ \A d \in Calls : Answered(c, d)
    BY <1>2, InvTypes, ResumedCalls DEF Exits
  <2>1. Booleans' /\ Types' /\ Forgotten' /\ Counted'
    BY <1>2, <2>0 DEF Inv, Types, Booleans, Forgotten, Counted, Exits, Owns, entry,
          notes, Answered, At
  <2>2. CallsTyped' /\ TimerWaits' /\ AwaitsChild' /\ Roles'
    BY <1>2, <2>0 DEF Inv, Types, CallsTyped, CallType, Op, Pc, Urgent, TimerWaits, At,
          AwaitsChild, Roles, Spawns, Exits, Owns, entry, notes, Answered
  <2>3. OwnerLives'
    BY <1>2, <2>0 DEF Inv, Types, CallsTyped, CallType, OwnerLives, UnspawnedIsDead,
          Live, Exits, Owns, entry, notes, Answered, At, Expecting
  <2>4. UnspawnedIsDead'
    <3> SUFFICES ASSUME NEW d \in Calls, Expecting(d)' PROVE ~Live(d)'
      BY DEF UnspawnedIsDead
    <3>1. Expecting(d)
      BY <2>0 DEF Answered, Expecting, At
    <3>2. ~Live(d)
      BY <3>1 DEF Inv, UnspawnedIsDead
    <3> QED BY <1>2, <3>2 DEF Inv, CallsTyped, Exits, Live
  <2>5. LatestSpawns' /\ Coming' /\ RecoveryBegins
    BY <1>2, <2>0 DEF Inv, Types, LatestSpawns, TimerWaits, At, Coming, Forgotten,
          RecoveryBegins, Exits, Owns, entry, notes, Answered
  <2> QED BY <2>1, <2>2, <2>3, <2>4, <2>5 DEF Inv
<1>3. CASE Exits(c) /\ Owns(c) /\ ExpectedExit(c)
  <2>0. call' \in [Calls -> CallType] /\ \A d \in Calls : Answered(c, d)
    BY <1>3, InvTypes, ResumedCalls DEF ExpectedExit
  <2>1. Booleans' /\ Types' /\ Forgotten' /\ Counted'
    BY <1>3, <2>0 DEF Inv, Types, Booleans, Forgotten, Counted, Exits, Owns,
          ExpectedExit, entry, notes, Answered, At
  <2>2. CallsTyped' /\ TimerWaits' /\ AwaitsChild' /\ Roles'
    BY <1>3, <2>0 DEF Inv, Types, CallsTyped, CallType, Op, Pc, Urgent, TimerWaits, At,
          AwaitsChild, Roles, Spawns, Exits, Owns, ExpectedExit, entry,
          notes, Answered
  <2>3. OwnerLives'
    BY <1>3, <2>0 DEF Inv, Types, CallsTyped, CallType, OwnerLives, UnspawnedIsDead,
          Live, Exits, Owns, ExpectedExit, entry, notes, Answered, At,
          Expecting
  <2>4. UnspawnedIsDead'
    <3> SUFFICES ASSUME NEW d \in Calls, Expecting(d)' PROVE ~Live(d)'
      BY DEF UnspawnedIsDead
    <3>1. Expecting(d)
      BY <2>0 DEF Answered, Expecting, At
    <3>2. ~Live(d)
      BY <3>1 DEF Inv, UnspawnedIsDead
    <3> QED BY <1>3, <3>2 DEF Inv, CallsTyped, Exits, Live
  <2>5. LatestSpawns' /\ Coming' /\ RecoveryBegins
    BY <1>3, <2>0 DEF Inv, Types, LatestSpawns, TimerWaits, At, Coming, Forgotten,
          RecoveryBegins, Exits, Owns, ExpectedExit, entry, notes, Answered
  <2> QED BY <2>1, <2>2, <2>3, <2>4, <2>5 DEF Inv
<1>4. CASE Exits(c) /\ Owns(c) /\ Crash(c) /\ Exhausted
  <2>0. call' \in [Calls -> CallType] /\ \A d \in Calls : Answered(c, d)
    BY <1>4, InvTypes, ResumedCalls DEF Crash
  <2>1. Booleans'
    BY <1>4, <2>0 DEF Inv, Booleans, Exits, Owns, Crash, Bumped, Exhausted, Capped,
          entry, notes, Answered, At
  <2>2. Types'
    BY <1>4, <2>0 DEF Inv, Types, Exits, Owns, Crash, Bumped, Exhausted, Capped, entry,
          notes, Answered, At
  <2>3. Forgotten'
    BY <1>4 DEF Inv, Forgotten, Exits, Owns, Crash, Bumped, Exhausted, Capped,
          entry, notes
  <2>4. Counted'
    BY <1>4 DEF Inv, Types, Counted, Exits, Owns, Crash, Bumped, Exhausted, Capped,
          entry, notes
  <2>5. CallsTyped' /\ TimerWaits' /\ AwaitsChild' /\ Roles'
    BY <1>4, <2>0 DEF Inv, Types, CallsTyped, CallType, Op, Pc, Urgent, TimerWaits, At,
          AwaitsChild, Roles, Spawns, Exits, Owns, Crash, Bumped, Exhausted,
          Capped, entry, notes, Answered
  <2>6. OwnerLives'
    BY <1>4, <2>0 DEF Inv, Types, CallsTyped, CallType, OwnerLives, UnspawnedIsDead,
          Live, Exits, Owns, Crash, Bumped, Exhausted, Capped, entry, notes,
          Answered, At, Expecting
  <2>7. UnspawnedIsDead'
    <3> SUFFICES ASSUME NEW d \in Calls, Expecting(d)' PROVE ~Live(d)'
      BY DEF UnspawnedIsDead
    <3>1. Expecting(d)
      BY <2>0 DEF Answered, Expecting, At
    <3>2. ~Live(d)
      BY <3>1 DEF Inv, UnspawnedIsDead
    <3> QED BY <1>4, <3>2 DEF Inv, CallsTyped, Exits, Live
  <2>8. LatestSpawns' /\ Coming' /\ RecoveryBegins
    BY <1>4, <2>0 DEF Inv, Types, LatestSpawns, TimerWaits, At, Coming, Forgotten,
          RecoveryBegins, Exits, Owns, Crash, Bumped, Exhausted, Capped,
          entry, notes, Answered
  <2> QED BY <2>1, <2>2, <2>3, <2>4, <2>5, <2>6, <2>7, <2>8 DEF Inv
<1>5. CASE Exits(c) /\ Owns(c) /\ Crash(c) /\ ~Exhausted
  <2>0. PICK r \in Calls \ {c} :
             /\ Free(r) /\ timer' = r
             /\ call' \in [Calls -> CallType]
             /\ call'[r].pc = "backoff" /\ call'[r].op = "respawn"
             /\ \A d \in Calls : d # r => Answered(c, d)
    BY <1>5, InvTypes, CrashCalls 
  <2>1. Booleans'
    BY <1>5, <2>0 DEF Inv, Booleans, Exits, Owns, Crash, Bumped, Exhausted, Capped, Free,
          entry, notes, Answered, At
  <2>2. Types'
    BY <1>5, <2>0 DEF Inv, Types, Exits, Owns, Crash, Bumped, Exhausted, Capped, Free,
          entry, notes, Answered, At
  <2>3. Forgotten'
    BY <1>5, <2>0 DEF Inv, Forgotten, Exits, Owns, Crash, Bumped, Exhausted, Capped,
          Free, entry, notes, Answered, At
  <2>4. Counted'
    BY <1>5, <2>0 DEF Inv, Types, Counted, Exits, Owns, Crash, Bumped, Exhausted, Capped,
          Free, entry, notes, Answered, At
  <2>5. CallsTyped'
    BY <1>5, <2>0 DEF Inv, CallsTyped, CallType, Op, Pc, Urgent, Exits, Owns, Crash,
          Bumped, Exhausted, Capped, Free, entry, notes, Answered, At
  <2>6. TimerWaits'
    BY <1>5, <2>0 DEF Inv, Types, TimerWaits, At, Exits, Owns, Crash, Bumped, Exhausted,
          Capped, Free, entry, notes, Answered
  <2>7. AwaitsChild'
    BY <1>5, <2>0 DEF Inv, Types, AwaitsChild, Exits, Owns, Crash, Bumped, Exhausted,
          Capped, Free, entry, notes, Answered, At
  <2>8. Roles'
    BY <1>5, <2>0 DEF Inv, Roles, At, Spawns, Exits, Owns, Crash, Bumped, Exhausted,
          Capped, Free, entry, notes, Answered
  <2>9. OwnerLives'
    BY <1>5, <2>0 DEF Inv, Types, CallsTyped, CallType, OwnerLives, UnspawnedIsDead,
          Live, Exits, Owns, Crash, Bumped, Exhausted, Capped, Free, entry,
          notes, Answered, At, Expecting
  <2>10. UnspawnedIsDead'
    <3> SUFFICES ASSUME NEW d \in Calls, Expecting(d)' PROVE ~Live(d)'
      BY DEF UnspawnedIsDead
    <3>1. ~Live(d)
      <4>1. CASE d = r
        BY <2>0, <4>1 DEF Free
      <4>2. CASE d # r
        BY <2>0, <4>2 DEF Inv, UnspawnedIsDead, Answered, Expecting, At
      <4> QED BY <4>1, <4>2
    <3> QED BY <1>5, <3>1 DEF Inv, CallsTyped, Exits, Live
  <2>11. LatestSpawns' /\ Coming' /\ RecoveryBegins
    BY <1>5, <2>0 DEF Inv, Types, LatestSpawns, TimerWaits, At, Coming, Forgotten,
          RecoveryBegins, Exits, Owns, Crash, Bumped, Exhausted, Capped,
          Free, entry, notes, Answered
  <2> QED BY <2>1, <2>2, <2>3, <2>4, <2>5, <2>6, <2>7, <2>8, <2>9, <2>10, <2>11 DEF Inv
<1> QED BY <1>1, <1>2, <1>3, <1>4, <1>5 DEF Exits

LEMMA NextInv == Inv /\ [Next]_vars => Inv' /\ RecoveryBegins
<1> SUFFICES ASSUME Inv, [Next]_vars PROVE Inv' /\ RecoveryBegins
  OBVIOUS
<1>1. ASSUME NEW c \in Calls, CallStep(c) PROVE Inv' /\ RecoveryBegins
  BY <1>1, SpawnInv, RecoveryInv, StopInv, UserInv, ChildInv DEF CallStep
<1>2. CASE EnableRunning \/ WindowPasses \/ UNCHANGED vars
  <2>1. UNCHANGED <<known, initialized, status, process, intentional, timer,
                    teardowns, latest, child, call, off, missed, crossed>>
    BY <1>2 DEF EnableRunning, WindowPasses, vars, entry, notes
  <2>2. /\ saved' = TRUE \/ saved' = saved
        /\ \/ history' = history /\ tries' = tries
           \/ history > 0 /\ history' = history - 1 /\ tries' = 0
    BY <1>2 DEF EnableRunning, WindowPasses, vars, entry, notes
  <2>3. Booleans'
    BY <2>1, <2>2 DEF Inv, Booleans
  <2>4. Types' /\ Counted'
    BY <2>1, <2>2, Parameters DEF Inv, Types, Counted
  <2>5. CallsTyped' /\ TimerWaits' /\ UnspawnedIsDead' /\ OwnerLives' /\ AwaitsChild'
    BY <2>1 DEF Inv, CallsTyped, TimerWaits, UnspawnedIsDead, OwnerLives, AwaitsChild,
       Expecting, Live, At
  <2>6. LatestSpawns' /\ Coming' /\ Forgotten'
    BY <2>1 DEF Inv, LatestSpawns, Coming, Forgotten, At
  <2>7. Roles' /\ RecoveryBegins
    BY <2>1 DEF Inv, Roles, RecoveryBegins, At, Spawns
  <2> QED BY <2>3, <2>4, <2>5, <2>6, <2>7 DEF Inv
<1> QED BY <1>1, <1>2 DEF Next

THEOREM Invariance == Spec => []Inv
BY InitInv, NextInv, PTL DEF Spec

\* Every variable keeps its type.
THEOREM TypeCorrect == Spec => []TypeOK
BY Invariance, InvTypes, PTL

\* However requests, crashes and restarts overlap, a plugin shown as enabled that
\* nobody is stopping has a living process, or one is on its way.
THEOREM EnabledRunsAlways == Spec => []EnabledRuns
<1>1. Inv => EnabledRuns
  BY DEF Inv, OwnerLives, Coming, EnabledRuns
<1> QED BY <1>1, Invariance, PTL

\* Fewer than RESTART_BUDGET automatic restarts follow each other within the
\* window: each one is an event that the window still holds.
THEOREM RestartsBounded == Spec => []RestartsAreBounded
<1>1. Inv => RestartsAreBounded
  BY DEF Inv, Counted, RestartsAreBounded
<1> QED BY <1>1, Invariance, PTL

\* A recovery begins under a living process and with no teardown in flight.
THEOREM RecoverySupervised == Spec => RecoveryIsSupervised
<1>1. Inv /\ [Next]_vars =>
        [\A c \in Calls : ~At(c, "recovering") /\ At(c, "recovering")' =>
            /\ process # None /\ Live(process)
            /\ teardowns = {}]_vars
  BY NextInv DEF RecoveryBegins
<1> QED BY <1>1, Invariance, PTL DEF Spec, RecoveryIsSupervised

-----------------------------------------------------------------------------
(* The second invariant is inductive *)

LEMMA InitSerial == Init => Serial
<1> SUFFICES ASSUME Init PROVE Serial
  OBVIOUS
<1>1. process = None /\ timer = None /\ latest = {} /\ \A c \in Calls : child[c] = "none"
  BY DEF Init
<1>2. OneBusy /\ \A c \in Calls :
          /\ call[c].pc \in {"idle", "spawning"}
          /\ off => At(c, "idle")
  <2>1. CASE off
    BY <2>1 DEF Init, OneBusy, Busy, At, Idle
  <2>2. CASE ~off
    <3>1. PICK b \in Calls :
            call = [c \in Calls |-> IF c = b THEN NewCall("boot", "spawning") ELSE Idle]
      BY <2>2 DEF Init
    <3> QED BY <2>2, <3>1 DEF OneBusy, Busy, At, Idle, NewCall
  <2> QED BY <2>1, <2>2
<1>3. DueIsKnown /\ SpawnsAlone /\ StopsOwner /\ StopLeavesNone /\ SettleWatches
  BY <1>1, <1>2 DEF DueIsKnown, SpawnsAlone, StopsOwner, StopLeavesNone, SettleWatches, At
<1>4. OneLatest /\ Owned
  BY <1>1 DEF OneLatest, Owned, Live
<1>5. Quieted
  BY <1>1, <1>2 DEF Init, Quieted, Live, At, Busy
<1> QED BY <1>2, <1>3, <1>4, <1>5 DEF Serial, Apart

\* The steps of a spawn.
LEMMA SpawnSerial ==
    ASSUME Inv, Serial, ~crossed', missed' = {}, NEW c \in Calls, SpawnStep(c)
    PROVE  Serial'
<1> USE Parameters
<1>1. CASE SpawnEnds(c)
  <2>0. \E pc \in {"wiring", "failed"} : Went(c, pc)
    BY <1>1, InvTypes, GotoCalls DEF SpawnEnds, Pc, Urgent
  <2>1. OneBusy' /\ OneLatest' /\ DueIsKnown'
    BY <1>1, <2>0 DEF Inv, Serial, Apart, OneBusy, Busy, At, OneLatest, DueIsKnown, Types,
            TimerWaits, SpawnsAlone, SpawnEnds, Capped, entry, notes, Went,
            Others
  <2>2. SpawnsAlone' /\ StopsOwner' /\ StopLeavesNone' /\ SettleWatches'
    BY <1>1, <2>0 DEF Inv, Serial, Apart, Types, SpawnsAlone, DueIsKnown, StopLeavesNone,
            OneBusy, Busy, At, StopsOwner, SettleWatches, SpawnEnds, Capped,
            entry, notes, Went, Others
  <2>3. Owned' /\ Quieted'
    BY <1>1, <2>0 DEF Inv, Serial, Apart, Types, CallsTyped, Owned, SpawnsAlone, Live, At,
            Quieted, DueIsKnown, StopLeavesNone, SettleWatches, OneBusy,
            Roles, Spawns, Busy, SpawnEnds, Capped, entry, notes, Went,
            Others
  <2> QED BY <2>1, <2>2, <2>3 DEF Serial, Apart
<1>2. CASE FailureLogged(c)
  <2>1. OneBusy' /\ OneLatest' /\ DueIsKnown'
    BY <1>2 DEF Inv, Serial, Apart, OneBusy, Busy, At, OneLatest, DueIsKnown, Types,
            TimerWaits, SpawnsAlone, FailureLogged, Goto, Finish, Idle,
            entry, notes
  <2>2. SpawnsAlone' /\ StopsOwner' /\ StopLeavesNone' /\ SettleWatches'
    BY <1>2 DEF Inv, Serial, Apart, Types, SpawnsAlone, DueIsKnown, StopLeavesNone,
            OneBusy, Busy, At, StopsOwner, SettleWatches, FailureLogged,
            Goto, Finish, Idle, entry, notes
  <2>3. Owned' /\ Quieted'
    BY <1>2 DEF Inv, Serial, Apart, Types, CallsTyped, Owned, SpawnsAlone, Live, At,
            Quieted, DueIsKnown, StopLeavesNone, SettleWatches, OneBusy,
            Roles, Spawns, Busy, FailureLogged, Goto, Finish, Idle, entry,
            notes
  <2> QED BY <2>1, <2>2, <2>3 DEF Serial, Apart
<1>3. CASE WiringEnds(c)
  <2>0. \E pc \in {"returned", "dying"} : Went(c, pc)
    BY <1>3, InvTypes, GotoCalls DEF WiringEnds, Pc, Urgent
  <2>1. OneBusy' /\ OneLatest' /\ DueIsKnown'
    BY <1>3, <2>0 DEF Inv, Serial, Apart, OneBusy, Busy, At, OneLatest, DueIsKnown, Types,
            TimerWaits, SpawnsAlone, WiringEnds, entry, notes, Went, Others
  <2>2. SpawnsAlone' /\ StopsOwner' /\ StopLeavesNone' /\ SettleWatches'
    BY <1>3, <2>0 DEF Inv, Serial, Apart, Types, SpawnsAlone, DueIsKnown, StopLeavesNone,
            OneBusy, Busy, At, StopsOwner, SettleWatches, WiringEnds, entry,
            notes, Went, Others
  <2>3. Owned' /\ Quieted'
    BY <1>3, <2>0 DEF Inv, Serial, Apart, Types, CallsTyped, Owned, SpawnsAlone, Live, At,
            Quieted, DueIsKnown, StopLeavesNone, SettleWatches, OneBusy,
            Roles, Spawns, Busy, WiringEnds, entry, notes, Went, Others
  <2> QED BY <2>1, <2>2, <2>3 DEF Serial, Apart
<1>4. CASE Returned(c) /\ ReturnedLast(c)
  <2>1. OneBusy' /\ OneLatest' /\ DueIsKnown'
    BY <1>4 DEF Inv, Serial, Apart, OneBusy, Busy, At, OneLatest, DueIsKnown, Types,
            TimerWaits, SpawnsAlone, Returned, ReturnedLast, Goto, Finish,
            Idle, entry, notes
  <2>2. SpawnsAlone' /\ StopsOwner' /\ StopLeavesNone' /\ SettleWatches'
    BY <1>4 DEF Inv, Serial, Apart, Types, SpawnsAlone, DueIsKnown, StopLeavesNone,
            OneBusy, Busy, At, StopsOwner, SettleWatches, Returned,
            ReturnedLast, Goto, Finish, Idle, entry, notes
  <2>3. Owned' /\ Quieted'
    BY <1>4 DEF Inv, Serial, Apart, Types, CallsTyped, Owned, SpawnsAlone, Live, At,
            Quieted, DueIsKnown, StopLeavesNone, SettleWatches, OneBusy,
            Roles, Spawns, Busy, Returned, ReturnedLast, Goto, Finish, Idle,
            entry, notes
  <2> QED BY <2>1, <2>2, <2>3 DEF Serial, Apart
<1>5. CASE Returned(c) /\ ReturnedToTimer(c)
  <2>1. OneBusy' /\ OneLatest' /\ DueIsKnown'
    BY <1>5 DEF Inv, Serial, Apart, OneBusy, Busy, At, OneLatest, DueIsKnown, Types,
            TimerWaits, SpawnsAlone, Returned, ReturnedToTimer, Goto, Finish,
            Idle, entry, notes
  <2>2. SpawnsAlone' /\ StopsOwner' /\ StopLeavesNone' /\ SettleWatches'
    BY <1>5 DEF Inv, Serial, Apart, Types, SpawnsAlone, DueIsKnown, StopLeavesNone,
            OneBusy, Busy, At, StopsOwner, SettleWatches, Returned,
            ReturnedToTimer, Goto, Finish, Idle, entry, notes
  <2>3. Owned' /\ Quieted'
    BY <1>5 DEF Inv, Serial, Apart, Types, CallsTyped, Owned, SpawnsAlone, Live, At,
            Quieted, DueIsKnown, StopLeavesNone, SettleWatches, OneBusy,
            Roles, Spawns, Busy, Returned, ReturnedToTimer, Goto, Finish,
            Idle, entry, notes
  <2> QED BY <2>1, <2>2, <2>3 DEF Serial, Apart
<1>6. CASE Returned(c) /\ ReturnedToEnable(c) /\ process # None
  <2>0. NowSettling(c)
    BY <1>6, InvTypes, SettlingCalls DEF Returned, ReturnedToEnable
  <2>1. OneBusy' /\ OneLatest' /\ DueIsKnown'
    BY <1>6, <2>0 DEF Inv, Serial, Apart, OneBusy, Busy, At, OneLatest, DueIsKnown, Types,
            TimerWaits, SpawnsAlone, Returned, ReturnedToEnable, entry,
            notes, NowSettling, Others
  <2>2. SpawnsAlone' /\ StopsOwner' /\ StopLeavesNone' /\ SettleWatches'
    BY <1>6, <2>0 DEF Inv, Serial, Apart, Types, SpawnsAlone, DueIsKnown, StopLeavesNone,
            OneBusy, Busy, At, StopsOwner, SettleWatches, Returned,
            ReturnedToEnable, entry, notes, NowSettling, Others
  <2>3. Owned' /\ Quieted'
    BY <1>6, <2>0 DEF Inv, Serial, Apart, Types, CallsTyped, Owned, SpawnsAlone, Live, At,
            Quieted, DueIsKnown, StopLeavesNone, SettleWatches, OneBusy,
            Roles, Spawns, Busy, Returned, ReturnedToEnable, entry, notes,
            NowSettling, Others
  <2> QED BY <2>1, <2>2, <2>3 DEF Serial, Apart
<1>7. CASE Returned(c) /\ ReturnedToEnable(c) /\ process = None
  <2>0. EarlyExit(c) /\ ExitedEarly(c)
    BY <1>7, InvTypes, EarlyExitCalls DEF Returned, ReturnedToEnable
  <2>1. OneBusy' /\ OneLatest' /\ DueIsKnown'
    BY <1>7, <2>0 DEF Inv, Serial, Apart, OneBusy, Busy, At, OneLatest, DueIsKnown, Types,
            TimerWaits, SpawnsAlone, Returned, ReturnedToEnable, EarlyExit,
            entry, notes, ExitedEarly, Cleared
  <2>2. SpawnsAlone' /\ StopsOwner' /\ StopLeavesNone' /\ SettleWatches'
    BY <1>7, <2>0 DEF Inv, Serial, Apart, Types, SpawnsAlone, DueIsKnown, StopLeavesNone,
            OneBusy, Busy, At, StopsOwner, SettleWatches, Returned,
            ReturnedToEnable, EarlyExit, entry, notes, ExitedEarly, Cleared
  <2>3. Owned' /\ Quieted'
    BY <1>7, <2>0 DEF Inv, Serial, Apart, Types, CallsTyped, Owned, SpawnsAlone, Live, At,
            Quieted, DueIsKnown, StopLeavesNone, SettleWatches, OneBusy,
            Roles, Spawns, Busy, Returned, ReturnedToEnable, EarlyExit,
            entry, notes, ExitedEarly, Cleared
  <2> QED BY <2>1, <2>2, <2>3 DEF Serial, Apart
<1> QED BY <1>1, <1>2, <1>3, <1>4, <1>5, <1>6, <1>7 DEF SpawnStep, Returned

\* The restart timer and the recovery.
LEMMA RecoverySerial ==
    ASSUME Inv, Serial, ~crossed', missed' = {}, NEW c \in Calls, RecoveryStep(c)
    PROVE  Serial'
<1> USE Parameters
<1>1. CASE TimerFires(c) /\ Cancelled
  <2>0. Finished(c)
    BY <1>1, InvTypes, FinishCalls DEF TimerFires
  <2>1. OneBusy' /\ OneLatest' /\ DueIsKnown'
    BY <1>1, <2>0 DEF Inv, Serial, Apart, OneBusy, Busy, At, OneLatest, DueIsKnown, Types,
            TimerWaits, SpawnsAlone, TimerFires, Cancelled, entry, notes,
            Finished, Others, AnotherBusy, RestartDue
  <2>2. SpawnsAlone' /\ StopsOwner' /\ StopLeavesNone' /\ SettleWatches'
    BY <1>1, <2>0 DEF Inv, Serial, Apart, Types, SpawnsAlone, DueIsKnown, StopLeavesNone,
            OneBusy, Busy, At, StopsOwner, SettleWatches, TimerFires,
            Cancelled, entry, notes, Finished, Others, AnotherBusy, RestartDue
  <2>3. Owned' /\ Quieted'
    BY <1>1, <2>0 DEF Inv, Serial, Apart, Types, CallsTyped, Owned, SpawnsAlone, Live, At,
            Quieted, DueIsKnown, StopLeavesNone, SettleWatches, OneBusy,
            Roles, Spawns, Busy, TimerFires, Cancelled, entry, notes,
            Finished, Others, AnotherBusy, RestartDue
  <2> QED BY <2>1, <2>2, <2>3 DEF Serial, Apart
<1>2. CASE TimerFires(c) /\ ~Cancelled
  <2>0. SpawnBegun(c, "respawn")
    BY <1>2, InvTypes, BeginSpawnCalls DEF TimerFires, Op
  <2>4. \A d \in Calls \ {c} : ~Busy(d)
    BY <1>2 DEF TimerFires, AnotherBusy
  <2>1. OneBusy' /\ OneLatest' /\ DueIsKnown'
    BY <1>2, <2>0, <2>4 DEF Inv, Serial, Apart, OneBusy, Busy, At, OneLatest, DueIsKnown, Types,
            TimerWaits, SpawnsAlone, TimerFires, Cancelled, entry, notes,
            SpawnBegun, Others
  <2>2. SpawnsAlone' /\ StopsOwner' /\ StopLeavesNone' /\ SettleWatches'
    BY <1>2, <2>0, <2>4 DEF Inv, Serial, Apart, Types, SpawnsAlone, DueIsKnown, StopLeavesNone,
            OneBusy, Busy, At, StopsOwner, SettleWatches, TimerFires,
            Cancelled, entry, notes, SpawnBegun, Others
  <2>3. Owned' /\ Quieted'
    BY <1>2, <2>0, <2>4 DEF Inv, Serial, Apart, Types, CallsTyped, Owned, SpawnsAlone, Live, At,
            Quieted, DueIsKnown, StopLeavesNone, SettleWatches, OneBusy,
            Roles, Spawns, Busy, TimerFires, Cancelled, entry, notes,
            SpawnBegun, Others
  <2> QED BY <2>1, <2>2, <2>3 DEF Serial, Apart
<1>3. CASE TeardownEnds(c)
  <2>1. OneBusy' /\ OneLatest' /\ DueIsKnown'
    BY <1>3 DEF Inv, Serial, Apart, OneBusy, Busy, At, OneLatest, DueIsKnown, Types,
            TimerWaits, SpawnsAlone, TeardownEnds, Deleted, Goto, Finish,
            Idle, entry, notes
  <2>2. SpawnsAlone' /\ StopsOwner' /\ StopLeavesNone' /\ SettleWatches'
    BY <1>3 DEF Inv, Serial, Apart, Types, SpawnsAlone, DueIsKnown, StopLeavesNone,
            OneBusy, Busy, At, StopsOwner, SettleWatches, TeardownEnds,
            Deleted, Goto, Finish, Idle, entry, notes
  <2>3. Owned' /\ Quieted'
    BY <1>3 DEF Inv, Serial, Apart, Types, CallsTyped, Owned, SpawnsAlone, Live, At,
            Quieted, DueIsKnown, StopLeavesNone, SettleWatches, OneBusy,
            Roles, Spawns, Busy, TeardownEnds, Deleted, Goto, Finish, Idle,
            entry, notes
  <2> QED BY <2>1, <2>2, <2>3 DEF Serial, Apart
<1>4. CASE Drained(c) /\ c \in latest /\ StillUp
  <2>0. Went(c, "recovering")
    BY <1>4, InvTypes, GotoCalls DEF Drained, Pc, Urgent
  <2>1. OneBusy' /\ OneLatest' /\ DueIsKnown'
    BY <1>4, <2>0 DEF Inv, Serial, Apart, OneBusy, Busy, At, OneLatest, DueIsKnown, Types,
            TimerWaits, SpawnsAlone, Drained, StillUp, entry, notes, Went,
            Others
  <2>2. SpawnsAlone' /\ StopsOwner' /\ StopLeavesNone' /\ SettleWatches'
    BY <1>4, <2>0 DEF Inv, Serial, Apart, Types, SpawnsAlone, DueIsKnown, StopLeavesNone,
            OneBusy, Busy, At, StopsOwner, SettleWatches, Drained, StillUp,
            entry, notes, Went, Others
  <2>3. Owned' /\ Quieted'
    BY <1>4, <2>0 DEF Inv, Serial, Apart, Types, CallsTyped, Owned, SpawnsAlone, Live, At,
            Quieted, DueIsKnown, StopLeavesNone, SettleWatches, OneBusy,
            Roles, Spawns, Busy, Drained, StillUp, entry, notes, Went, Others
  <2> QED BY <2>1, <2>2, <2>3 DEF Serial, Apart
<1>5. CASE Drained(c) /\ ~(c \in latest /\ StillUp)
  <2>0. Finished(c)
    BY <1>5, InvTypes, FinishCalls DEF Drained
  <2>1. OneBusy' /\ OneLatest' /\ DueIsKnown'
    BY <1>5, <2>0 DEF Inv, Serial, Apart, OneBusy, Busy, At, OneLatest, DueIsKnown, Types,
            TimerWaits, SpawnsAlone, Drained, entry, notes, Finished, Others
  <2>2. SpawnsAlone' /\ StopsOwner' /\ StopLeavesNone' /\ SettleWatches'
    BY <1>5, <2>0 DEF Inv, Serial, Apart, Types, SpawnsAlone, DueIsKnown, StopLeavesNone,
            OneBusy, Busy, At, StopsOwner, SettleWatches, Drained, entry,
            notes, Finished, Others
  <2>3. Owned' /\ Quieted'
    BY <1>5, <2>0 DEF Inv, Serial, Apart, Types, CallsTyped, Owned, SpawnsAlone, Live, At,
            Quieted, DueIsKnown, StopLeavesNone, SettleWatches, OneBusy,
            Roles, Spawns, Busy, Drained, entry, notes, Finished, Others
  <2> QED BY <2>1, <2>2, <2>3 DEF Serial, Apart
<1>6. CASE RecoveryEnds(c)
  <2>1. OneBusy' /\ OneLatest' /\ DueIsKnown'
    BY <1>6 DEF Inv, Serial, Apart, OneBusy, Busy, At, OneLatest, DueIsKnown, Types,
            TimerWaits, SpawnsAlone, RecoveryEnds, Goto, Finish, Idle, entry,
            notes
  <2>2. SpawnsAlone' /\ StopsOwner' /\ StopLeavesNone' /\ SettleWatches'
    BY <1>6 DEF Inv, Serial, Apart, Types, SpawnsAlone, DueIsKnown, StopLeavesNone,
            OneBusy, Busy, At, StopsOwner, SettleWatches, RecoveryEnds, Goto,
            Finish, Idle, entry, notes
  <2>3. Owned' /\ Quieted'
    BY <1>6 DEF Inv, Serial, Apart, Types, CallsTyped, Owned, SpawnsAlone, Live, At,
            Quieted, DueIsKnown, StopLeavesNone, SettleWatches, OneBusy,
            Roles, Spawns, Busy, RecoveryEnds, Goto, Finish, Idle, entry,
            notes
  <2> QED BY <2>1, <2>2, <2>3 DEF Serial, Apart
<1> QED BY <1>1, <1>2, <1>3, <1>4, <1>5, <1>6 DEF RecoveryStep

\* The steps of a stop, and of an enable that settles.
LEMMA StopSerial ==
    ASSUME Inv, Serial, ~crossed', missed' = {}, NEW c \in Calls, StopStep(c)
    PROVE  Serial'
<1> USE Parameters
<1>1. CASE StopGivesUp(c)
  <2>0. Went(c, "stopped")
    BY <1>1, InvTypes, GotoCalls DEF StopGivesUp, Pc, Urgent
  <2>1. OneBusy' /\ OneLatest' /\ DueIsKnown'
    BY <1>1, <2>0 DEF Inv, Serial, Apart, OneBusy, Busy, At, OneLatest, DueIsKnown, Types,
            TimerWaits, SpawnsAlone, StopGivesUp, AwaitsChild, entry, notes,
            Went, Others
  <2>2. SpawnsAlone' /\ StopsOwner' /\ StopLeavesNone' /\ SettleWatches'
    BY <1>1, <2>0 DEF Inv, Serial, Apart, Types, SpawnsAlone, DueIsKnown, StopLeavesNone,
            OneBusy, Busy, At, StopsOwner, SettleWatches, StopGivesUp,
            AwaitsChild, entry, notes, Went, Others
  <2>3. Owned' /\ Quieted'
    BY <1>1, <2>0 DEF Inv, Serial, Apart, Types, CallsTyped, Owned, SpawnsAlone, Live, At,
            Quieted, DueIsKnown, StopLeavesNone, SettleWatches, OneBusy,
            Roles, Spawns, Busy, StopGivesUp, AwaitsChild, entry, notes,
            Went, Others
  <2> QED BY <2>1, <2>2, <2>3 DEF Serial, Apart
<1>2. CASE Stopped(c) /\ call[c].op = "restart"
  <2>0. SpawnBegun(c, "restart")
    BY <1>2, InvTypes, BeginSpawnCalls DEF Stopped, Op
  <2>1. OneBusy' /\ OneLatest' /\ DueIsKnown'
    BY <1>2, <2>0 DEF Inv, Serial, Apart, OneBusy, Busy, At, OneLatest, DueIsKnown, Types,
            TimerWaits, SpawnsAlone, Stopped, entry, notes, SpawnBegun,
            Others
  <2>2. SpawnsAlone' /\ StopsOwner' /\ StopLeavesNone' /\ SettleWatches'
    BY <1>2, <2>0 DEF Inv, Serial, Apart, Types, SpawnsAlone, DueIsKnown, StopLeavesNone,
            OneBusy, Busy, At, StopsOwner, SettleWatches, Stopped, entry,
            notes, SpawnBegun, Others
  <2>3. Owned' /\ Quieted'
    BY <1>2, <2>0 DEF Inv, Serial, Apart, Types, CallsTyped, Owned, SpawnsAlone, Live, At,
            Quieted, DueIsKnown, StopLeavesNone, SettleWatches, OneBusy,
            Roles, Spawns, Busy, Stopped, entry, notes, SpawnBegun, Others
  <2> QED BY <2>1, <2>2, <2>3 DEF Serial, Apart
<1>3. CASE Stopped(c) /\ call[c].op = "uninstall"
  <2>0. Went(c, "removing")
    BY <1>3, InvTypes, GotoCalls DEF Stopped, Pc, Urgent
  <2>1. OneBusy' /\ OneLatest' /\ DueIsKnown'
    BY <1>3, <2>0 DEF Inv, Serial, Apart, OneBusy, Busy, At, OneLatest, DueIsKnown, Types,
            TimerWaits, SpawnsAlone, Stopped, entry, notes, Went, Others
  <2>2. SpawnsAlone' /\ StopsOwner' /\ StopLeavesNone' /\ SettleWatches'
    BY <1>3, <2>0 DEF Inv, Serial, Apart, Types, SpawnsAlone, DueIsKnown, StopLeavesNone,
            OneBusy, Busy, At, StopsOwner, SettleWatches, Stopped, entry,
            notes, Went, Others
  <2>3. Owned' /\ Quieted'
    BY <1>3, <2>0 DEF Inv, Serial, Apart, Types, CallsTyped, Owned, SpawnsAlone, Live, At,
            Quieted, DueIsKnown, StopLeavesNone, SettleWatches, OneBusy,
            Roles, Spawns, Busy, Stopped, entry, notes, Went, Others
  <2> QED BY <2>1, <2>2, <2>3 DEF Serial, Apart
<1>4. CASE Stopped(c) /\ call[c].op \notin {"restart", "uninstall"}
  <2>0. Finished(c)
    BY <1>4, InvTypes, FinishCalls DEF Stopped
  <2>1. OneBusy' /\ OneLatest' /\ DueIsKnown'
    BY <1>4, <2>0 DEF Inv, Serial, Apart, OneBusy, Busy, At, OneLatest, DueIsKnown, Types,
            TimerWaits, SpawnsAlone, Stopped, entry, notes, Finished, Others
  <2>2. SpawnsAlone' /\ StopsOwner' /\ StopLeavesNone' /\ SettleWatches'
    BY <1>4, <2>0 DEF Inv, Serial, Apart, Types, SpawnsAlone, DueIsKnown, StopLeavesNone,
            OneBusy, Busy, At, StopsOwner, SettleWatches, Stopped, entry,
            notes, Finished, Others
  <2>3. Owned' /\ Quieted'
    BY <1>4, <2>0 DEF Inv, Serial, Apart, Types, CallsTyped, Owned, SpawnsAlone, Live, At,
            Quieted, DueIsKnown, StopLeavesNone, SettleWatches, OneBusy,
            Roles, Spawns, Busy, Stopped, entry, notes, Finished, Others
  <2> QED BY <2>1, <2>2, <2>3 DEF Serial, Apart
<1>5. CASE Removed(c)
  <2>0. Finished(c)
    BY <1>5, InvTypes, FinishCalls DEF Removed
  <2>1. OneBusy' /\ OneLatest' /\ DueIsKnown'
    BY <1>5, <2>0 DEF Inv, Serial, Apart, OneBusy, Busy, At, OneLatest, DueIsKnown, Types,
            TimerWaits, SpawnsAlone, Removed, entry, notes, Finished, Others
  <2>2. SpawnsAlone' /\ StopsOwner' /\ StopLeavesNone' /\ SettleWatches'
    BY <1>5, <2>0 DEF Inv, Serial, Apart, Types, SpawnsAlone, DueIsKnown, StopLeavesNone,
            OneBusy, Busy, At, StopsOwner, SettleWatches, Removed, entry,
            notes, Finished, Others
  <2>3. Owned' /\ Quieted'
    BY <1>5, <2>0 DEF Inv, Serial, Apart, Types, CallsTyped, Owned, SpawnsAlone, Live, At,
            Quieted, DueIsKnown, StopLeavesNone, SettleWatches, OneBusy,
            Roles, Spawns, Busy, Removed, entry, notes, Finished, Others
  <2> QED BY <2>1, <2>2, <2>3 DEF Serial, Apart
<1>6. CASE Settles(c) /\ Finish(c) /\ UNCHANGED <<intentional, timer>>
  <2>0. Finished(c)
    BY <1>6, InvTypes, FinishCalls 
  <2>1. OneBusy' /\ OneLatest' /\ DueIsKnown'
    BY <1>6, <2>0 DEF Inv, Serial, Apart, OneBusy, Busy, At, OneLatest, DueIsKnown, Types,
            TimerWaits, SpawnsAlone, Settles, entry, notes, Finished, Others
  <2>2. SpawnsAlone' /\ StopsOwner' /\ StopLeavesNone' /\ SettleWatches'
    BY <1>6, <2>0 DEF Inv, Serial, Apart, Types, SpawnsAlone, DueIsKnown, StopLeavesNone,
            OneBusy, Busy, At, StopsOwner, SettleWatches, Settles, entry,
            notes, Finished, Others
  <2>3. Owned' /\ Quieted'
    BY <1>6, <2>0 DEF Inv, Serial, Apart, Types, CallsTyped, Owned, SpawnsAlone, Live, At,
            Quieted, DueIsKnown, StopLeavesNone, SettleWatches, OneBusy,
            Roles, Spawns, Busy, Settles, entry, notes, Finished, Others
  <2> QED BY <2>1, <2>2, <2>3 DEF Serial, Apart
<1>7. CASE Settles(c) /\ BeginStop(c, "enable")
  <2>0. StopBegun(c, "enable")
    BY <1>7, InvTypes, BeginStopCalls DEF Op
  <2>1. OneBusy' /\ OneLatest' /\ DueIsKnown'
    BY <1>7, <2>0 DEF Inv, Serial, Apart, OneBusy, Busy, At, OneLatest, DueIsKnown, Types,
            TimerWaits, SpawnsAlone, Settles, entry, notes, StopBegun,
            Cleared
  <2>2. SpawnsAlone' /\ StopsOwner' /\ StopLeavesNone' /\ SettleWatches'
    BY <1>7, <2>0 DEF Inv, Serial, Apart, Types, SpawnsAlone, DueIsKnown, StopLeavesNone,
            OneBusy, Busy, At, StopsOwner, SettleWatches, Settles, entry,
            notes, StopBegun, Cleared
  <2>3. Owned' /\ Quieted'
    BY <1>7, <2>0 DEF Inv, Serial, Apart, Types, CallsTyped, Owned, SpawnsAlone, Live, At,
            Quieted, DueIsKnown, StopLeavesNone, SettleWatches, OneBusy,
            Roles, Spawns, Busy, Settles, entry, notes, StopBegun, Cleared
  <2> QED BY <2>1, <2>2, <2>3 DEF Serial, Apart
<1>8. CASE SettleFails(c)
  <2>0. ExitedEarly(c)
    BY <1>8, InvTypes, EarlyExitCalls DEF SettleFails
  <2>1. OneBusy' /\ OneLatest' /\ DueIsKnown'
    BY <1>8, <2>0 DEF Inv, Serial, Apart, OneBusy, Busy, At, OneLatest, DueIsKnown, Types,
            TimerWaits, SpawnsAlone, SettleFails, EarlyExit, entry, notes,
            ExitedEarly, Cleared
  <2>2. SpawnsAlone' /\ StopsOwner' /\ StopLeavesNone' /\ SettleWatches'
    BY <1>8, <2>0 DEF Inv, Serial, Apart, Types, SpawnsAlone, DueIsKnown, StopLeavesNone,
            OneBusy, Busy, At, StopsOwner, SettleWatches, SettleFails,
            EarlyExit, entry, notes, ExitedEarly, Cleared
  <2>3. Owned' /\ Quieted'
    BY <1>8, <2>0 DEF Inv, Serial, Apart, Types, CallsTyped, Owned, SpawnsAlone, Live, At,
            Quieted, DueIsKnown, StopLeavesNone, SettleWatches, OneBusy,
            Roles, Spawns, Busy, SettleFails, EarlyExit, entry, notes,
            ExitedEarly, Cleared
  <2> QED BY <2>1, <2>2, <2>3 DEF Serial, Apart
<1> QED BY <1>1, <1>2, <1>3, <1>4, <1>5, <1>6, <1>7, <1>8 DEF StopStep, Stopped, Settles

\* An entry with nothing in flight keeps everything apart.
LEMMA SettledApart == AllSettled => Apart
BY DEF AllSettled, Apart, OneBusy, Busy, At, DueIsKnown, SpawnsAlone, StopsOwner,
   StopLeavesNone, SettleWatches, OneLatest, Owned

\* A request that asks for the plugin turns it on whatever was noted before.
LEMMA FreshSerial ==
    ASSUME Inv, Apart, missed' = {}, NEW c \in Calls,
           ~AnotherBusy(c), ~RestartDue, Enable(c) \/ Restart(c)
    PROVE  Serial'
<1> USE Parameters
<1>1. CASE Enable(c)
  <2>0. SpawnBegun(c, "enable")
    BY <1>1, InvTypes, BeginSpawnCalls DEF Enable, Op
  <2>1. OneBusy' /\ OneLatest' /\ DueIsKnown'
    BY <1>1, <2>0 DEF Inv, Apart, OneBusy, Busy, At, OneLatest, DueIsKnown, Types,
            TimerWaits, SpawnsAlone, Enable, Request, Free, entry, notes,
            SpawnBegun, Others, AnotherBusy, RestartDue
  <2>2. SpawnsAlone' /\ StopsOwner' /\ StopLeavesNone' /\ SettleWatches'
    BY <1>1, <2>0 DEF Inv, Apart, Types, SpawnsAlone, DueIsKnown, StopLeavesNone,
            OneBusy, Busy, At, StopsOwner, SettleWatches, Enable, Request,
            Free, entry, notes, SpawnBegun, Others, AnotherBusy, RestartDue
  <2>3. Owned' /\ Quieted'
    BY <1>1, <2>0 DEF Inv, Apart, Types, CallsTyped, Owned, SpawnsAlone, Live, At,
            Quieted, DueIsKnown, StopLeavesNone, SettleWatches, OneBusy,
            Roles, Spawns, Busy, Enable, Request, Free, entry, notes,
            SpawnBegun, Others, AnotherBusy, RestartDue
  <2> QED BY <2>1, <2>2, <2>3 DEF Serial, Apart
<1>2. CASE Restart(c) /\ process = None
  <2>0. SpawnBegun(c, "restart")
    BY <1>2, InvTypes, BeginSpawnCalls DEF Restart, Op
  <2>1. OneBusy' /\ OneLatest' /\ DueIsKnown'
    BY <1>2, <2>0 DEF Inv, Apart, OneBusy, Busy, At, OneLatest, DueIsKnown, Types,
            TimerWaits, SpawnsAlone, Restart, Request, Free, entry, notes,
            SpawnBegun, Others, AnotherBusy, RestartDue
  <2>2. SpawnsAlone' /\ StopsOwner' /\ StopLeavesNone' /\ SettleWatches'
    BY <1>2, <2>0 DEF Inv, Apart, Types, SpawnsAlone, DueIsKnown, StopLeavesNone,
            OneBusy, Busy, At, StopsOwner, SettleWatches, Restart, Request,
            Free, entry, notes, SpawnBegun, Others, AnotherBusy, RestartDue
  <2>3. Owned' /\ Quieted'
    BY <1>2, <2>0 DEF Inv, Apart, Types, CallsTyped, Owned, SpawnsAlone, Live, At,
            Quieted, DueIsKnown, StopLeavesNone, SettleWatches, OneBusy,
            Roles, Spawns, Busy, Restart, Request, Free, entry, notes,
            SpawnBegun, Others, AnotherBusy, RestartDue
  <2> QED BY <2>1, <2>2, <2>3 DEF Serial, Apart
<1>3. CASE Restart(c) /\ process # None
  <2>0. StopBegun(c, "restart")
    BY <1>3, InvTypes, BeginStopCalls DEF Restart, Op
  <2>1. OneBusy' /\ OneLatest' /\ DueIsKnown'
    BY <1>3, <2>0 DEF Inv, Apart, OneBusy, Busy, At, OneLatest, DueIsKnown, Types,
            TimerWaits, SpawnsAlone, Restart, Request, Free, entry, notes,
            StopBegun, Cleared, AnotherBusy, RestartDue
  <2>2. SpawnsAlone' /\ StopsOwner' /\ StopLeavesNone' /\ SettleWatches'
    BY <1>3, <2>0 DEF Inv, Apart, Types, SpawnsAlone, DueIsKnown, StopLeavesNone,
            OneBusy, Busy, At, StopsOwner, SettleWatches, Restart, Request,
            Free, entry, notes, StopBegun, Cleared, AnotherBusy, RestartDue
  <2>3. Owned' /\ Quieted'
    BY <1>3, <2>0 DEF Inv, Apart, Types, CallsTyped, Owned, SpawnsAlone, Live, At,
            Quieted, DueIsKnown, StopLeavesNone, SettleWatches, OneBusy,
            Roles, Spawns, Busy, Restart, Request, Free, entry, notes,
            StopBegun, Cleared, AnotherBusy, RestartDue
  <2> QED BY <2>1, <2>2, <2>3 DEF Serial, Apart
<1> QED BY <1>1, <1>2, <1>3 DEF Enable, Restart

\* Requests.
LEMMA UserSerial ==
    ASSUME Inv, Serial, ~crossed', missed' = {}, NEW c \in Calls, UserStep(c)
    PROVE  Serial'
<1> USE Parameters
<1>1. CASE Enable(c) \/ Restart(c)
  BY <1>1, FreshSerial DEF Serial, Enable, Restart, Crossing
<1>2. CASE Disable(c) /\ process = None
  <2>1. OneBusy' /\ OneLatest' /\ DueIsKnown'
    BY <1>2 DEF Inv, Serial, Apart, OneBusy, Busy, At, OneLatest, DueIsKnown, Types,
            TimerWaits, SpawnsAlone, Disable, Request, Free, entry, notes,
            AnotherBusy, RestartDue
  <2>2. SpawnsAlone' /\ StopsOwner' /\ StopLeavesNone' /\ SettleWatches'
    BY <1>2 DEF Inv, Serial, Apart, Types, SpawnsAlone, DueIsKnown, StopLeavesNone,
            OneBusy, Busy, At, StopsOwner, SettleWatches, Disable, Request,
            Free, entry, notes, AnotherBusy, RestartDue
  <2>3. Owned' /\ Quieted'
    BY <1>2 DEF Inv, Serial, Apart, Types, CallsTyped, Owned, SpawnsAlone, Live, At,
            Quieted, DueIsKnown, StopLeavesNone, SettleWatches, OneBusy,
            Roles, Spawns, Busy, Disable, Request, Free, entry, notes,
            AnotherBusy, RestartDue
  <2> QED BY <2>1, <2>2, <2>3 DEF Serial, Apart
<1>3. CASE Disable(c) /\ process # None
  <2>0. StopBegun(c, "disable")
    BY <1>3, InvTypes, BeginStopCalls DEF Disable, Op
  <2>1. OneBusy' /\ OneLatest' /\ DueIsKnown'
    BY <1>3, <2>0 DEF Inv, Serial, Apart, OneBusy, Busy, At, OneLatest, DueIsKnown, Types,
            TimerWaits, SpawnsAlone, Disable, Request, Free, entry, notes,
            StopBegun, Cleared, AnotherBusy, RestartDue
  <2>2. SpawnsAlone' /\ StopsOwner' /\ StopLeavesNone' /\ SettleWatches'
    BY <1>3, <2>0 DEF Inv, Serial, Apart, Types, SpawnsAlone, DueIsKnown, StopLeavesNone,
            OneBusy, Busy, At, StopsOwner, SettleWatches, Disable, Request,
            Free, entry, notes, StopBegun, Cleared, AnotherBusy, RestartDue
  <2>3. Owned'
    BY <1>3, <2>0 DEF Inv, Serial, Apart, Types, CallsTyped, Owned, SpawnsAlone, Live, At,
            Disable, Request, Free, entry, notes, StopBegun, Cleared,
            AnotherBusy, RestartDue
  <2>4. Quieted'
    BY <1>3, <2>0 DEF Inv, Serial, Apart, Types, CallsTyped, Quieted, Owned, DueIsKnown,
            StopLeavesNone, SettleWatches, OneBusy, Roles, Spawns, Busy,
            Live, At, Disable, Request, Free, entry, notes, StopBegun,
            Cleared, AnotherBusy, RestartDue
  <2> QED BY <2>1, <2>2, <2>3, <2>4 DEF Serial, Apart
<1>4. CASE Uninstall(c)
  <2>0. StopBegun(c, "uninstall")
    BY <1>4, InvTypes, BeginStopCalls DEF Uninstall, Op
  <2>1. OneBusy' /\ OneLatest' /\ DueIsKnown'
    BY <1>4, <2>0 DEF Inv, Serial, Apart, OneBusy, Busy, At, OneLatest, DueIsKnown, Types,
            TimerWaits, SpawnsAlone, Uninstall, Request, Free, entry, notes,
            StopBegun, Cleared, AnotherBusy, RestartDue
  <2>2. SpawnsAlone' /\ StopsOwner' /\ StopLeavesNone' /\ SettleWatches'
    BY <1>4, <2>0 DEF Inv, Serial, Apart, Types, SpawnsAlone, DueIsKnown, StopLeavesNone,
            OneBusy, Busy, At, StopsOwner, SettleWatches, Uninstall, Request,
            Free, entry, notes, StopBegun, Cleared, AnotherBusy, RestartDue
  <2>3. Owned' /\ Quieted'
    BY <1>4, <2>0 DEF Inv, Serial, Apart, Types, CallsTyped, Owned, SpawnsAlone, Live, At,
            Quieted, DueIsKnown, StopLeavesNone, SettleWatches, OneBusy,
            Roles, Spawns, Busy, Uninstall, Request, Free, entry, notes,
            StopBegun, Cleared, AnotherBusy, RestartDue
  <2> QED BY <2>1, <2>2, <2>3 DEF Serial, Apart
<1>5. CASE Shutdown(c)
  <2>0. StopBegun(c, "shutdown")
    BY <1>5, InvTypes, BeginStopCalls DEF Shutdown, Op
  <2>1. OneBusy' /\ OneLatest' /\ DueIsKnown'
    BY <1>5, <2>0 DEF Inv, Serial, Apart, OneBusy, Busy, At, OneLatest, DueIsKnown, Types,
            TimerWaits, SpawnsAlone, Shutdown, Request, Free, entry, notes,
            StopBegun, Cleared, AnotherBusy, RestartDue
  <2>2. SpawnsAlone' /\ StopsOwner' /\ StopLeavesNone' /\ SettleWatches'
    BY <1>5, <2>0 DEF Inv, Serial, Apart, Types, SpawnsAlone, DueIsKnown, StopLeavesNone,
            OneBusy, Busy, At, StopsOwner, SettleWatches, Shutdown, Request,
            Free, entry, notes, StopBegun, Cleared, AnotherBusy, RestartDue
  <2>3. Owned' /\ Quieted'
    BY <1>5, <2>0 DEF Inv, Serial, Apart, Types, CallsTyped, Owned, SpawnsAlone, Live, At,
            Quieted, DueIsKnown, StopLeavesNone, SettleWatches, OneBusy,
            Roles, Spawns, Busy, Shutdown, Request, Free, entry, notes,
            StopBegun, Cleared, AnotherBusy, RestartDue
  <2> QED BY <2>1, <2>2, <2>3 DEF Serial, Apart
<1> QED BY <1>1, <1>2, <1>3, <1>4, <1>5 DEF UserStep

\* A child goes away.
LEMMA ChildSerial ==
    ASSUME Inv, Serial, ~crossed', missed' = {}, NEW c \in Calls, Closes(c) \/ Exits(c)
    PROVE  Serial'
<1> USE Parameters
<1>1. CASE Closes(c)
  <2>1. OneBusy' /\ OneLatest' /\ DueIsKnown'
    BY <1>1 DEF Inv, Serial, Apart, OneBusy, Busy, At, OneLatest, DueIsKnown, Types,
            TimerWaits, SpawnsAlone, Closes, Goto, Finish, Idle, entry, notes
  <2>2. SpawnsAlone' /\ StopsOwner' /\ StopLeavesNone' /\ SettleWatches'
    BY <1>1 DEF Inv, Serial, Apart, Types, SpawnsAlone, DueIsKnown, StopLeavesNone,
            OneBusy, Busy, At, StopsOwner, SettleWatches, Closes, Goto,
            Finish, Idle, entry, notes
  <2>3. Owned' /\ Quieted'
    BY <1>1 DEF Inv, Serial, Apart, Types, CallsTyped, Owned, SpawnsAlone, Live, At,
            Quieted, DueIsKnown, StopLeavesNone, SettleWatches, OneBusy,
            Roles, Spawns, Busy, Closes, Goto, Finish, Idle, entry, notes
  <2> QED BY <2>1, <2>2, <2>3 DEF Serial, Apart
<1>2. CASE Exits(c) /\ ~Owns(c)
  <2>0. call' \in [Calls -> CallType] /\ \A d \in Calls : Answered(c, d)
    BY <1>2, InvTypes, ResumedCalls DEF Exits
  <2>1. OneBusy' /\ OneLatest' /\ DueIsKnown'
    BY <1>2, <2>0 DEF Inv, Serial, Apart, OneBusy, Busy, At, OneLatest, DueIsKnown, Types,
            TimerWaits, SpawnsAlone, Exits, Owns, entry, notes, Answered
  <2>2. SpawnsAlone' /\ StopsOwner' /\ StopLeavesNone' /\ SettleWatches'
    BY <1>2, <2>0 DEF Inv, Serial, Apart, Types, SpawnsAlone, DueIsKnown, StopLeavesNone,
            OneBusy, Busy, At, StopsOwner, SettleWatches, Exits, Owns, entry,
            notes, Answered
  <2>3. Owned' /\ Quieted'
    BY <1>2, <2>0 DEF Inv, Serial, Apart, Types, CallsTyped, Owned, SpawnsAlone, Live, At,
            Quieted, DueIsKnown, StopLeavesNone, SettleWatches, OneBusy,
            Roles, Spawns, Busy, Exits, Owns, entry, notes, Answered
  <2> QED BY <2>1, <2>2, <2>3 DEF Serial, Apart
<1>3. CASE Exits(c) /\ Owns(c) /\ ExpectedExit(c)
  <2>0. call' \in [Calls -> CallType] /\ \A d \in Calls : Answered(c, d)
    BY <1>3, InvTypes, ResumedCalls DEF ExpectedExit
  <2>1. OneBusy' /\ OneLatest' /\ DueIsKnown'
    BY <1>3, <2>0 DEF Inv, Serial, Apart, OneBusy, Busy, At, OneLatest, DueIsKnown, Types,
            TimerWaits, SpawnsAlone, Exits, Owns, ExpectedExit, entry, notes,
            Answered
  <2>2. SpawnsAlone' /\ StopsOwner' /\ StopLeavesNone' /\ SettleWatches'
    BY <1>3, <2>0 DEF Inv, Serial, Apart, Types, SpawnsAlone, DueIsKnown, StopLeavesNone,
            OneBusy, Busy, At, StopsOwner, SettleWatches, Exits, Owns,
            ExpectedExit, entry, notes, Answered
  <2>3. Owned' /\ Quieted'
    BY <1>3, <2>0 DEF Inv, Serial, Apart, Types, CallsTyped, Owned, SpawnsAlone, Live, At,
            Quieted, DueIsKnown, StopLeavesNone, SettleWatches, OneBusy,
            Roles, Spawns, Busy, Exits, Owns, ExpectedExit, entry, notes,
            Answered
  <2> QED BY <2>1, <2>2, <2>3 DEF Serial, Apart
<1>4. CASE Exits(c) /\ Owns(c) /\ Crash(c) /\ Exhausted
  <2>0. call' \in [Calls -> CallType] /\ \A d \in Calls : Answered(c, d)
    BY <1>4, InvTypes, ResumedCalls DEF Crash
  <2>1. OneBusy' /\ OneLatest' /\ DueIsKnown'
    BY <1>4, <2>0 DEF Inv, Serial, Apart, OneBusy, Busy, At, OneLatest, DueIsKnown, Types,
            TimerWaits, SpawnsAlone, Exits, Owns, Crash, Bumped, Exhausted,
            Capped, entry, notes, Answered
  <2>2. SpawnsAlone' /\ StopsOwner' /\ StopLeavesNone' /\ SettleWatches'
    BY <1>4, <2>0 DEF Inv, Serial, Apart, Types, SpawnsAlone, DueIsKnown, StopLeavesNone,
            OneBusy, Busy, At, StopsOwner, SettleWatches, Exits, Owns, Crash,
            Bumped, Exhausted, Capped, entry, notes, Answered
  <2>3. Owned' /\ Quieted'
    BY <1>4, <2>0 DEF Inv, Serial, Apart, Types, CallsTyped, Owned, SpawnsAlone, Live, At,
            Quieted, DueIsKnown, StopLeavesNone, SettleWatches, OneBusy,
            Roles, Spawns, Busy, Exits, Owns, Crash, Bumped, Exhausted,
            Capped, entry, notes, Answered
  <2> QED BY <2>1, <2>2, <2>3 DEF Serial, Apart
<1>5. CASE Exits(c) /\ Owns(c) /\ Crash(c) /\ ~Exhausted
  <2>0. PICK r \in Calls \ {c} :
             /\ Free(r) /\ timer' = r
             /\ call' \in [Calls -> CallType]
             /\ call'[r].pc = "backoff" /\ call'[r].op = "respawn"
             /\ \A d \in Calls : d # r => Answered(c, d)
    BY <1>5, InvTypes, CrashCalls 
  <2>1. OneBusy' /\ OneLatest' /\ DueIsKnown'
    BY <1>5, <2>0 DEF Inv, Serial, Apart, OneBusy, Busy, At, OneLatest, DueIsKnown, Types,
            TimerWaits, SpawnsAlone, Exits, Owns, Crash, Bumped, Exhausted,
            Capped, Free, entry, notes, Answered
  <2>2. SpawnsAlone' /\ StopsOwner' /\ StopLeavesNone' /\ SettleWatches'
    BY <1>5, <2>0 DEF Inv, Serial, Apart, Types, SpawnsAlone, DueIsKnown, StopLeavesNone,
            OneBusy, Busy, At, StopsOwner, SettleWatches, Exits, Owns, Crash,
            Bumped, Exhausted, Capped, Free, entry, notes, Answered
  <2>3. Owned' /\ Quieted'
    BY <1>5, <2>0 DEF Inv, Serial, Apart, Types, CallsTyped, Owned, SpawnsAlone, Live, At,
            Quieted, DueIsKnown, StopLeavesNone, SettleWatches, OneBusy,
            Roles, Spawns, Busy, Exits, Owns, Crash, Bumped, Exhausted,
            Capped, Free, entry, notes, Answered
  <2> QED BY <2>1, <2>2, <2>3 DEF Serial, Apart
<1> QED BY <1>1, <1>2, <1>3, <1>4, <1>5 DEF Exits

\* Only an enable or a restart of a settled entry clears the note.
LEMMA StaysCrossed ==
    ASSUME crossed, ~crossed', NEW c \in Calls, CallStep(c)
    PROVE  AllSettled /\ (Enable(c) \/ Restart(c)) /\ ~AnotherBusy(c) /\ ~RestartDue
BY DEF CallStep, SpawnStep, RecoveryStep, StopStep, UserStep, Crossing, notes,
   SpawnEnds, FailureLogged, WiringEnds, Returned, TimerFires, TeardownEnds, Drained,
   RecoveryEnds, StopGivesUp, Stopped, Removed, Settles, SettleFails, Enable, Disable,
   Restart, Uninstall, Shutdown, Closes, Exits

LEMMA NextSerial == Inv /\ SerialInv /\ [Next]_vars => SerialInv'
<1> SUFFICES ASSUME Inv, SerialInv, [Next]_vars, ~crossed', missed' = {} PROVE Serial'
  BY DEF SerialInv
<1>1. missed \subseteq missed'
  BY DEF Next, CallStep, SpawnStep, RecoveryStep, StopStep, UserStep, vars, entry, notes,
     EnableRunning, WindowPasses, SpawnEnds, FailureLogged, WiringEnds, Returned,
     TimerFires, TeardownEnds, Drained, RecoveryEnds, StopGivesUp, Stopped, Removed,
     Settles, SettleFails, Enable, Disable, Restart, Uninstall, Shutdown, Closes, Exits
<1>2. ~crossed => Serial
  BY <1>1 DEF SerialInv
<1>3. ASSUME NEW c \in Calls, CallStep(c) PROVE Serial'
  <2>1. CASE crossed
    BY <2>1, <1>3, StaysCrossed, SettledApart, FreshSerial
  <2>2. CASE ~crossed
    BY <2>2, <1>2, <1>3, SpawnSerial, RecoverySerial, StopSerial, UserSerial, ChildSerial
    DEF CallStep
  <2> QED BY <2>1, <2>2
<1>4. CASE EnableRunning \/ WindowPasses \/ UNCHANGED vars
  <2>1. UNCHANGED <<known, status, process, intentional, timer, latest, child, call, off,
                    crossed>>
    BY <1>4 DEF EnableRunning, WindowPasses, vars, entry, notes
  <2> QED BY <1>2, <2>1 DEF Serial, Apart, OneBusy, DueIsKnown, SpawnsAlone, StopsOwner,
    StopLeavesNone, SettleWatches, OneLatest, Owned, Quieted, Busy, At, Live, Spawns
<1> QED BY <1>3, <1>4 DEF Next

LEMMA SerialInvariance == Spec => []SerialInv
<1>1. Init => SerialInv
  BY InitSerial DEF SerialInv
<1> QED BY <1>1, NextSerial, Invariance, PTL DEF Spec

\* Until something crosses or a SIGKILL fails, every living child is the entry's, so
\* that a stop reaches it and its exit is handled: whatever crashes, restarts,
\* failed spawns and requests come before, and again from the next enable or
\* restart of a settled entry on.
THEOREM EveryChildOwned == Spec => []OneOwner
<1>1. SerialInv => OneOwner
  BY DEF SerialInv, Serial, Apart, Owned, OneOwner
<1> QED BY <1>1, SerialInvariance, PTL

\* Until something crosses or a SIGKILL fails, a plugin that was stopped stays so
\* until a request asks for it.
THEOREM StoppedStaysOff == Spec => []OffIsOff
<1>1. SerialInv => OffIsOff
  BY DEF SerialInv, Serial, Apart, Quieted, OffIsOff
<1> QED BY <1>1, SerialInvariance, PTL

\* Until something crosses or a SIGKILL fails, no two recoveries run together.
THEOREM RecoveriesAlone == Spec => []OneRecovery
<1>1. SerialInv => OneRecovery
  BY DEF SerialInv, Serial, Apart, OneLatest, OneRecovery
<1> QED BY <1>1, SerialInvariance, PTL
=============================================================================
