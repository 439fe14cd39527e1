-------------------------- MODULE PluginSupervisor --------------------------
(***************************************************************************)
(* src/server/services/plugin-manager.ts: the supervision of one component *)
(* plugin. The state is one PluginEntry, the children spawned for it, and  *)
(* the asynchronous functions that hold the entry across their awaits:     *)
(* spawnPlugin with its callers (initialize, enable, restart, the restart  *)
(* timer), stopPluginProcess with its callers (disable, restart,           *)
(* uninstall, shutdown), and the crash hooks of a component plugin.        *)
(*                                                                         *)
(* A call of spawnPlugin spawns at most one child, so a child is named by  *)
(* the call that spawned it. A step is what one event of the event loop    *)
(* runs. The continuation of a promise that an exit settles runs before    *)
(* the next event: it is a step of its own that no other step precedes.    *)
(***************************************************************************)
EXTENDS Naturals, FiniteSets

CONSTANTS
    Calls,   \* functions in flight, and the children they spawn
    None,    \* no child, no timer
    Budget,  \* RESTART_BUDGET: failures in the window that end the restarts
    Overlap,   \* bound: requests come while another call spawns or stops...
    InBackoff, \* ... and while a restart is due
    MaxMissed  \* bound: children whose SIGKILL fails

ASSUME Parameters ==
    /\ None \notin Calls
    /\ Budget \in Nat \ {0}
    /\ {Overlap, InBackoff} \subseteq BOOLEAN
    /\ MaxMissed \in Nat

VARIABLES
    known,        \* the entry is in the map `plugins`
    initialized,  \* plugin-manager's own flag
    saved,        \* plugins-state.json says "enabled"
    status,       \* entry.record.status
    process,      \* entry.process
    intentional,  \* entry.intentionalStop
    timer,        \* entry.restartTimer: the armed call it names
    history,      \* entry.record.restartHistory: events inside the window
    teardowns,    \* entry.preRestartCleanups: the children they clean up after
    latest,       \* restart callbacks whose epochAtStart is preRestartEpoch
    child,        \* node's view of each child
    call,         \* functions in flight: which one, its await, what it waits for
    off,          \* history: the last request to end was to stop the plugin
    missed,       \* history: children whose SIGKILL failed
    tries,        \* history: restarts decided since the budget was last renewed
    crossed       \* history: something began that the entry does not keep apart

entry == <<known, initialized, saved, status, process, intentional, timer, history>>
notes == <<off, missed, tries, crossed>>
vars  == <<entry, teardowns, latest, child, call, notes>>

Op == {"none", "boot", "enable", "restart", "respawn", "disable", "uninstall", "shutdown"}

\* Continuations of a settled promise, which run before the next event.
Urgent == {"returned", "early", "stopped"}

Pc == Urgent \cup {"idle", "backoff", "spawning", "failed", "wiring", "dying",
                   "settling", "stopping", "removing", "draining", "recovering"}

TypeOK ==
    /\ {known, initialized, saved, intentional} \subseteq BOOLEAN
    /\ {off, crossed} \subseteq BOOLEAN /\ missed \subseteq Calls /\ tries \in 0..Budget
    /\ status \in {"disabled", "enabled", "errored"}
    /\ process \in Calls \cup {None}
    /\ timer \in Calls \cup {None}
    /\ history \in 0..Budget
    /\ teardowns \subseteq Calls
    /\ latest \subseteq Calls
    /\ child \in [Calls -> {"none", "running", "closed", "exited"}]
    /\ call \in [Calls -> [op : Op, pc : Pc, on : Calls \cup {None}]]

-----------------------------------------------------------------------------
(* Calls and children *)

Live(c) == child[c] \in {"running", "closed"}
At(c, pc) == call[c].pc = pc

Idle == [op |-> "none", pc |-> "idle", on |-> None]
NewCall(what, pc) == [op |-> what, pc |-> pc, on |-> None]
Goto(c, pc) == call' = [call EXCEPT ![c].pc = pc]
Finish(c) == call' = [call EXCEPT ![c] = Idle]

\* A name that nothing refers to any more can stand for a new call and child.
Free(c) ==
    /\ At(c, "idle")
    /\ ~Live(c)
    /\ c \notin teardowns
    /\ \A d \in Calls : call[d].on # c

\* No continuation is waiting to run before the next event.
Quiet ==
    /\ \A c \in Calls : call[c].pc \notin Urgent
    /\ teardowns = {} => \A c \in Calls : ~At(c, "draining")

\* A spawn or a stop that is not over.
Busy(c) == call[c].pc \notin {"idle", "backoff", "draining", "recovering"}

\* The code takes a request, or fires a timer, while another call spawns or stops,
\* and a request without a process leaves the timer of a restart armed. `crossed`
\* notes that one of these happened; an enable or a restart that finds no trace of
\* it, nothing in flight and no child but the entry's, is a new beginning.
AnotherBusy(c) == \E d \in Calls \ {c} : Busy(d)
RestartDue == \E d \in Calls : At(d, "backoff")
AllSettled == latest = {} /\ \A d \in Calls : At(d, "idle") /\ (Live(d) => process = d)

\* The budget counts no further than its limit.
Uncapped(n) == n
Capped(n) == IF n > Budget THEN Budget ELSE n

\* A discovered or newly installed plugin: spawned at once, or left disabled.
Init ==
    /\ known = TRUE /\ initialized = TRUE
    /\ saved \in BOOLEAN
    /\ status = "disabled"
    /\ process = None /\ timer = None
    /\ intentional = FALSE
    /\ history = 0
    /\ teardowns = {} /\ latest = {}
    /\ child = [c \in Calls |-> "none"]
    /\ \/ /\ saved = FALSE /\ off = TRUE
          /\ call = [c \in Calls |-> Idle]
       \/ /\ off = FALSE
          /\ \E b \in Calls :
               call = [c \in Calls |-> IF c = b THEN NewCall("boot", "spawning") ELSE Idle]
    /\ missed = {} /\ tries = 0 /\ crossed = FALSE

-----------------------------------------------------------------------------
(* spawnPlugin *)

\* The synchronous part, in a function that begins with it or goes on to it: a
\* missing or escaping entry file ends it at once.
BeginSpawn(c, what) ==
    /\ intentional' = FALSE
    /\ child' = [child EXCEPT ![c] = "none"]
    /\ \/ /\ call' = [call EXCEPT ![c] = NewCall(what, "spawning")]
          /\ status' = IF what = "enable" THEN "disabled" ELSE status
       \/ /\ call' = [call EXCEPT ![c] = NewCall(what, "returned")]
          /\ status' = "errored"

\* The tier and the image are resolved. A sandboxed child that does not start
\* is one event of the history and falls back to the floor; a floor child that
\* does not start is another, and ends the spawn.
SpawnEnds(c) ==
    /\ Quiet /\ At(c, "spawning")
    /\ \E fallback \in 0..1 :
         \/ /\ child' = [child EXCEPT ![c] = "running"]
            /\ process' = c
            /\ status' = "enabled"
            /\ history' = Capped(history + fallback)
            /\ Goto(c, "wiring")
         \/ /\ status' = "errored"
            /\ history' = Capped(history + fallback + 1)
            /\ Goto(c, "failed")
            /\ UNCHANGED <<child, process>>
    /\ UNCHANGED <<known, initialized, saved, intentional, timer, teardowns,
                   latest, notes>>

\* The line about the failed spawn is in the log.
FailureLogged(c) ==
    /\ Quiet /\ At(c, "failed")
    /\ Goto(c, "returned")
    /\ UNCHANGED <<entry, teardowns, latest, child, notes>>

\* Registering the host handlers ends. A child that exited meanwhile has been
\* handled; wiring that fails because the connection closed waits for the exit;
\* any other failure is the host's own decision to kill the child.
WiringEnds(c) ==
    /\ Quiet /\ At(c, "wiring")
    /\ \/ /\ process # c \/ child[c] = "running"
          /\ Goto(c, "returned")
          /\ UNCHANGED <<status, intentional>>
       \/ /\ process = c /\ child[c] = "closed"
          /\ Goto(c, "dying")
          /\ UNCHANGED <<status, intentional>>
       \/ /\ process = c /\ child[c] = "running"
          /\ status' = "errored"
          /\ intentional' = TRUE
          /\ Goto(c, "returned")
    /\ UNCHANGED <<known, initialized, saved, process, timer, history, teardowns,
                   latest, child, notes>>

\* The calls without the one whose timer the entry holds.
StillArmed == call
Disarmed == [d \in Calls |-> IF d = timer THEN Idle ELSE call[d]]

\* What enable does about a child that exited before it settled: the runtime is
\* rolled back to match the disk.
EarlyExit(c) ==
    /\ call' = [Disarmed EXCEPT ![c] = Idle]
    /\ timer' = None
    /\ history' = 0 /\ tries' = 0
    /\ status' = "disabled"
    /\ off' = TRUE

\* spawnPlugin has returned to a caller that has nothing more to do...
ReturnedLast(c) ==
    /\ \/ call[c].op \in {"boot", "restart"}
       \/ call[c].op = "enable" /\ status = "errored"
       \/ call[c].op = "respawn" /\ status # "enabled"
    /\ Finish(c)
    /\ latest' = latest \ {c}
    /\ UNCHANGED <<timer, history, status, off, tries>>

\* ... to the restart timer's callback, which waits for the teardowns...
ReturnedToTimer(c) ==
    /\ call[c].op = "respawn" /\ status = "enabled"
    /\ Goto(c, "draining")
    /\ UNCHANGED <<timer, history, status, off, tries, latest>>

\* ... or to enable, which waits whether the child of the entry settles.
ReturnedToEnable(c) ==
    /\ call[c].op = "enable" /\ status # "errored"
    /\ \/ /\ process # None
          /\ call' = [call EXCEPT ![c] = [@ EXCEPT !.pc = "settling", !.on = process]]
          /\ UNCHANGED <<timer, history, status, off, tries>>
       \/ /\ process = None
          /\ EarlyExit(c)
    /\ UNCHANGED latest

Returned(c) ==
    /\ At(c, "returned")
    /\ ReturnedLast(c) \/ ReturnedToTimer(c) \/ ReturnedToEnable(c)
    /\ UNCHANGED <<known, initialized, saved, process, intentional, teardowns,
                   child, missed, crossed>>

-----------------------------------------------------------------------------
(* stopPluginProcess *)

\* Its synchronous part on behalf of c: the stop is intentional, the restart
\* timer the entry knows of is cleared, and without a process it is over.
BeginStop(c, what) ==
    /\ intentional' = TRUE
    /\ timer' = None
    /\ call' = [Disarmed EXCEPT ![c] =
                   [op |-> what,
                    pc |-> IF process = None THEN "stopped" ELSE "stopping",
                    on |-> process]]

\* A stop that resolves as soon as the signal is sent.
StopResolvesEarly(c) ==
    /\ Quiet /\ At(c, "stopping")
    /\ Goto(c, "stopped")
    /\ UNCHANGED <<entry, teardowns, latest, child, notes>>

\* The SIGKILL after the grace period failed: no exit is coming, so give up.
StopGivesUp(c) ==
    /\ Cardinality(missed) < MaxMissed
    /\ Quiet /\ At(c, "stopping")
    /\ Goto(c, "stopped")
    /\ missed' = missed \cup {call[c].on}
    /\ UNCHANGED <<entry, teardowns, latest, child, off, tries, crossed>>

-----------------------------------------------------------------------------
(* A child goes away *)

\* Its connection closes first; the exit event is still to come.
Closes(c) ==
    /\ Quiet /\ child[c] = "running"
    /\ child' = [child EXCEPT ![c] = "closed"]
    /\ UNCHANGED <<entry, teardowns, latest, call, notes>>

\* Stops that do not hear the exit.
ResumedSpawns(c) == [d \in Calls |->
    IF d = c /\ At(c, "dying") THEN [call[d] EXCEPT !.pc = "returned"] ELSE call[d]]

\* What the later listeners of c's exit do: stops and an enable's settle wait
\* resolve, and so does the spawn that waits for its own closed child.
Resumed(c) == [d \in Calls |-> [call[d] EXCEPT !.pc =
    CASE @ = "stopping" /\ call[d].on = c -> "stopped"
      [] @ = "settling" /\ call[d].on = c -> "early"
      [] @ = "dying" /\ d = c             -> "returned"
      [] OTHER                            -> @]]

\* An exit that needs no answer: the host asked for it, or wants nothing of the
\* plugin any more.
ExpectedExit(c) ==
    /\ intentional \/ status = "disabled"
    /\ status' = IF intentional /\ status = "enabled" THEN "disabled" ELSE status
    /\ call' = Resumed(c)
    /\ UNCHANGED <<timer, history, teardowns, latest, tries>>

\* The restart callbacks that are still the latest once preRestartEpoch is bumped.
NotBumped == latest
Bumped == {}

\* The budget is used up by one more event.
ExhaustedLate == history >= Budget
Exhausted == history + 1 >= Budget

\* A crash: a teardown of what the plugin owned starts and supersedes every
\* restart callback; the budget decides between `errored` and a restart timer.
Crash(c) ==
    /\ ~intentional /\ status # "disabled"
    /\ teardowns' = teardowns \cup {c}
    /\ latest' = Bumped
    /\ history' = Capped(history + 1)
    /\ \/ /\ Exhausted
          /\ status' = "errored"
          /\ call' = Resumed(c)
          /\ UNCHANGED <<timer, tries>>
       \/ /\ ~Exhausted
          /\ tries' = Capped(tries + 1)
          /\ \E r \in Calls \ {c} :
               /\ Free(r)
               /\ timer' = r
               /\ call' = [Resumed(c) EXCEPT ![r] = NewCall("respawn", "backoff")]
          /\ UNCHANGED status

\* Whether the first exit listener of c finds that c still owns the entry.
OwnsOnceWired(c) == process = c /\ ~At(c, "wiring")
Owns(c) == process = c

\* The exit listeners of c in the order they were added: spawnPlugin's first,
\* which ignores a child that no longer owns the entry.
Exits(c) ==
    /\ Quiet /\ Live(c)
    /\ child' = [child EXCEPT ![c] = "exited"]
    /\ \/ /\ Owns(c)
          /\ process' = None
          /\ intentional' = FALSE
          /\ ExpectedExit(c) \/ Crash(c)
       \/ /\ ~Owns(c)
          /\ call' = Resumed(c)
          /\ UNCHANGED <<process, intentional, status, timer, history, teardowns,
                         latest, tries>>
    /\ UNCHANGED <<known, initialized, saved, off, missed, crossed>>

-----------------------------------------------------------------------------
(* The restart timer and the recovery of components *)

CancelledByTeardown == intentional \/ ~initialized \/ teardowns # {}
Cancelled == intentional \/ ~initialized

TimerFires(r) ==
    /\ Quiet /\ At(r, "backoff")
    /\ timer' = None
    /\ \/ /\ Cancelled
          /\ Finish(r)
          /\ UNCHANGED <<intentional, child, status, latest, crossed>>
       \/ /\ ~Cancelled
          /\ latest' = latest \cup {r}
          /\ BeginSpawn(r, "respawn")
          /\ crossed' = (crossed \/ AnotherBusy(r))
    /\ UNCHANGED <<known, initialized, saved, process, history, teardowns, off, missed,
                   tries>>

\* onComponentPluginPreRestart settles.
NeverDeleted(c) == teardowns
Deleted(c) == teardowns \ {c}
TeardownEnds(c) ==
    /\ Quiet /\ c \in teardowns
    /\ teardowns' = Deleted(c)
    /\ UNCHANGED <<entry, latest, child, call, notes>>

StillUpAtFirst == TRUE
StillUp == ~intentional /\ status = "enabled"

\* Every teardown has settled: only the latest callback of a plugin that is
\* still up re-provisions.
Drained(c) ==
    /\ At(c, "draining") /\ teardowns = {}
    /\ \/ /\ c \in latest /\ StillUp
          /\ Goto(c, "recovering")
          /\ UNCHANGED latest
       \/ /\ c \notin latest \/ ~StillUp
          /\ Finish(c)
          /\ latest' = latest \ {c}
    /\ UNCHANGED <<entry, teardowns, child, notes>>

\* onComponentPluginRestarted settles.
RecoveryEnds(c) ==
    /\ Quiet /\ At(c, "recovering")
    /\ Finish(c)
    /\ latest' = latest \ {c}
    /\ UNCHANGED <<entry, teardowns, child, notes>>

\* Events leave the five minute window.
WindowPasses ==
    /\ Quiet /\ history > 0
    /\ history' = history - 1
    /\ tries' = 0
    /\ UNCHANGED <<known, initialized, saved, status, process, intentional, timer,
                   teardowns, latest, child, call, off, missed, crossed>>

-----------------------------------------------------------------------------
(* Requests *)

\* A request finds the entry in the map. The code takes it at any time: the bounds
\* say how far a run goes into that.
Request(c) ==
    /\ Quiet /\ known /\ Free(c)
    /\ Overlap \/ ~AnotherBusy(c)
    /\ InBackoff \/ ~RestartDue

\* What an enable or a restart makes of `crossed`.
Crossing(c) == (crossed /\ ~AllSettled) \/ AnotherBusy(c) \/ RestartDue

\* enable of a running plugin only writes the user's intent to disk.
EnableRunning ==
    /\ Quiet /\ known /\ process # None
    /\ saved' = TRUE
    /\ UNCHANGED <<known, initialized, status, process, intentional, timer, history,
                   teardowns, latest, child, call, notes>>

Enable(c) ==
    /\ Request(c) /\ process = None
    /\ BeginSpawn(c, "enable")
    /\ off' = FALSE
    /\ crossed' = Crossing(c)
    /\ UNCHANGED <<known, initialized, saved, process, timer, history, teardowns,
                   latest, missed, tries>>

\* 250 ms without an exit: the intent goes to disk. If the write fails, the
\* child is stopped again.
Settles(c) ==
    /\ Quiet /\ At(c, "settling")
    /\ \/ /\ saved' = TRUE
          /\ Finish(c)
          /\ UNCHANGED <<intentional, timer>>
       \/ /\ BeginStop(c, "enable")
          /\ UNCHANGED saved
    /\ UNCHANGED <<known, initialized, status, process, history, teardowns, latest,
                   child, notes>>

SettleFails(c) ==
    /\ At(c, "early")
    /\ EarlyExit(c)
    /\ UNCHANGED <<known, initialized, saved, process, intentional, teardowns,
                   latest, child, missed, crossed>>

\* Without a process, disable only sets the status: a restart that is due stays due.
Disable(c) ==
    /\ Request(c)
    /\ saved' = FALSE
    /\ crossed' = (crossed \/ AnotherBusy(c) \/ RestartDue)
    /\ \/ /\ process = None
          /\ status' = "disabled"
          /\ off' = TRUE
          /\ UNCHANGED <<intentional, timer, call>>
       \/ /\ process # None
          /\ BeginStop(c, "disable")
          /\ UNCHANGED <<status, off>>
    /\ UNCHANGED <<known, initialized, process, history, teardowns, latest, child,
                   missed, tries>>

\* Without a process, restart spawns at once, whether a restart is due or not.
Restart(c) ==
    /\ Request(c)
    /\ off' = FALSE
    /\ crossed' = Crossing(c)
    /\ \/ /\ process = None
          /\ history' = 0 /\ tries' = 0
          /\ BeginSpawn(c, "restart")
          /\ UNCHANGED timer
       \/ /\ process # None
          /\ BeginStop(c, "restart")
          /\ UNCHANGED <<status, history, child, tries>>
    /\ UNCHANGED <<known, initialized, saved, process, teardowns, latest, missed>>

\* uninstall and uninstallForUpdate stop the process whether there is one or not.
Uninstall(c) ==
    /\ Request(c)
    /\ BeginStop(c, "uninstall")
    /\ crossed' = (crossed \/ AnotherBusy(c))
    /\ UNCHANGED <<known, initialized, saved, status, process, history, teardowns,
                   latest, child, off, missed, tries>>

\* shutdown runs once; a plugin without a process is not stopped, only marked.
Shutdown(c) ==
    /\ Request(c)
    /\ \A d \in Calls : call[d].op # "shutdown"
    /\ BeginStop(c, "shutdown")
    /\ crossed' = (crossed \/ AnotherBusy(c))
    /\ UNCHANGED <<known, initialized, saved, status, process, history, teardowns,
                   latest, child, off, missed, tries>>

\* The stop of c is over: what its caller does next.
Stopped(c) ==
    /\ At(c, "stopped")
    /\ \/ /\ call[c].op \in {"disable", "enable"}
          /\ status' = "disabled"
          /\ off' = TRUE
          /\ Finish(c)
          /\ UNCHANGED <<known, initialized, intentional, history, tries, child>>
       \/ /\ call[c].op = "restart"
          /\ history' = 0 /\ tries' = 0
          /\ BeginSpawn(c, "restart")
          /\ UNCHANGED <<known, initialized, off>>
       \/ /\ call[c].op = "uninstall"
          /\ Goto(c, "removing")
          /\ UNCHANGED <<known, initialized, status, intentional, history, tries, child, off>>
       \/ /\ call[c].op = "shutdown"
          /\ known' = FALSE /\ initialized' = FALSE
          /\ off' = TRUE
          /\ Finish(c)
          /\ UNCHANGED <<status, intentional, history, tries, child>>
    /\ UNCHANGED <<saved, process, timer, teardowns, latest, missed, crossed>>

\* The log is closed and the directory is gone, or its removal threw.
Removed(c) ==
    /\ Quiet /\ At(c, "removing")
    /\ Finish(c)
    /\ \/ known' = FALSE /\ saved' = FALSE /\ off' = TRUE
       \/ UNCHANGED <<known, saved, off>>
    /\ UNCHANGED <<initialized, status, process, intentional, timer, history,
                   teardowns, latest, child, missed, tries, crossed>>

-----------------------------------------------------------------------------

SpawnStep(c) ==
    SpawnEnds(c) \/ FailureLogged(c) \/ WiringEnds(c) \/ Returned(c)

RecoveryStep(c) ==
    TimerFires(c) \/ TeardownEnds(c) \/ Drained(c) \/ RecoveryEnds(c)

StopStep(c) ==
    StopGivesUp(c) \/ Stopped(c) \/ Removed(c) \/ Settles(c) \/ SettleFails(c)

UserStep(c) ==
    Enable(c) \/ Disable(c) \/ Restart(c) \/ Uninstall(c) \/ Shutdown(c)

CallStep(c) ==
    SpawnStep(c) \/ RecoveryStep(c) \/ StopStep(c) \/ UserStep(c) \/ Closes(c) \/ Exits(c)

Next == EnableRunning \/ WindowPasses \/ \E c \in Calls : CallStep(c)

Spec == Init /\ [][Next]_vars

\* A child that a stop or its own spawn has sent SIGKILL to.
BeingKilled(c) == At(c, "dying") \/ \E d \in Calls : At(d, "stopping") /\ call[d].on = c
Dies(c) == BeingKilled(c) /\ Exits(c)

\* Awaits end, timers fire, teardowns and recoveries settle, and a child that is
\* killed exits. Fairness is strong for events, since the continuations that run
\* before them (Quiet) take their turn but not their place. A child that nobody
\* stops may run for ever, users may do nothing.
Proceeds(c) ==
    \/ SpawnStep(c) \/ TimerFires(c) \/ Drained(c) \/ RecoveryEnds(c)
    \/ Stopped(c) \/ Removed(c) \/ Settles(c) \/ SettleFails(c)

Fairness == \A c \in Calls :
    SF_vars(Proceeds(c)) /\ SF_vars(TeardownEnds(c)) /\ SF_vars(Dies(c))

FairSpec == Spec /\ Fairness

-----------------------------------------------------------------------------
(* Properties *)

Spawns(c) == call[c].op \in {"boot", "enable", "restart", "respawn"}

\* No child runs behind the entry's back: every living child is entry.process, so
\* a stop reaches it and its exit is handled (the ownership test of the exit
\* listener, the waits for an exit in stopPluginProcess and spawnPlugin, the
\* clearing of timers). Not so once a SIGKILL has failed, or once something has
\* crossed: an enable, a disable or a restart that found a restart due and left its
\* timer armed, or a request or a timer that began amid another spawn or stop.
OneOwner == ~crossed /\ missed = {} => \A c \in Calls : Live(c) => process = c

\* Off stays off: after a disable, an uninstall, a shutdown or an enable that
\* failed, no child lives, no spawn is under way and no restart is due, until a
\* request asks for one; with the exceptions of OneOwner, among them the disable
\* during the backoff, which the timer undoes.
OffIsOff ==
    ~crossed /\ off /\ missed = {} =>
        /\ known => status # "enabled"
        /\ \A c \in Calls : ~Live(c) /\ ~At(c, "backoff") /\ ~(Spawns(c) /\ Busy(c))

\* A plugin shown as enabled has a process, or one is on its way: no exit is lost
\* that would leave it "enabled" with a dead pid and no restart scheduled.
EnabledRuns ==
    known /\ status = "enabled" /\ ~intentional =>
        \/ process # None /\ Live(process)
        \/ \E c \in Calls : call[c].pc \in {"backoff", "spawning"}

\* Crash cycles that overlap re-provision once: two recoveries that no later crash
\* superseded never run together (preRestartEpoch); with the exceptions of OneOwner,
\* since two timers that are armed at once capture the same epoch.
OneRecovery ==
    ~crossed /\ missed = {} =>
        \A c, d \in latest : At(c, "recovering") /\ At(d, "recovering") => c = d

\* Fewer than RESTART_BUDGET automatic restarts follow each other before the
\* window has moved on or a request renews the budget.
RestartsAreBounded == tries < Budget

\* A recovery begins with no teardown in flight and under a living process: never
\* for a plugin that was stopped, that ran out of its budget or that crashed again
\* while the callback was waiting for the teardowns.
RecoveryIsSupervised == [][\A c \in Calls :
    ~At(c, "recovering") /\ At(c, "recovering")' =>
        /\ process # None /\ Live(process)
        /\ teardowns = {}]_vars

\* A request ends, whatever the children do.
RequestsEnd == \A c \in Calls :
    call[c].op \in {"enable", "disable", "restart", "uninstall", "shutdown"} ~> At(c, "idle")

\* A plugin that went down while enabled comes up again or is given up openly.
Down == known /\ status = "enabled" /\ process = None /\ ~intentional
CrashIsAnswered == Down ~> ~Down

\* The callback of the last crash re-provisions, unless the plugin goes down
\* first: waiting for every teardown in flight does not lose the recovery.
RecoveryHappens == \A c \in Calls :
    At(c, "draining") /\ c \in latest ~> At(c, "recovering") \/ c \notin latest \/ ~StillUp
=============================================================================
