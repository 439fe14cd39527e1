# A verification project for Roubo

Roubo runs development "benches": a bench is a git worktree of a registered project, with
its own ports, component processes, terminals and agent sessions. One Node process serves
the HTTP API, runs git, docker and plugin processes, and keeps its state in
`~/.roubo/state.json`. This directory holds TLA+ models of the parts of that server whose
correctness depends on the order of events, the TLC configurations that check them, and
proofs of their main theorems checked by TLAPS.

The reference is the code: every definition is translated from the lines that
`PROJECT.json` names under `map`. Paths below are relative to the repository
(`src/server/services/...`), and `bench-manager.ts` alone means
`src/server/services/bench-manager.ts`.

## Inventory

| Component | State it keeps | Operations | What is hard | What makes it correct |
|---|---|---|---|---|
| Bench lifecycle (`bench-manager.ts`) | the map `benches`, `workspaceReady`, `provisioningAborts`, `unregisteringProjects`; one record per bench in state.json; worktrees on disk | `createBench`, `runWorktreeProvisioning`, `teardownBench`, `cleanupAndRetryBench`, `startAllComponents`, `removeProjectBenchWorkspaces`, `initialize`, `reconcile`, `sweepLeakedWorktrees` | many asynchronous calls per bench, each holding a bench object across awaits; commands an abort does not kill; crash at any point | memory, state.json and disk agree; one writer per worktree; caps; every operation ends |
| Component provisioning (`bench-manager.ts` 2542-3342, `lifecycle-engine.ts`, `component-broker.ts`) | component status, descriptors, bindings | provision, launch, start, stop, container assignment | launch outliving Clear, plugin restarts in the middle | no process of a bench outlives it; status follows the process |
| Process manager (`process-manager.ts`) | map of processes by id | `startProcess`, `runProcess`, `stopProcess` | a stop races the exit and a new start under the same id | a running process is always in the map |
| Plugin manager (`plugin-manager.ts`, `plugin-rpc.ts`, `plugin-spawn.ts`) | plugin instances, pending RPC calls, restart budget | spawn, handshake, call, stop, restart, recover components | exit against a pending call, restart against a stop | each call is answered once, restarts are bounded |
| Resource ledger (`resource-ownership-ledger.ts`, `docker.ts`) | rows (plugin, bench) in state.json | record, remove, startup sweep | crash between a start and its row | no resource without a row |
| Project registry (`project-registry.ts`, `port-allocator.ts`) | projects, pending unregisters | register, unregister, reload | forced unregister against every bench operation | nothing refers to an unregistered project; disjoint ports |
| Plugin installer, activation, consent (`plugin-installer.ts`, ...) | staged and installed plugins | stage, commit, roll back | failure between steps | installed means complete and consented |
| Terminals and agent sessions (`terminal.ts`, `notification.ts`, `agent-launch-*.ts`) | `sessions`, `notifierTokens`, flush and quiescence timers, WebSockets, one file per session | open, launch, connect, type, output, exit, close, load | timers, output, exits and close events that arrive after what they are about has changed | a token reaches the agent that registered it; no file of a destroyed session; a wait for the user is noticed |
| Issue assignment (`issue-assignment.ts`) | `assignedIssue` of a bench | assign, unassign, create and assign | writes after awaited requests | never resurrects a record |
| Gates (`gate-evaluator.ts`, `gate-lifecycle-coordinator.ts`) | verdicts, overrides, sign-off | evaluate, override, sign off, merge | stale evaluation | a sign-off is of what was evaluated |
| TestBench store (`testbench-store.ts`) | result files | read, write with a revision | two writers | no lost update |
| Cut list, disk snapshots (`cut-list-query-service.ts`, `disk-snapshot-store.ts`) | caches | query, refresh, evict | answer after eviction | no data of an unregistered project |
| State store (`state.ts`) | state.json, settings.json | synchronous load, change, save | migrations | one write is atomic to the event loop |
| Marketplace, jigs, SSE, client, Electron, SDK, scripts | | | mostly I/O and presentation | |

How they interact: the routes call the bench manager; the bench manager calls git through
`exec.ts`, writes records through `state.ts`, and launches components through the plugin
manager and the process manager. The project registry calls back into the bench manager
(`listBenchIds`, `removeWorkspaces`, `dropBenches`, wired in `src/server/index.ts` 184-188)
when a project is unregistered. Notifications and issue assignment write bench records
long after they captured a bench object. A restart runs `initialize`, the compose sweep and
`reconcile` after the server already listens (`src/server/index.ts` 239-289).

The hazards of this code, each at its line, are listed in `PROJECT.json` with the
properties that watch them, or with the reason why none does yet.

## Plan

1. **BenchSlots, BenchLifecycle** (done): the abstract promise about slots and records, and
   the lifecycle that implements it.
2. **ProcessManager** (done) and **ComponentLifecycle** (done) above it: the start, stop, poll
   and recovery of components with `lifecycle-engine.ts` and the ledger
   (`resource-ownership-ledger.ts`), across plugin crashes and restarts of the host.
3. **PluginSupervisor** (done): spawn, wiring, crash, restart budget, crash hooks, and every
   request that stops or starts a plugin.
4. The composition of ComponentLifecycle with Clear: a component launched while its bench is
   cleared. Of ComponentLifecycle alone every invariant the runs check is proved (done).
5. **PluginInstaller**: staged install, consent and rollback as a protocol with failures.
6. **Registry and PortAllocator**: registration and reload; the port algorithm against a
   reference definition, with a proof that accepted ranges are disjoint.
7. **TerminalSessions** (done): sessions, tokens, timers, files and WebSockets of terminals and
   agents. What an agent launch does before its spawn is left.
8. Gates, TestBench store, cut list: the pure evaluator first, then the stores.

Of BenchLifecycle every safety property the runs check is proved (done). Two of its theorems have
hypotheses to be weakened: `UsablesHoused` stops at a crash, `RecordsCurrent` and `UsablesRecorded`
at the first setup or launch.

## Modules

**`BenchSlots.tla`** is the abstract specification: for every slot (project, number) whether it
is free, reserved or recorded. `Reserve` takes the lowest free number under the cap
(`createBench` 1254-1276), `Record` is the `addBench` at the end of provisioning (1807),
`Unrecord` the `removeBench` of Cleanup & Retry (2499), `Release` the end of Clear
(2113-2120), `Unregister` and `Restart` drop a project and what is not recorded.

**`BenchLifecycle.tla`** is the detailed one.

| Variable | Code |
|---|---|
| `registered` | `projects` in `project-registry.ts` |
| `benches` | the map `benches`; a key is `benchKey(projectId, id)` |
| `bench` | the `Bench` objects: `status`, whether `error` is set, `teardownSteps`, `benchSetupComplete` |
| `round` | `workspaceReady` and `provisioningAborts`: both name the round in flight |
| `call` | asynchronous functions in flight: where they are parked, the key and object they hold, the abort signal, what they wait for |
| `recorded`, `savedSetup` | state.json: which bench object the record describes, its `benchSetupComplete` |
| `disk` | the workspace path and git's admin entry of a key |
| `boot` | what the startup's `reconcile` and `sweepLeakedWorktrees` still have to do for a key |
| `left`, `contested`, `overran` | history only: no guard reads them |

The server is single threaded, so what runs between two awaits is one action, and an
asynchronous function is a "call" parked at an await. An action is named after the await
that ends: `FetchEnds`, `AddEnds`, `ClearRemoveEnds`. A command that can fail gives both
outcomes in one action. A bench object is an identity (`Ids`): the code's stale references
are calls that hold an id whose key is gone or belongs to another id. This is what tells
`isBenchLive`, which compares keys, apart from a comparison of objects.

* Rounds: `runWorktreeProvisioning` (1497-1847) from `ResolveEnds` to `RecordBench`;
  `FailRound` is its catch block, `EndRound` the continuation in `runCreateBenchBackground`.
* Setup and launch: `runComponentsInOrder` (1339-1495) as `SetupEnds` and `LaunchEnds`.
  Components are summed up in one launch. `launchComponent` reads the bench from the map
  when it starts, so a call holds a second reference, `on`.
* Clear: `teardownBench` and `runTeardownBackground` (1936-2155). Cleanup & Retry: 2437-2540.
* Forced unregister: `unregisterProject` with `removeWorkspacesOf` (1032-1102).
* `Restart` is a crash followed by `initialize`; `CrashDisk` lists what git commands cut
  short can leave. `Reconcile` judges a bench by a listing that may be older than a
  worktree (`readded`), and by the directory alone when that listing failed. `SweepList` and `SweepRemove` are the two ends of the sweep's awaits.

Worktree states are abstracted to five: nothing; tracked; locked (what a killed
`git worktree add` leaves); orphan (a directory without an entry); prunable (an entry
without a directory). Git itself is external: `AddEnds` succeeds only where nothing is,
a strict removal succeeds on tracked and prunable entries; a forced one always may, and each of its
steps may fail (`Forced`: git, the entry, the directory).

`MCBenchLifecycle.tla` holds the definitions for TLC: symmetry of bench
objects and calls (used for safety runs only), and the view `Reachable`, which ignores the
contents of bench objects nothing refers to.

**`ProcessManager.tla`** is `process-manager.ts`. A call spawns at most one child, so children
are named by calls: `os[c]`, `how[c]`, `alive[c]` and `code[c]` speak of the child of call `c`,
and `stopAllProcesses` makes one stop per id, named by the id.

| Variable | Code |
|---|---|
| `processes` | the map `processes`; `LogOnly` is an entry `storeCommandLogs` made |
| `os`, `how` | the child as node sees it: spawned or failed, exited, closed; and its exit code or signal |
| `fate` | whether SIGKILLs sent to it landed or failed |
| `alive`, `code` | `ManagedProcess.alive` and `exitCode` |
| `op`, `id`, `pc`, `on`, `out` | a call: function, id, where it awaits, the child its stop waits for, what it settled with |

`BeginStop` is the synchronous part of `stopProcess` with its two early returns; `GraceEnds`,
`KillLands` and `KillMisses` are the timer and the callback of the SIGKILL; `Exits` settles
every stop that listens to that child; `StartResumes` is what `startProcess` does after its
`await`, as a step of its own, because several continuations may follow one exit. `Close`
may never come (an orphaned grandchild holds the pipes). A tree-kill's SIGTERM only makes an
exit likelier, so it is no step: a child may exit at any time. Left out: the contents of
logs, and `clearProcessLogs`, which nothing calls.

`Serial` is about the callers. The code does not serialise: `startComponent`
(`bench-manager.ts` 3100) has no guard against a second request. With `Serial` the model shows
what the process manager guarantees to callers that do. `StartIds` and `RunIds` are disjoint
for declarative components: a `process` descriptor's id is only started, a `oneshot`'s only
run, and setup and migration have ids of their own (`lifecycle-engine.ts` 303, 387).

**`PluginSupervisor.tla`** is the supervision of one component plugin in `plugin-manager.ts`:
`spawnPlugin`, `stopPluginProcess`, `handleChildExit`, the restart timer and the requests.

| Variable | Code |
|---|---|
| `known`, `initialized` | the entry is in `plugins`; the module's flag that shutdown clears |
| `saved` | what plugins-state.json says of the plugin |
| `status`, `history` | `record.status`, `record.restartHistory` cut to the window |
| `process`, `intentional`, `timer` | `entry.process`, `intentionalStop`, `restartTimer` |
| `teardowns`, `latest` | `preRestartCleanups`; the restart callbacks whose `epochAtStart` is still `preRestartEpoch` |
| `child` | a child as node sees it: running, connection closed, exited |
| `call` | functions in flight, the await they are at, and the child they wait for |
| `off`, `missed`, `tries` | history: the last request was to stop; children whose SIGKILL failed; restarts decided since the budget was renewed |
| `crossed` | history: a request met a due restart or another spawn or stop, see below |

A call of `spawnPlugin` spawns at most one child, so a child has the name of its call.
`SpawnEnds` and `WiringEnds` are the two stretches of `spawnPlugin` after an await; `Crash` is
`handleChildExit` for an unexpected exit with its hook, its budget and the timer; `Exits` is
the exit event: all its listeners, in the order they were added. The continuation of a
promise which an exit settles is a step that nothing precedes but other such steps
(`Urgent`, `Quiet`), as in the event loop. `TimerFires`, `Drained` and `RecoveryEnds` are
the restart callback up to its awaits. The epoch is abstracted to the set of callbacks that
hold the current one. Which files, images and permissions a spawn needs is left to its
outcome; the stable-window reset of the history is `WindowPasses`. RPC calls, logs, the
cache of the connection status, discovery and plugins that are not component plugins are
left out.

The code refuses no request for what is in flight, and neither does the model: `Overlap` and
`InBackoff` only bound how far a run goes into that. A disable, enable or restart that finds
no process does not clear the restart timer (1832-1834, 1920-1923, 1934-1940), and the
timer's callback looks at `intentionalStop` and `initialized` alone (1490-1492). `crossed` notes
such a request, and a request or a timer that begins while another call spawns or stops.
`OneOwner`, `OffIsOff` and `OneRecovery` speak of an entry for which it is not noted; an enable or
a restart that finds nothing in flight and no child but the entry's clears the note.

**`ComponentLifecycle.tla`** is the life of components: `bench-manager.ts` 1339-1495 and
2195-3812 with `lifecycle-engine.ts` and the ledger. A component is a project, a bench number
and a name; a worker is one activation of an async function.

| Variable | Code |
|---|---|
| `config` | `plugin.id` of each component in roubo.yaml, and what kind its descriptor is |
| `status`, `inFlight`, `complete` | `bench.components[name]`: `status`, `startedAt` set, `setupComplete` |
| `cached` | `componentDescriptors` |
| `preparing` | the benches with status `preparing` |
| `pending` | `pendingComponentRecovery`; its handles have no project |
| `processIds`, `composeProjects` | `resourceOwnership` in state.json, by plugin and bench number |
| `connected`, `backoff`, `due` | what the plugin manager knows of a plugin: connected, about to restart it, hook to be called |
| `child`, `alive` | the process manager's map; the children that run |
| `container` | the compose services that are up |
| `job` | the handlers in flight: task, await, component, what they hold |
| `listings` | polls in flight: what docker told each of them is up |
| `faults`; `escaped`, `crossed`, `unbound`, `polled` | the bound on crashes; history, see below |

* A launch is `provisionComponent` with `runDescriptor`: `Launch`, `Translate`, `Begin`, then for
  a container `ComesUp` (external: docker), `Up`, `Health`, for a process `CommandEnds` of its setup
  and `Spawn`, for a one-shot `CommandEnds`. `Launched` is the last report with what follows it.
  `Skip` is the pass of a loop over a component that cannot or need not be launched.
* A stop is `Stop` or `StopNext`, `ComposeStopped`, `Stopped`. A handler that took the status
  object before an await writes to the bench only while `held`: a report replaces the object.
* `PollReads` and `Poll` are `refreshComponentStatuses` before and after its await
  (3736-3739): one listing of the containers, then the loop over all components (3747-3812), with
  the containers as listed and the processes as they are by then. A listed container shows
  as running, as starting, or, if unhealthy, as stopped (`FromHealth`, 3762-3777). `Poll({})` is a poll
  that was told of none: none was up, or the listing failed, which `docker.ts` 190-193 takes for
  `not_found`. `PollResolves` is a poll that gets a descriptor it lacked.
* `PluginCrashes` is the
  synchronous part of the pre-restart hook (or of an exhausted budget), `Reap` its cleanup and
  that of the startup sweep, `Restarted` the recovery hook, which launches through the same
  steps. The plugin manager is reduced to what it promises here and PluginSupervisor checks:
  the recovery begins when no cleanup of that plugin is in flight. `Enable` (and a restart by the
  user) is accepted in the backoff and leaves the timer armed, a disable in the backoff
  changes nothing here, and `RollsBack` is an enable that failed at once and cleared the timer.
* `HostCrash` is a hard kill and the next start: processes die with the host, as the comment
  of `sweepOrphanedComposeProjects` says; containers stay; memory is lost, the ledger and
  `setupComplete` are not.

Abstractions: descriptors are valid and components independent (the order of a loop is
arbitrary); the process manager stops and spawns in one step (ProcessManager checks the
rest); of the status of a bench only `preparing` is kept; of health only that waiting for it
succeeds or fails, and what a poll makes of it, chosen when the poll uses its listing, since nothing
looks at it before.

Four history variables name what the code does not promise: `escaped`, containers whose host
crashed between `docker compose up` and the ledger row; `unbound`, components whose last Stop found
the plugin not running, which stops no process and drops no row, since the id of the
process is made from the binding; `crossed`, components met by a second handler, or by the loss
of their plugin, while a handler worked on them, and what a launch that failed left up without a
row when the plugin crashes (`docker compose up` may fail with the service running), and a running
sibling whose compose row a Stop dropped because a poll had it as stopped (`Misread`). They
are kept only in runs without `Overlap`. `polled`, kept in all, are the components a poll has put
in `starting`, or in `stopped` while their container was up, until they are launched or stopped or
a poll finds them running.

**`TerminalSessions.tla`** is `terminal.ts` with the waiting notices of `notification.ts`, the two
hook routes, and the steps of Clear, boot and shutdown that touch sessions. A session is named
by its random id; its entry of the map, its child and the closures over them have that name too,
since they outlive the entry.

| Variable | Code |
|---|---|
| `at`, `home` | where a session is: unused, launching, in the map `sessions`, removed; its `benchKey` |
| `wiring`, `token` | `hookNotification`, and whether an agent was launched; `notifierCorrelation` |
| `pty`, `child`, `deliberate` | the entry has a pty; its process; `deliberateEnd` |
| `quiet`, `spent` | `quiescenceTimer` set; `lastNotifiedAt` set and not older than the last output |
| `flush`, `files` | `flushTimers`; the files in `terminal-sessions/` |
| `ws`, `sock`, `peer` | `internal.ws`; each WebSocket, and the session its handlers close over |
| `notifierTokens` | the map of that name |
| `notes` | the notifications of a bench that name a session |
| `server`, `bench`, `detached` | booting, up or stopping; whether a bench has the number; sessions that hold a bench object which was dropped |
| `lapsed`, `stuck` | history: a client typed or a WebSocket closed; files that could not be removed or read |

* `createSession` opens a shell within its request. An agent is requested (`RequestAgent`) and
  spawned later (`createAgentSession`, `LaunchFails`), possibly on a bench that took the number.
* `Output`, `Exit`, `FlushFires` and `QuietFires` are events of the child and the timers. They come
  for removed sessions too, as the closures do.
* `Destroy` is what closing a tab, `destroyBenchSessions` and the shutdown have in common. Closing
  a WebSocket and its `close` event are two steps.
* `Restart` is a crash or the end of a shutdown, then `initialize` and `listen`; requests are served from then
  on, and `loadPersistedSessions` follows when the sweep and `reconcile` have ended. An `unlink` that fails
  (`DeleteFiles`) and a file or a directory that cannot be read leave files behind, which `FilesAreSessions`
  excuses by `stuck`; the next boot may list them.

Abstractions: of the heartbeat only that a WebSocket may close at any time; how an exit is classified is
a choice between the outcomes its session allows; of a buffer only that it is to be flushed;
an output in the millisecond of a notice counts as later; a bench is live, closing or gone, with
BenchLifecycle for the rest.

### Overlap

The code serialises most pairs of operations on a bench, but not all, and the properties
must say which pairs they hold for. Two history variables name the exceptions.

* `contested` collects the keys on which a user overlapped two removals or a removal and a
  round: Clear while another Clear or a Cleanup & Retry of the bench is under way, and
  Cleanup & Retry while any of these or a round is. Both requests are accepted: Cleanup &
  Retry requires only `bench.error` (2443), and its removal registers no round for Clear to
  wait for. What follows can leave a worktree with no bench, hide a round behind another,
  or write a record after an unregister.
* `overran` collects the keys that are used before they are whole: a Start of a bench without
  its worktree, or while a round or a removal is at work on it (the code refuses neither, 3344-3366);
  and those whose removal stopped waiting while the round still ran: the 15 s of `PROVISIONING_STOP_WAIT_MS` are over and the round is parked at a command that an
  abort does not kill. Such a round stops at its next checkpoint, but one that is already
  removing a failed worktree finishes that removal, possibly under a new bench.

A launch in flight when Clear starts ends by setting the status to idle, unread (1493), so the
guard of Clear (1944-1946) then lets a second one run: that key is contested too, and
`ClearingIsSticky` excuses a bench with a setup or a launch in flight.

Every property that excuses such a key says so in its formula; `NoPhantomRecord`,
`SavedSetupIsLive`, `CapHolds` and `ImplementsSlots` excuse nothing.

## Runs

| Run | Question | Instance |
|---|---|---|
| `overlap` | do worktrees, rounds and removals stay consistent when creation (with pull-latest and submodules), setup and launch, Start, Clear, Cleanup & Retry and unregister overlap, does no call bring back a record, and does no later start skip a setup? | 1 project, 1 slot, 2 bench objects, 2 calls in flight |
| `crash` | with a crash and restart at any point, reconcile and the sweep interleaving with requests, does state.json stay true and the lifecycle implement BenchSlots? | the same, without pull-latest, setup, launch, unregister |
| `outcomes` | does every Clear and every creation reach an outcome? | 1 bench object, setup, auto-start and unregister, fair calls |
| `pm_serial` | with callers that serialise per id, is every live child the registered one, through stops, failed kills, timeouts and shutdown? | 3 calls, one id to start, one to run |
| `pm_overlap` | with starts, runs, stops and the shutdown of one id overlapping freely, does a stop wait for its child and leave other registrations alone, and does every stop, start and time-limited run settle? | 2 calls, one id |
| `plugin_safety` | through crashes, failed spawns and kills, teardowns that outlast restarts, and requests that come one at a time, in a backoff too: does the entry own its child, does a stopped plugin stay stopped and one recovery run, unless something crossed; are restarts bounded, and does a recovery come after every teardown? | 3 calls (and so 3 children), budget 2, 1 failed kill |
| `plugin_outcomes` | does every request end, is every crash answered, is every restarted plugin's recovery run? | 2 calls, budget 3, kills succeed, no request in a backoff, fair |
| `components` | is a stopped component down, what runs recorded, what crashed down before the plugin restarts, with polls that read live containers as starting or stopped, or miss them? | 1 bench, 2 containers or 2 one-shots of 1 plugin, 2 handlers, 1 poll, beside 1 of them (`Bounded`), 1 crash of the plugin or of the host |
| `components_outcomes` | with handlers overlapping freely, has a busy component always a handler that will settle it, and a bench in preparing a Start that ends it; does a component stay busy that no poll made so, a bench stay preparing, or the poll stay blind? | 1 component of each kind, 2 handlers, 1 poll, no crash, fair |
| `terminals` | through reconnects, late output, exits, timers and close events, Clear, launches that outlast it, shutdown, crash and boot: does a notifier reach its agent, is every file that of a session, is a watched session timed? | 2 sessions, 2 WebSockets, 1 bench, 1 token, 1 notice; a session reconnects while it is the only one (`Bounded`) |
| `setup_reuse`, `components_siblings` | violations, see below | as small as shows them |

Why the bounds are enough for what they are used for. A bench's operations touch only its
own key, but for the cap, the lowest-number rule and unregister; those are what
the theorems cover: `CapNeverExceeded` and `Implements` hold of the lifecycle for any number
of projects, where the runs have one. Two bench objects make a slot reused while a call
still holds the earlier bench. Two calls allow every pair of operations to overlap at every
pair of awaits; an identity is free again when its call ends, so a run has any number of
calls one after the other. Three operations at once on one bench are not explored.
`Operations` says which requests a run explores. Deadlock is not checked: a server with no
request pending rests, and the bound on calls stops requests.

`outcomes` and `pm_overlap` have no symmetry, since they check liveness. Three calls on one id
are a process, the call that replaces or stops it, and one that meets both; the shutdown
comes on top. In `pm_overlap` the shutdown is the third of two calls; `StopsWait` and
`NoLiveDropped` prove its safety properties for any number of calls.

Three calls of a plugin are a crash cycle whose callback still waits for its teardown, the
next one, and a request; the budget of 2 lets one restart follow another crash cycle and the
next crash exhaust it. `plugin_outcomes` has two calls and a budget of 3, so that a request meets
a crash cycle and two restarts follow each other. It has no request in a backoff, which can
take both names, where a crash needs one for the restart it decides, and no failed kill (the
requests that meet one are in `plugin_safety`, whose properties do not say that they end). The theorems of
PluginSupervisor hold for any number of calls, any budget, failed kills and requests at any time. In `components` two components share a plugin and a ledger entry,
and two containers also a compose project, which is where stops and cleanups can take what is a
sibling's; `components_outcomes` has one component of each kind. A second handler is what a first can meet at each of its awaits. One crash suffices
to separate every pair of steps; a crash during the recovery from another is left to
`plugin_safety`, which has any number. `MaxPolls` counts the polls in flight and the crashes so
far when a listing is read: with 1, one poll is in flight, which may have asked before the crash and
answer after it (a crash of the host ends it), and after a crash only polls that are told
of no container begin; those that read live ones then are left to the theorems. In `components` a listing is in flight
beside one handler at a time (`Bounded`); in `components_outcomes`, beside two. `components_outcomes` has no crash: `BusyHandled` and
`PreparingStarted` prove its invariants with any number of them, and what a crash adds to
liveness is that handlers are lost. `Overlap = FALSE` in `components` means that requests on
one component follow each other, while the poll, the hooks, crashes and requests on its
sibling come at any time; `components_outcomes` drops this.

`outcomes` has one bench object, since a Clear or a creation waits for calls on its own bench
only, and no crash, which ends every call. `crash` leaves setup and launch out, because with them
`RecordIsCurrent` fails (the finding of `setup_reuse`); unregister is in `overlap`.

In `terminals` two sessions are the holder of a token and the one that takes it, or a session
that is closed beside one that stays; two WebSockets are one and its replacement. A session id
is used again once nothing names it, so a run has any number of sessions one after the other.
The view leaves out what nothing reads any more of a session that is closed or over.

**Fairness.** `WF_vars(CallStep(c))`: a parked call resumes. The commands it may wait for
end: the setup command has a limit of ten minutes (1385) and `runCommand` kills what
exceeds it, SIGKILL following SIGTERM after 5 s (`exec.ts` 107-109, 184-187, 227-236); fetch and the
submodule update of the main checkout are stopped when idle; an aborted command is killed
the same way; waits for a round are cut at 15 s; the remaining git commands are local.
Requests, crashes, reconcile and the status poll are under no fairness. Under it
`ClearEnds` and `PreparingEnds` are real claims: a failed round, an aborted round, a refused
retry or a failed Clear each have a path on which a status could stay for ever.

`pm_overlap` assumes that timers fire, that the callback of a SIGKILL comes, that continuations
run, that a failed spawn reports its error, and that a child which took a SIGKILL exits. It
does not assume that a child ever exits by itself or that its output closes, so a run
without `timeoutMs` is not claimed to end.

`plugin_outcomes` assumes that awaits end, that timers fire, that hooks settle, and that a
child which took a SIGKILL exits; a child nobody stops may run for ever. The fairness is strong,
because the continuations that go before an event (`Quiet`) take its turn but not its place
in the queue: an event that is due comes. `components_outcomes`
assumes that a handler's next step comes (`WF Step(w)`: setup, migration, health and compose calls
have time limits in the engine or in `exec.ts`, one-shots `timeoutMs` or their own end, a request to
a plugin is answered or its connection closes), and that polls go on: the five-second timer starts
one (`PollReads`, or `Poll({})` when there is nothing to list) and its listing is used. A listing
that fails is possible at any time and under no fairness.
Requests, crashes, restarts of a plugin and the end of a component are under no fairness.

`UsableIsRecorded` is checked without Start: Start on a bench whose provisioning failed ends in
idle although no record was ever written (a hazard in the list).

`UsableHasWorktree` speaks of a bench no round or removal is at work on: the setup or the launch
of an earlier call makes a bench idle in the middle of a Cleanup & Retry's round, before its
worktree is back. Nor does it speak of a project that is being unregistered:
`removeProjectBenchWorkspaces` removes the worktrees one by one and `unregisterProject` drops the
benches when all are gone, so one bench can be idle without its worktree while the next one's is
removed. (One slot does not show it; TLC found it with two.) `IdleIsTimed` excuses, by `lapsed`, a session whose client typed (the timer is
cancelled until the next output, on purpose) or one of whose WebSockets closed since the last
output and connection; the second is the first of the terminals' entries below.

### What the code does against its comments

Shown by a run:

* `setup_reuse`: the setup of a cleared bench overwrites the record of the bench that reused
  its number. The guard compares keys (1407), the comment above it says it prevents this.
* `components_siblings`: the cleanup after a crash of one plugin downs the compose project of
  the bench, and with it the containers of another plugin, against "sibling components,
  supervised by other plugins, are never touched" (2219-2221). The name of the project
  (`docker.ts` 315) depends on the bench alone.

Behaviours the models have, found while modelling them, that no run here singles out; the
properties above are stated so that they hold beside them:

* Clear during Cleanup & Retry leaves a worktree with no bench and no record (BenchLifecycle,
  `contested`), against "teardown waits for provisioning to stop and then removes it" (1804-1805).
* The startup sweep removes, with `--force`, the worktree a Cleanup & Retry re-created after
  the sweep listed that path (`SweepRemove`), against "only worktrees Roubo provably owns
  are removed: prunable ... and claimed by no bench" (409-411).
* Two overlapping starts of one id both spawn once the old process has exited, and the first
  child stays running without a registration (ProcessManager without `Serial`), against "Kill
  existing process with this ID if running" (`process-manager.ts` 31).
* A command killed by a signal settles with exit code 0 (`process-manager.ts` 141): a one-shot so
  killed becomes `completed` (`lifecycle-engine.ts` 444), against `src/shared/types.ts` 1266-1269, and
  a setup so killed is never run again (`setupComplete`, 2983).
* A plugin that crashes while its components are re-provisioned is torn down beside the
  re-provisioning (PluginSupervisor, `recovering` with a non-empty `teardowns`), against "two
  mechanisms cooperate so up and down never overlap" (`plugin-manager.ts` 1522-1523).
* A request without a process leaves the timer of a restart that is due armed (PluginSupervisor,
  `crossed`). A plugin that is disabled during its backoff is spawned again by the timer
  (`plugin-manager.ts` 1490-1502, 1920-1923) and shows as enabled, with plugins-state.json
  saying disabled. After an enable or a restart in the backoff the timer spawns a second
  child over the first, which nothing stops any more. And if the first child crashes before
  the timer fires, two callbacks capture the same epoch and both re-provision, against "no
  later crash can have bumped the epoch by this point" (1495-1496).
* A failed docker listing and a container that is unhealthy read as `stopped` (`docker.ts` 190-193,
  3774-3781), though the container runs: ComponentLifecycle, `polled`.
* A poll that finds a container's health `starting` sets that status, with no handler (3772-3773). If the
  container then exits, no later poll changes it, since 3778 looks for `running` only: it
  stays `starting` until the user acts.
* A running container that a poll had as `stopped` is not among the live siblings
  (`LIVE_COMPONENT_STATUSES`, 3131), so a Stop of another component drops the compose row both
  share (3247), and the cleanup after a crash of the plugin passes over it, against "must not drop
  the shared compose-project row out from under it" (3133-3140): ComponentLifecycle, `crossed`.
* A Stop while the plugin is down reports `stopped` and leaves process and rows (3213, `unbound`).
* A reconnect opens the new WebSocket before the `close` event of the old one: that event clears the new
  one's place and its timers (`terminal.ts` 1375-1380), so an idle terminal raises no waiting notice
  until its next output, against "we do it here to ensure a waiting terminal still notifies" (1281-1283).
* A session opened between `listen` and the end of `reconcile` (`index.ts` 239-292) is loaded from its own
  file over its live entry: it shows as ended, its child runs on and nothing can write to it or kill
  it, against "the PTY is gone after a server restart" (`terminal.ts` 1203).
* An agent whose launch is under way when its bench is cleared is spawned in the workspace of the bench
  that has reused the number (TerminalSessions, `createAgentSession`).
* A component the user stops between the crash of its plugin and the recovery is launched
  again: its handle is pending whatever its status (2334).

## Proofs

`BenchSlots_proofs.tla`: `SlotTypes`, `UnregisteredHolds`, and, from `SlotParameters` (finitely many
projects, positive bounds), `CapAlwaysHolds`. The cap needs finite cardinalities: a
reservation adds one slot to those taken and requires fewer than the cap, every other step
takes none (`FewerTaken`).

`BenchLifecycle_proofs.tla`, from `Parameters` (the same, and `None` is no bench and no call),
for any number of projects, slots, bench objects and calls:

* `TypeCorrect`: `Spec => []TypeOK`. The type of a call says more than its shape: a call in
  flight has a key and, but for an unregister, a bench object, a launch has its second
  reference, and an unregister's records are of its own project. Without this no action
  that follows `call[c].id` could be shown to write a bench.
* `NoPhantom`: `Spec => []NoPhantomRecord`. Each action has a lemma saying what it does to
  the registry, to the map and to the records (`SameRecords`, `Records`, `Drops`, `Frees`,
  `Unregisters`); `StepEffect` joins them, and with `TypeOK` the invariant is inductive: only
  `RecordBench` creates a record, under the liveness check, `updateBench` creates none, and
  Clear and unregister drop record and bench in one tick.
* `Implements`: `Spec => ImplementsSlots`, by the refinement mapping `slotOf`. The same
  effects map to one step of BenchSlots or none. `NoPhantom` is needed twice: a slot that
  `createBench` finds free has no record, and after a crash the records left are exactly the
  recorded slots.
* `CapNeverExceeded`: `Spec => []CapHolds`, by the step lemma of the refinement.

`BenchOverlap_proofs.tla`, from the same `Parameters`: what calls in flight on one key know of one
another, and so what Clear and unregister rely on. The inductive invariant is `Overlapping`; a key
on which a Clear began beside another removal, or a Cleanup & Retry beside a removal or a round, is
`contested` and excused:

* `Placed`: a round is the one `workspaceReady` names for its key, or its bench is gone and it was
  aborted and is past the git commands that write. `RoundsFindable` is its first half.
* `Waited`: whoever takes a worktree has aborted the rounds on it, and waits for those that may
  still write it; `WaitsFirst` says that the wait is over before anything is removed. Without
  these two `Placed` is not inductive: a Clear that drops a bench must know that the rounds
  it leaves behind write no more.
* `Removals`: a removal is alone on its key and of the bench that is live there, and no round runs
  beside a Cleanup & Retry. `RemovalsExclusive` follows.
* `Unregisterings`: the unregister of a project is alone, and holds every record the project has, so
  that the final drop misses none. `UnregisterDrops` follows: no other call can create a
  bench or a record between the listing and the drop without being aborted.
* `NoOrphans` needs one fact more, `Cleaned`: a Clear that has removed its worktree and still has to
  delete the branch finds no new directory at that path when it frees the slot. By `Placed` a
  round it left behind adds none, by `Removals` no Cleanup & Retry does.
* `Followed` is about the rounds of benches that are gone: unless the key is `contested` or `overran`
  (`Excused`), there are none (`Found`), because whoever takes a worktree waits for the rounds
  on it until they end (`Awaited`). The records need it, below.

`BenchRecords_proofs.tla`, from the same `Parameters`: `SavedSetupTrue`. A record that says setup is
complete is for a bench whose setup is (`SavedIsSet`). What makes it inductive is `OneKey`: a
bench object belongs to one key for as long as the map, a record or a call in flight refers to
it. A call that writes the record of its key and a Cleanup & Retry that resets the
bench thus never meet on one object under two keys, and `createBench` takes an object nothing
refers to. Each action is one of few kinds of step (`TruthfulKept`): calls refer to what was
referred to, a record is kept or written from a bench of its key, only a bench without a record
loses its setup. More results rest on it and on `Followed`:

* `RecordsCurrent` and `UsablesRecorded`, under `NothingStarts` (no bench-level setup, no automatic and
  no manual start, as in the run `crash`). The hypothesis is what the code needs: a
  setup or launch that outlasts its bench writes the record of the next one (the finding of
  `setup_reuse`), and Start makes a bench usable that has no record. `Kept` is the invariant: a
  record is of the bench in the map (`Current`); a bench without one is preparing, in error or being
  cleared (`Saved`); the bench under a Cleanup & Retry is in error until it is reset
  (`RetryOfError`). `Followed` makes `RecordBench` harmless: the round that writes is of the live
  bench.
* `ClearingSticks`, `Spec => ClearingIsSticky`, if nobody starts components by hand: `startAllComponents`
  (3344-3366) does not read the status. By `Clearing`, a bench in that status has its Clear under
  way, so by `Removals` and `Waited` no round or Cleanup & Retry is left that could set another.
* `UsablesHoused`, `Spec => []UsableHasWorktree`, between two starts of the server (`"crash"` is no
  operation, as in the run `overlap`): the startup sweep removes what was added since its list (`bench-manager.ts`
  445), and reconcile judges by an older list. `Worktrees` is the invariant. Per key
  that is not `Excused` nor being unregistered (`Housed`): a bench that no failure and no Clear has
  marked (`Fits`) has its worktree unless a round or a removal is at work on it; a round past
  `git worktree add` has the worktree; the bench of a failed or aborted round and of a Cleanup & Retry is
  marked; a bench being cleared shows it (`Clears`). And `workspaceReady` names a round on its own
  key only, so that a Clear aborts no round of another bench (`Marked`). A step is about one key,
  and leaves what `Housed` reads of the others (`Beside`), by `OneKey` their benches too. At its own key
  a removal past its wait meets no round, by `WaitRanOut`, and no Cleanup & Retry, by `Removals`.
  TLC checked `Worktrees` first: on the instance of `overlap` (some half a million states), and on the
  first five million states of one with two slots.

`ProcessManager_proofs.tla`, from `Identities` (ids, calls and the two markers are distinct):

* `TypeCorrect`. `TypeOK` is not inductive: what `close` records is an exit code only because
  an exited child has ended somehow (`Ended`) and only runs await a close (`Runs`).
* `StopsWait`: `Spec => []SettledIsOver`, by `Knows`: a waiting call waits for a spawned child,
  and no call waits for one that is still to be spawned, so an exited child never runs again.
* `NoLiveDropped`: `Spec => DropsNoLive`, by `Registers`: a live child is `alive`, so the early
  return of a stop never deletes it, and a settling stop deletes its own child only.
* `LiveChildrenRegistered`, for `Serial` and disjoint `StartIds` and `RunIds`: `Serialised` says
  that the spawner in flight of an id is alone, that while it stops a child no other takes
  the id, and that a live child of a run is a run in flight. `NoTwoLive` follows.

The strengthened invariants were checked by TLC on the instance of `pm_serial` first.

`PluginSupervisor_proofs.tla`, from `Parameters` (`None` is no call, a positive budget), for any
number of calls and any budget, with two inductive invariants:

* `Inv` holds however requests overlap: besides the types, an armed timer belongs to a call in
  its backoff, a call that has not spawned yet has no child, `process` is a living child, a
  restart callback that holds the current epoch is past its timer, and `Coming`: an enabled
  plugin has a living child or a call that is bringing one. `EnabledRunsAlways` is
  `Coming`; `RestartsBounded` follows from `Counted`, which compares the restarts with the
  history they were decided by; `RecoverySupervised` is the step that `Drained` takes.
* `Serial`, as long as nothing is noted in `crossed` and no SIGKILL has failed: one call is busy, a
  restart that is due is the one the entry knows of, a call that spawns finds no child, a stop
  waits for the child of the entry and leaves none, at most one callback holds the epoch
  (`Apart`); and a plugin that is off is quiet (`Quieted`). A settled entry satisfies `Apart`
  (`SettledApart`), which is why the note may be cleared there (`StaysCrossed`). `EveryChildOwned`, `StoppedStaysOff` and `RecoveriesAlone`
  follow.

Both were checked by TLC on the instance of `plugin_safety` before they were proved.

`ComponentLifecycle_proofs.tla`, from `ComponentParameters` and `NoneIsNull` (`None` stands for an
absent value), for any number of benches, components, plugins and handlers. `TypeCorrect`,
`BusyHandled` and `PreparingStarted` hold for any number of handlers on one component (`Overlap` may be
either), the rest when requests do not overlap. The last two are for one project besides.

* `Inv` is the types, `ChildrenFit`, `BusyIsHandled` and `PreparingIsStarted`. The types say for
  each await which tasks reach it and that they have a component there (`Fits`). A stop or
  a cleanup that kills a child resumes the handler that waits for it (`Killed`); that this is
  always a handler at an await of a child, and no other, is `ChildrenFit`: a registered
  child is alive, and a handler has a child only while it waits for one, and one only.
* `BusyHandled`. A report takes the status object from every other handler of the component
  (`Stale`). `BusyStep` is the argument for each action: what the step reports is not busy or
  is settled by the handler that made it, and for every other component the handler that
  settles it keeps its object and its await, or goes from a killed child to `killed`. A component a
  poll has put in `starting` has no handler, and is `polled`.
* `PreparingStarted`, by `PreparingStep` and `EndsStep`: the Start that leaves the set takes its bench
  with it, even when another Start of the bench is under way.
* `StoppedDown`, when requests do not overlap, but for the components in `escaped`, `unbound` and
  `polled`, like the property. `StoppedIsDown` says nothing of a component while a
  handler is at it, so its invariant, `Downed`, has to: a stop that still holds the status
  object has emptied the compose service once it is past `composeStop`, and knows that no
  process stands whose plugin it found down (`StopsEnd`), unless a recovery at the same
  component is about to bring one up. That launch then reports after the stop and takes
  the status object from it. `Apart` is what remains of "one request at a time" once handlers are
  at work; `Mains` (a child that nobody waits for is the registered one of a process, with
  its descriptor cached) makes the stop of the id hit it; `Services` (a container is of a
  cached descriptor, or escaped, or the sweep has its compose project still to bring down) is
  why a stop without a descriptor may pass over `docker compose stop`. `Moved` says what
  these need of a step of one handler, and every action is shown to be one (`MovedKeeps`) or to
  move none (`StillKeeps`).
* `RunningRecorded` and `CrashedDown`, on `Downed` and two more layers. The hypothesis
  `\A p, q \in Projects : p = q` is what the code needs: the rows of the ledger are keyed by the number
  of the bench (`bench-manager.ts` 2203), so the end of a Stop in one project drops those of
  another. Both say nothing of the components in `escaped`, `crossed` and `unbound`, like
  the properties.
  * `Steady` is what a handler knows of its component at each await. At one that is not `crossed` no
    other handler is (`Lone`), except for a recovery that has it still before it; so its
    status, its place in `inFlight`, the object and the binding are what the handler
    left there (`Knows`). A stop works in its bench, and if it lost its plugin half way the
    loss has met all that the bench has of the plugin (`Halts`): the rows it drops
    at its end are theirs. One lemma for each action.
  A poll writes a status only where `inFlight` and the status let it (`Polls`), so never under a
  handler that holds the component, and what it misreads is `polled`; the Stop that relies on such
  a status notes the sibling it wrongs (`Misread`) in `crossed`.
  * `Rows` says, for each component, that what runs of it has its row or is being dealt with
    (`Good`): a child without one is of a component in error or with a handler at it (`KidsHave`), a
    container likewise but only at the awaits before the row is written or during a stop
    (`ServiceHas`); what a Stop of the bench has gone past is down (`Passed`), which is why it may
    drop the rows of the bench; what runs and a cleanup or the startup sweep is
    to reap is in its entries (`Reached`), which have one entry for a key (`Listed`); and between a
    crash and the restart nothing runs unless the cleanup is still under way (`Cleaned`). For each
    action: the components it is not about keep `Good` because nothing of theirs comes up
    and no row goes (`Wanes`, `Leads`), the one it is about by what `Steady` knows of it.

TLC checked `Inv` on the instance of `components_outcomes` first, and `Downed`, `Steady` and `Rows` on
that of `components` and on a single component with each kind of binding.

`TerminalSessions_proofs.tla`, from `TerminalParameters` (`None` is none of the others), for any number
of sessions, WebSockets, benches and tokens. `Inv` is the types, `Registered` and the three
properties of the run. `Registered` is what the steps need to
know of an entry: a session with a pty was registered, and has a home whose bench object it holds,
or is known to be detached from it; the session of a WebSocket was registered.
Each action has a step, under it one per property it can disturb. `TypeCorrect`,
`TokensReachOwners`, `FilesBelong` and `IdleTimed` follow.

Model-checked only: liveness, which is out of reach of the prover.

## Not modelled

Inside the bench lifecycle: components one by one and the ledger (Clear's stop
steps are one action that can fail); the dirty check before Clear; benches hydrated with a
blank path; a cyclic `dependsOn`; I/O errors of state.json; a change of branch name, so that
a key is one workspace path; registering a project again after it was unregistered; the await between the listing and the removal of one worktree in a forced unregister (one
step per bench, which may leave anything `removeBenchWorktree` can leave); issue
assignment and container assignment, whose writes are `updateBench` under the same liveness
check as a notification's. Inside the components: imperative plugins and the broker, assigned
containers, `initService`, a `docker compose` that fails to stop or to
remove, a bench that is cleared meanwhile, and what `reconcile` makes of the containers at boot
(355-377): benches come up with their components stopped and the next poll reads what runs, where
`reconcile` also overwrites the status of a component a request has begun to launch or to stop by then. Inside the plugin manager: RPC calls and their
timeouts, logs, discovery, installation. Inside the terminals: the preparation of an agent launch,
the contents of buffers, the writes of notices to state.json and a session file that
cannot be written (its write is best effort, and leaves fewer files). Outside these: the components marked so in
`PROJECT.json`, with the reason; most are in the plan. Network retrieval, rendering, the Electron
shell and the build have little control to check.
