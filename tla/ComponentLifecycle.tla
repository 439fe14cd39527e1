------------------------ MODULE ComponentLifecycle ------------------------
(***************************************************************************)
(* Components of benches: src/server/services/bench-manager.ts launches,   *)
(* stops, polls and recovers them, lifecycle-engine.ts drives the          *)
(* containers and processes of one launch, and resource-ownership-ledger.ts *)
(* records in state.json what the host must reap after a plugin crash or a *)
(* restart of the host.                                                    *)
(*                                                                         *)
(* A component is <<project, bench number, name>>.  Workers are the        *)
(* activations of async functions that may be in flight together: route    *)
(* handlers, crash hooks and the startup sweep.  Every step ends where the *)
(* code awaits.                                                            *)
(***************************************************************************)
EXTENDS Naturals, FiniteSets

CONSTANTS
    Projects, Numbers, Names, \* registered projects, bench numbers, components
    Plugins,       \* component plugins
    Configs,       \* what roubo.yaml may bind the components to
    Workers,       \* bound: activations in flight at once
    MaxFaults,     \* bound: crashes of plugins and of the host
    MaxPolls,      \* bound: polls in flight and crashes so far, when a poll begins
    Overlap,       \* whether a request may come while a handler works on the component
    None

\* `first`: the descriptor has a setup command (process) or a migration (docker).
Bindings == [plugin : Plugins, kind : {"docker", "process", "oneshot"}, first : BOOLEAN]

ASSUME ComponentParameters ==
    /\ Configs \subseteq [Names -> Bindings]
    /\ MaxFaults \in Nat /\ MaxPolls \in Nat
    /\ Overlap \in BOOLEAN
    /\ None \notin Workers \cup (Projects \X Numbers) \cup Plugins

Components == Projects \X Numbers \X Names
Benches == Projects \X Numbers
BenchOf(c) == <<c[1], c[2]>>

\* The host starts the processes of a component under `plugin:number:name`, with
\* the suffix :setup or :migration for the command that comes before. The project
\* is not part of the id, nor of the key of a ledger entry.
Phases == {"main", "before"}
Ids == Numbers \X Names \X Phases
Main(c) == <<c[2], c[3], "main">>
Before(c) == <<c[2], c[3], "before">>
Keys == Plugins \X Numbers

Statuses == {"stopped", "starting", "running", "completed", "error", "stopping"}
Busy == {"starting", "stopping"}
Live == {"starting", "running", "stopping"}

VARIABLES
    config,     \* the binding of each component name and what its descriptor is
    status,     \* bench.components[name].status
    inFlight,   \* components whose startedAt is set
    complete,   \* components whose setupComplete is set (persisted)
    cached,     \* components with a cached descriptor
    preparing,  \* benches whose status is preparing
    pending,    \* pendingComponentRecovery: handles <<number, name>> of a plugin
    processIds, composeProjects,  \* the ledger: rows of each entry (persisted)
    connected,  \* plugins the host has a connection to
    backoff,    \* plugins their supervisor is about to restart
    due,        \* plugins restarted by it whose hook is not called yet
    child,      \* process manager: the live child registered under an id
    alive,      \* the children that run
    container,  \* components whose compose service is up
    job,        \* what each worker is doing
    listings,   \* polls in flight: the containers each of them was told are up
    faults,     \* crashes so far
    escaped,    \* history: containers a crash of the host left without a ledger row
    crossed,    \* history: components a second handler or the loss of the plugin
                \* met while a handler worked on them, or what a failed launch
                \* left of them when their plugin crashed, or whose ledger row a stop
                \* dropped when a poll had them as stopped while they ran
    unbound,    \* history: components last stopped while their plugin was down
    polled      \* history: components a poll put in starting, or in stopped while
                \* they ran, until they are launched, stopped or found running

Of(c) == config[c[3]].plugin
Kind(c) == config[c[3]].kind
HasFirst(c) == config[c[3]].first
Key(c) == <<Of(c), c[2]>>

misc == <<config, listings, faults, escaped, crossed, unbound, polled>>
benchVars == <<status, inFlight, complete, cached, preparing, pending>>
ledger == <<processIds, composeProjects>>
plugin == <<connected, backoff, due>>
world == <<child, alive, container>>
vars == <<benchVars, ledger, plugin, world, job, misc>>

Children == [id : Ids, of : Components, by : Workers \cup {None}]
Entries == [key : Keys, ids : SUBSET Ids, projects : SUBSET Benches]

\* `None` stands for an absent value: it is neither a component nor a child.
ASSUME NoneIsNull == None \notin Components \cup Children

Idle == [task |-> "none", pc |-> "idle", of |-> None, todo |-> {}, at |-> None,
         held |-> FALSE, bound |-> FALSE, fresh |-> FALSE, entries |-> {}]

TypeOK ==
    /\ config \in Configs
    /\ status \in [Components -> Statuses]
    /\ inFlight \subseteq Components /\ complete \subseteq Components
    /\ cached \subseteq Components
    /\ escaped \subseteq Components /\ crossed \subseteq Components
    /\ unbound \subseteq Components /\ polled \subseteq Components
    /\ listings \subseteq SUBSET Components
    /\ preparing \subseteq Benches
    /\ pending \in [Plugins -> SUBSET (Numbers \X Names)]
    /\ processIds \in [Keys -> SUBSET Ids]
    /\ composeProjects \in [Keys -> SUBSET Benches]
    /\ connected \subseteq Plugins /\ backoff \subseteq Plugins /\ due \subseteq Plugins
    /\ child \in [Ids -> Children \cup {None}]
    /\ alive \subseteq Children /\ container \subseteq Components
    /\ job \in [Workers ->
         [task : {"none", "start", "startAll", "stop", "stopAll", "restore", "cleanup", "sweep"},
          pc : {"idle", "next", "translate", "begin", "up", "health", "before", "spawn",
                "run", "killed", "composeStop", "composed", "stopping", "reap"},
          of : Benches \cup Plugins \cup {None}, todo : SUBSET Components,
          at : Components \cup {None}, held : BOOLEAN, bound : BOOLEAN,
          fresh : BOOLEAN, entries : SUBSET Entries]]
    /\ faults \in 0..MaxFaults

Init ==
    /\ config \in Configs
    /\ status = [c \in Components |-> "stopped"]
    /\ inFlight = {} /\ cached = {} /\ preparing = {}
    /\ listings = {} /\ escaped = {} /\ crossed = {} /\ unbound = {} /\ polled = {}
    /\ complete = {c \in Components : Kind(c) = "process" => ~HasFirst(c)}
    /\ pending = [g \in Plugins |-> {}]
    /\ processIds = [k \in Keys |-> {}]
    /\ composeProjects = [k \in Keys |-> {}]
    /\ connected = Plugins /\ backoff = {} /\ due = {}
    /\ child = [id \in Ids |-> None]
    /\ alive = {} /\ container = {}
    /\ job = [w \in Workers |-> Idle]
    /\ faults = 0

-----------------------------------------------------------------------------
(* The ledger and the process manager.                                       *)

recordProcess(k, id) == processIds' = [processIds EXCEPT ![k] = @ \cup {id}]
recordComposeProject(k, b) == composeProjects' = [composeProjects EXCEPT ![k] = @ \cup {b}]
clearEntry(k) ==
    /\ processIds' = [processIds EXCEPT ![k] = {}]
    /\ composeProjects' = [composeProjects EXCEPT ![k] = {}]
\* Mutant: entries that own only containers are passed over.
EntriesWithProcesses ==
    {[key |-> k, ids |-> processIds[k], projects |-> composeProjects[k]] :
        k \in {k \in Keys : processIds[k] # {}}}
getAllEntries == {[key |-> k, ids |-> processIds[k], projects |-> composeProjects[k]] :
                    k \in {k \in Keys : processIds[k] # {} \/ composeProjects[k] # {}}}

Kid(id, c, w) == [id |-> id, of |-> c, by |-> w]
IsAlive(id) == child[id] # None

\* A job whose awaited child was stopped goes on with whatever exit code that left:
\* a child ended by the signal reports 0, like one that succeeded.
Killed(jobs, id) == [w \in Workers |->
    IF IsAlive(id) /\ child[id].by = w THEN [jobs[w] EXCEPT !.pc = "killed"] ELSE jobs[w]]
\* A child ends by itself; the registered one then reads as not alive.
exits(k) ==
    /\ alive' = alive \ {k}
    /\ child' = [child EXCEPT ![k.id] = IF @ = k THEN None ELSE @]
stopProcess(id) ==
    /\ alive' = alive \ {child[id]}
    /\ child' = [child EXCEPT ![id] = None]
\* runProcess replaces the registered child, startProcess stops it first.
runProcess(id, c, w) ==
    /\ alive' = alive \cup {Kid(id, c, w)}
    /\ child' = [child EXCEPT ![id] = Kid(id, c, w)]
startProcess(id, c) ==
    /\ alive' = (alive \ {child[id]}) \cup {Kid(id, c, None)}
    /\ child' = [child EXCEPT ![id] = Kid(id, c, None)]

\* A report replaces the status object of the component, so a handler that still
\* holds the old one no longer writes to the bench.
Stale(jobs, S) == [w \in Workers |->
    IF jobs[w].at \in S THEN [jobs[w] EXCEPT !.held = FALSE] ELSE jobs[w]]
Report(S, s) == status' = [c \in Components |-> IF c \in S THEN s ELSE status[c]]

-----------------------------------------------------------------------------
(* Launch: provisionComponent and runDescriptor, for the Start of a component *)
(* or of a bench and for the recovery after a plugin crash.                   *)

Starts == {"start", "startAll"}
Launches == Starts \cup {"restore"}

\* What the next await of the job leaves it: the next component, or its end.
Goes(w, rest) ==
    IF rest = {} THEN Idle
    ELSE [job[w] EXCEPT !.pc = "next", !.todo = rest, !.at = None, !.held = FALSE,
                         !.fresh = FALSE]
\* Mutant: only the Start of a whole bench ends preparing.
EndsWithBench(w, rest) ==
    /\ preparing' = IF rest = {} /\ job[w].task = "startAll" THEN preparing \ {job[w].of}
                    ELSE preparing
    /\ pending' = IF rest = {} /\ job[w].task = "restore"
                  THEN [pending EXCEPT ![job[w].of] = {}] ELSE pending
Ends(w, rest) ==
    /\ preparing' = IF rest = {} /\ job[w].task \in Starts THEN preparing \ {job[w].of}
                    ELSE preparing
    /\ pending' = IF rest = {} /\ job[w].task = "restore"
                  THEN [pending EXCEPT ![job[w].of] = {}] ELSE pending

\* The properties that need the history are about requests that do not overlap.
Noted(S) == IF Overlap THEN {} ELSE S

\* Requests come to a component one at a time unless Overlap.
Works(w, c) ==
    \/ c \in job[w].todo \/ c = job[w].at
    \/ job[w].task \in {"startAll", "stopAll"} /\ job[w].of = BenchOf(c)
    \/ job[w].task \in {"restore", "cleanup"} /\ job[w].of = Of(c)
    \/ job[w].task = "sweep"
MayCall(S) == Overlap \/ \A w \in Workers, c \in S : ~Works(w, c)

\* startComponent of one component, startAllComponents of the whole bench, which
\* yields before it begins. (The Start of one component does not: the step between
\* the request and its launch adds interleavings that Start of a bench has anyway.)
Start(w, b, S, t) ==
    /\ job[w].task = "none" /\ MayCall(S)
    /\ preparing' = preparing \cup {b}
    /\ job' = [job EXCEPT ![w] = [Idle EXCEPT !.task = t, !.pc = "next",
                                              !.of = b, !.todo = S]]
    /\ UNCHANGED <<status, inFlight, complete, cached, pending, ledger, plugin, world, misc>>

\* Whether the recovery hook launches c again, and whether it passes over its bench:
\* it looks at the status of the bench once, before the first component of it.
Recovers(c) ==
    \/ status[c] \in {"running", "starting"}
    \/ <<c[2], c[3]>> \in pending[Of(c)]
AtBench(w, c) == {d \in job[w].todo : BenchOf(d) = BenchOf(c)}
PassesOver(w, c) ==
    /\ job[w].task = "restore" /\ BenchOf(c) \in preparing
    /\ \A d \in Components : BenchOf(d) = BenchOf(c) /\ Of(d) = Of(c) => d \in job[w].todo

\* Without a binding a Start of the bench records an error and goes on; a Start of
\* the component only if the component was left busy.
Errs(w, c) ==
    \/ job[w].task = "startAll"
    \/ (job[w].task = "start" /\ status[c] \in Busy)

Skip(w, c) ==
    LET rest == job[w].todo \ (IF PassesOver(w, c) THEN AtBench(w, c) ELSE {c}) IN
    /\ job[w].pc = "next" /\ job[w].task \in Launches
    /\ c \in job[w].todo
    /\ \/ Of(c) \notin connected
       \/ (job[w].task = "restore" /\ ~Recovers(c))
       \/ PassesOver(w, c)
    /\ status' = IF Errs(w, c) THEN [status EXCEPT ![c] = "error"] ELSE status
    /\ job' = [job EXCEPT ![w] = Goes(w, rest)]
    /\ Ends(w, rest)
    /\ UNCHANGED <<inFlight, complete, cached, ledger, plugin, world, misc>>

Launch(w, c) ==
    /\ job[w].pc = "next" /\ job[w].task \in Launches
    /\ c \in job[w].todo
    /\ Of(c) \in connected
    /\ (job[w].task = "restore" => Recovers(c)) /\ ~PassesOver(w, c)
    /\ status' = [status EXCEPT ![c] = "starting"]
    /\ inFlight' = inFlight \cup {c}
    /\ job' = [job EXCEPT ![w].at = c, ![w].held = TRUE, ![w].todo = @ \ {c},
                          ![w].pc = IF c \in cached THEN "begin" ELSE "translate"]
    /\ crossed' = IF \E v \in Workers \ {w} : Works(v, c) THEN Noted(crossed \cup {c})
                  ELSE crossed \ {c}
    /\ unbound' = unbound \ {c} /\ polled' = polled \ {c}
    /\ UNCHANGED <<complete, cached, preparing, pending, ledger, plugin, world, config,
                   listings, faults, escaped>>

\* A launch that failed ends the Start of its bench; the recovery goes on.
Rest(w, s) == IF s = "error" /\ job[w].task \in Starts THEN {} ELSE job[w].todo

\* provisionComponent clears startedAt at its end.
\* Mutant: it does not.
InFlightStill(c) == UNCHANGED inFlight
Landed(c) == inFlight' = inFlight \ {c}

\* The last report of a launch and what provisionComponent does after it. Every
\* report carries the setupComplete the launch began with.
Launched(w, jobs, s) ==
    LET c == job[w].at IN
    /\ Report({c}, s) /\ Landed(c)
    /\ complete' = IF s = "error" /\ job[w].fresh THEN complete \ {c}
                   ELSE complete \cup {c}
    /\ job' = [Stale(jobs, {c}) EXCEPT ![w] = Goes(w, Rest(w, s))]
    /\ Ends(w, Rest(w, s))
    /\ UNCHANGED <<cached, plugin, misc>>
Goon(w, jobs, p) ==
    LET c == job[w].at IN
    /\ Report({c}, "starting")
    /\ job' = [Stale(jobs, {c}) EXCEPT ![w].pc = p]
    /\ complete' = IF jobs[w].fresh THEN complete \ {c} ELSE complete \cup {c}
    /\ UNCHANGED <<inFlight, cached, preparing, pending, plugin, misc>>

Translate(w) ==
    LET c == job[w].at IN
    /\ job[w].pc = "translate"
    /\ UNCHANGED <<complete, ledger, plugin, world, misc>>
    /\ \/ /\ Of(c) \in connected
          /\ cached' = cached \cup {c}
          /\ job' = [job EXCEPT ![w].pc = "begin"]
          /\ UNCHANGED <<status, inFlight, preparing, pending>>
       \/ /\ status' = IF job[w].held THEN [status EXCEPT ![c] = "error"] ELSE status
          /\ job' = [job EXCEPT ![w] = Goes(w, Rest(w, status'[c]))]
          /\ Ends(w, Rest(w, status'[c]))
          /\ UNCHANGED <<inFlight, cached>>

\* runDescriptor up to its first await.
Begin(w) ==
    LET c == job[w].at
        jobs == [job EXCEPT ![w].fresh = (c \notin complete)] IN
    /\ job[w].pc = "begin"
    /\ UNCHANGED <<composeProjects, container>>
    /\ \/ /\ Kind(c) = "docker"
          /\ Goon(w, jobs, "up")
          /\ UNCHANGED <<processIds, child, alive>>
       \/ /\ Kind(c) = "process"
          /\ c \notin complete
          /\ recordProcess(Key(c), Before(c))
          /\ runProcess(Before(c), c, w)
          /\ Goon(w, jobs, "before")
       \/ /\ Kind(c) = "process"
          /\ c \in complete
          /\ Goon(w, jobs, "spawn")
          /\ UNCHANGED <<processIds, child, alive>>
       \/ /\ Kind(c) = "oneshot"
          /\ recordProcess(Key(c), Main(c))
          /\ runProcess(Main(c), c, w)
          /\ Goon(w, jobs, "run")

\* docker compose up starts the container; when it ends, the host records it.
ComesUp(w) ==
    /\ job[w].pc = "up" /\ job[w].at \notin container
    /\ container' = container \cup {job[w].at}
    /\ UNCHANGED <<benchVars, ledger, plugin, child, alive, job, misc>>
Up(w) ==
    LET c == job[w].at IN
    /\ job[w].pc = "up"
    /\ UNCHANGED <<processIds, world>>
    /\ \/ /\ recordComposeProject(Key(c), BenchOf(c))
          /\ Goon(w, job, "health")
       \/ /\ Launched(w, job, "error")
          /\ UNCHANGED composeProjects

\* The container is healthy, or the wait for it has timed out.
Health(w) ==
    LET c == job[w].at IN
    /\ job[w].pc = "health"
    /\ UNCHANGED <<composeProjects, container>>
    /\ \/ /\ c \in container /\ HasFirst(c)
          /\ recordProcess(Key(c), Before(c))
          /\ runProcess(Before(c), c, w)
          /\ Goon(w, job, "before")
       \/ /\ c \in container /\ ~HasFirst(c)
          /\ Launched(w, job, "running")
          /\ UNCHANGED <<processIds, child, alive>>
       \/ /\ Launched(w, job, "error")
          /\ UNCHANGED <<processIds, child, alive>>

\* What follows the setup, the migration or the one-shot.
\* Mutant: a one-shot reports a status the benches do not know.
AfterSucceeds(w, jobs, ok) ==
    LET c == job[w].at IN
    IF ~ok THEN Launched(w, jobs, "error")
    ELSE IF Kind(c) = "docker" THEN Launched(w, jobs, "running")
    ELSE IF Kind(c) = "oneshot" THEN Launched(w, jobs, "succeeded")
    ELSE Goon(w, jobs, "spawn")
After(w, jobs, ok) ==
    LET c == job[w].at IN
    IF ~ok THEN Launched(w, jobs, "error")
    ELSE IF Kind(c) = "docker" THEN Launched(w, jobs, "running")
    ELSE IF Kind(c) = "oneshot" THEN Launched(w, jobs, "completed")
    ELSE Goon(w, jobs, "spawn")

\* The command ends by itself, or what is left of the one that was stopped.
CommandEnds(w, ok) ==
    LET c == job[w].at IN
    /\ job[w].pc \in {"before", "run"}
    /\ \E k \in alive : k.by = w /\ exits(k)
    /\ After(w, job, ok)
    /\ UNCHANGED <<ledger, container>>
KilledEnds(w, ok) ==
    /\ job[w].pc = "killed"
    /\ After(w, job, ok)
    /\ UNCHANGED <<ledger, world>>

\* startProcess: the child of that id is stopped, then the command spawned.
Spawn(w) ==
    LET c == job[w].at IN
    /\ job[w].pc = "spawn"
    /\ UNCHANGED <<composeProjects, container>>
    /\ \/ /\ startProcess(Main(c), c)
          /\ recordProcess(Key(c), Main(c))
          /\ Launched(w, Killed(job, Main(c)), "running")
       \/ /\ stopProcess(Main(c))
          /\ Launched(w, Killed(job, Main(c)), "error")
          /\ UNCHANGED processIds

-----------------------------------------------------------------------------
(* stopComponent and stopAllComponents.                                      *)

\* The descriptor is the cached one, or the plugin is asked for it.
Stopping(w, j, c) ==
    /\ status' = [status EXCEPT ![c] = "stopping"]
    /\ cached' \in IF Of(c) \in connected THEN {cached, cached \cup {c}} ELSE {cached}
    /\ job' = [job EXCEPT ![w] =
         [j EXCEPT !.at = c, !.held = TRUE, !.todo = @ \ {c},
                   !.bound = (Of(c) \in connected),
                   !.pc = IF c \in cached' /\ Kind(c) = "docker" THEN "composeStop"
                          ELSE "stopping"]]
    /\ unbound' = IF Of(c) \in connected THEN unbound \ {c} ELSE Noted(unbound \cup {c})
    /\ polled' = polled \ {c}
    /\ UNCHANGED <<inFlight, complete, preparing, pending, ledger, plugin, world, config,
                   listings, faults, escaped, crossed>>

\* A request gets to the await of its first component.
Stop(w, b, S, t) ==
    /\ job[w].task = "none" /\ MayCall(S)
    /\ \E c \in S : Stopping(w, [Idle EXCEPT !.task = t, !.of = b, !.todo = S], c)
StopNext(w, c) ==
    /\ job[w].pc = "next" /\ job[w].task \in {"stop", "stopAll"}
    /\ c \in job[w].todo
    /\ Stopping(w, job[w], c)

\* Mutant: docker compose stop names a service that does not run.
ComposeStopMisses(w) ==
    /\ job[w].pc = "composeStop"
    /\ job' = [job EXCEPT ![w].pc = "composed"]
    /\ UNCHANGED <<benchVars, ledger, plugin, world, misc>>
ComposeStopped(w) ==
    /\ job[w].pc = "composeStop"
    /\ container' = container \ {job[w].at}
    /\ job' = [job EXCEPT ![w].pc = "composed"]
    /\ UNCHANGED <<benchVars, ledger, plugin, child, alive, misc>>

\* benchHasLiveComponentOnPlugin: bindings resolve only while the plugin runs.
\* Mutant: a stop does not look for siblings.
SharesNothing(c) == FALSE
SharesProject(c) ==
    \E d \in Components \ {c} :
        /\ BenchOf(d) = BenchOf(c) /\ Of(d) = Of(c) /\ Of(d) \in connected
        /\ status[d] \in Live

Drops(w, c) == job[w].pc = "composed" /\ ~SharesProject(c)

\* Siblings that run although a poll has them as stopped: they do not count.
Misread(c) ==
    {d \in polled \ {c} : BenchOf(d) = BenchOf(c) /\ Of(d) = Of(c) /\ status[d] = "stopped"}

ClearsLedger(w) == job[w].task = "stopAll" /\ job[w].todo = {}

\* The stop writes to the status object it took at its beginning.
\* Mutant: a component without a binding returns before.
ReadsStoppedIfBound(w) ==
    LET S == IF job[w].held /\ job[w].bound THEN {job[w].at} ELSE {} IN
    Report(S, "stopped") /\ inFlight' = inFlight \ S
ReadsStopped(w) ==
    LET S == IF job[w].held THEN {job[w].at} ELSE {} IN
    Report(S, "stopped") /\ inFlight' = inFlight \ S

\* The process of the component has ended; its rows go, and after the last
\* component of Stop all those of every plugin under this bench number.
Stopped(w) ==
    LET c == job[w].at IN
    /\ job[w].pc \in {"stopping", "composed"}
    /\ IF job[w].bound THEN stopProcess(Main(c)) ELSE UNCHANGED <<child, alive>>
    /\ ReadsStopped(w)
    /\ processIds' = [k \in Keys |->
         IF ClearsLedger(w) /\ k[2] = c[2] THEN {}
         ELSE IF job[w].bound /\ k = Key(c) THEN processIds[k] \ {Main(c), Before(c)}
         ELSE processIds[k]]
    /\ composeProjects' = [k \in Keys |->
         IF ClearsLedger(w) /\ k[2] = c[2] THEN {}
         ELSE IF job[w].bound /\ k = Key(c) /\ Drops(w, c)
              THEN composeProjects[k] \ {BenchOf(c)}
         ELSE composeProjects[k]]
    /\ job' = [(IF job[w].bound THEN Killed(job, Main(c)) ELSE job)
                  EXCEPT ![w] = Goes(w, job[w].todo)]
    /\ crossed' = IF job[w].bound /\ Drops(w, c) THEN crossed \cup Noted(Misread(c)) ELSE crossed
    /\ UNCHANGED <<complete, cached, preparing, pending, plugin, container, config, listings,
                   faults, escaped, unbound, polled>>

-----------------------------------------------------------------------------
(* The status poll, every five seconds.                                      *)

\* The descriptor of a component, if there is none, comes from its plugin.
PollResolves(c) ==
    /\ c \notin cached /\ Of(c) \in connected
    /\ cached' = cached \cup {c}
    /\ UNCHANGED <<status, inFlight, complete, preparing, pending, ledger, plugin, world,
                   job, misc>>

\* A poll asks docker for the containers of the cached descriptors, in one call. When
\* none are up, or the call fails, it goes on with none (Poll({})), whenever it asked.
PollReads ==
    /\ container \cap cached # {} /\ Cardinality(listings) + faults < MaxPolls
    /\ listings' = listings \cup {container \cap cached}
    /\ UNCHANGED <<benchVars, ledger, plugin, world, job, config, faults, escaped, crossed,
                   unbound, polled>>

\* What it makes of a container that is up: running, starting, or, if unhealthy, stopped.
\* (docker says which with the listing; nothing depends on it before.)
FromHealth == {"running", "starting", "stopped"}

IsUp(c) == IF Kind(c) = "docker" THEN c \in container ELSE IsAlive(Main(c))
Polls(c) ==
    /\ status[c] \notin {"error", "stopping"} /\ c \notin inFlight
    /\ IF Kind(c) = "docker" THEN c \in cached ELSE Of(c) \in connected
Shows(c, S, h) ==
    IF Kind(c) = "docker"
    THEN IF c \in S THEN h[c] ELSE IF status[c] = "running" THEN "stopped" ELSE status[c]
    ELSE IF IsUp(c) THEN IF status[c] = "starting" THEN "running" ELSE status[c]
    ELSE IF status[c] \in {"running", "starting"} THEN "stopped" ELSE status[c]

\* The loop over the components: containers are as listed, processes as they are now.
Poll(S) ==
    /\ S \in listings \cup {{}}
    /\ listings' = listings \ {S}
    /\ \E h \in [S -> FromHealth] :
         status' = [c \in Components |-> IF Polls(c) THEN Shows(c, S, h) ELSE status[c]]
    /\ polled' = {c \in Components :
         \/ status'[c] = "starting" /\ (status[c] # "starting" \/ c \in polled)
         \/ status'[c] = "stopped" /\ (c \in polled \/ (status[c] # "stopped" /\ c \in container))}
    /\ UNCHANGED <<inFlight, complete, cached, preparing, pending, ledger, plugin, world,
                   job, config, faults, escaped, crossed, unbound>>

-----------------------------------------------------------------------------
(* Plugin crashes, and the hooks the plugin manager calls.                    *)

\* The next step of a cleanup or of the sweep: a process, a compose project, then
\* the entry itself.
Reap(w, e) ==
    /\ job[w].pc = "reap" /\ e \in job[w].entries
    /\ UNCHANGED <<benchVars, plugin, misc>>
    /\ \/ \E id \in e.ids :
            /\ stopProcess(id)
            /\ job' = [Killed(job, id) EXCEPT ![w].entries =
                         (@ \ {e}) \cup {[e EXCEPT !.ids = @ \ {id}]}]
            /\ UNCHANGED <<ledger, container>>
       \/ /\ e.ids = {}
          /\ \E b \in e.projects :
               /\ container' = {c \in container : BenchOf(c) # b}
               /\ job' = [job EXCEPT ![w].entries =
                            (@ \ {e}) \cup {[e EXCEPT !.projects = @ \ {b}]}]
          /\ UNCHANGED <<ledger, child, alive>>
       \/ /\ e.ids = {} /\ e.projects = {}
          /\ clearEntry(e.key)
          /\ job' = [job EXCEPT ![w] = IF job[w].entries = {e} THEN Idle
                ELSE [job[w] EXCEPT !.entries = job[w].entries \ {e}]]
          /\ UNCHANGED world

\* What the crash hook marks: components of the plugin that read as up.
Crashed(g) == {c \in Components : /\ Of(c) = g
                                  /\ BenchOf(c) \notin preparing
                                  /\ status[c] \in {"running", "starting"}}
Handles(S) == {<<c[2], c[3]>> : c \in S}
Reaper(g) == LET E == {e \in getAllEntries : e.key[1] = g} IN
    IF E = {} THEN Idle
    ELSE [Idle EXCEPT !.task = "cleanup", !.pc = "reap", !.of = g, !.entries = E]

\* What a loss of the plugin runs into: handlers at work on its components, and
\* stops in the benches that have some.
Interrupted(g) == {c \in Components : Of(c) = g /\ \E v \in Workers :
    Works(v, c) \/ (job[v].task \in {"stop", "stopAll"} /\ job[v].of = BenchOf(c))}

\* The ledger has the rows of what runs of a component. A launch that fails before it
\* wrote them may leave something up.
Recorded(c) ==
    /\ c \in container => BenchOf(c) \in composeProjects[Key(c)]
    /\ \A k \in alive : k.of = c => k.id \in processIds[Key(c)]
Remains(g) == {c \in Components : Of(c) = g /\ status[c] = "error" /\ ~Recorded(c)}

\* The child of the plugin exits. Its budget may be exhausted, and then the
\* handles are dropped at once.
PluginCrashes(g, w, again) ==
    /\ faults < MaxFaults
    /\ g \in connected /\ job[w].task = "none"
    /\ connected' = connected \ {g}
    /\ due' = due \ {g}
    /\ backoff' = IF again THEN backoff \cup {g} ELSE backoff
    /\ Report(Crashed(g), "error")
    /\ pending' = [pending EXCEPT ![g] = IF again THEN @ \cup Handles(Crashed(g)) ELSE {}]
    /\ job' = [Stale(job, Crashed(g)) EXCEPT ![w] = Reaper(g)]
    /\ faults' = faults + 1
    /\ UNCHANGED <<listings, unbound, polled>>
    /\ crossed' = Noted(crossed \cup Interrupted(g) \cup Remains(g))
    /\ UNCHANGED <<inFlight, complete, cached, preparing, ledger, world, config, escaped>>

Respawn(g) ==
    /\ g \in backoff
    /\ backoff' = backoff \ {g}
    /\ connected' = connected \cup {g}
    /\ due' = due \cup {g}
    /\ UNCHANGED <<benchVars, ledger, world, job, misc>>

\* The plugin manager waits for the cleanups of the plugin, then calls the hook.
Restarted(g, w) ==
    /\ g \in due /\ job[w].task = "none"
    /\ \A v \in Workers : job[v].task = "cleanup" => job[v].of # g
    /\ due' = due \ {g}
    /\ job' = [job EXCEPT ![w] = [Idle EXCEPT !.task = "restore", !.pc = "next", !.of = g,
                                    !.todo = {c \in Components : Of(c) = g}]]
    /\ UNCHANGED <<benchVars, ledger, connected, backoff, world, misc>>

\* disable() stops the plugin, which clears its timer. In the backoff, when there is
\* nothing to stop, the timer stays, and the plugin is restarted: no step.
Disable(g) ==
    /\ g \in connected
    /\ connected' = connected \ {g} /\ backoff' = backoff \ {g} /\ due' = due \ {g}
    /\ crossed' = Noted(crossed \cup Interrupted(g))
    /\ UNCHANGED <<benchVars, ledger, world, job, config, listings, faults, escaped, unbound,
                   polled>>

\* enable() and restart() start it in the backoff too, and leave the timer armed.
Enable(g) ==
    /\ g \notin connected
    /\ connected' = connected \cup {g}
    /\ UNCHANGED <<benchVars, ledger, backoff, due, world, job, misc>>

\* An enable() whose child exited in the first 250 ms clears the timer of that exit.
RollsBack(g) ==
    /\ g \in backoff \ connected
    /\ backoff' = backoff \ {g}
    /\ UNCHANGED <<benchVars, ledger, connected, due, world, job, misc>>

-----------------------------------------------------------------------------
(* The world.                                                                *)

\* The process of a component exits, or its container stops.
Dies(c) ==
    /\ UNCHANGED <<benchVars, ledger, plugin, job, misc>>
    /\ \/ /\ Kid(Main(c), c, None) \in alive
          /\ exits(Kid(Main(c), c, None))
          /\ UNCHANGED container
       \/ /\ c \in container
          /\ container' = container \ {c}
          /\ UNCHANGED <<child, alive>>

\* The startup sweep: the processes of the entries died with the host.
Sweeper ==
    IF getAllEntries = {} THEN Idle
    ELSE [Idle EXCEPT !.task = "sweep", !.pc = "reap",
                      !.entries = {[e EXCEPT !.ids = {}] : e \in getAllEntries}]

\* A hard kill of the host and the next start: the processes die with it, the
\* containers do not. initialize hydrates the benches, then the sweep begins.
HostCrash(w) ==
    /\ faults < MaxFaults
    /\ faults' = faults + 1
    /\ status' = [c \in Components |-> "stopped"]
    /\ inFlight' = {} /\ cached' = {} /\ preparing' = {}
    /\ pending' = [g \in Plugins |-> {}]
    /\ connected' = Plugins /\ backoff' = {} /\ due' = {}
    /\ child' = [id \in Ids |-> None] /\ alive' = {}
    /\ job' = [v \in Workers |-> IF v = w THEN Sweeper ELSE Idle]
    /\ escaped' = Noted({c \in container : BenchOf(c) \notin composeProjects[Key(c)]})
    /\ listings' = {} /\ crossed' = {} /\ unbound' = {} /\ polled' = {}
    /\ UNCHANGED <<complete, ledger, container, config>>

-----------------------------------------------------------------------------

Step(w) ==
    \/ \E c \in Components : Skip(w, c) \/ Launch(w, c) \/ StopNext(w, c)
    \/ Translate(w) \/ Begin(w) \/ Up(w) \/ Health(w) \/ Spawn(w)
    \/ \E ok \in BOOLEAN : CommandEnds(w, ok) \/ KilledEnds(w, ok)
    \/ ComposeStopped(w) \/ Stopped(w)
    \/ \E e \in job[w].entries : Reap(w, e)
Request(w) ==
    \E b \in Benches : LET all == {c \in Components : BenchOf(c) = b} IN
        \/ \E c \in all : Start(w, b, {c}, "start") \/ Stop(w, b, {c}, "stop")
        \/ Start(w, b, all, "startAll") \/ Stop(w, b, all, "stopAll")
Next ==
    \/ \E w \in Workers : Step(w) \/ ComesUp(w) \/ Request(w) \/ HostCrash(w)
    \/ \E g \in Plugins, w \in Workers :
         Restarted(g, w) \/ \E again \in BOOLEAN : PluginCrashes(g, w, again)
    \/ \E g \in Plugins : Respawn(g) \/ Disable(g) \/ Enable(g) \/ RollsBack(g)
    \/ \E c \in Components : PollResolves(c) \/ Dies(c)
    \/ PollReads
    \/ \E S \in listings \cup {{}} : Poll(S)

Spec == Init /\ [][Next]_vars

\* Commands, compose calls and requests to a plugin end, by themselves or by the
\* timeout of the code, and the interval timer starts polls, which end.
FairSpec ==
    /\ Spec
    /\ \A w \in Workers : WF_vars(Step(w))
    /\ WF_vars(PollReads) /\ WF_vars(\E S \in listings : Poll(S))
    /\ WF_vars(container \cap cached = {} /\ Poll({}))

-----------------------------------------------------------------------------
(* Properties.                                                               *)

Quiet(c) == \A w \in Workers : ~Works(w, c)
Runs(c) == c \in container \/ \E k \in alive : k.of = c

\* "stopped" means down: once no handler works on a component, one that reads as
\* stopped has neither a container nor a process. Not promised of a container that
\* escaped a crash of the host, nor after a Stop that found the plugin not running, nor
\* of a running container the poll has put in stopped since: because it was unhealthy,
\* the listing failed, or it came up after the listing.
StoppedIsDown ==
    \A c \in Components : status[c] = "stopped" /\ Quiet(c) /\ Runs(c) =>
        c \in escaped \cup unbound \cup polled

\* The ledger holds a row for whatever runs, so that a plugin crash or the startup
\* sweep can reap it: of every running component, and of the others once no handler
\* works on them, unless they are in error. Not promised of what escaped a crash of the
\* host, of a Stop that found the plugin not running, and of what is in crossed, among it
\* a sibling whose row a stop dropped because a poll had it as stopped.
RunsRecorded ==
    \A c \in Components :
        \/ status[c] = "running"
        \/ Quiet(c) /\ status[c] # "error"
        => Recorded(c) \/ c \in escaped \cup crossed \cup unbound

\* What a plugin crash marks for recovery is down before the plugin is restarted, so
\* that the recovery does not bring up a duplicate (handleComponentPluginPreRestart).
\* Once the user has enabled the plugin in the backoff, components may be started again.
CrashedIsDown ==
    \A g \in backoff \ connected, c \in Components :
        /\ Of(c) = g /\ <<c[2], c[3]>> \in pending[g] /\ Runs(c)
        /\ \A w \in Workers : job[w].task = "cleanup" => job[w].of # g
        => c \in escaped \cup crossed \cup unbound

\* A pre-restart cleanup stops nothing of another plugin: its siblings "are never
\* touched" (comment of handleComponentPluginPreRestart).
SiblingsAreLeftAlone ==
    [][\A w \in Workers, e \in UNION {job[v].entries : v \in Workers} :
         job[w].task = "cleanup" /\ Reap(w, e) =>
            /\ \A c \in container : Of(c) # job[w].of => c \in container'
            /\ \A k \in alive : Of(k.of) # job[w].of => k \in alive']_vars

\* The awaits of a launch, and those of a stop.
LaunchPcs == {"translate", "begin", "up", "health", "before", "spawn", "run", "killed"}
StopPcs == {"composeStop", "composed", "stopping"}

\* A busy component always has a handler that is going to write its outcome: a
\* launch that reports it, or one that still holds the status object of the bench. Not
\* promised of a container the poll itself reports as starting.
BusyIsHandled == \A c \in Components :
    /\ status[c] = "starting" /\ c \notin polled => \E w \in Workers :
         /\ job[w].at = c /\ job[w].pc \in LaunchPcs
         /\ job[w].pc = "translate" => job[w].held
    /\ status[c] = "stopping" => \E w \in Workers :
         job[w].at = c /\ job[w].pc \in StopPcs /\ job[w].held

\* A bench in preparing has a Start under way that will take it out.
PreparingIsStarted == \A b \in preparing :
    \E w \in Workers : job[w].task \in Starts /\ job[w].of = b

\* No component stays in "starting" or "stopping", however requests, hooks and
\* crashes overlap, but for one the poll has put in "starting": if its container then
\* stops, no later poll changes that.
BusySettles == \A c \in Components :
    status[c] \in Busy ~> status[c] \notin Busy \/ (status[c] = "starting" /\ c \in polled)

\* No bench stays in "preparing", which disables its Start and makes the crash
\* hooks pass it over.
PreparingEnds == \A b \in Benches : b \in preparing ~> b \notin preparing

\* A component that reads as running and is not is found out by the poll, unless its
\* plugin stops: no launch or failure leaves a mark that makes the poll skip it.
PollCatchesUp ==
    \A c \in Components :
        (status[c] = "running" /\ ~IsUp(c) /\ Of(c) \in connected)
            ~> (status[c] # "running" \/ IsUp(c) \/ Of(c) \notin connected)
=============================================================================
