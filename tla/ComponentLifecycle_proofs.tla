--------------------- MODULE ComponentLifecycle_proofs ---------------------
(***************************************************************************)
(* Proofs about ComponentLifecycle, for every set of projects, benches,    *)
(* plugins and handlers.  However handlers overlap: the types, that a busy *)
(* component has a handler that will write its outcome, and that a bench   *)
(* in preparing has a Start that will take it out.  When requests do not   *)
(* overlap: that a component which reads as stopped is down and, if the    *)
(* benches are of one project, that the ledger has a row for what runs and *)
(* that what a plugin crash marks is down before the plugin is restarted.  *)
(* All but for what a poll misreports (polled), which they name.           *)
(***************************************************************************)
EXTENDS ComponentLifecycle, TLAPS

Tasks == {"none", "start", "startAll", "stop", "stopAll", "restore", "cleanup", "sweep"}
Pcs == {"idle", "next", "translate", "begin", "up", "health", "before", "spawn",
        "run", "killed", "composeStop", "composed", "stopping", "reap"}
Stops == {"stop", "stopAll"}

\* The awaits of a child of the handler.
Waits == {"before", "run"}

JobType == [task : Tasks, pc : Pcs, of : Benches \cup Plugins \cup {None},
            todo : SUBSET Components, at : Components \cup {None}, held : BOOLEAN,
            bound : BOOLEAN, fresh : BOOLEAN, entries : SUBSET Entries]

\* A handler is at an await of its task, and has a component where it needs one.
Fits(j) ==
    /\ j.pc \in LaunchPcs => j.task \in Launches /\ j.at \in Components
    /\ j.pc \in StopPcs => j.task \in Stops /\ j.at \in Components
    /\ j.pc = "next" => j.task \in Launches \cup Stops
    /\ j.pc = "reap" => j.task \in {"cleanup", "sweep"}
    /\ j.pc = "idle" <=> j.task = "none"
    /\ j.task \in Starts \cup Stops => j.of \in Benches
    /\ j.task \in {"restore", "cleanup"} => j.of \in Plugins
Jobs == {j \in JobType : Fits(j)}

BenchTypes ==
    /\ status \in [Components -> Statuses]
    /\ inFlight \subseteq Components /\ complete \subseteq Components
    /\ cached \subseteq Components
    /\ preparing \subseteq Benches
    /\ pending \in [Plugins -> SUBSET (Numbers \X Names)]
LedgerTypes ==
    /\ processIds \in [Keys -> SUBSET Ids]
    /\ composeProjects \in [Keys -> SUBSET Benches]
PluginTypes == connected \subseteq Plugins /\ backoff \subseteq Plugins /\ due \subseteq Plugins
WorldTypes ==
    /\ child \in [Ids -> Children \cup {None}]
    /\ alive \subseteq Children /\ container \subseteq Components
NoteTypes ==
    /\ config \in Configs /\ faults \in 0..MaxFaults
    /\ escaped \subseteq Components /\ crossed \subseteq Components
    /\ unbound \subseteq Components /\ polled \subseteq Components
    /\ listings \subseteq SUBSET Components
JobTypes == job \in [Workers -> Jobs]

\* The registered child of an id is alive, and only a handler that waits for its
\* child has one, and it has one.
ChildrenFit ==
    /\ \A id \in Ids : child[id] # None => child[id] \in alive /\ child[id].id = id
    /\ \A k \in alive : k.by # None => job[k.by].pc \in Waits
    /\ \A k, l \in alive : k.by # None /\ k.by = l.by => k = l

Typed == /\ BenchTypes /\ LedgerTypes /\ PluginTypes /\ WorldTypes /\ NoteTypes
         /\ JobTypes
Inv == Typed /\ ChildrenFit /\ BusyIsHandled /\ PreparingIsStarted

LEMMA TypedIsTypeOK == Typed => TypeOK
BY DEF Typed, BenchTypes, LedgerTypes, PluginTypes, WorldTypes, NoteTypes, JobTypes,
       Jobs, JobType, Tasks, Pcs, TypeOK

-----------------------------------------------------------------------------
(* Components, and what the helpers do to jobs *)

LEMMA Parts ==
    ASSUME config \in Configs, NEW c \in Components
    PROVE  /\ c[1] \in Projects /\ c[2] \in Numbers /\ c[3] \in Names
           /\ BenchOf(c) \in Benches /\ Of(c) \in Plugins /\ Key(c) \in Keys
           /\ Main(c) \in Ids /\ Before(c) \in Ids
           /\ Kind(c) \in {"docker", "process", "oneshot"}
<1>1. c[1] \in Projects /\ c[2] \in Numbers /\ c[3] \in Names
  BY DEF Components
<1>2. config \in [Names -> Bindings]
  BY ComponentParameters
<1>3. config[c[3]] \in Bindings
  BY <1>1, <1>2
<1>4. Of(c) \in Plugins /\ Kind(c) \in {"docker", "process", "oneshot"}
  BY <1>3 DEF Bindings, Of, Kind
<1> QED
  BY <1>1, <1>4 DEF BenchOf, Benches, Key, Keys, Main, Before, Ids, Phases

LEMMA IdleFits == Idle \in Jobs
BY DEF Idle, Jobs, JobType, Fits, Tasks, Pcs, LaunchPcs, StopPcs, Starts, Stops, Launches

\* Every place of a job is one of these.
LEMMA GoesFits ==
    ASSUME JobTypes, NEW w \in Workers, NEW rest \in SUBSET Components,
           job[w].task \in Launches \cup Stops
    PROVE  /\ Goes(w, rest) \in Jobs
           /\ rest # {} => /\ Goes(w, rest).task = job[w].task
                           /\ Goes(w, rest).of = job[w].of
           /\ Goes(w, rest).pc \in {"next", "idle"}
<1>1. job[w] \in Jobs
  BY DEF JobTypes
<1>2. CASE rest = {}
  BY <1>2, IdleFits DEF Goes, Idle
<1>3. CASE rest # {}
  BY <1>1, <1>3 DEF Goes, Jobs, JobType, Fits, Tasks, Pcs, LaunchPcs, StopPcs, Starts, Stops,
                     Launches
<1> QED
  BY <1>2, <1>3

\* What a step of another handler leaves of a job.
Kept(j, k) ==
    /\ k.task = j.task /\ k.of = j.of /\ k.at = j.at
    /\ \/ k.pc = j.pc
       \/ j.pc \in Waits /\ k.pc = "killed"
Others(w, S) == \A v \in Workers \ {w} :
    /\ Kept(job[v], job'[v])
    /\ job[v].at \notin S => job'[v].held = job[v].held

\* A launch, or a stop, goes from one of its awaits to another.
LEMMA MovesFit ==
    ASSUME NEW j \in Jobs, NEW p,
           \/ j.pc \in LaunchPcs /\ p \in LaunchPcs
           \/ j.pc \in StopPcs /\ p \in StopPcs
    PROVE  LET k == [j EXCEPT !.pc = p] IN
           /\ k \in Jobs /\ k.pc = p /\ k.at = j.at /\ k.task = j.task /\ k.of = j.of
           /\ k.held = j.held /\ k.todo = j.todo
<1>1. p \in Pcs
  BY DEF Pcs, LaunchPcs, StopPcs
<1> QED
  BY <1>1 DEF Jobs, JobType, Fits, LaunchPcs, StopPcs, Launches, Starts, Stops

LEMMA StaleFits ==
    ASSUME NEW jobs \in [Workers -> Jobs], NEW S
    PROVE  /\ Stale(jobs, S) \in [Workers -> Jobs]
           /\ \A v \in Workers : /\ Kept(jobs[v], Stale(jobs, S)[v])
                                 /\ Stale(jobs, S)[v].pc = jobs[v].pc
                                 /\ jobs[v].at \notin S => Stale(jobs, S)[v] = jobs[v]
<1>1. ASSUME NEW v \in Workers
      PROVE  /\ Stale(jobs, S)[v] \in Jobs
             /\ Kept(jobs[v], Stale(jobs, S)[v])
             /\ Stale(jobs, S)[v].pc = jobs[v].pc
             /\ jobs[v].at \notin S => Stale(jobs, S)[v] = jobs[v]
  <2>1. jobs[v] \in Jobs
    OBVIOUS
  <2>2. [jobs[v] EXCEPT !.held = FALSE] \in Jobs /\ Kept(jobs[v], [jobs[v] EXCEPT !.held = FALSE])
    BY <2>1 DEF Jobs, JobType, Fits, Kept
  <2> QED
    BY <2>1, <2>2 DEF Stale, Kept, JobType, Jobs
<1> QED
  BY <1>1 DEF Stale

LEMMA KilledFits ==
    ASSUME WorldTypes, NEW jobs \in [Workers -> Jobs], NEW id \in Ids,
           IsAlive(id) /\ child[id].by \in Workers => jobs[child[id].by].pc \in Waits
    PROVE  /\ Killed(jobs, id) \in [Workers -> Jobs]
           /\ \A v \in Workers :
                /\ Kept(jobs[v], Killed(jobs, id)[v])
                /\ Killed(jobs, id)[v].held = jobs[v].held
                /\ IF IsAlive(id) /\ child[id].by = v THEN Killed(jobs, id)[v].pc = "killed"
                   ELSE Killed(jobs, id)[v] = jobs[v]
<1>1. ASSUME NEW v \in Workers
      PROVE  /\ Killed(jobs, id)[v] \in Jobs
             /\ Kept(jobs[v], Killed(jobs, id)[v])
             /\ Killed(jobs, id)[v].held = jobs[v].held
             /\ IF IsAlive(id) /\ child[id].by = v THEN Killed(jobs, id)[v].pc = "killed"
                ELSE Killed(jobs, id)[v] = jobs[v]
  <2>1. jobs[v] \in Jobs
    OBVIOUS
  <2>2. CASE IsAlive(id) /\ child[id].by = v
    <3>1. jobs[v].pc \in Waits
      BY <2>2
    <3>2. Killed(jobs, id)[v] = [jobs[v] EXCEPT !.pc = "killed"]
      BY <2>2 DEF Killed
    <3> QED
      BY <2>1, <2>2, <3>1, <3>2 DEF Jobs, JobType, Fits, Kept, Waits, LaunchPcs, StopPcs, Pcs
  <2>3. CASE ~(IsAlive(id) /\ child[id].by = v)
    BY <2>1, <2>3 DEF Killed, Kept
  <2> QED
    BY <2>2, <2>3
<1> QED
  BY <1>1 DEF Killed

-----------------------------------------------------------------------------
(* Handlers: who is to settle a component, and who takes a bench out of preparing *)

Serves(w, c) ==
    /\ job[w].at = c
    /\ \/ /\ status[c] = "starting" /\ job[w].pc \in LaunchPcs
          /\ job[w].pc = "translate" => job[w].held
       \/ status[c] = "stopping" /\ job[w].pc \in StopPcs /\ job[w].held

\* What the poll itself put in starting.
Shown(c) == status[c] = "starting" /\ c \in polled

LEMMA BusyServed ==
    ASSUME BusyIsHandled, NEW c \in Components, status[c] \in Busy, ~Shown(c)
    PROVE  \E w \in Workers : Serves(w, c)
BY DEF BusyIsHandled, Serves, Shown, Busy

\* A step of one handler settles what it reports and leaves the rest as it is.
LEMMA BusyStep ==
    ASSUME BusyIsHandled, NEW w \in Workers, NEW S, Others(w, S), polled \ S \subseteq polled',
           \A c \in Components \ S :
              status'[c] \in Busy => \/ status'[c] = status[c] /\ ~Serves(w, c)
                                     \/ Serves(w, c)',
           \A c \in Components : c \in S /\ status'[c] \in Busy => Serves(w, c)'
    PROVE  BusyIsHandled'
<1> SUFFICES ASSUME NEW c \in Components, status'[c] \in Busy, ~Shown(c)'
             PROVE  \E v \in Workers : Serves(v, c)'
  BY DEF BusyIsHandled, Serves, Shown, Busy
<1>1. CASE Serves(w, c)'
  BY <1>1
<1>2. CASE c \notin S /\ status'[c] = status[c] /\ ~Serves(w, c)
  <2>1. PICK v \in Workers : Serves(v, c)
    BY <1>2, BusyServed DEF Shown
  <2>2. v # w /\ job[v].at = c
    BY <1>2, <2>1 DEF Serves
  <2>3. Kept(job[v], job'[v]) /\ job'[v].held = job[v].held
    BY <1>2, <2>2 DEF Others
  <2>4. Serves(v, c)'
    BY <1>2, <2>1, <2>3 DEF Serves, Kept, Waits, LaunchPcs, StopPcs
  <2> QED
    BY <2>4
<1> QED
  BY <1>1, <1>2

\* The same for the benches in preparing.
LEMMA PreparingStep ==
    ASSUME PreparingIsStarted, NEW w \in Workers, NEW S, Others(w, S),
           \A b \in preparing' :
              \/ b \in preparing /\ ~(job[w].task \in Starts /\ job[w].of = b)
              \/ job'[w].task \in Starts /\ job'[w].of = b
    PROVE  PreparingIsStarted'
<1> SUFFICES ASSUME NEW b \in preparing'
             PROVE  \E v \in Workers : job'[v].task \in Starts /\ job'[v].of = b
  BY DEF PreparingIsStarted
<1>1. CASE job'[w].task \in Starts /\ job'[w].of = b
  BY <1>1
<1>2. CASE b \in preparing /\ ~(job[w].task \in Starts /\ job[w].of = b)
  <2>1. PICK v \in Workers : job[v].task \in Starts /\ job[v].of = b
    BY <1>2 DEF PreparingIsStarted
  <2>2. v # w
    BY <1>2, <2>1
  <2> QED
    BY <2>1, <2>2 DEF Others, Kept
<1> QED
  BY <1>1, <1>2

\* The next component or the end of a handler.
LEMMA EndsStep ==
    ASSUME JobTypes, BenchTypes, PreparingIsStarted, NEW w \in Workers, NEW S, Others(w, S),
           NEW rest \in SUBSET Components, job[w].task \in Launches,
           job'[w] = Goes(w, rest), Ends(w, rest)
    PROVE  /\ PreparingIsStarted'
           /\ preparing' \subseteq Benches
           /\ pending' \in [Plugins -> SUBSET (Numbers \X Names)]
<1>1. rest # {} => job'[w].task = job[w].task /\ job'[w].of = job[w].of
  BY GoesFits
<1>2. \A b \in preparing' :
              \/ b \in preparing /\ ~(job[w].task \in Starts /\ job[w].of = b)
              \/ job'[w].task \in Starts /\ job'[w].of = b
  BY <1>1 DEF Ends
<1>3. PreparingIsStarted'
  BY <1>2, PreparingStep
<1> QED
  BY <1>3 DEF Ends, BenchTypes

-----------------------------------------------------------------------------
(* What a launch does to a bench, whatever it does to ledger and processes *)

\* Jobs that differ from the present ones at most in what the child of another
\* handler leaves it.
Like(w, jobs) ==
    /\ jobs \in [Workers -> Jobs]
    /\ \A v \in Workers \ {w} : Kept(job[v], jobs[v]) /\ jobs[v].held = job[v].held

Reported(w, jobs, S, k) == job' = [Stale(jobs, S) EXCEPT ![w] = k]

LEMMA ReportStep ==
    ASSUME JobTypes, NEW w \in Workers, NEW jobs, Like(w, jobs), NEW S, NEW k \in Jobs,
           Reported(w, jobs, S, k)
    PROVE  /\ JobTypes' /\ Others(w, S) /\ job'[w] = k
           /\ \A v \in Workers \ {w} : job'[v].pc = jobs[v].pc
<1>0. job' = [Stale(jobs, S) EXCEPT ![w] = k]
  BY DEF Reported
<1>1. /\ Stale(jobs, S) \in [Workers -> Jobs]
      /\ \A v \in Workers : /\ Kept(jobs[v], Stale(jobs, S)[v])
                            /\ Stale(jobs, S)[v].pc = jobs[v].pc
                            /\ jobs[v].at \notin S => Stale(jobs, S)[v] = jobs[v]
  BY StaleFits DEF Like
<1>2. \A v \in Workers \ {w} : job'[v] = Stale(jobs, S)[v]
  BY <1>0, <1>1
<1>3. JobTypes' /\ job'[w] = k
  BY <1>0, <1>1 DEF JobTypes
<1>4. ASSUME NEW v \in Workers \ {w}
      PROVE  /\ Kept(job[v], job'[v])
             /\ job[v].at \notin S => job'[v].held = job[v].held
             /\ job'[v].pc = jobs[v].pc
  BY <1>1, <1>2, <1>4 DEF Like, Kept
<1> QED
  BY <1>3, <1>4 DEF Others

LEMMA LaunchedStep ==
    ASSUME Typed, BusyIsHandled, PreparingIsStarted, NEW w \in Workers, NEW jobs,
           Like(w, jobs), job[w].pc \in LaunchPcs,
           NEW c, c = job[w].at,
           NEW s \in Statuses \ Busy, Launched(w, jobs, s)
    PROVE  /\ BenchTypes' /\ PluginTypes' /\ NoteTypes' /\ JobTypes'
           /\ BusyIsHandled' /\ PreparingIsStarted'
           /\ Others(w, {c}) /\ \A v \in Workers \ {w} : job'[v].pc = jobs[v].pc
           /\ job'[w].pc \in {"next", "idle"}
<1> DEFINE r == Rest(w, s)
<1>1. job[w] \in Jobs /\ job[w].task \in Launches /\ c \in Components
  BY DEF Typed, JobTypes, Jobs, Fits
<1>2. r \in SUBSET Components
  BY <1>1 DEF Rest, Jobs, JobType
<1>3. Goes(w, r) \in Jobs /\ Goes(w, r).pc \in {"next", "idle"}
  BY <1>1, <1>2, GoesFits DEF Typed
<1>4. /\ JobTypes' /\ Others(w, {c}) /\ \A v \in Workers \ {w} : job'[v].pc = jobs[v].pc
      /\ job'[w] = Goes(w, r)
  <2>1. Reported(w, jobs, {c}, Goes(w, r))
    BY DEF Launched, Reported
  <2>2. JobTypes /\ Goes(w, r) \in Jobs
    BY <1>3 DEF Typed
  <2> HIDE DEF r
  <2> QED
    BY <2>1, <2>2, ReportStep
<1>5. Ends(w, r) /\ PreparingIsStarted' /\ preparing' \subseteq Benches
      /\ pending' \in [Plugins -> SUBSET (Numbers \X Names)]
  BY <1>1, <1>2, <1>4, EndsStep DEF Launched, Typed
<1>6. status' = [d \in Components |-> IF d = c THEN s ELSE status[d]]
  BY DEF Launched, Report
<1>7. BusyIsHandled'
  <2>1. \A d \in Components \ {c} : status'[d] = status[d] /\ ~Serves(w, d)
    BY <1>6 DEF Serves
  <2>2. status'[c] \notin Busy
    BY <1>1, <1>6
  <2> QED
    BY <1>4, <2>1, <2>2, BusyStep DEF Launched, misc
<1>8. BenchTypes'
  BY <1>1, <1>5, <1>6 DEF Launched, Landed, BenchTypes, Typed
<1> QED
  BY <1>3, <1>4, <1>5, <1>7, <1>8 DEF Launched, plugin, misc, Typed, PluginTypes, NoteTypes

LEMMA GoonStep ==
    ASSUME Typed, BusyIsHandled, PreparingIsStarted, NEW w \in Workers, NEW jobs,
           Like(w, jobs), job[w].pc \in LaunchPcs,
           NEW c, c = job[w].at,
           jobs[w].pc \in LaunchPcs, jobs[w].at = job[w].at,
           jobs[w].task = job[w].task, jobs[w].of = job[w].of,
           NEW p \in LaunchPcs \ {"translate"}, Goon(w, jobs, p)
    PROVE  /\ BenchTypes' /\ PluginTypes' /\ NoteTypes' /\ JobTypes'
           /\ BusyIsHandled' /\ PreparingIsStarted'
           /\ Others(w, {c}) /\ \A v \in Workers \ {w} : job'[v].pc = jobs[v].pc
           /\ job'[w].pc = p
<1> DEFINE k == [Stale(jobs, {c})[w] EXCEPT !.pc = p]
<1>1. job[w] \in Jobs /\ job[w].task \in Launches /\ c \in Components
  BY DEF Typed, JobTypes, Jobs, Fits
<1>2. /\ Stale(jobs, {c}) \in [Workers -> Jobs]
      /\ Kept(jobs[w], Stale(jobs, {c})[w])
  BY StaleFits DEF Like
<1>3. k \in Jobs /\ k.pc = p /\ k.at = c /\ k.task = job[w].task /\ k.of = job[w].of
  <2>1. Stale(jobs, {c})[w] \in Jobs
    BY <1>2
  <2>2. Stale(jobs, {c})[w].pc \in LaunchPcs
    BY StaleFits DEF Like
  <2> QED
    BY <1>2, <2>1, <2>2, MovesFit DEF Kept
<1>4. /\ JobTypes' /\ Others(w, {c}) /\ \A v \in Workers \ {w} : job'[v].pc = jobs[v].pc
      /\ job'[w] = k
  <2>1. Reported(w, jobs, {c}, k)
    BY <1>2 DEF Goon, Reported
  <2>2. JobTypes /\ k \in Jobs
    BY <1>3 DEF Typed
  <2> HIDE DEF k
  <2> QED
    BY <2>1, <2>2, ReportStep
<1>5. PreparingIsStarted'
  BY <1>3, <1>4, PreparingStep DEF Goon
<1>6. status' = [d \in Components |-> IF d = c THEN "starting" ELSE status[d]]
  BY DEF Goon, Report
<1>7. BusyIsHandled'
  <2>1. \A d \in Components \ {c} : status'[d] = status[d] /\ ~Serves(w, d)
    BY <1>6 DEF Serves
  <2>2. Serves(w, c)'
    BY <1>1, <1>3, <1>4, <1>6 DEF Serves
  <2>3. Others(w, {c})
    BY <1>4
  <2>4. \A d \in {c} : Serves(w, d)'
    BY <2>2
  <2> QED
    BY <2>1, <2>3, <2>4, BusyStep DEF Goon, misc
<1>8. BenchTypes'
  BY <1>1, <1>6 DEF Goon, BenchTypes, Typed, Statuses
<1> QED
  BY <1>3, <1>4, <1>5, <1>7, <1>8 DEF Goon, plugin, misc, Typed, PluginTypes, NoteTypes

-----------------------------------------------------------------------------
(* Children *)

WorkerOf(id, v) == IsAlive(id) /\ child[id].by = v

\* A handler that waits for its child goes on doing so, but for w and but for the one
\* whose child is stopped.
Keep(w) == \A v \in Workers \ {w} : job[v].pc \in Waits => job'[v].pc \in Waits
KeepBut(w, id) == \A v \in Workers \ {w} :
    job[v].pc \in Waits => job'[v].pc \in Waits \/ WorkerOf(id, v)

LEMMA SameChildren ==
    ASSUME WorldTypes, ChildrenFit, NEW w \in Workers, Keep(w),
           job[w].pc \in Waits => job'[w].pc \in Waits, UNCHANGED <<child, alive>>
    PROVE  ChildrenFit'
BY DEF ChildrenFit, Keep, WorldTypes, Children

LEMMA StopChild ==
    ASSUME WorldTypes, ChildrenFit, NEW w \in Workers, NEW id \in Ids, KeepBut(w, id),
           job[w].pc \notin Waits, stopProcess(id)
    PROVE  /\ child' \in [Ids -> Children \cup {None}] /\ alive' \subseteq Children
           /\ ChildrenFit'
<1>1. \A k \in alive' : k \in alive /\ k # child[id]
  BY DEF stopProcess
<1>2. \A k \in alive' : k.by # None => job'[k.by].pc \in Waits
  <2> SUFFICES ASSUME NEW k \in alive', k.by # None
               PROVE  job'[k.by].pc \in Waits
    OBVIOUS
  <2>1. k \in alive /\ k # child[id] /\ k.by \in Workers /\ job[k.by].pc \in Waits
    BY <1>1 DEF ChildrenFit, WorldTypes, Children
  <2>2. ~WorkerOf(id, k.by)
    BY <2>1 DEF WorkerOf, IsAlive, ChildrenFit
  <2> QED
    BY <2>1, <2>2 DEF KeepBut
<1>3. child' \in [Ids -> Children \cup {None}] /\ alive' \subseteq Children
  BY DEF WorldTypes, stopProcess
<1>4. \A i \in Ids : child'[i] # None => child'[i] \in alive' /\ child'[i].id = i
  <2> SUFFICES ASSUME NEW i \in Ids, child'[i] # None
               PROVE  child'[i] \in alive' /\ child'[i].id = i
    OBVIOUS
  <2>1. i # id /\ child'[i] = child[i]
    BY DEF WorldTypes, stopProcess
  <2> QED
    BY <2>1 DEF ChildrenFit, stopProcess
<1> QED
  BY <1>1, <1>2, <1>3, <1>4 DEF ChildrenFit

LEMMA RunChild ==
    ASSUME WorldTypes, ChildrenFit, NEW w \in Workers, NEW id \in Ids, NEW c \in Components,
           Keep(w), job[w].pc \notin Waits, job'[w].pc \in Waits, runProcess(id, c, w)
    PROVE  /\ child' \in [Ids -> Children \cup {None}] /\ alive' \subseteq Children
           /\ ChildrenFit'
<1> DEFINE n == Kid(id, c, w)
<1>1. n \in Children /\ n.id = id /\ n.by = w
  BY DEF Kid, Children
<1>2. \A k \in alive : k.by # w
  BY ComponentParameters DEF ChildrenFit
<1>3. alive' = alive \cup {n} /\ child' = [child EXCEPT ![id] = n]
  BY DEF runProcess
<1> HIDE DEF n
<1>4. child' \in [Ids -> Children \cup {None}] /\ alive' \subseteq Children
  BY <1>1, <1>3 DEF WorldTypes
<1>5. \A i \in Ids : child'[i] # None => child'[i] \in alive' /\ child'[i].id = i
  BY <1>1, <1>3 DEF WorldTypes, ChildrenFit
<1>6. \A k \in alive' : k.by # None => job'[k.by].pc \in Waits
  BY <1>1, <1>2, <1>3 DEF WorldTypes, ChildrenFit, Children, Keep
<1>7. \A k, l \in alive' : k.by # None /\ k.by = l.by => k = l
  BY <1>1, <1>2, <1>3 DEF ChildrenFit
<1> QED
  BY <1>4, <1>5, <1>6, <1>7 DEF ChildrenFit

LEMMA StartChild ==
    ASSUME WorldTypes, ChildrenFit, NEW w \in Workers, NEW id \in Ids, NEW c \in Components,
           KeepBut(w, id), job[w].pc \notin Waits, startProcess(id, c)
    PROVE  /\ child' \in [Ids -> Children \cup {None}] /\ alive' \subseteq Children
           /\ ChildrenFit'
<1> DEFINE n == Kid(id, c, None)
<1>1. n \in Children /\ n.id = id /\ n.by = None
  BY DEF Kid, Children
<1>2. alive' = (alive \ {child[id]}) \cup {n} /\ child' = [child EXCEPT ![id] = n]
  BY DEF startProcess
<1> HIDE DEF n
<1>3. child' \in [Ids -> Children \cup {None}] /\ alive' \subseteq Children
  BY <1>1, <1>2 DEF WorldTypes
<1>4. \A i \in Ids : child'[i] # None => child'[i] \in alive' /\ child'[i].id = i
  BY <1>1, <1>2 DEF WorldTypes, ChildrenFit
<1>5. \A k \in alive' : k.by # None => job'[k.by].pc \in Waits
  <2> SUFFICES ASSUME NEW k \in alive', k.by # None
               PROVE  job'[k.by].pc \in Waits
    OBVIOUS
  <2>1. k \in alive /\ k # child[id]
    BY <1>1, <1>2
  <2>2. k.by \in Workers /\ job[k.by].pc \in Waits
    BY <2>1 DEF ChildrenFit, WorldTypes, Children
  <2>3. ~WorkerOf(id, k.by)
    BY <2>1, <2>2 DEF WorkerOf, IsAlive, ChildrenFit
  <2> QED
    BY <2>2, <2>3 DEF KeepBut
<1>6. \A k, l \in alive' : k.by # None /\ k.by = l.by => k = l
  BY <1>1, <1>2 DEF ChildrenFit
<1> QED
  BY <1>3, <1>4, <1>5, <1>6 DEF ChildrenFit

LEMMA ExitChild ==
    ASSUME WorldTypes, ChildrenFit, NEW k \in alive, exits(k),
           \A v \in Workers : job[v].pc \in Waits /\ v # k.by => job'[v].pc \in Waits
    PROVE  /\ child' \in [Ids -> Children \cup {None}] /\ alive' \subseteq Children
           /\ ChildrenFit'
<1>1. k.id \in Ids /\ k \in Children
  BY DEF WorldTypes, Children
<1>2. child' \in [Ids -> Children \cup {None}] /\ alive' = alive \ {k}
  BY <1>1 DEF WorldTypes, exits
<1>3. \A i \in Ids : child'[i] # None => child'[i] = child[i] /\ child'[i] # k
  BY <1>1 DEF WorldTypes, exits, ChildrenFit
<1>4. \A l \in alive' : l.by # None => job'[l.by].pc \in Waits
  <2> SUFFICES ASSUME NEW l \in alive', l.by # None
               PROVE  job'[l.by].pc \in Waits
    OBVIOUS
  <2>1. l \in alive /\ l # k /\ l.by \in Workers /\ job[l.by].pc \in Waits
    BY <1>2 DEF ChildrenFit, WorldTypes, Children
  <2> QED
    BY <2>1 DEF ChildrenFit
<1> QED
  BY <1>2, <1>3, <1>4 DEF ChildrenFit, WorldTypes

-----------------------------------------------------------------------------
(* Launches *)

\* The part of the invariant about benches and handlers.
Handling == /\ BenchTypes /\ PluginTypes /\ NoteTypes /\ JobTypes
            /\ BusyIsHandled /\ PreparingIsStarted

LEMMA OwnStep ==
    ASSUME JobTypes, NEW w \in Workers, NEW k \in Jobs, job' = [job EXCEPT ![w] = k]
    PROVE  /\ JobTypes' /\ Others(w, {}) /\ job'[w] = k
           /\ \A v \in Workers \ {w} : job'[v] = job[v]
BY DEF JobTypes, Others, Kept

LEMMA JobIsLike ==
    ASSUME JobTypes, NEW w \in Workers
    PROVE  Like(w, job)
BY DEF JobTypes, Like, Kept

LEMMA LedgerStep ==
    ASSUME LedgerTypes, NEW k \in Keys, NEW id \in Ids, NEW b \in Benches
    PROVE  /\ recordProcess(k, id) => processIds' \in [Keys -> SUBSET Ids]
           /\ recordComposeProject(k, b) => composeProjects' \in [Keys -> SUBSET Benches]
           /\ clearEntry(k) => LedgerTypes'
BY DEF LedgerTypes, recordProcess, recordComposeProject, clearEntry

LEMMA StartStep ==
    ASSUME Inv, NEW w \in Workers, NEW b \in Benches, NEW S \in SUBSET Components,
           NEW t \in Starts, Start(w, b, S, t)
    PROVE  Inv'
<1> DEFINE k == [Idle EXCEPT !.task = t, !.pc = "next", !.of = b, !.todo = S]
<1>1. k \in Jobs /\ k.task = t /\ k.of = b /\ k.pc = "next"
  BY DEF Idle, Jobs, JobType, Fits, Tasks, Pcs, LaunchPcs, StopPcs, Starts, Stops, Launches
<1>2. job' = [job EXCEPT ![w] = k] /\ job[w].task = "none"
  BY DEF Start
<1> HIDE DEF k
<1>3. /\ JobTypes' /\ Others(w, {}) /\ job'[w] = k
      /\ \A v \in Workers \ {w} : job'[v] = job[v]
  BY <1>1, <1>2, OwnStep DEF Inv, Typed
<1>4. job[w].pc = "idle"
  BY <1>2 DEF Inv, Typed, JobTypes, Jobs, Fits
<1>5. BusyIsHandled'
  BY <1>3, <1>4, BusyStep DEF Inv, Start, misc, Serves, LaunchPcs, StopPcs
<1>6. PreparingIsStarted'
  BY <1>1, <1>2, <1>3, PreparingStep DEF Inv, Start, Starts
<1>7. ChildrenFit'
  BY <1>3, <1>4, SameChildren DEF Inv, Typed, Keep, Start, world, Waits
<1> QED
  BY <1>3, <1>5, <1>6, <1>7 DEF Inv, Typed, Start, BenchTypes, LedgerTypes, ledger,
     PluginTypes, plugin, WorldTypes, world, NoteTypes, misc

LEMMA SkipStep ==
    ASSUME Inv, NEW w \in Workers, NEW c \in Components, Skip(w, c)
    PROVE  Inv'
<1>1. PICK rest \in SUBSET Components :
         job' = [job EXCEPT ![w] = Goes(w, rest)] /\ Ends(w, rest)
  <2>1. job[w].todo \in SUBSET Components
    BY DEF Inv, Typed, JobTypes, Jobs, JobType
  <2> QED
    BY <2>1 DEF Skip
<1>2. job[w].task \in Launches /\ job[w].pc = "next"
  BY DEF Skip
<1>3. Goes(w, rest) \in Jobs /\ Goes(w, rest).pc \in {"next", "idle"}
  BY <1>2, GoesFits DEF Inv, Typed
<1>4. /\ JobTypes' /\ Others(w, {}) /\ job'[w] = Goes(w, rest)
      /\ \A v \in Workers \ {w} : job'[v] = job[v]
  BY <1>1, <1>3, OwnStep DEF Inv, Typed
<1>5. /\ PreparingIsStarted' /\ preparing' \subseteq Benches
      /\ pending' \in [Plugins -> SUBSET (Numbers \X Names)]
  BY <1>1, <1>2, <1>4, EndsStep DEF Inv, Typed
<1>6. status' \in [Components -> Statuses]
      /\ \A d \in Components : status'[d] = status[d] \/ status'[d] = "error"
  BY DEF Skip, Inv, Typed, BenchTypes, Statuses
<1>7. BusyIsHandled'
  BY <1>2, <1>4, <1>6, BusyStep DEF Inv, Skip, misc, Serves, LaunchPcs, StopPcs, Busy
<1>8. ChildrenFit'
  BY <1>2, <1>4, SameChildren DEF Inv, Typed, Keep, Skip, world, Waits
<1> QED
  BY <1>4, <1>5, <1>6, <1>7, <1>8 DEF Inv, Typed, Skip, BenchTypes, LedgerTypes, ledger,
     PluginTypes, plugin, WorldTypes, world, NoteTypes, misc

LEMMA LaunchStep ==
    ASSUME Inv, NEW w \in Workers, NEW c \in Components, Launch(w, c)
    PROVE  Inv'
<1> DEFINE k == [job[w] EXCEPT !.at = c, !.held = TRUE, !.todo = @ \ {c},
                               !.pc = IF c \in cached THEN "begin" ELSE "translate"]
<1>1. job[w] \in Jobs /\ job[w].task \in Launches /\ job[w].pc = "next"
  BY DEF Inv, Typed, JobTypes, Launch
<1>2. k \in Jobs /\ k.pc \in LaunchPcs /\ k.at = c /\ k.held /\ k.task = job[w].task
      /\ k.of = job[w].of /\ k.pc \notin Waits
  BY <1>1 DEF Jobs, JobType, Fits, LaunchPcs, StopPcs, Pcs, Waits, Launches, Starts, Stops
<1>3. job' = [job EXCEPT ![w] = k]
  BY DEF Launch, Inv, Typed, JobTypes
<1> HIDE DEF k
<1>4. /\ JobTypes' /\ Others(w, {}) /\ job'[w] = k
      /\ \A v \in Workers \ {w} : job'[v] = job[v]
  BY <1>2, <1>3, OwnStep DEF Inv, Typed
<1>5. status' = [status EXCEPT ![c] = "starting"] /\ status \in [Components -> Statuses]
  BY DEF Launch, Inv, Typed, BenchTypes
<1>6. BusyIsHandled'
  <2>1. Serves(w, c)'
    BY <1>2, <1>4, <1>5 DEF Serves
  <2>2. \A d \in Components \ {c} : status'[d] = status[d] /\ ~Serves(w, d)
    BY <1>1, <1>5 DEF Serves, LaunchPcs, StopPcs
  <2>3. Others(w, {c})
    BY <1>4 DEF Others
  <2> QED
    BY <2>1, <2>2, <2>3, BusyStep DEF Inv, Launch
<1>7. PreparingIsStarted'
  BY <1>2, <1>4, PreparingStep DEF Inv, Launch
<1>8. ChildrenFit'
  BY <1>1, <1>4, SameChildren DEF Inv, Typed, Keep, Launch, world, Waits
<1>9. NoteTypes'
  BY DEF Launch, Inv, Typed, NoteTypes, Noted
<1> QED
  BY <1>4, <1>5, <1>6, <1>7, <1>8, <1>9 DEF Inv, Typed, Launch, BenchTypes, LedgerTypes,
     ledger, PluginTypes, plugin, WorldTypes, world, Statuses

\* A handler that is the translation of a component it no longer holds has nothing
\* to settle: whoever took the status object over has.
LEMMA TranslateStep ==
    ASSUME Inv, NEW w \in Workers, Translate(w)
    PROVE  Inv'
<1>0. PICK c : c = job[w].at
  OBVIOUS
<1>1. job[w] \in Jobs /\ job[w].task \in Launches /\ c \in Components
      /\ job[w].pc = "translate" /\ job[w].pc \in LaunchPcs /\ job[w].pc \notin Waits
  BY <1>0 DEF Inv, Typed, JobTypes, Jobs, Fits, Translate, LaunchPcs, Waits
<1>2. LedgerTypes' /\ PluginTypes' /\ WorldTypes' /\ NoteTypes'
  BY DEF Inv, Typed, Translate, LedgerTypes, ledger, PluginTypes, plugin, WorldTypes, world,
         NoteTypes, misc
<1>3. CASE /\ cached' = cached \cup {c}
           /\ job' = [job EXCEPT ![w].pc = "begin"]
           /\ UNCHANGED <<status, inFlight, preparing, pending>>
  <2> DEFINE k == [job[w] EXCEPT !.pc = "begin"]
  <2>1. k \in Jobs /\ k.pc = "begin" /\ k.at = c /\ k.task = job[w].task
        /\ k.of = job[w].of /\ k.held = job[w].held
    BY <1>0, <1>1, MovesFit DEF LaunchPcs
  <2>2. job' = [job EXCEPT ![w] = k]
    BY <1>3 DEF Inv, Typed, JobTypes
  <2> HIDE DEF k
  <2>3. /\ JobTypes' /\ Others(w, {}) /\ job'[w] = k
        /\ \A v \in Workers \ {w} : job'[v] = job[v]
    BY <2>1, <2>2, OwnStep DEF Inv, Typed
  <2>4. \A d \in Components : Serves(w, d) => Serves(w, d)'
    BY <1>0, <1>1, <1>3, <2>1, <2>3 DEF Serves, LaunchPcs, StopPcs
  <2>5. BusyIsHandled'
    BY <1>3, <2>3, <2>4, BusyStep DEF Inv, Translate, misc
  <2>6. PreparingIsStarted'
    BY <1>3, <2>1, <2>3, PreparingStep DEF Inv
  <2>7. ChildrenFit'
    BY <1>1, <2>3, SameChildren DEF Inv, Typed, Keep, Translate, world
  <2> QED
    BY <1>1, <1>2, <1>3, <2>3, <2>5, <2>6, <2>7 DEF Inv, Typed, BenchTypes, Translate
<1>4. CASE /\ status' = IF job[w].held THEN [status EXCEPT ![c] = "error"] ELSE status
           /\ job' = [job EXCEPT ![w] = Goes(w, Rest(w, status'[c]))]
           /\ Ends(w, Rest(w, status'[c]))
           /\ UNCHANGED <<inFlight, cached>>
  <2>1. PICK rest \in SUBSET Components :
           job' = [job EXCEPT ![w] = Goes(w, rest)] /\ Ends(w, rest)
    <3>1. job[w].todo \in SUBSET Components
      BY <1>1 DEF Jobs, JobType
    <3> QED
      BY <1>4, <3>1 DEF Rest
  <2>2. Goes(w, rest) \in Jobs /\ Goes(w, rest).pc \in {"next", "idle"}
    BY <1>1, GoesFits DEF Inv, Typed
  <2>3. /\ JobTypes' /\ Others(w, {}) /\ job'[w] = Goes(w, rest)
        /\ \A v \in Workers \ {w} : job'[v] = job[v]
    BY <2>1, <2>2, OwnStep DEF Inv, Typed
  <2>4. /\ PreparingIsStarted' /\ preparing' \subseteq Benches
        /\ pending' \in [Plugins -> SUBSET (Numbers \X Names)]
    BY <1>1, <2>1, <2>3, EndsStep DEF Inv, Typed
  <2>5. status' \in [Components -> Statuses]
        /\ \A d \in Components : /\ status'[d] = status[d] \/ status'[d] = "error"
                                 /\ Serves(w, d) => status'[d] = "error"
    BY <1>0, <1>1, <1>4 DEF Inv, Typed, BenchTypes, Statuses, Serves, StopPcs
  <2>6. BusyIsHandled'
    <3>1. \A d \in Components : status'[d] \in Busy => /\ status'[d] = status[d]
                                                     /\ ~Serves(w, d)
      BY <2>5 DEF Busy
    <3> QED
      BY <2>3, <3>1, BusyStep DEF Inv, Translate, misc
  <2>7. ChildrenFit'
    BY <1>1, <2>3, SameChildren DEF Inv, Typed, Keep, Translate, world
  <2> QED
    BY <1>2, <1>4, <2>3, <2>4, <2>5, <2>6, <2>7 DEF Inv, Typed, BenchTypes, Translate
<1> QED
  BY <1>0, <1>3, <1>4 DEF Translate

\* What LaunchedStep and GoonStep give a step of w.
Settled(w, jobs) == /\ Handling'
                    /\ \A v \in Workers \ {w} : job'[v].pc = jobs[v].pc

LEMMA LaunchedSettles ==
    ASSUME Inv, NEW w \in Workers, NEW jobs, Like(w, jobs), job[w].pc \in LaunchPcs,
           NEW s \in Statuses \ Busy, Launched(w, jobs, s)
    PROVE  Settled(w, jobs) /\ job'[w].pc \notin Waits
<1>0. PICK c : c = job[w].at
  OBVIOUS
<1> QED
  BY <1>0, LaunchedStep DEF Inv, Settled, Handling, Waits

LEMMA GoonSettles ==
    ASSUME Inv, NEW w \in Workers, NEW jobs, Like(w, jobs), job[w].pc \in LaunchPcs,
           jobs[w].pc \in LaunchPcs, jobs[w].at = job[w].at,
           jobs[w].task = job[w].task, jobs[w].of = job[w].of,
           NEW p \in LaunchPcs \ {"translate"}, Goon(w, jobs, p)
    PROVE  Settled(w, jobs) /\ job'[w].pc = p
<1>0. PICK c : c = job[w].at
  OBVIOUS
<1> QED
  BY <1>0, GoonStep DEF Inv, Settled, Handling

\* The children when nothing starts or ends.
LEMMA SettledIdle ==
    ASSUME Inv, NEW w \in Workers, Settled(w, job), job[w].pc \notin Waits,
           UNCHANGED <<child, alive>>
    PROVE  ChildrenFit'
BY SameChildren DEF Inv, Typed, Settled, Keep

LEMMA SettledRun ==
    ASSUME Inv, NEW w \in Workers, Settled(w, job), job[w].pc \notin Waits,
           job'[w].pc \in Waits, NEW id \in Ids, NEW c \in Components,
           runProcess(id, c, w), UNCHANGED container
    PROVE  ChildrenFit' /\ WorldTypes'
BY RunChild DEF Inv, Typed, Settled, Keep, WorldTypes

LEMMA BeginStep ==
    ASSUME Inv, NEW w \in Workers, Begin(w)
    PROVE  Inv'
<1>0. PICK c : c = job[w].at
  OBVIOUS
<1> DEFINE jobs == [job EXCEPT ![w].fresh = (c \notin complete)]
<1>1. job[w] \in Jobs /\ c \in Components /\ job[w].pc = "begin"
      /\ job[w].pc \in LaunchPcs /\ job[w].pc \notin Waits
  BY <1>0 DEF Inv, Typed, JobTypes, Jobs, Fits, Begin, LaunchPcs, Waits
<1>2. /\ Like(w, jobs) /\ jobs[w].pc = job[w].pc /\ jobs[w].at = job[w].at
      /\ jobs[w].task = job[w].task /\ jobs[w].of = job[w].of
      /\ \A v \in Workers \ {w} : jobs[v] = job[v]
  <2>1. [job[w] EXCEPT !.fresh = (c \notin complete)] \in Jobs
    BY <1>1 DEF Jobs, JobType, Fits
  <2>2. job \in [Workers -> Jobs]
    BY DEF Inv, Typed, JobTypes
  <2> QED
    BY <2>1, <2>2 DEF Like, Kept, Jobs, JobType
<1>3. c \in Components /\ Key(c) \in Keys /\ Main(c) \in Ids /\ Before(c) \in Ids
  BY <1>1, Parts DEF Inv, Typed, NoteTypes
<1>4. PICK p \in {"up", "before", "spawn", "run"} :
        /\ Goon(w, jobs, p)
        /\ \/ UNCHANGED <<processIds, child, alive>>
           \/ p \in Waits /\ \E id \in Ids : recordProcess(Key(c), id) /\ runProcess(id, c, w)
  BY <1>0, <1>3 DEF Begin, Waits
<1>5. UNCHANGED <<composeProjects, container>>
  BY DEF Begin
<1>6. p \in LaunchPcs \ {"translate"}
  BY DEF LaunchPcs
<1> HIDE DEF jobs
<1>7. Settled(w, jobs) /\ job'[w].pc = p
  BY <1>1, <1>2, <1>4, <1>6, GoonSettles
<1>8. Settled(w, job)
  BY <1>2, <1>7 DEF Settled
<1>9. LedgerTypes'
  <2>1. CASE UNCHANGED processIds
    BY <1>5, <2>1 DEF Inv, Typed, LedgerTypes
  <2>2. ASSUME NEW id \in Ids, recordProcess(Key(c), id)
        PROVE  processIds' \in [Keys -> SUBSET Ids]
    BY <1>3, <2>2 DEF Inv, Typed, LedgerTypes, recordProcess
  <2> QED
    BY <1>4, <1>5, <2>1, <2>2 DEF Inv, Typed, LedgerTypes
<1>10. ChildrenFit' /\ WorldTypes'
  <2>1. CASE UNCHANGED <<child, alive>>
    BY <1>1, <1>5, <1>8, <2>1, SettledIdle DEF Inv, Typed, WorldTypes
  <2>2. ASSUME p \in Waits, NEW id \in Ids, runProcess(id, c, w)
        PROVE  ChildrenFit' /\ WorldTypes'
    BY <1>1, <1>3, <1>5, <1>7, <1>8, <2>2, SettledRun
  <2> QED
    BY <1>4, <2>1, <2>2
<1> QED
  BY <1>7, <1>9, <1>10 DEF Settled, Inv, Handling, Typed

LEMMA ComesUpStep ==
    ASSUME Inv, NEW w \in Workers, ComesUp(w)
    PROVE  Inv'
<1>1. job[w].at \in Components
  BY DEF Inv, Typed, JobTypes, Jobs, Fits, ComesUp, LaunchPcs
<1>2. WorldTypes'
  BY <1>1 DEF Inv, Typed, WorldTypes, ComesUp
<1>3. Handling' /\ LedgerTypes'
  BY DEF Inv, Typed, ComesUp, Handling, BenchTypes, benchVars, LedgerTypes, ledger, PluginTypes,
         plugin, NoteTypes, misc, JobTypes, BusyIsHandled, PreparingIsStarted
<1>4. ChildrenFit'
  BY DEF Inv, ComesUp, ChildrenFit
<1> QED
  BY <1>2, <1>3, <1>4 DEF Inv, Typed, Handling

LEMMA UpStep ==
    ASSUME Inv, NEW w \in Workers, Up(w)
    PROVE  Inv'
<1>0. PICK c : c = job[w].at
  OBVIOUS
<1>1. c \in Components /\ job[w].pc \in LaunchPcs /\ job[w].pc \notin Waits
  BY <1>0 DEF Inv, Typed, JobTypes, Jobs, Fits, Up, LaunchPcs, Waits
<1>2. Like(w, job)
  BY JobIsLike DEF Inv, Typed
<1>3. Key(c) \in Keys /\ BenchOf(c) \in Benches
  BY <1>1, Parts DEF Inv, Typed, NoteTypes
<1>4. UNCHANGED <<processIds, world>>
  BY DEF Up
<1>5. Settled(w, job) /\ composeProjects' \in [Keys -> SUBSET Benches]
  <2>1. CASE recordComposeProject(Key(c), BenchOf(c)) /\ Goon(w, job, "health")
    <3>1. Settled(w, job)
      BY <1>1, <1>2, <2>1, GoonSettles DEF LaunchPcs
    <3> QED
      BY <1>3, <2>1, <3>1 DEF Inv, Typed, LedgerTypes, recordComposeProject
  <2>2. CASE Launched(w, job, "error") /\ UNCHANGED composeProjects
    <3>1. "error" \in Statuses \ Busy
      BY DEF Statuses, Busy
    <3> QED
      BY <1>1, <1>2, <2>2, <3>1, LaunchedSettles DEF Inv, Typed, LedgerTypes
  <2> QED
    BY <1>0, <2>1, <2>2 DEF Up
<1>6. ChildrenFit' /\ WorldTypes'
  BY <1>1, <1>4, <1>5, SettledIdle DEF world, Inv, Typed, WorldTypes
<1> QED
  BY <1>4, <1>5, <1>6 DEF Settled, LedgerTypes, Inv, Typed, Handling

LEMMA HealthStep ==
    ASSUME Inv, NEW w \in Workers, Health(w)
    PROVE  Inv'
<1>0. PICK c : c = job[w].at
  OBVIOUS
<1>1. c \in Components /\ job[w].pc \in LaunchPcs /\ job[w].pc \notin Waits
  BY <1>0 DEF Inv, Typed, JobTypes, Jobs, Fits, Health, LaunchPcs, Waits
<1>2. Like(w, job)
  BY JobIsLike DEF Inv, Typed
<1>3. Key(c) \in Keys /\ Before(c) \in Ids
  BY <1>1, Parts DEF Inv, Typed, NoteTypes
<1>4. UNCHANGED <<composeProjects, container>>
  BY DEF Health
<1>5. CASE /\ recordProcess(Key(c), Before(c)) /\ runProcess(Before(c), c, w)
           /\ Goon(w, job, "before")
  <2>1. Settled(w, job) /\ job'[w].pc = "before"
    BY <1>1, <1>2, <1>5, GoonSettles DEF LaunchPcs
  <2>2. ChildrenFit' /\ WorldTypes'
    BY <1>1, <1>3, <1>4, <1>5, <2>1, SettledRun DEF Waits
  <2>3. LedgerTypes'
    BY <1>3, <1>4, <1>5 DEF Inv, Typed, LedgerTypes, recordProcess
  <2> QED
    BY <2>1, <2>2, <2>3 DEF Settled, Inv, Typed, Handling
<1>6. ASSUME NEW s \in {"running", "error"}, Launched(w, job, s),
             UNCHANGED <<processIds, child, alive>>
      PROVE  Inv'
  <2>1. Settled(w, job)
    <3>1. s \in Statuses \ Busy
      BY DEF Statuses, Busy
    <3> QED
      BY <1>1, <1>2, <1>6, <3>1, LaunchedSettles
  <2>2. ChildrenFit' /\ WorldTypes' /\ LedgerTypes'
    BY <1>1, <1>4, <1>6, <2>1, SettledIdle DEF Inv, Typed, WorldTypes, LedgerTypes
  <2> QED
    BY <2>1, <2>2 DEF Settled, Inv, Typed, Handling
<1> QED
  BY <1>0, <1>5, <1>6 DEF Health

LEMMA AfterStep ==
    ASSUME Inv, NEW w \in Workers, job[w].pc \in LaunchPcs, NEW ok \in BOOLEAN,
           After(w, job, ok)
    PROVE  Settled(w, job)
<1>1. Like(w, job)
  BY JobIsLike DEF Inv, Typed
<1>2. {"error", "running", "completed"} \subseteq Statuses \ Busy
      /\ "spawn" \in LaunchPcs \ {"translate"}
  BY DEF Statuses, Busy, LaunchPcs
<1>3. \/ \E s \in {"error", "running", "completed"} : Launched(w, job, s)
      \/ Goon(w, job, "spawn")
  BY DEF After
<1> QED
  BY <1>1, <1>2, <1>3, LaunchedSettles, GoonSettles

LEMMA CommandEndsStep ==
    ASSUME Inv, NEW w \in Workers, NEW ok \in BOOLEAN, CommandEnds(w, ok)
    PROVE  Inv'
<1>1. job[w].pc \in LaunchPcs
  BY DEF CommandEnds, LaunchPcs
<1>2. Settled(w, job) /\ UNCHANGED <<ledger, container>>
  BY <1>1, AfterStep DEF CommandEnds
<1>3. PICK k \in alive : k.by = w /\ exits(k)
  BY DEF CommandEnds
<1>4. ChildrenFit' /\ WorldTypes'
  BY <1>2, <1>3, ExitChild DEF Inv, Typed, Settled, WorldTypes
<1> QED
  BY <1>2, <1>4 DEF Settled, ledger, LedgerTypes, Inv, Typed, Handling

LEMMA KilledEndsStep ==
    ASSUME Inv, NEW w \in Workers, NEW ok \in BOOLEAN, KilledEnds(w, ok)
    PROVE  Inv'
<1>1. job[w].pc \in LaunchPcs /\ job[w].pc \notin Waits
  BY DEF KilledEnds, LaunchPcs, Waits
<1>2. Settled(w, job) /\ UNCHANGED <<ledger, world>>
  BY <1>1, AfterStep DEF KilledEnds
<1>3. ChildrenFit'
  BY <1>1, <1>2, SettledIdle DEF world
<1> QED
  BY <1>2, <1>3 DEF Settled, ledger, LedgerTypes, world, WorldTypes, Inv, Typed,
     Handling

LEMMA SpawnStep ==
    ASSUME Inv, NEW w \in Workers, Spawn(w)
    PROVE  Inv'
<1>0. PICK c : c = job[w].at
  OBVIOUS
<1> DEFINE jobs == Killed(job, Main(c))
<1>1. c \in Components /\ job[w].pc \in LaunchPcs /\ job[w].pc \notin Waits
  BY <1>0 DEF Inv, Typed, JobTypes, Jobs, Fits, Spawn, LaunchPcs, Waits
<1>2. Key(c) \in Keys /\ Main(c) \in Ids
  BY <1>1, Parts DEF Inv, Typed, NoteTypes
<1>3. /\ Like(w, jobs)
      /\ \A v \in Workers : WorkerOf(Main(c), v) \/ jobs[v] = job[v]
  <2>1. IsAlive(Main(c)) /\ child[Main(c)].by \in Workers => job[child[Main(c)].by].pc \in Waits
    BY <1>2, ComponentParameters DEF Inv, ChildrenFit, IsAlive
  <2>2. WorldTypes /\ job \in [Workers -> Jobs]
    BY DEF Inv, Typed, JobTypes
  <2> QED
    BY <1>2, <2>1, <2>2, KilledFits DEF Like, WorkerOf
<1>4. UNCHANGED <<composeProjects, container>>
  BY DEF Spawn
<1>5. \/ /\ startProcess(Main(c), c) /\ recordProcess(Key(c), Main(c))
         /\ Launched(w, jobs, "running")
      \/ /\ stopProcess(Main(c)) /\ Launched(w, jobs, "error")
         /\ UNCHANGED processIds
  BY <1>0 DEF Spawn
<1> HIDE DEF jobs
<1>6. Settled(w, jobs)
  <2>1. {"error", "running"} \subseteq Statuses \ Busy
    BY DEF Statuses, Busy
  <2> QED
    BY <1>1, <1>3, <1>5, <2>1, LaunchedSettles
<1>7. KeepBut(w, Main(c))
  BY <1>3, <1>6 DEF KeepBut, Settled
<1>8. ChildrenFit' /\ WorldTypes'
  BY <1>1, <1>2, <1>4, <1>5, <1>7, StopChild, StartChild DEF Inv, Typed, WorldTypes
<1>9. LedgerTypes'
  BY <1>2, <1>4, <1>5 DEF Inv, Typed, LedgerTypes, recordProcess
<1> QED
  BY <1>6, <1>8, <1>9 DEF Settled, Inv, Typed, Handling

-----------------------------------------------------------------------------
(* Stops *)

\* The stop of the next component, by a handler that settles nothing yet.
LEMMA StoppingStep ==
    ASSUME Inv, NEW w \in Workers, NEW j \in JobType, NEW c \in Components, Stopping(w, j, c),
           j.task \in Stops, j.of \in Benches,
           job[w].pc \in {"idle", "next"}, job[w].task \notin Starts
    PROVE  Inv'
<1> DEFINE K(up, p) == [j EXCEPT !.at = c, !.held = TRUE, !.todo = @ \ {c},
                                 !.bound = up, !.pc = p]
<1>0. PICK up \in BOOLEAN, p \in {"composeStop", "stopping"} :
        job' = [job EXCEPT ![w] = K(up, p)]
  <2> DEFINE u == Of(c) \in connected
             q == IF c \in cached' /\ Kind(c) = "docker" THEN "composeStop" ELSE "stopping"
  <2>1. job' = [job EXCEPT ![w] = K(u, q)]
    BY DEF Stopping
  <2>2. u \in BOOLEAN /\ q \in {"composeStop", "stopping"}
    OBVIOUS
  <2> HIDE DEF u, q, K
  <2> QED
    BY <2>1, <2>2
<1> DEFINE k == K(up, p)
<1>1. k \in Jobs /\ k.at = c /\ k.held /\ k.pc \in StopPcs /\ k.task = j.task
  <2>1. /\ k.at = c /\ k.held = TRUE /\ k.pc \in {"composeStop", "stopping"}
        /\ k.task = j.task /\ k.of = j.of
    BY DEF JobType
  <2>2. k \in JobType
    BY DEF JobType, Pcs
  <2>3. Fits(k)
    BY <2>1 DEF Fits, LaunchPcs, StopPcs, Starts, Stops, Launches
  <2> QED
    BY <2>1, <2>2, <2>3 DEF Jobs, StopPcs
<1>2. job' = [job EXCEPT ![w] = k]
  BY <1>0
<1> HIDE DEF k
<1>3. /\ JobTypes' /\ Others(w, {}) /\ job'[w] = k
      /\ \A v \in Workers \ {w} : job'[v] = job[v]
  BY <1>1, <1>2, OwnStep DEF Inv, Typed
<1>4. status' = [status EXCEPT ![c] = "stopping"] /\ status \in [Components -> Statuses]
  BY DEF Stopping, Inv, Typed, BenchTypes
<1>5. BusyIsHandled'
  <2>1. Serves(w, c)'
    BY <1>1, <1>3, <1>4 DEF Serves
  <2>2. \A d \in Components \ {c} : status'[d] = status[d] /\ ~Serves(w, d)
    BY <1>4 DEF Serves, LaunchPcs, StopPcs
  <2>3. Others(w, {c})
    BY <1>3 DEF Others
  <2> QED
    BY <2>1, <2>2, <2>3, BusyStep DEF Inv, Stopping
<1>6. PreparingIsStarted'
  BY <1>3, PreparingStep DEF Inv, Stopping
<1>7. ChildrenFit'
  BY <1>3, SameChildren DEF Inv, Typed, Keep, Stopping, world, Waits
<1>8. NoteTypes'
  BY DEF Stopping, Inv, Typed, NoteTypes, Noted
<1>9. BenchTypes'
  BY <1>4 DEF Stopping, Inv, Typed, BenchTypes, Statuses
<1> QED
  BY <1>3, <1>5, <1>6, <1>7, <1>8, <1>9 DEF Inv, Typed, Stopping, LedgerTypes, ledger,
     PluginTypes, plugin, WorldTypes, world

LEMMA StopStep ==
    ASSUME Inv, NEW w \in Workers, NEW b \in Benches, NEW S \in SUBSET Components,
           NEW t \in Stops, Stop(w, b, S, t)
    PROVE  Inv'
<1> DEFINE j == [Idle EXCEPT !.task = t, !.of = b, !.todo = S]
<1>1. j \in JobType /\ j.task = t /\ j.of = b
  BY DEF Idle, JobType, Tasks, Pcs, Stops
<1>2. job[w].pc = "idle" /\ job[w].task \notin Starts
  BY DEF Stop, Inv, Typed, JobTypes, Jobs, Fits, Starts
<1>3. PICK c \in S : Stopping(w, j, c)
  BY DEF Stop
<1> HIDE DEF j
<1> QED
  BY <1>1, <1>2, <1>3, StoppingStep

LEMMA StopNextStep ==
    ASSUME Inv, NEW w \in Workers, NEW c \in Components, StopNext(w, c)
    PROVE  Inv'
<1>1. job[w] \in JobType /\ job[w].task \in Stops /\ job[w].of \in Benches
      /\ job[w].pc \in {"idle", "next"} /\ job[w].task \notin Starts
  BY DEF StopNext, Inv, Typed, JobTypes, Jobs, Fits, Stops, Starts
<1> QED
  BY <1>1, StoppingStep DEF StopNext

LEMMA ComposeStoppedStep ==
    ASSUME Inv, NEW w \in Workers, ComposeStopped(w)
    PROVE  Inv'
<1> DEFINE k == [job[w] EXCEPT !.pc = "composed"]
<1>1. job[w] \in Jobs /\ job[w].pc = "composeStop"
  BY DEF Inv, Typed, JobTypes, ComposeStopped
<1>2. k \in Jobs /\ k.pc = "composed" /\ k.at = job[w].at /\ k.task = job[w].task
      /\ k.of = job[w].of /\ k.held = job[w].held
  BY <1>1, MovesFit DEF StopPcs
<1>3. job' = [job EXCEPT ![w] = k]
  BY DEF ComposeStopped, Inv, Typed, JobTypes
<1> HIDE DEF k
<1>4. /\ JobTypes' /\ Others(w, {}) /\ job'[w] = k
      /\ \A v \in Workers \ {w} : job'[v] = job[v]
  BY <1>2, <1>3, OwnStep DEF Inv, Typed
<1>5. BusyIsHandled'
  <2>1. \A d \in Components : Serves(w, d) => Serves(w, d)'
    BY <1>1, <1>2, <1>4 DEF Serves, ComposeStopped, benchVars, LaunchPcs, StopPcs
  <2> QED
    BY <1>4, <2>1, BusyStep DEF Inv, ComposeStopped, benchVars, misc
<1>6. PreparingIsStarted'
  BY <1>2, <1>4, PreparingStep DEF Inv, ComposeStopped, benchVars
<1>7. ChildrenFit'
  BY <1>1, <1>4, SameChildren DEF Inv, Typed, Keep, ComposeStopped, Waits
<1> QED
  BY <1>4, <1>5, <1>6, <1>7 DEF Inv, Typed, ComposeStopped, BenchTypes, benchVars, LedgerTypes,
     ledger, PluginTypes, plugin, WorldTypes, NoteTypes, misc

LEMMA StoppedStep ==
    ASSUME Inv, NEW w \in Workers, Stopped(w)
    PROVE  Inv'
<1>0. PICK c : c = job[w].at
  OBVIOUS
<1> DEFINE jobs == IF job[w].bound THEN Killed(job, Main(c)) ELSE job
<1>1. job[w] \in Jobs /\ c \in Components /\ job[w].task \in Stops /\ job[w].pc \in StopPcs
      /\ job[w].pc \notin Waits /\ job[w].todo \in SUBSET Components
  BY <1>0 DEF Inv, Typed, JobTypes, Jobs, JobType, Fits, Stopped, StopPcs, Waits
<1>2. Main(c) \in Ids
  BY <1>1, Parts DEF Inv, Typed, NoteTypes
<1>3. /\ jobs \in [Workers -> Jobs]
      /\ \A v \in Workers : /\ Kept(job[v], jobs[v]) /\ jobs[v].held = job[v].held
                            /\ (job[w].bound /\ WorkerOf(Main(c), v)) \/ jobs[v] = job[v]
  <2>1. IsAlive(Main(c)) /\ child[Main(c)].by \in Workers => job[child[Main(c)].by].pc \in Waits
    BY <1>2, ComponentParameters DEF Inv, ChildrenFit, IsAlive
  <2>2. WorldTypes /\ job \in [Workers -> Jobs]
    BY DEF Inv, Typed, JobTypes
  <2>3. CASE job[w].bound
    BY <1>2, <2>1, <2>2, <2>3, KilledFits DEF WorkerOf
  <2>4. CASE ~job[w].bound
    BY <2>2, <2>4 DEF Kept
  <2> QED
    BY <2>3, <2>4
<1> DEFINE k == Goes(w, job[w].todo)
<1>4. k \in Jobs /\ k.pc \in {"next", "idle"}
  BY <1>1, GoesFits DEF Inv, Typed
<1>5. job' = [jobs EXCEPT ![w] = k]
  BY <1>0 DEF Stopped
<1>6. IF job[w].bound THEN stopProcess(Main(c)) ELSE UNCHANGED <<child, alive>>
  BY <1>0 DEF Stopped
<1> HIDE DEF jobs, k
<1>7. /\ JobTypes' /\ job'[w] = k /\ Others(w, {c})
      /\ \A v \in Workers \ {w} : job'[v] = jobs[v]
  BY <1>3, <1>4, <1>5 DEF JobTypes, Others
<1>8. /\ status' \in [Components -> Statuses]
      /\ \A d \in Components : /\ status'[d] \in {status[d], "stopped"}
                               /\ d # c \/ ~job[w].held => status'[d] = status[d]
                               /\ d = c /\ job[w].held => status'[d] = "stopped"
      /\ inFlight' \subseteq Components
  BY <1>0 DEF Stopped, ReadsStopped, Report, Inv, Typed, BenchTypes, Statuses
<1>9. BusyIsHandled'
  <2>1. \A d \in Components : status'[d] \in Busy => status'[d] = status[d] /\ ~Serves(w, d)
    BY <1>0, <1>1, <1>8 DEF Serves, Busy, LaunchPcs, StopPcs
  <2>2. Others(w, {})
    BY <1>3, <1>7 DEF Others
  <2> QED
    BY <2>1, <2>2, BusyStep DEF Inv, Stopped
<1>10. PreparingIsStarted'
  BY <1>1, <1>7, PreparingStep DEF Inv, Stopped, Stops, Starts
<1>11. ChildrenFit' /\ WorldTypes'
  <2>1. CASE job[w].bound
    <3>1. KeepBut(w, Main(c))
      BY <1>3, <1>7 DEF KeepBut
    <3> QED
      BY <1>1, <1>2, <1>6, <2>1, <3>1, StopChild DEF Inv, Typed, WorldTypes, Stopped
  <2>2. CASE ~job[w].bound
    <3>1. Keep(w)
      BY <1>3, <1>7, <2>2 DEF Keep
    <3> QED
      BY <1>1, <1>6, <2>2, <3>1, SameChildren DEF Inv, Typed, WorldTypes, Stopped
  <2> QED
    BY <2>1, <2>2
<1>12. LedgerTypes'
  BY DEF Stopped, Inv, Typed, LedgerTypes
<1>13. NoteTypes'
  <2>1. crossed' \in {crossed, crossed \cup Noted(Misread(c))}
    BY <1>0 DEF Stopped
  <2>2. Noted(Misread(c)) \subseteq Components
    BY DEF Noted, Misread, Inv, Typed, NoteTypes
  <2> QED
    BY <2>1, <2>2 DEF Stopped, Inv, Typed, NoteTypes
<1> QED
  BY <1>7, <1>8, <1>9, <1>10, <1>11, <1>12, <1>13 DEF Inv, Typed, Stopped, BenchTypes, PluginTypes,
     plugin

-----------------------------------------------------------------------------
(* The poll, the world and the plugin manager, where no handler moves *)

LEMMA PollShows ==
    ASSUME Typed, NEW S, Poll(S), NEW c \in Components
    PROVE  /\ status'[c] \in {status[c], "running", "starting", "stopped"}
           /\ status'[c] = "starting" =>
                c \in polled' \/ (status[c] = "starting" /\ c \notin polled)
           /\ Kind(c) # "docker" =>
                /\ status'[c] \in {status[c], "running", "stopped"}
                /\ status'[c] = "stopped" => status[c] = "stopped" \/ ~IsAlive(Main(c))
           /\ status'[c] = "stopped" /\ c \in container =>
                c \in polled' \/ (status[c] = "stopped" /\ c \notin polled)
<1>1. PICK h \in [S -> FromHealth] :
        status' = [d \in Components |-> IF Polls(d) THEN Shows(d, S, h) ELSE status[d]]
  BY DEF Poll
<1>2. status'[c] = IF Polls(c) THEN Shows(c, S, h) ELSE status[c]
  BY <1>1
<1>3. c \in S => h[c] \in {"running", "starting", "stopped"}
  BY DEF FromHealth
<1>4. /\ status'[c] \in {status[c], "running", "starting", "stopped"}
      /\ Kind(c) # "docker" =>
           /\ status'[c] \in {status[c], "running", "stopped"}
           /\ status'[c] = "stopped" => status[c] = "stopped" \/ ~IsAlive(Main(c))
  BY <1>2, <1>3 DEF Shows, IsUp
<1>5. c \in polled' <=>
         \/ status'[c] = "starting" /\ (status[c] # "starting" \/ c \in polled)
         \/ status'[c] = "stopped" /\ (c \in polled \/ (status[c] # "stopped" /\ c \in container))
  BY DEF Poll
<1> QED
  BY <1>4, <1>5

\* The poll replaces no status object and leaves a busy component to its handler.
LEMMA PollStep ==
    ASSUME Inv, NEW S, Poll(S)
    PROVE  Inv'
<1>1. UNCHANGED <<inFlight, complete, cached, preparing, pending, ledger, plugin, world, job,
                  config, faults, escaped, crossed, unbound>>
  BY DEF Poll
<1>2. \A c \in Components : /\ status'[c] \in {status[c], "running", "starting", "stopped"}
                            /\ status'[c] = "starting" /\ c \notin polled' => ~Shown(c)
                                 /\ status[c] = "starting"
  BY PollShows DEF Inv, Shown
<1>3. status' \in [Components -> Statuses]
  <2>1. PICK f : status' = [c \in Components |-> f[c]]
    <3>1. PICK h \in [S -> FromHealth] :
            status' = [d \in Components |-> IF Polls(d) THEN Shows(d, S, h) ELSE status[d]]
      BY DEF Poll
    <3> QED
      BY <3>1
  <2> QED
    BY <1>2, <2>1 DEF Inv, Typed, BenchTypes, Statuses
<1>4. BenchTypes'
  BY <1>1, <1>3 DEF Inv, Typed, BenchTypes
<1>5. BusyIsHandled'
  BY <1>1, <1>2 DEF Inv, BusyIsHandled, Shown
<1>6. PreparingIsStarted' /\ ChildrenFit'
  BY <1>1 DEF Inv, PreparingIsStarted, ChildrenFit, world
<1>7. NoteTypes'
  BY <1>1 DEF Poll, Inv, Typed, NoteTypes
<1> QED
  BY <1>1, <1>4, <1>5, <1>6, <1>7
     DEF Inv, Typed, LedgerTypes, ledger, PluginTypes, plugin, WorldTypes, world, JobTypes

LEMMA PollReadsStep ==
    ASSUME Inv, PollReads
    PROVE  Inv'
<1>1. NoteTypes'
  BY DEF PollReads, Inv, Typed, NoteTypes, WorldTypes
<1>2. UNCHANGED <<benchVars, ledger, plugin, world, job, polled>>
  BY DEF PollReads
<1> QED
  BY <1>1, <1>2 DEF Inv, Typed, BenchTypes, benchVars, LedgerTypes, ledger, PluginTypes, plugin,
     WorldTypes, world, JobTypes, ChildrenFit, BusyIsHandled, PreparingIsStarted

LEMMA PollResolvesStep ==
    ASSUME Inv, NEW c \in Components, PollResolves(c)
    PROVE  Inv'
BY DEF PollResolves, misc, Inv, Typed, BenchTypes, LedgerTypes, ledger, PluginTypes, plugin,
   WorldTypes, world, NoteTypes, JobTypes, ChildrenFit, BusyIsHandled, PreparingIsStarted

LEMMA DiesStep ==
    ASSUME Inv, NEW c \in Components, Dies(c)
    PROVE  Inv'
<1>1. Handling' /\ LedgerTypes'
  BY DEF Inv, Typed, Dies, Handling, BenchTypes, benchVars, LedgerTypes, ledger, PluginTypes,
         plugin, NoteTypes, misc, JobTypes, BusyIsHandled, PreparingIsStarted
<1>2. ChildrenFit' /\ WorldTypes'
  <2>1. CASE /\ Kid(Main(c), c, None) \in alive
             /\ exits(Kid(Main(c), c, None))
             /\ UNCHANGED container
    <3> DEFINE k == Kid(Main(c), c, None)
    <3>1. k \in alive /\ exits(k)
      BY <2>1
    <3> HIDE DEF k
    <3>2. \A v \in Workers : job[v].pc \in Waits => job'[v].pc \in Waits
      BY DEF Dies
    <3> QED
      BY <2>1, <3>1, <3>2, ExitChild DEF Inv, Typed, WorldTypes
  <2>2. CASE container' = container \ {c} /\ UNCHANGED <<child, alive>>
    BY <2>2 DEF Inv, Typed, WorldTypes, ChildrenFit, Dies
  <2> QED
    BY <2>1, <2>2 DEF Dies
<1> QED
  BY <1>1, <1>2 DEF Inv, Typed, Handling

LEMMA PluginStep ==
    ASSUME Inv, NEW g \in Plugins, Respawn(g) \/ Disable(g) \/ Enable(g) \/ RollsBack(g)
    PROVE  Inv'
<1>1. UNCHANGED <<benchVars, ledger, world, job, config, listings, faults, escaped, unbound,
                  polled>>
  BY DEF Respawn, Disable, Enable, RollsBack, misc
<1>2. PluginTypes'
  BY DEF Respawn, Disable, Enable, RollsBack, plugin, Inv, Typed, PluginTypes
<1>3. crossed' \subseteq Components
  BY DEF Respawn, Disable, Enable, RollsBack, Inv, Typed, NoteTypes, misc, Noted, Interrupted
<1> QED
  BY <1>1, <1>2, <1>3 DEF Inv, Typed, BenchTypes, benchVars, LedgerTypes, ledger, WorldTypes,
     world, NoteTypes, JobTypes, ChildrenFit, BusyIsHandled, PreparingIsStarted

-----------------------------------------------------------------------------
(* Crashes and what reaps after them *)

LEMMA EntriesFit ==
    ASSUME LedgerTypes
    PROVE  getAllEntries \subseteq Entries
BY DEF LedgerTypes, getAllEntries, Entries

Cleaning(g, E) == [Idle EXCEPT !.task = "cleanup", !.pc = "reap", !.of = g, !.entries = E]
Sweeping(E) == [Idle EXCEPT !.task = "sweep", !.pc = "reap", !.entries = E]

LEMMA ReapFits ==
    ASSUME NEW E \in SUBSET Entries
    PROVE  /\ \A g \in Plugins : Cleaning(g, E) \in Jobs
           /\ Sweeping(E) \in Jobs
<1>1. ASSUME NEW g \in Plugins
      PROVE  Cleaning(g, E) \in Jobs
  BY DEF Cleaning, Idle, Jobs, JobType, Fits, Tasks, Pcs, LaunchPcs, StopPcs, Starts, Stops,
         Launches
<1>2. Sweeping(E) \in Jobs
  BY DEF Sweeping, Idle, Jobs, JobType, Fits, Tasks, Pcs, LaunchPcs, StopPcs, Starts, Stops,
         Launches
<1> QED
  BY <1>1, <1>2

LEMMA RestartedStep ==
    ASSUME Inv, NEW g \in Plugins, NEW w \in Workers, Restarted(g, w)
    PROVE  Inv'
<1> DEFINE T == {c \in Components : Of(c) = g}
           k == [Idle EXCEPT !.task = "restore", !.pc = "next", !.of = g, !.todo = T]
<1>1. k \in Jobs
  <2>1. T \in SUBSET Components
    OBVIOUS
  <2> HIDE DEF T
  <2> QED
    BY <2>1 DEF Idle, Jobs, JobType, Fits, Tasks, Pcs, LaunchPcs, StopPcs, Starts, Stops, Launches
<1>2. job' = [job EXCEPT ![w] = k] /\ job[w].task = "none"
      /\ UNCHANGED <<benchVars, ledger, connected, backoff, world, misc>> /\ due' = due \ {g}
  BY DEF Restarted
<1> HIDE DEF k
<1>3. /\ JobTypes' /\ Others(w, {}) /\ job'[w] = k
      /\ \A v \in Workers \ {w} : job'[v] = job[v]
  BY <1>1, <1>2, OwnStep DEF Inv, Typed
<1>4. job[w].pc = "idle"
  BY <1>2 DEF Inv, Typed, JobTypes, Jobs, Fits
<1>5. BusyIsHandled'
  BY <1>2, <1>3, <1>4, BusyStep DEF Inv, benchVars, misc, Serves, LaunchPcs, StopPcs
<1>6. PreparingIsStarted'
  BY <1>2, <1>3, PreparingStep DEF Inv, benchVars, Starts
<1>7. ChildrenFit'
  BY <1>2, <1>3, <1>4, SameChildren DEF Inv, Typed, Keep, world, Waits
<1> QED
  BY <1>2, <1>3, <1>5, <1>6, <1>7 DEF Inv, Typed, BenchTypes, benchVars, LedgerTypes, ledger,
     PluginTypes, WorldTypes, world, NoteTypes, misc

LEMMA PluginCrashesStep ==
    ASSUME Inv, NEW g \in Plugins, NEW w \in Workers, NEW again \in BOOLEAN,
           PluginCrashes(g, w, again)
    PROVE  Inv'
<1>0. PICK S : S = Crashed(g)
  OBVIOUS
<1> DEFINE k == Reaper(g)
<1>1. k \in Jobs
  <2> DEFINE E == {e \in getAllEntries : e.key[1] = g}
  <2>1. E \in SUBSET Entries
    BY EntriesFit DEF Inv, Typed
  <2>2. k = IF E = {} THEN Idle ELSE Cleaning(g, E)
    BY DEF Reaper, Cleaning
  <2> HIDE DEF E, k
  <2>3. CASE E = {}
    BY <2>2, <2>3, IdleFits
  <2>4. CASE E # {}
    BY <2>1, <2>2, <2>4, ReapFits
  <2> QED
    BY <2>3, <2>4
<1>2. Reported(w, job, S, k) /\ job[w].task = "none"
  BY <1>0 DEF PluginCrashes, Reported
<1>3. status' = [c \in Components |-> IF c \in S THEN "error" ELSE status[c]]
  BY <1>0 DEF PluginCrashes, Report
<1>4. S \subseteq Components
  BY <1>0 DEF Crashed
<1> HIDE DEF k
<1>5. job[w].pc = "idle"
  BY <1>2 DEF Inv, Typed, JobTypes, Jobs, Fits
<1>6. /\ JobTypes' /\ Others(w, S) /\ job'[w] = k
      /\ \A v \in Workers \ {w} : job'[v].pc = job[v].pc
  <2>1. JobTypes /\ Like(w, job)
    BY JobIsLike DEF Inv, Typed
  <2> QED
    BY <1>1, <1>2, <2>1, ReportStep
<1>7. BusyIsHandled'
  <2>1. \A c \in Components : c \in S => status'[c] \notin Busy
    BY <1>3 DEF Busy
  <2>2. \A c \in Components : c \notin S => status'[c] = status[c] /\ ~Serves(w, c)
    BY <1>3, <1>5 DEF Serves, LaunchPcs, StopPcs
  <2> QED
    BY <1>6, <2>1, <2>2, BusyStep DEF Inv, PluginCrashes
<1>8. PreparingIsStarted'
  BY <1>2, <1>6, PreparingStep DEF Inv, PluginCrashes, Starts
<1>9. ChildrenFit'
  BY <1>5, <1>6, SameChildren DEF Inv, Typed, Keep, PluginCrashes, world, Waits
<1>10. BenchTypes'
  <2>1. pending' \in [Plugins -> SUBSET (Numbers \X Names)]
    <3>1. Handles(Crashed(g)) \subseteq Numbers \X Names
      BY DEF Handles, Crashed, Components
    <3>2. pending' = [pending EXCEPT ![g] = IF again THEN @ \cup Handles(Crashed(g)) ELSE {}]
      BY DEF PluginCrashes
    <3> QED
      BY <3>1, <3>2 DEF Inv, Typed, BenchTypes
  <2>2. status' \in [Components -> Statuses]
    BY <1>3 DEF Inv, Typed, BenchTypes, Statuses
  <2> QED
    BY <2>1, <2>2 DEF PluginCrashes, Inv, Typed, BenchTypes
<1>11. NoteTypes'
  BY ComponentParameters DEF PluginCrashes, Inv, Typed, NoteTypes, Noted, Interrupted,
     Remains
<1> QED
  BY <1>6, <1>7, <1>8, <1>9, <1>10, <1>11 DEF Inv, Typed, PluginCrashes, LedgerTypes, ledger,
     PluginTypes, WorldTypes, world

LEMMA ReapStep ==
    ASSUME Inv, NEW w \in Workers, NEW e \in job[w].entries, Reap(w, e)
    PROVE  Inv'
<1>1. /\ job[w] \in Jobs /\ job[w].pc = "reap" /\ e \in Entries
      /\ job[w].entries \in SUBSET Entries /\ job[w].task \in {"cleanup", "sweep"}
      /\ e.key \in Keys /\ e.ids \in SUBSET Ids
  BY DEF Reap, Inv, Typed, JobTypes, Jobs, JobType, Fits, Entries
<1>2. UNCHANGED <<benchVars, plugin, misc>>
  BY DEF Reap
<1>3. ASSUME NEW E \in SUBSET Entries
      PROVE  [job[w] EXCEPT !.entries = E] \in Jobs
  BY <1>1 DEF Jobs, JobType, Fits
\* What the three cases have to show.
<1>4. ASSUME NEW k \in Jobs, NEW jobs \in [Workers -> Jobs], job' = [jobs EXCEPT ![w] = k],
             \A v \in Workers : Kept(job[v], jobs[v]) /\ jobs[v].held = job[v].held,
             LedgerTypes', WorldTypes', ChildrenFit'
      PROVE  Inv'
  <2>1. JobTypes' /\ Others(w, {})
    BY <1>4 DEF JobTypes, Others
  <2>2. BusyIsHandled'
    BY <1>1, <1>2, <2>1, BusyStep DEF Inv, benchVars, misc, Serves, LaunchPcs, StopPcs
  <2>3. PreparingIsStarted'
    BY <1>1, <1>2, <2>1, PreparingStep DEF Inv, benchVars, Starts
  <2> QED
    BY <1>2, <1>4, <2>1, <2>2, <2>3 DEF Inv, Typed, BenchTypes, benchVars, PluginTypes, plugin,
       NoteTypes, misc
<1>5. ASSUME NEW id \in e.ids, stopProcess(id), UNCHANGED <<ledger, container>>,
             job' = [Killed(job, id) EXCEPT ![w].entries =
                       (@ \ {e}) \cup {[e EXCEPT !.ids = @ \ {id}]}]
      PROVE  Inv'
  <2> DEFINE jobs == Killed(job, id)
             E == (job[w].entries \ {e}) \cup {[e EXCEPT !.ids = @ \ {id}]}
             k == [job[w] EXCEPT !.entries = E]
  <2>1. id \in Ids /\ E \in SUBSET Entries
    BY <1>1 DEF Entries
  <2>2. IsAlive(id) /\ child[id].by \in Workers => job[child[id].by].pc \in Waits
    BY <2>1, ComponentParameters DEF Inv, ChildrenFit, IsAlive
  <2>3. WorldTypes /\ job \in [Workers -> Jobs]
    BY DEF Inv, Typed, JobTypes
  <2>4. /\ jobs \in [Workers -> Jobs]
        /\ \A v \in Workers : /\ Kept(job[v], jobs[v]) /\ jobs[v].held = job[v].held
                              /\ WorkerOf(id, v) \/ jobs[v] = job[v]
    BY <2>1, <2>2, <2>3, KilledFits DEF WorkerOf
  <2>5. jobs[w] = job[w]
    BY <1>1, <2>1, <2>2, <2>4 DEF WorkerOf, Waits
  <2>6. k \in Jobs /\ job' = [jobs EXCEPT ![w] = k]
    BY <1>3, <1>5, <2>1, <2>4, <2>5
  <2> HIDE DEF jobs, k, E
  <2>7. KeepBut(w, id)
    BY <2>4, <2>6 DEF KeepBut
  <2>8. ChildrenFit' /\ WorldTypes'
    BY <1>1, <1>5, <2>1, <2>7, StopChild DEF Inv, Typed, WorldTypes, Waits
  <2>9. LedgerTypes'
    BY <1>5 DEF Inv, Typed, LedgerTypes, ledger
  <2> QED
    BY <1>4, <2>4, <2>6, <2>8, <2>9
\* In the other two no child moves.
<1>6. ASSUME NEW k \in Jobs, job' = [job EXCEPT ![w] = k], UNCHANGED <<child, alive>>,
             container' \subseteq Components, LedgerTypes'
      PROVE  Inv'
  <2>1. job \in [Workers -> Jobs] /\ \A v \in Workers : Kept(job[v], job[v])
    BY DEF Inv, Typed, JobTypes, Kept
  <2>2. ChildrenFit' /\ WorldTypes'
    BY <1>1, <1>6, <2>1, SameChildren DEF Inv, Typed, Keep, WorldTypes, Waits
  <2> QED
    BY <1>4, <1>6, <2>1, <2>2
<1>7. ASSUME NEW b \in e.projects, container' = {c \in container : BenchOf(c) # b},
             job' = [job EXCEPT ![w].entries = (@ \ {e}) \cup {[e EXCEPT !.projects = @ \ {b}]}],
             UNCHANGED <<ledger, child, alive>>
      PROVE  Inv'
  <2> DEFINE E == (job[w].entries \ {e}) \cup {[e EXCEPT !.projects = @ \ {b}]}
  <2>1. E \in SUBSET Entries
    BY <1>1 DEF Entries
  <2>2. job' = [job EXCEPT ![w] = [job[w] EXCEPT !.entries = E]]
    BY <1>7 DEF Inv, Typed, JobTypes
  <2>3. container' \subseteq Components /\ LedgerTypes'
    BY <1>7 DEF Inv, Typed, WorldTypes, LedgerTypes, ledger
  <2> HIDE DEF E
  <2> QED
    BY <1>3, <1>6, <1>7, <2>1, <2>2, <2>3
<1>8. ASSUME clearEntry(e.key), UNCHANGED world,
             job' = [job EXCEPT ![w] = IF job[w].entries = {e} THEN Idle
                       ELSE [job[w] EXCEPT !.entries = job[w].entries \ {e}]]
      PROVE  Inv'
  <2>1. LedgerTypes'
    BY <1>1, <1>8 DEF Inv, Typed, LedgerTypes, clearEntry
  <2>2. container' \subseteq Components /\ UNCHANGED <<child, alive>>
    BY <1>8 DEF Inv, Typed, WorldTypes, world
  <2>3. CASE job[w].entries = {e}
    BY <1>6, <1>8, <2>1, <2>2, <2>3, IdleFits
  <2>4. CASE job[w].entries # {e}
    <3> DEFINE E == job[w].entries \ {e}
    <3>1. E \in SUBSET Entries
      BY <1>1
    <3>2. job' = [job EXCEPT ![w] = [job[w] EXCEPT !.entries = E]]
      BY <1>8, <2>4
    <3> HIDE DEF E
    <3> QED
      BY <1>3, <1>6, <2>1, <2>2, <3>1, <3>2
  <2> QED
    BY <2>3, <2>4
<1> QED
  BY <1>5, <1>7, <1>8 DEF Reap

LEMMA HostCrashStep ==
    ASSUME Inv, NEW w \in Workers, HostCrash(w)
    PROVE  Inv'
<1>1. Sweeper \in Jobs /\ Idle \in Jobs
  <2> DEFINE E == {[e EXCEPT !.ids = {}] : e \in getAllEntries}
  <2>1. E \in SUBSET Entries
    BY EntriesFit DEF Inv, Typed, Entries
  <2>2. Sweeper = IF getAllEntries = {} THEN Idle ELSE Sweeping(E)
    BY Zenon DEF Sweeper, Sweeping
  <2> HIDE DEF E
  <2> QED
    BY <2>1, <2>2, ReapFits, IdleFits
<1>2. escaped' \subseteq Components
  BY DEF HostCrash, Noted, Inv, Typed, WorldTypes
<1>3. JobTypes'
  BY <1>1 DEF HostCrash, JobTypes
<1>4. BenchTypes' /\ PluginTypes' /\ BusyIsHandled' /\ PreparingIsStarted'
  BY DEF HostCrash, Inv, Typed, BenchTypes, PluginTypes, Statuses, BusyIsHandled,
         PreparingIsStarted
<1>5. WorldTypes' /\ ChildrenFit' /\ LedgerTypes'
  BY DEF HostCrash, Inv, Typed, WorldTypes, ChildrenFit, LedgerTypes, ledger
<1>6. NoteTypes'
  BY <1>2, ComponentParameters DEF HostCrash, Inv, Typed, NoteTypes
<1> QED
  BY <1>3, <1>4, <1>5, <1>6 DEF Inv, Typed

-----------------------------------------------------------------------------
(* The specification *)

LEMMA InitInv == Init => Inv
<1> SUFFICES ASSUME Init
             PROVE  Inv
  OBVIOUS
<1>1. JobTypes /\ \A w \in Workers : job[w] = Idle
  BY IdleFits DEF Init, JobTypes
<1>2. BenchTypes /\ LedgerTypes /\ PluginTypes /\ WorldTypes
  BY DEF Init, BenchTypes, LedgerTypes, PluginTypes, WorldTypes, Statuses
<1>3. NoteTypes
  BY ComponentParameters DEF Init, NoteTypes
<1>4. ChildrenFit /\ BusyIsHandled /\ PreparingIsStarted
  BY DEF Init, ChildrenFit, BusyIsHandled, PreparingIsStarted
<1> QED
  BY <1>1, <1>2, <1>3, <1>4 DEF Inv, Typed

LEMMA RequestStep ==
    ASSUME Inv, NEW w \in Workers, Request(w)
    PROVE  Inv'
<1>1. PICK b \in Benches, S \in SUBSET Components :
         \/ \E t \in Starts : Start(w, b, S, t)
         \/ \E t \in Stops : Stop(w, b, S, t)
  <2>1. PICK b \in Benches :
          \/ \E c \in {c \in Components : BenchOf(c) = b} :
               Start(w, b, {c}, "start") \/ Stop(w, b, {c}, "stop")
          \/ Start(w, b, {c \in Components : BenchOf(c) = b}, "startAll")
          \/ Stop(w, b, {c \in Components : BenchOf(c) = b}, "stopAll")
    BY DEF Request
  <2>2. {"start", "startAll"} \subseteq Starts /\ {"stop", "stopAll"} \subseteq Stops
    BY DEF Starts, Stops
  <2>3. {c \in Components : BenchOf(c) = b} \in SUBSET Components
    OBVIOUS
  <2>4. CASE \E c \in {c \in Components : BenchOf(c) = b} :
               Start(w, b, {c}, "start") \/ Stop(w, b, {c}, "stop")
    <3>1. PICK c \in Components : Start(w, b, {c}, "start") \/ Stop(w, b, {c}, "stop")
      BY <2>4
    <3>2. {c} \in SUBSET Components
      OBVIOUS
    <3> QED
      BY <2>2, <3>1, <3>2
  <2> QED
    BY <2>1, <2>2, <2>3, <2>4
<1> QED
  BY <1>1, StartStep, StopStep

LEMMA NextInv == Inv /\ [Next]_vars => Inv'
<1> SUFFICES ASSUME Inv, [Next]_vars
             PROVE  Inv'
  OBVIOUS
<1>1. ASSUME NEW w \in Workers, Step(w)
      PROVE  Inv'
  BY <1>1, SkipStep, LaunchStep, StopNextStep, TranslateStep, BeginStep, UpStep, HealthStep,
     SpawnStep, CommandEndsStep, KilledEndsStep, ComposeStoppedStep, StoppedStep, ReapStep
     DEF Step
<1>2. ASSUME NEW w \in Workers, ComesUp(w) \/ Request(w) \/ HostCrash(w)
      PROVE  Inv'
  BY <1>2, ComesUpStep, RequestStep, HostCrashStep
<1>3. ASSUME NEW g \in Plugins, NEW w \in Workers,
             Restarted(g, w) \/ \E again \in BOOLEAN : PluginCrashes(g, w, again)
      PROVE  Inv'
  BY <1>3, RestartedStep, PluginCrashesStep
<1>4. ASSUME NEW g \in Plugins, Respawn(g) \/ Disable(g) \/ Enable(g) \/ RollsBack(g)
      PROVE  Inv'
  BY <1>4, PluginStep
<1>5. ASSUME NEW c \in Components, PollResolves(c) \/ Dies(c)
      PROVE  Inv'
  BY <1>5, PollResolvesStep, DiesStep
<1>7. CASE PollReads \/ \E S \in listings \cup {{}} : Poll(S)
  BY <1>7, PollReadsStep, PollStep
<1>6. CASE UNCHANGED vars
  <2>1. Handling' /\ LedgerTypes'
    BY <1>6 DEF Inv, Typed, Handling, vars, BenchTypes, benchVars, LedgerTypes, ledger,
       PluginTypes, plugin, NoteTypes, misc, JobTypes, BusyIsHandled, PreparingIsStarted
  <2>2. WorldTypes' /\ ChildrenFit'
    BY <1>6 DEF Inv, Typed, vars, WorldTypes, world, ChildrenFit
  <2> QED
    BY <2>1, <2>2 DEF Inv, Typed, Handling
<1> QED
  BY <1>1, <1>2, <1>3, <1>4, <1>5, <1>6, <1>7 DEF Next

LEMMA Invariance == Spec => []Inv
BY InitInv, NextInv, PTL DEF Spec

\* Every variable stays in its type, in bench-manager.ts's components and in the ledger,
\* for any number of projects, benches, plugins and handlers (provisionComponent,
\* stopComponent, handleComponentPluginPreRestart).
THEOREM TypeCorrect == Spec => []TypeOK
<1>1. Inv => TypeOK
  BY TypedIsTypeOK DEF Inv
<1> QED
  BY <1>1, Invariance, PTL

\* No component reads as starting or stopping without a handler that is going to write its
\* outcome, whatever requests, reports of other handlers, stops of its process, crashes of
\* its plugin and of the host come between: the status object a handler loses to a report
\* is lost only to a status that is not busy, or to a launch that settles it. A container
\* which the poll itself has put in starting (refreshComponentStatuses) has none.
THEOREM BusyHandled == Spec => []BusyIsHandled
<1>1. Inv => BusyIsHandled
  BY DEF Inv
<1> QED
  BY <1>1, Invariance, PTL

\* A bench reads as preparing only while a Start of it is under way which takes it out at
\* its end (startComponent, startAllComponents): the crash hooks, which pass over such a
\* bench, do so for no longer than that.
THEOREM PreparingStarted == Spec => []PreparingIsStarted
<1>1. Inv => PreparingIsStarted
  BY DEF Inv
<1> QED
  BY <1>1, Invariance, PTL

-----------------------------------------------------------------------------
(* What a step of one handler leaves of the others *)

Undisturbed(j, k) ==
    /\ k.task = j.task /\ k.of = j.of /\ k.at = j.at /\ k.todo = j.todo
    /\ k.bound = j.bound /\ k.entries = j.entries
    /\ k.held => j.held
    /\ k.pc = j.pc \/ (j.pc \in Waits /\ k.pc = "killed")

Alone(w) == \A v \in Workers \ {w} : Undisturbed(job[v], job'[v])
Silences(w, c) == \A v \in Workers \ {w} : job[v].at = c => ~job'[v].held

\* The handler is done with its component: it goes on to the next or ends.
Leaves(w) ==
    LET k == job'[w] IN
    /\ k.at = None /\ k.todo \subseteq job[w].todo
    /\ \/ k.pc = "idle" /\ k.task = "none" /\ k.todo = {}
       \/ k.pc = "next" /\ k.task = job[w].task /\ k.of = job[w].of

\* It goes on with its component at another await.
GoesTo(w, p) ==
    LET j == job[w]  k == job'[w] IN
    /\ k.pc = p /\ k.at = j.at /\ k.task = j.task /\ k.of = j.of
    /\ k.todo = j.todo /\ k.bound = j.bound /\ k.entries = j.entries

LEMMA OneMoves ==
    ASSUME JobTypes, NEW w \in Workers, NEW k, job' = [job EXCEPT ![w] = k]
    PROVE  /\ Alone(w) /\ job'[w] = k
           /\ \A v \in Workers \ {w} : job'[v] = job[v]
BY DEF JobTypes, Alone, Undisturbed

LEMMA JobUndisturbed ==
    ASSUME JobTypes
    PROVE  job \in [Workers -> Jobs] /\ \A v \in Workers : Undisturbed(job[v], job[v])
BY DEF JobTypes, Undisturbed

LEMMA StaleLeaves ==
    ASSUME JobTypes, NEW w \in Workers, NEW jobs \in [Workers -> Jobs],
           \A v \in Workers \ {w} : Undisturbed(job[v], jobs[v]), NEW S, NEW k,
           job' = [Stale(jobs, S) EXCEPT ![w] = k]
    PROVE  /\ Alone(w) /\ job'[w] = k
           /\ \A c \in S : Silences(w, c)
<1>1. ASSUME NEW v \in Workers \ {w}
      PROVE  /\ Undisturbed(job[v], job'[v])
             /\ job[v].at \in S => ~job'[v].held
  <2>1. jobs[v] \in JobType
    BY DEF Jobs
  <2>2. job'[v] = IF jobs[v].at \in S THEN [jobs[v] EXCEPT !.held = FALSE] ELSE jobs[v]
    BY DEF Stale
  <2>3. Undisturbed(job[v], jobs[v])
    OBVIOUS
  <2> QED
    BY <2>1, <2>2, <2>3 DEF Undisturbed, JobType
<1>2. job'[w] = k
  BY DEF Stale
<1> QED
  BY <1>1, <1>2 DEF Alone, Silences

LEMMA KilledLeaves ==
    ASSUME Inv, NEW id \in Ids
    PROVE  /\ Killed(job, id) \in [Workers -> Jobs]
           /\ \A v \in Workers : /\ Undisturbed(job[v], Killed(job, id)[v])
                                 /\ job[v].pc \notin Waits => Killed(job, id)[v] = job[v]
<1>1. IsAlive(id) /\ child[id].by \in Workers => job[child[id].by].pc \in Waits
  BY ComponentParameters DEF Inv, ChildrenFit, IsAlive
<1>2. job \in [Workers -> Jobs] /\ WorldTypes
  BY DEF Inv, Typed, JobTypes
<1>3. Killed(job, id) \in [Workers -> Jobs]
  BY <1>1, <1>2, KilledFits
<1>4. ASSUME NEW v \in Workers
      PROVE  /\ Undisturbed(job[v], Killed(job, id)[v])
             /\ job[v].pc \notin Waits => Killed(job, id)[v] = job[v]
  <2>1. job[v] \in JobType
    BY <1>2 DEF Jobs
  <2>2. Killed(job, id)[v] = IF IsAlive(id) /\ child[id].by = v
                             THEN [job[v] EXCEPT !.pc = "killed"] ELSE job[v]
    BY DEF Killed
  <2> QED
    BY <1>1, <2>1, <2>2 DEF Undisturbed, JobType
<1> QED
  BY <1>3, <1>4

LEMMA GoesLeaves ==
    ASSUME JobTypes, NEW w \in Workers, NEW rest, rest \subseteq job[w].todo,
           job'[w] = Goes(w, rest)
    PROVE  Leaves(w) /\ ~job'[w].held
<1>1. job[w] \in JobType
  BY DEF JobTypes, Jobs
<1>2. CASE rest = {}
  BY <1>2 DEF Goes, Idle, Leaves
<1>3. CASE rest # {}
  BY <1>1, <1>3 DEF Goes, Leaves, JobType
<1> QED
  BY <1>2, <1>3

\* The last report of a launch.
LEMMA LaunchedLeaves ==
    ASSUME Inv, NEW w \in Workers, NEW jobs \in [Workers -> Jobs],
           \A v \in Workers \ {w} : Undisturbed(job[v], jobs[v]),
           NEW c \in Components, job[w].at = c, NEW s, Launched(w, jobs, s)
    PROVE  /\ Alone(w) /\ Silences(w, c) /\ Leaves(w)
           /\ status' = [x \in Components |-> IF x = c THEN s ELSE status[x]]
           /\ inFlight' = inFlight \ {c}
           /\ UNCHANGED <<cached, connected, backoff, due, config, faults, escaped,
                          crossed, unbound, polled>>
<1>1. job' = [Stale(jobs, {c}) EXCEPT ![w] = Goes(w, Rest(w, s))]
  BY DEF Launched
<1>2. JobTypes /\ job[w] \in JobType
  BY DEF Inv, Typed, JobTypes, Jobs
<1>3. Rest(w, s) \subseteq job[w].todo
  BY <1>2 DEF Rest
<1>4. Alone(w) /\ Silences(w, c) /\ job'[w] = Goes(w, Rest(w, s))
  BY <1>1, <1>2, StaleLeaves
<1>5. Leaves(w)
  BY <1>2, <1>3, <1>4, GoesLeaves
<1>6. status' = [x \in Components |-> IF x = c THEN s ELSE status[x]]
  BY DEF Launched, Report
<1> QED
  BY <1>4, <1>5, <1>6 DEF Launched, Landed, plugin, misc

\* Any other report of one. The first notes whether the setup is still to be run.
Begins(w, jobs) ==
    jobs[w] = job[w] \/ jobs = [job EXCEPT ![w].fresh = (job[w].at \notin complete)]

LEMMA GoonLeaves ==
    ASSUME Inv, NEW w \in Workers, NEW jobs \in [Workers -> Jobs],
           \A v \in Workers \ {w} : Undisturbed(job[v], jobs[v]),
           Begins(w, jobs),
           NEW c \in Components, job[w].at = c, NEW p, Goon(w, jobs, p)
    PROVE  /\ Alone(w) /\ Silences(w, c) /\ GoesTo(w, p) /\ ~job'[w].held
           /\ status' = [x \in Components |-> IF x = c THEN "starting" ELSE status[x]]
           /\ UNCHANGED <<inFlight, cached, connected, backoff, due, config, faults, escaped,
                          crossed, unbound, polled>>
<1>0. PICK k : k = [Stale(jobs, {c})[w] EXCEPT !.pc = p]
  OBVIOUS
<1>1. job' = [Stale(jobs, {c}) EXCEPT ![w] = k]
  BY <1>0 DEF Goon, Stale
<1>2. JobTypes /\ job[w] \in JobType
  BY DEF Inv, Typed, JobTypes, Jobs
<1>3. jobs[w] \in JobType
  BY DEF Jobs
<1>4. /\ jobs[w].at = c /\ jobs[w].task = job[w].task /\ jobs[w].of = job[w].of
      /\ jobs[w].todo = job[w].todo /\ jobs[w].bound = job[w].bound
      /\ jobs[w].entries = job[w].entries
  <2>1. CASE jobs = [job EXCEPT ![w].fresh = (job[w].at \notin complete)]
    <3>1. jobs[w] = [job[w] EXCEPT !.fresh = (job[w].at \notin complete)]
      BY <1>2, <2>1 DEF JobTypes
    <3> QED
      BY <1>2, <3>1 DEF JobType
  <2>2. CASE jobs[w] = job[w]
    BY <2>2
  <2> QED
    BY <2>1, <2>2 DEF Begins
<1>5. k = [[jobs[w] EXCEPT !.held = FALSE] EXCEPT !.pc = p]
  BY <1>0, <1>4 DEF Stale
<1>6. /\ k.pc = p /\ k.at = c /\ k.task = job[w].task /\ k.of = job[w].of /\ ~k.held
      /\ k.todo = job[w].todo /\ k.bound = job[w].bound /\ k.entries = job[w].entries
  BY <1>3, <1>4, <1>5 DEF JobType
<1>7. Alone(w) /\ Silences(w, c) /\ job'[w] = k
  BY <1>1, <1>2, StaleLeaves
<1>8. status' = [x \in Components |-> IF x = c THEN "starting" ELSE status[x]]
  BY DEF Goon, Report
<1> QED
  BY <1>6, <1>7, <1>8 DEF Goon, GoesTo, plugin, misc

-----------------------------------------------------------------------------
(* A component that reads as stopped is down. *)

Begun == LaunchPcs \ {"translate"}
User(w) == job[w].task \in Starts \cup Stops
Brings(w, c) == job[w].at = c /\ job[w].pc \in Begun

Stands(c) == \E k \in alive : k.of = c /\ k.by = None
Stays(c) == c \in container \/ Stands(c)

\* The startup sweep still has the compose project of its bench to bring down.
Swept(c) == \E w \in Workers : job[w].task = "sweep"
                               /\ \E e \in job[w].entries : BenchOf(c) \in e.projects

\* Where a handler is at a component, and what it knows there.
Sits(w) ==
    /\ job[w].at # None => job[w].pc \in LaunchPcs \cup StopPcs
    /\ \A c \in Components : job[w].at = c =>
         /\ job[w].pc \in Begun => c \in cached
         /\ job[w].pc = "spawn" => Kind(c) = "process"
         /\ job[w].pc \in {"up", "health"} => Kind(c) = "docker"
Seated == \A w \in Workers : Sits(w)

\* Requests do not come to a component while another request, or the sweep, works on it.
Claims(w, c) == (User(w) \/ job[w].task = "sweep") /\ Works(w, c)
Apart == \A v, w \in Workers, c \in Components :
    v # w /\ User(w) => ~(Claims(v, c) /\ Claims(w, c))

\* A child that no handler waits for is the registered one of a process, whose descriptor
\* is cached; any other is of the component its handler is at.
Mains == \A k \in alive : k.by = None =>
    Kind(k.of) = "process" /\ k.id = Main(k.of) /\ child[k.id] = k /\ k.of \in cached
Waited == \A k \in alive : k.by # None => job[k.by].at = k.of

Services == \A c \in container : Kind(c) = "docker" /\ (c \in cached \cup escaped \/ Swept(c))

\* A stop that is going to report has stopped the container, but for one that a launch
\* beside it brings up, and is going to stop the process, but for one whose plugin was
\* down, or came back for a launch beside it.
Emptied(w) == \A c \in Components :
    /\ job[w].at = c /\ job[w].pc \in {"stopping", "composed"} /\ job[w].held
    /\ c \in container
    => c \in escaped \/ \E v \in Workers : job[v].at = c /\ job[v].pc = "up"
Ending(w) == \A c \in Components :
    /\ job[w].at = c /\ job[w].pc \in StopPcs /\ job[w].held /\ ~job[w].bound
    /\ Stands(c)
    => c \in unbound \/ \E v \in Workers : job[v].at = c /\ job[v].pc = "begin"
StopsEnd == \A w \in Workers : Emptied(w) /\ Ending(w)

Excepted(c) == c \in escaped \cup unbound \cup polled \/ (c \in container /\ Swept(c))
Down == \A c \in Components : status[c] = "stopped" /\ Stays(c) =>
    Excepted(c) \/ \E v \in Workers : Brings(v, c)

Downed == Seated /\ Apart /\ Mains /\ Waited /\ Services /\ StopsEnd /\ Down

-----------------------------------------------------------------------------
(* What is kept while one handler moves *)

LEMMA SeatedKept ==
    ASSUME Seated, NEW w \in Workers, Alone(w), cached \subseteq cached', config' = config,
           Sits(w)'
    PROVE  Seated'
<1> SUFFICES ASSUME NEW v \in Workers \ {w}
             PROVE  Sits(v)'
  BY DEF Seated
<1>1. Undisturbed(job[v], job'[v]) /\ Sits(v)
  BY DEF Seated, Alone
<1> QED
  BY <1>1 DEF Sits, Undisturbed, Kind, Begun, LaunchPcs, StopPcs, Waits

LEMMA ApartKept ==
    ASSUME Apart, NEW w \in Workers, Alone(w), config' = config,
           \A c \in Components : Claims(w, c)' =>
              \/ Claims(w, c) /\ (User(w)' => User(w))
              \/ \A v \in Workers \ {w} : ~Works(v, c)
    PROVE  Apart'
<1>1. ASSUME NEW v \in Workers \ {w}, NEW c \in Components
      PROVE  /\ User(v)' <=> User(v)
             /\ Claims(v, c)' <=> Claims(v, c)
             /\ Claims(v, c) => Works(v, c)
  <2>1. Undisturbed(job[v], job'[v])
    BY DEF Alone
  <2> QED
    BY <2>1 DEF Undisturbed, User, Claims, Works, Of
<1> SUFFICES ASSUME NEW u \in Workers, NEW v \in Workers, NEW c \in Components, u # v, User(v)',
                    Claims(u, c)', Claims(v, c)'
             PROVE  FALSE
  BY DEF Apart
<1>2. CASE u # w /\ v # w
  BY <1>1, <1>2 DEF Apart
<1>3. CASE u = w
  BY <1>1, <1>3 DEF Apart
<1>4. CASE v = w
  BY <1>1, <1>4 DEF Apart
<1> QED
  BY <1>2, <1>3, <1>4

LEMMA SweptKept ==
    ASSUME NEW w \in Workers, Alone(w),
           job[w].task = "sweep" => job'[w].task = "sweep" /\ job'[w].entries = job[w].entries,
           NEW c
    PROVE  Swept(c) => Swept(c)'
BY DEF Swept, Alone, Undisturbed, BenchOf

LEMMA MainsKept ==
    ASSUME Mains, UNCHANGED <<child, alive, config>>, cached \subseteq cached'
    PROVE  Mains'
BY DEF Mains, Kind, Main

LEMMA WaitedKept ==
    ASSUME Inv, Waited, NEW w \in Workers, Alone(w),
           job[w].pc \notin Waits \/ job'[w].at = job[w].at, alive' \subseteq alive
    PROVE  Waited'
BY DEF Inv, Typed, WorldTypes, Children, ChildrenFit, Waited, Alone, Undisturbed

LEMMA ServicesKept ==
    ASSUME Services, container' \subseteq container, config' = config,
           cached \subseteq cached', escaped' = escaped,
           \A c \in container' : Swept(c) => Swept(c)'
    PROVE  Services'
BY DEF Services, Kind

\* A launch that leaves an await from which it may still bring the component up reports,
\* and so takes the status object from every stop.
LEMMA StopsKept ==
    ASSUME StopsEnd, NEW w \in Workers, Alone(w), escaped' = escaped,
           container' \subseteq container,
           \A c \in Components : Stands(c)' => Stands(c) \/ Silences(w, c),
           \A c \in Components : job[w].at = c /\ job[w].pc \in {"up", "begin"} =>
              Silences(w, c) \/ (job'[w].at = c /\ job'[w].pc = job[w].pc),
           \A c \in Components : c \in unbound =>
              \/ c \in unbound' \/ ~Stands(c)
              \/ \E v \in Workers : job'[v].at = c /\ job'[v].pc = "begin"
              \/ \A v \in Workers \ {w} :
                   job[v].pc \in StopPcs => job[v].at # c,
           (Emptied(w) /\ Ending(w))'
    PROVE  StopsEnd'
<1> SUFFICES ASSUME NEW v \in Workers \ {w}
             PROVE  (Emptied(v) /\ Ending(v))'
  BY DEF StopsEnd
<1>1. Undisturbed(job[v], job'[v]) /\ Emptied(v) /\ Ending(v)
  BY DEF StopsEnd, Alone
<1>2. job'[v].pc \in StopPcs => job'[v].pc = job[v].pc
  BY <1>1 DEF Undisturbed, StopPcs
<1>3. ASSUME NEW c \in Components, NEW u \in Workers, NEW p \in {"up", "begin"},
             job[u].at = c, job[u].pc = p, job[v].at = c, job'[v].held
      PROVE  job'[u].at = c /\ job'[u].pc = p
  <2>1. CASE u = w
    BY <1>3, <2>1 DEF Silences
  <2>2. CASE u # w
    BY <1>3, <2>2 DEF Alone, Undisturbed, Waits
  <2> QED
    BY <2>1, <2>2
<1>4. Emptied(v)'
  <2> SUFFICES ASSUME NEW c \in Components, job'[v].at = c,
                      job'[v].pc \in {"stopping", "composed"}, job'[v].held, c \in container'
               PROVE  c \in escaped' \/ \E u \in Workers : job'[u].at = c /\ job'[u].pc = "up"
    BY DEF Emptied
  <2>1. job[v].at = c /\ job[v].pc \in {"stopping", "composed"} /\ job[v].held
    BY <1>1, <1>2 DEF Undisturbed, StopPcs
  <2>2. c \in escaped \/ \E u \in Workers : job[u].at = c /\ job[u].pc = "up"
    BY <1>1, <2>1 DEF Emptied
  <2> QED
    BY <1>3, <2>1, <2>2
<1>5. Ending(v)'
  <2> SUFFICES ASSUME NEW c \in Components, job'[v].at = c, job'[v].pc \in StopPcs,
                      job'[v].held, ~job'[v].bound, Stands(c)'
               PROVE  c \in unbound' \/ \E u \in Workers : job'[u].at = c /\ job'[u].pc = "begin"
    BY DEF Ending
  <2>1. job[v].at = c /\ job[v].pc \in StopPcs /\ job[v].held /\ ~job[v].bound
    BY <1>1, <1>2 DEF Undisturbed
  <2>2. Stands(c)
    BY <2>1 DEF Silences
  <2>3. c \in unbound \/ \E u \in Workers : job[u].at = c /\ job[u].pc = "begin"
    BY <1>1, <2>1, <2>2 DEF Ending
  <2> QED
    BY <1>3, <2>1, <2>2, <2>3
<1> QED
  BY <1>4, <1>5

LEMMA DownKept ==
    ASSUME Down, Services, Mains', NEW w \in Workers, Alone(w), escaped' = escaped,
           config' = config,
           \A c \in container' : Swept(c) => Swept(c)',
           \A c \in Components : status'[c] = "stopped" /\ Stays(c)' =>
              \/ Excepted(c)' \/ \E v \in Workers : Brings(v, c)'
              \/ /\ status[c] = "stopped" /\ Stays(c)
                 /\ c \in unbound \cup polled => c \in unbound' \cup polled'
                 /\ Brings(w, c) => Brings(w, c)'
    PROVE  Down'
<1> SUFFICES ASSUME NEW c \in Components, status'[c] = "stopped", Stays(c)'
             PROVE  Excepted(c)' \/ \E v \in Workers : Brings(v, c)'
  BY DEF Down
<1>1. CASE /\ status[c] = "stopped" /\ Stays(c)
           /\ c \in unbound \cup polled => c \in unbound' \cup polled'
           /\ Brings(w, c) => Brings(w, c)'
  <2>1. CASE c \in escaped \cup unbound \cup polled
    BY <1>1, <2>1 DEF Excepted
  <2>2. CASE c \in container /\ Swept(c)
    <3>1. Kind(c) = "docker" /\ Kind(c)' = Kind(c)
      BY <2>2 DEF Services, Kind
    <3>2. ~Stands(c)'
      BY <3>1 DEF Mains, Stands
    <3> QED
      BY <2>2, <3>2 DEF Stays, Excepted
  <2>3. CASE \E v \in Workers : Brings(v, c)
    <3>1. PICK v \in Workers : Brings(v, c)
      BY <2>3
    <3>2. CASE v # w
      BY <3>1, <3>2 DEF Brings, Alone, Undisturbed, Begun, Waits, LaunchPcs
    <3> QED
      BY <1>1, <3>1, <3>2
  <2> QED
    BY <1>1, <2>1, <2>2, <2>3 DEF Down, Excepted
<1> QED
  BY <1>1

-----------------------------------------------------------------------------
(* What Downed needs of a step *)

\* Of one in which the handler w moves.
Moved(w) ==
    /\ Alone(w) /\ UNCHANGED <<config, escaped>>
    /\ cached \subseteq cached' /\ container' \subseteq container
    /\ \A c \in container' : Swept(c) => Swept(c)'
    /\ Sits(w)' /\ (Emptied(w) /\ Ending(w))'
    /\ \A c \in Components : Claims(w, c)' =>
          \/ Claims(w, c) /\ (User(w)' => User(w))
          \/ \A v \in Workers \ {w} : ~Works(v, c)
    /\ \A c \in Components : job[w].at = c /\ job[w].pc \in {"up", "begin"} =>
          Silences(w, c) \/ (job'[w].at = c /\ job'[w].pc = job[w].pc)
    /\ \A c \in Components : Stands(c)' => Stands(c) \/ Silences(w, c)
    /\ \A c \in Components : c \in unbound =>
          \/ c \in unbound' \/ ~Stands(c)
          \/ \E v \in Workers : job'[v].at = c /\ job'[v].pc = "begin"
          \/ \A v \in Workers \ {w} : job[v].pc \in StopPcs => job[v].at # c
    /\ \A c \in Components : status'[c] = "stopped" /\ Stays(c)' =>
          \/ Excepted(c)' \/ \E v \in Workers : Brings(v, c)'
          \/ /\ status[c] = "stopped" /\ Stays(c)
             /\ c \in unbound \cup polled => c \in unbound' \cup polled'
             /\ Brings(w, c) => Brings(w, c)'

LEMMA MovedKeeps ==
    ASSUME Downed, NEW w \in Workers, Moved(w), Mains', Waited'
    PROVE  Downed'
<1>1. Seated' /\ Apart'
  BY SeatedKept, ApartKept DEF Moved, Downed
<1>2. Services'
  BY ServicesKept DEF Moved, Downed, Services
<1>3. StopsEnd'
  BY StopsKept DEF Moved, Downed
<1>4. Down'
  BY DownKept DEF Moved, Downed
<1> QED
  BY <1>1, <1>2, <1>3, <1>4 DEF Downed

\* Of one in which it moves and nothing starts or stops.
Quiets(w) ==
    /\ UNCHANGED <<child, alive, container, config, escaped>>
    /\ cached \subseteq cached'
    /\ job[w].pc \notin Waits \/ job'[w].at = job[w].at
    /\ job[w].task # "sweep" \/ (job'[w].task = "sweep" /\ job'[w].entries = job[w].entries)

LEMMA QuietMoved ==
    ASSUME Inv, Downed, NEW w \in Workers, Alone(w), Quiets(w),
           Sits(w)', (Emptied(w) /\ Ending(w))',
           \A c \in Components : Claims(w, c)' =>
              \/ Claims(w, c) /\ (User(w)' => User(w))
              \/ \A v \in Workers \ {w} : ~Works(v, c),
           \A c \in Components : job[w].at = c /\ job[w].pc \in {"up", "begin"} =>
              Silences(w, c) \/ (job'[w].at = c /\ job'[w].pc = job[w].pc),
           \A c \in Components : c \in unbound =>
              \/ c \in unbound' \/ ~Stands(c)
              \/ \E v \in Workers : job'[v].at = c /\ job'[v].pc = "begin"
              \/ \A v \in Workers \ {w} : job[v].pc \in StopPcs => job[v].at # c,
           \A c \in Components : status'[c] = "stopped" =>
              /\ status[c] = "stopped"
              /\ c \in unbound \cup polled => c \in unbound' \cup polled'
              /\ Brings(w, c) => Brings(w, c)'
    PROVE  Downed'
<1>1. Mains' /\ Waited'
  BY MainsKept, WaitedKept DEF Quiets, Downed
<1>2. ASSUME NEW c
      PROVE  Swept(c) => Swept(c)'
  BY SweptKept DEF Quiets
<1>3. /\ \A c \in Components : Stands(c)' => Stands(c)
      /\ \A c \in Components : Stays(c)' => Stays(c)
  BY DEF Quiets, Stands, Stays
<1>4. Moved(w)
  BY <1>2, <1>3 DEF Quiets, Moved
<1> QED
  BY <1>1, <1>4, MovedKeeps

\* Of one in which no handler moves.
LEMMA StillKeeps ==
    ASSUME Downed, UNCHANGED <<job, config, escaped, unbound>>,
           cached \subseteq cached', container' \subseteq container, Mains', Waited',
           \A c \in Components : Stands(c)' => Stands(c),
           \A c \in Components : status'[c] = "stopped" /\ Stays(c)' =>
              c \in polled' \/ (status[c] = "stopped" /\ c \notin polled)
    PROVE  Downed'
<1>1. \A c : (Swept(c)' <=> Swept(c)) /\ \A v \in Workers : Brings(v, c)' <=> Brings(v, c)
  BY DEF Swept, Brings
<1>2. Seated'
  BY DEF Downed, Seated, Sits, Kind
<1>3. Apart'
  BY DEF Downed, Apart, User, Claims, Works, Of
<1>4. Services'
  BY <1>1 DEF Downed, Services, Kind
<1>5. StopsEnd'
  BY DEF Downed, StopsEnd, Emptied, Ending
<1>6. Down'
  <2> SUFFICES ASSUME NEW c \in Components, status'[c] = "stopped", Stays(c)'
               PROVE  Excepted(c)' \/ \E v \in Workers : Brings(v, c)'
    BY DEF Down
  <2>1. c \in polled' \/ (status[c] = "stopped" /\ Stays(c) /\ c \notin polled)
    BY DEF Stays
  <2>4. CASE c \in polled'
    BY <2>4 DEF Excepted
  <2>2. CASE c \in escaped \cup unbound \/ \E v \in Workers : Brings(v, c)
    BY <1>1, <2>2 DEF Excepted
  <2>3. CASE c \in container /\ Swept(c)
    <3>1. ~Stands(c)
      BY <2>3 DEF Downed, Services, Mains, Stands
    <3> QED
      BY <1>1, <2>3, <3>1 DEF Stays, Excepted
  <2> QED
    BY <2>1, <2>2, <2>3, <2>4 DEF Downed, Down, Excepted
<1> QED
  BY <1>2, <1>3, <1>4, <1>5, <1>6 DEF Downed

-----------------------------------------------------------------------------
(* Steps of handlers that start and stop nothing *)

\* A handler that is at no component.
LEMMA NowhereSits ==
    ASSUME NEW w \in Workers, job'[w].at = None
    PROVE  Sits(w)' /\ (Emptied(w) /\ Ending(w))'
BY NoneIsNull DEF Sits, Emptied, Ending

\* A request claims what no other handler works on.
Asked(b, S, t) ==
    /\ S \subseteq Components
    /\ t \in {"startAll", "stopAll"} => S = {c \in Components : BenchOf(c) = b}

LEMMA StartDowned ==
    ASSUME Inv, Downed, ~Overlap, NEW w \in Workers, NEW b, NEW S, NEW t \in Starts, Asked(b, S, t),
           Start(w, b, S, t)
    PROVE  Downed'
<1> DEFINE k == [Idle EXCEPT !.task = t, !.pc = "next", !.of = b, !.todo = S]
<1>1. k.at = None /\ k.task = t /\ k.pc = "next" /\ k.of = b /\ k.todo = S
  BY DEF Idle
<1>2. job' = [job EXCEPT ![w] = k] /\ job[w].task = "none" /\ JobTypes
  BY DEF Start, Inv, Typed
<1> HIDE DEF k
<1>3. Alone(w) /\ job'[w] = k
  BY <1>2, OneMoves
<1>4. job[w].pc = "idle"
  BY <1>2 DEF JobTypes, Jobs, Fits
<1>5. Sits(w)' /\ (Emptied(w) /\ Ending(w))'
  BY <1>1, <1>3, NowhereSits
<1>6. ASSUME NEW c \in Components, Works(w, c)'
      PROVE  \A v \in Workers \ {w} : ~Works(v, c)
  <2>1. c \in S
    BY <1>1, <1>3, <1>6, NoneIsNull DEF Works, Starts, Asked
  <2> QED
    BY <2>1 DEF Start, MayCall
<1>7. Quiets(w)
  BY <1>2, <1>4 DEF Quiets, Start, world, misc, Waits
<1>8. \A c \in Components : ~Brings(w, c)
  BY <1>4 DEF Brings, Begun, LaunchPcs
<1> QED
  BY <1>3, <1>4, <1>5, <1>6, <1>7, <1>8, QuietMoved DEF Start, misc, Claims

LEMMA LeavesClaims ==
    ASSUME NEW w \in Workers, Leaves(w), config' = config, NEW c \in Components,
           job[w].task \in Launches \cup Stops
    PROVE  Claims(w, c)' => Claims(w, c) /\ (User(w)' => User(w))
BY NoneIsNull DEF Leaves, Claims, User, Works, Starts, Stops, Launches, Of

LEMMA SkipDowned ==
    ASSUME Inv, Downed, NEW w \in Workers, NEW c \in Components, Skip(w, c)
    PROVE  Downed'
<1> DEFINE rest == job[w].todo \ (IF PassesOver(w, c) THEN AtBench(w, c) ELSE {c})
<1>1. rest \subseteq job[w].todo /\ job' = [job EXCEPT ![w] = Goes(w, rest)] /\ JobTypes
  BY DEF Skip, Inv, Typed
<1> HIDE DEF rest
<1>2. Alone(w) /\ Leaves(w)
  BY <1>1, OneMoves, GoesLeaves
<1>3. Sits(w)' /\ (Emptied(w) /\ Ending(w))'
  BY <1>2, NowhereSits DEF Leaves
<1>4. job[w].pc = "next" /\ job[w].task \in Launches
  BY DEF Skip
<1>5. \A d \in Components : Claims(w, d)' => Claims(w, d) /\ (User(w)' => User(w))
  BY <1>2, <1>4, LeavesClaims DEF Skip, misc
<1>6. Quiets(w)
  BY <1>4 DEF Quiets, Skip, world, misc, Waits, Launches, Starts
<1>7. \A d \in Components : ~Brings(w, d) /\ (status'[d] = "stopped" => status[d] = "stopped")
  BY <1>4 DEF Skip, Brings, Begun, LaunchPcs, Inv, Typed, BenchTypes
<1> QED
  BY <1>2, <1>3, <1>4, <1>5, <1>6, <1>7, QuietMoved DEF Skip, misc

LEMMA LaunchDowned ==
    ASSUME Inv, Downed, NEW w \in Workers, NEW c \in Components, Launch(w, c)
    PROVE  Downed'
<1>1. PICK k : k = [job[w] EXCEPT !.at = c, !.held = TRUE, !.todo = @ \ {c},
                               !.pc = IF c \in cached THEN "begin" ELSE "translate"]
  OBVIOUS
<1>2. job[w] \in JobType /\ job[w].pc = "next" /\ c \in job[w].todo
  BY DEF Inv, Typed, JobTypes, Jobs, Launch
<1>3. /\ k.at = c /\ k.task = job[w].task /\ k.of = job[w].of /\ k.todo \subseteq job[w].todo
      /\ k.pc = IF c \in cached THEN "begin" ELSE "translate"
  BY <1>1, <1>2 DEF JobType
<1>4. job' = [job EXCEPT ![w] = k] /\ JobTypes
  BY <1>1 DEF Launch, Inv, Typed, JobTypes
<1>5. Alone(w) /\ job'[w] = k
  BY <1>4, OneMoves
<1>6. UNCHANGED <<child, alive, container, config, escaped, cached>>
  BY DEF Launch, world
<1>7. Quiets(w)
  BY <1>2, <1>6 DEF Quiets, Waits, Launch, Launches, Starts
<1>8. Sits(w)' /\ (Emptied(w) /\ Ending(w))'
  BY <1>3, <1>5, <1>6 DEF Sits, Emptied, Ending, Begun, LaunchPcs, StopPcs
<1>9. ASSUME NEW d \in Components, Claims(w, d)'
      PROVE  Claims(w, d) /\ (User(w)' => User(w))
  BY <1>2, <1>3, <1>5, <1>6, <1>9 DEF Claims, User, Works, Of
<1>10. \A d \in Components : d \in unbound => \/ d \in unbound' \/ ~Stands(d)
                                              \/ job'[w].at = d /\ job'[w].pc = "begin"
  <2>1. c \notin cached => ~Stands(c)
    BY DEF Downed, Mains, Stands
  <2> QED
    BY <1>3, <1>5, <2>1 DEF Launch
<1>11. \A d \in Components : /\ ~Brings(w, d) /\ ~(job[w].at = d /\ job[w].pc \in {"up", "begin"})
                             /\ status'[d] = "stopped" => d # c /\ status[d] = "stopped"
                             /\ d # c /\ d \in unbound \cup polled => d \in unbound' \cup polled'
  BY <1>2 DEF Launch, Brings, Begun, LaunchPcs, Inv, Typed, BenchTypes
<1> QED
  BY <1>5, <1>7, <1>8, <1>9, <1>10, <1>11, QuietMoved

-----------------------------------------------------------------------------
(* What starts and ends children leaves of the registered ones *)

LEMMA StopMains ==
    ASSUME Mains, config' = config, cached \subseteq cached', WorldTypes, NEW id \in Ids,
           stopProcess(id)
    PROVE  Mains' /\ alive' \subseteq alive /\ \A k \in alive' : k # child[id]
<1>1. alive' = alive \ {child[id]} /\ child' = [child EXCEPT ![id] = None]
  BY DEF stopProcess
<1>2. \A i \in Ids : i # id => child'[i] = child[i]
  BY <1>1 DEF WorldTypes
<1> SUFFICES ASSUME NEW k \in alive', k.by = None
             PROVE  (Kind(k.of) = "process" /\ k.id = Main(k.of) /\ child[k.id] = k
                      /\ k.of \in cached)'
  BY <1>1 DEF Mains
<1>3. k \in alive /\ k # child[id] /\ k.id \in Ids
  BY <1>1 DEF WorldTypes, Children
<1>4. Kind(k.of) = "process" /\ k.id = Main(k.of) /\ child[k.id] = k /\ k.of \in cached
  BY <1>3 DEF Mains
<1> QED
  BY <1>2, <1>3, <1>4 DEF Kind, Main

LEMMA ExitMains ==
    ASSUME Mains, config' = config, cached \subseteq cached', WorldTypes, NEW l \in alive,
           exits(l)
    PROVE  Mains' /\ alive' = alive \ {l}
<1>1. alive' = alive \ {l} /\ l.id \in Ids
  BY DEF exits, WorldTypes, Children
<1>2. \A i \in Ids : child[i] # l => child'[i] = child[i]
  BY <1>1 DEF WorldTypes, exits
<1> SUFFICES ASSUME NEW k \in alive', k.by = None
             PROVE  (Kind(k.of) = "process" /\ k.id = Main(k.of) /\ child[k.id] = k
                      /\ k.of \in cached)'
  BY <1>1 DEF Mains
<1>3. k \in alive /\ k # l /\ k.id \in Ids
  BY <1>1 DEF WorldTypes, Children
<1>4. Kind(k.of) = "process" /\ k.id = Main(k.of) /\ child[k.id] = k /\ k.of \in cached
  BY <1>3 DEF Mains
<1> QED
  BY <1>2, <1>3, <1>4 DEF Kind, Main

\* The command before a process or a container, or a one-shot: no process is replaced.
LEMMA RunMains ==
    ASSUME Mains, UNCHANGED <<config, cached>>, WorldTypes, NEW id \in Ids,
           NEW c \in Components, NEW w \in Workers, runProcess(id, c, w),
           id = Before(c) \/ (id = Main(c) /\ Kind(c) = "oneshot")
    PROVE  Mains' /\ \A d : Stands(d)' => Stands(d)
<1>1. PICK n : n = Kid(id, c, w)
  OBVIOUS
<1>2. alive' = alive \cup {n} /\ child' = [child EXCEPT ![id] = n]
  BY <1>1 DEF runProcess
<1>3. n.by # None
  BY <1>1, ComponentParameters DEF Kid
<1>4. ASSUME NEW k \in alive', k.by = None
      PROVE  (Kind(k.of) = "process" /\ k.id = Main(k.of) /\ child[k.id] = k
                      /\ k.of \in cached)'
  <2>1. k \in alive /\ k.id \in Ids
    BY <1>2, <1>3, <1>4 DEF WorldTypes, Children
  <2>2. Kind(k.of) = "process" /\ k.id = Main(k.of) /\ child[k.id] = k /\ k.of \in cached
    BY <1>4, <2>1 DEF Mains
  <2>3. k.id # id
    BY <2>2 DEF Main, Before, Kind
  <2>4. child'[k.id] = child[k.id]
    BY <1>2, <2>1, <2>3 DEF WorldTypes
  <2> QED
    BY <2>2, <2>4 DEF Kind, Main
<1> QED
  BY <1>2, <1>3, <1>4 DEF Mains, Stands

LEMMA StartMains ==
    ASSUME Mains, UNCHANGED <<config, cached>>, WorldTypes, NEW c \in Components,
           Main(c) \in Ids, Kind(c) = "process", c \in cached, startProcess(Main(c), c)
    PROVE  Mains' /\ \A d : Stands(d)' => Stands(d) \/ d = c
<1>1. PICK n : n = Kid(Main(c), c, None)
  OBVIOUS
<1>2. /\ alive' = (alive \ {child[Main(c)]}) \cup {n}
      /\ child' = [child EXCEPT ![Main(c)] = n]
  BY <1>1 DEF startProcess
<1>3. n.by = None /\ n.of = c /\ n.id = Main(c)
  BY <1>1 DEF Kid
<1>4. child'[Main(c)] = n /\ \A i \in Ids : i # Main(c) => child'[i] = child[i]
  BY <1>2 DEF WorldTypes
<1>5. ASSUME NEW k \in alive', k.by = None
      PROVE  (Kind(k.of) = "process" /\ k.id = Main(k.of) /\ child[k.id] = k
                      /\ k.of \in cached)'
  <2>1. CASE k = n
    BY <1>3, <1>4, <2>1 DEF Kind, Main
  <2>2. CASE k # n
    <3>1. k \in alive /\ k # child[Main(c)] /\ k.id \in Ids
      BY <1>2, <2>2 DEF WorldTypes, Children
    <3>2. Kind(k.of) = "process" /\ k.id = Main(k.of) /\ child[k.id] = k /\ k.of \in cached
      BY <1>5, <3>1 DEF Mains
    <3> QED
      BY <1>4, <3>1, <3>2 DEF Kind, Main
  <2> QED
    BY <2>1, <2>2
<1> QED
  BY <1>2, <1>3, <1>5 DEF Mains, Stands

-----------------------------------------------------------------------------
(* Launches *)

LEMMA GoesToClaims ==
    ASSUME NEW w \in Workers, NEW p, GoesTo(w, p), config' = config, NEW c
    PROVE  Claims(w, c)' => Claims(w, c) /\ (User(w)' => User(w))
BY DEF GoesTo, Claims, User, Works, Of

LEMMA LaunchJob ==
    ASSUME Inv, NEW w \in Workers, job[w].pc \in LaunchPcs
    PROVE  job[w].at \in Components /\ job[w].task \in Launches
BY DEF Inv, Typed, JobTypes, Jobs, Fits

\* A report of a launch.
LEMMA Reports ==
    ASSUME Inv, Downed, NEW w \in Workers, job[w].pc \in LaunchPcs, NEW c \in Components,
           job[w].at = c, Alone(w), Silences(w, c), NEW s, s # "stopped",
           status' = [x \in Components |-> IF x = c THEN s ELSE status[x]],
           UNCHANGED <<cached, container, config, escaped, unbound, polled>>,
           \/ Leaves(w)
           \/ \E p \in Begun : /\ GoesTo(w, p) /\ c \in cached
                               /\ p = "spawn" => Kind(c) = "process"
                               /\ p \in {"up", "health"} => Kind(c) = "docker",
           \A x \in Components : Stands(x)' => Stands(x) \/ x = c
    PROVE  Moved(w)
<1>1. job[w].task \in Launches /\ job[w].task # "sweep"
  BY LaunchJob DEF Launches, Starts
<1>2. \A x : Swept(x) => Swept(x)'
  BY <1>1, SweptKept
<1>3. /\ Sits(w)' /\ (Emptied(w) /\ Ending(w))'
      /\ \A x \in Components : Claims(w, x)' => Claims(w, x) /\ (User(w)' => User(w))
  <2>1. CASE Leaves(w)
    BY <1>1, <2>1, NowhereSits, LeavesClaims DEF Leaves
  <2>2. ASSUME NEW p \in Begun, GoesTo(w, p), c \in cached, p = "spawn" => Kind(c) = "process",
               p \in {"up", "health"} => Kind(c) = "docker"
        PROVE  /\ Sits(w)' /\ (Emptied(w) /\ Ending(w))'
               /\ \A x \in Components : Claims(w, x)' => Claims(w, x) /\ (User(w)' => User(w))
    <3>1. job'[w].pc = p /\ job'[w].at = c
      BY <2>2 DEF GoesTo
    <3>2. p \in LaunchPcs /\ p \notin StopPcs
      BY DEF Begun, LaunchPcs, StopPcs
    <3>3. Sits(w)' /\ (Emptied(w) /\ Ending(w))'
      BY <2>2, <3>1, <3>2 DEF Sits, Emptied, Ending, Kind, StopPcs
    <3> QED
      BY <2>2, <3>3, GoesToClaims
  <2> QED
    BY <2>1, <2>2
<1>4. ASSUME NEW x \in Components, status'[x] = "stopped", Stays(x)'
      PROVE  status[x] = "stopped" /\ Stays(x) /\ ~Brings(w, x)
  <2>1. x # c /\ status[x] = "stopped"
    BY <1>4
  <2> QED
    BY <1>4, <2>1 DEF Stays, Brings
<1> QED
  BY <1>2, <1>3, <1>4 DEF Moved

LEMMA TranslateDowned ==
    ASSUME Inv, Downed, NEW w \in Workers, Translate(w)
    PROVE  Downed'
<1>0. PICK c : c = job[w].at
  OBVIOUS
<1>1. job[w].pc = "translate" /\ c \in Components /\ job[w].task \in Launches
      /\ job[w] \in JobType /\ JobTypes
  BY <1>0, LaunchJob DEF Translate, LaunchPcs, Inv, Typed, JobTypes, Jobs
<1>2. UNCHANGED <<child, alive, container, config, escaped, unbound, polled>>
  BY DEF Translate, world, misc
<1>3. CASE /\ cached' = cached \cup {c}
           /\ job' = [job EXCEPT ![w].pc = "begin"]
           /\ UNCHANGED <<status, inFlight, preparing, pending>>
  <2>1. PICK k : k = [job[w] EXCEPT !.pc = "begin"]
    OBVIOUS
  <2>2. /\ k.at = c /\ k.task = job[w].task /\ k.of = job[w].of /\ k.todo = job[w].todo
        /\ k.pc = "begin" /\ k.bound = job[w].bound /\ k.entries = job[w].entries
    BY <1>0, <1>1, <2>1 DEF JobType
  <2>3. job' = [job EXCEPT ![w] = k]
    BY <1>1, <1>3, <2>1 DEF JobTypes
  <2>4. Alone(w) /\ GoesTo(w, "begin")
    BY <1>0, <1>1, <2>2, <2>3, OneMoves DEF GoesTo
  <2>5. Sits(w)' /\ (Emptied(w) /\ Ending(w))'
    BY <1>0, <1>2, <1>3, <2>4 DEF GoesTo, Sits, Emptied, Ending, Begun, LaunchPcs, StopPcs
  <2>6. Quiets(w)
    BY <1>1, <1>2, <1>3 DEF Quiets, Waits, Launches, Starts
  <2>7. \A d \in Components : ~Brings(w, d)
    BY <1>1 DEF Brings, Begun
  <2> QED
    BY <1>1, <1>2, <1>3, <2>4, <2>5, <2>6, <2>7, GoesToClaims, QuietMoved
<1>4. CASE /\ status' = IF job[w].held THEN [status EXCEPT ![c] = "error"] ELSE status
           /\ job' = [job EXCEPT ![w] = Goes(w, Rest(w, status'[c]))]
           /\ UNCHANGED <<inFlight, cached>>
  <2>1. PICK rest : rest = Rest(w, status'[c])
    OBVIOUS
  <2>2. rest \subseteq job[w].todo /\ job' = [job EXCEPT ![w] = Goes(w, rest)]
    BY <1>1, <1>4, <2>1 DEF Rest
  <2>3. Alone(w) /\ Leaves(w)
    BY <1>1, <2>2, OneMoves, GoesLeaves
  <2>4. Sits(w)' /\ (Emptied(w) /\ Ending(w))'
    BY <2>3, NowhereSits DEF Leaves
  <2>5. \A d \in Components : Claims(w, d)' => Claims(w, d) /\ (User(w)' => User(w))
    BY <1>1, <1>2, <2>3, LeavesClaims
  <2>6. Quiets(w)
    BY <1>1, <1>2, <1>4 DEF Quiets, Waits, Launches, Starts
  <2>7. \A d \in Components : /\ ~Brings(w, d)
                              /\ status'[d] = "stopped" => status[d] = "stopped"
    BY <1>1, <1>4 DEF Brings, Begun, Inv, Typed, BenchTypes
  <2> QED
    BY <1>1, <1>2, <2>3, <2>4, <2>5, <2>6, <2>7, QuietMoved
<1> QED
  BY <1>0, <1>3, <1>4 DEF Translate

\* A command of the launch starts.
LEMMA RunDowned ==
    ASSUME Inv, Downed, NEW w \in Workers, job[w].pc \in LaunchPcs \ Waits,
           NEW c \in Components, job[w].at = c, NEW id \in Ids, runProcess(id, c, w),
           id = Before(c) \/ (id = Main(c) /\ Kind(c) = "oneshot"),
           UNCHANGED <<config, cached>>, Alone(w), NEW p, GoesTo(w, p)
    PROVE  Mains' /\ Waited' /\ \A d \in Components : Stands(d)' => Stands(d)
<1>1. Mains' /\ \A d \in Components : Stands(d)' => Stands(d)
  BY RunMains DEF Downed, Inv, Typed
<1>2. Waited'
  <2>1. PICK n : n = Kid(id, c, w)
    OBVIOUS
  <2>2. alive' = alive \cup {n} /\ n.by = w /\ n.of = c /\ job'[w].at = c
    BY <2>1 DEF runProcess, Kid, GoesTo
  <2>3. ASSUME NEW k \in alive, k.by # None
        PROVE  job'[k.by].at = k.of
    <3>1. k.by \in Workers /\ job[k.by].pc \in Waits /\ job[k.by].at = k.of
      BY <2>3 DEF Downed, Waited, Inv, Typed, WorldTypes, Children, ChildrenFit
    <3> QED
      BY <3>1 DEF Alone, Undisturbed
  <2> QED
    BY <2>2, <2>3 DEF Waited
<1> QED
  BY <1>1, <1>2

LEMMA BeginDowned ==
    ASSUME Inv, Downed, NEW w \in Workers, Begin(w)
    PROVE  Downed'
<1>0. PICK c, jobs : c = job[w].at /\ jobs = [job EXCEPT ![w].fresh = (c \notin complete)]
  OBVIOUS
<1>1. /\ job[w].pc = "begin" /\ job[w].pc \in LaunchPcs \ Waits /\ c \in Components
      /\ c \in cached
  BY <1>0, LaunchJob DEF Begin, LaunchPcs, Waits, Downed, Seated, Sits, Begun
<1>2. /\ jobs \in [Workers -> Jobs] /\ Begins(w, jobs)
      /\ \A v \in Workers \ {w} : Undisturbed(job[v], jobs[v])
  <2>1. [job[w] EXCEPT !.fresh = (c \notin complete)] \in Jobs
    BY DEF Inv, Typed, JobTypes, Jobs, JobType, Fits
  <2>2. job \in [Workers -> Jobs]
    BY DEF Inv, Typed, JobTypes
  <2> QED
    BY <1>0, <2>1, <2>2 DEF Undisturbed, Begins
<1>3. Main(c) \in Ids /\ Before(c) \in Ids
  BY <1>1, Parts DEF Inv, Typed, NoteTypes
<1>4. UNCHANGED container
  BY DEF Begin
<1>5. PICK p \in Begun :
        /\ Goon(w, jobs, p)
        /\ p = "spawn" => Kind(c) = "process"
        /\ p \in {"up", "health"} => Kind(c) = "docker"
        /\ \/ UNCHANGED <<child, alive>>
           \/ \E id \in Ids : /\ runProcess(id, c, w)
                              /\ id = Before(c) \/ (id = Main(c) /\ Kind(c) = "oneshot")
  BY <1>0, <1>3 DEF Begin, Begun, LaunchPcs
<1>6. /\ Alone(w) /\ Silences(w, c) /\ GoesTo(w, p)
      /\ status' = [x \in Components |-> IF x = c THEN "starting" ELSE status[x]]
      /\ UNCHANGED <<cached, config, escaped, unbound, polled>>
  BY <1>0, <1>1, <1>2, <1>5, GoonLeaves
<1>7. Mains' /\ Waited' /\ \A d \in Components : Stands(d)' => Stands(d)
  <2>1. CASE UNCHANGED <<child, alive>>
    BY <1>1, <1>6, <2>1, MainsKept, WaitedKept DEF Downed, Stands
  <2>2. ASSUME NEW id \in Ids, runProcess(id, c, w),
               id = Before(c) \/ (id = Main(c) /\ Kind(c) = "oneshot")
        PROVE  Mains' /\ Waited' /\ \A d \in Components : Stands(d)' => Stands(d)
    BY <1>0, <1>1, <1>6, <2>2, RunDowned
  <2> QED
    BY <1>5, <2>1, <2>2
<1>8. Moved(w)
  BY <1>0, <1>1, <1>4, <1>5, <1>6, <1>7, Reports
<1> QED
  BY <1>7, <1>8, MovedKeeps

LEMMA LaunchedMoved ==
    ASSUME Inv, Downed, NEW w \in Workers, job[w].pc \in LaunchPcs,
           NEW jobs \in [Workers -> Jobs],
           \A v \in Workers \ {w} : Undisturbed(job[v], jobs[v]),
           NEW c \in Components, job[w].at = c, NEW s, s # "stopped", Launched(w, jobs, s),
           UNCHANGED container, \A x \in Components : Stands(x)' => Stands(x) \/ x = c
    PROVE  Moved(w) /\ Alone(w) /\ UNCHANGED <<config, cached>>
<1>1. /\ Alone(w) /\ Silences(w, c) /\ Leaves(w)
      /\ status' = [x \in Components |-> IF x = c THEN s ELSE status[x]]
      /\ UNCHANGED <<cached, config, escaped, unbound, polled>>
  BY LaunchedLeaves
<1> QED
  BY <1>1, Reports

LEMMA GoonMoved ==
    ASSUME Inv, Downed, NEW w \in Workers, job[w].pc \in LaunchPcs,
           NEW c \in Components, job[w].at = c, c \in cached, NEW p \in Begun, Goon(w, job, p),
           p = "spawn" => Kind(c) = "process", p \in {"up", "health"} => Kind(c) = "docker",
           UNCHANGED container, \A x \in Components : Stands(x)' => Stands(x)
    PROVE  Moved(w) /\ Alone(w) /\ GoesTo(w, p) /\ UNCHANGED <<config, cached>>
<1>1. /\ job \in [Workers -> Jobs] /\ Begins(w, job)
      /\ \A v \in Workers \ {w} : Undisturbed(job[v], job[v])
  BY JobUndisturbed DEF Inv, Typed, Begins
<1>2. /\ Alone(w) /\ Silences(w, c) /\ GoesTo(w, p)
      /\ status' = [x \in Components |-> IF x = c THEN "starting" ELSE status[x]]
      /\ UNCHANGED <<cached, config, escaped, unbound, polled>>
  BY <1>1, GoonLeaves
<1> QED
  BY <1>2, Reports

\* The report that follows a command, and those that touch no child.
LEMMA AfterMoved ==
    ASSUME Inv, Downed, NEW w \in Workers, job[w].pc \in Begun, NEW ok \in BOOLEAN,
           After(w, job, ok), UNCHANGED container,
           \A x \in Components : Stands(x)' => Stands(x)
    PROVE  Moved(w) /\ Alone(w) /\ UNCHANGED <<config, cached>>
<1>0. PICK c : c = job[w].at
  OBVIOUS
<1>1. job[w].pc \in LaunchPcs /\ c \in Components /\ c \in cached
  BY <1>0, LaunchJob DEF Begun, Downed, Seated, Sits
<1>2. job \in [Workers -> Jobs] /\ \A v \in Workers \ {w} : Undisturbed(job[v], job[v])
  BY JobUndisturbed DEF Inv, Typed
<1>3. Kind(c) \in {"docker", "process", "oneshot"}
  BY <1>1, Parts DEF Inv, Typed, NoteTypes
<1>4. CASE \E s \in {"error", "running", "completed"} : Launched(w, job, s)
  BY <1>0, <1>1, <1>2, <1>4, LaunchedMoved
<1>5. CASE Kind(c) = "process" /\ Goon(w, job, "spawn")
  BY <1>0, <1>1, <1>5, GoonMoved DEF Begun, LaunchPcs
<1> QED
  BY <1>0, <1>3, <1>4, <1>5 DEF After

LEMMA KilledEndsDowned ==
    ASSUME Inv, Downed, NEW w \in Workers, NEW ok \in BOOLEAN, KilledEnds(w, ok)
    PROVE  Downed'
<1>1. job[w].pc = "killed" /\ After(w, job, ok) /\ UNCHANGED <<child, alive, container>>
  BY DEF KilledEnds, world
<1>2. Moved(w) /\ Alone(w) /\ UNCHANGED <<config, cached>>
  BY <1>1, AfterMoved DEF Begun, LaunchPcs, Stands
<1>3. Mains' /\ Waited'
  BY <1>1, <1>2, MainsKept, WaitedKept DEF Downed, Waits
<1> QED
  BY <1>2, <1>3, MovedKeeps

LEMMA CommandEndsDowned ==
    ASSUME Inv, Downed, NEW w \in Workers, NEW ok \in BOOLEAN, CommandEnds(w, ok)
    PROVE  Downed'
<1>1. /\ job[w].pc \in Waits /\ job[w].pc \in Begun /\ After(w, job, ok)
      /\ UNCHANGED container
  BY DEF CommandEnds, Waits, Begun, LaunchPcs
<1>2. PICK l \in alive : l.by = w /\ exits(l)
  BY DEF CommandEnds
<1>3. alive' = alive \ {l}
  BY <1>2 DEF exits
<1>4. Moved(w) /\ Alone(w) /\ UNCHANGED <<config, cached>>
  BY <1>1, <1>3, AfterMoved DEF Stands
<1>5. Mains'
  BY <1>2, <1>4, ExitMains DEF Downed, Inv, Typed
<1>6. Waited'
  <2> SUFFICES ASSUME NEW k \in alive', k.by # None
               PROVE  job'[k.by].at = k.of
    BY DEF Waited
  <2>1. k \in alive /\ k # l /\ k.by \in Workers /\ job[k.by].pc \in Waits
        /\ job[k.by].at = k.of
    BY <1>3 DEF Downed, Waited, Inv, Typed, WorldTypes, Children, ChildrenFit
  <2>2. k.by # w
    BY <1>2, <2>1 DEF Inv, ChildrenFit
  <2> QED
    BY <1>4, <2>1, <2>2 DEF Alone, Undisturbed
<1> QED
  BY <1>4, <1>5, <1>6, MovedKeeps

LEMMA UpDowned ==
    ASSUME Inv, Downed, NEW w \in Workers, Up(w)
    PROVE  Downed'
<1>0. PICK c : c = job[w].at
  OBVIOUS
<1>1. job[w].pc = "up" /\ job[w].pc \in LaunchPcs /\ UNCHANGED <<child, alive, container>>
  BY DEF Up, world, LaunchPcs
<1>2. c \in Components /\ c \in cached /\ Kind(c) = "docker"
  BY <1>0, <1>1, LaunchJob DEF Downed, Seated, Sits, Begun
<1>3. job \in [Workers -> Jobs] /\ \A v \in Workers \ {w} : Undisturbed(job[v], job[v])
  BY JobUndisturbed DEF Inv, Typed
<1>4. Moved(w) /\ Alone(w) /\ UNCHANGED <<config, cached>>
  <2>1. CASE Goon(w, job, "health")
    BY <1>0, <1>1, <1>2, <2>1, GoonMoved DEF Begun, LaunchPcs, Stands
  <2>2. CASE Launched(w, job, "error")
    BY <1>0, <1>1, <1>2, <1>3, <2>2, LaunchedMoved DEF Stands
  <2> QED
    BY <2>1, <2>2 DEF Up
<1>5. Mains' /\ Waited'
  BY <1>1, <1>4, MainsKept, WaitedKept DEF Downed, Waits
<1> QED
  BY <1>4, <1>5, MovedKeeps

LEMMA HealthDowned ==
    ASSUME Inv, Downed, NEW w \in Workers, Health(w)
    PROVE  Downed'
<1>0. PICK c : c = job[w].at
  OBVIOUS
<1>1. /\ job[w].pc = "health" /\ job[w].pc \in LaunchPcs \ Waits
      /\ UNCHANGED <<container>>
  BY DEF Health, LaunchPcs, Waits
<1>2. c \in Components /\ c \in cached
  BY <1>0, <1>1, LaunchJob DEF Downed, Seated, Sits, Begun
<1>3. /\ job \in [Workers -> Jobs] /\ Begins(w, job)
      /\ \A v \in Workers \ {w} : Undisturbed(job[v], job[v])
  BY JobUndisturbed DEF Inv, Typed, Begins
<1>4. CASE runProcess(Before(c), c, w) /\ Goon(w, job, "before")
  <2>1. Alone(w) /\ GoesTo(w, "before") /\ UNCHANGED <<config, cached>>
    BY <1>0, <1>2, <1>3, <1>4, GoonLeaves
  <2>2. Before(c) \in Ids
    BY <1>2, Parts DEF Inv, Typed, NoteTypes
  <2>3. Mains' /\ Waited' /\ \A d \in Components : Stands(d)' => Stands(d)
    BY <1>0, <1>1, <1>2, <1>4, <2>1, <2>2, RunDowned
  <2>4. Moved(w)
    BY <1>0, <1>1, <1>2, <1>4, <2>3, GoonMoved DEF Begun, LaunchPcs
  <2> QED
    BY <2>3, <2>4, MovedKeeps
<1>5. CASE UNCHANGED <<child, alive>> /\ \E s \in {"running", "error"} : Launched(w, job, s)
  <2>1. Moved(w) /\ Alone(w) /\ UNCHANGED <<config, cached>>
    BY <1>0, <1>1, <1>2, <1>3, <1>5, LaunchedMoved DEF Stands
  <2>2. Mains' /\ Waited'
    BY <1>1, <1>5, <2>1, MainsKept, WaitedKept DEF Downed, Waits
  <2> QED
    BY <2>1, <2>2, MovedKeeps
<1> QED
  BY <1>0, <1>4, <1>5 DEF Health

\* The child of that id is stopped, and another takes its place or none.
LEMMA SpawnDowned ==
    ASSUME Inv, Downed, NEW w \in Workers, Spawn(w)
    PROVE  Downed'
<1>0. PICK c, jobs : c = job[w].at /\ jobs = Killed(job, Main(c))
  OBVIOUS
<1>1. job[w].pc = "spawn" /\ job[w].pc \in LaunchPcs \ Waits /\ UNCHANGED container
  BY DEF Spawn, LaunchPcs, Waits
<1>2. c \in Components /\ c \in cached /\ Kind(c) = "process"
  BY <1>0, <1>1, LaunchJob DEF Downed, Seated, Sits, Begun
<1>3. Main(c) \in Ids /\ WorldTypes
  BY <1>2, Parts DEF Inv, Typed, NoteTypes
<1>4. jobs \in [Workers -> Jobs] /\ \A v \in Workers \ {w} : Undisturbed(job[v], jobs[v])
  BY <1>0, <1>3, KilledLeaves
<1>5. PICK s \in {"running", "error"} : Launched(w, jobs, s)
  BY <1>0 DEF Spawn
<1>6. UNCHANGED <<config, cached>>
  BY <1>5 DEF Launched, misc
<1>7. /\ Mains' /\ \A x \in Components : Stands(x)' => Stands(x) \/ x = c
      /\ \A k \in alive' : k \in alive \/ k.by = None
  <2>1. CASE startProcess(Main(c), c)
    <3>1. \A k \in alive' : k \in alive \/ k.by = None
      BY <2>1 DEF startProcess, Kid
    <3> QED
      BY <1>2, <1>3, <1>6, <2>1, <3>1, StartMains DEF Downed
  <2>2. CASE stopProcess(Main(c))
    BY <1>3, <1>6, <2>2, StopMains DEF Downed, Stands
  <2> QED
    BY <1>0, <2>1, <2>2 DEF Spawn
<1>8. Moved(w) /\ Alone(w)
  BY <1>0, <1>1, <1>2, <1>4, <1>5, <1>7, LaunchedMoved
<1>9. Waited'
  <2> SUFFICES ASSUME NEW k \in alive', k.by # None
               PROVE  job'[k.by].at = k.of
    BY DEF Waited
  <2>1. k \in alive /\ k.by \in Workers /\ job[k.by].pc \in Waits /\ job[k.by].at = k.of
    BY <1>7 DEF Downed, Waited, Inv, Typed, WorldTypes, Children, ChildrenFit
  <2> QED
    BY <1>1, <1>8, <2>1 DEF Alone, Undisturbed
<1> QED
  BY <1>7, <1>8, <1>9, MovedKeeps

\* The container of a launch comes up while docker compose up is under way.
LEMMA ComesUpDowned ==
    ASSUME Inv, Downed, NEW w \in Workers, ComesUp(w)
    PROVE  Downed'
<1>0. PICK c : c = job[w].at
  OBVIOUS
<1>1. /\ job[w].pc = "up" /\ container' = container \cup {c}
      /\ UNCHANGED <<job, status, cached, child, alive, config, escaped, unbound, polled>>
  BY <1>0 DEF ComesUp, benchVars, misc
<1>2. c \in Components /\ c \in cached /\ Kind(c) = "docker"
  BY <1>0, <1>1, LaunchJob DEF LaunchPcs, Downed, Seated, Sits, Begun
<1>3. \A x : (Swept(x)' <=> Swept(x)) /\ (Stands(x)' <=> Stands(x))
             /\ \A v \in Workers : Brings(v, x)' <=> Brings(v, x)
  BY <1>1 DEF Swept, Stands, Brings
<1>4. Seated' /\ Apart' /\ Mains' /\ Waited'
  BY <1>1 DEF Downed, Seated, Sits, Kind, Apart, User, Claims, Works, Of, Mains, Main, Waited
<1>5. Services'
  BY <1>1, <1>2, <1>3 DEF Downed, Services, Kind
<1>6. StopsEnd'
  <2> SUFFICES ASSUME NEW v \in Workers
               PROVE  (Emptied(v) /\ Ending(v))'
    BY DEF StopsEnd
  <2>1. Emptied(v)'
    BY <1>0, <1>1 DEF Downed, StopsEnd, Emptied
  <2>2. Ending(v)'
    BY <1>1, <1>3 DEF Downed, StopsEnd, Ending
  <2> QED
    BY <2>1, <2>2
<1>7. Down'
  <2> SUFFICES ASSUME NEW x \in Components, status'[x] = "stopped", Stays(x)'
               PROVE  Excepted(x)' \/ \E v \in Workers : Brings(v, x)'
    BY DEF Down
  <2>1. CASE x = c
    BY <1>0, <1>1, <2>1 DEF Brings, Begun, LaunchPcs
  <2>2. CASE x # c
    BY <1>1, <1>3, <2>2 DEF Downed, Down, Stays, Excepted
  <2> QED
    BY <2>1, <2>2
<1> QED
  BY <1>4, <1>5, <1>6, <1>7 DEF Downed

-----------------------------------------------------------------------------
(* Stops *)

\* A stop and another request, or the sweep, are not at the same component.
LEMMA StopperClaims ==
    ASSUME Inv, NEW v \in Workers, NEW c \in Components, job[v].pc \in StopPcs, job[v].at = c
    PROVE  Claims(v, c) /\ User(v)
BY DEF Inv, Typed, JobTypes, Jobs, Fits, Claims, User, Works

LEMMA SweeperClaims ==
    ASSUME NEW v \in Workers, NEW c \in Components, job[v].task = "sweep"
    PROVE  Claims(v, c)
BY DEF Claims, Works

\* A stop gets to c, which no other request works on.
LEMMA StoppingDowned ==
    ASSUME Inv, Downed, ~Overlap, NEW w \in Workers, NEW c \in Components,
           job[w].pc \in {"idle", "next"}, job[w].task # "sweep",
           NEW j \in JobType, j.task \in Stops,
           \A v \in Workers \ {w} : ~Claims(v, c),
           Stopping(w, j, c),
           \A x \in Components : Claims(w, x)' =>
              \/ Claims(w, x) /\ (User(w)' => User(w))
              \/ \A v \in Workers \ {w} : ~Works(v, x)
    PROVE  Downed'
<1>1. PICK k : k = [j EXCEPT !.at = c, !.held = TRUE, !.todo = @ \ {c},
                             !.bound = (Of(c) \in connected),
                             !.pc = IF c \in cached' /\ Kind(c) = "docker" THEN "composeStop"
                                    ELSE "stopping"]
  OBVIOUS
<1>2. /\ k.at = c /\ (k.bound <=> Of(c) \in connected)
      /\ k.pc = IF c \in cached' /\ Kind(c) = "docker" THEN "composeStop" ELSE "stopping"
  BY <1>1 DEF JobType
<1>3. job' = [job EXCEPT ![w] = k] /\ JobTypes
  BY <1>1 DEF Stopping, Inv, Typed
<1>4. Alone(w) /\ job'[w] = k
  BY <1>3, OneMoves
<1>5. /\ UNCHANGED <<child, alive, container, config, escaped>> /\ cached \subseteq cached'
      /\ unbound' = IF Of(c) \in connected THEN unbound \ {c} ELSE unbound \cup {c}
      /\ polled' = polled \ {c} /\ status' = [status EXCEPT ![c] = "stopping"]
  BY DEF Stopping, world, Noted
<1>6. Quiets(w)
  BY <1>5 DEF Quiets, Waits
<1>7. Sits(w)'
  BY <1>2, <1>4 DEF Sits, Begun, LaunchPcs, StopPcs
<1>8. Emptied(w)'
  <2>1. c \in container /\ c \notin cached => c \in escaped
    BY SweeperClaims DEF Downed, Services, Swept
  <2>2. c \in container => Kind(c) = "docker"
    BY DEF Downed, Services
  <2> QED
    BY <1>2, <1>4, <1>5, <2>1, <2>2 DEF Emptied
<1>9. Ending(w)'
  BY <1>2, <1>4, <1>5 DEF Ending
<1>10. \A v \in Workers \ {w} : job[v].pc \in StopPcs => job[v].at # c
  BY StopperClaims
<1>11. \A x \in Components : x # c =>
         (x \in unbound => x \in unbound') /\ (x \in polled => x \in polled')
  BY <1>5
<1>12. \A x \in Components : /\ ~Brings(w, x)
                             /\ ~(job[w].at = x /\ job[w].pc \in {"up", "begin"})
                             /\ status'[x] = "stopped" => x # c /\ status[x] = "stopped"
  BY <1>5 DEF Brings, Begun, LaunchPcs, Inv, Typed, BenchTypes
<1> QED
  BY <1>4, <1>6, <1>7, <1>8, <1>9, <1>10, <1>11, <1>12, QuietMoved

LEMMA StopDowned ==
    ASSUME Inv, Downed, ~Overlap, NEW w \in Workers, NEW b \in Benches, NEW S, NEW t \in Stops,
           Asked(b, S, t), Stop(w, b, S, t)
    PROVE  Downed'
<1>1. PICK j : j = [Idle EXCEPT !.task = t, !.of = b, !.todo = S]
  OBVIOUS
<1>2. j.task = t /\ j.of = b /\ j.todo = S /\ j \in JobType
  BY <1>1 DEF Idle, JobType, Tasks, Pcs, Stops, Asked
<1>3. job[w].task = "none" /\ job[w].pc = "idle"
  BY DEF Stop, Inv, Typed, JobTypes, Jobs, Fits
<1>4. PICK c \in S : Stopping(w, j, c)
  BY <1>1 DEF Stop
<1>5. \A v \in Workers, x \in S : ~Works(v, x)
  BY DEF Stop, MayCall
<1>6. PICK k : /\ k.at = c /\ k.todo \subseteq S /\ k.task = t /\ k.of = b
               /\ job' = [job EXCEPT ![w] = k]
  <2>1. PICK k : k = [j EXCEPT !.at = c, !.held = TRUE, !.todo = @ \ {c},
                             !.bound = (Of(c) \in connected),
                             !.pc = IF c \in cached' /\ Kind(c) = "docker" THEN "composeStop"
                                    ELSE "stopping"]
    OBVIOUS
  <2>2. k.at = c /\ k.todo \subseteq S /\ k.task = t /\ k.of = b
    BY <1>2, <2>1 DEF JobType
  <2> QED
    BY <1>4, <2>1, <2>2 DEF Stopping
<1>7. job'[w] = k
  BY <1>6, OneMoves DEF Inv, Typed
<1>8. ASSUME NEW x \in Components, Claims(w, x)'
      PROVE  \A v \in Workers \ {w} : ~Works(v, x)
  <2>1. Works(w, x)'
    BY <1>8 DEF Claims
  <2>2. x \in S
    BY <1>4, <1>6, <1>7, <2>1 DEF Works, Stops, Asked
  <2> QED
    BY <1>5, <2>2
<1>9. \A v \in Workers \ {w} : ~Claims(v, c)
  BY <1>4, <1>5 DEF Claims
<1>10. c \in Components
  BY <1>4 DEF Asked
<1> HIDE DEF Asked
<1> QED
  BY <1>2, <1>3, <1>4, <1>8, <1>9, <1>10, StoppingDowned

LEMMA StopNextDowned ==
    ASSUME Inv, Downed, ~Overlap, NEW w \in Workers, NEW c \in Components, StopNext(w, c)
    PROVE  Downed'
<1>1. /\ job[w].pc = "next" /\ job[w].task \in Stops /\ c \in job[w].todo
      /\ Stopping(w, job[w], c) /\ job[w] \in JobType
  BY DEF StopNext, Stops, Inv, Typed, JobTypes, Jobs
<1>2. Claims(w, c) /\ User(w)
  BY <1>1 DEF Claims, User, Works
<1>3. \A v \in Workers \ {w} : ~Claims(v, c)
  BY <1>2 DEF Downed, Apart
<1>4. PICK k : /\ k.at = c /\ k.todo \subseteq job[w].todo /\ k.task = job[w].task
               /\ k.of = job[w].of /\ job' = [job EXCEPT ![w] = k]
  <2>1. PICK k : k = [job[w] EXCEPT !.at = c, !.held = TRUE, !.todo = @ \ {c},
                             !.bound = (Of(c) \in connected),
                             !.pc = IF c \in cached' /\ Kind(c) = "docker" THEN "composeStop"
                                    ELSE "stopping"]
    OBVIOUS
  <2>2. k.at = c /\ k.todo \subseteq job[w].todo /\ k.task = job[w].task /\ k.of = job[w].of
    BY <1>1, <2>1 DEF JobType
  <2> QED
    BY <1>1, <2>1, <2>2 DEF Stopping
<1>5. job'[w] = k /\ config' = config
  BY <1>4, OneMoves DEF Inv, Typed, StopNext, Stopping
<1>6. \A x \in Components : Claims(w, x)' => Claims(w, x) /\ (User(w)' => User(w))
  BY <1>1, <1>4, <1>5 DEF Claims, User, Works, Of
<1> QED
  BY <1>1, <1>3, <1>6, StoppingDowned DEF Stops

LEMMA ComposeStoppedDowned ==
    ASSUME Inv, Downed, NEW w \in Workers, ComposeStopped(w)
    PROVE  Downed'
<1>0. PICK c : c = job[w].at
  OBVIOUS
<1>1. /\ job[w].pc = "composeStop" /\ container' = container \ {c}
      /\ UNCHANGED <<status, cached, child, alive, config, escaped, unbound, polled>>
  BY <1>0 DEF ComposeStopped, benchVars, misc
<1>2. PICK k : k = [job[w] EXCEPT !.pc = "composed"]
  OBVIOUS
<1>3. job' = [job EXCEPT ![w] = k] /\ job[w] \in JobType /\ JobTypes
  BY <1>2 DEF ComposeStopped, Inv, Typed, JobTypes, Jobs
<1>4. /\ k.at = c /\ k.pc = "composed" /\ k.held = job[w].held /\ k.bound = job[w].bound
      /\ k.task = job[w].task /\ k.of = job[w].of /\ k.todo = job[w].todo
      /\ k.entries = job[w].entries
  BY <1>0, <1>2, <1>3 DEF JobType
<1>5. Alone(w) /\ job'[w] = k /\ \A v \in Workers \ {w} : job'[v] = job[v]
  BY <1>3, OneMoves
<1>6. GoesTo(w, "composed")
  BY <1>0, <1>4, <1>5 DEF GoesTo
<1>7. Mains' /\ Waited'
  BY <1>1, <1>5, MainsKept, WaitedKept DEF Downed, Waits
<1>8. \A x : (Swept(x) => Swept(x)') /\ (Stands(x)' <=> Stands(x))
  <2>1. job[w].task # "sweep"
    BY <1>1 DEF Inv, Typed, JobTypes, Jobs, Fits, StopPcs, Stops
  <2> QED
    BY <1>1, <1>5, <2>1, SweptKept DEF Stands
<1>9. Sits(w)' /\ Emptied(w)' /\ Ending(w)'
  <2>1. Sits(w)' /\ Emptied(w)'
    BY <1>0, <1>1, <1>4, <1>5 DEF Sits, Emptied, Begun, LaunchPcs, StopPcs
  <2>2. Ending(w)'
    <3> SUFFICES ASSUME NEW x \in Components, k.at = x, k.held, ~k.bound, Stands(x)'
                 PROVE  x \in unbound' \/ \E v \in Workers : job'[v].at = x /\ job'[v].pc = "begin"
      BY <1>5 DEF Ending
    <3>1. x \in unbound \/ \E v \in Workers : job[v].at = x /\ job[v].pc = "begin"
      BY <1>0, <1>1, <1>4, <1>8 DEF Downed, StopsEnd, Ending, StopPcs
    <3> QED
      BY <1>1, <1>5, <3>1
  <2> QED
    BY <2>1, <2>2
<1>10. Moved(w)
  <2>1. \A x \in Components : Claims(w, x)' => Claims(w, x) /\ (User(w)' => User(w))
    BY <1>1, <1>6, GoesToClaims
  <2>2. \A x \in Components : Stays(x)' => Stays(x) /\ ~Brings(w, x)
    BY <1>1, <1>8 DEF Stays, Brings, Begun, LaunchPcs
  <2>3. container' \subseteq container /\ cached \subseteq cached'
    BY <1>1
  <2>4. \A x \in Components : ~(job[w].at = x /\ job[w].pc \in {"up", "begin"})
    BY <1>1
  <2> QED
    BY <1>1, <1>5, <1>8, <1>9, <2>1, <2>2, <2>3, <2>4 DEF Moved
<1> QED
  BY <1>7, <1>10, MovedKeeps

LEMMA StoppedDowned ==
    ASSUME Inv, Downed, NEW w \in Workers, Stopped(w)
    PROVE  Downed'
<1>0. PICK c, jobs : /\ c = job[w].at
                     /\ jobs = IF job[w].bound THEN Killed(job, Main(c)) ELSE job
  OBVIOUS
<1>1. /\ job[w].pc \in {"stopping", "composed"} /\ job[w].pc \in StopPcs /\ c \in Components
      /\ job[w].task \in Stops /\ job[w] \in JobType /\ job[w].bound \in BOOLEAN
      /\ job[w].held \in BOOLEAN
  BY <1>0 DEF Stopped, StopPcs, Inv, Typed, JobTypes, Jobs, JobType, Fits
<1>2. Main(c) \in Ids /\ WorldTypes /\ JobTypes
  BY <1>1, Parts DEF Inv, Typed, NoteTypes
<1>3. jobs \in [Workers -> Jobs] /\ \A v \in Workers \ {w} : Undisturbed(job[v], jobs[v])
  BY <1>0, <1>1, <1>2, KilledLeaves, JobUndisturbed
<1>4. job' = [jobs EXCEPT ![w] = Goes(w, job[w].todo)]
  BY <1>0 DEF Stopped
<1>5. Alone(w) /\ Leaves(w)
  <2>1. job'[w] = Goes(w, job[w].todo) /\ \A v \in Workers \ {w} : job'[v] = jobs[v]
    BY <1>3, <1>4
  <2> QED
    BY <1>2, <1>3, <2>1, GoesLeaves DEF Alone
<1>6. /\ UNCHANGED <<cached, container, config, escaped, unbound, polled>>
      /\ status' = [x \in Components |-> IF x = c /\ job[w].held THEN "stopped" ELSE status[x]]
      /\ IF job[w].bound THEN stopProcess(Main(c)) ELSE UNCHANGED <<child, alive>>
  BY <1>0 DEF Stopped, ReadsStopped, Report
<1>7. Mains' /\ alive' \subseteq alive /\ (job[w].bound => \A k \in alive' : k # child[Main(c)])
  <2>1. CASE job[w].bound
    BY <1>2, <1>6, <2>1, StopMains DEF Downed
  <2>2. CASE ~job[w].bound
    BY <1>6, <2>2, MainsKept DEF Downed
  <2> QED
    BY <2>1, <2>2
<1>8. Waited'
  BY <1>1, <1>5, <1>7, WaitedKept DEF Downed, StopPcs, Waits
<1>9. \A x : (Swept(x) => Swept(x)') /\ (Stands(x)' => Stands(x)) /\ (Stays(x)' => Stays(x))
  <2>1. \A x : Swept(x) => Swept(x)'
    BY <1>1, <1>5, SweptKept DEF Stops
  <2> QED
    BY <1>6, <1>7, <2>1 DEF Stands, Stays
\* What the stop reports.
<1>10. ASSUME job[w].held, Stays(c)'
       PROVE  Excepted(c)' \/ \E v \in Workers : Brings(v, c)'
  <2>1. ASSUME NEW v \in Workers, job[v].at = c, job[v].pc \in {"up", "begin"}
        PROVE  Brings(v, c)'
    <3>1. v # w
      BY <1>1, <2>1
    <3> QED
      BY <1>5, <2>1, <3>1 DEF Alone, Undisturbed, Brings, Begun, LaunchPcs, Waits
  <2>2. CASE c \in container
    BY <1>0, <1>1, <1>6, <1>10, <2>1, <2>2 DEF Downed, StopsEnd, Emptied, Excepted
  <2>3. CASE Stands(c)'
    <3>1. ~job[w].bound
      BY <1>7, <2>3 DEF Downed, Mains, Stands
    <3>2. c \in unbound \/ \E v \in Workers : job[v].at = c /\ job[v].pc = "begin"
      BY <1>0, <1>1, <1>9, <1>10, <2>3, <3>1 DEF Downed, StopsEnd, Ending
    <3> QED
      BY <1>6, <2>1, <3>2 DEF Excepted
  <2> QED
    BY <1>6, <1>10, <2>2, <2>3 DEF Stays
<1>11. Moved(w)
  <2>1. Sits(w)' /\ (Emptied(w) /\ Ending(w))'
    BY <1>5, NowhereSits DEF Leaves
  <2>2. \A x \in Components : Claims(w, x)' => Claims(w, x) /\ (User(w)' => User(w))
    BY <1>1, <1>5, <1>6, LeavesClaims
  <2>3. \A x \in Components : /\ ~Brings(w, x)
                              /\ ~(job[w].at = x /\ job[w].pc \in {"up", "begin"})
    BY <1>1 DEF Brings, Begun, LaunchPcs
  <2> QED
    BY <1>5, <1>6, <1>9, <1>10, <2>1, <2>2, <2>3 DEF Moved
<1> QED
  BY <1>7, <1>8, <1>11, MovedKeeps

-----------------------------------------------------------------------------
(* The poll, the world, the plugin manager and the crashes *)

LEMMA PollDowned ==
    ASSUME Inv, Downed, NEW S, Poll(S)
    PROVE  Downed'
<1>1. UNCHANGED <<job, config, escaped, unbound, child, alive, container, cached>>
  BY DEF Poll, world
<1>2. \A x \in Components : Stands(x)' => Stands(x)
  BY <1>1 DEF Stands
<1>3. Mains' /\ Waited'
  BY <1>1, MainsKept DEF Downed, Waited
<1>4. ASSUME NEW c \in Components, status'[c] = "stopped", Stays(c)'
      PROVE  c \in polled' \/ (status[c] = "stopped" /\ c \notin polled)
  <2>1. CASE c \in container
    BY <1>4, <2>1, PollShows DEF Inv
  <2>2. CASE c \notin container
    <3>1. Stands(c)
      BY <1>1, <1>2, <1>4, <2>2 DEF Stays
    <3>2. PICK k \in alive : k.of = c /\ k.by = None
      BY <3>1 DEF Stands
    <3>3. Kind(c) = "process" /\ child[Main(c)] = k
      BY <3>2 DEF Downed, Mains
    <3>4. k # None
      BY NoneIsNull DEF Inv, Typed, WorldTypes
    <3>5. status[c] = "stopped"
      BY <1>4, <3>3, <3>4, PollShows DEF Inv, IsAlive
    <3>6. c \in polled => c \in polled'
      BY <1>4 DEF Poll
    <3> QED
      BY <3>5, <3>6
  <2> QED
    BY <2>1, <2>2
<1> QED
  BY <1>1, <1>2, <1>3, <1>4, StillKeeps

LEMMA PollReadsDowned ==
    ASSUME Inv, Downed, PollReads
    PROVE  Downed'
<1>1. UNCHANGED <<job, config, escaped, unbound, polled, child, alive, container, cached, status>>
  BY DEF PollReads, benchVars, world
<1>2. Mains' /\ Waited'
  BY <1>1, MainsKept DEF Downed, Waited
<1> QED
  BY <1>1, <1>2, StillKeeps DEF Stands

LEMMA PollResolvesDowned ==
    ASSUME Inv, Downed, NEW c \in Components, PollResolves(c)
    PROVE  Downed'
<1>1. /\ UNCHANGED <<job, config, escaped, unbound, polled, child, alive, container, status>>
      /\ cached \subseteq cached'
  BY DEF PollResolves, world, misc
<1>2. Mains' /\ Waited'
  BY <1>1, MainsKept DEF Downed, Waited
<1> QED
  BY <1>1, <1>2, StillKeeps DEF Stands

LEMMA PluginDowned ==
    ASSUME Inv, Downed, NEW g \in Plugins, Respawn(g) \/ Disable(g) \/ Enable(g) \/ RollsBack(g)
    PROVE  Downed'
<1>1. UNCHANGED <<job, config, escaped, unbound, polled, child, alive, container, cached, status>>
  BY DEF Respawn, Disable, Enable, RollsBack, benchVars, world, misc
<1>2. Mains' /\ Waited'
  BY <1>1, MainsKept DEF Downed, Waited
<1> QED
  BY <1>1, <1>2, StillKeeps DEF Stands

LEMMA DiesDowned ==
    ASSUME Inv, Downed, NEW c \in Components, Dies(c)
    PROVE  Downed'
<1>1. UNCHANGED <<job, config, escaped, unbound, polled, cached, status>>
  BY DEF Dies, benchVars, misc
<1>2. /\ Mains' /\ alive' \subseteq alive /\ container' \subseteq container
  <2>1. CASE /\ Kid(Main(c), c, None) \in alive
             /\ exits(Kid(Main(c), c, None))
             /\ UNCHANGED container
    <3>1. PICK k : k \in alive /\ exits(k)
      BY <2>1
    <3> QED
      BY <1>1, <2>1, <3>1, ExitMains DEF Downed, Inv, Typed
  <2>2. CASE container' = container \ {c} /\ UNCHANGED <<child, alive>>
    BY <1>1, <2>2, MainsKept DEF Downed
  <2> QED
    BY <2>1, <2>2 DEF Dies
<1>3. Waited'
  BY <1>1, <1>2 DEF Downed, Waited
<1>4. \A x \in Components : Stands(x)' => Stands(x)
  BY <1>2 DEF Stands
<1> QED
  BY <1>1, <1>2, <1>3, <1>4, StillKeeps

\* A hook of the plugin manager takes a handler that does nothing.
LEMMA HookDowned ==
    ASSUME Inv, Downed, NEW w \in Workers, job[w].task = "none", Alone(w),
           job'[w].at = None, job'[w].task \in {"none", "restore", "cleanup"},
           UNCHANGED <<child, alive, container, config, escaped, unbound, polled, cached>>,
           \A x \in Components : status'[x] = "stopped" => status[x] = "stopped"
    PROVE  Downed'
<1>1. job[w].pc = "idle"
  BY DEF Inv, Typed, JobTypes, Jobs, Fits
<1>2. Quiets(w)
  BY <1>1 DEF Quiets, Waits
<1>3. Sits(w)' /\ (Emptied(w) /\ Ending(w))'
  BY NowhereSits
<1>4. \A x \in Components : /\ ~Claims(w, x)' /\ ~Brings(w, x)
                            /\ ~(job[w].at = x /\ job[w].pc \in {"up", "begin"})
  BY <1>1 DEF Claims, User, Starts, Stops, Brings, Begun, LaunchPcs
<1> QED
  BY <1>2, <1>3, <1>4, QuietMoved

LEMMA RestartedDowned ==
    ASSUME Inv, Downed, NEW g \in Plugins, NEW w \in Workers, Restarted(g, w)
    PROVE  Downed'
<1>1. PICK k : k = [Idle EXCEPT !.task = "restore", !.pc = "next", !.of = g,
                                    !.todo = {c \in Components : Of(c) = g}]
  OBVIOUS
<1>2. k.at = None /\ k.task = "restore"
  BY <1>1 DEF Idle
<1>3. job' = [job EXCEPT ![w] = k] /\ JobTypes /\ job[w].task = "none"
  BY <1>1 DEF Restarted, Inv, Typed
<1>4. Alone(w) /\ job'[w] = k
  BY <1>3, OneMoves
<1> QED
  BY <1>2, <1>3, <1>4, HookDowned DEF Restarted, benchVars, world, misc

LEMMA PluginCrashesDowned ==
    ASSUME Inv, Downed, NEW g \in Plugins, NEW w \in Workers, NEW again \in BOOLEAN,
           PluginCrashes(g, w, again)
    PROVE  Downed'
<1>1. Reaper(g).at = None /\ Reaper(g).task \in {"none", "cleanup"}
  <2>1. PICK E : E = {e \in getAllEntries : e.key[1] = g}
    OBVIOUS
  <2>2. Reaper(g) = IF E = {} THEN Idle ELSE Cleaning(g, E)
    BY <2>1 DEF Reaper, Cleaning
  <2> QED
    BY <2>2 DEF Idle, Cleaning
<1>2. PICK k : k = Reaper(g)
  OBVIOUS
<1>3. job' = [Stale(job, Crashed(g)) EXCEPT ![w] = k] /\ job[w].task = "none"
  BY <1>2 DEF PluginCrashes
<1>4. JobTypes /\ job \in [Workers -> Jobs] /\ \A v \in Workers \ {w} : Undisturbed(job[v], job[v])
  BY JobUndisturbed DEF Inv, Typed
<1>5. Alone(w) /\ job'[w] = k
  BY <1>3, <1>4, StaleLeaves
<1>6. \A x \in Components : status'[x] = "stopped" => status[x] = "stopped"
  BY DEF PluginCrashes, Report
<1> QED
  BY <1>1, <1>2, <1>3, <1>5, <1>6, HookDowned DEF PluginCrashes, world

\* What a cleanup or the sweep leaves to do after a step of it.
LEMMA ReapMoves ==
    ASSUME Inv, Downed, NEW w \in Workers, job[w].pc = "reap", Alone(w),
           job'[w].at = None \/ job'[w].at = job[w].at,
           job'[w].pc \in {"idle", "reap"},
           job'[w].task = job[w].task \/ job'[w].task = "none",
           UNCHANGED <<config, escaped, unbound, polled, cached, status>>,
           container' \subseteq container, alive' \subseteq alive,
           \A c \in container' : Swept(c) => Swept(c)'
    PROVE  Moved(w)
<1>1. job[w].at = None /\ job[w].task \in {"cleanup", "sweep"}
  <2>1. job[w].at # None => job[w].pc \in LaunchPcs \cup StopPcs
    BY DEF Downed, Seated, Sits
  <2> QED
    BY <2>1 DEF LaunchPcs, StopPcs, Inv, Typed, JobTypes, Jobs, Fits
<1>2. Sits(w)' /\ (Emptied(w) /\ Ending(w))'
  BY <1>1, NowhereSits
<1>3. \A x \in Components : Claims(w, x)' => Claims(w, x) /\ (User(w)' => User(w))
  BY <1>1 DEF Claims, User, Works, Starts, Stops
<1>4. \A x \in Components : /\ ~Brings(w, x) /\ Stays(x)' => Stays(x)
                            /\ Stands(x)' => Stands(x)
                            /\ ~(job[w].at = x /\ job[w].pc \in {"up", "begin"})
  BY DEF Stays, Stands, Brings, Begun, LaunchPcs
<1> QED
  BY <1>2, <1>3, <1>4 DEF Moved, Brings, Begun, LaunchPcs

LEMMA SweptStill ==
    ASSUME NEW w \in Workers, Alone(w), NEW x,
           \A f \in job[w].entries : BenchOf(x) \in f.projects =>
              /\ job'[w].task = job[w].task
              /\ \E h \in job'[w].entries : BenchOf(x) \in h.projects
    PROVE  Swept(x) => Swept(x)'
<1> SUFFICES ASSUME Swept(x)
             PROVE  Swept(x)'
  OBVIOUS
<1>1. PICK v \in Workers : /\ job[v].task = "sweep"
                           /\ \E f \in job[v].entries : BenchOf(x) \in f.projects
  BY DEF Swept
<1>2. CASE v = w
  BY <1>1, <1>2 DEF Swept, BenchOf
<1>3. CASE v # w
  BY <1>1, <1>3 DEF Swept, BenchOf, Alone, Undisturbed
<1> QED
  BY <1>2, <1>3

LEMMA ReapDowned ==
    ASSUME Inv, Downed, NEW w \in Workers, NEW e \in job[w].entries, Reap(w, e)
    PROVE  Downed'
<1>1. /\ job[w] \in JobType /\ job[w].pc = "reap" /\ e \in Entries /\ e.ids \in SUBSET Ids
      /\ JobTypes /\ WorldTypes
  BY DEF Reap, Inv, Typed, JobTypes, Jobs, JobType, Entries
<1>2. UNCHANGED <<config, escaped, unbound, polled, cached, status>>
  BY DEF Reap, benchVars, misc
<1>3. ASSUME NEW id \in e.ids, stopProcess(id), UNCHANGED container,
             job' = [Killed(job, id) EXCEPT ![w].entries =
                       (@ \ {e}) \cup {[e EXCEPT !.ids = @ \ {id}]}]
      PROVE  Downed'
  <2>1. PICK E, jobs : /\ E = (job[w].entries \ {e}) \cup {[e EXCEPT !.ids = @ \ {id}]}
                       /\ jobs = Killed(job, id)
    OBVIOUS
  <2>2. PICK k : k = [job[w] EXCEPT !.entries = E]
    OBVIOUS
  <2>3. /\ jobs \in [Workers -> Jobs] /\ jobs[w] = job[w]
        /\ \A v \in Workers \ {w} : Undisturbed(job[v], jobs[v])
    BY <1>1, <2>1, KilledLeaves DEF Waits
  <2>4. job' = [jobs EXCEPT ![w] = k]
    BY <1>3, <2>1, <2>2, <2>3
  <2>5. k.at = job[w].at /\ k.pc = "reap" /\ k.task = job[w].task /\ k.entries = E
    BY <1>1, <2>2 DEF JobType
  <2>6. Alone(w) /\ job'[w] = k
    BY <2>3, <2>4 DEF Alone
  <2>7. Mains' /\ alive' \subseteq alive
    BY <1>1, <1>2, <1>3, StopMains DEF Downed
  <2>8. Waited'
    BY <1>1, <2>6, <2>7, WaitedKept DEF Downed, Waits
  <2>9. \A x : Swept(x) => Swept(x)'
    <3>1. ASSUME NEW x, NEW f \in job[w].entries, BenchOf(x) \in f.projects
          PROVE  \E h \in E : BenchOf(x) \in h.projects
      <4>1. CASE f # e
        BY <2>1, <3>1, <4>1
      <4>2. CASE f = e
        <5>1. PICK h : h = [e EXCEPT !.ids = @ \ {id}]
          OBVIOUS
        <5>2. h.projects = e.projects /\ h \in E
          BY <1>1, <2>1, <5>1 DEF Entries
        <5> QED
          BY <3>1, <4>2, <5>2
      <4> QED
        BY <4>1, <4>2
    <3> QED
      BY <2>5, <2>6, <3>1, SweptStill
  <2>10. Moved(w)
    BY <1>1, <1>2, <1>3, <2>5, <2>6, <2>7, <2>9, ReapMoves
  <2> QED
    BY <2>7, <2>8, <2>10, MovedKeeps
\* In the other two no child moves.
<1>4. ASSUME NEW k, job' = [job EXCEPT ![w] = k], UNCHANGED <<child, alive>>,
             k.at = None \/ k.at = job[w].at, k.pc \in {"idle", "reap"},
             k.task = job[w].task \/ k.task = "none", container' \subseteq container,
             \A x \in container' : Swept(x) => Swept(x)'
      PROVE  Downed'
  <2>1. Alone(w) /\ job'[w] = k
    BY <1>1, <1>4, OneMoves
  <2>2. Mains' /\ Waited'
    BY <1>1, <1>2, <1>4, <2>1, MainsKept, WaitedKept DEF Downed, Waits
  <2>3. Moved(w)
    BY <1>1, <1>2, <1>4, <2>1, ReapMoves
  <2> QED
    BY <2>2, <2>3, MovedKeeps
<1>5. ASSUME NEW b \in e.projects, container' = {c \in container : BenchOf(c) # b},
             job' = [job EXCEPT ![w].entries = (@ \ {e}) \cup {[e EXCEPT !.projects = @ \ {b}]}],
             UNCHANGED <<child, alive>>
      PROVE  Downed'
  <2>1. PICK E : E = (job[w].entries \ {e}) \cup {[e EXCEPT !.projects = @ \ {b}]}
    OBVIOUS
  <2>2. PICK k : k = [job[w] EXCEPT !.entries = E]
    OBVIOUS
  <2>3. job' = [job EXCEPT ![w] = k]
    BY <1>1, <1>5, <2>1, <2>2 DEF JobTypes
  <2>4. k.at = job[w].at /\ k.pc = "reap" /\ k.task = job[w].task /\ k.entries = E
    BY <1>1, <2>2 DEF JobType
  <2>5. Alone(w) /\ job'[w] = k
    BY <1>1, <2>3, OneMoves
  <2>6. ASSUME NEW x \in container'
        PROVE  Swept(x) => Swept(x)'
    <3>1. ASSUME NEW f \in job[w].entries, BenchOf(x) \in f.projects
          PROVE  \E h \in E : BenchOf(x) \in h.projects
      <4>1. CASE f # e
        BY <2>1, <3>1, <4>1
      <4>2. CASE f = e
        <5>1. PICK h : h = [e EXCEPT !.projects = @ \ {b}]
          OBVIOUS
        <5>2. h.projects = e.projects \ {b} /\ h \in E
          BY <1>1, <2>1, <5>1 DEF Entries
        <5> QED
          BY <1>5, <2>6, <3>1, <4>2, <5>2
      <4> QED
        BY <4>1, <4>2
    <3> QED
      BY <2>4, <2>5, <3>1, SweptStill
  <2>7. container' \subseteq container
    BY <1>5
  <2> QED
    BY <1>4, <1>5, <2>3, <2>4, <2>6, <2>7
<1>6. ASSUME e.projects = {}, UNCHANGED world,
             job' = [job EXCEPT ![w] = IF job[w].entries = {e} THEN Idle
                       ELSE [job[w] EXCEPT !.entries = job[w].entries \ {e}]]
      PROVE  Downed'
  <2>1. PICK k : k = IF job[w].entries = {e} THEN Idle
                     ELSE [job[w] EXCEPT !.entries = job[w].entries \ {e}]
    OBVIOUS
  <2>2. job' = [job EXCEPT ![w] = k]
    BY <1>6, <2>1
  <2>3. \/ /\ job[w].entries = {e} /\ k.at = None /\ k.pc = "idle" /\ k.task = "none"
        \/ /\ k.at = job[w].at /\ k.pc = "reap" /\ k.task = job[w].task
           /\ k.entries = job[w].entries \ {e}
    BY <1>1, <2>1 DEF JobType, Idle
  <2>4. Alone(w) /\ job'[w] = k
    BY <1>1, <2>2, OneMoves
  <2>5. \A x : Swept(x) => Swept(x)'
    BY <1>6, <2>3, <2>4, SweptStill
  <2> QED
    BY <1>4, <1>6, <2>2, <2>3, <2>5 DEF world
<1> QED
  BY <1>3, <1>5, <1>6 DEF Reap

LEMMA HostCrashDowned ==
    ASSUME Inv, Downed, ~Overlap, NEW w \in Workers, HostCrash(w)
    PROVE  Downed'
<1>1. PICK E : E = {[e EXCEPT !.ids = {}] : e \in getAllEntries}
  OBVIOUS
<1>2. /\ Sweeper.at = None /\ Sweeper.task \in {"none", "sweep"}
      /\ getAllEntries # {} => Sweeper.task = "sweep" /\ Sweeper.entries = E
      /\ Idle.at = None /\ Idle.task = "none"
  <2>1. Sweeper = IF getAllEntries = {} THEN Idle ELSE Sweeping(E)
    BY <1>1, Zenon DEF Sweeper, Sweeping
  <2> QED
    BY <2>1 DEF Sweeping, Idle
<1>3. /\ \A v \in Workers : job'[v].at = None /\ job'[v].task \in {"none", "sweep"}
      /\ getAllEntries # {} => job'[w].task = "sweep" /\ job'[w].entries = E
  BY <1>2 DEF HostCrash
<1>4. alive' = {} /\ container' = container /\ config' = config
      /\ escaped' = {c \in container : BenchOf(c) \notin composeProjects[Key(c)]}
  BY DEF HostCrash, Noted
<1>5. ASSUME NEW c \in container, c \notin escaped'
      PROVE  Swept(c)'
  <2>1. c \in Components /\ Key(c) \in Keys /\ BenchOf(c) \in composeProjects[Key(c)]
    BY <1>4, <1>5, Parts DEF Inv, Typed, WorldTypes, NoteTypes
  <2>2. PICK e \in getAllEntries : e.projects = composeProjects[Key(c)] /\ e \in Entries
    BY <2>1, EntriesFit DEF getAllEntries, Inv, Typed
  <2>3. [e EXCEPT !.ids = {}] \in E /\ [e EXCEPT !.ids = {}].projects = e.projects
    BY <1>1, <2>2 DEF Entries
  <2>4. job'[w].task = "sweep" /\ job'[w].entries = E
    BY <1>3, <2>2
  <2> QED
    BY <2>1, <2>2, <2>3, <2>4 DEF Swept, BenchOf
<1>6. Seated' /\ StopsEnd'
  BY <1>3, NoneIsNull DEF Seated, Sits, StopsEnd, Emptied, Ending
<1>7. Apart'
  BY <1>3 DEF Apart, User, Starts, Stops
<1>8. Mains' /\ Waited'
  BY <1>4 DEF Mains, Waited
<1>9. Services'
  BY <1>4, <1>5 DEF Services, Downed, Kind
<1>10. Down'
  BY <1>4, <1>5 DEF Down, Stays, Stands, Excepted
<1> QED
  BY <1>6, <1>7, <1>8, <1>9, <1>10 DEF Downed

-----------------------------------------------------------------------------

LEMMA InitDowned == Init => Downed
<1> SUFFICES ASSUME Init
             PROVE  Downed
  OBVIOUS
<1>1. \A w \in Workers : job[w].at = None /\ job[w].task = "none"
  BY DEF Init, Idle
<1>2. alive = {} /\ container = {}
  BY DEF Init
<1>3. Seated /\ StopsEnd /\ Apart
  BY <1>1, NoneIsNull DEF Seated, Sits, StopsEnd, Emptied, Ending, Apart, User, Starts, Stops
<1> QED
  BY <1>2, <1>3 DEF Downed, Mains, Waited, Services, Down, Stays, Stands

LEMMA RequestDowned ==
    ASSUME Inv, Downed, ~Overlap, NEW w \in Workers, Request(w)
    PROVE  Downed'
<1>1. PICK b \in Benches :
        \/ \E c \in {c \in Components : BenchOf(c) = b} :
             Start(w, b, {c}, "start") \/ Stop(w, b, {c}, "stop")
        \/ Start(w, b, {c \in Components : BenchOf(c) = b}, "startAll")
        \/ Stop(w, b, {c \in Components : BenchOf(c) = b}, "stopAll")
  BY DEF Request
<1>2. ASSUME NEW c \in Components
      PROVE  Asked(b, {c}, "start") /\ Asked(b, {c}, "stop")
  BY DEF Asked
<1>3. \A t : Asked(b, {c \in Components : BenchOf(c) = b}, t)
  BY DEF Asked
<1>4. {"start", "startAll"} \subseteq Starts /\ {"stop", "stopAll"} \subseteq Stops
  BY DEF Starts, Stops
<1>5. CASE \E c \in {c \in Components : BenchOf(c) = b} :
             Start(w, b, {c}, "start") \/ Stop(w, b, {c}, "stop")
  BY <1>2, <1>4, <1>5, StartDowned, StopDowned
<1>6. CASE \/ Start(w, b, {c \in Components : BenchOf(c) = b}, "startAll")
           \/ Stop(w, b, {c \in Components : BenchOf(c) = b}, "stopAll")
  BY <1>3, <1>4, <1>6, StartDowned, StopDowned
<1> QED
  BY <1>1, <1>5, <1>6

LEMMA NextDowned ==
    ASSUME ~Overlap
    PROVE  Inv /\ Downed /\ [Next]_vars => Downed'
<1> SUFFICES ASSUME Inv, Downed, [Next]_vars
             PROVE  Downed'
  OBVIOUS
<1>1. ASSUME NEW w \in Workers, Step(w)
      PROVE  Downed'
  BY <1>1, SkipDowned, LaunchDowned, StopNextDowned, TranslateDowned, BeginDowned, UpDowned,
     HealthDowned, SpawnDowned, CommandEndsDowned, KilledEndsDowned, ComposeStoppedDowned,
     StoppedDowned, ReapDowned
     DEF Step
<1>2. ASSUME NEW w \in Workers, ComesUp(w) \/ Request(w) \/ HostCrash(w)
      PROVE  Downed'
  BY <1>2, ComesUpDowned, RequestDowned, HostCrashDowned
<1>3. ASSUME NEW g \in Plugins, NEW w \in Workers,
             Restarted(g, w) \/ \E again \in BOOLEAN : PluginCrashes(g, w, again)
      PROVE  Downed'
  BY <1>3, RestartedDowned, PluginCrashesDowned
<1>4. ASSUME NEW g \in Plugins, Respawn(g) \/ Disable(g) \/ Enable(g) \/ RollsBack(g)
      PROVE  Downed'
  BY <1>4, PluginDowned
<1>5. ASSUME NEW c \in Components, PollResolves(c) \/ Dies(c)
      PROVE  Downed'
  BY <1>5, PollResolvesDowned, DiesDowned
<1>7. CASE PollReads \/ \E S \in listings \cup {{}} : Poll(S)
  BY <1>7, PollReadsDowned, PollDowned
<1>6. CASE UNCHANGED vars
  <2>1. UNCHANGED <<job, config, escaped, unbound, polled, child, alive, container, cached, status>>
    BY <1>6 DEF vars, benchVars, world, misc
  <2>2. Mains' /\ Waited'
    BY <2>1, MainsKept DEF Downed, Waited
  <2> QED
    BY <2>1, <2>2, StillKeeps DEF Stands
<1> QED
  BY <1>1, <1>2, <1>3, <1>4, <1>5, <1>6, <1>7 DEF Next

\* Nothing that runs is left of a component that reads as stopped and that no handler works
\* on: stopComponent reports only after it stopped the container and the process, and what
\* the host left running at a crash is in the ledger for the sweep. The poll
\* (refreshComponentStatuses) looks at the processes when it reports them; what it reports
\* of a container that runs, because that is unhealthy, the listing failed or is older, is
\* in polled until a launch, a stop or a poll corrects it. Requests do not overlap; plugins
\* and the host crash at any time, and commands and containers end by themselves. Whatever a
\* crash hook does meanwhile, a stop stops what the launch beside it has brought up, or that
\* launch reports after it.
THEOREM StoppedDown ==
    ASSUME ~Overlap
    PROVE  Spec => []StoppedIsDown
<1>1. Inv /\ Downed => StoppedIsDown
  <2> SUFFICES ASSUME Inv, Downed, NEW c \in Components, status[c] = "stopped", Quiet(c), Runs(c)
               PROVE  c \in escaped \cup unbound \cup polled
    BY DEF StoppedIsDown
  <2>1. \A v \in Workers : ~Works(v, c)
    BY DEF Quiet
  <2>2. Stays(c)
    <3>1. ASSUME NEW k \in alive, k.of = c, k.by # None
          PROVE  FALSE
      <4>1. k.by \in Workers /\ job[k.by].at = c
        BY <3>1 DEF Downed, Waited, Inv, Typed, WorldTypes, Children
      <4> QED
        BY <2>1, <4>1 DEF Works
    <3> QED
      BY <3>1 DEF Runs, Stays, Stands
  <2>3. ~Swept(c) /\ \A v \in Workers : ~Brings(v, c)
    BY <2>1 DEF Swept, Brings, Works
  <2> QED
    BY <2>2, <2>3 DEF Downed, Down, Excepted
<1>2. Init => Downed
  BY InitDowned
<1>3. Inv /\ Downed /\ [Next]_vars => Downed'
  BY NextDowned
<1> QED
  BY <1>1, <1>2, <1>3, Invariance, PTL DEF Spec

-----------------------------------------------------------------------------
(* What the handlers know of their components when requests do not overlap:  *)
(* what a handler does at a component that no other has met is its own doing. *)

\* A recovery has the components of its plugin before it, whoever works on them.
Away(w, c) == job[w].task = "restore" /\ job[w].at # c
Lone == \A c \in Components \ crossed, v, w \in Workers :
    v # w /\ Works(v, c) /\ Works(w, c) => Away(v, c) \/ Away(w, c)

Knows(w) == \A c \in Components \ crossed : job[w].at = c =>
    /\ job[w].pc \in LaunchPcs =>
         /\ status[c] = "starting" /\ c \in inFlight
         /\ Of(c) \notin backoff \ connected
         /\ job[w].pc = "translate" => job[w].held
    /\ job[w].pc \in StopPcs =>
         /\ status[c] = "stopping" /\ job[w].held
         /\ job[w].bound \/ c \in unbound

\* A stop works in its bench. One that began with the plugin up and goes on without it: the
\* loss met all the components of the bench that are of this plugin.
Halts(w) == job[w].task \in Stops => \A c \in Components :
    /\ c \in job[w].todo \/ c = job[w].at => BenchOf(c) = job[w].of
    /\ job[w].at = c /\ job[w].bound /\ Of(c) \notin connected =>
         \A d \in Components : Of(d) = Of(c) /\ BenchOf(d) = BenchOf(c) => d \in crossed

OwnIds(k) == {Main(k.of), Before(k.of)}

Steady ==
    /\ Lone
    /\ \A w \in Workers : Knows(w) /\ Halts(w)
    /\ \A c \in Components : status[c] = "completed" => Kind(c) = "oneshot"
    /\ \A k \in alive : k.id \in OwnIds(k)

\* What a step of w reports is of the components S, where no other handler is but at one
\* that it has met.
Touches(w, S) ==
    /\ \A c \in Components \ S : /\ status'[c] = status[c]
                                 /\ c \in inFlight => c \in inFlight'
                                 /\ c \in unbound => c \in unbound'
    /\ \A v \in Workers \ {w} : job[v].at \notin S => job'[v].held = job[v].held
    /\ \A v \in Workers \ {w}, c \in S : c \in crossed' \/ job[v].at # c

\* A component is no longer of those met only once a launch of it begins alone.
Forgets(w) == \A c \in crossed : c \in crossed' \/
    (Of(c) \in connected /\ \A v \in Workers \ {w} : ~Works(v, c))

Calls(w) == \A c \in Components : Works(w, c)' =>
    \/ c \in crossed' \/ Away(w, c)'
    \/ Works(w, c) /\ (Away(w, c) => Away(w, c)')
    \/ \A v \in Workers \ {w} : ~Works(v, c)

\* A component that a handler is at and no other works on.
LEMMA AloneAt ==
    ASSUME Lone, NEW w \in Workers, NEW c \in Components \ crossed, Works(w, c), ~Away(w, c),
           NEW v \in Workers \ {w}, Works(v, c)
    PROVE  Away(v, c) /\ job[v].at # c
BY DEF Lone, Away

LEMMA WorksStill ==
    ASSUME NEW w \in Workers, Alone(w), config' = config, NEW v \in Workers \ {w}, NEW c
    PROVE  (Works(v, c)' <=> Works(v, c)) /\ (Away(v, c)' <=> Away(v, c))
<1>1. Undisturbed(job[v], job'[v])
  BY DEF Alone
<1> QED
  BY <1>1 DEF Undisturbed, Works, Away, Of

LEMMA LoneKept ==
    ASSUME Lone, NEW w \in Workers, Alone(w), config' = config, Forgets(w), Calls(w)
    PROVE  Lone'
<1> SUFFICES ASSUME NEW c \in Components, c \notin crossed', NEW u \in Workers, NEW v \in Workers,
                    u # v, v # w, Works(u, c)', Works(v, c)'
             PROVE  Away(u, c)' \/ Away(v, c)'
  BY DEF Lone
<1>1. Works(v, c) /\ (Away(v, c)' <=> Away(v, c))
  BY WorksStill
<1>2. c \notin crossed
  BY <1>1 DEF Forgets
<1>3. CASE u # w
  BY <1>1, <1>2, <1>3, WorksStill DEF Lone
<1>4. CASE u = w
  BY <1>1, <1>2, <1>4 DEF Lone, Calls
<1> QED
  BY <1>3, <1>4

LEMMA KnowsKept ==
    ASSUME NEW w \in Workers, Alone(w), UNCHANGED <<config, connected, backoff>>, Forgets(w),
           NEW S, Touches(w, S), NEW v \in Workers \ {w}, Knows(v)
    PROVE  Knows(v)'
<1> SUFFICES ASSUME NEW c \in Components, c \notin crossed', job'[v].at = c
             PROVE  /\ job'[v].pc \in LaunchPcs =>
                         /\ status'[c] = "starting" /\ c \in inFlight'
                         /\ Of(c)' \notin backoff' \ connected'
                         /\ job'[v].pc = "translate" => job'[v].held
                    /\ job'[v].pc \in StopPcs =>
                         /\ status'[c] = "stopping" /\ job'[v].held
                         /\ job'[v].bound \/ c \in unbound'
  BY DEF Knows
<1>1. Undisturbed(job[v], job'[v]) /\ job[v].at = c
  BY DEF Alone, Undisturbed
<1>2. c \notin crossed
  BY <1>1 DEF Forgets, Works
<1>3. c \notin S
  BY <1>1 DEF Touches
<1>4. /\ status'[c] = status[c] /\ job'[v].held = job[v].held
      /\ c \in inFlight => c \in inFlight'
      /\ c \in unbound => c \in unbound'
  BY <1>1, <1>3 DEF Touches
<1> QED
  BY <1>1, <1>2, <1>4 DEF Knows, Undisturbed, Waits, LaunchPcs, StopPcs, Of

LEMMA HaltsKept ==
    ASSUME NEW w \in Workers, Alone(w), UNCHANGED <<config, connected>>, Forgets(w),
           NEW v \in Workers \ {w}, Halts(v)
    PROVE  Halts(v)'
<1>1. Undisturbed(job[v], job'[v])
  BY DEF Alone
<1> QED
  BY <1>1 DEF Halts, Undisturbed, Forgets, Of, BenchOf

LEMMA SteadyKept ==
    ASSUME Steady, NEW w \in Workers, Alone(w), UNCHANGED <<config, connected, backoff>>,
           Forgets(w), Calls(w), NEW S, Touches(w, S), (Knows(w) /\ Halts(w))',
           \A c \in Components : status'[c] = "completed" =>
              status[c] = "completed" \/ Kind(c) = "oneshot",
           \A k \in alive' : k \in alive \/ k.id \in OwnIds(k)
    PROVE  Steady'
<1>1. Lone'
  BY LoneKept DEF Steady
<1>2. \A v \in Workers \ {w} : Knows(v)' /\ Halts(v)'
  BY KnowsKept, HaltsKept DEF Steady
<1>3. \A c \in Components : status'[c] = "completed" => Kind(c)' = "oneshot"
  BY DEF Steady, Kind
<1>4. \A k \in alive' : k.id \in OwnIds(k)'
  BY DEF Steady, OwnIds, Main, Before
<1> QED
  BY <1>1, <1>2, <1>3, <1>4 DEF Steady

-----------------------------------------------------------------------------
(* Steady: the steps of a launch *)

\* Jobs in which at most the child of another handler was stopped.
Sideways(w, jobs) ==
    /\ jobs \in [Workers -> Jobs]
    /\ \A v \in Workers \ {w} : Undisturbed(job[v], jobs[v]) /\ jobs[v].held = job[v].held

Reaches(w, c) ==
    /\ \E p \in Begun : GoesTo(w, p)
    /\ status'[c] = "starting" \/ (c \in crossed /\ status'[c] = status[c])
    /\ inFlight' = inFlight
Lands(w, c) ==
    /\ Leaves(w)
    /\ status'[c] = "completed" => status[c] = "completed" \/ Kind(c) = "oneshot"
    /\ inFlight \ {c} \subseteq inFlight'

\* A step of the launch of c which w is at.
Launching(w, c) ==
    /\ Alone(w) /\ UNCHANGED <<config, connected, backoff, crossed, unbound>>
    /\ \A v \in Workers \ {w} : job[v].at # c => job'[v].held = job[v].held
    /\ \A x \in Components \ {c} : status'[x] = status[x]
    /\ Reaches(w, c) \/ Lands(w, c)

LEMMA SidewaysJob ==
    ASSUME JobTypes, NEW w \in Workers
    PROVE  Sideways(w, job)
BY DEF JobTypes, Sideways, Undisturbed

LEMMA SidewaysKilled ==
    ASSUME Inv, NEW w \in Workers, NEW id \in Ids
    PROVE  Sideways(w, Killed(job, id))
<1>1. IsAlive(id) /\ child[id].by \in Workers => job[child[id].by].pc \in Waits
  BY ComponentParameters DEF Inv, ChildrenFit, IsAlive
<1>2. job \in [Workers -> Jobs] /\ WorldTypes
  BY DEF Inv, Typed, JobTypes
<1>3. \A v \in Workers : Killed(job, id)[v].held = job[v].held
  BY <1>1, <1>2, KilledFits
<1> QED
  BY <1>3, KilledLeaves DEF Sideways

LEMMA StaleSpares ==
    ASSUME NEW w \in Workers, NEW jobs, Sideways(w, jobs), NEW S, NEW k,
           job' = [Stale(jobs, S) EXCEPT ![w] = k]
    PROVE  \A v \in Workers \ {w} : job[v].at \notin S => job'[v].held = job[v].held
<1> SUFFICES ASSUME NEW v \in Workers \ {w}, job[v].at \notin S
             PROVE  job'[v].held = job[v].held
  OBVIOUS
<1>1. job'[v] = IF jobs[v].at \in S THEN [jobs[v] EXCEPT !.held = FALSE] ELSE jobs[v]
  BY DEF Stale
<1> QED
  BY <1>1 DEF Sideways, Undisturbed

LEMMA LaunchedLaunching ==
    ASSUME Inv, NEW w \in Workers, NEW jobs, Sideways(w, jobs), NEW c \in Components,
           job[w].at = c, NEW s, Launched(w, jobs, s), s = "completed" => Kind(c) = "oneshot"
    PROVE  Launching(w, c)
<1>1. jobs \in [Workers -> Jobs] /\ \A v \in Workers \ {w} : Undisturbed(job[v], jobs[v])
  BY DEF Sideways
<1>2. /\ Alone(w) /\ Leaves(w)
      /\ status' = [x \in Components |-> IF x = c THEN s ELSE status[x]]
      /\ inFlight' = inFlight \ {c}
      /\ UNCHANGED <<connected, backoff, config, crossed, unbound>>
  BY <1>1, LaunchedLeaves
<1>3. job' = [Stale(jobs, {c}) EXCEPT ![w] = Goes(w, Rest(w, s))]
  BY DEF Launched
<1>4. \A v \in Workers \ {w} : job[v].at \notin {c} => job'[v].held = job[v].held
  BY <1>3, StaleSpares
<1> QED
  BY <1>2, <1>4 DEF Launching, Lands

LEMMA GoonLaunching ==
    ASSUME Inv, NEW w \in Workers, NEW jobs, Sideways(w, jobs), Begins(w, jobs),
           NEW c \in Components, job[w].at = c, NEW p \in Begun, Goon(w, jobs, p)
    PROVE  Launching(w, c)
<1>1. jobs \in [Workers -> Jobs] /\ \A v \in Workers \ {w} : Undisturbed(job[v], jobs[v])
  BY DEF Sideways
<1>2. /\ Alone(w) /\ GoesTo(w, p)
      /\ status' = [x \in Components |-> IF x = c THEN "starting" ELSE status[x]]
      /\ UNCHANGED <<inFlight, connected, backoff, config, crossed, unbound>>
  BY <1>1, GoonLeaves
<1>3. PICK k : k = [Stale(jobs, {c})[w] EXCEPT !.pc = p]
  OBVIOUS
<1>4. job' = [Stale(jobs, {c}) EXCEPT ![w] = k]
  BY <1>3 DEF Goon, Stale
<1>5. \A v \in Workers \ {w} : job[v].at \notin {c} => job'[v].held = job[v].held
  BY <1>4, StaleSpares
<1> QED
  BY <1>2, <1>5 DEF Launching, Reaches

LEMMA LeavesCalls ==
    ASSUME NEW w \in Workers, Leaves(w), config' = config, job[w].task \in Launches \cup Stops
    PROVE  Calls(w) /\ Knows(w)'
<1>1. Knows(w)'
  BY NoneIsNull DEF Leaves, Knows
<1>2. ASSUME NEW c \in Components, Works(w, c)'
      PROVE  Works(w, c) /\ (Away(w, c) => Away(w, c)')
  BY <1>2, NoneIsNull DEF Leaves, Works, Away, Launches, Starts, Stops, Of
<1> QED
  BY <1>1, <1>2 DEF Calls

LEMMA GoesToCalls ==
    ASSUME NEW w \in Workers, NEW p, GoesTo(w, p), config' = config
    PROVE  Calls(w)
BY DEF GoesTo, Calls, Works, Away, Of

LEMMA LaunchingSteady ==
    ASSUME Inv, Steady, NEW w \in Workers, job[w].pc \in LaunchPcs, NEW c \in Components,
           job[w].at = c, Launching(w, c), \A k \in alive' : k \in alive \/ k.id \in OwnIds(k)
    PROVE  Steady'
<1>1. job[w].task \in Launches /\ Works(w, c) /\ ~Away(w, c)
  BY LaunchJob DEF Works, Away
<1>2. Forgets(w)
  BY DEF Launching, Forgets
<1>3. Touches(w, {c})
  <2>1. \A v \in Workers \ {w} : c \in crossed \/ job[v].at # c
    BY <1>1, AloneAt DEF Steady, Works
  <2> QED
    BY <2>1 DEF Launching, Reaches, Lands, Touches
<1>4. job[w].task \notin Stops
  BY <1>1 DEF Launches, Starts, Stops
<1>5. CASE Reaches(w, c)
  <2>1. PICK p \in Begun : GoesTo(w, p)
    BY <1>5 DEF Reaches
  <2>2. Calls(w)
    BY <2>1, GoesToCalls DEF Launching
  <2>3. Halts(w)'
    BY <1>4, <2>1 DEF Halts, GoesTo
  <2>4. Knows(w)'
    <3>1. job'[w].at = c /\ job'[w].pc \in LaunchPcs \ StopPcs /\ job'[w].pc # "translate"
      BY <2>1 DEF GoesTo, Begun, LaunchPcs, StopPcs
    <3>2. c \notin crossed => c \in inFlight /\ Of(c) \notin backoff \ connected
      BY DEF Steady, Knows
    <3> QED
      BY <1>5, <3>1, <3>2 DEF Knows, Reaches, Launching, Of
  <2>5. \A x \in Components : status'[x] = "completed" =>
              status[x] = "completed" \/ Kind(x) = "oneshot"
    BY <1>5 DEF Launching, Reaches
  <2> QED
    BY <1>2, <1>3, <2>2, <2>3, <2>4, <2>5, SteadyKept DEF Launching
<1>6. CASE Lands(w, c)
  <2>1. Calls(w) /\ Knows(w)'
    BY <1>1, <1>6, LeavesCalls DEF Lands, Launching
  <2>2. Halts(w)'
    BY <1>1, <1>4, <1>6 DEF Halts, Lands, Leaves, Stops
  <2>3. \A x \in Components : status'[x] = "completed" =>
              status[x] = "completed" \/ Kind(x) = "oneshot"
    BY <1>6 DEF Launching, Lands
  <2> QED
    BY <1>2, <1>3, <2>1, <2>2, <2>3, SteadyKept DEF Launching
<1> QED
  BY <1>5, <1>6 DEF Launching

\* A command or a process of the component.
LEMMA OwnKids ==
    ASSUME NEW c, NEW id \in {Main(c), Before(c)}, NEW w,
           runProcess(id, c, w) \/ startProcess(id, c)
    PROVE  \A k \in alive' : k \in alive \/ k.id \in OwnIds(k)
BY DEF runProcess, startProcess, Kid, OwnIds

LEMMA TranslateLaunching ==
    ASSUME Inv, Steady, NEW w \in Workers, Translate(w)
    PROVE  Launching(w, job[w].at)
<1>0. PICK c : c = job[w].at
  OBVIOUS
<1>1. job[w].pc = "translate" /\ c \in Components /\ job[w].task \in Launches
      /\ job[w] \in JobType /\ JobTypes /\ job[w].pc \in LaunchPcs /\ BenchTypes
  BY <1>0, LaunchJob DEF Translate, LaunchPcs, Inv, Typed, JobTypes, Jobs
<1>2. UNCHANGED <<config, connected, backoff, crossed, unbound>>
  BY DEF Translate, plugin, misc
<1>3. CASE job' = [job EXCEPT ![w].pc = "begin"] /\ UNCHANGED <<status, inFlight>>
  <2>1. PICK k : k = [job[w] EXCEPT !.pc = "begin"]
    OBVIOUS
  <2>2. /\ k.at = c /\ k.task = job[w].task /\ k.of = job[w].of /\ k.todo = job[w].todo
        /\ k.pc = "begin" /\ k.bound = job[w].bound /\ k.entries = job[w].entries
    BY <1>0, <1>1, <2>1 DEF JobType
  <2>3. job' = [job EXCEPT ![w] = k]
    BY <1>1, <1>3, <2>1 DEF JobTypes
  <2>4. Alone(w) /\ GoesTo(w, "begin") /\ \A v \in Workers \ {w} : job'[v] = job[v]
    BY <1>0, <1>1, <2>2, <2>3, OneMoves DEF GoesTo
  <2>5. c \notin crossed => status[c] = "starting"
    BY <1>0, <1>1 DEF Steady, Knows
  <2>6. "begin" \in Begun
    BY DEF Begun, LaunchPcs
  <2>7. Reaches(w, c)
    BY <1>3, <2>4, <2>5, <2>6 DEF Reaches
  <2> QED
    BY <1>0, <1>2, <1>3, <2>4, <2>7 DEF Launching
<1>4. CASE /\ status' = IF job[w].held THEN [status EXCEPT ![c] = "error"] ELSE status
           /\ job' = [job EXCEPT ![w] = Goes(w, Rest(w, status'[c]))]
           /\ UNCHANGED <<inFlight, cached>>
  <2>1. PICK rest : rest = Rest(w, status'[c])
    OBVIOUS
  <2>2. rest \subseteq job[w].todo /\ job' = [job EXCEPT ![w] = Goes(w, rest)]
    BY <1>1, <1>4, <2>1 DEF Rest
  <2>3. Alone(w) /\ Leaves(w) /\ \A v \in Workers \ {w} : job'[v] = job[v]
    BY <1>1, <2>2, OneMoves, GoesLeaves
  <2>4. \A x \in Components : status'[x] = status[x] \/ (x = c /\ status'[x] = "error")
    BY <1>1, <1>4 DEF BenchTypes
  <2>5. Lands(w, c)
    BY <1>1, <1>4, <2>3, <2>4 DEF Lands
  <2> QED
    BY <1>0, <1>2, <2>3, <2>4, <2>5 DEF Launching
<1> QED
  BY <1>0, <1>3, <1>4 DEF Translate

\* A launch begins: it notes whether the setup is still to be run.
LEMMA BeginSideways ==
    ASSUME Inv, NEW w \in Workers, NEW jobs,
           jobs = [job EXCEPT ![w].fresh = (job[w].at \notin complete)],
           job[w].pc = "begin"
    PROVE  Sideways(w, jobs) /\ Begins(w, jobs)
<1>1. [job[w] EXCEPT !.fresh = (job[w].at \notin complete)] \in Jobs
  BY DEF Inv, Typed, JobTypes, Jobs, JobType, Fits
<1>2. job \in [Workers -> Jobs]
  BY DEF Inv, Typed, JobTypes
<1> QED
  BY <1>1, <1>2 DEF Undisturbed, Begins, Sideways

LEMMA BeginLaunching ==
    ASSUME Inv, NEW w \in Workers, Begin(w)
    PROVE  /\ Launching(w, job[w].at)
           /\ \A k \in alive' : k \in alive \/ k.id \in OwnIds(k)
<1>0. PICK c, jobs : c = job[w].at /\ jobs = [job EXCEPT ![w].fresh = (c \notin complete)]
  OBVIOUS
<1>1. c \in Components
  BY <1>0, LaunchJob DEF Begin, LaunchPcs
<1>2. Sideways(w, jobs) /\ Begins(w, jobs)
  BY <1>0, BeginSideways DEF Begin
<1>3. PICK p \in Begun :
        /\ Goon(w, jobs, p)
        /\ \/ UNCHANGED <<child, alive>>
           \/ \E id \in {Main(c), Before(c)} : runProcess(id, c, w)
  BY <1>0 DEF Begin, Begun, LaunchPcs
<1>4. Launching(w, c)
  BY <1>0, <1>1, <1>2, <1>3, GoonLaunching
<1> QED
  BY <1>0, <1>3, <1>4, OwnKids

LEMMA UpLaunching ==
    ASSUME Inv, NEW w \in Workers, Up(w)
    PROVE  Launching(w, job[w].at)
<1>0. PICK c : c = job[w].at
  OBVIOUS
<1>1. c \in Components /\ Sideways(w, job) /\ Begins(w, job)
  BY <1>0, LaunchJob, SidewaysJob DEF Up, LaunchPcs, Inv, Typed, Begins
<1>2. Goon(w, job, "health") \/ Launched(w, job, "error")
  BY DEF Up
<1> QED
  BY <1>0, <1>1, <1>2, GoonLaunching, LaunchedLaunching DEF Begun, LaunchPcs

LEMMA HealthLaunching ==
    ASSUME Inv, NEW w \in Workers, Health(w)
    PROVE  /\ Launching(w, job[w].at)
           /\ \A k \in alive' : k \in alive \/ k.id \in OwnIds(k)
<1>0. PICK c : c = job[w].at
  OBVIOUS
<1>1. c \in Components /\ Sideways(w, job) /\ Begins(w, job)
  BY <1>0, LaunchJob, SidewaysJob DEF Health, LaunchPcs, Inv, Typed, Begins
<1>2. \/ Goon(w, job, "before") /\ runProcess(Before(c), c, w)
      \/ UNCHANGED alive /\ \E s \in {"running", "error"} : Launched(w, job, s)
  BY <1>0 DEF Health
<1>3. Launching(w, c)
  BY <1>0, <1>1, <1>2, GoonLaunching, LaunchedLaunching DEF Begun, LaunchPcs
<1> QED
  BY <1>0, <1>2, <1>3, OwnKids

LEMMA AfterLaunching ==
    ASSUME Inv, NEW w \in Workers, job[w].pc \in LaunchPcs, NEW ok, After(w, job, ok)
    PROVE  Launching(w, job[w].at)
<1>0. PICK c : c = job[w].at
  OBVIOUS
<1>1. c \in Components /\ Sideways(w, job) /\ Begins(w, job)
  BY <1>0, LaunchJob, SidewaysJob DEF Inv, Typed, Begins
<1>2. \/ \E s \in {"running", "error"} : Launched(w, job, s)
      \/ Kind(c) = "oneshot" /\ Launched(w, job, "completed")
      \/ Goon(w, job, "spawn")
  BY <1>0 DEF After
<1> QED
  BY <1>0, <1>1, <1>2, GoonLaunching, LaunchedLaunching DEF Begun, LaunchPcs

LEMMA SpawnLaunching ==
    ASSUME Inv, NEW w \in Workers, Spawn(w)
    PROVE  /\ Launching(w, job[w].at)
           /\ \A k \in alive' : k \in alive \/ k.id \in OwnIds(k)
<1>0. PICK c, jobs : c = job[w].at /\ jobs = Killed(job, Main(c))
  OBVIOUS
<1>1. c \in Components
  BY <1>0, LaunchJob DEF Spawn, LaunchPcs
<1>2. Sideways(w, jobs)
  BY <1>0, <1>1, SidewaysKilled, Parts DEF Inv, Typed, NoteTypes
<1>3. PICK s \in {"running", "error"} : Launched(w, jobs, s)
  BY <1>0 DEF Spawn
<1>4. Launching(w, c)
  BY <1>0, <1>1, <1>2, <1>3, LaunchedLaunching
<1>5. startProcess(Main(c), c) \/ stopProcess(Main(c))
  BY <1>0 DEF Spawn
<1> QED
  BY <1>0, <1>4, <1>5, OwnKids DEF stopProcess

LEMMA LaunchesSteady ==
    ASSUME Inv, Steady, NEW w \in Workers,
           \/ Translate(w) \/ Begin(w) \/ Up(w) \/ Health(w) \/ Spawn(w)
           \/ \E ok \in BOOLEAN : CommandEnds(w, ok) \/ KilledEnds(w, ok)
    PROVE  Steady'
<1>0. PICK c : c = job[w].at
  OBVIOUS
<1>1. job[w].pc \in LaunchPcs
  BY DEF Translate, Begin, Up, Health, Spawn, CommandEnds, KilledEnds, LaunchPcs
<1>2. c \in Components
  BY <1>0, <1>1, LaunchJob
<1>3. Launching(w, c) /\ \A k \in alive' : k \in alive \/ k.id \in OwnIds(k)
  <2>1. CASE Translate(w)
    BY <1>0, <2>1, TranslateLaunching DEF Translate, world
  <2>2. CASE Begin(w) \/ Health(w) \/ Spawn(w)
    BY <1>0, <2>2, BeginLaunching, HealthLaunching, SpawnLaunching
  <2>3. CASE Up(w)
    BY <1>0, <2>3, UpLaunching DEF Up, world
  <2>4. CASE \E ok \in BOOLEAN : CommandEnds(w, ok)
    BY <1>0, <1>1, <2>4, AfterLaunching DEF CommandEnds, exits
  <2>5. CASE \E ok \in BOOLEAN : KilledEnds(w, ok)
    BY <1>0, <1>1, <2>5, AfterLaunching DEF KilledEnds, world
  <2> QED
    BY <2>1, <2>2, <2>3, <2>4, <2>5
<1> QED
  BY <1>0, <1>1, <1>2, <1>3, LaunchingSteady

-----------------------------------------------------------------------------
(* Steady: requests, the next component and the stops *)

LEMMA NowhereKnows ==
    ASSUME NEW w \in Workers, job'[w].at = None
    PROVE  Knows(w)'
BY NoneIsNull DEF Knows

LEMMA StartSteady ==
    ASSUME Inv, Steady, ~Overlap, NEW w \in Workers, NEW b, NEW S, NEW t \in Starts,
           Asked(b, S, t), Start(w, b, S, t)
    PROVE  Steady'
<1>1. PICK k : k = [Idle EXCEPT !.task = t, !.pc = "next", !.of = b, !.todo = S]
  OBVIOUS
<1>2. k.at = None /\ k.task = t /\ k.pc = "next" /\ k.of = b /\ k.todo = S
  BY <1>1 DEF Idle
<1>3. job' = [job EXCEPT ![w] = k] /\ JobTypes
  BY <1>1 DEF Start, Inv, Typed
<1>4. Alone(w) /\ job'[w] = k /\ \A v \in Workers \ {w} : job'[v] = job[v]
  BY <1>3, OneMoves
<1>5. UNCHANGED <<config, connected, backoff, crossed, unbound, status, inFlight, alive>>
  BY DEF Start, plugin, misc, world
<1>6. ASSUME NEW c \in Components, Works(w, c)'
      PROVE  \A v \in Workers \ {w} : ~Works(v, c)
  <2>1. c \in S
    BY <1>2, <1>4, <1>6, NoneIsNull DEF Works, Starts, Asked
  <2> QED
    BY <2>1 DEF Start, MayCall
<1>7. Knows(w)' /\ Halts(w)'
  BY <1>2, <1>4, NowhereKnows DEF Halts, Starts, Stops
<1>8. Forgets(w) /\ Calls(w) /\ Touches(w, {})
  BY <1>4, <1>5, <1>6 DEF Forgets, Calls, Touches
<1> QED
  BY <1>4, <1>5, <1>7, <1>8, SteadyKept

LEMMA SkipSteady ==
    ASSUME Inv, Steady, NEW w \in Workers, NEW c \in Components, Skip(w, c)
    PROVE  Steady'
<1>1. PICK rest : rest \subseteq job[w].todo /\ job' = [job EXCEPT ![w] = Goes(w, rest)]
  BY DEF Skip
<1>2. JobTypes /\ BenchTypes /\ job[w].task \in Launches
  BY DEF Skip, Inv, Typed
<1>3. Alone(w) /\ Leaves(w) /\ \A v \in Workers \ {w} : job'[v] = job[v]
  BY <1>1, <1>2, OneMoves, GoesLeaves
<1>4. UNCHANGED <<config, connected, backoff, crossed, unbound, inFlight, alive>>
  BY DEF Skip, plugin, misc, world
<1>5. Calls(w) /\ Knows(w)' /\ Halts(w)'
  BY <1>2, <1>3, <1>4, LeavesCalls DEF Halts, Leaves, Launches, Starts, Stops
<1>6. Forgets(w)
  BY <1>4 DEF Forgets
<1>7. \A x \in Components : status'[x] = "completed" => status[x] = "completed"
  BY <1>2 DEF Skip, BenchTypes
<1>8. CASE status' = status
  <2>1. Touches(w, {})
    BY <1>3, <1>4, <1>8 DEF Touches
  <2> QED
    BY <1>3, <1>4, <1>5, <1>6, <1>7, <2>1, SteadyKept
<1>9. CASE status' # status
  <2>1. job[w].task \in Starts /\ Works(w, c) /\ ~Away(w, c)
        /\ status' = [status EXCEPT ![c] = "error"]
    BY <1>9 DEF Skip, Errs, Starts, Works, Away
  <2>2. \A v \in Workers \ {w} : c \in crossed \/ job[v].at # c
    BY <2>1, AloneAt DEF Steady, Works
  <2>3. Touches(w, {c})
    BY <1>2, <1>3, <1>4, <2>1, <2>2 DEF Touches, BenchTypes
  <2> QED
    BY <1>3, <1>4, <1>5, <1>6, <1>7, <2>3, SteadyKept
<1> QED
  BY <1>8, <1>9

LEMMA LaunchSteady ==
    ASSUME Inv, Steady, ~Overlap, NEW w \in Workers, NEW c \in Components, Launch(w, c)
    PROVE  Steady'
<1>1. PICK k : k = [job[w] EXCEPT !.at = c, !.held = TRUE, !.todo = @ \ {c},
                               !.pc = IF c \in cached THEN "begin" ELSE "translate"]
  OBVIOUS
<1>2. job[w] \in JobType /\ job[w].pc = "next" /\ c \in job[w].todo /\ JobTypes /\ BenchTypes
      /\ job[w].task \in Launches
  BY DEF Inv, Typed, JobTypes, Jobs, Launch
<1>3. /\ k.at = c /\ k.task = job[w].task /\ k.of = job[w].of /\ k.todo \subseteq job[w].todo
      /\ k.pc \in {"begin", "translate"} /\ k.held
  BY <1>1, <1>2 DEF JobType
<1>4. job' = [job EXCEPT ![w] = k]
  BY <1>1, <1>2 DEF Launch, JobTypes
<1>5. Alone(w) /\ job'[w] = k /\ \A v \in Workers \ {w} : job'[v] = job[v]
  BY <1>2, <1>4, OneMoves
<1>6. /\ UNCHANGED <<config, connected, backoff, alive>>
      /\ status' = [status EXCEPT ![c] = "starting"] /\ inFlight' = inFlight \cup {c}
      /\ unbound' = unbound \ {c} /\ Of(c) \in connected
      /\ crossed' = IF \E v \in Workers \ {w} : Works(v, c) THEN crossed \cup {c}
                    ELSE crossed \ {c}
  BY DEF Launch, plugin, world, Noted
<1>7. Forgets(w)
  BY <1>6 DEF Forgets
<1>8. Calls(w)
  <2> SUFFICES ASSUME NEW x \in Components, Works(w, x)'
               PROVE  \/ x \in crossed'
                      \/ Works(w, x) /\ (Away(w, x) => Away(w, x)')
                      \/ \A v \in Workers \ {w} : ~Works(v, x)
    BY DEF Calls
  <2>1. Works(w, x)
    BY <1>2, <1>3, <1>5, <1>6 DEF Works, Of
  <2>2. CASE x = c
    BY <1>6, <2>2
  <2>3. CASE x # c
    BY <1>3, <1>5, <2>1, <2>3 DEF Away
  <2> QED
    BY <2>2, <2>3
<1>9. Touches(w, {c})
  <2>1. \A v \in Workers \ {w} : c \in crossed' \/ job[v].at # c
    BY <1>6 DEF Works
  <2> QED
    BY <1>2, <1>5, <1>6, <2>1 DEF Touches, BenchTypes
<1>10. Knows(w)'
  <2>1. status'[c] = "starting" /\ c \in inFlight' /\ Of(c)' \notin backoff' \ connected'
    BY <1>2, <1>6 DEF BenchTypes, Steady, Of
  <2>2. k.pc \notin StopPcs
    BY <1>3 DEF StopPcs
  <2> QED
    BY <1>3, <1>5, <2>1, <2>2 DEF Knows
<1>11. Halts(w)'
  BY <1>2, <1>3, <1>5 DEF Halts, Launches, Starts, Stops
<1>12. \A x \in Components : status'[x] = "completed" => status[x] = "completed"
  BY <1>2, <1>6 DEF BenchTypes
<1> QED
  BY <1>5, <1>6, <1>7, <1>8, <1>9, <1>10, <1>11, <1>12, SteadyKept

\* A stop gets to c, which no other handler is at.
LEMMA StoppingSteady ==
    ASSUME Inv, Steady, ~Overlap, NEW w \in Workers, NEW c \in Components, NEW j \in JobType,
           j.task \in Stops, \A x \in Components : x \in j.todo \cup {c} => BenchOf(x) = j.of,
           \A v \in Workers \ {w} : c \in crossed \/ job[v].at # c,
           Stopping(w, j, c), Calls(w)
    PROVE  Steady'
<1>1. PICK k : k = [j EXCEPT !.at = c, !.held = TRUE, !.todo = @ \ {c},
                             !.bound = (Of(c) \in connected),
                             !.pc = IF c \in cached' /\ Kind(c) = "docker" THEN "composeStop"
                                    ELSE "stopping"]
  OBVIOUS
<1>2. /\ k.at = c /\ (k.bound <=> Of(c) \in connected) /\ k.held /\ k.todo \subseteq j.todo
      /\ k.pc \in {"composeStop", "stopping"} /\ k.task = j.task /\ k.of = j.of
  BY <1>1 DEF JobType
<1>3. job' = [job EXCEPT ![w] = k] /\ JobTypes /\ BenchTypes
  BY <1>1 DEF Stopping, Inv, Typed
<1>4. Alone(w) /\ job'[w] = k /\ \A v \in Workers \ {w} : job'[v] = job[v]
  BY <1>3, OneMoves
<1>5. /\ UNCHANGED <<config, connected, backoff, crossed, inFlight, alive>>
      /\ unbound' = IF Of(c) \in connected THEN unbound \ {c} ELSE unbound \cup {c}
      /\ status' = [status EXCEPT ![c] = "stopping"]
  BY DEF Stopping, world, plugin, Noted
<1>6. Forgets(w)
  BY <1>5 DEF Forgets
<1>7. Touches(w, {c})
  BY <1>3, <1>4, <1>5 DEF Touches, BenchTypes
<1>8. Knows(w)'
  <2>1. status'[c] = "stopping" /\ k.pc \notin LaunchPcs
    BY <1>2, <1>3, <1>5 DEF BenchTypes, LaunchPcs
  <2> QED
    BY <1>2, <1>4, <1>5, <2>1 DEF Knows
<1>9. Halts(w)'
  BY <1>2, <1>4, <1>5 DEF Halts, Of, BenchOf
<1>10. \A x \in Components : status'[x] = "completed" => status[x] = "completed"
  BY <1>3, <1>5 DEF BenchTypes
<1> QED
  BY <1>4, <1>5, <1>6, <1>7, <1>8, <1>9, <1>10, SteadyKept

\* The components a Stop is asked for are of its bench.
StopAsked(b, S, t) ==
    /\ Asked(b, S, t) /\ \A c \in S : BenchOf(c) = b

LEMMA StopCalls ==
    ASSUME Inv, ~Overlap, NEW w \in Workers, NEW b \in Benches, NEW S, NEW t \in Stops,
           Asked(b, S, t), Stop(w, b, S, t)
    PROVE  \E j \in JobType, c \in S :
              /\ Stopping(w, j, c) /\ j.task = t /\ j.of = b /\ j.todo = S
              /\ job'[w].task = t /\ job'[w].of = b /\ job'[w].at = c
              /\ job'[w].todo = S \ {c} /\ job'[w].pc \in {"composeStop", "stopping"}
              /\ \A x \in Components : Works(w, x)' => x \in S
              /\ \A v \in Workers, x \in S : ~Works(v, x)
<1>1. PICK j : j = [Idle EXCEPT !.task = t, !.of = b, !.todo = S]
  OBVIOUS
<1>2. j.task = t /\ j.of = b /\ j.todo = S /\ j \in JobType
  BY <1>1 DEF Idle, JobType, Tasks, Pcs, Stops, Asked
<1>4. PICK c \in S : Stopping(w, j, c)
  BY <1>1 DEF Stop
<1>5. \A v \in Workers, x \in S : ~Works(v, x)
  BY DEF Stop, MayCall
<1>6. PICK k : /\ k.at = c /\ k.todo = S \ {c} /\ k.task = t /\ k.of = b
               /\ k.pc \in {"composeStop", "stopping"} /\ job' = [job EXCEPT ![w] = k]
  <2>1. PICK k : k = [j EXCEPT !.at = c, !.held = TRUE, !.todo = @ \ {c},
                             !.bound = (Of(c) \in connected),
                             !.pc = IF c \in cached' /\ Kind(c) = "docker" THEN "composeStop"
                                    ELSE "stopping"]
    OBVIOUS
  <2>2. k.at = c /\ k.todo = S \ {c} /\ k.task = t /\ k.of = b
        /\ k.pc \in {"composeStop", "stopping"}
    BY <1>2, <2>1 DEF JobType
  <2> QED
    BY <1>4, <2>1, <2>2 DEF Stopping
<1>7. job'[w] = k
  BY <1>6, OneMoves DEF Inv, Typed
<1>8. \A x \in Components : Works(w, x)' => x \in S
  BY <1>4, <1>6, <1>7 DEF Works, Stops, Asked
<1> QED
  BY <1>2, <1>4, <1>5, <1>6, <1>7, <1>8

LEMMA StopSteady ==
    ASSUME Inv, Steady, ~Overlap, NEW w \in Workers, NEW b \in Benches, NEW S, NEW t \in Stops,
           StopAsked(b, S, t), Stop(w, b, S, t)
    PROVE  Steady'
<1>1. PICK j \in JobType, c \in S :
              /\ Stopping(w, j, c) /\ j.task = t /\ j.of = b /\ j.todo = S
              /\ \A x \in Components : Works(w, x)' => x \in S
              /\ \A v \in Workers, x \in S : ~Works(v, x)
  BY StopCalls DEF StopAsked
<1>2. Calls(w)
  BY <1>1 DEF Calls
<1>3. c \in Components /\ \A v \in Workers \ {w} : job[v].at # c
  BY <1>1 DEF StopAsked, Asked, Works
<1>4. \A x \in Components : x \in j.todo \cup {c} => BenchOf(x) = j.of
  BY <1>1 DEF StopAsked
<1> QED
  BY <1>1, <1>2, <1>3, <1>4, StoppingSteady

LEMMA StopNextSteady ==
    ASSUME Inv, Steady, ~Overlap, NEW w \in Workers, NEW c \in Components, StopNext(w, c)
    PROVE  Steady'
<1>1. /\ job[w].task \in Stops /\ c \in job[w].todo
      /\ Stopping(w, job[w], c) /\ job[w] \in JobType
  BY DEF StopNext, Stops, Inv, Typed, JobTypes, Jobs
<1>2. Works(w, c) /\ ~Away(w, c)
  BY <1>1 DEF Works, Away, Stops
<1>3. \A v \in Workers \ {w} : c \in crossed \/ job[v].at # c
  BY <1>2, AloneAt DEF Steady, Works
<1>4. PICK k : /\ k.at = c /\ k.todo \subseteq job[w].todo /\ k.task = job[w].task
               /\ k.of = job[w].of /\ job' = [job EXCEPT ![w] = k]
  <2>1. PICK k : k = [job[w] EXCEPT !.at = c, !.held = TRUE, !.todo = @ \ {c},
                             !.bound = (Of(c) \in connected),
                             !.pc = IF c \in cached' /\ Kind(c) = "docker" THEN "composeStop"
                                    ELSE "stopping"]
    OBVIOUS
  <2>2. k.at = c /\ k.todo \subseteq job[w].todo /\ k.task = job[w].task /\ k.of = job[w].of
    BY <1>1, <2>1 DEF JobType
  <2> QED
    BY <1>1, <2>1, <2>2 DEF Stopping
<1>5. job'[w] = k /\ config' = config
  BY <1>4, OneMoves DEF Inv, Typed, StopNext, Stopping
<1>6. Calls(w)
  <2>1. \A x \in Components : Works(w, x)' => Works(w, x) /\ ~Away(w, x)
    BY <1>1, <1>4, <1>5 DEF Works, Away, Of, Stops
  <2> QED
    BY <2>1 DEF Calls
<1>7. \A x \in Components : x \in job[w].todo \cup {c} => BenchOf(x) = job[w].of
  BY <1>1 DEF Steady, Halts
<1> QED
  BY <1>1, <1>3, <1>6, <1>7, StoppingSteady

LEMMA ComposeStoppedSteady ==
    ASSUME Inv, Steady, NEW w \in Workers, ComposeStopped(w)
    PROVE  Steady'
<1>0. PICK c : c = job[w].at
  OBVIOUS
<1>1. /\ job[w].pc = "composeStop" /\ job[w].pc \in StopPcs
      /\ UNCHANGED <<status, inFlight, alive, config, connected, backoff, crossed, unbound>>
  BY DEF ComposeStopped, benchVars, plugin, misc, StopPcs
<1>2. PICK k : k = [job[w] EXCEPT !.pc = "composed"]
  OBVIOUS
<1>3. job' = [job EXCEPT ![w] = k] /\ job[w] \in JobType /\ JobTypes
  BY <1>2 DEF ComposeStopped, Inv, Typed, JobTypes, Jobs
<1>4. /\ k.at = c /\ k.pc = "composed" /\ k.held = job[w].held /\ k.bound = job[w].bound
      /\ k.task = job[w].task /\ k.of = job[w].of /\ k.todo = job[w].todo
      /\ k.entries = job[w].entries
  BY <1>0, <1>2, <1>3 DEF JobType
<1>5. Alone(w) /\ job'[w] = k /\ \A v \in Workers \ {w} : job'[v] = job[v]
  BY <1>3, OneMoves
<1>6. GoesTo(w, "composed")
  BY <1>0, <1>4, <1>5 DEF GoesTo
<1>7. Calls(w)
  BY <1>1, <1>6, GoesToCalls
<1>8. Knows(w)'
  <2>1. c \in Components /\ c \notin crossed =>
          status[c] = "stopping" /\ job[w].held /\ (job[w].bound \/ c \in unbound)
    BY <1>0, <1>1 DEF Steady, Knows
  <2>2. k.pc \notin LaunchPcs
    BY <1>4 DEF LaunchPcs
  <2> QED
    BY <1>1, <1>4, <1>5, <2>1, <2>2 DEF Knows
<1>9. Halts(w)'
  BY <1>0, <1>1, <1>4, <1>5 DEF Steady, Halts, Of, BenchOf
<1>10. Forgets(w) /\ Touches(w, {})
  BY <1>1, <1>5 DEF Forgets, Touches
<1> QED
  BY <1>1, <1>5, <1>7, <1>8, <1>9, <1>10, SteadyKept

LEMMA StoppedSteady ==
    ASSUME Inv, Steady, NEW w \in Workers, Stopped(w)
    PROVE  Steady'
<1>0. PICK c, jobs : /\ c = job[w].at
                     /\ jobs = IF job[w].bound THEN Killed(job, Main(c)) ELSE job
  OBVIOUS
<1>1. /\ job[w].pc \in StopPcs /\ c \in Components /\ job[w].task \in Stops /\ JobTypes
  BY <1>0 DEF Stopped, StopPcs, Inv, Typed, JobTypes, Jobs, Fits
<1>2. Main(c) \in Ids
  BY <1>1, Parts DEF Inv, Typed, NoteTypes
<1>3. Sideways(w, jobs)
  BY <1>0, <1>1, <1>2, SidewaysKilled, SidewaysJob
<1>4. job' = [jobs EXCEPT ![w] = Goes(w, job[w].todo)]
  BY <1>0 DEF Stopped
<1>5. /\ Alone(w) /\ Leaves(w)
      /\ job'[w] = Goes(w, job[w].todo) /\ \A v \in Workers \ {w} : job'[v] = jobs[v]
  <2>1. job'[w] = Goes(w, job[w].todo) /\ \A v \in Workers \ {w} : job'[v] = jobs[v]
    BY <1>3, <1>4 DEF Sideways
  <2> QED
    BY <1>1, <1>3, <2>1, GoesLeaves DEF Alone, Sideways
<1>6. /\ UNCHANGED <<config, connected, backoff, unbound>> /\ crossed \subseteq crossed'
      /\ status' = [x \in Components |-> IF x = c /\ job[w].held THEN "stopped" ELSE status[x]]
      /\ inFlight \ {c} \subseteq inFlight' /\ alive' \subseteq alive
  BY <1>0 DEF Stopped, plugin, ReadsStopped, Report, stopProcess
<1>7. Works(w, c) /\ ~Away(w, c)
  BY <1>0, <1>1 DEF Works, Away, Stops
<1>8. Touches(w, {c})
  <2>1. \A v \in Workers \ {w} : c \in crossed \/ job[v].at # c
    BY <1>1, <1>7, AloneAt DEF Steady, Works
  <2> QED
    <3>1. \A v \in Workers \ {w} : job'[v].held = job[v].held
      BY <1>3, <1>5 DEF Sideways
    <3>2. \A x \in Components \ {c} : status'[x] = status[x] /\ (x \in inFlight => x \in inFlight')
      BY <1>6
    <3> QED
      BY <1>6, <2>1, <3>1, <3>2 DEF Touches
<1>9. Calls(w) /\ Knows(w)'
  BY <1>1, <1>5, <1>6, LeavesCalls
<1>10. Halts(w)'
  BY <1>1, <1>5, NoneIsNull DEF Halts, Leaves, Steady, BenchOf, Stops
<1>11. Forgets(w) /\ \A x \in Components : status'[x] = "completed" => status[x] = "completed"
  BY <1>6 DEF Forgets
<1> QED
  BY <1>5, <1>6, <1>8, <1>9, <1>10, <1>11, SteadyKept

-----------------------------------------------------------------------------
(* Steady: cleanups, the hooks, the poll, the world and the crashes *)

\* A cleanup or the sweep touches no component.
LEMMA ReapJob ==
    ASSUME Inv, NEW w \in Workers, NEW e \in job[w].entries, Reap(w, e)
    PROVE  /\ Alone(w)
           /\ \A v \in Workers \ {w} : job'[v].held = job[v].held
           /\ job[w].task \in {"cleanup", "sweep"} /\ job[w].pc = "reap"
           /\ \/ /\ job'[w].pc = "reap" /\ job'[w].task = job[w].task
                 /\ job'[w].of = job[w].of /\ job'[w].todo = job[w].todo
                 /\ job'[w].at = job[w].at
              \/ job[w].entries = {e} /\ job'[w] = Idle
           /\ alive' \subseteq alive
<1>1. /\ job[w] \in JobType /\ job[w].pc = "reap" /\ e \in Entries /\ e.ids \in SUBSET Ids
      /\ JobTypes /\ WorldTypes /\ job[w].task \in {"cleanup", "sweep"}
  BY DEF Reap, Inv, Typed, JobTypes, Jobs, JobType, Entries, Fits
<1>2. ASSUME NEW id \in e.ids, NEW E,
             job' = [Killed(job, id) EXCEPT ![w].entries = E]
      PROVE  /\ Alone(w) /\ \A v \in Workers \ {w} : job'[v].held = job[v].held
             /\ job'[w] = [job[w] EXCEPT !.entries = E]
  <2>1. PICK jobs : jobs = Killed(job, id)
    OBVIOUS
  <2>2. Sideways(w, jobs) /\ jobs[w] = job[w]
    BY <1>1, <2>1, SidewaysKilled, KilledLeaves DEF Waits
  <2>3. job' = [jobs EXCEPT ![w] = [job[w] EXCEPT !.entries = E]]
    BY <1>2, <2>1, <2>2
  <2> QED
    BY <2>2, <2>3 DEF Sideways, Alone
<1>3. ASSUME NEW k, job' = [job EXCEPT ![w] = k]
      PROVE  /\ Alone(w) /\ \A v \in Workers \ {w} : job'[v].held = job[v].held
             /\ job'[w] = k
  BY <1>1, <1>3, OneMoves
<1>4. ASSUME NEW E, job'[w] = [job[w] EXCEPT !.entries = E]
      PROVE  /\ job'[w].pc = "reap" /\ job'[w].task = job[w].task
             /\ job'[w].of = job[w].of /\ job'[w].todo = job[w].todo
             /\ job'[w].at = job[w].at
  BY <1>1, <1>4 DEF JobType
<1>5. CASE \E id \in e.ids :
            /\ stopProcess(id)
            /\ job' = [Killed(job, id) EXCEPT ![w].entries =
                         (@ \ {e}) \cup {[e EXCEPT !.ids = @ \ {id}]}]
  <2>1. PICK id \in e.ids :
            /\ stopProcess(id)
            /\ job' = [Killed(job, id) EXCEPT ![w].entries =
                         (@ \ {e}) \cup {[e EXCEPT !.ids = @ \ {id}]}]
    BY <1>5
  <2>2. PICK E : job' = [Killed(job, id) EXCEPT ![w].entries = E]
    BY <2>1
  <2>3. job'[w] = [job[w] EXCEPT !.entries = E] /\ Alone(w)
        /\ \A v \in Workers \ {w} : job'[v].held = job[v].held
    BY <1>2, <2>2
  <2>4. alive' \subseteq alive
    BY <2>1 DEF stopProcess
  <2> QED
    BY <1>1, <1>4, <2>3, <2>4
<1>6. CASE /\ UNCHANGED alive
           /\ \E b \in e.projects : job' = [job EXCEPT ![w].entries =
                            (@ \ {e}) \cup {[e EXCEPT !.projects = @ \ {b}]}]
  <2>1. PICK E : job' = [job EXCEPT ![w].entries = E]
    BY <1>6
  <2>2. job' = [job EXCEPT ![w] = [job[w] EXCEPT !.entries = E]]
    BY <1>1, <2>1 DEF JobTypes
  <2> QED
    BY <1>1, <1>3, <1>4, <1>6, <2>2
<1>7. CASE /\ UNCHANGED alive
           /\ job' = [job EXCEPT ![w] = IF job[w].entries = {e} THEN Idle
                ELSE [job[w] EXCEPT !.entries = job[w].entries \ {e}]]
  <2>1. CASE job[w].entries = {e}
    BY <1>1, <1>3, <1>7, <2>1
  <2>2. CASE job[w].entries # {e}
    BY <1>1, <1>3, <1>4, <1>7, <2>2
  <2> QED
    BY <2>1, <2>2
<1> QED
  BY <1>5, <1>6, <1>7 DEF Reap, world

LEMMA ReapSteady ==
    ASSUME Inv, Downed, Steady, NEW w \in Workers, NEW e \in job[w].entries, Reap(w, e)
    PROVE  Steady'
<1>1. /\ Alone(w) /\ \A v \in Workers \ {w} : job'[v].held = job[v].held
      /\ job[w].task \in {"cleanup", "sweep"} /\ job[w].pc = "reap" /\ alive' \subseteq alive
      /\ \/ /\ job'[w].pc = "reap" /\ job'[w].task = job[w].task
            /\ job'[w].of = job[w].of /\ job'[w].todo = job[w].todo
            /\ job'[w].at = job[w].at
         \/ job'[w] = Idle
  BY ReapJob
<1>2. job'[w].at = None
  <2>1. job[w].at = None
    BY <1>1 DEF Downed, Seated, Sits, LaunchPcs, StopPcs
  <2> QED
    BY <1>1, <2>1 DEF Idle
<1>3. UNCHANGED <<config, connected, backoff, crossed, unbound, status, inFlight>>
  BY DEF Reap, benchVars, plugin, misc
<1>4. Knows(w)' /\ Halts(w)'
  BY <1>1, <1>2, NowhereKnows DEF Halts, Stops, Idle
<1>5. Calls(w)
  BY <1>1, <1>2, <1>3, NoneIsNull DEF Calls, Works, Away, Of, Idle
<1>6. Forgets(w) /\ Touches(w, {})
  BY <1>1, <1>3 DEF Forgets, Touches
<1> QED
  BY <1>1, <1>3, <1>4, <1>5, <1>6, SteadyKept

\* Of a step in which no handler moves and the benches read as before.
LEMMA StillSteady ==
    ASSUME Steady, UNCHANGED <<job, config, status, inFlight, unbound>>,
           crossed \subseteq crossed', backoff' \ connected' \subseteq backoff \ connected,
           \A w \in Workers, c \in Components :
              /\ job[w].task \in Stops /\ job[w].at = c /\ BenchOf(c) = job[w].of
              /\ Of(c) \in connected \ connected'
              => \A d \in Components : Of(d) = Of(c) /\ BenchOf(d) = BenchOf(c) => d \in crossed',
           \A k \in alive' : k \in alive
    PROVE  Steady'
<1>1. Lone'
  BY DEF Steady, Lone, Works, Away, Of
<1>2. ASSUME NEW w \in Workers
      PROVE  Knows(w)'
  BY DEF Steady, Knows, Of
<1>3. ASSUME NEW w \in Workers
      PROVE  Halts(w)'
  <2>1. Halts(w)
    BY DEF Steady
  <2> QED
    BY <2>1 DEF Halts, Of, BenchOf
<1> QED
  BY <1>1, <1>2, <1>3 DEF Steady, Kind, OwnIds, Main, Before

\* The loss of a plugin meets the components of it in a bench that a stop is in.
LEMMA LossMeets ==
    ASSUME NEW g, NEW w \in Workers, NEW c \in Components, job[w].task \in Stops,
           BenchOf(c) = job[w].of, Of(c) = g, NEW d \in Components, Of(d) = Of(c),
           BenchOf(d) = BenchOf(c)
    PROVE  d \in Interrupted(g)
BY DEF Interrupted, Stops

LEMMA PluginSteady ==
    ASSUME Inv, Steady, ~Overlap, NEW g \in Plugins, 
           Respawn(g) \/ Disable(g) \/ Enable(g) \/ RollsBack(g)
    PROVE  Steady'
<1>1. UNCHANGED <<job, config, status, inFlight, unbound, alive>>
  BY DEF Respawn, Disable, Enable, RollsBack, benchVars, world, misc
<1>2. /\ crossed \subseteq crossed'
      /\ backoff' \ connected' \subseteq backoff \ connected
  BY DEF Respawn, Disable, Enable, RollsBack, misc, Noted
<1>3. ASSUME NEW w \in Workers, NEW c \in Components, job[w].task \in Stops,
             BenchOf(c) = job[w].of, Of(c) \in connected \ connected',
             NEW d \in Components, Of(d) = Of(c), BenchOf(d) = BenchOf(c)
      PROVE  d \in crossed'
  <2>1. Of(c) = g /\ crossed' = crossed \cup Interrupted(g)
    BY <1>3 DEF Respawn, Disable, Enable, RollsBack, Noted
  <2> QED
    BY <1>3, <2>1, LossMeets
<1> QED
  BY <1>1, <1>2, <1>3, StillSteady

LEMMA DiesSteady ==
    ASSUME Inv, Steady, NEW c \in Components, Dies(c) \/ PollResolves(c)
    PROVE  Steady'
<1>1. /\ UNCHANGED <<job, config, status, inFlight, unbound, crossed, connected, backoff>>
      /\ alive' \subseteq alive
  BY DEF Dies, PollResolves, benchVars, plugin, world, misc, exits
<1> QED
  BY <1>1, StillSteady DEF Steady

LEMMA ComesUpSteady ==
    ASSUME Inv, Steady, NEW w \in Workers, ComesUp(w)
    PROVE  Steady'
<1>1. /\ UNCHANGED <<job, config, status, inFlight, unbound, crossed, connected, backoff>>
      /\ alive' \subseteq alive
  BY DEF ComesUp, benchVars, plugin, misc
<1> QED
  BY <1>1, StillSteady DEF Steady

\* The poll looks at no component that a handler is at and no other has met.
LEMMA PollSteady ==
    ASSUME Inv, Steady, NEW S \in listings \cup {{}}, Poll(S)
    PROVE  Steady'
<1>1. UNCHANGED <<job, config, inFlight, unbound, crossed, connected, backoff, alive>>
  BY DEF Poll, plugin, world
<1>2. /\ \A x \in Components : x \in inFlight \/ status[x] = "stopping" => status'[x] = status[x]
      /\ \A x \in Components : status'[x] = "completed" => status[x] = "completed"
  <2>1. PICK h : status' = [x \in Components |-> IF Polls(x) THEN Shows(x, S, h) ELSE status[x]]
    BY DEF Poll
  <2>2. \A x \in Components : status'[x] \in {status[x], "running", "starting", "stopped"}
    BY PollShows DEF Inv
  <2> QED
    BY <2>1, <2>2 DEF Polls
<1>3. Lone'
  BY <1>1 DEF Steady, Lone, Works, Away, Of
<1>4. ASSUME NEW w \in Workers
      PROVE  Knows(w)' /\ Halts(w)'
  <2>1. Knows(w) /\ Halts(w)
    BY DEF Steady
  <2>2. Halts(w)'
    BY <1>1, <2>1 DEF Halts, Of, BenchOf
  <2>3. Knows(w)'
    BY <1>1, <1>2, <2>1 DEF Knows, Of
  <2> QED
    BY <2>2, <2>3
<1>5. \A x \in Components : status'[x] = "completed" => Kind(x)' = "oneshot"
  BY <1>1, <1>2 DEF Steady, Kind
<1> QED
  BY <1>1, <1>3, <1>4, <1>5 DEF Steady, OwnIds, Main, Before

LEMMA PollReadsSteady ==
    ASSUME Steady, PollReads
    PROVE  Steady'
<1>1. UNCHANGED <<job, config, status, inFlight, unbound, crossed, connected, backoff, alive>>
  BY DEF PollReads, benchVars, plugin, world
<1> QED
  BY <1>1, StillSteady DEF Steady

LEMMA RestartedSteady ==
    ASSUME Inv, Steady, NEW g \in Plugins, NEW w \in Workers, Restarted(g, w)
    PROVE  Steady'
<1>1. PICK k : k = [Idle EXCEPT !.task = "restore", !.pc = "next", !.of = g,
                                    !.todo = {c \in Components : Of(c) = g}]
  OBVIOUS
<1>2. k.at = None /\ k.task = "restore"
  BY <1>1 DEF Idle
<1>3. job' = [job EXCEPT ![w] = k] /\ JobTypes
  BY <1>1 DEF Restarted, Inv, Typed
<1>4. Alone(w) /\ job'[w] = k /\ \A v \in Workers \ {w} : job'[v] = job[v]
  BY <1>3, OneMoves
<1>5. UNCHANGED <<config, connected, backoff, crossed, unbound, status, inFlight, alive>>
  BY DEF Restarted, benchVars, world, misc
<1>6. Knows(w)' /\ Halts(w)'
  BY <1>2, <1>4, NowhereKnows DEF Halts, Stops
<1>7. Calls(w)
  BY <1>2, <1>4, NoneIsNull DEF Calls, Away
<1>8. Forgets(w) /\ Touches(w, {})
  BY <1>4, <1>5 DEF Forgets, Touches
<1> QED
  BY <1>4, <1>5, <1>6, <1>7, <1>8, SteadyKept

\* A cleanup of a plugin has the entries of it that the ledger has.
LEMMA ReaperHas ==
    ASSUME NEW g
    PROVE  LET E == {e \in getAllEntries : e.key[1] = g} IN
           /\ E = {} => Reaper(g) = Idle
           /\ E # {} => /\ Reaper(g).task = "cleanup" /\ Reaper(g).of = g
                        /\ Reaper(g).entries = E /\ Reaper(g).todo = {}
                        /\ Reaper(g).at = None
<1>1. PICK E : E = {e \in getAllEntries : e.key[1] = g}
  OBVIOUS
<1>2. Reaper(g) = IF E = {} THEN Idle ELSE Cleaning(g, E)
  BY <1>1 DEF Reaper, Cleaning
<1> QED
  BY <1>1, <1>2 DEF Idle, Cleaning

LEMMA PluginCrashesJob ==
    ASSUME Inv, ~Overlap, NEW g \in Plugins, NEW w \in Workers, NEW again \in BOOLEAN,
           PluginCrashes(g, w, again)
    PROVE  /\ Alone(w) /\ job'[w] = Reaper(g) /\ job[w].task = "none" /\ job[w].pc = "idle"
           /\ \A v \in Workers \ {w} :
                job[v].at \notin Crashed(g) => job'[v].held = job[v].held
           /\ crossed' = crossed \cup Interrupted(g) \cup Remains(g)
           /\ connected' = connected \ {g} /\ g \in connected
           /\ backoff' = (IF again THEN backoff \cup {g} ELSE backoff)
           /\ status' = [c \in Components |-> IF c \in Crashed(g) THEN "error" ELSE status[c]]
           /\ UNCHANGED <<config, inFlight, unbound, escaped, world, ledger>>
<1>1. PICK k : k = Reaper(g)
  OBVIOUS
<1>2. job' = [Stale(job, Crashed(g)) EXCEPT ![w] = k] /\ job[w].task = "none"
  BY <1>1 DEF PluginCrashes
<1>3. JobTypes /\ job \in [Workers -> Jobs] /\ \A v \in Workers \ {w} : Undisturbed(job[v], job[v])
  BY JobUndisturbed DEF Inv, Typed
<1>4. Alone(w) /\ job'[w] = k
  BY <1>2, <1>3, StaleLeaves
<1>5. \A v \in Workers \ {w} : job[v].at \notin Crashed(g) => job'[v].held = job[v].held
  BY <1>2, <1>3, SidewaysJob, StaleSpares
<1>6. job[w].pc = "idle"
  BY <1>2, <1>3 DEF Jobs, Fits
<1> QED
  BY <1>1, <1>2, <1>4, <1>5, <1>6 DEF PluginCrashes, Report, Noted

LEMMA PluginCrashesSteady ==
    ASSUME Inv, Steady, ~Overlap, NEW g \in Plugins, NEW w \in Workers, NEW again \in BOOLEAN,
           PluginCrashes(g, w, again)
    PROVE  Steady'
<1>1. /\ Alone(w) /\ job'[w] = Reaper(g)
      /\ \A v \in Workers \ {w} :
                job[v].at \notin Crashed(g) => job'[v].held = job[v].held
      /\ crossed' = crossed \cup Interrupted(g) \cup Remains(g)
      /\ connected' = connected \ {g}
      /\ backoff' \subseteq backoff \cup {g}
      /\ status' = [c \in Components |-> IF c \in Crashed(g) THEN "error" ELSE status[c]]
      /\ UNCHANGED <<config, inFlight, unbound, alive>>
  BY PluginCrashesJob DEF world
<1>2. /\ job'[w].at = None /\ job'[w].todo = {}
      /\ job'[w].task = "none" \/ (job'[w].task = "cleanup" /\ job'[w].of = g)
  BY <1>1, ReaperHas DEF Idle
<1>3. \A c \in Components, v \in Workers : Works(v, c) /\ Of(c) = g => c \in crossed'
  BY <1>1 DEF Interrupted
<1>4. Lone'
  <2>1. Forgets(w)
    BY <1>1 DEF Forgets
  <2>2. ASSUME NEW c \in Components, Works(w, c)'
        PROVE  c \in crossed' \/ \A v \in Workers \ {w} : ~Works(v, c)
    <3>1. Of(c) = g
      BY <1>1, <1>2, <2>2, NoneIsNull DEF Works, Of
    <3> QED
      BY <1>3, <3>1
  <2>3. Calls(w)
    BY <2>2 DEF Calls
  <2> QED
    BY <1>1, <2>1, <2>3, LoneKept DEF Steady
<1>5. ASSUME NEW v \in Workers
      PROVE  Knows(v)'
  <2>1. CASE v = w
    BY <1>2, <2>1, NowhereKnows
  <2>2. CASE v # w
    <3> SUFFICES ASSUME NEW c \in Components, c \notin crossed', job'[v].at = c
                 PROVE  /\ job'[v].pc \in LaunchPcs =>
                             /\ status'[c] = "starting" /\ c \in inFlight'
                             /\ Of(c)' \notin backoff' \ connected'
                             /\ job'[v].pc = "translate" => job'[v].held
                        /\ job'[v].pc \in StopPcs =>
                             /\ status'[c] = "stopping" /\ job'[v].held
                             /\ job'[v].bound \/ c \in unbound'
      BY DEF Knows
    <3>1. Undisturbed(job[v], job'[v]) /\ job[v].at = c
      BY <1>1, <2>2 DEF Alone, Undisturbed
    <3>2. Of(c) # g /\ c \notin crossed
      BY <1>1, <1>3, <3>1 DEF Works
    <3>3. c \notin Crashed(g)
      BY <3>2 DEF Crashed
    <3>4. status'[c] = status[c] /\ job'[v].held = job[v].held
      BY <1>1, <2>2, <3>1, <3>3
    <3>5. Of(c)' = Of(c)
      BY <1>1 DEF Of
    <3>6. Knows(v)
      BY DEF Steady
    <3> QED
      BY <1>1, <3>1, <3>2, <3>4, <3>5, <3>6
         DEF Knows, Undisturbed, Waits, LaunchPcs, StopPcs
  <2> QED
    BY <2>1, <2>2
<1>6. ASSUME NEW v \in Workers
      PROVE  Halts(v)'
  <2>1. CASE v = w
    BY <1>2, <2>1 DEF Halts, Stops
  <2>2. CASE v # w
    <3>1. Undisturbed(job[v], job'[v]) /\ Halts(v)
      BY <1>1, <2>2 DEF Alone, Steady
    <3> SUFFICES ASSUME job[v].task \in Stops, NEW c \in Components
                 PROVE  /\ c \in job[v].todo \/ c = job[v].at => BenchOf(c) = job[v].of
                        /\ job[v].at = c /\ job[v].bound /\ Of(c) \notin connected' =>
                             \A d \in Components :
                                Of(d) = Of(c) /\ BenchOf(d) = BenchOf(c) => d \in crossed'
      BY <1>1, <3>1 DEF Halts, Undisturbed, Of, BenchOf
    <3>2. c \in job[v].todo \/ c = job[v].at => BenchOf(c) = job[v].of
      BY <3>1 DEF Halts
    <3>3. ASSUME job[v].at = c, job[v].bound, Of(c) \notin connected',
                 NEW d \in Components, Of(d) = Of(c), BenchOf(d) = BenchOf(c)
          PROVE  d \in crossed'
      <4>1. CASE Of(c) = g
        BY <1>1, <3>2, <3>3, <4>1, LossMeets
      <4>2. CASE Of(c) # g
        BY <1>1, <3>1, <3>3, <4>2 DEF Halts
      <4> QED
        BY <4>1, <4>2
    <3> QED
      BY <3>2, <3>3
  <2> QED
    BY <2>1, <2>2
<1>7. \A x \in Components : status'[x] = "completed" => Kind(x)' = "oneshot"
  BY <1>1 DEF Steady, Kind
<1> QED
  BY <1>1, <1>4, <1>5, <1>6, <1>7 DEF Steady, OwnIds, Main, Before

LEMMA HostCrashSteady ==
    ASSUME Inv, NEW w \in Workers, HostCrash(w)
    PROVE  Steady'
<1>1. \A v \in Workers : /\ job'[v].at = None /\ job'[v].task \in {"none", "sweep"}
                         /\ v # w => job'[v] = Idle
  <2>1. PICK E : Sweeper = IF getAllEntries = {} THEN Idle ELSE Sweeping(E)
    BY Zenon DEF Sweeper, Sweeping
  <2>2. Sweeper.at = None /\ Sweeper.task \in {"none", "sweep"}
        /\ Idle.at = None /\ Idle.task = "none"
    BY <2>1 DEF Sweeping, Idle
  <2> QED
    BY <2>2 DEF HostCrash
<1>2. /\ alive' = {} /\ backoff' = {} /\ \A c \in Components : status'[c] = "stopped"
  BY DEF HostCrash
<1>3. \A v \in Workers \ {w}, c \in Components : ~Works(v, c)'
  <2>1. Idle.todo = {} /\ Idle.at = None /\ Idle.task = "none"
    BY DEF Idle
  <2> QED
    BY <1>1, <2>1, NoneIsNull DEF Works
<1>4. Lone'
  BY <1>3 DEF Lone
<1>5. ASSUME NEW v \in Workers
      PROVE  Knows(v)' /\ Halts(v)'
  <2>1. Knows(v)'
    BY <1>1, NowhereKnows
  <2>2. Halts(v)'
    BY <1>1 DEF Halts, Stops
  <2> QED
    BY <2>1, <2>2
<1> QED
  BY <1>2, <1>4, <1>5 DEF Steady

LEMMA InitSteady == Init => Steady
<1> SUFFICES ASSUME Init
             PROVE  Steady
  OBVIOUS
<1>1. \A w \in Workers : job[w].at = None /\ job[w].task = "none" /\ job[w].todo = {}
  BY DEF Init, Idle
<1>2. \A w \in Workers, c \in Components : ~Works(w, c)
  BY <1>1, NoneIsNull DEF Works
<1> QED
  BY <1>1, <1>2, NoneIsNull DEF Init, Steady, Lone, Knows, Halts, Stops
LEMMA RequestSteady ==
    ASSUME Inv, Steady, ~Overlap, NEW w \in Workers, Request(w)
    PROVE  Steady'
<1>1. PICK b \in Benches :
        \/ \E c \in {c \in Components : BenchOf(c) = b} :
             Start(w, b, {c}, "start") \/ Stop(w, b, {c}, "stop")
        \/ Start(w, b, {c \in Components : BenchOf(c) = b}, "startAll")
        \/ Stop(w, b, {c \in Components : BenchOf(c) = b}, "stopAll")
  BY DEF Request
<1>2. ASSUME NEW c \in {c \in Components : BenchOf(c) = b}
      PROVE  Asked(b, {c}, "start") /\ StopAsked(b, {c}, "stop")
  BY DEF Asked, StopAsked
<1>3. \A t : /\ Asked(b, {c \in Components : BenchOf(c) = b}, t)
            /\ StopAsked(b, {c \in Components : BenchOf(c) = b}, t)
  BY DEF Asked, StopAsked
<1>4. {"start", "startAll"} \subseteq Starts /\ {"stop", "stopAll"} \subseteq Stops
  BY DEF Starts, Stops
<1>5. CASE \E c \in {c \in Components : BenchOf(c) = b} :
             Start(w, b, {c}, "start") \/ Stop(w, b, {c}, "stop")
  BY <1>2, <1>4, <1>5, StartSteady, StopSteady
<1>6. CASE \/ Start(w, b, {c \in Components : BenchOf(c) = b}, "startAll")
           \/ Stop(w, b, {c \in Components : BenchOf(c) = b}, "stopAll")
  BY <1>3, <1>4, <1>6, StartSteady, StopSteady
<1> QED
  BY <1>1, <1>5, <1>6

LEMMA NextSteady ==
    ASSUME ~Overlap
    PROVE  Inv /\ Downed /\ Steady /\ [Next]_vars => Steady'
<1> SUFFICES ASSUME Inv, Downed, Steady, [Next]_vars
             PROVE  Steady'
  OBVIOUS
<1>1. ASSUME NEW w \in Workers, Step(w)
      PROVE  Steady'
  BY <1>1, SkipSteady, LaunchSteady, StopNextSteady, LaunchesSteady, ComposeStoppedSteady,
     StoppedSteady, ReapSteady
     DEF Step
<1>2. ASSUME NEW w \in Workers, ComesUp(w) \/ Request(w) \/ HostCrash(w)
      PROVE  Steady'
  BY <1>2, ComesUpSteady, RequestSteady, HostCrashSteady
<1>3. ASSUME NEW g \in Plugins, NEW w \in Workers,
             Restarted(g, w) \/ \E again \in BOOLEAN : PluginCrashes(g, w, again)
      PROVE  Steady'
  BY <1>3, RestartedSteady, PluginCrashesSteady
<1>4. ASSUME NEW g \in Plugins, Respawn(g) \/ Disable(g) \/ Enable(g) \/ RollsBack(g)
      PROVE  Steady'
  BY <1>4, PluginSteady
<1>5. ASSUME NEW c \in Components, PollResolves(c) \/ Dies(c)
      PROVE  Steady'
  BY <1>5, DiesSteady
<1>7. CASE PollReads \/ \E S \in listings \cup {{}} : Poll(S)
  BY <1>7, PollReadsSteady, PollSteady
<1>6. CASE UNCHANGED vars
  <2>1. UNCHANGED <<job, config, status, inFlight, unbound, crossed, backoff, connected, alive>>
    BY <1>6 DEF vars, benchVars, plugin, world, misc
  <2> QED
    BY <2>1, StillSteady DEF Steady
<1> QED
  BY <1>1, <1>2, <1>3, <1>4, <1>5, <1>6, <1>7 DEF Next

-----------------------------------------------------------------------------
(* The rows of what runs *)

Missed(c) == c \in escaped \cup crossed \cup unbound

KidRow(k) == k.id \in processIds[Key(k.of)]
ComposeRow(c) == BenchOf(c) \in composeProjects[Key(c)]
Opening == {"translate", "begin", "up"} \cup StopPcs
Reaps(w, c) == job[w].task = "sweep" \/ (job[w].task = "cleanup" /\ job[w].of = Of(c))

\* A child has its row, but for one that a failed or an old launch left and that this or
\* the next handler of the component is going to record or stop.
KidsHave(c) == \A k \in alive : k.of = c =>
    KidRow(k) \/ (k.by = None /\ (status[c] = "error" \/ \E w \in Workers : job[w].at = c))
ServiceHas(c) == c \in container =>
    \/ ComposeRow(c) \/ status[c] = "error"
    \/ \E w \in Workers : job[w].at = c /\ job[w].pc \in Opening
\* What a Stop of the bench has passed is down.
Passed(w, c) ==
    /\ job[w].task = "stopAll" /\ BenchOf(c) = job[w].of
    /\ c \notin job[w].todo /\ c # job[w].at
    => ~Stays(c)
\* What a cleanup or the sweep is to reap is in its entries.
Lists(w, key) == {e \in job[w].entries : e.key = key}
Reached(w, c) == Reaps(w, c) =>
    /\ c \in container => \E e \in Lists(w, Key(c)) : BenchOf(c) \in e.projects
    /\ \A k \in alive : k.of = c => \E e \in Lists(w, Key(c)) : k.id \in e.ids
Cleans(w, g) == job[w].task = "cleanup" /\ job[w].of = g
Cleaned(c) == Of(c) \in backoff \ connected /\ Runs(c) => \E w \in Workers : Cleans(w, Of(c))

Good(c) ==
    /\ KidsHave(c) /\ ServiceHas(c) /\ Cleaned(c)
    /\ \A w \in Workers : Passed(w, c) /\ Reached(w, c)
Listed(w) == job[w].pc = "reap" => \A e \in job[w].entries :
    /\ job[w].task = "cleanup" => e.key[1] = job[w].of
    /\ \A f \in job[w].entries : e.key = f.key => e = f
Rows ==
    /\ \A c \in Components : Missed(c) \/ Good(c)
    /\ \A w \in Workers : Listed(w)

\* No more of the component runs, and what does keeps its rows, or is in error.
Wanes(c) ==
    /\ status[c] = "error" => status'[c] = "error"
    /\ c \in container' => c \in container
    /\ \A k \in alive' : k.of = c => k \in alive /\ (KidRow(k) => KidRow(k)')
    /\ c \in container' /\ ComposeRow(c) => ComposeRow(c)' \/ status'[c] = "error"
Leads(v, c) ==
    /\ job[v].at = c => /\ job'[v].at = c
                        /\ job[v].pc \in Opening => job'[v].pc \in Opening
    /\ Passed(v, c)' /\ Reached(v, c)'
    /\ Cleans(v, Of(c)) => Cleans(v, Of(c))'

LEMMA GoodKept ==
    ASSUME NEW c \in Components, Good(c), config' = config, Wanes(c),
           \A v \in Workers : Leads(v, c),
           Of(c) \in backoff' \ connected' => Of(c) \in backoff \ connected
    PROVE  Good(c)'
<1>1. Of(c)' = Of(c) /\ \A k : Key(k.of)' = Key(k.of)
  BY DEF Of, Key
<1>2. KidsHave(c)'
  BY DEF Good, KidsHave, Wanes, Leads
<1>3. ServiceHas(c)'
  BY DEF Good, ServiceHas, Wanes, Leads
<1>4. Runs(c)' => Runs(c)
  BY DEF Wanes, Runs
<1>5. Cleaned(c)'
  BY <1>1, <1>4 DEF Good, Cleaned, Leads
<1>6. \A v \in Workers : Passed(v, c)' /\ Reached(v, c)'
  BY DEF Leads
<1> QED
  BY <1>2, <1>3, <1>5, <1>6 DEF Good

LEMMA UndisturbedLeads ==
    ASSUME NEW c \in Components, NEW v \in Workers, Undisturbed(job[v], job'[v]), config' = config,
           Wanes(c), Good(c)
    PROVE  Leads(v, c)
<1>1. Of(c)' = Of(c) /\ Key(c)' = Key(c)
  BY DEF Of, Key
<1>2. Passed(v, c) /\ Reached(v, c)
  BY DEF Good
<1>3. Stays(c)' => Stays(c)
  BY DEF Wanes, Stays, Stands
<1>4. Passed(v, c)'
  BY <1>2, <1>3 DEF Passed, Undisturbed, BenchOf
<1>5. Reached(v, c)'
  BY <1>1, <1>2 DEF Reached, Undisturbed, BenchOf, Reaps, Lists, Wanes
<1>6. job[v].at = c => /\ job'[v].at = c
                       /\ job[v].pc \in Opening => job'[v].pc \in Opening
  BY DEF Undisturbed, Waits, Opening, StopPcs
<1> QED
  BY <1>1, <1>4, <1>5, <1>6 DEF Leads, Cleans, Undisturbed

\* While one handler moves, and when none does.
LEMMA GoodBeside ==
    ASSUME NEW c \in Components, Good(c), NEW w \in Workers, Alone(w),
           UNCHANGED <<config, connected, backoff>>, Wanes(c), Leads(w, c)
    PROVE  Good(c)'
BY GoodKept, UndisturbedLeads DEF Alone

LEMMA GoodStill ==
    ASSUME NEW c \in Components, Good(c), UNCHANGED <<job, config>>, Wanes(c),
           Of(c) \in backoff' \ connected' => Of(c) \in backoff \ connected
    PROVE  Good(c)'
<1>1. \A v \in Workers : Undisturbed(job[v], job'[v])
  BY DEF Undisturbed
<1> QED
  BY <1>1, GoodKept, UndisturbedLeads

\* A handler that begins or goes on elsewhere, and cleans nothing.
LEMMA BusyLeads ==
    ASSUME NEW c \in Components, NEW w \in Workers, job[w].at # c \/ job'[w].at = c,
           job[w].at = c /\ job[w].pc \in Opening => job'[w].pc \in Opening,
           job[w].task # "cleanup", job'[w].task \notin {"cleanup", "sweep"}, Passed(w, c)'
    PROVE  Leads(w, c)
BY DEF Leads, Reached, Reaps, Cleans

LEMMA GoodDown ==
    ASSUME NEW c \in Components, ~Runs(c)'
    PROVE  Good(c)'
<1>1. c \notin container' /\ \A k \in alive' : k.of # c
  BY DEF Runs
<1> QED
  BY <1>1 DEF Good, KidsHave, ServiceHas, Cleaned, Passed, Reached, Stays, Stands, Runs

\* Of a component that a handler is at after the step.
LEMMA GoodAt ==
    ASSUME (Inv /\ Downed /\ Steady)', NEW w \in Workers, NEW c \in Components, job'[w].at = c,
           ~Missed(c)', \A k \in alive' : k.by = w => KidRow(k)',
           c \in container' => ComposeRow(c)' \/ job'[w].pc \in Opening
    PROVE  Good(c)'
<1>1. c \notin crossed' /\ c \notin unbound'
  BY DEF Missed
<1>2. \/ job'[w].pc \in LaunchPcs /\ job'[w].task \in Launches
      \/ job'[w].pc \in StopPcs /\ job'[w].task \in Stops
  BY NoneIsNull DEF Downed, Seated, Sits, Inv, Typed, JobTypes, Jobs, Fits
<1>3. Works(w, c)' /\ ~Away(w, c)'
  BY DEF Works, Away
<1>4. ASSUME NEW v \in Workers \ {w}, Works(v, c)'
      PROVE  Away(v, c)'
  BY <1>1, <1>3, <1>4 DEF Steady, Lone
<1>5. KidsHave(c)'
  <2> SUFFICES ASSUME NEW k \in alive', k.of = c, k.by # None
               PROVE  KidRow(k)'
    BY DEF KidsHave
  <2>1. k.by \in Workers /\ job'[k.by].at = c
    BY DEF Downed, Waited, Inv, Typed, WorldTypes, Children
  <2>2. k.by = w
    BY <1>4, <2>1 DEF Works, Away
  <2> QED
    BY <2>2
<1>6. ServiceHas(c)'
  BY DEF ServiceHas
<1>7. Of(c)' \notin backoff' \ connected'
  <2>1. CASE job'[w].pc \in LaunchPcs
    BY <1>1, <2>1 DEF Steady, Knows
  <2>2. CASE job'[w].pc \in StopPcs /\ job'[w].task \in Stops
    <3>1. job'[w].bound
      BY <1>1, <2>2 DEF Steady, Knows
    <3>2. Of(c)' \in connected'
      BY <1>1, <2>2, <3>1 DEF Steady, Halts
    <3> QED
      BY <3>2
  <2> QED
    BY <1>2, <2>1, <2>2
<1>8. ASSUME NEW v \in Workers
      PROVE  Passed(v, c)' /\ Reached(v, c)'
  <2>1. CASE v = w
    BY <1>2, <2>1 DEF Passed, Reached, Reaps, Launches, Starts, Stops
  <2>2. CASE v # w
    <3>1. Works(v, c)' => job'[v].task = "restore"
      BY <1>4, <2>2 DEF Away
    <3> QED
      BY <3>1 DEF Passed, Reached, Reaps, Works
  <2> QED
    BY <2>1, <2>2
<1> QED
  BY <1>5, <1>6, <1>7, <1>8 DEF Good, Cleaned

\* Of a component that the launch of a handler ends at.
LEMMA GoodLeft ==
    ASSUME Inv, Steady, Waited', WorldTypes', NEW w \in Workers, NEW c \in Components,
           job[w].at = c, job[w].pc \in LaunchPcs, Alone(w), Leaves(w),
           UNCHANGED <<config, connected, backoff>>, c \notin crossed,
           \/ status'[c] = "error"
           \/ /\ \A k \in alive' : k.of = c /\ k.by = None => KidRow(k)'
              /\ c \in container' => ComposeRow(c)'
    PROVE  Good(c)'
<1>1. job[w].task \in Launches /\ Works(w, c) /\ ~Away(w, c)
  BY LaunchJob DEF Works, Away
<1>2. ASSUME NEW v \in Workers \ {w}, Works(v, c)'
      PROVE  Away(v, c)'
  <2>1. Works(v, c)
    BY <1>2, WorksStill
  <2> QED
    BY <1>1, <2>1, AloneAt, WorksStill DEF Steady
<1>3. job'[w].at # c /\ job'[w].task \in Launches \cup {"none"}
  BY <1>1, NoneIsNull DEF Leaves
<1>4. KidsHave(c)'
  <2> SUFFICES ASSUME NEW k \in alive', k.of = c
               PROVE  KidRow(k)' \/ (k.by = None /\ status'[c] = "error")
    BY DEF KidsHave
  <2>1. ASSUME k.by # None
        PROVE  FALSE
    <3>1. k.by \in Workers /\ job'[k.by].at = c
      BY <2>1 DEF Waited, WorldTypes, Children
    <3> QED
      BY <1>2, <1>3, <3>1 DEF Works, Away
  <2> QED
    BY <2>1
<1>5. ServiceHas(c)'
  BY DEF ServiceHas
<1>6. Of(c)' \notin backoff' \ connected'
  BY DEF Steady, Knows, Of
<1>7. ASSUME NEW v \in Workers
      PROVE  Passed(v, c)' /\ Reached(v, c)'
  <2>1. CASE v = w
    BY <1>3, <2>1 DEF Passed, Reached, Reaps, Launches, Starts
  <2>2. CASE v # w
    <3>1. Works(v, c)' => job'[v].task = "restore"
      BY <1>2, <2>2 DEF Away
    <3> QED
      BY <3>1 DEF Passed, Reached, Reaps, Works
  <2> QED
    BY <2>1, <2>2
<1> QED
  BY <1>4, <1>5, <1>6, <1>7 DEF Good, Cleaned

\* The entries of a cleanup or the sweep.
LEMMA RowsKept ==
    ASSUME Rows, NEW w \in Workers, Alone(w), Listed(w)' \/ job'[w].pc # "reap",
           \A c \in Components : ~Missed(c)' => Good(c)'
    PROVE  Rows'
<1>1. ASSUME NEW v \in Workers
      PROVE  Listed(v)'
  <2>1. CASE v = w
    BY <2>1 DEF Listed
  <2>2. CASE v # w
    BY <2>2 DEF Rows, Listed, Alone, Undisturbed, Waits
  <2> QED
    BY <2>1, <2>2
<1> QED
  BY <1>1 DEF Rows

-----------------------------------------------------------------------------
(* Rows: the steps of a launch *)

LEMMA LaunchesLaunching ==
    ASSUME Inv, Steady, NEW w \in Workers,
           \/ Translate(w) \/ Begin(w) \/ Up(w) \/ Health(w) \/ Spawn(w)
           \/ \E ok \in BOOLEAN : CommandEnds(w, ok) \/ KilledEnds(w, ok)
    PROVE  Launching(w, job[w].at) /\ job[w].pc \in LaunchPcs
<1>1. job[w].pc \in LaunchPcs
  BY DEF Translate, Begin, Up, Health, Spawn, CommandEnds, KilledEnds, LaunchPcs
<1>2. Launching(w, job[w].at)
  BY <1>1, TranslateLaunching, BeginLaunching, UpLaunching, HealthLaunching, SpawnLaunching,
     AfterLaunching DEF CommandEnds, KilledEnds
<1> QED
  BY <1>1, <1>2

\* The rows are there before the step ends: it adds to what runs only of c, and what it
\* leaves of c without a row is of a launch still at work or in error.
Grows(c) ==
    /\ UNCHANGED <<escaped, container>>
    /\ \A k \in Keys : /\ processIds[k] \subseteq processIds'[k]
                       /\ composeProjects[k] \subseteq composeProjects'[k]
    /\ \A k \in alive' : k \in alive \/ k.of = c
Secures(w, c) ==
    /\ \A k \in alive' : k.by = w => KidRow(k)'
    /\ c \in container => \/ ComposeRow(c)'
                          \/ job'[w].at = c /\ job'[w].pc \in Opening
                          \/ status'[c] = "error"
    /\ status'[c] = "error" \/ job'[w].at = c
         \/ \A k \in alive' : k.of = c /\ k.by = None => KidRow(k)'

LEMMA GrowsWanes ==
    ASSUME Inv, config' = config, NEW c \in Components, Grows(c), NEW d \in Components, d # c,
           status'[d] = status[d]
    PROVE  Wanes(d)
<1>1. Key(d) \in Keys /\ Key(d)' = Key(d)
  BY Parts DEF Inv, Typed, NoteTypes, Key, Of
<1> QED
  BY <1>1 DEF Grows, Wanes, KidRow, ComposeRow, BenchOf

LEMMA LaunchingRows ==
    ASSUME Inv, Steady, (Inv /\ Downed /\ Steady)', Rows, NEW w \in Workers,
           job[w].pc \in LaunchPcs, NEW c \in Components, job[w].at = c, Launching(w, c),
           Grows(c), Missed(c) \/ Secures(w, c)
    PROVE  Rows'
<1>1. job[w].task \in Launches
  BY LaunchJob
<1>2. /\ Alone(w) /\ UNCHANGED <<config, connected, backoff, escaped, crossed, unbound>>
      /\ \A x \in Components \ {c} : status'[x] = status[x]
  BY DEF Launching, Grows
<1>3. \/ \E p \in Begun : GoesTo(w, p) /\ status'[c] \in {"starting", status[c]}
      \/ Leaves(w)
  BY DEF Launching, Reaches, Lands
<1>4. /\ job'[w].at \in {c, None} /\ job'[w].pc # "reap"
      /\ job[w].task \notin {"cleanup", "stopAll"}
      /\ job'[w].task \notin {"cleanup", "sweep", "stopAll"}
  BY <1>1, <1>3 DEF GoesTo, Begun, LaunchPcs, Leaves, Launches, Starts
<1>5. ASSUME NEW d \in Components, ~Missed(d)', d # c
      PROVE  Good(d)'
  <2>1. Wanes(d)
    BY <1>2, <1>5, GrowsWanes
  <2>2. Leads(w, d)
    BY <1>4, <1>5, BusyLeads DEF Passed
  <2>3. Good(d)
    BY <1>2, <1>5 DEF Rows, Missed
  <2> QED
    BY <1>2, <2>1, <2>2, <2>3, GoodBeside
<1>6. ASSUME ~Missed(c)'
      PROVE  Good(c)'
  <2>1. ~Missed(c) /\ Secures(w, c) /\ c \notin crossed
    BY <1>2, <1>6 DEF Missed
  <2>2. CASE job'[w].at = c
    <3>1. \E p \in Begun : GoesTo(w, p) /\ status'[c] # "error"
      <4>1. status[c] = "starting"
        BY <2>1 DEF Steady, Knows
      <4> QED
        BY <1>3, <2>2, <4>1, NoneIsNull DEF Leaves
    <3>2. c \in container' => ComposeRow(c)' \/ job'[w].pc \in Opening
      BY <2>1, <3>1 DEF Secures, Grows
    <3> QED
      BY <1>6, <2>1, <2>2, <3>2, GoodAt DEF Secures
  <2>3. CASE job'[w].at # c
    <3>1. Leaves(w) /\ Waited' /\ WorldTypes'
      BY <1>3, <2>3 DEF GoesTo, Downed, Inv, Typed
    <3>2. \/ status'[c] = "error"
          \/ /\ \A k \in alive' : k.of = c /\ k.by = None => KidRow(k)'
             /\ c \in container' => ComposeRow(c)'
      BY <2>1, <2>3 DEF Secures, Grows
    <3> QED
      BY <1>2, <2>1, <3>1, <3>2, GoodLeft
  <2> QED
    BY <2>2, <2>3
<1> QED
  BY <1>2, <1>4, <1>5, <1>6, RowsKept

\* What is known of the rows at an await of a launch.
LEMMA ServiceKnown ==
    ASSUME Inv, Downed, Steady, Rows, NEW w \in Workers, NEW c \in Components, job[w].at = c,
           job[w].pc \in LaunchPcs, ~Missed(c)
    PROVE  /\ c \in container => Kind(c) = "docker"
           /\ c \in container /\ job[w].pc \notin Opening => ComposeRow(c)
           /\ \A k \in alive : k.of = c /\ k.by # None => KidRow(k)
           /\ \A k \in alive : k.by = w => k.of = c
           /\ job[w].pc \notin Waits => \A k \in alive : k.by # w
           /\ \A k \in alive : k.by = None => Kind(k.of) = "process" /\ k.id = Main(k.of)
<1>1. Good(c) /\ c \notin crossed
  BY DEF Rows, Missed
<1>2. Works(w, c) /\ ~Away(w, c)
  BY DEF Works, Away
<1>3. \A v \in Workers : job[v].at = c => v = w
  BY <1>1, <1>2, AloneAt DEF Steady, Works
<1>4. status[c] = "starting"
  BY <1>1 DEF Steady, Knows
<1>5. c \in container => Kind(c) = "docker"
  BY DEF Downed, Services
<1>6. \A k \in alive : k.by = w => k.of = c
  BY NoneIsNull, ComponentParameters DEF Downed, Waited
<1>7. job[w].pc \notin Waits => \A k \in alive : k.by # w
  BY ComponentParameters DEF Inv, ChildrenFit
<1> QED
  BY <1>1, <1>3, <1>4, <1>5, <1>6, <1>7 DEF Good, KidsHave, ServiceHas, Downed, Mains

\* A command of the component is recorded as it starts.
LEMMA RunSecures ==
    ASSUME Inv, config' = config, NEW w \in Workers, NEW c \in Components, NEW id,
           recordProcess(Key(c), id), runProcess(id, c, w),
           UNCHANGED <<composeProjects, container, escaped>>,
           \A k \in alive : k.by # w
    PROVE  Grows(c) /\ \A k \in alive' : k.by = w => KidRow(k)'
<1>1. Key(c) \in Keys /\ Key(c)' = Key(c) /\ LedgerTypes
  BY Parts DEF Inv, Typed, NoteTypes, Key, Of
<1>2. processIds' = [processIds EXCEPT ![Key(c)] = @ \cup {id}]
  BY DEF recordProcess
<1>3. \A k \in Keys : processIds[k] \subseteq processIds'[k]
  BY <1>1, <1>2 DEF LedgerTypes
<1>4. id \in processIds'[Key(c)]
  BY <1>1, <1>2 DEF LedgerTypes
<1>5. ASSUME NEW k \in alive'
      PROVE  k \in alive \/ (k.of = c /\ k.id = id)
  BY <1>5 DEF runProcess, Kid
<1> QED
  BY <1>1, <1>3, <1>4, <1>5 DEF Grows, KidRow

LEMMA TranslateRows ==
    ASSUME Inv, Downed, Steady, (Inv /\ Downed /\ Steady)', Rows, NEW w \in Workers, Translate(w)
    PROVE  Rows'
<1>0. PICK c : c = job[w].at
  OBVIOUS
<1>1. Launching(w, c) /\ job[w].pc \in LaunchPcs /\ c \in Components /\ job[w].pc = "translate"
      /\ job[w].task \in Launches
  BY <1>0, LaunchesLaunching, LaunchJob DEF Translate
<1>2. UNCHANGED <<ledger, world, escaped>>
  BY DEF Translate, misc
<1>3. Grows(c)
  BY <1>2 DEF Grows, ledger, world
<1>4. ASSUME ~Missed(c)
      PROVE  Secures(w, c)
  <2>1. \A k \in alive' : k.by # w
    BY <1>0, <1>1, <1>2, <1>4, ServiceKnown DEF Waits, world
  <2>2. CASE job' = [job EXCEPT ![w].pc = "begin"]
    <3>1. job[w] \in JobType /\ JobTypes
      BY DEF Inv, Typed, JobTypes, Jobs
    <3>2. job'[w] = [job[w] EXCEPT !.pc = "begin"]
      BY <2>2, <3>1 DEF JobTypes
    <3>3. job'[w].at = c /\ job'[w].pc = "begin"
      BY <1>0, <3>1, <3>2 DEF JobType
    <3> QED
      BY <2>1, <3>3 DEF Secures, Opening
  <2>3. CASE status' = IF job[w].held THEN [status EXCEPT ![c] = "error"] ELSE status
    <3>1. job[w].held
      BY <1>0, <1>1, <1>4 DEF Steady, Knows, Missed
    <3>2. status'[c] = "error"
      BY <1>1, <2>3, <3>1 DEF Inv, Typed, BenchTypes
    <3> QED
      BY <2>1, <3>2 DEF Secures
  <2> QED
    BY <1>0, <2>2, <2>3 DEF Translate
<1> QED
  BY <1>0, <1>1, <1>3, <1>4, LaunchingRows

LEMMA BeginRows ==
    ASSUME Inv, Downed, Steady, (Inv /\ Downed /\ Steady)', Rows, NEW w \in Workers, Begin(w)
    PROVE  Rows'
<1>0. PICK c, jobs : c = job[w].at /\ jobs = [job EXCEPT ![w].fresh = (c \notin complete)]
  OBVIOUS
<1>1. Launching(w, c) /\ job[w].pc \in LaunchPcs /\ c \in Components /\ job[w].pc = "begin"
      /\ job[w].task \in Launches
  BY <1>0, LaunchesLaunching, LaunchJob DEF Begin
<1>2. /\ UNCHANGED <<composeProjects, container>>
      /\ \/ UNCHANGED <<processIds, alive>>
         \/ \E id : recordProcess(Key(c), id) /\ runProcess(id, c, w)
      /\ \/ Kind(c) = "docker" /\ Goon(w, jobs, "up")
         \/ Kind(c) # "docker" /\ \E p \in Begun : Goon(w, jobs, p)
  BY <1>0 DEF Begin, Begun, LaunchPcs
<1>3. UNCHANGED <<config, escaped>>
  BY <1>2 DEF Goon, misc
<1>4. \A k \in alive : k.by # w
  BY <1>1, ComponentParameters DEF Inv, ChildrenFit, Waits
<1>5. Grows(c) /\ \A k \in alive' : k.by = w => KidRow(k)'
  <2>1. CASE UNCHANGED <<processIds, alive>>
    BY <1>2, <1>3, <1>4, <2>1 DEF Grows
  <2>2. CASE \E id : recordProcess(Key(c), id) /\ runProcess(id, c, w)
    BY <1>1, <1>2, <1>3, <1>4, <2>2, RunSecures
  <2> QED
    BY <1>2, <2>1, <2>2
<1>6. Secures(w, c)
  <2>1. PICK p \in Begun : /\ Goon(w, jobs, p)
                           /\ Kind(c) = "docker" => p = "up"
    BY <1>2 DEF Begun, LaunchPcs
  <2>2. Sideways(w, jobs) /\ Begins(w, jobs)
    BY <1>0, <1>1, BeginSideways
  <2>3. GoesTo(w, p)
    BY <1>0, <1>1, <2>1, <2>2, GoonLeaves DEF Sideways
  <2>4. job'[w].at = c /\ job'[w].pc = p
    BY <1>0, <2>3 DEF GoesTo
  <2>5. c \in container => Kind(c) = "docker"
    BY DEF Downed, Services
  <2> QED
    BY <1>5, <2>1, <2>4, <2>5 DEF Secures, Opening
<1> QED
  BY <1>0, <1>1, <1>5, <1>6, LaunchingRows

\* The last report of a launch, and another one, of the component a handler is at.
LEMMA LaunchedAt ==
    ASSUME Inv, NEW w \in Workers, NEW jobs, Sideways(w, jobs), NEW c \in Components,
           job[w].at = c, NEW s, Launched(w, jobs, s)
    PROVE  job'[w].at # c /\ status'[c] = s /\ UNCHANGED <<config, escaped>>
<1>1. Leaves(w) /\ status'[c] = s
  BY LaunchedLeaves DEF Sideways
<1> QED
  BY <1>1, NoneIsNull DEF Leaves, Launched, misc

LEMMA GoonAt ==
    ASSUME Inv, NEW w \in Workers, NEW c \in Components, job[w].at = c, NEW p, Goon(w, job, p)
    PROVE  job'[w].at = c /\ job'[w].pc = p /\ UNCHANGED <<config, escaped>>
<1>1. Sideways(w, job) /\ Begins(w, job)
  BY SidewaysJob DEF Inv, Typed, Begins
<1>2. GoesTo(w, p)
  BY <1>1, GoonLeaves DEF Sideways
<1> QED
  BY <1>2 DEF GoesTo, Goon, misc

LEMMA UpRows ==
    ASSUME Inv, Downed, Steady, (Inv /\ Downed /\ Steady)', Rows, NEW w \in Workers, Up(w)
    PROVE  Rows'
<1>0. PICK c : c = job[w].at
  OBVIOUS
<1>1. Launching(w, c) /\ job[w].pc \in LaunchPcs /\ c \in Components /\ job[w].pc = "up"
      /\ Sideways(w, job)
  BY <1>0, LaunchesLaunching, LaunchJob, SidewaysJob DEF Up, Inv, Typed
<1>2. /\ UNCHANGED <<processIds, alive, container>>
      /\ \/ recordComposeProject(Key(c), BenchOf(c)) /\ Goon(w, job, "health")
         \/ Launched(w, job, "error") /\ UNCHANGED composeProjects
  BY <1>0 DEF Up, world
<1>3. Key(c) \in Keys /\ LedgerTypes /\ UNCHANGED <<config, escaped>>
  BY <1>1, <1>2, Parts DEF Inv, Typed, NoteTypes, Goon, Launched, misc
<1>4. \A k \in Keys : composeProjects[k] \subseteq composeProjects'[k]
  BY <1>2, <1>3 DEF recordComposeProject, LedgerTypes
<1>5. Grows(c)
  BY <1>2, <1>3, <1>4 DEF Grows
<1>6. \A k \in alive' : k.by # w
  BY <1>1, <1>2, ComponentParameters DEF Inv, ChildrenFit, Waits
<1>7. CASE recordComposeProject(Key(c), BenchOf(c)) /\ Goon(w, job, "health")
  <2>1. job'[w].at = c
    BY <1>0, <1>1, <1>7, GoonAt
  <2>2. ComposeRow(c)'
    BY <1>3, <1>7 DEF recordComposeProject, LedgerTypes, ComposeRow, Key, Of, BenchOf
  <2>3. Secures(w, c)
    BY <1>6, <2>1, <2>2 DEF Secures
  <2> QED
    BY <1>0, <1>1, <1>5, <2>3, LaunchingRows
<1>8. CASE Launched(w, job, "error")
  <2>1. Secures(w, c)
    BY <1>0, <1>1, <1>6, <1>8, LaunchedAt DEF Secures
  <2> QED
    BY <1>0, <1>1, <1>5, <2>1, LaunchingRows
<1> QED
  BY <1>2, <1>7, <1>8

LEMMA HealthRows ==
    ASSUME Inv, Downed, Steady, (Inv /\ Downed /\ Steady)', Rows, NEW w \in Workers, Health(w)
    PROVE  Rows'
<1>0. PICK c : c = job[w].at
  OBVIOUS
<1>1. Launching(w, c) /\ job[w].pc \in LaunchPcs /\ c \in Components /\ job[w].pc = "health"
      /\ Sideways(w, job)
  BY <1>0, LaunchesLaunching, LaunchJob, SidewaysJob DEF Health, Inv, Typed
<1>2. /\ UNCHANGED <<composeProjects, container>>
      /\ \/ /\ recordProcess(Key(c), Before(c)) /\ runProcess(Before(c), c, w)
            /\ Goon(w, job, "before")
         \/ /\ UNCHANGED <<processIds, alive>>
            /\ \E s \in {"running", "error"} : Launched(w, job, s)
  BY <1>0 DEF Health
<1>3. Key(c)' = Key(c) /\ UNCHANGED <<config, escaped>>
  BY <1>2 DEF Goon, Launched, misc, Key, Of
<1>4. \A k \in alive : k.by # w
  BY <1>1, ComponentParameters DEF Inv, ChildrenFit, Waits
<1>5. Grows(c) /\ \A k \in alive' : k.by = w => KidRow(k)'
  <2>1. CASE UNCHANGED <<processIds, alive>>
    BY <1>2, <1>3, <1>4, <2>1 DEF Grows
  <2>2. CASE recordProcess(Key(c), Before(c)) /\ runProcess(Before(c), c, w)
    BY <1>1, <1>2, <1>3, <1>4, <2>2, RunSecures
  <2> QED
    BY <1>2, <2>1, <2>2
<1>6. ASSUME ~Missed(c)
      PROVE  Secures(w, c)
  <2>1. c \in container => ComposeRow(c)'
    BY <1>0, <1>1, <1>2, <1>3, <1>6, ServiceKnown DEF Opening, StopPcs, ComposeRow, BenchOf
  <2>2. Kind(c) = "docker"
    BY <1>0, <1>1 DEF Downed, Seated, Sits
  <2>3. \A k \in alive' : k.of = c => k.by # None
    BY <2>2, <1>3 DEF Downed, Mains, Kind
  <2> QED
    BY <1>5, <2>1, <2>3 DEF Secures
<1> QED
  BY <1>0, <1>1, <1>5, <1>6, LaunchingRows

LEMMA AfterRows ==
    ASSUME Inv, Downed, Steady, (Inv /\ Downed /\ Steady)', Rows, NEW w \in Workers,
           job[w].pc \in {"before", "run", "killed"}, NEW ok, After(w, job, ok),
           UNCHANGED <<ledger, container>>, alive' \subseteq alive, Launching(w, job[w].at)
    PROVE  Rows'
<1>0. PICK c : c = job[w].at
  OBVIOUS
<1>1. Launching(w, c) /\ job[w].pc \in LaunchPcs /\ c \in Components /\ Sideways(w, job)
  BY <1>0, LaunchJob, SidewaysJob DEF LaunchPcs, Inv, Typed
<1>2. \/ Launched(w, job, "error")
      \/ \E s \in {"running", "completed"} : Kind(c) # "process" /\ Launched(w, job, s)
      \/ Kind(c) \notin {"docker", "oneshot"} /\ Goon(w, job, "spawn")
  BY <1>0 DEF After
<1>3. Key(c)' = Key(c) /\ UNCHANGED <<config, escaped>>
  BY <1>2 DEF Goon, Launched, misc, Key, Of
<1>4. Grows(c)
  BY <1>3 DEF Grows, ledger
<1>5. ASSUME ~Missed(c)
      PROVE  Secures(w, c)
  <2>1. c \in container => ComposeRow(c)'
    BY <1>0, <1>1, <1>3, <1>5, ServiceKnown DEF Opening, StopPcs, ComposeRow, BenchOf, ledger
  <2>2. \A k \in alive' : k.by = w => KidRow(k)'
    <3>1. \A k \in alive : k.by = w => KidRow(k)
      BY <1>0, <1>1, <1>5, ServiceKnown, ComponentParameters
    <3> QED
      BY <1>3, <3>1 DEF KidRow, Key, Of, ledger
  <2>3. CASE Launched(w, job, "error")
    BY <1>0, <1>1, <2>2, <2>3, LaunchedAt DEF Secures
  <2>4. CASE Kind(c) # "process"
    <3>1. \A k \in alive' : k.of = c => k.by # None
      BY <1>3, <2>4 DEF Downed, Mains, Kind
    <3> QED
      BY <2>1, <2>2, <3>1 DEF Secures
  <2>5. CASE Goon(w, job, "spawn")
    BY <1>0, <1>1, <2>1, <2>2, <2>5, GoonAt DEF Secures
  <2> QED
    BY <1>2, <2>3, <2>4, <2>5
<1> QED
  BY <1>0, <1>1, <1>4, <1>5, LaunchingRows

LEMMA EndsRows ==
    ASSUME Inv, Downed, Steady, (Inv /\ Downed /\ Steady)', Rows, NEW w \in Workers,
           NEW ok \in BOOLEAN, CommandEnds(w, ok) \/ KilledEnds(w, ok)
    PROVE  Rows'
<1>1. Launching(w, job[w].at)
  BY LaunchesLaunching
<1>2. /\ job[w].pc \in {"before", "run", "killed"} /\ After(w, job, ok)
      /\ UNCHANGED <<ledger, container>> /\ alive' \subseteq alive
  BY DEF CommandEnds, KilledEnds, world, exits
<1> QED
  BY <1>1, <1>2, AfterRows

LEMMA SpawnRows ==
    ASSUME Inv, Downed, Steady, (Inv /\ Downed /\ Steady)', Rows, NEW w \in Workers, Spawn(w)
    PROVE  Rows'
<1>0. PICK c, jobs : c = job[w].at /\ jobs = Killed(job, Main(c))
  OBVIOUS
<1>1. /\ Launching(w, c) /\ job[w].pc \in LaunchPcs /\ c \in Components /\ job[w].pc = "spawn"
      /\ Key(c) \in Keys /\ LedgerTypes
  BY <1>0, LaunchesLaunching, LaunchJob, Parts DEF Spawn, Inv, Typed, NoteTypes
<1>2. Sideways(w, jobs)
  BY <1>0, <1>1, SidewaysKilled, Parts DEF Inv, Typed, NoteTypes
<1>3. /\ UNCHANGED <<composeProjects, container>>
      /\ \/ /\ startProcess(Main(c), c) /\ recordProcess(Key(c), Main(c))
            /\ Launched(w, jobs, "running")
         \/ /\ stopProcess(Main(c)) /\ UNCHANGED processIds
            /\ Launched(w, jobs, "error")
  BY <1>0 DEF Spawn
<1>4. UNCHANGED <<config, escaped>> /\ Key(c)' = Key(c)
  BY <1>3 DEF Launched, misc, Key, Of
<1>5. \A k \in alive' : k.by # w
  <2>1. \A k \in alive : k.by # w
    BY <1>1, ComponentParameters DEF Inv, ChildrenFit, Waits
  <2>2. \A k \in alive' : k \in alive \/ k.by = None
    BY <1>3 DEF startProcess, stopProcess, Kid
  <2> QED
    BY <2>1, <2>2, ComponentParameters
<1>6. Grows(c)
  <2>1. \A k \in alive' : k \in alive \/ k.of = c
    BY <1>3 DEF startProcess, stopProcess, Kid
  <2>2. \A k \in Keys : processIds[k] \subseteq processIds'[k]
    BY <1>1, <1>3 DEF recordProcess, LedgerTypes
  <2> QED
    BY <1>3, <1>4, <2>1, <2>2 DEF Grows
<1>7. c \notin container
  BY <1>0, <1>1 DEF Downed, Seated, Sits, Services
<1>8. CASE Launched(w, jobs, "error")
  <2>1. Secures(w, c)
    BY <1>0, <1>1, <1>2, <1>5, <1>8, LaunchedAt DEF Secures
  <2> QED
    BY <1>0, <1>1, <1>6, <2>1, LaunchingRows
<1>9. CASE recordProcess(Key(c), Main(c))
  <2>1. Main(c) \in processIds'[Key(c)]
    BY <1>1, <1>9 DEF recordProcess, LedgerTypes
  <2>2. \A k \in alive' : k.of = c /\ k.by = None => KidRow(k)'
    BY <1>4, <2>1 DEF Downed, Mains, KidRow, Main
  <2>3. Secures(w, c)
    BY <1>5, <1>7, <2>2 DEF Secures
  <2> QED
    BY <1>0, <1>1, <1>6, <2>3, LaunchingRows
<1> QED
  BY <1>3, <1>8, <1>9

\* The container of a launch comes up: no other handler is at the component, or has met it.
LEMMA ComesUpRows ==
    ASSUME Inv, Downed, Steady, (Inv /\ Downed /\ Steady)', Rows, NEW w \in Workers, ComesUp(w)
    PROVE  Rows'
<1>0. PICK c : c = job[w].at
  OBVIOUS
<1>1. /\ c \in Components /\ job[w].pc = "up" /\ container' = container \cup {c}
      /\ UNCHANGED <<job, config, alive, processIds, composeProjects, status, connected, backoff,
                     escaped, crossed, unbound>>
  BY <1>0, LaunchJob DEF ComesUp, LaunchPcs, benchVars, ledger, plugin, misc
<1>2. \A d \in Components : Missed(d)' <=> Missed(d)
  BY <1>1 DEF Missed
<1>3. \A v \in Workers : Listed(v)'
  BY <1>1 DEF Rows, Listed
<1>4. ASSUME NEW d \in Components, ~Missed(d), d # c
      PROVE  Good(d)'
  <2>1. Wanes(d)
    BY <1>1, <1>4 DEF Wanes, KidRow, ComposeRow, Key, Of, BenchOf
  <2> QED
    BY <1>1, <1>4, <2>1, GoodStill DEF Rows
<1>5. ASSUME ~Missed(c)
      PROVE  Good(c)'
  <2>1. \A k \in alive' : k.by # w
    BY <1>1, ComponentParameters DEF Inv, ChildrenFit, Waits
  <2>2. job'[w].at = c /\ job'[w].pc \in Opening
    BY <1>0, <1>1 DEF Opening
  <2> QED
    BY <1>1, <1>2, <1>5, <2>1, <2>2, GoodAt
<1> QED
  BY <1>2, <1>3, <1>4, <1>5 DEF Rows

-----------------------------------------------------------------------------
(* Rows: requests, the next component and the stops *)

\* Nothing that runs, and no row, is touched.
LEMMA SameWanes ==
    ASSUME UNCHANGED <<config, alive, container, processIds, composeProjects>>, NEW c,
           status[c] = "error" => status'[c] = "error"
    PROVE  Wanes(c)
BY DEF Wanes, KidRow, ComposeRow, Key, Of, BenchOf

LEMMA AtNone ==
    ASSUME Inv, Downed, NEW w \in Workers, job[w].task = "none" \/ job[w].pc \in {"next", "reap"}
    PROVE  job[w].at = None
<1>1. job[w].pc \in {"idle", "next", "reap"}
  BY DEF Inv, Typed, JobTypes, Jobs, Fits
<1> QED
  BY <1>1 DEF Downed, Seated, Sits, LaunchPcs, StopPcs

LEMMA StartRows ==
    ASSUME Inv, Downed, Rows, NEW w \in Workers, NEW b, NEW S, NEW t \in Starts,
           Start(w, b, S, t)
    PROVE  Rows'
<1>1. PICK k : k = [Idle EXCEPT !.task = t, !.pc = "next", !.of = b, !.todo = S]
  OBVIOUS
<1>2. k.at = None /\ k.task = t /\ k.pc = "next"
  BY <1>1 DEF Idle
<1>3. job' = [job EXCEPT ![w] = k] /\ JobTypes /\ job[w].task = "none"
  BY <1>1 DEF Start, Inv, Typed
<1>4. Alone(w) /\ job'[w] = k
  BY <1>3, OneMoves
<1>5. UNCHANGED <<config, connected, backoff, escaped, crossed, unbound, status, alive, container,
                  processIds, composeProjects>>
  BY DEF Start, plugin, misc, world, ledger
<1>6. ASSUME NEW d \in Components, ~Missed(d)'
      PROVE  Good(d)'
  <2>1. Wanes(d) /\ Good(d)
    BY <1>5, <1>6, SameWanes DEF Rows, Missed
  <2>2. Leads(w, d)
    BY <1>2, <1>3, <1>4, AtNone, BusyLeads, NoneIsNull DEF Starts, Passed
  <2> QED
    BY <1>4, <1>5, <2>1, <2>2, GoodBeside
<1> QED
  BY <1>2, <1>4, <1>6, RowsKept

LEMMA SkipRows ==
    ASSUME Inv, Downed, Rows, NEW w \in Workers, NEW c \in Components, Skip(w, c)
    PROVE  Rows'
<1>1. PICK rest : rest \subseteq job[w].todo /\ job' = [job EXCEPT ![w] = Goes(w, rest)]
  BY DEF Skip
<1>2. JobTypes /\ BenchTypes /\ job[w].task \in Launches /\ job[w].pc = "next"
  BY DEF Skip, Inv, Typed
<1>3. Alone(w) /\ Leaves(w)
  BY <1>1, <1>2, OneMoves, GoesLeaves
<1>4. /\ job'[w].pc \in {"next", "idle"} /\ job[w].task \notin {"cleanup", "sweep", "stopAll"}
      /\ job'[w].task \notin {"cleanup", "sweep", "stopAll"}
  BY <1>2, <1>3 DEF Leaves, Launches, Starts
<1>5. UNCHANGED <<config, connected, backoff, escaped, crossed, unbound, alive, container,
                  processIds, composeProjects>>
  BY DEF Skip, plugin, misc, world, ledger
<1>6. ASSUME NEW d \in Components, ~Missed(d)'
      PROVE  Good(d)'
  <2>1. status[d] = "error" => status'[d] = "error"
    BY <1>2 DEF Skip, BenchTypes
  <2>2. Wanes(d) /\ Good(d)
    BY <1>5, <1>6, <2>1, SameWanes DEF Rows, Missed
  <2>3. Leads(w, d)
    BY <1>2, <1>4, AtNone, BusyLeads, NoneIsNull DEF Passed
  <2> QED
    BY <1>3, <1>5, <2>2, <2>3, GoodBeside
<1> QED
  BY <1>3, <1>4, <1>6, RowsKept

LEMMA LaunchRows ==
    ASSUME Inv, Downed, (Inv /\ Downed /\ Steady)', Rows, ~Overlap, NEW w \in Workers,
           NEW c \in Components, Launch(w, c)
    PROVE  Rows'
<1>1. PICK k : k = [job[w] EXCEPT !.at = c, !.held = TRUE, !.todo = @ \ {c},
                               !.pc = IF c \in cached THEN "begin" ELSE "translate"]
  OBVIOUS
<1>2. job[w] \in JobType /\ job[w].pc = "next" /\ JobTypes /\ BenchTypes
      /\ job[w].task \in Launches
  BY DEF Inv, Typed, JobTypes, Jobs, Launch
<1>3. k.at = c /\ k.task = job[w].task /\ k.pc \in {"begin", "translate"}
  BY <1>1, <1>2 DEF JobType
<1>4. job' = [job EXCEPT ![w] = k]
  BY <1>1, <1>2 DEF Launch, JobTypes
<1>5. Alone(w) /\ job'[w] = k
  BY <1>2, <1>4, OneMoves
<1>6. /\ UNCHANGED <<config, connected, backoff, escaped, alive, container, processIds,
                     composeProjects>>
      /\ \A d \in Components \ {c} : /\ status'[d] = status[d]
                                     /\ d \in crossed' <=> d \in crossed
                                     /\ d \in unbound' <=> d \in unbound
  BY <1>2 DEF Launch, plugin, world, ledger, Noted, BenchTypes
<1>7. ASSUME NEW d \in Components, ~Missed(d)', d # c
      PROVE  Good(d)'
  <2>1. Wanes(d) /\ Good(d)
    BY <1>6, <1>7, SameWanes DEF Rows, Missed
  <2>2. Leads(w, d)
    BY <1>2, <1>3, <1>5, AtNone, BusyLeads, NoneIsNull DEF Launches, Starts, Passed
  <2> QED
    BY <1>5, <1>6, <2>1, <2>2, GoodBeside
<1>8. ASSUME ~Missed(c)'
      PROVE  Good(c)'
  <2>1. \A l \in alive' : l.by # w
    BY <1>2, <1>6, ComponentParameters DEF Inv, ChildrenFit, Waits
  <2> QED
    BY <1>3, <1>5, <1>8, <2>1, GoodAt DEF Opening
<1> QED
  BY <1>3, <1>5, <1>7, <1>8, RowsKept

\* A stop gets to c; it comes from a request for the whole bench, or from the component
\* before.
LEMMA StoppingRows ==
    ASSUME Inv, Downed, (Inv /\ Downed /\ Steady)', Rows, ~Overlap, NEW w \in Workers,
           NEW c \in Components, NEW j \in JobType, j.task \in Stops,
           job[w].task \in Stops \cup {"none"}, job[w].pc \in {"idle", "next"},
           Stopping(w, j, c),
           j.task = "stopAll" => \A d \in Components :
              BenchOf(d) = j.of => d \in j.todo \/ (job[w].task = "stopAll" /\ job[w].of = j.of
                                                    /\ d \notin job[w].todo)
    PROVE  Rows'
<1>1. PICK k : k = [j EXCEPT !.at = c, !.held = TRUE, !.todo = @ \ {c},
                             !.bound = (Of(c) \in connected),
                             !.pc = IF c \in cached' /\ Kind(c) = "docker" THEN "composeStop"
                                    ELSE "stopping"]
  OBVIOUS
<1>2. /\ k.at = c /\ k.todo = j.todo \ {c} /\ k.task = j.task /\ k.of = j.of
      /\ k.pc \in {"composeStop", "stopping"}
  BY <1>1 DEF JobType
<1>3. job' = [job EXCEPT ![w] = k] /\ JobTypes /\ BenchTypes
  BY <1>1 DEF Stopping, Inv, Typed
<1>4. Alone(w) /\ job'[w] = k
  BY <1>3, OneMoves
<1>5. /\ UNCHANGED <<config, connected, backoff, escaped, crossed, alive, container, processIds,
                     composeProjects>>
      /\ \A d \in Components \ {c} : status'[d] = status[d] /\ (d \in unbound => d \in unbound')
  BY <1>3 DEF Stopping, plugin, world, ledger, Noted, BenchTypes
<1>6. job[w].at = None
  BY AtNone DEF Inv, Typed, JobTypes, Jobs, Fits
<1>7. ASSUME NEW d \in Components, ~Missed(d)', d # c
      PROVE  Good(d)'
  <2>1. Wanes(d) /\ Good(d)
    BY <1>5, <1>7, SameWanes DEF Rows, Missed
  <2>2. Passed(w, d)'
    <3> SUFFICES ASSUME k.task = "stopAll", BenchOf(d) = k.of, d \notin k.todo
                 PROVE  ~Stays(d)'
      BY <1>4 DEF Passed, BenchOf
    <3>1. job[w].task = "stopAll" /\ job[w].of = BenchOf(d) /\ d \notin job[w].todo
      BY <1>2, <1>7
    <3>2. ~Stays(d)
      BY <1>6, <2>1, <3>1, NoneIsNull DEF Good, Passed
    <3> QED
      BY <1>5, <3>2 DEF Stays, Stands
  <2>3. Leads(w, d)
    BY <1>2, <1>4, <1>6, <2>2, BusyLeads, NoneIsNull DEF Stops
  <2> QED
    BY <1>4, <1>5, <2>1, <2>3, GoodBeside
<1>8. ASSUME ~Missed(c)'
      PROVE  Good(c)'
  <2>1. \A l \in alive' : l.by # w
    BY <1>5, ComponentParameters DEF Inv, ChildrenFit, Waits
  <2> QED
    BY <1>2, <1>4, <1>8, <2>1, GoodAt DEF Opening, StopPcs
<1> QED
  BY <1>2, <1>4, <1>7, <1>8, RowsKept

LEMMA StopRows ==
    ASSUME Inv, Downed, (Inv /\ Downed /\ Steady)', Rows, ~Overlap, NEW w \in Workers,
           NEW b \in Benches, NEW S, NEW t \in Stops, Asked(b, S, t), Stop(w, b, S, t)
    PROVE  Rows'
<1>1. PICK j \in JobType, c \in S : Stopping(w, j, c) /\ j.task = t /\ j.of = b /\ j.todo = S
  BY StopCalls
<1>2. c \in Components /\ job[w].task = "none" /\ job[w].pc = "idle"
  BY DEF Asked, Stop, Inv, Typed, JobTypes, Jobs, Fits
<1> QED
  BY <1>1, <1>2, StoppingRows DEF Asked

LEMMA StopNextRows ==
    ASSUME Inv, Downed, (Inv /\ Downed /\ Steady)', Rows, ~Overlap, NEW w \in Workers,
           NEW c \in Components, StopNext(w, c)
    PROVE  Rows'
<1>1. /\ job[w].task \in Stops /\ job[w].pc = "next"
      /\ Stopping(w, job[w], c) /\ job[w] \in JobType
  BY DEF StopNext, Stops, Inv, Typed, JobTypes, Jobs
<1> QED
  BY <1>1, StoppingRows

LEMMA ComposeStoppedRows ==
    ASSUME Inv, Rows, NEW w \in Workers, ComposeStopped(w)
    PROVE  Rows'
<1>1. /\ job[w].pc = "composeStop" /\ container' \subseteq container
      /\ UNCHANGED <<status, alive, config, connected, backoff, escaped, crossed, unbound,
                     processIds, composeProjects>>
  BY DEF ComposeStopped, benchVars, plugin, misc, ledger
<1>2. PICK k : k = [job[w] EXCEPT !.pc = "composed"]
  OBVIOUS
<1>3. job' = [job EXCEPT ![w] = k] /\ job[w] \in JobType /\ JobTypes /\ job[w].task \in Stops
  BY <1>1, <1>2 DEF ComposeStopped, Inv, Typed, JobTypes, Jobs, Fits, StopPcs
<1>4. /\ k.at = job[w].at /\ k.pc = "composed" /\ k.task = job[w].task /\ k.of = job[w].of
      /\ k.todo = job[w].todo
  BY <1>2, <1>3 DEF JobType
<1>5. Alone(w) /\ job'[w] = k
  BY <1>3, OneMoves
<1>6. ASSUME NEW d \in Components, ~Missed(d)'
      PROVE  Good(d)'
  <2>1. Good(d)
    BY <1>1, <1>6 DEF Rows, Missed
  <2>2. Wanes(d)
    BY <1>1 DEF Wanes, KidRow, ComposeRow, Key, Of, BenchOf
  <2>3. Passed(w, d)'
    BY <1>1, <1>4, <1>5, <2>1 DEF Good, Passed, Stays, Stands, BenchOf
  <2>4. Leads(w, d)
    BY <1>3, <1>4, <1>5, <2>3, BusyLeads DEF Stops, Opening, StopPcs
  <2> QED
    BY <1>1, <1>5, <2>1, <2>2, <2>4, GoodBeside
<1> QED
  BY <1>4, <1>5, <1>6, RowsKept

\* What a stop that no other handler has met leaves of its component: nothing.
LEMMA StoppedLeaves ==
    ASSUME Inv, Downed, Steady, NEW w \in Workers, NEW c \in Components, job[w].at = c,
           Stopped(w), ~Missed(c)
    PROVE  ~Runs(c)' /\ job[w].bound /\ Of(c) \in connected
<1>1. /\ job[w].pc \in {"stopping", "composed"} /\ job[w].pc \in StopPcs
      /\ job[w].task \in Stops /\ c \notin crossed /\ c \notin unbound /\ c \notin escaped
      /\ Main(c) \in Ids /\ WorldTypes
  BY Parts DEF Stopped, StopPcs, Inv, Typed, JobTypes, Jobs, Fits, Missed, NoteTypes
<1>2. job[w].held /\ job[w].bound
  BY <1>1 DEF Steady, Knows
<1>3. Of(c) \in connected
  BY <1>1, <1>2 DEF Steady, Halts
<1>4. Works(w, c) /\ ~Away(w, c)
  BY <1>1 DEF Works, Away, Stops
<1>5. \A v \in Workers : job[v].at = c => v = w
  BY <1>1, <1>4, AloneAt DEF Steady, Works
<1>6. c \notin container
  <2>1. \A v \in Workers : ~(job[v].at = c /\ job[v].pc = "up")
    BY <1>1, <1>5
  <2> QED
    BY <1>1, <1>2, <2>1 DEF Downed, StopsEnd, Emptied
<1>7. alive' = alive \ {child[Main(c)]} /\ container' = container
  BY <1>2 DEF Stopped, stopProcess
<1>8. ASSUME NEW k \in alive', k.of = c
      PROVE  FALSE
  <2>1. k \in alive /\ k # child[Main(c)]
    BY <1>7
  <2>2. k.by # None
    BY <1>8, <2>1 DEF Downed, Mains
  <2>3. k.by = w
    BY <1>5, <1>8, <2>1, <2>2 DEF Downed, Waited, WorldTypes, Children, Inv, Typed
  <2>4. job[k.by].pc \in Waits
    BY <2>1, <2>2 DEF Inv, ChildrenFit
  <2> QED
    BY <1>1, <2>3, <2>4 DEF Waits
<1> QED
  BY <1>2, <1>3, <1>6, <1>7, <1>8 DEF Runs

\* The ids, and the bench, of components that share the key of an entry.
LEMMA OneProject ==
    ASSUME \A p, q \in Projects : p = q, NEW c \in Components, NEW d \in Components,
           Key(c)[2] = Key(d)[2]
    PROVE  /\ BenchOf(c) = BenchOf(d)
           /\ {Main(c), Before(c)} \cap {Main(d), Before(d)} # {} => c = d
<1>1. /\ c = <<c[1], c[2], c[3]>> /\ d = <<d[1], d[2], d[3]>>
      /\ c[1] \in Projects /\ d[1] \in Projects
  BY DEF Components
<1>2. c[1] = d[1] /\ c[2] = d[2]
  BY <1>1 DEF Key
<1>3. {Main(c), Before(c)} \cap {Main(d), Before(d)} # {} => c[3] = d[3]
  BY DEF Main, Before
<1> QED
  BY <1>1, <1>2, <1>3 DEF BenchOf

\* What the last component of a Stop of the bench takes from the ledger is of nothing that
\* runs.
LEMMA ClearedDown ==
    ASSUME Inv, Downed, Steady, NEW w \in Workers, NEW c \in Components, job[w].at = c,
           ClearsLedger(w), NEW d \in Components, d # c, BenchOf(d) = BenchOf(c), ~Missed(d),
           Good(d)
    PROVE  ~Runs(d)
<1>1. job[w].task = "stopAll" /\ job[w].todo = {} /\ BenchOf(d) = job[w].of
  BY DEF ClearsLedger, Steady, Halts, Stops
<1>2. ~Stays(d)
  BY <1>1 DEF Good, Passed
<1>3. Works(w, d) /\ ~Away(w, d) /\ d \notin crossed
  BY <1>1 DEF Works, Away, Missed
<1>4. ASSUME NEW k \in alive, k.of = d, k.by # None
      PROVE  FALSE
  <2>1. k.by \in Workers /\ job[k.by].at = d
    BY <1>4 DEF Downed, Waited, WorldTypes, Children, Inv, Typed
  <2>2. k.by # w
    BY <2>1
  <2> QED
    BY <1>3, <2>1, <2>2, AloneAt DEF Steady, Works
<1> QED
  BY <1>2, <1>4 DEF Stays, Stands, Runs

\* A stop drops the compose project of its bench only if no sibling has a container, unless
\* that one is in error or a poll has it as stopped.
LEMMA DropsSpares ==
    ASSUME Inv, Downed, Steady, NEW w \in Workers, NEW c \in Components, job[w].at = c,
           job[w].task \in Stops, Of(c) \in connected, ~SharesProject(c),
           NEW d \in Components, d # c, BenchOf(d) = BenchOf(c), Of(d) = Of(c), ~Missed(d),
           d \in container
    PROVE  status[d] = "error" \/ d \in Misread(c)
<1>1. status[d] \notin Live /\ status[d] \in Statuses
  BY DEF SharesProject, Inv, Typed, BenchTypes
<1>2. status[d] # "completed"
  <2>1. Kind(d) = "docker"
    BY DEF Downed, Services
  <2> QED
    BY <2>1 DEF Steady
<1>3. ASSUME status[d] = "stopped"
      PROVE  d \in Misread(c)
  <2>1. Excepted(d) \/ \E v \in Workers : Brings(v, d)
    BY <1>3 DEF Downed, Down, Stays
  <2>2. ASSUME NEW v \in Workers, Brings(v, d)
        PROVE  FALSE
    BY <1>3, <2>2 DEF Brings, Begun, Steady, Knows, Missed
  <2>3. ASSUME NEW v \in Workers, job[v].task = "sweep"
        PROVE  FALSE
    <3>1. v # w /\ Claims(v, c) /\ Claims(w, c) /\ User(w)
      BY <2>3 DEF Claims, User, Works, Stops
    <3> QED
      BY <3>1 DEF Downed, Apart
  <2> QED
    BY <1>3, <2>1, <2>2, <2>3 DEF Excepted, Swept, Missed, Misread
<1> QED
  BY <1>1, <1>2, <1>3 DEF Statuses, Live

LEMMA StoppedRows ==
    ASSUME Inv, Downed, Steady, (Inv /\ Downed /\ Steady)', Rows,
           ~Overlap, \A p, q \in Projects : p = q, NEW w \in Workers, Stopped(w)
    PROVE  Rows'
<1>0. PICK c, jobs : /\ c = job[w].at
                     /\ jobs = IF job[w].bound THEN Killed(job, Main(c)) ELSE job
  OBVIOUS
<1>1. /\ job[w].pc \in StopPcs /\ c \in Components /\ job[w].task \in Stops /\ JobTypes
      /\ BenchTypes /\ LedgerTypes
  BY <1>0 DEF Stopped, StopPcs, Inv, Typed, JobTypes, Jobs, Fits
<1>2. Sideways(w, jobs)
  BY <1>0, <1>1, SidewaysKilled, SidewaysJob, Parts DEF Inv, Typed, NoteTypes
<1>3. job' = [jobs EXCEPT ![w] = Goes(w, job[w].todo)]
  BY <1>0 DEF Stopped
<1>4. /\ Alone(w) /\ Leaves(w)
      /\ job'[w] = Goes(w, job[w].todo)
  <2>1. job'[w] = Goes(w, job[w].todo) /\ \A v \in Workers \ {w} : job'[v] = jobs[v]
    BY <1>2, <1>3 DEF Sideways
  <2> QED
    BY <1>1, <1>2, <2>1, GoesLeaves DEF Alone, Sideways
<1>5. /\ UNCHANGED <<config, connected, backoff, escaped, unbound, container>>
      /\ \A x \in Components \ {c} : status'[x] = status[x]
      /\ alive' \subseteq alive /\ crossed \subseteq crossed'
      /\ job[w].bound /\ Drops(w, c) => Misread(c) \subseteq crossed'
  BY <1>0 DEF Stopped, plugin, ReadsStopped, Report, stopProcess, Noted
<1>6. \A k \in Keys :
        /\ processIds'[k] = IF ClearsLedger(w) /\ k[2] = c[2] THEN {}
             ELSE IF job[w].bound /\ k = Key(c) THEN processIds[k] \ {Main(c), Before(c)}
             ELSE processIds[k]
        /\ composeProjects'[k] = IF ClearsLedger(w) /\ k[2] = c[2] THEN {}
             ELSE IF job[w].bound /\ k = Key(c) /\ Drops(w, c)
                  THEN composeProjects[k] \ {BenchOf(c)}
             ELSE composeProjects[k]
  BY <1>0 DEF Stopped
<1>7. ASSUME ~Missed(c)'
      PROVE  Good(c)'
  <2>1. ~Missed(c)
    BY <1>5, <1>7 DEF Missed
  <2> QED
    BY <1>0, <1>1, <2>1, StoppedLeaves, GoodDown
<1>8. ASSUME NEW d \in Components, ~Missed(d)', d # c
      PROVE  Good(d)'
  <2>1. Good(d) /\ ~Missed(d) /\ status'[d] = status[d]
    BY <1>5, <1>8 DEF Rows, Missed
  <2>2. Key(d) \in Keys /\ Key(d)' = Key(d) /\ Key(d)[2] = d[2] /\ Key(c)[2] = c[2]
    BY <1>5, Parts DEF Inv, Typed, NoteTypes, Key, Of
  <2>3. ASSUME NEW k \in alive', k.of = d, KidRow(k)
        PROVE  KidRow(k)'
    <3>1. k \in alive /\ k.id \in {Main(d), Before(d)}
      BY <1>5, <2>3 DEF Steady, OwnIds
    <3>2. ~(ClearsLedger(w) /\ d[2] = c[2])
      <4>1. Runs(d)
        BY <2>3, <3>1 DEF Runs
      <4> QED
        BY <1>0, <1>1, <1>8, <2>1, <2>2, <4>1, OneProject, ClearedDown
    <3>3. Key(d) = Key(c) => k.id \notin {Main(c), Before(c)}
      BY <1>1, <1>8, <3>1, OneProject
    <3> QED
      BY <1>6, <2>2, <2>3, <3>2, <3>3 DEF KidRow
  <2>4. ASSUME d \in container, ComposeRow(d)
        PROVE  ComposeRow(d)' \/ status'[d] = "error"
    <3>1. ~(ClearsLedger(w) /\ d[2] = c[2])
      <4>1. Runs(d)
        BY <2>4 DEF Runs
      <4> QED
        BY <1>0, <1>1, <1>8, <2>1, <2>2, <4>1, OneProject, ClearedDown
    <3>2. ASSUME job[w].bound, Key(d) = Key(c), Drops(w, c)
          PROVE  status[d] = "error"
      <4>1. BenchOf(d) = BenchOf(c) /\ Of(d) = Of(c) /\ ~SharesProject(c)
        BY <1>1, <3>2, OneProject DEF Key, Drops
      <4>2. Of(c) \in connected
        <5>1. ~(\A x \in Components : Of(x) = Of(c) /\ BenchOf(x) = BenchOf(c) => x \in crossed)
          BY <2>1, <4>1 DEF Missed
        <5> QED
          BY <1>0, <1>1, <3>2, <5>1 DEF Steady, Halts
      <4>3. d \notin Misread(c)
        BY <1>5, <1>8, <3>2 DEF Missed
      <4> QED
        BY <1>0, <1>1, <1>8, <2>1, <2>4, <4>1, <4>2, <4>3, DropsSpares
    <3> QED
      BY <1>6, <2>1, <2>2, <2>4, <3>1, <3>2 DEF ComposeRow, BenchOf
  <2>5. Wanes(d)
    BY <1>5, <2>1, <2>3, <2>4 DEF Wanes
  <2>6. Passed(w, d)'
    <3> SUFFICES ASSUME job'[w].task = "stopAll", BenchOf(d) = job'[w].of, d \notin job'[w].todo
                 PROVE  ~Stays(d)'
      BY DEF Passed, BenchOf
    <3>1. job'[w].task = job[w].task /\ job'[w].of = job[w].of
      BY <1>4 DEF Leaves
    <3>2. job'[w].todo = job[w].todo
      <4>1. job[w].todo # {} /\ job[w] \in JobType
        BY <1>1, <1>4 DEF Goes, Idle, JobTypes, Jobs
      <4> QED
        BY <1>4, <4>1 DEF Goes, JobType
    <3>3. ~Stays(d)
      BY <1>0, <1>8, <2>1, <3>1, <3>2 DEF Good, Passed
    <3> QED
      BY <1>5, <3>3 DEF Stays, Stands
  <2>7. Leads(w, d)
    BY <1>0, <1>1, <1>4, <1>8, <2>6, BusyLeads DEF Leaves, Stops
  <2> QED
    BY <1>4, <1>5, <2>1, <2>5, <2>7, GoodBeside
<1> QED
  BY <1>4, <1>7, <1>8, RowsKept DEF Leaves

-----------------------------------------------------------------------------
(* Rows: cleanups, the hooks, the poll, the world and the crashes *)

\* A child that a cleanup or the sweep is to reap, of a component no other handler has met,
\* is the registered one under its id.
LEMMA ReapFinds ==
    ASSUME Inv, Downed, Steady, NEW w \in Workers, job[w].pc = "reap", NEW k \in alive,
           ~Missed(k.of), Reaps(w, k.of)
    PROVE  child[k.id] = k
<1>1. k.of \in Components \ crossed /\ job[w].task \in {"cleanup", "sweep"}
  BY DEF Missed, Reaps, Inv, Typed, WorldTypes, Children
<1>2. Works(w, k.of) /\ ~Away(w, k.of)
  BY <1>1 DEF Works, Away, Reaps
<1>3. ASSUME k.by # None
      PROVE  FALSE
  <2>1. k.by \in Workers /\ job[k.by].at = k.of /\ job[k.by].pc \in Waits
    BY <1>3 DEF Downed, Waited, Inv, Typed, WorldTypes, Children, ChildrenFit
  <2>2. k.by # w
    BY <2>1 DEF Waits
  <2> QED
    BY <1>1, <1>2, <2>1, <2>2, AloneAt DEF Steady, Works
<1> QED
  BY <1>3 DEF Downed, Mains

\* What a step of one leaves in its entries when it reaps from e, of which h is left.
LEMMA ReapLeaves ==
    ASSUME Inv, Rows, NEW w \in Workers, NEW e \in job[w].entries, NEW h, h.key = e.key,
           job[w].pc = "reap", job[w].at = None, Alone(w),
           job'[w].entries = (job[w].entries \ {e}) \cup {h},
           job'[w].task = job[w].task, job'[w].of = job[w].of,
           UNCHANGED <<processIds, composeProjects, status, connected, backoff, config,
                       escaped, crossed, unbound>>,
           container' \subseteq container, alive' \subseteq alive,
           \A d \in container' : BenchOf(d) \in e.projects => BenchOf(d) \in h.projects,
           \A k \in alive' : ~Missed(k.of) /\ Reaps(w, k.of) /\ k.id \in e.ids => k.id \in h.ids
    PROVE  Rows'
<1>1. job[w].task \in {"cleanup", "sweep"}
  BY DEF Inv, Typed, JobTypes, Jobs, Fits
<1>2. Listed(w)'
  BY DEF Rows, Listed
<1>3. ASSUME NEW d \in Components, ~Missed(d)'
      PROVE  Good(d)'
  <2>1. Good(d) /\ ~Missed(d)
    BY <1>3 DEF Rows, Missed
  <2>2. Wanes(d)
    BY DEF Wanes, KidRow, ComposeRow, Key, Of, BenchOf
  <2>3. Reached(w, d)'
    <3> SUFFICES ASSUME Reaps(w, d)
                 PROVE  /\ d \in container' => \E f \in job'[w].entries :
                              f.key = Key(d) /\ BenchOf(d) \in f.projects
                        /\ \A k \in alive' : k.of = d => \E f \in job'[w].entries :
                              f.key = Key(d) /\ k.id \in f.ids
      BY DEF Reached, Lists, Reaps, Key, Of, BenchOf
    <3>1. ASSUME d \in container'
          PROVE  \E f \in job'[w].entries : f.key = Key(d) /\ BenchOf(d) \in f.projects
      <4>1. PICK f \in job[w].entries : f.key = Key(d) /\ BenchOf(d) \in f.projects
        BY <2>1, <3>1 DEF Good, Reached, Lists
      <4> QED
        BY <3>1, <4>1
    <3>2. ASSUME NEW k \in alive', k.of = d
          PROVE  \E f \in job'[w].entries : f.key = Key(d) /\ k.id \in f.ids
      <4>1. PICK f \in job[w].entries : f.key = Key(d) /\ k.id \in f.ids
        BY <2>1, <3>2 DEF Good, Reached, Lists
      <4> QED
        BY <2>1, <3>2, <4>1
    <3> QED
      BY <3>1, <3>2
  <2>4. Leads(w, d)
    BY <1>1, <2>3, NoneIsNull DEF Leads, Passed, Cleans, Of
  <2> QED
    BY <2>1, <2>2, <2>4, GoodBeside
<1> QED
  BY <1>2, <1>3, RowsKept

\* When an entry is done with, nothing runs that it could be for.
LEMMA ReapDone ==
    ASSUME Inv, Rows, NEW w \in Workers, NEW e \in job[w].entries, e.ids = {}, e.projects = {},
           job[w].pc = "reap", NEW d \in Components, ~Missed(d), Runs(d), Reaps(w, d)
    PROVE  Key(d) # e.key /\ job[w].entries # {e}
<1>1. \E f \in job[w].entries : f.key = Key(d) /\ (f.ids # {} \/ f.projects # {})
  BY DEF Rows, Good, Reached, Lists, Runs
<1> QED
  BY <1>1 DEF Rows, Listed

LEMMA ClearRows ==
    ASSUME Inv, Rows, NEW w \in Workers, NEW e \in job[w].entries, e.ids = {}, e.projects = {},
           job[w].pc = "reap", job[w].at = None, Alone(w), clearEntry(e.key), UNCHANGED world,
           UNCHANGED <<status, connected, backoff, config, escaped, crossed, unbound>>,
           job'[w] = IF job[w].entries = {e} THEN Idle
                     ELSE [job[w] EXCEPT !.entries = job[w].entries \ {e}]
    PROVE  Rows'
<1>1. /\ job[w].task \in {"cleanup", "sweep"} /\ job[w] \in JobType /\ LedgerTypes
  BY DEF Inv, Typed, JobTypes, Jobs, Fits
<1>2. \/ job[w].entries = {e} /\ job'[w].task = "none" /\ job'[w].pc = "idle"
      \/ /\ job'[w].task = job[w].task /\ job'[w].of = job[w].of /\ job'[w].pc = "reap"
         /\ job'[w].entries = job[w].entries \ {e} /\ job[w].entries # {e}
  BY <1>1 DEF Idle, JobType
<1>3. Listed(w)' \/ job'[w].pc # "reap"
  BY <1>2 DEF Rows, Listed
<1>4. ASSUME NEW d \in Components, ~Missed(d)'
      PROVE  Good(d)'
  <2>1. Good(d) /\ ~Missed(d) /\ Key(d) \in Keys /\ Key(d)' = Key(d)
    BY <1>4, Parts DEF Rows, Missed, Inv, Typed, NoteTypes, Key, Of
  <2>2. Runs(d)' => Runs(d)
    BY DEF Runs, world
  <2>3. CASE ~Runs(d)
    BY <2>2, <2>3, GoodDown
  <2>4. CASE Runs(d)
    <3>1. Key(d) # e.key
      <4>1. Key(d) = e.key => Reaps(w, d)
        BY <1>1 DEF Rows, Listed, Reaps, Key
      <4> QED
        BY <2>1, <2>4, <4>1, ReapDone
    <3>2. Reaps(w, d) => job[w].entries # {e}
      BY <2>1, <2>4, ReapDone
    <3>3. processIds'[Key(d)] = processIds[Key(d)]
          /\ composeProjects'[Key(d)] = composeProjects[Key(d)]
      BY <1>1, <2>1, <3>1 DEF clearEntry, LedgerTypes
    <3>4. Wanes(d)
      BY <2>1, <3>3 DEF Wanes, KidRow, ComposeRow, Key, Of, BenchOf, world
    <3>5. Reached(w, d)'
      <4> SUFFICES ASSUME Reaps(w, d)'
                   PROVE  Reached(w, d)'
        BY DEF Reached
      <4>1. Reaps(w, d) /\ job'[w].entries = job[w].entries \ {e}
        BY <1>2 DEF Reaps, Of
      <4>2. \A f \in Lists(w, Key(d)) : f \in Lists(w, Key(d))'
        BY <2>1, <3>1, <4>1 DEF Lists
      <4> QED
        BY <2>1, <4>1, <4>2 DEF Good, Reached, world, BenchOf
    <3>6. Cleans(w, Of(d)) => Cleans(w, Of(d))'
      BY <1>2, <3>2 DEF Cleans, Reaps, Of
    <3>7. Leads(w, d)
      BY <1>1, <1>2, <3>5, <3>6, NoneIsNull DEF Leads, Passed
    <3> QED
      BY <2>1, <3>4, <3>7, GoodBeside
  <2> QED
    BY <2>3, <2>4
<1> QED
  BY <1>3, <1>4, RowsKept

LEMMA ReapRows ==
    ASSUME Inv, Downed, Steady, Rows, NEW w \in Workers, NEW e \in job[w].entries, Reap(w, e)
    PROVE  Rows'
<1>1. /\ job[w] \in JobType /\ job[w].pc = "reap" /\ e \in Entries /\ e.ids \in SUBSET Ids
      /\ JobTypes /\ WorldTypes /\ job[w].at = None /\ Alone(w)
  <2>1. job[w].pc = "reap" /\ Alone(w)
    BY ReapJob DEF Reap
  <2> QED
    BY <2>1, AtNone DEF Inv, Typed, JobTypes, Jobs, JobType, Entries
<1>2. UNCHANGED <<status, connected, backoff, config, escaped, crossed, unbound>>
  BY DEF Reap, benchVars, misc, plugin
<1>3. ASSUME NEW E, job'[w] = [job[w] EXCEPT !.entries = E]
      PROVE  job'[w].entries = E /\ job'[w].task = job[w].task /\ job'[w].of = job[w].of
  BY <1>1, <1>3 DEF JobType
<1>4. ASSUME NEW id \in e.ids, stopProcess(id), UNCHANGED <<ledger, container>>,
             job' = [Killed(job, id) EXCEPT ![w].entries =
                       (@ \ {e}) \cup {[e EXCEPT !.ids = @ \ {id}]}]
      PROVE  Rows'
  <2>1. PICK h : h = [e EXCEPT !.ids = @ \ {id}]
    OBVIOUS
  <2>2. h.key = e.key /\ h.ids = e.ids \ {id} /\ h.projects = e.projects
    BY <1>1, <2>1 DEF Entries
  <2>3. PICK jobs : jobs = Killed(job, id)
    OBVIOUS
  <2>4. jobs \in [Workers -> Jobs] /\ jobs[w] = job[w]
    BY <1>1, <2>3, KilledLeaves DEF Waits
  <2>5. job'[w] = [job[w] EXCEPT !.entries = (job[w].entries \ {e}) \cup {h}]
    BY <1>4, <2>1, <2>3, <2>4
  <2>6. ASSUME NEW k \in alive', ~Missed(k.of), Reaps(w, k.of)
        PROVE  k.id # id
    <3>1. k \in alive /\ k # child[id]
      BY <1>4 DEF stopProcess
    <3> QED
      BY <1>1, <2>6, <3>1, ReapFinds
  <2>7. /\ job'[w].entries = (job[w].entries \ {e}) \cup {h}
        /\ job'[w].task = job[w].task /\ job'[w].of = job[w].of
    BY <1>3, <2>5
  <2>8. alive' \subseteq alive /\ container' = container
        /\ UNCHANGED <<processIds, composeProjects>>
    BY <1>4 DEF stopProcess, ledger
  <2>9. \A k \in alive' : ~Missed(k.of) /\ Reaps(w, k.of) /\ k.id \in e.ids => k.id \in h.ids
    BY <2>2, <2>6
  <2> QED
    BY <1>1, <1>2, <2>2, <2>7, <2>8, <2>9, ReapLeaves
<1>5. ASSUME NEW b \in e.projects, container' = {c \in container : BenchOf(c) # b},
             job' = [job EXCEPT ![w].entries = (@ \ {e}) \cup {[e EXCEPT !.projects = @ \ {b}]}],
             UNCHANGED <<ledger, alive>>
      PROVE  Rows'
  <2>1. PICK h : h = [e EXCEPT !.projects = @ \ {b}]
    OBVIOUS
  <2>2. h.key = e.key /\ h.ids = e.ids /\ h.projects = e.projects \ {b}
    BY <1>1, <2>1 DEF Entries
  <2>3. job'[w] = [job[w] EXCEPT !.entries = (job[w].entries \ {e}) \cup {h}]
    BY <1>1, <1>5, <2>1 DEF JobTypes
  <2>4. /\ job'[w].entries = (job[w].entries \ {e}) \cup {h}
        /\ job'[w].task = job[w].task /\ job'[w].of = job[w].of
    BY <1>3, <2>3
  <2>5. alive' \subseteq alive /\ container' \subseteq container
        /\ UNCHANGED <<processIds, composeProjects>>
    BY <1>5 DEF ledger
  <2>6. \A d \in container' : BenchOf(d) \in e.projects => BenchOf(d) \in h.projects
    BY <1>5, <2>2
  <2> QED
    BY <1>1, <1>2, <2>2, <2>4, <2>5, <2>6, ReapLeaves
<1>6. ASSUME e.ids = {}, e.projects = {}, clearEntry(e.key), UNCHANGED world,
             job' = [job EXCEPT ![w] = IF job[w].entries = {e} THEN Idle
                       ELSE [job[w] EXCEPT !.entries = job[w].entries \ {e}]]
      PROVE  Rows'
  <2>1. job'[w] = IF job[w].entries = {e} THEN Idle
                  ELSE [job[w] EXCEPT !.entries = job[w].entries \ {e}]
    BY <1>1, <1>6 DEF JobTypes
  <2> QED
    BY <1>1, <1>2, <1>6, <2>1, ClearRows
<1> QED
  BY <1>4, <1>5, <1>6 DEF Reap

\* Of a step in which no handler moves.
LEMMA StillRows ==
    ASSUME Rows, UNCHANGED <<job, config, processIds, composeProjects>>,
           escaped \subseteq escaped', crossed \subseteq crossed', unbound \subseteq unbound',
           backoff' \ connected' \subseteq backoff \ connected,
           container' \subseteq container, alive' \subseteq alive,
           \A c \in Components : status[c] = "error" => status'[c] = "error"
    PROVE  Rows'
<1>1. \A v \in Workers : Listed(v)'
  BY DEF Rows, Listed
<1>2. ASSUME NEW d \in Components, ~Missed(d)'
      PROVE  Good(d)'
  <2>1. Wanes(d) /\ Good(d)
    BY <1>2 DEF Rows, Missed, Wanes, KidRow, ComposeRow, Key, Of, BenchOf
  <2> QED
    BY <2>1, GoodStill
<1> QED
  BY <1>1, <1>2 DEF Rows

LEMMA PluginRows ==
    ASSUME Inv, Rows, ~Overlap, NEW g \in Plugins,
           Respawn(g) \/ Disable(g) \/ Enable(g) \/ RollsBack(g)
    PROVE  Rows'
<1>1. UNCHANGED <<job, config, processIds, composeProjects, status, escaped, unbound, alive,
                  container>>
  BY DEF Respawn, Disable, Enable, RollsBack, benchVars, world, misc, ledger
<1>2. crossed \subseteq crossed' /\ backoff' \ connected' \subseteq backoff \ connected
  BY DEF Respawn, Disable, Enable, RollsBack, misc, Noted
<1> QED
  BY <1>1, <1>2, StillRows

LEMMA WorldRows ==
    ASSUME Inv, Rows, NEW c \in Components, Dies(c) \/ PollResolves(c)
    PROVE  Rows'
<1>1. /\ UNCHANGED <<job, config, processIds, composeProjects, escaped, unbound, crossed,
                     connected, backoff, status>>
      /\ container' \subseteq container /\ alive' \subseteq alive
  BY DEF Dies, PollResolves, benchVars, plugin, world, misc, ledger, exits
<1> QED
  BY <1>1, StillRows

LEMMA PollRows ==
    ASSUME Rows, NEW S \in listings \cup {{}}, Poll(S)
    PROVE  Rows'
<1>1. UNCHANGED <<job, config, processIds, composeProjects, escaped, unbound, crossed,
                  connected, backoff, container, alive>>
  BY DEF Poll, plugin, world, ledger
<1>2. \A c \in Components : status[c] = "error" => status'[c] = "error"
  BY DEF Poll, Polls
<1> QED
  BY <1>1, <1>2, StillRows

LEMMA PollReadsRows ==
    ASSUME Rows, PollReads
    PROVE  Rows'
<1>1. UNCHANGED <<job, config, processIds, composeProjects, escaped, unbound, crossed,
                  connected, backoff, container, alive, status>>
  BY DEF PollReads, benchVars, plugin, world, ledger
<1> QED
  BY <1>1, StillRows

LEMMA RestartedRows ==
    ASSUME Inv, Downed, Rows, NEW g \in Plugins, NEW w \in Workers, Restarted(g, w)
    PROVE  Rows'
<1>1. PICK k : k = [Idle EXCEPT !.task = "restore", !.pc = "next", !.of = g,
                                    !.todo = {c \in Components : Of(c) = g}]
  OBVIOUS
<1>2. k.at = None /\ k.task = "restore" /\ k.pc = "next"
  BY <1>1 DEF Idle
<1>3. job' = [job EXCEPT ![w] = k] /\ JobTypes /\ job[w].task = "none"
  BY <1>1 DEF Restarted, Inv, Typed
<1>4. Alone(w) /\ job'[w] = k
  BY <1>3, OneMoves
<1>5. UNCHANGED <<config, connected, backoff, escaped, crossed, unbound, status, alive, container,
                  processIds, composeProjects>>
  BY DEF Restarted, benchVars, world, misc, ledger
<1>6. ASSUME NEW d \in Components, ~Missed(d)'
      PROVE  Good(d)'
  <2>1. Wanes(d) /\ Good(d)
    BY <1>5, <1>6, SameWanes DEF Rows, Missed
  <2>2. Leads(w, d)
    BY <1>2, <1>3, <1>4, AtNone, BusyLeads, NoneIsNull DEF Passed
  <2> QED
    BY <1>4, <1>5, <2>1, <2>2, GoodBeside
<1> QED
  BY <1>2, <1>4, <1>6, RowsKept

\* The entries of the ledger have the rows of what runs.
LEMMA EntriesHave ==
    ASSUME Inv, NEW c \in Components
    PROVE  /\ ComposeRow(c) => \E e \in getAllEntries :
                e.key = Key(c) /\ BenchOf(c) \in e.projects
           /\ \A k \in alive : k.of = c /\ KidRow(k) => \E e \in getAllEntries :
                e.key = Key(c) /\ k.id \in e.ids
           /\ \A e, f \in getAllEntries : e.key = f.key => e = f
<1>1. Key(c) \in Keys
  BY Parts DEF Inv, Typed, NoteTypes
<1>2. ASSUME NEW key \in Keys, processIds[key] # {} \/ composeProjects[key] # {}
      PROVE  \E e \in getAllEntries : /\ e.key = key /\ e.ids = processIds[key]
                                       /\ e.projects = composeProjects[key]
  <2>1. PICK e : e = [key |-> key, ids |-> processIds[key], projects |-> composeProjects[key]]
    OBVIOUS
  <2>2. e \in getAllEntries
    BY <1>2, <2>1 DEF getAllEntries
  <2> QED
    BY <2>1, <2>2
<1>3. \A e, f \in getAllEntries : e.key = f.key => e = f
  BY DEF getAllEntries
<1>4. ComposeRow(c) => \E e \in getAllEntries : e.key = Key(c) /\ BenchOf(c) \in e.projects
  BY <1>1, <1>2 DEF ComposeRow
<1>5. ASSUME NEW k \in alive, k.of = c, KidRow(k)
      PROVE  \E e \in getAllEntries : e.key = Key(c) /\ k.id \in e.ids
  <2>1. k.id \in processIds[Key(c)]
    BY <1>5 DEF KidRow
  <2> QED
    BY <1>1, <1>2, <2>1
<1> QED
  BY <1>3, <1>4, <1>5

LEMMA PluginCrashesRows ==
    ASSUME Inv, Downed, Rows, ~Overlap, NEW g \in Plugins, NEW w \in Workers,
           NEW again \in BOOLEAN, PluginCrashes(g, w, again)
    PROVE  Rows'
<1>1. /\ Alone(w) /\ job'[w] = Reaper(g) /\ job[w].task = "none"
      /\ crossed' = crossed \cup Interrupted(g) \cup Remains(g)
      /\ backoff' \subseteq backoff \cup {g} /\ connected' = connected \ {g}
      /\ status' = [c \in Components |-> IF c \in Crashed(g) THEN "error" ELSE status[c]]
      /\ UNCHANGED <<config, unbound, escaped, alive, container, processIds, composeProjects>>
  BY PluginCrashesJob DEF world, ledger
<1>2. PICK E : E = {e \in getAllEntries : e.key[1] = g}
  OBVIOUS
<1>3. /\ E = {} => job'[w].task = "none" /\ job'[w].entries = {}
      /\ E # {} => /\ job'[w].task = "cleanup" /\ job'[w].of = g /\ job'[w].entries = E
      /\ job'[w].at = None
  BY <1>1, <1>2, ReaperHas DEF Idle
<1>4. Listed(w)'
  <2>1. \A e, f \in getAllEntries : e.key = f.key => e = f
    BY DEF getAllEntries
  <2> QED
    BY <1>2, <1>3, <2>1 DEF Listed
<1>5. ASSUME NEW d \in Components, ~Missed(d)'
      PROVE  Good(d)'
  <2>1. Good(d) /\ ~Missed(d)
    BY <1>1, <1>5 DEF Rows, Missed
  <2>2. Wanes(d)
    BY <1>1, SameWanes
  <2>3. CASE Of(d) # g
    <3>1. Leads(w, d)
      BY <1>1, <1>3, <2>3, AtNone, NoneIsNull DEF Leads, Passed, Reached, Reaps, Cleans, Of
    <3>2. \A v \in Workers : Leads(v, d)
      BY <1>1, <2>1, <2>2, <3>1, UndisturbedLeads DEF Alone
    <3> QED
      BY <1>1, <2>1, <2>2, <2>3, <3>2, GoodKept DEF Of
  <2>4. CASE Of(d) = g
    <3>1. d \notin Interrupted(g) /\ d \notin Remains(g)
      BY <1>1, <1>5 DEF Missed
    <3>2. \A v \in Workers : ~Works(v, d) /\ job[v].at # d
      BY <2>4, <3>1 DEF Interrupted, Works
    <3>3. Recorded(d)
      <4>1. CASE status[d] = "error"
        BY <2>4, <3>1, <4>1 DEF Remains
      <4>2. CASE status[d] # "error"
        BY <2>1, <3>2, <4>2 DEF Good, KidsHave, ServiceHas, Recorded, KidRow, ComposeRow
      <4> QED
        BY <4>1, <4>2
    <3>4. /\ d \in container => \E e \in E : e.key = Key(d) /\ BenchOf(d) \in e.projects
          /\ \A k \in alive : k.of = d => \E e \in E : e.key = Key(d) /\ k.id \in e.ids
      <4>1. Key(d)[1] = g
        BY <2>4 DEF Key
      <4> QED
        BY <1>2, <3>3, <4>1, EntriesHave DEF Recorded, ComposeRow, KidRow
    <3>5. KidsHave(d)' /\ ServiceHas(d)'
      BY <1>1, <3>3 DEF KidsHave, ServiceHas, Recorded, KidRow, ComposeRow, Key, Of, BenchOf
    <3>6. Cleaned(d)'
      <4>1. Runs(d)' => E # {}
        BY <1>1, <3>4 DEF Runs
      <4> QED
        BY <1>1, <1>3, <2>4, <4>1 DEF Cleaned, Cleans, Of
    <3>7. Passed(w, d)' /\ Reached(w, d)'
      BY <1>1, <1>3, <3>4 DEF Passed, Reached, Reaps, Lists, Key, Of, BenchOf
    <3>8. \A v \in Workers \ {w} : Passed(v, d)' /\ Reached(v, d)'
      BY <1>1, <2>1, <2>2, UndisturbedLeads DEF Alone, Leads
    <3> QED
      BY <3>5, <3>6, <3>7, <3>8 DEF Good
  <2> QED
    BY <2>3, <2>4
<1> QED
  BY <1>1, <1>4, <1>5, RowsKept

LEMMA HostCrashRows ==
    ASSUME Inv, ~Overlap, NEW w \in Workers, HostCrash(w)
    PROVE  Rows'
<1>1. PICK E : E = {[e EXCEPT !.ids = {}] : e \in getAllEntries}
  OBVIOUS
<1>2. /\ getAllEntries = {} => Sweeper.task = "none" /\ Sweeper.entries = {}
      /\ getAllEntries # {} => Sweeper.task = "sweep" /\ Sweeper.entries = E
      /\ Idle.task = "none" /\ Idle.entries = {}
  <2>1. Sweeper = IF getAllEntries = {} THEN Idle ELSE Sweeping(E)
    BY <1>1, Zenon DEF Sweeper, Sweeping
  <2> QED
    BY <2>1 DEF Sweeping, Idle
<1>3. /\ \A v \in Workers \ {w} : job'[v] = Idle
      /\ job'[w] = Sweeper
  BY DEF HostCrash
<1>4. /\ alive' = {} /\ UNCHANGED <<container, config, processIds, composeProjects>>
      /\ backoff' = {}
      /\ escaped' = {c \in container : BenchOf(c) \notin composeProjects[Key(c)]}
  BY DEF HostCrash, Noted, ledger
<1>5. \A h \in E : \E e \in getAllEntries : h.key = e.key /\ h = [e EXCEPT !.ids = {}]
  <2>1. getAllEntries \subseteq Entries
    BY EntriesFit DEF Inv, Typed
  <2> QED
    BY <1>1, <2>1 DEF Entries
<1>6. \A v \in Workers : Listed(v)'
  <2>1. \A e, f \in getAllEntries : e.key = f.key => e = f
    BY DEF getAllEntries
  <2>2. \A e, f \in E : e.key = f.key => e = f
    BY <1>5, <2>1
  <2> QED
    BY <1>2, <1>3, <2>2 DEF Listed
<1>7. ASSUME NEW d \in Components, d \notin escaped'
      PROVE  Good(d)'
  <2>1. d \in container => ComposeRow(d)
    BY <1>4, <1>7 DEF ComposeRow
  <2>2. Key(d)' = Key(d)
    BY <1>4 DEF Key, Of
  <2>3. d \in container => /\ getAllEntries # {}
                           /\ \E h \in E : h.key = Key(d) /\ BenchOf(d) \in h.projects
    <3> SUFFICES ASSUME d \in container
                 PROVE  /\ getAllEntries # {}
                        /\ \E h \in E : h.key = Key(d) /\ BenchOf(d) \in h.projects
      OBVIOUS
    <3>1. PICK e \in getAllEntries : e.key = Key(d) /\ BenchOf(d) \in e.projects
      BY <2>1, EntriesHave
    <3>2. e \in Entries
      BY EntriesFit DEF Inv, Typed
    <3>3. PICK h : h = [e EXCEPT !.ids = {}]
      OBVIOUS
    <3>4. h \in E /\ h.key = e.key /\ h.projects = e.projects
      BY <1>1, <3>2, <3>3 DEF Entries
    <3> QED
      BY <3>1, <3>4
  <2>4. KidsHave(d)' /\ ServiceHas(d)' /\ Cleaned(d)'
    BY <1>4, <2>1, <2>2 DEF KidsHave, ServiceHas, Cleaned, ComposeRow, BenchOf
  <2>5. ASSUME NEW v \in Workers
        PROVE  Passed(v, d)' /\ Reached(v, d)'
    <3>1. CASE v = w
      BY <1>2, <1>3, <1>4, <2>2, <2>3, <3>1 DEF Passed, Reached, Reaps, Lists, BenchOf
    <3>2. CASE v # w
      BY <1>2, <1>3, <3>2 DEF Passed, Reached, Reaps
    <3> QED
      BY <3>1, <3>2
  <2> QED
    BY <2>4, <2>5 DEF Good
<1> QED
  BY <1>6, <1>7 DEF Rows, Missed

LEMMA InitRows == Init => Rows
<1> SUFFICES ASSUME Init
             PROVE  Rows
  OBVIOUS
<1>1. \A w \in Workers : job[w].task = "none" /\ job[w].entries = {}
  BY DEF Init, Idle
<1>2. alive = {} /\ container = {}
  BY DEF Init
<1> QED
  BY <1>1, <1>2 DEF Rows, Good, KidsHave, ServiceHas, Cleaned, Runs, Passed, Stays, Stands,
     Reached, Listed

LEMMA RequestRows ==
    ASSUME Inv, Downed, (Inv /\ Downed /\ Steady)', Rows, ~Overlap, NEW w \in Workers, Request(w)
    PROVE  Rows'
<1>1. PICK b \in Benches :
        \/ \E c \in {c \in Components : BenchOf(c) = b} :
             Start(w, b, {c}, "start") \/ Stop(w, b, {c}, "stop")
        \/ Start(w, b, {c \in Components : BenchOf(c) = b}, "startAll")
        \/ Stop(w, b, {c \in Components : BenchOf(c) = b}, "stopAll")
  BY DEF Request
<1>2. ASSUME NEW c \in Components
      PROVE  Asked(b, {c}, "start") /\ Asked(b, {c}, "stop")
  BY DEF Asked
<1>3. \A t : Asked(b, {c \in Components : BenchOf(c) = b}, t)
  BY DEF Asked
<1>4. {"start", "startAll"} \subseteq Starts /\ {"stop", "stopAll"} \subseteq Stops
  BY DEF Starts, Stops
<1>5. CASE \E c \in {c \in Components : BenchOf(c) = b} :
             Start(w, b, {c}, "start") \/ Stop(w, b, {c}, "stop")
  BY <1>2, <1>4, <1>5, StartRows, StopRows
<1>6. CASE \/ Start(w, b, {c \in Components : BenchOf(c) = b}, "startAll")
           \/ Stop(w, b, {c \in Components : BenchOf(c) = b}, "stopAll")
  BY <1>3, <1>4, <1>6, StartRows, StopRows
<1> QED
  BY <1>1, <1>5, <1>6

LEMMA NextRows ==
    ASSUME ~Overlap, \A p, q \in Projects : p = q
    PROVE  Inv /\ Downed /\ Steady /\ Rows /\ [Next]_vars => (Downed /\ Steady /\ Rows)'
<1> SUFFICES ASSUME Inv, Downed, Steady, Rows, [Next]_vars
             PROVE  Downed' /\ Steady' /\ Rows'
  OBVIOUS
<1>0. Inv' /\ Downed' /\ Steady'
  BY NextInv, NextDowned, NextSteady
<1>1. ASSUME NEW w \in Workers, Step(w)
      PROVE  Rows'
  BY <1>0, <1>1, SkipRows, LaunchRows, StopNextRows, TranslateRows, BeginRows, UpRows, HealthRows,
     SpawnRows, EndsRows, ComposeStoppedRows, StoppedRows, ReapRows
     DEF Step
<1>2. ASSUME NEW w \in Workers, ComesUp(w) \/ Request(w) \/ HostCrash(w)
      PROVE  Rows'
  BY <1>0, <1>2, ComesUpRows, RequestRows, HostCrashRows
<1>3. ASSUME NEW g \in Plugins, NEW w \in Workers,
             Restarted(g, w) \/ \E again \in BOOLEAN : PluginCrashes(g, w, again)
      PROVE  Rows'
  BY <1>3, RestartedRows, PluginCrashesRows
<1>4. ASSUME NEW g \in Plugins, Respawn(g) \/ Disable(g) \/ Enable(g) \/ RollsBack(g)
      PROVE  Rows'
  BY <1>4, PluginRows
<1>5. ASSUME NEW c \in Components, PollResolves(c) \/ Dies(c)
      PROVE  Rows'
  BY <1>5, WorldRows
<1>8. ASSUME PollReads
      PROVE  Rows'
  BY <1>8, PollReadsRows
<1>9. ASSUME NEW S \in listings \cup {{}}, Poll(S)
      PROVE  Rows'
  BY <1>9, PollRows
<1>6. ASSUME UNCHANGED vars
      PROVE  Rows'
  <2>1. UNCHANGED <<job, config, processIds, composeProjects, escaped, crossed, unbound,
                    connected, backoff, container, alive, status>>
    BY <1>6 DEF vars, benchVars, plugin, world, misc, ledger
  <2>2. /\ escaped \subseteq escaped' /\ crossed \subseteq crossed' /\ unbound \subseteq unbound'
        /\ backoff' \ connected' \subseteq backoff \ connected
        /\ container' \subseteq container /\ alive' \subseteq alive
        /\ \A c \in Components : status[c] = "error" => status'[c] = "error"
    BY <2>1
  <2> QED
    BY <2>1, <2>2, StillRows
<1>7. Rows'
  BY <1>1, <1>2, <1>3, <1>4, <1>5, <1>6, <1>8, <1>9 DEF Next
<1> QED
  BY <1>0, <1>7

LEMMA RowsInvariance ==
    ASSUME ~Overlap, \A p, q \in Projects : p = q
    PROVE  Spec => [](Inv /\ Downed /\ Steady /\ Rows)
<1>1. Init => Downed /\ Steady /\ Rows
  BY InitDowned, InitSteady, InitRows
<1>2. Inv /\ Downed /\ Steady /\ Rows /\ [Next]_vars => (Downed /\ Steady /\ Rows)'
  BY NextRows
<1> QED
  BY <1>1, <1>2, Invariance, PTL DEF Spec

\* Whatever runs of a component has its row in the ledger once the component reads as
\* running or no handler works on it, unless it is in error: each launch writes the row in
\* the step that spawns the process, or reports after it wrote that of the container
\* (lifecycle-engine.ts), the end of a Stop drops rows only of what it has stopped, and a
\* cleanup or the startup sweep clears an entry only when nothing of it runs. The compose row
\* of a sibling which a poll has as stopped while it runs is dropped too: it is in crossed
\* from then on, like those the property names besides. Requests do not overlap; plugins and
\* the host crash at any time. The ledger does not tell the projects apart, so there is one.
THEOREM RunningRecorded ==
    ASSUME ~Overlap, \A p, q \in Projects : p = q
    PROVE  Spec => []RunsRecorded
<1>1. Inv /\ Downed /\ Steady /\ Rows => RunsRecorded
  <2> SUFFICES ASSUME Inv, Downed, Steady, Rows, NEW c \in Components, ~Missed(c),
                      status[c] = "running" \/ (Quiet(c) /\ status[c] # "error")
               PROVE  Recorded(c)
    BY DEF RunsRecorded, Missed
  <2>1. Good(c)
    BY DEF Rows
  <2>2. \A w \in Workers : job[w].at # c
    <3>1. CASE status[c] = "running"
      BY <3>1, NoneIsNull DEF Steady, Knows, Downed, Seated, Sits, Missed
    <3>2. CASE Quiet(c)
      BY <3>2 DEF Quiet, Works
    <3> QED
      BY <3>1, <3>2
  <2> QED
    BY <2>1, <2>2 DEF Good, KidsHave, ServiceHas, Recorded, KidRow, ComposeRow
<1> QED
  BY <1>1, RowsInvariance, PTL

\* When the supervisor restarts a plugin whose cleanup is over, nothing runs of the
\* components that its crash marked for recovery: handleComponentPluginPreRestart reaps all
\* the ledger has of the plugin, which has the rows of whatever ran. With the same
\* assumptions and exceptions, and until the user enables the plugin in its backoff.
THEOREM CrashedDown ==
    ASSUME ~Overlap, \A p, q \in Projects : p = q
    PROVE  Spec => []CrashedIsDown
<1>1. Rows => CrashedIsDown
  BY DEF Rows, Good, Cleaned, Cleans, Missed, CrashedIsDown
<1> QED
  BY <1>1, RowsInvariance, PTL
=============================================================================
