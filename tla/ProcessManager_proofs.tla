------------------------ MODULE ProcessManager_proofs ------------------------
(***************************************************************************)
(* Proofs about ProcessManager, for every set of ids and calls: the types, *)
(* that a stop settles only when its child is over, that no registration   *)
(* of a live child is deleted, and, when callers serialise the starts and  *)
(* runs of an id, that every live child is the registered one.             *)
(***************************************************************************)
EXTENDS ProcessManager, TLAPS

\* The actions of one call, and of one waiter.
CallStep(c) ==
    \/ \E i \in Ids : Stop(c, i)
    \/ \E i \in StartIds : Start(c, i) \/ StartOver(c, i)
    \/ \E i \in RunIds : Run(c, i)
    \/ StartResumes(c) \/ RunTimesOut(c)

ChildStep(c) == Exit(c) \/ Close(c) \/ Error(c)

KillStep(w) == GraceEnds(w) \/ KillLands(w) \/ KillMisses(w)

LEMMA NextSplits ==
    ASSUME Next
    PROVE  \/ \E c \in Calls : CallStep(c)
           \/ \E c \in Calls : ChildStep(c)
           \/ \E w \in Waiters : KillStep(w)
           \/ \E i \in Ids : StoreLogs(i)
           \/ StopAll
BY DEF Next, CallStep, ChildStep, KillStep

-----------------------------------------------------------------------------
(* Types *)

\* A child that is over ended somehow: what 'close' records is then an exit code.
Ended == \A c \in Calls : os[c] \in {"exited", "closed"} => how[c] # "none"

\* Only a run waits for its child's output to close.
Runs == \A c \in Calls : pc[c] = "running" => op[c] \in {"run", "limited"}

TypeInv == TypeOK /\ Ended /\ Runs

LEMMA CallTypes ==
    ASSUME TypeInv, NEW c \in Calls, CallStep(c)
    PROVE  TypeInv'
<1> USE Identities DEF TypeInv, Ended, Runs, TypeOK, Waiters, child, calls, Call
<1>1. ASSUME NEW i \in Ids, Stop(c, i) PROVE TypeInv'
  BY <1>1 DEF Stop, BeginStop, Stoppable
<1>2. ASSUME NEW i \in StartIds, Start(c, i) PROVE TypeInv'
  BY <1>2 DEF Start, SpawnAndReturn, Spawn
<1>3. ASSUME NEW i \in StartIds, StartOver(c, i) PROVE TypeInv'
  BY <1>3 DEF StartOver, BeginStop, Stoppable
<1>4. ASSUME NEW i \in RunIds, Run(c, i) PROVE TypeInv'
  BY <1>4 DEF Run, Spawn
<1>5. ASSUME StartResumes(c) PROVE TypeInv'
  <2>1. PICK pid \in BOOLEAN :
            /\ Spawn(c, id[c], pid)
            /\ out' = [out EXCEPT ![c] = IF pid THEN "pid" ELSE "error"]
    BY <1>5 DEF StartResumes, SpawnAndReturn
  <2>2. processes' \in [Ids -> Calls \cup {None, LogOnly}]
    BY <2>1 DEF Spawn
  <2>3. UNCHANGED <<how, fate, code, op, id, on>> /\ pc' = [pc EXCEPT ![c] = "done"]
    BY <1>5, <2>1 DEF StartResumes, SpawnAndReturn, Spawn
  <2>4. /\ os' \in [Calls -> {"unborn", "noPid", "failed", "running", "exited", "closed"}]
        /\ alive' \in [Calls -> BOOLEAN]
        /\ out' \in [Calls -> {"none", "pid", "error", "zero", "nonzero", "limit"}]
    BY <2>1 DEF Spawn
  <2>5. Ended' /\ Runs'
    BY <2>1, <2>3 DEF Spawn
  <2> QED
    BY <2>2, <2>3, <2>4, <2>5
<1>6. ASSUME RunTimesOut(c) PROVE TypeInv'
  BY <1>6 DEF RunTimesOut
<1> QED
  BY <1>1, <1>2, <1>3, <1>4, <1>5, <1>6 DEF CallStep

LEMMA ChildTypes ==
    ASSUME TypeInv, NEW c \in Calls, ChildStep(c)
    PROVE  TypeInv'
<1> USE Identities DEF TypeInv, Ended, Runs, TypeOK, Waiters, child, calls
<1>1. ASSUME NEW h \in {"zero", "nonzero", "signal"}, Exits(c, h) PROVE TypeInv'
  BY <1>1 DEF Exits, Settle, AfterStop
<1>2. ASSUME Close(c) PROVE TypeInv'
  <2>1. Recorded(c) \in {"null", "zero", "nonzero"}
    BY <1>2 DEF Close, Recorded
  <2>2. /\ pc' \in [Waiters -> {"idle", "stopping", "killing", "stopped", "running", "done"}]
        /\ code' \in [Calls -> {"null", "zero", "nonzero", "limit"}]
        /\ os' \in [Calls -> {"unborn", "noPid", "failed", "running", "exited", "closed"}]
        /\ alive' \in [Calls -> BOOLEAN]
    BY <1>2, <2>1 DEF Close
  <2>3. out' \in [Calls -> {"none", "pid", "error", "zero", "nonzero", "limit"}]
    <3>1. pc[c] = "running" => Recorded(c) # "null"
      BY <1>2 DEF Close, Recorded
    <3> QED
      BY <1>2, <2>1, <3>1 DEF Close
  <2> QED
    BY <1>2, <2>2, <2>3 DEF Close
<1>3. ASSUME Error(c) PROVE TypeInv'
  BY <1>3 DEF Error
<1> QED
  BY <1>1, <1>2, <1>3 DEF ChildStep, Exit

LEMMA KillTypes ==
    ASSUME TypeInv, NEW w \in Waiters, KillStep(w)
    PROVE  TypeInv'
<1> USE Identities DEF TypeInv, Ended, Runs, TypeOK, Waiters, child, calls
<1>1. ASSUME GraceEnds(w) PROVE TypeInv'
  BY <1>1 DEF GraceEnds
<1>2. ASSUME KillLands(w) PROVE TypeInv'
  BY <1>2 DEF KillLands
<1>3. ASSUME KillMisses(w) PROVE TypeInv'
  BY <1>3 DEF KillMisses, Settle, AfterStop
<1> QED
  BY <1>1, <1>2, <1>3 DEF KillStep

LEMMA TypeStep == TypeInv /\ [Next]_vars => TypeInv'
<1> SUFFICES ASSUME TypeInv, [Next]_vars PROVE TypeInv'
  OBVIOUS
<1>1. CASE UNCHANGED vars
  BY <1>1 DEF TypeInv, Ended, Runs, TypeOK, vars
<1>2. ASSUME NEW i \in Ids, StoreLogs(i) PROVE TypeInv'
  BY <1>2 DEF TypeInv, Ended, Runs, TypeOK, StoreLogs, child, calls
<1>3. CASE StopAll
  BY <1>3, Identities
  DEF TypeInv, Ended, Runs, TypeOK, StopAll, Stoppable, child, calls, Waiters
<1> QED
  BY <1>1, <1>2, <1>3, NextSplits, CallTypes, ChildTypes, KillTypes

\* Every step keeps the registry, the children and the calls well typed.
THEOREM TypeCorrect == Spec => []TypeOK
<1>1. Init => TypeInv
  BY Identities DEF Init, TypeInv, Ended, Runs, TypeOK, Waiters
<1>2. TypeInv => TypeOK
  BY DEF TypeInv
<1> QED
  BY <1>1, <1>2, TypeStep, PTL DEF Spec

-----------------------------------------------------------------------------
(* Stops *)

\* What a call knows: the child it waits for was spawned, and a call that has not
\* spawned its own child has none.
Knows ==
    /\ \A w \in Waiters :
        /\ pc[w] \in {"idle", "running"} => on[w] = None
        /\ pc[w] \in {"stopping", "killing"} => on[w] \in Calls
        /\ on[w] \in Calls => os[on[w]] \in {"running", "exited", "closed"}
    /\ \A c \in Calls :
        /\ op[c] = "none" => pc[c] = "idle" /\ os[c] = "unborn"
        /\ pc[c] \in {"stopping", "killing", "stopped"} => os[c] = "unborn"
        /\ pc[c] = "stopped" => op[c] = "start"

StopInv == TypeInv /\ Knows /\ SettledIsOver

LEMMA CallStops ==
    ASSUME StopInv, TypeInv', NEW c \in Calls, CallStep(c)
    PROVE  StopInv'
<1> USE Identities
    DEF StopInv, TypeInv, Knows, SettledIsOver, TypeOK, Waiters, child, calls, Call
<1>1. ASSUME NEW i \in Ids, Stop(c, i) PROVE StopInv'
  BY <1>1 DEF Stop, BeginStop, Stoppable
<1>2. ASSUME NEW i \in StartIds, Start(c, i) PROVE StopInv'
  BY <1>2 DEF Start, SpawnAndReturn, Spawn
<1>3. ASSUME NEW i \in StartIds, StartOver(c, i) PROVE StopInv'
  BY <1>3 DEF StartOver, BeginStop, Stoppable
<1>4. ASSUME NEW i \in RunIds, Run(c, i) PROVE StopInv'
  BY <1>4 DEF Run, Spawn
<1>5. ASSUME StartResumes(c) PROVE StopInv'
  BY <1>5 DEF StartResumes, SpawnAndReturn, Spawn
<1>6. ASSUME RunTimesOut(c) PROVE StopInv'
  BY <1>6 DEF RunTimesOut
<1> QED
  BY <1>1, <1>2, <1>3, <1>4, <1>5, <1>6 DEF CallStep

LEMMA ChildStops ==
    ASSUME StopInv, TypeInv', NEW c \in Calls, ChildStep(c)
    PROVE  StopInv'
<1> USE Identities
    DEF StopInv, TypeInv, Knows, SettledIsOver, TypeOK, Waiters, child, calls
<1>1. ASSUME NEW h \in {"zero", "nonzero", "signal"}, Exits(c, h) PROVE StopInv'
  BY <1>1 DEF Exits, Settle, AfterStop, Waiting
<1>2. ASSUME Close(c) PROVE StopInv'
  BY <1>2 DEF Close
<1>3. ASSUME Error(c) PROVE StopInv'
  BY <1>3 DEF Error
<1> QED
  BY <1>1, <1>2, <1>3 DEF ChildStep, Exit

LEMMA KillStops ==
    ASSUME StopInv, TypeInv', NEW w \in Waiters, KillStep(w)
    PROVE  StopInv'
<1> USE Identities
    DEF StopInv, TypeInv, Knows, SettledIsOver, TypeOK, Waiters, child, calls
<1>1. ASSUME GraceEnds(w) PROVE StopInv'
  BY <1>1 DEF GraceEnds
<1>2. ASSUME KillLands(w) PROVE StopInv'
  BY <1>2 DEF KillLands
<1>3. ASSUME KillMisses(w) PROVE StopInv'
  BY <1>3 DEF KillMisses, Settle, AfterStop
<1> QED
  BY <1>1, <1>2, <1>3 DEF KillStep

LEMMA StopStep == StopInv /\ [Next]_vars => StopInv'
<1> SUFFICES ASSUME StopInv, [Next]_vars PROVE StopInv'
  OBVIOUS
<1>1. TypeInv'
  BY TypeStep DEF StopInv
<1>2. CASE UNCHANGED vars
  BY <1>1, <1>2 DEF StopInv, Knows, SettledIsOver, vars
<1>3. ASSUME NEW i \in Ids, StoreLogs(i) PROVE StopInv'
  BY <1>1, <1>3 DEF StopInv, Knows, SettledIsOver, StoreLogs, child, calls
<1>4. CASE StopAll
  <2> USE <1>4, Identities DEF StopAll, child, calls, StopInv, Waiters
  <2>1. ASSUME NEW w \in Waiters
        PROVE  \/ on'[w] = on[w]
               \/ /\ on'[w] \in Calls
                  /\ os[on'[w]] = "running"
                  /\ pc'[w] = "stopping"
    BY <2>1 DEF Stoppable
  <2>2. Knows'
    BY <1>1, <2>1 DEF Knows, Stoppable, TypeInv, TypeOK
  <2>3. SettledIsOver'
    BY <1>1, <2>1 DEF Knows, SettledIsOver, Stoppable, TypeInv, TypeOK
  <2> QED
    BY <1>1, <2>2, <2>3
<1> QED
  BY <1>1, <1>2, <1>3, <1>4, NextSplits, CallStops, ChildStops, KillStops

\* A stop settles only when its child has exited or a SIGKILL at it has failed,
\* whatever calls overlap: no start and no shutdown races the process it stopped.
THEOREM StopsWait == Spec => []SettledIsOver
<1>1. Init => StopInv
  BY Identities
  DEF Init, StopInv, TypeInv, Ended, Runs, TypeOK, Waiters, Knows, SettledIsOver
<1>2. StopInv => SettledIsOver
  BY DEF StopInv
<1> QED
  BY <1>1, <1>2, StopStep, PTL DEF Spec

-----------------------------------------------------------------------------
(* Registrations *)

\* What the registry says of a child: it is registered under the id it was
\* spawned with, and alive says so while it runs.
Registers ==
    /\ \A i \in Ids : processes[i] \in Calls =>
         id[processes[i]] = i /\ os[processes[i]] # "unborn"
    /\ \A c \in Calls : Live(c) => alive[c]
    /\ \A c \in Calls : os[c] # "unborn" => Spawner(c)

RegistryInv == StopInv /\ Registers

\* What callers that serialise per id bring about: the spawner in flight of an id
\* is alone, no other child takes the id of one it stops, and a live child of a
\* run is a run in flight.
Serialised ==
    /\ \A c, d \in Calls : /\ Spawner(c) /\ pc[c] # "done"
                            /\ Spawner(d) /\ pc[d] # "done"
                            /\ id[c] = id[d]
                            => c = d
    /\ \A c \in Calls :
        /\ op[c] = "start" => id[c] \in StartIds
        /\ op[c] \in {"run", "limited"} => id[c] \in RunIds
        /\ op[c] = "start" /\ pc[c] \in {"stopping", "killing"}
             => processes[id[c]] \in {on[c], None, LogOnly} /\ id[on[c]] = id[c]
        /\ pc[c] = "stopped" => processes[id[c]] \in {None, LogOnly}
        /\ Live(c) /\ op[c] \in {"run", "limited"} => pc[c] = "running"

SerialInv == RegistryInv /\ Serialised /\ LiveIsRegistered

\* A child whose run timed out has taken a SIGKILL or does not run.
LEMMA TimedOutIsOver ==
    ASSUME TypeOK, NEW c \in Calls, RunTimesOut(c)
    PROVE  ~Live(c)'
<1>1. CASE os[c] = "running"
  <2>1. PICK f \in {"killed", "missed"} : fate' = [fate EXCEPT ![c] = @ \cup {f}]
    BY <1>1 DEF RunTimesOut
  <2>2. f \in fate'[c]
    BY <2>1 DEF TypeOK
  <2> QED
    BY <2>2 DEF Live
<1>2. CASE os[c] # "running"
  BY <1>2 DEF RunTimesOut, Live
<1> QED
  BY <1>1, <1>2

LEMMA CallRegisters ==
    ASSUME RegistryInv, NEW c \in Calls, CallStep(c)
    PROVE  Registers'
<1> USE Identities
    DEF RegistryInv, StopInv, TypeInv, Knows, TypeOK, Registers, Live, Spawner,
        Waiters, child, calls, Call
<1>1. ASSUME NEW i \in Ids, Stop(c, i) PROVE Registers'
  BY <1>1 DEF Stop, BeginStop, Stoppable
<1>2. ASSUME NEW i \in StartIds, Start(c, i) PROVE Registers'
  BY <1>2 DEF Start, SpawnAndReturn, Spawn
<1>3. ASSUME NEW i \in StartIds, StartOver(c, i) PROVE Registers'
  BY <1>3 DEF StartOver, BeginStop, Stoppable
<1>4. ASSUME NEW i \in RunIds, Run(c, i) PROVE Registers'
  BY <1>4 DEF Run, Spawn
<1>5. ASSUME StartResumes(c) PROVE Registers'
  BY <1>5 DEF StartResumes, SpawnAndReturn, Spawn
<1>6. ASSUME RunTimesOut(c) PROVE Registers'
  <2>1. ~Live(c)'
    BY <1>6, TimedOutIsOver
  <2>2. \A d \in Calls \ {c} : Live(d)' => Live(d) /\ alive'[d] = alive[d]
    BY <1>6 DEF RunTimesOut
  <2>3. UNCHANGED <<processes, id, os, op>>
    BY <1>6 DEF RunTimesOut
  <2> QED
    BY <2>1, <2>2, <2>3
<1> QED
  BY <1>1, <1>2, <1>3, <1>4, <1>5, <1>6 DEF CallStep

LEMMA ChildRegisters ==
    ASSUME RegistryInv, NEW c \in Calls, ChildStep(c)
    PROVE  Registers'
<1> USE Identities
    DEF RegistryInv, StopInv, TypeInv, Knows, TypeOK, Registers, Live, Spawner,
        Waiters, child, calls
<1>1. ASSUME NEW h \in {"zero", "nonzero", "signal"}, Exits(c, h) PROVE Registers'
  BY <1>1 DEF Exits, Settle
<1>2. ASSUME Close(c) PROVE Registers'
  BY <1>2 DEF Close
<1>3. ASSUME Error(c) PROVE Registers'
  BY <1>3 DEF Error
<1> QED
  BY <1>1, <1>2, <1>3 DEF ChildStep, Exit

LEMMA KillRegisters ==
    ASSUME RegistryInv, NEW w \in Waiters, KillStep(w)
    PROVE  Registers'
<1> USE Identities
    DEF RegistryInv, StopInv, TypeInv, Knows, TypeOK, Registers, Live, Spawner,
        Waiters, child, calls
<1>1. ASSUME GraceEnds(w) PROVE Registers'
  BY <1>1 DEF GraceEnds
<1>2. ASSUME KillLands(w) PROVE Registers'
  BY <1>2 DEF KillLands
<1>3. ASSUME KillMisses(w) PROVE Registers'
  BY <1>3 DEF KillMisses, Settle
<1> QED
  BY <1>1, <1>2, <1>3 DEF KillStep

LEMMA RegistryStep == RegistryInv /\ [Next]_vars => RegistryInv'
<1> SUFFICES ASSUME RegistryInv, [Next]_vars PROVE RegistryInv'
  OBVIOUS
<1>1. StopInv'
  BY StopStep DEF RegistryInv
<1>2. CASE UNCHANGED vars
  BY <1>1, <1>2 DEF RegistryInv, Registers, Live, Spawner, vars
<1>3. ASSUME NEW i \in Ids, StoreLogs(i) PROVE RegistryInv'
  BY <1>1, <1>3, Identities
  DEF StoreLogs, RegistryInv, StopInv, TypeInv, Knows, TypeOK, Registers, Live,
      Spawner, Waiters, child, calls
<1>4. CASE StopAll
  <2>1. /\ \A i \in Ids : processes'[i] = processes[i] \/ processes'[i] = None
        /\ UNCHANGED <<os, fate, alive, op, id>>
    BY <1>4 DEF StopAll, child, calls
  <2> QED
    BY <1>1, <2>1, Identities DEF RegistryInv, Registers, Live, Spawner
<1> QED
  BY <1>1, <1>2, <1>3, <1>4, NextSplits, CallRegisters, ChildRegisters, KillRegisters
  DEF RegistryInv

LEMMA RegistryStart == Init => RegistryInv
BY Identities
DEF Init, StopInv, TypeInv, Ended, Runs, Knows, TypeOK, SettledIsOver, RegistryInv,
    Registers, Live, Waiters

\* What a step deletes from the registry does not live on.
LEMMA DropsStep ==
    ASSUME RegistryInv, Next, NEW i \in Ids, NEW c \in Calls,
           processes[i] = c, Live(c), Live(c)'
    PROVE  processes'[i] # None
<1> USE Identities
    DEF Live, RegistryInv, StopInv, TypeInv, TypeOK, Registers, child, calls
<1>1. Stoppable(i)
  BY DEF Stoppable
<1>2. ASSUME NEW d \in Calls, CallStep(d) PROVE processes'[i] # None
  BY <1>1, <1>2
  DEF CallStep, Stop, Start, StartOver, Run, StartResumes, RunTimesOut, BeginStop,
      SpawnAndReturn, Spawn
<1>3. ASSUME NEW d \in Calls, ChildStep(d) PROVE processes'[i] # None
  BY <1>3 DEF ChildStep, Exit, Exits, Settle, Close, Error
<1>4. ASSUME NEW w \in Waiters, KillStep(w) PROVE processes'[i] # None
  <2>1. CASE GraceEnds(w) \/ KillLands(w)
    BY <2>1 DEF GraceEnds, KillLands
  <2>2. CASE KillMisses(w)
    <3>1. on[w] \in Calls /\ "missed" \in fate'[on[w]]
      BY <2>2 DEF KillMisses, Knows
    <3>2. on[w] # c
      BY <3>1
    <3> QED
      BY <2>2, <3>2 DEF KillMisses, Settle
  <2> QED
    BY <1>4, <2>1, <2>2 DEF KillStep
<1>5. ASSUME NEW j \in Ids, StoreLogs(j) PROVE processes'[i] # None
  BY <1>5 DEF StoreLogs
<1>6. CASE StopAll
  BY <1>1, <1>6 DEF StopAll
<1> QED
  BY <1>2, <1>3, <1>4, <1>5, <1>6, NextSplits

\* However starts, runs, stops and the shutdown overlap, the registration of a live
\* child is replaced at most, never deleted.
THEOREM NoLiveDropped == Spec => DropsNoLive
<1>1. RegistryInv /\ [Next]_vars =>
        [\A i \in Ids, c \in Calls :
           processes[i] = c /\ Live(c) /\ Live(c)' => processes'[i] # None]_vars
  <2> SUFFICES ASSUME RegistryInv, Next, NEW i \in Ids, NEW c \in Calls,
                      processes[i] = c, Live(c), Live(c)'
               PROVE  processes'[i] # None
    OBVIOUS
  <2> QED
    BY DropsStep
<1> QED
  BY <1>1, RegistryStart, RegistryStep, PTL DEF Spec, DropsNoLive

-----------------------------------------------------------------------------
(* Callers that serialise per id *)

\* A start or run that spawns under an id no other spawner in flight and no live child
\* has keeps the id's serialisation, and its child is the registered one.
LEMMA SpawnSerial ==
    ASSUME SerialInv, NEW c \in Calls, NEW i, NEW pid \in BOOLEAN, NEW what, NEW next,
           \/ what = "start" /\ i \in StartIds /\ next = "done"
           \/ what \in {"run", "limited"} /\ i \in RunIds /\ next = "running",
           Spawn(c, i, pid), pc' = [pc EXCEPT ![c] = next], on' = on,
           op' = [op EXCEPT ![c] = what], id' = [id EXCEPT ![c] = i], os[c] = "unborn",
           \A d \in Calls \ {c} :
              id[d] = i => (Spawner(d) => pc[d] = "done") /\ ~Live(d)
    PROVE  Serialised' /\ LiveIsRegistered'
<1>1. /\ TypeOK /\ Knows /\ Registers /\ Serialised /\ LiveIsRegistered
      /\ i \in Ids
  BY Identities DEF SerialInv, RegistryInv, StopInv, TypeInv
<1>2. ASSUME NEW d \in Calls, d # c
      PROVE  /\ op'[d] = op[d] /\ id'[d] = id[d] /\ pc'[d] = pc[d] /\ on'[d] = on[d]
             /\ os'[d] = os[d] /\ fate'[d] = fate[d]
  BY <1>1, <1>2 DEF TypeOK, Waiters, Spawn
<1>3. ASSUME NEW d \in Calls, d # c
      PROVE  (Live(d)' <=> Live(d)) /\ (Spawner(d)' <=> Spawner(d))
  BY <1>2, <1>3 DEF Live, Spawner
<1>4. op'[c] = what /\ id'[c] = i /\ pc'[c] = next
  BY <1>1 DEF TypeOK, Waiters
<1>5. /\ processes'[i] = c
      /\ \A j \in Ids : j # i => processes'[j] = processes[j]
  BY <1>1 DEF TypeOK, Spawn
<1>6. LiveIsRegistered'
  <2> SUFFICES ASSUME NEW d \in Calls, Live(d)' PROVE processes'[id'[d]] = d
    BY DEF LiveIsRegistered
  <2>1. CASE d = c
    BY <1>4, <1>5, <2>1
  <2>2. CASE d # c
    <3>1. processes[id[d]] = d /\ Spawner(d)
      BY <1>1, <1>3, <2>2 DEF LiveIsRegistered, Registers, Live
    <3>2. id[d] \in Ids /\ id[d] # i
      BY <1>1, <1>3, <2>2, <3>1, Identities DEF Spawner, Serialised
    <3> QED
      BY <1>2, <1>5, <2>2, <3>1, <3>2
  <2> QED
    BY <2>1, <2>2
<1>7. Serialised'
  <2>1. ASSUME NEW d \in Calls, NEW e \in Calls, id'[d] = id'[e],
               Spawner(d)', pc'[d] # "done", Spawner(e)', pc'[e] # "done"
        PROVE  d = e
    <3>1. CASE d # c /\ e # c
      BY <1>1, <1>2, <1>3, <2>1, <3>1 DEF Serialised
    <3>2. CASE (d = c) # (e = c)
      BY <1>2, <1>3, <1>4, <2>1, <3>2
    <3> QED
      BY <3>1, <3>2
  <2>2. ASSUME NEW d \in Calls
        PROVE  /\ op'[d] = "start" => id'[d] \in StartIds
               /\ op'[d] \in {"run", "limited"} => id'[d] \in RunIds
    BY <1>1, <1>2, <1>4 DEF Serialised
  <2>3. ASSUME NEW d \in Calls, op'[d] = "start", pc'[d] \in {"stopping", "killing"}
        PROVE  processes'[id'[d]] \in {on'[d], None, LogOnly} /\ id'[on'[d]] = id'[d]
    <3>1. d # c /\ op[d] = "start" /\ pc[d] \in {"stopping", "killing"}
      BY <1>2, <1>4, <2>3
    <3>2. id[d] \in Ids /\ id[d] # i
      BY <1>1, <3>1, Identities DEF Serialised, Spawner
    <3>3. on[d] \in Calls /\ on[d] # c
      BY <1>1, <3>1 DEF Knows, Waiters
    <3> QED
      BY <1>1, <1>2, <1>5, <3>1, <3>2, <3>3 DEF Serialised
  <2>4. ASSUME NEW d \in Calls, pc'[d] = "stopped"
        PROVE  processes'[id'[d]] \in {None, LogOnly}
    <3>1. d # c /\ pc[d] = "stopped" /\ op[d] = "start"
      BY <1>1, <1>2, <1>4, <2>4 DEF Knows
    <3>2. id[d] \in Ids /\ id[d] # i
      BY <1>1, <3>1, Identities DEF Serialised, Spawner
    <3> QED
      BY <1>1, <1>2, <1>5, <3>1, <3>2 DEF Serialised
  <2>5. ASSUME NEW d \in Calls, Live(d)', op'[d] \in {"run", "limited"}
        PROVE  pc'[d] = "running"
    BY <1>1, <1>2, <1>3, <1>4, <2>5 DEF Serialised
  <2> QED
    BY <2>1, <2>2, <2>3, <2>4, <2>5 DEF Serialised
<1> QED
  BY <1>6, <1>7

LEMMA CallSerial ==
    ASSUME Serial, StartIds \cap RunIds = {}, SerialInv, NEW c \in Calls, CallStep(c)
    PROVE  Serialised' /\ LiveIsRegistered'
<1> DEFINE Goal == Serialised' /\ LiveIsRegistered'
<1> USE Identities
    DEF SerialInv, Serialised, LiveIsRegistered, RegistryInv, StopInv, TypeInv,
        Knows, TypeOK, Registers, Live, Spawner, Waiters, child, calls, Call
<1>1. ASSUME NEW i \in Ids, Stop(c, i) PROVE Goal
  BY <1>1 DEF Stop, BeginStop, Stoppable
<1>2. ASSUME NEW i \in StartIds, Start(c, i) PROVE Goal
  <2> HIDE DEF Goal, SerialInv, Serialised, LiveIsRegistered, RegistryInv, StopInv,
               TypeInv, Knows, TypeOK, Registers, Live, Spawner, calls
  <2>1. PICK pid \in BOOLEAN : /\ Spawn(c, i, pid)
                               /\ pc' = [pc EXCEPT ![c] = "done"] /\ on' = on
    BY <1>2 DEF Start, SpawnAndReturn
  <2>2. /\ op' = [op EXCEPT ![c] = "start"] /\ id' = [id EXCEPT ![c] = i]
        /\ op[c] = "none" /\ processes[i] = None
        /\ \A d \in Calls : Spawner(d) /\ id[d] = i => pc[d] = "done"
    BY <1>2 DEF Start, Admitted
  <2>3. os[c] = "unborn"
    BY <2>2 DEF SerialInv, RegistryInv, StopInv, Knows
  <2>4. \A d \in Calls : id[d] = i => ~Live(d)
    BY <2>2, Identities DEF SerialInv, LiveIsRegistered
  <2> QED
    BY <2>1, <2>2, <2>3, <2>4, SpawnSerial DEF Goal
<1>3. ASSUME NEW i \in StartIds, StartOver(c, i) PROVE Goal
  BY <1>3 DEF StartOver, BeginStop, Stoppable, Admitted
<1>4. ASSUME NEW i \in RunIds, Run(c, i) PROVE Goal
  <2> HIDE DEF Goal, SerialInv, Serialised, LiveIsRegistered, RegistryInv, StopInv,
               TypeInv, Knows, TypeOK, Registers, Live, Spawner, calls
  <2>1. PICK what \in {"run", "limited"}, pid \in BOOLEAN :
          /\ op' = [op EXCEPT ![c] = what] /\ id' = [id EXCEPT ![c] = i]
          /\ op[c] = "none" /\ Spawn(c, i, pid)
    BY <1>4 DEF Run
  <2>2. /\ pc' = [pc EXCEPT ![c] = "running"] /\ on' = on
        /\ \A d \in Calls : Spawner(d) /\ id[d] = i => pc[d] = "done"
    BY <1>4 DEF Run, Admitted
  <2>3. os[c] = "unborn"
    BY <2>1 DEF SerialInv, RegistryInv, StopInv, Knows
  <2>4. \A d \in Calls : Live(d) => Spawner(d)
    BY DEF SerialInv, RegistryInv, Registers, Live
  <2>5. \A d \in Calls : id[d] = i => ~Live(d)
    BY <2>2, <2>4 DEF SerialInv, Serialised, Spawner
  <2> QED
    BY <2>1, <2>2, <2>3, <2>5, SpawnSerial DEF Goal
<1>5. ASSUME StartResumes(c) PROVE Goal
  <2> HIDE DEF Goal, SerialInv, Serialised, LiveIsRegistered, RegistryInv, StopInv,
               TypeInv, Knows, TypeOK, Registers, Live, Spawner, Call
  <2>1. PICK pid \in BOOLEAN : /\ Spawn(c, id[c], pid)
                               /\ pc' = [pc EXCEPT ![c] = "done"] /\ on' = on
    BY <1>5 DEF StartResumes, SpawnAndReturn
  <2>2. pc[c] = "stopped" /\ op' = op /\ id' = id
    BY <1>5 DEF StartResumes
  <2>3. op[c] = "start" /\ os[c] = "unborn"
    BY <2>2 DEF SerialInv, RegistryInv, StopInv, Knows
  <2>4. id[c] \in StartIds /\ processes[id[c]] \in {None, LogOnly}
    BY <2>2, <2>3 DEF SerialInv, Serialised
  <2>5. op' = [op EXCEPT ![c] = "start"] /\ id' = [id EXCEPT ![c] = id[c]]
    BY <2>2, <2>3 DEF SerialInv, RegistryInv, StopInv, TypeInv, TypeOK
  <2>6. \A d \in Calls \ {c} : Spawner(d) /\ id[d] = id[c] => pc[d] = "done"
    BY <2>2, <2>3 DEF SerialInv, Serialised, Spawner
  <2>7. \A d \in Calls : id[d] = id[c] => ~Live(d)
    BY <2>4, Identities DEF SerialInv, LiveIsRegistered
  <2> QED
    BY <2>1, <2>3, <2>4, <2>5, <2>6, <2>7, SpawnSerial DEF Goal
<1>6. ASSUME RunTimesOut(c) PROVE Goal
  <2>1. ~Live(c)'
    BY <1>6, TimedOutIsOver
  <2>2. \A d \in Calls \ {c} : (Live(d)' => Live(d)) /\ pc'[d] = pc[d]
    BY <1>6 DEF RunTimesOut
  <2>3. UNCHANGED <<processes, id, os, op, on>> /\ pc'[c] = "done"
    BY <1>6 DEF RunTimesOut
  <2> HIDE DEF SerialInv, RegistryInv, StopInv, TypeInv, Knows, TypeOK, Registers, Live,
               calls, child
  <2>4. Serialised /\ LiveIsRegistered
    BY DEF SerialInv
  <2> QED
    BY <2>1, <2>2, <2>3, <2>4
<1> QED
  BY <1>1, <1>2, <1>3, <1>4, <1>5, <1>6 DEF CallStep

LEMMA ChildSerial ==
    ASSUME SerialInv, NEW c \in Calls, ChildStep(c)
    PROVE  Serialised' /\ LiveIsRegistered'
<1> DEFINE Goal == Serialised' /\ LiveIsRegistered'
<1> USE Identities
    DEF SerialInv, Serialised, LiveIsRegistered, RegistryInv, StopInv, TypeInv,
        Knows, TypeOK, Registers, Live, Spawner, Waiters, child, calls
<1>1. ASSUME NEW h \in {"zero", "nonzero", "signal"}, Exits(c, h) PROVE Goal
  BY <1>1 DEF Exits, Settle, AfterStop, Waiting
<1>2. ASSUME Close(c) PROVE Goal
  BY <1>2 DEF Close
<1>3. ASSUME Error(c) PROVE Goal
  BY <1>3 DEF Error
<1> QED
  BY <1>1, <1>2, <1>3 DEF ChildStep, Exit

LEMMA KillSerial ==
    ASSUME SerialInv, NEW w \in Waiters, KillStep(w)
    PROVE  Serialised' /\ LiveIsRegistered'
<1> DEFINE Goal == Serialised' /\ LiveIsRegistered'
<1> USE Identities
    DEF SerialInv, Serialised, LiveIsRegistered, RegistryInv, StopInv, TypeInv,
        Knows, TypeOK, Registers, Live, Spawner, Waiters, child, calls
<1>1. ASSUME GraceEnds(w) PROVE Goal
  BY <1>1 DEF GraceEnds
<1>2. ASSUME KillLands(w) PROVE Goal
  BY <1>2 DEF KillLands
<1>3. ASSUME KillMisses(w) PROVE Goal
  <2>1. on[w] \in Calls /\ "missed" \in fate'[on[w]]
    BY <1>3 DEF KillMisses
  <2>2. \A d \in Calls : d # on[w] => (Live(d)' <=> Live(d))
    BY <1>3 DEF KillMisses
  <2>3. \A d \in Calls : Live(d)' => Live(d) /\ d # on[w]
    BY <2>1, <2>2
  <2>4. LiveIsRegistered'
    <3>1. \A i \in Ids : processes[i] # on[w] => processes'[i] = processes[i]
      BY <1>3 DEF KillMisses, Settle
    <3>2. UNCHANGED id
      BY <1>3 DEF KillMisses
    <3> QED
      BY <2>3, <3>1, <3>2
  <2>5. Serialised'
    BY <1>3, <2>3 DEF KillMisses, Settle, AfterStop
  <2> QED
    BY <2>4, <2>5
<1> QED
  BY <1>1, <1>2, <1>3 DEF KillStep

LEMMA SerialStep ==
    ASSUME Serial, StartIds \cap RunIds = {}
    PROVE  SerialInv /\ [Next]_vars => SerialInv'
<1> SUFFICES ASSUME SerialInv, [Next]_vars PROVE SerialInv'
  OBVIOUS
<1>1. RegistryInv'
  BY RegistryStep DEF SerialInv
<1>2. CASE UNCHANGED vars
  BY <1>1, <1>2 DEF SerialInv, Serialised, LiveIsRegistered, Live, Spawner, vars
<1>3. ASSUME NEW i \in Ids, StoreLogs(i) PROVE Serialised' /\ LiveIsRegistered'
  BY <1>3, Identities
  DEF StoreLogs, SerialInv, Serialised, LiveIsRegistered, RegistryInv, StopInv,
      TypeInv, Knows, TypeOK, Registers, Live, Spawner, Waiters, child, calls
<1>4. CASE StopAll
  <2>1. \A i \in Ids : processes'[i] = processes[i] \/ processes'[i] = None
    BY <1>4 DEF StopAll
  <2>2. \A c \in Calls : pc'[c] = pc[c] /\ on'[c] = on[c]
    BY <1>4, Identities DEF StopAll, Waiters
  <2>3. UNCHANGED <<os, fate, alive, op, id>>
    BY <1>4 DEF StopAll, child, calls
  <2>4. /\ \A c \in Calls : Live(c)' <=> Live(c)
        /\ \A c \in Calls : Spawner(c)' <=> Spawner(c)
    BY <2>3 DEF Live, Spawner
  <2>5. \A c \in Calls : op[c] = "start" => id[c] \in Ids
    BY Identities DEF SerialInv, Serialised
  <2>6. \A c \in Calls : pc[c] = "stopped" => id[c] \in Ids
    BY <2>5 DEF SerialInv, RegistryInv, StopInv, Knows
  <2>7. LiveIsRegistered'
    BY <1>4, <2>3, <2>4, Identities
    DEF StopAll, Stoppable, SerialInv, Serialised, LiveIsRegistered, RegistryInv,
        StopInv, TypeInv, Knows, TypeOK, Registers, Live, Spawner, Waiters, child,
        calls
  <2>8. Serialised'
    <3>1. \A c, d \in Calls : /\ Spawner(c)' /\ pc'[c] # "done"
                              /\ Spawner(d)' /\ pc'[d] # "done"
                              /\ id'[c] = id'[d]
                              => c = d
      BY <2>2, <2>3, <2>4 DEF SerialInv, Serialised
    <3>2. ASSUME NEW c \in Calls
          PROVE  /\ op'[c] = "start" => id'[c] \in StartIds
                 /\ op'[c] \in {"run", "limited"} => id'[c] \in RunIds
                 /\ op'[c] = "start" /\ pc'[c] \in {"stopping", "killing"}
                      => id'[on'[c]] = id'[c]
                 /\ Live(c)' /\ op'[c] \in {"run", "limited"} => pc'[c] = "running"
      BY <2>2, <2>3, <2>4 DEF SerialInv, Serialised
    <3>3. ASSUME NEW c \in Calls
          PROVE  op'[c] = "start" /\ pc'[c] \in {"stopping", "killing"}
                   => processes'[id'[c]] \in {on'[c], None, LogOnly}
      BY <2>1, <2>2, <2>3, <2>5 DEF SerialInv, Serialised
    <3>4. ASSUME NEW c \in Calls
          PROVE  pc'[c] = "stopped" => processes'[id'[c]] \in {None, LogOnly}
      BY <2>1, <2>2, <2>3, <2>6 DEF SerialInv, Serialised
    <3> QED
      BY <3>1, <3>2, <3>3, <3>4 DEF Serialised
  <2> QED
    BY <1>1, <2>7, <2>8 DEF SerialInv
<1> QED
  BY <1>1, <1>2, <1>3, <1>4, NextSplits, CallSerial, ChildSerial, KillSerial
  DEF SerialInv

\* When callers overlap no two starts or runs of an id and use an id for one of the
\* two, every live child is the one registered under its id, whatever stops,
\* failed kills, timeouts and shutdown come in between.
THEOREM LiveChildrenRegistered ==
    ASSUME Serial, StartIds \cap RunIds = {}
    PROVE  Spec => []LiveIsRegistered
<1>1. Init => SerialInv
  BY RegistryStart, Identities
  DEF Init, SerialInv, Serialised, LiveIsRegistered, Live, Spawner, Waiters
<1>2. SerialInv => LiveIsRegistered
  BY DEF SerialInv
<1>3. SerialInv /\ [Next]_vars => SerialInv'
  BY SerialStep
<1> QED
  BY <1>1, <1>2, <1>3, PTL DEF Spec

\* So no id has two live children.
THEOREM NoTwoLive ==
    ASSUME Serial, StartIds \cap RunIds = {}
    PROVE  Spec => []OneLive
<1>1. LiveIsRegistered => OneLive
  BY DEF LiveIsRegistered, OneLive
<1>2. Spec => []LiveIsRegistered
  BY LiveChildrenRegistered
<1> QED
  BY <1>1, <1>2, PTL
=============================================================================
