--------------------------- MODULE ProcessManager ---------------------------
(***************************************************************************)
(* src/server/services/process-manager.ts: the registry of child processes *)
(* under ids, and the calls that start, run to completion and stop them.   *)
(*                                                                         *)
(* A call spawns at most one child, so a child is named by the call that   *)
(* spawned it. A step is what one event of the event loop runs; a call's   *)
(* pc names the await it is parked at. The continuation of an await runs   *)
(* after the event that settled its promise, so it is a step of its own.   *)
(***************************************************************************)
EXTENDS Naturals, FiniteSets

CONSTANTS
    Ids,       \* process ids, "<plugin>:<bench>:<component>"
    StartIds,  \* the ids callers give to startProcess
    RunIds,    \* the ids callers give to runProcess
    Calls,     \* calls of the exported functions, and the children they spawn
    Serial,    \* callers never overlap two starts or runs of one id
    None,      \* no registration, no call
    LogOnly    \* a registration that holds only logs (storeCommandLogs)

ASSUME Identities ==
    /\ StartIds \subseteq Ids
    /\ RunIds \subseteq Ids
    /\ Ids \cap Calls = {}
    /\ {None, LogOnly} \cap (Ids \cup Calls) = {}
    /\ None # LogOnly
    /\ Serial \in BOOLEAN

VARIABLES
    processes,  \* Map processes: the child registered under each id
    os,         \* the operating system's and node's view of each child
    how,        \* how a child ended: its exit code, or a signal
    fate,       \* what became of the SIGKILLs aimed at a child
    alive,      \* ManagedProcess.alive
    code,       \* ManagedProcess.exitCode; "limit" is the 124 of a timeout
    op,         \* which function a call called; "limited" is a run with timeoutMs
    id,         \* with which id
    pc,         \* where the call is
    on,         \* the child a stop waits for
    out         \* what the call's promise settled with

child == <<os, how, fate, alive, code>>
calls == <<op, id>>
vars  == <<processes, os, how, fate, alive, code, op, id, pc, on, out>>

\* stopAllProcesses makes one stopProcess call per id: it is named by the id.
Waiters == Calls \cup Ids

TypeOK ==
    /\ processes \in [Ids -> Calls \cup {None, LogOnly}]
    /\ os \in [Calls -> {"unborn", "noPid", "failed", "running", "exited", "closed"}]
    /\ how \in [Calls -> {"none", "zero", "nonzero", "signal"}]
    /\ fate \in [Calls -> SUBSET {"killed", "missed"}]
    /\ alive \in [Calls -> BOOLEAN]
    /\ code \in [Calls -> {"null", "zero", "nonzero", "limit"}]
    /\ op \in [Calls -> {"none", "start", "run", "limited", "stop"}]
    /\ id \in [Calls -> Ids \cup {None}]
    /\ pc \in [Waiters -> {"idle", "stopping", "killing", "stopped", "running", "done"}]
    /\ on \in [Waiters -> Calls \cup {None}]
    /\ out \in [Calls -> {"none", "pid", "error", "zero", "nonzero", "limit"}]

Init ==
    /\ processes = [i \in Ids |-> None]
    /\ os    = [c \in Calls |-> "unborn"]
    /\ how   = [c \in Calls |-> "none"]
    /\ fate  = [c \in Calls |-> {}]
    /\ alive = [c \in Calls |-> FALSE]
    /\ code  = [c \in Calls |-> "null"]
    /\ op    = [c \in Calls |-> "none"]
    /\ id    = [c \in Calls |-> None]
    /\ pc    = [w \in Waiters |-> "idle"]
    /\ on    = [w \in Waiters |-> None]
    /\ out   = [c \in Calls |-> "none"]

-----------------------------------------------------------------------------
(* Spawning and registering a child *)

\* A child is registered the moment it is spawned; without a pid the spawn
\* failed, and node's 'error' event is still to come.
Spawn(c, i, pid) ==
    /\ os' = [os EXCEPT ![c] = IF pid THEN "running" ELSE "noPid"]
    /\ alive' = [alive EXCEPT ![c] = TRUE]
    /\ processes' = [processes EXCEPT ![i] = c]
    /\ UNCHANGED <<how, fate, code>>

\* startProcess settles as soon as it has spawned.
SpawnAndReturn(c, i) == \E pid \in BOOLEAN :
    /\ Spawn(c, i, pid)
    /\ pc'  = [pc EXCEPT ![c] = "done"]
    /\ out' = [out EXCEPT ![c] = IF pid THEN "pid" ELSE "error"]
    /\ UNCHANGED on

Spawner(c) == op[c] \in {"start", "run", "limited"}

\* What callers that serialise per id guarantee; the code itself does not.
Admitted(i) ==
    Serial => \A c \in Calls : Spawner(c) /\ id[c] = i => pc[c] = "done"

Call(c, what, i) ==
    /\ op[c] = "none"
    /\ op' = [op EXCEPT ![c] = what]
    /\ id' = [id EXCEPT ![c] = i]

-----------------------------------------------------------------------------
(* stopProcess *)

\* A stop has something to wait for: a child alive by the registry that has a
\* pid and whose exit has not been seen.
Stoppable(i) ==
    /\ processes[i] \in Calls
    /\ alive[processes[i]]
    /\ os[processes[i]] = "running"

\* The synchronous part of stopProcess(i) by w, which then goes on at `next`.
BeginStop(w, i, next) ==
    \/ /\ Stoppable(i)
       /\ pc' = [pc EXCEPT ![w] = "stopping"]
       /\ on' = [on EXCEPT ![w] = processes[i]]
       /\ UNCHANGED processes
    \/ /\ ~Stoppable(i)
       /\ pc' = [pc EXCEPT ![w] = next]
       /\ processes' = [processes EXCEPT ![i] = None]
       /\ UNCHANGED on

\* Where a call goes on once its stop has settled.
AfterStop(w) == IF w \in Calls /\ op[w] = "start" THEN "stopped" ELSE "done"

\* A slip: a registration is deleted whoever it belongs to.
SettleAny(S, c) ==
    /\ pc' = [w \in Waiters |-> IF w \in S THEN AfterStop(w) ELSE pc[w]]
    /\ processes' = [i \in Ids |-> IF S # {} /\ id[c] = i THEN None ELSE processes[i]]

\* settle() of every call in S, all of which wait for child c: each deletes the
\* registration only while it is still c's own.
Settle(S, c) ==
    /\ pc' = [w \in Waiters |-> IF w \in S THEN AfterStop(w) ELSE pc[w]]
    /\ processes' = [i \in Ids |-> IF S # {} /\ id[c] = i /\ processes[i] = c
                                   THEN None ELSE processes[i]]

Waiting(w) == pc[w] \in {"stopping", "killing"}

Stop(c, i) ==
    /\ Call(c, "stop", i)
    /\ BeginStop(c, i, "done")
    /\ UNCHANGED <<child, out>>

\* stopAllProcesses: shutdown stops every id registered at that moment at once.
StopAll ==
    /\ \A i \in Ids : pc[i] = "idle"
    /\ pc' = [w \in Waiters |->
                IF w \in Ids THEN IF Stoppable(w) THEN "stopping" ELSE "done" ELSE pc[w]]
    /\ on' = [w \in Waiters |->
                IF w \in Ids /\ Stoppable(w) THEN processes[w] ELSE on[w]]
    /\ processes' = [i \in Ids |-> IF Stoppable(i) THEN processes[i] ELSE None]
    /\ UNCHANGED <<child, calls, out>>

\* Five seconds of grace have passed without an exit: SIGKILL the tree.
GraceEnds(w) ==
    /\ pc[w] = "stopping"
    /\ pc' = [pc EXCEPT ![w] = "killing"]
    /\ UNCHANGED <<processes, child, calls, on, out>>

\* A slip: the stop settles on the callback of the SIGKILL, before the exit.
KillSettles(w) ==
    /\ pc[w] = "killing"
    /\ fate' = [fate EXCEPT ![on[w]] = @ \cup {"killed"}]
    /\ Settle({w}, on[w])
    /\ UNCHANGED <<os, how, alive, code, calls, on, out>>

\* The SIGKILL is delivered: the exit is on its way and the stop awaits it.
KillLands(w) ==
    /\ pc[w] = "killing"
    /\ "killed" \notin fate[on[w]]
    /\ fate' = [fate EXCEPT ![on[w]] = @ \cup {"killed"}]
    /\ UNCHANGED <<processes, os, how, alive, code, calls, pc, on, out>>

\* The SIGKILL failed: no exit is coming, so this stop gives up.
KillMisses(w) ==
    /\ pc[w] = "killing"
    /\ "killed" \notin fate[on[w]]
    /\ fate' = [fate EXCEPT ![on[w]] = @ \cup {"missed"}]
    /\ Settle({w}, on[w])
    /\ UNCHANGED <<os, how, alive, code, calls, on, out>>

-----------------------------------------------------------------------------
(* startProcess and runProcess *)

\* A slip: the registered child is not stopped first.
StartBeside(c, i) ==
    /\ Admitted(i)
    /\ Call(c, "start", i)
    /\ SpawnAndReturn(c, i)

\* Nothing is registered under i: the child is spawned at once.
Start(c, i) ==
    /\ Admitted(i)
    /\ Call(c, "start", i)
    /\ processes[i] = None
    /\ SpawnAndReturn(c, i)

\* Something is: stop it first.
StartOver(c, i) ==
    /\ Admitted(i)
    /\ Call(c, "start", i)
    /\ processes[i] # None
    /\ BeginStop(c, i, "stopped")
    /\ UNCHANGED <<child, out>>

\* The stop has settled: spawn, whatever is registered by now.
StartResumes(c) ==
    /\ pc[c] = "stopped"
    /\ SpawnAndReturn(c, id[c])
    /\ UNCHANGED calls

\* runProcess spawns and registers over whatever is there.
Run(c, i) ==
    /\ Admitted(i)
    /\ \E what \in {"run", "limited"}, pid \in BOOLEAN :
        /\ Call(c, what, i)
        /\ Spawn(c, i, pid)
    /\ pc' = [pc EXCEPT ![c] = "running"]
    /\ UNCHANGED <<on, out>>

\* timeoutMs has passed: the tree is sent a SIGKILL whose result nobody reads,
\* and the run settles with 124.
RunTimesOut(c) ==
    /\ op[c] = "limited" /\ pc[c] = "running"
    /\ \/ os[c] = "running" /\ \E f \in {"killed", "missed"} :
            fate' = [fate EXCEPT ![c] = @ \cup {f}]
       \/ os[c] # "running" /\ UNCHANGED fate
    /\ alive' = [alive EXCEPT ![c] = FALSE]
    /\ code' = [code EXCEPT ![c] = "limit"]
    /\ pc'   = [pc EXCEPT ![c] = "done"]
    /\ out'  = [out EXCEPT ![c] = "limit"]
    /\ UNCHANGED <<processes, os, how, calls, on>>

-----------------------------------------------------------------------------
(* The events of a child *)

\* A slip: a stop waits for 'close', which an orphaned grandchild holds back.
ExitsUnheard(c, h) ==
    /\ os[c] = "running"
    /\ os'  = [os EXCEPT ![c] = "exited"]
    /\ how' = [how EXCEPT ![c] = h]
    /\ UNCHANGED <<processes, fate, alive, code, calls, pc, on, out>>

\* 'exit': the child is gone, by itself or by a signal of anyone's, and every
\* stop that waits for it settles.
Exits(c, h) ==
    /\ os[c] = "running"
    /\ os'  = [os EXCEPT ![c] = "exited"]
    /\ how' = [how EXCEPT ![c] = h]
    /\ Settle({w \in Waiters : Waiting(w) /\ on[w] = c}, c)
    /\ UNCHANGED <<fate, alive, code, calls, on, out>>

Exit(c) == \E h \in {"zero", "nonzero", "signal"} : Exits(c, h)

\* The exit of a child that took a SIGKILL.
Dies(c) == "killed" \in fate[c] /\ Exits(c, "signal")

\* The exit code 'close' records: null after a signal, which a run turns into 0.
Recorded(c) ==
    IF how[c] # "signal" THEN how[c] ELSE IF op[c] = "start" THEN "null" ELSE "zero"

\* 'close': no process holds the child's output any more. It never comes while an
\* orphaned grandchild does.
Close(c) ==
    /\ os[c] = "exited"
    /\ os'    = [os EXCEPT ![c] = "closed"]
    /\ alive' = [alive EXCEPT ![c] = FALSE]
    /\ code'  = [code EXCEPT ![c] = Recorded(c)]
    /\ IF pc[c] = "running"
       THEN /\ pc'  = [pc EXCEPT ![c] = "done"]
            /\ out' = [out EXCEPT ![c] = Recorded(c)]
       ELSE UNCHANGED <<pc, out>>
    /\ UNCHANGED <<processes, how, fate, calls, on>>

\* 'error': the spawn had failed.
Error(c) ==
    /\ os[c] = "noPid"
    /\ os'    = [os EXCEPT ![c] = "failed"]
    /\ alive' = [alive EXCEPT ![c] = FALSE]
    /\ IF pc[c] = "running"
       THEN /\ pc'  = [pc EXCEPT ![c] = "done"]
            /\ out' = [out EXCEPT ![c] = "error"]
       ELSE UNCHANGED <<pc, out>>
    /\ UNCHANGED <<processes, how, fate, code, calls, on>>

\* storeCommandLogs keeps the output of a command that ran elsewhere.
StoreLogs(i) ==
    /\ processes[i] = None
    /\ processes' = [processes EXCEPT ![i] = LogOnly]
    /\ UNCHANGED <<child, calls, pc, on, out>>

-----------------------------------------------------------------------------

Next ==
    \/ \E c \in Calls : \/ \E i \in Ids : Stop(c, i)
                        \/ \E i \in StartIds : Start(c, i) \/ StartOver(c, i)
                        \/ \E i \in RunIds : Run(c, i)
                        \/ StartResumes(c) \/ RunTimesOut(c)
                        \/ Exit(c) \/ Close(c) \/ Error(c)
    \/ \E w \in Waiters : GraceEnds(w) \/ KillLands(w) \/ KillMisses(w)
    \/ \E i \in Ids : StoreLogs(i)
    \/ StopAll

Spec == Init /\ [][Next]_vars

\* Timers fire, the callback of a SIGKILL comes, continuations run, a failed
\* spawn reports its error, and a child that took a SIGKILL exits. Nothing says
\* that a child left alone ever exits, nor that its output is ever closed.
Fairness ==
    /\ \A w \in Waiters : /\ WF_vars(GraceEnds(w))
                          /\ WF_vars(KillLands(w) \/ KillMisses(w))
    /\ \A c \in Calls : /\ WF_vars(StartResumes(c))
                        /\ WF_vars(RunTimesOut(c))
                        /\ WF_vars(Dies(c))
                        /\ WF_vars(Error(c))

FairSpec == Spec /\ Fairness

-----------------------------------------------------------------------------
(* Properties *)

\* A child that runs and that no SIGKILL was spent on, landed or not.
Live(c) == os[c] = "running" /\ fate[c] = {}

\* A stop settles only when the child it waited for has exited or a SIGKILL at it has
\* failed, so neither a start that resumes after it nor the shutdown races the old
\* process (process-manager.ts:190-195).
SettledIsOver ==
    \A w \in Waiters : pc[w] \in {"stopped", "done"} /\ on[w] # None
        => os[on[w]] # "running" \/ "missed" \in fate[on[w]]

\* While callers serialise the starts and runs of an id, and use an id for one of
\* the two, a live child is the one registered under its id: whoever stops the
\* component, asks its status or shuts the server down reaches it.
LiveIsRegistered ==
    \A c \in Calls : Live(c) => processes[id[c]] = c

\* At most one live child per id, which "Kill existing process with this ID if
\* running" (process-manager.ts:31) promises: it follows from LiveIsRegistered.
OneLive ==
    \A c, d \in Calls : Live(c) /\ Live(d) /\ id[c] = id[d] => c = d

\* However calls overlap, no call deletes the registration of a live child: a stop
\* that settles late leaves alone the child that has taken the id meanwhile.
DropsNoLive ==
    [][\A i \in Ids, c \in Calls :
         processes[i] = c /\ Live(c) /\ Live(c)' => processes'[i] # None]_vars

\* Every stop, start and time-limited run settles, even when the child ignores
\* SIGTERM, the SIGKILL fails, or a grandchild keeps the output open.
CallsSettle ==
    /\ \A c \in Calls : op[c] \in {"start", "stop", "limited"} ~> pc[c] = "done"
    /\ \A i \in Ids : pc[i] # "idle" ~> pc[i] = "done"

=============================================================================
