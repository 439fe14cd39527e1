-------------------------- MODULE TerminalSessions --------------------------
(***************************************************************************)
(* Terminals and agent sessions: src/server/services/terminal.ts, with the *)
(* waiting notices of notification.ts that it raises and dismisses, the    *)
(* routes that post to it (routes/terminal.ts, routes/hooks.ts), what      *)
(* bench-manager.ts closes when it tears a bench down, and the order in    *)
(* which index.ts boots and shuts down.                                    *)
(*                                                                         *)
(* A session is named by its random id, which also names its child and the *)
(* closures over its entry of the `sessions` map: those outlive the entry. *)
(* Requests, timers, output and exit of the child, and the messages and    *)
(* close of a WebSocket are separate events, in any order. Requests are    *)
(* answered in every phase of the server: it listens before it has loaded  *)
(* the sessions of its files, and while it shuts down.                     *)
(***************************************************************************)
EXTENDS Naturals, FiniteSets

CONSTANTS
    Sessions, \* session ids
    Sockets,  \* WebSockets that may be open at once
    Benches,  \* <<project, number>>: the benchKey of a session
    Tokens,   \* what correlation templates of plugins resolve to
    None

ASSUME TerminalParameters ==
    None \notin Sessions \cup Sockets \cup Benches \cup Tokens

VARIABLES
    server,     \* booting (it listens already), up (sessions loaded), stopping
    bench,      \* each number: live, closing (being torn down), or gone
    at,         \* where a session is: unused, launching, listed (in the map), removed
    home,       \* session.benchKey
    detached,   \* sessions requested for a bench object that has been dropped
    wiring,     \* a shell, an agent, or an agent whose hook posts to the server
    token,      \* internal.notifierCorrelation
    pty,        \* sessions whose entry has a pty
    child,      \* the process behind the pty
    deliberate, \* internal.deliberateEnd: Roubo itself has killed the child
    quiet,      \* sessions with a quiescence timer
    spent,      \* lastNotifiedAt is set and no output is later: do not notify again
    flush,      \* sessions with a flush timer
    notifierTokens, \* Map notifierTokens: the session that registered a token
    files,      \* sessions with a file in terminal-sessions/
    ws,         \* internal.ws
    sock,       \* each WebSocket: free, open, or closing (its close event is to come)
    peer,       \* the session its handlers are about
    notes,      \* bench.notifications that name a session
    lapsed,     \* history: the client typed, or a WebSocket of it closed, and neither
                \* output nor a connection came since
    stuck       \* history: sessions whose file could not be removed or read

entry == <<at, home, wiring, token, pty, child, deliberate, notifierTokens>>
timers == <<quiet, spent, lapsed>>
disk == <<flush, files, stuck>>
web == <<ws, sock, peer>>
host == <<server, bench, detached>>
vars == <<entry, timers, disk, web, host, notes>>

TypeOK ==
    /\ server \in {"booting", "up", "stopping"}
    /\ bench \in [Benches -> {"live", "closing", "gone"}]
    /\ at \in [Sessions -> {"unused", "launching", "listed", "removed"}]
    /\ home \in [Sessions -> Benches \cup {None}]
    /\ wiring \in [Sessions -> {"shell", "agent", "hook"}]
    /\ token \in [Sessions -> Tokens \cup {None}]
    /\ child \in [Sessions -> {"none", "running", "exited"}]
    /\ {detached, pty, deliberate, quiet, spent, flush, files, lapsed, stuck}
         \subseteq SUBSET Sessions
    /\ notifierTokens \in [Tokens -> Sessions \cup {None}]
    /\ ws \in [Sessions -> Sockets \cup {None}]
    /\ sock \in [Sockets -> {"free", "open", "closing"}]
    /\ peer \in [Sockets -> Sessions \cup {None}]
    /\ notes \subseteq Sessions \X {"waiting", "exited"}

Init ==
    /\ server = "booting"
    /\ bench = [b \in Benches |-> "live"]
    /\ at = [s \in Sessions |-> "unused"]
    /\ home = [s \in Sessions |-> None]
    /\ wiring = [s \in Sessions |-> "shell"]
    /\ token = [s \in Sessions |-> None]
    /\ child = [s \in Sessions |-> "none"]
    /\ detached = {} /\ pty = {} /\ deliberate = {}
    /\ quiet = {} /\ spent = {} /\ lapsed = {} /\ flush = {} /\ files = {}
    /\ stuck = {}
    /\ notifierTokens = [t \in Tokens |-> None]
    /\ ws = [s \in Sessions |-> None]
    /\ sock = [k \in Sockets |-> "free"]
    /\ peer = [k \in Sockets |-> None]
    /\ notes = {}

Listed(s) == at[s] = "listed"
Live(s) == Listed(s) /\ s \in pty /\ child[s] = "running"
HasBench(s) == home[s] # None /\ bench[home[s]] # "gone"

-----------------------------------------------------------------------------
(* Opening a session *)

\* Ids are random: none comes back while a file or a notice names it.
Fresh(s) == at[s] = "unused" /\ s \notin files /\ \A n \in notes : n[1] # s

\* The child is running: register it. A token that a live session holds is ignored.
isNotifierTokenHeldByLiveSession(t) == notifierTokens[t] # None /\ Live(notifierTokens[t])

CorrelationFor(t) ==
    IF t # None /\ isNotifierTokenHeldByLiveSession(t) THEN None ELSE t

registerSession(s, w, t) ==
    LET correlation == CorrelationFor(t) IN
    /\ at' = [at EXCEPT ![s] = "listed"]
    /\ wiring' = [wiring EXCEPT ![s] = w]
    /\ token' = [token EXCEPT ![s] = correlation]
    /\ notifierTokens' = [u \in Tokens |-> IF u = correlation THEN s ELSE notifierTokens[u]]
    /\ pty' = pty \cup {s}
    /\ child' = [child EXCEPT ![s] = "running"]
    /\ files' = files \cup {s}
    /\ UNCHANGED <<deliberate, timers, flush, stuck, web, host, notes>>

\* A shell is opened within its request, also on a bench that is being torn down.
createSession(s, b) ==
    /\ Fresh(s)
    /\ bench[b] # "gone"
    /\ home' = [home EXCEPT ![s] = b]
    /\ registerSession(s, "shell", None)

\* An agent is launched after awaits: the plugin is asked for a descriptor.
RequestAgent(s, b) ==
    /\ Fresh(s)
    /\ bench[b] # "gone"
    /\ at' = [at EXCEPT ![s] = "launching"]
    /\ home' = [home EXCEPT ![s] = b]
    /\ UNCHANGED <<wiring, token, pty, child, deliberate, notifierTokens, timers, disk, web,
                   host, notes>>

\* It is spawned when the workspace is there: that of the bench which has the
\* number by now.
createAgentSession(s, w, t) ==
    /\ at[s] = "launching"
    /\ HasBench(s)
    /\ registerSession(s, w, t)
    /\ UNCHANGED home

\* The plugin, the descriptor, the workspace or the spawn fails.
LaunchFails(s) ==
    /\ at[s] = "launching"
    /\ at' = [at EXCEPT ![s] = "removed"]
    /\ UNCHANGED <<home, wiring, token, pty, child, deliberate, notifierTokens, timers, disk,
                   web, host, notes>>

-----------------------------------------------------------------------------
(* The child *)

\* A slip: the write does not look whether the session is still there.
PersistAnyway(s) == files \cup {s}

persistSession(s) == IF Listed(s) THEN files \cup {s} ELSE files

\* Output is buffered, to be saved in a while; it takes back a waiting notice and
\* starts the idle window anew. (Output of the very millisecond of the notice is
\* taken as later.)
Output(s) ==
    /\ child[s] = "running"
    /\ flush' = flush \cup {s}
    /\ spent' = spent \ {s}
    /\ lapsed' = lapsed \ {s}
    /\ quiet' = IF Listed(s) /\ s \in pty THEN quiet \cup {s} ELSE quiet
    /\ notes' = IF HasBench(s) THEN notes \ {<<s, "waiting">>} ELSE notes
    /\ UNCHANGED <<entry, files, stuck, web, host>>

FlushFires(s) ==
    /\ s \in flush
    /\ flush' = flush \ {s}
    /\ files' = persistSession(s)
    /\ UNCHANGED <<entry, timers, stuck, web, host, notes>>

\* The window has passed without output: the session waits for the user.
QuietFires(s) ==
    /\ s \in quiet
    /\ quiet' = quiet \ {s}
    /\ IF Listed(s) /\ child[s] = "running" /\ s \notin spent /\ HasBench(s)
       THEN /\ notes' = notes \cup {<<s, "waiting">>}
            /\ spent' = spent \cup {s}
       ELSE UNCHANGED <<notes, spent>>
    /\ UNCHANGED <<entry, lapsed, disk, web, host>>

\* What an exit tells: an agent that dies by itself, unexpectedly, is announced on
\* the bench that has the number; any other end of an agent launched by the route
\* is told to the bench object of the request; a shell ends in silence.
ExitNotes(s) ==
    {{}} \cup
    (IF wiring[s] # "shell"
        /\ ((s \notin deliberate /\ HasBench(s)) \/ s \notin detached)
     THEN {{<<s, "exited">>}} ELSE {})

Exit(s) ==
    /\ child[s] = "running"
    /\ child' = [child EXCEPT ![s] = "exited"]
    /\ quiet' = quiet \ {s}
    /\ files' = persistSession(s)
    /\ \E told \in ExitNotes(s) : notes' = notes \cup told
    /\ UNCHANGED <<at, home, wiring, token, pty, deliberate, notifierTokens, spent, lapsed,
                   flush, stuck, web, host>>

-----------------------------------------------------------------------------
(* Closing sessions *)

\* A slip: the token is forgotten whoever holds it now.
ForgetAnyToken(S) ==
    [t \in Tokens |-> IF \E s \in S : token[s] = t THEN None ELSE notifierTokens[t]]

forgetNotifierToken(S) ==
    [t \in Tokens |-> IF \E s \in S : token[s] = t /\ notifierTokens[t] = s
                      THEN None ELSE notifierTokens[t]]

\* Which WebSockets are closed with the sessions in S: the event comes later.
CloseSockets(S) ==
    [k \in Sockets |-> IF sock[k] = "open" /\ \E s \in S : ws[s] = k
                       THEN "closing" ELSE sock[k]]

\* deletePersistedSession ignores an unlink that fails: the files in F stay.
DeleteFiles(S, F) ==
    /\ files' = (files \ S) \cup F
    /\ stuck' = (stuck \ S) \cup F

\* The sessions in S are destroyed: timers, child, socket, token, entry and file.
Destroy(S) ==
    /\ at' = [s \in Sessions |-> IF s \in S THEN "removed" ELSE at[s]]
    /\ deliberate' = deliberate \cup (S \cap pty)
    /\ quiet' = quiet \ (S \cap pty)
    /\ flush' = flush \ S
    /\ notifierTokens' = forgetNotifierToken(S)
    /\ \E F \in SUBSET (S \cap files) : DeleteFiles(S, F)
    /\ sock' = CloseSockets(S)
    /\ UNCHANGED <<home, wiring, token, pty, child, spent, lapsed, ws, peer, server, detached,
                   notes>>

destroySession(s) ==
    /\ Listed(s)
    /\ Destroy({s})
    /\ UNCHANGED bench

\* Clear, Cleanup & Retry and a forced unregister close the terminals of a bench.
destroyBenchSessions(b) ==
    /\ bench[b] = "live"
    /\ bench' = [bench EXCEPT ![b] = "closing"]
    /\ Destroy({s \in Sessions : Listed(s) /\ home[s] = b})

\* A later step fails, or the bench was only cleaned up for another round.
BenchStays(b) ==
    /\ bench[b] = "closing"
    /\ bench' = [bench EXCEPT ![b] = "live"]
    /\ UNCHANGED <<entry, timers, disk, web, server, detached, notes>>

\* The worktree is removed and the bench dropped, with its notices.
BenchRemoved(b) ==
    /\ bench[b] = "closing"
    /\ bench' = [bench EXCEPT ![b] = "gone"]
    /\ detached' = detached \cup {s \in Sessions : home[s] = b}
    /\ notes' = {n \in notes : home[n[1]] # b}
    /\ UNCHANGED <<entry, timers, disk, web, server>>

\* A new bench takes the number.
BenchCreated(b) ==
    /\ bench[b] = "gone"
    /\ bench' = [bench EXCEPT ![b] = "live"]
    /\ UNCHANGED <<entry, timers, disk, web, server, detached, notes>>

-----------------------------------------------------------------------------
(* WebSockets *)

\* A slip: a connection leaves the timer to the next output.
RearmsNever(s) == FALSE

\* A connection starts the idle window anew, unless a hook reports the waiting or
\* this window has been notified.
Rearms(s) == wiring[s] # "hook" /\ s \notin spent

\* A connection takes the place of an earlier one. (That to a session without a pty
\* only gets the replay, and is closed.)
handleWebSocket(s, k) ==
    /\ server # "stopping"
    /\ Listed(s) /\ s \in pty
    /\ sock[k] = "free"
    /\ sock' = [CloseSockets({s}) EXCEPT ![k] = "open"]
    /\ peer' = [peer EXCEPT ![k] = s]
    /\ ws' = [ws EXCEPT ![s] = k]
    /\ quiet' = IF Rearms(s) THEN quiet \cup {s} ELSE quiet \ {s}
    /\ lapsed' = lapsed \ {s}
    /\ UNCHANGED <<entry, spent, disk, host, notes>>

\* A keystroke. One into a dead terminal leaves the notices alone.
Input(k) ==
    LET s == peer[k] IN
    /\ sock[k] # "free"
    /\ quiet' = quiet \ {s}
    /\ spent' = spent \ {s}
    /\ lapsed' = lapsed \cup {s}
    /\ notes' = IF child[s] = "running" /\ HasBench(s)
                THEN {n \in notes : n[1] # s} ELSE notes
    /\ UNCHANGED <<entry, disk, web, host>>

\* The close event of a WebSocket: the client left, the pong did not come, or the
\* server closed it. That of one which was replaced comes late, and takes the timers
\* and the place of the WebSocket that is there now.
SocketCloses(k) ==
    /\ sock[k] # "free"
    /\ sock' = [sock EXCEPT ![k] = "free"]
    /\ peer' = [peer EXCEPT ![k] = None]
    /\ ws' = [ws EXCEPT ![peer[k]] = None]
    /\ quiet' = quiet \ {peer[k]}
    /\ lapsed' = lapsed \cup {peer[k]}
    /\ UNCHANGED <<entry, spent, disk, host, notes>>

-----------------------------------------------------------------------------
(* Notices from agents, and the user *)

\* A hook quotes the session id, a notifier the token it was given.
Waits(s) ==
    /\ HasBench(s)
    /\ notes' = notes \cup {<<s, "waiting">>}
    /\ UNCHANGED <<entry, timers, disk, web, host>>

HookPosts(s) == Live(s) /\ wiring[s] = "hook" /\ Waits(s)

NotifierPosts(t) ==
    LET s == notifierTokens[t] IN
    /\ s # None
    /\ Live(s) /\ token[s] = t
    /\ Waits(s)

Dismiss(n) ==
    /\ n \in notes
    /\ notes' = notes \ {n}
    /\ UNCHANGED <<entry, timers, disk, web, host>>

-----------------------------------------------------------------------------
(* Shutdown, crash and boot *)

destroyAllSessions ==
    LET S == {s \in Sessions : Listed(s)} IN
    /\ server = "up"
    /\ server' = "stopping"
    /\ files' = files \cup (S \cap pty)
    /\ deliberate' = deliberate \cup (S \cap pty)
    /\ quiet' = quiet \ (S \cap pty)
    /\ flush' = flush \ S
    /\ sock' = CloseSockets(S)
    /\ at' = [s \in Sessions |-> IF s \in S THEN "removed" ELSE at[s]]
    /\ notifierTokens' = [t \in Tokens |-> None]
    /\ UNCHANGED <<home, wiring, token, pty, child, spent, lapsed, ws, peer, bench, detached,
                   stuck, notes>>

\* The process ends, by the shutdown or by a crash, and its terminals hang up. The
\* next one hydrates the benches and listens.
Restart ==
    /\ server' = "booting"
    /\ bench' = [b \in Benches |-> IF bench[b] = "gone" THEN "gone" ELSE "live"]
    /\ at' = [s \in Sessions |-> "unused"]
    /\ home' = [s \in Sessions |-> IF s \in files \/ \E n \in notes : n[1] = s
                                   THEN home[s] ELSE None]
    /\ wiring' = [s \in Sessions |-> "shell"]
    /\ token' = [s \in Sessions |-> None]
    /\ child' = [s \in Sessions |-> "none"]
    /\ detached' = {} /\ pty' = {} /\ deliberate' = {}
    /\ quiet' = {} /\ spent' = {} /\ lapsed' = {} /\ flush' = {}
    /\ notifierTokens' = [t \in Tokens |-> None]
    /\ ws' = [s \in Sessions |-> None]
    /\ sock' = [k \in Sockets |-> "free"]
    /\ peer' = [k \in Sockets |-> None]
    /\ stuck' = {}
    /\ UNCHANGED <<files, notes>>

\* The sessions of the files are listed again, as ended ones, those included that a
\* client opened since the server listens: their children keep running behind. Files
\* that cannot be read are skipped, all of them if the directory cannot.
loadPersistedSessions ==
    /\ server = "booting"
    /\ server' = "up"
    /\ \E S \in SUBSET files :
         /\ stuck' = files \ S
         /\ at' = [s \in Sessions |-> IF s \in S THEN "listed" ELSE at[s]]
         /\ pty' = pty \ S
         /\ token' = [s \in Sessions |-> IF s \in S THEN None ELSE token[s]]
         /\ ws' = [s \in Sessions |-> IF s \in S THEN None ELSE ws[s]]
    /\ UNCHANGED <<bench, detached, home, wiring, child, deliberate, notifierTokens, timers,
                   flush, files, sock, peer, notes>>

-----------------------------------------------------------------------------

Next ==
    \/ \E s \in Sessions :
         \/ \E b \in Benches : createSession(s, b) \/ RequestAgent(s, b)
         \/ \E t \in Tokens \cup {None} : createAgentSession(s, "agent", t)
         \/ createAgentSession(s, "hook", None) \/ LaunchFails(s)
         \/ Output(s) \/ FlushFires(s) \/ QuietFires(s) \/ Exit(s)
         \/ destroySession(s)
         \/ \E k \in Sockets : handleWebSocket(s, k)
         \/ HookPosts(s)
    \/ \E b \in Benches :
         destroyBenchSessions(b) \/ BenchStays(b) \/ BenchRemoved(b) \/ BenchCreated(b)
    \/ \E k \in Sockets : Input(k) \/ SocketCloses(k)
    \/ \E t \in Tokens : NotifierPosts(t)
    \/ \E n \in Sessions \X {"waiting", "exited"} : Dismiss(n)
    \/ destroyAllSessions \/ Restart \/ loadPersistedSessions

Spec == Init /\ [][Next]_vars

-----------------------------------------------------------------------------
(* Properties *)

\* The notifier of a live agent reaches it: the token its session registered is
\* still traded for that session, whatever became of earlier holders of the token
\* (terminal.ts:187-209, 561-580).
TokenReachesOwner ==
    \A s \in Sessions : Live(s) /\ token[s] # None => notifierTokens[token[s]] = s

\* Once the sessions are loaded, and until they are all closed, a file belongs to a
\* listed session: no late flush and no late exit brings back the file of a session
\* that was destroyed, for the next boot to list again. Not promised of a file that
\* could not be removed, or could not be read at boot (terminal.ts:274-280, 1196-1234).
FilesAreSessions ==
    server = "up" => \A s \in files : Listed(s) \/ s \in stuck

\* A client is connected to a live session whose agent does not report by a hook.
Watched(s) ==
    /\ Live(s) /\ wiring[s] # "hook"
    /\ \E k \in Sockets : sock[k] = "open" /\ peer[k] = s
    /\ HasBench(s) /\ s \notin detached

\* A watched session has its idle window running, so that a wait for the user is
\* noticed, also when the client connected only after the output had ended: unless
\* this window has been notified, the client has just typed, or the close event of a
\* WebSocket it replaced has come (terminal.ts:1278-1295, 1375-1380). Nothing is said
\* of a session whose bench was dropped (detached): while no bench has the number, a
\* window ends without a notice, and one that takes the number later starts none.
IdleIsTimed ==
    \A s \in Sessions : Watched(s) /\ s \notin spent \cup lapsed => s \in quiet

=============================================================================
