----------------------- MODULE TerminalSessions_proofs -----------------------
(***************************************************************************)
(* Proofs about TerminalSessions, for every set of sessions, WebSockets,   *)
(* benches and tokens: the types, that a live agent keeps its token, that  *)
(* files are those of listed sessions, and that a watched session is timed.*)
(***************************************************************************)
EXTENDS TerminalSessions, TLAPS

\* An open WebSocket is about a session.
Peers == \A k \in Sockets : sock[k] # "free" => peer[k] \in Sessions
Typed == TypeOK /\ Peers

\* Every session with a pty or a client has been registered, and one with a pty was
\* asked for on a bench: when that is gone, the session is detached from it.
Registered ==
    /\ \A s \in Sessions : s \in pty =>
          /\ at[s] \in {"listed", "removed"}
          /\ home[s] # None /\ (bench[home[s]] = "gone" => s \in detached)
    /\ \A k \in Sockets : sock[k] # "free" => at[peer[k]] \in {"listed", "removed"}

Inv == Typed /\ Registered /\ TokenReachesOwner /\ FilesAreSessions /\ IdleIsTimed

LEMMA InitInv == Init => Inv
BY DEF Init, Inv, Typed, TypeOK, Peers, Registered, TokenReachesOwner, FilesAreSessions,
       IdleIsTimed, Watched, Live, Listed

-----------------------------------------------------------------------------
(* Opening a session *)

LEMMA RegisterTyped ==
    ASSUME Typed, NEW s \in Sessions, NEW w \in {"shell", "agent", "hook"},
           NEW t \in Tokens \cup {None}, registerSession(s, w, t),
           home' \in [Sessions -> Benches \cup {None}]
    PROVE  Typed'
<1>1. CorrelationFor(t) \in Tokens \cup {None}
  BY DEF CorrelationFor
<1>2. token' \in [Sessions -> Tokens \cup {None}]
  BY <1>1 DEF Typed, TypeOK, registerSession
<1>3. notifierTokens' \in [Tokens -> Sessions \cup {None}]
  BY DEF Typed, TypeOK, registerSession
<1>4. /\ at' \in [Sessions -> {"unused", "launching", "listed", "removed"}]
      /\ wiring' \in [Sessions -> {"shell", "agent", "hook"}]
      /\ child' \in [Sessions -> {"none", "running", "exited"}]
  BY DEF Typed, TypeOK, registerSession
<1>5. pty' \subseteq Sessions /\ files' \subseteq Sessions
  BY DEF Typed, TypeOK, registerSession
<1>6. UNCHANGED <<deliberate, timers, flush, stuck, web, host, notes>>
  BY DEF registerSession
<1>7. TypeOK'
  BY <1>2, <1>3, <1>4, <1>5, <1>6 DEF Typed, TypeOK, timers, web, host
<1> QED
  BY <1>6, <1>7 DEF Typed, Peers, web

\* A session that registers takes a token only from none, or from a dead session.
LEMMA RegisterInv ==
    ASSUME Inv, NEW s \in Sessions, NEW w \in {"shell", "agent", "hook"},
           NEW t \in Tokens \cup {None}, registerSession(s, w, t),
           at[s] \in {"unused", "launching"}, HasBench(s)',
           home' \in [Sessions -> Benches \cup {None}],
           \A r \in Sessions \ {s} : home'[r] = home[r]
    PROVE  Inv'
<1>1. Typed'
  BY RegisterTyped DEF Inv
<1>2. s \notin pty /\ \A k \in Sockets : sock[k] # "free" => peer[k] # s
  BY DEF Inv, Registered
<1>3. Registered'
  BY <1>2 DEF Inv, Typed, TypeOK, Registered, registerSession, HasBench, web, host
<1>4. TokenReachesOwner'
  <2> SUFFICES ASSUME NEW r \in Sessions, Live(r)', token'[r] # None
               PROVE  notifierTokens'[token'[r]] = r
    BY DEF TokenReachesOwner
  <2>1. CASE r = s
    <3>1. token'[s] = CorrelationFor(t)
      BY DEF Inv, Typed, TypeOK, registerSession
    <3>2. CorrelationFor(t) \in Tokens
      BY <2>1, <3>1 DEF CorrelationFor
    <3> QED
      BY <2>1, <3>1, <3>2 DEF registerSession
  <2>2. CASE r # s
    <3>1. Live(r) /\ token[r] = token'[r]
      BY <2>2 DEF Inv, Typed, TypeOK, registerSession, Live, Listed
    <3>2. notifierTokens[token[r]] = r
      BY <3>1 DEF Inv, TokenReachesOwner
    <3>3. CorrelationFor(t) # token[r]
      BY <3>1, <3>2, TerminalParameters DEF CorrelationFor, isNotifierTokenHeldByLiveSession
    <3> QED
      BY <3>1, <3>2, <3>3 DEF Inv, Typed, TypeOK, registerSession
  <2> QED
    BY <2>1, <2>2
<1>5. FilesAreSessions'
  BY DEF Inv, Typed, TypeOK, FilesAreSessions, Listed, registerSession, host
<1>6. IdleIsTimed'
  BY <1>2 DEF Inv, Typed, TypeOK, IdleIsTimed, Watched, Live, Listed, HasBench,
          registerSession, timers, web, host
<1> QED
  BY <1>1, <1>3, <1>4, <1>5, <1>6 DEF Inv

LEMMA OpenInv ==
    ASSUME Inv, NEW s \in Sessions,
           \/ \E b \in Benches : createSession(s, b) \/ RequestAgent(s, b)
           \/ \E t \in Tokens \cup {None} : createAgentSession(s, "agent", t)
           \/ createAgentSession(s, "hook", None) \/ LaunchFails(s)
    PROVE  Inv'
<1>1. ASSUME NEW b \in Benches, createSession(s, b) PROVE Inv'
  <2>1. at[s] = "unused" /\ registerSession(s, "shell", None)
    BY <1>1 DEF createSession, Fresh
  <2>2. home' = [home EXCEPT ![s] = b] /\ bench[b] # "gone" /\ b # None
    BY <1>1, TerminalParameters DEF createSession
  <2>3. HasBench(s)' /\ home' \in [Sessions -> Benches \cup {None}]
    BY <2>1, <2>2 DEF Inv, Typed, TypeOK, HasBench, registerSession, host
  <2>4. \A r \in Sessions \ {s} : home'[r] = home[r]
    BY <2>2 DEF Inv, Typed, TypeOK
  <2> QED
    BY <2>1, <2>3, <2>4, RegisterInv
<1>2. ASSUME NEW w \in {"shell", "agent", "hook"}, NEW t \in Tokens \cup {None},
             createAgentSession(s, w, t)
      PROVE  Inv'
  <2>1. at[s] = "launching" /\ registerSession(s, w, t) /\ HasBench(s) /\ home' = home
    BY <1>2 DEF createAgentSession
  <2>2. HasBench(s)' /\ home' \in [Sessions -> Benches \cup {None}]
    BY <2>1 DEF Inv, Typed, TypeOK, HasBench, registerSession, host
  <2> QED
    BY <2>1, <2>2, RegisterInv
<1>3. ASSUME NEW b \in Benches, RequestAgent(s, b) PROVE Inv'
  <2>1. s \notin pty /\ s \notin files /\ \A k \in Sockets : sock[k] # "free" => peer[k] # s
    BY <1>3 DEF Inv, Registered, RequestAgent, Fresh
  <2>2. Typed'
    BY <1>3 DEF Inv, Typed, TypeOK, Peers, RequestAgent, timers, disk, web, host
  <2> QED
    BY <1>3, <2>1, <2>2 DEF Inv, Typed, TypeOK, Registered, TokenReachesOwner, FilesAreSessions,
       IdleIsTimed, Watched, Live, Listed, HasBench, RequestAgent, timers, disk, web, host
<1>4. CASE LaunchFails(s)
  <2>1. Typed'
    BY <1>4 DEF Inv, Typed, TypeOK, Peers, LaunchFails, timers, disk, web, host
  <2> QED
    BY <1>4, <2>1 DEF Inv, Typed, TypeOK, Registered, TokenReachesOwner, FilesAreSessions,
       IdleIsTimed, Watched, Live, Listed, HasBench, LaunchFails, timers, disk, web, host
<1> QED
  BY <1>1, <1>2, <1>3, <1>4

-----------------------------------------------------------------------------
(* The child *)

LEMMA OutputInv == ASSUME Inv, NEW s \in Sessions, Output(s) PROVE Inv'
<1>1. Typed'
  BY DEF Inv, Typed, TypeOK, Peers, Output, entry, web, host
<1>2. Registered' /\ TokenReachesOwner' /\ FilesAreSessions'
  BY DEF Inv, Registered, TokenReachesOwner, FilesAreSessions, Live, Listed, Output, entry,
         web, host
<1>3. IdleIsTimed'
  BY DEF Inv, IdleIsTimed, Watched, Live, Listed, HasBench, Output, entry, web, host
<1> QED
  BY <1>1, <1>2, <1>3 DEF Inv

LEMMA PersistTypes ==
    ASSUME Typed, NEW s \in Sessions
    PROVE  persistSession(s) \subseteq Sessions
BY DEF Typed, TypeOK, persistSession

LEMMA FlushInv == ASSUME Inv, NEW s \in Sessions, FlushFires(s) PROVE Inv'
<1>1. Typed'
  BY PersistTypes DEF Inv, Typed, TypeOK, Peers, FlushFires, entry, timers, web, host
<1>2. Registered' /\ TokenReachesOwner' /\ IdleIsTimed'
  BY DEF Inv, Registered, TokenReachesOwner, IdleIsTimed, Watched, Live, Listed, HasBench,
         FlushFires, entry, timers, web, host
<1>3. FilesAreSessions'
  BY DEF Inv, FilesAreSessions, Listed, persistSession, FlushFires, entry, host
<1> QED
  BY <1>1, <1>2, <1>3 DEF Inv

\* The timer of a watched session fires only to notify.
LEMMA QuietInv == ASSUME Inv, NEW s \in Sessions, QuietFires(s) PROVE Inv'
<1>1. Typed'
  BY DEF Inv, Typed, TypeOK, Peers, QuietFires, entry, disk, web, host
<1>2. Registered' /\ TokenReachesOwner' /\ FilesAreSessions'
  BY DEF Inv, Registered, TokenReachesOwner, FilesAreSessions, Live, Listed, QuietFires,
         entry, disk, web, host
<1>3. IdleIsTimed'
  BY DEF Inv, IdleIsTimed, Watched, Live, Listed, HasBench, QuietFires, entry, web, host
<1> QED
  BY <1>1, <1>2, <1>3 DEF Inv

LEMMA ExitInv == ASSUME Inv, NEW s \in Sessions, Exit(s) PROVE Inv'
<1>1. \A told \in ExitNotes(s) : told \subseteq Sessions \X {"waiting", "exited"}
  BY DEF ExitNotes
<1>2. Typed'
  BY <1>1, PersistTypes DEF Inv, Typed, TypeOK, Peers, Exit, web, host
<1>3. Registered'
  BY DEF Inv, Registered, Exit, web, host
<1>4. TokenReachesOwner' /\ IdleIsTimed'
  BY DEF Inv, Typed, TypeOK, TokenReachesOwner, IdleIsTimed, Watched, Live, Listed, HasBench,
         Exit, web, host
<1>5. FilesAreSessions'
  BY DEF Inv, FilesAreSessions, Listed, persistSession, Exit, host
<1> QED
  BY <1>2, <1>3, <1>4, <1>5 DEF Inv

-----------------------------------------------------------------------------
(* Closing sessions *)

LEMMA CloseTypes ==
    ASSUME Typed, NEW S \in SUBSET Sessions
    PROVE  /\ CloseSockets(S) \in [Sockets -> {"free", "open", "closing"}]
           /\ \A k \in Sockets : CloseSockets(S)[k] = "free" <=> sock[k] = "free"
           /\ forgetNotifierToken(S) \in [Tokens -> Sessions \cup {None}]
BY DEF Typed, TypeOK, CloseSockets, forgetNotifierToken

\* Closing opens none.
LEMMA Opens ==
    ASSUME Typed, NEW S \in SUBSET Sessions, NEW k \in Sockets, CloseSockets(S)[k] = "open"
    PROVE  sock[k] = "open"
BY DEF Typed, TypeOK, CloseSockets

\* What is destroyed gives up its own token only, and its file.
LEMMA DestroyInv ==
    ASSUME Inv, NEW S \in SUBSET Sessions, \A s \in S : Listed(s), Destroy(S),
           bench' \in [Benches -> {"live", "closing", "gone"}],
           \A b \in Benches : bench'[b] = "gone" <=> bench[b] = "gone"
    PROVE  Inv'
<1> PICK F \in SUBSET (S \cap files) : DeleteFiles(S, F)
  BY DEF Destroy
<1>1. Typed'
  <2>1. TypeOK'
    BY CloseTypes DEF Inv, Typed, TypeOK, Destroy, DeleteFiles
  <2> QED
    BY <2>1, CloseTypes DEF Inv, Typed, Peers, Destroy
<1>2. Registered'
  <2>1. \A s \in Sessions : at'[s] = at[s] \/ at'[s] = "removed"
    BY DEF Destroy
  <2>2. \A s \in Sessions : s \in pty => home[s] \in Benches
    BY DEF Inv, Typed, TypeOK, Registered
  <2>3. \A s \in Sessions : s \in pty' =>
          /\ at'[s] \in {"listed", "removed"}
          /\ home'[s] # None /\ (bench'[home'[s]] = "gone" => s \in detached')
    BY <2>1, <2>2 DEF Inv, Registered, Destroy
  <2>4. \A k \in Sockets : sock'[k] # "free" => at'[peer'[k]] \in {"listed", "removed"}
    BY <2>1, CloseTypes DEF Inv, Typed, Peers, Registered, Destroy
  <2> QED
    BY <2>3, <2>4 DEF Registered
<1>3. \A s \in Sessions : Listed(s)' => Listed(s) /\ s \notin S
  BY DEF Listed, Destroy
<1>4. TokenReachesOwner'
  <2> SUFFICES ASSUME NEW r \in Sessions, Live(r)', token'[r] # None
               PROVE  notifierTokens'[token'[r]] = r
    BY DEF TokenReachesOwner
  <2>1. Live(r) /\ r \notin S /\ token'[r] = token[r]
    BY <1>3 DEF Live, Destroy
  <2>2. notifierTokens[token[r]] = r /\ token[r] \in Tokens
    BY <2>1 DEF Inv, Typed, TypeOK, TokenReachesOwner
  <2> QED
    BY <2>1, <2>2 DEF Destroy, forgetNotifierToken
<1>5. FilesAreSessions'
  BY DEF Inv, Typed, TypeOK, FilesAreSessions, Listed, Destroy, DeleteFiles
<1>6. IdleIsTimed'
  <2>1. \A s \in Sessions : Watched(s)' => Watched(s)
    BY <1>3, Opens DEF Inv, Typed, TypeOK, Watched, Live, HasBench, Destroy
  <2> QED
    BY <1>3, <2>1 DEF Inv, IdleIsTimed, Watched, Live, Destroy
<1> QED
  BY <1>1, <1>2, <1>4, <1>5, <1>6 DEF Inv

LEMMA CloseInv ==
    ASSUME Inv, (\E s \in Sessions : destroySession(s))
                \/ (\E b \in Benches : destroyBenchSessions(b))
    PROVE  Inv'
<1>1. ASSUME NEW s \in Sessions, destroySession(s) PROVE Inv'
  BY <1>1, DestroyInv DEF Inv, Typed, TypeOK, destroySession
<1>2. ASSUME NEW b \in Benches, destroyBenchSessions(b) PROVE Inv'
  <2>1. /\ bench' \in [Benches -> {"live", "closing", "gone"}]
        /\ \A c \in Benches : bench'[c] = "gone" <=> bench[c] = "gone"
    BY <1>2 DEF Inv, Typed, TypeOK, destroyBenchSessions
  <2> QED
    BY <1>2, <2>1, DestroyInv DEF destroyBenchSessions
<1> QED
  BY <1>1, <1>2

\* A bench that goes detaches its sessions: the next one with its number does not
\* make them watched.
LEMMA BenchInv ==
    ASSUME Inv, NEW b \in Benches, BenchStays(b) \/ BenchRemoved(b) \/ BenchCreated(b)
    PROVE  Inv'
<1>1. /\ bench' \in [Benches -> {"live", "closing", "gone"}]
      /\ detached \subseteq detached' /\ detached' \subseteq Sessions
      /\ \A c \in Benches : bench'[c] = "gone" => bench[c] = "gone"
            \/ \A s \in Sessions : home[s] = c => s \in detached'
  BY DEF Inv, Typed, TypeOK, BenchStays, BenchRemoved, BenchCreated
<1>2. UNCHANGED <<entry, timers, disk, web, server>> /\ notes' \subseteq notes
  BY DEF BenchStays, BenchRemoved, BenchCreated
<1>3. Typed'
  BY <1>1, <1>2 DEF Inv, Typed, TypeOK, Peers, entry, timers, disk, web
<1>4. Registered'
  <2> SUFFICES ASSUME NEW s \in Sessions, s \in pty
               PROVE  home[s] # None /\ (bench'[home[s]] = "gone" => s \in detached')
    BY <1>2 DEF Inv, Registered, entry, web
  <2>1. home[s] \in Benches /\ (bench[home[s]] = "gone" => s \in detached)
    BY DEF Inv, Typed, TypeOK, Registered
  <2>2. home[s] # None
    BY DEF Inv, Registered
  <2> QED
    BY <1>1, <2>1, <2>2
<1>5. TokenReachesOwner' /\ FilesAreSessions'
  BY <1>2 DEF Inv, TokenReachesOwner, FilesAreSessions, Live, Listed, entry, disk
<1>6. IdleIsTimed'
  <2> SUFFICES ASSUME NEW s \in Sessions, Watched(s)', s \notin spent \cup lapsed
               PROVE  s \in quiet
    BY <1>2 DEF IdleIsTimed, timers
  <2>1. s \in pty /\ s \notin detached
    BY <1>1, <1>2 DEF Watched, Live, entry
  <2>2. HasBench(s)
    BY <2>1 DEF Inv, Registered, HasBench
  <2> QED
    BY <1>2, <2>1, <2>2 DEF Inv, IdleIsTimed, Watched, Live, Listed, entry, web
<1> QED
  BY <1>3, <1>4, <1>5, <1>6 DEF Inv

-----------------------------------------------------------------------------
(* WebSockets *)

LEMMA ConnectInv ==
    ASSUME Inv, NEW s \in Sessions, NEW k \in Sockets, handleWebSocket(s, k)
    PROVE  Inv'
<1>1. Typed'
  <2>1. TypeOK'
    BY CloseTypes DEF Inv, Typed, TypeOK, handleWebSocket, entry, disk, host
  <2> QED
    BY <2>1, CloseTypes DEF Inv, Typed, TypeOK, Peers, handleWebSocket
<1>2. Registered'
  <2>1. \A j \in Sockets \ {k} : sock'[j] # "free" => sock[j] # "free" /\ peer'[j] = peer[j]
    BY CloseTypes DEF Inv, Typed, TypeOK, handleWebSocket
  <2>2. peer'[k] = s
    BY DEF Inv, Typed, TypeOK, handleWebSocket
  <2> QED
    BY <2>1, <2>2 DEF Inv, Registered, Listed, handleWebSocket, entry, host
<1>3. TokenReachesOwner' /\ FilesAreSessions'
  BY DEF Inv, TokenReachesOwner, FilesAreSessions, Live, Listed, handleWebSocket, entry,
         disk, host
<1>4. IdleIsTimed'
  <2> SUFFICES ASSUME NEW r \in Sessions, Watched(r)', r \notin spent' \cup lapsed'
               PROVE  r \in quiet'
    BY DEF IdleIsTimed
  <2>1. CASE r = s
    BY <2>1 DEF Watched, Rearms, handleWebSocket, entry
  <2>2. CASE r # s
    <3>1. PICK j \in Sockets : sock'[j] = "open" /\ peer'[j] = r
      BY DEF Watched
    <3>2. j # k /\ peer[j] = r /\ sock[j] = "open"
      BY <2>2, <3>1, Opens DEF Inv, Typed, TypeOK, handleWebSocket
    <3>3. Watched(r) /\ r \notin spent \cup lapsed
      BY <2>2, <3>2 DEF Watched, Live, Listed, HasBench, handleWebSocket, entry, host
    <3> QED
      BY <2>2, <3>3 DEF Inv, IdleIsTimed, handleWebSocket
  <2> QED
    BY <2>1, <2>2
<1> QED
  BY <1>1, <1>2, <1>3, <1>4 DEF Inv

LEMMA InputInv == ASSUME Inv, NEW k \in Sockets, Input(k) PROVE Inv'
<1>1. peer[k] \in Sessions
  BY DEF Inv, Typed, Peers, Input
<1>2. Typed'
  <2>1. notes' \subseteq notes
    BY DEF Input
  <2> QED
    BY <1>1, <2>1 DEF Inv, Typed, TypeOK, Peers, Input, entry, disk, web, host
<1>3. Registered' /\ TokenReachesOwner' /\ FilesAreSessions'
  BY DEF Inv, Registered, TokenReachesOwner, FilesAreSessions, Live, Listed, Input, entry,
         disk, web, host
<1>4. IdleIsTimed'
  BY DEF Inv, IdleIsTimed, Watched, Live, Listed, HasBench, Input, entry, web, host
<1> QED
  BY <1>2, <1>3, <1>4 DEF Inv

LEMMA SocketClosesInv == ASSUME Inv, NEW k \in Sockets, SocketCloses(k) PROVE Inv'
<1>1. peer[k] \in Sessions
  BY DEF Inv, Typed, Peers, SocketCloses
<1>2. Typed'
  BY <1>1 DEF Inv, Typed, TypeOK, Peers, SocketCloses, entry, disk, host
<1>3. Registered'
  BY <1>1 DEF Inv, Typed, TypeOK, Registered, SocketCloses, entry, host
<1>4. TokenReachesOwner' /\ FilesAreSessions'
  BY DEF Inv, TokenReachesOwner, FilesAreSessions, Live, Listed, SocketCloses, entry, disk,
         host
<1>5. IdleIsTimed'
  BY <1>1 DEF Inv, Typed, TypeOK, IdleIsTimed, Watched, Live, Listed, HasBench, SocketCloses,
              entry, host
<1> QED
  BY <1>2, <1>3, <1>4, <1>5 DEF Inv

\* Notices are not read by any of this.
LEMMA NoticeInv ==
    ASSUME Inv, UNCHANGED <<entry, timers, disk, web, host>>,
           notes' \subseteq Sessions \X {"waiting", "exited"}
    PROVE  Inv'
BY DEF Inv, Typed, TypeOK, Peers, Registered, TokenReachesOwner, FilesAreSessions, IdleIsTimed,
       Watched, Live, Listed, HasBench, entry, timers, disk, web, host

LEMMA PostInv ==
    ASSUME Inv, (\E s \in Sessions : HookPosts(s)) \/ (\E t \in Tokens : NotifierPosts(t))
                \/ (\E n \in Sessions \X {"waiting", "exited"} : Dismiss(n))
    PROVE  Inv'
<1>1. ASSUME NEW s \in Sessions, Waits(s) PROVE Inv'
  BY <1>1, NoticeInv DEF Waits, Inv, Typed, TypeOK
<1>2. ASSUME NEW t \in Tokens, NotifierPosts(t) PROVE Inv'
  <2>1. notifierTokens[t] \in Sessions /\ Waits(notifierTokens[t])
    BY <1>2 DEF Inv, Typed, TypeOK, NotifierPosts
  <2> QED
    BY <1>1, <2>1
<1>3. ASSUME NEW n \in Sessions \X {"waiting", "exited"}, Dismiss(n) PROVE Inv'
  <2>1. notes' \subseteq Sessions \X {"waiting", "exited"}
    BY <1>3 DEF Dismiss, Inv, Typed, TypeOK
  <2> QED
    BY <1>3, <2>1, NoticeInv DEF Dismiss
<1> QED
  BY <1>1, <1>2, <1>3 DEF HookPosts

-----------------------------------------------------------------------------
(* Shutdown, crash and boot *)

LEMMA ShutdownInv == ASSUME Inv, destroyAllSessions PROVE Inv'
<1>1. Typed'
  <2> DEFINE S == {s \in Sessions : Listed(s)}
  <2>1. /\ CloseSockets(S) \in [Sockets -> {"free", "open", "closing"}]
        /\ \A k \in Sockets : CloseSockets(S)[k] = "free" <=> sock[k] = "free"
    BY CloseTypes DEF Inv
  <2>2. TypeOK'
    BY <2>1 DEF Inv, Typed, TypeOK, destroyAllSessions
  <2> QED
    BY <2>1, <2>2 DEF Inv, Typed, Peers, destroyAllSessions
<1>2. \A s \in Sessions : /\ ~Listed(s)'
                          /\ at'[s] = at[s] \/ at'[s] = "removed"
  BY DEF Listed, destroyAllSessions
<1>3. Registered'
  <2>1. \A k \in Sockets : sock'[k] # "free" => sock[k] # "free" /\ peer'[k] = peer[k]
    BY CloseTypes DEF Inv, destroyAllSessions
  <2> QED
    BY <1>2, <2>1 DEF Inv, Typed, Peers, Registered, destroyAllSessions
<1> QED
  BY <1>1, <1>2, <1>3 DEF Inv, TokenReachesOwner, FilesAreSessions, IdleIsTimed, Watched, Live,
                          destroyAllSessions

LEMMA RestartInv == ASSUME Inv, Restart PROVE Inv'
<1>1. Typed'
  BY DEF Inv, Typed, TypeOK, Peers, Restart
<1> QED
  BY <1>1 DEF Inv, Registered, TokenReachesOwner, FilesAreSessions, IdleIsTimed, Watched, Live,
              Listed, Restart

\* The sessions that were there already lose their pty, and with it their token.
LEMMA LoadInv == ASSUME Inv, loadPersistedSessions PROVE Inv'
<1> PICK S \in SUBSET files :
         /\ stuck' = files \ S
         /\ at' = [s \in Sessions |-> IF s \in S THEN "listed" ELSE at[s]]
         /\ pty' = pty \ S
         /\ token' = [s \in Sessions |-> IF s \in S THEN None ELSE token[s]]
         /\ ws' = [s \in Sessions |-> IF s \in S THEN None ELSE ws[s]]
  BY DEF loadPersistedSessions
<1>1. Typed'
  BY DEF Inv, Typed, TypeOK, Peers, loadPersistedSessions, timers
<1>2. \A s \in Sessions : s \in pty' => /\ s \notin S /\ at'[s] = at[s]
                                        /\ token'[s] = token[s] /\ ws'[s] = ws[s]
  OBVIOUS
<1>3. Registered'
  <2>1. \A s \in Sessions : at[s] \in {"listed", "removed"} => at'[s] \in {"listed", "removed"}
    OBVIOUS
  <2> QED
    BY <2>1 DEF Inv, Typed, Peers, Registered, loadPersistedSessions
<1>4. TokenReachesOwner'
  BY <1>2 DEF Inv, TokenReachesOwner, Live, Listed, loadPersistedSessions
<1>5. FilesAreSessions'
  BY DEF Inv, Typed, TypeOK, FilesAreSessions, Listed, loadPersistedSessions
<1>6. IdleIsTimed'
  BY <1>2 DEF Inv, IdleIsTimed, Watched, Live, Listed, HasBench, loadPersistedSessions, timers
<1> QED
  BY <1>1, <1>3, <1>4, <1>5, <1>6 DEF Inv

-----------------------------------------------------------------------------

LEMMA NextInv == Inv /\ [Next]_vars => Inv'
<1> SUFFICES ASSUME Inv, [Next]_vars PROVE Inv'
  OBVIOUS
<1>1. CASE UNCHANGED vars
  BY <1>1 DEF Inv, Typed, TypeOK, Peers, Registered, TokenReachesOwner, FilesAreSessions,
     IdleIsTimed, Watched, Live, Listed, HasBench, vars, entry, timers, disk, web, host
<1>2. ASSUME NEW s \in Sessions,
             \/ \E b \in Benches : createSession(s, b) \/ RequestAgent(s, b)
             \/ \E t \in Tokens \cup {None} : createAgentSession(s, "agent", t)
             \/ createAgentSession(s, "hook", None) \/ LaunchFails(s)
      PROVE  Inv'
  BY <1>2, OpenInv
<1>3. ASSUME NEW s \in Sessions, Output(s) \/ FlushFires(s) \/ QuietFires(s) \/ Exit(s)
      PROVE  Inv'
  BY <1>3, OutputInv, FlushInv, QuietInv, ExitInv
<1>4. ASSUME NEW k \in Sockets,
             (\E s \in Sessions : handleWebSocket(s, k)) \/ Input(k) \/ SocketCloses(k)
      PROVE  Inv'
  BY <1>4, ConnectInv, InputInv, SocketClosesInv
<1>5. CASE destroyAllSessions \/ Restart \/ loadPersistedSessions
  BY <1>5, ShutdownInv, RestartInv, LoadInv
<1> QED
  BY <1>1, <1>2, <1>3, <1>4, <1>5, CloseInv, BenchInv, PostInv DEF Next

LEMMA Invariance == Spec => []Inv
BY InitInv, NextInv, PTL DEF Spec

\* Every variable stays in its type (the maps of terminal.ts and the entries of
\* `sessions`).
THEOREM TypeCorrect == Spec => []TypeOK
<1>1. Inv => TypeOK
  BY DEF Inv, Typed
<1> QED
  BY <1>1, Invariance, PTL

\* The token of a live agent is traded for its session, for any number of sessions that
\* share templates, die, are closed and come back from disk (registerSession,
\* forgetNotifierToken).
THEOREM TokensReachOwners == Spec => []TokenReachesOwner
<1>1. Inv => TokenReachesOwner
  BY DEF Inv
<1> QED
  BY <1>1, Invariance, PTL

\* While the server is up a file belongs to a listed session, unless it could not be
\* removed or read: nothing that runs late saves a session that was destroyed
\* (persistSession, destroySession).
THEOREM FilesBelong == Spec => []FilesAreSessions
<1>1. Inv => FilesAreSessions
  BY DEF Inv
<1> QED
  BY <1>1, Invariance, PTL

\* A connected, live session without a hook whose bench was not dropped has its idle
\* window running until it is notified, the client types or a WebSocket of it closes
\* (handleWebSocket, scheduleQuiescenceCheck).
THEOREM IdleTimed == Spec => []IdleIsTimed
<1>1. Inv => IdleIsTimed
  BY DEF Inv
<1> QED
  BY <1>1, Invariance, PTL
=============================================================================
