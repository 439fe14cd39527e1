------------------------- MODULE MCTerminalSessions -------------------------
(* Instances of TerminalSessions: the sets and bounds are in the .cfg files.  *)
EXTENDS TerminalSessions, TLC

Symmetry == Permutations(Sessions) \cup Permutations(Sockets)

\* Bounds: a session is reconnected while it is the only one, and one notice is kept.
Bounded ==
    /\ \/ Cardinality({k \in Sockets : sock[k] # "free"}) < 2
       \/ Cardinality({s \in Sessions : at[s] # "unused"}) < 2
    /\ Cardinality(notes) < 2

\* The state up to what nothing reads any more. An entry that has left the map does
\* not come back before a restart, so of it only a running child still matters; of a
\* session without one, neither its timers, its wiring nor who ended it; and `lapsed`
\* starts anew with the next connection.
Gone(s)  == at[s] = "removed"
Over(s)  == child[s] # "running" /\ at[s] # "launching"
Named(s) == s \in files \/ \E n \in notes : n[1] = s
Still(S) == {s \in S : ~Over(s)}
Kept(S)  == {s \in S : ~Gone(s)}
Seen(S)  == {s \in S : \E k \in Sockets : sock[k] = "open" /\ peer[k] = s}
Reachable ==
    <<server, bench, at, child, files, stuck, notifierTokens, sock, notes,
      Kept(pty), Kept(flush), Still(detached), Still(deliberate),
      Kept(Still(quiet)), Kept(Still(spent)), Kept(Still(Seen(lapsed))),
      [s \in Sessions |-> IF Over(s) THEN "shell" ELSE wiring[s]],
      [s \in Sessions |-> IF Gone(s) THEN None ELSE token[s]],
      [s \in Sessions |-> IF Gone(s) THEN None ELSE ws[s]],
      [s \in Sessions |-> IF Gone(s) /\ Over(s) /\ ~Named(s) THEN None ELSE home[s]],
      [k \in Sockets |-> IF peer[k] # None /\ Gone(peer[k]) /\ Over(peer[k]) THEN None
                         ELSE peer[k]]>>
=============================================================================
