------------------------ MODULE ListenersProperties ------------------------
(***************************************************************************)
(* What the listeners owe the rest of the program.                         *)
(***************************************************************************)
EXTENDS Listeners

\* The variables keep their types.
TypeOK ==
    /\ lnOpen \in BOOLEAN
    /\ apc \in {"accept", "got", "pause", "wait", "returned"}
    /\ cur \in Conns \cup {NoConn} /\ (apc = "got" <=> cur # NoConn)
    /\ sock \in [Conns -> {"none", "backlog", "open", "closed"}]
    /\ hungUp \subseteq Conns
    /\ hpc \in [Conns -> {"none", "peek", "read", "ingest", "close",
                          "unregister", "leave", "done"}]
    /\ deadline \in [Conns -> {"none", "set", "past"}]
    /\ msgs \in [Conns -> 0..MaxMsgs]
    /\ open \subseteq Conns
    /\ active \in 0..Cardinality(Conns)
    /\ mpc \in {"idle", "snapshot", "closing", "wait", "closed"}
    /\ snap \subseteq Conns
    /\ upc \in {"read", "ingest", "returned"}
    /\ umsgs \in 0..MaxMsgs
    /\ uOpen \in BOOLEAN /\ probe \in BOOLEAN

\* ingestion.active_connections bounds the connections being served, and the
\* sockets held for them: the counter is read before it is raised, and lowered
\* only after the socket is closed (handleAccept, serveConn).
LimitRespected ==
    /\ Cardinality(Live) <= Limit
    /\ Cardinality({c \in Conns : sock[c] = "open" /\ c # cur}) <= Limit

\* However the accept loop, the handlers and Close interleave, a handler that has
\* ended leaves nothing behind: its socket is closed, t.open has forgotten it and
\* its place under the limit is free again.
NothingLeaks ==
    /\ active = Cardinality(Live)
    /\ \A c \in Conns : hpc[c] = "done" => c \notin open /\ sock[c] = "closed"
    /\ \A c \in Conns : sock[c] = "open" => c = cur \/ hpc[c] \notin {"none", "done"}

\* The open connections that Close has missed.
Escaped ==
    IF mpc \in {"closing", "wait", "closed"}
    THEN {c \in Conns : sock[c] = "open"} \ snap
    ELSE {}

\* Close can miss a connection only if Accept had returned it and handleAccept had
\* not yet entered it in t.open; the accept loop holds one such at a time.
AtMostOneEscapes == Cardinality(Escaped) <= 1

\* Pipeline.Stop must be called after the listeners are closed (the comment on
\* Stop): once Manager.Close has returned, no listener can call Ingest again.
ListenersQuiet ==
    mpc = "closed" =>
        /\ apc = "returned" /\ upc = "returned" /\ cur = NoConn
        /\ Live = {}
        /\ {c \in Conns : sock[c] = "open"} = {}

-----------------------------------------------------------------------------
\* Manager.Close returns as long as no connection escapes it, whether the peers
\* send, stay silent or hang up.
CloseReturnsUnlessEscaped == mpc # "idle" ~> mpc = "closed" \/ Escaped # {}

\* A readiness probe takes Manager.mu, which Close holds while it waits: the probe
\* is answered as long as no connection escapes.
ReadinessAnswers == probe ~> ~probe \/ Escaped # {}

\* c's peer sends again and again.
Sending(c) == []<><<ReceiveStep(c)>>_vars

\* With an idle timeout, a connection that has sent something and then falls silent
\* is closed: the read inside a frame has a deadline, and Peek at the next frame
\* boundary inherits it.
SilentAfterTrafficCloses ==
    IdleOn => \A c \in Conns :
        Sending(c) \/ (msgs[c] > 0 \/ hpc[c] = "read" ~> hpc[c] = "done")

-----------------------------------------------------------------------------
(* What the code says of itself and does not keep.                         *)

\* tcpListener.Close "stops accepting and tears down live connections; handlers
\* finish via read errors" (tcp.go:143), and Manager.Close waits for them: it
\* always returns.
CloseReturns == mpc # "idle" ~> mpc = "closed"

\* ingestion.idle_timeout "closes silent TCP/TLS connections" (types.go): every
\* connection that stays silent is closed.
SilentCloses ==
    IdleOn => \A c \in Conns : Sending(c) \/ (hpc[c] = "peek" ~> hpc[c] = "done")

=============================================================================
