------------------------------ MODULE Listeners ------------------------------
(***************************************************************************)
(* The socket side of ingestion: a TCP (or TLS) listener with its accept   *)
(* loop and one handler goroutine per connection (tcp.go), the reads of a  *)
(* handler as far as blocking and deadlines go (frame.go), a UDP listener  *)
(* (udp.go), and the Manager that closes them all and answers readiness    *)
(* probes under the same mutex (listener.go).                              *)
(*                                                                         *)
(* A connection is a model value; what it sends is left out.  A peer may   *)
(* connect, send, stay silent or hang up as it likes.                      *)
(***************************************************************************)
EXTENDS Naturals, FiniteSets

CONSTANTS
    Conns,      \* the connections peers may make
    Limit,      \* ingestion.active_connections
    IdleOn,     \* ingestion.idle_timeout > 0
    MaxMsgs,    \* bound of the model: messages per connection and over UDP
    NoConn      \* no connection in the accept loop's hands

ASSUME ListenersAssumption ==
    /\ IsFiniteSet(Conns) /\ NoConn \notin Conns
    /\ Limit \in Nat \ {0} /\ IdleOn \in BOOLEAN /\ MaxMsgs \in Nat

VARIABLES
    lnOpen,     \* the listening socket accepts
    apc,        \* where the accept loop is
    cur,        \* the connection Accept has returned
    sock,       \* the server's end of each connection
    hungUp,     \* connections whose peer has hung up
    hpc,        \* where the handler of each connection is
    deadline,   \* the read deadline of each connection
    msgs,       \* messages read from each connection
    open,       \* t.open: the connections Close will close
    active,     \* t.active: the connections counted against the limit
    mpc,        \* where Manager.Close is
    snap,       \* the connections Close has found in t.open
    upc,        \* where the UDP loop is
    umsgs,      \* messages read over UDP
    uOpen,      \* the UDP socket is open
    probe       \* a readiness probe is waiting for Manager.mu

acceptVars == <<lnOpen, apc, cur>>
connVars == <<sock, hungUp>>
handlerVars == <<hpc, deadline, msgs>>
closeVars == <<mpc, snap>>
udpVars == <<upc, umsgs, uOpen>>
vars == <<lnOpen, apc, cur, sock, hungUp, hpc, deadline, msgs, open, active,
          mpc, snap, upc, umsgs, uOpen, probe>>

Init ==
    /\ lnOpen = TRUE
    /\ apc = "accept"
    /\ cur = NoConn
    /\ sock = [c \in Conns |-> "none"]
    /\ hungUp = {}
    /\ hpc = [c \in Conns |-> "none"]
    /\ deadline = [c \in Conns |-> "none"]
    /\ msgs = [c \in Conns |-> 0]
    /\ open = {}
    /\ active = 0
    /\ mpc = "idle"
    /\ snap = {}
    /\ upc = "read"
    /\ umsgs = 0
    /\ uOpen = TRUE
    /\ probe = FALSE

-----------------------------------------------------------------------------
(* The peers and the kernel.                                               *)

Connect(c) ==
    /\ sock[c] = "none" /\ lnOpen
    /\ sock' = [sock EXCEPT ![c] = "backlog"]
    /\ UNCHANGED <<acceptVars, hungUp, handlerVars, open, active, closeVars,
                   udpVars, probe>>

HangUp(c) ==
    /\ sock[c] \in {"backlog", "open"} /\ c \notin hungUp
    /\ hungUp' = hungUp \cup {c}
    /\ UNCHANGED <<acceptVars, sock, handlerVars, open, active, closeVars,
                   udpVars, probe>>

\* Time passes: a deadline that was set is now in the past.
DeadlinePasses(c) ==
    /\ deadline[c] = "set"
    /\ deadline' = [deadline EXCEPT ![c] = "past"]
    /\ UNCHANGED <<acceptVars, connVars, hpc, msgs, open, active, closeVars,
                   udpVars, probe>>

-----------------------------------------------------------------------------
(* The accept loop: Run, handleAccept.                                     *)

Accept(c) ==
    /\ apc = "accept" /\ lnOpen /\ sock[c] = "backlog"
    /\ apc' = "got"
    /\ cur' = c
    /\ sock' = [sock EXCEPT ![c] = "open"]
    /\ UNCHANGED <<lnOpen, hungUp, handlerVars, open, active, closeVars, udpVars,
                   probe>>

\* A transient failure (EMFILE): sleep, then accept again.
AcceptError ==
    /\ \/ apc = "accept" /\ lnOpen /\ apc' = "pause"
       \/ apc = "pause" /\ apc' = "accept"
    /\ UNCHANGED <<lnOpen, cur, connVars, handlerVars, open, active, closeVars,
                   udpVars, probe>>

\* Broken variant: a connection that was never counted gives its place back.
RejectReleasing ==
    /\ apc = "got" /\ active >= Limit
    /\ sock' = [sock EXCEPT ![cur] = "closed"]
    /\ active' = active - 1
    /\ apc' = "accept"
    /\ cur' = NoConn
    /\ UNCHANGED <<lnOpen, hungUp, handlerVars, open, closeVars, udpVars, probe>>

\* handleAccept at the limit: close the connection.
Reject ==
    /\ apc = "got" /\ active >= Limit
    /\ sock' = [sock EXCEPT ![cur] = "closed"]
    /\ apc' = "accept"
    /\ cur' = NoConn
    /\ UNCHANGED <<lnOpen, hungUp, handlerVars, open, active, closeVars, udpVars,
                   probe>>

\* Broken variant: the limit is off by one.
AdmitOverLimit ==
    /\ apc = "got" /\ active <= Limit
    /\ open' = open \cup {cur}
    /\ active' = active + 1
    /\ hpc' = [hpc EXCEPT ![cur] = "peek"]
    /\ apc' = "accept"
    /\ cur' = NoConn
    /\ UNCHANGED <<lnOpen, connVars, deadline, msgs, closeVars, udpVars, probe>>

\* Broken variant: the connection is not entered in t.open.
AdmitUnregistered ==
    /\ apc = "got" /\ active < Limit
    /\ active' = active + 1
    /\ hpc' = [hpc EXCEPT ![cur] = "peek"]
    /\ apc' = "accept"
    /\ cur' = NoConn
    /\ UNCHANGED <<lnOpen, connVars, deadline, msgs, open, closeVars, udpVars,
                   probe>>

\* handleAccept below the limit: enter the connection in t.open, count it and
\* start its handler.  Only the entry is visible to Close.
Admit ==
    /\ apc = "got" /\ active < Limit
    /\ open' = open \cup {cur}
    /\ active' = active + 1
    /\ hpc' = [hpc EXCEPT ![cur] = "peek"]
    /\ apc' = "accept"
    /\ cur' = NoConn
    /\ UNCHANGED <<lnOpen, connVars, deadline, msgs, closeVars, udpVars, probe>>

AcceptClosed ==
    /\ apc = "accept" /\ ~lnOpen
    /\ apc' = "wait"
    /\ UNCHANGED <<lnOpen, cur, connVars, handlerVars, open, active, closeVars,
                   udpVars, probe>>

\* connsWG counts the handlers that have been started and have not ended.
Live == {c \in Conns : hpc[c] \notin {"none", "done"}}

\* Broken variant: Run does not wait for its handlers.
RunReturnsAtOnce ==
    /\ apc = "wait"
    /\ apc' = "returned"
    /\ UNCHANGED <<lnOpen, cur, connVars, handlerVars, open, active, closeVars,
                   udpVars, probe>>

\* Run: connsWG.Wait() is over.
RunReturns ==
    /\ apc = "wait" /\ Live = {}
    /\ apc' = "returned"
    /\ UNCHANGED <<lnOpen, cur, connVars, handlerVars, open, active, closeVars,
                   udpVars, probe>>

-----------------------------------------------------------------------------
(* A handler: serveConn and the reads of frameReader.next.  At a frame      *)
(* boundary next blocks in Peek, under whatever deadline is left from       *)
(* before; every other read sets the deadline first.                        *)

Arm(c) == deadline' = [deadline EXCEPT ![c] = IF IdleOn THEN "set" ELSE "none"]

\* Broken variant: the reads inside a frame set no deadline either.
FrameBeginsUnarmed(c) ==
    /\ hpc[c] = "peek" /\ msgs[c] < MaxMsgs
    /\ hpc' = [hpc EXCEPT ![c] = "read"]
    /\ UNCHANGED <<acceptVars, connVars, deadline, msgs, open, active, closeVars,
                   udpVars, probe>>

\* The first byte of a frame arrives, or is in the buffer already.
FrameBegins(c) ==
    /\ hpc[c] = "peek" /\ msgs[c] < MaxMsgs
    /\ hpc' = [hpc EXCEPT ![c] = "read"]
    /\ Arm(c)
    /\ UNCHANGED <<acceptVars, connVars, msgs, open, active, closeVars, udpVars,
                   probe>>

\* A frame that is not complete yet takes a further read: the next digit of a
\* count, the next byte to discard, the next 64 KiB.
FrameGoesOn(c) ==
    /\ hpc[c] = "read" /\ msgs[c] < MaxMsgs
    /\ Arm(c)
    /\ UNCHANGED <<acceptVars, connVars, hpc, msgs, open, active, closeVars,
                   udpVars, probe>>

\* The frame is complete, and goes to Ingest (or DropOversized).
FrameEnds(c) ==
    /\ hpc[c] = "read" /\ msgs[c] < MaxMsgs
    /\ hpc' = [hpc EXCEPT ![c] = "ingest"]
    /\ msgs' = [msgs EXCEPT ![c] = @ + 1]
    /\ UNCHANGED <<acceptVars, connVars, deadline, open, active, closeVars,
                   udpVars, probe>>

\* Ingest returns: next is called for the following frame.
Ingested(c) ==
    /\ hpc[c] = "ingest"
    /\ hpc' = [hpc EXCEPT ![c] = "peek"]
    /\ UNCHANGED <<acceptVars, connVars, deadline, msgs, open, active, closeVars,
                   udpVars, probe>>

\* Peek's error is ignored: ReadSlice follows, with a new deadline.
PeekTimeout(c) ==
    /\ hpc[c] = "peek" /\ deadline[c] = "past"
    /\ hpc' = [hpc EXCEPT ![c] = "read"]
    /\ Arm(c)
    /\ UNCHANGED <<acceptVars, connVars, msgs, open, active, closeVars, udpVars,
                   probe>>

\* A read fails for good: the deadline passed (ErrIdleTimeout), the peer hung up
\* (io.EOF), or Close closed the socket (net.ErrClosed).
ReadFails(c) ==
    /\ \/ hpc[c] = "read" /\ deadline[c] = "past"
       \/ hpc[c] \in {"peek", "read"} /\ (c \in hungUp \/ sock[c] = "closed")
    /\ hpc' = [hpc EXCEPT ![c] = "close"]
    /\ UNCHANGED <<acceptVars, connVars, deadline, msgs, open, active, closeVars,
                   udpVars, probe>>

\* The deferred function of serveConn: conn.Close(), ...
CloseConn(c) ==
    /\ hpc[c] = "close"
    /\ sock' = [sock EXCEPT ![c] = "closed"]
    /\ hpc' = [hpc EXCEPT ![c] = "unregister"]
    /\ UNCHANGED <<acceptVars, hungUp, deadline, msgs, open, active, closeVars,
                   udpVars, probe>>

\* Broken variant: the connection stays in t.open.
UnregisterNothing(c) ==
    /\ hpc[c] = "unregister"
    /\ hpc' = [hpc EXCEPT ![c] = "leave"]
    /\ UNCHANGED <<acceptVars, connVars, deadline, msgs, open, active, closeVars,
                   udpVars, probe>>

\* ... delete(t.open, conn), ...
Unregister(c) ==
    /\ hpc[c] = "unregister"
    /\ open' = open \ {c}
    /\ hpc' = [hpc EXCEPT ![c] = "leave"]
    /\ UNCHANGED <<acceptVars, connVars, deadline, msgs, active, closeVars,
                   udpVars, probe>>

\* ... t.active.Add(-1); then connsWG.Done().
Leave(c) ==
    /\ hpc[c] = "leave"
    /\ active' = active - 1
    /\ hpc' = [hpc EXCEPT ![c] = "done"]
    /\ UNCHANGED <<acceptVars, connVars, deadline, msgs, open, closeVars, udpVars,
                   probe>>

-----------------------------------------------------------------------------
(* The UDP listener: Run.                                                  *)

UdpRead ==
    /\ upc = "read" /\ uOpen /\ umsgs < MaxMsgs
    /\ upc' = "ingest"
    /\ umsgs' = umsgs + 1
    /\ UNCHANGED <<acceptVars, connVars, handlerVars, open, active, closeVars,
                   uOpen, probe>>

UdpIngested ==
    /\ upc = "ingest"
    /\ upc' = "read"
    /\ UNCHANGED <<acceptVars, connVars, handlerVars, open, active, closeVars,
                   umsgs, uOpen, probe>>

\* The socket was closed, or a read failed: either way Run returns, for good.
UdpReturns ==
    /\ upc = "read"
    /\ upc' = "returned"
    /\ UNCHANGED <<acceptVars, connVars, handlerVars, open, active, closeVars,
                   umsgs, uOpen, probe>>

-----------------------------------------------------------------------------
(* Manager.Close, which holds Manager.mu throughout, and tcpListener.Close. *)

CloseListener ==
    /\ mpc = "idle"
    /\ lnOpen' = FALSE
    /\ mpc' = "snapshot"
    /\ sock' = [c \in Conns |-> IF sock[c] = "backlog" THEN "closed" ELSE sock[c]]
    /\ UNCHANGED <<apc, cur, hungUp, handlerVars, open, active, snap, udpVars,
                   probe>>

Snapshot ==
    /\ mpc = "snapshot"
    /\ snap' = open
    /\ mpc' = "closing"
    /\ UNCHANGED <<acceptVars, connVars, handlerVars, open, active, udpVars, probe>>

CloseSnapshot(c) ==
    /\ mpc = "closing" /\ c \in snap
    /\ sock' = [sock EXCEPT ![c] = "closed"]
    /\ snap' = snap \ {c}
    /\ UNCHANGED <<acceptVars, hungUp, handlerVars, open, active, mpc, udpVars,
                   probe>>

\* Broken variant: udpListener.Close leaves the socket open.
CloseUdpNothing ==
    /\ mpc = "closing" /\ snap = {}
    /\ mpc' = "wait"
    /\ UNCHANGED <<acceptVars, connVars, handlerVars, open, active, snap, udpVars,
                   probe>>

\* The next listener: udpListener.Close.
CloseUdp ==
    /\ mpc = "closing" /\ snap = {}
    /\ uOpen' = FALSE
    /\ mpc' = "wait"
    /\ UNCHANGED <<acceptVars, connVars, handlerVars, open, active, snap, upc,
                   umsgs, probe>>

\* m.wg.Wait(): every Run has returned.
ManagerClosed ==
    /\ mpc = "wait" /\ apc = "returned" /\ upc = "returned"
    /\ mpc' = "closed"
    /\ UNCHANGED <<acceptVars, connVars, handlerVars, open, active, snap, udpVars,
                   probe>>

\* DownSources wants Manager.mu, and gets it unless Close holds it.
Probe ==
    /\ ~probe
    /\ probe' = TRUE
    /\ UNCHANGED <<acceptVars, connVars, handlerVars, open, active, closeVars,
                   udpVars>>

ProbeAnswered ==
    /\ probe /\ mpc \in {"idle", "closed"}
    /\ probe' = FALSE
    /\ UNCHANGED <<acceptVars, connVars, handlerVars, open, active, closeVars,
                   udpVars>>

-----------------------------------------------------------------------------
PeerStep(c) == Connect(c) \/ HangUp(c)

AcceptStep ==
    \/ \E c \in Conns : Accept(c)
    \/ AcceptError \/ Reject \/ Admit \/ AcceptClosed \/ RunReturns

\* What a peer makes a handler do.
ReceiveStep(c) == FrameBegins(c) \/ FrameGoesOn(c) \/ FrameEnds(c)

\* What a handler does by itself.
HandlerStep(c) ==
    \/ Ingested(c) \/ PeekTimeout(c) \/ ReadFails(c)
    \/ CloseConn(c) \/ Unregister(c) \/ Leave(c)

UdpStep == UdpRead \/ UdpIngested \/ UdpReturns

CloseStep ==
    \/ Snapshot \/ (\E c \in Conns : CloseSnapshot(c)) \/ CloseUdp \/ ManagerClosed

Next ==
    \/ \E c \in Conns : PeerStep(c) \/ ReceiveStep(c) \/ HandlerStep(c) \/ DeadlinePasses(c)
    \/ AcceptStep \/ UdpStep
    \/ CloseListener \/ CloseStep
    \/ Probe \/ ProbeAnswered

Spec == Init /\ [][Next]_vars

\* Goroutines run, time passes, a call of Ingest returns (IngestReturns of the
\* pipeline), a closed socket fails its reads.  No peer has to do anything.
Fairness ==
    /\ WF_vars(AcceptStep)
    /\ \A c \in Conns : WF_vars(HandlerStep(c)) /\ WF_vars(DeadlinePasses(c))
    /\ WF_vars(UdpIngested) /\ WF_vars(~uOpen /\ UdpReturns)
    /\ WF_vars(CloseStep)
    /\ WF_vars(ProbeAnswered)

FairSpec == Spec /\ Fairness

=============================================================================
