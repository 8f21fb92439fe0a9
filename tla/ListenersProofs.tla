-------------------------- MODULE ListenersProofs --------------------------
(***************************************************************************)
(* Theorems about the listeners, for any set of connections and any limit. *)
(***************************************************************************)
EXTENDS ListenersProperties, TLAPS, FiniteSetTheorems

USE ListenersAssumption
USE DEF acceptVars, connVars, handlerVars, closeVars, udpVars

-----------------------------------------------------------------------------
(* The inductive invariant.                                                *)

\* TypeOK without the range of the counter, which needs what the counter counts.
Shapes ==
    /\ apc \in {"accept", "got", "pause", "wait", "returned"}
    /\ cur \in Conns \cup {NoConn} /\ (apc = "got" <=> cur # NoConn)
    /\ sock \in [Conns -> {"none", "backlog", "open", "closed"}]
    /\ hpc \in [Conns -> {"none", "peek", "read", "ingest", "close",
                          "unregister", "leave", "done"}]
    /\ deadline \in [Conns -> {"none", "set", "past"}]
    /\ msgs \in [Conns -> 0..MaxMsgs]
    /\ hungUp \subseteq Conns /\ snap \subseteq Conns
    /\ mpc \in {"idle", "snapshot", "closing", "wait", "closed"}
    /\ upc \in {"read", "ingest", "returned"}
    /\ umsgs \in 0..MaxMsgs
    /\ lnOpen \in BOOLEAN /\ uOpen \in BOOLEAN /\ probe \in BOOLEAN

\* Where the handler of a connection is says what has become of its socket and of
\* its entry in t.open.
Tracked ==
    /\ open \subseteq Conns
    /\ \A c \in Conns :
        /\ sock[c] \in {"none", "backlog"} => hpc[c] = "none"
        /\ hpc[c] \in {"unregister", "leave", "done"} => sock[c] = "closed"
        /\ c \in open <=> hpc[c] \in {"peek", "read", "ingest", "close", "unregister"}
        /\ c = cur => hpc[c] = "none" /\ sock[c] \notin {"none", "backlog"}
        /\ sock[c] = "open" /\ hpc[c] = "none" => c = cur

Counted == active = Cardinality(Live) /\ active <= Limit

CloseOrder ==
    /\ apc = "returned" => Live = {}
    /\ mpc # "idle" => ~lnOpen
    /\ mpc = "closed" => apc = "returned" /\ upc = "returned"

ListenersInv == Shapes /\ Tracked /\ Counted /\ CloseOrder

LEMMA LiveFinite == IsFiniteSet(Live) /\ Cardinality(Live) \in Nat
  BY FS_Subset, FS_CardinalityType DEF Live

LEMMA InitListeners == Init => ListenersInv /\ AtMostOneEscapes
  <1> SUFFICES ASSUME Init PROVE ListenersInv /\ AtMostOneEscapes
    OBVIOUS
  <1>1. Live = {} /\ Escaped = {}
    BY DEF Init, Live, Escaped
  <1>2. Counted
    BY <1>1, FS_EmptySet DEF Init, Counted
  <1>3. AtMostOneEscapes
    BY <1>1, FS_EmptySet DEF AtMostOneEscapes
  <1>4. Tracked /\ CloseOrder
    BY <1>1 DEF Init, Tracked, CloseOrder
  <1>5. msgs \in [Conns -> 0..MaxMsgs] /\ umsgs \in 0..MaxMsgs
    BY DEF Init
  <1>6. Shapes
    BY <1>5 DEF Init, Shapes
  <1> QED
    BY <1>2, <1>3, <1>4, <1>6 DEF ListenersInv

\* Steps that start no handler and end none leave the count alone.
LEMMA SameLive ==
  ASSUME ListenersInv, active' = active,
         \A c \in Conns : hpc'[c] \in {"none", "done"} <=> hpc[c] \in {"none", "done"}
  PROVE  Live' = Live /\ Counted'
  <1>1. Live' = Live
    BY DEF Live
  <1> QED
    BY <1>1 DEF ListenersInv, Counted

\* Peers and time change neither the handlers nor the count.
LEMMA PeerInv ==
  ASSUME ListenersInv, NEW c \in Conns, PeerStep(c) \/ DeadlinePasses(c)
  PROVE  ListenersInv'
  <1>1. UNCHANGED <<hpc, active, cur, apc, open, mpc, snap, upc, umsgs, lnOpen, uOpen, probe, msgs>>
    BY DEF PeerStep, Connect, HangUp, DeadlinePasses
  <1>2. Live' = Live /\ Counted'
    BY <1>1, SameLive
  <1>3. Shapes'
    BY <1>1 DEF PeerStep, Connect, HangUp, DeadlinePasses, ListenersInv, Shapes
  <1>4. Tracked'
    BY <1>1 DEF PeerStep, Connect, HangUp, DeadlinePasses, ListenersInv, Shapes, Tracked
  <1>5. CloseOrder'
    BY <1>1, <1>2 DEF ListenersInv, CloseOrder
  <1> QED
    BY <1>2, <1>3, <1>4, <1>5 DEF ListenersInv

\* The accept loop serves no more than Limit connections.
LEMMA AcceptInv ==
  ASSUME ListenersInv, AcceptStep
  PROVE  ListenersInv'
  <1> USE DEF ListenersInv
  <1>1. CASE Admit
    <2>1. cur \in Conns /\ hpc[cur] = "none" /\ active < Limit
      BY <1>1 DEF Admit, Shapes, Tracked
    <2>2. Live' = Live \cup {cur} /\ cur \notin Live
      BY <1>1, <2>1 DEF Admit, Live, Shapes
    <2>3. Cardinality(Live') = Cardinality(Live) + 1
      BY <2>2, LiveFinite, FS_AddElement
    <2>4. Counted'
      BY <1>1, <2>1, <2>3, LiveFinite DEF Admit, Counted
    <2>5. Shapes'
      BY <1>1, <2>1 DEF Admit, Shapes
    <2>6. Tracked'
      BY <1>1, <2>1 DEF Admit, Shapes, Tracked
    <2>7. CloseOrder'
      BY <1>1 DEF Admit, CloseOrder
    <2> QED
      BY <2>4, <2>5, <2>6, <2>7
  <1>2. CASE ~Admit
    <2>1. UNCHANGED <<hpc, active, open, mpc, upc, lnOpen>>
      BY <1>2 DEF AcceptStep, Accept, AcceptError, Reject, AcceptClosed, RunReturns
    <2>2. Live' = Live /\ Counted'
      BY <2>1, SameLive
    <2>3. Shapes'
      BY <1>2 DEF AcceptStep, Accept, AcceptError, Reject, AcceptClosed, RunReturns, Shapes
    <2>4. Tracked'
      BY <1>2, <2>1 DEF AcceptStep, Accept, AcceptError, Reject, AcceptClosed, RunReturns,
                        Shapes, Tracked
    <2>5. CloseOrder'
      BY <1>2, <2>1, <2>2 DEF AcceptStep, Accept, AcceptError, Reject, AcceptClosed,
                              RunReturns, CloseOrder
    <2> QED
      BY <2>2, <2>3, <2>4, <2>5
  <1> QED
    BY <1>1, <1>2

\* A handler gives its place back once, after its socket is closed and forgotten.
LEMMA HandlerInv ==
  ASSUME ListenersInv, NEW c \in Conns, ReceiveStep(c) \/ HandlerStep(c)
  PROVE  ListenersInv'
  <1> USE DEF ListenersInv
  <1>1. UNCHANGED <<lnOpen, apc, cur, mpc, snap, upc>>
    BY DEF ReceiveStep, HandlerStep, FrameBegins, FrameGoesOn, FrameEnds, Ingested,
           PeekTimeout, ReadFails, CloseConn, Unregister, Leave
  <1>2. CASE Leave(c)
    <2>1. Live' = Live \ {c} /\ c \in Live
      BY <1>2 DEF Leave, Live, Shapes
    <2>2. Cardinality(Live') = Cardinality(Live) - 1
      BY <2>1, LiveFinite, FS_RemoveElement
    <2>3. Counted'
      BY <1>2, <2>2, LiveFinite DEF Leave, Counted
    <2>4. Shapes' /\ Tracked'
      BY <1>2 DEF Leave, Shapes, Tracked
    <2>5. CloseOrder'
      BY <1>1, <2>1 DEF CloseOrder
    <2> QED
      BY <2>3, <2>4, <2>5
  <1>3. CASE ~Leave(c)
    <2>1. /\ active' = active
          /\ \A d \in Conns : hpc'[d] \in {"none", "done"} <=> hpc[d] \in {"none", "done"}
      BY <1>3 DEF ReceiveStep, HandlerStep, FrameBegins, FrameGoesOn, FrameEnds, Ingested,
                  PeekTimeout, ReadFails, CloseConn, Unregister, Shapes
    <2>2. Live' = Live /\ Counted'
      BY <2>1, SameLive
    <2>3. Shapes'
      BY <1>3, <1>1 DEF ReceiveStep, HandlerStep, FrameBegins, FrameGoesOn, FrameEnds, Ingested,
                  PeekTimeout, ReadFails, CloseConn, Unregister, Shapes, Arm
    <2>4. Tracked'
      BY <1>3, <1>1 DEF ReceiveStep, HandlerStep, FrameBegins, FrameGoesOn, FrameEnds, Ingested,
                  PeekTimeout, ReadFails, CloseConn, Unregister, Shapes, Tracked
    <2>5. CloseOrder'
      BY <1>1, <2>2 DEF CloseOrder
    <2> QED
      BY <2>2, <2>3, <2>4, <2>5
  <1> QED
    BY <1>2, <1>3

\* Closing, probing and the UDP loop leave the handlers where they are.
LEMMA CloseInv ==
  ASSUME ListenersInv, UdpStep \/ CloseListener \/ CloseStep \/ Probe \/ ProbeAnswered
  PROVE  ListenersInv'
  <1> USE DEF ListenersInv, UdpStep, CloseStep, UdpRead, UdpIngested, UdpReturns,
              CloseListener, Snapshot, CloseSnapshot, CloseUdp, ManagerClosed, Probe,
              ProbeAnswered
  <1>1. UNCHANGED <<hpc, active, open, cur, apc>>
    OBVIOUS
  <1>2. Live' = Live /\ Counted'
    BY <1>1, SameLive
  <1>3. sock' \in [Conns -> {"none", "backlog", "open", "closed"}] /\ snap' \subseteq Conns
    BY DEF Shapes, Tracked
  <1>4. Shapes'
    <2>1. umsgs' \in 0..MaxMsgs
      BY DEF Shapes
    <2>2. upc' \in {"read", "ingest", "returned"} /\ uOpen' \in BOOLEAN
      BY DEF Shapes
    <2>3. /\ mpc' \in {"idle", "snapshot", "closing", "wait", "closed"}
          /\ lnOpen' \in BOOLEAN /\ probe' \in BOOLEAN
      BY DEF Shapes
    <2>4. UNCHANGED <<deadline, msgs>> /\ hungUp' = hungUp
      OBVIOUS
    <2> HIDE DEF UdpStep, CloseStep, UdpRead, UdpIngested, UdpReturns, CloseListener,
                 Snapshot, CloseSnapshot, CloseUdp, ManagerClosed, Probe, ProbeAnswered
    <2> QED
      BY <1>1, <1>3, <2>1, <2>2, <2>3, <2>4 DEF Shapes
  <1>5. Tracked'
    BY <1>1 DEF Shapes, Tracked
  <1>6. CloseOrder'
    BY <1>1, <1>2 DEF CloseOrder
  <1> QED
    BY <1>2, <1>4, <1>5, <1>6

LEMMA StepListeners == ListenersInv /\ [Next]_vars => ListenersInv'
  <1>1. ListenersInv /\ UNCHANGED vars => ListenersInv'
    BY DEF vars, ListenersInv, Shapes, Tracked, Counted, CloseOrder, Live
  <1> QED
    BY <1>1, PeerInv, AcceptInv, HandlerInv, CloseInv DEF Next

THEOREM ListenersInvariant == Spec => []ListenersInv
  BY InitListeners, StepListeners, PTL DEF Spec

-----------------------------------------------------------------------------
(* What follows from it.                                                   *)

\* The variables keep their types, the counter of connections among them.
THEOREM ListenersTyped == Spec => []TypeOK
  <1>1. ListenersInv => TypeOK
    <2> SUFFICES ASSUME ListenersInv PROVE TypeOK
      OBVIOUS
    <2>1. Live \subseteq Conns
      BY DEF Live
    <2>2. Cardinality(Live) <= Cardinality(Conns) /\ Cardinality(Conns) \in Nat
      BY <2>1, FS_Subset, FS_CardinalityType
    <2>3. active \in 0..Cardinality(Conns)
      BY <2>2, LiveFinite DEF ListenersInv, Counted
    <2> QED
      BY <2>3 DEF ListenersInv, Shapes, Tracked, TypeOK
  <1> QED
    BY <1>1, ListenersInvariant, PTL

\* No more than Limit connections are served, and no more sockets are held for
\* them.
THEOREM LimitHolds == Spec => []LimitRespected
  <1>1. ListenersInv => LimitRespected
    <2> SUFFICES ASSUME ListenersInv PROVE LimitRespected
      OBVIOUS
    <2> DEFINE held == {c \in Conns : sock[c] = "open" /\ c # cur}
    <2>1. held \subseteq Live
      BY DEF ListenersInv, Tracked, Shapes, Live
    <2>2. Cardinality(held) <= Cardinality(Live) /\ Cardinality(held) \in Nat
      BY <2>1, LiveFinite, FS_Subset, FS_CardinalityType
    <2>3. Cardinality(Live) <= Limit
      BY DEF ListenersInv, Counted
    <2> QED
      BY <2>2, <2>3, LiveFinite DEF LimitRespected
  <1> QED
    BY <1>1, ListenersInvariant, PTL

\* A handler that has ended leaves no socket, no entry in t.open and no count.
THEOREM NoLeak == Spec => []NothingLeaks
  <1>1. ListenersInv => NothingLeaks
    BY DEF ListenersInv, Shapes, Tracked, Counted, NothingLeaks
  <1> QED
    BY <1>1, ListenersInvariant, PTL

\* When Manager.Close has returned nobody is left to call Ingest: what the
\* pipeline's Stop relies on.
THEOREM QuietOnceClosed == Spec => []ListenersQuiet
  <1>1. ListenersInv => ListenersQuiet
    BY DEF ListenersInv, Shapes, Tracked, CloseOrder, ListenersQuiet, Live
  <1> QED
    BY <1>1, ListenersInvariant, PTL

-----------------------------------------------------------------------------
(* What Close can miss.                                                    *)

\* After the snapshot no connection escapes that had not escaped before: nothing
\* is accepted any more.
LEMMA NoNewEscape ==
  ASSUME ListenersInv, [Next]_vars, mpc # "snapshot" \/ mpc' = "snapshot"
  PROVE  Escaped' \subseteq Escaped
  <1>1. CASE mpc' \notin {"closing", "wait", "closed"}
    BY <1>1 DEF Escaped
  <1>2. CASE mpc' \in {"closing", "wait", "closed"}
    <2>1. mpc \in {"closing", "wait", "closed"} /\ ~lnOpen
      BY <1>2 DEF Next, vars, PeerStep, ReceiveStep, HandlerStep, AcceptStep, UdpStep,
           CloseStep, Connect, HangUp, DeadlinePasses, Accept, AcceptError, Reject, Admit,
           AcceptClosed, RunReturns, FrameBegins, FrameGoesOn, FrameEnds, Ingested,
           PeekTimeout, ReadFails, CloseConn, Unregister, Leave, UdpRead, UdpIngested,
           UdpReturns, CloseListener, Snapshot, CloseSnapshot, CloseUdp, ManagerClosed,
           Probe, ProbeAnswered, ListenersInv, CloseOrder
    <2>2. \A c \in Conns : sock'[c] = "open" => sock[c] = "open" /\ (c \in snap => c \in snap')
      BY <2>1 DEF Next, vars, PeerStep, ReceiveStep, HandlerStep, AcceptStep, UdpStep,
           CloseStep, Connect, HangUp, DeadlinePasses, Accept, AcceptError, Reject, Admit,
           AcceptClosed, RunReturns, FrameBegins, FrameGoesOn, FrameEnds, Ingested,
           PeekTimeout, ReadFails, CloseConn, Unregister, Leave, UdpRead, UdpIngested,
           UdpReturns, CloseListener, Snapshot, CloseSnapshot, CloseUdp, ManagerClosed,
           Probe, ProbeAnswered, ListenersInv, Shapes
    <2> QED
      BY <1>2, <2>1, <2>2 DEF Escaped
  <1> QED
    BY <1>1, <1>2

\* A set within a finite set of at most one element has at most one element.
LEMMA FewerEscape ==
  ASSUME NEW X, NEW Y, IsFiniteSet(Y), Cardinality(Y) <= 1, X \subseteq Y
  PROVE  Cardinality(X) <= 1
  <1>1. Cardinality(X) <= Cardinality(Y) /\ IsFiniteSet(X)
    BY FS_Subset
  <1> QED
    BY <1>1, FS_CardinalityType

LEMMA StepEscape ==
  ListenersInv /\ AtMostOneEscapes /\ [Next]_vars => AtMostOneEscapes'
  <1> SUFFICES ASSUME ListenersInv, AtMostOneEscapes, [Next]_vars PROVE AtMostOneEscapes'
    OBVIOUS
  <1>1. CASE mpc # "snapshot" \/ mpc' = "snapshot"
    <2>1. Escaped' \subseteq Escaped /\ IsFiniteSet(Escaped)
      BY <1>1, NoNewEscape, FS_Subset, FS_EmptySet DEF Escaped
    <2> QED
      BY <2>1, FewerEscape DEF AtMostOneEscapes
  <1>2. CASE mpc = "snapshot" /\ mpc' # "snapshot"
    <2>1. Snapshot
      BY <1>2 DEF Next, vars, PeerStep, ReceiveStep, HandlerStep, AcceptStep, UdpStep,
           CloseStep, Connect, HangUp, DeadlinePasses, Accept, AcceptError, Reject, Admit,
           AcceptClosed, RunReturns, FrameBegins, FrameGoesOn, FrameEnds, Ingested,
           PeekTimeout, ReadFails, CloseConn, Unregister, Leave, UdpRead, UdpIngested,
           UdpReturns, CloseListener, CloseSnapshot, CloseUdp, ManagerClosed,
           Probe, ProbeAnswered
    <2>2. snap' = open /\ sock' = sock
      BY <2>1 DEF Snapshot
    <2>3. Escaped' \subseteq {cur}
      BY <2>2 DEF Escaped, ListenersInv, Tracked, Shapes
    <2>4. IsFiniteSet({cur}) /\ Cardinality({cur}) = 1
      <3> DEFINE x == cur
      <3> HIDE DEF x
      <3>1. IsFiniteSet({x}) /\ Cardinality({x}) = 1
        BY FS_Singleton
      <3> QED
        BY <3>1 DEF x
    <2>5. Cardinality(Escaped') <= 1
      BY <2>3, <2>4, FewerEscape
    <2> QED
      BY <2>5 DEF AtMostOneEscapes
  <1> QED
    BY <1>1, <1>2

\* Close misses at most the one connection that was between Accept and t.open.
THEOREM OneEscapesAtMost == Spec => []AtMostOneEscapes
  BY InitListeners, StepEscape, ListenersInvariant, PTL DEF Spec

=============================================================================
