-------------------------- MODULE IngestAccounting --------------------------
(***************************************************************************)
(* What the ingestion pipeline of syslogq promises about a log entry, with *)
(* the goroutines and channels left out.                                   *)
(*                                                                         *)
(* An entry handed to the pipeline is in flight until it is accounted for, *)
(* and it is accounted for once: counted in messages_stored_total or       *)
(* counted in messages_dropped_total.  The one way out that no counter     *)
(* sees is "uncounted": the batcher throws away what is left of its input  *)
(* channel once the drain deadline of Stop has expired.                    *)
(***************************************************************************)
CONSTANT Entry      \* the log entries

VARIABLES
    inflight,       \* entries inside the pipeline
    stored,         \* entries counted as stored
    dropped,        \* entries counted as dropped
    uncounted,      \* entries thrown away with no counter
    expired         \* the drain deadline of Stop has expired

vars == <<inflight, stored, dropped, uncounted, expired>>

Known == inflight \cup stored \cup dropped \cup uncounted

Init ==
    /\ inflight = {}
    /\ stored = {}
    /\ dropped = {}
    /\ uncounted = {}
    /\ expired = FALSE

\* An entry enters the pipeline.
Receive(e) ==
    /\ e \notin Known
    /\ inflight' = inflight \cup {e}
    /\ UNCHANGED <<stored, dropped, uncounted, expired>>

\* An entry is counted as dropped without ever being queued.
Refuse(e) ==
    /\ e \notin Known
    /\ dropped' = dropped \cup {e}
    /\ UNCHANGED <<inflight, stored, uncounted, expired>>

\* A batch of entries is counted as stored.
Store(X) ==
    /\ inflight' = inflight \ X
    /\ stored' = stored \cup X
    /\ UNCHANGED <<dropped, uncounted, expired>>

\* A batch of entries, or a single one, is counted as dropped.
Drop(X) ==
    /\ inflight' = inflight \ X
    /\ dropped' = dropped \cup X
    /\ UNCHANGED <<stored, uncounted, expired>>

\* Past the deadline an entry may vanish without being counted.
Discard(e) ==
    /\ expired
    /\ e \in inflight
    /\ inflight' = inflight \ {e}
    /\ uncounted' = uncounted \cup {e}
    /\ UNCHANGED <<stored, dropped, expired>>

Expire ==
    /\ expired' = TRUE
    /\ UNCHANGED <<inflight, stored, dropped, uncounted>>

Next ==
    \/ \E e \in Entry : Receive(e) \/ Refuse(e) \/ Discard(e)
    \/ \E X \in SUBSET inflight : Store(X) \/ Drop(X)
    \/ Expire

Spec == Init /\ [][Next]_vars

=============================================================================
