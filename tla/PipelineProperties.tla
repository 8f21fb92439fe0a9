------------------------- MODULE PipelineProperties -------------------------
(***************************************************************************)
(* What must be true of the ingestion pipeline: its types, the accounting  *)
(* of entries, their order, what a shutdown may lose, and what must happen *)
(* in the end.  Bounds and instances are in MCPipeline.                    *)
(***************************************************************************)
EXTENDS Pipeline, Functions

ProducerStates == {"idle", "enqueue", "evict", "retry", "gone"}
DispatcherModes == {"run", "drain", "discard", "exited"}
BatcherStates == {"run", "flush", "lastFlush", "discard", "done"}
WorkerStates == {"idle", "call", "writing", "backoff", "done"}

\* The type invariant: every variable of pipeline.go's goroutines and channels
\* has the shape the code gives it, channels never above their capacity.
TypeOK ==
    /\ pc \in [Producers -> ProducerStates]
    /\ sent \in [Producers -> 0..MaxMsgs]
    /\ queue \in [Sources -> Seq(Entry)]
    /\ \A s \in Sources : Len(queue[s]) <= QueueCap
    /\ mode \in [Sources -> DispatcherModes]
    /\ hand \in [Sources -> Entry \cup {NoEntry}]
    /\ purging \in [Sources -> BOOLEAN]
    /\ in \in Seq(Entry) /\ Len(in) <= InCap
    /\ inClosed \in BOOLEAN
    /\ bpc \in BatcherStates
    /\ batch \subseteq Entry
    /\ batches \in Seq(SUBSET Entry) /\ Len(batches) <= BatchesCap
    /\ wpc \in [Workers -> WorkerStates]
    /\ wbatch \in [Workers -> SUBSET Entry]
    /\ attempt \in [Workers -> 0..WriteAttempts]
    /\ fate \in [Entry -> Fates]
    /\ landed \in [Entry -> Nat]
    /\ stop \in StopStates

-----------------------------------------------------------------------------
(* Accounting.                                                             *)

\* The entries handed to the pipeline so far.
Arrived == {e \in Entry : e[2] <= sent[e[1]]}

Handing == {p \in Producers : pc[p] \in {"enqueue", "evict", "retry"}}

\* The entries at each place of the pipeline.
At == [ producer   |-> {Current(p) : p \in Handing},
        queue      |-> UNION {Range(queue[s]) : s \in Sources},
        dispatcher |-> {hand[s] : s \in Sources} \ {NoEntry},
        in         |-> Range(in),
        batcher    |-> batch,
        batches    |-> UNION Range(batches),
        worker     |-> UNION {wbatch[w] : w \in Workers},
        settled    |-> {e \in Entry : fate[e] # "none"} ]

Places == DOMAIN At

InFlight == {e \in Arrived : fate[e] = "none"}

\* No entry is lost track of, and none is accounted for twice: an entry that
\* arrived is at exactly one place, once, or is settled and nowhere in the
\* pipeline.  This is what "the only exit path for entries is storage
\* (success) or a counted drop" needs from enqueue's evictions, the drains, the
\* flushes and the retries, whatever their interleaving.
AccountedOnce ==
    /\ UNION {At[x] : x \in Places} = Arrived
    /\ \A x, y \in Places : x # y => At[x] \cap At[y] = {}
    /\ \A s \in Sources : IsInjective(queue[s])
    /\ \A s, t \in Sources : s # t /\ hand[s] # NoEntry => hand[s] # hand[t]
    /\ IsInjective(in)
    /\ \A i, j \in DOMAIN batches : i # j => batches[i] \cap batches[j] = {}
    /\ \A v, w \in Workers : v # w => wbatch[v] \cap wbatch[w] = {}

\* Refinement: with goroutines and channels hidden the pipeline is the
\* accounting machine of IngestAccounting.
Accounting == INSTANCE IngestAccounting WITH
    inflight  <- InFlight,
    stored    <- {e \in Entry : fate[e] = "stored"},
    dropped   <- {e \in Entry : fate[e] \in Reasons},
    uncounted <- {e \in Entry : fate[e] = "discarded"},
    expired   <- stop \in {"expired", "aborted"}

\* Every step of the pipeline receives, refuses, stores, drops or discards as
\* the accounting machine allows, or changes nothing it sees.
ImplementsAccounting == Accounting!Spec

\* The counters tell the truth about the storage: what is counted stored is
\* there; what was refused, evicted or discarded is not; what is there was
\* stored, is being written, or was given up after an attempt; and a batch is
\* never sent more often than writeBatch's attempts allow.
CountersMatchStorage ==
    \A e \in Entry :
        /\ fate[e] = "stored" => landed[e] > 0
        /\ landed[e] > 0 =>
              \/ fate[e] \in {"stored", "shutdown", "storage_rejected",
                              "storage_write_failed"}
              \/ \E w \in Workers : e \in wbatch[w]
        /\ landed[e] <= WriteAttempts

-----------------------------------------------------------------------------
(* Order.                                                                  *)

\* What source s has on its way to the batcher, the next to arrive first.
Upstream(s) ==
    in \o (IF hand[s] = NoEntry THEN <<>> ELSE <<hand[s]>>) \o queue[s]

\* Messages of one connection or socket reach the batcher in the order they
\* were read, whatever is evicted or dropped between them, and no message of a
\* producer waits upstream of the batcher while a later one is past it.
ProducerOrder ==
    \A s \in Sources : LET u == Upstream(s) IN
        \A i \in DOMAIN u :
            /\ \A j \in DOMAIN u :
                  i < j /\ u[i][1] = u[j][1] => u[i][2] < u[j][2]
            /\ \A e \in At.batcher \cup At.batches \cup At.worker :
                  e[1] = u[i][1] => e[2] < u[i][2]

\* Under drop_oldest the arriving entry is what the policy keeps: when nobody
\* else feeds the source, the send after the eviction finds room.
LoneProducerKeepsNew ==
    \A p \in Producers :
        /\ pc[p] = "retry"
        /\ \A q \in Producers \ {p} : SourceOf[q] # SourceOf[p]
        => ~QueueFull(SourceOf[p])

-----------------------------------------------------------------------------
(* Shutdown.                                                               *)

\* Nothing is dropped as a shutdown loss, and nothing vanishes uncounted,
\* unless the drain deadline expired; the one exception is an HTTP request
\* that waits for room under the block policy when the drain begins.
LossNeedsDeadline ==
    \A e \in Entry :
        \/ fate[e] \notin {"shutdown", "discarded"}
        \/ stop \in {"expired", "aborted"}
        \/ /\ fate[e] = "shutdown" /\ SoftDone
           /\ e[1] \in HttpProducers /\ Policy[SourceOf[e[1]]] = "block"

\* When Stop returns every entry a listener delivered is settled; what is left
\* is in the queue of a dispatcher that has returned, or on its way there, and
\* came from an HTTP request.
NothingLeftBehind ==
    Stopped => \A e \in InFlight :
        /\ e[1] \in HttpProducers
        /\ e \in At.producer \cup At.queue
        /\ mode[SourceOf[e[1]]] = "exited"

\* Go panics on a send to a closed channel: in is closed only after the last
\* forward, batches only after the last flush.
NoSendOnClosed ==
    /\ inClosed => \A s \in Sources : hand[s] = NoEntry /\ mode[s] = "exited"
    /\ bpc = "done" => inClosed /\ in = <<>> /\ batch = {}

-----------------------------------------------------------------------------
(* What the documentation says and the code does not do.                   *)

\* "Anything undrained is counted as dropped{reason="shutdown"}"
\* (docs/ingestion.md): no entry of a stopped pipeline left it uncounted.
UndrainedIsCounted ==
    Stopped => \A e \in Entry : fate[e] # "discarded"

\* "the only exit path for entries is storage (success) or a counted drop"
\* (pipeline.go): once the process has ended no entry is without an account.
OnlyExitPath ==
    Stopped /\ (\A p \in Producers : pc[p] = "gone") => InFlight = {}

-----------------------------------------------------------------------------
(* Liveness.                                                               *)

\* A call of Ingest returns, whatever the policy, the queue and the shutdown:
\* this is what lets a connection handler end and mgr.Close return.
IngestReturns ==
    \A p \in Producers : p \in Handing ~> p \notin Handing

\* Once mgr.Close has returned and main has called it, Stop returns, although HTTP
\* requests go on enqueueing: no dispatcher, batcher or worker waits for another
\* one for ever, before the drain deadline or after it.  (Whether mgr.Close returns
\* is CloseReturnsUnlessEscaped of the listeners.)
ShutdownCompletes == stop = "draining" ~> Stopped

\* Every entry is settled in the end, the last ones of a burst too, which no
\* other entry pushes out of the batch; except what an HTTP request adds once
\* the drain has begun.
EntriesSettle ==
    \A e \in Entry :
        e \in Arrived ~> \/ fate[e] # "none"
                         \/ e[1] \in HttpProducers /\ SoftDone

=============================================================================
