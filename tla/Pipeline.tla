------------------------------ MODULE Pipeline ------------------------------
(***************************************************************************)
(* The ingestion pipeline of syslogq (internal/ingestion/pipeline.go) with *)
(* the part of main.go that shuts it down:                                 *)
(*                                                                         *)
(*   producers -> queue[s] -> dispatcher s -> in -> batcher                *)
(*                                             -> batches -> workers       *)
(*                                                             -> storage  *)
(*                                                                         *)
(* Every arrow is a bounded Go channel.  A producer is a goroutine that    *)
(* calls Ingest: the handler of a connection, a UDP read loop, or an HTTP  *)
(* request.  An entry is <<p, n>>, the n-th message of producer p; what it *)
(* says, how it is parsed and how many bytes it has are left out.          *)
(*                                                                         *)
(* softCtx and hardCtx are the two cancellations of Stop: soft starts the  *)
(* drain, hard is the deadline after which the rest is thrown away.        *)
(***************************************************************************)
EXTENDS Naturals, Sequences, FiniteSets

CONSTANTS
    Producers,      \* goroutines that call Ingest or IngestRaw
    HttpProducers,  \* those of them that serve HTTP requests
    Sources,        \* the enabled sources
    SourceOf,       \* the source each producer feeds
    Policy,         \* the queue policy of each source
    Workers,        \* the writer goroutines
    QueueCap,       \* ingestion.queue_capacity
    InCap,          \* capacity of p.in (1024 in the code)
    MaxEntries,     \* ingestion.batch.max_entries
    WriteAttempts,  \* writeAttempts (3 in the code)
    StoreUnknown,   \* ingestion.store_unknown
    MaxMsgs,        \* bound of the model: messages per producer
    NoEntry         \* an empty hand

Policies == {"block", "drop_oldest", "drop_newest"}

Entry == Producers \X (1..MaxMsgs)

ASSUME ProducersAssumption ==
    /\ HttpProducers \subseteq Producers
    /\ SourceOf \in [Producers -> Sources]
    /\ Policy \in [Sources -> Policies]
    /\ MaxMsgs \in Nat

ASSUME WorkersAssumption == IsFiniteSet(Workers) /\ Workers # {}

ASSUME LimitsAssumption ==
    /\ QueueCap \in Nat \ {0}
    /\ InCap \in Nat \ {0}
    /\ MaxEntries \in Nat \ {0}
    /\ WriteAttempts \in Nat \ {0}
    /\ StoreUnknown \in BOOLEAN

ASSUME NoEntryAssumption == NoEntry \notin Entry

VARIABLES
    pc,             \* where each producer is inside Ingest
    sent,           \* messages each producer has handed over
    queue,          \* the channel of each source
    mode,           \* the loop each dispatcher runs
    hand,           \* the entry a dispatcher is forwarding
    purging,        \* a dispatcher inside forward's discardSource
    in,             \* the channel from the dispatchers to the batcher
    inClosed,       \* close(p.in) has happened
    bpc,            \* where the batcher is
    batch,          \* the batch being filled
    batches,        \* the channel of batches
    wpc,            \* where each worker is
    wbatch,         \* the batch a worker is writing
    attempt,        \* the attempts a worker has started on it
    fate,           \* how an entry was accounted for
    landed,         \* copies of an entry the storage holds (external)
    stop            \* progress of the shutdown

prodVars == <<pc, sent>>
dispVars == <<mode, hand, purging>>
inVars == <<in, inClosed>>
batchVars == <<bpc, batch>>
workVars == <<wpc, wbatch, attempt>>
ledger == <<fate, landed>>
frontVars == <<pc, sent, queue, mode, hand, purging, in, inClosed>>
backVars == <<bpc, batch, batches, wpc, wbatch, attempt>>
vars == <<pc, sent, queue, mode, hand, purging, in, inClosed, bpc, batch,
          batches, wpc, wbatch, attempt, fate, landed, stop>>

Reasons == {"parse_error", "oversized", "queue_full", "shutdown",
            "storage_rejected", "storage_write_failed"}
Fates == Reasons \cup {"none", "stored", "discarded"}

(***************************************************************************)
(* The cancellations are functions of the progress of the shutdown:        *)
(*   running    nothing asked yet                                          *)
(*   closing    mgr.Close: listeners closed, waiting for their handlers    *)
(*   draining   Stop has cancelled softCtx and waits for the workers       *)
(*   expired    the drain timeout fired: hardCtx cancelled, still waiting  *)
(*   drained    Stop returned before the timeout (hardCtx cancelled too)   *)
(*   aborted    Stop returned after the timeout                            *)
(***************************************************************************)
StopStates == {"running", "closing", "draining", "expired", "drained", "aborted"}
SoftDone == stop \in {"draining", "expired", "drained", "aborted"}
HardDone == stop \in {"expired", "drained", "aborted"}
Stopped == stop \in {"drained", "aborted"}

BatchesCap == 2 * Cardinality(Workers)

\* The entry producer p is handing over.
Current(p) == <<p, sent[p]>>

\* Count the entries of X under r: drop, dropEntries and countStored, or no
\* counter at all when r is "discarded".
Account(X, r) == fate' = [e \in Entry |-> IF e \in X THEN r ELSE fate[e]]

QueueFull(s) == Len(queue[s]) >= QueueCap

Init ==
    /\ pc = [p \in Producers |-> "idle"]
    /\ sent = [p \in Producers |-> 0]
    /\ queue = [s \in Sources |-> <<>>]
    /\ mode = [s \in Sources |-> "run"]
    /\ hand = [s \in Sources |-> NoEntry]
    /\ purging = [s \in Sources |-> FALSE]
    /\ in = <<>>
    /\ inClosed = FALSE
    /\ bpc = "run"
    /\ batch = {}
    /\ batches = <<>>
    /\ wpc = [w \in Workers |-> "idle"]
    /\ wbatch = [w \in Workers |-> {}]
    /\ attempt = [w \in Workers |-> 0]
    /\ fate = [e \in Entry |-> "none"]
    /\ landed = [e \in Entry |-> 0]
    /\ stop = "running"

-----------------------------------------------------------------------------
(* Producers: Ingest, storeUnknown, enqueue, DropOversized.                *)

\* A message arrives that will be queued: it was parsed, or it was not and
\* store_unknown keeps its raw line.
Ingest(p) ==
    /\ pc[p] = "idle" /\ sent[p] < MaxMsgs
    /\ pc' = [pc EXCEPT ![p] = "enqueue"]
    /\ sent' = [sent EXCEPT ![p] = @ + 1]
    /\ UNCHANGED <<queue, dispVars, inVars, backVars, ledger, stop>>

\* A message arrives that is counted as dropped at once: no parser takes it and
\* store_unknown is off, or a listener found it too large.
RefuseMessage(p, reason) ==
    /\ pc[p] = "idle" /\ sent[p] < MaxMsgs
    /\ \/ reason = "parse_error" /\ ~StoreUnknown
       \/ reason = "oversized" /\ p \notin HttpProducers
    /\ sent' = [sent EXCEPT ![p] = @ + 1]
    /\ Account({<<p, sent[p] + 1>>}, reason)
    /\ UNCHANGED <<pc, queue, dispVars, inVars, backVars, landed, stop>>

\* Broken variant: an entry that finds the queue full goes to the batcher itself.
EnqueueBypass(p) ==
    LET s == SourceOf[p] IN
    /\ pc[p] \in {"enqueue", "retry"}
    /\ \/ /\ ~QueueFull(s)
          /\ queue' = [queue EXCEPT ![s] = Append(@, Current(p))]
          /\ UNCHANGED in
       \/ /\ QueueFull(s) /\ Len(in) < InCap
          /\ in' = Append(in, Current(p))
          /\ UNCHANGED queue
    /\ pc' = [pc EXCEPT ![p] = "idle"]
    /\ UNCHANGED <<sent, dispVars, inClosed, backVars, ledger, stop>>

\* The send of enqueue succeeds: block's only send, drop_newest's only send,
\* drop_oldest's first one or the one after the eviction.
Enqueue(p) ==
    LET s == SourceOf[p] IN
    /\ pc[p] \in {"enqueue", "retry"} /\ ~QueueFull(s)
    /\ queue' = [queue EXCEPT ![s] = Append(@, Current(p))]
    /\ pc' = [pc EXCEPT ![p] = "idle"]
    /\ UNCHANGED <<sent, dispVars, inVars, backVars, ledger, stop>>

\* drop_newest finds the queue full, or drop_oldest does after its eviction:
\* the arriving entry is the one dropped.
DropNew(p) ==
    LET s == SourceOf[p] IN
    /\ \/ pc[p] = "enqueue" /\ Policy[s] = "drop_newest"
       \/ pc[p] = "retry"
    /\ QueueFull(s)
    /\ Account({Current(p)}, "queue_full")
    /\ pc' = [pc EXCEPT ![p] = "idle"]
    /\ UNCHANGED <<sent, queue, dispVars, inVars, backVars, landed, stop>>

\* Broken variant: block without its softCtx case.
BlockForever(p) == FALSE

\* block gives up waiting for room once the shutdown has begun.  Go's select
\* may also take this branch when there is room.
BlockShutdown(p) ==
    /\ pc[p] = "enqueue" /\ Policy[SourceOf[p]] = "block" /\ SoftDone
    /\ Account({Current(p)}, "shutdown")
    /\ pc' = [pc EXCEPT ![p] = "idle"]
    /\ UNCHANGED <<sent, queue, dispVars, inVars, backVars, landed, stop>>

\* drop_oldest: the first send found the queue full.
FindFull(p) ==
    LET s == SourceOf[p] IN
    /\ pc[p] = "enqueue" /\ Policy[s] = "drop_oldest" /\ QueueFull(s)
    /\ pc' = [pc EXCEPT ![p] = "evict"]
    /\ UNCHANGED <<sent, queue, dispVars, inVars, backVars, ledger, stop>>

\* Broken variant: evict without counting the victim.
EvictUncounted(p) ==
    LET s == SourceOf[p] IN
    /\ pc[p] = "evict"
    /\ queue' = [queue EXCEPT ![s] = IF @ = <<>> THEN @ ELSE Tail(@)]
    /\ pc' = [pc EXCEPT ![p] = "retry"]
    /\ UNCHANGED <<sent, dispVars, inVars, backVars, ledger, stop>>

\* Broken variant: go straight to the second send.
EvictNothing(p) ==
    /\ pc[p] = "evict"
    /\ pc' = [pc EXCEPT ![p] = "retry"]
    /\ UNCHANGED <<sent, queue, dispVars, inVars, backVars, ledger, stop>>

\* drop_oldest: evict whatever is now at the head.
Evict(p) ==
    LET s == SourceOf[p] IN
    /\ pc[p] = "evict"
    /\ IF queue[s] = <<>>
         THEN UNCHANGED <<queue, fate>>
         ELSE /\ queue' = [queue EXCEPT ![s] = Tail(@)]
              /\ Account({Head(queue[s])}, "queue_full")
    /\ pc' = [pc EXCEPT ![p] = "retry"]
    /\ UNCHANGED <<sent, dispVars, inVars, backVars, landed, stop>>

\* A listener's handler ends once its socket is closed; an HTTP handler ends
\* with apiServer.Stop, after the pipeline has stopped.
HandlerExit(p) ==
    /\ pc[p] = "idle"
    /\ IF p \in HttpProducers THEN Stopped ELSE stop # "running"
    /\ pc' = [pc EXCEPT ![p] = "gone"]
    /\ UNCHANGED <<sent, queue, dispVars, inVars, backVars, ledger, stop>>

-----------------------------------------------------------------------------
(* Dispatchers: dispatchLoop, forward, drainSource, discardSource.         *)

Empty(s) == hand[s] = NoEntry /\ ~purging[s]

\* dispatchLoop and drainSource receive an entry.
Take(s) ==
    /\ mode[s] \in {"run", "drain"} /\ Empty(s) /\ queue[s] # <<>>
    /\ hand' = [hand EXCEPT ![s] = Head(queue[s])]
    /\ queue' = [queue EXCEPT ![s] = Tail(@)]
    /\ UNCHANGED <<prodVars, mode, purging, inVars, backVars, ledger, stop>>

\* Broken variant: discard the queue as soon as softCtx is done.
SeeStopDiscarding(s) ==
    /\ mode[s] = "run" /\ Empty(s) /\ SoftDone
    /\ mode' = [mode EXCEPT ![s] = "discard"]
    /\ UNCHANGED <<prodVars, queue, hand, purging, inVars, backVars, ledger,
                   stop>>

\* dispatchLoop sees softCtx or hardCtx done; select picks among the ready ones.
SeeStop(s) ==
    /\ mode[s] = "run" /\ Empty(s)
    /\ \/ SoftDone /\ mode' = [mode EXCEPT ![s] = "drain"]
       \/ HardDone /\ mode' = [mode EXCEPT ![s] = "discard"]
    /\ UNCHANGED <<prodVars, queue, hand, purging, inVars, backVars, ledger,
                   stop>>

\* Broken variant: hand over whether or not the batcher has room.
ForwardUnbounded(s) ==
    /\ hand[s] # NoEntry
    /\ in' = Append(in, hand[s])
    /\ hand' = [hand EXCEPT ![s] = NoEntry]
    /\ UNCHANGED <<prodVars, queue, mode, purging, inClosed, backVars, ledger,
                   stop>>

\* forward's send to the batcher.
Forward(s) ==
    /\ hand[s] # NoEntry /\ Len(in) < InCap
    /\ in' = Append(in, hand[s])
    /\ hand' = [hand EXCEPT ![s] = NoEntry]
    /\ UNCHANGED <<prodVars, queue, mode, purging, inClosed, backVars, ledger,
                   stop>>

\* forward under the hard deadline: drop the entry, then discardSource.
ForwardHard(s) ==
    /\ hand[s] # NoEntry /\ HardDone
    /\ Account({hand[s]}, "shutdown")
    /\ hand' = [hand EXCEPT ![s] = NoEntry]
    /\ purging' = [purging EXCEPT ![s] = TRUE]
    /\ UNCHANGED <<prodVars, queue, mode, inVars, backVars, landed, stop>>

\* One round of discardSource, from dispatchLoop or from forward.
DiscardSource(s) ==
    /\ purging[s] \/ mode[s] = "discard"
    /\ queue[s] # <<>>
    /\ Account({Head(queue[s])}, "shutdown")
    /\ queue' = [queue EXCEPT ![s] = Tail(@)]
    /\ UNCHANGED <<prodVars, dispVars, inVars, backVars, landed, stop>>

\* Broken variant: drainSource waits for more instead of returning.
QueueDrainedWaiting(s) ==
    /\ queue[s] = <<>> /\ hand[s] = NoEntry
    /\ purging[s]
    /\ purging' = [purging EXCEPT ![s] = FALSE]
    /\ UNCHANGED <<prodVars, queue, mode, hand, inVars, backVars, ledger, stop>>

\* discardSource or drainSource finds the queue empty and returns: forward goes
\* back to its loop, the two others end the dispatcher.
QueueDrained(s) ==
    /\ queue[s] = <<>> /\ hand[s] = NoEntry
    /\ \/ /\ purging[s]
          /\ purging' = [purging EXCEPT ![s] = FALSE]
          /\ UNCHANGED mode
       \/ /\ ~purging[s] /\ mode[s] \in {"drain", "discard"}
          /\ mode' = [mode EXCEPT ![s] = "exited"]
          /\ UNCHANGED purging
    /\ UNCHANGED <<prodVars, queue, hand, inVars, backVars, ledger, stop>>

\* Broken variant: close in at the shutdown, without dispatchWG.Wait.
CloseInEarly ==
    /\ ~inClosed /\ SoftDone
    /\ inClosed' = TRUE
    /\ UNCHANGED <<prodVars, queue, dispVars, in, backVars, ledger, stop>>

\* The closer goroutine of Start: dispatchWG.Wait(); close(p.in).
CloseIn ==
    /\ ~inClosed /\ \A s \in Sources : mode[s] = "exited"
    /\ inClosed' = TRUE
    /\ UNCHANGED <<prodVars, queue, dispVars, in, backVars, ledger, stop>>

-----------------------------------------------------------------------------
(* The batcher: batcherLoop and its flush.                                 *)

\* Receive an entry; heavy stands for reaching batch.max_bytes.
Receive(heavy) ==
    /\ bpc = "run" /\ in # <<>>
    /\ batch' = batch \cup {Head(in)}
    /\ in' = Tail(in)
    /\ bpc' = IF heavy \/ Cardinality(batch') >= MaxEntries THEN "flush" ELSE "run"
    /\ UNCHANGED <<prodVars, queue, dispVars, inClosed, batches, workVars,
                   ledger, stop>>

\* Broken variant: the ticker leaves a batch that is not full.
TickWhenFull ==
    /\ bpc = "run" /\ Cardinality(batch) >= MaxEntries
    /\ bpc' = "flush"
    /\ UNCHANGED <<frontVars, batch, batches, workVars, ledger, stop>>

\* The ticker fires on a batch that is not empty.
Tick ==
    /\ bpc = "run" /\ batch # {}
    /\ bpc' = "flush"
    /\ UNCHANGED <<frontVars, batch, batches, workVars, ledger, stop>>

\* in is closed and empty: flush what there is and return.
SeeInClosed ==
    /\ bpc = "run" /\ in = <<>> /\ inClosed
    /\ bpc' = IF batch = {} THEN "done" ELSE "lastFlush"
    /\ UNCHANGED <<frontVars, batch, batches, workVars, ledger, stop>>

\* What follows flush; "done" stands for the deferred close(p.batches) too.
AfterFlush == bpc' = IF bpc = "lastFlush" THEN "done" ELSE "run"

\* Broken variant: the batch is not reset after it was sent.
FlushSendKeepingBatch ==
    /\ bpc \in {"flush", "lastFlush"} /\ Len(batches) < BatchesCap
    /\ batches' = Append(batches, batch)
    /\ AfterFlush
    /\ UNCHANGED <<frontVars, batch, workVars, ledger, stop>>

\* flush hands the batch to the writer pool.
FlushSend ==
    /\ bpc \in {"flush", "lastFlush"} /\ Len(batches) < BatchesCap
    /\ batches' = Append(batches, batch)
    /\ batch' = {}
    /\ AfterFlush
    /\ UNCHANGED <<frontVars, workVars, ledger, stop>>

\* flush under the hard deadline.
FlushHard ==
    /\ bpc \in {"flush", "lastFlush"} /\ HardDone
    /\ Account(batch, "shutdown")
    /\ batch' = {}
    /\ AfterFlush
    /\ UNCHANGED <<frontVars, batches, workVars, landed, stop>>

\* The hard deadline reaches the batcher between two entries.
BatcherHard ==
    /\ bpc = "run" /\ HardDone
    /\ Account(batch, "shutdown")
    /\ batch' = {}
    /\ bpc' = "discard"
    /\ UNCHANGED <<frontVars, batches, workVars, landed, stop>>

\* One round of the loop over p.in that has an empty body: no counter moves.
DiscardIn ==
    /\ bpc = "discard" /\ in # <<>>
    /\ Account({Head(in)}, "discarded")
    /\ in' = Tail(in)
    /\ UNCHANGED <<prodVars, queue, dispVars, inClosed, backVars, landed, stop>>

DiscardInDone ==
    /\ bpc = "discard" /\ in = <<>> /\ inClosed
    /\ bpc' = "done"
    /\ UNCHANGED <<frontVars, batch, batches, workVars, ledger, stop>>

-----------------------------------------------------------------------------
(* The writer pool: writerLoop, writeBatch, and the storage's answers.     *)

\* writerLoop receives a batch and calls writeBatch.
TakeBatch(w) ==
    /\ wpc[w] = "idle" /\ batches # <<>>
    /\ wbatch' = [wbatch EXCEPT ![w] = Head(batches)]
    /\ batches' = Tail(batches)
    /\ wpc' = [wpc EXCEPT ![w] = "call"]
    /\ UNCHANGED <<frontVars, batchVars, attempt, ledger, stop>>

\* writeBatch calls WriteLogs and the request leaves: hardCtx is not done.
WriteStart(w) ==
    /\ wpc[w] = "call" /\ ~HardDone
    /\ wpc' = [wpc EXCEPT ![w] = "writing"]
    /\ attempt' = [attempt EXCEPT ![w] = @ + 1]
    /\ UNCHANGED <<frontVars, batchVars, batches, wbatch, ledger, stop>>

\* writeBatch returns, all of its batch accounted for under r.
FinishBatch(w, r) ==
    /\ Account(wbatch[w], r)
    /\ wbatch' = [wbatch EXCEPT ![w] = {}]
    /\ wpc' = [wpc EXCEPT ![w] = "idle"]
    /\ attempt' = [attempt EXCEPT ![w] = 0]

\* Broken variant: one attempt too many.
AttemptFailedOffByOne(w, n) ==
    IF n <= WriteAttempts
      THEN /\ wpc' = [wpc EXCEPT ![w] = "backoff"]
           /\ attempt' = [attempt EXCEPT ![w] = n]
           /\ UNCHANGED <<wbatch, fate>>
      ELSE FinishBatch(w, "storage_write_failed")

\* An attempt failed, the n-th: wait before the next one, or give the batch up.
AttemptFailed(w, n) ==
    IF n < WriteAttempts
      THEN /\ wpc' = [wpc EXCEPT ![w] = "backoff"]
           /\ attempt' = [attempt EXCEPT ![w] = n]
           /\ UNCHANGED <<wbatch, fate>>
      ELSE FinishBatch(w, "storage_write_failed")

\* Another copy of every entry of X is in the storage.
Land(X) == landed' = [e \in Entry |-> IF e \in X THEN landed[e] + 1 ELSE landed[e]]

\* The storage took the batch and its 2xx answer arrived.
WriteOk(w) ==
    /\ wpc[w] = "writing"
    /\ Land(wbatch[w])
    /\ FinishBatch(w, "stored")
    /\ UNCHANGED <<frontVars, batchVars, batches, stop>>

\* 400: the same payload cannot succeed on retry.
WriteRejected(w) ==
    /\ wpc[w] = "writing"
    /\ FinishBatch(w, "storage_rejected")
    /\ UNCHANGED <<frontVars, batchVars, batches, landed, stop>>

\* Any other error, a cancellation or a timeout among them: the storage may
\* have taken the batch all the same.
WriteUnavailable(w, taken) ==
    /\ wpc[w] = "writing"
    /\ IF taken THEN Land(wbatch[w]) ELSE UNCHANGED landed
    /\ AttemptFailed(w, attempt[w])
    /\ UNCHANGED <<frontVars, batchVars, batches, stop>>

\* With hardCtx done the request fails before it is sent.
WriteCancelled(w) ==
    /\ wpc[w] = "call" /\ HardDone
    /\ AttemptFailed(w, attempt[w] + 1)
    /\ UNCHANGED <<frontVars, batchVars, batches, landed, stop>>

\* writeBatch has waited long enough before its next attempt.
BackoffElapsed(w) ==
    /\ wpc[w] = "backoff"
    /\ wpc' = [wpc EXCEPT ![w] = "call"]
    /\ UNCHANGED <<frontVars, batchVars, batches, wbatch, attempt, ledger,
                   stop>>

\* The hard deadline ends the wait and the retries.
BackoffHard(w) ==
    /\ wpc[w] = "backoff" /\ HardDone
    /\ FinishBatch(w, "shutdown")
    /\ UNCHANGED <<frontVars, batchVars, batches, landed, stop>>

\* The range over p.batches ends: the channel is closed and empty.
WorkerExit(w) ==
    /\ wpc[w] = "idle" /\ batches = <<>> /\ bpc = "done"
    /\ wpc' = [wpc EXCEPT ![w] = "done"]
    /\ UNCHANGED <<frontVars, batchVars, batches, wbatch, attempt, ledger,
                   stop>>

-----------------------------------------------------------------------------
(* Shutdown: main.run after the signal, and Stop.                          *)

StopTo(s) ==
    /\ stop' = s
    /\ UNCHANGED <<frontVars, backVars, ledger>>

WorkersDone == \A w \in Workers : wpc[w] = "done"

\* main: mgr.Close() closes the listeners ...
CloseListeners == stop = "running" /\ StopTo("closing")

\* ... and returns when their handlers have ended; Stop cancels softCtx.
BeginDrain ==
    /\ stop = "closing"
    /\ \A p \in Producers \ HttpProducers : pc[p] = "gone"
    /\ StopTo("draining")

\* Broken variant: Stop does not wait for the workers.
DrainDoneAtOnce == stop = "draining" /\ StopTo("drained")

\* Stop: every worker returned before the timeout.
DrainDone == stop = "draining" /\ WorkersDone /\ StopTo("drained")

\* Stop: shutdown_drain_timeout fires (also when the workers are done, as the
\* select is free to choose), hardCancel.
DrainTimeout == stop = "draining" /\ StopTo("expired")

\* Stop: the workers returned after hardCancel.
AbortDone == stop = "expired" /\ WorkersDone /\ StopTo("aborted")

\* The process exits.
Terminated == Stopped /\ (\A p \in Producers : pc[p] = "gone") /\ UNCHANGED vars

-----------------------------------------------------------------------------
EnqueueStep(p) ==
    Enqueue(p) \/ DropNew(p) \/ BlockShutdown(p) \/ FindFull(p) \/ Evict(p)

ProducerStep(p) ==
    \/ Ingest(p)
    \/ \E r \in {"parse_error", "oversized"} : RefuseMessage(p, r)
    \/ EnqueueStep(p)
    \/ HandlerExit(p)

DispatcherStep(s) ==
    \/ Take(s) \/ SeeStop(s) \/ Forward(s) \/ ForwardHard(s)
    \/ DiscardSource(s) \/ QueueDrained(s)

BatcherStep ==
    \/ \E heavy \in BOOLEAN : Receive(heavy)
    \/ Tick \/ SeeInClosed \/ FlushSend \/ FlushHard
    \/ BatcherHard \/ DiscardIn \/ DiscardInDone

WorkerStep(w) ==
    \/ TakeBatch(w) \/ WriteStart(w) \/ WriteOk(w) \/ WriteRejected(w)
    \/ \E taken \in BOOLEAN : WriteUnavailable(w, taken)
    \/ WriteCancelled(w) \/ BackoffElapsed(w) \/ BackoffHard(w) \/ WorkerExit(w)

StopStep == BeginDrain \/ DrainDone \/ DrainTimeout \/ AbortDone

Next ==
    \/ \E p \in Producers : ProducerStep(p)
    \/ \E s \in Sources : DispatcherStep(s)
    \/ CloseIn
    \/ BatcherStep
    \/ \E w \in Workers : WorkerStep(w)
    \/ CloseListeners \/ StopStep \/ Terminated

Spec == Init /\ [][Next]_vars

\* Every goroutine that can step does so in the end: a request to the storage
\* ends because the client has a timeout, the ticker and the drain timer fire.
\* Nothing makes a message arrive and nothing makes the operator stop the
\* process.  Nor need a handler end: a connection that Manager.Close misses
\* (tcp.go:88) keeps its handler, and main in mgr.Close, as long as its peer likes.
Fairness ==
    /\ \A p \in Producers : WF_vars(EnqueueStep(p))
    /\ \A s \in Sources : WF_vars(DispatcherStep(s))
    /\ WF_vars(CloseIn)
    /\ WF_vars(BatcherStep)
    /\ \A w \in Workers : WF_vars(WorkerStep(w))
    /\ WF_vars(StopStep)

FairSpec == Spec /\ Fairness

=============================================================================
