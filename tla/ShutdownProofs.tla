--------------------------- MODULE ShutdownProofs ---------------------------
(***************************************************************************)
(* Theorems about the shutdown of the pipeline: its channels are closed    *)
(* only after their last send, and only an expired deadline loses entries. *)
(***************************************************************************)
EXTENDS PipelineProofs

USE ProducersAssumption, WorkersAssumption, LimitsAssumption, NoEntryAssumption
USE DEF prodVars, dispVars, inVars, batchVars, workVars, ledger, frontVars, backVars

-----------------------------------------------------------------------------
(* Who has ended when who may end: the listeners' handlers before the drain *)
(* begins, the dispatchers before close(p.in), the batcher before its       *)
(* deferred close(p.batches), the workers before Stop returns.              *)

HandlersGone == SoftDone => \A p \in Producers \ HttpProducers : pc[p] = "gone"

DispatchersEmpty ==
    \A s \in Sources :
        /\ mode[s] = "exited" => hand[s] = NoEntry /\ ~purging[s]
        /\ mode[s] = "discard" \/ purging[s] => HardDone

ClosedAfterDispatchers == inClosed => \A s \in Sources : mode[s] = "exited"

BatcherEnds ==
    /\ bpc \in {"lastFlush", "done"} => inClosed /\ in = <<>>
    /\ bpc \in {"discard", "done"} => batch = {}
    /\ bpc = "discard" => HardDone

WorkersAfterBatcher ==
    /\ \A w \in Workers : wpc[w] = "done" => bpc = "done"
    /\ Stopped => WorkersDone

ShutdownInv ==
    /\ HandlersGone /\ DispatchersEmpty /\ ClosedAfterDispatchers
    /\ BatcherEnds /\ WorkersAfterBatcher

\* Nothing has been stopped at the start.
LEMMA InitShutdown == Init => ShutdownInv
  BY DEF Init, ShutdownInv, HandlersGone, DispatchersEmpty, ClosedAfterDispatchers,
         BatcherEnds, WorkersAfterBatcher, SoftDone, HardDone, Stopped

\* A step of a producer starts no goroutine and ends none but a handler.
LEMMA ProducerShutdown ==
  ASSUME TypeOK, ShutdownInv, NEW p \in Producers, ProducerStep(p)
  PROVE  ShutdownInv'
  <1>1. UNCHANGED <<mode, hand, purging, in, inClosed, bpc, batch, wpc, stop>>
    BY DEF ProducerStep, EnqueueStep, Ingest, RefuseMessage, Enqueue, DropNew,
           BlockShutdown, FindFull, Evict, HandlerExit
  <1>2. \A q \in Producers : pc[q] = "gone" => pc'[q] = "gone"
    BY DEF ProducerStep, EnqueueStep, Ingest, RefuseMessage, Enqueue, DropNew,
           BlockShutdown, FindFull, Evict, HandlerExit, TypeOK
  <1>3. HandlersGone'
    BY <1>1, <1>2 DEF ShutdownInv, HandlersGone, SoftDone
  <1> QED
    BY <1>1, <1>3 DEF ShutdownInv, DispatchersEmpty, ClosedAfterDispatchers, BatcherEnds,
           WorkersAfterBatcher, WorkersDone, SoftDone, HardDone, Stopped

\* A dispatcher whose loop is over does nothing more; the others end only with
\* empty hands.
LEMMA DispatcherShutdown ==
  ASSUME TypeOK, ShutdownInv, NEW s \in Sources, DispatcherStep(s)
  PROVE  ShutdownInv'
  <1> USE DEF ShutdownInv
  <1>1. UNCHANGED <<pc, inClosed, bpc, batch, wpc, stop>>
    BY DEF DispatcherStep, Take, SeeStop, Forward, ForwardHard, DiscardSource, QueueDrained
  <1>2. mode[s] # "exited"
    <2>1. mode[s] = "exited" => hand[s] = NoEntry /\ ~purging[s]
      BY DEF DispatchersEmpty
    <2> QED
      BY <2>1 DEF DispatcherStep, Take, SeeStop, Forward, ForwardHard, DiscardSource,
                  QueueDrained
  <1>3. DispatchersEmpty'
    <2>1. HardDone' = HardDone
      BY <1>1 DEF HardDone
    <2> QED
      BY <1>2, <2>1 DEF DispatchersEmpty, DispatcherStep, Take, SeeStop, Forward, ForwardHard,
             DiscardSource, QueueDrained, TypeOK, Empty, DispatcherModes
  <1>4. ~inClosed
    BY <1>2 DEF ClosedAfterDispatchers
  <1>5. HandlersGone' /\ ClosedAfterDispatchers' /\ BatcherEnds' /\ WorkersAfterBatcher'
    BY <1>1, <1>4 DEF HandlersGone, ClosedAfterDispatchers, BatcherEnds, WorkersAfterBatcher,
           WorkersDone, SoftDone, HardDone, Stopped
  <1> QED
    BY <1>3, <1>5

\* The batcher ends with nothing to receive and nothing in its batch.
LEMMA BatcherShutdown ==
  ASSUME TypeOK, ShutdownInv, BatcherStep
  PROVE  ShutdownInv'
  <1> USE DEF ShutdownInv
  <1>1. UNCHANGED <<pc, mode, hand, purging, inClosed, wpc, stop>>
    BY DEF BatcherStep, Receive, Tick, SeeInClosed, FlushSend, FlushHard, BatcherHard,
           DiscardIn, DiscardInDone
  <1>2. bpc # "done"
    BY DEF BatcherStep, Receive, Tick, SeeInClosed, FlushSend, FlushHard, BatcherHard,
           DiscardIn, DiscardInDone
  <1>3. BatcherEnds'
    <2>1. HardDone' = HardDone
      BY <1>1 DEF HardDone
    <2> QED
      BY <2>1 DEF BatcherEnds, BatcherStep, Receive, Tick, SeeInClosed, FlushSend, FlushHard,
             BatcherHard, DiscardIn, DiscardInDone, AfterFlush
  <1>4. \A w \in Workers : wpc[w] # "done"
    BY <1>2 DEF WorkersAfterBatcher
  <1>5. HandlersGone' /\ DispatchersEmpty' /\ ClosedAfterDispatchers' /\ WorkersAfterBatcher'
    BY <1>1, <1>4 DEF HandlersGone, DispatchersEmpty, ClosedAfterDispatchers,
           WorkersAfterBatcher, WorkersDone, SoftDone, HardDone, Stopped
  <1> QED
    BY <1>3, <1>5

\* A worker ends only after the batcher.
LEMMA WorkerShutdown ==
  ASSUME TypeOK, ShutdownInv, NEW w \in Workers, WorkerStep(w)
  PROVE  ShutdownInv'
  <1> USE DEF ShutdownInv
  <1>1. UNCHANGED <<pc, mode, hand, purging, in, inClosed, bpc, batch, stop>>
    BY DEF WorkerStep, TakeBatch, WriteStart, WriteOk, WriteRejected, WriteUnavailable,
           WriteCancelled, BackoffElapsed, BackoffHard, WorkerExit
  <1>2. wpc[w] # "done"
    BY DEF WorkerStep, TakeBatch, WriteStart, WriteOk, WriteRejected, WriteUnavailable,
           WriteCancelled, BackoffElapsed, BackoffHard, WorkerExit
  <1>3. \A v \in Workers : wpc'[v] = "done" => wpc[v] = "done" \/ bpc = "done"
    BY DEF WorkerStep, TakeBatch, WriteStart, WriteOk, WriteRejected, WriteUnavailable,
           WriteCancelled, BackoffElapsed, BackoffHard, WorkerExit, AttemptFailed,
           FinishBatch, TypeOK
  <1>4. ~Stopped
    BY <1>2 DEF WorkersAfterBatcher, WorkersDone
  <1>5. WorkersAfterBatcher'
    BY <1>1, <1>3, <1>4 DEF WorkersAfterBatcher, Stopped
  <1> QED
    BY <1>1, <1>5 DEF HandlersGone, DispatchersEmpty, ClosedAfterDispatchers, BatcherEnds,
           SoftDone, HardDone

\* Every step keeps the order of the shutdown.
LEMMA StepShutdown == TypeOK /\ ShutdownInv /\ [Next]_vars => ShutdownInv'
  <1> SUFFICES ASSUME TypeOK, ShutdownInv, [Next]_vars PROVE ShutdownInv'
    OBVIOUS
  <1> USE DEF ShutdownInv, HandlersGone, DispatchersEmpty, ClosedAfterDispatchers, BatcherEnds,
              WorkersAfterBatcher, WorkersDone, SoftDone, HardDone, Stopped
  <1>1. CASE CloseIn
    BY <1>1 DEF CloseIn
  <1>2. CASE CloseListeners \/ StopStep
    BY <1>2 DEF CloseListeners, StopStep, BeginDrain, DrainDone, DrainTimeout, AbortDone,
                StopTo
  <1>3. CASE Terminated \/ UNCHANGED vars
    BY <1>3 DEF Terminated, vars
  <1> QED
    BY <1>1, <1>2, <1>3, ProducerShutdown, DispatcherShutdown, BatcherShutdown, WorkerShutdown
       DEF Next

\* The pipeline shuts down in the order Start and Stop wait for.
THEOREM ShutdownOrder == Spec => []ShutdownInv
  <1>1. Spec => []TypeOK
    BY TypeCorrect
  <1> QED
    BY <1>1, InitShutdown, StepShutdown, PTL DEF Spec

\* Go panics on a send to a closed channel: no dispatcher has anything to forward
\* once in is closed, and the batcher has nothing to flush once batches is.
THEOREM ClosedAfterLastSend == Spec => []NoSendOnClosed
  <1>1. ShutdownInv => NoSendOnClosed
    BY DEF ShutdownInv, DispatchersEmpty, ClosedAfterDispatchers, BatcherEnds, NoSendOnClosed
  <1> QED
    BY <1>1, ShutdownOrder, PTL

-----------------------------------------------------------------------------
(* What a shutdown may lose.                                               *)

Expired == stop \in {"expired", "aborted"}

\* As long as some goroutine of the pipeline runs, a hardCtx that is done means
\* that the deadline expired: Stop's other hardCancel comes after the workers.
LEMMA HardMeansExpired ==
  ASSUME ShutdownInv, HardDone,
         \/ \E s \in Sources : mode[s] # "exited"
         \/ bpc # "done"
         \/ \E w \in Workers : wpc[w] # "done"
  PROVE  Expired
  <1>1. SUFFICES ASSUME stop = "drained" PROVE FALSE
    BY DEF HardDone, Expired
  <1>2. \A w \in Workers : wpc[w] = "done"
    BY <1>1 DEF ShutdownInv, WorkersAfterBatcher, WorkersDone, Stopped
  <1>3. bpc = "done"
    BY <1>2 DEF ShutdownInv, WorkersAfterBatcher
  <1>4. \A s \in Sources : mode[s] = "exited"
    BY <1>3 DEF ShutdownInv, BatcherEnds, ClosedAfterDispatchers
  <1> QED
    BY <1>2, <1>3, <1>4

\* The fate of e is lost only under an excuse LossNeedsDeadline accepts.
Excused(e) ==
    \/ fate[e] \notin {"shutdown", "discarded"}
    \/ Expired
    \/ /\ fate[e] = "shutdown" /\ SoftDone
       /\ e[1] \in HttpProducers /\ Policy[SourceOf[e[1]]] = "block"

LEMMA ExcusedIsLossNeedsDeadline == LossNeedsDeadline <=> \A e \in Entry : Excused(e)
  BY DEF LossNeedsDeadline, Excused, Expired

\* Excuses last: a shutdown is never taken back.
LEMMA ExcusesLast ==
  ASSUME NEW e \in Entry, Excused(e), fate'[e] = fate[e],
         stop' = stop \/ CloseListeners \/ StopStep
  PROVE  Excused(e)'
  <1>1. (Expired => Expired') /\ (SoftDone => SoftDone')
    BY DEF Expired, SoftDone, CloseListeners, StopStep, BeginDrain, DrainDone, DrainTimeout,
           AbortDone, StopTo
  <1> QED
    BY <1>1 DEF Excused

\* Inside enqueue only block's softCtx case loses an entry, and by then only HTTP
\* requests call Ingest.
LEMMA ProducerLoss ==
  ASSUME TypeOK, ShutdownInv, NEW p \in Producers, ProducerStep(p),
         NEW e \in Entry, Excused(e)
  PROVE  Excused(e)'
  <1>1. stop' = stop
    BY DEF ProducerStep, EnqueueStep, Ingest, RefuseMessage, Enqueue, DropNew,
           BlockShutdown, FindFull, Evict, HandlerExit
  <1>2. CASE BlockShutdown(p)
    <2>1. CASE e = Current(p)
      <3>1. e[1] = p /\ pc[p] # "gone" /\ SoftDone /\ Policy[SourceOf[p]] = "block"
        BY <1>2, <2>1 DEF BlockShutdown, Current
      <3>2. p \in HttpProducers
        BY <3>1 DEF ShutdownInv, HandlersGone
      <3>3. fate'[e] = "shutdown"
        BY <1>2, <2>1 DEF BlockShutdown, Account
      <3> QED
        BY <1>1, <3>1, <3>2, <3>3 DEF Excused, SoftDone
    <2>2. CASE e # Current(p)
      <3>1. fate'[e] = fate[e]
        BY <1>2, <2>2 DEF BlockShutdown, Account
      <3> QED
        BY <1>1, <3>1, ExcusesLast
    <2> QED
      BY <2>1, <2>2
  <1>3. CASE ~BlockShutdown(p)
    <2>1. fate'[e] = fate[e] \/ fate'[e] \notin {"shutdown", "discarded"}
      BY <1>3 DEF ProducerStep, EnqueueStep, Ingest, RefuseMessage, Enqueue, DropNew,
                  FindFull, Evict, HandlerExit, Account
    <2>2. CASE fate'[e] = fate[e]
      BY <1>1, <2>2, ExcusesLast
    <2>3. CASE fate'[e] \notin {"shutdown", "discarded"}
      BY <2>3 DEF Excused
    <2> QED
      BY <2>1, <2>2, <2>3
  <1> QED
    BY <1>2, <1>3

\* A dispatcher drops entries only under the hard deadline.
LEMMA DispatcherLoss ==
  ASSUME TypeOK, ShutdownInv, NEW s \in Sources, DispatcherStep(s),
         NEW e \in Entry, Excused(e)
  PROVE  Excused(e)'
  <1>1. stop' = stop
    BY DEF DispatcherStep, Take, SeeStop, Forward, ForwardHard, DiscardSource, QueueDrained
  <1>2. CASE ForwardHard(s) \/ DiscardSource(s)
    <2>1. HardDone /\ mode[s] # "exited"
      BY <1>2 DEF ForwardHard, DiscardSource, ShutdownInv, DispatchersEmpty
    <2>2. Expired'
      BY <1>1, <2>1, HardMeansExpired DEF Expired
    <2> QED
      BY <2>2 DEF Excused
  <1>3. CASE ~(ForwardHard(s) \/ DiscardSource(s))
    <2>1. fate'[e] = fate[e]
      BY <1>3 DEF DispatcherStep, Take, SeeStop, Forward, QueueDrained
    <2> QED
      BY <1>1, <2>1, ExcusesLast
  <1> QED
    BY <1>2, <1>3

\* The batcher drops or forgets entries only under the hard deadline.
LEMMA BatcherLoss ==
  ASSUME TypeOK, ShutdownInv, BatcherStep, NEW e \in Entry, Excused(e)
  PROVE  Excused(e)'
  <1>1. stop' = stop
    BY DEF BatcherStep, Receive, Tick, SeeInClosed, FlushSend, FlushHard, BatcherHard,
           DiscardIn, DiscardInDone
  <1>2. CASE FlushHard \/ BatcherHard \/ DiscardIn
    <2>1. HardDone /\ bpc # "done"
      BY <1>2 DEF FlushHard, BatcherHard, DiscardIn, ShutdownInv, BatcherEnds
    <2>2. Expired'
      BY <1>1, <2>1, HardMeansExpired DEF Expired
    <2> QED
      BY <2>2 DEF Excused
  <1>3. CASE ~(FlushHard \/ BatcherHard \/ DiscardIn)
    <2>1. fate'[e] = fate[e]
      BY <1>3 DEF BatcherStep, Receive, Tick, SeeInClosed, FlushSend, DiscardInDone
    <2> QED
      BY <1>1, <2>1, ExcusesLast
  <1> QED
    BY <1>2, <1>3

\* A worker gives a batch up as a shutdown loss only under the hard deadline.
LEMMA WorkerLoss ==
  ASSUME TypeOK, ShutdownInv, NEW w \in Workers, WorkerStep(w),
         NEW e \in Entry, Excused(e)
  PROVE  Excused(e)'
  <1>1. stop' = stop
    BY DEF WorkerStep, TakeBatch, WriteStart, WriteOk, WriteRejected, WriteUnavailable,
           WriteCancelled, BackoffElapsed, BackoffHard, WorkerExit
  <1>2. CASE BackoffHard(w)
    <2>1. HardDone /\ wpc[w] # "done"
      BY <1>2 DEF BackoffHard
    <2>2. Expired'
      BY <1>1, <2>1, HardMeansExpired DEF Expired
    <2> QED
      BY <2>2 DEF Excused
  <1>3. CASE ~BackoffHard(w)
    <2>1. fate'[e] = fate[e] \/ fate'[e] \notin {"shutdown", "discarded"}
      BY <1>3 DEF WorkerStep, TakeBatch, WriteStart, WriteOk, WriteRejected,
             WriteUnavailable, WriteCancelled, BackoffElapsed, WorkerExit, AttemptFailed,
             FinishBatch, Account
    <2>2. CASE fate'[e] = fate[e]
      BY <1>1, <2>2, ExcusesLast
    <2>3. CASE fate'[e] \notin {"shutdown", "discarded"}
      BY <2>3 DEF Excused
    <2> QED
      BY <2>1, <2>2, <2>3
  <1> QED
    BY <1>2, <1>3

\* Every step loses only what it has an excuse for.
LEMMA StepLoss ==
  TypeOK /\ ShutdownInv /\ LossNeedsDeadline /\ [Next]_vars => LossNeedsDeadline'
  <1> SUFFICES ASSUME TypeOK, ShutdownInv, [Next]_vars, NEW e \in Entry, Excused(e)
               PROVE  Excused(e)'
    BY DEF LossNeedsDeadline, Excused, Expired, SoftDone
  <1>1. CASE CloseIn \/ Terminated \/ UNCHANGED vars
    BY <1>1, ExcusesLast DEF CloseIn, Terminated, vars
  <1>2. CASE CloseListeners \/ StopStep
    <2>1. fate' = fate
      BY <1>2 DEF CloseListeners, StopStep, BeginDrain, DrainDone, DrainTimeout, AbortDone,
                  StopTo
    <2> QED
      BY <1>2, <2>1, ExcusesLast
  <1> QED
    BY <1>1, <1>2, ProducerLoss, DispatcherLoss, BatcherLoss, WorkerLoss DEF Next

\* A shutdown whose drain ends in time drops nothing and forgets nothing, but for
\* an HTTP request that waits for room under the block policy when it begins.
THEOREM OnlyTheDeadlineLoses == Spec => []LossNeedsDeadline
  <1>1. Init => LossNeedsDeadline
    BY DEF Init, LossNeedsDeadline
  <1>2. Spec => [](TypeOK /\ ShutdownInv)
    BY TypeCorrect, ShutdownOrder, PTL
  <1> QED
    BY <1>1, <1>2, StepLoss, PTL DEF Spec

=============================================================================
