--------------------------- MODULE PipelineProofs ---------------------------
(* Theorems about the ingestion pipeline, for every value of its constants. *)
EXTENDS PipelineProperties, TLAPS, SequenceTheorems, FiniteSetTheorems

USE ProducersAssumption, WorkersAssumption, LimitsAssumption, NoEntryAssumption
USE DEF prodVars, dispVars, inVars, batchVars, workVars, ledger, frontVars, backVars

-----------------------------------------------------------------------------
(* Types.                                                                  *)

\* What TypeOK needs to be inductive: a producer inside enqueue has a message in
\* its hands, and writeBatch has an attempt left whenever it is about to make one.
HandingOne == \A p \in Handing : sent[p] > 0

AttemptLeft ==
    \A w \in Workers :
        wpc[w] \in {"idle", "call", "backoff"} => attempt[w] < WriteAttempts

TypeInv == TypeOK /\ HandingOne /\ AttemptLeft

\* The capacity of batches is a natural number.
LEMMA BatchesCapNat == BatchesCap \in Nat
  BY FS_CardinalityType DEF BatchesCap

\* Accounting for entries keeps fate a function into the fates.
LEMMA AccountType ==
  ASSUME NEW X, NEW r \in Fates, fate \in [Entry -> Fates], Account(X, r)
  PROVE  fate' \in [Entry -> Fates]
  BY DEF Account

\* The initial state is well typed.
LEMMA InitType == Init => TypeInv
  <1> SUFFICES ASSUME Init PROVE TypeInv
    OBVIOUS
  <1>1. BatchesCap \in Nat
    BY BatchesCapNat
  <1> USE DEF Init
  <1>2. /\ pc \in [Producers -> ProducerStates] /\ sent \in [Producers -> 0..MaxMsgs]
        /\ mode \in [Sources -> DispatcherModes]
        /\ hand \in [Sources -> Entry \cup {NoEntry}]
        /\ purging \in [Sources -> BOOLEAN]
    BY DEF ProducerStates, DispatcherModes
  <1>3. /\ queue \in [Sources -> Seq(Entry)]
        /\ \A s \in Sources : Len(queue[s]) <= QueueCap
    OBVIOUS
  <1>4. /\ in \in Seq(Entry) /\ Len(in) <= InCap
        /\ batches \in Seq(SUBSET Entry) /\ Len(batches) <= BatchesCap
    BY <1>1
  <1>7. inClosed \in BOOLEAN /\ bpc \in BatcherStates /\ batch \subseteq Entry
    BY DEF BatcherStates
  <1>5. /\ wpc \in [Workers -> WorkerStates] /\ wbatch \in [Workers -> SUBSET Entry]
        /\ attempt \in [Workers -> 0..WriteAttempts] /\ AttemptLeft /\ HandingOne
    BY DEF WorkerStates, AttemptLeft, HandingOne, Handing
  <1>6. fate \in [Entry -> Fates] /\ landed \in [Entry -> Nat] /\ stop \in StopStates
    BY DEF Fates, StopStates
  <1> QED
    BY <1>2, <1>3, <1>4, <1>5, <1>6, <1>7 DEF TypeInv, TypeOK

\* A step of a producer keeps the types.
LEMMA ProducerType ==
  ASSUME TypeInv, NEW p \in Producers, ProducerStep(p)
  PROVE  TypeInv'
  <1> USE DEF TypeInv, TypeOK, HandingOne, Handing, AttemptLeft, ProducerStates
  <1>1. CASE Ingest(p)
    <2>1. /\ sent[p] + 1 \in 1..MaxMsgs
          /\ sent' = [sent EXCEPT ![p] = sent[p] + 1]
          /\ pc' = [pc EXCEPT ![p] = "enqueue"]
      BY <1>1 DEF Ingest
    <2>2. sent' \in [Producers -> 0..MaxMsgs] /\ pc' \in [Producers -> ProducerStates]
      BY <2>1
    <2>3. HandingOne'
      BY <2>1
    <2>4. UNCHANGED <<queue, dispVars, inVars, backVars, ledger, stop>>
      BY <1>1 DEF Ingest
    <2> QED
      BY <2>2, <2>3, <2>4
  <1>2. CASE \E r \in {"parse_error", "oversized"} : RefuseMessage(p, r)
    <2>1. PICK r \in {"parse_error", "oversized"} : RefuseMessage(p, r)
      BY <1>2
    <2>2. /\ sent[p] + 1 \in 1..MaxMsgs
          /\ sent' = [sent EXCEPT ![p] = sent[p] + 1]
      BY <2>1 DEF RefuseMessage
    <2>3. sent' \in [Producers -> 0..MaxMsgs] /\ \A q \in Producers : sent'[q] >= sent[q]
      BY <2>2
    <2>4. fate' \in [Entry -> Fates]
      BY <2>1, AccountType DEF RefuseMessage, Fates, Reasons
    <2>5. UNCHANGED <<pc, queue, dispVars, inVars, backVars, landed, stop>>
      BY <2>1 DEF RefuseMessage
    <2>6. HandingOne'
      BY <2>3, <2>5
    <2> QED
      BY <2>3, <2>4, <2>5, <2>6
  <1>3. CASE Enqueue(p)
    <2> DEFINE s == SourceOf[p]
    <2>1. Current(p) \in Entry
      BY <1>3 DEF Enqueue, Current, Entry
    <2>2. queue' = [queue EXCEPT ![s] = Append(queue[s], Current(p))] /\ Len(queue[s]) < QueueCap
      BY <1>3 DEF Enqueue, QueueFull
    <2>3. s \in Sources /\ queue[s] \in Seq(Entry)
      OBVIOUS
    <2>4. Append(queue[s], Current(p)) \in Seq(Entry) /\ Len(Append(queue[s], Current(p))) <= QueueCap
      BY <2>1, <2>2, <2>3
    <2>5. queue' \in [Sources -> Seq(Entry)] /\ \A t \in Sources : Len(queue'[t]) <= QueueCap
      BY <2>2, <2>3, <2>4
    <2> QED
      BY <1>3, <2>5 DEF Enqueue
  <1>4. CASE DropNew(p)
    BY <1>4 DEF DropNew, Account, Fates, Reasons
  <1>5. CASE BlockShutdown(p)
    BY <1>5 DEF BlockShutdown, Account, Fates, Reasons
  <1>6. CASE FindFull(p)
    BY <1>6 DEF FindFull
  <1>7. CASE Evict(p)
    <2> DEFINE s == SourceOf[p]
    <2>1. s \in Sources /\ queue[s] \in Seq(Entry)
      OBVIOUS
    <2>2. CASE queue[s] = <<>>
      BY <1>7, <2>2 DEF Evict
    <2>3. CASE queue[s] # <<>>
      <3>1. Tail(queue[s]) \in Seq(Entry) /\ Len(Tail(queue[s])) <= QueueCap
        BY <2>1, <2>3
      <3>2. queue' = [queue EXCEPT ![s] = Tail(queue[s])]
        BY <1>7, <2>3 DEF Evict
      <3>3. queue' \in [Sources -> Seq(Entry)] /\ \A t \in Sources : Len(queue'[t]) <= QueueCap
        BY <2>1, <3>1, <3>2
      <3> QED
        BY <1>7, <2>3, <3>3 DEF Evict, Account, Fates, Reasons
    <2> QED
      BY <2>2, <2>3
  <1>8. CASE HandlerExit(p)
    BY <1>8 DEF HandlerExit
  <1> QED
    BY <1>1, <1>2, <1>3, <1>4, <1>5, <1>6, <1>7, <1>8 DEF ProducerStep, EnqueueStep

\* Removing the head of a source's queue keeps the queues' types.
LEMMA PopType ==
  ASSUME TypeOK, NEW s \in Sources, queue[s] # <<>>,
         queue' = [queue EXCEPT ![s] = Tail(@)]
  PROVE  /\ Head(queue[s]) \in Entry
         /\ queue' \in [Sources -> Seq(Entry)]
         /\ \A t \in Sources : Len(queue'[t]) <= QueueCap
  <1>1. queue[s] \in Seq(Entry) /\ queue \in [Sources -> Seq(Entry)]
    BY DEF TypeOK
  <1>2. Head(queue[s]) \in Entry /\ Tail(queue[s]) \in Seq(Entry)
    BY <1>1
  <1>3. Len(queue[s]) \in Nat \ {0} /\ Len(Tail(queue[s])) = Len(queue[s]) - 1
    BY <1>1
  <1>4. \A t \in Sources : Len(queue'[t]) <= QueueCap
    BY <1>1, <1>2, <1>3 DEF TypeOK
  <1> QED
    BY <1>1, <1>2, <1>4

\* A step of a dispatcher keeps the types.
LEMMA DispatcherType ==
  ASSUME TypeInv, NEW s \in Sources, DispatcherStep(s)
  PROVE  TypeInv'
  <1> USE DEF TypeInv, TypeOK, HandingOne, Handing, AttemptLeft, DispatcherModes
  <1>1. CASE Take(s)
    <2>1. queue[s] # <<>> /\ queue' = [queue EXCEPT ![s] = Tail(@)]
      BY <1>1 DEF Take
    <2>2. /\ Head(queue[s]) \in Entry
          /\ queue' \in [Sources -> Seq(Entry)]
          /\ \A t \in Sources : Len(queue'[t]) <= QueueCap
      BY <2>1, PopType
    <2> QED
      BY <1>1, <2>2 DEF Take
  <1>2. CASE SeeStop(s)
    BY <1>2 DEF SeeStop
  <1>3. CASE Forward(s)
    <2>1. hand[s] \in Entry /\ in' = Append(in, hand[s]) /\ Len(in) < InCap
      BY <1>3 DEF Forward
    <2>2. in' \in Seq(Entry) /\ Len(in') <= InCap
      BY <2>1
    <2> QED
      BY <1>3, <2>2 DEF Forward
  <1>4. CASE ForwardHard(s)
    BY <1>4 DEF ForwardHard, Account, Fates, Reasons
  <1>5. CASE DiscardSource(s)
    <2>1. queue[s] # <<>> /\ queue' = [queue EXCEPT ![s] = Tail(@)]
      BY <1>5 DEF DiscardSource
    <2>2. /\ queue' \in [Sources -> Seq(Entry)]
          /\ \A t \in Sources : Len(queue'[t]) <= QueueCap
      BY <2>1, PopType
    <2> QED
      BY <1>5, <2>2 DEF DiscardSource, Account, Fates, Reasons
  <1>6. CASE QueueDrained(s)
    BY <1>6 DEF QueueDrained
  <1> QED
    BY <1>1, <1>2, <1>3, <1>4, <1>5, <1>6 DEF DispatcherStep

\* Removing the head of in keeps its type.
LEMMA PopInType ==
  ASSUME TypeOK, in # <<>>, in' = Tail(in)
  PROVE  Head(in) \in Entry /\ in' \in Seq(Entry) /\ Len(in') <= InCap
  <1>1. in \in Seq(Entry) /\ Len(in) <= InCap
    BY DEF TypeOK
  <1>2. Len(in') = Len(in) - 1 /\ Len(in) \in Nat
    BY <1>1
  <1> QED
    BY <1>1, <1>2

\* A step of the batcher keeps the types.
LEMMA BatcherType ==
  ASSUME TypeInv, BatcherStep
  PROVE  TypeInv'
  <1> USE DEF TypeInv, TypeOK, HandingOne, Handing, AttemptLeft, BatcherStates
  <1>1. ASSUME NEW heavy \in BOOLEAN, Receive(heavy) PROVE TypeInv'
    <2>1. in # <<>> /\ in' = Tail(in) /\ batch' = batch \cup {Head(in)}
      BY <1>1 DEF Receive
    <2>2. Head(in) \in Entry /\ in' \in Seq(Entry) /\ Len(in') <= InCap
      BY <2>1, PopInType
    <2> QED
      BY <1>1, <2>1, <2>2 DEF Receive
  <1>2. CASE Tick
    BY <1>2 DEF Tick
  <1>3. CASE SeeInClosed
    BY <1>3 DEF SeeInClosed
  <1>4. CASE FlushSend
    <2>1. batches' = Append(batches, batch) /\ Len(batches) < BatchesCap
      BY <1>4 DEF FlushSend
    <2>2. batches' \in Seq(SUBSET Entry) /\ Len(batches') <= BatchesCap
      BY <2>1, BatchesCapNat
    <2>3. bpc' \in BatcherStates /\ batch' \subseteq Entry
      BY <1>4 DEF FlushSend, AfterFlush
    <2> QED
      BY <1>4, <2>2, <2>3 DEF FlushSend, BatchesCap
  <1>5. CASE FlushHard
    BY <1>5 DEF FlushHard, AfterFlush, Account, Fates, Reasons
  <1>6. CASE BatcherHard
    BY <1>6 DEF BatcherHard, Account, Fates, Reasons
  <1>7. CASE DiscardIn
    <2>1. in' \in Seq(Entry) /\ Len(in') <= InCap
      BY <1>7, PopInType DEF DiscardIn
    <2> QED
      BY <1>7, <2>1 DEF DiscardIn, Account, Fates, Reasons
  <1>8. CASE DiscardInDone
    BY <1>8 DEF DiscardInDone
  <1> QED
    BY <1>1, <1>2, <1>3, <1>4, <1>5, <1>6, <1>7, <1>8 DEF BatcherStep

\* A failed attempt leaves its worker's variables well typed.
LEMMA AttemptFailedType ==
  ASSUME TypeInv, NEW w \in Workers, NEW n \in 0..WriteAttempts, AttemptFailed(w, n)
  PROVE  /\ wpc' \in [Workers -> WorkerStates]
         /\ wbatch' \in [Workers -> SUBSET Entry]
         /\ attempt' \in [Workers -> 0..WriteAttempts]
         /\ fate' \in [Entry -> Fates]
         /\ AttemptLeft'
  <1> USE DEF TypeInv, TypeOK, AttemptLeft, AttemptFailed, WorkerStates
  <1>1. CASE n < WriteAttempts
    <2>1. /\ wpc' = [wpc EXCEPT ![w] = "backoff"]
          /\ attempt' = [attempt EXCEPT ![w] = n]
          /\ wbatch' = wbatch /\ fate' = fate
      BY <1>1
    <2>2. AttemptLeft'
      BY <1>1, <2>1
    <2> QED
      BY <2>1, <2>2
  <1>2. CASE ~(n < WriteAttempts)
    <2>1. FinishBatch(w, "storage_write_failed")
      BY <1>2
    <2> QED
      BY <2>1 DEF FinishBatch, Account, Fates, Reasons
  <1> QED
    BY <1>1, <1>2

\* A step of a worker keeps the types.
LEMMA WorkerType ==
  ASSUME TypeInv, NEW w \in Workers, WorkerStep(w)
  PROVE  TypeInv'
  <1> USE DEF TypeInv, TypeOK, HandingOne, Handing, AttemptLeft, WorkerStates, Fates, Reasons, FinishBatch, Account
  <1>1. CASE TakeBatch(w)
    <2>1. batches # <<>> /\ batches' = Tail(batches) /\ batches \in Seq(SUBSET Entry)
      BY <1>1 DEF TakeBatch
    <2>2. /\ Head(batches) \subseteq Entry /\ batches' \in Seq(SUBSET Entry)
          /\ Len(batches') = Len(batches) - 1
      BY <2>1
    <2>3. batches' \in Seq(SUBSET Entry) /\ Len(batches') <= BatchesCap
      BY <2>2, BatchesCapNat
    <2> QED
      BY <1>1, <2>2, <2>3 DEF TakeBatch, BatchesCap
  <1>2. CASE WriteStart(w)
    BY <1>2 DEF WriteStart
  <1>3. CASE WriteOk(w)
    <2>1. landed' \in [Entry -> Nat]
      BY <1>3 DEF WriteOk, Land
    <2>2. FinishBatch(w, "stored") /\ UNCHANGED <<frontVars, batchVars, batches, stop>>
      BY <1>3 DEF WriteOk
    <2>3. /\ wbatch' \in [Workers -> SUBSET Entry] /\ wpc' \in [Workers -> WorkerStates]
          /\ attempt' \in [Workers -> 0..WriteAttempts] /\ AttemptLeft'
      BY <2>2
    <2>4. fate' \in [Entry -> Fates]
      BY <2>2
    <2> QED
      BY <2>1, <2>2, <2>3, <2>4
  <1>4. CASE WriteRejected(w)
    BY <1>4 DEF WriteRejected
  <1>5. ASSUME NEW taken \in BOOLEAN, WriteUnavailable(w, taken) PROVE TypeInv'
    <2>1. CASE taken = TRUE
      <3>1. Land(wbatch[w]) /\ AttemptFailed(w, attempt[w])
        BY <1>5, <2>1 DEF WriteUnavailable
      <3>2. landed' \in [Entry -> Nat] /\ attempt[w] \in 0..WriteAttempts
        BY <3>1 DEF Land
      <3> QED
        BY <1>5, <3>1, <3>2, AttemptFailedType DEF WriteUnavailable
    <2>2. CASE taken = FALSE
      <3>1. landed' = landed /\ AttemptFailed(w, attempt[w]) /\ attempt[w] \in 0..WriteAttempts
        BY <1>5, <2>2 DEF WriteUnavailable
      <3> QED
        BY <1>5, <3>1, AttemptFailedType DEF WriteUnavailable
    <2> QED
      BY <2>1, <2>2
  <1>6. CASE WriteCancelled(w)
    <2>1. attempt[w] + 1 \in 0..WriteAttempts /\ AttemptFailed(w, attempt[w] + 1)
      BY <1>6 DEF WriteCancelled
    <2> QED
      BY <1>6, <2>1, AttemptFailedType DEF WriteCancelled
  <1>7. CASE BackoffElapsed(w)
    BY <1>7 DEF BackoffElapsed
  <1>8. CASE BackoffHard(w)
    BY <1>8 DEF BackoffHard
  <1>9. CASE WorkerExit(w)
    BY <1>9 DEF WorkerExit
  <1> QED
    BY <1>1, <1>2, <1>3, <1>4, <1>5, <1>6, <1>7, <1>8, <1>9 DEF WorkerStep

\* Every step keeps the types.
LEMMA StepType == TypeInv /\ [Next]_vars => TypeInv'
  <1> SUFFICES ASSUME TypeInv, [Next]_vars PROVE TypeInv'
    OBVIOUS
  <1>1. CASE CloseIn
    BY <1>1 DEF CloseIn, TypeInv, TypeOK, HandingOne, Handing, AttemptLeft
  <1>2. CASE CloseListeners \/ StopStep
    BY <1>2 DEF CloseListeners, StopStep, BeginDrain, DrainDone, DrainTimeout, AbortDone,
                StopTo, StopStates, TypeInv, TypeOK, HandingOne, Handing, AttemptLeft
  <1>3. CASE Terminated \/ UNCHANGED vars
    BY <1>3 DEF Terminated, vars, TypeInv, TypeOK, HandingOne, Handing, AttemptLeft
  <1> QED
    BY <1>1, <1>2, <1>3, ProducerType, DispatcherType, BatcherType, WorkerType DEF Next

\* The goroutines and the channels of the pipeline always have the shape TypeOK
\* gives them; in particular no channel is ever above its capacity.
THEOREM TypeCorrect == Spec => []TypeOK
  <1>1. Spec => []TypeInv
    BY InitType, StepType, PTL DEF Spec
  <1>2. TypeInv => TypeOK
    BY DEF TypeInv
  <1> QED
    BY <1>1, <1>2, PTL

=============================================================================
