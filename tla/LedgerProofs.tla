---------------------------- MODULE LedgerProofs ----------------------------
(***************************************************************************)
(* Theorems about what becomes of the entries: the pipeline implements the *)
(* accounting machine, its counters agree with the storage, and a stopped  *)
(* pipeline has kept nothing of the listeners' entries.                    *)
(***************************************************************************)
EXTENDS AccountingProofs

USE ProducersAssumption, WorkersAssumption, LimitsAssumption, NoEntryAssumption
USE DEF prodVars, dispVars, inVars, batchVars, workVars, ledger, frontVars, backVars

-----------------------------------------------------------------------------
(* Refinement.                                                             *)

\* What a place of the pipeline holds is in flight.
LEMMA HeldInFlight ==
  ASSUME AccountingInv, NEW x \in PlaceNames \ {"settled"}
  PROVE  At[x] \subseteq InFlight
  <1> SUFFICES ASSUME NEW e \in At[x] PROVE e \in InFlight
    OBVIOUS
  <1>1. e \in Arrived /\ e \in Entry /\ e \notin At["settled"]
    BY HeldOnce DEF AccountingInv, PlaceNames
  <1> QED
    BY <1>1, PlacesHold DEF InFlight

\* What has not arrived has no fate.
LEMMA NotArrivedNoFate ==
  ASSUME AccountingInv, NEW e \in Entry, e \notin Arrived
  PROVE  fate[e] = "none"
  <1>1. e \notin At["settled"]
    BY HeldOnce DEF AccountingInv, PlaceNames
  <1> QED
    BY <1>1, PlacesHold

Drops(X) == \E r \in Reasons : Account(X, r)

\* Counting entries that are in flight as dropped, stored or discarded is a step of
\* the accounting machine.
LEMMA DropMaps ==
  ASSUME NEW X \in SUBSET InFlight, Drops(X), sent' = sent, Expired' = Expired
  PROVE  Accounting!Next
  <1>0. PICK r \in Reasons : Account(X, r)
    BY DEF Drops
  <1>1. Arrived' = Arrived /\ X \subseteq Entry /\ \A e \in X : fate[e] = "none"
    BY ArrivedKeeps DEF InFlight, Arrived
  <1>2. \A e \in Entry : fate'[e] = IF e \in X THEN r ELSE fate[e]
    BY <1>0 DEF Account
  <1>3. InFlight' = InFlight \ X
    BY <1>1, <1>2 DEF InFlight, Reasons, Arrived
  <1>4. /\ {e \in Entry : fate'[e] = "stored"} = {e \in Entry : fate[e] = "stored"}
        /\ {e \in Entry : fate'[e] = "discarded"} = {e \in Entry : fate[e] = "discarded"}
        /\ {e \in Entry : fate'[e] \in Reasons} = {e \in Entry : fate[e] \in Reasons} \cup X
    BY <1>1, <1>2 DEF Reasons
  <1>5. Accounting!Drop(X)
    BY <1>3, <1>4 DEF Accounting!Drop, Expired
  <1> QED
    BY <1>5 DEF Accounting!Next

LEMMA StoreMaps ==
  ASSUME NEW X, X \subseteq InFlight, Account(X, "stored"), sent' = sent, Expired' = Expired
  PROVE  Accounting!Next
  <1>1. Arrived' = Arrived /\ X \subseteq Entry /\ \A e \in X : fate[e] = "none"
    BY ArrivedKeeps DEF InFlight, Arrived
  <1>2. \A e \in Entry : fate'[e] = IF e \in X THEN "stored" ELSE fate[e]
    BY DEF Account
  <1>3. InFlight' = InFlight \ X
    BY <1>1, <1>2 DEF InFlight, Arrived
  <1>4. /\ {e \in Entry : fate'[e] = "stored"} = {e \in Entry : fate[e] = "stored"} \cup X
        /\ {e \in Entry : fate'[e] = "discarded"} = {e \in Entry : fate[e] = "discarded"}
        /\ {e \in Entry : fate'[e] \in Reasons} = {e \in Entry : fate[e] \in Reasons}
    BY <1>1, <1>2 DEF Reasons
  <1>5. Accounting!Store(X)
    BY <1>3, <1>4 DEF Accounting!Store, Expired
  <1> QED
    BY <1>5 DEF Accounting!Next

LEMMA DiscardMaps ==
  ASSUME NEW d \in InFlight, Account({d}, "discarded"), sent' = sent, Expired, Expired'
  PROVE  Accounting!Next
  <1>1. Arrived' = Arrived /\ d \in Entry /\ fate[d] = "none"
    BY ArrivedKeeps DEF InFlight, Arrived
  <1>2. \A e \in Entry : fate'[e] = IF e = d THEN "discarded" ELSE fate[e]
    BY DEF Account
  <1>3. InFlight' = InFlight \ {d}
    BY <1>1, <1>2 DEF InFlight, Arrived
  <1>4. /\ {e \in Entry : fate'[e] = "stored"} = {e \in Entry : fate[e] = "stored"}
        /\ {e \in Entry : fate'[e] = "discarded"}
              = {e \in Entry : fate[e] = "discarded"} \cup {d}
        /\ {e \in Entry : fate'[e] \in Reasons} = {e \in Entry : fate[e] \in Reasons}
    BY <1>1, <1>2 DEF Reasons
  <1>5. Accounting!Discard(d)
    BY <1>3, <1>4 DEF Accounting!Discard, Expired
  <1> QED
    BY <1>1, <1>5 DEF Accounting!Next

\* A step that accounts for nothing is none of the accounting machine.
LEMMA StutterMaps ==
  ASSUME fate' = fate, sent' = sent, Expired' = Expired
  PROVE  UNCHANGED Accounting!vars
  <1>1. InFlight' = InFlight
    BY ArrivedKeeps DEF InFlight
  <1> QED
    BY <1>1 DEF Accounting!vars, Expired

-----------------------------------------------------------------------------
(* What a step accounts for was in flight.                                 *)

\* An entry in flight that is counted under a reason is a drop.
LEMMA OneDrops ==
  ASSUME NEW d, d \in InFlight, \E r \in Reasons : Account({d}, r)
  PROVE  \E X \in SUBSET InFlight : Drops(X)
  <1>1. PICK X \in SUBSET InFlight : X = {d}
    OBVIOUS
  <1>2. Drops(X)
    BY <1>1 DEF Drops, Account
  <1> QED
    BY <1>2

\* Inside enqueue a producer drops what it hands over, or the head of the queue.
LEMMA ProducerDrops ==
  ASSUME TypeInv, AccountingInv, NEW p \in Producers, EnqueueStep(p) \/ HandlerExit(p)
  PROVE  fate' = fate \/ \E X \in SUBSET InFlight : Drops(X)
  <1>1. CASE Enqueue(p) \/ FindFull(p) \/ HandlerExit(p)
    BY <1>1 DEF Enqueue, FindFull, HandlerExit
  <1>2. CASE DropNew(p) \/ BlockShutdown(p)
    <2>1. p \in Handing
      BY <1>2 DEF DropNew, BlockShutdown, Handing
    <2>2. Current(p) \in InFlight
      BY <2>1, PlacesHold, HeldInFlight DEF PlaceNames
    <2>3. \E r \in Reasons : Account({Current(p)}, r)
      BY <1>2 DEF DropNew, BlockShutdown, Reasons
    <2> QED
      BY <2>2, <2>3, OneDrops
  <1>3. CASE Evict(p)
    <2> DEFINE s == SourceOf[p]
    <2>1. s \in Sources /\ queue[s] \in Seq(Entry)
      BY DEF TypeInv, TypeOK
    <2>2. CASE queue[s] = <<>>
      BY <1>3, <2>2 DEF Evict
    <2>3. CASE queue[s] # <<>>
      <3>1. Account({Head(queue[s])}, "queue_full") /\ queue' = [queue EXCEPT ![s] = Tail(queue[s])]
        BY <1>3, <2>3 DEF Evict
      <3>2. Head(queue[s]) \in InFlight
        BY <2>1, <2>3, <3>1, QueuePops, HeldInFlight DEF PlaceNames, TypeInv
      <3>3. \E r \in Reasons : Account({Head(queue[s])}, r)
        BY <3>1 DEF Reasons
      <3> QED
        BY <3>2, <3>3, OneDrops
    <2> QED
      BY <2>2, <2>3
  <1> QED
    BY <1>1, <1>2, <1>3 DEF EnqueueStep

\* A dispatcher drops what it forwards, or the head of its queue.
LEMMA DispatcherDrops ==
  ASSUME TypeInv, AccountingInv, NEW s \in Sources, DispatcherStep(s)
  PROVE  fate' = fate \/ \E X \in SUBSET InFlight : Drops(X)
  <1>1. CASE Take(s) \/ SeeStop(s) \/ Forward(s) \/ QueueDrained(s)
    BY <1>1 DEF Take, SeeStop, Forward, QueueDrained
  <1>2. CASE ForwardHard(s)
    <2>1. hand[s] # NoEntry /\ \E r \in Reasons : Account({hand[s]}, r)
      BY <1>2 DEF ForwardHard, Reasons
    <2>2. hand[s] \in InFlight
      BY <2>1, PlacesHold, HeldInFlight DEF PlaceNames
    <2> QED
      BY <2>1, <2>2, OneDrops
  <1>3. CASE DiscardSource(s)
    <2>1. /\ queue[s] # <<>> /\ queue' = [queue EXCEPT ![s] = Tail(queue[s])]
          /\ \E r \in Reasons : Account({Head(queue[s])}, r)
      BY <1>3 DEF DiscardSource, Reasons
    <2>2. Head(queue[s]) \in InFlight
      BY <2>1, QueuePops, HeldInFlight DEF PlaceNames, TypeInv
    <2> QED
      BY <2>1, <2>2, OneDrops
  <1> QED
    BY <1>1, <1>2, <1>3 DEF DispatcherStep

\* The batcher drops its batch, or discards the head of in.
LEMMA BatcherDrops ==
  ASSUME TypeInv, AccountingInv, BatcherStep
  PROVE  \/ fate' = fate \/ \E X \in SUBSET InFlight : Drops(X)
         \/ bpc = "discard" /\ \E d \in InFlight : Account({d}, "discarded")
  <1>1. CASE \/ \E heavy \in BOOLEAN : Receive(heavy)
             \/ Tick \/ SeeInClosed \/ FlushSend \/ DiscardInDone
    BY <1>1 DEF Receive, Tick, SeeInClosed, FlushSend, DiscardInDone
  <1>2. CASE FlushHard \/ BatcherHard
    <2>1. PICK X \in SUBSET InFlight : X = batch
      BY PlacesHold, HeldInFlight DEF PlaceNames
    <2>2. Account(X, "shutdown")
      BY <1>2, <2>1 DEF FlushHard, BatcherHard, Account
    <2> QED
      BY <2>2 DEF Drops, Reasons
  <1>3. CASE DiscardIn
    <2>1. in # <<>> /\ Account({Head(in)}, "discarded") /\ bpc = "discard"
      BY <1>3 DEF DiscardIn
    <2>2. in \in Seq(Entry) /\ IsInjective(in)
      BY DEF TypeInv, TypeOK, AccountingInv, OnceEach
    <2>3. Head(in) \in Range(in)
      BY <2>1, <2>2, ReceiveTakes
    <2>4. Head(in) \in InFlight
      BY <2>3, PlacesHold, HeldInFlight DEF PlaceNames
    <2> QED
      BY <2>1, <2>4
  <1> QED
    BY <1>1, <1>2, <1>3 DEF BatcherStep

-----------------------------------------------------------------------------
(* Each step is one of the accounting machine, or none.                    *)

\* The steps of a producer receive an entry, refuse one, drop one, or do nothing
\* that the accounting machine sees.
LEMMA ProducerMaps ==
  ASSUME TypeInv, AccountingInv, NEW p \in Producers, ProducerStep(p)
  PROVE  Accounting!Next \/ UNCHANGED Accounting!vars
  <1> DEFINE d == <<p, sent[p] + 1>>
  <1>1. stop' = stop /\ Expired' = Expired
    BY DEF ProducerStep, EnqueueStep, Ingest, RefuseMessage, Enqueue, DropNew,
           BlockShutdown, FindFull, Evict, HandlerExit, Expired
  <1>2. ASSUME pc[p] = "idle", sent[p] < MaxMsgs, sent' = [sent EXCEPT ![p] = @ + 1]
        PROVE  /\ d \in Entry /\ d \notin Arrived /\ Arrived' = Arrived \cup {d}
               /\ fate[d] = "none" /\ d \notin InFlight
    <2>1. d \in Entry /\ d \notin Arrived /\ Arrived' = Arrived \cup {d}
      BY <1>2, SMTT(30) DEF Arrived, Entry, TypeInv, TypeOK
    <2> QED
      BY <2>1, NotArrivedNoFate DEF InFlight
  <1>3. CASE Ingest(p)
    <2>1. pc[p] = "idle" /\ sent[p] < MaxMsgs /\ sent' = [sent EXCEPT ![p] = @ + 1] /\ fate' = fate
      BY <1>3 DEF Ingest
    <2>2. d \in Entry /\ fate[d] = "none" /\ d \notin InFlight /\ Arrived' = Arrived \cup {d}
      BY <1>2, <2>1
    <2>3. InFlight' = InFlight \cup {d}
      <3>1. \A e : e \in InFlight' <=> e \in Arrived' /\ fate[e] = "none"
        BY <2>1 DEF InFlight
      <3>2. \A e : e \in InFlight <=> e \in Arrived /\ fate[e] = "none"
        BY DEF InFlight
      <3> HIDE DEF d
      <3> QED
        BY <2>2, <3>1, <3>2
    <2>4. d \notin Accounting!Known
      BY <2>2 DEF Accounting!Known, Reasons
    <2>5. PICK e \in Entry : e = d
      BY <2>2
    <2>6. Accounting!Receive(e)
      BY <1>1, <2>1, <2>3, <2>4, <2>5 DEF Accounting!Receive, Expired
    <2> QED
      BY <2>6 DEF Accounting!Next
  <1>4. CASE \E r \in {"parse_error", "oversized"} : RefuseMessage(p, r)
    <2>1. PICK r \in {"parse_error", "oversized"} : RefuseMessage(p, r)
      BY <1>4
    <2>2. /\ pc[p] = "idle" /\ sent[p] < MaxMsgs /\ sent' = [sent EXCEPT ![p] = @ + 1]
          /\ Account({d}, r) /\ r \in Reasons
      BY <2>1 DEF RefuseMessage, Reasons
    <2>3. d \in Entry /\ fate[d] = "none" /\ d \notin InFlight /\ Arrived' = Arrived \cup {d}
      BY <1>2, <2>2
    <2>4. \A e \in Entry : fate'[e] = IF e = d THEN r ELSE fate[e]
      BY <2>2 DEF Account
    <2>5. InFlight' = InFlight
      BY <2>2, <2>3, <2>4 DEF InFlight, Reasons, Arrived
    <2>6. /\ {e \in Entry : fate'[e] = "stored"} = {e \in Entry : fate[e] = "stored"}
          /\ {e \in Entry : fate'[e] = "discarded"} = {e \in Entry : fate[e] = "discarded"}
          /\ {e \in Entry : fate'[e] \in Reasons} = {e \in Entry : fate[e] \in Reasons} \cup {d}
      BY <2>2, <2>3, <2>4 DEF Reasons
    <2>7. d \notin Accounting!Known
      BY <2>3 DEF Accounting!Known, Reasons
    <2> HIDE DEF d
    <2>8. PICK e \in Entry : e = d
      BY <2>3
    <2>9. Accounting!Refuse(e)
      BY <1>1, <2>5, <2>6, <2>7, <2>8 DEF Accounting!Refuse, Expired
    <2> QED
      BY <2>9 DEF Accounting!Next
  <1>5. CASE EnqueueStep(p) \/ HandlerExit(p)
    <2>1. sent' = sent
      BY <1>5 DEF EnqueueStep, Enqueue, DropNew, BlockShutdown, FindFull, Evict, HandlerExit
    <2> QED
      BY <1>1, <1>5, <2>1, ProducerDrops, DropMaps, StutterMaps
  <1> QED
    BY <1>3, <1>4, <1>5 DEF ProducerStep

\* The steps of a dispatcher drop an entry or do nothing that the machine sees.
LEMMA DispatcherMaps ==
  ASSUME TypeInv, AccountingInv, NEW s \in Sources, DispatcherStep(s)
  PROVE  Accounting!Next \/ UNCHANGED Accounting!vars
  <1>1. sent' = sent /\ Expired' = Expired
    BY DEF DispatcherStep, Take, SeeStop, Forward, ForwardHard, DiscardSource, QueueDrained,
           Expired
  <1> QED
    BY <1>1, DispatcherDrops, DropMaps, StutterMaps

\* The steps of the batcher drop a batch, discard an entry when the deadline has
\* expired, or do nothing that the machine sees.
LEMMA BatcherMaps ==
  ASSUME TypeInv, AccountingInv, ShutdownInv, BatcherStep
  PROVE  Accounting!Next \/ UNCHANGED Accounting!vars
  <1>1. sent' = sent /\ Expired' = Expired
    BY DEF BatcherStep, Receive, Tick, SeeInClosed, FlushSend, FlushHard, BatcherHard,
           DiscardIn, DiscardInDone, Expired
  <1>2. bpc = "discard" => Expired
    BY HardMeansExpired DEF ShutdownInv, BatcherEnds
  <1> QED
    BY <1>1, <1>2, BatcherDrops, DropMaps, DiscardMaps, StutterMaps

\* The steps of a worker store a batch, drop one, or do nothing that the machine sees.
LEMMA WorkerMaps ==
  ASSUME TypeInv, AccountingInv, NEW w \in Workers, WorkerStep(w)
  PROVE  Accounting!Next \/ UNCHANGED Accounting!vars
  <1>1. sent' = sent /\ Expired' = Expired
    BY DEF WorkerStep, TakeBatch, WriteStart, WriteOk, WriteRejected, WriteUnavailable,
           WriteCancelled, BackoffElapsed, BackoffHard, WorkerExit, Expired
  <1>2. wbatch[w] \subseteq InFlight
    BY PlacesHold, HeldInFlight DEF PlaceNames
  <1>3. CASE fate' = fate
    BY <1>1, <1>3, StutterMaps
  <1>4. ASSUME NEW r \in Reasons, FinishBatch(w, r)
        PROVE  Accounting!Next
    <2>1. Drops(wbatch[w])
      BY <1>4 DEF FinishBatch, Drops
    <2> QED
      BY <1>1, <1>2, <2>1, DropMaps
  <1>5. CASE WriteOk(w)
    BY <1>1, <1>2, <1>5, StoreMaps DEF WriteOk, FinishBatch
  <1>6. CASE WriteRejected(w) \/ BackoffHard(w)
    BY <1>4, <1>6 DEF WriteRejected, BackoffHard, Reasons
  <1>7. CASE WriteCancelled(w) \/ \E taken \in BOOLEAN : WriteUnavailable(w, taken)
    <2>1. fate' = fate \/ FinishBatch(w, "storage_write_failed")
      BY <1>7 DEF WriteCancelled, WriteUnavailable, AttemptFailed
    <2> QED
      BY <1>3, <1>4, <2>1 DEF Reasons
  <1>8. CASE TakeBatch(w) \/ WriteStart(w) \/ BackoffElapsed(w) \/ WorkerExit(w)
    BY <1>3, <1>8 DEF TakeBatch, WriteStart, BackoffElapsed, WorkerExit
  <1> QED
    BY <1>5, <1>6, <1>7, <1>8 DEF WorkerStep

\* The shutdown expires the deadline of the machine, once.
LEMMA StopMaps ==
  ASSUME CloseIn \/ CloseListeners \/ StopStep \/ Terminated \/ UNCHANGED vars
  PROVE  Accounting!Next \/ UNCHANGED Accounting!vars
  <1>1. fate' = fate /\ sent' = sent
    BY DEF CloseIn, CloseListeners, StopStep, BeginDrain, DrainDone, DrainTimeout, AbortDone,
           StopTo, Terminated, vars
  <1>2. CASE DrainTimeout
    <2>1. Expired' = TRUE
      BY <1>2 DEF DrainTimeout, StopTo, Expired
    <2>2. InFlight' = InFlight
      BY <1>1, ArrivedKeeps DEF InFlight
    <2>3. Accounting!Expire
      BY <1>1, <2>1, <2>2 DEF Accounting!Expire, Expired
    <2> QED
      BY <2>3 DEF Accounting!Next
  <1>3. CASE ~DrainTimeout
    <2>1. Expired' = Expired
      BY <1>3 DEF CloseIn, CloseListeners, StopStep, BeginDrain, DrainDone, AbortDone, StopTo,
                  Terminated, vars, Expired
    <2> QED
      BY <1>1, <2>1, StutterMaps
  <1> QED
    BY <1>2, <1>3

\* With its goroutines and channels hidden the pipeline is the accounting machine:
\* it receives, refuses, stores and drops each entry once, and discards one without a
\* count only after the drain deadline.
THEOREM PipelineAccounts == Spec => ImplementsAccounting
  <1>1. Init => Accounting!Init
    <2> SUFFICES ASSUME Init PROVE Accounting!Init
      OBVIOUS
    <2>1. Arrived = {} /\ \A e \in Entry : fate[e] = "none"
      BY DEF Init, Arrived, Entry
    <2>2. stop = "running"
      BY DEF Init
    <2> QED
      BY <2>1, <2>2 DEF Accounting!Init, InFlight, Reasons
  <1>2. TypeInv /\ AccountingInv /\ ShutdownInv /\ [Next]_vars => [Accounting!Next]_(Accounting!vars)
    BY ProducerMaps, DispatcherMaps, BatcherMaps, WorkerMaps, StopMaps DEF Next
  <1>3. Spec => [](TypeInv /\ AccountingInv /\ ShutdownInv)
    BY AccountingHolds, ShutdownOrder, PTL
  <1> QED
    BY <1>1, <1>2, <1>3, PTL DEF Spec, ImplementsAccounting, Accounting!Spec

-----------------------------------------------------------------------------
(* The counters and the storage.                                           *)

\* The fates of an entry that an attempt to store it can have preceded.
Tried == {"stored", "shutdown", "storage_rejected", "storage_write_failed"}

\* The attempts of a worker on its batch whose outcome is known.
Made(w) == IF wpc[w] = "writing" THEN attempt[w] - 1 ELSE attempt[w]

\* What CountersMatchStorage needs to be inductive: the storage never holds more
\* copies of an entry in a worker's batch than the worker has made attempts.
LandedInv ==
    /\ \A e \in Entry :
          /\ fate[e] = "stored" => landed[e] > 0
          /\ fate[e] \notin Tried /\ (\A w \in Workers : e \notin wbatch[w]) => landed[e] = 0
          /\ landed[e] <= WriteAttempts
    /\ \A w \in Workers : \A e \in wbatch[w] : landed[e] <= Made(w)

\* Only an entry that has no account yet gets one, and none is counted stored.
Settling == \A e \in Entry : fate'[e] = fate[e] \/ (fate[e] = "none" /\ fate'[e] # "stored")

\* Dropping what is in flight settles it.
LEMMA DropsSettle ==
  ASSUME fate' = fate \/ \E X \in SUBSET InFlight : Drops(X)
  PROVE  Settling
  <1>1. CASE fate' = fate
    BY <1>1 DEF Settling
  <1>2. CASE \E X \in SUBSET InFlight : Drops(X)
    <2>1. PICK X \in SUBSET InFlight : Drops(X)
      BY <1>2
    <2>2. PICK r \in Reasons : Account(X, r)
      BY <2>1 DEF Drops
    <2> QED
      BY <2>2 DEF Settling, Account, InFlight, Reasons
  <1> QED
    BY <1>1, <1>2

\* The steps outside the writer pool settle entries without touching the storage.
LEMMA StepsSettle ==
  ASSUME TypeInv, AccountingInv, [Next]_vars, ~\E w \in Workers : WorkerStep(w)
  PROVE  Settling /\ UNCHANGED <<wpc, wbatch, attempt, landed>>
  <1>1. UNCHANGED <<wpc, wbatch, attempt, landed>>
    BY DEF Next, vars, ProducerStep, EnqueueStep, Ingest, RefuseMessage, Enqueue, DropNew,
           BlockShutdown, FindFull, Evict, HandlerExit, DispatcherStep, Take, SeeStop,
           Forward, ForwardHard, DiscardSource, QueueDrained, CloseIn, BatcherStep, Receive,
           Tick, SeeInClosed, FlushSend, FlushHard, BatcherHard, DiscardIn, DiscardInDone,
           CloseListeners, StopStep, BeginDrain, DrainDone, DrainTimeout, AbortDone, StopTo,
           Terminated
  <1>2. ASSUME NEW p \in Producers, Ingest(p) PROVE Settling
    BY <1>2 DEF Ingest, Settling
  <1>3. ASSUME NEW p \in Producers, NEW r \in {"parse_error", "oversized"}, RefuseMessage(p, r)
        PROVE  Settling
    <2> DEFINE d == <<p, sent[p] + 1>>
    <2>1. d \in Entry /\ d \notin Arrived /\ Account({d}, r)
      BY <1>3 DEF RefuseMessage, Arrived, Entry, TypeInv, TypeOK
    <2>2. fate[d] = "none"
      BY <2>1, NotArrivedNoFate
    <2> QED
      BY <2>1, <2>2 DEF Account, Settling
  <1>4. ASSUME NEW p \in Producers, EnqueueStep(p) \/ HandlerExit(p) PROVE Settling
    BY <1>4, ProducerDrops, DropsSettle
  <1>5. ASSUME NEW s \in Sources, DispatcherStep(s) PROVE Settling
    BY <1>5, DispatcherDrops, DropsSettle
  <1>6. ASSUME BatcherStep PROVE Settling
    <2>1. CASE \E d \in InFlight : Account({d}, "discarded")
      <3>1. PICK d \in InFlight : Account({d}, "discarded")
        BY <2>1
      <3> QED
        BY <3>1 DEF Account, InFlight, Settling
    <2>2. CASE fate' = fate \/ \E X \in SUBSET InFlight : Drops(X)
      BY <2>2, DropsSettle
    <2> QED
      BY <1>6, <2>1, <2>2, BatcherDrops
  <1>7. CASE CloseIn \/ CloseListeners \/ StopStep \/ Terminated \/ UNCHANGED vars
    BY <1>7 DEF CloseIn, CloseListeners, StopStep, BeginDrain, DrainDone, DrainTimeout,
                AbortDone, StopTo, Terminated, vars, Settling
  <1> QED
    BY <1>1, <1>2, <1>3, <1>4, <1>5, <1>6, <1>7 DEF Next, ProducerStep

\* writeBatch returns: its batch has been tried, and is in the storage if counted so.
LEMMA BatchSettles ==
  ASSUME TypeInv, AccountingInv, LandedInv, NEW w \in Workers, NEW r \in Tried, FinishBatch(w, r),
         \A e \in Entry \ wbatch[w] : landed'[e] = landed[e],
         \A e \in wbatch[w] : /\ landed'[e] <= WriteAttempts
                              /\ r = "stored" => landed'[e] > 0
  PROVE  LandedInv'
  <1> DEFINE X == wbatch[w]
  <1>1. /\ wbatch \in [Workers -> SUBSET Entry] /\ fate \in [Entry -> Fates]
        /\ wpc \in [Workers -> WorkerStates] /\ attempt \in [Workers -> 0..WriteAttempts]
        /\ \A v \in Workers \ {w} : wbatch[v] \cap X = {}
    BY DEF TypeInv, TypeOK, AccountingInv, OnceEach, WorkersOnce
  <1>2. \A e \in Entry : fate'[e] = IF e \in X THEN r ELSE fate[e]
    BY DEF FinishBatch, Account
  <1>3. /\ wbatch'[w] = {} /\ \A v \in Workers \ {w} : wbatch'[v] = wbatch[v]
        /\ \A v \in Workers \ {w} : Made(v)' = Made(v)
    BY <1>1 DEF FinishBatch, Made
  <1>4. \A v \in Workers : \A e \in wbatch'[v] : landed'[e] <= Made(v)'
    <2> SUFFICES ASSUME NEW v \in Workers \ {w}, NEW e \in wbatch[v]
                 PROVE  landed'[e] <= Made(v)'
      BY <1>3
    <2>1. e \in Entry \ X
      BY <1>1
    <2> QED
      BY <1>3, <2>1 DEF LandedInv
  <1>5. ASSUME NEW e \in Entry
        PROVE  /\ fate'[e] = "stored" => landed'[e] > 0
               /\ fate'[e] \notin Tried /\ (\A v \in Workers : e \notin wbatch'[v])
                     => landed'[e] = 0
               /\ landed'[e] <= WriteAttempts
    <2>1. CASE e \in X
      BY <1>2, <2>1
    <2>2. CASE e \notin X
      <3>1. fate'[e] = fate[e] /\ landed'[e] = landed[e]
        BY <1>2, <2>2
      <3>2. (\A v \in Workers : e \notin wbatch'[v]) => \A v \in Workers : e \notin wbatch[v]
        BY <1>3, <2>2
      <3> QED
        BY <3>1, <3>2 DEF LandedInv
    <2> QED
      BY <2>1, <2>2
  <1> QED
    BY <1>4, <1>5 DEF LandedInv

\* A worker that keeps its batch counts no entry, and has made an attempt for every
\* copy it added.
LEMMA BatchKeeps ==
  ASSUME TypeInv, AccountingInv, LandedInv, NEW w \in Workers, UNCHANGED <<wbatch, fate>>,
         \A v \in Workers \ {w} : Made(v)' = Made(v),
         \A e \in Entry \ wbatch[w] : landed'[e] = landed[e],
         \A e \in wbatch[w] : landed'[e] <= Made(w)', Made(w)' <= WriteAttempts, Made(w)' \in Int,
         \A e \in Entry : landed'[e] \in Nat /\ landed'[e] >= landed[e]
  PROVE  LandedInv'
  <1>1. wbatch \in [Workers -> SUBSET Entry] /\ landed \in [Entry -> Nat]
        /\ \A v \in Workers \ {w} : wbatch[v] \cap wbatch[w] = {}
    BY DEF TypeInv, TypeOK, AccountingInv, OnceEach, WorkersOnce
  <1>2. \A v \in Workers : \A e \in wbatch'[v] : landed'[e] <= Made(v)'
    <2> SUFFICES ASSUME NEW v \in Workers \ {w}, NEW e \in wbatch[v]
                 PROVE  landed'[e] <= Made(v)'
      OBVIOUS
    <2>1. e \in Entry \ wbatch[w]
      BY <1>1
    <2> QED
      BY <2>1 DEF LandedInv
  <1>3. ASSUME NEW e \in Entry
        PROVE  /\ fate'[e] = "stored" => landed'[e] > 0
               /\ fate'[e] \notin Tried /\ (\A v \in Workers : e \notin wbatch'[v])
                     => landed'[e] = 0
               /\ landed'[e] <= WriteAttempts
    <2>1. CASE e \in wbatch[w]
      <3>1. landed'[e] <= Made(w)' /\ landed'[e] \in Nat /\ landed'[e] >= landed[e] /\ landed[e] \in Nat
        BY <1>1, <2>1
      <3>2. landed'[e] <= WriteAttempts /\ (landed[e] > 0 => landed'[e] > 0)
        BY <3>1
      <3> QED
        BY <2>1, <3>2 DEF LandedInv
    <2>2. CASE e \notin wbatch[w]
      BY <2>2 DEF LandedInv
    <2> QED
      BY <2>1, <2>2
  <1> QED
    BY <1>2, <1>3 DEF LandedInv

\* A step of a worker.
LEMMA WorkerLanded ==
  ASSUME TypeInv, AccountingInv, LandedInv, NEW w \in Workers, WorkerStep(w)
  PROVE  LandedInv'
  <1> DEFINE X == wbatch[w]
  <1>1. /\ wbatch \in [Workers -> SUBSET Entry] /\ fate \in [Entry -> Fates]
        /\ landed \in [Entry -> Nat]
        /\ wpc \in [Workers -> WorkerStates] /\ attempt \in [Workers -> 0..WriteAttempts]
        /\ WriteAttempts \in Nat /\ X \subseteq Entry
    BY DEF TypeInv, TypeOK
  <1>2. \A e \in X : landed[e] <= Made(w)
    BY DEF LandedInv
  <1>3. \A v \in Workers : Made(v) \in Int
    BY <1>1 DEF Made
  <1>4. CASE WriteOk(w)
    <2>1. wpc[w] = "writing" /\ Land(X) /\ FinishBatch(w, "stored")
      BY <1>4 DEF WriteOk
    <2>2. /\ \A e \in Entry \ X : landed'[e] = landed[e]
          /\ \A e \in X : landed'[e] <= WriteAttempts /\ landed'[e] > 0
      BY <1>1, <1>2, <2>1 DEF Land, Made
    <2> QED
      BY <2>1, <2>2, BatchSettles DEF Tried
  <1>5. ASSUME NEW r \in Tried \ {"stored"}, FinishBatch(w, r), landed' = landed
        PROVE  LandedInv'
    <2>1. \A e \in X : landed'[e] <= WriteAttempts
      BY <1>1, <1>5 DEF LandedInv
    <2> QED
      BY <1>5, <2>1, BatchSettles
  <1>6. CASE WriteRejected(w) \/ BackoffHard(w)
    BY <1>5, <1>6 DEF WriteRejected, BackoffHard, Tried
  <1>7. CASE \E taken \in BOOLEAN : WriteUnavailable(w, taken)
    <2>1. /\ wpc[w] = "writing" /\ AttemptFailed(w, attempt[w])
          /\ Land(X) \/ landed' = landed
      BY <1>7 DEF WriteUnavailable
    <2>2. /\ \A e \in Entry \ X : landed'[e] = landed[e]
          /\ \A e \in Entry : landed'[e] \in Nat /\ landed'[e] >= landed[e]
          /\ \A e \in X : landed'[e] <= attempt[w]
      BY <1>1, <1>2, <2>1 DEF Land, Made
    <2>3. CASE attempt[w] < WriteAttempts
      <3>1. /\ wpc' = [wpc EXCEPT ![w] = "backoff"]
            /\ attempt' = [attempt EXCEPT ![w] = attempt[w]]
            /\ UNCHANGED <<wbatch, fate>>
        BY <2>1, <2>3 DEF AttemptFailed
      <3>2. Made(w)' = attempt[w] /\ \A v \in Workers \ {w} : Made(v)' = Made(v)
        BY <1>1, <3>1 DEF Made
      <3> QED
        BY <1>1, <2>2, <2>3, <3>1, <3>2, BatchKeeps
    <2>4. CASE ~(attempt[w] < WriteAttempts)
      <3>1. FinishBatch(w, "storage_write_failed")
        BY <2>1, <2>4 DEF AttemptFailed
      <3>2. \A e \in X : landed'[e] <= WriteAttempts
        BY <1>1, <2>2
      <3> QED
        BY <2>2, <3>1, <3>2, BatchSettles DEF Tried
    <2> QED
      BY <2>3, <2>4
  <1>8. CASE WriteCancelled(w)
    <2>1. wpc[w] = "call" /\ AttemptFailed(w, attempt[w] + 1) /\ landed' = landed
      BY <1>8 DEF WriteCancelled
    <2>2. CASE attempt[w] + 1 < WriteAttempts
      <3>1. /\ wpc' = [wpc EXCEPT ![w] = "backoff"]
            /\ attempt' = [attempt EXCEPT ![w] = attempt[w] + 1]
            /\ UNCHANGED <<wbatch, fate>>
        BY <2>1, <2>2 DEF AttemptFailed
      <3>2. /\ Made(w)' = attempt[w] + 1 /\ Made(w) = attempt[w]
            /\ \A v \in Workers \ {w} : Made(v)' = Made(v)
        BY <1>1, <2>1, <3>1 DEF Made
      <3>3. \A e \in X : landed'[e] <= Made(w)'
        BY <1>1, <1>2, <2>1, <3>2
      <3> QED
        BY <1>1, <2>1, <2>2, <3>1, <3>2, <3>3, BatchKeeps
    <2> QED
      BY <1>5, <2>1, <2>2 DEF AttemptFailed, Tried
  <1>9. CASE WriteStart(w) \/ BackoffElapsed(w) \/ WorkerExit(w)
    <2>1. UNCHANGED <<wbatch, fate, landed>> /\ \A v \in Workers : Made(v)' = Made(v)
      BY <1>1, <1>9 DEF WriteStart, BackoffElapsed, WorkerExit, Made
    <2> QED
      BY <2>1 DEF LandedInv
  <1>10. CASE TakeBatch(w)
    <2> DEFINE Y == Head(batches)
    <2>1. /\ batches # <<>> /\ wbatch' = [wbatch EXCEPT ![w] = Y] /\ X = {}
          /\ wpc[w] = "idle" /\ wpc' = [wpc EXCEPT ![w] = "call"]
          /\ UNCHANGED <<attempt, fate, landed>>
      BY <1>10 DEF TakeBatch, AccountingInv, EmptyWhenIdle
    <2>2. Y \subseteq At["batches"]
      <3>1. batches \in Seq(SUBSET Entry)
        BY DEF TypeInv, TypeOK
      <3>2. Y = batches[1] /\ 1 \in DOMAIN batches
        BY <2>1, <3>1, HeadTailProperties, LenProperties
      <3> QED
        BY <3>2, PlacesHold DEF Range
    <2>3. \A e \in Y : e \in Entry /\ e \notin At["settled"] /\ e \notin At["worker"]
      BY <2>2, HeldOnce DEF AccountingInv, PlaceNames
    <2> HIDE DEF Y
    <2>4. \A e \in Y : landed[e] = 0
      BY <2>3, PlacesHold DEF LandedInv, Tried
    <2>5. /\ wbatch'[w] = Y /\ \A v \in Workers \ {w} : wbatch'[v] = wbatch[v]
          /\ Made(w)' = attempt[w] /\ \A v \in Workers \ {w} : Made(v)' = Made(v)
      BY <1>1, <2>1 DEF Made
    <2>6. \A v \in Workers : \A e \in wbatch'[v] : landed'[e] <= Made(v)'
      BY <1>1, <2>1, <2>4, <2>5 DEF LandedInv
    <2>7. \A e \in Entry : (\A v \in Workers : e \notin wbatch'[v])
                              => \A v \in Workers : e \notin wbatch[v]
      BY <2>1, <2>5
    <2> QED
      BY <2>1, <2>6, <2>7 DEF LandedInv
  <1> QED
    BY <1>4, <1>6, <1>7, <1>8, <1>9, <1>10 DEF WorkerStep

\* What is counted stored is in the storage, what was refused, evicted or discarded
\* is not, and no entry is there more often than writeBatch has attempts.
THEOREM CountersTellTheTruth == Spec => []CountersMatchStorage
  <1>1. Init => LandedInv
    <2> SUFFICES ASSUME Init PROVE LandedInv
      OBVIOUS
    <2>1. \A e \in Entry : fate[e] = "none" /\ landed[e] = 0
      BY DEF Init
    <2>2. \A w \in Workers : wbatch[w] = {}
      BY DEF Init
    <2> QED
      BY <2>1, <2>2 DEF LandedInv
  <1>2. TypeInv /\ AccountingInv /\ LandedInv /\ [Next]_vars => LandedInv'
    <2> SUFFICES ASSUME TypeInv, AccountingInv, LandedInv, [Next]_vars PROVE LandedInv'
      OBVIOUS
    <2>1. CASE \E w \in Workers : WorkerStep(w)
      BY <2>1, WorkerLanded
    <2>2. CASE ~\E w \in Workers : WorkerStep(w)
      <3>1. Settling /\ UNCHANGED <<wpc, wbatch, attempt, landed>>
        BY <2>2, StepsSettle
      <3>2. \A w \in Workers : Made(w)' = Made(w)
        BY <3>1 DEF Made
      <3> QED
        BY <3>1, <3>2 DEF LandedInv, Settling, Tried
    <2> QED
      BY <2>1, <2>2
  <1>3. LandedInv => CountersMatchStorage
    <2> SUFFICES ASSUME LandedInv, NEW e \in Entry
                 PROVE  /\ fate[e] = "stored" => landed[e] > 0
                        /\ landed[e] > 0 => \/ fate[e] \in Tried
                                            \/ \E w \in Workers : e \in wbatch[w]
                        /\ landed[e] <= WriteAttempts
      BY DEF CountersMatchStorage, Tried
    <2>1. landed[e] = 0 => ~(landed[e] > 0)
      OBVIOUS
    <2> QED
      BY <2>1 DEF LandedInv
  <1> QED
    BY <1>1, <1>2, <1>3, AccountingHolds, PTL DEF Spec

-----------------------------------------------------------------------------
(* What a stopped pipeline still holds.                                    *)

\* A dispatcher drains only once softCtx is done, when the listeners' handlers are
\* gone; it returns with an empty queue, so what is queued later is from HTTP.
OnlyHttpAfterExit ==
    \A s \in Sources :
        /\ mode[s] # "run" => SoftDone
        /\ mode[s] = "exited" => \A e \in Range(queue[s]) : e[1] \in HttpProducers

\* No step puts an entry of a listener into the queue of a dispatcher that returned.
LEMMA StepExit ==
  TypeInv /\ AccountingInv /\ ShutdownInv /\ OnlyHttpAfterExit /\ [Next]_vars
     => OnlyHttpAfterExit'
  <1> SUFFICES ASSUME TypeInv, AccountingInv, ShutdownInv, OnlyHttpAfterExit, [Next]_vars
               PROVE  OnlyHttpAfterExit'
    OBVIOUS
  <1>1. SoftDone => SoftDone'
    <2>1. stop' = stop \/ CloseListeners \/ StopStep
      BY DEF Next, vars, ProducerStep, EnqueueStep, Ingest, RefuseMessage, Enqueue, DropNew,
             BlockShutdown, FindFull, Evict, HandlerExit, DispatcherStep, Take, SeeStop,
             Forward, ForwardHard, DiscardSource, QueueDrained, CloseIn, BatcherStep, Receive,
             Tick, SeeInClosed, FlushSend, FlushHard, BatcherHard, DiscardIn, DiscardInDone,
             WorkerStep, TakeBatch, WriteStart, WriteOk, WriteRejected, WriteUnavailable,
             WriteCancelled, BackoffElapsed, BackoffHard, WorkerExit, Terminated
    <2> QED
      BY <2>1 DEF SoftDone, CloseListeners, StopStep, BeginDrain, DrainDone, DrainTimeout,
                  AbortDone, StopTo
  <1>2. CASE UNCHANGED <<mode, queue>>
    BY <1>1, <1>2 DEF OnlyHttpAfterExit
  <1>3. CASE \E p \in Producers : ProducerStep(p)
    <2>1. PICK p \in Producers : ProducerStep(p)
      BY <1>3
    <2> DEFINE s == SourceOf[p]
               d == Current(p)
    <2>2. /\ mode' = mode /\ queue \in [Sources -> Seq(Entry)] /\ s \in Sources
          /\ IsInjective(queue[s])
      BY <2>1 DEF ProducerStep, EnqueueStep, Ingest, RefuseMessage, Enqueue, DropNew,
             BlockShutdown, FindFull, Evict, HandlerExit, TypeInv, TypeOK, AccountingInv,
             OnceEach, QueuesOnce
    <2>3. CASE Enqueue(p)
      <3>1. queue' = [queue EXCEPT ![s] = Append(queue[s], d)] /\ pc[p] # "gone" /\ d[1] = p
        BY <2>3 DEF Enqueue, Current
      <3>2. d \in Entry
        BY <2>3 DEF Enqueue, TypeInv, TypeOK, HandingOne, Handing, Current, Entry
      <3>3. mode[s] = "exited" => p \in HttpProducers
        BY <2>2, <3>1 DEF OnlyHttpAfterExit, ShutdownInv, HandlersGone
      <3>4. Range(queue'[s]) = Range(queue[s]) \cup {d} /\ \A t \in Sources \ {s} : queue'[t] = queue[t]
        <4>1. queue'[s] = Append(queue[s], d) /\ \A t \in Sources \ {s} : queue'[t] = queue[t]
          BY <2>2, <3>1
        <4> HIDE DEF d, s
        <4> QED
          BY <2>2, <3>2, <4>1, SendAdds
      <3> HIDE DEF s
      <3>5. \A t \in Sources : mode[t] = "exited" =>
               \A e \in Range(queue'[t]) : e[1] \in HttpProducers
        BY <3>1, <3>3, <3>4 DEF OnlyHttpAfterExit
      <3> QED
        BY <1>1, <2>2, <3>5 DEF OnlyHttpAfterExit
    <2>4. CASE Evict(p) /\ queue[s] # <<>>
      <3>1. \A t \in Sources : Range(queue'[t]) \subseteq Range(queue[t])
        BY <2>2, <2>4, QueuePops DEF Evict, TypeInv
      <3> QED
        BY <1>1, <2>2, <3>1 DEF OnlyHttpAfterExit
    <2>5. CASE ~Enqueue(p) /\ ~(Evict(p) /\ queue[s] # <<>>)
      <3>1. queue' = queue
        BY <2>1, <2>5 DEF ProducerStep, EnqueueStep, Ingest, RefuseMessage, DropNew,
               BlockShutdown, FindFull, Evict, HandlerExit
      <3> QED
        BY <1>2, <2>2, <3>1
    <2> QED
      BY <2>3, <2>4, <2>5
  <1>4. CASE \E s \in Sources : DispatcherStep(s)
    <2>1. PICK s \in Sources : DispatcherStep(s)
      BY <1>4
    <2>2. stop' = stop /\ mode \in [Sources -> DispatcherModes]
      BY <2>1 DEF DispatcherStep, Take, SeeStop, Forward, ForwardHard, DiscardSource,
             QueueDrained, TypeInv, TypeOK
    <2>3. CASE Take(s) \/ DiscardSource(s)
      <3>1. mode' = mode /\ queue[s] # <<>> /\ queue' = [queue EXCEPT ![s] = Tail(queue[s])]
        BY <2>3 DEF Take, DiscardSource
      <3>2. \A t \in Sources : Range(queue'[t]) \subseteq Range(queue[t])
        BY <3>1, QueuePops DEF TypeInv
      <3> QED
        BY <1>1, <3>1, <3>2 DEF OnlyHttpAfterExit
    <2>4. CASE SeeStop(s)
      BY <2>2, <2>4 DEF SeeStop, OnlyHttpAfterExit, SoftDone, HardDone
    <2>5. CASE Forward(s) \/ ForwardHard(s)
      BY <1>2, <2>5 DEF Forward, ForwardHard
    <2>6. CASE QueueDrained(s)
      <3>1. queue' = queue /\ queue[s] = <<>> /\ Range(queue[s]) = {}
        BY <2>6 DEF QueueDrained, Range
      <3>2. mode' = mode \/ (mode[s] # "run" /\ mode' = [mode EXCEPT ![s] = "exited"])
        BY <2>6 DEF QueueDrained
      <3> QED
        BY <1>1, <2>2, <3>1, <3>2 DEF OnlyHttpAfterExit
    <2> QED
      BY <2>1, <2>3, <2>4, <2>5, <2>6 DEF DispatcherStep
  <1>5. CASE \/ CloseIn \/ BatcherStep \/ (\E w \in Workers : WorkerStep(w))
             \/ CloseListeners \/ StopStep \/ Terminated \/ UNCHANGED vars
    <2>1. UNCHANGED <<mode, queue>>
      BY <1>5 DEF CloseIn, BatcherStep, Receive, Tick, SeeInClosed, FlushSend, FlushHard,
             BatcherHard, DiscardIn, DiscardInDone, WorkerStep, TakeBatch, WriteStart, WriteOk,
             WriteRejected, WriteUnavailable, WriteCancelled, BackoffElapsed, BackoffHard,
             WorkerExit, CloseListeners, StopStep, BeginDrain, DrainDone, DrainTimeout,
             AbortDone, StopTo, Terminated, vars
    <2> QED
      BY <1>2, <2>1
  <1> QED
    BY <1>3, <1>4, <1>5 DEF Next

\* A worker returns only when no batch is left, after the last flush.
NoBatchLeft == \A w \in Workers : wpc[w] = "done" => batches = <<>>

\* No step leaves a batch to workers that returned.
LEMMA StepBatch == TypeInv /\ ShutdownInv /\ NoBatchLeft /\ [Next]_vars => NoBatchLeft'
  <1> SUFFICES ASSUME TypeInv, ShutdownInv, NoBatchLeft, [Next]_vars PROVE NoBatchLeft'
    OBVIOUS
  <1>1. CASE BatcherStep
    <2>1. wpc' = wpc /\ (batches' = batches \/ bpc # "done")
      BY <1>1 DEF BatcherStep, Receive, Tick, SeeInClosed, FlushSend, FlushHard, BatcherHard,
             DiscardIn, DiscardInDone
    <2> QED
      BY <2>1 DEF NoBatchLeft, ShutdownInv, WorkersAfterBatcher
  <1>2. CASE \E w \in Workers : WorkerStep(w)
    <2>1. PICK w \in Workers : WorkerStep(w)
      BY <1>2
    <2>2. CASE TakeBatch(w)
      <3>1. /\ batches # <<>> /\ \A v \in Workers : wpc[v] # "done"
            /\ wpc' = [wpc EXCEPT ![w] = "call"] /\ wpc \in [Workers -> WorkerStates]
        BY <2>2 DEF TakeBatch, NoBatchLeft, TypeInv, TypeOK
      <3> QED
        BY <3>1 DEF NoBatchLeft
    <2>3. CASE WorkerExit(w)
      BY <2>3 DEF WorkerExit, NoBatchLeft
    <2>4. CASE /\ UNCHANGED <<batches, wbatch, fate>>
               /\ wpc[w] # "idle" /\ wpc'[w] # "idle" /\ wpc'[w] # "done"
               /\ \A v \in Workers \ {w} : wpc'[v] = wpc[v]
      BY <2>4 DEF NoBatchLeft
    <2>5. CASE batches' = batches /\ \E r \in Fates \ {"none"} : FinishBatch(w, r)
      <3>1. wpc' = [wpc EXCEPT ![w] = "idle"] /\ wpc \in [Workers -> WorkerStates]
        BY <2>5 DEF FinishBatch, TypeInv, TypeOK
      <3> QED
        BY <2>5, <3>1 DEF NoBatchLeft
    <2> QED
      BY <2>1, <2>2, <2>3, <2>4, <2>5, WorkerChoices DEF TypeInv
  <1>3. CASE UNCHANGED <<batches, wpc>>
    BY <1>3 DEF NoBatchLeft
  <1>4. CASE \/ \E p \in Producers : ProducerStep(p)
             \/ \E s \in Sources : DispatcherStep(s)
             \/ CloseIn \/ CloseListeners \/ StopStep \/ Terminated \/ UNCHANGED vars
    <2>1. UNCHANGED <<batches, wpc>>
      BY <1>4 DEF ProducerStep, EnqueueStep, Ingest, RefuseMessage, Enqueue, DropNew,
             BlockShutdown, FindFull, Evict, HandlerExit, DispatcherStep, Take, SeeStop,
             Forward, ForwardHard, DiscardSource, QueueDrained, CloseIn, CloseListeners,
             StopStep, BeginDrain, DrainDone, DrainTimeout, AbortDone, StopTo, Terminated, vars
    <2> QED
      BY <1>3, <2>1
  <1> QED
    BY <1>1, <1>2, <1>4 DEF Next

\* When Stop has returned every entry of a listener is settled; only HTTP requests can
\* have left one, in the queue of a dispatcher that returned or on its way there.
THEOREM ListenersAreDrained == Spec => []NothingLeftBehind
  <1>1. Init => OnlyHttpAfterExit
    BY DEF Init, OnlyHttpAfterExit, Range
  <1>2. Spec => [](TypeInv /\ AccountingInv /\ ShutdownInv)
    BY AccountingHolds, ShutdownOrder, PTL
  <1>3. Spec => [](OnlyHttpAfterExit /\ NoBatchLeft)
    <2>1. Init => NoBatchLeft
      BY DEF Init, NoBatchLeft
    <2> QED
      BY <1>1, <1>2, <2>1, StepExit, StepBatch, PTL DEF Spec
  <1>4. TypeInv /\ AccountingInv /\ ShutdownInv /\ OnlyHttpAfterExit /\ NoBatchLeft
           => NothingLeftBehind
    <2> SUFFICES ASSUME TypeInv, AccountingInv, ShutdownInv, OnlyHttpAfterExit, NoBatchLeft,
                        Stopped, NEW e \in InFlight
                 PROVE  /\ e[1] \in HttpProducers
                        /\ e \in At["producer"] \cup At["queue"]
                        /\ mode[SourceOf[e[1]]] = "exited"
      BY DEF NothingLeftBehind
    <2>1. \A w \in Workers : wpc[w] = "done"
      BY DEF ShutdownInv, WorkersAfterBatcher, WorkersDone
    <2>2. bpc = "done" /\ inClosed /\ in = <<>> /\ batch = {}
      BY <2>1 DEF ShutdownInv, WorkersAfterBatcher, BatcherEnds
    <2>3. \A s \in Sources : mode[s] = "exited" /\ hand[s] = NoEntry
      BY <2>2 DEF ShutdownInv, ClosedAfterDispatchers, DispatchersEmpty
    <2>4. PICK x \in PlaceNames \ {"settled"} : e \in At[x]
      <3>1. e \in Arrived /\ e \notin At["settled"]
        BY PlacesHold DEF InFlight
      <3> QED
        BY <3>1 DEF AccountingInv, Spread
    <2>5. At["dispatcher"] = {} /\ At["in"] = {} /\ At["batcher"] = {} /\ At["worker"] = {}
      BY <2>1, <2>2, <2>3, PlacesHold DEF Range, AccountingInv, EmptyWhenIdle
    <2>6. At["batches"] = {}
      <3>1. batches = <<>>
        BY <2>1 DEF NoBatchLeft
      <3> QED
        BY <3>1, PlacesHold DEF Range
    <2>7. x \in {"producer", "queue"}
      BY <2>4, <2>5, <2>6 DEF PlaceNames
    <2>8. CASE x = "producer"
      <3>1. PICK p \in Handing : e = Current(p)
        BY <2>4, <2>8, PlacesHold
      <3>2. p \in Producers /\ e[1] = p /\ pc[p] # "gone" /\ SourceOf[p] \in Sources
        BY <3>1 DEF Handing, Current
      <3>3. p \in HttpProducers
        BY <3>2 DEF ShutdownInv, HandlersGone, SoftDone, Stopped
      <3> QED
        BY <2>3, <2>4, <2>8, <3>2, <3>3
    <2>9. CASE x = "queue"
      <3>1. PICK s \in Sources : e \in Range(queue[s])
        BY <2>4, <2>9, PlacesHold
      <3>2. SourceOf[e[1]] = s /\ e[1] \in HttpProducers
        BY <2>3, <3>1 DEF AccountingInv, FromItsSource, OnlyHttpAfterExit
      <3> QED
        BY <2>3, <2>4, <2>9, <3>2
    <2> QED
      BY <2>7, <2>8, <2>9
  <1> QED
    BY <1>2, <1>3, <1>4, PTL

=============================================================================
