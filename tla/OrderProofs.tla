----------------------------- MODULE OrderProofs -----------------------------
(***************************************************************************)
(* Theorems about the order of entries: the messages of a producer stay in *)
(* the order they were read, and drop_oldest keeps the arriving one.       *)
(***************************************************************************)
EXTENDS AccountingProofs

USE ProducersAssumption, WorkersAssumption, LimitsAssumption, NoEntryAssumption
USE DEF prodVars, dispVars, inVars, batchVars, workVars, ledger, frontVars, backVars

-----------------------------------------------------------------------------
(* What ProducerOrder needs to be inductive.                               *)

\* The entries of one producer are in the order it read them.
Ordered(q) == \A i, j \in DOMAIN q : i < j /\ q[i][1] = q[j][1] => q[i][2] < q[j][2]

\* What A holds of a producer was read before what B holds of it.
Before(A, B) == \A a \in A, b \in B : a[1] = b[1] => a[2] < b[2]

\* The places an entry passes on its way to the storage: the lower, the further on.
Rank == [ worker |-> 0, batches |-> 0, batcher |-> 0, in |-> 1, dispatcher |-> 2,
          queue |-> 3 ]
Way == DOMAIN Rank

QueuesOrdered == \A s \in Sources : Ordered(queue[s])
FurtherIsEarlier == \A x, y \in Way : Rank[x] < Rank[y] => Before(At[x], At[y])

OrderInv == QueuesOrdered /\ Ordered(in) /\ FurtherIsEarlier

-----------------------------------------------------------------------------
(* Sequences.                                                              *)

\* A send keeps a channel ordered when what it sends was read last.
LEMMA SendKeepsOrder ==
  ASSUME NEW S, NEW q \in Seq(S), NEW d \in S, Ordered(q), Before(Range(q), {d})
  PROVE  Ordered(Append(q, d))
  <1> DEFINE r == Append(q, d)
             n == Len(q)
  <1>1. /\ DOMAIN q = 1..n /\ DOMAIN r = 1..(n + 1) /\ n \in Nat
        /\ \A i \in 1..n : r[i] = q[i]
        /\ r[n + 1] = d
    OBVIOUS
  <1> HIDE DEF r, n
  <1>2. SUFFICES ASSUME NEW i \in DOMAIN r, NEW j \in DOMAIN r, i < j, r[i][1] = r[j][1]
                 PROVE  r[i][2] < r[j][2]
    BY DEF Ordered, r
  <1>3. i \in 1..n
    BY <1>1, <1>2
  <1>4. CASE j \in 1..n
    BY <1>1, <1>2, <1>3, <1>4 DEF Ordered
  <1>5. CASE j = n + 1
    BY <1>1, <1>2, <1>3, <1>5 DEF Before, Range
  <1> QED
    BY <1>1, <1>4, <1>5

\* The head of a channel was read before the rest, which stays ordered.
LEMMA HeadReadFirst ==
  ASSUME NEW S, NEW q \in Seq(S), q # <<>>, Ordered(q)
  PROVE  Before({Head(q)}, Range(Tail(q))) /\ Ordered(Tail(q))
  <1> DEFINE r == Tail(q)
             n == Len(q)
  <1>1. /\ DOMAIN q = 1..n /\ n \in Nat \ {0} /\ Head(q) = q[1]
        /\ DOMAIN r = 1..(n - 1) /\ \A i \in 1..(n - 1) : r[i] = q[i + 1]
    BY HeadTailProperties, LenProperties
  <1> HIDE DEF r, n
  <1>2. Before({Head(q)}, Range(r))
    BY <1>1, SMTT(30) DEF Before, Range, Ordered
  <1>3. Ordered(r)
    <2> SUFFICES ASSUME NEW i \in DOMAIN r, NEW j \in DOMAIN r, i < j, r[i][1] = r[j][1]
                 PROVE  r[i][2] < r[j][2]
      BY DEF Ordered
    <2>1. i + 1 \in DOMAIN q /\ j + 1 \in DOMAIN q /\ i + 1 < j + 1
      BY <1>1
    <2> QED
      BY <1>1, <2>1 DEF Ordered
  <1> QED
    BY <1>2, <1>3 DEF r

\* Two ordered channels in a row are ordered when the first one's entries were read
\* before the second one's.
LEMMA JoinKeepsOrder ==
  ASSUME NEW S, NEW q \in Seq(S), NEW r \in Seq(S), Ordered(q), Ordered(r),
         Before(Range(q), Range(r))
  PROVE  /\ q \o r \in Seq(S) /\ Ordered(q \o r) /\ Range(q \o r) = Range(q) \cup Range(r)
  <1> DEFINE t == q \o r
             n == Len(q)
             m == Len(r)
  <1>1. /\ t \in Seq(S) /\ DOMAIN t = 1..(n + m) /\ n \in Nat /\ m \in Nat
        /\ DOMAIN q = 1..n /\ DOMAIN r = 1..m
        /\ \A i \in 1..n : t[i] = q[i]
        /\ \A i \in 1..(n + m) : i > n => t[i] = r[i - n]
    BY ConcatProperties, LenProperties
  <1> HIDE DEF t, n, m
  <1>2. \A i \in DOMAIN t : i \in 1..n \/ (i > n /\ i - n \in 1..m)
    BY <1>1
  <1>3. Ordered(t)
    <2> SUFFICES ASSUME NEW i \in DOMAIN t, NEW j \in DOMAIN t, i < j, t[i][1] = t[j][1]
                 PROVE  t[i][2] < t[j][2]
      BY DEF Ordered
    <2>1. CASE j \in 1..n
      <3>1. i \in 1..n
        BY <1>1, <2>1
      <3> QED
        BY <1>1, <2>1, <3>1 DEF Ordered
    <2>2. CASE i \in 1..n /\ j > n
      <3>1. j - n \in 1..m /\ t[j] = r[j - n] /\ t[i] = q[i]
        BY <1>1, <1>2, <2>2
      <3>2. t[i] \in Range(q) /\ t[j] \in Range(r)
        BY <1>1, <2>2, <3>1 DEF Range
      <3> QED
        BY <3>2 DEF Before
    <2>3. CASE i > n
      <3>1. PICK k \in 1..m : k = i - n
        BY <1>1, <1>2, <2>3
      <3>2. PICK l \in 1..m : l = j - n
        BY <1>1, <1>2, <2>3
      <3>3. k < l
        BY <1>1, <3>1, <3>2
      <3>4. t[i] = r[k] /\ t[j] = r[l]
        BY <1>1, <2>3, <3>1, <3>2
      <3>5. r[k][1] = r[l][1]
        BY <3>4
      <3>6. r[k][2] < r[l][2]
        BY <1>1, <3>3, <3>5 DEF Ordered
      <3> QED
        BY <3>4, <3>6
    <2> QED
      BY <1>1, <1>2, <2>1, <2>2, <2>3
  <1>4. Range(t) = Range(q) \cup Range(r)
    <2>1. \A e \in Range(t) : e \in Range(q) \cup Range(r)
      BY <1>1, <1>2 DEF Range
    <2>2. \A e \in Range(q) : e \in Range(t)
      BY <1>1 DEF Range
    <2>3. ASSUME NEW e \in Range(r) PROVE e \in Range(t)
      <3>1. PICK i \in 1..m : e = r[i]
        BY <1>1, <2>3 DEF Range
      <3>2. n + i \in 1..(n + m) /\ n + i > n /\ (n + i) - n = i
        BY <1>1
      <3> QED
        BY <1>1, <3>1, <3>2 DEF Range
    <2> QED
      BY <2>1, <2>2, <2>3
  <1> QED
    BY <1>1, <1>3, <1>4 DEF t

-----------------------------------------------------------------------------
(* What a step does to the order of the places.                            *)

\* The ranks: only those at the batcher and beyond share one.
LEMMA Ranks ==
  /\ Way = {"worker", "batches", "batcher", "in", "dispatcher", "queue"}
  /\ Way \subseteq PlaceNames \ {"producer", "settled"}
  /\ \A x \in Way : Rank[x] \in Nat
  /\ \A x, y \in Way : Rank[x] = Rank[y] /\ Rank[x] > 0 => x = y
  /\ Rank["worker"] = 0 /\ Rank["batches"] = 0 /\ Rank["batcher"] = 0 /\ Rank["in"] = 1
  /\ Rank["dispatcher"] = 2 /\ Rank["queue"] = 3
  BY DEF Way, Rank, PlaceNames

\* Entries that leave disturb no order.
LEMMA Thinned ==
  ASSUME FurtherIsEarlier, \A x \in Way : At'[x] \subseteq At[x]
  PROVE  FurtherIsEarlier'
  BY DEF FurtherIsEarlier, Before

\* Entries that take one step further disturb none when they were first where they were.
LEMMA Advances ==
  ASSUME FurtherIsEarlier, NEW a \in Way, NEW b \in Way, NEW X, X \subseteq At[a],
         At'[a] = At[a] \ X, At'[b] = At[b] \cup X,
         \A x \in Way \ {a, b} : At'[x] = At[x],
         Rank[b] = Rank[a] \/ (Rank[a] = Rank[b] + 1 /\ Before(X, At[a] \ X))
  PROVE  FurtherIsEarlier'
  <1> SUFFICES ASSUME NEW x \in Way, NEW y \in Way, Rank[x] < Rank[y],
                      NEW e \in At'[x], NEW f \in At'[y], e[1] = f[1]
               PROVE  e[2] < f[2]
    BY DEF FurtherIsEarlier, Before
  <1>1. /\ Rank[x] \in Nat /\ Rank[y] \in Nat /\ Rank[a] \in Nat /\ Rank[b] \in Nat
        /\ Rank[y] = Rank[a] => y = a
    BY Ranks
  <1>2. \A u, v \in Way : Rank[u] < Rank[v] /\ e \in At[u] /\ f \in At[v] => e[2] < f[2]
    BY DEF FurtherIsEarlier, Before
  <1>3. e \in At[x] \/ (x = b /\ e \in X)
    OBVIOUS
  <1>4. f \in At[y] \/ (y = b /\ f \in X)
    OBVIOUS
  <1>5. CASE e \in At[x] /\ f \in At[y]
    BY <1>2, <1>5
  <1>6. CASE y = b /\ f \in X /\ e \in At[x]
    <2>1. Rank[x] < Rank[a] /\ f \in At[a]
      BY <1>1, <1>6
    <2> QED
      BY <1>2, <1>6, <2>1
  <1>7. CASE x = b /\ e \in X /\ f \in At[y]
    <2>1. e \in At[a]
      BY <1>7
    <2>2. CASE Rank[a] < Rank[y]
      BY <1>2, <1>7, <2>1, <2>2
    <2>3. CASE ~(Rank[a] < Rank[y])
      <3>1. Rank[a] = Rank[b] + 1 /\ y = a
        BY <1>1, <1>7, <2>3
      <3>2. f \in At[a] \ X /\ Before(X, At[a] \ X)
        BY <1>1, <1>7, <3>1
      <3> QED
        BY <1>7, <3>2 DEF Before
    <2> QED
      BY <2>2, <2>3
  <1> QED
    BY <1>1, <1>3, <1>4, <1>5, <1>6, <1>7

\* An entry that comes last may enter the way.
LEMMA EntersLast ==
  ASSUME FurtherIsEarlier, NEW d, \A x \in Way : Before(At[x], {d}),
         At'["queue"] = At["queue"] \cup {d}, \A x \in Way \ {"queue"} : At'[x] = At[x]
  PROVE  FurtherIsEarlier'
  <1> SUFFICES ASSUME NEW x \in Way, NEW y \in Way, Rank[x] < Rank[y],
                      NEW e \in At'[x], NEW f \in At'[y], e[1] = f[1]
               PROVE  e[2] < f[2]
    BY DEF FurtherIsEarlier, Before
  <1>1. x # "queue"
    BY Ranks
  <1>2. e \in At[x] /\ (f \in At[y] \/ f = d)
    BY <1>1
  <1> QED
    BY <1>2 DEF FurtherIsEarlier, Before

\* Only the variables of a channel say how it is ordered.
LEMMA OrderKeeps ==
  ASSUME OrderInv
  PROVE  /\ queue' = queue => QueuesOrdered'
         /\ in' = in => Ordered(in')
         /\ UNCHANGED <<queue, hand, in, batch, batches, wbatch>> => OrderInv'
  <1>1. queue' = queue => QueuesOrdered'
    BY DEF OrderInv, QueuesOrdered
  <1>2. in' = in => Ordered(in')
    BY DEF OrderInv
  <1>3. ASSUME UNCHANGED <<queue, hand, in, batch, batches, wbatch>> PROVE FurtherIsEarlier'
    <2>1. \A x \in Way : At'[x] = At[x]
      BY <1>3, PlacesKeep, Ranks
    <2> QED
      BY <2>1, Thinned DEF OrderInv
  <1> QED
    BY <1>1, <1>2, <1>3 DEF OrderInv

\* What a producer hands over it read after all it has on the way.
LEMMA HandedIsLast ==
  ASSUME TypeInv, AccountingInv, NEW p \in Handing, NEW x \in Way
  PROVE  Before(At[x], {Current(p)})
  <1> DEFINE d == Current(p)
  <1>1. x \in PlaceNames \ {"producer"}
    BY Ranks
  <1> SUFFICES ASSUME NEW e \in At[x], e[1] = d[1] PROVE e[2] < d[2]
    BY DEF Before
  <1>2. d \in At["producer"] /\ "producer" \in PlaceNames
    BY PlacesHold DEF PlaceNames
  <1>3. e \in Arrived /\ e \in Entry /\ e \notin At["producer"]
    BY <1>1, <1>2, HeldOnce DEF AccountingInv
  <1>4. p \in Producers /\ sent[p] \in Nat
    BY DEF Handing, TypeInv, TypeOK
  <1>5. d[1] = p /\ d[2] = sent[p]
    BY DEF Current
  <1>6. e[1] = p /\ e[2] <= sent[p] /\ e[2] \in Nat
    BY <1>3, <1>4, <1>5 DEF Arrived, Entry
  <1>7. e[2] # sent[p]
    <2>1. SUFFICES ASSUME e[2] = sent[p] PROVE e = d
      BY <1>2, <1>3
    <2> QED
      BY <1>3, <1>6, <2>1 DEF Entry, Current
  <1> QED
    BY <1>4, <1>5, <1>6, <1>7

\* A queue that loses its head stays ordered, and its head was read before the rest of
\* what waits in queues.
LEMMA HeadOfQueue ==
  ASSUME TypeOK, AccountingInv, OrderInv, NEW s \in Sources, queue[s] # <<>>,
         queue' = [queue EXCEPT ![s] = Tail(queue[s])]
  PROVE  /\ QueuesOrdered'
         /\ Before({Head(queue[s])}, At["queue"] \ {Head(queue[s])})
  <1> DEFINE d == Head(queue[s])
  <1>1. queue[s] \in Seq(Entry) /\ queue \in [Sources -> Seq(Entry)] /\ IsInjective(queue[s])
    BY DEF TypeOK, AccountingInv, OnceEach, QueuesOnce
  <1>2. Before({d}, Range(Tail(queue[s]))) /\ Ordered(Tail(queue[s]))
    BY <1>1, HeadReadFirst DEF OrderInv, QueuesOrdered
  <1>3. QueuesOrdered'
    BY <1>1, <1>2 DEF OrderInv, QueuesOrdered
  <1>4. Range(Tail(queue[s])) = Range(queue[s]) \ {d} /\ d \in Range(queue[s])
    BY <1>1, ReceiveTakes
  <1>5. \A t \in Sources : \A e \in Range(queue[t]) : SourceOf[e[1]] = t
    BY DEF AccountingInv, FromItsSource
  <1> HIDE DEF d
  <1>6. ASSUME NEW e \in At["queue"], e # d, e[1] = d[1] PROVE d[2] < e[2]
    <2>1. PICK t \in Sources : e \in Range(queue[t])
      BY PlacesHold
    <2>2. t = s
      BY <1>4, <1>5, <1>6, <2>1
    <2>3. e \in Range(Tail(queue[s]))
      BY <1>4, <1>6, <2>1, <2>2
    <2> QED
      BY <1>2, <1>6, <2>3 DEF Before
  <1> QED
    BY <1>3, <1>6 DEF Before, d

-----------------------------------------------------------------------------
(* The steps.                                                              *)

\* A step of a producer: what it sends is the last it read.
LEMMA ProducerKeepsOrder ==
  ASSUME TypeInv, AccountingInv, OrderInv, NEW p \in Producers, ProducerStep(p)
  PROVE  OrderInv'
  <1> DEFINE s == SourceOf[p]
  <1>1. s \in Sources /\ queue \in [Sources -> Seq(Entry)] /\ queue[s] \in Seq(Entry) /\ TypeOK
    BY DEF TypeInv, TypeOK
  <1>2. UNCHANGED <<hand, in, batch, batches, wbatch>>
    BY DEF ProducerStep, EnqueueStep, Ingest, RefuseMessage, Enqueue, DropNew, BlockShutdown,
           FindFull, Evict, HandlerExit
  <1>3. \A x \in Way \ {"queue"} : At'[x] = At[x]
    BY <1>2, PlacesKeep, Ranks
  <1>4. CASE Enqueue(p)
    <2>1. p \in Handing /\ queue' = [queue EXCEPT ![s] = Append(queue[s], Current(p))]
      BY <1>4 DEF Enqueue, Handing
    <2>2. PICK d \in Entry : d = Current(p)
      <3>1. Current(p) \in Entry
        BY <2>1, PlacesHold, HeldOnce DEF AccountingInv, PlaceNames
      <3> QED
        BY <3>1
    <2>3. queue'[s] = Append(queue[s], d) /\ \A t \in Sources \ {s} : queue'[t] = queue[t]
      BY <1>1, <2>1, <2>2
    <2>4. \A x \in Way : Before(At[x], {d})
      BY <2>1, <2>2, HandedIsLast
    <2>5. Before(Range(queue[s]), {d})
      <3>1. Range(queue[s]) \subseteq At["queue"]
        BY <1>1, PlacesHold
      <3> QED
        BY <2>4, <3>1, Ranks DEF Before
    <2> HIDE DEF s
    <2>6. Range(queue'[s]) = Range(queue[s]) \cup {d} /\ Ordered(queue'[s])
      BY <1>1, <2>3, <2>5, SendAdds, SendKeepsOrder DEF OrderInv, QueuesOrdered
    <2>7. FurtherIsEarlier'
      BY <1>1, <1>3, <2>3, <2>4, <2>6, QueueGains, EntersLast DEF OrderInv
    <2>8. QueuesOrdered'
      BY <2>3, <2>6 DEF OrderInv, QueuesOrdered
    <2> QED
      BY <1>2, <2>7, <2>8 DEF OrderInv
  <1>5. CASE Evict(p) /\ queue[s] # <<>>
    <2>1. queue' = [queue EXCEPT ![s] = Tail(queue[s])]
      BY <1>5 DEF Evict
    <2>2. At'["queue"] \subseteq At["queue"] /\ QueuesOrdered'
      BY <1>1, <1>5, <2>1, QueuePops, HeadOfQueue
    <2>3. FurtherIsEarlier'
      BY <1>3, <2>2, Thinned DEF OrderInv
    <2> QED
      BY <1>2, <2>2, <2>3 DEF OrderInv
  <1>6. CASE ~Enqueue(p) /\ ~(Evict(p) /\ queue[s] # <<>>)
    <2>1. queue' = queue
      BY <1>6 DEF ProducerStep, EnqueueStep, Ingest, RefuseMessage, DropNew, BlockShutdown,
             FindFull, Evict, HandlerExit
    <2> QED
      BY <1>2, <2>1, OrderKeeps
  <1> QED
    BY <1>4, <1>5, <1>6

\* A step of a dispatcher: it takes the head of its queue, and forwards what it holds.
LEMMA DispatcherKeepsOrder ==
  ASSUME TypeInv, AccountingInv, OrderInv, NEW s \in Sources, DispatcherStep(s)
  PROVE  OrderInv'
  <1>1. /\ TypeOK /\ hand \in [Sources -> Entry \cup {NoEntry}] /\ in \in Seq(Entry)
        /\ Spread(At, Arrived)
    BY DEF TypeInv, TypeOK, AccountingInv
  <1>2. UNCHANGED <<batch, batches, wbatch>>
    BY DEF DispatcherStep, Take, SeeStop, Forward, ForwardHard, DiscardSource, QueueDrained
  <1>3. \A x \in {"batcher", "batches", "worker"} : At'[x] = At[x]
    BY <1>2, PlacesKeep
  <1>4. CASE Take(s)
    <2>1. /\ queue[s] # <<>> /\ hand[s] = NoEntry /\ in' = in
          /\ hand' = [hand EXCEPT ![s] = Head(queue[s])]
          /\ queue' = [queue EXCEPT ![s] = Tail(queue[s])]
      BY <1>4 DEF Take, Empty
    <2>2. /\ Head(queue[s]) \in At["queue"] /\ At'["queue"] = At["queue"] \ {Head(queue[s])}
          /\ QueuesOrdered' /\ Before({Head(queue[s])}, At["queue"] \ {Head(queue[s])})
      BY <1>1, <2>1, QueuePops, HeadOfQueue
    <2>3. Head(queue[s]) \in Entry
      BY <1>1, <2>2, HeldOnce DEF PlaceNames
    <2>4. PICK d \in Entry : d = Head(queue[s])
      BY <2>3
    <2>5. At'["dispatcher"] = At["dispatcher"] \cup {d}
      BY <1>1, <2>1, <2>4, HandMoves
    <2>6. \A x \in Way \ {"queue", "dispatcher"} : At'[x] = At[x]
      BY <1>3, <2>1, PlacesKeep, Ranks
    <2>7. PICK X : X = {d}
      OBVIOUS
    <2>8. /\ X \subseteq At["queue"] /\ At'["queue"] = At["queue"] \ X
          /\ At'["dispatcher"] = At["dispatcher"] \cup X /\ Before(X, At["queue"] \ X)
      BY <2>2, <2>4, <2>5, <2>7
    <2>9. FurtherIsEarlier'
      <3>1. /\ "queue" \in Way /\ "dispatcher" \in Way
            /\ Rank["queue"] = Rank["dispatcher"] + 1
        BY Ranks
      <3> QED
        BY <2>6, <2>8, <3>1, Advances DEF OrderInv
    <2> QED
      BY <2>1, <2>2, <2>9, OrderKeeps DEF OrderInv
  <1>5. CASE Forward(s) \/ ForwardHard(s)
    <2>1. PICK d \in Entry : d = hand[s]
      BY <1>1, <1>5 DEF Forward, ForwardHard
    <2>2. hand' = [hand EXCEPT ![s] = NoEntry] /\ queue' = queue
      BY <1>5 DEF Forward, ForwardHard
    <2>3. d \in At["dispatcher"] /\ At'["dispatcher"] = At["dispatcher"] \ {d}
      BY <1>1, <2>1, <2>2, HandMoves
    <2>4. CASE ForwardHard(s)
      <3>1. in' = in
        BY <2>4 DEF ForwardHard
      <3>2. \A x \in Way : At'[x] \subseteq At[x]
        BY <1>3, <2>2, <2>3, <3>1, PlacesKeep, Ranks
      <3> QED
        BY <2>2, <3>1, <3>2, Thinned, OrderKeeps DEF OrderInv
    <2>5. CASE Forward(s)
      <3>1. in' = Append(in, d)
        BY <2>1, <2>5 DEF Forward
      <3>2. Range(in') = Range(in) \cup {d} /\ Ordered(in')
        <4>1. Before(Range(in), {d})
          BY <2>3, PlacesHold, Ranks DEF OrderInv, FurtherIsEarlier, Before
        <4> QED
          BY <1>1, <3>1, <4>1, SendAdds, SendKeepsOrder DEF OrderInv
      <3>3. At'["in"] = At["in"] \cup {d}
        BY <3>2, PlacesHold, PlacesWillHold
      <3>4. Before({d}, At["dispatcher"] \ {d})
        <4> SUFFICES ASSUME NEW e \in At["dispatcher"], e # d, e[1] = d[1] PROVE FALSE
          BY DEF Before
        <4>1. PICK t \in Sources : e = hand[t] /\ hand[t] # NoEntry
          BY PlacesHold
        <4>2. SourceOf[e[1]] = t /\ SourceOf[d[1]] = s
          BY <2>1, <4>1 DEF AccountingInv, FromItsSource
        <4> QED
          BY <2>1, <4>1, <4>2
      <3>5. \A x \in Way \ {"in", "dispatcher"} : At'[x] = At[x]
        BY <1>3, <2>2, PlacesKeep, Ranks
      <3>6. PICK X : X = {d}
        OBVIOUS
      <3>7. /\ X \subseteq At["dispatcher"] /\ At'["dispatcher"] = At["dispatcher"] \ X
            /\ At'["in"] = At["in"] \cup X /\ Before(X, At["dispatcher"] \ X)
        BY <2>3, <3>3, <3>4, <3>6
      <3>8. FurtherIsEarlier'
        <4>1. "in" \in Way /\ "dispatcher" \in Way /\ Rank["dispatcher"] = Rank["in"] + 1
          BY Ranks
        <4> QED
          BY <3>5, <3>7, <4>1, Advances DEF OrderInv
      <3> QED
        BY <2>2, <3>2, <3>8, OrderKeeps DEF OrderInv
    <2> QED
      BY <1>5, <2>4, <2>5
  <1>6. CASE DiscardSource(s)
    <2>1. /\ queue[s] # <<>> /\ queue' = [queue EXCEPT ![s] = Tail(queue[s])]
          /\ UNCHANGED <<hand, in>>
      BY <1>6 DEF DiscardSource
    <2>2. At'["queue"] \subseteq At["queue"] /\ QueuesOrdered'
      BY <1>1, <2>1, QueuePops, HeadOfQueue
    <2>3. \A x \in Way : At'[x] \subseteq At[x]
      BY <1>3, <2>1, <2>2, PlacesKeep, Ranks
    <2> QED
      BY <2>1, <2>2, <2>3, Thinned, OrderKeeps DEF OrderInv
  <1>7. CASE SeeStop(s) \/ QueueDrained(s)
    <2>1. UNCHANGED <<queue, hand, in>>
      BY <1>7 DEF SeeStop, QueueDrained
    <2> QED
      BY <1>2, <2>1, OrderKeeps
  <1> QED
    BY <1>4, <1>5, <1>6, <1>7 DEF DispatcherStep

\* A step of the batcher: it takes the head of in, and hands its batch over whole.
LEMMA BatcherKeepsOrder ==
  ASSUME TypeInv, AccountingInv, OrderInv, BatcherStep
  PROVE  OrderInv'
  <1>1. /\ in \in Seq(Entry) /\ IsInjective(in) /\ batches \in Seq(SUBSET Entry)
        /\ batch \in SUBSET Entry /\ BatchesOnce /\ Spread(At, Arrived)
    BY DEF TypeInv, TypeOK, AccountingInv, OnceEach
  <1>2. UNCHANGED <<queue, hand, wbatch>>
    BY DEF BatcherStep, Receive, Tick, SeeInClosed, FlushSend, FlushHard, BatcherHard,
           DiscardIn, DiscardInDone
  <1>3. \A x \in {"queue", "dispatcher", "worker"} : At'[x] = At[x]
    BY <1>2, PlacesKeep
  <1>4. ASSUME in # <<>>, in' = Tail(in)
        PROVE  /\ Head(in) \in At["in"] /\ At'["in"] = At["in"] \ {Head(in)}
               /\ Ordered(in') /\ Before({Head(in)}, At["in"] \ {Head(in)})
    <2>1. Head(in) \in Range(in) /\ Range(in') = Range(in) \ {Head(in)}
      BY <1>1, <1>4, ReceiveTakes
    <2>2. Ordered(in') /\ Before({Head(in)}, Range(in'))
      BY <1>1, <1>4, HeadReadFirst DEF OrderInv
    <2> QED
      BY <2>1, <2>2, PlacesHold, PlacesWillHold
  <1>5. CASE \E heavy \in BOOLEAN : Receive(heavy)
    <2>1. in # <<>> /\ in' = Tail(in) /\ batch' = batch \cup {Head(in)} /\ batches' = batches
      BY <1>5 DEF Receive
    <2>2. PICK X : X = {Head(in)}
      OBVIOUS
    <2>3. /\ X \subseteq At["in"] /\ At'["in"] = At["in"] \ X /\ Before(X, At["in"] \ X)
          /\ Ordered(in')
      BY <1>4, <2>1, <2>2
    <2>4. At'["batcher"] = At["batcher"] \cup X
      BY <2>1, <2>2, PlacesHold, PlacesWillHold
    <2>5. \A x \in Way \ {"in", "batcher"} : At'[x] = At[x]
      BY <1>3, <2>1, PlacesKeep, Ranks
    <2>6. FurtherIsEarlier'
      <3>1. "in" \in Way /\ "batcher" \in Way /\ Rank["in"] = Rank["batcher"] + 1
        BY Ranks
      <3> QED
        BY <2>3, <2>4, <2>5, <3>1, Advances DEF OrderInv
    <2> QED
      BY <1>2, <2>3, <2>6, OrderKeeps DEF OrderInv
  <1>6. CASE DiscardIn
    <2>1. in # <<>> /\ in' = Tail(in) /\ UNCHANGED <<batch, batches>>
      BY <1>6 DEF DiscardIn
    <2>2. Ordered(in') /\ At'["in"] \subseteq At["in"]
      BY <1>4, <2>1
    <2>3. \A x \in Way : At'[x] \subseteq At[x]
      BY <1>3, <2>1, <2>2, PlacesKeep, Ranks
    <2> QED
      BY <1>2, <2>2, <2>3, Thinned, OrderKeeps DEF OrderInv
  <1>7. CASE FlushSend
    <2>1. batches' = Append(batches, batch) /\ batch' = {} /\ in' = in
      BY <1>7 DEF FlushSend
    <2>2. PICK X \in SUBSET Entry : X = batch
      BY <1>1
    <2>3. X = At["batcher"] /\ At'["batcher"] = {} /\ X \cap UNION Range(batches) = {}
      <3>1. At["batcher"] \cap At["batches"] = {}
        BY <1>1 DEF Spread, PlaceNames
      <3> QED
        BY <2>1, <2>2, <3>1, PlacesHold, PlacesWillHold
    <2>4. At'["batches"] = At["batches"] \cup X
      BY <1>1, <2>1, <2>2, <2>3, SendAddsBatch, PlacesHold, PlacesWillHold
    <2>5. \A x \in Way \ {"batcher", "batches"} : At'[x] = At[x]
      BY <1>3, <2>1, PlacesKeep, Ranks
    <2>6. FurtherIsEarlier'
      <3>1. "batcher" \in Way /\ "batches" \in Way /\ Rank["batches"] = Rank["batcher"]
        BY Ranks
      <3>2. X \subseteq At["batcher"] /\ At'["batcher"] = At["batcher"] \ X
        BY <2>3
      <3> QED
        BY <2>4, <2>5, <3>1, <3>2, Advances DEF OrderInv
    <2> QED
      BY <1>2, <2>1, <2>6, OrderKeeps DEF OrderInv
  <1>8. CASE FlushHard \/ BatcherHard
    <2>1. batch' = {} /\ UNCHANGED <<in, batches>>
      BY <1>8 DEF FlushHard, BatcherHard
    <2>2. \A x \in Way : At'[x] \subseteq At[x]
      BY <1>3, <2>1, PlacesKeep, PlacesWillHold, Ranks
    <2> QED
      BY <1>2, <2>1, <2>2, Thinned, OrderKeeps DEF OrderInv
  <1>9. CASE Tick \/ SeeInClosed \/ DiscardInDone
    <2>1. UNCHANGED <<in, batch, batches>>
      BY <1>9 DEF Tick, SeeInClosed, DiscardInDone
    <2> QED
      BY <1>2, <2>1, OrderKeeps
  <1> QED
    BY <1>5, <1>6, <1>7, <1>8, <1>9 DEF BatcherStep

\* A step of a worker: a batch it takes was past in already.
LEMMA WorkerKeepsOrder ==
  ASSUME TypeInv, AccountingInv, OrderInv, NEW w \in Workers, WorkerStep(w)
  PROVE  OrderInv'
  <1>1. /\ TypeOK /\ batches \in Seq(SUBSET Entry) /\ BatchesOnce
        /\ wbatch \in [Workers -> SUBSET Entry]
    BY DEF TypeInv, TypeOK, AccountingInv, OnceEach
  <1>2. UNCHANGED <<queue, hand, in, batch>>
    BY WorkerLeaves
  <1>3. \A x \in {"queue", "dispatcher", "in", "batcher"} : At'[x] = At[x]
    BY <1>2, PlacesKeep
  <1>4. CASE TakeBatch(w)
    <2>1. /\ batches # <<>> /\ batches' = Tail(batches)
          /\ wbatch[w] = {} /\ wbatch' = [wbatch EXCEPT ![w] = Head(batches)]
      BY <1>1, <1>4 DEF TakeBatch, AccountingInv, EmptyWhenIdle
    <2>2. /\ Head(batches) \subseteq UNION Range(batches)
          /\ UNION Range(batches') = (UNION Range(batches)) \ Head(batches)
      BY <1>1, <2>1, ReceiveTakesBatch
    <2>3. PICK X \in SUBSET Entry : X = Head(batches)
      BY <1>1, <2>1
    <2>4. X \subseteq At["batches"] /\ At'["batches"] = At["batches"] \ X
      BY <2>2, <2>3, PlacesHold, PlacesWillHold
    <2>5. At'["worker"] = At["worker"] \cup X
      BY <1>1, <2>1, <2>3, BatchMoves
    <2>6. \A x \in Way \ {"batches", "worker"} : At'[x] = At[x]
      BY <1>3, Ranks
    <2>7. FurtherIsEarlier'
      <3>1. "batches" \in Way /\ "worker" \in Way /\ Rank["worker"] = Rank["batches"]
        BY Ranks
      <3> QED
        BY <2>4, <2>5, <2>6, <3>1, Advances DEF OrderInv
    <2> QED
      BY <1>2, <2>7, OrderKeeps DEF OrderInv
  <1>5. CASE UNCHANGED <<batches, wbatch>>
    BY <1>2, <1>5, OrderKeeps
  <1>6. CASE batches' = batches /\ \E r \in Fates \ {"none"} : FinishBatch(w, r)
    <2>1. wbatch' = [wbatch EXCEPT ![w] = {}] /\ batches' = batches
      BY <1>6 DEF FinishBatch
    <2>2. At'["worker"] \subseteq At["worker"]
      BY <1>1, <2>1, BatchMoves, ZenonT(30)
    <2>3. \A x \in Way : At'[x] \subseteq At[x]
      BY <1>3, <2>1, <2>2, PlacesKeep, Ranks
    <2> QED
      BY <1>2, <2>3, Thinned, OrderKeeps DEF OrderInv
  <1>7. CASE WorkerExit(w)
    BY <1>5, <1>7 DEF WorkerExit
  <1> QED
    BY <1>1, <1>4, <1>5, <1>6, <1>7, WorkerChoices

\* Every step keeps the entries of a producer in order.
LEMMA StepOrder == TypeInv /\ AccountingInv /\ OrderInv /\ [Next]_vars => OrderInv'
  <1> SUFFICES ASSUME TypeInv, AccountingInv, OrderInv, [Next]_vars PROVE OrderInv'
    OBVIOUS
  <1>1. CASE CloseIn \/ CloseListeners \/ StopStep \/ Terminated \/ UNCHANGED vars
    <2>1. UNCHANGED <<queue, hand, in, batch, batches, wbatch>>
      BY <1>1 DEF CloseIn, CloseListeners, StopStep, BeginDrain, DrainDone, DrainTimeout,
                  AbortDone, StopTo, Terminated, vars
    <2> QED
      BY <2>1, OrderKeeps
  <1> QED
    BY <1>1, ProducerKeepsOrder, DispatcherKeepsOrder, BatcherKeepsOrder, WorkerKeepsOrder
       DEF Next

\* At the start the pipeline is empty.
LEMMA InitOrder == Init => OrderInv
  <1> SUFFICES ASSUME Init PROVE OrderInv
    OBVIOUS
  <1>1. \A x \in Way : At[x] = {}
    BY PlacesHold, Ranks DEF Init, Range
  <1> QED
    BY <1>1 DEF Init, OrderInv, QueuesOrdered, Ordered, FurtherIsEarlier, Before

-----------------------------------------------------------------------------
(* The theorems.                                                           *)

\* OrderInv states ProducerOrder of what waits upstream of the batcher.
LEMMA InvIsProducerOrder == TypeInv /\ AccountingInv /\ OrderInv => ProducerOrder
  <1> SUFFICES ASSUME TypeInv, AccountingInv, OrderInv, NEW s \in Sources
               PROVE  LET u == Upstream(s) IN
                        \A i \in DOMAIN u :
                           /\ \A j \in DOMAIN u :
                                 i < j /\ u[i][1] = u[j][1] => u[i][2] < u[j][2]
                           /\ \A e \in At.batcher \cup At.batches \cup At.worker :
                                 e[1] = u[i][1] => e[2] < u[i][2]
    BY DEF ProducerOrder
  <1> DEFINE h == IF hand[s] = NoEntry THEN <<>> ELSE <<hand[s]>>
             u == Upstream(s)
  <1>1. in \in Seq(Entry) /\ queue[s] \in Seq(Entry) /\ hand[s] \in Entry \cup {NoEntry}
    BY DEF TypeInv, TypeOK
  <1>2. h \in Seq(Entry) /\ Ordered(h) /\ Range(h) \subseteq At["dispatcher"]
    <2>1. CASE hand[s] = NoEntry
      BY <2>1 DEF Ordered, Range
    <2>2. CASE hand[s] # NoEntry
      <3>1. h = <<hand[s]>> /\ hand[s] \in Entry /\ hand[s] \in At["dispatcher"]
        BY <1>1, <2>2, PlacesHold
      <3> QED
        BY <3>1 DEF Ordered, Range
    <2> QED
      BY <2>1, <2>2
  <1>3. Range(in) = At["in"] /\ Range(queue[s]) \subseteq At["queue"]
    BY PlacesHold
  <1>4. u = (in \o h) \o queue[s]
    BY DEF Upstream
  <1> HIDE DEF h, u
  <1>5. \A x, y \in Way : Rank[x] < Rank[y] => Before(At[x], At[y])
    BY DEF OrderInv, FurtherIsEarlier
  <1>6. /\ Before(At["in"], At["dispatcher"]) /\ Before(At["in"], At["queue"])
        /\ Before(At["dispatcher"], At["queue"])
    BY <1>5, Ranks
  <1>7. Before(Range(in), Range(h)) /\ Before(Range(in) \cup Range(h), Range(queue[s]))
    BY <1>2, <1>3, <1>6 DEF Before
  <1>8. in \o h \in Seq(Entry) /\ Ordered(in \o h) /\ Range(in \o h) = Range(in) \cup Range(h)
    BY <1>1, <1>2, <1>7, JoinKeepsOrder DEF OrderInv
  <1>9. Ordered(u) /\ Range(u) = Range(in \o h) \cup Range(queue[s])
    <2>1. PICK v \in Seq(Entry) : v = in \o h
      BY <1>8
    <2>2. Before(Range(v), Range(queue[s]))
      BY <1>7, <1>8, <2>1 DEF Before
    <2>3. Ordered(v) /\ Ordered(queue[s]) /\ u = v \o queue[s]
      BY <1>4, <1>8, <2>1 DEF OrderInv, QueuesOrdered
    <2>4. PICK q \in Seq(Entry) : q = queue[s]
      BY <1>1
    <2>5. Ordered(v \o q) /\ Range(v \o q) = Range(v) \cup Range(q)
      BY <2>2, <2>3, <2>4, JoinKeepsOrder
    <2> QED
      BY <2>1, <2>3, <2>4, <2>5
  <1>10. \A x \in {"batcher", "batches", "worker"}, y \in {"in", "dispatcher", "queue"} :
            Before(At[x], At[y])
    BY <1>5, Ranks
  <1>11. Before(At["batcher"] \cup At["batches"] \cup At["worker"], Range(u))
    BY <1>2, <1>3, <1>8, <1>9, <1>10 DEF Before
  <1>12. ASSUME NEW i \in DOMAIN u
         PROVE  /\ \A j \in DOMAIN u : i < j /\ u[i][1] = u[j][1] => u[i][2] < u[j][2]
                /\ \A e \in At["batcher"] \cup At["batches"] \cup At["worker"] :
                      e[1] = u[i][1] => e[2] < u[i][2]
    <2>1. u[i] \in Range(u)
      BY DEF Range
    <2> QED
      BY <1>9, <1>11, <2>1 DEF Ordered, Before
  <1> QED
    BY <1>12 DEF u

\* Messages of one connection or socket stay in the order they were read, whatever is
\* evicted or dropped between them.
THEOREM OrderOfProducers == Spec => []ProducerOrder
  BY AccountingHolds, InitOrder, StepOrder, InvIsProducerOrder, PTL DEF Spec

\* A lone producer of a source finds room after its eviction, since only it fills the
\* queue: under drop_oldest the arriving entry is never the one dropped.
THEOREM LoneProducerFindsRoom == Spec => []LoneProducerKeepsNew
  <1>1. Init => LoneProducerKeepsNew
    BY DEF Init, LoneProducerKeepsNew
  <1>2. TypeOK /\ LoneProducerKeepsNew /\ [Next]_vars => LoneProducerKeepsNew'
    <2> SUFFICES ASSUME TypeOK, LoneProducerKeepsNew, [Next]_vars,
                        NEW p \in Producers, pc'[p] = "retry",
                        \A q \in Producers \ {p} : SourceOf[q] # SourceOf[p]
                 PROVE  ~QueueFull(SourceOf[p])'
      BY DEF LoneProducerKeepsNew
    <2> DEFINE s == SourceOf[p]
    <2>1. /\ s \in Sources /\ queue \in [Sources -> Seq(Entry)] /\ queue[s] \in Seq(Entry)
          /\ Len(queue[s]) \in Nat /\ Len(queue[s]) <= QueueCap /\ QueueCap \in Nat \ {0}
      BY DEF TypeOK
    <2>2. queue[s] # <<>> => Len(Tail(queue[s])) = Len(queue[s]) - 1
      BY <2>1, HeadTailProperties
    <2>3. pc[p] = "retry" => Len(queue[s]) < QueueCap
      BY <2>1 DEF LoneProducerKeepsNew, QueueFull
    <2>4. CASE ProducerStep(p)
      <3>1. Evict(p) \/ UNCHANGED <<pc, queue>>
        BY <2>4 DEF ProducerStep, EnqueueStep, Ingest, RefuseMessage, Enqueue, DropNew,
               BlockShutdown, FindFull, HandlerExit, TypeOK
      <3>2. CASE Evict(p)
        <4>1. queue'[s] = IF queue[s] = <<>> THEN <<>> ELSE Tail(queue[s])
          BY <2>1, <3>2 DEF Evict
        <4>2. Len(queue'[s]) < QueueCap
          BY <2>1, <2>2, <4>1
        <4> QED
          BY <2>1, <4>1, <4>2 DEF QueueFull
      <3>3. CASE UNCHANGED <<pc, queue>>
        BY <2>1, <2>3, <3>3 DEF QueueFull
      <3> QED
        BY <3>1, <3>2, <3>3
    <2>5. ASSUME NEW q \in Producers \ {p}, ProducerStep(q)
          PROVE  ~QueueFull(s)'
      <3>1. pc'[p] = pc[p] /\ queue'[s] = queue[s]
        BY <2>1, <2>5 DEF ProducerStep, EnqueueStep, Ingest, RefuseMessage, Enqueue, DropNew,
               BlockShutdown, FindFull, Evict, HandlerExit, TypeOK
      <3> QED
        BY <2>1, <2>3, <3>1 DEF QueueFull
    <2>6. ASSUME NEW t \in Sources, DispatcherStep(t)
          PROVE  ~QueueFull(s)'
      <3>1. pc' = pc /\ (queue'[s] = queue[s] \/ (queue[s] # <<>> /\ queue'[s] = Tail(queue[s])))
        BY <2>1, <2>6 DEF DispatcherStep, Take, SeeStop, Forward, ForwardHard, DiscardSource,
               QueueDrained
      <3>2. Len(queue'[s]) < QueueCap
        BY <2>1, <2>2, <2>3, <3>1
      <3> QED
        BY <2>1, <3>1, <3>2 DEF QueueFull
    <2>7. CASE \/ CloseIn \/ BatcherStep \/ (\E w \in Workers : WorkerStep(w))
               \/ CloseListeners \/ StopStep \/ Terminated \/ UNCHANGED vars
      <3>1. UNCHANGED <<pc, queue>>
        BY <2>7, WorkerLeaves DEF CloseIn, BatcherStep, Receive, Tick, SeeInClosed, FlushSend,
               FlushHard, BatcherHard, DiscardIn, DiscardInDone, CloseListeners, StopStep,
               BeginDrain, DrainDone, DrainTimeout, AbortDone, StopTo, Terminated, vars
      <3> QED
        BY <2>1, <2>3, <3>1 DEF QueueFull
    <2> QED
      BY <2>4, <2>5, <2>6, <2>7 DEF Next
  <1> QED
    BY <1>1, <1>2, TypeCorrect, PTL DEF Spec

=============================================================================
