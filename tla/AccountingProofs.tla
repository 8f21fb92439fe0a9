-------------------------- MODULE AccountingProofs --------------------------
(***************************************************************************)
(* Theorems about the accounting of entries: an entry is at one place at a *)
(* time until it is settled.  Every step of the pipeline either moves      *)
(* entries from one place to another, or lets one in, or moves none.       *)
(***************************************************************************)
EXTENDS ShutdownProofs

USE ProducersAssumption, WorkersAssumption, LimitsAssumption, NoEntryAssumption
USE DEF prodVars, dispVars, inVars, batchVars, workVars, ledger, frontVars, backVars

-----------------------------------------------------------------------------
(* What AccountedOnce needs to be inductive.                               *)

PlaceNames == {"producer", "queue", "dispatcher", "in", "batcher", "batches",
               "worker", "settled"}

\* The entries of A are spread over the places, each at one of them.
Spread(f, A) ==
    /\ UNION {f[x] : x \in PlaceNames} = A
    /\ \A x, y \in PlaceNames : x # y => f[x] \cap f[y] = {}

\* No two places within a place share an entry.
QueuesOnce == \A s \in Sources : IsInjective(queue[s])
HandsOnce == \A s, t \in Sources : s # t /\ hand[s] # NoEntry => hand[s] # hand[t]
BatchesOnce == \A i, j \in DOMAIN batches : i # j => batches[i] \cap batches[j] = {}
WorkersOnce == \A v, w \in Workers : v # w => wbatch[v] \cap wbatch[w] = {}
OnceEach == QueuesOnce /\ HandsOnce /\ IsInjective(in) /\ BatchesOnce /\ WorkersOnce

\* A source's queue and its dispatcher hold entries of that source only, and a
\* worker that has no batch holds none.
FromItsSource ==
    \A s \in Sources :
        /\ \A e \in Range(queue[s]) : SourceOf[e[1]] = s
        /\ hand[s] # NoEntry => SourceOf[hand[s][1]] = s

EmptyWhenIdle == \A w \in Workers : wpc[w] \in {"idle", "done"} => wbatch[w] = {}

AccountingInv ==
    Spread(At, Arrived) /\ OnceEach /\ FromItsSource /\ EmptyWhenIdle

\* AccountingInv states AccountedOnce.
LEMMA InvIsAccountedOnce == AccountingInv => AccountedOnce
  <1>1. Places = PlaceNames
    BY DEF Places, At, PlaceNames
  <1> QED
    BY <1>1 DEF AccountingInv, AccountedOnce, Spread, OnceEach, QueuesOnce, HandsOnce,
                BatchesOnce, WorkersOnce

-----------------------------------------------------------------------------
(* Moves between places.                                                   *)

\* An entry that comes in stays at one place too.
LEMMA EntrySpreads ==
  ASSUME NEW f, NEW g, NEW A, NEW B, NEW b \in PlaceNames, NEW d,
         Spread(f, A), d \notin A, B = A \cup {d},
         g[b] = f[b] \cup {d}, \A x \in PlaceNames \ {b} : g[x] = f[x]
  PROVE  Spread(g, B)
  <1>1. \A x \in PlaceNames : d \notin f[x]
    BY DEF Spread
  <1>2. \A x \in PlaceNames : \A e \in g[x] : e \in f[x] \/ (x = b /\ e = d)
    OBVIOUS
  <1>3. \A x, y \in PlaceNames : x # y => g[x] \cap g[y] = {}
    <2> SUFFICES ASSUME NEW x \in PlaceNames, NEW y \in PlaceNames, x # y,
                        NEW e, e \in g[x], e \in g[y]
                 PROVE  FALSE
      OBVIOUS
    <2>1. \A u, v \in PlaceNames : e \in f[u] /\ e \in f[v] => u = v
      BY DEF Spread
    <2> QED
      BY <1>1, <1>2, <2>1
  <1>4. \A e : (\E x \in PlaceNames : e \in g[x])
                <=> (e = d \/ \E x \in PlaceNames : e \in f[x])
    OBVIOUS
  <1>5. UNION {g[x] : x \in PlaceNames} = B
    BY <1>4 DEF Spread
  <1> QED
    BY <1>3, <1>5 DEF Spread

\* Where nothing moves everything stays spread.
LEMMA StaySpreads ==
  ASSUME NEW f, NEW g, NEW A, NEW B, Spread(f, A), B = A,
         \A x \in PlaceNames : g[x] = f[x]
  PROVE  Spread(g, B)
  <1>1. {g[x] : x \in PlaceNames} = {f[x] : x \in PlaceNames}
    OBVIOUS
  <1> QED
    BY <1>1 DEF Spread

-----------------------------------------------------------------------------
(* Channels: what a send and a receive do to the entries inside.           *)

\* A send adds the entry it sends.
LEMMA SendAdds ==
  ASSUME NEW S, NEW q \in Seq(S), NEW d \in S
  PROVE  /\ Range(Append(q, d)) = Range(q) \cup {d}
         /\ IsInjective(q) /\ d \notin Range(q) => IsInjective(Append(q, d))
  <1> DEFINE r == Append(q, d)
  <1>1. /\ DOMAIN q = 1..Len(q) /\ DOMAIN r = 1..(Len(q) + 1) /\ Len(q) \in Nat
        /\ \A i \in 1..Len(q) : r[i] = q[i]
        /\ r[Len(q) + 1] = d
    OBVIOUS
  <1> HIDE DEF r
  <1>2. Range(r) = Range(q) \cup {d}
    <2>1. \A e \in Range(r) : e \in Range(q) \cup {d}
      BY <1>1 DEF Range
    <2>2. \A e \in Range(q) : e \in Range(r)
      BY <1>1 DEF Range
    <2>3. d \in Range(r)
      BY <1>1 DEF Range
    <2> QED
      BY <2>1, <2>2, <2>3
  <1>3. ASSUME IsInjective(q), d \notin Range(q) PROVE IsInjective(r)
    <2>1. \A i \in 1..Len(q) : r[i] # d
      BY <1>1, <1>3 DEF Range
    <2> QED
      BY <1>1, <1>3, <2>1 DEF IsInjective
  <1> QED
    BY <1>2, <1>3 DEF r

\* A receive takes the head away, and nothing else.
LEMMA ReceiveTakes ==
  ASSUME NEW S, NEW q \in Seq(S), q # <<>>, IsInjective(q)
  PROVE  /\ Head(q) \in Range(q) /\ Range(Tail(q)) = Range(q) \ {Head(q)}
         /\ IsInjective(Tail(q))
  <1> DEFINE r == Tail(q)
             n == Len(q)
  <1>1. /\ DOMAIN q = 1..n /\ n \in Nat \ {0} /\ Head(q) = q[1]
        /\ DOMAIN r = 1..(n - 1) /\ \A i \in 1..(n - 1) : r[i] = q[i + 1]
    BY HeadTailProperties, LenProperties
  <1> HIDE DEF r, n
  <1>2. Head(q) \in Range(q)
    BY <1>1 DEF Range
  <1>3. \A i, j \in 1..n : q[i] = q[j] => i = j
    BY <1>1 DEF IsInjective
  <1>4. \A e \in Range(r) : e \in Range(q) /\ e # Head(q)
    BY <1>1, <1>3, SMTT(30) DEF Range
  <1>5. ASSUME NEW e \in Range(q), e # Head(q) PROVE e \in Range(r)
    <2>1. PICK i \in 1..n : e = q[i]
      BY <1>1 DEF Range
    <2>2. i # 1 /\ i - 1 \in 1..(n - 1)
      BY <1>1, <1>5, <2>1
    <2>3. r[i - 1] = e
      BY <1>1, <2>1, <2>2
    <2> QED
      BY <1>1, <2>2, <2>3 DEF Range
  <1>6. IsInjective(r)
    BY <1>1, <1>3 DEF IsInjective
  <1> QED
    BY <1>2, <1>4, <1>5, <1>6 DEF r

\* The same for the channel of batches, whose elements are sets of entries.
LEMMA SendAddsBatch ==
  ASSUME batches \in Seq(SUBSET Entry), NEW X \in SUBSET Entry, batches' = Append(batches, X),
         BatchesOnce, X \cap UNION Range(batches) = {}
  PROVE  UNION Range(batches') = (UNION Range(batches)) \cup X /\ BatchesOnce'
  <1>1. /\ DOMAIN batches = 1..Len(batches) /\ Len(batches) \in Nat
        /\ DOMAIN batches' = 1..(Len(batches) + 1)
        /\ \A i \in 1..Len(batches) : batches'[i] = batches[i]
        /\ batches'[Len(batches) + 1] = X
    OBVIOUS
  <1>2. Range(batches') = Range(batches) \cup {X}
    BY SendAdds
  <1>3. \A i \in DOMAIN batches : batches[i] \cap X = {}
    BY DEF Range
  <1> QED
    BY <1>1, <1>2, <1>3 DEF BatchesOnce

LEMMA ReceiveTakesBatch ==
  ASSUME batches \in Seq(SUBSET Entry), batches # <<>>, batches' = Tail(batches), BatchesOnce
  PROVE  /\ Head(batches) \subseteq UNION Range(batches)
         /\ UNION Range(batches') = (UNION Range(batches)) \ Head(batches) /\ BatchesOnce'
  <1> DEFINE n == Len(batches)
  <1>1. /\ DOMAIN batches = 1..n /\ n \in Nat \ {0} /\ Head(batches) = batches[1]
        /\ DOMAIN batches' = 1..(n - 1) /\ \A i \in 1..(n - 1) : batches'[i] = batches[i + 1]
    BY HeadTailProperties, LenProperties
  <1> HIDE DEF n
  <1>2. \A i, j \in 1..n : i # j => batches[i] \cap batches[j] = {}
    BY <1>1 DEF BatchesOnce
  <1>3. Head(batches) \subseteq UNION Range(batches)
    BY <1>1 DEF Range
  <1>4. ASSUME NEW e \in UNION Range(batches') PROVE e \in UNION Range(batches) /\ e \notin Head(batches)
    <2>1. PICK i \in 1..(n - 1) : e \in batches'[i]
      BY <1>1, <1>4 DEF Range
    <2>2. e \in batches[i + 1] /\ i + 1 \in 1..n /\ i + 1 # 1
      BY <1>1, <2>1
    <2> QED
      BY <1>1, <1>2, <2>2 DEF Range
  <1>5. ASSUME NEW e \in UNION Range(batches), e \notin Head(batches) PROVE e \in UNION Range(batches')
    <2>1. PICK i \in 1..n : e \in batches[i]
      BY <1>1, <1>5 DEF Range
    <2>2. i # 1 /\ i - 1 \in 1..(n - 1)
      BY <1>1, <1>5, <2>1
    <2>3. e \in batches'[i - 1]
      BY <1>1, <2>1, <2>2
    <2> QED
      BY <1>1, <2>2, <2>3 DEF Range
  <1>6. BatchesOnce'
    <2>1. \A i, j \in 1..(n - 1) : i # j => batches'[i] \cap batches'[j] = {}
      BY <1>1, <1>2
    <2> QED
      BY <1>1, <2>1 DEF BatchesOnce
  <1> QED
    BY <1>3, <1>4, <1>5, <1>6

-----------------------------------------------------------------------------
(* The places, and which variables they depend on.                         *)

\* A place keeps its entries in a step that leaves its variables alone.
LEMMA PlacesKeep ==
  /\ pc' = pc /\ sent' = sent => At'["producer"] = At["producer"]
  /\ queue' = queue => At'["queue"] = At["queue"]
  /\ hand' = hand => At'["dispatcher"] = At["dispatcher"]
  /\ in' = in => At'["in"] = At["in"]
  /\ batch' = batch => At'["batcher"] = At["batcher"]
  /\ batches' = batches => At'["batches"] = At["batches"]
  /\ wbatch' = wbatch => At'["worker"] = At["worker"]
  /\ fate' = fate => At'["settled"] = At["settled"]
  BY DEF At, Handing, Current

\* The entries of the place of a channel or of a goroutine.
LEMMA PlacesHold ==
  /\ At["producer"] = {Current(p) : p \in Handing}
  /\ At["queue"] = UNION {Range(queue[s]) : s \in Sources}
  /\ At["dispatcher"] = {hand[s] : s \in Sources} \ {NoEntry}
  /\ At["in"] = Range(in)
  /\ At["batcher"] = batch
  /\ At["batches"] = UNION Range(batches)
  /\ At["worker"] = UNION {wbatch[w] : w \in Workers}
  /\ At["settled"] = {e \in Entry : fate[e] # "none"}
  BY DEF At

\* The same after a step.
LEMMA PlacesWillHold ==
  /\ At'["producer"] = {Current(p)' : p \in Handing'}
  /\ At'["queue"] = UNION {Range(queue'[s]) : s \in Sources}
  /\ At'["dispatcher"] = {hand'[s] : s \in Sources} \ {NoEntry}
  /\ At'["in"] = Range(in')
  /\ At'["batcher"] = batch'
  /\ At'["batches"] = UNION Range(batches')
  /\ At'["worker"] = UNION {wbatch'[w] : w \in Workers}
  /\ At'["settled"] = {e \in Entry : fate'[e] # "none"}
  BY DEF At

\* Accounting for entries settles them.
LEMMA AccountSettles ==
  ASSUME NEW X \in SUBSET Entry, NEW r \in Fates \ {"none"}, fate \in [Entry -> Fates],
         Account(X, r)
  PROVE  At'["settled"] = At["settled"] \cup X
  BY PlacesHold, PlacesWillHold DEF Account

\* What a place holds has arrived, and is nowhere else.
LEMMA HeldOnce ==
  ASSUME Spread(At, Arrived), NEW x \in PlaceNames, NEW e \in At[x]
  PROVE  e \in Arrived /\ e \in Entry /\ \A y \in PlaceNames \ {x} : e \notin At[y]
  BY DEF Spread, Arrived

\* What a source's queue gains or loses, the place of the queues does.
LEMMA QueueGains ==
  ASSUME NEW s \in Sources, NEW d, Range(queue'[s]) = Range(queue[s]) \cup {d},
         \A t \in Sources \ {s} : queue'[t] = queue[t]
  PROVE  At'["queue"] = At["queue"] \cup {d}
  <1>1. \A e : (\E t \in Sources : e \in Range(queue'[t]))
               <=> (e = d \/ \E t \in Sources : e \in Range(queue[t]))
    OBVIOUS
  <1>2. \A e : e \in At'["queue"] <=> \E t \in Sources : e \in Range(queue'[t])
    BY PlacesWillHold
  <1>3. \A e : e \in At["queue"] <=> \E t \in Sources : e \in Range(queue[t])
    BY PlacesHold
  <1> QED
    BY <1>1, <1>2, <1>3

LEMMA QueueLoses ==
  ASSUME NEW s \in Sources, NEW d \in Range(queue[s]), Range(queue'[s]) = Range(queue[s]) \ {d},
         \A t \in Sources \ {s} : queue'[t] = queue[t] /\ d \notin Range(queue[t])
  PROVE  d \in At["queue"] /\ At'["queue"] = At["queue"] \ {d}
  <1>1. \A e : (\E t \in Sources : e \in Range(queue'[t]))
               <=> (e # d /\ \E t \in Sources : e \in Range(queue[t]))
    OBVIOUS
  <1>2. \A e : e \in At'["queue"] <=> \E t \in Sources : e \in Range(queue'[t])
    BY PlacesWillHold
  <1>3. \A e : e \in At["queue"] <=> \E t \in Sources : e \in Range(queue[t])
    BY PlacesHold
  <1> QED
    BY <1>1, <1>2, <1>3

\* The entries of X move from one place of the pipeline to another.
LEMMA Moved ==
  ASSUME Spread(At, Arrived), Arrived' = Arrived,
         NEW a \in PlaceNames, NEW b \in PlaceNames, a # b, NEW X, X \subseteq At[a],
         At'[a] = At[a] \ X, At'[b] = At[b] \cup X,
         \A x \in PlaceNames \ {a, b} : At'[x] = At[x]
  PROVE  Spread(At, Arrived)'
  <1>1. \A x \in PlaceNames : \A e \in At'[x] :
           (e \in At[x] /\ ~(x = a /\ e \in X)) \/ (x = b /\ e \in X)
    OBVIOUS
  <1>2. \A x, y \in PlaceNames : x # y => At'[x] \cap At'[y] = {}
    <2> SUFFICES ASSUME NEW x \in PlaceNames, NEW y \in PlaceNames, x # y,
                        NEW e, e \in At'[x], e \in At'[y]
                 PROVE  FALSE
      OBVIOUS
    <2>1. \A u, v \in PlaceNames : e \in At[u] /\ e \in At[v] => u = v
      BY DEF Spread
    <2> QED
      BY <1>1, <2>1
  <1>3. \A e : (\E x \in PlaceNames : e \in At'[x]) <=> (\E x \in PlaceNames : e \in At[x])
    <2> TAKE e
    <2>1. ASSUME NEW x \in PlaceNames, e \in At'[x] PROVE \E y \in PlaceNames : e \in At[y]
      BY <1>1, <2>1
    <2>2. ASSUME NEW x \in PlaceNames, e \in At[x] PROVE \E y \in PlaceNames : e \in At'[y]
      <3>1. CASE e \in X
        BY <3>1
      <3>2. CASE e \notin X
        BY <2>2, <3>2
      <3> QED
        BY <3>1, <3>2
    <2> QED
      BY <2>1, <2>2
  <1>4. UNION {At'[x] : x \in PlaceNames} = UNION {At[x] : x \in PlaceNames}
    BY <1>3
  <1>5. Spread(At', Arrived')
    BY <1>2, <1>4 DEF Spread
  <1> QED
    BY <1>5

\* The arrivals are a matter of sent.
LEMMA ArrivedKeeps == sent' = sent => Arrived' = Arrived
  BY DEF Arrived

-----------------------------------------------------------------------------
(* The steps.                                                              *)

\* At the start nothing has arrived.
LEMMA InitAccounting == Init => AccountingInv
  <1> SUFFICES ASSUME Init PROVE AccountingInv
    OBVIOUS
  <1>1. Arrived = {}
    BY DEF Init, Arrived, Entry
  <1>2. \A x \in PlaceNames : At[x] = {}
    BY PlacesHold DEF Init, PlaceNames, Handing, Range
  <1>3. Spread(At, Arrived)
    BY <1>1, <1>2 DEF Spread
  <1>4. OnceEach /\ FromItsSource /\ EmptyWhenIdle
    BY DEF Init, OnceEach, QueuesOnce, HandsOnce, BatchesOnce, WorkersOnce, FromItsSource,
           EmptyWhenIdle, IsInjective, Range
  <1> QED
    BY <1>3, <1>4 DEF AccountingInv

\* Only the variables of a channel or a goroutine say what it holds.
LEMMA OnceKeeps ==
  ASSUME AccountingInv
  PROVE  /\ queue' = queue => QueuesOnce'
         /\ hand' = hand => HandsOnce'
         /\ in' = in => IsInjective(in')
         /\ batches' = batches => BatchesOnce'
         /\ wbatch' = wbatch => WorkersOnce'
         /\ queue' = queue /\ hand' = hand => FromItsSource'
         /\ wbatch' = wbatch /\ wpc' = wpc => EmptyWhenIdle'
  BY DEF AccountingInv, OnceEach, QueuesOnce, HandsOnce, BatchesOnce, WorkersOnce,
         FromItsSource, EmptyWhenIdle

\* What a producer hands over leaves it when it goes back to its loop.
LEMMA HandedOver ==
  ASSUME TypeOK, NEW p \in Handing, sent' = sent, pc' = [pc EXCEPT ![p] = "idle"]
  PROVE  /\ Current(p) \in At["producer"]
         /\ At'["producer"] = At["producer"] \ {Current(p)}
  <1>1. p \in Producers /\ Handing' = Handing \ {p} /\ \A q \in Producers : Current(q)' = Current(q)
    BY DEF Handing, TypeOK, Current
  <1>2. \A q \in Handing : Current(q) = Current(p) => q = p
    BY DEF Current
  <1> QED
    BY <1>1, <1>2, PlacesHold, PlacesWillHold DEF Handing

\* A step of a producer.
LEMMA ProducerAccounting ==
  ASSUME TypeInv, AccountingInv, NEW p \in Producers, ProducerStep(p)
  PROVE  AccountingInv'
  <1> DEFINE s == SourceOf[p]
  <1>0. /\ TypeOK /\ Spread(At, Arrived) /\ fate \in [Entry -> Fates]
        /\ s \in Sources /\ queue[s] \in Seq(Entry) /\ queue \in [Sources -> Seq(Entry)]
        /\ IsInjective(queue[s])
    BY DEF TypeInv, TypeOK, AccountingInv, OnceEach, QueuesOnce
  <1> HIDE DEF s
  <1>1. ASSUME UNCHANGED <<hand, in, batches, wbatch, wpc>>, Spread(At, Arrived)', QueuesOnce',
               \A e \in Range(queue'[s]) : SourceOf[e[1]] = s,
               \A t \in Sources \ {s} : queue'[t] = queue[t]
        PROVE  AccountingInv'
    <2>1. FromItsSource'
      BY <1>1 DEF AccountingInv, FromItsSource
    <2> QED
      BY <1>1, <2>1, OnceKeeps DEF AccountingInv, OnceEach
  <1>2. ASSUME UNCHANGED <<queue, hand, in, batches, wbatch, wpc>>, Spread(At, Arrived)'
        PROVE  AccountingInv'
    BY <1>2, OnceKeeps DEF AccountingInv, OnceEach
  <1>3. CASE Ingest(p)
    <2> DEFINE d == <<p, sent[p] + 1>>
    <2>1. /\ d \in Entry /\ d \notin Arrived /\ p \notin Handing /\ Handing' = Handing \cup {p}
          /\ Arrived' = Arrived \cup {d} /\ Current(p)' = d
          /\ \A q \in Producers \ {p} : Current(q)' = Current(q)
      BY <1>0, <1>3 DEF Ingest, Arrived, Entry, Handing, Current, TypeOK
    <2>2. At'["producer"] = At["producer"] \cup {d}
      BY <2>1, PlacesHold, PlacesWillHold DEF Handing
    <2>3. UNCHANGED <<queue, hand, in, batch, batches, wbatch, wpc, fate>>
      BY <1>3 DEF Ingest
    <2>4. \A x \in PlaceNames \ {"producer"} : At'[x] = At[x]
      BY <2>3, PlacesKeep DEF PlaceNames
    <2>5. Spread(At, Arrived)'
      BY <1>0, <2>1, <2>2, <2>4, EntrySpreads DEF PlaceNames
    <2> QED
      BY <1>2, <2>3, <2>5
  <1>4. CASE \E r \in {"parse_error", "oversized"} : RefuseMessage(p, r)
    <2>1. PICK r \in {"parse_error", "oversized"} : RefuseMessage(p, r)
      BY <1>4
    <2> DEFINE d == <<p, sent[p] + 1>>
    <2>2. /\ d \in Entry /\ d \notin Arrived /\ p \notin Handing /\ Handing' = Handing
          /\ Arrived' = Arrived \cup {d}
          /\ \A q \in Handing : Current(q)' = Current(q)
      BY <1>0, <2>1, SMTT(30) DEF RefuseMessage, Arrived, Entry, Handing, Current, TypeOK
    <2>3. At'["producer"] = At["producer"]
      BY <2>2, PlacesHold, PlacesWillHold
    <2>4. At'["settled"] = At["settled"] \cup {d}
      BY <1>0, <2>1, <2>2, AccountSettles DEF RefuseMessage, Fates, Reasons
    <2>5. UNCHANGED <<queue, hand, in, batch, batches, wbatch, wpc>>
      BY <2>1 DEF RefuseMessage
    <2>6. \A x \in PlaceNames \ {"settled"} : At'[x] = At[x]
      BY <2>3, <2>5, PlacesKeep DEF PlaceNames
    <2>7. Spread(At, Arrived)'
      BY <1>0, <2>2, <2>4, <2>6, EntrySpreads DEF PlaceNames
    <2> QED
      BY <1>2, <2>5, <2>7
  <1>5. CASE Enqueue(p)
    <2> DEFINE d == Current(p)
    <2>1. /\ p \in Handing /\ sent' = sent /\ pc' = [pc EXCEPT ![p] = "idle"]
          /\ queue' = [queue EXCEPT ![s] = Append(queue[s], d)]
          /\ UNCHANGED <<hand, in, batch, batches, wbatch, wpc, fate>>
      BY <1>5 DEF Enqueue, Handing, s
    <2>2. /\ d \in At["producer"] /\ At'["producer"] = At["producer"] \ {d}
          /\ d \in Entry /\ d \notin At["queue"] /\ Arrived' = Arrived
      BY <1>0, <2>1, HandedOver, HeldOnce, ArrivedKeeps DEF PlaceNames
    <2>3. queue'[s] = Append(queue[s], d) /\ \A t \in Sources \ {s} : queue'[t] = queue[t]
      BY <1>0, <2>1
    <2>4. /\ Range(queue'[s]) = Range(queue[s]) \cup {d} /\ IsInjective(queue'[s])
          /\ d \notin Range(queue[s])
      <3>1. d \notin Range(queue[s])
        BY <1>0, <2>2, PlacesHold
      <3> HIDE DEF d
      <3> QED
        BY <1>0, <2>2, <2>3, <3>1, SendAdds
    <2>5. At'["queue"] = At["queue"] \cup {d}
      BY <1>0, <2>3, <2>4, QueueGains
    <2>6. \A x \in PlaceNames \ {"producer", "queue"} : At'[x] = At[x]
      BY <2>1, PlacesKeep DEF PlaceNames
    <2>7. Spread(At, Arrived)'
      <3>1. {d} \in SUBSET At["producer"] /\ "producer" \in PlaceNames /\ "queue" \in PlaceNames
        BY <2>2 DEF PlaceNames
      <3> QED
        BY <1>0, <2>2, <2>5, <2>6, <3>1, Moved
    <2>8. QueuesOnce'
      BY <2>3, <2>4 DEF AccountingInv, OnceEach, QueuesOnce
    <2>9. SourceOf[d[1]] = s
      BY DEF Current, s
    <2>10. \A e \in Range(queue'[s]) : SourceOf[e[1]] = s
      BY <1>0, <2>4, <2>9 DEF AccountingInv, FromItsSource
    <2> QED
      BY <1>1, <2>1, <2>3, <2>7, <2>8, <2>10
  <1>6. CASE DropNew(p) \/ BlockShutdown(p)
    <2> DEFINE d == Current(p)
    <2>1. /\ p \in Handing /\ sent' = sent /\ pc' = [pc EXCEPT ![p] = "idle"]
          /\ \E r \in Fates \ {"none"} : Account({d}, r)
          /\ UNCHANGED <<queue, hand, in, batch, batches, wbatch, wpc>>
      BY <1>6 DEF DropNew, BlockShutdown, Handing, Fates, Reasons
    <2>2. /\ d \in At["producer"] /\ At'["producer"] = At["producer"] \ {d}
          /\ d \in Entry /\ Arrived' = Arrived
      BY <1>0, <2>1, HandedOver, HeldOnce, ArrivedKeeps DEF PlaceNames
    <2>3. At'["settled"] = At["settled"] \cup {d}
      BY <1>0, <2>1, <2>2, AccountSettles
    <2>4. \A x \in PlaceNames \ {"producer", "settled"} : At'[x] = At[x]
      BY <2>1, PlacesKeep DEF PlaceNames
    <2>5. Spread(At, Arrived)'
      <3>1. {d} \in SUBSET At["producer"] /\ "producer" \in PlaceNames /\ "settled" \in PlaceNames
        BY <2>2 DEF PlaceNames
      <3> QED
        BY <1>0, <2>2, <2>3, <2>4, <3>1, Moved
    <2> QED
      BY <1>2, <2>1, <2>5
  <1>7. CASE FindFull(p) \/ HandlerExit(p)
    <2>1. Handing' = Handing /\ sent' = sent /\ UNCHANGED <<queue, hand, in, batch, batches, wbatch, wpc, fate>>
      BY <1>0, <1>7 DEF FindFull, HandlerExit, Handing, TypeOK
    <2>2. At'["producer"] = At["producer"]
      BY <2>1, PlacesHold, PlacesWillHold DEF Current
    <2>3. \A x \in PlaceNames : At'[x] = At[x]
      BY <2>1, <2>2, PlacesKeep DEF PlaceNames
    <2>4. Spread(At, Arrived)'
      BY <1>0, <2>1, <2>3, StaySpreads, ArrivedKeeps
    <2> QED
      BY <1>2, <2>1, <2>4
  <1>8. CASE Evict(p)
    <2>1. Handing' = Handing /\ sent' = sent /\ UNCHANGED <<hand, in, batch, batches, wbatch, wpc>>
      BY <1>0, <1>8 DEF Evict, Handing, TypeOK
    <2>2. At'["producer"] = At["producer"] /\ Arrived' = Arrived
      BY <2>1, ArrivedKeeps, PlacesHold, PlacesWillHold DEF Current
    <2>3. CASE queue[s] = <<>>
      <3>1. queue' = queue /\ fate' = fate
        BY <1>8, <2>3 DEF Evict, s
      <3>2. \A x \in PlaceNames : At'[x] = At[x]
        BY <2>1, <2>2, <3>1, PlacesKeep DEF PlaceNames
      <3>3. Spread(At, Arrived)'
        BY <1>0, <2>2, <3>2, StaySpreads
      <3> QED
        BY <1>2, <2>1, <3>1, <3>3
    <2>4. CASE queue[s] # <<>>
      <3> DEFINE d == Head(queue[s])
      <3>1. queue' = [queue EXCEPT ![s] = Tail(queue[s])] /\ Account({d}, "queue_full")
        BY <1>8, <2>4 DEF Evict, s
      <3>2. queue'[s] = Tail(queue[s]) /\ \A t \in Sources \ {s} : queue'[t] = queue[t]
        BY <1>0, <3>1
      <3>3. d \in Range(queue[s]) /\ Range(queue'[s]) = Range(queue[s]) \ {d} /\ IsInjective(queue'[s])
        BY <1>0, <2>4, <3>2, ReceiveTakes
      <3>4. \A t \in Sources \ {s} : d \notin Range(queue[t])
        BY <1>0, <3>3 DEF AccountingInv, FromItsSource
      <3>5. d \in At["queue"] /\ At'["queue"] = At["queue"] \ {d}
        BY <1>0, <3>2, <3>3, <3>4, QueueLoses
      <3>6. d \in Entry
        BY <1>0, <3>5, HeldOnce DEF PlaceNames
      <3>7. At'["settled"] = At["settled"] \cup {d}
        BY <1>0, <3>1, <3>6, AccountSettles DEF Fates, Reasons
      <3>8. \A x \in PlaceNames \ {"queue", "settled"} : At'[x] = At[x]
        BY <2>1, <2>2, PlacesKeep DEF PlaceNames
      <3>9. Spread(At, Arrived)'
        <4>1. {d} \in SUBSET At["queue"] /\ "queue" \in PlaceNames /\ "settled" \in PlaceNames
          BY <3>5 DEF PlaceNames
        <4> QED
          BY <1>0, <2>2, <3>5, <3>7, <3>8, <4>1, Moved
      <3>10. QueuesOnce'
        BY <3>2, <3>3 DEF AccountingInv, OnceEach, QueuesOnce
      <3>11. \A e \in Range(queue'[s]) : SourceOf[e[1]] = s
        BY <1>0, <3>3 DEF AccountingInv, FromItsSource
      <3> QED
        BY <1>1, <2>1, <3>2, <3>9, <3>10, <3>11
    <2> QED
      BY <2>3, <2>4
  <1> QED
    BY <1>3, <1>4, <1>5, <1>6, <1>7, <1>8 DEF ProducerStep, EnqueueStep

\* What a dispatcher's hand gains or loses, the place of the dispatchers does.
LEMMA HandMoves ==
  ASSUME TypeOK, AccountingInv, NEW s \in Sources, NEW d \in Entry
  PROVE  /\ hand[s] = NoEntry /\ hand' = [hand EXCEPT ![s] = d]
            => At'["dispatcher"] = At["dispatcher"] \cup {d}
         /\ hand[s] = d /\ hand' = [hand EXCEPT ![s] = NoEntry]
            => d \in At["dispatcher"] /\ At'["dispatcher"] = At["dispatcher"] \ {d}
  <1>1. hand \in [Sources -> Entry \cup {NoEntry}] /\ d # NoEntry
    BY DEF TypeOK
  <1>2. \A e : e \in At["dispatcher"] <=> e # NoEntry /\ \E t \in Sources : e = hand[t]
    BY PlacesHold
  <1>3. \A e : e \in At'["dispatcher"] <=> e # NoEntry /\ \E t \in Sources : e = hand'[t]
    BY PlacesWillHold
  <1>4. ASSUME hand[s] = NoEntry, hand' = [hand EXCEPT ![s] = d]
        PROVE  At'["dispatcher"] = At["dispatcher"] \cup {d}
    <2>1. hand'[s] = d /\ \A t \in Sources \ {s} : hand'[t] = hand[t]
      BY <1>1, <1>4
    <2> QED
      BY <1>1, <1>2, <1>3, <1>4, <2>1
  <1>5. ASSUME hand[s] = d, hand' = [hand EXCEPT ![s] = NoEntry]
        PROVE  d \in At["dispatcher"] /\ At'["dispatcher"] = At["dispatcher"] \ {d}
    <2>1. hand'[s] = NoEntry /\ \A t \in Sources \ {s} : hand'[t] = hand[t]
      BY <1>1, <1>5
    <2>2. \A t \in Sources \ {s} : hand[t] # d
      BY <1>1, <1>5 DEF AccountingInv, OnceEach, HandsOnce
    <2> QED
      BY <1>1, <1>2, <1>3, <1>5, <2>1, <2>2
  <1> QED
    BY <1>4, <1>5

\* A receive from a source's queue takes its head away from the queues.
LEMMA QueuePops ==
  ASSUME TypeOK, AccountingInv, NEW s \in Sources, queue[s] # <<>>,
         queue' = [queue EXCEPT ![s] = Tail(queue[s])]
  PROVE  /\ Head(queue[s]) \in At["queue"] /\ At'["queue"] = At["queue"] \ {Head(queue[s])}
         /\ SourceOf[Head(queue[s])[1]] = s
         /\ QueuesOnce' /\ \A t \in Sources : Range(queue'[t]) \subseteq Range(queue[t])
  <1> DEFINE d == Head(queue[s])
  <1>1. queue[s] \in Seq(Entry) /\ queue \in [Sources -> Seq(Entry)] /\ IsInjective(queue[s])
    BY DEF TypeOK, AccountingInv, OnceEach, QueuesOnce
  <1>2. queue'[s] = Tail(queue[s]) /\ \A t \in Sources \ {s} : queue'[t] = queue[t]
    BY <1>1
  <1>3. d \in Range(queue[s]) /\ Range(queue'[s]) = Range(queue[s]) \ {d} /\ IsInjective(queue'[s])
    BY <1>1, <1>2, ReceiveTakes
  <1>4. SourceOf[d[1]] = s /\ \A t \in Sources \ {s} : d \notin Range(queue[t])
    BY <1>3 DEF AccountingInv, FromItsSource
  <1>5. d \in At["queue"] /\ At'["queue"] = At["queue"] \ {d}
    BY <1>2, <1>3, <1>4, QueueLoses, ZenonT(30)
  <1>6. QueuesOnce'
    BY <1>2, <1>3 DEF AccountingInv, OnceEach, QueuesOnce
  <1>7. \A t \in Sources : Range(queue'[t]) \subseteq Range(queue[t])
    BY <1>2, <1>3
  <1> QED
    BY <1>4, <1>5, <1>6, <1>7

\* A step of a dispatcher.
LEMMA DispatcherAccounting ==
  ASSUME TypeInv, AccountingInv, NEW s \in Sources, DispatcherStep(s)
  PROVE  AccountingInv'
  <1>0. /\ TypeOK /\ Spread(At, Arrived) /\ fate \in [Entry -> Fates]
        /\ queue[s] \in Seq(Entry) /\ queue \in [Sources -> Seq(Entry)]
        /\ hand \in [Sources -> Entry \cup {NoEntry}] /\ in \in Seq(Entry)
    BY DEF TypeInv, TypeOK, AccountingInv
  <1>1. /\ UNCHANGED <<pc, sent, batch, batches, wbatch, wpc>>
        /\ Arrived' = Arrived /\ BatchesOnce' /\ WorkersOnce' /\ EmptyWhenIdle'
        /\ \A x \in {"producer", "batcher", "batches", "worker"} : At'[x] = At[x]
    <2>1. UNCHANGED <<pc, sent, batch, batches, wbatch, wpc>>
      BY DEF DispatcherStep, Take, SeeStop, Forward, ForwardHard, DiscardSource, QueueDrained
    <2> QED
      BY <2>1, ArrivedKeeps, OnceKeeps, PlacesKeep
  <1>2. CASE Take(s)
    <2> DEFINE d == Head(queue[s])
    <2>1. /\ queue[s] # <<>> /\ hand[s] = NoEntry
          /\ hand' = [hand EXCEPT ![s] = d] /\ queue' = [queue EXCEPT ![s] = Tail(queue[s])]
          /\ UNCHANGED <<in, fate>>
      BY <1>2 DEF Take, Empty
    <2>2. /\ d \in At["queue"] /\ At'["queue"] = At["queue"] \ {d} /\ SourceOf[d[1]] = s
          /\ QueuesOnce' /\ \A t \in Sources : Range(queue'[t]) \subseteq Range(queue[t])
      BY <1>0, <2>1, QueuePops
    <2>3. d \in Entry /\ d # NoEntry
      BY <1>0, <2>2, HeldOnce DEF PlaceNames
    <2> HIDE DEF d
    <2>4. At'["dispatcher"] = At["dispatcher"] \cup {d}
      BY <1>0, <2>1, <2>3, HandMoves
    <2>5. \A x \in PlaceNames \ {"queue", "dispatcher"} : At'[x] = At[x]
      BY <1>1, <2>1, PlacesKeep DEF PlaceNames
    <2>6. Spread(At, Arrived)'
      <3>1. {d} \subseteq At["queue"] /\ "queue" \in PlaceNames /\ "dispatcher" \in PlaceNames
        BY <2>2 DEF PlaceNames
      <3> QED
        BY <1>0, <1>1, <2>2, <2>4, <2>5, <3>1, Moved
    <2>7. FromItsSource'
      BY <1>0, <2>1, <2>2, <2>3 DEF AccountingInv, FromItsSource
    <2>8. HandsOnce'
      BY <1>0, <2>1, <2>2, <2>3 DEF AccountingInv, FromItsSource, OnceEach, HandsOnce
    <2> QED
      BY <1>1, <2>1, <2>2, <2>6, <2>7, <2>8 DEF AccountingInv, OnceEach
  <1>3. CASE SeeStop(s) \/ QueueDrained(s)
    <2>1. UNCHANGED <<queue, hand, in, fate>>
      BY <1>3 DEF SeeStop, QueueDrained
    <2>2. \A x \in PlaceNames : At'[x] = At[x]
      BY <1>1, <2>1, PlacesKeep DEF PlaceNames
    <2>3. Spread(At, Arrived)'
      BY <1>0, <1>1, <2>2, StaySpreads
    <2> QED
      BY <1>1, <2>1, <2>3, OnceKeeps DEF AccountingInv, OnceEach
  <1>4. CASE Forward(s) \/ ForwardHard(s)
    <2> DEFINE d == hand[s]
    <2>1. d \in Entry /\ d # NoEntry /\ hand' = [hand EXCEPT ![s] = NoEntry] /\ queue' = queue
      BY <1>0, <1>4 DEF Forward, ForwardHard
    <2>2. d \in At["dispatcher"] /\ At'["dispatcher"] = At["dispatcher"] \ {d}
      BY <1>0, <2>1, HandMoves
    <2>3. d \notin At["in"] /\ At'["queue"] = At["queue"]
      BY <1>0, <2>1, <2>2, HeldOnce, PlacesKeep DEF PlaceNames
    <2>4. HandsOnce' /\ QueuesOnce' /\ FromItsSource'
      BY <1>0, <2>1 DEF AccountingInv, OnceEach, HandsOnce, QueuesOnce, FromItsSource
    <2>5. CASE Forward(s)
      <3>1. in' = Append(in, d) /\ fate' = fate
        BY <2>5 DEF Forward
      <3>2. d \notin Range(in) /\ IsInjective(in)
        BY <2>3, PlacesHold DEF AccountingInv, OnceEach
      <3>3. Range(in') = Range(in) \cup {d} /\ IsInjective(in')
        BY <1>0, <2>1, <3>1, <3>2, SendAdds
      <3>4. At'["in"] = At["in"] \cup {d}
        BY <3>3, PlacesHold, PlacesWillHold
      <3>5. \A x \in PlaceNames \ {"dispatcher", "in"} : At'[x] = At[x]
        BY <1>1, <2>3, <3>1, PlacesKeep DEF PlaceNames
      <3>6. Spread(At, Arrived)'
        <4>1. {d} \subseteq At["dispatcher"] /\ "dispatcher" \in PlaceNames /\ "in" \in PlaceNames
          BY <2>2 DEF PlaceNames
        <4> QED
          BY <1>0, <1>1, <2>2, <3>4, <3>5, <4>1, Moved
      <3> QED
        BY <1>1, <2>4, <3>3, <3>6 DEF AccountingInv, OnceEach
    <2>6. CASE ForwardHard(s)
      <3>1. in' = in /\ Account({d}, "shutdown")
        BY <2>6 DEF ForwardHard
      <3>2. At'["settled"] = At["settled"] \cup {d}
        BY <1>0, <2>1, <3>1, AccountSettles DEF Fates, Reasons
      <3>3. \A x \in PlaceNames \ {"dispatcher", "settled"} : At'[x] = At[x]
        BY <1>1, <2>3, <3>1, PlacesKeep DEF PlaceNames
      <3>4. Spread(At, Arrived)'
        <4>1. {d} \subseteq At["dispatcher"] /\ "dispatcher" \in PlaceNames /\ "settled" \in PlaceNames
          BY <2>2 DEF PlaceNames
        <4> QED
          BY <1>0, <1>1, <2>2, <3>2, <3>3, <4>1, Moved
      <3> QED
        BY <1>1, <2>4, <3>1, <3>4, OnceKeeps DEF AccountingInv, OnceEach
    <2> QED
      BY <1>4, <2>5, <2>6
  <1>5. CASE DiscardSource(s)
    <2> DEFINE d == Head(queue[s])
    <2>1. /\ queue[s] # <<>> /\ queue' = [queue EXCEPT ![s] = Tail(queue[s])]
          /\ Account({d}, "shutdown") /\ UNCHANGED <<hand, in>>
      BY <1>5 DEF DiscardSource
    <2>2. /\ d \in At["queue"] /\ At'["queue"] = At["queue"] \ {d}
          /\ QueuesOnce' /\ \A t \in Sources : Range(queue'[t]) \subseteq Range(queue[t])
      BY <1>0, <2>1, QueuePops
    <2>3. d \in Entry
      BY <1>0, <2>2, HeldOnce DEF PlaceNames
    <2>4. At'["settled"] = At["settled"] \cup {d}
      BY <1>0, <2>1, <2>3, AccountSettles DEF Fates, Reasons
    <2>5. \A x \in PlaceNames \ {"queue", "settled"} : At'[x] = At[x]
      BY <1>1, <2>1, PlacesKeep DEF PlaceNames
    <2>6. Spread(At, Arrived)'
      <3>1. {d} \subseteq At["queue"] /\ "queue" \in PlaceNames /\ "settled" \in PlaceNames
        BY <2>2 DEF PlaceNames
      <3> HIDE DEF d
      <3> QED
        BY <1>0, <1>1, <2>2, <2>4, <2>5, <3>1, Moved
    <2>7. FromItsSource'
      BY <2>1, <2>2 DEF AccountingInv, FromItsSource
    <2> QED
      BY <1>1, <2>1, <2>2, <2>6, <2>7, OnceKeeps DEF AccountingInv, OnceEach
  <1> QED
    BY <1>2, <1>3, <1>4, <1>5 DEF DispatcherStep

\* A step of the batcher.
LEMMA BatcherAccounting ==
  ASSUME TypeInv, AccountingInv, BatcherStep
  PROVE  AccountingInv'
  <1>0. /\ TypeOK /\ Spread(At, Arrived) /\ fate \in [Entry -> Fates] /\ batch \in SUBSET Entry
        /\ in \in Seq(Entry) /\ IsInjective(in) /\ batches \in Seq(SUBSET Entry) /\ BatchesOnce
    BY DEF TypeInv, TypeOK, AccountingInv, OnceEach
  <1>1. /\ UNCHANGED <<pc, sent, queue, hand, wbatch, wpc>>
        /\ Arrived' = Arrived
        /\ QueuesOnce' /\ HandsOnce' /\ WorkersOnce' /\ FromItsSource' /\ EmptyWhenIdle'
        /\ \A x \in {"producer", "queue", "dispatcher", "worker"} : At'[x] = At[x]
    <2>1. UNCHANGED <<pc, sent, queue, hand, wbatch, wpc>>
      BY DEF BatcherStep, Receive, Tick, SeeInClosed, FlushSend, FlushHard, BatcherHard,
             DiscardIn, DiscardInDone
    <2> QED
      BY <2>1, ArrivedKeeps, OnceKeeps, PlacesKeep
  <1> SUFFICES Spread(At, Arrived)' /\ IsInjective(in') /\ BatchesOnce'
    BY <1>1 DEF AccountingInv, OnceEach
  <1>2. ASSUME in # <<>>, in' = Tail(in)
        PROVE  /\ IsInjective(in') /\ Head(in) \in At["in"] /\ Head(in) \in Entry
               /\ At'["in"] = At["in"] \ {Head(in)}
    <2>1. Head(in) \in Range(in) /\ Range(in') = Range(in) \ {Head(in)} /\ IsInjective(in')
      BY <1>0, <1>2, ReceiveTakes
    <2> QED
      BY <1>0, <1>2, <2>1, PlacesHold, PlacesWillHold
  <1>3. CASE \E heavy \in BOOLEAN : Receive(heavy)
    <2> DEFINE d == Head(in)
    <2>1. in # <<>> /\ in' = Tail(in) /\ batch' = batch \cup {d} /\ UNCHANGED <<batches, fate>>
      BY <1>3 DEF Receive
    <2>2. IsInjective(in') /\ d \in At["in"] /\ At'["in"] = At["in"] \ {d}
      BY <1>2, <2>1
    <2>3. At'["batcher"] = At["batcher"] \cup {d}
      BY <2>1, PlacesHold, PlacesWillHold
    <2>4. \A x \in PlaceNames \ {"in", "batcher"} : At'[x] = At[x]
      BY <1>1, <2>1, PlacesKeep DEF PlaceNames
    <2>5. {d} \subseteq At["in"] /\ "in" \in PlaceNames /\ "batcher" \in PlaceNames
      BY <2>2 DEF PlaceNames
    <2> HIDE DEF d
    <2>6. Spread(At, Arrived)'
      BY <1>0, <1>1, <2>2, <2>3, <2>4, <2>5, Moved
    <2> QED
      BY <1>0, <2>1, <2>2, <2>6, OnceKeeps
  <1>4. CASE Tick \/ SeeInClosed \/ DiscardInDone
    <2>1. UNCHANGED <<in, batch, batches, fate>>
      BY <1>4 DEF Tick, SeeInClosed, DiscardInDone
    <2>2. \A x \in PlaceNames : At'[x] = At[x]
      BY <1>1, <2>1, PlacesKeep DEF PlaceNames
    <2>3. Spread(At, Arrived)'
      BY <1>0, <1>1, <2>2, StaySpreads
    <2> QED
      BY <1>0, <2>1, <2>3, OnceKeeps
  <1>5. CASE FlushSend
    <2>1. batches' = Append(batches, batch) /\ batch' = {} /\ UNCHANGED <<in, fate>>
      BY <1>5 DEF FlushSend
    <2>2. batch = At["batcher"] /\ batch \cap UNION Range(batches) = {}
      <3>1. At["batcher"] \cap At["batches"] = {}
        BY <1>0 DEF Spread, PlaceNames
      <3> QED
        BY <3>1, PlacesHold
    <2>3. UNION Range(batches') = (UNION Range(batches)) \cup batch /\ BatchesOnce'
      BY <1>0, <2>1, <2>2, SendAddsBatch
    <2>4. /\ At'["batcher"] = At["batcher"] \ batch
          /\ At'["batches"] = At["batches"] \cup batch
      BY <2>1, <2>2, <2>3, PlacesHold, PlacesWillHold
    <2>5. \A x \in PlaceNames \ {"batcher", "batches"} : At'[x] = At[x]
      BY <1>1, <2>1, PlacesKeep DEF PlaceNames
    <2>6. batch \subseteq At["batcher"] /\ "batcher" \in PlaceNames /\ "batches" \in PlaceNames
      BY <2>2 DEF PlaceNames
    <2>7. Spread(At, Arrived)'
      BY <1>0, <1>1, <2>4, <2>5, <2>6, Moved
    <2> QED
      BY <1>0, <2>1, <2>3, <2>7, OnceKeeps
  <1>6. CASE FlushHard \/ BatcherHard
    <2>1. batch' = {} /\ Account(batch, "shutdown") /\ UNCHANGED <<in, batches>>
      BY <1>6 DEF FlushHard, BatcherHard
    <2>2. /\ At'["batcher"] = At["batcher"] \ batch
          /\ At'["settled"] = At["settled"] \cup batch
      BY <1>0, <2>1, AccountSettles, PlacesHold, PlacesWillHold DEF Fates, Reasons
    <2>3. \A x \in PlaceNames \ {"batcher", "settled"} : At'[x] = At[x]
      BY <1>1, <2>1, PlacesKeep DEF PlaceNames
    <2>4. batch \subseteq At["batcher"] /\ "batcher" \in PlaceNames /\ "settled" \in PlaceNames
      BY PlacesHold DEF PlaceNames
    <2>5. Spread(At, Arrived)'
      BY <1>0, <1>1, <2>2, <2>3, <2>4, Moved
    <2> QED
      BY <1>0, <2>1, <2>5, OnceKeeps
  <1>7. CASE DiscardIn
    <2> DEFINE d == Head(in)
    <2>1. in # <<>> /\ in' = Tail(in) /\ Account({d}, "discarded") /\ UNCHANGED <<batch, batches>>
      BY <1>7 DEF DiscardIn
    <2>2. IsInjective(in') /\ d \in At["in"] /\ d \in Entry /\ At'["in"] = At["in"] \ {d}
      BY <1>2, <2>1
    <2>3. At'["settled"] = At["settled"] \cup {d}
      BY <1>0, <2>1, <2>2, AccountSettles DEF Fates
    <2>4. \A x \in PlaceNames \ {"in", "settled"} : At'[x] = At[x]
      BY <1>1, <2>1, PlacesKeep DEF PlaceNames
    <2>5. {d} \subseteq At["in"] /\ "in" \in PlaceNames /\ "settled" \in PlaceNames
      BY <2>2 DEF PlaceNames
    <2> HIDE DEF d
    <2>6. Spread(At, Arrived)'
      BY <1>0, <1>1, <2>2, <2>3, <2>4, <2>5, Moved
    <2> QED
      BY <1>0, <2>1, <2>2, <2>6, OnceKeeps
  <1> QED
    BY <1>3, <1>4, <1>5, <1>6, <1>7 DEF BatcherStep

\* What a worker's batch gains or loses, the place of the workers does.
LEMMA BatchMoves ==
  ASSUME TypeOK, AccountingInv, NEW w \in Workers, NEW X \in SUBSET Entry
  PROVE  /\ wbatch[w] = {} /\ wbatch' = [wbatch EXCEPT ![w] = X]
            => At'["worker"] = At["worker"] \cup X
         /\ wbatch[w] = X /\ wbatch' = [wbatch EXCEPT ![w] = {}]
            => X \subseteq At["worker"] /\ At'["worker"] = At["worker"] \ X
  <1>1. wbatch \in [Workers -> SUBSET Entry]
    BY DEF TypeOK
  <1>2. \A e : e \in At["worker"] <=> \E v \in Workers : e \in wbatch[v]
    BY PlacesHold
  <1>3. \A e : e \in At'["worker"] <=> \E v \in Workers : e \in wbatch'[v]
    BY PlacesWillHold
  <1>4. ASSUME wbatch[w] = {}, wbatch' = [wbatch EXCEPT ![w] = X]
        PROVE  At'["worker"] = At["worker"] \cup X
    <2>1. wbatch'[w] = X /\ \A v \in Workers \ {w} : wbatch'[v] = wbatch[v]
      BY <1>1, <1>4
    <2> QED
      BY <1>2, <1>3, <1>4, <2>1
  <1>5. ASSUME wbatch[w] = X, wbatch' = [wbatch EXCEPT ![w] = {}]
        PROVE  X \subseteq At["worker"] /\ At'["worker"] = At["worker"] \ X
    <2>1. wbatch'[w] = {} /\ \A v \in Workers \ {w} : wbatch'[v] = wbatch[v]
      BY <1>1, <1>5
    <2>2. \A v \in Workers \ {w} : wbatch[v] \cap X = {}
      BY <1>5 DEF AccountingInv, OnceEach, WorkersOnce
    <2> QED
      BY <1>2, <1>3, <1>5, <2>1, <2>2
  <1> QED
    BY <1>4, <1>5

\* What a worker leaves alone.
LEMMA WorkerLeaves ==
  ASSUME NEW w \in Workers, WorkerStep(w)
  PROVE  UNCHANGED <<pc, sent, queue, hand, in, batch>>
  BY DEF WorkerStep, TakeBatch, WriteStart, WriteOk, WriteRejected, WriteUnavailable,
         WriteCancelled, BackoffElapsed, BackoffHard, WorkerExit

\* A worker either takes a batch over, or keeps the one it has, or settles all of it.
LEMMA WorkerChoices ==
  ASSUME TypeOK, NEW w \in Workers, WorkerStep(w)
  PROVE  \/ TakeBatch(w)
         \/ /\ UNCHANGED <<batches, wbatch, fate>>
            /\ wpc[w] # "idle" /\ wpc'[w] # "idle" /\ wpc'[w] # "done"
            /\ \A v \in Workers \ {w} : wpc'[v] = wpc[v]
         \/ WorkerExit(w)
         \/ batches' = batches /\ \E r \in Fates \ {"none"} : FinishBatch(w, r)
  <1> USE DEF TypeOK
  <1>1. CASE TakeBatch(w) \/ WorkerExit(w)
    BY <1>1
  <1>2. CASE WriteStart(w) \/ BackoffElapsed(w)
    BY <1>2 DEF WriteStart, BackoffElapsed
  <1>3. CASE WriteOk(w) \/ WriteRejected(w) \/ BackoffHard(w)
    BY <1>3 DEF WriteOk, WriteRejected, BackoffHard, Fates, Reasons
  <1>4. ASSUME NEW n, AttemptFailed(w, n), batches' = batches, wpc[w] # "idle"
        PROVE  \/ /\ UNCHANGED <<batches, wbatch, fate>>
                  /\ wpc[w] # "idle" /\ wpc'[w] # "idle" /\ wpc'[w] # "done"
                  /\ \A v \in Workers \ {w} : wpc'[v] = wpc[v]
               \/ \E r \in Fates \ {"none"} : FinishBatch(w, r)
    BY <1>4 DEF AttemptFailed, Fates, Reasons
  <1>5. CASE WriteCancelled(w) \/ \E taken \in BOOLEAN : WriteUnavailable(w, taken)
    BY <1>4, <1>5 DEF WriteCancelled, WriteUnavailable
  <1> QED
    BY <1>1, <1>2, <1>3, <1>5 DEF WorkerStep

\* A step of a worker.
LEMMA WorkerAccounting ==
  ASSUME TypeInv, AccountingInv, NEW w \in Workers, WorkerStep(w)
  PROVE  AccountingInv'
  <1>0. /\ TypeOK /\ Spread(At, Arrived) /\ fate \in [Entry -> Fates]
        /\ wbatch \in [Workers -> SUBSET Entry] /\ wpc \in [Workers -> WorkerStates]
        /\ batches \in Seq(SUBSET Entry) /\ BatchesOnce /\ WorkersOnce /\ EmptyWhenIdle
    BY DEF TypeInv, TypeOK, AccountingInv, OnceEach
  <1>1. /\ Arrived' = Arrived
        /\ QueuesOnce' /\ HandsOnce' /\ IsInjective(in') /\ FromItsSource'
        /\ \A x \in {"producer", "queue", "dispatcher", "in", "batcher"} : At'[x] = At[x]
    BY WorkerLeaves, ArrivedKeeps, OnceKeeps, PlacesKeep
  <1> SUFFICES Spread(At, Arrived)' /\ BatchesOnce' /\ WorkersOnce' /\ EmptyWhenIdle'
    BY <1>1 DEF AccountingInv, OnceEach
  <1>2. CASE TakeBatch(w)
    <2> DEFINE X == Head(batches)
    <2>1. /\ batches # <<>> /\ batches' = Tail(batches)
          /\ wbatch[w] = {} /\ wbatch' = [wbatch EXCEPT ![w] = X]
          /\ wpc' = [wpc EXCEPT ![w] = "call"] /\ fate' = fate
      BY <1>0, <1>2 DEF TakeBatch, EmptyWhenIdle
    <2>2. /\ X \subseteq UNION Range(batches) /\ BatchesOnce'
          /\ UNION Range(batches') = (UNION Range(batches)) \ X
      BY <1>0, <2>1, ReceiveTakesBatch
    <2>3. X \in SUBSET Entry
      BY <1>0, <2>1
    <2> HIDE DEF X
    <2>4. X \subseteq At["batches"] /\ At'["batches"] = At["batches"] \ X
      BY <2>2, PlacesHold, PlacesWillHold
    <2>5. At'["worker"] = At["worker"] \cup X
      BY <1>0, <2>1, <2>3, BatchMoves
    <2>6. \A x \in PlaceNames \ {"batches", "worker"} : At'[x] = At[x]
      BY <1>1, <2>1, PlacesKeep DEF PlaceNames
    <2>7. "batches" \in PlaceNames /\ "worker" \in PlaceNames
      BY DEF PlaceNames
    <2>8. Spread(At, Arrived)'
      BY <1>0, <1>1, <2>4, <2>5, <2>6, <2>7, Moved
    <2>9. \A v \in Workers \ {w} : wbatch[v] \cap X = {}
      <3>1. At["worker"] \cap At["batches"] = {}
        BY <1>0, <2>7 DEF Spread
      <3> QED
        BY <2>4, <3>1, PlacesHold
    <2>10. WorkersOnce' /\ EmptyWhenIdle'
      BY <1>0, <2>1, <2>9 DEF WorkersOnce, EmptyWhenIdle
    <2> QED
      BY <2>2, <2>8, <2>10
  <1>3. CASE /\ UNCHANGED <<batches, wbatch, fate>>
             /\ EmptyWhenIdle'
    <2>1. \A x \in PlaceNames : At'[x] = At[x]
      BY <1>1, <1>3, PlacesKeep DEF PlaceNames
    <2>2. Spread(At, Arrived)'
      BY <1>0, <1>1, <2>1, StaySpreads
    <2> QED
      BY <1>3, <2>2, OnceKeeps
  <1>4. CASE batches' = batches /\ \E r \in Fates \ {"none"} : FinishBatch(w, r)
    <2> DEFINE X == wbatch[w]
    <2>1. PICK r \in Fates \ {"none"} : FinishBatch(w, r)
      BY <1>4
    <2>2. /\ Account(X, r) /\ wbatch' = [wbatch EXCEPT ![w] = {}]
          /\ wpc' = [wpc EXCEPT ![w] = "idle"] /\ X \in SUBSET Entry
      BY <1>0, <2>1 DEF FinishBatch
    <2>3. X \subseteq At["worker"] /\ At'["worker"] = At["worker"] \ X
      BY <1>0, <2>2, BatchMoves
    <2>4. At'["settled"] = At["settled"] \cup X
      BY <1>0, <2>2, AccountSettles
    <2>5. \A x \in PlaceNames \ {"worker", "settled"} : At'[x] = At[x]
      BY <1>1, <1>4, PlacesKeep DEF PlaceNames
    <2>6. "worker" \in PlaceNames /\ "settled" \in PlaceNames
      BY DEF PlaceNames
    <2>7. WorkersOnce' /\ EmptyWhenIdle'
      BY <1>0, <2>2 DEF WorkersOnce, EmptyWhenIdle
    <2> HIDE DEF X
    <2>8. Spread(At, Arrived)'
      BY <1>0, <1>1, <2>3, <2>4, <2>5, <2>6, Moved
    <2> QED
      BY <1>4, <2>7, <2>8, OnceKeeps
  <1>5. CASE WorkerExit(w)
    <2>1. UNCHANGED <<batches, wbatch, fate>> /\ wpc[w] = "idle" /\ wpc' = [wpc EXCEPT ![w] = "done"]
      BY <1>5 DEF WorkerExit
    <2>2. EmptyWhenIdle'
      BY <1>0, <2>1 DEF EmptyWhenIdle
    <2> QED
      BY <1>3, <2>1, <2>2
  <1>6. CASE /\ UNCHANGED <<batches, wbatch, fate>>
             /\ wpc[w] # "idle" /\ wpc'[w] # "idle" /\ wpc'[w] # "done"
             /\ \A v \in Workers \ {w} : wpc'[v] = wpc[v]
    <2>1. EmptyWhenIdle'
      BY <1>0, <1>6 DEF EmptyWhenIdle
    <2> QED
      BY <1>3, <1>6, <2>1
  <1> QED
    BY <1>0, <1>2, <1>4, <1>5, <1>6, WorkerChoices

\* Every step keeps every entry at one place.
LEMMA StepAccounting == TypeInv /\ AccountingInv /\ [Next]_vars => AccountingInv'
  <1> SUFFICES ASSUME TypeInv, AccountingInv, [Next]_vars PROVE AccountingInv'
    OBVIOUS
  <1>1. CASE CloseIn \/ CloseListeners \/ StopStep \/ Terminated \/ UNCHANGED vars
    <2>1. UNCHANGED <<pc, sent, queue, hand, in, batch, batches, wbatch, wpc, fate>>
      BY <1>1 DEF CloseIn, CloseListeners, StopStep, BeginDrain, DrainDone, DrainTimeout,
                  AbortDone, StopTo, Terminated, vars
    <2>2. \A x \in PlaceNames : At'[x] = At[x]
      BY <2>1, PlacesKeep DEF PlaceNames
    <2>3. Spread(At, Arrived)'
      BY <2>1, <2>2, StaySpreads, ArrivedKeeps DEF AccountingInv
    <2> QED
      BY <2>1, <2>3, OnceKeeps DEF AccountingInv, OnceEach
  <1> QED
    BY <1>1, ProducerAccounting, DispatcherAccounting, BatcherAccounting, WorkerAccounting
       DEF Next

\* The accounting holds in every state.
LEMMA AccountingHolds == Spec => [](TypeInv /\ AccountingInv)
  <1>1. Spec => []TypeInv
    BY InitType, StepType, PTL DEF Spec
  <1> QED
    BY <1>1, InitAccounting, StepAccounting, PTL DEF Spec

\* Every entry that arrived is at exactly one place of the pipeline, or settled
\* once and nowhere in it, whatever the interleaving.
THEOREM EveryEntryOnce == Spec => []AccountedOnce
  BY AccountingHolds, InvIsAccountedOnce, PTL

=============================================================================
