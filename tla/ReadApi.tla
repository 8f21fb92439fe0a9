------------------------------ MODULE ReadApi ------------------------------
(***************************************************************************)
(* The handlers behind Sessions: search with its pages and the client that *)
(* follows next_offset, export, volume, the other reads, and ingest        *)
(* (internal/api, the read side of internal/storage/victorialogs, loadMore *)
(* of the explorer).  Rows keep arriving, late ones among them, between    *)
(* any two calls of the storage.                                           *)
(***************************************************************************)
EXTENDS Sessions, Integers, Sequences, SequencesExt, FiniteSetsExt, Functions

CONSTANTS
    Rows, TimeOf,        \* rows and their _time, counted from the Unix epoch
    Ranges,              \* <<start, end>> of a request
    Limits,              \* what clients ask for
    PageSize,            \* exportPageSize
    MaxHits, MaxOffset, MaxExport, MaxBuckets,
    Buckets,             \* [form |-> "days", "duration" or "junk", n]
    Day,                 \* 24 hours
    Zero,                \* from the zero time of Go to the epoch
    Bodies,              \* [array, lines]: bodies of POST /ingest
    MaxEntries,          \* ingestMaxEntries
    MaxReceived          \* bound: the rows after which a client stops to follow

ASSUME ReadApiAssumption ==
    /\ TimeOf \in [Rows -> Nat] /\ Limits \subseteq Int
    /\ {PageSize, MaxHits, MaxExport, Day, MaxEntries} \subseteq Nat \ {0}
    /\ {MaxOffset, MaxBuckets, Zero} \subseteq Nat
    /\ MaxExport <= MaxOffset /\ Zero % Day = 0
    /\ Bodies \subseteq [array : BOOLEAN, lines : Seq(BOOLEAN)]

None == -1

VARIABLES
    store,        \* the rows that a query finds
    job           \* per slot, what its request, or its walk over pages, is about

vars == <<sessionVars, requestVars, store, job>>

(* want and counted are history: the rows of the range at the first page,  *)
(* and when volume asked the storage.                                      *)
Blank ==
    [range |-> <<0, 0>>, limit |-> 0, next |-> None, got |-> <<>>, short |-> FALSE,
     want |-> {}, step |-> 0, series |-> <<>>, counted |-> {},
     array |-> FALSE, lines |-> <<>>, accepted |-> 0, rejected |-> 0]

Init == SessionsInit /\ store = {} /\ job = [s \in Slots |-> Blank]

Becomes(s, j) == job' = [job EXCEPT ![s] = j]

-----------------------------------------------------------------------------
(* The storage (external), as the client's Search, Count and CountByTime   *)
(* use it.  The order of rows with the same _time is left open.            *)

Matching(r) == {x \in store : TimeOf[x] \in r[1] .. r[2]}

NewestFirst(rows) ==
    {o \in SetToSeqs(rows) : \A i, j \in DOMAIN o : i < j => TimeOf[o[i]] >= TimeOf[o[j]]}

(* sort by (_time desc) | offset | limit *)
Page(r, offset, n) ==
    {SubSeq(o, offset + 1, Min({offset + n, Len(o)})) : o \in NewestFirst(Matching(r))}

(* stats by (_time:step) count() *)
Aligned(t, step) == t - (t % step)
CountByTime(rows, step) ==
    [t \in {Aligned(TimeOf[x], step) : x \in rows} |->
        Cardinality({x \in rows : Aligned(TimeOf[x], step) = t})]

Arrive(x) ==
    /\ x \notin store /\ store' = store \cup {x}
    /\ UNCHANGED <<sessionVars, requestVars, job>>

-----------------------------------------------------------------------------
Clamp(n, low, high) == IF n < low THEN low ELSE IF n > high THEN high ELSE n

Reads == {"search", "count", "fields", "values", "volume", "export"}

(* parseRange or defaultRange refuses the request; or the storage fails,   *)
(* which an export does not tell (writeStorageError).                      *)
ReadFails(s) ==
    /\ at[s] = "handler" /\ op[s] \in Reads
    /\ \E code \in IF op[s] = "export" THEN {400} ELSE {400, 503, 504} : Answer(s, code)
    /\ UNCHANGED <<sessionVars, op, who, token, stale, store, job>>

(* handleCount, handleFields, handleFieldValues *)
OneAnswer(s) ==
    /\ at[s] = "handler" /\ op[s] \in {"count", "fields", "values"}
    /\ Answer(s, 200)
    /\ UNCHANGED <<sessionVars, op, who, token, stale, store, job>>

(* A mutant: the row at the offset counts as seen. *)
OffsetOneMore(offset) == Clamp(offset + 1, 0, MaxOffset)

(* A mutant: one less, as if the last row had not been seen. *)
OffsetOneLess(offset) == Clamp(offset - 1, 0, MaxOffset)

(* Where the page begins that handleSearch answers an offset with. *)
OffsetOf(offset) == Clamp(offset, 0, MaxOffset)

Deliver(s, j, offset) ==
    /\ \E rows \in Page(j.range, offset, j.limit) :
         Becomes(s, [j EXCEPT !.got = @ \o rows,
                              !.short = Len(rows) < j.limit,
                              !.next = IF Len(rows) = j.limit THEN offset + Len(rows) ELSE None])
    /\ Answer(s, 200)
    /\ UNCHANGED <<sessionVars, op, who, token, stale, store>>

FirstPage(s, r, n) ==
    /\ Handling(s, "search") /\ job[s].next = None
    /\ Deliver(s, [Blank EXCEPT !.range = r, !.limit = Clamp(n, 1, MaxHits),
                                !.want = Matching(r)], 0)

NextPage(s) ==
    /\ Handling(s, "search") /\ job[s].next # None
    /\ Deliver(s, job[s], OffsetOf(job[s].next))

(* loadMore: the client asks for the page behind, or again for the one     *)
(* that failed.                                                            *)
LoadMore(s) ==
    /\ at[s] = "answered" /\ status[s] # 401 /\ job[s].next # None
    /\ Len(job[s].got) < MaxReceived
    /\ Send(s, "search", token[s])
    /\ UNCHANGED <<sessionVars, who, store, job>>

-----------------------------------------------------------------------------
(* handleExport and pageRows *)

Export(s, r, n) ==
    /\ Handling(s, "export")
    /\ Becomes(s, [Blank EXCEPT !.range = r, !.limit = Clamp(n, 1, MaxExport),
                                !.want = Matching(r)])
    /\ Goto(s, "page")
    /\ UNCHANGED <<sessionVars, op, who, token, stale, store>>

Remaining(j) == j.limit - Len(j.got)

(* How many rows the next page asks for. *)
PageOf(j) == Min({PageSize, Remaining(j)})

MorePages(j) == ~j.short /\ Remaining(j) # 0

ExportPage(s) ==
    /\ at[s] = "page"
    /\ \E rows \in Page(job[s].range, Len(job[s].got), PageOf(job[s])) :
         LET j == [job[s] EXCEPT !.got = @ \o rows, !.short = Len(rows) < PageOf(job[s])]
         IN  /\ Becomes(s, j)
             /\ IF MorePages(j) THEN Goto(s, "page") ELSE Answer(s, 200)
    /\ UNCHANGED <<sessionVars, op, who, token, stale, store>>

(* A storage error, or a client that is gone, ends the rows; the status    *)
(* was sent before.                                                        *)
ExportBreaks(s) ==
    /\ at[s] = "page" /\ Answer(s, 200)
    /\ UNCHANGED <<sessionVars, op, who, token, stale, store, job>>

-----------------------------------------------------------------------------
(* handleVolume *)

(* parseBucket: any number of days passes, a duration must be positive.    *)
ValidBucket(b) == b.form = "days" \/ (b.form = "duration" /\ b.n > 0)
Step(b) == IF b.form = "days" THEN b.n * Day ELSE b.n

(* A mutant: the series begins at the start of the range itself. *)
NotTruncated(t, step) == t

(* time.Truncate counts from the zero time of Go. *)
Truncate(t, step) == t - ((t + Zero) % step)

ZeroFill(counts, r, step) ==
    [t \in {x \in Truncate(r[1], step) .. r[2] : (x - Truncate(r[1], step)) % step = 0} |->
        IF t \in DOMAIN counts THEN counts[t] ELSE 0]

(* CountByTime of the client refuses a step that is not positive. *)
VolumeRefused(r, b) ==
    \/ ~ValidBucket(b)
    \/ Step(b) < 0
    \/ Step(b) > 0 /\ (r[2] - r[1]) \div Step(b) > MaxBuckets

Volume(s, r, b) ==
    /\ Handling(s, "volume") /\ ValidBucket(b) /\ Step(b) > 0 /\ ~VolumeRefused(r, b)
    /\ Becomes(s, [Blank EXCEPT !.range = r, !.step = Step(b), !.counted = Matching(r),
                     !.series = ZeroFill(CountByTime(Matching(r), Step(b)), r, Step(b))])
    /\ Answer(s, 200)
    /\ UNCHANGED <<sessionVars, op, who, token, stale, store>>

(* 0d divides by zero; net/http recovers and closes the connection: 0.     *)
VolumeFails(s, r, b) ==
    /\ Handling(s, "volume") /\ (VolumeRefused(r, b) \/ (ValidBucket(b) /\ Step(b) = 0))
    /\ Answer(s, IF ValidBucket(b) /\ Step(b) = 0 THEN 0 ELSE 400)
    /\ UNCHANGED <<sessionVars, op, who, token, stale, store, job>>

-----------------------------------------------------------------------------
(* handleIngest.  A line is TRUE if IngestRaw takes it: if it begins with {. *)

(* An empty, oversized or malformed body, or a foreign content type.        *)
IngestRefused(s) ==
    /\ Handling(s, "ingest") /\ \E code \in {400, 413, 415} : Answer(s, code)
    /\ UNCHANGED <<sessionVars, op, who, token, stale, store, job>>

(* A mutant: an array is taken like lines. *)
AnyLength(b) == FALSE

(* An array is counted before any of it is taken. *)
TooLong(b) == b.array /\ Len(b.lines) > MaxEntries

Ingest(s, b) ==
    /\ Handling(s, "ingest")
    /\ Becomes(s, [Blank EXCEPT !.array = b.array, !.lines = b.lines])
    /\ IF TooLong(b) THEN Answer(s, 413) ELSE Goto(s, "lines")
    /\ UNCHANGED <<sessionVars, op, who, token, stale, store>>

LinesDone(j) == j.accepted + j.rejected

IngestLine(s) ==
    /\ at[s] = "lines" /\ LinesDone(job[s]) < Min({Len(job[s].lines), MaxEntries})
    /\ Becomes(s, IF job[s].lines[LinesDone(job[s]) + 1]
                  THEN [job[s] EXCEPT !.accepted = @ + 1]
                  ELSE [job[s] EXCEPT !.rejected = @ + 1])
    /\ UNCHANGED <<sessionVars, requestVars, store>>

IngestEnds(s) ==
    /\ at[s] = "lines" /\ LinesDone(job[s]) = Min({Len(job[s].lines), MaxEntries})
    /\ Answer(s, IF Len(job[s].lines) > MaxEntries THEN 413 ELSE 200)
    /\ UNCHANGED <<sessionVars, op, who, token, stale, store, job>>

-----------------------------------------------------------------------------
ReadStep(s) ==
    \/ ReadFails(s)
    \/ OneAnswer(s)
    \/ \E r \in Ranges, n \in Limits : FirstPage(s, r, n)
    \/ NextPage(s)
    \/ \E r \in Ranges, n \in Limits : Export(s, r, n)
    \/ ExportPage(s)
    \/ ExportBreaks(s)
    \/ \E r \in Ranges, b \in Buckets : Volume(s, r, b)
    \/ \E r \in Ranges, b \in Buckets : VolumeFails(s, r, b)
    \/ IngestRefused(s)
    \/ \E b \in Bodies : Ingest(s, b)
    \/ IngestLine(s)
    \/ IngestEnds(s)

(* What the server does for a slot. *)
Serve(s) == (SessionStep(s) /\ UNCHANGED <<store, job>>) \/ ReadStep(s)

ClientStep(s) ==
    \/ \E u \in Users : AskLogin(s, u) /\ UNCHANGED <<store, job>>
    \/ \E o \in DOMAIN Needs, t \in Tokens \cup {NoToken} :
         Ask(s, o, t) /\ UNCHANGED <<store, job>>
    \/ LoadMore(s)
    \/ Forget(s) /\ Becomes(s, Blank) /\ UNCHANGED store

Restart == RestartRequests /\ job' = [s \in Slots |-> Blank] /\ UNCHANGED store

Next ==
    \/ \E s \in Slots : Serve(s) \/ ClientStep(s)
    \/ \E t \in Tokens : Expire(t) /\ UNCHANGED <<store, job>>
    \/ \E x \in Rows : Arrive(x)
    \/ Restart

Spec == Init /\ [][Next]_vars
=============================================================================
