# syslogq in TLA+

syslogq takes syslog and JSON messages over UDP, TCP, TLS and HTTP, queues them,
batches them and writes them to VictoriaLogs; an HTTP API and a web page read them
back. This directory models the parts whose correctness depends on the order in which
goroutines, timers and peers act, and the texts that pass through parsers, normalizer and
query language, checks the models with TLC and proves theorems about them with TLAPS.
Paths below are relative to the repository.

## Inventory

**Ingestion pipeline** (`internal/ingestion/pipeline.go`, write side of
`internal/storage/victorialogs/client.go`).
State: a bounded channel per source, `p.in` (1024), `p.batches` (twice the
workers), the batch being filled, two contexts, counters.
Operations: `Ingest`/`IngestRaw`, `enqueue` under `block`, `drop_oldest` or
`drop_newest`, one dispatcher per source, the batcher, a pool of writers that retry
three times, `Stop`.
Hard: `drop_oldest` takes three separate steps on a shared channel; closing channels
that others send on; a drain with a deadline that every goroutine notices at a
different moment; writes whose answer is lost.
Correct when: every entry ends in exactly one of storage, a counted drop, or a
loss named below; order per connection is kept; counters agree with the storage;
`Ingest` and `Stop` always return.

**Listeners and manager** (`tcp.go`, `udp.go`, `listener.go`, the blocking side of
`frame.go`, the listeners' check of `internal/health/health.go`).
State: sockets, `t.open`, `t.active`, two wait groups, read deadlines, `Manager.mu`.
Operations: accept, serve, close, `DownSources`.
Hard: `Close` runs beside the accept loop and the handlers; deadlines belong to the
connection and outlive the read they were set for; a lock held while waiting.
Correct when: the limit holds, nothing leaks, `Close` returns and leaves nobody who
could call `Ingest`, silent connections end.

**Shutdown** (`cmd/syslogq/main.go`): listeners, then pipeline, then HTTP server.
The pipeline's `Stop` relies on the listeners being quiet; HTTP requests run on.

**Frame reader** (`frame.go`): octet-counted, LF- and NUL-delimited frames, oversized
frames skipped. State: `pending`, `discarding`, the read buffer, the deadline.
Hard: the stream is cut anywhere, styles are told apart by a probe whose bytes must
be given back, a deadline may pass between any two reads. Correct when every frame
comes out once, whole and in order, frames do not depend on the cuts, nothing that has arrived
is held back, and no more than a bounded amount is buffered.

**Parsers** (`internal/parser`) and **normalizer** (`internal/normalization`): functions
from the bytes of a message to an entry. Hard: three grammars with guesses that must be
taken back, escapes, Go's random order of a map, size guards that loop until the entry
fits and write to a map that may be nil. Correct when what a sender says is what is stored,
nothing of a line is lost, and every stored entry fits.

**Query language** (`internal/query`): an AST, `Compile` to LogsQL, `Parse` back. Hard:
two sets of safe characters, escapes, precedence. Correct when the storage is asked for
what was meant, whatever the values contain.

**HTTP server** (`internal/api`) and **read side of the storage client**
(`victorialogs/read.go`): sessions and roles in front of every handler; ingest (up to 1000
entries per request); search, count, volume, fields and export. State: none but the
storage's. Hard: paging by offset over a store that keeps growing, errors after the status
was sent, buckets that two sides align. Correct when pages leave no gap, a repeated row
is explained by one that arrived, buckets add up, and a refused request left nothing.

**Sessions** (`internal/auth`): users, sessions with expiry and an audit log in SQLite
over one connection. Hard: each handler takes several statements, beside others with the
same token. Correct when a token that has expired or was logged out opens nothing.

**Frontend** (`frontend/src/pages/Explorer.tsx`): a query text to which clicks add terms,
and a table that is filled page by page.

**The rest**: readiness registry, configuration, metrics, model types, embedded web
files, a load generator.

How they interact: listeners and HTTP handlers call the pipeline (a call, blocking
under `block`); the pipeline calls the storage client; `/ready` calls the manager
under its lock, the storage and the pipeline's saturation; main calls the three
stops in order. On the way back the explorer builds a text, `parseRange` turns it into
a filter, the storage client appends pipes to it, and rows that the pipeline wrote
become visible to queries at any moment between two of them.

## Modules

| module | what it is |
|---|---|
| `Pipeline` | the ingestion pipeline and the shutdown that main and `Stop` run |
| `PipelineProperties` | its properties, and the refinement of `IngestAccounting` |
| `IngestAccounting` | what the pipeline promises: entries received, stored, dropped, lost |
| `MCPipeline` | constants for TLC |
| `PipelineProofs`, `ShutdownProofs` | theorems: types, the order of the shutdown |
| `AccountingProofs`, `LedgerProofs`, `OrderProofs` | theorems: every entry once, counters, refinement, order |
| `Listeners` | accept loop, handlers, UDP loop, `Manager.Close`, readiness probe |
| `ListenersProperties`, `MCListeners`, `ListenersProofs` | properties, constants, theorems |
| `FrameReader` | a connection's decoder, from bytes in the socket to calls of `Ingest` |
| `FrameReaderProperties`, `MCFrameReader` | properties, constants |
| `FrameReaderStream`, `FrameReaderProofs` | the invariant about whole streams; theorems |
| `Query` | `Compile` and `Parse` as operators over texts |
| `Intake` | detection, the three parsers, normalizer and row as operators over texts |
| `Search` | the state machine around both: a message comes in, a query is typed, built or clicked, and sent |
| `SearchProperties`, `MCSearch` | properties, constants |
| `Sessions` | login, bearer tokens, logout, roles, restarts |
| `ReadApi` | extends `Sessions` with the handlers: search, export, volume, ingest; and the storage behind them |
| `ReadApiProperties`, `MCReadApi`, `ReadApiProofs` | properties, constants, theorems |

### Pipeline

An entry is `<<p, n>>`, the n-th message of producer `p`. A producer is a goroutine
that calls `Ingest`: a connection's handler, a UDP loop or an HTTP request. What a
message says is left out; whether it is queued or refused is a choice (`Ingest`,
`RefuseMessage`). A JSON line that is not an object is refused by `IngestRaw` before it counts
as received, and is no entry.

| variable | code |
|---|---|
| `pc`, `sent` | where a producer is inside `enqueue`, what it has handed over |
| `queue[s]` | `source.queue` |
| `mode`, `hand`, `purging` | the loop of a dispatcher, the entry inside `forward`, its `discardSource` |
| `in`, `inClosed` | `p.in` |
| `bpc`, `batch`, `batches` | `batcherLoop`, its batch, `p.batches`; `"done"` includes closing it |
| `wpc`, `wbatch`, `attempt` | `writerLoop` and `writeBatch` |
| `fate` | the counter an entry was counted under |
| `landed` | copies in the storage (external) |
| `stop` | main and `Stop`: `softCtx` and `hardCtx` are functions of it |

Each action is one atomic step of a goroutine: a channel operation, a branch of a
`select`, or the return of a storage call. `drop_oldest` is `Enqueue`, `FindFull`,
`Evict`, then `Enqueue` or `DropNew`. A storage call ends as `WriteOk`, `WriteRejected`,
`WriteUnavailable` (which may have stored the batch all the same) or
`WriteCancelled`. An oversized message is settled without entering the queue; the
code counts it as dropped but not as received, so the dropped counter can exceed
the received one.

### Listeners

A connection is a model value with a socket (`none`, `backlog`, `open`, `closed`), a
handler (`hpc`) and a read deadline (`none`, `set`, `past`). `hpc = "peek"` is the wait
at a frame boundary in `Peek(1)`, `"read"` every read that sets the deadline first.
The deferred function of `serveConn` is three steps (`CloseConn`, `Unregister`,
`Leave`). `Manager.Close` is `CloseListener`, `Snapshot`, `CloseSnapshot` per connection,
`CloseUdp`, `ManagerClosed`; it holds `Manager.mu` from first to last, which is why
`ProbeAnswered` waits.

The two components meet in one fact. `Pipeline` lets `BeginDrain` happen only when the
producers behind listeners are gone; `ListenersQuiet` says that `Manager.Close` delivers
this. In the other direction `Listeners` assumes that a call of `Ingest` returns,
which is `IngestReturns` of the pipeline. `Manager.Add` and `Start` come before `Init`.

### FrameReader

A byte is a number: ten digits, space, LF, NUL, CR and one that stands for the rest. The peer
is well-behaved as to framing (it may stop in the middle of a frame, and pause), so what it
meant is known: `sent`. `wire` is what has arrived, `buf` the `bufio.Reader`, filled with any
part of `wire`. `loc` is the call `next` is in:

| `loc` | code |
|---|---|
| `top` | the head of the loop in `next` |
| `peek` | `Peek(1)`, the only read that does not set the deadline |
| `probe` | the bytewise loop of `tryOctetCounted`; `held` is `digits` |
| `copy`, `body` | `CopyN` of an oversized payload, `ReadFull`; `count` is what remains |
| `flush` | `f.discarding` is set |
| `slice` | `ReadSlice('\n')` |
| `eof`, `idle` | `serveConn` has returned |

`out` is what `serveConn` made of the frames: messages ingested, and oversized frames
counted. `Numerals` says in which ways a peer may write an octet count down (leading zeros
are allowed, as `strconv.Atoi` takes them); the assumption on it is only that the digits denote
the length and are not more than the reader accepts. A stream may mix octet counts and lines,
except for two kinds of frames that wait in `pending` for a later LF (`HeldBack`): behind one of
them no octet count is looked for, and `frame.go:15` asks peers not to mix. A read under a deadline that has passed fails even if bytes have arrived, as
Go's network poller has it.

### Query, Intake, Search

A text is a sequence of characters. A keyword, a name or a time is one character where
no rule looks inside it; every character that some rule does look at (quotes, backslash,
brackets, blanks, colon, `~`, `*`, hyphen, the upper case) is there. `Query` has one operator
per function of `ast.go` and `parse.go`; a parsing operator takes a position and returns
what it read with the position behind it, 0 being an error. `Intake` does the same for
`detect.go`, the three parsers, `normalizer.go` and `marshalEntry`. Where the code ranges
over a map, an operator yields the set of outcomes over all orders. `encoding/json` is a
table from bytes to objects (external). A write to the nil map of `enforceSize` gives
an entry of format `"panic"`.

`Search` puts them together. One behaviour takes one message (`Receive`, or `ReceiveFrom`
for a sender of RFC 5424 whose meaning is known) and one query: typed, compiled from an
expression, or clicked together from a value of the row just stored (`AddFilter`), which is
the path a value takes through every set of safe characters of the program. `Ask` is
`parseRange`. Then it begins again.

| variable | code |
|---|---|
| `raw`, `sender` | the bytes given to `Pipeline.Ingest`, and what their sender meant |
| `entry` | the result of `Normalize`, or `"dropped"` or `"panic"` |
| `q`, `via`, `click`, `meant` | the explorer's query, and how it came about |
| `filter` | `RangeParams.Filter`, or the 400 of `parseRange` |

### Sessions and ReadApi

A slot is a client with one request under way; slots share tokens. A handler is at a place
(`at`) and takes one statement of the database, or one call of the storage, per step, so
that everything else may happen in between. Any statement or call may fail.

| variable | code |
|---|---|
| `sessions`, `owner`, `expired` | the table of sessions, and whose `expires_at` has passed |
| `trail` | the audit log, as far as it is about logouts |
| `op`, `at`, `who`, `token`, `status` | a request, the place of its handler, its answer |
| `known`, `loggedOut`, `stale` | history: what clients were told, and whether a request was sent with a dead token |
| `store` | the rows a query finds (external); `Arrive` adds one, newer or older than the rest |
| `job` | the range, pages, series and lines of a slot's request |

`Export` and `ExportPage` are `handleExport` and the loop of `pageRows`; `FirstPage`,
`NextPage` and `LoadMore` are `handleSearch` and the client that follows `next_offset`.
Rows of one time come in any order, each time anew (`NewestFirst`). `Truncate` counts from
the zero time of Go, `Aligned` of the storage from the epoch; `Zero` is what lies
between. `ReadFails` is every refusal and every storage error of a read. A restart keeps
the database and ends the requests. Here `IngestLine` is the answer's view of a line
(`IngestRaw` took it or not); `Pipeline` has what happens to it afterwards.

## Runs

| run | instance | shows |
|---|---|---|
| `pipeline_two_sources` | a connection under `drop_oldest`, HTTP under `drop_newest`, queues and `in` of 1 | `TypeOK`, `CountersMatchStorage`, `ProducerOrder`, `LoneProducerKeepsNew` |
| `pipeline_contention` | a connection and HTTP requests on one `drop_oldest` queue | `AccountedOnce`, `NothingLeftBehind`, `NoSendOnClosed`, `ImplementsAccounting` |
| `pipeline_liveness` | a connection and two HTTP requests on one `block` queue, with fairness | `LossNeedsDeadline`, `IngestReturns`, `ShutdownCompletes`, `EntriesSettle` |
| `pipeline_deadline` | violation | `UndrainedIsCounted`: the batcher discards `p.in` uncounted |
| `pipeline_late_http` | violation | `OnlyExitPath`: an entry stays in a queue nobody reads |
| `listeners` | two connections, limit 1, with fairness | `TypeOK`, `LimitRespected`, `NothingLeaks`, `AtMostOneEscapes`, `ListenersQuiet`; `CloseReturnsUnlessEscaped`, `ReadinessAnswers`, `SilentAfterTrafficCloses` |
| `listeners_close_race` | violation | `CloseReturns`: `Close` misses a connection and waits for it |
| `listeners_idle` | violation | `SilentCloses`: a connection that never sends is never closed |
| `frames` | two frames per stream, two dialects, limit 3, buffer 2 | `TypeOK`, `FramesIntactUnlessPaused`, `NothingHeldBack`, `BoundedMemory`, `HandlerEnds` |
| `search` | 56 000 states: messages, texts and expressions, each through to its row or filter | `MeaningKept`, `AskedAsTyped`, `FacetNarrows`, `FoundByItsFields`, `SentIsStored`, `NothingLost`, `OnlyRivalsDisplace`, `EntryFits`, `RowKeepsEntry` |
| `api` | two clients, one token, four rows of which two share a time | `LogoutIsFinal`, `NoRowSkipped`, `RepeatsAreArrivals`, `VolumeAddsUp`, `RefusedLeavesNothing` |
| `frames_pause` | violation | `FramesIntact`: after a pause an octet-counted frame is read as a line |

Every passing run checks for deadlock too.

### What the runs show

`pipeline_liveness`: every call of `Ingest` returns, every entry is settled, and once `Stop` has
been called it returns (`ShutdownCompletes`). Whether `mgr.Close`, which main calls before it,
returns is another question, which the listeners' runs answer: yes, unless a connection escapes
(`CloseReturnsUnlessEscaped`, `listeners_close_race`).

`search`: a message of RFC 5424 is stored as its sender meant it, whatever is escaped in its
parameters, however many elements they are in, and also when the entry has to shed its raw
message (`SentIsStored`); the parser of RFC 3164 puts every guess it takes back into
the message (`NothingLost`); of a JSON object a value is missing only if another key
competes for its place (`OnlyRivalsDisplace`); an entry ends up within its limits
(`EntryFits`), and a sender's fields do not hide the entry's own (`RowKeepsEntry`). An
expression that is compiled, parsed and compiled again still means the same, and no text of a
user becomes a pipe (`MeaningKept`, `AskedAsTyped`). A click on a value of any stored row
finds that row (`FoundByItsFields`) and narrows the query (`FacetNarrows`).

`api`: a request sent with a token after the token's logout or expiry never gets past
`requireAuth`, while others purge, log out and restart (`LogoutIsFinal`; a request that was
validated before goes on). Pages leave no gap (`NoRowSkipped`), also not in an export that
breaks off, and repeat a row only for one that arrived (`RepeatsAreArrivals`). Buckets add
up to the count (`VolumeAddsUp`), and a refused ingest request left nothing behind, with one
exception (`RefusedLeavesNothing`).

### Where the code falls short of these properties

Some properties hold with an exception that is part of the formula and named in its
comment. Without the exception TLC finds the code to violate them:

* A bare value that begins with `~` is safe to `isBare` (`ast.go:171`), but after the colon
  `parseFilter` reads `~` as the operator (`parse.go:129`): `Tilde`. The properties say what
  it is read as instead (`AsRead`); `~` alone is refused (`Legible`).
* `addFilter` appends ` AND term` to the text (`Explorer.tsx:96`); after a query with an
  open `OR` it narrows the right side only: `OpenOr`. No such query finds a row that it did
  not find before.
* `marshalEntry` writes the sender's fields last (`client.go:171`) and `reservedKeys` has no
  `_msg` or `_time`: a field `_msg` replaces the message, although
  `docs/log-data-model.md:83` has parser output never overwrite standard keys.
* `enforceSize` writes to `e.Fields` when it is nil (`normalizer.go:166`) and panics, for an
  entry without fields that is over the limit although its message is within its own.
  `EntryFits` bounds when: the bytes are far longer than the message. A long header will do,
  and so will one long value under a key that is recognized or reserved.
* An entry may end with one field more than the limit: `truncated` is not counted
  (`Own` in `EntryFits`).
* `docs/log-data-model.md:81` has the first writer win; of two JSON keys for one attribute
  the random order of the map decides (`json.go:42`).
* Rows of one time may be skipped or repeated at the border of two pages, for the sort of
  the storage has no second key (`TimeIsItsOwn`).
* `next_offset` passes `maxOffset`, and the page at `maxOffset` comes again (`query.go:85`,
  `query.go:101`): `Clamped`. The page that begins in front of `maxOffset` may end behind
  it, so a walk was clamped for certain only when it is longer than both together.
* The comment at `query.go:170` calls the series epoch-aligned; `Truncate` aligns it to the
  year 1. Bucket lengths that do not divide the distance, such as 7 days, give zeros only:
  `Zero % step = 0`. Of those the property says that nothing is counted twice.
* NDJSON with too many lines is refused with 413 after the first thousand were ingested
  (`ingest.go:73`).

In the model, but no property's subject: a bucket of `0d` panics the handler
(`query.go:141`); an export that the storage breaks off ends like a complete one
(`export.go:141`); `docs/security.md` has exports audited and idle sessions end, and the
code does neither; `csv` takes its columns from the first row (`export.go:103`).

### What the violations say

* `docs/ingestion.md:62` promises that anything undrained is counted as a shutdown
  drop. `pipeline.go:353` empties `p.in` with an empty loop body. `LossNeedsDeadline`
  bounds the damage: it takes an expired deadline.
* `pipeline.go:22` names storage and a counted drop as the only exits of an entry. main
  stops the pipeline before the HTTP server, and `enqueue` looks at `softCtx` only under
  `block`; a late HTTP entry stays in its queue although the request was answered as
  accepted. `NothingLeftBehind` bounds the damage: nothing from a listener is left.
* `tcp.go:143` says that `Close` tears down live connections. One that `Accept` has
  returned and `handleAccept` has not entered in `t.open` is missed; while its peer
  stays connected and silent, the shutdown hangs. `AtMostOneEscapes` bounds the damage.
* `types.go:77` says that `idle_timeout` closes silent connections. `frame.go:84` waits
  in `Peek` before any deadline was set. `SilentAfterTrafficCloses` shows that one byte
  is enough to bring the deadline into force.
* `frame.go:15` says that the framing style is decided per frame at a clean boundary.
  `Peek` runs under the deadline of the read before it; once that has passed, its error
  is ignored and the next frame is taken for a line, although the connection is kept for
  another idle timeout. `FramesIntactUnlessPaused` shows that nothing else tears frames.

### Bounds

`MaxMsgs` (messages per producer, per connection and over UDP) is the only bound on
behaviour. Capacities are 1 where the code has 1024 or 50 000: a full channel
differs from a longer full channel only in how many messages fill it, and two
messages per producer suffice to find a queue full, empty and full again. One writer
is enough for the order of shutdown and retries; with several, batches are written in
any order, about which no property says anything. Two write attempts cover a
first, a repeated and a last attempt where retries matter; the liveness run uses
one. Two connections against a limit of one: one is served while the other
is rejected, in the backlog, or in the hands of the accept loop, which is all the
counter and `t.open` can tell apart; the theorems hold for every number of both.

In `frames` the limit exceeds the buffer, as in the default configuration (256 KiB,
64 KiB): a line may fill the buffer once and still be accepted. What the reader
carries from one frame to the next is `pending` and the buffer, so two frames reach each
path with and without a leftover. The bodies are chosen so that each of them begins
like, or contains, what delimits the others: LF and NUL in octet-counted payloads,
lines that begin with digits, with more digits than a count may have, with a CR just over
the limit, oversized ones in each style. Payloads are up to 10 bytes long, so `MCNumerals` has
counts of one digit, of one digit behind a zero, and of two. That makes 807 223 states. Cuts, pauses,
hang-ups and resets are unconstrained.

In `search` the inputs are enumerated: every text of up to three characters over all
thirteen that the grammar tells apart, up to four or five over those that interact; every
expression of two levels over three kinds of leaves, and every operator with every kind of
value; structured data of up to three parameters in one or two elements, with names that are
equal, become equal or are reserved, values that are escaped, empty or over the limit, and a name
over the cap; every BSD body of up to three characters, every tag of four; JSON objects of up to
three keys with rivals for each place; every prefix of a well-formed message. The limits
are short, in the order the real ones have (message < entry, overhead < slack). Most
messages fit; host names, lines and values of around the limit of an entry take it
through each branch of `enforceSize`: the raw message cut, then gone, then some fields, then all,
and the panic. `Narrowed` and `Browsed` limit which queries and
rows are clicked on; a click's path depends on one value at a time.

In `pipeline_liveness`, three entries fill the queue or what is behind it while a caller is
blocked; they do not fill all channels at once, which takes eight and is beyond the run.

In `api`, a page of two rows, four rows, and exports of at most three make full, short and
empty pages, a last page cut by the limit, and the end of `maxOffset`; `MaxReceived` ends the
client that would read the same page for ever. Bodies have two or three lines against a limit
of two. One token is enough for `LogoutIsFinal`, as nothing in the code relates two
tokens; it is not issued twice, for `newToken` draws 32 random bytes. The reader does
everything but log out, the other client nothing else: the handlers share no state but the
session and the storage.

### Fairness

A goroutine that can take a step takes one (weak fairness per producer inside
`enqueue`, dispatcher, batcher, worker, connection in `Listeners`, accept loop, closing
goroutine): Go's scheduler is preemptive, and each disjunction is one goroutine at one
`select`. Timers fire (drain, ticker, backoff, read deadlines), a storage request
ends because `http.Client` has a timeout, a closed socket fails its reads. Nothing
makes a message arrive, a peer act or an operator stop the process. Nor does anything in
`Pipeline` make a handler end (`HandlerExit`): a connection that escapes `Close` keeps its
socket. Its liveness properties rest on the pipeline's own goroutines. `search` and `api` check
safety only and state no fairness. A `select` with two
ready branches may choose the same one again and again; no liveness property
here depends on the other.

## Theorems

For every value of the constants that the modules' ASSUMEs allow (capacities,
limits, attempts positive; workers finite and not empty; connections finite).

`PipelineProofs`: `TypeCorrect`, `Spec => []TypeOK`. `TypeOK` alone is not inductive:
`Enqueue` needs that a producer inside `enqueue` has a message (`HandingOne`), and the
range of `attempt` needs that a worker about to call has an attempt left
(`AttemptLeft`). `TypeInv` adds both.

`ShutdownProofs`: `ShutdownInv` is the chain of who has ended before whom (handlers,
dispatchers, close of `in`, batcher, workers, `Stop`), one conjunct per wait.
It is inductive over `TypeOK` (`ShutdownOrder`) and gives `ClosedAfterLastSend`. The main
theorem, `OnlyTheDeadlineLoses`, adds `LossNeedsDeadline`: as long as any goroutine of
the pipeline runs, a cancelled `hardCtx` means that the deadline expired
(`HardMeansExpired`), because the other `hardCancel` of `Stop` follows the last worker;
and by the time `block` gives up, only HTTP requests call `Ingest`.

`ListenersProofs`: `ListenersInv` ties each connection's socket and its entry in
`t.open` to the place of its handler, and the counter to the number of
handlers; `ListenersTyped`, `LimitHolds`, `NoLeak` and `QuietOnceClosed` follow.
`OneEscapesAtMost` takes a step argument: after the snapshot the set of escaped
connections only shrinks, and at the snapshot it is at most the one in the
accept loop's hands.

`AccountingProofs`: `EveryEntryOnce` states `AccountedOnce`. Disjoint places are not
inductive: an entry could be twice in one channel, and leave it once. `AccountingInv`
adds that no channel, hand, batch or pair of workers shares an entry (`OnceEach`), that a
queue and its dispatcher hold entries of their source only (`FromItsSource`) and that an
idle worker has no batch. Every step is one of a few moves of a set of entries from place to
place; the lemmas about moves are stated once for functions from places to sets, and each
action has a lemma that says which move it is.

`LedgerProofs` builds on that. `PipelineAccounts` is the refinement of `IngestAccounting`:
initial states map to initial states, and each step to a step or a stutter, with
`ShutdownInv` for the losses that only the deadline allows. `CountersTellTheTruth` needs
`LandedInv`, which relates the copies in the storage to the attempts of the worker that holds
the batch (`Made`): a lost answer leaves a copy that no counter knows. `ListenersAreDrained`
needs that behind a dispatcher that returned only HTTP requests send
(`OnlyHttpAfterExit`) and that workers return only when `p.batches` is empty (`NoBatchLeft`).

`OrderProofs`: `OrderOfProducers` from `OrderInv`: each channel is in order, and what is
further on its way to the storage was read earlier (`FurtherIsEarlier`). Batches and workers have
one rank, for there the order between batches is lost. `LoneProducerFindsRoom` is inductive
over `TypeOK`.

`ReadApiProofs`: `LogoutsAreFinal` from `SessionInv`: a dead token has expired or has no
row (`RowsOfTheDead`), one that is about was drawn and is drawn by no later login (`Drawn`),
and whoever sent one is in no handler that logs in (`StaleRequests`). `RefusalsLeaveNothing`
from `IngestInv`: what is accepted so far is the number of lines taken among those done
(`Halfway`). `PagesLeaveNoGap` and `RepeatsComeFromArrivals` from `PagesInv`: a walk has
`Reached` an offset if the client has every row of its first page that fewer rows are newer
than; rows that arrive only push others to later places (`ArrivalShifts`), so it is still
reached when the next page is asked for, and `PageFollows` takes it one page further. The
theorems make no use of the number of rows, nor of the order among rows of one time. The proof
found a first version of `Clamped` too narrow: it held in `api`, whose rows share a
time, and TLC refutes it with four rows of different times.

`FrameReaderProofs`: `MemoryIsBounded` and `FrameReaderTyped`. `BoundedMemory` is not
inductive: why `pending` may grow by a buffer is known only where it was compared
with the limit. `ReadsBounded` says what it holds during each read; every other lemma is
about one action.

`FramesComeOutIntact` and `NothingWaits` are about whole streams, of which the variables
keep only what has not been consumed; nothing in them says of which frame a byte of
`pending` was. `StreamInv` of `FrameReaderStream` therefore asks for a stream that explains
what the reader has: its bytes `F` from the first on, the frames `G` they encode and where each
ends (`e`), the number `n` of frames dealt with and of bytes `p` taken. `Placed` says that
`buf` and `wire` are what follows `p`, that `out` is what the first `n` frames give, and
where `p` is for each place in the code: `pending` is the stream from the end of frame `n` to
`p` (`AtTop`, `AtSlice`); the digits read so far are a prefix of the count, and `count` what
they denote (`AtProbe`); what is left of a payload ends with its frame (`AtPayload`). Three
facts carry the induction:

* A complete line leaves `pending` before anything is read, so that octet counts are looked
  for at a boundary only. This is where `HeldBack` frames differ, and why the assumption keeps
  them out of octet-counted streams: `AtTop` would not be inductive otherwise.
* A delimited body that does not begin like an octet count makes the probe give its bytes
  back, one that has too many digits included.
* A frame that was cut off is never completed, so nothing is made of it.

`StreamInv` also allows the exception (`skipped`, in a stream with octet counts) and, once the
handler has ended, keeps only what the properties need (`Over`). Each action has a lemma that
names the `n` and `p` after it. Before it was proved, TLC checked the invariant on the
instance of `frames`, with `F`, `e`, `G`, `g`, `n` and `p` as history variables in place of the
quantifier. Both theorems hold with any dialects, numerals, limit, buffer size and number of
frames; neither assumes that the limit exceeds the buffer.

Only model-checked:

* All liveness, which is out of the prover's reach.
* `VolumeAddsUp`: a sum over the buckets is a fold over a set of any size, and a statement
  about it an induction over data.
* Everything `search` checks: `Query` and `Intake` are recursive over texts.

## Plan

What would come next: readiness with its concurrent checkers, and the explorer's table
against answers that arrive out of order.

## Not modelled

Which instant a time stands for (`inferYear`, `parseJSONTime`), UTF-8 and case folding
beyond what the tables hold, byte sizes in the pipeline (reaching `batch.max_bytes` is a
choice), gauges and log throttling, the decoding of the storage's answers, `FieldNames`
and `FieldValues` beyond success and failure, passwords and the administration of users,
configuration loading, TLS handshakes (a handshake happens inside the first read),
SQLite's internals, static files and the rendering of the frontend. Startup failures in main end the process before anything
is ingested. A crash of the process loses whatever is in memory by design: nothing
is persisted before the storage has it, so there is no recovery to model.
