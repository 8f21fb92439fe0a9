------------------------- MODULE ReadApiProperties -------------------------
(***************************************************************************)
(* What the HTTP API promises to its clients.                              *)
(***************************************************************************)
EXTENDS ReadApi

(* Once a logout was answered or written to the audit log, or a session    *)
(* has expired, its token opens nothing: no request that is sent with it   *)
(* from then on gets past requireAuth, whatever other requests are doing   *)
(* with the same token, and across restarts (Validate, DeleteSession,      *)
(* handleLogout).                                                          *)
LogoutIsFinal ==
    \A s \in Slots : stale[s] /\ op[s] \notin Open =>
        at[s] \in {"validate", "purge", "answered"} /\ status[s] \in {0, 401}

-----------------------------------------------------------------------------
Received(s) == ToSet(job[s].got)
NewerRows(s, x) == {y \in job[s].want : TimeOf[y] > TimeOf[x]}
TimeIsItsOwn(y) == \A z \in store \ {y} : TimeOf[z] # TimeOf[y]

(* The pages of an export, and the pages of a client that follows          *)
(* next_offset, leave no gap: with a row come all the rows of the range    *)
(* that are newer and were there when the first page was asked for, and    *)
(* with a last page that is not full all rows, although rows arrive        *)
(* between the pages and shift them (pageRows, handleSearch, loadMore).    *)
(* Rows that share their time with another are the exception: the storage  *)
(* may order them differently from page to page.                           *)
NoRowSkipped ==
    \A s \in Slots :
        /\ \A x \in Received(s) : \A y \in NewerRows(s, x) :
              TimeIsItsOwn(y) => y \in Received(s)
        /\ job[s].short => \A y \in job[s].want : TimeIsItsOwn(y) => y \in Received(s)

(* A row is received twice only because others arrived in the meantime, at *)
(* most once for each of them; and up to maxOffset only: a page that was   *)
(* asked for behind it is clamped to it, and repeats what the page before  *)
(* it had (clampInt, handleSearch, loadMore).  A full last page was asked  *)
(* for behind all rows but its own, a short one perhaps behind all.        *)
Arrived(s) == Matching(job[s].range) \ job[s].want
Clamped(s) == Len(job[s].got) > MaxOffset + IF job[s].short THEN 0 ELSE job[s].limit

RepeatsAreArrivals ==
    \A s \in Slots :
        ~Clamped(s) /\ (\A y \in Matching(job[s].range) : TimeIsItsOwn(y)) =>
            Len(job[s].got) - Cardinality(Received(s)) <= Cardinality(Arrived(s))

(* The buckets of volume add up to what count would have answered          *)
(* (zeroFill, CountByTime), as long as the bucket divides the time between *)
(* the zero time of Go, from which Truncate counts, and the epoch, from    *)
(* which the storage does.  With any other bucket no row is counted twice. *)
VolumeAddsUp ==
    \A s \in Slots : job[s].step > 0 =>
        LET sum == FoldFunction(+, 0, job[s].series)
            rows == Cardinality(job[s].counted)
        IN  sum <= rows /\ (Zero % job[s].step = 0 => sum = rows)

(* The answer to an ingest request says what became of it: 200 counts the  *)
(* lines, taken or not, and a refused array has left nothing behind.       *)
(* NDJSON that is too long is refused when its first entries are already   *)
(* in the pipeline (handleIngest).                                         *)
RefusedLeavesNothing ==
    \A s \in Slots :
        op[s] = "ingest" /\ at[s] = "answered" =>
            LET j == job[s]
            IN  CASE status[s] = 200 ->
                       /\ j.accepted = Cardinality({i \in DOMAIN j.lines : j.lines[i]})
                       /\ LinesDone(j) = Len(j.lines)
                  [] status[s] # 200 -> LinesDone(j) = 0 \/ (~j.array /\ LinesDone(j) = MaxEntries)
=============================================================================
