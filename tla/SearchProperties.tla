-------------------------- MODULE SearchProperties --------------------------
(***************************************************************************)
(* What the parsers, the normalizer, the row and the query language        *)
(* promise together.                                                       *)
(***************************************************************************)
EXTENDS Search, FiniteSetsExt

-----------------------------------------------------------------------------
(* Two expressions mean the same if they are true of the same rows,        *)
(* whatever each of their leaves says of a row.                            *)

RECURSIVE Leaves(_), Holds(_, _)
Leaves(e) ==
    CASE e.tag \in {"and", "or"} -> Leaves(e.l) \cup Leaves(e.r)
      [] e.tag = "not"           -> Leaves(e.e)
      [] OTHER                   -> {e}

Holds(e, true) ==
    CASE e.tag = "and" -> Holds(e.l, true) /\ Holds(e.r, true)
      [] e.tag = "or"  -> Holds(e.l, true) \/ Holds(e.r, true)
      [] e.tag = "not" -> ~Holds(e.e, true)
      [] OTHER         -> e \in true

Same(d, e) ==
    /\ Leaves(d) = Leaves(e)
    /\ \A true \in SUBSET Leaves(d) : Holds(d, true) <=> Holds(e, true)

(* A bare value that begins with ~ is compiled without quotes although,    *)
(* after the colon, the same text is a regular expression, or nothing.     *)
Tilde(x) == x.tag = "filter" /\ x.op = "eq" /\ IsBare(x.v) /\ At(x.v, 1) = "~"

RECURSIVE AsRead(_)
AsRead(e) ==
    CASE e.tag \in {"and", "or"} -> [e EXCEPT !.l = AsRead(@), !.r = AsRead(@)]
      [] e.tag = "not"           -> [e EXCEPT !.e = AsRead(@)]
      [] Tilde(e)                -> [e EXCEPT !.op = "match", !.v = Tail(@)]
      [] OTHER                   -> e

Legible(e) == \A x \in Leaves(e) : x.v # <<"~">> \/ ~Tilde(x)

(* What the storage reads in the filter: LogsQL has the same grammar.      *)
Read == Parse(filter.text).e
Asked == filter.state = "sent" /\ filter.text # <<>>

(* What a client builds and compiles is what the storage is asked, through *)
(* Compile, Parse and Compile again (ast.go, parse.go, parseRange): no     *)
(* operator binds differently, no value ends early or turns into syntax,   *)
(* but for the one that AsRead describes.                                  *)
MeaningKept ==
    via = "built" /\ filter # NotAsked /\ Len(q) <= MaxQuery /\ Legible(meant) =>
        filter.state = "sent" /\ Same(Read, AsRead(meant))

(* The characters of a filter that are outside of quotes. *)
RECURSIVE Outside(_, _)
Outside(s, p) ==
    CASE p \notin 1 .. Len(s) -> {}
      [] At(s, p) = "\""    -> Outside(s, Quoted(s, p + 1, <<>>).at)
      [] OTHER              -> {s[p]} \cup Outside(s, p + 1)

(* Whatever text a user typed, what reaches the storage reads back as what *)
(* Parse made of it, and no pipe of the user's is outside of quotes, so    *)
(* the pipes that the client appends are the only ones (read.go).          *)
ReadsBack(reads, typed) == reads.at # 0 /\ Same(reads.e, AsRead(typed))

AskedAsTyped ==
    via = "typed" /\ Asked =>
        /\ Legible(Parse(q).e) => ReadsBack(Parse(filter.text), Parse(q).e)
        /\ "|" \notin Outside(filter.text, 1)

(* A click on a value narrows the query: only rows of the query before are *)
(* found, and of those the ones with the value (addFilter, filterTerm).  A *)
(* query with an OR outside of parentheses is narrowed too, but the term   *)
(* is appended to its right side only.                                     *)
OpenOr(text) == KeywordAt(text, Blank(text, ParseAnd(text, 1).at), "OR")

Clicked == [tag |-> "filter", field |-> click.field, op |-> "eq", v |-> click.value]

FacetNarrows ==
    LET Narrows(before) ==
            /\ \A true \in SUBSET (Leaves(Read) \cup Leaves(before)) :
                  Holds(Read, true) => Holds(before, true)
            /\ OpenOr(click.before)
                  \/ Same(Read, [tag |-> "and", l |-> before, r |-> AsRead(Clicked)])
    IN  via = "clicked" /\ Asked /\ Parse(click.before).at # 0 =>
            Narrows(AsRead(Parse(click.before).e))

-----------------------------------------------------------------------------
(* Whether the storage finds a row with a leaf (external).                 *)
Within(v, text) == \E i \in 1 .. Len(text) + 1 : IsPrefix(v, SubSeq(text, i, Len(text)))

Finds(row, leaf) ==
    LET text == IF leaf.field \in DOMAIN row THEN row[leaf.field] ELSE <<>>
    IN  IF leaf.v = <<>> THEN text = <<>> ELSE Within(leaf.v, text)

(* A click on a value of a row finds that row again, whatever characters   *)
(* its sender put into names and values: the normalizer leaves no name     *)
(* that Compile refuses, and the quotes of filterTerm are read back by     *)
(* Parse and written again by Compile.  A value that is read as a regular  *)
(* expression consists of characters that match themselves.                *)
FoundByItsFields ==
    via = "clicked" /\ Stored /\ filter # NotAsked /\ Len(q) <= MaxQuery
        /\ Legible(Clicked) =>
        filter.state = "sent" /\ Finds(Row(entry), Read)

-----------------------------------------------------------------------------
(* What an RFC 5424 sender says is what is stored (rfc5424.go,             *)
(* normalizer.go): header, priority, message up to the limit, and each     *)
(* parameter under its normalized name, with the last of the values that   *)
(* were given for it, cut at the limit.  Fields are shed only when the raw *)
(* message is gone already; names beyond the cap are dropped.              *)
RawLeft == entry.raw # <<>>

Given == FlattenSeq(sender.sd)
LastValue(name) == Given[Max({i \in 1 .. Len(Given) : Given[i][1] = name})][2]
GivenNames == {Given[i][1] : i \in 1 .. Len(Given)}
Usable(name) == NormalizeKey(name) \notin Reserved \cup {<<>>}
UsableNames == {n \in GivenNames : Usable(n)}
Own(fields) == DOMAIN fields \ {<<"truncated">>}

SentIsStored ==
    sender # Unknown /\ Stored =>
        /\ entry.format = "rfc5424" /\ entry.time = "sent"
        /\ 8 * entry.facility + entry.severity = sender.pri
        /\ entry.hostname = sender.hostname /\ entry.app_name = sender.app_name
        /\ entry.process_id = sender.process_id
        /\ entry.message = Cut(sender.message, MaxMessage)
        /\ \A k \in Own(entry.fields) : \E n \in UsableNames :
              NormalizeKey(n) = k /\ entry.fields[k] = Cut(LastValue(n), MaxValue)
        /\ RawLeft /\ Cardinality(UsableNames) <= MaxFields =>
              Own(entry.fields) = {NormalizeKey(n) : n \in UsableNames}

(* The parser of RFC 3164 takes a line apart and loses nothing of it: but  *)
(* for blanks, priority, time, host, tag, process and message make up the  *)
(* line again (rfc3164.go: whatever remains is the message).               *)
Solid(s) == SelectSeq(s, LAMBDA c : c # " ")

Spoken ==
    (IF entry.time = "received" THEN <<>>
     ELSE IF "TS" \in ToSet(raw) THEN <<"TS">> ELSE <<"BSD">>)
        \o entry.hostname \o entry.app_name
        \o (IF entry.process_id = <<>> THEN <<>> ELSE <<"[">> \o entry.process_id \o <<"]">>)
        \o (IF entry.app_name = <<>> THEN <<>> ELSE <<":">>) \o entry.message

NothingLost ==
    entry.format = "rfc3164" /\ entry.raw = raw /\ entry.fields = NoFields =>
        IF entry.severity = None THEN Solid(raw) = Solid(Spoken)
        ELSE \E k \in 3 .. 5 :
               LET pri == SubSeq(raw, 2, k - 1)
               IN  /\ IsNumber(pri) /\ At(raw, k) = ">" /\ entry.facility <= 23
                   /\ Number(pri) = 8 * entry.facility + entry.severity
                   /\ Solid(From(raw, k + 1)) = Solid(Spoken)

(* A value of a JSON object is displaced only by a rival: another key for  *)
(* the same attribute, or one that normalizes to the same name.  docs/log- *)
(* data-model.md has the first writer win; Go's random order of a map      *)
(* decides.                                                                *)
For(k, f) == Lower(k) \in StandardKeys[f]
Targets(k) ==
    IF For(k, "priority") THEN {<<"severity">>, <<"facility">>}
    ELSE IF Recognized(k) THEN {<<f>> : f \in {x \in DOMAIN StandardKeys : For(k, x)}}
    ELSE {<<"field">> \o NormalizeKey(k)}

Landed(k, v) ==
    CASE For(k, "hostname")   -> entry.hostname = v
      [] For(k, "app_name")   -> entry.app_name = v
      [] For(k, "process_id") -> entry.process_id = v
      [] For(k, "message")    -> v = <<>> \/ entry.message = Cut(v, MaxMessage)
      [] For(k, "severity")   -> entry.severity = SeverityOf(v)
      [] For(k, "facility")   -> Number(v) > 23 \/ entry.facility = Number(v)
      [] For(k, "time")       -> v # <<"TS">> \/ entry.time = "sent"
      [] For(k, "priority")   ->
           Number(v) > 191 \/ 8 * entry.facility + entry.severity = Number(v)
      [] OTHER -> Usable(k) => /\ NormalizeKey(k) \in DOMAIN entry.fields
                               /\ entry.fields[NormalizeKey(k)] = Cut(v, MaxValue)

OnlyRivalsDisplace ==
    entry.format = "json" /\ RawLeft =>
        LET obj == Json[raw]
            others == {k \in DOMAIN obj : ~Recognized(k)}
        IN  Cardinality(others) <= MaxFields =>
              \A k \in DOMAIN obj :
                \/ Landed(k, obj[k])
                \/ \E r \in DOMAIN obj \ {k} : Targets(r) \cap Targets(k) # {}

(* Every stored entry fits, unless its host name and message alone do not, *)
(* and so do its message, the number of its fields and each of their       *)
(* values.  The process panics only over an entry without fields whose     *)
(* bytes are far longer than its message: the rest of them is header, or   *)
(* the value of a key that is recognized or reserved (enforceSize).        *)
EntryFits ==
    /\ Stored =>
        /\ Size(entry) <= MaxEntry \/ (entry.raw = <<>> /\ entry.fields = NoFields)
        /\ Len(entry.message) <= MaxMessage
        /\ Cardinality(Own(entry.fields)) <= MaxFields
        /\ \A k \in DOMAIN entry.fields : Len(entry.fields[k]) <= MaxValue
    /\ entry.format = "panic" =>
        entry.fields = NoFields /\ Len(raw) > MaxEntry - MaxMessage - Slack

(* No field of a sender's takes the place of what the row says of the      *)
(* entry itself, with one exception: a field called _msg, which the        *)
(* normalizer does not reserve, replaces the message.                      *)
RowKeepsEntry ==
    Stored =>
        LET row == Row(entry)
        IN  /\ row[<<"_msg">>] = entry.message \/ <<"_msg">> \in DOMAIN entry.fields
            /\ entry.hostname # <<>> => row[<<"hostname">>] = entry.hostname
            /\ entry.severity # None => row[<<"severity_name">>] = SeverityName(entry)
            /\ entry.raw # <<>> => row[<<"raw_message">>] = entry.raw
=============================================================================
