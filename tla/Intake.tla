------------------------------- MODULE Intake -------------------------------
(***************************************************************************)
(* What Ingest makes of the bytes of one message: detection, the three     *)
(* parsers (internal/parser), the normalizer (internal/normalization) and  *)
(* the row the storage client writes.  Go visits a map in random order, so *)
(* the operators that range over one yield a set of outcomes.              *)
(*                                                                         *)
(* Texts and positions are those of Query.  "TS" is any RFC 3339 time,     *)
(* "BSD" any time of RFC 3164, "BOM" the byte order mark.  Lengths count   *)
(* characters.                                                             *)
(***************************************************************************)
EXTENDS Query
LOCAL INSTANCE Integers
LOCAL INSTANCE Sequences
LOCAL INSTANCE SequencesExt
LOCAL INSTANCE FiniteSetsExt
LOCAL INSTANCE Functions
LOCAL INSTANCE TLC

CONSTANTS
    Json,           \* encoding/json: from a text to the object it decodes to
    Reserved,       \* reservedKeys
    MaxTag, MaxHost,
    MaxMessage, MaxFields, MaxValue, MaxEntry,
    Overhead,       \* what entrySize adds for the rest of an entry: 256
    Slack           \* what is kept free beside the raw message: 1024

ASSUME IntakeAssumption ==
    /\ {MaxTag, MaxHost, MaxMessage, MaxFields, MaxValue, Overhead} \subseteq Nat \ {0}
    /\ MaxEntry \in Nat /\ MaxMessage <= MaxEntry
    /\ Slack \in Nat /\ Overhead < Slack

None == -1
NoFields == <<>>
Put(f, k, v) == [x \in DOMAIN f \cup {k} |-> IF x = k THEN v ELSE f[x]]
Without(f, k) == [x \in DOMAIN f \ {k} |-> f[x]]

(* parser.Parsed, and model.LogEntry as far as it depends on it. *)
Parsed(format, raw) ==
    [format |-> format, time |-> "received", hostname |-> <<>>, app_name |-> <<>>,
     process_id |-> <<>>, message_id |-> <<>>, facility |-> None, severity |-> None,
     message |-> <<>>, fields |-> NoFields, raw |-> raw]

From(s, p) == SubSeq(s, p, Len(s))

IsNumber(s) == s # <<>> /\ TextOver(Digits, s)
DigitValue(c) == CHOOSE n \in 0 .. 9 : c = ToString(n)
Number(s) == FoldLeft(LAMBDA n, c : 10 * n + DigitValue(c), 0, s)

-----------------------------------------------------------------------------
(* detect.go *)

(* What begins with a priority that ends at i: is a version next? *)
VersionNext(raw, i) ==
    /\ At(raw, i + 1) \in Digits \ {"0"}
    /\ At(raw, Past(raw, i + 1, Digits)) = " "
    /\ Past(raw, i + 1, Digits) - i <= 4

Detect(raw) ==
    LET i == Past(raw, 2, Digits)
    IN  CASE At(raw, 1) = "{" -> "json"
          [] At(raw, 1) = "<" /\ i > 2 /\ At(raw, i) = ">" ->
               IF VersionNext(raw, i) THEN "rfc5424" ELSE "rfc3164"
          [] OTHER -> "unknown"

(* parsePRI: the value and the position after it; None and 1 if there is none. *)
PriUpTo(s, e) ==
    IF /\ At(s, 1) = "<" /\ e \in 3 .. 5 /\ At(s, e) = ">"
       /\ Number(SubSeq(s, 2, e - 1)) <= 191
    THEN [n |-> Number(SubSeq(s, 2, e - 1)), at |-> e + 1] ELSE [n |-> None, at |-> 1]

Pri(s) == PriUpTo(s, Past(s, 2, Digits))

WithPri(p, pri) ==
    IF pri.n = None THEN p
    ELSE [p EXCEPT !.facility = pri.n \div 8, !.severity = pri.n % 8]

-----------------------------------------------------------------------------
(* rfc5424.go.  A position of 0 is an error. *)

(* A mutant: an escaped backslash stays two characters, and the second may *)
(* escape the quote.                                                       *)
RECURSIVE KeepBackslash(_, _, _)
KeepBackslash(s, p, v) ==
    CASE p > Len(s) -> [v |-> v, at |-> 0]
      [] At(s, p) = "\\" /\ At(s, p + 1) \in {"\"", "]"} ->
           KeepBackslash(s, p + 2, Append(v, s[p + 1]))
      [] At(s, p) = "\"" -> [v |-> v, at |-> p + 1]
      [] OTHER -> KeepBackslash(s, p + 1, Append(v, s[p]))

(* A PARAM-VALUE, p being behind its opening quote. *)
RECURSIVE ParamValue(_, _, _)
ParamValue(s, p, v) ==
    CASE p > Len(s) -> [v |-> v, at |-> 0]
      [] At(s, p) = "\\" /\ At(s, p + 1) \in {"\\", "\"", "]"} ->
           ParamValue(s, p + 2, Append(v, s[p + 1]))
      [] At(s, p) = "\"" -> [v |-> v, at |-> p + 1]
      [] OTHER -> ParamValue(s, p + 1, Append(v, s[p]))

(* The fields so far and the position; or 0 after an error. *)
FieldsTo(fields, p) == [fields |-> fields, at |-> p]

(* The params from p on, added to `fields`. *)
RECURSIVE Params(_, _, _), ParamNamed(_, _, _, _)
Params(s, p, fields) ==
    IF At(s, p) # " " THEN FieldsTo(fields, p)
    ELSE ParamNamed(s, p + 1, Until(s, p + 1, {"=", "]", " "}), fields)

ParamNamed(s, p, eq, fields) ==
    IF At(s, eq) # "=" \/ At(s, eq + 1) # "\"" THEN FieldsTo(fields, 0)
    ELSE Then(ParamValue(s, eq + 2, <<>>),
              LAMBDA value : Params(s, value.at, Put(fields, SubSeq(s, p, eq - 1), value.v)))

RECURSIVE Elements(_, _, _)
Elements(s, p, fields) ==
    IF At(s, p) # "[" THEN FieldsTo(fields, p)
    ELSE LET AfterParams(r) == IF At(s, r.at) # "]" THEN FieldsTo(fields, 0)
                               ELSE Elements(s, r.at + 1, r.fields)
         IN  AfterParams(Params(s, Until(s, p, {" ", "]"}), fields))

(* parseStructuredData *)
StructuredData(s, p) ==
    LET Followed(r) == IF At(s, r.at) \in {" ", "end"} THEN r ELSE FieldsTo(NoFields, 0)
    IN  CASE At(s, p) = "-" -> Followed(FieldsTo(NoFields, p + 1))
          [] At(s, p) = "[" -> Followed(Elements(s, p, NoFields))
          [] OTHER          -> FieldsTo(NoFields, 0)

NilValue(s) == IF s = <<"-">> THEN <<>> ELSE s

(* Where the five fields of the header begin, and STRUCTURED-DATA. *)
HeaderAt(raw, from) ==
    FoldLeft(LAMBDA at, k : Append(at, Until(raw, at[k], {" "}) + 1), <<from>>, <<1, 2, 3, 4, 5>>)

Token(raw, at, k) == SubSeq(raw, at[k], at[k + 1] - 2)

HeaderComplete(raw, at) ==
    /\ \A k \in 1 .. 5 : Token(raw, at, k) # <<>> /\ At(raw, at[k + 1] - 1) = " "
    /\ Token(raw, at, 1) \in {<<"-">>, <<"TS">>}

Message5424(raw, p) == From(raw, IF At(raw, p + 1) = "BOM" THEN p + 2 ELSE p + 1)

(* Parse, one step behind the other; the empty set is an error. *)
Entry5424(raw, pri, at, sd) ==
    IF sd.at = 0 THEN {}
    ELSE {[WithPri(Parsed("rfc5424", raw), pri) EXCEPT
             !.time = IF Token(raw, at, 1) = <<"-">> THEN "received" ELSE "sent",
             !.hostname = NilValue(Token(raw, at, 2)), !.app_name = NilValue(Token(raw, at, 3)),
             !.process_id = NilValue(Token(raw, at, 4)), !.message_id = NilValue(Token(raw, at, 5)),
             !.fields = sd.fields, !.message = Message5424(raw, sd.at)]}

BehindVersion(raw, pri, at) ==
    IF HeaderComplete(raw, at) THEN Entry5424(raw, pri, at, StructuredData(raw, at[6])) ELSE {}

BehindPri(raw, pri, end) ==
    IF pri.n # None /\ end - pri.at \in 1 .. 3 /\ At(raw, end) = " "
    THEN BehindVersion(raw, pri, HeaderAt(raw, end + 1)) ELSE {}

Parse5424(raw) ==
    LET Behind(pri) == BehindPri(raw, pri, Past(raw, pri.at, Digits)) IN Behind(Pri(raw))

-----------------------------------------------------------------------------
(* rfc3164.go.  It never fails. *)

TagChars == Letters \cup {"-"}

(* parseHostname: the position after the host name that begins at p, or p. *)
IsHost(tok) ==
    Len(tok) \in 1 .. MaxHost /\ ":" \notin ToSet(tok) /\ ~TextOver({"-"}, tok)

HostEnd(s, p) ==
    LET UpTo(e) == IF At(s, e) = " " /\ IsHost(SubSeq(s, p, e - 1)) THEN e ELSE p
    IN  UpTo(Until(s, p, {" "}))

(* splitTagMessage *)
Untagged(b) == [tag |-> <<>>, pid |-> <<>>, msg |-> b]

IsTag(tag) == Len(tag) \in 1 .. MaxTag /\ TextOver(TagChars, tag)

WithTag(b, tag, pid, colon) ==
    IF IsTag(tag) /\ At(b, colon) = ":"
    THEN [tag |-> tag, pid |-> pid, msg |-> From(b, Blank(b, colon + 1))] ELSE Untagged(b)

(* A mutant: the text between the process and the colon is skipped. *)
WithPidLoosely(b, i, close) ==
    IF close > i + 1 /\ At(b, close) = "]"
    THEN WithTag(b, SubSeq(b, 1, i - 1), SubSeq(b, i + 1, close - 1), Until(b, close, {":"}))
    ELSE Untagged(b)

WithPid(b, i, close) ==
    IF close > i + 1 /\ At(b, close) = "]"
    THEN WithTag(b, SubSeq(b, 1, i - 1), SubSeq(b, i + 1, close - 1), close + 1)
    ELSE Untagged(b)

Tagged(b) ==
    LET Behind(i) == IF At(b, i) = "[" THEN WithPid(b, i, Until(b, i, {"]"}))
                     ELSE WithTag(b, SubSeq(b, 1, i - 1), <<>>, i)
    IN  Behind(Until(b, 1, {":", "[", " "}))

(* What follows the priority: a time or not, a host name or not.           *)
Timed(s, p) == At(s, p) = "BSD" \/ (At(s, p) = "TS" /\ At(s, p + 1) = " ")
HostAt(s, p) == IF At(s, p + 1) = " " THEN p + 2 ELSE p + 1

Entry3164(raw, pri, time, hostname, tagged) ==
    [WithPri(Parsed("rfc3164", raw), pri) EXCEPT
        !.time = time, !.hostname = hostname, !.app_name = tagged.tag,
        !.process_id = tagged.pid, !.message = tagged.msg]

TaggedFrom(raw, p) == Tagged(From(raw, Blank(raw, p)))

Parse3164(raw) ==
    LET WithHost(pri, host, end) ==
            Entry3164(raw, pri, "sent", SubSeq(raw, host, end - 1), TaggedFrom(raw, end))
        WithTime(pri, host) == WithHost(pri, host, HostEnd(raw, host))
        Behind(pri) ==
            IF Timed(raw, pri.at) THEN WithTime(pri, HostAt(raw, pri.at))
            ELSE Entry3164(raw, pri, "received", <<>>, TaggedFrom(raw, pri.at))
    IN  {Behind(Pri(raw))}

-----------------------------------------------------------------------------
(* json.go and enums.go.  An object is a function from keys to values, a   *)
(* value the text that toString makes of it.                               *)

Names5424 == <<"emergency", "alert", "critical", "error", "warning", "notice", "info", "debug">>
Names3164 == <<"panic", "alert", "crit", "err", "warning", "notice", "info", "debug">>
Aliases == [fatal |-> 2, warn |-> 4]

Position(name, names) == {n \in 0 .. 7 : <<names[n + 1]>> = name}

SeverityOf(v) ==
    CASE v \in {<<ToString(n)>> : n \in 0 .. 7} -> Number(v)
      [] Position(v, Names5424) \cup Position(v, Names3164) # {} ->
           CHOOSE n \in Position(v, Names5424) \cup Position(v, Names3164) : TRUE
      [] v \in {<<a>> : a \in DOMAIN Aliases} -> Aliases[v[1]]
      [] OTHER -> None

LowerOf(c) == CASE c = "A" -> "a" [] c = "Level" -> "level" [] OTHER -> c
Lower(k) == [i \in 1 .. Len(k) |-> LowerOf(k[i])]

StandardKeys ==
    [time         |-> {<<"timestamp">>, <<"time">>, <<"@timestamp">>},
     hostname     |-> {<<"host">>, <<"hostname">>},
     severity     |-> {<<"level">>, <<"severity">>, <<"severity_name">>, <<"level_name">>},
     priority     |-> {<<"priority">>, <<"pri">>},
     facility     |-> {<<"facility">>},
     message      |-> {<<"message">>, <<"msg">>, <<"short_message">>},
     app_name     |-> {<<"service">>, <<"app">>, <<"app_name">>},
     process_id   |-> {<<"process_id">>, <<"procid">>}]

(* A mutant: names count as they are written. *)
RecognizedAsIs(k) == \E f \in DOMAIN StandardKeys : k \in StandardKeys[f]

Recognized(k) == \E f \in DOMAIN StandardKeys : Lower(k) \in StandardKeys[f]

(* Pass 1 of MapToParsed at one key. *)
Consume(p, k, v) ==
    LET for(f) == Lower(k) \in StandardKeys[f]
        InRange(max) == IsNumber(v) /\ Number(v) <= max
    IN  CASE for("time")     -> IF v = <<"TS">> THEN [p EXCEPT !.time = "sent"] ELSE p
          [] for("hostname") -> [p EXCEPT !.hostname = v]
          [] for("severity") -> [p EXCEPT !.severity = SeverityOf(v)]
          [] for("priority") -> IF InRange(191) THEN WithPri(p, [n |-> Number(v)]) ELSE p
          [] for("facility") -> IF InRange(23) THEN [p EXCEPT !.facility = Number(v)] ELSE p
          [] for("message")  -> [p EXCEPT !.message = v]
          [] for("app_name") -> [p EXCEPT !.app_name = v]
          [] for("process_id") -> [p EXCEPT !.process_id = v]

(* The loops over the map, each in an order of its own. *)
MapToParsed(obj, raw) ==
    LET Pass1(order) == FoldLeft(LAMBDA p, k : Consume(p, k, obj[k]), Parsed("json", raw), order)
        Pass2(order) == FoldLeft(LAMBDA f, k : Put(f, Lower(k), obj[k]), NoFields, order)
    IN  {[p EXCEPT !.fields = f, !.message = IF @ = <<>> THEN raw ELSE @] :
            p \in {Pass1(o) : o \in SetToSeqs({k \in DOMAIN obj : Recognized(k)})},
            f \in {Pass2(o) : o \in SetToSeqs({k \in DOMAIN obj : ~Recognized(k)})}}

ParseJson(raw) == IF raw \in DOMAIN Json THEN MapToParsed(Json[raw], raw) ELSE {}

-----------------------------------------------------------------------------
(* normalizer.go *)

KeyChar(c) == IF c \in Letters THEN c ELSE "_"

(* A mutant: other characters are kept. *)
KeepKey(k) == Trim(Lower(k))

NormalizeKey(k) == LET trimmed == Trim(Lower(k))
                   IN  [i \in 1 .. Len(trimmed) |-> KeyChar(trimmed[i])]

Cut(s, n) == SubSeq(s, 1, Min({n, Len(s)}))

(* A mutant: reserved keys are not looked at. *)
ApplyAnyFields(fields, order) ==
    FoldLeft(LAMBDA f, k : Put(f, NormalizeKey(k), Cut(fields[k], MaxValue)), NoFields, order)

(* applyFields, the map being visited in the given order.  `taken` counts  *)
(* what was stored; once it reaches the cap the rest is dropped.           *)
ApplyFields(fields, order) ==
    LET Take(sofar, k) ==
            LET key == NormalizeKey(k)
            IN  IF key = <<>> \/ key \in Reserved \/ sofar.taken >= MaxFields THEN sofar
                ELSE [fields |-> Put(sofar.fields, key, Cut(fields[k], MaxValue)),
                      taken |-> sofar.taken + 1]
    IN  FoldLeft(Take, [fields |-> NoFields, taken |-> 0], order).fields

Size(e) ==
    Len(e.message) + Len(e.raw) + Len(e.hostname) + Overhead
        + FoldFunction(+, 0, [k \in DOMAIN e.fields |-> Len(k) + Len(e.fields[k])])

Marked(e) == [e EXCEPT !.fields = Put(@, <<"truncated">>, <<"true">>)]

(* The loop of enforceSize.  e.Fields is nil as long as it has no key:     *)
(* only the branch after the raw message takes keys out.  A write to the   *)
(* nil map panics.                                                         *)
Budget(e) == Max({0, MaxEntry - Len(e.message) - Slack})

RECURSIVE Shed(_)
Shed(e) ==
    IF Size(e) <= MaxEntry THEN e
    ELSE CASE e.raw # <<>> /\ Budget(e) < Len(e.raw) ->
                IF e.fields = NoFields THEN [e EXCEPT !.format = "panic"]
                ELSE Shed(Marked([e EXCEPT !.raw = Cut(@, Budget(e))]))
           [] e.raw # <<>> /\ Budget(e) >= Len(e.raw) -> Shed([e EXCEPT !.raw = <<>>])
           [] e.raw = <<>> /\ e.fields # NoFields ->
                Shed([e EXCEPT !.fields = Without(@, CHOOSE k \in DOMAIN @ : TRUE)])
           [] OTHER -> [e EXCEPT !.message = Cut(@, MaxEntry)]

CutMessage(e) ==
    IF Len(e.message) > MaxMessage
    THEN Marked([e EXCEPT !.message = Cut(@, MaxMessage)]) ELSE e

(* A mutant: one pass instead of a loop. *)
EnforceOnce(e) ==
    LET Once(m) == IF Size(m) > MaxEntry THEN Marked([m EXCEPT !.raw = Cut(@, Budget(m))]) ELSE m
    IN  Once(CutMessage(e))

EnforceSize(e) == Shed(CutMessage(e))

Normalize(p) ==
    {EnforceSize([p EXCEPT !.fields = ApplyFields(p.fields, o)]) :
        o \in SetToSeqs(DOMAIN p.fields)}

-----------------------------------------------------------------------------
(* Ingest and storeUnknown of the pipeline. *)

Parse_(format, raw) ==
    CASE format = "rfc5424" -> Parse5424(raw)
      [] format = "rfc3164" -> Parse3164(raw)
      [] format = "json"    -> ParseJson(raw)
      [] format = "unknown" -> {}

(* storeUnknown, the setting, decides about what no parser accepts. *)
OrUnknown(parsed, raw, storeUnknown) ==
    IF parsed = {} /\ storeUnknown THEN {[Parsed("unknown", raw) EXCEPT !.message = raw]}
    ELSE parsed

(* The entries a message from a source of these formats may become; none   *)
(* if it is dropped.                                                       *)
Outcomes(raw, formats, storeUnknown) ==
    LET ParsedAs(format) == IF format \in formats THEN Parse_(format, raw) ELSE {}
    IN  UNION {Normalize(p) : p \in OrUnknown(ParsedAs(Detect(raw)), raw, storeUnknown)}

-----------------------------------------------------------------------------
(* marshalEntry of the storage client: the row.  An empty value is left    *)
(* out; the sender's fields come last.                                     *)

SeverityName(e) ==
    CASE e.severity = None -> <<>>
      [] e.severity # None /\ e.format = "rfc3164" -> <<Names3164[e.severity + 1]>>
      [] OTHER -> <<Names5424[e.severity + 1]>>

Standard(e) ==
    {<<<<"hostname">>, e.hostname>>, <<<<"app_name">>, e.app_name>>,
     <<<<"process_id">>, e.process_id>>, <<<<"message_id">>, e.message_id>>,
     <<<<"severity_name">>, SeverityName(e)>>, <<<<"raw_message">>, e.raw>>}

Row(e) ==
    LET Of(pairs) == [k \in {p[1] : p \in pairs} |-> (CHOOSE p \in pairs : p[1] = k)[2]]
    IN  e.fields @@ Of({<<<<"_msg">>, e.message>>} \cup {s \in Standard(e) : s[2] # <<>>})
=============================================================================
