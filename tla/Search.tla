------------------------------- MODULE Search -------------------------------
(***************************************************************************)
(* One message on its way in and one query on its way out: Ingest turns    *)
(* the message into an entry, the storage client the entry into a row; a   *)
(* user types a query, or clicks a value in the explorer's sidebar, and    *)
(* parseRange turns the text into the filter that reaches the storage.     *)
(***************************************************************************)
EXTENDS Intake, Integers, Sequences, SequencesExt, FiniteSets

CONSTANTS
    Sources,      \* [formats, storeUnknown], as a configuration may have them
    Senders,      \* messages of RFC 5424, as their senders mean them
    Wire,         \* other messages, as bytes
    Typed,        \* texts a user may type
    Exprs,        \* expressions a client may build and compile
    Facets,       \* <<field, value>> the sidebar may show for older rows
    Narrowed,     \* bound: the queries that a click extends
    Browsed,      \* bound: the formats of the rows that clicks are on
    MaxQuery      \* maxQueryLen, in characters

VARIABLES
    sender,       \* what the sender meant, if it spoke RFC 5424
    raw,          \* the bytes
    entry,        \* what the normalizer made of them
    q,            \* the text of the query
    meant,        \* the expression a client compiled it from
    click,        \* the last click, and the query it was added to
    via,          \* how q came about: "none", "typed", "built", "clicked"
    filter        \* [state |-> "none", "sent" or "refused", text]

vars == <<sender, raw, entry, q, meant, click, via, filter>>

Unknown == [tag |-> "none"]
NoClick == [before |-> <<>>, field |-> <<>>, value |-> <<>>]
NotAsked == [state |-> "none", text |-> <<>>]

Init ==
    /\ sender = Unknown /\ raw = <<>> /\ entry = Parsed("none", <<>>)
    /\ q = <<>> /\ meant = Unknown /\ click = NoClick /\ via = "none" /\ filter = NotAsked

Stored == entry.format \notin {"none", "dropped", "panic"}

-----------------------------------------------------------------------------
(* A sender of RFC 5424: RFC 5424 section 6. *)

Digit(n) == ToString(n)
Decimal(n) ==
    (IF n >= 100 THEN <<Digit(n \div 100)>> ELSE <<>>)
        \o (IF n >= 10 THEN <<Digit((n \div 10) % 10)>> ELSE <<>>) \o <<Digit(n % 10)>>

OrNil(s) == IF s = <<>> THEN <<"-">> ELSE s

Param(p) ==
    <<" ">> \o p[1] \o <<"=", "\"">>
        \o FlattenSeq([i \in 1 .. Len(p[2]) |->
               IF p[2][i] \in {"\\", "\"", "]"} THEN <<"\\", p[2][i]>> ELSE <<p[2][i]>>])
        \o <<"\"">>

Element(ps) == <<"[", "a">> \o FlattenSeq([i \in 1 .. Len(ps) |-> Param(ps[i])]) \o <<"]">>

Encode(s) ==
    <<"<">> \o Decimal(s.pri) \o <<">", "1", " ", "TS", " ">>
        \o OrNil(s.hostname) \o <<" ">> \o OrNil(s.app_name) \o <<" ">>
        \o OrNil(s.process_id) \o <<" ", "-", " ">>
        \o (IF s.sd = <<>> THEN <<"-">> ELSE FlattenSeq([i \in 1 .. Len(s.sd) |-> Element(s.sd[i])]))
        \o (IF s.message = <<>> THEN <<>> ELSE <<" ">> \o s.message)

-----------------------------------------------------------------------------
(* One message, or one text, per behaviour: the bound of this module.      *)
Fresh == entry.format = "none" /\ via = "none"

OrDropped(outcomes, bytes) ==
    IF outcomes = {} THEN {Parsed("dropped", bytes)} ELSE outcomes

Ingest(bytes) ==
    /\ raw' = bytes
    /\ \E s \in Sources :
         entry' \in OrDropped(Outcomes(bytes, s.formats, s.storeUnknown), bytes)
    /\ UNCHANGED <<q, meant, click, via, filter>>

Receive(bytes) == Fresh /\ Ingest(bytes) /\ UNCHANGED sender

ReceiveFrom(s) == Fresh /\ Ingest(Encode(s)) /\ sender' = s

Type(text) ==
    /\ Fresh
    /\ q' = text /\ via' = "typed"
    /\ UNCHANGED <<sender, raw, entry, meant, click, filter>>

Build(e) ==
    /\ Fresh /\ Compilable(e)
    /\ q' = Compile(e) /\ meant' = e /\ via' = "built"
    /\ UNCHANGED <<sender, raw, entry, click, filter>>

(* A mutant: no quotes. *)
FilterTermBare(field, value) == field \o <<":">> \o value

(* filterTerm of the explorer. *)
FilterTerm(field, value) ==
    field \o <<":">>
        \o (IF value # <<>> /\ TextOver(BareChars, value) THEN value ELSE Quote(value))

(* What a click can be on: a value of the row, or of a row stored before.  *)
Clickable ==
    IF Stored /\ entry.format \in Browsed
    THEN {<<f, Row(entry)[f]>> : f \in DOMAIN Row(entry)} ELSE Facets

(* addFilter *)
AddFilter(field, value) ==
    /\ entry.format \in Browsed \cup {"none"} /\ via # "clicked"
    /\ filter = NotAsked /\ q \in Narrowed \cup {<<>>}
    /\ <<field, value>> \in Clickable
    /\ q' = (IF q = <<>> THEN <<>> ELSE q \o <<" ", "AND", " ">>) \o FilterTerm(field, value)
    /\ click' = [before |-> q, field |-> field, value |-> value]
    /\ via' = "clicked"
    /\ UNCHANGED <<sender, raw, entry, meant, filter>>

(* parseRange, as far as it is about q. *)
Sent(text) == [state |-> "sent", text |-> text]
Refused == [state |-> "refused", text |-> <<>>]

Compiled(parsed) ==
    IF parsed.at # 0 /\ Compilable(parsed.e) THEN Sent(Compile(parsed.e)) ELSE Refused

ParseRange(text) ==
    CASE text = <<>>         -> Sent(<<>>)
      [] Len(text) > MaxQuery -> Refused
      [] OTHER               -> Compiled(Parse(text))

Ask ==
    /\ via # "none" /\ filter = NotAsked
    /\ filter' = ParseRange(Trim(q))
    /\ UNCHANGED <<sender, raw, entry, q, meant, click, via>>

(* The next message or query; a panic ends the process, which is started again. *)
Again ==
    /\ via = "none" => entry.format \notin Browsed \cup {"none"}
    /\ via # "none" => filter # NotAsked
    /\ sender' = Unknown /\ raw' = <<>> /\ entry' = Parsed("none", <<>>)
    /\ q' = <<>> /\ meant' = Unknown /\ click' = NoClick /\ via' = "none" /\ filter' = NotAsked

Next ==
    \/ \E e \in Exprs : Build(e)
    \/ \E text \in Typed : Type(text)
    \/ \E s \in Senders : ReceiveFrom(s)
    \/ \E bytes \in Wire : Receive(bytes)
    \/ \E c \in Clickable : AddFilter(c[1], c[2])
    \/ Ask
    \/ Again

Spec == Init /\ [][Next]_vars
=============================================================================
