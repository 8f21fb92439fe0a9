------------------------------- MODULE Query -------------------------------
(***************************************************************************)
(* internal/query: the filter AST, Compile to LogsQL and Parse back, as    *)
(* operators over texts.  A text is a sequence of characters.  A keyword,  *)
(* or any other name, is one character where nothing looks inside it.      *)
(*                                                                         *)
(* An expression is a record:                                              *)
(*   [tag |-> "and" or "or", l, r], [tag |-> "not", e],                    *)
(*   [tag |-> "phrase", v], [tag |-> "filter", field, op, v]               *)
(***************************************************************************)
LOCAL INSTANCE Integers
LOCAL INSTANCE Sequences
LOCAL INSTANCE SequencesExt
LOCAL INSTANCE FiniteSetsExt

Keywords == {"AND", "OR", "NOT"}
Digits == {"0", "1", "2", "3", "4", "5", "6", "7", "8", "9"}

(* What both sides take for part of a word: letters, digits, _ and dots.   *)
CONSTANT Names
Letters == {"a", "b", "A", "_"} \cup Digits \cup Names

(* Safe in a value, but not in the name of a field: the hyphen, and ~. *)
BareChars == Letters \cup Keywords \cup {"-", "~"}
FieldChars == Letters \cup Keywords

TextOver(chars, s) == ToSet(s) \subseteq chars

-----------------------------------------------------------------------------
(* The compiler *)

IsBare(v) ==
    /\ v # <<>>
    /\ v \notin {<<k>> : k \in Keywords}
    /\ TextOver(BareChars, v)

Escaped(c) == IF c \in {"\"", "\\"} THEN <<"\\", c>> ELSE <<c>>

(* A mutant: the backslash is written as it is. *)
QuoteOnlyQuotes(v) ==
    <<"\"">> \o FlattenSeq([i \in 1 .. Len(v) |->
                   IF v[i] = "\"" THEN <<"\\", "\"">> ELSE <<v[i]>>]) \o <<"\"">>

Quote(v) ==
    <<"\"">> \o FlattenSeq([i \in 1 .. Len(v) |-> Escaped(v[i])]) \o <<"\"">>

ValueOut(v) == IF IsBare(v) THEN v ELSE Quote(v)

ValidField(f) == f # <<>> /\ TextOver(FieldChars, f)

OpText == [eq    |-> <<>>,         neq |-> <<"!", "=">>, match |-> <<"~">>,
           ge    |-> <<">", "=">>, le  |-> <<"<", "=">>,
           gt    |-> <<">">>,      lt  |-> <<"<">>]

(* Compile returns an error exactly when this is false. *)
RECURSIVE Compilable(_)
Compilable(e) ==
    CASE e.tag \in {"and", "or"} -> Compilable(e.l) /\ Compilable(e.r)
      [] e.tag = "not"           -> Compilable(e.e)
      [] e.tag = "phrase"        -> TRUE
      [] e.tag = "filter"        -> /\ ValidField(e.field)
                                    /\ e.op \in DOMAIN OpText \cup {"exists"}

CompileFilter(f) ==
    f.field \o <<":">>
        \o (IF f.op = "exists" THEN <<"*">> ELSE OpText[f.op] \o ValueOut(f.v))

(* A mutant: no parentheses. *)
Ungrouped(e, text) == text

(* AND binds tighter than OR: an Or below an And is parenthesized. *)
Grouped(e, text) == IF e.tag = "or" THEN <<"(">> \o text \o <<")">> ELSE text

RECURSIVE Compile(_)
Compile(e) ==
    CASE e.tag = "and"    -> Grouped(e.l, Compile(e.l)) \o <<" ", "AND", " ">>
                               \o Grouped(e.r, Compile(e.r))
      [] e.tag = "or"     -> Compile(e.l) \o <<" ", "OR", " ">> \o Compile(e.r)
      [] e.tag = "not"    -> <<"NOT", " ", "(">> \o Compile(e.e) \o <<")">>
      [] e.tag = "phrase" -> ValueOut(e.v)
      [] e.tag = "filter" -> CompileFilter(e)

-----------------------------------------------------------------------------
(* The parser: a text and a position in; what was read and the position    *)
(* after it out.  Position 0 is an error.                                  *)

At(s, p) == IF p \in 1 .. Len(s) THEN s[p] ELSE "end"

Ok(e, p) == [e |-> e, at |-> p]
Failed == Ok(<<>>, 0)
Then(r, Rest(_)) == IF r.at = 0 THEN Failed ELSE Rest(r)

(* The first position from p on whose character is one of `stop`. *)
Until(s, p, stop) ==
    CHOOSE i \in p .. p + Len(s) :
        At(s, i) \in stop \cup {"end"} /\ \A j \in p .. i - 1 : At(s, j) \notin stop

(* The first position from p on whose character is none of `chars`.        *)
Past(s, p, chars) ==
    CHOOSE i \in p .. p + Len(s) :
        At(s, i) \notin chars /\ \A j \in p .. i - 1 : At(s, j) \in chars

Blank(s, p) == Past(s, p, {" "})

(* strings.TrimSpace *)
Trim(s) ==
    LET inner == {i \in 1 .. Len(s) : s[i] # " "}
    IN  IF inner = {} THEN <<>> ELSE SubSeq(s, Min(inner), Max(inner))

KeywordAt(s, p, kw) ==
    At(s, p) = kw /\ At(s, p + 1) \in {" ", "(", ")", "end"}

(* The text of a quoted string, p being behind the opening quote. *)
RECURSIVE Quoted(_, _, _)
Quoted(s, p, v) ==
    CASE p > Len(s)                    -> Failed
      [] p < Len(s) /\ s[p] = "\\"     -> Quoted(s, p + 2, Append(v, s[p + 1]))
      [] p <= Len(s) /\ s[p] = "\""    -> Ok(v, p + 1)
      [] OTHER                         -> Quoted(s, p + 1, Append(v, s[p]))

(* The operator at p: the longest that fits, for the code tries those of   *)
(* two characters before the one they begin with.                          *)
Fits(s, p) == {o \in DOMAIN OpText : IsPrefix(OpText[o], SubSeq(s, p, Len(s)))}
Longest(ops) == CHOOSE o \in ops : \A x \in ops : Len(OpText[x]) <= Len(OpText[o])

(* What stands between two positions, which must not be empty. *)
Word(s, p, end) == IF end = p THEN Failed ELSE Ok(SubSeq(s, p, end - 1), end)

(* The value of a filter from p on. *)
FilterValue(s, p) ==
    IF At(s, p) = "\"" THEN Quoted(s, p + 1, <<>>)
    ELSE Word(s, p, Until(s, p, {" ", ")", "("}))

FilterOf(s, field, op, p) ==
    LET filter(o, v) == [tag |-> "filter", field |-> field, op |-> o, v |-> v]
    IN  IF op = "eq" /\ At(s, p) = "*" /\ At(s, p + 1) \in {" ", ")", "end"}
        THEN Ok(filter("exists", <<>>), p + 1)
        ELSE Then(FilterValue(s, p), LAMBDA r : Ok(filter(op, r.e), r.at))

ParseFilter(s, field, p) ==
    LET With(op) == FilterOf(s, field, op, p + Len(OpText[op]))
    IN  With(Longest(Fits(s, p)))

(* A bare word from p to end: a phrase, or the name of a field. *)
BareTerm(s, p, end) ==
    IF At(s, end) = ":" THEN ParseFilter(s, SubSeq(s, p, end - 1), end + 1)
    ELSE Then(Word(s, p, end), LAMBDA r : Ok([tag |-> "phrase", v |-> r.e], r.at))

(* parseTerm behind the blanks, and what follows NOT and ( in parseUnary. *)
ParseTerm(s, p) ==
    IF At(s, p) = "\""
    THEN Then(Quoted(s, p + 1, <<>>), LAMBDA r : Ok([tag |-> "phrase", v |-> r.e], r.at))
    ELSE BareTerm(s, p, Until(s, p, {" ", ")", "(", ":"}))

Closed(s, inner, p) == IF At(s, p) = ")" THEN Ok(inner.e, p + 1) ELSE Failed

RECURSIVE ParseOr(_, _), ParseAnd(_, _), ParseUnary(_, _), MoreOr(_, _, _), MoreAnd(_, _, _)

(* p is behind the blanks. *)
ParseUnary(s, p) ==
    CASE KeywordAt(s, p, "NOT") ->
           Then(ParseUnary(s, Blank(s, p + 1)),
                LAMBDA r : Ok([tag |-> "not", e |-> r.e], r.at))
      [] At(s, p) = "(" ->
           Then(ParseOr(s, p + 1), LAMBDA r : Closed(s, r, Blank(s, r.at)))
      [] OTHER -> ParseTerm(s, p)

(* The loop of parseAnd: `left` has been read and p is behind the blanks   *)
(* after it; AND, or nothing, joins the next term to it.                   *)
MoreAnd(s, left, p) ==
    IF At(s, p) \in {"end", ")"} \/ KeywordAt(s, p, "OR") THEN Ok(left.e, p)
    ELSE Then(ParseUnary(s, IF KeywordAt(s, p, "AND") THEN Blank(s, p + 1) ELSE p),
              LAMBDA r : MoreAnd(s, Ok([tag |-> "and", l |-> left.e, r |-> r.e], r.at),
                                 Blank(s, r.at)))

ParseAnd(s, p) ==
    Then(ParseUnary(s, Blank(s, p)), LAMBDA left : MoreAnd(s, left, Blank(s, left.at)))

MoreOr(s, left, p) ==
    IF ~KeywordAt(s, p, "OR") THEN Ok(left.e, p)
    ELSE Then(ParseAnd(s, p + 1),
              LAMBDA r : MoreOr(s, Ok([tag |-> "or", l |-> left.e, r |-> r.e], r.at),
                                Blank(s, r.at)))

ParseOr(s, p) ==
    Then(ParseAnd(s, p), LAMBDA left : MoreOr(s, left, Blank(s, left.at)))

(* Parse: all of the text must have been read. *)
Parse(s) ==
    Then(ParseOr(s, 1), LAMBDA all : IF Blank(s, all.at) > Len(s) THEN all ELSE Failed)

=============================================================================
