------------------------------ MODULE MCSearch ------------------------------
EXTENDS SearchProperties, TLC

MCNames == {"_msg", "hostname", "app_name", "process_id", "message_id", "severity_name",
            "raw_message", "truncated", "true", "Level", "severity", "priority",
            "facility", "message", "host"}
            \cup ToSet(Names5424) \cup ToSet(Names3164)
MCReserved == {<<n>> : n \in {"hostname", "app_name", "process_id", "message_id",
                              "severity_name", "raw_message"}}
MCSources == {[formats |-> {"rfc3164", "rfc5424", "json"}, storeUnknown |-> TRUE],
              [formats |-> {"rfc3164", "json"}, storeUnknown |-> FALSE]}

-----------------------------------------------------------------------------
(* Queries: all short texts, and longer ones over characters that interact. *)
MCTyped ==
    (BoundedSeq({" ", "(", ")", ":", "\"", "\\", "*", "~", "AND", "OR", "NOT", "a", "|"}, 3)
     \cup BoundedSeq({" ", "(", ")", "OR", "a"}, 5)
     \cup BoundedSeq({" ", "AND", "OR", "NOT", "a"}, 5)
     \cup BoundedSeq({":", "\"", "\\", "~", "*", "a"}, 4)
     \cup {<<"a", ":", "\"">> \o v \o <<"\"">> : v \in BoundedSeq({"~", "AND", "a", "*"}, 3)})
        \ {<<>>}

Values == {<<>>, <<"a">>, <<"AND">>, <<"~", "a">>, <<"~", "AND">>, <<"~", " ">>, <<"a", " ", "b">>, <<"\"">>,
           <<"\\">>, <<"a", "*">>, <<"=", "a">>}
AllLeaves ==
    {[tag |-> "phrase", v |-> v] : v \in Values}
    \cup {[tag |-> "filter", field |-> <<"a">>, op |-> o, v |-> v] :
             o \in DOMAIN OpText, v \in Values}
    \cup {[tag |-> "filter", field |-> f, op |-> "exists", v |-> <<>>] :
             f \in {<<"a">>, <<"NOT">>, <<"-">>}}
FewLeaves ==
    {[tag |-> "phrase", v |-> <<"OR">>],
     [tag |-> "filter", field |-> <<"a">>, op |-> "ge", v |-> <<"b">>],
     [tag |-> "filter", field |-> <<"a">>, op |-> "eq", v |-> <<"a", ")", "\"">>]}
Compound(es) ==
    es \cup {[tag |-> "not", e |-> e] : e \in es}
       \cup {[tag |-> t, l |-> l, r |-> r] : t \in {"and", "or"}, l \in es, r \in es}
MCExprs == AllLeaves \cup Compound(Compound(FewLeaves))

MCFacets == {<<<<"a">>, v>> : v \in {<<"a">>, <<"~", "a">>, <<"b", " ", "a">>, <<"\\", "\"">>}}
MCNarrowed == {s \in MCTyped : Len(s) <= 2} \cup {Compile(e) : e \in Compound(FewLeaves)}

-----------------------------------------------------------------------------
(* RFC 5424: up to three parameters in one or two elements, names that meet *)
(* or are reserved, values with everything that is escaped, one over the    *)
(* limit, one name over the cap; and headers that leave less and less room. *)
ParamNames == {<<"a">>, <<"A">>, <<"hostname">>, <<"_msg">>, <<"-">>}
ParamValues == {<<>>, <<"\\">>, <<"\"", "]", " ", "a">>}
Singles == {<<<<n, v>>>> : n \in ParamNames, v \in ParamValues \cup {<<"~", "a">>, <<"~">>}}
Pairs == {<<<<n, v>>, <<m, <<"\\", "~">>>>>> : n \in ParamNames, m \in ParamNames, v \in ParamValues}
Several == {<<<<<<"a">>, <<"]">>>>, <<<<"b">>, v>>, <<n, <<"3">>>>>> : n \in ParamNames, v \in ParamValues}
Sds == {<<ps>> : ps \in Pairs \cup Several}
           \cup {<<SubSeq(ps, 1, 1), SubSeq(ps, 2, Len(ps))>> : ps \in Pairs \cup Several}
As(n) == [i \in 1 .. n |-> "a"]
MCSenders ==
    [tag : {"5424"}, pri : {13, 191}, hostname : {<<>>, <<"a">>},
     app_name : {<<"b">>}, process_id : {<<"1", "2">>},
     sd : {<<>>} \cup {<<ps>> : ps \in Singles},
     message : {<<>>, <<"a", "a", "a", "a", "a", "a", "b">>}]
    \cup [tag : {"5424"}, pri : {13}, hostname : {<<>>},
          app_name : {<<"b">>}, process_id : {<<"1", "2">>}, sd : Sds, message : {<<>>, As(7)}]
    \cup [tag : {"5424"}, pri : {13}, hostname : {As(n) : n \in {10, 50, 75, 80, 85}},
          app_name : {<<"b">>}, process_id : {<<>>},
          sd : {<<>>} \cup {<<ps>> : ps \in Singles \cup Several}, message : {<<"a">>, As(7)}]

(* Other bytes: every body of three characters behind two beginnings, every *)
(* tag of four, short bodies behind all, and what is cut short or too long. *)
Beginnings == {<<>>, <<"<", "1", "3", ">">>, <<"<", "1", "9", "2", ">">>, <<"<", ">">>,
               <<"<", "0", "0", "1", "3", ">">>, <<"<", "1", "3", ">", "1", " ">>}
Times == {<<>>, <<"BSD">>, <<"BSD", " ">>, <<"TS", " ">>}
Bodies(n) == BoundedSeq({"a", " ", ":", "[", "]", "-"}, n)
LongPid == <<"<", "1", "3", ">", "a", "[">> \o [i \in 1 .. 90 |-> "1"] \o <<"]", ":", "b">>
LongLine == <<"<", "1", "3", ">">> \o As(90)
Good == Encode([tag |-> "5424", pri |-> 13, hostname |-> <<"a">>, app_name |-> <<"b">>,
                process_id |-> <<>>, sd |-> <<<<<<<<"a">>, <<"\"">>>>>>>>, message |-> <<"a">>])
WireText ==
    {b \o t \o x : b \in {<<>>, <<"<", "1", "3", ">">>}, t \in {<<"BSD", " ">>, <<>>}, x \in Bodies(3)}
    \cup {<<"<", "1", "3", ">">> \o x : x \in BoundedSeq({"a", "[", "]", ":"}, 4)}
    \cup {<<"<", "1", "3", ">", "a", "[", "1", "]">> \o x : x \in BoundedSeq({"a", "]", ":", " "}, 3)}
    \cup {b \o t \o x : b \in Beginnings, t \in Times, x \in Bodies(2)}
    \cup {LongPid, LongLine, <<>>, <<"{">>}
    \cup {SubSeq(Good, 1, i) : i \in 1 .. Len(Good)}

(* JSON: objects of up to three keys, some of them rivals. *)
JsonKeys == {<<"Level">>, <<"severity">>, <<"priority">>, <<"facility">>, <<"message">>,
             <<"host">>, <<"A">>, <<"a">>, <<"a", "~">>, <<"a", "_">>, <<"_msg">>, <<"hostname">>}
JsonValues(k) ==
    CASE Lower(k) \in StandardKeys.severity -> {<<"err">>, <<"5">>, <<"b">>}
      [] k \in {<<"priority">>, <<"facility">>} -> {<<"1", "4">>, <<"1", "9", "9">>}
      [] OTHER -> {<<k[1], "\"", "\\">>}
JsonObjects ==
    UNION {{f \in [ks -> UNION {JsonValues(k) : k \in ks}] : \A k \in ks : f[k] \in JsonValues(k)} :
              ks \in UNION {kSubset(n, JsonKeys) : n \in 0 .. 3}}
LongObjects == {(<<k>> :> As(90)) @@ (<<"message">> :> <<"b">>) @@ more :
                   k \in {"raw_message", "host", "a"}, more \in {NoFields, <<"b">> :> <<"c">>}}
JsonBytes(obj) ==
    LET keys == CHOOSE o \in SetToSeqs(DOMAIN obj) : TRUE
    IN  <<"{">> \o FlattenSeq([i \in 1 .. Len(keys) |-> keys[i] \o <<":">> \o obj[keys[i]]])
            \o <<"}">>
JsonPairs == {<<JsonBytes(obj), obj>> : obj \in JsonObjects \cup LongObjects}
MCJson == LET pairs == JsonPairs
          IN  [b \in {p[1] : p \in pairs} |-> (CHOOSE p \in pairs : p[1] = b)[2]]

MCWire == WireText \cup DOMAIN Json
=============================================================================
