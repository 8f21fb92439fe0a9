---------------------------- MODULE MCFrameReader ----------------------------
(* Dialects with every path of the decoder in them.                        *)
EXTENDS FrameReaderProperties

Of(style, bodies) == [style : {style}, body : bodies]

\* A count of one digit, padded with a zero or not, or of two.
MCNumerals == [n \in 0..10 |-> IF n < 10 THEN {<<n>>, <<0, n>>} ELSE {<<1, 0>>}]

\* Octet counts and lines in one stream.  The payloads of the former contain
\* what delimits the latter; the bodies of the latter begin like the former.
OctetsAndLines ==
    Of("octet", {<<>>, <<1, SP>>, <<LETTER, LF>>,
                 <<LF, NUL, 1, SP, LF, LETTER, LETTER, LETTER, LETTER, LETTER>>})
    \cup Of("lf", {<<>>, <<1, LETTER>>, <<LETTER, LETTER, LETTER>>,
                   <<LETTER, LETTER, LETTER, CR>>,
                   <<1, 1, 1, LETTER, LETTER, LETTER, LETTER>>})

\* Lines and NUL-terminated frames, and lines that are all digits.
Delimited ==
    Of("lf", {<<2>>, <<LETTER, LETTER, LETTER, LETTER>>})
    \cup Of("nul", {<<>>, <<LETTER, CR>>, <<1, LETTER>>,
                    <<LETTER, LETTER, LETTER, LETTER>>})

MixedDialects == {OctetsAndLines, Delimited}
OctetDialect == {Of("octet", {<<LETTER, LF>>})}

=============================================================================
