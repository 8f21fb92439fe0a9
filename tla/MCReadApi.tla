----------------------------- MODULE MCReadApi -----------------------------
EXTENDS ReadApiProperties

CONSTANTS viewer, operator, reader, other

MCSlots == {reader, other}
MCUsers == {viewer, operator}
MCRoleOf == [u \in MCUsers |-> IF u = viewer THEN "viewer" ELSE "operator"]
MCNeeds == [o \in {"search", "count", "volume", "export", "logout", "me", "ingest"} |->
               IF o = "export" THEN "operator" ELSE "viewer"]
MCDoes == (reader :> (DOMAIN MCNeeds \cup {"login"}) \ {"logout"}) @@ (other :> {"logout"})

MCTimeOf == <<5, 6, 7, 7>>
\* In the second range every bucket is long enough.
MCRanges == {<<5, 8>>, <<6, 8>>}
MCBuckets == {[form |-> "days", n |-> 0], [form |-> "days", n |-> -1], [form |-> "days", n |-> 1],
              [form |-> "duration", n |-> 4], [form |-> "duration", n |-> 3],
              [form |-> "duration", n |-> 1],
              [form |-> "junk", n |-> 0]}
MCBodies == [array : BOOLEAN, lines : {<<TRUE, FALSE, TRUE>>, <<FALSE, TRUE>>}]
=============================================================================
