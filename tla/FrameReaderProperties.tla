------------------------ MODULE FrameReaderProperties ------------------------
(* What a handler makes of a peer's frames.                                *)
EXTENDS FrameReader

TypeOK ==
    /\ dialect \in Dialects
    /\ peer \in {"open", "closed", "reset"}
    /\ sent \in Seq(dialect)
    /\ wire \in Seq(Byte)
    /\ deadline \in {"none", "set", "past"}
    /\ buf \in Seq(Byte) /\ Len(buf) <= BufSize
    /\ loc \in {"top", "peek", "probe", "copy", "body", "slice", "flush"} \cup Ended
    /\ pending \in Seq(Byte)
    /\ held \in Seq(Byte) /\ count \in Nat
    /\ out \in Seq(Seq(Byte))
    /\ skipped \in BOOLEAN

-----------------------------------------------------------------------------
(* What was sent, against what the handler made of it.                     *)

\* The message of a frame, which of the first n frames sent carry one, and the
\* place of the i-th frame among those that do.
Message(f) == IF f.style = "octet" THEN f.body ELSE StripCR(f.body)
Messages(n) == {i \in 1..n : Message(sent[i]) # <<>>}
Place(i) == Cardinality(Messages(i))
AllOut == Len(out) = Place(Len(sent))

\* A frame over the limit counts as oversized; so may a delimited one of Max
\* bytes and a CR, if the buffer is full before its LF arrives.
Renders(f, o) ==
    \/ o = Message(f) /\ Len(o) <= Max
    \/ o = Oversized /\ (Len(Message(f)) > Max \/ Len(f.body) > Max)

\* frame.go:15: "A stream SHOULD NOT mix the two styles; the framing style is
\* decided per frame at a clean boundary".  Whatever the frames contain and
\* however they are cut into reads: the handler ingests the messages in order,
\* each once and whole, counts each oversized frame at its place, and makes
\* nothing of a frame that was cut off.  At the end of the stream none is
\* missing.
FramesIntact ==
    /\ Len(out) <= Place(Len(sent))
    /\ \A i \in Messages(Len(sent)) :
            Place(i) <= Len(out) => Renders(sent[i], out[Place(i)])
    /\ loc = "eof" /\ peer = "closed" => AllOut

\* FramesIntact, except for octet-counted frames after a silence as long as
\* the idle timeout (frame.go:84): the reader no longer looks for a count.
FramesIntactUnlessPaused ==
    \/ skipped /\ \E f \in dialect : f.style = "octet"
    \/ FramesIntact

\* While next blocks, nothing that has arrived is held back (frame.go:94): a
\* quiet sender's last message is not delayed.  Only frames that are HeldBack
\* wait for the next LF, the idle timeout or the end.
NothingHeldBack ==
    Starved /\ wire = <<>> /\ peer = "open" /\ ~skipped =>
        \/ \E i \in 1..Len(sent) : HeldBack(sent[i])
        \/ AllOut

\* However the stream is cut, no more than the limit and one buffer is kept:
\* pending is compared with the limit before every read but the one after a
\* probe (frame.go:76), and a payload is at most Max long (frame.go:139).
PendingBeforeRead == IF Max > MaxDigits THEN Max ELSE MaxDigits + 1

BoundedMemory ==
    /\ Len(pending) <= PendingBeforeRead + BufSize
    /\ loc = "body" => Len(held) + count <= Max
    /\ loc = "probe" => Len(held) <= MaxDigits

\* When the peer has gone the handler ends, whatever it was in the middle of:
\* each turn of next's loop consumes something (frame.go:51-107).
HandlerEnds == peer # "open" ~> loc \in Ended

=============================================================================
