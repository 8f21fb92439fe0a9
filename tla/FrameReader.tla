----------------------------- MODULE FrameReader -----------------------------
(***************************************************************************)
(* How a connection's handler cuts a TCP stream into messages: RFC 6587    *)
(* frames with an octet count, or ended by LF or NUL (frame.go), and what  *)
(* serveConn does with them (tcp.go).  The reader works on a bufio.Reader, *)
(* whose fills take any part of what has arrived.                          *)
(*                                                                         *)
(* A byte is a number: 0..9 are the digits, then five other bytes.  The    *)
(* peer is well-behaved as far as frames go; it may send them at any time, *)
(* hang up in the middle of one, or reset the connection.                  *)
(***************************************************************************)
EXTENDS Integers, Sequences, FiniteSets

CONSTANTS
    Max,        \* ingestion.max_message_bytes
    BufSize,    \* size of the bufio.Reader (64 KiB)
    MaxDigits,  \* longest octet count (10)
    IdleOn,     \* ingestion.idle_timeout > 0
    Dialects,   \* sets of frames; a peer sends frames of one set
    Numerals,   \* for each length of a payload, the ways to write it down
    MaxFrames   \* bound of the model: frames per connection

SP == 10
LF == 11
NUL == 12
CR == 13
LETTER == 14
Byte == 0..14
IsDigit(b) == b <= 9

Frames == [style : {"octet", "lf", "nul"}, body : Seq(Byte)]

\* A delimited body that began like an octet count would be one.
WellFormed(f) ==
    IF f.style = "octet" THEN Len(f.body) \in DOMAIN Numerals
    ELSE /\ \A i \in 1..Len(f.body) : f.body[i] \notin {LF, NUL}
         /\ ~\E i \in 2..Len(f.body) :
                f.body[i] = SP /\ \A j \in 1..i-1 : IsDigit(f.body[j])

\* Two kinds of frames wait in pending for the LF of a later one: those that end
\* in NUL, which ReadSlice does not stop at, and lines of nothing but digits,
\* whose LF the probe for an octet count has eaten.
HeldBack(f) ==
    \/ f.style = "nul"
    \/ /\ f.style = "lf" /\ f.body # <<>>
       /\ \A i \in 1..Len(f.body) : IsDigit(f.body[i])

\* The digits are a decimal representation of n: v[i] is what the first i of
\* them denote.  Leading zeros are allowed.
Denotes(digits, n) ==
    \E v \in [0..Len(digits) -> 0..n] :
        /\ v[0] = 0 /\ v[Len(digits)] = n
        /\ \A i \in 1..Len(digits) : v[i] = 10 * v[i-1] + digits[i]

\* frame.go:15: "A stream SHOULD NOT mix the two styles".  A peer of this model
\* may send lines between octet counts, but none that is held back.
ASSUME FrameAssumption ==
    /\ Max \in Nat \ {0} /\ BufSize \in Nat \ {0} /\ MaxDigits \in Nat \ {0}
    /\ IdleOn \in BOOLEAN /\ MaxFrames \in Nat
    /\ DOMAIN Numerals \subseteq Nat
    /\ \A n \in DOMAIN Numerals : \A digits \in Numerals[n] :
        digits \in Seq(0..9) /\ Len(digits) \in 1..MaxDigits /\ Denotes(digits, n)
    /\ \A d \in Dialects :
        /\ \A f \in d : f \in Frames /\ WellFormed(f)
        /\ (\E f \in d : f.style = "octet") => ~\E f \in d : HeldBack(f)

\* The ways to write a frame.
Encodings(f) ==
    CASE f.style = "octet" ->
            {digits \o <<SP>> \o f.body : digits \in Numerals[Len(f.body)]}
      [] f.style = "lf" -> {f.body \o <<LF>>}
      [] f.style = "nul" -> {f.body \o <<NUL>>}

VARIABLES
    dialect,    \* the frames this peer sends
    peer,       \* "open", "closed", "reset"
    sent,       \* the complete frames sent
    wire,       \* bytes that have arrived and not been read
    deadline,   \* the read deadline of the connection
    buf,        \* bytes in the bufio.Reader
    loc,        \* where next is ("flush": f.discarding is set), or how it ended
    pending,    \* f.pending
    held,       \* the digits of an octet count, then the payload
    count,      \* the octet count, then the bytes of it still to read
    out,        \* messages ingested and oversized frames counted
    skipped     \* a boundary was passed without looking for an octet count

peerVars == <<dialect, peer, sent>>
octetVars == <<held, count>>
vars == <<dialect, peer, sent, wire, deadline, buf, loc, pending, held,
          count, out, skipped>>

Init ==
    /\ dialect \in Dialects /\ peer = "open" /\ sent = <<>>
    /\ wire = <<>> /\ deadline = "none" /\ buf = <<>>
    /\ loc = "top" /\ pending = <<>>
    /\ held = <<>> /\ count = 0
    /\ out = <<>> /\ skipped = FALSE

Ended == {"eof", "idle"}
Drop(s, n) == SubSeq(s, n + 1, Len(s))
Delims(s) == {i \in 1..Len(s) : s[i] \in {LF, NUL}}

-----------------------------------------------------------------------------
(* The peer and time.                                                      *)

ReaderUnchanged ==
    UNCHANGED <<buf, loc, pending, octetVars, out, skipped>>

Send ==
    /\ peer = "open" /\ loc \notin Ended /\ Len(sent) < MaxFrames
    /\ \E f \in dialect : \E bytes \in Encodings(f) :
        /\ sent' = Append(sent, f)
        /\ wire' = wire \o bytes
    /\ UNCHANGED <<dialect, peer, deadline>> /\ ReaderUnchanged

\* The peer closes, possibly in the middle of a frame.
HangUp ==
    /\ peer = "open"
    /\ peer' = "closed"
    /\ \/ UNCHANGED wire
       \/ \E f \in dialect : \E bytes \in Encodings(f) : \E n \in 1..Len(bytes)-1 :
            wire' = wire \o SubSeq(bytes, 1, n)
    /\ UNCHANGED <<dialect, sent, deadline>> /\ ReaderUnchanged

\* The connection breaks, or the server closes it: what was not read is lost.
Reset ==
    /\ peer = "open"
    /\ peer' = "reset"
    /\ wire' = <<>>
    /\ UNCHANGED <<dialect, sent, deadline>> /\ ReaderUnchanged

DeadlinePasses ==
    /\ deadline = "set" /\ loc \notin Ended
    /\ deadline' = "past"
    /\ UNCHANGED <<peerVars, wire>> /\ ReaderUnchanged

-----------------------------------------------------------------------------
(* The bufio.Reader.                                                       *)

\* The call that next is in needs bytes the buffer does not hold.
Starved ==
    \/ loc \in {"peek", "probe", "copy", "body", "flush"} /\ buf = <<>>
    \/ loc = "slice" /\ Len(buf) < BufSize /\ \A i \in 1..Len(buf) : buf[i] # LF

Fill ==
    /\ Starved /\ wire # <<>> /\ deadline # "past"
    /\ \E n \in 1..Len(wire) :
        /\ Len(buf) + n <= BufSize
        /\ buf' = buf \o SubSeq(wire, 1, n)
        /\ wire' = Drop(wire, n)
    /\ UNCHANGED <<peerVars, deadline, loc, pending, octetVars, out, skipped>>

\* The read under the call fails.  Behind a deadline it fails even if bytes
\* have arrived.
TimedOut == Starved /\ deadline = "past"
PeerGone == Starved /\ deadline # "past" /\ wire = <<>> /\ peer # "open"
Outcome == IF TimedOut THEN "idle" ELSE "eof"

-----------------------------------------------------------------------------
(* frameReader.next.  Every read but Peek sets the deadline first.         *)

Enter(l) ==
    /\ loc' = l
    /\ deadline' = IF IdleOn /\ l \in {"probe", "copy", "body", "slice", "flush"}
                   THEN "set" ELSE deadline

Oversized == <<>>   \* no message is empty: serveConn ignores empty frames

\* next returns msg, or errOversizedFrame, and serveConn calls it again.
Settle(msg) ==
    /\ out' = CASE Len(msg) > Max -> Append(out, Oversized)
                [] Len(msg) \in 1..Max -> Append(out, msg)
                [] msg = <<>> -> out
    /\ Enter("top")

StripCR(s) ==
    IF s # <<>> /\ s[Len(s)] = CR THEN SubSeq(s, 1, Len(s) - 1) ELSE s

\* pending holds a complete frame.
TakeFrame ==
    /\ loc = "top"
    /\ \E i \in Delims(pending) :
        /\ \A j \in Delims(pending) : i <= j
        /\ Settle(StripCR(SubSeq(pending, 1, i - 1)))
        /\ pending' = Drop(pending, i)
    /\ UNCHANGED <<peerVars, wire, buf, octetVars, skipped>>

\* pending is over the limit: throw it away, and the rest of its frame.
StartDiscarding ==
    /\ loc = "top" /\ Delims(pending) = {} /\ Len(pending) > Max
    /\ pending' = <<>>
    /\ Enter("flush")
    /\ UNCHANGED <<peerVars, wire, buf, octetVars, out, skipped>>

\* Broken variant: only a frame that is complete is compared with the limit.
StartReadingAnyway ==
    /\ loc = "top" /\ Delims(pending) = {}
    /\ Enter(IF pending = <<>> THEN "peek" ELSE "slice")
    /\ UNCHANGED <<peerVars, wire, buf, pending, octetVars, out, skipped>>

\* Otherwise look for an octet count, but only if nothing is pending.
StartReading ==
    /\ loc = "top" /\ Delims(pending) = {}
    /\ Len(pending) \in 0..Max
    /\ Enter(IF pending = <<>> THEN "peek" ELSE "slice")
    /\ UNCHANGED <<peerVars, wire, buf, pending, octetVars, out, skipped>>

\* Flush an oversized delimited frame, byte by byte.
Flush ==
    /\ loc = "flush" /\ buf # <<>>
    /\ buf' = Tail(buf)
    /\ \/ Head(buf) \notin {LF, NUL} /\ Enter("flush") /\ UNCHANGED out
       \/ /\ Head(buf) \in {LF, NUL}
          /\ out' = Append(out, Oversized)
          /\ Enter("top")
    /\ UNCHANGED <<peerVars, wire, pending, octetVars, skipped>>

Peek ==
    /\ loc = "peek" /\ buf # <<>>
    /\ Enter(IF IsDigit(Head(buf)) THEN "probe" ELSE "slice")
    /\ held' = <<>> /\ count' = 0
    /\ UNCHANGED <<peerVars, wire, buf, pending, out, skipped>>

\* An error of Peek is ignored: the frame is taken for a delimited one.
PeekFails ==
    /\ loc = "peek" /\ (TimedOut \/ PeerGone)
    /\ Enter("slice")
    /\ skipped' = (skipped \/ TimedOut)
    /\ UNCHANGED <<peerVars, wire, buf, pending, octetVars, out>>

-----------------------------------------------------------------------------
(* tryOctetCounted.                                                        *)

ProbeDigit ==
    /\ loc = "probe" /\ buf # <<>> /\ IsDigit(Head(buf)) /\ Len(held) < MaxDigits
    /\ held' = Append(held, Head(buf))
    /\ count' = 10 * count + Head(buf)
    /\ buf' = Tail(buf)
    /\ Enter("probe")
    /\ UNCHANGED <<peerVars, wire, pending, out, skipped>>

\* "digits SP".  strconv.Atoi cannot fail on at most 10 digits.
ProbeCount ==
    /\ loc = "probe" /\ buf # <<>> /\ Head(buf) = SP /\ held # <<>>
    /\ buf' = Tail(buf)
    /\ held' = <<>>
    /\ Enter(IF count > Max THEN "copy" ELSE IF count > 0 THEN "body" ELSE "top")
    /\ UNCHANGED <<peerVars, wire, pending, count, out, skipped>>

\* Broken variant: the byte after the digits is not given back.
ProbeLosesByte ==
    /\ loc = "probe" /\ buf # <<>>
    /\ IF IsDigit(Head(buf)) THEN Len(held) = MaxDigits
                             ELSE Head(buf) # SP \/ held = <<>>
    /\ pending' = pending \o held
    /\ buf' = Tail(buf)
    /\ Enter("slice")
    /\ UNCHANGED <<peerVars, wire, octetVars, out, skipped>>

\* Not an octet count: the bytes belong to a delimited frame.
ProbeGivesUp ==
    /\ loc = "probe" /\ buf # <<>>
    /\ IF IsDigit(Head(buf)) THEN Len(held) = MaxDigits
                             ELSE Head(buf) # SP \/ held = <<>>
    /\ pending' = pending \o held \o <<Head(buf)>>
    /\ buf' = Tail(buf)
    /\ Enter("slice")
    /\ UNCHANGED <<peerVars, wire, octetVars, out, skipped>>

\* Broken variant: the whole buffer is thrown away with an oversized payload.
ReadBeyondCount ==
    /\ loc \in {"copy", "body"} /\ buf # <<>>
    /\ buf' = <<>>
    /\ count' = count - Len(buf)
    /\ IF count' > 0 THEN UNCHANGED <<loc, deadline, out>>
       ELSE out' = Append(out, Oversized) /\ Enter("top")
    /\ UNCHANGED <<peerVars, wire, pending, held, skipped>>

\* io.CopyN to io.Discard, io.ReadFull: as much of count as is buffered.
ReadCounted ==
    /\ loc \in {"copy", "body"} /\ buf # <<>>
    /\ LET n == IF Len(buf) < count THEN Len(buf) ELSE count
           got == IF loc = "body" THEN held \o SubSeq(buf, 1, n) ELSE <<>>
       IN  /\ buf' = Drop(buf, n)
           /\ count' = count - n
           /\ held' = IF n < count THEN got ELSE <<>>
           /\ IF n < count THEN UNCHANGED <<loc, deadline, out>>
              ELSE IF loc = "body" THEN Settle(got)
              ELSE out' = Append(out, Oversized) /\ Enter("top")
    /\ UNCHANGED <<peerVars, wire, pending, skipped>>

\* readByte, CopyN or ReadFull fails: the handler ends.
ReadFails ==
    /\ loc \in {"probe", "copy", "body", "flush"} /\ (TimedOut \/ PeerGone)
    /\ loc' = Outcome
    /\ UNCHANGED <<peerVars, wire, deadline, buf, pending, octetVars, out, skipped>>

-----------------------------------------------------------------------------
(* The delimited path: ReadSlice('\n').                                    *)

\* Broken variant: a line is only returned once the buffer is full.
SliceWhenFull ==
    /\ loc = "slice" /\ Len(buf) = BufSize
    /\ pending' = pending \o buf
    /\ buf' = <<>>
    /\ Enter("top")
    /\ UNCHANGED <<peerVars, wire, octetVars, out, skipped>>

\* A line, or a buffer full without one.
Slice ==
    /\ loc = "slice"
    /\ \E n \in 1..Len(buf) :
        /\ \A i \in 1..n-1 : buf[i] # LF
        /\ buf[n] = LF \/ n = BufSize
        /\ pending' = pending \o SubSeq(buf, 1, n)
        /\ buf' = Drop(buf, n)
    /\ Enter("top")
    /\ UNCHANGED <<peerVars, wire, octetVars, out, skipped>>

\* Broken variant: what is left in pending is kept, and reading goes on.
SliceFailsKeeping ==
    /\ loc = "slice" /\ (TimedOut \/ PeerGone)
    /\ buf' = <<>>
    /\ pending' = pending \o buf
    /\ Enter("top")
    /\ UNCHANGED <<peerVars, wire, octetVars, out, skipped>>

\* The stream ended or fell silent: complete frames first, then the error.
SliceFails ==
    /\ loc = "slice" /\ (TimedOut \/ PeerGone)
    /\ buf' = <<>>
    /\ IF Delims(pending \o buf) # {}
       THEN pending' = pending \o buf /\ Enter("top")
       ELSE pending' = <<>> /\ loc' = Outcome /\ UNCHANGED deadline
    /\ UNCHANGED <<peerVars, wire, octetVars, out, skipped>>

-----------------------------------------------------------------------------
NextStep ==
    \/ TakeFrame \/ StartDiscarding \/ StartReading \/ Flush
    \/ Peek \/ PeekFails
    \/ ProbeDigit \/ ProbeCount \/ ProbeGivesUp \/ ReadCounted \/ ReadFails
    \/ Slice \/ SliceFails

Reader == Fill \/ NextStep

Terminated == loc \in Ended /\ UNCHANGED vars

Next == Send \/ HangUp \/ Reset \/ DeadlinePasses \/ Reader \/ Terminated

Spec == Init /\ [][Next]_vars

\* The handler's goroutine runs.  The peer and the clock need not move.
FairSpec == Spec /\ WF_vars(Reader)

=============================================================================
