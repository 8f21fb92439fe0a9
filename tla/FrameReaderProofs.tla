-------------------------- MODULE FrameReaderProofs --------------------------
(***************************************************************************)
(* Theorems about the frame reader, for any limit, buffer size, longest    *)
(* octet count and set of frames.  First what bounds its memory; then that *)
(* what it has is always a part of one stream, at a known place between    *)
(* two frames or in one (FrameReaderStream), from which follows what comes *)
(* out of it.                                                              *)
(***************************************************************************)
EXTENDS FrameReaderStream, SequenceTheorems, FiniteSetTheorems, TLAPS

USE DEF peerVars, octetVars

-----------------------------------------------------------------------------
(* Sequences of bytes.                                                     *)

LEMMA Constants ==
  /\ {SP, LF, NUL, CR, LETTER} \subseteq Byte
  /\ Max \in Nat \ {0} /\ BufSize \in Nat \ {0} /\ MaxDigits \in Nat \ {0}
  /\ PendingBeforeRead \in Nat
  /\ Max <= PendingBeforeRead /\ MaxDigits + 1 <= PendingBeforeRead
  /\ \A n \in Nat : n <= 9 => n \in Byte
  BY FrameAssumption DEF SP, LF, NUL, CR, LETTER, Byte, PendingBeforeRead

LEMMA Prefix ==
  ASSUME NEW s \in Seq(Byte), NEW n \in 0..Len(s)
  PROVE  /\ SubSeq(s, 1, n) \in Seq(Byte) /\ Len(SubSeq(s, 1, n)) = n
         /\ \A i \in 1..n : SubSeq(s, 1, n)[i] = s[i]
  <1>1. \A i \in 1..n : s[i] \in Byte
    BY ElementOfSeq
  <1> QED
    BY <1>1, SubSeqProperties

LEMMA Suffix ==
  ASSUME NEW s \in Seq(Byte), NEW n \in 0..Len(s)
  PROVE  /\ Drop(s, n) \in Seq(Byte) /\ Len(Drop(s, n)) = Len(s) - n
         /\ \A i \in 1..Len(s) - n : Drop(s, n)[i] = s[n + i]
  <1>1. \A i \in n + 1 .. Len(s) : s[i] \in Byte
    BY ElementOfSeq
  <1> QED
    BY <1>1, SubSeqProperties DEF Drop

LEMMA StripCRType ==
  ASSUME NEW s \in Seq(Byte)
  PROVE  StripCR(s) \in Seq(Byte)
  <1>1. CASE s = <<>>
    BY <1>1 DEF StripCR
  <1>2. CASE s # <<>>
    BY <1>2, Prefix, EmptySeq DEF StripCR
  <1> QED
    BY <1>1, <1>2

LEMMA FrameTypes ==
  ASSUME NEW d \in Dialects, NEW f \in d
  PROVE  /\ f.style \in {"octet", "lf", "nul"} /\ WellFormed(f)
         /\ f.body \in Seq(Byte) /\ Size(f) \in Nat
  BY FrameAssumption, LenProperties DEF Frames, Size

\* An octet count is digits, for the length of the payload.
LEMMA NumeralType ==
  ASSUME NEW d \in Dialects, NEW f \in d, f.style = "octet",
         NEW digits \in Numerals[Size(f)]
  PROVE  /\ digits \in Seq(Byte) /\ digits \in Seq(0..9)
         /\ Len(digits) \in 1..MaxDigits /\ Denotes(digits, Size(f))
  <1>1. Size(f) \in DOMAIN Numerals
    BY FrameTypes, Zenon DEF WellFormed, Size
  <1>2. /\ digits \in Seq(0..9)
        /\ Len(digits) \in 1..MaxDigits /\ Denotes(digits, Size(f))
    BY <1>1, FrameAssumption, Zenon
  <1>3. 0..9 \subseteq Byte
    BY DEF Byte
  <1> QED
    BY <1>2, <1>3, SeqMonotonic

\* A well-formed frame is written in bytes.
LEMMA EncodingType ==
  ASSUME NEW d \in Dialects, NEW f \in d, NEW bytes \in Encodings(f)
  PROVE  bytes \in Seq(Byte)
  <1>1. f.style \in {"octet", "lf", "nul"} /\ f.body \in Seq(Byte)
    BY FrameTypes
  <1>2. <<SP>> \in Seq(Byte) /\ <<LF>> \in Seq(Byte) /\ <<NUL>> \in Seq(Byte)
    BY Constants
  <1>3. CASE f.style = "octet"
    <2>1. PICK digits \in Numerals[Size(f)] : bytes = digits \o <<SP>> \o f.body
      BY <1>3 DEF Encodings, Size
    <2>2. digits \o <<SP>> \in Seq(Byte)
      BY <1>2, <1>3, NumeralType, ConcatProperties
    <2> QED
      BY <1>1, <2>1, <2>2, ConcatProperties
  <1>4. CASE f.style = "lf"
    <2>1. bytes = f.body \o <<LF>>
      BY <1>4 DEF Encodings
    <2> QED
      BY <1>1, <1>2, <2>1, ConcatProperties
  <1>5. CASE f.style = "nul"
    <2>1. bytes = f.body \o <<NUL>>
      BY <1>5 DEF Encodings
    <2> QED
      BY <1>1, <1>2, <2>1, ConcatProperties
  <1> QED
    BY <1>1, <1>3, <1>4, <1>5

-----------------------------------------------------------------------------
(* What bounds the reader's memory.                                        *)

\* What bounds pending where a read adds to it.  A probe starts with nothing
\* pending and adds what it has read; every other read follows the comparison
\* with the limit.
ReadsBounded ==
    /\ loc = "slice" => Len(pending) <= PendingBeforeRead
    /\ loc \in {"peek", "probe", "copy", "body", "flush"} => pending = <<>>

FrameInv == TypeOK /\ BoundedMemory /\ ReadsBounded

LEMMA FrameInit == Init => FrameInv
  <1> SUFFICES ASSUME Init PROVE FrameInv
    OBVIOUS
  <1>1. wire = <<>> /\ buf = <<>> /\ pending = <<>> /\ held = <<>> /\ out = <<>>
        /\ sent = <<>> /\ count = 0
    BY DEF Init
  <1>2. /\ <<>> \in Seq(dialect) /\ <<>> \in Seq(Byte) /\ <<>> \in Seq(Seq(Byte))
        /\ Len(<<>>) = 0
    BY EmptySeq
  <1>3. sent \in Seq(dialect) /\ out \in Seq(Seq(Byte))
    BY <1>1, <1>2, Zenon
  <1>4. wire \in Seq(Byte) /\ buf \in Seq(Byte) /\ pending \in Seq(Byte) /\ held \in Seq(Byte)
    BY <1>1, <1>2, Zenon
  <1>5. count \in Nat /\ 0 <= BufSize
    BY <1>1, Constants
  <1>6. Len(buf) <= BufSize
    BY <1>1, <1>2, <1>5
  <1>7. TypeOK
    BY <1>3, <1>4, <1>5, <1>6, Zenon DEF Init, TypeOK
  <1>8. BoundedMemory /\ ReadsBounded
    BY <1>1, Constants DEF Init, BoundedMemory, ReadsBounded
  <1> QED
    BY <1>7, <1>8 DEF FrameInv

-----------------------------------------------------------------------------
(* Steps of the peer, of time and of the buffer.                           *)

LEMMA EmptyBytes == <<>> \in Seq(Byte) /\ Len(<<>>) = 0
  BY EmptySeq

LEMMA NotEmpty ==
  ASSUME NEW s \in Seq(Byte), s # <<>>
  PROVE  /\ Len(s) \in Nat \ {0}
         /\ Head(s) \in Byte
         /\ Tail(s) \in Seq(Byte) /\ Len(Tail(s)) = Len(s) - 1
  BY EmptySeq, HeadTailProperties

\* pending, held, count and loc are all that the bounds are about.
LEMMA SameBounds ==
  ASSUME FrameInv, UNCHANGED <<loc, pending, octetVars>>
  PROVE  BoundedMemory' /\ ReadsBounded'
  BY DEF FrameInv, BoundedMemory, ReadsBounded

LEMMA PeerInv ==
  ASSUME FrameInv, Send \/ HangUp \/ Reset \/ DeadlinePasses
  PROVE  FrameInv'
  <1>1. UNCHANGED <<dialect, buf, loc, pending, held, count, out, skipped>>
    BY DEF Send, HangUp, Reset, DeadlinePasses, ReaderUnchanged
  <1>2. sent' \in Seq(dialect)
    <2>1. CASE Send
      <3>1. PICK f \in dialect : sent' = Append(sent, f)
        BY <2>1 DEF Send
      <3> QED
        BY <3>1, AppendProperties DEF FrameInv, TypeOK
    <2> QED
      BY <2>1 DEF FrameInv, TypeOK, HangUp, Reset, DeadlinePasses
  <1>3. wire' \in Seq(Byte)
    <2>1. wire \in Seq(Byte) /\ dialect \in Dialects
      BY DEF FrameInv, TypeOK
    <2>2. CASE Send
      <3>3. PICK f \in dialect : \E bytes \in Encodings(f) : wire' = wire \o bytes
        BY <2>2 DEF Send
      <3>1. PICK bytes \in Encodings(f) : wire' = wire \o bytes
        BY <3>3
      <3>2. bytes \in Seq(Byte)
        BY <2>1, EncodingType
      <3> QED
        BY <2>1, <3>1, <3>2, ConcatProperties
    <2>3. CASE HangUp
      <3>1. CASE UNCHANGED wire
        BY <2>1, <3>1
      <3>2. CASE ~UNCHANGED wire
        <4>6. PICK f \in dialect : \E bytes \in Encodings(f) :
                 \E n \in 1..Len(bytes)-1 : wire' = wire \o SubSeq(bytes, 1, n)
          BY <2>3, <3>2 DEF HangUp
        <4>1. PICK bytes \in Encodings(f) :
                 \E n \in 1..Len(bytes)-1 : wire' = wire \o SubSeq(bytes, 1, n)
          BY <4>6
        <4>2. PICK n \in 1..Len(bytes)-1 : wire' = wire \o SubSeq(bytes, 1, n)
          BY <4>1
        <4>3. bytes \in Seq(Byte)
          BY <2>1, EncodingType
        <4>4. Len(bytes) \in Nat
          BY <4>3, LenProperties
        <4>5. SubSeq(bytes, 1, n) \in Seq(Byte)
          BY <4>3, <4>4, Prefix
        <4> QED
          BY <2>1, <4>2, <4>5, ConcatProperties
      <3> QED
        BY <3>1, <3>2
    <2>4. CASE Reset
      BY <2>4, EmptyBytes DEF Reset
    <2>5. CASE DeadlinePasses
      BY <2>1, <2>5 DEF DeadlinePasses
    <2> QED
      BY <2>2, <2>3, <2>4, <2>5
  <1>4. peer' \in {"open", "closed", "reset"} /\ deadline' \in {"none", "set", "past"}
    BY DEF FrameInv, TypeOK, Send, HangUp, Reset, DeadlinePasses
  <1>5. TypeOK'
    BY <1>1, <1>2, <1>3, <1>4, Zenon DEF FrameInv, TypeOK, Ended
  <1> QED
    BY <1>1, <1>5, SameBounds DEF FrameInv

LEMMA FillInv ==
  ASSUME FrameInv, Fill
  PROVE  FrameInv'
  <1>1. PICK n \in 1..Len(wire) : /\ Len(buf) + n <= BufSize
                                  /\ buf' = buf \o SubSeq(wire, 1, n)
                                  /\ wire' = Drop(wire, n)
    BY DEF Fill
  <1>2. /\ wire \in Seq(Byte) /\ Len(wire) \in Nat
        /\ buf \in Seq(Byte) /\ Len(buf) \in Nat
    BY LenProperties DEF FrameInv, TypeOK
  <1>3. n \in 0..Len(wire)
    BY <1>2
  <1>4. wire' \in Seq(Byte)
    BY <1>1, <1>2, <1>3, Suffix
  <1>5. SubSeq(wire, 1, n) \in Seq(Byte) /\ Len(SubSeq(wire, 1, n)) = n
    BY <1>2, <1>3, Prefix
  <1>6. buf' \in Seq(Byte) /\ Len(buf') = Len(buf) + n
    BY <1>1, <1>2, <1>5, ConcatProperties
  <1>7. UNCHANGED <<peerVars, deadline, loc, pending, octetVars, out, skipped>>
    BY DEF Fill
  <1>8. Len(buf') <= BufSize
    BY <1>1, <1>6
  <1>9. TypeOK'
    BY <1>4, <1>6, <1>7, <1>8, Zenon DEF FrameInv, TypeOK, Ended
  <1> QED
    BY <1>7, <1>9, SameBounds DEF FrameInv

-----------------------------------------------------------------------------
(* Steps of next and of tryOctetCounted.                                   *)

LEMMA EnterType ==
  ASSUME TypeOK, NEW l, Enter(l)
  PROVE  loc' = l /\ deadline' \in {"none", "set", "past"}
  BY DEF TypeOK, Enter

LEMMA CountOversized ==
  ASSUME TypeOK
  PROVE  Append(out, Oversized) \in Seq(Seq(Byte))
  BY EmptyBytes, AppendProperties DEF TypeOK, Oversized

LEMMA SettleType ==
  ASSUME TypeOK, NEW msg \in Seq(Byte), Settle(msg)
  PROVE  loc' = "top" /\ deadline' \in {"none", "set", "past"} /\ out' \in Seq(Seq(Byte))
  <1>1. out \in Seq(Seq(Byte))
    BY DEF TypeOK
  <1>2. Append(out, msg) \in Seq(Seq(Byte))
    BY <1>1, AppendProperties
  <1>3. Len(msg) \in Nat /\ Max \in Nat /\ (Len(msg) = 0 => msg = <<>>)
    BY EmptySeq, LenProperties, Constants
  <1>4. Len(msg) > Max \/ Len(msg) \in 1..Max \/ msg = <<>>
    BY <1>3
  <1>5. out' \in {out, Append(out, msg), Append(out, Oversized)}
    BY <1>4 DEF Settle
  <1> QED
    BY <1>1, <1>2, <1>5, CountOversized, EnterType DEF Settle

LEMMA TakeFrameInv ==
  ASSUME FrameInv, TakeFrame
  PROVE  FrameInv'
  <1>1. PICK i \in Delims(pending) :
              Settle(StripCR(SubSeq(pending, 1, i - 1))) /\ pending' = Drop(pending, i)
    BY DEF TakeFrame
  <1>2. TypeOK /\ pending \in Seq(Byte) /\ Len(pending) \in Nat
    BY LenProperties DEF FrameInv, TypeOK
  <1>3. i \in 1..Len(pending)
    BY DEF Delims
  <1>4. StripCR(SubSeq(pending, 1, i - 1)) \in Seq(Byte)
    <2>1. i - 1 \in 0..Len(pending)
      BY <1>2, <1>3
    <2>2. SubSeq(pending, 1, i - 1) \in Seq(Byte)
      BY <1>2, <2>1, Prefix
    <2> QED
      BY <2>2, StripCRType
  <1>5. loc' = "top" /\ deadline' \in {"none", "set", "past"} /\ out' \in Seq(Seq(Byte))
    BY <1>1, <1>2, <1>4, SettleType
  <1>6. pending' \in Seq(Byte) /\ Len(pending') = Len(pending) - i
    BY <1>1, <1>2, <1>3, Suffix
  <1>7. UNCHANGED <<peerVars, wire, buf, octetVars, skipped>>
    BY DEF TakeFrame
  <1>8. TypeOK'
    BY <1>2, <1>5, <1>6, <1>7, Zenon DEF TypeOK
  <1>9. Len(pending) <= PendingBeforeRead + BufSize
    BY DEF FrameInv, BoundedMemory
  <1>10. BoundedMemory' /\ ReadsBounded'
    BY <1>2, <1>3, <1>5, <1>6, <1>9, Constants DEF BoundedMemory, ReadsBounded
  <1> QED
    BY <1>8, <1>10 DEF FrameInv

\* A reader with nothing pending is within every bound but that of an octet count.
LEMMA NothingPending ==
  ASSUME pending' = <<>>, loc' \notin {"probe", "body"}
  PROVE  BoundedMemory' /\ ReadsBounded'
  <1>1. Len(pending') = 0
    BY EmptyBytes
  <1> QED
    BY <1>1, Constants DEF BoundedMemory, ReadsBounded

LEMMA StartDiscardingInv ==
  ASSUME FrameInv, StartDiscarding
  PROVE  FrameInv'
  <1>1. TypeOK /\ pending' = <<>> /\ Enter("flush")
        /\ UNCHANGED <<peerVars, wire, buf, octetVars, out, skipped>>
    BY DEF FrameInv, StartDiscarding
  <1>2. loc' = "flush" /\ deadline' \in {"none", "set", "past"}
    BY <1>1, EnterType
  <1>3. TypeOK'
    BY <1>1, <1>2, EmptyBytes, Zenon DEF TypeOK
  <1> QED
    BY <1>1, <1>2, <1>3, NothingPending DEF FrameInv

LEMMA StartReadingInv ==
  ASSUME FrameInv, StartReading
  PROVE  FrameInv'
  <1>1. TypeOK /\ Enter(IF pending = <<>> THEN "peek" ELSE "slice")
        /\ Len(pending) \in 0..Max
        /\ UNCHANGED <<peerVars, wire, buf, pending, octetVars, out, skipped>>
    BY DEF FrameInv, StartReading
  <1>2. /\ loc' = IF pending = <<>> THEN "peek" ELSE "slice"
        /\ deadline' \in {"none", "set", "past"}
    BY <1>1, EnterType
  <1>3. TypeOK'
    BY <1>1, <1>2, Zenon DEF TypeOK
  <1>4. BoundedMemory' /\ ReadsBounded'
    BY <1>1, <1>2, Constants DEF BoundedMemory, ReadsBounded
  <1> QED
    BY <1>3, <1>4 DEF FrameInv

LEMMA FlushInv ==
  ASSUME FrameInv, Flush
  PROVE  FrameInv'
  <1>1. TypeOK /\ buf' = Tail(buf) /\ pending = <<>> /\ buf \in Seq(Byte) /\ buf # <<>>
        /\ Len(buf) <= BufSize
        /\ UNCHANGED <<peerVars, wire, pending, octetVars, skipped>>
    BY DEF FrameInv, TypeOK, ReadsBounded, Flush
  <1>2. buf' \in Seq(Byte) /\ Len(buf') <= BufSize
    BY <1>1, NotEmpty, Constants
  <1>3. /\ loc' \in {"flush", "top"} /\ deadline' \in {"none", "set", "past"}
        /\ out' \in Seq(Seq(Byte))
    <2>1. CASE Enter("flush") /\ UNCHANGED out
      BY <1>1, <2>1, EnterType DEF TypeOK
    <2>2. CASE Enter("top") /\ out' = Append(out, Oversized)
      BY <1>1, <2>2, EnterType, CountOversized
    <2> QED
      BY <2>1, <2>2 DEF Flush
  <1>4. TypeOK'
    BY <1>1, <1>2, <1>3, Zenon DEF TypeOK
  <1> QED
    BY <1>1, <1>3, <1>4, NothingPending DEF FrameInv

LEMMA PeekInv ==
  ASSUME FrameInv, Peek \/ PeekFails
  PROVE  FrameInv'
  <1>1. /\ TypeOK /\ pending = <<>>
        /\ UNCHANGED <<peerVars, wire, buf, pending, out>>
    BY DEF FrameInv, ReadsBounded, Peek, PeekFails
  <1>2. loc' \in {"probe", "slice"} /\ deadline' \in {"none", "set", "past"}
    BY <1>1, EnterType DEF Peek, PeekFails
  <1>3. /\ held' \in Seq(Byte) /\ count' \in Nat
        /\ skipped' \in BOOLEAN
        /\ loc' = "probe" => held' = <<>>
    <2>1. CASE Peek
      BY <1>1, <2>1, EmptyBytes DEF Peek, TypeOK
    <2>2. CASE PeekFails
      <3>1. loc' = "slice" /\ UNCHANGED octetVars
        BY <1>1, <2>2, EnterType DEF PeekFails
      <3>2. skipped' \in BOOLEAN
        BY <2>2 DEF PeekFails
      <3> QED
        BY <1>1, <3>1, <3>2 DEF TypeOK
    <2> QED
      BY <2>1, <2>2
  <1>4. TypeOK'
    BY <1>1, <1>2, <1>3, Zenon DEF TypeOK
  <1>5. Len(pending') = 0 /\ (loc' = "probe" => Len(held') = 0)
    BY <1>1, <1>3, EmptyBytes
  <1>6. BoundedMemory' /\ ReadsBounded'
    BY <1>1, <1>2, <1>5, Constants DEF BoundedMemory, ReadsBounded
  <1> QED
    BY <1>4, <1>6 DEF FrameInv

LEMMA ByteIsNat == \A b \in Byte : b \in Nat
  BY DEF Byte

LEMMA ProbeDigitInv ==
  ASSUME FrameInv, ProbeDigit
  PROVE  FrameInv'
  <1>1. /\ TypeOK /\ pending = <<>> /\ Len(held) < MaxDigits
        /\ held' = Append(held, Head(buf)) /\ count' = 10 * count + Head(buf)
        /\ buf' = Tail(buf) /\ Enter("probe")
        /\ UNCHANGED <<peerVars, wire, pending, out, skipped>>
    BY DEF FrameInv, ReadsBounded, ProbeDigit
  <1>2. /\ buf \in Seq(Byte) /\ buf # <<>> /\ Len(buf) <= BufSize
        /\ held \in Seq(Byte) /\ count \in Nat
    BY DEF FrameInv, TypeOK, ProbeDigit
  <1>3. buf' \in Seq(Byte) /\ Len(buf') <= BufSize /\ Head(buf) \in Byte
    BY <1>1, <1>2, NotEmpty, Constants
  <1>4. held' \in Seq(Byte) /\ Len(held') = Len(held) + 1
    BY <1>1, <1>2, <1>3, AppendProperties
  <1>5. count' \in Nat
    BY <1>1, <1>2, <1>3, ByteIsNat
  <1>6. loc' = "probe" /\ deadline' \in {"none", "set", "past"}
    BY <1>1, EnterType
  <1>7. TypeOK'
    BY <1>1, <1>3, <1>4, <1>5, <1>6, Zenon DEF TypeOK
  <1>8. Len(held) \in Nat /\ Len(pending') = 0 /\ pending' = <<>>
    BY <1>1, <1>2, EmptyBytes, LenProperties
  <1>9. BoundedMemory' /\ ReadsBounded'
    BY <1>1, <1>4, <1>6, <1>8, Constants DEF BoundedMemory, ReadsBounded
  <1> QED
    BY <1>7, <1>9 DEF FrameInv

LEMMA ProbeCountInv ==
  ASSUME FrameInv, ProbeCount
  PROVE  FrameInv'
  <1>1. /\ TypeOK /\ pending = <<>>
        /\ held' = <<>> /\ buf' = Tail(buf)
        /\ Enter(IF count > Max THEN "copy" ELSE IF count > 0 THEN "body" ELSE "top")
        /\ UNCHANGED <<peerVars, wire, pending, count, out, skipped>>
    BY DEF FrameInv, ReadsBounded, ProbeCount
  <1>2. /\ buf \in Seq(Byte) /\ buf # <<>> /\ Len(buf) <= BufSize /\ count \in Nat
    BY DEF FrameInv, TypeOK, ProbeCount
  <1>3. buf' \in Seq(Byte) /\ Len(buf') <= BufSize
    BY <1>1, <1>2, NotEmpty, Constants
  <1>4. /\ loc' = IF count > Max THEN "copy" ELSE IF count > 0 THEN "body" ELSE "top"
        /\ deadline' \in {"none", "set", "past"}
    BY <1>1, EnterType
  <1>5. loc' \in {"copy", "body", "top"} /\ (loc' = "body" => count <= Max)
    BY <1>2, <1>4, Constants
  <1>6. held' \in Seq(Byte) /\ Len(held') = 0 /\ pending' = <<>> /\ Len(pending') = 0
    BY <1>1, EmptyBytes
  <1>7. TypeOK'
    BY <1>1, <1>2, <1>3, <1>4, <1>5, <1>6, Zenon DEF TypeOK
  <1>8. BoundedMemory' /\ ReadsBounded'
    BY <1>1, <1>2, <1>5, <1>6, Constants DEF BoundedMemory, ReadsBounded
  <1> QED
    BY <1>7, <1>8 DEF FrameInv

LEMMA ProbeGivesUpInv ==
  ASSUME FrameInv, ProbeGivesUp
  PROVE  FrameInv'
  <1>1. /\ TypeOK /\ pending = <<>> /\ Len(held) <= MaxDigits
        /\ pending' = pending \o held \o <<Head(buf)>>
        /\ buf' = Tail(buf) /\ Enter("slice")
        /\ UNCHANGED <<peerVars, wire, octetVars, out, skipped>>
    BY DEF FrameInv, BoundedMemory, ReadsBounded, ProbeGivesUp
  <1>2. /\ buf \in Seq(Byte) /\ buf # <<>> /\ Len(buf) <= BufSize
        /\ held \in Seq(Byte) /\ pending \in Seq(Byte) /\ Len(held) \in Nat
    BY LenProperties DEF FrameInv, TypeOK, ProbeGivesUp
  <1>3. buf' \in Seq(Byte) /\ Len(buf') <= BufSize /\ Head(buf) \in Byte
    BY <1>1, <1>2, NotEmpty, Constants
  <1>4. pending \o held \in Seq(Byte) /\ Len(pending \o held) = Len(held)
    BY <1>1, <1>2, EmptyBytes, ConcatProperties
  <1>5. <<Head(buf)>> \in Seq(Byte) /\ Len(<<Head(buf)>>) = 1
    BY <1>3
  <1>6. pending' \in Seq(Byte) /\ Len(pending') = Len(held) + 1
    BY <1>1, <1>4, <1>5, ConcatProperties
  <1>7. loc' = "slice" /\ deadline' \in {"none", "set", "past"}
    BY <1>1, EnterType
  <1>8. TypeOK'
    BY <1>1, <1>3, <1>6, <1>7, Zenon DEF TypeOK
  <1>9. BoundedMemory' /\ ReadsBounded'
    BY <1>1, <1>2, <1>6, <1>7, Constants DEF BoundedMemory, ReadsBounded
  <1> QED
    BY <1>8, <1>9 DEF FrameInv

LEMMA ReadCountedInv ==
  ASSUME FrameInv, ReadCounted
  PROVE  FrameInv'
  <1> DEFINE n == IF Len(buf) < count THEN Len(buf) ELSE count
             got == IF loc = "body" THEN held \o SubSeq(buf, 1, n) ELSE <<>>
  <1>1. /\ TypeOK /\ pending = <<>> /\ loc \in {"copy", "body"}
        /\ UNCHANGED <<peerVars, wire, pending, skipped>>
    BY DEF FrameInv, ReadsBounded, ReadCounted
  <1>2. /\ buf' = Drop(buf, n) /\ count' = count - n
        /\ held' = IF n < count THEN got ELSE <<>>
        /\ IF n < count THEN UNCHANGED <<loc, deadline, out>>
           ELSE IF loc = "body" THEN Settle(got)
           ELSE out' = Append(out, Oversized) /\ Enter("top")
    BY DEF ReadCounted
  <1>3. /\ buf \in Seq(Byte) /\ Len(buf) \in Nat /\ Len(buf) <= BufSize
        /\ held \in Seq(Byte) /\ Len(held) \in Nat /\ count \in Nat
    BY LenProperties DEF FrameInv, TypeOK
  <1>4. n \in 0..Len(buf) /\ n <= count /\ n \in Nat
    BY <1>3
  <1> HIDE DEF n
  <1>5. buf' \in Seq(Byte) /\ Len(buf') <= BufSize
    BY <1>2, <1>3, <1>4, Suffix, Constants
  <1>6. SubSeq(buf, 1, n) \in Seq(Byte) /\ Len(SubSeq(buf, 1, n)) = n
    BY <1>3, <1>4, Prefix
  <1>7. got \in Seq(Byte) /\ (loc = "body" => Len(got) = Len(held) + n)
    BY <1>3, <1>6, ConcatProperties, EmptyBytes
  <1> HIDE DEF got
  <1>8. held' \in Seq(Byte) /\ count' \in Nat
    BY <1>2, <1>3, <1>4, <1>7, EmptyBytes
  <1>9. /\ loc' = (IF n < count THEN loc ELSE "top")
        /\ deadline' \in {"none", "set", "past"} /\ out' \in Seq(Seq(Byte))
    <2>1. CASE n < count
      BY <1>1, <1>2, <2>1 DEF TypeOK
    <2>2. CASE ~(n < count) /\ loc = "body"
      BY <1>1, <1>2, <1>7, <2>2, SettleType
    <2>3. CASE ~(n < count) /\ loc # "body"
      BY <1>1, <1>2, <2>3, EnterType, CountOversized
    <2> QED
      BY <2>1, <2>2, <2>3
  <1>10. loc' \in {"copy", "body", "top"}
    BY <1>1, <1>9
  <1>11. TypeOK'
    BY <1>1, <1>5, <1>8, <1>9, <1>10, Zenon DEF TypeOK
  <1>12. loc' = "body" => Len(held') + count' <= Max
    <2> SUFFICES ASSUME loc' = "body" PROVE Len(held') + count' <= Max
      OBVIOUS
    <2>1. n < count /\ loc = "body"
      BY <1>9
    <2>2. Len(held) + count <= Max
      BY <2>1 DEF FrameInv, BoundedMemory
    <2>3. Len(held') = Len(held) + n /\ count' = count - n
      BY <1>2, <1>7, <2>1
    <2> QED
      BY <1>3, <1>4, <2>2, <2>3
  <1>13. pending' = <<>> /\ Len(pending') = 0
    BY <1>1, EmptyBytes
  <1>14. BoundedMemory' /\ ReadsBounded'
    BY <1>10, <1>12, <1>13, Constants DEF BoundedMemory, ReadsBounded
  <1> QED
    BY <1>11, <1>14 DEF FrameInv

LEMMA ReadFailsInv ==
  ASSUME FrameInv, ReadFails
  PROVE  FrameInv'
  <1>1. TypeOK /\ pending = <<>> /\ loc' \in Ended
        /\ UNCHANGED <<peerVars, wire, deadline, buf, pending, octetVars, out, skipped>>
    BY DEF FrameInv, ReadsBounded, ReadFails, Outcome, Ended
  <1>2. TypeOK'
    BY <1>1, Zenon DEF TypeOK
  <1>3. pending' = <<>> /\ loc' \notin {"probe", "body"}
    BY <1>1 DEF Ended
  <1> QED
    BY <1>2, <1>3, NothingPending DEF FrameInv

-----------------------------------------------------------------------------
(* Steps of the delimited path.                                            *)

LEMMA SliceInv ==
  ASSUME FrameInv, Slice
  PROVE  FrameInv'
  <1>1. /\ TypeOK /\ loc = "slice" /\ Enter("top")
        /\ UNCHANGED <<peerVars, wire, octetVars, out, skipped>>
    BY DEF FrameInv, Slice
  <1>2. PICK n \in 1..Len(buf) : pending' = pending \o SubSeq(buf, 1, n) /\ buf' = Drop(buf, n)
    BY DEF Slice
  <1>3. /\ buf \in Seq(Byte) /\ Len(buf) \in Nat /\ Len(buf) <= BufSize
        /\ pending \in Seq(Byte) /\ Len(pending) \in Nat
        /\ Len(pending) <= PendingBeforeRead
    BY <1>1, LenProperties DEF FrameInv, TypeOK, ReadsBounded
  <1>4. n \in 0..Len(buf)
    BY <1>3
  <1>5. buf' \in Seq(Byte) /\ Len(buf') <= BufSize
    BY <1>2, <1>3, <1>4, Suffix, Constants
  <1>6. SubSeq(buf, 1, n) \in Seq(Byte) /\ Len(SubSeq(buf, 1, n)) = n
    BY <1>3, <1>4, Prefix
  <1>7. pending' \in Seq(Byte) /\ Len(pending') = Len(pending) + n
    BY <1>2, <1>3, <1>6, ConcatProperties
  <1>8. loc' = "top" /\ deadline' \in {"none", "set", "past"}
    BY <1>1, EnterType
  <1>9. TypeOK'
    BY <1>1, <1>5, <1>7, <1>8, Zenon DEF TypeOK
  <1>10. BoundedMemory' /\ ReadsBounded'
    BY <1>3, <1>4, <1>7, <1>8, Constants DEF BoundedMemory, ReadsBounded
  <1> QED
    BY <1>9, <1>10 DEF FrameInv

LEMMA SliceFailsInv ==
  ASSUME FrameInv, SliceFails
  PROVE  FrameInv'
  <1>1. /\ TypeOK /\ loc = "slice" /\ buf' = <<>>
        /\ UNCHANGED <<peerVars, wire, octetVars, out, skipped>>
    BY DEF FrameInv, SliceFails
  <1>2. /\ buf \in Seq(Byte) /\ Len(buf) \in Nat /\ Len(buf) <= BufSize
        /\ pending \in Seq(Byte) /\ Len(pending) \in Nat
        /\ Len(pending) <= PendingBeforeRead
    BY <1>1, LenProperties DEF FrameInv, TypeOK, ReadsBounded
  <1>3. pending \o buf \in Seq(Byte) /\ Len(pending \o buf) = Len(pending) + Len(buf)
    BY <1>2, ConcatProperties
  <1>4. \/ pending' = pending \o buf /\ Enter("top")
        \/ pending' = <<>> /\ loc' \in Ended /\ UNCHANGED deadline
    BY DEF SliceFails, Outcome, Ended
  <1>5. /\ pending' \in Seq(Byte) /\ Len(pending') <= PendingBeforeRead + BufSize
        /\ loc' \in {"top"} \cup Ended /\ deadline' \in {"none", "set", "past"}
    <2>1. CASE pending' = pending \o buf /\ Enter("top")
      BY <1>1, <1>2, <1>3, <2>1, EnterType, Constants
    <2>2. CASE pending' = <<>> /\ loc' \in Ended /\ UNCHANGED deadline
      BY <1>1, <2>2, EmptyBytes, Constants DEF TypeOK
    <2> QED
      BY <1>4, <2>1, <2>2
  <1>6. buf' \in Seq(Byte) /\ Len(buf') <= BufSize
    BY <1>1, EmptyBytes, Constants
  <1>7. TypeOK'
    BY <1>1, <1>5, <1>6, Zenon DEF TypeOK
  <1>8. BoundedMemory' /\ ReadsBounded'
    BY <1>5 DEF BoundedMemory, ReadsBounded, Ended
  <1> QED
    BY <1>7, <1>8 DEF FrameInv

-----------------------------------------------------------------------------
(* Types and bounds.                                                       *)

LEMMA FrameStep == FrameInv /\ [Next]_vars => FrameInv'
  <1> SUFFICES ASSUME FrameInv, [Next]_vars PROVE FrameInv'
    OBVIOUS
  <1>1. CASE Send \/ HangUp \/ Reset \/ DeadlinePasses
    BY <1>1, PeerInv
  <1>2. CASE Fill
    BY <1>2, FillInv
  <1>3. CASE NextStep
    BY <1>3, TakeFrameInv, StartDiscardingInv, StartReadingInv, FlushInv, PeekInv,
       ProbeDigitInv, ProbeCountInv, ProbeGivesUpInv, ReadCountedInv, ReadFailsInv,
       SliceInv, SliceFailsInv DEF NextStep
  <1>4. CASE UNCHANGED vars
    BY <1>4 DEF vars, FrameInv, TypeOK, BoundedMemory, ReadsBounded
  <1> QED
    BY <1>1, <1>2, <1>3, <1>4 DEF Next, Reader, Terminated

\* The reader's variables keep their types (frame.go:17-28).
THEOREM FrameReaderTyped == Spec => []TypeOK
  <1>1. FrameInv => TypeOK
    BY DEF FrameInv
  <1> QED
    BY <1>1, FrameInit, FrameStep, PTL DEF Spec

\* However a stream is cut into reads and whatever frames are in it, pending
\* never holds more than the limit (or a probe's bytes) and one buffer, and a
\* payload never more than the limit (frame.go:76, 83, 139).
THEOREM MemoryIsBounded == Spec => []BoundedMemory
  <1>1. FrameInv => BoundedMemory
    BY DEF FrameInv
  <1> QED
    BY <1>1, FrameInit, FrameStep, PTL DEF Spec

-----------------------------------------------------------------------------
(* Where the frames are in the stream.                                     *)

\* An octet count, as it is written, where the stream holds it.
LEMMA EncodedCount ==
  ASSUME NEW d \in Dialects, NEW f \in d, f.style = "octet",
         NEW digits \in Numerals[Size(f)],
         NEW F \in [Nat -> Byte], NEW a \in Nat,
         \A i \in 1..Len(digits) : F[a+i] = digits[i],
         F[a + Len(digits) + 1] = SP
  PROVE  \E v \in [0..Len(digits) -> 0..Size(f)] : Header(F, a, f, Len(digits), v)
  <1>1. /\ Len(digits) \in 1..MaxDigits /\ Denotes(digits, Size(f))
        /\ digits \in Seq(0..9)
    BY NumeralType
  <1>2. PICK v \in [0..Len(digits) -> 0..Size(f)] :
            /\ v[0] = 0 /\ v[Len(digits)] = Size(f)
            /\ \A i \in 1..Len(digits) : v[i] = 10 * v[i-1] + digits[i]
    BY <1>1 DEF Denotes
  <1>3. Len(digits) \in Nat /\ \A i \in 1..Len(digits) : digits[i] \in 0..9
    BY <1>1, ElementOfSeq, LenProperties
  <1>4. ASSUME NEW i \in 1..Len(digits)
        PROVE  IsDigit(F[a+i]) /\ v[i] = 10 * v[i-1] + F[a+i]
    <2>1. F[a+i] = digits[i] /\ digits[i] \in 0..9 /\ v[i] = 10 * v[i-1] + digits[i]
      BY <1>2, <1>3, Zenon
    <2> QED
      BY <2>1 DEF IsDigit
  <1>5. Header(F, a, f, Len(digits), v)
    BY <1>2, <1>4, Zenon DEF Header
  <1> QED
    BY <1>5

LEMMA EncodedOctets ==
  ASSUME NEW d \in Dialects, NEW f \in d, f.style = "octet", NEW bytes \in Encodings(f),
         NEW F \in [Nat -> Byte], NEW a \in Nat,
         \A i \in 1..Len(bytes) : F[a+i] = bytes[i]
  PROVE  CountedAt(F, a, a + Len(bytes), f) /\ Len(bytes) \in Nat \ {0}
  <1>1. PICK digits \in Numerals[Size(f)] : bytes = digits \o <<SP>> \o f.body
    BY DEF Encodings, Size
  <1>2. PICK body \in Seq(Byte) : body = f.body /\ Len(body) = Size(f) /\ Size(f) \in Nat
    BY FrameTypes DEF Size
  <1>3. PICK h \in Nat : h = Len(digits) /\ h \in 1..MaxDigits /\ h >= 1
    BY NumeralType, LenProperties, Constants
  <1>4. digits \in Seq(Byte) /\ <<SP>> \in Seq(Byte) /\ Len(<<SP>>) = 1 /\ <<SP>>[1] = SP
    BY NumeralType, Constants
  <1> DEFINE q == digits \o <<SP>>
  <1>5. /\ q \in Seq(Byte) /\ Len(q) = h + 1
        /\ \A i \in 1..h : q[i] = digits[i]
        /\ q[h + 1] = SP
    <2> DEFINE sp == <<SP>>
    <2>1. sp \in Seq(Byte) /\ Len(sp) = 1 /\ sp[1] = SP /\ q = digits \o sp
      BY <1>4
    <2> HIDE DEF q, sp
    <2>2. /\ q \in Seq(Byte) /\ Len(q) = Len(digits) + Len(sp)
          /\ \A i \in 1..Len(digits) + Len(sp) :
                 q[i] = IF i <= Len(digits) THEN digits[i] ELSE sp[i - Len(digits)]
      BY <1>4, <2>1, ConcatProperties
    <2>3. /\ h + 1 \in 1..h + 1 /\ ~(h + 1 <= h) /\ (h + 1) - h = 1
          /\ \A i \in 1..h : i \in 1..h + 1 /\ i <= h
      BY <1>3
    <2>4. q[h + 1] = sp[1]
      BY <1>3, <2>1, <2>2, <2>3
    <2> QED
      BY <1>3, <2>1, <2>2, <2>3, <2>4
  <1>6. bytes = q \o body
    BY <1>1, <1>2
  <1> HIDE DEF q
  <1>7. /\ Len(bytes) = (h + 1) + Size(f)
        /\ \A i \in 1..(h + 1) + Size(f) :
               bytes[i] = IF i <= h + 1 THEN q[i] ELSE body[i - (h + 1)]
    <2>1. /\ Len(bytes) = Len(q) + Len(body)
          /\ \A i \in 1..Len(q) + Len(body) :
                 bytes[i] = IF i <= Len(q) THEN q[i] ELSE body[i - Len(q)]
      BY <1>5, <1>6, ConcatProperties
    <2>2. Len(q) = h + 1 /\ Len(body) = Size(f)
      BY <1>2, <1>5
    <2> QED
      BY <2>1, <2>2
  <1>14. Len(bytes) \in Nat /\ h < Len(bytes)
    BY <1>2, <1>3, <1>7
  <1>8. ASSUME NEW i \in 1..h PROVE F[a+i] = digits[i]
    <2>1. i \in 1..Len(bytes) /\ i \in 1..(h + 1) + Size(f) /\ i <= h + 1
      BY <1>2, <1>3, <1>14
    <2> QED
      BY <1>5, <1>7, <2>1, Zenon
  <1>9. F[a + h + 1] = SP
    <2>1. F[a + (h + 1)] = bytes[h + 1] /\ bytes[h + 1] = q[h + 1]
      BY <1>2, <1>3, <1>7
    <2>2. a + (h + 1) = a + h + 1
      BY <1>3
    <2> QED
      BY <1>5, <2>1, <2>2
  <1>10. PICK v \in [0..h -> 0..Size(f)] : Header(F, a, f, h, v)
    BY <1>3, <1>8, <1>9, EncodedCount
  <1>15. PICK b \in Nat, s \in Nat : /\ b = a + Len(bytes) /\ s = Size(f)
                                    /\ b = a + (h + 1) + s
    <2>1. PICK s \in Nat : s = Size(f)
      BY <1>2
    <2>2. PICK b \in Nat : b = a + Len(bytes)
      BY <1>14
    <2>3. b = a + ((h + 1) + s)
      BY <1>7, <2>1, <2>2, Zenon
    <2>4. b = a + (h + 1) + s
      BY <1>3, <2>3
    <2> QED
      BY <2>1, <2>2, <2>4, Zenon
  <1>11. ASSUME NEW i \in 1..Size(f)
         PROVE  F[b - s + i] = body[i]
    <2>1. /\ (h + 1) + i \in 1..(h + 1) + Size(f) /\ ~((h + 1) + i <= h + 1)
          /\ ((h + 1) + i) - (h + 1) = i
      BY <1>2, <1>3
    <2>2. bytes[(h + 1) + i] = body[i]
      BY <1>7, <2>1
    <2>3. F[a + ((h + 1) + i)] = bytes[(h + 1) + i]
      BY <1>7, <2>1
    <2>5. i \in Nat /\ b = a + (h + 1) + s
      BY <1>15
    <2>4. b - s + i = a + ((h + 1) + i)
      BY <1>3, <2>5
    <2> QED
      BY <2>2, <2>3, <2>4, Zenon
  <1>12. a + Len(bytes) = a + h + 1 + Size(f)
    BY <1>2, <1>3, <1>7
  <1>13. CountedAt(F, a, a + Len(bytes), f)
    <2>1. b = a + Len(bytes)
      BY <1>15
    <2>2. \A i \in 1..Size(f) : F[b - Size(f) + i] = f.body[i]
      BY <1>2, <1>11, <1>15, Zenon
    <2>3. Header(F, a, f, h, v) /\ b = a + h + 1 + Size(f)
      BY <1>10, <1>12, <2>1
    <2>4. \E k \in 1..MaxDigits : \E w \in [0..k -> 0..Size(f)] :
             Header(F, a, f, k, w) /\ b = a + k + 1 + Size(f)
      BY <1>3, <2>3, Zenon
    <2>5. CountedAt(F, a, b, f)
      BY <2>2, <2>4 DEF CountedAt
    <2> QED
      BY <2>1, <2>5
  <1> QED
    BY <1>3, <1>13, <1>14

LEMMA EncodedLine ==
  ASSUME NEW d \in Dialects, NEW f \in d, f.style # "octet", NEW bytes \in Encodings(f),
         NEW F \in [Nat -> Byte], NEW a \in Nat,
         \A i \in 1..Len(bytes) : F[a+i] = bytes[i]
  PROVE  LineAt(F, a, a + Len(bytes), f) /\ Len(bytes) \in Nat \ {0}
  <1>1. f.style \in {"lf", "nul"}
    BY FrameTypes
  <1>8. PICK body \in Seq(Byte) : body = f.body /\ Len(body) = Size(f) /\ Size(f) \in Nat
    BY FrameTypes DEF Size
  <1>2. PICK last \in {LF, NUL} : /\ bytes = body \o <<last>>
                                  /\ last = IF f.style = "lf" THEN LF ELSE NUL
    BY <1>1, <1>8 DEF Encodings
  <1>3. <<last>> \in Seq(Byte) /\ Len(<<last>>) = 1 /\ <<last>>[1] = last
    BY Constants
  <1>4. /\ Len(bytes) = Size(f) + 1
        /\ \A i \in 1..Size(f) : bytes[i] = body[i]
        /\ bytes[Size(f) + 1] = last
    BY <1>2, <1>3, <1>8, ConcatProperties
  <1>5. F[a + Len(bytes)] = last
    BY <1>4, <1>8
  <1>6. \A i \in 1..Size(f) : F[a + i] = body[i]
    BY <1>4, <1>8
  <1>7. a + Len(bytes) = a + Size(f) + 1
    BY <1>4, <1>8
  <1> QED
    BY <1>1, <1>2, <1>4, <1>5, <1>6, <1>7, <1>8 DEF LineAt

\* A frame that has been written is at its place in the stream.
LEMMA Encoded ==
  ASSUME NEW d \in Dialects, NEW f \in d, NEW bytes \in Encodings(f),
         NEW F \in [Nat -> Byte], NEW a \in Nat,
         \A i \in 1..Len(bytes) : F[a+i] = bytes[i]
  PROVE  FrameAt(F, a, a + Len(bytes), f) /\ Len(bytes) \in Nat \ {0}
  BY EncodedOctets, EncodedLine DEF FrameAt

\* What is in a frame's place is the frame, whatever follows.
LEMMA FrameAgrees ==
  ASSUME NEW F, NEW F2, NEW a \in Nat, NEW b \in Nat, NEW f, Size(f) \in Nat,
         FrameAt(F, a, b, f), \A i \in 1..b : F2[i] = F[i]
  PROVE  FrameAt(F2, a, b, f)
  <1>1. CASE f.style = "octet"
    <2>1. CountedAt(F, a, b, f)
      BY <1>1 DEF FrameAt
    <2>2. PICK h \in 1..MaxDigits : \E v \in [0..h -> 0..Size(f)] :
              Header(F, a, f, h, v) /\ b = a + h + 1 + Size(f)
      BY <2>1 DEF CountedAt
    <2>3. PICK v \in [0..h -> 0..Size(f)] :
              Header(F, a, f, h, v) /\ b = a + h + 1 + Size(f)
      BY <2>2
    <2>4. h \in Nat /\ h >= 1 /\ b = a + h + 1 + Size(f)
      BY <2>3, Constants
    <2>12. PICK s \in Nat : s = Size(f) /\ b = a + h + 1 + s
      BY <2>4
    <2>13. /\ \A i \in 1..h : a + i \in 1..b
           /\ a + h + 1 \in 1..b
           /\ \A i \in 1..s : b - s + i \in 1..b
      BY <2>4, <2>12
    <2>9. \A i \in 1..h : F2[a+i] = F[a+i]
      BY <2>13, Zenon
    <2>10. F2[a+h+1] = F[a+h+1]
      BY <2>13, Zenon
    <2>11. \A i \in 1..Size(f) : F2[b - Size(f) + i] = F[b - Size(f) + i]
      BY <2>12, <2>13, Zenon
    <2>5. /\ \A i \in 1..h : F2[a+i] = F[a+i]
          /\ F2[a+h+1] = F[a+h+1]
          /\ \A i \in 1..Size(f) : F2[b - Size(f) + i] = F[b - Size(f) + i]
      BY <2>9, <2>10, <2>11
    <2>6. Header(F2, a, f, h, v)
      BY <2>3, <2>5 DEF Header
    <2>7. \A i \in 1..Size(f) : F2[b - Size(f) + i] = f.body[i]
      BY <2>1, <2>5 DEF CountedAt
    <2>8. CountedAt(F2, a, b, f)
      BY <2>3, <2>6, <2>7, Zenon DEF CountedAt
    <2> QED
      BY <1>1, <2>8 DEF FrameAt
  <1>2. CASE f.style # "octet"
    <2>1. LineAt(F, a, b, f)
      BY <1>2 DEF FrameAt
    <2>2. F2[b] = F[b] /\ \A i \in 1..Size(f) : F2[a+i] = F[a+i]
      BY <2>1 DEF LineAt
    <2> QED
      BY <1>2, <2>1, <2>2 DEF LineAt, FrameAt
  <1> QED
    BY <1>1, <1>2

\* A delimited frame has no delimiter before its end, and what starts with
\* anything but a digit is no octet count.
LEMMA LinePlace ==
  ASSUME NEW d \in Dialects, NEW f \in d, f.style # "octet",
         NEW F \in [Nat -> Byte], NEW a \in Nat, NEW b \in Nat, FrameAt(F, a, b, f)
  PROVE  /\ b = a + Size(f) + 1
         /\ \A i \in 1..Size(f) : F[a+i] = f.body[i]
         /\ F[b] \in {LF, NUL}
         /\ ~HeldBack(f) => F[b] = LF
         /\ \A i \in a+1..b-1 : F[i] \notin {LF, NUL}
  <1>1. f.body \in Seq(Byte) /\ Size(f) \in Nat /\ f.style \in {"lf", "nul"}
    BY FrameTypes
  <1>2. /\ b = a + Size(f) + 1
        /\ \A i \in 1..Size(f) : F[a+i] = f.body[i]
        /\ F[b] = IF f.style = "lf" THEN LF ELSE NUL
    BY DEF FrameAt, LineAt
  <1>3. \A i \in 1..Size(f) : f.body[i] \notin {LF, NUL}
    BY FrameTypes DEF WellFormed, Size
  <1>4. ASSUME NEW i \in a+1..b-1 PROVE F[i] \notin {LF, NUL}
    <2>1. i - a \in 1..Size(f) /\ a + (i - a) = i
      BY <1>1, <1>2
    <2> QED
      BY <1>2, <1>3, <2>1
  <1>5. ~HeldBack(f) => F[b] = LF
    BY <1>1, <1>2 DEF HeldBack
  <1> QED
    BY <1>1, <1>2, <1>4, <1>5

LEMMA CountPlace ==
  ASSUME NEW d \in Dialects, NEW f \in d, f.style = "octet",
         NEW F \in [Nat -> Byte], NEW a \in Nat, NEW b \in Nat, FrameAt(F, a, b, f)
  PROVE  /\ IsDigit(F[a+1]) /\ a < b - Size(f)
         /\ \A i \in 1..Size(f) : F[b - Size(f) + i] = f.body[i]
         /\ \E h \in 1..MaxDigits : \E v \in [0..h -> 0..Size(f)] :
                Header(F, a, f, h, v) /\ b = a + h + 1 + Size(f)
  <1>1. CountedAt(F, a, b, f) /\ Size(f) \in Nat
    BY FrameTypes DEF FrameAt
  <1>2. PICK h \in 1..MaxDigits : \E v \in [0..h -> 0..Size(f)] :
            Header(F, a, f, h, v) /\ b = a + h + 1 + Size(f)
    BY <1>1 DEF CountedAt
  <1>3. h \in Nat /\ h >= 1
    BY Constants
  <1>4. 1 \in 1..h
    BY <1>3
  <1>5. IsDigit(F[a+1])
    BY <1>2, <1>4 DEF Header
  <1>6. a < b - Size(f)
    BY <1>1, <1>2, <1>3
  <1> QED
    BY <1>1, <1>2, <1>5, <1>6, Zenon DEF CountedAt

-----------------------------------------------------------------------------
(* What has come out, frame by frame.                                      *)

LEMMA Places ==
  ASSUME NEW n \in Nat
  PROVE  /\ IsFiniteSet(Messages(n)) /\ Place(n) \in Nat
         /\ n = 0 => Place(n) = 0
  <1>1. IsFiniteSet(1..n)
    BY FS_Interval
  <1>2. Messages(n) \subseteq 1..n
    BY DEF Messages
  <1>3. IsFiniteSet(Messages(n)) /\ Place(n) \in Nat
    BY <1>1, <1>2, FS_Subset, FS_CardinalityType DEF Place
  <1>4. n = 0 => Messages(n) = {}
    BY <1>2
  <1> QED
    BY <1>3, <1>4, FS_EmptySet DEF Place

LEMMA NextPlace ==
  ASSUME NEW n \in Nat
  PROVE  /\ Message(sent[n+1]) = <<>> => Messages(n+1) = Messages(n) /\ Place(n+1) = Place(n)
         /\ Message(sent[n+1]) # <<>> =>
                Messages(n+1) = Messages(n) \cup {n+1} /\ Place(n+1) = Place(n) + 1
  <1>1. 1..n+1 = (1..n) \cup {n+1} /\ n+1 \notin 1..n
    OBVIOUS
  <1>2. Message(sent[n+1]) = <<>> => Messages(n+1) = Messages(n)
    BY <1>1, Zenon DEF Messages
  <1>3. ASSUME Message(sent[n+1]) # <<>>
        PROVE  Messages(n+1) = Messages(n) \cup {n+1} /\ n+1 \notin Messages(n)
    BY <1>1, <1>3, Zenon DEF Messages
  <1>4. ASSUME Message(sent[n+1]) # <<>> PROVE Place(n+1) = Place(n) + 1
    BY <1>3, <1>4, Places, FS_AddElement DEF Place
  <1> QED
    BY <1>2, <1>3, <1>4 DEF Place

LEMMA PlacesGrow ==
  ASSUME NEW m \in Nat, NEW n \in Nat, m <= n
  PROVE  Messages(m) \subseteq Messages(n) /\ Place(m) <= Place(n)
  <1>1. Messages(m) \subseteq Messages(n)
    BY DEF Messages
  <1> QED
    BY <1>1, Places, FS_Subset DEF Place

\* The places of two messages differ.
LEMMA PlaceOfMessage ==
  ASSUME NEW n \in Nat, NEW i \in Messages(n)
  PROVE  i \in 1..n /\ Place(i) \in 1..Place(n)
  <1>1. i \in 1..n /\ i \in Nat /\ i - 1 \in Nat /\ (i - 1) + 1 = i /\ Message(sent[i]) # <<>>
    BY DEF Messages
  <1>2. Place(i) = Place(i-1) + 1
    BY <1>1, NextPlace
  <1>3. Place(i) <= Place(n)
    BY <1>1, PlacesGrow
  <1> QED
    BY <1>1, <1>2, <1>3, Places

LEMMA SamePlaces ==
  ASSUME UNCHANGED sent, NEW n
  PROVE  Messages(n)' = Messages(n) /\ Place(n)' = Place(n)
  BY DEF Messages, Place

\* More frames do not change the places of those before them.
LEMMA AppendedPlaces ==
  ASSUME TypeOK, NEW f \in dialect, sent' = Append(sent, f), NEW n \in 0..Len(sent)
  PROVE  Messages(n)' = Messages(n) /\ Place(n)' = Place(n)
  <1>1. sent \in Seq(dialect) /\ Len(sent) \in Nat
    BY LenProperties DEF TypeOK
  <1>2. \A i \in 1..n : sent'[i] = sent[i]
    BY <1>1, AppendProperties
  <1>3. Messages(n)' = Messages(n)
    BY <1>2, Zenon DEF Messages
  <1> QED
    BY <1>3 DEF Place

LEMMA StillSettled ==
  ASSUME NEW n, Settled(n), UNCHANGED <<sent, out>>
  PROVE  Settled(n)'
  BY DEF Settled, Messages, Place, Renders

LEMMA SettledBeforeSend ==
  ASSUME TypeOK, NEW n, Settled(n), NEW f \in dialect, sent' = Append(sent, f), UNCHANGED out
  PROVE  Settled(n)'
  <1>1. sent \in Seq(dialect) /\ Len(sent) \in Nat
    BY LenProperties DEF TypeOK
  <1>2. /\ Len(sent') = Len(sent) + 1
        /\ \A i \in 1..Len(sent) : sent'[i] = sent[i]
    BY <1>1, AppendProperties
  <1>3. n \in 0..Len(sent) /\ n \in Nat
    BY <1>1 DEF Settled
  <1>4. n \in 0..Len(sent')
    BY <1>1, <1>2, <1>3
  <1>5. Len(out') = Place(n)'
    BY <1>3, AppendedPlaces DEF Settled
  <1>6. ASSUME NEW i \in Messages(n)' PROVE Renders(sent'[i], out'[Place(i)'])
    <2>1. i \in Messages(n)
      BY <1>3, AppendedPlaces
    <2>2. i \in 1..n
      BY <1>3, <2>1, PlaceOfMessage
    <2>3. sent'[i] = sent[i] /\ Place(i)' = Place(i)
      BY <1>1, <1>2, <1>3, <2>2, AppendedPlaces
    <2> QED
      BY <2>1, <2>3 DEF Settled
  <1> QED
    BY <1>4, <1>5, <1>6 DEF Settled

LEMMA MessageType ==
  ASSUME NEW d \in Dialects, NEW f \in d
  PROVE  /\ Message(f) \in Seq(Byte)
         /\ Size(f) > Max => Message(f) # <<>>
         /\ Size(f) = 0 <=> f.body = <<>>
  <1>1. f.body \in Seq(Byte) /\ Size(f) \in Nat
    BY FrameTypes
  <1>2. Message(f) \in Seq(Byte)
    BY <1>1, StripCRType DEF Message
  <1>3. Size(f) = 0 <=> f.body = <<>>
    BY <1>1, EmptySeq DEF Size
  <1>4. ASSUME Size(f) > Max PROVE Message(f) # <<>>
    <2>1. Size(f) - 1 \in 0..Size(f) /\ Size(f) - 1 # 0 /\ Size(f) # 0
      BY <1>1, <1>4, Constants
    <2>2. PICK body \in Seq(Byte) : body = f.body /\ Len(body) = Size(f)
      BY <1>1 DEF Size
    <2>3. Len(SubSeq(body, 1, Size(f) - 1)) # 0
      BY <2>1, <2>2, Prefix
    <2>4. SubSeq(body, 1, Size(f) - 1) # <<>>
      BY <2>3, EmptyBytes
    <2>5. body # <<>>
      BY <1>3, <2>1, <2>2
    <2> QED
      BY <2>2, <2>4, <2>5 DEF Message, StripCR
  <1> QED
    BY <1>2, <1>3, <1>4

\* The next frame is settled: it has no message, or what came out for it is there.
LEMMA NextSettled ==
  ASSUME TypeOK, NEW n, Settled(n), n < Len(sent), UNCHANGED sent,
         \/ Message(sent[n+1]) = <<>> /\ UNCHANGED out
         \/ /\ Message(sent[n+1]) # <<>>
            /\ \E o \in Seq(Byte) : out' = Append(out, o) /\ Renders(sent[n+1], o)
  PROVE  Settled(n+1)'
  <1>1. /\ sent \in Seq(dialect) /\ Len(sent) \in Nat /\ n \in Nat /\ n + 1 \in 0..Len(sent)
        /\ out \in Seq(Seq(Byte))
    BY LenProperties DEF TypeOK, Settled
  <1>2. n + 1 \in 0..Len(sent')
    BY <1>1
  <1>3. CASE Message(sent[n+1]) = <<>>
    <2>1. UNCHANGED out
      BY <1>3
    <2>2. Messages(n+1) = Messages(n) /\ Place(n+1) = Place(n)
      BY <1>1, <1>3, NextPlace
    <2>3. Settled(n+1)
      BY <1>1, <2>2 DEF Settled
    <2> QED
      BY <2>1, <2>3, StillSettled
  <1>4. CASE Message(sent[n+1]) # <<>>
    <2>1. PICK o \in Seq(Byte) : out' = Append(out, o) /\ Renders(sent[n+1], o)
      BY <1>4
    <2>2. Messages(n+1) = Messages(n) \cup {n+1} /\ Place(n+1) = Place(n) + 1
      BY <1>1, <1>4, NextPlace
    <2>3. Len(out) = Place(n) /\ Place(n) \in Nat
      BY <1>1, Places DEF Settled
    <2>4. /\ Len(out') = Len(out) + 1
          /\ out'[Len(out) + 1] = o
          /\ \A j \in 1..Len(out) : out'[j] = out[j]
      BY <1>1, <2>1, AppendProperties
    <2>5. Len(out') = Place(n+1)'
      BY <2>2, <2>3, <2>4, SamePlaces
    <2>6. ASSUME NEW i \in Messages(n+1)' PROVE Renders(sent'[i], out'[Place(i)'])
      <3>1. Place(i)' = Place(i) /\ sent'[i] = sent[i] /\ i \in Messages(n) \cup {n+1}
        BY <2>2, SamePlaces
      <3>2. CASE i = n + 1
        BY <2>1, <2>2, <2>3, <2>4, <3>1, <3>2
      <3>3. CASE i \in Messages(n)
        <4>1. Renders(sent[i], out[Place(i)])
          BY <3>3 DEF Settled
        <4>2. Place(i) \in 1..Len(out)
          BY <1>1, <2>3, <3>3, PlaceOfMessage
        <4> QED
          BY <2>4, <3>1, <4>1, <4>2
      <3> QED
        BY <3>1, <3>2, <3>3
    <2> QED
      BY <1>2, <2>5, <2>6 DEF Settled
  <1> QED
    BY <1>3, <1>4

\* next returns the message of the next frame.
LEMMA MessageSettled ==
  ASSUME TypeOK, NEW n, Settled(n), n < Len(sent), UNCHANGED sent,
         Settle(Message(sent[n+1]))
  PROVE  Settled(n+1)'
  <1>1. /\ sent \in Seq(dialect) /\ Len(sent) \in Nat /\ n + 1 \in 1..Len(sent)
        /\ dialect \in Dialects
    BY LenProperties DEF TypeOK, Settled
  <1>2. sent[n+1] \in dialect
    BY <1>1, ElementOfSeq
  <1> DEFINE m == Message(sent[n+1])
  <1>3. m \in Seq(Byte) /\ Len(m) \in Nat /\ (m = <<>> <=> Len(m) = 0)
    BY <1>1, <1>2, MessageType, EmptySeq, LenProperties
  <1>4. out' = CASE Len(m) > Max -> Append(out, Oversized)
                 [] Len(m) \in 1..Max -> Append(out, m)
                 [] m = <<>> -> out
    BY DEF Settle
  <1> HIDE DEF m
  <1>5. CASE m = <<>>
    <2>1. UNCHANGED out
      BY <1>3, <1>4, <1>5, Constants
    <2> QED
      BY <1>5, <2>1, NextSettled DEF m
  <1>6. CASE m # <<>> /\ Len(m) > Max
    <2>1. out' = Append(out, Oversized)
      BY <1>3, <1>4, <1>6, Constants
    <2>2. Renders(sent[n+1], Oversized) /\ Oversized \in Seq(Byte)
      BY <1>6, EmptyBytes DEF Renders, Oversized, m
    <2> QED
      BY <1>6, <2>1, <2>2, NextSettled DEF m
  <1>7. CASE m # <<>> /\ ~(Len(m) > Max)
    <2>1. Len(m) <= Max /\ out' = Append(out, m)
      BY <1>3, <1>4, <1>7, Constants
    <2>2. Renders(sent[n+1], m)
      BY <2>1 DEF Renders, m
    <2> QED
      BY <1>3, <1>7, <2>1, <2>2, NextSettled DEF m
  <1> QED
    BY <1>5, <1>6, <1>7

\* next has thrown the next frame away.
LEMMA OversizedSettled ==
  ASSUME TypeOK, NEW n, Settled(n), n < Len(sent), UNCHANGED sent,
         Size(sent[n+1]) > Max, out' = Append(out, Oversized)
  PROVE  Settled(n+1)'
  <1>1. /\ sent \in Seq(dialect) /\ Len(sent) \in Nat /\ n + 1 \in 1..Len(sent)
        /\ dialect \in Dialects
    BY LenProperties DEF TypeOK, Settled
  <1>2. sent[n+1] \in dialect
    BY <1>1, ElementOfSeq
  <1>3. Message(sent[n+1]) # <<>>
    BY <1>1, <1>2, MessageType
  <1>4. Renders(sent[n+1], Oversized) /\ Oversized \in Seq(Byte)
    BY EmptyBytes DEF Renders, Oversized, Size
  <1> QED
    BY <1>3, <1>4, NextSettled

-----------------------------------------------------------------------------
(* Where the reader is in the stream.                                      *)

LEMMA PlacedTypes ==
  ASSUME FrameInv, NEW F, NEW e, NEW G, NEW g, NEW n, NEW p, Placed(F, e, G, g, n, p)
  PROVE  /\ TypeOK /\ dialect \in Dialects /\ sent \in Seq(dialect) /\ Len(sent) \in Nat
         /\ buf \in Seq(Byte) /\ Len(buf) \in Nat
         /\ wire \in Seq(Byte) /\ Len(wire) \in Nat
         /\ pending \in Seq(Byte) /\ Len(pending) \in Nat
         /\ held \in Seq(Byte) /\ Len(held) \in Nat /\ count \in Nat
         /\ F \in [Nat -> Byte] /\ e \in [Nat -> Nat]
         /\ n <= Len(sent) /\ n \in Nat /\ g \in Nat /\ p \in Nat /\ n <= g
         /\ e[n] \in Nat /\ e[g] \in Nat /\ e[n] <= p
         /\ Reached(p) = p + Len(buf) + Len(wire) /\ Reached(p) \in Nat
         /\ Reached(p) <= e[g]
  <1>1. /\ TypeOK /\ dialect \in Dialects /\ sent \in Seq(dialect) /\ Len(sent) \in Nat
        /\ buf \in Seq(Byte) /\ Len(buf) \in Nat
        /\ wire \in Seq(Byte) /\ Len(wire) \in Nat
        /\ pending \in Seq(Byte) /\ Len(pending) \in Nat
        /\ held \in Seq(Byte) /\ Len(held) \in Nat /\ count \in Nat
    BY LenProperties DEF FrameInv, TypeOK
  <1>2. /\ F \in [Nat -> Byte] /\ e \in [Nat -> Nat] /\ g \in Nat /\ p \in Nat
        /\ e[n] <= p /\ n \in 0..Len(sent) /\ g \in {Len(sent), Len(sent) + 1}
        /\ Reached(p) <= e[g]
    BY Zenon DEF Placed, Settled, Arrived
  <1>3. n \in Nat /\ n <= g /\ n <= Len(sent)
    <2>1. PICK m \in Nat : m = Len(sent)
      BY <1>1, Zenon
    <2>2. n \in 0..m /\ g \in {m, m + 1}
      BY <1>2, <2>1, Zenon
    <2>3. n \in Nat /\ n <= g /\ n <= m
      BY <2>2
    <2> QED
      BY <2>1, <2>3
  <1>4. Reached(p) = p + Len(buf) + Len(wire) /\ Reached(p) \in Nat
    BY <1>1, <1>2 DEF Reached
  <1>5. e[n] \in Nat /\ e[g] \in Nat
    BY <1>2, <1>3
  <1> QED
    BY <1>1, <1>2, <1>3, <1>4, <1>5, Zenon

\* The next frame, if the stream holds one.
LEMMA NextFrame ==
  ASSUME FrameInv, NEW F, NEW e, NEW G, NEW g, NEW n, NEW p, Placed(F, e, G, g, n, p), n < g
  PROVE  /\ e[n+1] \in Nat /\ e[n] < e[n+1] /\ e[n+1] <= e[g]
         /\ G[n+1] \in dialect /\ FrameAt(F, e[n], e[n+1], G[n+1])
         /\ e[n+1] <= Reached(p) => n < Len(sent) /\ G[n+1] = sent[n+1]
  <1>1. n \in Nat /\ g \in Nat /\ e \in [Nat -> Nat]
    BY PlacedTypes, Zenon
  <1>2. Stream(F, e, G, g) /\ Arrived(F, e, G, g, p)
    BY DEF Placed
  <1>3. n + 1 \in 1..g /\ (n + 1) - 1 = n /\ n \in 0..g /\ n + 1 \in 0..g /\ n < n + 1
        /\ g \in 0..g /\ (n + 1 = g \/ n + 1 < g)
    BY <1>1
  <1>4. /\ G[n+1] \in dialect /\ FrameAt(F, e[n], e[n+1], G[n+1])
        /\ e[n] < e[n+1]
        /\ n + 1 = g \/ e[n+1] < e[g]
    BY <1>2, <1>3 DEF Stream
  <1>5. e[n] \in Nat /\ e[n+1] \in Nat /\ e[g] \in Nat /\ e[n+1] <= e[g]
    BY <1>1, <1>4
  <1>6. ASSUME e[n+1] <= Reached(p) PROVE n < Len(sent) /\ G[n+1] = sent[n+1]
    <2>1. PICK m \in Nat : m = Len(sent) /\ n <= m
      BY PlacedTypes, Zenon
    <2>2. /\ g \in {m, m + 1}
          /\ g > m => Reached(p) < e[g]
          /\ \A i \in 1..m : G[i] = sent[i]
      BY <1>2, <2>1, Zenon DEF Arrived
    <2>3. Reached(p) \in Nat
      BY PlacedTypes, Zenon
    <2>4. n < m
      <3> SUFFICES ASSUME ~(n < m) PROVE FALSE
        OBVIOUS
      <3>3. g \in {m, m + 1} /\ n <= m
        BY <2>1, <2>2, Zenon
      <3>1. g = n + 1 /\ g > m
        BY <1>1, <3>3
      <3>2. Reached(p) < e[n+1]
        BY <2>2, <3>1, Zenon
      <3> QED
        BY <1>5, <1>6, <2>3, <3>2
    <2>5. n + 1 \in 1..m
      BY <1>1, <2>1, <2>4
    <2>6. G[n+1] = sent[n+1]
      BY <2>2, <2>5, Zenon
    <2> QED
      BY <2>1, <2>4, <2>6, Zenon
  <1> QED
    BY <1>4, <1>5, <1>6

\* Where bytes of the stream are left, a frame is.
LEMMA FrameLeft ==
  ASSUME FrameInv, NEW F, NEW e, NEW G, NEW g, NEW n, NEW p, Placed(F, e, G, g, n, p),
         e[n] < Reached(p)
  PROVE  n < g
  <1> SUFFICES ASSUME n = g PROVE FALSE
    BY PlacedTypes
  <1>1. /\ e[g] \in Nat /\ Reached(p) \in Nat /\ Reached(p) <= e[g]
    BY PlacedTypes
  <1> QED
    BY <1>1

\* A peer that uses octet counts sends nothing that is held back.
LEMMA OctetsAreClean ==
  ASSUME FrameInv, NEW F, NEW e, NEW G, NEW g, NEW n, NEW p, Placed(F, e, G, g, n, p)
  PROVE  /\ Octets => Clean(G, g)
         /\ ~Octets /\ n < g => G[n+1].style # "octet"
  <1>1. dialect \in Dialects /\ g \in Nat /\ n \in Nat
    BY PlacedTypes
  <1>2. \A i \in 1..g : G[i] \in dialect
    BY DEF Placed, Stream
  <1>3. Octets => Clean(G, g)
    <2>1. Octets => ~\E f \in dialect : HeldBack(f)
      BY <1>1, FrameAssumption, Zenon DEF Octets
    <2> QED
      BY <1>2, <2>1, Zenon DEF Clean
  <1>4. n < g => G[n+1] \in dialect
    BY NextFrame
  <1> QED
    BY <1>3, <1>4, Zenon DEF Octets

\* What is in pending, or is read with ReadSlice, begins a delimited frame.
LEMMA LineInPending ==
  ASSUME FrameInv, NEW F, NEW e, NEW G, NEW g, NEW n, NEW p, Placed(F, e, G, g, n, p),
         \/ loc = "top" /\ pending # <<>>
         \/ loc = "slice" /\ (pending # <<>> \/ buf # <<>>)
  PROVE  LineNext(G, g, n)
  <1>1. /\ n \in Nat /\ g \in Nat /\ p \in Nat /\ e[n] \in Nat /\ e[n] <= p
        /\ Len(pending) \in Nat /\ Len(buf) \in Nat /\ Len(wire) \in Nat
        /\ pending \in Seq(Byte) /\ buf \in Seq(Byte)
        /\ Reached(p) = p + Len(buf) + Len(wire)
    BY PlacedTypes
  <1>2. Len(pending) = p - e[n]
    BY DEF Placed, Reading, AtTop, AtSlice, Holds
  <1>3. Len(pending) > 0 \/ Len(buf) > 0
    BY <1>1, EmptySeq
  <1>4. n < g
    BY <1>1, <1>2, <1>3, FrameLeft
  <1>5. CASE Octets
    BY <1>5 DEF Placed, Reading, AtTop, AtSlice, Behind
  <1>6. CASE ~Octets
    BY <1>4, <1>6, OctetsAreClean DEF LineNext
  <1> QED
    BY <1>5, <1>6

-----------------------------------------------------------------------------
(* Taking bytes from the bufio.Reader.                                     *)

\* m bytes are taken from buf.
Taken(m) ==
    /\ m \in 0..Len(buf)
    /\ Len(buf') = Len(buf) - m
    /\ \A i \in 1..Len(buf) - m : buf'[i] = buf[m+i]

LEMMA TakenArrived ==
  ASSUME FrameInv, NEW F, NEW e, NEW G, NEW g, NEW n, NEW p, Placed(F, e, G, g, n, p),
         NEW m, Taken(m), UNCHANGED <<peer, sent, wire>>
  PROVE  /\ Arrived(F, e, G, g, p + m)' /\ m \in Nat /\ p + m \in Nat
         /\ Reached(p + m)' = Reached(p) /\ p + m <= Reached(p)
  <1>1. /\ Len(buf) \in Nat /\ Len(wire) \in Nat /\ p \in Nat
        /\ Reached(p) = p + Len(buf) + Len(wire)
    BY PlacedTypes
  <1>2. /\ m \in 0..Len(buf) /\ m \in Nat /\ Len(buf') = Len(buf) - m
        /\ \A i \in 1..Len(buf) - m : buf'[i] = buf[m+i]
    BY <1>1 DEF Taken
  <1>3. Arrived(F, e, G, g, p)
    BY DEF Placed
  <1>4. Reached(p + m)' = Reached(p) /\ p + m <= Reached(p)
    BY <1>1, <1>2 DEF Reached
  <1>5. ASSUME NEW i \in 1..Len(buf') PROVE buf'[i] = F[p + m + i]
    <2>1. m + i \in 1..Len(buf) /\ p + (m + i) = p + m + i /\ i \in 1..Len(buf) - m
      BY <1>1, <1>2
    <2> QED
      BY <1>2, <1>3, <2>1 DEF Arrived
  <1>6. ASSUME NEW i \in 1..Len(wire') PROVE wire'[i] = F[p + m + Len(buf') + i]
    <2>1. p + m + Len(buf') + i = p + Len(buf) + i
      BY <1>1, <1>2
    <2> QED
      BY <1>3, <2>1 DEF Arrived
  <1>7. Arrived(F, e, G, g, p + m)'
    BY <1>3, <1>4, <1>5, <1>6, Zenon DEF Arrived
  <1> QED
    BY <1>1, <1>2, <1>4, <1>7

LEMMA TakeOne ==
  ASSUME FrameInv, NEW F, NEW e, NEW G, NEW g, NEW n, NEW p, Placed(F, e, G, g, n, p),
         buf # <<>>, buf' = Tail(buf)
  PROVE  /\ Taken(1) /\ Head(buf) = F[p+1] /\ p < Reached(p)
  <1>1. /\ buf \in Seq(Byte) /\ Len(buf) \in Nat /\ Len(wire) \in Nat /\ p \in Nat
        /\ Reached(p) = p + Len(buf) + Len(wire)
    BY PlacedTypes
  <1>2. /\ Len(buf) \in Nat \ {0} /\ Len(buf') = Len(buf) - 1
        /\ \A i \in 1..Len(buf) - 1 : buf'[i] = buf[i+1]
    BY <1>1, EmptySeq, HeadTailProperties
  <1>3. Head(buf) = buf[1]
    BY <1>1
  <1>4. Taken(1)
    BY <1>2 DEF Taken
  <1>5. buf[1] = F[p+1]
    BY <1>2 DEF Placed, Arrived
  <1> QED
    BY <1>1, <1>2, <1>3, <1>4, <1>5

LEMMA TakeSome ==
  ASSUME FrameInv, NEW m \in 0..Len(buf), buf' = Drop(buf, m)
  PROVE  Taken(m)
  BY Suffix DEF Taken, FrameInv, TypeOK

LEMMA TakeNone ==
  ASSUME FrameInv, UNCHANGED buf
  PROVE  Taken(0)
  <1>1. Len(buf) \in Nat
    BY LenProperties DEF FrameInv, TypeOK
  <1> QED
    BY <1>1 DEF Taken

\* A step of next leaves the stream as it is.
LEMMA StillPlaced ==
  ASSUME FrameInv, NEW F, NEW e, NEW G, NEW g, NEW n, NEW p, Placed(F, e, G, g, n, p),
         NEW m, Taken(m), UNCHANGED <<dialect, peer, sent, wire>>, loc' \notin Ended,
         NEW k, e[k] <= p + m, Settled(k)', Reading(F, e, G, g, k, p + m)'
  PROVE  Placed(F, e, G, g, k, p + m)'
  <1>1. Arrived(F, e, G, g, p + m)' /\ p + m \in Nat
    BY TakenArrived
  <1>2. Stream(F, e, G, g)'
    BY DEF Placed, Stream
  <1>3. F \in [Nat -> Byte] /\ e \in [Nat -> Nat] /\ g \in Nat
    BY PlacedTypes
  <1> QED
    BY <1>1, <1>2, <1>3, Zenon DEF Placed, Ended

LEMMA SamePlace ==
  ASSUME FrameInv, NEW F, NEW e, NEW G, NEW g, NEW n, NEW p, Placed(F, e, G, g, n, p),
         UNCHANGED <<dialect, peer, sent, wire, buf>>, loc' \notin Ended,
         NEW k, e[k] <= p, Settled(k)', Reading(F, e, G, g, k, p)'
  PROVE  \E j, q : Placed(F, e, G, g, j, q)'
  <1>1. p \in Nat /\ p + 0 = p
    <2>1. p \in Nat
      BY PlacedTypes, Zenon
    <2> QED
      BY <2>1
  <1>2. Taken(0)
    BY TakeNone
  <1>3. e[k] <= p + 0 /\ Reading(F, e, G, g, k, p + 0)'
    BY <1>1
  <1>4. Placed(F, e, G, g, k, p + 0)'
    BY <1>2, <1>3, StillPlaced
  <1> QED
    BY <1>4

\* A delimited frame is in the stream as a line.
LEMMA NextLine ==
  ASSUME FrameInv, NEW F, NEW e, NEW G, NEW g, NEW n, NEW p, Placed(F, e, G, g, n, p),
         LineNext(G, g, n)
  PROVE  /\ n < g /\ e[n] \in Nat /\ e[n+1] \in Nat /\ e[n] < e[n+1]
         /\ e[n+1] = e[n] + Size(G[n+1]) + 1 /\ Size(G[n+1]) \in Nat
         /\ \A i \in 1..Size(G[n+1]) : F[e[n] + i] = G[n+1].body[i]
         /\ F[e[n+1]] \in {LF, NUL}
         /\ ~HeldBack(G[n+1]) => F[e[n+1]] = LF
         /\ \A i \in e[n] + 1 .. e[n+1] - 1 : F[i] \notin {LF, NUL}
  <1>1. n < g /\ G[n+1].style # "octet"
    BY DEF LineNext
  <1>2. /\ e[n] \in Nat /\ e[n+1] \in Nat /\ F \in [Nat -> Byte]
        /\ e[n] < e[n+1] /\ dialect \in Dialects /\ G[n+1] \in dialect
        /\ FrameAt(F, e[n], e[n+1], G[n+1])
    BY <1>1, PlacedTypes, NextFrame, Zenon
  <1>3. Size(G[n+1]) \in Nat
    BY <1>2, FrameTypes
  <1> QED
    BY <1>1, <1>2, <1>3, LinePlace

\* What holds no delimiter ends before the line does.
LEMMA LineGoesOn ==
  ASSUME FrameInv, NEW F, NEW e, NEW G, NEW g, NEW n, NEW p, Placed(F, e, G, g, n, p),
         LineNext(G, g, n), NEW s \in Seq(Byte), NEW q \in Nat, Holds(F, s, e[n], q),
         Delims(s) = {}
  PROVE  q < e[n+1]
  <1>1. PICK a \in Nat, b \in Nat : a = e[n] /\ b = e[n+1] /\ a < b /\ F[b] \in {LF, NUL}
    <2>1. e[n] \in Nat /\ e[n+1] \in Nat /\ e[n] < e[n+1] /\ F[e[n+1]] \in {LF, NUL}
      BY NextLine
    <2> QED
      BY <2>1, Zenon
  <1>2. PICK l \in Nat : /\ l = Len(s) /\ l = q - a
                         /\ \A i \in 1..l : s[i] = F[a+i]
    BY <1>1, LenProperties DEF Holds
  <1>3. SUFFICES ASSUME b <= q PROVE FALSE
    BY <1>1
  <1>4. b - a \in 1..l /\ a + (b - a) = b
    BY <1>1, <1>2, <1>3
  <1>5. s[b-a] \in {LF, NUL}
    BY <1>1, <1>2, <1>4
  <1> QED
    BY <1>2, <1>4, <1>5 DEF Delims

\* The first delimiter in pending ends the next frame.
LEMMA LineEnds ==
  ASSUME FrameInv, NEW F, NEW e, NEW G, NEW g, NEW n, NEW p, Placed(F, e, G, g, n, p),
         LineNext(G, g, n), Holds(F, pending, e[n], p),
         NEW i \in Delims(pending), \A j \in Delims(pending) : i <= j
  PROVE  /\ e[n] + i = e[n+1] /\ i = Size(G[n+1]) + 1
         /\ e[n+1] <= p /\ n < Len(sent) /\ G[n+1] = sent[n+1]
  <1>1. PICK a \in Nat, b \in Nat :
            /\ a = e[n] /\ b = e[n+1] /\ a < b /\ F[b] \in {LF, NUL}
            /\ \A j \in a+1..b-1 : F[j] \notin {LF, NUL}
    <2>1. /\ e[n] \in Nat /\ e[n+1] \in Nat /\ e[n] < e[n+1]
          /\ F[e[n+1]] \in {LF, NUL}
          /\ \A j \in e[n] + 1 .. e[n+1] - 1 : F[j] \notin {LF, NUL}
      BY NextLine
    <2> QED
      BY <2>1, Zenon
  <1>2. PICK l \in Nat : /\ l = Len(pending) /\ l = p - a
                         /\ \A j \in 1..l : pending[j] = F[a+j]
    BY <1>1, PlacedTypes, Zenon DEF Holds
  <1>3. i \in 1..l /\ pending[i] \in {LF, NUL} /\ p \in Nat
    BY <1>2, PlacedTypes DEF Delims
  <1>4. F[a+i] \in {LF, NUL}
    BY <1>2, <1>3
  <1>5. ~(a + i < b)
    <2> SUFFICES ASSUME a + i < b PROVE FALSE
      OBVIOUS
    <2>1. a + i \in a+1..b-1
      BY <1>1, <1>2, <1>3
    <2> QED
      BY <1>1, <1>4, <2>1, Zenon
  <1>6. ~(b < a + i)
    <2> SUFFICES ASSUME b < a + i PROVE FALSE
      OBVIOUS
    <2>1. b - a \in 1..l /\ a + (b - a) = b /\ b - a < i
      BY <1>1, <1>2, <1>3
    <2>2. pending[b-a] \in {LF, NUL}
      BY <1>1, <1>2, <2>1
    <2>3. b - a \in Delims(pending)
      BY <1>2, <2>1, <2>2, Zenon DEF Delims
    <2> QED
      BY <1>3, <2>1, <2>3
  <1>7. a + i = b /\ b <= p
    BY <1>1, <1>2, <1>3, <1>5, <1>6
  <1>8. i = Size(G[n+1]) + 1
    <2>1. e[n+1] = e[n] + Size(G[n+1]) + 1 /\ Size(G[n+1]) \in Nat
      BY NextLine
    <2> QED
      BY <1>1, <1>3, <1>7, <2>1
  <1>9. e[n+1] <= Reached(p)
    <2>1. PICK x \in Nat, y \in Nat : Reached(p) = p + x + y
      BY PlacedTypes, Zenon
    <2> QED
      BY <1>1, <1>3, <1>7, <2>1
  <1> QED
    BY <1>1, <1>7, <1>8, <1>9, LineInPending, NextFrame DEF LineNext

-----------------------------------------------------------------------------
(* Steps of next, in the stream.                                           *)

\* The frame next has taken from pending is settled, whatever comes after it.
LEMMA AfterLine ==
  ASSUME FrameInv, NEW F, NEW e, NEW G, NEW g, NEW n, NEW p, Placed(F, e, G, g, n, p),
         n < g, UNCHANGED dialect, pending' \in Seq(Byte),
         NEW q \in Nat, Holds(F, pending, e[n+1], q)', e[n+1] <= q, Clean(G, g) => q <= e[n+1]
  PROVE  AtTop(F, e, G, g, n+1, q)'
  <1>1. n \in Nat /\ g \in Nat /\ e \in [Nat -> Nat]
    BY PlacedTypes, Zenon
  <1>2. ASSUME Clean(G, g), n + 1 < g PROVE q <= e[(n+1)+1]
    <2>1. n + 1 \in 0..g /\ (n + 1) + 1 \in 0..g /\ n + 1 < (n + 1) + 1
          /\ n + 1 \in Nat /\ (n + 1) + 1 \in Nat
      BY <1>1, <1>2
    <2>2. e[n+1] < e[(n+1)+1]
      BY <2>1, Zenon DEF Placed, Stream
    <2>3. e[n+1] \in Nat /\ e[(n+1)+1] \in Nat
      BY <1>1, <2>1
    <2> QED
      BY <1>1, <1>2, <2>2, <2>3
  <1>3. ASSUME Octets PROVE pending' = <<>>
    <2>1. e[n+1] \in Nat /\ Clean(G, g)
      BY <1>1, <1>3, OctetsAreClean
    <2>3. q - e[n+1] = 0
      BY <2>1
    <2>2. Len(pending') = 0
      BY <2>3, Zenon DEF Holds
    <2> QED
      BY <2>2, EmptySeq
  <1>4. Octets' <=> Octets
    BY DEF Octets
  <1> QED
    BY <1>2, <1>3, <1>4, Zenon DEF AtTop, Clean

LEMMA FreshTop ==
  ASSUME FrameInv, NEW F, NEW e, NEW G, NEW g, NEW n, NEW p, Placed(F, e, G, g, n, p),
         n < g, UNCHANGED dialect, pending' = <<>>
  PROVE  AtTop(F, e, G, g, n+1, e[n+1])'
  <1>1. e[n+1] \in Nat
    BY NextFrame
  <1>2. e[n+1] - e[n+1] = 0 /\ e[n+1] <= e[n+1]
    BY <1>1
  <1>3. pending' \in Seq(Byte) /\ Len(pending') = 0 /\ 1..0 = {}
    BY EmptyBytes
  <1>4. \A i \in 1..Len(pending') : pending'[i] = F[e[n+1] + i]
    BY <1>3, Zenon
  <1>5. Holds(F, pending, e[n+1], e[n+1])'
    BY <1>2, <1>3, <1>4, Zenon DEF Holds
  <1> QED
    BY <1>1, <1>2, <1>3, <1>5, AfterLine

LEMMA TakeFramePlaced ==
  ASSUME FrameInv, NEW F, NEW e, NEW G, NEW g, NEW n, NEW p, Placed(F, e, G, g, n, p), TakeFrame
  PROVE  \E k, q : Placed(F, e, G, g, k, q)'
  <1>1. PICK i \in Delims(pending) :
            /\ \A j \in Delims(pending) : i <= j
            /\ Settle(StripCR(SubSeq(pending, 1, i - 1)))
            /\ pending' = Drop(pending, i)
    BY DEF TakeFrame
  <1>2. /\ loc = "top" /\ loc' = "top"
        /\ UNCHANGED <<dialect, peer, sent, wire, buf>>
    BY <1>1 DEF TakeFrame, Settle, Enter
  <1>3. i \in 1..Len(pending) /\ pending \in Seq(Byte) /\ Len(pending) \in Nat
        /\ pending # <<>> /\ TypeOK
    BY PlacedTypes, EmptySeq DEF Delims
  <1>4. AtTop(F, e, G, g, n, p) /\ Holds(F, pending, e[n], p)
    BY <1>2 DEF Placed, Reading, AtTop
  <1>5. LineNext(G, g, n)
    BY <1>2, <1>3, LineInPending
  <1>6. /\ n < g /\ e[n] + i = e[n+1] /\ i = Size(G[n+1]) + 1
        /\ e[n+1] <= p /\ n < Len(sent) /\ G[n+1] = sent[n+1]
    BY <1>1, <1>4, <1>5, LineEnds DEF LineNext
  <1>7. PICK f \in dialect : f = G[n+1] /\ f.style # "octet"
    BY <1>5, <1>6, NextFrame DEF LineNext
  <1>8. /\ dialect \in Dialects /\ e[n] \in Nat /\ p \in Nat
        /\ \A j \in 1..Len(pending) : pending[j] = F[e[n] + j]
        /\ Len(pending) = p - e[n]
    BY <1>4, PlacedTypes, Zenon DEF Holds
  <1>9. SubSeq(pending, 1, i - 1) = f.body
    <2>1. PICK body \in Seq(Byte) : body = f.body /\ Len(body) = Size(f) /\ Size(f) \in Nat
      BY <1>8, FrameTypes DEF Size
    <2>2. i - 1 \in 0..Len(pending) /\ i - 1 = Len(body)
          /\ \A j \in 1..i-1 : j \in 1..Len(pending)
      BY <1>3, <1>6, <1>7, <2>1
    <2>3. \A j \in 1..i-1 : F[e[n] + j] = body[j]
      BY <1>5, <1>7, <2>1, <2>2, NextLine
    <2>4. /\ SubSeq(pending, 1, i - 1) \in Seq(Byte) /\ Len(SubSeq(pending, 1, i - 1)) = Len(body)
          /\ \A j \in 1..i-1 : SubSeq(pending, 1, i - 1)[j] = pending[j]
      BY <1>3, <2>2, Prefix
    <2>5. \A j \in 1..Len(body) : SubSeq(pending, 1, i - 1)[j] = body[j]
      BY <1>8, <2>2, <2>3, <2>4
    <2>6. SubSeq(pending, 1, i - 1) = body
      BY <2>1, <2>4, <2>5, SeqEqual
    <2> QED
      BY <2>1, <2>6
  <1>10. Settle(Message(sent[n+1]))
    BY <1>1, <1>6, <1>7, <1>9 DEF Message
  <1>11. Settled(n)
    BY DEF Placed
  <1>12. Settled(n+1)'
    BY <1>2, <1>3, <1>6, <1>10, <1>11, MessageSettled
  <1>13. pending' \in Seq(Byte) /\ Holds(F, pending, e[n+1], p)'
    <2>1. /\ pending' \in Seq(Byte) /\ Len(pending') = Len(pending) - i
          /\ \A j \in 1..Len(pending) - i : pending'[j] = pending[i+j]
      <3>1. i \in 0..Len(pending)
        BY <1>3
      <3> QED
        BY <1>1, <1>3, <3>1, Suffix, Zenon
    <2>2. PICK l \in Nat, a \in Nat : /\ l = Len(pending) /\ a = e[n] /\ l = p - a
                                      /\ \A j \in 1..l : pending[j] = F[a+j]
      BY <1>3, <1>8
    <2>3. i \in 1..l /\ a + i = e[n+1] /\ Len(pending') = l - i /\ l - i = p - e[n+1]
      BY <1>3, <1>6, <1>8, <2>1, <2>2
    <2>4. ASSUME NEW j \in 1..l-i PROVE pending'[j] = F[e[n+1] + j]
      <3>1. i + j \in 1..l /\ a + (i + j) = (a + i) + j /\ j \in 1..Len(pending) - i
        BY <2>2, <2>3
      <3>2. pending'[j] = pending[i+j]
        BY <2>1, <3>1, Zenon
      <3>3. pending[i+j] = F[a + (i + j)]
        BY <2>2, <3>1, Zenon
      <3> QED
        BY <2>3, <3>1, <3>2, <3>3, Zenon
    <2> QED
      BY <2>1, <2>3, <2>4, Zenon DEF Holds
  <1>14. Clean(G, g) => p <= e[n+1]
    BY <1>4, <1>6 DEF AtTop
  <1>15. AtTop(F, e, G, g, n+1, p)'
    BY <1>2, <1>6, <1>8, <1>13, <1>14, AfterLine
  <1>16. Reading(F, e, G, g, n+1, p)' /\ loc' \notin Ended
    BY <1>2, <1>15 DEF Reading, Ended
  <1> QED
    BY <1>2, <1>6, <1>12, <1>16, SamePlace

LEMMA StartDiscardingPlaced ==
  ASSUME FrameInv, NEW F, NEW e, NEW G, NEW g, NEW n, NEW p, Placed(F, e, G, g, n, p),
         StartDiscarding
  PROVE  \E k, q : Placed(F, e, G, g, k, q)'
  <1>1. /\ loc = "top" /\ loc' = "flush" /\ Delims(pending) = {} /\ Len(pending) > Max
        /\ UNCHANGED <<dialect, peer, sent, wire, buf, out>>
    BY DEF StartDiscarding, Enter
  <1>2. Holds(F, pending, e[n], p)
    BY <1>1 DEF Placed, Reading, AtTop
  <1>3. pending \in Seq(Byte) /\ pending # <<>>
    BY <1>1, PlacedTypes, EmptySeq, Constants
  <1>4. LineNext(G, g, n)
    BY <1>1, <1>3, LineInPending
  <1>5. p < e[n+1] /\ e[n] <= p
    BY <1>1, <1>2, <1>3, <1>4, PlacedTypes, LineGoesOn
  <1>6. p - e[n] > Max
    BY <1>1, <1>2 DEF Holds
  <1>7. Settled(n)'
    BY <1>1, StillSettled DEF Placed
  <1>8. Reading(F, e, G, g, n, p)' /\ loc' \notin Ended
    BY <1>1, <1>4, <1>5, <1>6 DEF Reading, Within, AtFlush, LineNext, Ended
  <1> QED
    BY <1>1, <1>5, <1>7, <1>8, SamePlace

LEMMA StartReadingPlaced ==
  ASSUME FrameInv, NEW F, NEW e, NEW G, NEW g, NEW n, NEW p, Placed(F, e, G, g, n, p),
         StartReading
  PROVE  \E k, q : Placed(F, e, G, g, k, q)'
  <1>1. /\ loc = "top" /\ Delims(pending) = {}
        /\ loc' = (IF pending = <<>> THEN "peek" ELSE "slice")
        /\ UNCHANGED <<dialect, peer, sent, wire, buf, pending, out>>
    BY DEF StartReading, Enter
  <1>2. Holds(F, pending, e[n], p)
    BY <1>1 DEF Placed, Reading, AtTop
  <1>3. pending \in Seq(Byte) /\ e[n] <= p /\ e[n] \in Nat /\ p \in Nat
    BY PlacedTypes
  <1>4. Settled(n)'
    BY <1>1, StillSettled DEF Placed
  <1>5. Reading(F, e, G, g, n, p)' /\ loc' \notin Ended
    <2>1. CASE pending = <<>>
      <3>1. p - e[n] = 0
        BY <1>2, <2>1, EmptyBytes DEF Holds
      <3>2. p = e[n]
        BY <1>3, <3>1
      <3> QED
        BY <1>1, <2>1, <3>2 DEF Reading, Ended
    <2>2. CASE pending # <<>>
      <3>1. LineNext(G, g, n)
        BY <1>1, <2>2, LineInPending
      <3>2. p < e[n+1]
        BY <1>1, <1>2, <1>3, <3>1, LineGoesOn
      <3>3. AtSlice(F, e, G, g, n, p)'
        BY <1>1, <1>2, <3>1, <3>2 DEF AtSlice, Holds
      <3> QED
        BY <1>1, <2>2, <3>3 DEF Reading, Ended
    <2> QED
      BY <2>1, <2>2
  <1> QED
    BY <1>1, <1>3, <1>4, <1>5, SamePlace

LEMMA FlushPlaced ==
  ASSUME FrameInv, NEW F, NEW e, NEW G, NEW g, NEW n, NEW p, Placed(F, e, G, g, n, p), Flush
  PROVE  \E k, q : Placed(F, e, G, g, k, q)'
  <1>1. /\ loc = "flush" /\ buf # <<>> /\ buf' = Tail(buf)
        /\ UNCHANGED <<dialect, peer, sent, wire, pending>>
        /\ \/ Head(buf) \notin {LF, NUL} /\ loc' = "flush" /\ UNCHANGED out
           \/ /\ Head(buf) \in {LF, NUL} /\ out' = Append(out, Oversized) /\ loc' = "top"
    BY DEF Flush, Enter
  <1>2. /\ TypeOK /\ pending = <<>> /\ Settled(n)
        /\ Within(e, g, n, p) /\ AtFlush(e, G, n, p)
    BY <1>1 DEF FrameInv, ReadsBounded, Placed, Reading
  <1>3. LineNext(G, g, n)
    BY <1>2 DEF Within, AtFlush, LineNext
  <1>4. PICK a \in Nat, b \in Nat, s \in Nat :
            /\ a = e[n] /\ b = e[n+1] /\ b = a + s + 1 /\ s = Size(G[n+1])
            /\ F[b] \in {LF, NUL} /\ \A j \in a+1..b-1 : F[j] \notin {LF, NUL}
    BY <1>3, NextLine
  <1>5. p \in Nat /\ a <= p /\ p < b /\ p - a > Max /\ Max \in Nat
    BY <1>2, <1>4, PlacedTypes, Constants DEF Within, AtFlush
  <1>6. Taken(1) /\ Head(buf) = F[p+1] /\ p + 1 <= Reached(p)
    <2>1. Reached(p) \in Nat
      BY PlacedTypes, Zenon
    <2> QED
      BY <1>1, <1>5, <2>1, TakeOne
  <1>7. CASE Head(buf) \notin {LF, NUL}
    <2>1. loc' = "flush" /\ UNCHANGED out
      BY <1>1, <1>7
    <2>2. p + 1 # b
      BY <1>4, <1>6, <1>7
    <2>3. p + 1 < b /\ a <= p + 1 /\ (p + 1) - a > Max
      BY <1>4, <1>5, <2>2
    <2>4. Reading(F, e, G, g, n, p + 1)' /\ loc' \notin Ended
      BY <1>2, <1>4, <2>1, <2>3 DEF Reading, Within, AtFlush, Ended
    <2>5. Settled(n)'
      BY <1>1, <1>2, <2>1, StillSettled
    <2>6. Placed(F, e, G, g, n, p + 1)'
      BY <1>1, <1>4, <1>6, <2>3, <2>4, <2>5, StillPlaced
    <2> QED
      BY <2>6
  <1>8. CASE Head(buf) \in {LF, NUL}
    <2>1. loc' = "top" /\ out' = Append(out, Oversized)
      BY <1>1, <1>8
    <2>2. ~(p + 1 < b)
      <3> SUFFICES ASSUME p + 1 < b PROVE FALSE
        OBVIOUS
      <3>1. p + 1 \in a+1..b-1
        BY <1>4, <1>5
      <3> QED
        BY <1>4, <1>6, <1>8, <3>1, Zenon
    <2>3. p + 1 = b /\ s > Max
      BY <1>4, <1>5, <2>2
    <2>4. n < g /\ e[n+1] <= Reached(p)
      BY <1>2, <1>4, <1>6, <2>3 DEF Within
    <2>5. n < Len(sent) /\ G[n+1] = sent[n+1]
      BY <2>4, NextFrame
    <2>6. Settled(n+1)'
      BY <1>1, <1>2, <1>4, <2>1, <2>3, <2>5, OversizedSettled
    <2>7. AtTop(F, e, G, g, n+1, p + 1)'
      BY <1>1, <1>2, <1>4, <2>3, <2>4, FreshTop
    <2>8. Reading(F, e, G, g, n+1, p + 1)' /\ loc' \notin Ended
      BY <2>1, <2>7 DEF Reading, Ended
    <2>9. e[n+1] <= p + 1
      BY <1>4, <2>3
    <2>10. Placed(F, e, G, g, n+1, p + 1)'
      BY <1>1, <1>6, <2>6, <2>8, <2>9, StillPlaced
    <2> QED
      BY <2>10
  <1> QED
    BY <1>7, <1>8

\* Where buf holds a byte, a frame is left, and the byte is one of it.
LEMMA ByteOfFrame ==
  ASSUME FrameInv, NEW F, NEW e, NEW G, NEW g, NEW n, NEW p, Placed(F, e, G, g, n, p),
         buf # <<>>
  PROVE  Head(buf) = F[p+1] /\ p + 1 <= Reached(p) /\ n < g
  <1>1. /\ buf \in Seq(Byte) /\ p \in Nat /\ e[n] \in Nat /\ e[n] <= p
    BY PlacedTypes, Zenon
  <1>2. Len(buf) \in Nat \ {0} /\ Head(buf) = buf[1]
    BY <1>1, EmptySeq
  <1>3. buf[1] = F[p+1]
    BY <1>2 DEF Placed, Arrived
  <1>4. PICK x \in Nat, y \in Nat : Reached(p) = p + x + y /\ x >= 1
    BY <1>2, PlacedTypes
  <1>5. p + 1 <= Reached(p) /\ e[n] < Reached(p)
    BY <1>1, <1>4
  <1> QED
    BY <1>2, <1>3, <1>5, FrameLeft

LEMMA PeekPlaced ==
  ASSUME FrameInv, NEW F, NEW e, NEW G, NEW g, NEW n, NEW p, Placed(F, e, G, g, n, p), Peek
  PROVE  \E k, q : Placed(F, e, G, g, k, q)'
  <1>1. /\ loc = "peek" /\ buf # <<>> /\ held' = <<>> /\ count' = 0
        /\ loc' = (IF IsDigit(Head(buf)) THEN "probe" ELSE "slice")
        /\ UNCHANGED <<dialect, peer, sent, wire, buf, pending, out>>
    BY DEF Peek, Enter
  <1>2. /\ pending = <<>> /\ Settled(n) /\ p = e[n]
    BY <1>1 DEF FrameInv, ReadsBounded, Placed, Reading
  <1>3. Head(buf) = F[e[n] + 1] /\ n < g
    BY <1>1, <1>2, ByteOfFrame
  <1>4. /\ e[n] \in Nat /\ e[n+1] \in Nat /\ e[n] < e[n+1] /\ F \in [Nat -> Byte]
        /\ dialect \in Dialects /\ G[n+1] \in dialect /\ FrameAt(F, e[n], e[n+1], G[n+1])
    BY <1>3, PlacedTypes, NextFrame
  <1>5. p - e[n] = 0 /\ e[n] <= p /\ p < e[n+1]
    BY <1>2, <1>4
  <1>6. Settled(n)'
    BY <1>1, <1>2, StillSettled
  <1>7. \A s : s = <<>> => Holds(F, s, e[n], p)
    <2>1. Len(<<>>) = 0 /\ \A i \in 1..0 : FALSE
      BY EmptyBytes
    <2> QED
      BY <1>5, <2>1 DEF Holds
  <1>8. CASE IsDigit(Head(buf))
    <2>1. loc' = "probe"
      BY <1>1, <1>8
    <2>2. ASSUME G[n+1].style = "octet"
          PROVE  \E h \in 1..MaxDigits : \E v \in [0..h -> 0..Size(G[n+1])] :
                     /\ Header(F, e[n], G[n+1], h, v)
                     /\ e[n+1] = e[n] + h + 1 + Size(G[n+1])
                     /\ Len(held') <= h /\ count' = v[Len(held')]
      <3>1. PICK h \in 1..MaxDigits : \E v \in [0..h -> 0..Size(G[n+1])] :
                Header(F, e[n], G[n+1], h, v) /\ e[n+1] = e[n] + h + 1 + Size(G[n+1])
        BY <1>4, <2>2, CountPlace
      <3>2. PICK v \in [0..h -> 0..Size(G[n+1])] :
                Header(F, e[n], G[n+1], h, v) /\ e[n+1] = e[n] + h + 1 + Size(G[n+1])
        BY <3>1
      <3>3. Len(held') = 0 /\ 0 <= h /\ v[0] = 0
        BY <1>1, <3>2, EmptyBytes, Constants DEF Header
      <3> QED
        BY <1>1, <3>2, <3>3
    <2>3. AtProbe(F, e, G, n, p)'
      <3>1. IsDigit(F[e[n] + 1]) /\ Holds(F, held', e[n], p)
        BY <1>1, <1>3, <1>7, <1>8
      <3>2. \A i \in 1..Len(held') : IsDigit(held'[i])
        BY <1>1, EmptyBytes
      <3> QED
        BY <2>2, <3>1, <3>2 DEF AtProbe, Holds
    <2>4. Reading(F, e, G, g, n, p)' /\ loc' \notin Ended
      BY <1>3, <1>5, <2>1, <2>3 DEF Reading, Within, Ended
    <2> QED
      BY <1>1, <1>5, <1>6, <2>4, SamePlace
  <1>9. CASE ~IsDigit(Head(buf))
    <2>1. loc' = "slice"
      BY <1>1, <1>9
    <2>2. G[n+1].style # "octet"
      <3>1. PICK f \in dialect : f = G[n+1]
        BY <1>4
      <3>2. FrameAt(F, e[n], e[n+1], f) /\ ~IsDigit(F[e[n] + 1])
        BY <1>3, <1>4, <1>9, <3>1, Zenon
      <3>3. f.style # "octet"
        BY <1>4, <3>2, CountPlace
      <3> QED
        BY <3>1, <3>3
    <2>3. AtSlice(F, e, G, g, n, p)'
      <3>1. Holds(F, pending', e[n], p)
        BY <1>1, <1>2, <1>7
      <3> QED
        BY <1>3, <1>5, <2>2, <3>1 DEF AtSlice, Holds, LineNext
    <2>4. Reading(F, e, G, g, n, p)' /\ loc' \notin Ended
      BY <2>1, <2>3 DEF Reading, Ended
    <2> QED
      BY <1>1, <1>5, <1>6, <2>4, SamePlace
  <1> QED
    BY <1>8, <1>9

\* A reader that has not found a byte to look at reads on as if there were none
\* to come, or has passed a boundary without looking.
LEMMA PeekFailsPlaced ==
  ASSUME FrameInv, NEW F, NEW e, NEW G, NEW g, NEW n, NEW p, Placed(F, e, G, g, n, p),
         PeekFails
  PROVE  \/ (skipped /\ Octets)'
         \/ \E k, q : Placed(F, e, G, g, k, q)'
  <1>1. /\ loc = "peek" /\ buf = <<>> /\ (TimedOut \/ PeerGone) /\ loc' = "slice"
        /\ skipped' = (skipped \/ TimedOut)
        /\ UNCHANGED <<dialect, peer, sent, wire, buf, pending, out>>
    BY DEF PeekFails, Enter, TimedOut, PeerGone, Starved
  <1>2. /\ pending = <<>> /\ Settled(n) /\ p = e[n] /\ skipped \in BOOLEAN
    BY <1>1 DEF FrameInv, TypeOK, ReadsBounded, Placed, Reading
  <1>3. CASE TimedOut /\ Octets
    BY <1>1, <1>2, <1>3 DEF Octets
  <1>4. CASE ~(TimedOut /\ Octets)
    <2>1. e[n] \in Nat /\ p - e[n] = 0 /\ e[n] <= p
      <3>1. e[n] \in Nat
        BY PlacedTypes, Zenon
      <3> QED
        BY <1>2, <3>1
    <2>2. Holds(F, pending', e[n], p)
      <3>1. Len(<<>>) = 0 /\ \A i \in 1..0 : FALSE
        BY EmptyBytes
      <3> QED
        BY <1>1, <1>2, <2>1, <3>1 DEF Holds
    <2>3. n < g => p < e[n+1]
      BY <1>2, NextFrame
    <2>4. Octets => (Behind /\ pending = <<>>)'
      BY <1>1, <1>2, <1>4 DEF PeerGone, Behind
    <2>5. AtSlice(F, e, G, g, n, p)'
      <3>1. Holds(F, pending, e[n], p)'
        BY <2>2 DEF Holds
      <3>2. Octets' <=> Octets
        BY <1>1 DEF Octets
      <3> QED
        BY <2>3, <2>4, <3>1, <3>2, Zenon DEF AtSlice
    <2>6. Reading(F, e, G, g, n, p)' /\ loc' \notin Ended
      BY <1>1, <2>5 DEF Reading, Ended
    <2>7. Settled(n)'
      BY <1>1, <1>2, StillSettled
    <2> QED
      BY <1>1, <2>1, <2>6, <2>7, SamePlace
  <1> QED
    BY <1>3, <1>4

-----------------------------------------------------------------------------
(* Steps of tryOctetCounted, in the stream.                                *)

LEMMA NotDigits == ~IsDigit(SP) /\ ~IsDigit(LF) /\ ~IsDigit(NUL) /\ SP \notin {LF, NUL}
  BY DEF IsDigit, SP, LF, NUL

LEMMA Probing ==
  ASSUME FrameInv, NEW F, NEW e, NEW G, NEW g, NEW n, NEW p, Placed(F, e, G, g, n, p),
         loc = "probe", buf # <<>>
  PROVE  /\ n < g /\ p < e[n+1] /\ pending = <<>> /\ Settled(n)
         /\ Head(buf) = F[p+1] /\ p + 1 <= Reached(p)
         /\ Holds(F, held, e[n], p) /\ AtProbe(F, e, G, n, p)
  <1>1. /\ pending = <<>> /\ Settled(n) /\ Within(e, g, n, p) /\ AtProbe(F, e, G, n, p)
    BY DEF FrameInv, ReadsBounded, Placed, Reading
  <1> QED
    BY <1>1, ByteOfFrame DEF Within, AtProbe

\* The probe has read l of the h digits of an octet count.
InCount(F, e, G, n, p, h, v, l) ==
    /\ Header(F, e[n], G[n+1], h, v)
    /\ e[n+1] = e[n] + h + 1 + Size(G[n+1])
    /\ l = Len(held) /\ p = e[n] + l /\ count = v[l]
    /\ IF l = h THEN Head(buf) = SP ELSE IsDigit(Head(buf))
    /\ l < h => v[l+1] = 10 * count + Head(buf)

\* In an octet count the probe meets its digits and then its space.
LEMMA ProbingCount ==
  ASSUME FrameInv, NEW F, NEW e, NEW G, NEW g, NEW n, NEW p, Placed(F, e, G, g, n, p),
         loc = "probe", buf # <<>>, G[n+1].style = "octet"
  PROVE  \E h \in 1..MaxDigits : \E v \in [0..h -> 0..Size(G[n+1])] : \E l \in 0..h :
             InCount(F, e, G, n, p, h, v, l)
  <1>1. /\ Head(buf) = F[p+1] /\ AtProbe(F, e, G, n, p) /\ Holds(F, held, e[n], p)
    BY Probing
  <1>2. PICK h \in 1..MaxDigits : \E v \in [0..h -> 0..Size(G[n+1])] :
            /\ Header(F, e[n], G[n+1], h, v)
            /\ e[n+1] = e[n] + h + 1 + Size(G[n+1])
            /\ Len(held) <= h /\ count = v[Len(held)]
    BY <1>1 DEF AtProbe
  <1>3. PICK v \in [0..h -> 0..Size(G[n+1])] :
            /\ Header(F, e[n], G[n+1], h, v)
            /\ e[n+1] = e[n] + h + 1 + Size(G[n+1])
            /\ Len(held) <= h /\ count = v[Len(held)]
    BY <1>2
  <1>4. PICK a \in Nat : a = e[n] /\ p \in Nat
    BY PlacedTypes, Zenon
  <1>11. PICK k \in Nat : k = Len(held)
    BY PlacedTypes, Zenon
  <1>12. k = p - a
    BY <1>1, <1>4, <1>11, Zenon DEF Holds
  <1>5. k <= h /\ count = v[k]
    BY <1>3, <1>11, Zenon
  <1>13. h \in Nat
    BY Constants
  <1>14. k \in 0..h /\ p = a + k
    BY <1>4, <1>5, <1>12, <1>13
  <1>6. PICK l \in 0..h : l = Len(held) /\ p = a + l /\ count = v[l]
    BY <1>5, <1>11, <1>14, Zenon
  <1>7. (l # h => l < h /\ l + 1 \in 1..h /\ (l + 1) - 1 = l) /\ l \in Nat
    BY <1>13
  <1>15. p = a + l
    BY <1>6, Zenon
  <1>17. l \in Nat
    BY <1>7
  <1>8. p + 1 = a + (l + 1) /\ a + (l + 1) = a + l + 1
    BY <1>15, <1>17
  <1>16. Head(buf) = F[a+(l+1)] /\ F[a+(l+1)] = F[a+l+1]
    BY <1>1, <1>8, Zenon
  <1>9. CASE l = h
    <2>1. F[a+h+1] = SP
      BY <1>3, <1>4, Zenon DEF Header
    <2>2. Head(buf) = SP
      BY <1>9, <1>16, <2>1, Zenon
    <2>3. ~(l < h)
      BY <1>9, <1>13
    <2> QED
      BY <1>3, <1>4, <1>6, <1>9, <2>2, <2>3, Zenon DEF InCount
  <1>10. CASE l # h
    <2>1. IsDigit(F[a+(l+1)]) /\ v[l+1] = 10 * v[(l+1)-1] + F[a+(l+1)]
      BY <1>3, <1>4, <1>7, <1>10, Zenon DEF Header
    <2>2. IsDigit(Head(buf)) /\ v[l+1] = 10 * count + Head(buf)
      BY <1>6, <1>7, <1>10, <1>16, <2>1, Zenon
    <2> QED
      BY <1>3, <1>4, <1>6, <1>10, <2>2, Zenon DEF InCount
  <1> QED
    BY <1>9, <1>10

\* In a line the probe meets no more than its digits.
LEMMA ProbingLine ==
  ASSUME FrameInv, NEW F, NEW e, NEW G, NEW g, NEW n, NEW p, Placed(F, e, G, g, n, p),
         loc = "probe", buf # <<>>, G[n+1].style # "octet"
  PROVE  /\ Head(buf) \notin {LF, NUL} => p + 1 < e[n+1]
         /\ ~(Head(buf) = SP /\ held # <<>>)
         /\ Clean(G, g) => p + 1 < e[n+1]
  <1>1. /\ n < g /\ p < e[n+1] /\ Head(buf) = F[p+1]
        /\ AtProbe(F, e, G, n, p) /\ Holds(F, held, e[n], p)
    BY Probing
  <1>2. LineNext(G, g, n)
    BY <1>1 DEF LineNext
  <1>3. PICK f \in dialect : f = G[n+1]
    BY <1>1, NextFrame
  <1>4. PICK a \in Nat, b \in Nat, s \in Nat :
            /\ a = e[n] /\ b = e[n+1] /\ s = Size(f) /\ b = a + s + 1
            /\ F[b] \in {LF, NUL}
            /\ \A i \in 1..s : F[a+i] = f.body[i]
            /\ \A i \in a+1..b-1 : F[i] \notin {LF, NUL}
    <2>1. /\ e[n] \in Nat /\ e[n+1] \in Nat /\ Size(f) \in Nat
          /\ e[n+1] = e[n] + Size(f) + 1
          /\ F[e[n+1]] \in {LF, NUL}
          /\ \A i \in 1..Size(f) : F[e[n] + i] = f.body[i]
          /\ \A i \in e[n]+1..e[n+1]-1 : F[i] \notin {LF, NUL}
      BY <1>2, <1>3, NextLine
    <2> QED
      BY <2>1, Zenon
  <1>11. PICK l \in Nat : l = Len(held)
    BY PlacedTypes, Zenon
  <1>5. l = p - a /\ \A i \in 1..l : held[i] = F[a+i] /\ IsDigit(held[i])
    BY <1>1, <1>4, <1>11, Zenon DEF Holds, AtProbe
  <1>12. p \in Nat
    BY PlacedTypes, Zenon
  <1>13. p < b
    BY <1>1, <1>4, Zenon
  <1>6. p \in Nat /\ a <= p /\ p < b /\ p = a + l
    BY <1>5, <1>12, <1>13
  <1>14. b = a + s + 1
    BY <1>4
  <1>7. ASSUME Head(buf) \notin {LF, NUL} PROVE p + 1 < b
    <2>1. p + 1 # b
      BY <1>1, <1>4, <1>7, Zenon
    <2> QED
      BY <1>6, <2>1
  <1>8. /\ f.style \in {"lf", "nul"} /\ WellFormed(f) /\ Size(f) = Len(f.body)
    BY <1>3, PlacedTypes, FrameTypes DEF Size
  <1>9. ASSUME Head(buf) = SP, held # <<>> PROVE FALSE
    <2>1. p + 1 < b
      BY <1>7, <1>9, NotDigits
    <2>2. held \in Seq(Byte)
      BY PlacedTypes, Zenon
    <2>3. l # 0
      BY <1>9, <1>11, <2>2, EmptySeq
    <2>4. l + 1 \in 2..s /\ a + (l + 1) = p + 1 /\ \A j \in 1..(l+1)-1 : j \in 1..l /\ j \in 1..s
      BY <1>6, <1>14, <2>1, <2>3
    <2>5. f.body[l+1] = SP
      <3>1. l + 1 \in 1..s
        BY <1>4, <1>5, <2>4
      <3> QED
        BY <1>1, <1>4, <1>9, <2>4, <3>1, Zenon
    <2>6. \A j \in 1..(l+1)-1 : IsDigit(f.body[j])
      BY <1>4, <1>5, <2>4, Zenon
    <2>7. ~\E i \in 2..s : f.body[i] = SP /\ \A j \in 1..i-1 : IsDigit(f.body[j])
      BY <1>4, <1>8 DEF WellFormed
    <2> QED
      BY <2>4, <2>5, <2>6, <2>7, Zenon
  <1>10. ASSUME Clean(G, g) PROVE p + 1 < b
    <2> SUFFICES ASSUME p + 1 = b PROVE FALSE
      BY <1>4, <1>6
    <2>1. n + 1 \in 1..g
      <3>1. n \in Nat /\ g \in Nat
        BY PlacedTypes, Zenon
      <3> QED
        BY <1>1, <3>1
    <2>2. ~HeldBack(f)
      BY <1>3, <1>10, <2>1 DEF Clean
    <2>3. s = l
      BY <1>6, <1>14
    <2>4. \A i \in 1..s : IsDigit(f.body[i])
      BY <1>4, <1>5, <2>3, Zenon
    <2>5. s # 0
      <3>1. IsDigit(F[a+1])
        BY <1>1, <1>4 DEF AtProbe
      <3>2. a + 1 # b
        BY <1>4, <3>1, NotDigits
      <3> QED
        BY <1>4, <3>2
    <2>6. f.body # <<>>
      BY <1>4, <1>8, <2>5, EmptyBytes
    <2> QED
      BY <1>4, <1>8, <2>2, <2>4, <2>6 DEF HeldBack
  <1> QED
    BY <1>4, <1>7, <1>9, <1>10

\* Adjacent parts of the stream.
LEMMA HoldsBoth ==
  ASSUME NEW F, NEW s \in Seq(Byte), NEW t \in Seq(Byte),
         NEW a \in Nat, NEW q \in Nat, NEW r \in Nat, Holds(F, s, a, q), Holds(F, t, q, r)
  PROVE  s \o t \in Seq(Byte) /\ Holds(F, s \o t, a, r)
  <1> DEFINE u == s \o t
  <1>1. /\ u \in Seq(Byte) /\ Len(u) = Len(s) + Len(t)
        /\ \A i \in 1..Len(s) + Len(t) : u[i] = IF i <= Len(s) THEN s[i] ELSE t[i - Len(s)]
    BY ConcatProperties
  <1>2. PICK k \in Nat, l \in Nat : k = Len(s) /\ l = Len(t)
    BY LenProperties
  <1> HIDE DEF u
  <1>3. /\ k = q - a /\ \A i \in 1..k : s[i] = F[a+i]
        /\ l = r - q /\ \A i \in 1..l : t[i] = F[q+i]
    BY <1>2, Zenon DEF Holds
  <1>4. Len(u) = r - a /\ Len(u) = k + l
    BY <1>1, <1>2, <1>3
  <1>5. ASSUME NEW i \in 1..k+l PROVE u[i] = F[a+i]
    <2>1. u[i] = IF i <= k THEN s[i] ELSE t[i-k]
      BY <1>1, <1>2
    <2>2. CASE i <= k
      <3>1. i \in 1..k
        BY <2>2
      <3> QED
        BY <1>3, <2>1, <2>2, <3>1
    <2>3. CASE ~(i <= k)
      <3>1. i - k \in 1..l /\ q + (i - k) = a + i
        BY <1>3, <2>3
      <3> QED
        BY <1>3, <2>1, <2>3, <3>1
    <2> QED
      BY <2>2, <2>3
  <1> QED
    BY <1>1, <1>4, <1>5 DEF Holds, u

LEMMA HoldsOne ==
  ASSUME NEW F, NEW b \in Byte, NEW q \in Nat, b = F[q+1]
  PROVE  <<b>> \in Seq(Byte) /\ Holds(F, <<b>>, q, q + 1)
  <1>1. <<b>> \in Seq(Byte) /\ Len(<<b>>) = 1 /\ <<b>>[1] = b
    OBVIOUS
  <1>2. (q + 1) - q = 1
    OBVIOUS
  <1>3. \A i \in 1..1 : <<b>>[i] = F[q+i]
    BY <1>1
  <1> QED
    BY <1>1, <1>2, <1>3 DEF Holds

\* What is buffered.
LEMMA HoldsBuffered ==
  ASSUME FrameInv, NEW F, NEW e, NEW G, NEW g, NEW n, NEW p, Placed(F, e, G, g, n, p),
         NEW m \in 0..Len(buf)
  PROVE  SubSeq(buf, 1, m) \in Seq(Byte) /\ Holds(F, SubSeq(buf, 1, m), p, p + m)
  <1>1. buf \in Seq(Byte) /\ Len(buf) \in Nat /\ p \in Nat
    BY PlacedTypes, Zenon
  <1>2. /\ SubSeq(buf, 1, m) \in Seq(Byte) /\ Len(SubSeq(buf, 1, m)) = m
        /\ \A i \in 1..m : SubSeq(buf, 1, m)[i] = buf[i]
    BY <1>1, Prefix
  <1>3. \A i \in 1..Len(buf) : buf[i] = F[p+i]
    BY DEF Placed, Arrived
  <1>4. (p + m) - p = m /\ \A i \in 1..m : i \in 1..Len(buf)
    BY <1>1
  <1> QED
    BY <1>2, <1>3, <1>4 DEF Holds

LEMMA ProbeDigitPlaced ==
  ASSUME FrameInv, NEW F, NEW e, NEW G, NEW g, NEW n, NEW p, Placed(F, e, G, g, n, p),
         ProbeDigit
  PROVE  \E k, q : Placed(F, e, G, g, k, q)'
  <1>1. /\ loc = "probe" /\ buf # <<>> /\ IsDigit(Head(buf)) /\ buf' = Tail(buf)
        /\ held' = Append(held, Head(buf)) /\ count' = 10 * count + Head(buf)
        /\ loc' = "probe" /\ UNCHANGED <<dialect, peer, sent, wire, pending, out>>
    BY DEF ProbeDigit, Enter
  <1>2. /\ n < g /\ p < e[n+1] /\ Settled(n)
        /\ Head(buf) = F[p+1] /\ p + 1 <= Reached(p)
        /\ Holds(F, held, e[n], p) /\ AtProbe(F, e, G, n, p)
    BY <1>1, Probing
  <1>3. /\ held \in Seq(Byte) /\ buf \in Seq(Byte) /\ p \in Nat /\ e[n] \in Nat /\ e[n] <= p
    BY PlacedTypes, Zenon
  <1>4. PICK b \in Byte : b = Head(buf)
    BY <1>1, <1>3, NotEmpty
  <1>5. PICK len \in Nat : len = Len(held)
    BY <1>3, LenProperties
  <1>6. /\ held' \in Seq(Byte) /\ Len(held') = len + 1
        /\ \A i \in 1..len : held'[i] = held[i]
        /\ held'[len+1] = b
    BY <1>1, <1>3, <1>4, <1>5, AppendProperties
  <1>7. Holds(F, held', e[n], p + 1)
    <2>1. held' = held \o <<b>>
      BY <1>1, <1>3, <1>4, AppendIsConcat
    <2>2. <<b>> \in Seq(Byte) /\ Holds(F, <<b>>, p, p + 1)
      BY <1>2, <1>3, <1>4, HoldsOne
    <2>3. p + 1 \in Nat
      BY <1>3
    <2> QED
      BY <1>2, <1>3, <2>1, <2>2, <2>3, HoldsBoth
  <1>8. \A i \in 1..Len(held') : IsDigit(held'[i])
    <2>1. \A i \in 1..len : IsDigit(held[i])
      BY <1>2, <1>5, Zenon DEF AtProbe
    <2>2. IsDigit(b)
      BY <1>1, <1>4
    <2>3. \A i \in 1..len+1 : i \in 1..len \/ i = len + 1
      OBVIOUS
    <2> QED
      BY <1>6, <2>1, <2>2, <2>3, Zenon
  <1>9. IsDigit(F[e[n] + 1])
    BY <1>2 DEF AtProbe
  <1>10. ASSUME G[n+1].style = "octet"
         PROVE  /\ \E h \in 1..MaxDigits : \E v \in [0..h -> 0..Size(G[n+1])] :
                     /\ Header(F, e[n], G[n+1], h, v)
                     /\ e[n+1] = e[n] + h + 1 + Size(G[n+1])
                     /\ Len(held') <= h /\ count' = v[Len(held')]
                /\ p + 1 < e[n+1]
    <2>1. PICK h \in 1..MaxDigits : \E v \in [0..h -> 0..Size(G[n+1])] : \E l \in 0..h :
             InCount(F, e, G, n, p, h, v, l)
      BY <1>1, <1>10, ProbingCount
    <2>2. PICK v \in [0..h -> 0..Size(G[n+1])] : \E l \in 0..h :
             InCount(F, e, G, n, p, h, v, l)
      BY <2>1
    <2>3. PICK l \in 0..h :
             /\ Header(F, e[n], G[n+1], h, v)
             /\ e[n+1] = e[n] + h + 1 + Size(G[n+1])
             /\ l = len /\ p = e[n] + l /\ count = v[l]
             /\ IF l = h THEN Head(buf) = SP ELSE IsDigit(Head(buf))
             /\ l < h => v[l+1] = 10 * count + Head(buf)
      BY <1>5, <2>2, Zenon DEF InCount
    <2>4. l # h
      BY <1>1, <2>3, NotDigits
    <2>5. h \in Nat /\ l \in Nat /\ l < h /\ l + 1 <= h
      BY <2>4, Constants
    <2>6. Len(held') <= h /\ count' = v[Len(held')]
      BY <1>1, <1>6, <2>3, <2>5, Zenon
    <2>7. p + 1 < e[n+1]
      <3>1. Size(G[n+1]) \in Nat
        <4>1. G[n+1] \in dialect /\ dialect \in Dialects
          BY <1>2, NextFrame, PlacedTypes, Zenon
        <4> QED
          BY <4>1, FrameTypes
      <3>2. PICK s \in Nat, a \in Nat : s = Size(G[n+1]) /\ a = e[n]
        BY <1>3, <3>1
      <3>3. e[n+1] = a + h + 1 + s /\ p = a + l
        BY <2>3, <3>2, Zenon
      <3>4. (a + l) + 1 < a + h + 1 + s
        BY <2>5
      <3> QED
        BY <3>3, <3>4, Zenon
    <2> QED
      BY <2>3, <2>6, <2>7
  <1>11. p + 1 < e[n+1]
    <2>1. CASE G[n+1].style # "octet"
      <3>1. Head(buf) \notin {LF, NUL}
        BY <1>1, NotDigits
      <3> QED
        BY <1>1, <2>1, <3>1, ProbingLine
    <2> QED
      BY <1>10, <2>1
  <1>12. AtProbe(F, e, G, n, p + 1)'
    BY <1>7, <1>8, <1>9, <1>10, Zenon DEF AtProbe, Holds
  <1>13. Reading(F, e, G, g, n, p + 1)' /\ loc' \notin Ended
    BY <1>1, <1>2, <1>11, <1>12 DEF Reading, Within, Ended
  <1>14. Taken(1) /\ e[n] <= p + 1
    <2>1. Taken(1)
      BY <1>1, TakeOne
    <2> QED
      BY <1>3, <2>1
  <1>15. Settled(n)'
    BY <1>1, <1>2, StillSettled
  <1>16. Placed(F, e, G, g, n, p + 1)'
    BY <1>1, <1>13, <1>14, <1>15, StillPlaced
  <1> QED
    BY <1>16

LEMMA ProbeCountPlaced ==
  ASSUME FrameInv, NEW F, NEW e, NEW G, NEW g, NEW n, NEW p, Placed(F, e, G, g, n, p),
         ProbeCount
  PROVE  \E k, q : Placed(F, e, G, g, k, q)'
  <1>1. /\ loc = "probe" /\ buf # <<>> /\ Head(buf) = SP /\ held # <<>> /\ buf' = Tail(buf)
        /\ held' = <<>>
        /\ loc' = (IF count > Max THEN "copy" ELSE IF count > 0 THEN "body" ELSE "top")
        /\ UNCHANGED <<dialect, peer, sent, wire, pending, count, out>>
    BY DEF ProbeCount, Enter
  <1>2. /\ n < g /\ Settled(n) /\ pending = <<>> /\ p + 1 <= Reached(p)
    BY <1>1, Probing
  <1>3. G[n+1].style = "octet"
    BY <1>1, ProbingLine
  <1>4. PICK h \in 1..MaxDigits : \E v \in [0..h -> 0..Size(G[n+1])] : \E l \in 0..h :
             InCount(F, e, G, n, p, h, v, l)
    BY <1>1, <1>3, ProbingCount
  <1>5. PICK v \in [0..h -> 0..Size(G[n+1])] : \E l \in 0..h : InCount(F, e, G, n, p, h, v, l)
    BY <1>4
  <1>6. PICK l \in 0..h : InCount(F, e, G, n, p, h, v, l)
    BY <1>5
  <1>7. l = h
    BY <1>1, <1>6, NotDigits DEF InCount
  <1>8. G[n+1] \in dialect /\ dialect \in Dialects
    BY <1>2, NextFrame, PlacedTypes, Zenon
  <1>9. PICK a \in Nat, s \in Nat : a = e[n] /\ s = Size(G[n+1]) /\ p \in Nat /\ a <= p
    <2>1. Size(G[n+1]) \in Nat
      BY <1>8, FrameTypes
    <2>2. e[n] \in Nat /\ p \in Nat /\ e[n] <= p
      BY PlacedTypes, Zenon
    <2> QED
      BY <2>1, <2>2, Zenon
  <1>10. e[n+1] = a + h + 1 + s /\ p = a + h /\ count = s
    BY <1>6, <1>7, <1>9, Zenon DEF InCount, Header
  <1>11. h \in Nat
    BY Constants
  <1>12. PICK b \in Nat : /\ b = e[n+1] /\ p + 1 = b - s /\ a <= p + 1 /\ p + 1 \in Nat
                          /\ (s > 0 => p + 1 < b) /\ (s = 0 => p + 1 = b)
    <2>1. p = a + h
      BY <1>10
    <2>2. PICK b \in Nat : b = a + h + 1 + s
      BY <1>11
    <2>3. p + 1 = b - s /\ a <= p + 1 /\ p + 1 \in Nat
          /\ (s > 0 => p + 1 < b) /\ (s = 0 => p + 1 = b)
      BY <1>11, <2>1, <2>2
    <2> QED
      BY <1>10, <2>2, <2>3, Zenon
  <1>13. Taken(1)
    BY <1>1, TakeOne
  <1>14. e[n] <= p + 1
    BY <1>9, <1>12
  <1>15. CASE s > 0
    <2>1. count' = s /\ s \in 1..s /\ s \in Nat /\ Max \in Nat
      BY <1>1, <1>10, <1>15, Constants
    <2>2. loc' = IF s > Max THEN "copy" ELSE "body"
      BY <1>1, <1>10, <1>15
    <2>3. s <= Max \/ s > Max
      BY <2>1
    <2>4. s - s = 0 /\ Len(held') = 0 /\ 1..0 = {}
      BY <1>1, EmptyBytes
    <2>5. AtPayload(e, G, n, p + 1)'
      <3>1. s > Max \/ (s <= Max /\ loc' = "body")
        BY <2>2, <2>3
      <3>2. loc' = "copy" => s > Max
        BY <2>2
      <3>3. \A i \in 1..Len(held') : held'[i] = G[n+1].body[i]
        BY <2>4, Zenon
      <3>4. loc' # "copy" => s <= Max
        BY <2>2, <2>3
      <3> QED
        BY <1>3, <1>9, <1>12, <2>1, <2>4, <3>2, <3>3, <3>4, Zenon DEF AtPayload
    <2>6. Within(e, g, n, p + 1)
      BY <1>2, <1>12, <1>15 DEF Within
    <2>7. Reading(F, e, G, g, n, p + 1)' /\ loc' \notin Ended
      BY <2>2, <2>5, <2>6 DEF Reading, Ended, Within
    <2>8. Settled(n)'
      BY <1>1, <1>2, StillSettled
    <2>9. Placed(F, e, G, g, n, p + 1)'
      BY <1>1, <1>13, <1>14, <2>7, <2>8, StillPlaced
    <2> QED
      BY <2>9
  <1>16. CASE s = 0
    <2>1. loc' = "top" /\ p + 1 = e[n+1]
      BY <1>1, <1>10, <1>12, <1>16, Constants
    <2>2. n < Len(sent) /\ G[n+1] = sent[n+1]
      BY <1>2, <2>1, NextFrame
    <2>3. Message(sent[n+1]) = <<>>
      BY <1>3, <1>8, <1>9, <1>16, <2>2, MessageType DEF Message
    <2>4. TypeOK
      BY DEF FrameInv
    <2>5. Settled(n+1)'
      BY <1>1, <1>2, <2>2, <2>3, <2>4, NextSettled
    <2>6. AtTop(F, e, G, g, n+1, p + 1)'
      BY <1>1, <1>2, <2>1, FreshTop
    <2>7. Reading(F, e, G, g, n+1, p + 1)' /\ loc' \notin Ended
      BY <2>1, <2>6 DEF Reading, Ended
    <2>8. e[n+1] <= p + 1
      BY <1>12, <2>1
    <2>9. Placed(F, e, G, g, n+1, p + 1)'
      BY <1>1, <1>13, <2>5, <2>7, <2>8, StillPlaced
    <2> QED
      BY <2>9
  <1> QED
    BY <1>9, <1>15, <1>16

LEMMA ProbeGivesUpPlaced ==
  ASSUME FrameInv, NEW F, NEW e, NEW G, NEW g, NEW n, NEW p, Placed(F, e, G, g, n, p),
         ProbeGivesUp
  PROVE  \E k, q : Placed(F, e, G, g, k, q)'
  <1>1. /\ loc = "probe" /\ buf # <<>> /\ buf' = Tail(buf) /\ loc' = "slice"
        /\ IF IsDigit(Head(buf)) THEN Len(held) = MaxDigits ELSE Head(buf) # SP \/ held = <<>>
        /\ pending' = pending \o held \o <<Head(buf)>>
        /\ UNCHANGED <<dialect, peer, sent, wire, out>>
    BY DEF ProbeGivesUp, Enter
  <1>2. /\ n < g /\ Settled(n) /\ pending = <<>>
        /\ Head(buf) = F[p+1] /\ Holds(F, held, e[n], p)
    BY <1>1, Probing
  <1>3. /\ held \in Seq(Byte) /\ buf \in Seq(Byte) /\ p \in Nat /\ e[n] \in Nat /\ e[n] <= p
    BY PlacedTypes, Zenon
  <1>4. G[n+1].style # "octet"
    <2> SUFFICES ASSUME G[n+1].style = "octet" PROVE FALSE
      OBVIOUS
    <2>1. PICK h \in 1..MaxDigits : \E v \in [0..h -> 0..Size(G[n+1])] : \E l \in 0..h :
               InCount(F, e, G, n, p, h, v, l)
      BY <1>1, ProbingCount
    <2>2. PICK v \in [0..h -> 0..Size(G[n+1])] : \E l \in 0..h : InCount(F, e, G, n, p, h, v, l)
      BY <2>1
    <2>3. PICK l \in 0..h : InCount(F, e, G, n, p, h, v, l)
      BY <2>2
    <2>4. l = Len(held) /\ IF l = h THEN Head(buf) = SP ELSE IsDigit(Head(buf))
      BY <2>3 DEF InCount
    <2>5. h \in Nat /\ l \in Nat /\ h >= 1 /\ h <= MaxDigits /\ MaxDigits \in Nat
      BY Constants
    <2>6. CASE l = h
      <3>1. ~IsDigit(Head(buf)) /\ Head(buf) = SP
        BY <2>4, <2>6, NotDigits
      <3>2. held = <<>>
        BY <1>1, <3>1
      <3>3. l = 0
        BY <2>4, <3>2, EmptyBytes
      <3> QED
        BY <2>5, <2>6, <3>3
    <2>7. CASE l # h
      <3>1. l = MaxDigits
        BY <1>1, <2>4, <2>7
      <3>2. l \in 0..h
        BY <2>3
      <3> QED
        BY <2>5, <2>7, <3>1, <3>2
    <2> QED
      BY <2>6, <2>7
  <1>5. PICK b \in Byte : b = Head(buf)
    BY <1>1, <1>3, NotEmpty
  <1>6. pending' = held \o <<b>>
    <2>1. pending \o held = held
      BY <1>2, <1>3, ConcatEmptySeq
    <2> QED
      BY <1>1, <1>5, <2>1
  <1>7. Holds(F, pending', e[n], p + 1)
    <2>1. <<b>> \in Seq(Byte) /\ Holds(F, <<b>>, p, p + 1) /\ p + 1 \in Nat
      BY <1>2, <1>3, <1>5, HoldsOne
    <2> QED
      BY <1>2, <1>3, <1>6, <2>1, HoldsBoth
  <1>8. Clean(G, g) => p + 1 < e[n+1]
    BY <1>1, <1>4, ProbingLine
  <1>9. AtSlice(F, e, G, g, n, p + 1)'
    <2>1. Holds(F, pending, e[n], p + 1)'
      BY <1>7 DEF Holds
    <2> QED
      BY <1>2, <1>4, <1>8, <2>1, Zenon DEF AtSlice, LineNext, Clean
  <1>10. Reading(F, e, G, g, n, p + 1)' /\ loc' \notin Ended
    BY <1>1, <1>9 DEF Reading, Ended
  <1>11. Settled(n)'
    BY <1>1, <1>2, StillSettled
  <1>12. Taken(1) /\ e[n] <= p + 1
    <2>1. Taken(1)
      BY <1>1, TakeOne
    <2> QED
      BY <1>3, <2>1
  <1>13. Placed(F, e, G, g, n, p + 1)'
    BY <1>1, <1>10, <1>11, <1>12, StillPlaced
  <1> QED
    BY <1>13

\* What is left of a payload, and what has been read of it.
LEMMA InPayload ==
  ASSUME FrameInv, NEW F, NEW e, NEW G, NEW g, NEW n, NEW p, Placed(F, e, G, g, n, p),
         loc \in {"copy", "body"}, buf # <<>>
  PROVE  /\ n < g /\ pending = <<>> /\ Settled(n) /\ AtPayload(e, G, n, p)
         /\ G[n+1] \in dialect /\ FrameAt(F, e[n], e[n+1], G[n+1])
         /\ \E s \in Nat, b \in Nat, l \in Nat :
                /\ s = Size(G[n+1]) /\ b = e[n+1] /\ l = Len(buf) /\ l > 0
                /\ p = b - count /\ count > 0 /\ count <= s /\ p + l <= Reached(p)
  <1>1. /\ pending = <<>> /\ Settled(n) /\ Within(e, g, n, p) /\ AtPayload(e, G, n, p)
    BY DEF FrameInv, ReadsBounded, Placed, Reading
  <1>2. n < g
    BY <1>1 DEF Within
  <1>3. /\ G[n+1] \in dialect /\ dialect \in Dialects /\ FrameAt(F, e[n], e[n+1], G[n+1])
        /\ e[n+1] \in Nat
    BY <1>2, NextFrame, PlacedTypes, Zenon
  <1>4. PICK s \in Nat, b \in Nat : s = Size(G[n+1]) /\ b = e[n+1]
    BY <1>3, FrameTypes
  <1>5. p = b - count /\ count \in 1..s /\ count \in Nat
    <2>1. p = e[n+1] - count /\ count \in 1..Size(G[n+1])
      BY <1>1, Zenon DEF AtPayload
    <2>2. count \in Nat
      BY PlacedTypes, Zenon
    <2> QED
      BY <1>4, <2>1, <2>2, Zenon
  <1>6. PICK l \in Nat : l = Len(buf) /\ l > 0
    <2>1. buf \in Seq(Byte)
      BY PlacedTypes, Zenon
    <2> QED
      BY <2>1, NotEmpty
  <1>7. PICK w \in Nat : Reached(p) = p + l + w /\ p \in Nat
    BY <1>6, PlacedTypes, Zenon
  <1>8. p + l <= Reached(p) /\ count > 0 /\ count <= s
    BY <1>5, <1>7
  <1> QED
    BY <1>1, <1>2, <1>3, <1>4, <1>5, <1>6, <1>8

LEMMA ReadCountedPlaced ==
  ASSUME FrameInv, NEW F, NEW e, NEW G, NEW g, NEW n, NEW p, Placed(F, e, G, g, n, p),
         ReadCounted
  PROVE  \E k, q : Placed(F, e, G, g, k, q)'
  <1>1. /\ loc \in {"copy", "body"} /\ buf # <<>>
        /\ UNCHANGED <<dialect, peer, sent, wire, pending>>
    BY DEF ReadCounted
  <1>2. /\ n < g /\ pending = <<>> /\ Settled(n) /\ AtPayload(e, G, n, p)
        /\ G[n+1] \in dialect /\ FrameAt(F, e[n], e[n+1], G[n+1])
    BY <1>1, InPayload
  <1>3. PICK s \in Nat, b \in Nat, l \in Nat :
                /\ s = Size(G[n+1]) /\ b = e[n+1] /\ l = Len(buf) /\ l > 0
                /\ p = b - count /\ count > 0 /\ count <= s /\ p + l <= Reached(p)
    BY <1>1, InPayload
  <1>4. /\ F \in [Nat -> Byte] /\ p \in Nat /\ e[n] \in Nat /\ e[n] <= p /\ count \in Nat
        /\ dialect \in Dialects /\ held \in Seq(Byte) /\ buf \in Seq(Byte) /\ TypeOK
    BY PlacedTypes, Zenon
  <1>13. PICK m \in Nat, c \in Nat :
        m = (IF l < count THEN l ELSE count) /\ c = count - m
    <2> DEFINE k == IF l < count THEN l ELSE count
    <2>1. k \in Nat /\ count - k \in Nat
      BY <1>3, <1>4
    <2> HIDE DEF k
    <2>2. \E m \in Nat, c \in Nat : m = k /\ c = count - m
      BY <2>1, Zenon
    <2> QED
      BY <2>2 DEF k
  <1>14. PICK got : got = (IF loc = "body" THEN held \o SubSeq(buf, 1, m) ELSE <<>>)
    OBVIOUS
  <1>5. /\ m \in Nat /\ c \in Nat
        /\ m = (IF l < count THEN l ELSE count) /\ c = count - m
        /\ got = (IF loc = "body" THEN held \o SubSeq(buf, 1, m) ELSE <<>>)
    BY <1>13, <1>14, Zenon
  <1>6. /\ buf' = Drop(buf, m) /\ count' = c
        /\ held' = (IF m < count THEN got ELSE <<>>)
        /\ m < count => loc' = loc /\ UNCHANGED out
        /\ ~(m < count) /\ loc = "body" => Settle(got)
        /\ ~(m < count) /\ loc # "body" => out' = Append(out, Oversized) /\ loc' = "top"
    BY <1>3, <1>5 DEF ReadCounted, Enter
  <1>7. /\ m <= l /\ m > 0 /\ m <= count /\ (m < count \/ m = count)
    BY <1>3, <1>4, <1>5
  <1>8. /\ p + m = b - c /\ e[n] <= p + m /\ p + m \in Nat
        /\ c <= s /\ (c > 0 => p + m < b) /\ (c = 0 => p + m = b)
        /\ (c > 0 <=> m < count) /\ s - c \in Nat
    <2>1. PICK a \in Nat, k \in Nat : a = e[n] /\ a <= p /\ k = count
      BY <1>4, Zenon
    <2>2. c = k - m /\ m <= k /\ p = b - k /\ k <= s
      BY <1>3, <1>5, <1>7, <2>1
    <2>3. p + m = b - c /\ a <= p + m /\ p + m \in Nat
        /\ c <= s /\ (c > 0 => p + m < b) /\ (c = 0 => p + m = b)
        /\ (c > 0 <=> m < k) /\ s - c \in Nat
      BY <1>4, <2>1, <2>2
    <2> QED
      BY <2>1, <2>3, Zenon
  <1>12. Taken(m)
    <2>1. m \in 0..Len(buf)
      BY <1>3, <1>7
    <2> QED
      BY <1>6, <2>1, TakeSome
  <1>9. ASSUME loc = "body"
        PROVE  /\ got \in Seq(Byte) /\ Len(got) = s - c
               /\ \A i \in 1..s-c : got[i] = G[n+1].body[i]
    <2>1. /\ Len(held) = s - count /\ \A i \in 1..Len(held) : held[i] = G[n+1].body[i]
      BY <1>2, <1>3, <1>9 DEF AtPayload
    <2>2. \A i \in 1..s : F[b - s + i] = G[n+1].body[i]
      <3>1. G[n+1].style = "octet"
        BY <1>2 DEF AtPayload
      <3>2. e[n] \in Nat /\ e[n+1] \in Nat
        BY <1>3, <1>4
      <3>3. \A i \in 1..Size(G[n+1]) : F[e[n+1] - Size(G[n+1]) + i] = G[n+1].body[i]
        <4>1. PICK f \in dialect : f = G[n+1]
          BY <1>2
        <4>3. /\ FrameAt(F, e[n], e[n+1], f) /\ f.style = "octet"
              /\ dialect \in Dialects /\ F \in [Nat -> Byte]
          BY <1>2, <1>4, <3>1, <4>1, Zenon
        <4>2. \A i \in 1..Size(f) : F[e[n+1] - Size(f) + i] = f.body[i]
          BY <3>2, <4>3, CountPlace
        <4> QED
          BY <4>1, <4>2, Zenon
      <3> QED
        BY <1>3, <3>3, Zenon
    <2>3. PICK a \in Nat : a = b - s
      <3>1. e[n] < b - s
        <4>1. G[n+1].style = "octet"
          BY <1>2 DEF AtPayload
        <4> QED
          BY <1>2, <1>3, <1>4, <4>1, CountPlace
      <3>2. PICK x \in Nat : x = e[n]
        BY <1>4
      <3>3. x < b - s
        BY <3>1, <3>2
      <3> QED
        BY <1>3, <3>3
    <2>4. Holds(F, held, a, p)
      <3>1. p - a = s - count /\ \A i \in 1..s-count : i \in 1..s
        <4>1. PICK k \in Nat : k = count /\ p = b - k /\ k <= s
          BY <1>3, <1>4
        <4>3. p = b - k /\ k <= s /\ a = b - s
          BY <2>3, <4>1, Zenon
        <4>2. p - a = s - k /\ \A i \in 1..s-k : i \in 1..s
          BY <4>3
        <4> QED
          BY <4>1, <4>2, Zenon
      <3>2. \A i \in 1..s : F[a+i] = G[n+1].body[i]
        BY <2>2, <2>3
      <3>3. \A i \in 1..Len(held) : held[i] = F[a+i]
        BY <2>1, <3>1, <3>2, Zenon
      <3> QED
        BY <2>1, <3>1, <3>3, Zenon DEF Holds
    <2>12. m \in 0..Len(buf)
      BY <1>3, <1>7
    <2>5. SubSeq(buf, 1, m) \in Seq(Byte) /\ Holds(F, SubSeq(buf, 1, m), p, p + m)
      BY <2>12, HoldsBuffered
    <2>6. got = held \o SubSeq(buf, 1, m)
      BY <1>5, <1>9
    <2>7. got \in Seq(Byte) /\ Holds(F, got, a, p + m)
      BY <1>4, <1>8, <2>4, <2>5, <2>6, HoldsBoth
    <2>8. (p + m) - a = s - c
      BY <1>3, <1>8, <2>3
    <2>9. Len(got) = s - c /\ \A i \in 1..s-c : got[i] = F[a+i]
      BY <2>7, <2>8, Zenon DEF Holds
    <2>10. \A i \in 1..s-c : i \in 1..s
      BY <1>3, <1>8
    <2>11. \A i \in 1..s : F[a+i] = G[n+1].body[i]
      BY <2>2, <2>3
    <2> QED
      BY <2>7, <2>9, <2>10, <2>11, Zenon
  <1>10. CASE m < count
    <2>1. loc' = loc /\ UNCHANGED out /\ count' = c /\ held' = got
      BY <1>6, <1>10
    <2>2. c > 0 /\ c \in 1..s /\ p + m < b
      BY <1>3, <1>8, <1>10
    <2>3. AtPayload(e, G, n, p + m)'
      <3>1. G[n+1].style = "octet" /\ (IF loc = "copy" THEN s > Max ELSE s <= Max)
        BY <1>2, <1>3 DEF AtPayload
      <3>2. count' \in 1..s /\ p + m = b - count'
        BY <1>8, <2>1, <2>2, Zenon
      <3>3. CASE loc = "copy"
        BY <1>3, <2>1, <3>1, <3>2, <3>3, Zenon DEF AtPayload
      <3>4. CASE loc = "body"
        <4>1. Len(held') = s - count' /\ \A i \in 1..Len(held') : held'[i] = G[n+1].body[i]
          BY <1>9, <2>1, <3>4, Zenon
        <4>2. loc' # "copy" /\ s <= Max
          BY <2>1, <3>1, <3>4
        <4> QED
          BY <1>3, <3>1, <3>2, <4>1, <4>2, Zenon DEF AtPayload
      <3> QED
        BY <1>1, <3>3, <3>4
    <2>4. Within(e, g, n, p + m)
      BY <1>2, <1>3, <2>2 DEF Within
    <2>5. Reading(F, e, G, g, n, p + m)' /\ loc' \notin Ended
      BY <1>1, <2>1, <2>3, <2>4 DEF Reading, Within, Ended
    <2>6. Settled(n)'
      BY <1>1, <1>2, <2>1, StillSettled
    <2>7. Placed(F, e, G, g, n, p + m)'
      BY <1>1, <1>8, <1>12, <2>5, <2>6, StillPlaced
    <2> QED
      BY <2>7
  <1>11. CASE ~(m < count)
    <2>1. c = 0 /\ p + m = b
      BY <1>8, <1>11
    <2>2. n < Len(sent) /\ G[n+1] = sent[n+1]
      <3>1. PICK r \in Nat : r = Reached(p)
        BY PlacedTypes, Zenon
      <3>2. b <= r
        BY <1>3, <1>4, <1>7, <1>8, <2>1, <3>1
      <3>3. e[n+1] <= Reached(p)
        BY <1>3, <3>1, <3>2, Zenon
      <3> QED
        BY <1>2, <3>3, NextFrame
    <2>3. loc' = "top" /\ Settled(n+1)'
      <3>1. CASE loc = "copy"
        <4>1. out' = Append(out, Oversized) /\ loc' = "top" /\ Size(sent[n+1]) > Max
          BY <1>2, <1>6, <1>11, <2>2, <3>1 DEF AtPayload
        <4> QED
          BY <1>1, <1>2, <1>4, <2>2, <4>1, OversizedSettled
      <3>2. CASE loc = "body"
        <4>1. Settle(got)
          BY <1>6, <1>11, <3>2
        <4>2. got = G[n+1].body
          <5>1. PICK body \in Seq(Byte) : body = G[n+1].body /\ Len(body) = s
            BY <1>2, <1>3, <1>4, FrameTypes DEF Size
          <5>2. s - c = s
            BY <2>1
          <5>3. got \in Seq(Byte) /\ Len(got) = Len(body) /\ \A i \in 1..Len(body) : got[i] = body[i]
            BY <1>9, <3>2, <5>1, <5>2, Zenon
          <5>4. got = body
            BY <5>1, <5>3, SeqEqual
          <5> QED
            BY <5>1, <5>4
        <4>3. Message(sent[n+1]) = got
          BY <1>2, <2>2, <4>2 DEF Message, AtPayload
        <4>4. loc' = "top"
          BY <4>1 DEF Settle, Enter
        <4> QED
          BY <1>1, <1>2, <1>4, <2>2, <4>1, <4>3, <4>4, MessageSettled
      <3> QED
        BY <1>1, <3>1, <3>2
    <2>4. AtTop(F, e, G, g, n+1, p + m)'
      BY <1>1, <1>2, <1>3, <2>1, FreshTop
    <2>5. Reading(F, e, G, g, n+1, p + m)' /\ loc' \notin Ended
      BY <2>3, <2>4 DEF Reading, Ended
    <2>6. e[n+1] <= p + m
      BY <1>3, <2>1
    <2>7. Placed(F, e, G, g, n+1, p + m)'
      BY <1>1, <1>12, <2>3, <2>5, <2>6, StillPlaced
    <2> QED
      BY <2>7
  <1> QED
    BY <1>10, <1>11

-----------------------------------------------------------------------------
(* Lines and ends.                                                         *)

\* A peer that hangs up has had its last frame settled, if the next one does
\* not end before the stream does.
LEMMA NothingLeft ==
  ASSUME FrameInv, NEW F, NEW e, NEW G, NEW g, NEW n, NEW p, Placed(F, e, G, g, n, p),
         peer = "closed", n < g => Reached(p) < e[n+1]
  PROVE  n = Len(sent)
  <1>1. PICK m \in Nat, r \in Nat : m = Len(sent) /\ r = Reached(p) /\ n <= m /\ m <= g
    <2>1. Len(sent) \in Nat /\ Reached(p) \in Nat /\ n <= Len(sent)
      BY PlacedTypes, Zenon
    <2>2. PICK m \in Nat : m = Len(sent)
      BY <2>1
    <2>3. g \in {m, m + 1}
      BY <2>2, Zenon DEF Placed, Arrived
    <2>4. m <= g
      BY <2>3
    <2> QED
      BY <2>1, <2>2, <2>4, Zenon
  <1>2. n \in Nat /\ g \in Nat /\ e \in [Nat -> Nat]
    BY PlacedTypes, Zenon
  <1>3. SUFFICES ASSUME n < m PROVE FALSE
    <2>1. n < m \/ n = m
      BY <1>1, <1>2
    <2> QED
      BY <1>1, <2>1, Zenon
  <1>4. n < g /\ n + 1 \in 0..g /\ m \in 0..g /\ (n + 1 = m \/ n + 1 < m) /\ n + 1 \in Nat
    BY <1>1, <1>2, <1>3
  <1>5. e[m] <= r /\ \A i, j \in 0..g : i < j => e[i] < e[j]
    BY <1>1, Zenon DEF Placed, Arrived, Stream
  <1>6. n + 1 = m \/ e[n+1] < e[m]
    BY <1>4, <1>5, Zenon
  <1>7. PICK b \in Nat, c \in Nat : b = e[n+1] /\ c = e[m]
    BY <1>1, <1>2, <1>4
  <1>8. b <= c
    BY <1>6, <1>7
  <1>9. r < b /\ c <= r
    BY <1>1, <1>4, <1>5, <1>7, Zenon
  <1> QED
    BY <1>1, <1>7, <1>8, <1>9

\* A reader that has failed for good.
LEMMA FailedForGood ==
  ASSUME FrameInv, NEW F, NEW e, NEW G, NEW g, NEW n, NEW p, Placed(F, e, G, g, n, p),
         UNCHANGED <<peer, sent, out>>, TimedOut \/ PeerGone, loc' = Outcome,
         PeerGone => (n < g => Reached(p) < e[n+1])
  PROVE  Over(n)'
  <1>1. Settled(n) /\ Settled(n)'
    BY StillSettled DEF Placed
  <1>2. loc' \in Ended /\ (loc' = "eof" => PeerGone)
    BY DEF Outcome, Ended
  <1>3. PeerGone => peer # "open"
    BY DEF PeerGone
  <1>4. PeerGone /\ peer = "closed" => n = Len(sent)
    BY NothingLeft
  <1> QED
    BY <1>1, <1>2, <1>3, <1>4, Zenon DEF Over

LEMMA ReadFailsPlaced ==
  ASSUME FrameInv, NEW F, NEW e, NEW G, NEW g, NEW n, NEW p, Placed(F, e, G, g, n, p),
         ReadFails
  PROVE  Over(n)'
  <1>1. /\ loc \in {"probe", "copy", "body", "flush"} /\ (TimedOut \/ PeerGone)
        /\ loc' = Outcome /\ UNCHANGED <<peer, sent, out>>
    BY DEF ReadFails
  <1>2. Within(e, g, n, p)
    BY <1>1 DEF Placed, Reading
  <1>3. ASSUME PeerGone PROVE Reached(p) < e[n+1]
    <2>1. buf = <<>> /\ wire = <<>>
      BY <1>1, <1>3 DEF PeerGone, Starved
    <2>2. Len(buf) = 0 /\ Len(wire) = 0
      BY <2>1, EmptyBytes
    <2>3. Reached(p) = p + 0 + 0 /\ p \in Nat
      BY <2>2, PlacedTypes, Zenon
    <2>4. p + 0 + 0 = p
      BY <2>3
    <2> QED
      BY <1>2, <2>3, <2>4, Zenon DEF Within
  <1> QED
    BY <1>1, <1>3, FailedForGood

\* ReadSlice stops at the end of a line, unless that line is held back.
LEMMA LineStops ==
  ASSUME FrameInv, NEW F, NEW e, NEW G, NEW g, NEW n, NEW p, Placed(F, e, G, g, n, p),
         loc = "slice", LineNext(G, g, n), Clean(G, g),
         NEW m \in Nat, m <= Len(buf), \A i \in 1..m : buf[i] # LF
  PROVE  p + m < e[n+1]
  <1>1. PICK b \in Nat : b = e[n+1] /\ (~HeldBack(G[n+1]) => F[b] = LF)
    <2>1. e[n+1] \in Nat /\ (~HeldBack(G[n+1]) => F[e[n+1]] = LF)
      BY NextLine
    <2> QED
      BY <2>1, Zenon
  <1>2. n < g /\ p < e[n+1]
    BY DEF LineNext, Placed, Reading, AtSlice
  <1>3. p \in Nat /\ n \in Nat /\ g \in Nat
    BY PlacedTypes, Zenon
  <1>4. n + 1 \in 1..g
    BY <1>2, <1>3
  <1>5. F[b] = LF
    BY <1>1, <1>4, Zenon DEF Clean
  <1>6. p < b
    BY <1>1, <1>2, Zenon
  <1>7. SUFFICES ASSUME b <= p + m PROVE FALSE
    BY <1>1, <1>3
  <1>8. PICK l \in Nat : l = Len(buf) /\ m <= l
    BY PlacedTypes, Zenon
  <1>9. b - p \in 1..m /\ b - p \in 1..l /\ p + (b - p) = b
    BY <1>3, <1>6, <1>7, <1>8
  <1>10. buf[b-p] = F[p + (b - p)]
    BY <1>8, <1>9, Zenon DEF Placed, Arrived
  <1> QED
    BY <1>5, <1>9, <1>10, Zenon

\* ReadSlice has returned m bytes of a line.
LEMMA SlicePlaces ==
  ASSUME FrameInv, NEW F, NEW e, NEW G, NEW g, NEW n, NEW p, Placed(F, e, G, g, n, p),
         loc = "slice", loc' = "top", UNCHANGED <<dialect, peer, sent, wire, out>>,
         NEW m \in Nat, Taken(m), LineNext(G, g, n),
         pending' = pending \o SubSeq(buf, 1, m),
         Clean(G, g) => p + m <= e[n+1]
  PROVE  \E k, q : Placed(F, e, G, g, k, q)'
  <1>1. Holds(F, pending, e[n], p) /\ Settled(n)
    BY DEF Placed, Reading, AtSlice
  <1>2. pending \in Seq(Byte) /\ p \in Nat /\ e[n] \in Nat /\ e[n] <= p
    BY PlacedTypes, Zenon
  <1>3. m \in 0..Len(buf)
    BY DEF Taken
  <1>4. SubSeq(buf, 1, m) \in Seq(Byte) /\ Holds(F, SubSeq(buf, 1, m), p, p + m)
    BY <1>3, HoldsBuffered
  <1>5. p + m \in Nat /\ e[n] <= p + m
    <2>1. PICK a \in Nat : a = e[n] /\ a <= p
      BY <1>2
    <2>2. p + m \in Nat /\ a <= p + m
      BY <1>2, <2>1
    <2> QED
      BY <2>1, <2>2
  <1>6. Holds(F, pending', e[n], p + m)
    BY <1>1, <1>2, <1>4, <1>5, HoldsBoth
  <1>7. AtTop(F, e, G, g, n, p + m)'
    <2>1. Holds(F, pending, e[n], p + m)'
      BY <1>6 DEF Holds
    <2> QED
      BY <2>1, Zenon DEF AtTop, LineNext, Clean
  <1>8. Reading(F, e, G, g, n, p + m)' /\ loc' \notin Ended
    BY <1>7 DEF Reading, Ended
  <1>9. Settled(n)'
    BY <1>1, StillSettled
  <1>10. Placed(F, e, G, g, n, p + m)'
    BY <1>5, <1>8, <1>9, StillPlaced
  <1> QED
    BY <1>10

LEMMA SlicePlaced ==
  ASSUME FrameInv, NEW F, NEW e, NEW G, NEW g, NEW n, NEW p, Placed(F, e, G, g, n, p), Slice
  PROVE  \E k, q : Placed(F, e, G, g, k, q)'
  <1>1. PICK m \in 1..Len(buf) :
            /\ \A i \in 1..m-1 : buf[i] # LF
            /\ pending' = pending \o SubSeq(buf, 1, m) /\ buf' = Drop(buf, m)
    BY DEF Slice
  <1>2. loc = "slice" /\ loc' = "top" /\ UNCHANGED <<dialect, peer, sent, wire, out>>
    BY DEF Slice, Enter
  <1>3. PICK l \in Nat : l = Len(buf) /\ buf \in Seq(Byte) /\ p \in Nat
    BY PlacedTypes, Zenon
  <1>4. m \in Nat /\ m - 1 \in Nat /\ m - 1 <= l /\ m \in 0..l /\ l # 0 /\ (m - 1) + 1 = m
    BY <1>3
  <1>5. LineNext(G, g, n)
    <2>1. buf # <<>>
      BY <1>3, <1>4, EmptySeq
    <2> QED
      BY <1>2, <2>1, LineInPending
  <1>6. Taken(m)
    BY <1>1, <1>3, <1>4, TakeSome
  <1>7. ASSUME Clean(G, g) PROVE p + m <= e[n+1]
    <2>1. p + (m - 1) < e[n+1]
      BY <1>1, <1>2, <1>3, <1>4, <1>5, <1>7, LineStops
    <2>2. PICK b \in Nat : b = e[n+1]
      BY <1>5, NextLine
    <2>3. p + (m - 1) < b
      BY <2>1, <2>2
    <2>4. p + m <= b
      BY <1>3, <1>4, <2>2, <2>3
    <2> QED
      BY <2>2, <2>4
  <1> QED
    BY <1>1, <1>2, <1>4, <1>5, <1>6, <1>7, SlicePlaces

LEMMA SliceFailsPlaced ==
  ASSUME FrameInv, NEW F, NEW e, NEW G, NEW g, NEW n, NEW p, Placed(F, e, G, g, n, p),
         SliceFails
  PROVE  Over(n)' \/ \E k, q : Placed(F, e, G, g, k, q)'
  <1>1. /\ loc = "slice" /\ (TimedOut \/ PeerGone) /\ buf' = <<>>
        /\ UNCHANGED <<dialect, peer, sent, wire, out>>
        /\ IF Delims(pending \o buf) # {} THEN pending' = pending \o buf /\ loc' = "top"
                                          ELSE loc' = Outcome
    BY DEF SliceFails, Enter
  <1>2. /\ pending \in Seq(Byte) /\ buf \in Seq(Byte) /\ p \in Nat
        /\ e[n] \in Nat /\ Len(wire) \in Nat
        /\ Reached(p) = p + Len(buf) + Len(wire) /\ Reached(p) \in Nat
        /\ n \in Nat /\ g \in Nat
    BY PlacedTypes, Zenon
  <1>3. PICK l \in Nat : l = Len(buf)
    BY <1>2, LenProperties
  <1>4. \A i \in 1..l : buf[i] # LF
    BY <1>1, <1>3 DEF TimedOut, PeerGone, Starved
  <1>5. SubSeq(buf, 1, l) = buf
    <2>1. /\ SubSeq(buf, 1, l) \in Seq(Byte) /\ Len(SubSeq(buf, 1, l)) = l
          /\ \A i \in 1..l : SubSeq(buf, 1, l)[i] = buf[i]
      <3>1. l \in 0..Len(buf)
        BY <1>3
      <3> QED
        BY <1>2, <3>1, Prefix
    <2> QED
      BY <1>2, <1>3, <2>1, SeqEqual
  <1>6. CASE Delims(pending \o buf) # {}
    <2>1. pending' = pending \o SubSeq(buf, 1, l) /\ loc' = "top"
      BY <1>1, <1>5, <1>6
    <2>2. pending # <<>> \/ buf # <<>>
      <3> SUFFICES ASSUME pending = <<>>, buf = <<>> PROVE FALSE
        OBVIOUS
      <3>1. Len(pending \o buf) = 0
        BY EmptyBytes
      <3> QED
        BY <1>6, <3>1 DEF Delims
    <2>3. LineNext(G, g, n)
      BY <1>1, <2>2, LineInPending
    <2>4. Taken(l)
      <3>1. Len(buf') = 0 /\ l - l = 0 /\ l \in 0..l
        BY <1>1, EmptyBytes
      <3> QED
        BY <1>3, <3>1 DEF Taken
    <2>5. ASSUME Clean(G, g) PROVE p + l <= e[n+1]
      <3>1. p + l < e[n+1]
        BY <1>1, <1>3, <1>4, <2>3, <2>5, LineStops
      <3>2. e[n+1] \in Nat
        BY <2>3, NextLine
      <3> QED
        BY <1>2, <3>1, <3>2
    <2> QED
      BY <1>1, <2>1, <2>3, <2>4, <2>5, SlicePlaces
  <1>7. CASE Delims(pending \o buf) = {}
    <2>1. ASSUME PeerGone, n < g PROVE Reached(p) < e[n+1]
      <3>1. wire = <<>> /\ Len(wire) = 0
        BY <2>1, EmptyBytes DEF PeerGone
      <3>2. Reached(p) = p + l
        <4>1. Reached(p) = p + l + 0
          BY <1>2, <1>3, <3>1, Zenon
        <4> QED
          BY <1>2, <4>1
      <3>3. CASE LineNext(G, g, n)
        <4>1. Holds(F, pending, e[n], p)
          BY <1>1 DEF Placed, Reading, AtSlice
        <4>2. Holds(F, buf, p, p + l) /\ p + l \in Nat
          <5>1. l \in 0..Len(buf) /\ p + l \in Nat
            BY <1>2, <1>3
          <5> QED
            BY <1>5, <5>1, HoldsBuffered
        <4>3. pending \o buf \in Seq(Byte) /\ Holds(F, pending \o buf, e[n], p + l)
          BY <1>2, <4>1, <4>2, HoldsBoth
        <4>4. p + l < e[n+1]
          BY <1>7, <3>3, <4>2, <4>3, LineGoesOn
        <4> QED
          BY <3>2, <4>4
      <3>4. CASE ~LineNext(G, g, n)
        <4>1. Octets
          BY <2>1, <3>4, OctetsAreClean DEF LineNext
        <4>2. pending = <<>> /\ buf = <<>> /\ Holds(F, pending, e[n], p)
          BY <1>1, <3>4, <4>1 DEF Placed, Reading, AtSlice, Behind
        <4>3. l = 0 /\ p - e[n] = 0
          BY <1>3, <4>2, EmptyBytes DEF Holds
        <4>4. Reached(p) = e[n]
          BY <1>2, <3>2, <4>3
        <4> QED
          BY <2>1, <4>4, NextFrame
      <3> QED
        BY <3>3, <3>4
    <2>2. loc' = Outcome
      BY <1>1, <1>7
    <2> QED
      BY <1>1, <2>1, <2>2, FailedForGood
  <1> QED
    BY <1>6, <1>7

-----------------------------------------------------------------------------
(* The buffer, and a peer that sends nothing more.                         *)

\* What next is in the middle of does not change.
LEMMA StillReading ==
  ASSUME NEW F, NEW e, NEW G, NEW g, NEW n, NEW p, Reading(F, e, G, g, n, p),
         UNCHANGED <<dialect, loc, pending, octetVars>>, ~Behind \/ Behind'
  PROVE  Reading(F, e, G, g, n, p)'
  <1>1. Octets' <=> Octets
    BY DEF Octets
  <1>2. AtTop(F, e, G, g, n, p) => AtTop(F, e, G, g, n, p)'
    BY <1>1 DEF AtTop, Holds
  <1>3. AtSlice(F, e, G, g, n, p) => AtSlice(F, e, G, g, n, p)'
    BY <1>1 DEF AtSlice, Holds
  <1>4. AtProbe(F, e, G, n, p) => AtProbe(F, e, G, n, p)'
    BY Zenon DEF AtProbe, Holds
  <1>5. AtPayload(e, G, n, p) => AtPayload(e, G, n, p)'
    BY DEF AtPayload
  <1> QED
    BY <1>2, <1>3, <1>4, <1>5, Zenon DEF Reading

LEMMA StillStream ==
  ASSUME NEW F, NEW e, NEW G, NEW g, Stream(F, e, G, g), UNCHANGED dialect
  PROVE  Stream(F, e, G, g)'
  BY Zenon DEF Stream

LEMMA FillPlaced ==
  ASSUME FrameInv, NEW F, NEW e, NEW G, NEW g, NEW n, NEW p, Placed(F, e, G, g, n, p), Fill
  PROVE  Placed(F, e, G, g, n, p)'
  <1>1. PICK m \in 1..Len(wire) : /\ buf' = buf \o SubSeq(wire, 1, m)
                                  /\ wire' = Drop(wire, m)
    BY DEF Fill
  <1>2. /\ wire # <<>> /\ UNCHANGED <<dialect, peer, sent, loc, pending, octetVars, out>>
    BY DEF Fill
  <1>3. /\ wire \in Seq(Byte) /\ buf \in Seq(Byte) /\ p \in Nat
        /\ Len(buf) \in Nat /\ Len(wire) \in Nat /\ Reached(p) = p + Len(buf) + Len(wire)
        /\ F \in [Nat -> Byte] /\ e \in [Nat -> Nat] /\ g \in Nat
    BY PlacedTypes, Zenon
  <1>4. Placed(F, e, G, g, n, p) /\ Arrived(F, e, G, g, p) /\ Stream(F, e, G, g)
        /\ Reading(F, e, G, g, n, p) /\ Settled(n) /\ e[n] <= p /\ loc \notin Ended
    BY DEF Placed
  <1>5. m \in 0..Len(wire) /\ m \in Nat
    BY <1>3
  <1>6. /\ SubSeq(wire, 1, m) \in Seq(Byte) /\ Len(SubSeq(wire, 1, m)) = m
        /\ \A i \in 1..m : SubSeq(wire, 1, m)[i] = wire[i]
    BY <1>3, <1>5, Prefix
  <1>7. /\ Len(wire') = Len(wire) - m
        /\ \A i \in 1..Len(wire) - m : wire'[i] = wire[m + i]
    BY <1>1, <1>3, <1>5, Suffix
  <1> DEFINE t == SubSeq(wire, 1, m)
  <1>8. /\ buf' = buf \o t /\ t \in Seq(Byte) /\ Len(t) = m /\ \A i \in 1..m : t[i] = wire[i]
    BY <1>1, <1>6
  <1> HIDE DEF t
  <1>9. /\ Len(buf') = Len(buf) + m
        /\ \A i \in 1..Len(buf) + m : buf'[i] = IF i <= Len(buf) THEN buf[i] ELSE t[i - Len(buf)]
    <2>1. /\ Len(buf \o t) = Len(buf) + Len(t)
          /\ \A i \in 1..Len(buf) + Len(t) :
                 (buf \o t)[i] = IF i <= Len(buf) THEN buf[i] ELSE t[i - Len(buf)]
      BY <1>3, <1>8, ConcatProperties
    <2> QED
      BY <1>8, <2>1, Zenon
  <1>10. PICK l \in Nat, w \in Nat : l = Len(buf) /\ w = Len(wire)
    BY <1>3
  <1>11. /\ \A i \in 1..l : buf[i] = F[p+i]
         /\ \A i \in 1..w : wire[i] = F[p+l+i]
    BY <1>4, <1>10, Zenon DEF Arrived
  <1>12. m \in 1..w
    BY <1>10
  <1>13. ASSUME NEW i \in 1..l+m PROVE buf'[i] = F[p+i]
    <2>1. CASE i <= l
      <3>1. i \in 1..l
        BY <2>1
      <3>2. buf'[i] = buf[i]
        BY <1>9, <1>10, <2>1
      <3> QED
        BY <1>11, <3>1, <3>2
    <2>2. CASE ~(i <= l)
      <3>1. i - l \in 1..m /\ i - l \in 1..w /\ p + l + (i - l) = p + i
        BY <1>3, <1>5, <1>12, <2>2
      <3>2. buf'[i] = t[i-l]
        BY <1>9, <1>10, <2>2
      <3>3. t[i-l] = wire[i-l] /\ wire[i-l] = F[p+l+(i-l)]
        BY <1>8, <1>11, <3>1, Zenon
      <3> QED
        BY <3>1, <3>2, <3>3, Zenon
    <2> QED
      BY <2>1, <2>2
  <1>14. ASSUME NEW i \in 1..w-m PROVE wire'[i] = F[p+(l+m)+i]
    <2>1. m + i \in 1..w /\ p + l + (m + i) = p + (l + m) + i
      BY <1>3, <1>12
    <2>2. wire'[i] = wire[m+i]
      BY <1>7, <1>10
    <2>3. wire[m+i] = F[p+l+(m+i)]
      BY <1>11, <2>1, Zenon
    <2> QED
      BY <2>1, <2>2, <2>3, Zenon
  <1>15. Len(buf') = l + m /\ Len(wire') = w - m
    BY <1>7, <1>9, <1>10
  <1>16. Reached(p)' = Reached(p)
    <2>1. p + (l + m) + (w - m) = p + l + w
      BY <1>3, <1>12
    <2> QED
      BY <1>10, <1>15, <2>1, Zenon DEF Reached
  <1>17. Arrived(F, e, G, g, p)'
    <2>1. \A i \in 1..Len(buf') : buf'[i] = F[p+i]
      BY <1>13, <1>15, Zenon
    <2>2. \A i \in 1..Len(wire') : wire'[i] = F[p + Len(buf') + i]
      BY <1>14, <1>15, Zenon
    <2> QED
      BY <1>2, <1>4, <1>16, <2>1, <2>2, Zenon DEF Arrived
  <1>18. Stream(F, e, G, g)'
    BY <1>2, <1>4, StillStream
  <1>19. Reading(F, e, G, g, n, p)'
    BY <1>2, <1>4, StillReading DEF Behind
  <1>20. Settled(n)'
    BY <1>2, <1>4, StillSettled
  <1> QED
    BY <1>2, <1>3, <1>4, <1>17, <1>18, <1>19, <1>20, Zenon DEF Placed, Ended

\* A peer that is gone: no more of the stream will come than has.
LEMMA GonePlaced ==
  ASSUME FrameInv, NEW F, NEW e, NEW G, NEW g, NEW n, NEW p, Placed(F, e, G, g, n, p),
         peer = "open", UNCHANGED <<dialect, sent, buf, loc, pending, octetVars, out>>,
         \/ peer' = "reset" /\ wire' = <<>>
         \/ peer' = "closed" /\ UNCHANGED wire
  PROVE  Placed(F, e, G, g, n, p)'
  <1>1. /\ F \in [Nat -> Byte] /\ e \in [Nat -> Nat] /\ g \in Nat /\ p \in Nat
        /\ Len(buf) \in Nat /\ Len(wire) \in Nat /\ e[g] \in Nat
        /\ Reached(p) = p + Len(buf) + Len(wire) /\ Reached(p) <= e[g]
    BY PlacedTypes, Zenon
  <1>2. Arrived(F, e, G, g, p) /\ Stream(F, e, G, g) /\ Reading(F, e, G, g, n, p)
        /\ Settled(n) /\ e[n] <= p /\ loc \notin Ended
    BY DEF Placed
  <1>3. g = Len(sent) /\ Reached(p) = e[g]
    BY <1>2 DEF Arrived
  <1>4. /\ \A i \in 1..Len(wire') : wire'[i] = F[p + Len(buf) + i]
        /\ Reached(p)' <= e[g] /\ (peer' = "closed" => e[g] <= Reached(p)')
    <2>1. CASE peer' = "reset" /\ wire' = <<>>
      <3>1. Len(wire') = 0 /\ 1..0 = {}
        BY <2>1, EmptyBytes
      <3>2. p + Len(buf) + 0 <= p + Len(buf) + Len(wire)
        BY <1>1
      <3>3. Reached(p)' = p + Len(buf) + 0
        BY <3>1 DEF Reached
      <3> QED
        BY <1>1, <2>1, <3>1, <3>2, <3>3
    <2>2. CASE peer' = "closed" /\ UNCHANGED wire
      <3>1. Reached(p)' = e[g]
        BY <1>3, <2>2 DEF Reached
      <3>2. \A i \in 1..Len(wire) : wire[i] = F[p + Len(buf) + i]
        BY <1>2 DEF Arrived
      <3>3. e[g] <= e[g]
        BY <1>1
      <3> QED
        BY <2>2, <3>1, <3>2, <3>3
    <2> QED
      BY <2>1, <2>2
  <1>5. Arrived(F, e, G, g, p)'
    <2>1. ~(g > g)
      BY <1>1
    <2>2. peer' # "open"
      OBVIOUS
    <2> QED
      BY <1>2, <1>3, <1>4, <2>1, <2>2, Zenon DEF Arrived
  <1>6. Stream(F, e, G, g)' /\ Settled(n)'
    BY <1>2, StillStream, StillSettled
  <1>7. Reading(F, e, G, g, n, p)'
    BY <1>2, StillReading DEF Behind
  <1> QED
    BY <1>1, <1>2, <1>5, <1>6, <1>7, Zenon DEF Placed, Ended

LEMMA DeadlinePlaced ==
  ASSUME FrameInv, NEW F, NEW e, NEW G, NEW g, NEW n, NEW p, Placed(F, e, G, g, n, p),
         UNCHANGED <<dialect, peer, sent, wire, buf, loc, pending, octetVars, out>>
  PROVE  Placed(F, e, G, g, n, p)'
  <1>1. /\ Stream(F, e, G, g)' /\ Settled(n)'
    BY StillStream, StillSettled DEF Placed
  <1>2. Reading(F, e, G, g, n, p)'
    BY StillReading DEF Placed, Behind
  <1>3. Arrived(F, e, G, g, p)'
    BY Zenon DEF Placed, Arrived, Reached
  <1> QED
    BY <1>1, <1>2, <1>3, Zenon DEF Placed

-----------------------------------------------------------------------------
(* A peer that writes another frame.                                       *)

\* F2, e2 and G2 go on, after the g frames of F, e and G, with those bytes of f.
Longer(F, e, G, g, F2, e2, G2, f, bytes) ==
    /\ F2 \in [Nat -> Byte] /\ e2 \in [Nat -> Nat]
    /\ \A i \in 1..e[g] : F2[i] = F[i]
    /\ \A i \in 1..Len(bytes) : F2[e[g] + i] = bytes[i]
    /\ \A i \in 0..g : e2[i] = e[i]
    /\ e2[g+1] = e[g] + Len(bytes)
    /\ \A i \in 1..g : G2[i] = G[i]
    /\ G2[g+1] = f

LEMMA LongerExists ==
  ASSUME NEW F \in [Nat -> Byte], NEW e \in [Nat -> Nat], NEW G, NEW g \in Nat,
         NEW f, NEW bytes \in Seq(Byte)
  PROVE  \E F2, e2, G2 : Longer(F, e, G, g, F2, e2, G2, f, bytes)
  <1>1. PICK q \in Nat, l \in Nat : q = e[g] /\ l = Len(bytes)
    BY LenProperties
  <1>2. \A i \in 1..l : bytes[i] \in Byte
    BY <1>1, ElementOfSeq
  <1> DEFINE F2 == [i \in Nat |-> IF i - q \in 1..l THEN bytes[i-q] ELSE F[i]]
             e2 == [i \in Nat |-> IF i = g + 1 THEN q + l ELSE e[i]]
             G2 == [i \in 1..g+1 |-> IF i = g + 1 THEN f ELSE G[i]]
  <1>3. F2 \in [Nat -> Byte] /\ e2 \in [Nat -> Nat]
    <2>1. ASSUME NEW i \in Nat PROVE (IF i - q \in 1..l THEN bytes[i-q] ELSE F[i]) \in Byte
      <3>1. F[i] \in Byte
        OBVIOUS
      <3> QED
        BY <1>2, <3>1
    <2>2. ASSUME NEW i \in Nat PROVE (IF i = g + 1 THEN q + l ELSE e[i]) \in Nat
      <3>1. q + l \in Nat /\ e[i] \in Nat
        OBVIOUS
      <3> QED
        BY <3>1
    <2> QED
      BY <2>1, <2>2
  <1>4. \A i \in 1..q : F2[i] = F[i]
    <2>1. \A i \in 1..q : i \in Nat /\ ~(i - q \in 1..l)
      BY <1>1
    <2> QED
      BY <2>1
  <1>5. \A i \in 1..l : F2[q+i] = bytes[i]
    <2>1. \A i \in 1..l : q + i \in Nat /\ (q + i) - q = i
      OBVIOUS
    <2> QED
      BY <2>1
  <1>6. /\ \A i \in 0..g : e2[i] = e[i]
        /\ e2[g+1] = q + l
    BY <1>1
  <1>7. /\ \A i \in 1..g : G2[i] = G[i]
        /\ G2[g+1] = f
    OBVIOUS
  <1> HIDE DEF F2, e2, G2
  <1>8. Longer(F, e, G, g, F2, e2, G2, f, bytes)
    BY <1>1, <1>3, <1>4, <1>5, <1>6, <1>7, Zenon DEF Longer
  <1> QED
    BY <1>8, Zenon

\* It is a stream, of one more frame.
LEMMA LongerStream ==
  ASSUME FrameInv, NEW F, NEW e, NEW G, NEW g, NEW n, NEW p, Placed(F, e, G, g, n, p),
         NEW f \in dialect, NEW bytes \in Encodings(f),
         NEW F2, NEW e2, NEW G2, Longer(F, e, G, g, F2, e2, G2, f, bytes)
  PROVE  Stream(F2, e2, G2, g + 1) /\ Len(bytes) \in Nat /\ e2[g] < e2[g+1]
  <1>1. /\ F \in [Nat -> Byte] /\ e \in [Nat -> Nat] /\ g \in Nat /\ dialect \in Dialects
    BY PlacedTypes, Zenon
  <1>2. /\ F2 \in [Nat -> Byte] /\ e2 \in [Nat -> Nat]
        /\ \A i \in 1..e[g] : F2[i] = F[i]
        /\ \A i \in 1..Len(bytes) : F2[e[g] + i] = bytes[i]
        /\ \A i \in 0..g : e2[i] = e[i]
        /\ e2[g+1] = e[g] + Len(bytes)
        /\ \A i \in 1..g : G2[i] = G[i]
        /\ G2[g+1] = f
    BY Zenon DEF Longer
  <1>3. /\ e[0] = 0
        /\ \A i \in 1..g : G[i] \in dialect /\ FrameAt(F, e[i-1], e[i], G[i])
        /\ \A i, j \in 0..g : i < j => e[i] < e[j]
    BY Zenon DEF Placed, Stream
  <1>4. PICK q \in Nat : q = e[g]
    BY <1>1
  <1>5. FrameAt(F2, q, q + Len(bytes), f) /\ Len(bytes) \in Nat \ {0}
    <2>1. \A i \in 1..Len(bytes) : F2[q+i] = bytes[i]
      BY <1>2, <1>4, Zenon
    <2>2. F2 \in [Nat -> Byte] /\ dialect \in Dialects
      BY <1>1, <1>2
    <2> QED
      BY <2>1, <2>2, Encoded
  <1>6. PICK b \in Nat : b = q + Len(bytes) /\ q < b
    BY <1>5
  <1>7. \A i \in 0..g : e[i] <= q
    <2> SUFFICES ASSUME NEW i \in 0..g PROVE e[i] <= q
      OBVIOUS
    <2>1. g \in 0..g /\ (i = g \/ i < g) /\ i \in Nat
      BY <1>1
    <2>2. i = g \/ e[i] < e[g]
      BY <1>3, <2>1, Zenon
    <2>3. e[i] \in Nat
      BY <1>1, <2>1
    <2> QED
      BY <1>4, <2>2, <2>3
  <1>8. ASSUME NEW i \in 1..g+1
        PROVE  G2[i] \in dialect /\ FrameAt(F2, e2[i-1], e2[i], G2[i])
    <2>1. CASE i = g + 1
      <3>1. (g + 1) - 1 = g /\ g \in 0..g
        BY <1>1
      <3>2. e2[i-1] = q /\ e2[i] = q + Len(bytes) /\ G2[i] = f
        BY <1>2, <1>4, <2>1, <3>1, Zenon
      <3> QED
        BY <1>5, <3>2, Zenon
    <2>2. CASE i # g + 1
      <3>1. i \in 1..g /\ i \in 0..g /\ i - 1 \in 0..g /\ i \in Nat /\ i - 1 \in Nat
        BY <1>1, <2>2
      <3>2. e2[i-1] = e[i-1] /\ e2[i] = e[i] /\ G2[i] = G[i]
        BY <1>2, <3>1, Zenon
      <3>3. G[i] \in dialect /\ FrameAt(F, e[i-1], e[i], G[i])
        BY <1>3, <3>1, Zenon
      <3>4. PICK a \in Nat, c \in Nat : a = e[i-1] /\ c = e[i]
        BY <1>1, <3>1
      <3>5. c <= q
        BY <1>7, <3>1, <3>4
      <3>10. \A j \in 1..c : j \in 1..q
        BY <3>5
      <3>6. \A j \in 1..c : F2[j] = F[j]
        BY <1>2, <1>4, <3>10, Zenon
      <3>7. Size(G[i]) \in Nat
        BY <1>1, <3>3, FrameTypes
      <3>8. FrameAt(F, a, c, G[i])
        BY <3>3, <3>4, Zenon
      <3>9. FrameAt(F2, a, c, G[i])
        BY <3>6, <3>7, <3>8, FrameAgrees
      <3> QED
        BY <3>2, <3>3, <3>4, <3>9, Zenon
    <2> QED
      BY <2>1, <2>2
  <1>9. ASSUME NEW i \in 0..g+1, NEW j \in 0..g+1, i < j PROVE e2[i] < e2[j]
    <2>1. i \in 0..g /\ i \in Nat
      BY <1>1, <1>9
    <2>2. CASE j = g + 1
      <3>1. e2[i] = e[i] /\ e2[j] = b /\ e[i] <= q
        BY <1>2, <1>4, <1>6, <1>7, <2>1, <2>2, Zenon
      <3>2. e[i] \in Nat
        BY <1>1, <2>1
      <3> QED
        BY <1>6, <3>1, <3>2
    <2>3. CASE j # g + 1
      <3>1. j \in 0..g
        BY <1>1, <2>3
      <3> QED
        BY <1>2, <1>3, <1>9, <2>1, <3>1, Zenon
    <2> QED
      BY <2>2, <2>3
  <1>10. e2[0] = 0 /\ g \in 0..g + 1 /\ g + 1 \in 0..g + 1 /\ g < g + 1
    <2>1. 0 \in 0..g
      BY <1>1
    <2>2. g \in 0..g + 1 /\ g + 1 \in 0..g + 1 /\ g < g + 1
      BY <1>1
    <2> QED
      BY <1>2, <1>3, <2>1, <2>2, Zenon
  <1> QED
    BY <1>5, <1>8, <1>9, <1>10 DEF Stream

\* What next is in the middle of does not change either.
LEMMA LongerReading ==
  ASSUME FrameInv, NEW F, NEW e, NEW G, NEW g, NEW n, NEW p, Placed(F, e, G, g, n, p),
         peer = "open", UNCHANGED <<dialect, loc, pending, octetVars>>,
         NEW f \in dialect, NEW bytes \in Encodings(f),
         NEW F2, NEW e2, NEW G2, Longer(F, e, G, g, F2, e2, G2, f, bytes)
  PROVE  Reading(F2, e2, G2, g + 1, n, p)' /\ e2[n] = e[n]
  <1>1. /\ F \in [Nat -> Byte] /\ e \in [Nat -> Nat] /\ g \in Nat /\ dialect \in Dialects
        /\ n \in Nat /\ n <= g /\ p \in Nat /\ e[n] \in Nat /\ e[n] <= p
    BY PlacedTypes, Zenon
  <1>2. /\ F2 \in [Nat -> Byte] /\ e2 \in [Nat -> Nat]
        /\ \A i \in 1..e[g] : F2[i] = F[i]
        /\ \A i \in 0..g : e2[i] = e[i]
        /\ \A i \in 1..g : G2[i] = G[i]
    BY Zenon DEF Longer
  <1>3. PICK q \in Nat : q = e[g] /\ p <= q
    <2>1. Reached(p) = p + Len(buf) + Len(wire) /\ Reached(p) <= e[g] /\ e[g] \in Nat
          /\ Len(buf) \in Nat /\ Len(wire) \in Nat
      BY PlacedTypes, Zenon
    <2>2. PICK x \in Nat, y \in Nat, q \in Nat : q = e[g] /\ p + x + y <= q
      BY <2>1, Zenon
    <2>3. p <= q
      BY <1>1, <2>2
    <2> QED
      BY <2>2, <2>3
  <1>4. PICK b \in Nat : b = e2[g+1] /\ q < b
    <2>1. e2[g] < e2[g+1] /\ e2[g] = e[g]
      <3>1. g \in 0..g
        BY <1>1
      <3> QED
        BY <1>2, <3>1, LongerStream, Zenon
    <2>2. e2[g+1] \in Nat
      BY <1>1, <1>2
    <2> QED
      BY <1>3, <2>1, <2>2, Zenon
  <1>5. e2[n] = e[n]
    <2>1. n \in 0..g
      BY <1>1
    <2> QED
      BY <1>2, <2>1, Zenon
  <1>6. ASSUME n < g PROVE e2[n+1] = e[n+1] /\ G2[n+1] = G[n+1] /\ e[n+1] \in Nat /\ e[n+1] <= q
    <2>1. n + 1 \in 0..g /\ n + 1 \in 1..g
      BY <1>1, <1>6
    <2>2. e[n+1] \in Nat /\ e[n+1] <= e[g]
      BY <1>6, NextFrame
    <2> QED
      BY <1>2, <1>3, <2>1, <2>2, Zenon
  <1>7. n < g \/ n = g
    BY <1>1
  <1>8. Clean(G2, g + 1) => Clean(G, g)
    <2>1. \A i \in 1..g : i \in 1..g+1
      BY <1>1
    <2> QED
      BY <1>2, <2>1, Zenon DEF Clean
  <1>9. LineNext(G, g, n) => LineNext(G2, g + 1, n)
    <2>1. n < g => n < g + 1
      BY <1>1
    <2> QED
      BY <1>6, <2>1, Zenon DEF LineNext
  <1>10. \A s : Holds(F, s, e[n], p) /\ s \in Seq(Byte) => Holds(F2, s, e2[n], p)
    <2> SUFFICES ASSUME NEW s \in Seq(Byte), Holds(F, s, e[n], p) PROVE Holds(F2, s, e2[n], p)
      OBVIOUS
    <2>1. PICK a \in Nat, l \in Nat : a = e[n] /\ l = Len(s) /\ a <= p
      BY <1>1, LenProperties
    <2>2. l = p - a /\ \A i \in 1..l : s[i] = F[a+i]
      BY <2>1, Zenon DEF Holds
    <2>5. l = p - a /\ p \in Nat /\ p <= q
      BY <1>1, <1>3, <2>2, Zenon
    <2>3. \A i \in 1..l : a + i \in 1..q
      BY <2>5
    <2>4. \A i \in 1..l : s[i] = F2[a+i]
      BY <1>2, <1>3, <2>2, <2>3, Zenon
    <2> QED
      BY <1>5, <2>1, <2>2, <2>4, Zenon DEF Holds
  <1>11. /\ pending \in Seq(Byte) /\ held \in Seq(Byte) /\ Octets' = Octets /\ ~Behind
    <2>1. pending \in Seq(Byte) /\ held \in Seq(Byte)
      BY PlacedTypes, Zenon
    <2> QED
      BY <2>1 DEF Octets, Behind
  <1>12. ASSUME n < g + 1
         PROVE  (n < g => p <= e[n+1]) => p <= e2[n+1]
    <2>1. CASE n < g
      BY <1>6, <2>1, Zenon
    <2>2. CASE n = g
      <3>1. p <= b
        BY <1>1, <1>3, <1>4
      <3> QED
        BY <1>4, <2>2, <3>1, Zenon
    <2> QED
      BY <1>7, <2>1, <2>2
  <1>13. ASSUME n < g + 1
         PROVE  (n < g => p < e[n+1]) => p < e2[n+1]
    <2>1. CASE n < g
      BY <1>6, <2>1, Zenon
    <2>2. CASE n = g
      <3>1. p < b
        BY <1>1, <1>3, <1>4
      <3> QED
        BY <1>4, <2>2, <3>1, Zenon
    <2> QED
      BY <1>7, <2>1, <2>2
  <1>14. AtTop(F, e, G, g, n, p) => AtTop(F2, e2, G2, g + 1, n, p)'
    <2> SUFFICES ASSUME AtTop(F, e, G, g, n, p) PROVE AtTop(F2, e2, G2, g + 1, n, p)'
      OBVIOUS
    <2>1. Holds(F2, pending, e2[n], p)'
      BY <1>10, <1>11 DEF AtTop, Holds
    <2>2. Clean(G2, g + 1) /\ n < g + 1 => p <= e2[n+1]
      BY <1>8, <1>12, Zenon DEF AtTop
    <2>3. Octets => pending = <<>> \/ LineNext(G2, g + 1, n)
      BY <1>9, Zenon DEF AtTop
    <2> QED
      BY <1>11, <2>1, <2>2, <2>3, Zenon DEF AtTop
  <1>15. AtSlice(F, e, G, g, n, p) => AtSlice(F2, e2, G2, g + 1, n, p)'
    <2> SUFFICES ASSUME AtSlice(F, e, G, g, n, p) PROVE AtSlice(F2, e2, G2, g + 1, n, p)'
      OBVIOUS
    <2>1. Holds(F2, pending, e2[n], p)'
      BY <1>10, <1>11 DEF AtSlice, Holds
    <2>2. Clean(G2, g + 1) /\ n < g + 1 => p < e2[n+1]
      BY <1>8, <1>13, Zenon DEF AtSlice
    <2>3. Octets => LineNext(G2, g + 1, n)
      BY <1>9, <1>11, Zenon DEF AtSlice
    <2> QED
      BY <1>11, <2>1, <2>2, <2>3, Zenon DEF AtSlice
  <1>16. Within(e, g, n, p) => Within(e2, g + 1, n, p) /\ n < g
    <2>1. n < g => n < g + 1
      BY <1>1
    <2> QED
      BY <1>6, <2>1, Zenon DEF Within
  <1>17. ASSUME n < g, AtProbe(F, e, G, n, p) PROVE AtProbe(F2, e2, G2, n, p)'
    <2>1. Holds(F2, held, e2[n], p)'
      BY <1>10, <1>11, <1>17 DEF AtProbe, Holds
    <2>2. PICK a \in Nat, c \in Nat : a = e[n] /\ c = e[n+1] /\ a < c /\ c <= q
      BY <1>1, <1>6, <1>17, NextFrame, Zenon
    <2>3. IsDigit(F2[e2[n] + 1])
      <3>1. a + 1 \in 1..q
        BY <1>3, <2>2
      <3> QED
        BY <1>2, <1>3, <1>5, <1>17, <2>2, <3>1, Zenon DEF AtProbe
    <2>4. ASSUME G[n+1].style = "octet"
          PROVE  \E h \in 1..MaxDigits : \E v \in [0..h -> 0..Size(G[n+1])] :
                     /\ Header(F2, a, G[n+1], h, v)
                     /\ c = a + h + 1 + Size(G[n+1])
                     /\ Len(held) <= h /\ count = v[Len(held)]
      <3>1. PICK h \in 1..MaxDigits : \E v \in [0..h -> 0..Size(G[n+1])] :
                     /\ Header(F, a, G[n+1], h, v)
                     /\ c = a + h + 1 + Size(G[n+1])
                     /\ Len(held) <= h /\ count = v[Len(held)]
        BY <1>17, <2>2, <2>4, Zenon DEF AtProbe
      <3>2. PICK v \in [0..h -> 0..Size(G[n+1])] :
                     /\ Header(F, a, G[n+1], h, v)
                     /\ c = a + h + 1 + Size(G[n+1])
                     /\ Len(held) <= h /\ count = v[Len(held)]
        BY <3>1
      <3>3. PICK s \in Nat : s = Size(G[n+1])
        <4>1. PICK x \in dialect : x = G[n+1]
          BY <1>17, NextFrame, Zenon
        <4> QED
          BY <1>1, <4>1, FrameTypes
      <3>4. h \in Nat /\ c = a + h + 1 + s
        BY <3>2, <3>3, Constants
      <3>8. c = a + h + 1 + s /\ c <= q /\ h \in Nat
        BY <2>2, <3>4
      <3>5. (\A i \in 1..h : a + i \in 1..q) /\ a + h + 1 \in 1..q
        BY <3>8
      <3>6. (\A i \in 1..h : F2[a+i] = F[a+i]) /\ F2[a+h+1] = F[a+h+1]
        BY <1>2, <1>3, <3>5, Zenon
      <3>7. Header(F2, a, G[n+1], h, v)
        BY <3>2, <3>6, Zenon DEF Header
      <3> QED
        BY <3>2, <3>7, Zenon
    <2>5. G2[n+1] = G[n+1] /\ e2[n+1] = c /\ e2[n] = a
      BY <1>5, <1>6, <1>17, <2>2, Zenon
    <2>6. G2[n+1].style = "octet" =>
           \E h \in 1..MaxDigits : \E v \in [0..h -> 0..Size(G2[n+1])] :
                     /\ Header(F2, e2[n], G2[n+1], h, v)
                     /\ e2[n+1] = e2[n] + h + 1 + Size(G2[n+1])
                     /\ Len(held') <= h /\ count' = v[Len(held')]
      BY <2>4, <2>5
    <2>7. \A i \in 1..Len(held') : IsDigit(held'[i])
      BY <1>17 DEF AtProbe
    <2> QED
      BY <2>1, <2>3, <2>6, <2>7, Zenon DEF AtProbe
  <1>18. ASSUME n < g, AtPayload(e, G, n, p) PROVE AtPayload(e2, G2, n, p)'
    <2>1. G2[n+1] = G[n+1] /\ e2[n+1] = e[n+1]
      BY <1>6, <1>18
    <2> QED
      BY <1>18, <2>1 DEF AtPayload
  <1>19. ASSUME n < g, AtFlush(e, G, n, p) PROVE AtFlush(e2, G2, n, p)
    BY <1>5, <1>6, <1>19 DEF AtFlush
  <1>20. Reading(F, e, G, g, n, p)
    BY DEF Placed
  <1>21. Reading(F2, e2, G2, g + 1, n, p)'
    <2>1. (loc = "top" => AtTop(F2, e2, G2, g + 1, n, p)')
          /\ (loc = "slice" => AtSlice(F2, e2, G2, g + 1, n, p)')
      BY <1>14, <1>15, <1>20, Zenon DEF Reading
    <2>2. loc = "peek" => p = e2[n]
      BY <1>5, <1>20, Zenon DEF Reading
    <2>3. loc \in {"probe", "copy", "body", "flush"} => Within(e2, g + 1, n, p) /\ n < g
      BY <1>16, <1>20, Zenon DEF Reading
    <2>4. loc = "probe" => AtProbe(F2, e2, G2, n, p)'
      BY <1>17, <1>20, <2>3 DEF Reading
    <2>5. loc \in {"copy", "body"} => AtPayload(e2, G2, n, p)'
      BY <1>18, <1>20, <2>3 DEF Reading
    <2>6. loc = "flush" => AtFlush(e2, G2, n, p)
      BY <1>19, <1>20, <2>3 DEF Reading
    <2> QED
      BY <2>1, <2>2, <2>3, <2>4, <2>5, <2>6, Zenon DEF Reading, AtFlush, Within
  <1> QED
    BY <1>5, <1>21

\* The first m bytes of the frame arrive: all of them, and it has been sent, or
\* not all, and it is cut off.
LEMMA LongerPlaced ==
  ASSUME FrameInv, NEW F, NEW e, NEW G, NEW g, NEW n, NEW p, Placed(F, e, G, g, n, p),
         peer = "open", UNCHANGED <<dialect, buf, loc, pending, octetVars>>,
         NEW f \in dialect, NEW bytes \in Encodings(f),
         NEW m \in 1..Len(bytes), wire' = wire \o SubSeq(bytes, 1, m),
         \/ m = Len(bytes) /\ sent' = Append(sent, f) /\ peer' = "open"
         \/ m < Len(bytes) /\ sent' = sent /\ peer' = "closed",
         Settled(n)'
  PROVE  \E F2, e2, G2, g2 : Placed(F2, e2, G2, g2, n, p)'
  <1>1. /\ F \in [Nat -> Byte] /\ e \in [Nat -> Nat] /\ g \in Nat /\ p \in Nat
        /\ dialect \in Dialects /\ buf \in Seq(Byte) /\ wire \in Seq(Byte)
        /\ Len(buf) \in Nat /\ Len(wire) \in Nat /\ Len(sent) \in Nat /\ sent \in Seq(dialect)
        /\ Reached(p) = p + Len(buf) + Len(wire)
    BY PlacedTypes, Zenon
  <1>2. bytes \in Seq(Byte)
    BY <1>1, EncodingType
  <1>3. PICK F2, e2, G2 : Longer(F, e, G, g, F2, e2, G2, f, bytes)
    BY <1>1, <1>2, LongerExists
  <1>4. Stream(F2, e2, G2, g + 1) /\ Len(bytes) \in Nat
    BY <1>3, LongerStream, Zenon
  <1>5. Reading(F2, e2, G2, g + 1, n, p)' /\ e2[n] = e[n]
    BY <1>3, LongerReading
  <1>6. /\ F2 \in [Nat -> Byte] /\ e2 \in [Nat -> Nat]
        /\ \A i \in 1..e[g] : F2[i] = F[i]
        /\ \A i \in 1..Len(bytes) : F2[e[g] + i] = bytes[i]
        /\ \A i \in 0..g : e2[i] = e[i]
        /\ e2[g+1] = e[g] + Len(bytes)
        /\ \A i \in 1..g : G2[i] = G[i]
        /\ G2[g+1] = f
    BY <1>3, Zenon DEF Longer
  <1>7. /\ g = Len(sent) /\ Reached(p) = e[g]
        /\ \A i \in 1..Len(buf) : buf[i] = F[p+i]
        /\ \A i \in 1..Len(wire) : wire[i] = F[p + Len(buf) + i]
        /\ \A i \in 1..Len(sent) : G[i] = sent[i]
    BY Zenon DEF Placed, Arrived
  <1>8. PICK q \in Nat, l \in Nat, w \in Nat, b \in Nat :
            /\ q = e[g] /\ l = Len(buf) /\ w = Len(wire) /\ b = Len(bytes) /\ q = p + l + w
    <2>1. e[g] \in Nat
      BY <1>1
    <2>2. e[g] = p + Len(buf) + Len(wire)
      BY <1>1, <1>7, Zenon
    <2>3. Len(buf) \in Nat /\ Len(wire) \in Nat /\ Len(bytes) \in Nat
      BY <1>1, <1>4
    <2> QED
      BY <2>1, <2>2, <2>3, Zenon
  <1>9. m \in 1..b /\ m \in Nat /\ q = p + l + w /\ p \in Nat
    BY <1>1, <1>8
  <1> DEFINE t == SubSeq(bytes, 1, m)
  <1>10. /\ t \in Seq(Byte) /\ Len(t) = m /\ \A i \in 1..m : t[i] = bytes[i]
    <2>1. m \in 0..Len(bytes)
      BY <1>8, <1>9
    <2> QED
      BY <1>2, <2>1, Prefix
  <1> HIDE DEF t
  <1>11. /\ Len(wire') = w + m
         /\ \A i \in 1..w + m : wire'[i] = IF i <= w THEN wire[i] ELSE t[i-w]
    <2>1. /\ Len(wire \o t) = Len(wire) + Len(t)
          /\ \A i \in 1..Len(wire) + Len(t) :
                 (wire \o t)[i] = IF i <= Len(wire) THEN wire[i] ELSE t[i - Len(wire)]
      BY <1>1, <1>10, ConcatProperties
    <2>2. wire' = wire \o t
      BY DEF t
    <2> QED
      BY <1>8, <1>10, <2>1, <2>2, Zenon
  <1>12. \A i \in 1..l : buf'[i] = F2[p+i]
    <2>1. \A i \in 1..l : p + i \in 1..q
      BY <1>9
    <2> QED
      BY <1>6, <1>7, <1>8, <2>1, Zenon
  <1>13. ASSUME NEW i \in 1..w + m PROVE wire'[i] = F2[p + l + i]
    <2>1. CASE i <= w
      <3>1. i \in 1..w /\ p + l + i \in 1..q
        BY <1>9, <2>1
      <3>2. wire'[i] = wire[i]
        BY <1>11, <2>1
      <3> QED
        BY <1>6, <1>7, <1>8, <3>1, <3>2, Zenon
    <2>2. CASE ~(i <= w)
      <3>1. i - w \in 1..m /\ i - w \in 1..b /\ q + (i - w) = p + l + i
        BY <1>9, <2>2
      <3>2. wire'[i] = t[i-w]
        BY <1>11, <2>2
      <3>3. t[i-w] = bytes[i-w]
        BY <1>10, <3>1, Zenon
      <3>4. \A j \in 1..b : F2[q+j] = bytes[j]
        BY <1>6, <1>8, Zenon
      <3>5. F2[q+(i-w)] = bytes[i-w]
        BY <3>1, <3>4, Zenon
      <3> QED
        BY <3>1, <3>2, <3>3, <3>5, Zenon
    <2> QED
      BY <2>1, <2>2
  <1>14. Reached(p)' = q + m /\ e2[g+1] = q + b /\ e2[g] = q
    <2>1. g \in 0..g
      BY <1>1
    <2>2. p + l + (w + m) = q + m
      BY <1>9
    <2>3. Reached(p)' = p + l + (w + m)
      BY <1>8, <1>11, Zenon DEF Reached
    <2> QED
      BY <1>6, <1>8, <2>1, <2>2, <2>3, Zenon
  <1>15. Arrived(F2, e2, G2, g + 1, p)'
    <2>1. \A i \in 1..Len(buf') : buf'[i] = F2[p+i]
      BY <1>8, <1>12, Zenon
    <2>2. \A i \in 1..Len(wire') : wire'[i] = F2[p + Len(buf') + i]
      BY <1>8, <1>11, <1>13, Zenon
    <2>3. q + m <= q + b /\ q <= q + m /\ (m < b => q + m < q + b) /\ ~(g + 1 > g + 1)
      BY <1>1, <1>9
    <2>4. CASE m = Len(bytes) /\ sent' = Append(sent, f) /\ peer' = "open"
      <3>1. Len(sent') = g + 1 /\ \A i \in 1..g : sent'[i] = sent[i] /\ sent'[g+1] = f
        BY <1>1, <1>7, <2>4, AppendProperties
      <3>2. ASSUME NEW i \in 1..g + 1 PROVE G2[i] = sent'[i]
        <4>1. i \in 1..g \/ i = g + 1
          BY <1>1
        <4>2. sent'[g+1] = f
          BY <1>1, <1>7, <2>4, AppendProperties
        <4> QED
          BY <1>6, <1>7, <3>1, <4>1, <4>2, Zenon
      <3>3. Reached(p)' = e2[g+1]
        BY <1>8, <1>14, <2>4
      <3>4. peer' # "closed"
        BY <2>4
      <3> QED
        BY <1>14, <2>1, <2>2, <2>3, <3>1, <3>2, <3>3, <3>4, Zenon DEF Arrived
    <2>5. CASE m < Len(bytes) /\ sent' = sent /\ peer' = "closed"
      <3>1. Len(sent') = g /\ \A i \in 1..g : G2[i] = sent'[i]
        BY <1>6, <1>7, <2>5, Zenon
      <3>2. q + m < q + b
        BY <1>8, <2>3, <2>5
      <3>3. peer' # "open"
        BY <2>5
      <3> QED
        BY <1>14, <2>1, <2>2, <2>3, <3>1, <3>2, <3>3, Zenon DEF Arrived
    <2> QED
      BY <2>4, <2>5
  <1>16. Stream(F2, e2, G2, g + 1)'
    BY <1>4, StillStream
  <1>17. e2[n] <= p /\ loc' \notin Ended /\ g + 1 \in Nat
    BY <1>1, <1>5 DEF Placed, Ended
  <1>18. Placed(F2, e2, G2, g + 1, n, p)'
    BY <1>1, <1>5, <1>6, <1>15, <1>16, <1>17, Zenon DEF Placed, Ended
  <1> QED
    BY <1>18

LEMMA SendPlaced ==
  ASSUME FrameInv, NEW F, NEW e, NEW G, NEW g, NEW n, NEW p, Placed(F, e, G, g, n, p), Send
  PROVE  \E F2, e2, G2, g2 : Placed(F2, e2, G2, g2, n, p)'
  <1>1. /\ peer = "open" /\ peer' = "open"
        /\ UNCHANGED <<dialect, buf, loc, pending, octetVars, out>>
    BY DEF Send, ReaderUnchanged
  <1>2. PICK f \in dialect : \E bytes \in Encodings(f) :
            sent' = Append(sent, f) /\ wire' = wire \o bytes
    BY DEF Send
  <1>3. PICK bytes \in Encodings(f) : sent' = Append(sent, f) /\ wire' = wire \o bytes
    BY <1>2
  <1>4. dialect \in Dialects /\ TypeOK
    BY PlacedTypes, Zenon
  <1>5. bytes \in Seq(Byte)
    BY <1>4, EncodingType
  <1>6. Len(bytes) \in 1..Len(bytes) /\ SubSeq(bytes, 1, Len(bytes)) = bytes
    <2>1. PICK b \in Nat : b = Len(bytes) /\ b # 0
      <3>1. \E F2, e2, G2 : Longer(F, e, G, g, F2, e2, G2, f, bytes)
        BY <1>5, PlacedTypes, LongerExists
      <3>2. PICK F2, e2, G2 : Longer(F, e, G, g, F2, e2, G2, f, bytes)
        BY <3>1
      <3>3. Len(bytes) \in Nat /\ e2[g] < e2[g+1]
        BY <3>2, LongerStream
      <3>4. e2[g+1] = e[g] + Len(bytes) /\ e2[g] = e[g] /\ e[g] \in Nat
        <4>1. g \in 0..g /\ e[g] \in Nat
          BY PlacedTypes
        <4> QED
          BY <3>2, <4>1, Zenon DEF Longer
      <3> QED
        BY <3>3, <3>4
    <2>2. /\ SubSeq(bytes, 1, b) \in Seq(Byte) /\ Len(SubSeq(bytes, 1, b)) = b
          /\ \A i \in 1..b : SubSeq(bytes, 1, b)[i] = bytes[i]
      <3>1. b \in 0..Len(bytes)
        BY <2>1
      <3> QED
        BY <1>5, <3>1, Prefix
    <2>3. SubSeq(bytes, 1, b) = bytes
      BY <1>5, <2>1, <2>2, SeqEqual
    <2> QED
      BY <2>1, <2>3
  <1>7. Settled(n)'
    BY <1>1, <1>3, <1>4, SettledBeforeSend DEF Placed
  <1>8. wire' = wire \o SubSeq(bytes, 1, Len(bytes))
    BY <1>3, <1>6
  <1> QED
    BY <1>1, <1>3, <1>6, <1>7, <1>8, LongerPlaced

LEMMA HangUpPlaced ==
  ASSUME FrameInv, NEW F, NEW e, NEW G, NEW g, NEW n, NEW p, Placed(F, e, G, g, n, p), HangUp
  PROVE  \E F2, e2, G2, g2 : Placed(F2, e2, G2, g2, n, p)'
  <1>1. /\ peer = "open" /\ peer' = "closed"
        /\ UNCHANGED <<dialect, sent, buf, loc, pending, octetVars, out>>
    BY DEF HangUp, ReaderUnchanged
  <1>2. CASE UNCHANGED wire
    <2>1. Placed(F, e, G, g, n, p)'
      BY <1>1, <1>2, GonePlaced
    <2> QED
      BY <2>1
  <1>3. CASE ~UNCHANGED wire
    <2>1. PICK f \in dialect : \E bytes \in Encodings(f) : \E m \in 1..Len(bytes)-1 :
              wire' = wire \o SubSeq(bytes, 1, m)
      BY <1>3 DEF HangUp
    <2>2. PICK bytes \in Encodings(f) : \E m \in 1..Len(bytes)-1 :
              wire' = wire \o SubSeq(bytes, 1, m)
      BY <2>1
    <2>3. PICK m \in 1..Len(bytes)-1 : wire' = wire \o SubSeq(bytes, 1, m)
      BY <2>2
    <2>4. m \in 1..Len(bytes) /\ m < Len(bytes)
      <3>1. dialect \in Dialects
        BY PlacedTypes, Zenon
      <3>2. Len(bytes) \in Nat
        BY <3>1, EncodingType, LenProperties
      <3> QED
        BY <3>2
    <2>5. Settled(n)'
      BY <1>1, StillSettled DEF Placed
    <2> QED
      BY <1>1, <2>3, <2>4, <2>5, LongerPlaced
  <1> QED
    BY <1>2, <1>3

-----------------------------------------------------------------------------
(* There always is such a stream.                                          *)

LEMMA StreamStart == Init => StreamInv
  <1> SUFFICES ASSUME Init PROVE StreamInv
    OBVIOUS
  <1> DEFINE F == [i \in Nat |-> 0]
             e == [i \in Nat |-> 0]
  <1>1. /\ wire = <<>> /\ buf = <<>> /\ pending = <<>> /\ sent = <<>> /\ out = <<>>
        /\ loc = "top" /\ peer = "open"
    BY DEF Init
  <1>2. Len(<<>>) = 0 /\ 1..0 = {} /\ 0 + 0 + 0 = 0 /\ 0 - 0 = 0 /\ 0 \in 0..0
        /\ 0 <= 0 /\ ~(0 < 0) /\ 0 \in Nat /\ 0 \in Byte
    BY EmptyBytes DEF Byte
  <1>3. F \in [Nat -> Byte] /\ e \in [Nat -> Nat] /\ e[0] = 0
    BY <1>2
  <1> HIDE DEF F, e
  <1>4. Stream(F, e, <<>>, 0)
    <2>1. \A i, j \in 0..0 : i = 0 /\ j = 0
      OBVIOUS
    <2>2. \A i, j \in 0..0 : i < j => e[i] < e[j]
      BY <1>2, <2>1, Zenon
    <2>3. \A i \in 1..0 : <<>>[i] \in dialect /\ FrameAt(F, e[i-1], e[i], <<>>[i])
      BY <1>2, Zenon
    <2> QED
      BY <1>3, <2>2, <2>3 DEF Stream
  <1>5. Reached(0) = 0 /\ Len(sent) = 0 /\ Len(buf) = 0 /\ Len(wire) = 0 /\ Len(pending) = 0
    BY <1>1, <1>2, Zenon DEF Reached
  <1>6. Arrived(F, e, <<>>, 0, 0)
    BY <1>1, <1>2, <1>3, <1>5 DEF Arrived
  <1>7. Settled(0)
    <2>1. Place(0) = 0
      BY <1>2, Places
    <2>2. Messages(0) = {}
      BY DEF Messages
    <2>3. 0 \in 0..Len(sent) /\ Len(out) = Place(0)
      BY <1>1, <1>2, <1>5, <2>1, Zenon
    <2> QED
      BY <2>2, <2>3, Zenon DEF Settled
  <1>8. AtTop(F, e, <<>>, 0, 0, 0)
    BY <1>1, <1>2, <1>3, <1>5, Zenon DEF AtTop, Holds
  <1>9. Reading(F, e, <<>>, 0, 0, 0) /\ loc \notin Ended
    BY <1>1, <1>8 DEF Reading, Ended
  <1>10. e[0] <= 0
    BY <1>3
  <1>11. Placed(F, e, <<>>, 0, 0, 0)
    BY <1>2, <1>3, <1>4, <1>6, <1>7, <1>9, <1>10, Zenon DEF Placed
  <1> QED
    BY <1>11, Zenon DEF StreamInv

\* Once a boundary has been passed over, it has.
LEMMA StillSkipped ==
  ASSUME FrameInv, [Next]_vars, skipped, Octets
  PROVE  (skipped /\ Octets)'
  <1>1. UNCHANGED dialect
    BY DEF Next, Reader, NextStep, vars, Send, HangUp, Reset, DeadlinePasses, Fill, TakeFrame,
       StartDiscarding, StartReading, Flush, Peek, PeekFails, ProbeDigit, ProbeCount,
       ProbeGivesUp, ReadCounted, ReadFails, Slice, SliceFails, Terminated
  <1>2. skipped' = skipped \/ skipped' = (skipped \/ TimedOut)
    BY DEF Next, Reader, NextStep, vars, Send, HangUp, Reset, DeadlinePasses, Fill, TakeFrame,
       StartDiscarding, StartReading, Flush, Peek, PeekFails, ProbeDigit, ProbeCount,
       ProbeGivesUp, ReadCounted, ReadFails, Slice, SliceFails, Terminated, ReaderUnchanged
  <1>3. skipped'
    BY <1>2, Zenon
  <1> QED
    BY <1>1, <1>3 DEF Octets

\* A handler that has ended does nothing more.
LEMMA StillOver ==
  ASSUME FrameInv, [Next]_vars, NEW n, Over(n)
  PROVE  Over(n)'
  <1>1. loc \in Ended /\ Settled(n) /\ (loc = "eof" => peer # "open")
    BY DEF Over
  <1>2. ~Starved
    BY <1>1 DEF Starved, Ended
  <1>3. ~NextStep
    BY <1>1, <1>2 DEF NextStep, Ended, TakeFrame, StartDiscarding, StartReading, Flush,
       Peek, PeekFails, ProbeDigit, ProbeCount, ProbeGivesUp, ReadCounted, ReadFails,
       Slice, SliceFails
  <1>4. ~Fill /\ ~Send /\ ~DeadlinePasses
    BY <1>1, <1>2 DEF Fill, Send, DeadlinePasses
  <1>5. \/ HangUp \/ Reset
        \/ UNCHANGED vars
    BY <1>3, <1>4 DEF Next, Reader, Terminated
  <1>6. CASE HangUp \/ Reset
    <2>1. peer = "open" /\ UNCHANGED <<sent, out, loc>>
      BY <1>6 DEF HangUp, Reset, ReaderUnchanged
    <2>2. Settled(n)' /\ loc # "eof"
      BY <1>1, <2>1, StillSettled
    <2> QED
      BY <1>1, <2>1, <2>2 DEF Over, Ended
  <1>7. CASE UNCHANGED vars
    <2>1. UNCHANGED <<sent, out, loc, peer>>
      BY <1>7 DEF vars
    <2>2. Settled(n)'
      BY <1>1, <2>1, StillSettled
    <2> QED
      BY <2>1, <2>2 DEF Over, Ended
  <1> QED
    BY <1>5, <1>6, <1>7

LEMMA StreamStep ==
  ASSUME FrameInv, StreamInv, [Next]_vars
  PROVE  StreamInv'
  <1>1. CASE skipped /\ Octets
    BY <1>1, StillSkipped DEF StreamInv
  <1>2. CASE \E n : Over(n)
    <2>1. PICK n : Over(n)
      BY <1>2
    <2>2. Over(n)'
      BY <2>1, StillOver
    <2> QED
      BY <2>2, Zenon DEF StreamInv
  <1>3. CASE \E F, e, G, g, n, p : Placed(F, e, G, g, n, p)
    <2>1. PICK F, e, G, g, n, p : Placed(F, e, G, g, n, p)
      BY <1>3
    <2>2. ASSUME \E k, q : Placed(F, e, G, g, k, q)' PROVE StreamInv'
      BY <2>2, Zenon DEF StreamInv
    <2>3. ASSUME \E F2, e2, G2, g2 : Placed(F2, e2, G2, g2, n, p)' PROVE StreamInv'
      BY <2>3, Zenon DEF StreamInv
    <2>4. ASSUME Placed(F, e, G, g, n, p)' PROVE StreamInv'
      BY <2>4, Zenon DEF StreamInv
    <2>5. CASE Send
      BY <2>1, <2>3, <2>5, SendPlaced
    <2>6. CASE HangUp
      BY <2>1, <2>3, <2>6, HangUpPlaced
    <2>7. CASE Reset
      <3>1. /\ peer = "open" /\ UNCHANGED <<dialect, sent, buf, loc, pending, octetVars, out>>
            /\ peer' = "reset" /\ wire' = <<>>
        BY <2>7 DEF Reset, ReaderUnchanged
      <3> QED
        BY <2>1, <2>4, <3>1, GonePlaced
    <2>8. CASE DeadlinePasses \/ UNCHANGED vars
      <3>1. UNCHANGED <<dialect, peer, sent, wire, buf, loc, pending, octetVars, out>>
        BY <2>8 DEF DeadlinePasses, ReaderUnchanged, vars
      <3> QED
        BY <2>1, <2>4, <3>1, DeadlinePlaced
    <2>9. CASE Fill
      BY <2>1, <2>4, <2>9, FillPlaced
    <2>10. CASE NextStep
      <3>1. CASE TakeFrame \/ StartDiscarding \/ StartReading \/ Flush \/ Peek
        BY <2>1, <2>2, <3>1, TakeFramePlaced, StartDiscardingPlaced, StartReadingPlaced,
           FlushPlaced, PeekPlaced
      <3>2. CASE ProbeDigit \/ ProbeCount \/ ProbeGivesUp \/ ReadCounted \/ Slice
        BY <2>1, <2>2, <3>2, ProbeDigitPlaced, ProbeCountPlaced, ProbeGivesUpPlaced,
           ReadCountedPlaced, SlicePlaced
      <3>3. CASE PeekFails
        <4>1. (skipped /\ Octets)' \/ \E k, q : Placed(F, e, G, g, k, q)'
          BY <2>1, <3>3, PeekFailsPlaced
        <4> QED
          BY <2>2, <4>1, Zenon DEF StreamInv
      <3>4. CASE ReadFails
        <4>1. Over(n)'
          BY <2>1, <3>4, ReadFailsPlaced
        <4> QED
          BY <4>1, Zenon DEF StreamInv
      <3>5. CASE SliceFails
        <4>1. Over(n)' \/ \E k, q : Placed(F, e, G, g, k, q)'
          BY <2>1, <3>5, SliceFailsPlaced
        <4> QED
          BY <2>2, <4>1, Zenon DEF StreamInv
      <3> QED
        BY <2>10, <3>1, <3>2, <3>3, <3>4, <3>5 DEF NextStep
    <2> QED
      BY <2>5, <2>6, <2>7, <2>8, <2>9, <2>10 DEF Next, Reader, Terminated
  <1> QED
    BY <1>1, <1>2, <1>3 DEF StreamInv

LEMMA StreamAlways == Spec => [](FrameInv /\ StreamInv)
  <1>1. Init => FrameInv /\ StreamInv
    BY FrameInit, StreamStart
  <1>2. FrameInv /\ StreamInv /\ [Next]_vars => (FrameInv /\ StreamInv)'
    BY FrameStep, StreamStep
  <1> QED
    BY <1>1, <1>2, PTL DEF Spec

-----------------------------------------------------------------------------
(* What comes out.                                                         *)

\* The messages of the frames settled are what came out, in their order.
LEMMA SettledIsIntact ==
  ASSUME TypeOK, NEW n, Settled(n)
  PROVE  /\ Len(out) <= Place(Len(sent))
         /\ \A i \in Messages(Len(sent)) : Place(i) <= Len(out) => Renders(sent[i], out[Place(i)])
  <1>1. PICK m \in Nat : m = Len(sent) /\ n \in Nat /\ n <= m
    <2>1. Len(sent) \in Nat
      BY LenProperties DEF TypeOK
    <2> QED
      BY <2>1 DEF Settled
  <1>2. Len(out) = Place(n) /\ \A i \in Messages(n) : Renders(sent[i], out[Place(i)])
    BY DEF Settled
  <1>3. Place(n) \in Nat /\ Place(m) \in Nat /\ Place(n) <= Place(m)
    BY <1>1, Places, PlacesGrow
  <1>4. ASSUME NEW i \in Messages(m), Place(i) <= Place(n) PROVE i \in Messages(n)
    <2>1. i \in 1..m /\ Message(sent[i]) # <<>> /\ i \in Nat /\ i - 1 \in Nat /\ (i-1) + 1 = i
      BY DEF Messages
    <2>2. i <= n
      <3> SUFFICES ASSUME n < i PROVE FALSE
        BY <1>1, <2>1
      <3>1. n <= i - 1
        BY <1>1, <2>1
      <3>2. Place(n) <= Place(i-1)
        BY <1>1, <2>1, <3>1, PlacesGrow
      <3>3. Place(i) = Place(i-1) + 1 /\ Place(i-1) \in Nat
        BY <2>1, NextPlace, Places
      <3> QED
        BY <1>3, <1>4, <3>2, <3>3
    <2>3. i \in 1..n
      BY <1>1, <2>1, <2>2
    <2> QED
      BY <2>1, <2>3 DEF Messages
  <1> QED
    BY <1>1, <1>2, <1>3, <1>4, Zenon

\* Whatever the frames contain and however their bytes are cut into reads, a
\* handler ingests the messages of a connection in order, each once and whole,
\* counts an oversized one at its place, and makes nothing of a frame that was
\* cut off; a peer that hangs up loses none (frame.go:51-181, tcp.go:79).  Not
\* so for octet counts after a silence as long as the idle timeout.
THEOREM FramesComeOutIntact == Spec => []FramesIntactUnlessPaused
  <1>1. FrameInv /\ StreamInv => FramesIntactUnlessPaused
    <2> SUFFICES ASSUME FrameInv, StreamInv, ~(skipped /\ Octets) PROVE FramesIntact
      BY DEF FramesIntactUnlessPaused, Octets
    <2>1. TypeOK
      BY DEF FrameInv
    <2>2. CASE \E n : Over(n)
      <3>1. PICK n : Over(n)
        BY <2>2
      <3>2. Settled(n) /\ (loc = "eof" /\ peer = "closed" => n = Len(sent))
        BY <3>1 DEF Over
      <3>3. loc = "eof" /\ peer = "closed" => AllOut
        BY <3>2 DEF Settled, AllOut
      <3> QED
        BY <2>1, <3>2, <3>3, SettledIsIntact DEF FramesIntact
    <2>3. CASE \E F, e, G, g, n, p : Placed(F, e, G, g, n, p)
      <3>1. PICK F, e, G, g, n, p : Placed(F, e, G, g, n, p)
        BY <2>3
      <3>2. Settled(n) /\ loc # "eof"
        BY <3>1 DEF Placed, Ended
      <3> QED
        BY <2>1, <3>2, SettledIsIntact DEF FramesIntact
    <2> QED
      BY <2>2, <2>3 DEF StreamInv
  <1> QED
    BY <1>1, StreamAlways, PTL

\* While next blocks on a quiet peer, everything it has sent has come out: only a
\* frame that ends in NUL, or a line of nothing but digits, waits for the next LF
\* (frame.go:94-107).
THEOREM NothingWaits == Spec => []NothingHeldBack
  <1>1. FrameInv /\ StreamInv => NothingHeldBack
    <2> SUFFICES ASSUME FrameInv, StreamInv, Starved, wire = <<>>, peer = "open", ~skipped,
                        \A i \in 1..Len(sent) : ~HeldBack(sent[i])
                 PROVE  AllOut
      BY DEF NothingHeldBack
    <2>1. \A n : ~Over(n)
      BY DEF Over, Starved, Ended
    <2>2. PICK F, e, G, g, n, p : Placed(F, e, G, g, n, p)
      BY <2>1 DEF StreamInv
    <2>3. PICK l \in Nat, q \in Nat : /\ l = Len(buf) /\ q = e[g] /\ q = p + l
      <3>1. /\ Len(buf) \in Nat /\ e[g] \in Nat /\ p \in Nat
            /\ Reached(p) = p + Len(buf) + Len(wire)
        BY <2>2, PlacedTypes, Zenon
      <3>2. Len(wire) = 0
        BY EmptyBytes
      <3>3. Reached(p) = e[g]
        BY <2>2 DEF Placed, Arrived
      <3>4. Reached(p) = p + Len(buf) + 0 /\ p + Len(buf) + 0 = p + Len(buf)
        BY <3>1, <3>2
      <3> QED
        BY <3>1, <3>3, <3>4
    <2>4. g = Len(sent) /\ Clean(G, g)
      BY <2>2 DEF Placed, Arrived, Clean
    <2>5. n \in Nat /\ g \in Nat /\ n <= g /\ p \in Nat /\ e[n] \in Nat
      BY <2>2, PlacedTypes, Zenon
    <2>6. ~(n < g)
      <3> SUFFICES ASSUME n < g PROVE FALSE
        OBVIOUS
      <3>1. PICK a \in Nat, b \in Nat : a = e[n] /\ b = e[n+1] /\ a < b /\ b <= q
        <4>1. e[n+1] \in Nat /\ e[n] < e[n+1] /\ e[n+1] <= e[g]
          BY <2>2, NextFrame
        <4> QED
          BY <2>3, <2>5, <4>1, Zenon
      <3>2. CASE loc \in {"peek", "probe", "copy", "body", "flush"}
        <4>1. l = 0
          BY <2>3, <3>2, EmptyBytes DEF Starved
        <4>2. p = q
          BY <2>3, <2>5, <4>1
        <4>3. p = a \/ p < b
          BY <2>2, <3>1, <3>2 DEF Placed, Reading, Within
        <4> QED
          BY <3>1, <4>2, <4>3
      <3>3. CASE loc = "slice"
        <4>1. LineNext(G, g, n)
          <5>1. CASE Octets
            BY <2>2, <3>3, <5>1 DEF Placed, Reading, AtSlice, Behind
          <5>2. CASE ~Octets
            BY <2>2, <5>2, OctetsAreClean DEF LineNext
          <5> QED
            BY <5>1, <5>2
        <4>2. l <= Len(buf) /\ \A i \in 1..l : buf[i] # LF
          BY <2>3, <3>3 DEF Starved
        <4>3. p + l < e[n+1]
          BY <2>2, <2>4, <3>3, <4>1, <4>2, LineStops
        <4>4. q < b
          BY <2>3, <3>1, <4>3
        <4> QED
          BY <3>1, <4>4
      <3> QED
        BY <3>2, <3>3 DEF Starved
    <2>7. n = g
      BY <2>5, <2>6
    <2> QED
      BY <2>2, <2>4, <2>7 DEF Placed, Settled, AllOut
  <1> QED
    BY <1>1, StreamAlways, PTL

=============================================================================
