-------------------------- MODULE FrameReaderStream --------------------------
(***************************************************************************)
(* What the reader has, placed in the whole stream: the bytes that have    *)
(* been sent since the connection began, and the frames they make up.      *)
(* These are not variables of the reader.  The inductive invariant says    *)
(* that such a stream exists:                                              *)
(*                                                                         *)
(*   F    its bytes: F[1] is the first                                     *)
(*   G    its frames: those sent, and perhaps one that was cut off         *)
(*   e    where they end: G[i] is in F[e[i-1] + 1] .. F[e[i]]              *)
(*   g    how many they are                                                *)
(*   n    how many of them next has returned                               *)
(*   p    how many bytes have been taken from the bufio.Reader             *)
(***************************************************************************)
EXTENDS FrameReaderProperties

Octets == \E f \in dialect : f.style = "octet"
Size(f) == Len(f.body)
Clean(G, g) == \A i \in 1..g : ~HeldBack(G[i])

-----------------------------------------------------------------------------
(* The stream.                                                             *)

\* After position a, an octet count of h digits for the payload of f.
Header(F, a, f, h, v) ==
    /\ v[0] = 0 /\ v[h] = Size(f)
    /\ \A i \in 1..h : IsDigit(F[a+i]) /\ v[i] = 10 * v[i-1] + F[a+i]
    /\ F[a+h+1] = SP

CountedAt(F, a, b, f) ==
    /\ \E h \in 1..MaxDigits : \E v \in [0..h -> 0..Size(f)] :
        Header(F, a, f, h, v) /\ b = a + h + 1 + Size(f)
    /\ \A i \in 1..Size(f) : F[b - Size(f) + i] = f.body[i]

LineAt(F, a, b, f) ==
    /\ b = a + Size(f) + 1
    /\ \A i \in 1..Size(f) : F[a+i] = f.body[i]
    /\ F[b] = IF f.style = "lf" THEN LF ELSE NUL

FrameAt(F, a, b, f) ==
    IF f.style = "octet" THEN CountedAt(F, a, b, f) ELSE LineAt(F, a, b, f)

Stream(F, e, G, g) ==
    /\ e[0] = 0
    /\ \A i \in 1..g : G[i] \in dialect /\ FrameAt(F, e[i-1], e[i], G[i])
    /\ \A i, j \in 0..g : i < j => e[i] < e[j]

-----------------------------------------------------------------------------
(* How much of it there is.                                                *)

Reached(p) == p + Len(buf) + Len(wire)

\* buf and wire are the part of the stream after p.  Without a reset nothing of
\* the frames sent is missing.
Arrived(F, e, G, g, p) ==
    /\ \A i \in 1..Len(buf) : buf[i] = F[p+i]
    /\ \A i \in 1..Len(wire) : wire[i] = F[p + Len(buf) + i]
    /\ g \in {Len(sent), Len(sent) + 1}
    /\ \A i \in 1..Len(sent) : G[i] = sent[i]
    /\ Reached(p) <= e[g]
    /\ g > Len(sent) => Reached(p) < e[g]
    /\ peer = "open" => g = Len(sent) /\ Reached(p) = e[g]
    /\ peer = "closed" => e[Len(sent)] <= Reached(p)

-----------------------------------------------------------------------------
(* What has come of it.                                                    *)

Settled(n) ==
    /\ n \in 0..Len(sent)
    /\ Len(out) = Place(n)
    /\ \A i \in Messages(n) : Renders(sent[i], out[Place(i)])

\* s is the stream between a and p.
Holds(F, s, a, p) == Len(s) = p - a /\ \A i \in 1..Len(s) : s[i] = F[a+i]

\* The next frame is not octet-counted.
LineNext(G, g, n) == n < g /\ G[n+1].style # "octet"

\* Nothing will be read any more.
Behind == wire = <<>> /\ buf = <<>> /\ peer # "open"

\* Frames that are not held back leave pending when they are complete, and no
\* octet count is looked for in the middle of a line.
AtTop(F, e, G, g, n, p) ==
    /\ Holds(F, pending, e[n], p)
    /\ Clean(G, g) /\ n < g => p <= e[n+1]
    /\ Octets => pending = <<>> \/ LineNext(G, g, n)

AtSlice(F, e, G, g, n, p) ==
    /\ Holds(F, pending, e[n], p)
    /\ Clean(G, g) /\ n < g => p < e[n+1]
    /\ Octets => (Behind /\ pending = <<>>) \/ LineNext(G, g, n)

Within(e, g, n, p) == n < g /\ p < e[n+1]

AtProbe(F, e, G, n, p) ==
    /\ Holds(F, held, e[n], p)
    /\ IsDigit(F[e[n] + 1]) /\ \A i \in 1..Len(held) : IsDigit(held[i])
    /\ G[n+1].style = "octet" =>
        \E h \in 1..MaxDigits : \E v \in [0..h -> 0..Size(G[n+1])] :
            /\ Header(F, e[n], G[n+1], h, v)
            /\ e[n+1] = e[n] + h + 1 + Size(G[n+1])
            /\ Len(held) <= h /\ count = v[Len(held)]

AtPayload(e, G, n, p) ==
    LET size == Size(G[n+1])
    IN  /\ G[n+1].style = "octet"
        /\ count \in 1..size /\ p = e[n+1] - count
        /\ IF loc = "copy" THEN size > Max
           ELSE /\ size <= Max /\ Len(held) = size - count
                /\ \A i \in 1..Len(held) : held[i] = G[n+1].body[i]

AtFlush(e, G, n, p) == G[n+1].style # "octet" /\ p - e[n] > Max

Reading(F, e, G, g, n, p) ==
    /\ loc = "top" => AtTop(F, e, G, g, n, p)
    /\ loc = "slice" => AtSlice(F, e, G, g, n, p)
    /\ loc = "peek" => p = e[n]
    /\ loc \in {"probe", "copy", "body", "flush"} => Within(e, g, n, p)
    /\ loc = "probe" => AtProbe(F, e, G, n, p)
    /\ loc \in {"copy", "body"} => AtPayload(e, G, n, p)
    /\ loc = "flush" => AtFlush(e, G, n, p)

-----------------------------------------------------------------------------
Placed(F, e, G, g, n, p) ==
    /\ loc \notin Ended
    /\ F \in [Nat -> Byte] /\ e \in [Nat -> Nat] /\ g \in Nat /\ p \in Nat
    /\ e[n] <= p
    /\ Stream(F, e, G, g)
    /\ Arrived(F, e, G, g, p)
    /\ Settled(n)
    /\ Reading(F, e, G, g, n, p)

Over(n) ==
    /\ loc \in Ended
    /\ Settled(n)
    /\ loc = "eof" => peer # "open" /\ (peer = "closed" => n = Len(sent))

StreamInv ==
    \/ skipped /\ Octets
    \/ \E n : Over(n)
    \/ \E F, e, G, g, n, p : Placed(F, e, G, g, n, p)

=============================================================================
