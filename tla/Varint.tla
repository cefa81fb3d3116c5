-------------------------------- MODULE Varint --------------------------------
(***************************************************************************)
(* Variable-length integers of the protobuf codec                          *)
(* (include/jkl/pb/varint.hpp): append_varint, read_varint with its path   *)
(* for a long buffer and its path for the end of a buffer, skip_varint,    *)
(* varint_wire_size and the zig-zag mapping.                               *)
(*                                                                         *)
(* A byte has a continuation bit above GroupBits payload bits; the code's  *)
(* 7 payload bits and its widths 8, 16, 32 and 64 are values of the        *)
(* constants.  A writer appends values of several kinds, or the bytes come *)
(* from elsewhere; a reader takes them one by one from a buffer that may   *)
(* end anywhere.                                                           *)
(***************************************************************************)
EXTENDS Integers, Sequences, FiniteSetsExt

CONSTANTS
  GroupBits,   \* payload bits of a byte: 7 in the code
  Width,       \* bits of the integer type T
  MaxWidth,    \* bits of the widest type, by which skip_varint goes: 64
  MaxValues,   \* bound on the values written, and on those read
  MaxForeign   \* bound on the bytes received from elsewhere

ASSUME ConstAssumption ==
  /\ GroupBits \in Nat \ {0}
  /\ Width \in Nat /\ Width % GroupBits # 0 /\ Width > GroupBits
  /\ MaxWidth \in Nat /\ MaxWidth % GroupBits # 0 /\ MaxWidth >= Width
  /\ MaxValues \in Nat /\ MaxForeign \in Nat

VARIABLES
  wire,   \* the bytes
  sent,   \* the values written, with their kinds and where each ends
  rpos,   \* how many bytes were read
  got,    \* what was read: a value, or "skipped"
  error,  \* the error of the last call, and the end of the buffer it was given
  vpc     \* fresh, writing, foreign or failed

vvars == <<wire, sent, rpos, got, error, vpc>>

Pow2[k \in Nat] == IF k = 0 THEN 1 ELSE 2 * Pow2[k - 1]

High  == Pow2[GroupBits]          \* 0x80
Bytes == 0..(2 * High - 1)
Kinds == {"bool", "uint", "zigzag"}

Values(kind) == CASE kind = "bool"   -> 0..1
                  [] kind = "uint"   -> 0..(Pow2[Width] - 1)
                  [] kind = "zigzag" -> -Pow2[Width - 1]..(Pow2[Width - 1] - 1)

\* max_varint_wire_size and max_varint_last_byte.
MaxSize(w)     == w \div GroupBits + 1
MaxLastByte(w) == Pow2[w % GroupBits] - 1

-----------------------------------------------------------------------------
\* Mutant: the sign bit is not spread.
ZigzagEncodeNoSign(v) == IF v >= 0 THEN 2 * v ELSE -2 * v

\* (v << 1) ^ (v >> (bits - 1)), the right shift arithmetic.
ZigzagEncode(v) == IF v >= 0 THEN 2 * v ELSE -2 * v - 1

\* (u >> 1) ^ (~(u & 1) + 1), as a signed number.
ZigzagDecode(u) == IF u % 2 = 0 THEN u \div 2 ELSE -(u \div 2) - 1

Encode(kind, v) == IF kind = "zigzag" THEN ZigzagEncode(v) ELSE v
Decode(kind, u) == IF kind = "zigzag" THEN ZigzagDecode(u)
                   ELSE IF kind = "bool" THEN (IF u = 0 THEN 0 ELSE 1) ELSE u

\* varint_wire_size(): (bits of u, at least one, + GroupBits - 1) / GroupBits.
BitWidth(u)    == Min({k \in 1..MaxWidth : u < Pow2[k]})
WireSize(kind, v) ==
  IF kind = "bool" THEN 1
  ELSE (BitWidth(Encode(kind, v)) + GroupBits - 1) \div GroupBits

\* append_varint(): the low group with the continuation bit, as long as the
\* rest needs it.  A bool is one byte.
Groups[u \in Nat] ==
  IF u >= High THEN <<(u % High) + High>> \o Groups[u \div High] ELSE <<u>>
AppendVarint(kind, v) == Groups[Encode(kind, v)]

-----------------------------------------------------------------------------
\* The integers of the last bytes of b up to the m-th: a byte's group, and above it the
\* groups of the bytes that follow.
EndingAt(b, m) ==
  LET last[j \in 0..m] == IF j = 0 THEN 0 ELSE (b[m - j + 1] % High) + High * last[j - 1]
  IN  last

\* The integer of n bytes of b after the first i.
Payload(b, i, n) == EndingAt(b, i + n)[n]

Ok(n, u) == [code |-> "ok", n |-> n, u |-> u]
Err(c)   == [code |-> c, n |-> 0, u |-> 0]

\* At least max_varint_wire_size bytes are there: no test for the end, and the
\* last byte has room for what is left of the width.
FastPath(b, i, w) ==
  LET Stop(k) == IF k = MaxSize(w) THEN b[i + k] <= MaxLastByte(w) ELSE b[i + k] < High
      stops   == {k \in 1..MaxSize(w) : Stop(k)}
  IN  IF stops = {} THEN Err("too_large")
      ELSE Ok(Min(stops), Payload(b, i, Min(stops)))

\* The buffer ends before: no test for the size.
SlowPath(b, i, e) ==
  LET stops == {k \in 1..(e - i) : b[i + k] < High}
  IN  IF stops = {} THEN Err("incomplete")
      ELSE Ok(Min(stops), Payload(b, i, Min(stops)))

\* read_varint() of the bytes b after the first i, in a buffer that ends at e.
ReadVarint(b, i, e, kind) ==
  IF kind = "bool" THEN (IF i < e THEN Ok(1, b[i + 1]) ELSE Err("incomplete"))
  ELSE IF i + MaxSize(Width) <= e THEN FastPath(b, i, Width) ELSE SlowPath(b, i, e)

\* Mutant: near the end of the buffer the last byte is not skipped.
SkipVarintNoLast(b, i, e) ==
  IF i + MaxSize(MaxWidth) <= e THEN FastPath(b, i, MaxWidth)
  ELSE LET r == SlowPath(b, i, e)
       IN  IF r.code = "ok" THEN Ok(r.n - 1, r.u) ELSE r

\* skip_varint(): the same for the widest type, whatever was written.
SkipVarint(b, i, e) ==
  IF i + MaxSize(MaxWidth) <= e THEN FastPath(b, i, MaxWidth) ELSE SlowPath(b, i, e)

-----------------------------------------------------------------------------
Init ==
  /\ wire = <<>> /\ sent = <<>> /\ rpos = 0 /\ got = <<>>
  /\ error = [code |-> "none", end |-> 0]
  /\ vpc = "fresh"

Write(kind, v) ==
  /\ vpc \in {"fresh", "writing"} /\ got = <<>> /\ Len(sent) < MaxValues
  /\ wire' = wire \o AppendVarint(kind, v)
  /\ sent' = Append(sent, [kind |-> kind, v |-> v, end |-> Len(wire')])
  /\ vpc' = "writing"
  /\ UNCHANGED <<rpos, got, error>>

\* Bytes that no append_varint() of this side wrote.
Receive(bs) ==
  /\ vpc = "fresh"
  /\ wire' = bs
  /\ vpc' = "foreign"
  /\ UNCHANGED <<sent, rpos, got, error>>

Result(r, e, item) ==
  \/ /\ r.code = "ok"
     /\ rpos' = rpos + r.n
     /\ got' = Append(got, item)
     /\ UNCHANGED <<wire, sent, error, vpc>>
  \/ /\ r.code # "ok"
     /\ error' = [code |-> r.code, end |-> e]
     /\ vpc' = "failed"
     /\ UNCHANGED <<wire, sent, rpos, got>>

\* The kind comes from the message's description, the same on both sides.
Expected(kind) == vpc = "writing" =>
                    Len(got) < Len(sent) /\ sent[Len(got) + 1].kind = kind

Read(kind, e) ==
  /\ vpc \in {"writing", "foreign"} /\ Len(got) < MaxValues /\ Expected(kind)
  /\ LET r == ReadVarint(wire, rpos, e, kind)
     IN  Result(r, e, [kind |-> kind, v |-> Decode(kind, r.u)])

Skip(e) ==
  /\ vpc \in {"writing", "foreign"} /\ Len(got) < MaxValues
  /\ vpc = "writing" => Len(got) < Len(sent)
  /\ Result(SkipVarint(wire, rpos, e), e, [kind |-> "skipped", v |-> 0])

Next ==
  \/ /\ vpc \in {"fresh", "writing"}
     /\ \E kind \in Kinds : \E v \in Values(kind) : Write(kind, v)
  \/ /\ vpc = "fresh"
     /\ \E n \in 1..MaxForeign : \E bs \in [1..n -> Bytes] : Receive(bs)
  \/ \E e \in rpos..Len(wire) : Skip(e) \/ \E kind \in Kinds : Read(kind, e)

Spec == Init /\ [][Next]_vvars

-----------------------------------------------------------------------------
\* A value takes as many bytes as varint_wire_size() says; what was written comes back
\* in order, whichever path reads it; a value written in full is never refused, and none
\* is taken from a buffer that ends inside it.
Start(i) == IF i = 1 THEN 0 ELSE sent[i - 1].end

RoundTrip ==
  sent # <<>> =>
    /\ \A i \in DOMAIN sent : sent[i].end - Start(i) = WireSize(sent[i].kind, sent[i].v)
    /\ \A i \in DOMAIN got : got[i].kind # "skipped" =>
         got[i].kind = sent[i].kind /\ got[i].v = sent[i].v
    /\ rpos = Start(Len(got) + 1)
    /\ vpc = "failed" => error.code = "incomplete" /\ error.end < sent[Len(got) + 1].end

\* The bytes after the value change nothing: near the end of the buffer and far
\* from it the same bytes give the same value, and an integer that can be read
\* can be skipped, over the same bytes.
PathsAgree ==
  \A kind \in {"uint", "zigzag"}, e \in rpos..Len(wire) :
    LET near == ReadVarint(wire, rpos, e, kind)
        far  == FastPath(wire \o [k \in 1..MaxSize(Width) |-> 0], rpos, Width)
        skip == SkipVarint(wire, rpos, e)
    IN  near.code = "ok" => near = far /\ skip.code = "ok" /\ skip.n = near.n
=============================================================================
