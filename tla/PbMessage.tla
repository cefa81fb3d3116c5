------------------------------ MODULE PbMessage ------------------------------
(***************************************************************************)
(* Messages of the protobuf DSL (include/jkl/pb/dsl.hpp).  Writing takes   *)
(* two passes: wire_size() leaves the length of every message and packed   *)
(* field in a cache, in the order it meets them; write_impl() takes them   *)
(* out in the order it writes.  Reading fills an object that may hold      *)
(* anything, and skips the fields its message does not have.               *)
(*                                                                         *)
(* A field is [kind, id, optional, check, sub]; the kinds are              *)
(*   varint, bytes                                                         *)
(*   fixed     also bool: its length is known to the compiler              *)
(*   repeated  sub = <<element>>                                           *)
(*   map       sub = <<entry>>, a message of key and value; its value is a *)
(*             set of entries with different keys                          *)
(*   message   sub = its fields, and its value is as long                  *)
(*   oneof     sub = its members; its value is [at, val], at = 0: none     *)
(* "optional" stands for p_optional, p_default and p_has_val: the value    *)
(* None is one that is not written.  Every varint, fixed value and byte is *)
(* one unit on the wire (the bytes of a varint are those of module         *)
(* Varint), a tag is the number of the code.                               *)
(***************************************************************************)
EXTENDS Integers, Sequences, SequencesExt

CONSTANTS
  Versions,  \* of one message type, as its writers and readers have it
  Schema,    \* the message of a version: [Versions -> fields]
  Samples,   \* what a writer of a version may write
  None,      \* no value
  Bad        \* a value that p_check refuses

VARIABLES
  reader,  \* the version of the reader
  object,  \* what the reader reads into, again and again
  letter,  \* what was written last: writer, data, prefixed, bytes, cache, sizes
  reply    \* none, or the result of the last read

pbVars == <<reader, object, letter, reply>>

-----------------------------------------------------------------------------
\* The definition of a field, and the parameters it may have.
Fld(kind, id, sub) ==
  [kind |-> kind, id |-> id, optional |-> FALSE, check |-> FALSE, sub |-> sub]
Optional(f)          == [f EXCEPT !.optional = TRUE]
Checked(f)           == [f EXCEPT !.check = TRUE]

VarintFld(id)        == Fld("varint", id, <<>>)
FixedFld(id)         == Fld("fixed", id, <<>>)
BytesFld(id)         == Fld("bytes", id, <<>>)
MessageFld(id, flds) == Fld("message", id, flds)
RepeatedFld(f)       == Optional(Fld("repeated", f.id, <<f>>))
OneofFld(flds)       == Optional(Fld("oneof", 0, flds))

MapEntry(id, key, value) == MessageFld(id, <<[key EXCEPT !.id = 1], [value EXCEPT !.id = 2]>>)
MapFld(id, key, value)   == Optional(Fld("map", id, <<MapEntry(id, key, value)>>))

-----------------------------------------------------------------------------
Ranges    == {"repeated", "map"}
Elem(f)   == f.sub[1]
Packed(f) == Elem(f).kind \in {"varint", "fixed"}
Wt(f)     == CASE f.kind = "varint" -> 0 [] f.kind = "fixed" -> 5 [] OTHER -> 2
Tag(f)    == f.id * 8 + Wt(f)
HasVal(f, d) == f.kind \in Ranges \cup {"oneof"} \/ d # None

RECURSIVE IsStatic(_)
IsStatic(f) ==
  /\ f.kind \in {"fixed", "message"} /\ ~f.optional
  /\ f.kind = "message" => \A i \in DOMAIN f.sub : IsStatic(f.sub[i])

\* What p_clear_val, reset() or clear() leave, and a value newly made.
Cleared(f) == CASE f.kind = "oneof"    -> [at |-> 0, val |-> None]
                [] f.kind = "repeated" -> <<>>
                [] f.kind = "map"      -> {}
                [] OTHER               -> None

RECURSIVE Fresh(_)
Fresh(f) == CASE f.kind \in {"varint", "fixed"} -> 0
              [] f.kind = "message" ->
                   [i \in DOMAIN f.sub |->
                      IF f.sub[i].optional THEN Cleared(f.sub[i]) ELSE Fresh(f.sub[i])]
              [] OTHER -> <<>>

\* The elements of a repeated field in the order of its range, which a map chooses.
InOrder(f, d) == IF f.kind = "map" THEN SetToSeq(d) ELSE d

\* emplace_back(), or insert_or_assign().
Added(f, u, e) ==
  IF f.kind = "map" THEN {x \in u : x[1] # e[1]} \cup {e} ELSE Append(u, e)

MutableVal(f, d) == IF d = None THEN Fresh(f) ELSE d

-----------------------------------------------------------------------------
\* Writing, the first pass: size, cache, and whether the assertions held.
RECURSIVE LenCacheCnt(_, _, _)
SumOver(s, g(_)) == FoldLeft(LAMBDA n, i : n + g(i), 0, [i \in DOMAIN s |-> i])

RepeatedCacheCnt(f, d, skipLen) ==
  CASE IsStatic(Elem(f)) -> 0
    [] ~IsStatic(Elem(f)) /\ Packed(f) -> IF skipLen THEN 0 ELSE 1
    [] OTHER -> SumOver(InOrder(f, d), LAMBDA i : LenCacheCnt(Elem(f), InOrder(f, d)[i], FALSE))

MessageCacheCnt(f, d, skipLen) ==
  IF IsStatic(f) \/ d = None THEN 0
  ELSE (IF skipLen THEN 0 ELSE 1) + SumOver(f.sub, LAMBDA i : LenCacheCnt(f.sub[i], d[i], FALSE))

OneofCacheCnt(f, d) == IF d.at = 0 THEN 0 ELSE LenCacheCnt(f.sub[d.at], d.val, FALSE)

LenCacheCnt(f, d, skipLen) ==
  CASE f.kind \in Ranges   -> RepeatedCacheCnt(f, d, skipLen)
    [] f.kind = "message"  -> MessageCacheCnt(f, d, skipLen)
    [] f.kind = "oneof"    -> OneofCacheCnt(f, d)
    [] OTHER -> 0

Sized(n, lc) == [len |-> n, lc |-> lc, asserted |-> TRUE]

Plus(r, s) ==
  [len |-> r.len + s.len, lc |-> s.lc, asserted |-> r.asserted /\ s.asserted]

\* A length-delimited field: tag, length and r.len more.
LenDlm(r, skipTag, skipLen) ==
  [r EXCEPT !.len = @ + (IF skipTag THEN 0 ELSE 1) + (IF skipLen THEN 0 ELSE 1)]

\* A slot of the cache is taken before the fields inside are sized ("lp = lc++")
\* and filled afterwards.
Reserve(lc)   == Append(lc, 0)
Fill(r, slot) == [r EXCEPT !.lc[slot] = r.len]

RECURSIVE FldSize(_, _, _, _, _)

\* The sizes of the fields or elements i of s, one after the other.
SizeOver(s, g(_), v(_), skipTag, start) ==
  FoldLeft(LAMBDA r, i : Plus(r, FldSize(g(i), v(i), r.lc, skipTag, FALSE)),
           Sized(0, start), [i \in DOMAIN s |-> i])

BytesSize(d, lc, skipTag, skipLen) == LenDlm(Sized(Len(d), lc), skipTag, skipLen)

RepeatedSize(f, d, lc, skipTag, skipLen) ==
  LET u == InOrder(f, d)
      Elems(start) == SizeOver(u, LAMBDA i : Elem(f), LAMBDA i : u[i], Packed(f), start)
      NotEmpty(r)  == [r EXCEPT !.asserted = @ /\ r.len > 0]
      r == IF IsStatic(Elem(f)) THEN Elems(lc)
           ELSE IF Packed(f) /\ ~skipLen THEN Fill(NotEmpty(Elems(Reserve(lc))), Len(lc) + 1)
           ELSE NotEmpty(Elems(lc))
  IN  IF Packed(f) THEN LenDlm(r, skipTag, skipLen) ELSE r

SubFldsLen(f, d, start) == SizeOver(f.sub, LAMBDA i : f.sub[i], LAMBDA i : d[i], FALSE, start)

MessageSize(f, d, lc, skipTag, skipLen) ==
  LenDlm(IF IsStatic(f) \/ skipLen THEN SubFldsLen(f, d, lc)
         ELSE Fill(SubFldsLen(f, d, Reserve(lc)), Len(lc) + 1), skipTag, skipLen)

OneofSize(f, d, lc) ==
  IF d.at = 0 THEN Sized(0, lc) ELSE FldSize(f.sub[d.at], d.val, lc, FALSE, FALSE)

FldSize(f, d, lc, skipTag, skipLen) ==
  CASE ~HasVal(f, d) -> Sized(0, lc)
    [] f.kind \in Ranges   -> RepeatedSize(f, d, lc, skipTag, skipLen)
    [] f.kind = "oneof"    -> OneofSize(f, d, lc)
    [] HasVal(f, d) /\ f.kind = "bytes"   -> BytesSize(d, lc, skipTag, skipLen)
    [] HasVal(f, d) /\ f.kind = "message" -> MessageSize(f, d, lc, skipTag, skipLen)
    [] HasVal(f, d) /\ f.kind \in {"varint", "fixed"} -> Sized(IF skipTag THEN 1 ELSE 2, lc)

-----------------------------------------------------------------------------
\* Writing, the second pass.  w is [out, cache, lc]; "*lc++" may run past the end.
Emit(w, u)  == [w EXCEPT !.out = Append(@, u)]
\* Mutant: "*lc" for "*lc++".
EmitLenStay(w) == Emit(w, IF w.lc \in DOMAIN w.cache THEN w.cache[w.lc] ELSE 0)

EmitLen(w) == [Emit(w, IF w.lc \in DOMAIN w.cache THEN w.cache[w.lc] ELSE 0) EXCEPT !.lc = @ + 1]
StaticLen(f, d) == FldSize(f, d, <<>>, TRUE, TRUE).len

RECURSIVE WriteImpl(_, _, _, _, _)

WriteOver(s, g(_), v(_), skipTag, start) ==
  FoldLeft(LAMBDA w, i : WriteImpl(g(i), v(i), w, skipTag, FALSE), start, [i \in DOMAIN s |-> i])

WriteTag(f, w, skipTag) == IF skipTag THEN w ELSE Emit(w, Tag(f))

\* The length of a packed or message field, which the compiler may know.
WriteLen(f, d, static, w) == IF static THEN Emit(w, StaticLen(f, d)) ELSE EmitLen(w)

WriteBytes(d, w) == [Emit(w, Len(d)) EXCEPT !.out = @ \o d]

WriteRepeated(f, d, w, skipTag) ==
  LET u == InOrder(f, d)
      Elems(start) == WriteOver(u, LAMBDA i : Elem(f), LAMBDA i : u[i], Packed(f), start)
  IN  IF Packed(f) THEN Elems(WriteLen(f, d, IsStatic(Elem(f)), WriteTag(f, w, skipTag)))
      ELSE Elems(w)

WriteFlds(f, d, w, skipLen) ==
  WriteOver(f.sub, LAMBDA i : f.sub[i], LAMBDA i : d[i], FALSE,
            IF skipLen THEN w ELSE WriteLen(f, d, IsStatic(f), w))

WriteOneof(f, d, w) ==
  IF d.at = 0 THEN w ELSE WriteImpl(f.sub[d.at], d.val, w, FALSE, FALSE)

WriteImpl(f, d, w, skipTag, skipLen) ==
  CASE ~HasVal(f, d) -> w
    [] f.kind \in Ranges   -> WriteRepeated(f, d, w, skipTag)
    [] f.kind = "oneof"    -> WriteOneof(f, d, w)
    [] HasVal(f, d) /\ f.kind = "bytes"   -> WriteBytes(d, WriteTag(f, w, skipTag))
    [] HasVal(f, d) /\ f.kind = "message" -> WriteFlds(f, d, WriteTag(f, w, skipTag), skipLen)
    [] HasVal(f, d) /\ f.kind \in {"varint", "fixed"} -> Emit(WriteTag(f, w, skipTag), d)

Whole(v) == MessageFld(0, Schema[v])

\* write(), and write_len_prefixed() if prefixed, of a whole message.
Letter(v, d, prefixed) ==
  LET size == FldSize(Whole(v), d, <<>>, TRUE, ~prefixed)
      w    == WriteImpl(Whole(v), d, [out |-> <<>>, cache |-> size.lc, lc |-> 1], TRUE, ~prefixed)
  IN  [version |-> v, data |-> d, prefixed |-> prefixed, bytes |-> w.out,
       total |-> size.len, cached |-> size.lc, taken |-> w.lc - 1, asserted |-> size.asserted]

-----------------------------------------------------------------------------
\* Reading.  A result is where the reading got to, the value as far as it was
\* read, and an error; wire[p] for p in from..upto is what there is to read.
Reading(err, at, val) == [err |-> err, at |-> at, val |-> val]
HasFailed(r) == r.err # "ok"

\* Mutant: fields that did not come are left as they are.
ExamKeepsOld(f, v, bits) ==
  LET lacks == {i \in DOMAIN f.sub : i \notin bits /\ ~f.sub[i].optional}
      bad   == {i \in bits : f.sub[i].check /\ v[i] = Bad}
  IN  Reading(IF lacks # {} THEN "required_field_missing"
              ELSE IF bad # {} THEN "validation_failed" ELSE "ok", 0, v)

\* exam_sub_flds(): the fields in their order, up to the first error.
Exam(f, v, bits) ==
  FoldLeft(LAMBDA r, i :
             CASE HasFailed(r) -> r
               [] ~HasFailed(r) /\ i \in bits ->
                    IF f.sub[i].check /\ r.val[i] = Bad THEN [r EXCEPT !.err = "validation_failed"] ELSE r
               [] ~HasFailed(r) /\ i \notin bits ->
                    IF f.sub[i].optional THEN [r EXCEPT !.val[i] = Cleared(f.sub[i])]
                    ELSE [r EXCEPT !.err = "required_field_missing"],
           Reading("ok", 0, v), [i \in DOMAIN f.sub |-> i])

\* The fields a message reads, those of its oneofs included: <<field, member>>.
Injected(f) ==
  {<<i, j>> \in (DOMAIN f.sub) \X (0..5) :
     IF f.sub[i].kind = "oneof" THEN j \in DOMAIN f.sub[i].sub ELSE j = 0}
InjectedFld(f, x) == IF x[2] = 0 THEN f.sub[x[1]] ELSE f.sub[x[1]].sub[x[2]]

ActivateMember(f, d, j) ==
  IF d.at = j THEN d ELSE [at |-> j, val |-> Fresh(f.sub[j])]

SkipUnknown(wire, tag, p) == IF tag % 8 = 2 THEN p + 1 + wire[p] ELSE p + 1

ExamTag(f, wire, p) == wire[p] = Tag(f)

RECURSIVE ReadImpl(_, _, _, _, _, _), ReadElems(_, _, _, _, _), ReadFlds(_, _, _, _, _, _)

ReadBytes(wire, p) == Reading("ok", p + 1 + wire[p], SubSeq(wire, p + 1, p + wire[p]))

ReadMessageFld(f, wire, p, upto, d, skipLen) ==
  IF skipLen THEN ReadFlds(f, wire, p, upto, MutableVal(f, d), {})
  ELSE ReadFlds(f, wire, p + 1, p + wire[p], MutableVal(f, d), {})

ReadImpl(f, wire, p, upto, d, skipLen) ==
  CASE f.kind \in {"varint", "fixed"} -> Reading("ok", p + 1, wire[p])
    [] f.kind = "bytes"    -> ReadBytes(wire, p)
    [] f.kind = "message"  -> ReadMessageFld(f, wire, p, upto, d, skipLen)
    [] f.kind \in Ranges ->
         IF Packed(f) THEN ReadElems(f, wire, p + 1, p + wire[p], Cleared(f))
         ELSE ReadElems(f, wire, p, upto, Cleared(f))

\* The elements of a repeated field; from the second on, with their tags.
ReadElems(f, wire, p, upto, u) ==
  LET tagged == ~Packed(f) /\ u # Cleared(f)
      start  == IF tagged THEN p + 1 ELSE p
      e      == ReadImpl(Elem(f), wire, start, upto, Fresh(Elem(f)), FALSE)
  IN  IF p > upto \/ (tagged /\ ~ExamTag(Elem(f), wire, p)) THEN Reading("ok", p, u)
      ELSE IF HasFailed(e) THEN Reading(e.err, e.at, u)
      ELSE ReadElems(f, wire, e.at, upto, Added(f, u, e.val))

\* The fields of a message, in the order they come; bits: those that came.
ReadFlds(f, wire, p, upto, v, bits) ==
  LET tag  == wire[p]
      hits == {x \in Injected(f) : ExamTag(InjectedFld(f, x), wire, p)}
      x    == CHOOSE y \in hits : TRUE
      i    == x[1]
      one  == f.sub[i].kind = "oneof"
      old  == IF one THEN ActivateMember(f.sub[i], v[i], x[2]) ELSE v[i]
      r    == ReadImpl(InjectedFld(f, x), wire, p + 1, upto, IF one THEN old.val ELSE old, FALSE)
      new  == [v EXCEPT ![i] = IF one THEN [old EXCEPT !.val = r.val] ELSE r.val]
  IN  IF p > upto THEN [Exam(f, v, bits) EXCEPT !.at = p]
      ELSE IF hits = {} THEN ReadFlds(f, wire, SkipUnknown(wire, tag, p + 1), upto, v, bits)
      ELSE IF HasFailed(r) THEN Reading(r.err, r.at, new)
      ELSE ReadFlds(f, wire, r.at, upto, new, bits \cup {i})

-----------------------------------------------------------------------------
NoLetter == [version |-> None]
NoReply  == [err |-> "none"]

PbInit ==
  /\ reader \in Versions /\ object = Fresh(Whole(reader))
  /\ letter = NoLetter /\ reply = NoReply

Letters ==
  UNION {{Letter(v, d, prefixed) : d \in Samples[v], prefixed \in BOOLEAN} : v \in Versions}

WriteMessage ==
  /\ letter = NoLetter
  /\ \E l \in Letters : letter' = l
  /\ UNCHANGED <<reader, object, reply>>

\* full_read(), into the object of the read before.
ReadMessage ==
  /\ letter # NoLetter /\ reply = NoReply
  /\ LET r == ReadImpl(Whole(reader), letter.bytes, 1, Len(letter.bytes), object, ~letter.prefixed)
     IN  /\ object' = r.val
         /\ reply' = [err |-> IF ~HasFailed(r) /\ r.at # Len(letter.bytes) + 1
                              THEN "more_data_than_required" ELSE r.err]
  /\ UNCHANGED <<reader, letter>>

\* The receiver is through with what it read; it keeps the object.
Handled ==
  /\ reply # NoReply
  /\ letter' = NoLetter /\ reply' = NoReply
  /\ UNCHANGED <<reader, object>>

PbNext == WriteMessage \/ ReadMessage \/ Handled

PbSpec == PbInit /\ [][PbNext]_pbVars

-----------------------------------------------------------------------------
\* What the reader's fields are to hold, given the writer's: a field that was not
\* written, or that the writer does not know, is cleared; the others hold what was
\* written, as far as the reader has fields for it.
RECURSIVE Kept(_, _, _)
Kept(r, w, d) ==
  LET Match(i) == {k \in DOMAIN w : w[k].id = r[i].id
                                      /\ (w[k].kind = r[i].kind \/ {w[k].kind, r[i].kind} = Ranges)}
      Of(i, k) ==
        CASE r[i].kind = "message" -> IF d[k] = None THEN None ELSE Kept(r[i].sub, w[k].sub, d[k])
          [] r[i].kind \in Ranges /\ Elem(r[i]).kind = "message" ->
               LET s == InOrder(w[k], d[k])
                   u == [n \in DOMAIN s |-> Kept(Elem(r[i]).sub, Elem(w[k]).sub, s[n])]
               IN  IF r[i].kind = "repeated" THEN u
                   ELSE {u[n] : n \in {m \in DOMAIN u : \A l \in DOMAIN u : u[l][1] = u[m][1] => l <= m}}
          [] r[i].kind = "oneof" ->
               LET js == {j \in DOMAIN r[i].sub :
                            d[k].at # 0 /\ r[i].sub[j].id = w[k].sub[d[k].at].id}
               IN  IF js = {} THEN Cleared(r[i])
                   ELSE [at  |-> CHOOSE j \in js : TRUE,
                         val |-> LET m == r[i].sub[CHOOSE j \in js : TRUE]
                                 IN  IF m.kind = "message"
                                     THEN Kept(m.sub, w[k].sub[d[k].at].sub, d[k].val) ELSE d[k].val]
          [] OTHER -> d[k]
  IN  [i \in DOMAIN r |->
         IF Match(i) = {} THEN Cleared(r[i]) ELSE Of(i, CHOOSE k \in Match(i) : TRUE)]

\* A required field is there, and p_check has nothing against a field written.
RECURSIVE Acceptable(_, _)
Acceptable(r, v) ==
  \A i \in DOMAIN r :
    /\ v[i] = None => r[i].optional
    /\ r[i].check => v[i] # Bad
    /\ r[i].kind = "message" /\ v[i] # None => Acceptable(r[i].sub, v[i])
    /\ r[i].kind \in Ranges /\ Elem(r[i]).kind = "message" =>
         \A e \in ToSet(InOrder(r[i], v[i])) : Acceptable(Elem(r[i]).sub, e)
    /\ r[i].kind = "oneof" /\ v[i].at # 0 =>
         LET m == r[i].sub[v[i].at] IN m.kind = "message" => Acceptable(m.sub, v[i].val)

\* The three assertions of do_write(): the cache is filled and emptied exactly,
\* and the bytes written are as many as wire_size() said.
CacheInStep ==
  letter # NoLetter =>
    LET cnt == LenCacheCnt(Whole(letter.version), letter.data, ~letter.prefixed)
    IN  /\ Len(letter.cached) = cnt /\ letter.taken = cnt
        /\ Len(letter.bytes) = letter.total

\* Between versions of a message a reader gets what was written, for the fields it
\* has, of entries with one key the last, whatever its object held before and although a read before may have failed
\* half way; it reports an error exactly if a required field is not there or
\* p_check refuses one; and the writer's cache is in step.  (read_impl, exam_sub_flds, skipping of unknown fields)
ReadGivesWritten ==
  /\ CacheInStep
  /\ reply # NoReply =>
       LET kept == Kept(Schema[reader], Schema[letter.version], letter.data)
       IN  IF Acceptable(Schema[reader], kept) THEN reply.err = "ok" /\ object = kept
           ELSE reply.err \in {"required_field_missing", "validation_failed"}
==================================================
