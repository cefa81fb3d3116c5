--------------------------- MODULE UriResolveProofs ---------------------------
(***************************************************************************)
(* Removing dot segments in place, for paths of any length over any        *)
(* characters: what is written never reaches what is still to be read, and *)
(* every iteration reads on.  Every step writes at most as many characters *)
(* as it reads, and the output starts one character behind the input.      *)
(*                                                                         *)
(* The result is the one of RFC 3986, unless the path is relative: between *)
(* two iterations the input is the rest of the path, from a slash on, and  *)
(* what is written is what the reference makes of the part before it.  A   *)
(* dot segment at the end is the exception: the slash put in its place is  *)
(* all that is left to be read.                                            *)
(***************************************************************************)
EXTENDS UriResolve, NaturalRecursion, SequenceTheorems, TLAPS

IInv == /\ op \in Nat /\ in \in Nat /\ op < in
        /\ buf \in Seq(Chars)
        /\ upc = "dots" => in <= Len(buf)

LEMMA InvInit == UriInit => IInv
BY DEF UriInit, IInv

\* A set of numbers up to n has a greatest member: the one nearest to n.
LEMMA MaxUpTo ==
  ASSUME NEW n \in Nat, NEW S, S \subseteq 0..n, S # {}
  PROVE  Max(S) \in S /\ \A y \in S : Max(S) >= y
<1> DEFINE Gaps == {n - x : x \in S}
<1>1. Gaps \subseteq Nat
  <2>1. \A x \in S : n - x \in Nat
    OBVIOUS
  <2> QED BY <2>1
<1>2. Gaps # {}
  <2>1. PICK x \in S : TRUE
    OBVIOUS
  <2>2. n - x \in Gaps
    OBVIOUS
  <2> QED BY <2>2
<1>3. PICK g \in Gaps : \A h \in Gaps : g <= h
  <2> HIDE DEF Gaps
  <2> QED BY <1>1, <1>2, Least
<1>4. PICK x \in S : g = n - x
  OBVIOUS
<1>5. \A y \in S : x >= y
  <2> TAKE y \in S
  <2>1. n - y \in Gaps /\ y \in Nat /\ x \in Nat
    OBVIOUS
  <2>2. n - x <= n - y
    BY <1>3, <1>4, <2>1
  <2> QED BY <2>1, <2>2
<1> QED BY <1>5 DEF Max

\* The path that uri_resolve_path_append() puts together is a path.
LEMMA MergedPath ==
  ASSUME NEW b \in Bases, NEW r \in Refs
  PROVE  Merge(b, r) \in Seq(Chars)
<1>1. b.path \in Seq(Chars) /\ r.path \in Seq(Chars)
  BY PathAssumption
<1>2. LastSlash(b.path) \in 0..Len(b.path)
  <2> DEFINE S == {0} \cup {i \in DOMAIN b.path : b.path[i] = "/"}
  <2>1. DOMAIN b.path = 1..Len(b.path) /\ Len(b.path) \in Nat
    BY <1>1, LenProperties
  <2>2. S \subseteq 0..Len(b.path) /\ S # {}
    BY <2>1
  <2>3. Max(S) \in S
    <3> HIDE DEF S
    <3> QED BY <2>1, <2>2, MaxUpTo
  <2> QED BY <2>2, <2>3 DEF LastSlash
<1>3. SubSeq(b.path, 1, LastSlash(b.path)) \o r.path \in Seq(Chars)
  <2>1. SubSeq(b.path, 1, LastSlash(b.path)) \in Seq(Chars)
    BY <1>1, <1>2, SubSeqProperties
  <2> QED BY <1>1, <2>1, ConcatProperties
<1>4. <<"/">> \o r.path \in Seq(Chars)
  <2>1. <<"/">> \in Seq(Chars)
    BY DEF Chars
  <2> QED BY <1>1, <2>1, ConcatProperties
<1> QED BY <1>1, <1>3, <1>4 DEF Merge

-----------------------------------------------------------------------------
(* What is written stays behind what is read. *)

\* Resolve() leaves nothing written, or a path taken over as a whole.
LEMMA InvResolve == ASSUME NEW b \in Bases, NEW r \in Refs, Resolve(b, r) PROVE IInv'
<1>1. b.path \in Seq(Chars) /\ r.path \in Seq(Chars) /\ Merge(b, r) \in Seq(Chars)
  BY PathAssumption, MergedPath
<1>2. ASSUME NEW p \in Seq(Chars), CleanPath(p) PROVE IInv'
  <2>1. p # <<>> => 1 <= Len(p)
    BY EmptySeq
  <2> QED BY <1>2, <2>1 DEF CleanPath, IInv
<1>3. CASE r.scheme # Absent \/ r.auth # Absent
  BY <1>1, <1>2, <1>3 DEF Resolve
<1>4. CASE r.scheme = Absent /\ r.auth = Absent /\ r.path = <<>>
  <2>1. Len(b.path) \in Nat
    BY <1>1
  <2> QED BY <1>1, <1>4, <2>1 DEF Resolve, IInv
<1>5. CASE r.scheme = Absent /\ r.auth = Absent /\ r.path # <<>>
  BY <1>1, <1>2, <1>5 DEF Resolve
<1> QED BY <1>3, <1>4, <1>5

LEMMA UnreadLength ==
  ASSUME IInv, upc = "dots"
  PROVE  Len(Unread) \in Nat /\ Len(Unread) = Len(buf) - in + 1 /\ Unread \in Seq(Chars)
BY SubSeqProperties DEF IInv, Unread

\* A step of the loop keeps the invariant, and reads on.
LEMMA InvRemove == IInv /\ RemoveDots => IInv' /\ in' > in
<1> SUFFICES ASSUME IInv, RemoveDots PROVE IInv' /\ in' > in
  OBVIOUS
<1> USE DEF IInv
<1>0. Len(buf) \in Nat /\ DOMAIN buf = 1..Len(buf) /\ "/" \in Chars
  BY LenProperties DEF Chars
<1>1. CASE DropLeadingDots
  BY <1>1, <1>0 DEF DropLeadingDots, Advance
<1>2. CASE DropDot
  <2>0. buf' = buf \/ buf' = [buf EXCEPT ![in + 1] = "/"]
    BY <1>2 DEF DropDot
  <2>1. buf' \in Seq(Chars) /\ Len(buf') = Len(buf)
    BY <2>0, <1>0, ExceptSeq
  <2> QED BY <1>2, <1>0, <2>1 DEF DropDot, Advance
<1>3. CASE DropDotDot
  <2>0. buf' = buf \/ buf' = [buf EXCEPT ![in + 2] = "/"]
    BY <1>3 DEF DropDotDot
  <2>1. buf' \in Seq(Chars) /\ Len(buf') = Len(buf)
    BY <2>0, <1>0, ExceptSeq
  <2> QED BY <1>3, <1>0, <2>1 DEF DropDotDot, Advance
<1>4. CASE DropLoneDots
  BY <1>4, <1>0 DEF DropLoneDots
<1>5. CASE MoveSegment
  <2>1. upc = "dots" /\ in <= Len(buf)
    BY <1>5 DEF MoveSegment
  <2>2. PICK k \in 1..Len(Unread), n \in 0..Len(Unread) :
          /\ n = IF k + LeadingSlash <= Len(Unread) THEN k ELSE k - 1
          /\ buf' = [i \in DOMAIN buf |->
                       IF i \in (op + 1)..(op + n)
                         THEN buf[in + LeadingSlash + i - op - 1] ELSE buf[i]]
          /\ op' = op + n
          /\ Advance(n + LeadingSlash)
    BY <1>5 DEF MoveSegment
  <2>3. LeadingSlash \in {0, 1}
    BY DEF LeadingSlash
  <2>4. Len(Unread) \in Nat /\ Len(Unread) = Len(buf) - in + 1
    BY <2>1, UnreadLength
  <2>5. n + LeadingSlash \in 1..Len(Unread)
    BY <2>2, <2>3, <2>4
  <2>6. \A i \in DOMAIN buf : buf'[i] \in Chars
    <3>1. ASSUME NEW i \in (op + 1)..(op + n)
          PROVE  in + LeadingSlash + i - op - 1 \in DOMAIN buf
      BY <1>0, <2>2, <2>3, <2>4, <2>5
    <3>2. \A j \in DOMAIN buf : buf[j] \in Chars
      BY <1>0, ElementOfSeq
    <3> QED BY <2>2, <3>1, <3>2
  <2>7. buf' \in Seq(Chars) /\ Len(buf') = Len(buf)
    <3>1. buf' \in [1..Len(buf) -> Chars]
      BY <1>0, <2>2, <2>6
    <3> QED BY <1>0, <3>1
  <2> QED BY <1>0, <2>2, <2>3, <2>5, <2>7 DEF Advance
<1> QED BY <1>1, <1>2, <1>3, <1>4, <1>5 DEF RemoveDots

LEMMA InvNext == IInv /\ [UriNext]_uvars => IInv'
BY InvResolve, InvRemove DEF UriNext, uvars, IInv

\* What is written never reaches what is still to be read: the comment in
\* uri_remove_dot_segments_append() that no overwrite can happen.
THEOREM NeverOverwrites == UriSpec => []InPlaceSafe
<1>1. IInv => InPlaceSafe
  BY DEF IInv, InPlaceSafe
<1> QED BY <1>1, InvNext, InvInit, PTL DEF UriSpec

\* Every iteration of the loop of uri_remove_dot_segments_append() reads at least
\* one character, so that there are no more iterations than characters.
THEOREM ReadsOn == UriSpec => EveryIterationReads
<1>1. IInv /\ [UriNext]_uvars => [upc = "dots" => in' > in]_uvars
  <2> SUFFICES ASSUME IInv, UriNext, upc = "dots" PROVE in' > in
    OBVIOUS
  <2>1. RemoveDots
    BY DEF UriNext
  <2> QED BY <2>1, InvRemove
<1>2. UriSpec => []IInv
  BY InvNext, InvInit, PTL DEF UriSpec
<1> QED BY <1>1, <1>2, PTL DEF UriSpec, EveryIterationReads

-----------------------------------------------------------------------------
(* The last slash of a path, and what is before and after it. *)

Path == Seq(Chars)

\* k is the last slash of p, or 0 if it has none.
IsLastSlash(p, k) ==
  /\ k \in 0..Len(p)
  /\ k > 0 => p[k] = "/"
  /\ \A j \in (k + 1)..Len(p) : p[j] # "/"

\* LastSlash() finds the last slash,
LEMMA LastSlashFound == ASSUME NEW p \in Path PROVE IsLastSlash(p, LastSlash(p))
<1> DEFINE S == {0} \cup {i \in DOMAIN p : p[i] = "/"}
<1>1. Len(p) \in Nat /\ DOMAIN p = 1..Len(p)
  BY LenProperties DEF Path
<1>2. S \subseteq 0..Len(p) /\ S # {}
  BY <1>1
<1>3. Max(S) \in S /\ \A y \in S : Max(S) >= y
  <2> HIDE DEF S
  <2> QED BY <1>1, <1>2, MaxUpTo
<1>4. LastSlash(p) = Max(S)
  BY DEF LastSlash
<1> DEFINE m == Max(S)
<1>5. m \in S /\ \A y \in S : m >= y
  BY <1>3
<1> HIDE DEF m
<1>6. m \in 0..Len(p) /\ (m > 0 => p[m] = "/")
  BY <1>1, <1>2, <1>5
<1>7. ASSUME NEW j \in (m + 1)..Len(p) PROVE p[j] # "/"
  BY <1>1, <1>5, <1>6
<1> QED BY <1>4, <1>6, <1>7 DEF IsLastSlash, m

\* and nothing else is the last slash.
LEMMA LastSlashUnique ==
  ASSUME NEW p \in Path, NEW k, IsLastSlash(p, k)
  PROVE  LastSlash(p) = k
<1> DEFINE m == LastSlash(p)
<1>1. IsLastSlash(p, m)
  BY LastSlashFound
<1>2. Len(p) \in Nat
  BY DEF Path
<1> HIDE DEF m
<1> QED BY <1>1, <1>2 DEF IsLastSlash, m

\* The characters m to n of a path.
LEMMA Parts ==
  ASSUME NEW p \in Path, NEW m \in 1..(Len(p) + 1), NEW n \in 0..Len(p)
  PROVE  /\ SubSeq(p, m, n) \in Path
         /\ Len(SubSeq(p, m, n)) = IF m <= n THEN n - m + 1 ELSE 0
         /\ \A i \in 1..(n - m + 1) : SubSeq(p, m, n)[i] = p[m + i - 1]
<1>1. \A i \in m..n : p[i] \in Chars
  BY ElementOfSeq DEF Path
<1>2. m \in Int /\ n \in Int
  BY DEF Path
<1> QED BY <1>1, <1>2, SubSeqProperties DEF Path

LEMMA PathIsShorter == ASSUME NEW p \in Path PROVE DropLast(p) \in Path
<1>1. Len(p) \in Nat /\ LastSlash(p) \in 0..Len(p)
  BY LastSlashFound DEF IsLastSlash, Path
<1>2. CASE LastSlash(p) = 0
  <2>1. SubSeq(p, 1, 0 - 1) = <<>>
    BY SubSeqEmpty
  <2> QED BY <1>2, <2>1, EmptySeq DEF DropLast, Path
<1>3. CASE LastSlash(p) # 0
  BY <1>1, <1>3, Parts DEF DropLast
<1> QED BY <1>2, <1>3

LEMMA SettleIsPath == ASSUME NEW p \in Path PROVE Settle(p) \in Path
BY PathIsShorter DEF Settle

LEMMA ReadOnIsPath == ASSUME NEW p \in Path, NEW c \in Chars PROVE ReadOn(p, c) \in Path
<1>1. \A q \in Path : Append(q, c) \in Path
  BY AppendProperties DEF Path
<1> QED BY <1>1, SettleIsPath DEF ReadOn

\* The recursive function ReadUpTo(p), unfolded.
LEMMA ReadUpToDef ==
  ASSUME NEW p \in Path
  PROVE  /\ ReadUpTo(p) \in [0..Len(p) -> Path]
         /\ ReadUpTo(p)[0] = <<>>
         /\ \A i \in 1..Len(p) : ReadUpTo(p)[i] = ReadOn(ReadUpTo(p)[i - 1], p[i])
<1> DEFINE N == Len(p)
           step == [n \in Nat |-> [t \in Path |-> IF n < N THEN ReadOn(t, p[n + 1]) ELSE t]]
           Eqn(f) == f = [i \in 0..N |-> IF i = 0 THEN <<>> ELSE ReadOn(f[i - 1], p[i])]
<1>0. N \in Nat
  BY DEF Path
<1> HIDE DEF N
<1>1. <<>> \in Path
  BY EmptySeq DEF Path
<1>2. step \in [Nat -> [Path -> Path]]
  <2>1. ASSUME NEW n \in Nat, NEW t \in Path, n < N PROVE ReadOn(t, p[n + 1]) \in Path
    <3>1. p[n + 1] \in Chars
      BY <1>0, <2>1, ElementOfSeq DEF N, Path
    <3> QED BY <3>1, ReadOnIsPath
  <2> QED BY <2>1
<1>3. \A n \in Nat, t \in Path : n < N => step[n][t] = ReadOn(t, p[n + 1])
  OBVIOUS
<1> HIDE DEF step
<1>4. PICK f \in [Nat -> Path] : Follows(f, <<>>, step)
  BY <1>1, <1>2, Recursion
<1>5. f[0] = <<>> /\ \A n \in Nat : n < N => f[n + 1] = ReadOn(f[n], p[n + 1])
  BY <1>3, <1>4 DEF Follows
<1> DEFINE g == [i \in 0..N |-> f[i]]
<1>6. g[0] = <<>> /\ \A i \in 1..N : g[i] = ReadOn(g[i - 1], p[i])
  <2>1. ASSUME NEW i \in 1..N PROVE f[i] = ReadOn(f[i - 1], p[i])
    <3>1. i - 1 \in Nat /\ i - 1 < N /\ (i - 1) + 1 = i
      BY <1>0
    <3> QED BY <1>5, <3>1
  <2> QED BY <1>0, <1>5, <2>1
<1>7. g = [i \in 0..N |-> g[i]]
  OBVIOUS
<1> HIDE DEF g
<1>8. Eqn(g)
  <2>1. \A i \in 0..N : g[i] = IF i = 0 THEN <<>> ELSE ReadOn(g[i - 1], p[i])
    BY <1>0, <1>6
  <2> QED BY <1>7, <2>1
<1>9. Eqn(ReadUpTo(p))
  BY <1>8, Zenon DEF ReadUpTo, N
<1> DEFINE R == ReadUpTo(p)
<1> HIDE DEF R
<1>10. R[0] = <<>> /\ \A i \in 1..N : R[i] = ReadOn(R[i - 1], p[i])
  BY <1>0, <1>9 DEF R
<1>11. ASSUME NEW i \in Nat PROVE i <= N => R[i] = f[i]
  <2> DEFINE E == {j \in Nat : j <= N => R[j] = f[j]}
  <2>1. 0 \in E
    BY <1>5, <1>10
  <2>2. ASSUME NEW j \in Nat, j \in E PROVE j + 1 \in E
    BY <1>0, <1>5, <1>10, <2>2
  <2> HIDE DEF E
  <2>3. \A j \in Nat : j \in E
    BY <2>1, <2>2, Induction
  <2> QED BY <2>3 DEF E
<1>12. R \in [0..N -> Path]
  <2>1. R = [i \in 0..N |-> R[i]]
    BY <1>9 DEF R
  <2> QED BY <1>0, <1>11, <2>1
<1> QED BY <1>10, <1>12 DEF R, N

-----------------------------------------------------------------------------
(* Reading a segment. *)

Slashed(c, s) == Append(c, "/") \o s
NoSlash(s) == \A j \in 1..Len(s) : s[j] # "/"

\* The path c, a slash and s, character by character.
LEMMA SlashedPath ==
  ASSUME NEW c \in Path, NEW s \in Path
  PROVE  /\ Slashed(c, s) \in Path
         /\ Len(Slashed(c, s)) = Len(c) + 1 + Len(s)
         /\ \A i \in 1..Len(c) : Slashed(c, s)[i] = c[i]
         /\ Slashed(c, s)[Len(c) + 1] = "/"
         /\ \A i \in 1..Len(s) : Slashed(c, s)[Len(c) + 1 + i] = s[i]
<1> DEFINE a == Append(c, "/")
<1>1. Len(c) \in Nat /\ Len(s) \in Nat
  BY DEF Path
<1>2. a \in Path /\ Len(a) = Len(c) + 1 /\ (\A i \in 1..Len(c) : a[i] = c[i]) /\ a[Len(c) + 1] = "/"
  BY AppendProperties, "/" \in Chars DEF Path, Chars
<1> HIDE DEF a
<1>3. /\ a \o s \in Path /\ Len(a \o s) = Len(a) + Len(s)
      /\ \A i \in 1..(Len(a) + Len(s)) : (a \o s)[i] = IF i <= Len(a) THEN a[i] ELSE s[i - Len(a)]
  BY <1>2, ConcatProperties DEF Path
<1>4. Slashed(c, s) = a \o s
  BY DEF Slashed, a
<1>5. ASSUME NEW i \in 1..Len(s) PROVE (a \o s)[Len(c) + 1 + i] = s[i]
  BY <1>1, <1>2, <1>3
<1> QED BY <1>1, <1>2, <1>3, <1>4, <1>5

\* If there is no slash in s, s is the last segment of that path, and c what is left without it.
LEMMA BehindSlash ==
  ASSUME NEW c \in Path, NEW s \in Path, NoSlash(s)
  PROVE  /\ LastSegmentOf(Slashed(c, s)) = s
         /\ DropLast(Slashed(c, s)) = c
<1> DEFINE t == Slashed(c, s)
           k == Len(c) + 1
<1>1. Len(c) \in Nat /\ Len(s) \in Nat /\ k \in Nat
  BY DEF Path
<1>2. /\ t \in Path /\ Len(t) = k + Len(s) /\ t[k] = "/"
      /\ \A i \in 1..Len(c) : t[i] = c[i]
      /\ \A i \in 1..Len(s) : t[k + i] = s[i]
  BY SlashedPath
<1> HIDE DEF t
<1>3. LastSlash(t) = k
  <2>1. ASSUME NEW j \in (k + 1)..Len(t) PROVE t[j] # "/"
    <3>1. j - k \in 1..Len(s) /\ k + (j - k) = j
      BY <1>1, <1>2
    <3> QED BY <1>2, <3>1 DEF NoSlash
  <2>2. IsLastSlash(t, k)
    BY <1>1, <1>2, <2>1 DEF IsLastSlash
  <2> QED BY <1>2, <2>2, LastSlashUnique
<1>4. SubSeq(t, k + 1, Len(t)) = s
  <2>1. k + 1 \in 1..(Len(t) + 1) /\ Len(t) \in 0..Len(t)
    BY <1>1, <1>2
  <2> DEFINE u == SubSeq(t, k + 1, Len(t))
  <2>2. u \in Path /\ Len(u) = Len(s)
    BY <1>1, <1>2, <2>1, Parts
  <2>3. ASSUME NEW i \in 1..Len(s) PROVE u[i] = s[i]
    <3>1. u[i] = t[(k + 1) + i - 1]
      BY <1>1, <1>2, <2>1, Parts
    <3>2. (k + 1) + i - 1 = k + i
      BY <1>1
    <3> QED BY <1>2, <3>1, <3>2
  <2> HIDE DEF u
  <2> QED BY <2>2, <2>3, SeqEqual DEF Path, u
<1>5. SubSeq(t, 1, k - 1) = c
  <2>0. k - 1 = Len(c)
    BY <1>1
  <2>1. 1 \in 1..(Len(t) + 1) /\ Len(c) \in 0..Len(t)
    BY <1>1, <1>2
  <2> DEFINE u == SubSeq(t, 1, Len(c))
  <2>2. u \in Path /\ Len(u) = Len(c)
    BY <1>1, <1>2, <2>1, Parts
  <2>3. ASSUME NEW i \in 1..Len(c) PROVE u[i] = c[i]
    BY <1>1, <1>2, <2>1, Parts
  <2> HIDE DEF u
  <2> QED BY <2>0, <2>2, <2>3, SeqEqual DEF Path, u
<1> QED BY <1>3, <1>4, <1>5 DEF LastSegmentOf, DropLast, t

\* So that "." leaves c, and ".." takes the last segment of c along.
LEMMA SettleBehindSlash ==
  ASSUME NEW c \in Path, NEW s \in Path, NoSlash(s)
  PROVE  Settle(Slashed(c, s)) = IF s = <<".">> THEN c
                                 ELSE IF s = <<".", ".">> THEN DropLast(c)
                                 ELSE Slashed(c, s)
BY BehindSlash, Zenon DEF Settle

\* The n characters behind the i-th.
LEMMA Behind ==
  ASSUME NEW p \in Path, NEW i \in 0..Len(p), NEW n \in Nat, i + n <= Len(p)
  PROVE  /\ SubSeq(p, i + 1, i + n) \in Path
         /\ Len(SubSeq(p, i + 1, i + n)) = n
         /\ \A j \in 1..n : SubSeq(p, i + 1, i + n)[j] = p[i + j]
<1>1. i + 1 \in 1..(Len(p) + 1) /\ i + n \in 0..Len(p) /\ (i + n) - (i + 1) + 1 = n
  BY DEF Path
<1>2. \A j \in 1..n : (i + 1) + j - 1 = i + j
  OBVIOUS
<1>3. n = 0 => ~(i + 1 <= i + n)
  OBVIOUS
<1>4. n # 0 => i + 1 <= i + n
  OBVIOUS
<1> QED BY <1>1, <1>2, <1>3, <1>4, Parts

\* From a slash on, the characters up to the next one are taken over.
LEMMA SegmentRead ==
  ASSUME NEW p \in Path, NEW i \in 1..Len(p), p[i] = "/",
         NEW n \in Nat, i + n <= Len(p), \A j \in (i + 1)..(i + n) : p[j] # "/"
  PROVE  ReadUpTo(p)[i + n] = Slashed(Settle(ReadUpTo(p)[i - 1]), SubSeq(p, i + 1, i + n))
<1> DEFINE R == ReadUpTo(p)
           c == Settle(R[i - 1])
           t(m) == SubSeq(p, i + 1, i + m)
           E == {m \in Nat : m <= n => R[i + m] = Slashed(c, t(m))}
<1>0. Len(p) \in Nat /\ i - 1 \in 0..Len(p)
  BY DEF Path
<1>1. /\ \A m \in 0..Len(p) : R[m] \in Path
      /\ \A m \in 1..Len(p) : R[m] = ReadOn(R[m - 1], p[m])
  BY ReadUpToDef
<1>2. c \in Path
  BY <1>0, <1>1, SettleIsPath
<1> HIDE DEF R
<1>3. 0 \in E
  <2>1. R[i] = Append(c, "/")
    BY <1>1 DEF ReadOn
  <2>2. t(0) = <<>>
    BY <1>0, SubSeqEmpty
  <2>3. Append(c, "/") \in Path
    BY <1>2, AppendProperties DEF Path, Chars
  <2>4. Slashed(c, <<>>) = Append(c, "/")
    BY <2>3, ConcatEmptySeq DEF Slashed, Path
  <2> HIDE DEF c, t
  <2> QED BY <2>1, <2>2, <2>4, i + 0 = i
<1>4. ASSUME NEW m \in Nat, m \in E PROVE m + 1 \in E
  <2> SUFFICES ASSUME m + 1 <= n PROVE R[i + (m + 1)] = Slashed(c, t(m + 1))
    BY m + 1 \in Nat
  <2>1. R[i + m] = Slashed(c, t(m))
    BY <1>4
  <2>2. i + (m + 1) \in 1..Len(p) /\ (i + (m + 1)) - 1 = i + m /\ p[i + (m + 1)] # "/"
    BY <1>0
  <2>3. R[i + (m + 1)] = Append(R[i + m], p[i + (m + 1)])
    BY <1>1, <2>2 DEF ReadOn
  <2>4. p[i + (m + 1)] \in Chars
    BY <2>2, ElementOfSeq DEF Path
  <2>5. t(m + 1) = Append(t(m), p[i + (m + 1)]) /\ t(m) \in Path
    <3>1. i \in 0..Len(p) /\ i + m <= Len(p) /\ i + (m + 1) <= Len(p) /\ m + 1 \in Nat
      BY <1>0, <2>2
    <3>2. t(m) \in Path /\ Len(t(m)) = m /\ \A j \in 1..m : t(m)[j] = p[i + j]
      BY <3>1, Behind
    <3>3. t(m + 1) \in Path /\ Len(t(m + 1)) = m + 1 /\ \A j \in 1..(m + 1) : t(m + 1)[j] = p[i + j]
      BY <3>1, Behind
    <3> DEFINE u == t(m)
               v == t(m + 1)
               e == p[i + (m + 1)]
    <3> HIDE DEF u, v, e, t
    <3>4. u \in Path /\ Len(u) = m /\ \A j \in 1..m : u[j] = p[i + j]
      BY <3>2 DEF u
    <3>5. v \in Path /\ Len(v) = m + 1 /\ \A j \in 1..(m + 1) : v[j] = p[i + j]
      BY <3>3 DEF v
    <3>6. /\ Append(u, e) \in Path /\ Len(Append(u, e)) = m + 1
          /\ \A j \in 1..m : Append(u, e)[j] = u[j]
          /\ Append(u, e)[m + 1] = e
      BY <2>4, <3>4, AppendProperties DEF e, Path
    <3>7. \A j \in 1..(m + 1) : v[j] = Append(u, e)[j]
      <4>1. v[m + 1] = e
        BY <3>5, m + 1 \in 1..(m + 1) DEF e
      <4>2. ASSUME NEW j \in 1..m PROVE v[j] = Append(u, e)[j]
        <5>1. j \in 1..(m + 1)
          OBVIOUS
        <5>2. v[j] = p[i + j] /\ u[j] = p[i + j] /\ Append(u, e)[j] = u[j]
          BY <3>4, <3>5, <3>6, <5>1
        <5> QED BY <5>2
      <4> QED BY <3>6, <4>1, <4>2
    <3>8. v = Append(u, e)
      BY <3>5, <3>6, <3>7, SeqEqual DEF Path
    <3> QED BY <3>4, <3>8 DEF u, v, e
  <2>6. Append(Slashed(c, t(m)), p[i + (m + 1)]) = Slashed(c, Append(t(m), p[i + (m + 1)]))
    <3> DEFINE a == Append(c, "/")
               u == t(m)
               e == p[i + (m + 1)]
    <3>1. a \in Path
      BY <1>2, AppendProperties DEF Path, Chars
    <3>2. u \in Path /\ e \in Chars /\ <<e>> \in Path
      BY <2>4, <2>5 DEF Path
    <3> HIDE DEF a, u, e
    <3>3. a \o u \in Path
      BY <3>1, <3>2, ConcatProperties DEF Path
    <3>4. Append(a \o u, e) = (a \o u) \o <<e>> /\ Append(u, e) = u \o <<e>>
      BY <3>2, <3>3, AppendIsConcat DEF Path
    <3>5. (a \o u) \o <<e>> = a \o (u \o <<e>>)
      BY <3>1, <3>2, ConcatAssociative DEF Path
    <3>6. Append(a \o u, e) = a \o Append(u, e)
      BY <3>4, <3>5
    <3> QED BY <3>6 DEF a, u, e, Slashed
  <2> HIDE DEF c, t
  <2> QED BY <2>1, <2>3, <2>5, <2>6
<1> HIDE DEF E
<1>5. n \in E
  BY <1>3, <1>4, Induction
<1> QED BY <1>5 DEF E, R

\* The input is the rest of p, from a slash on, and what is written is what has
\* become of the part of p before it.
RestInv(p) == /\ \A j \in in..Len(p) : buf[j] = p[j]
              /\ Settle(ReadUpTo(p)[in - 1]) = Cleaned

\* p ended with a dot segment, and the input is the slash put in its place.
RewrittenInv(p) == /\ in = Len(p)
                   /\ LastSegmentOf(ReadUpTo(p)[Len(p)]) \in Dots
                   /\ Settle(ReadUpTo(p)[Len(p)]) = Cleaned

\* While the path p is cleaned.
CleaningInv(p) == /\ ~isRel /\ Len(buf) = Len(p) /\ buf[in] = "/"
                  /\ RestInv(p) \/ RewrittenInv(p)

ResolveInv ==
  /\ IInv /\ upc \in {"fresh", "dots", "done"}
  /\ upc # "fresh" =>
       /\ base \in Bases /\ ref \in Refs
       /\ tar = Target(base, ref)
       /\ ~RelativePath(base, ref) =>
            /\ upc = "dots" => ~TakenFromBase(ref) /\ CleaningInv(Uncleaned(base, ref))
            /\ upc = "done" => Cleaned = TargetPath(base, ref)

-----------------------------------------------------------------------------
(* What a branch of the loop finds in the buffer. *)

\* What the tests of the branches say about the characters.
LEMMA PrefixChars ==
  ASSUME NEW u \in Path
  PROVE  /\ IsPrefix(<<".", "/">>, u) => Len(u) >= 2 /\ u[1] = "."
         /\ IsPrefix(<<".", ".", "/">>, u) => Len(u) >= 3 /\ u[1] = "."
         /\ IsPrefix(<<"/", ".", "/">>, u) <=> Len(u) >= 3 /\ u[1] = "/" /\ u[2] = "." /\ u[3] = "/"
         /\ IsPrefix(<<"/", ".", ".", "/">>, u) <=>
              Len(u) >= 4 /\ u[1] = "/" /\ u[2] = "." /\ u[3] = "." /\ u[4] = "/"
         /\ IsPrefix(<<"/">>, u) <=> u # <<>> /\ u[1] = "/"
BY DEF IsPrefix, Path

LEMMA WholeChars ==
  ASSUME NEW u \in Path
  PROVE  /\ u = <<".">> => u[1] = "."
         /\ u = <<".", ".">> => u[1] = "."
         /\ u = <<"/", ".">> <=> Len(u) = 2 /\ u[1] = "/" /\ u[2] = "."
         /\ u = <<"/", ".", ".">> <=> Len(u) = 3 /\ u[1] = "/" /\ u[2] = "." /\ u[3] = "."
BY DEF Path

\* Whatever is read from the slash at i on: a dot segment, or another one.
LEMMA SegmentSettled ==
  ASSUME NEW p \in Path, NEW i \in 1..Len(p), p[i] = "/",
         NEW n \in Nat, i + n <= Len(p), \A j \in (i + 1)..(i + n) : p[j] # "/"
  PROVE  LET R == ReadUpTo(p)
             c == Settle(R[i - 1])
             s == SubSeq(p, i + 1, i + n)
         IN  /\ c \in Path /\ s \in Path
             /\ R[i + n] = Slashed(c, s)
             /\ LastSegmentOf(R[i + n]) = s
             /\ Settle(R[i + n]) = IF s = <<".">> THEN c
                                  ELSE IF s = <<".", ".">> THEN DropLast(c)
                                  ELSE R[i + n]
<1> DEFINE R == ReadUpTo(p)
           c == Settle(R[i - 1])
           s == SubSeq(p, i + 1, i + n)
<1>1. R[i + n] = Slashed(c, s)
  BY SegmentRead
<1>2. c \in Path
  <2>1. i - 1 \in 0..Len(p)
    BY DEF Path
  <2>2. R[i - 1] \in Path
    BY <2>1, ReadUpToDef
  <2> QED BY <2>2, SettleIsPath
<1>3. s \in Path /\ Len(s) = n /\ \A j \in 1..n : s[j] = p[i + j]
  BY Behind DEF Path
<1>4. NoSlash(s)
  BY <1>3 DEF NoSlash
<1> HIDE DEF R, c, s
<1>5. LastSegmentOf(R[i + n]) = s /\ Settle(R[i + n]) = IF s = <<".">> THEN c
                                  ELSE IF s = <<".", ".">> THEN DropLast(c)
                                  ELSE R[i + n]
  BY <1>1, <1>2, <1>3, <1>4, BehindSlash, SettleBehindSlash, Zenon
<1> QED BY <1>1, <1>2, <1>3, <1>5 DEF R, c, s

\* After "/." the reference is back where it was before the slash,
LEMMA DotRead ==
  ASSUME NEW p \in Path, NEW i \in 1..Len(p), p[i] = "/", i + 1 <= Len(p), p[i + 1] = "."
  PROVE  /\ LastSegmentOf(ReadUpTo(p)[i + 1]) \in Dots
         /\ Settle(ReadUpTo(p)[i + 1]) = Settle(ReadUpTo(p)[i - 1])
<1> DEFINE s == SubSeq(p, i + 1, i + 1)
<1>1. s = <<".">>
  <2>1. s \in Path /\ Len(s) = 1 /\ s[1] = p[i + 1]
    BY Behind DEF Path
  <2> HIDE DEF s
  <2> QED BY <2>1 DEF Path
<1>2. \A j \in (i + 1)..(i + 1) : p[j] # "/"
  OBVIOUS
<1> HIDE DEF s
<1> QED BY <1>1, <1>2, SegmentSettled DEF s, Dots

\* and after "/.." has lost one more segment.
LEMMA DotDotRead ==
  ASSUME NEW p \in Path, NEW i \in 1..Len(p), p[i] = "/", i + 2 <= Len(p),
         p[i + 1] = ".", p[i + 2] = "."
  PROVE  /\ LastSegmentOf(ReadUpTo(p)[i + 2]) \in Dots
         /\ Settle(ReadUpTo(p)[i + 2]) = DropLast(Settle(ReadUpTo(p)[i - 1]))
<1> DEFINE s == SubSeq(p, i + 1, i + 2)
<1>1. s = <<".", ".">>
  <2>1. s \in Path /\ Len(s) = 2 /\ s[1] = p[i + 1] /\ s[2] = p[i + 2]
    BY Behind DEF Path
  <2> HIDE DEF s
  <2> QED BY <2>1 DEF Path
<1>2. \A j \in (i + 1)..(i + 2) : p[j] # "/"
  OBVIOUS
<1> HIDE DEF s
<1>3. s # <<".">>
  BY <1>1
<1> DEFINE t == ReadUpTo(p)[i + 2]
           c == Settle(ReadUpTo(p)[i - 1])
<1>4. LastSegmentOf(t) = s /\ Settle(t) = IF s = <<".">> THEN c
                                         ELSE IF s = <<".", ".">> THEN DropLast(c)
                                         ELSE t
  BY <1>2, 2 \in Nat, SegmentSettled DEF s
<1> HIDE DEF t, c
<1>5. LastSegmentOf(t) = <<".", ".">> /\ Settle(t) = DropLast(c)
  BY <1>1, <1>3, <1>4
<1> QED BY <1>5 DEF t, c, Dots

\* What is unread, and what has been written.
LEMMA LoopState ==
  ASSUME IInv, upc = "dots"
  PROVE  /\ Unread \in Path /\ Len(Unread) = Len(buf) - in + 1 /\ Len(buf) \in Nat
         /\ \A j \in 1..Len(Unread) : Unread[j] = buf[in + j - 1]
         /\ in \in 1..Len(buf) /\ op \in 0..Len(buf)
         /\ Cleaned \in Path /\ Len(Cleaned) = op /\ \A j \in 1..op : Cleaned[j] = buf[j]
<1>1. buf \in Path /\ Len(buf) \in Nat /\ in \in 1..Len(buf) /\ op \in 0..Len(buf)
  BY DEF IInv, Path
<1>2. in \in 1..(Len(buf) + 1) /\ Len(buf) \in 0..Len(buf) /\ 1 \in 1..(Len(buf) + 1)
  BY <1>1
<1>3. /\ Unread \in Path /\ Len(Unread) = Len(buf) - in + 1
      /\ \A j \in 1..Len(Unread) : Unread[j] = buf[in + j - 1]
  BY <1>1, <1>2, Parts DEF Unread
<1>4. Cleaned \in Path /\ Len(Cleaned) = op /\ \A j \in 1..op : Cleaned[j] = buf[j]
  <2>1. 0 \in 0..Len(buf) /\ 0 + op <= Len(buf) /\ 0 + 1 = 1 /\ 0 + op = op /\ op \in Nat
    BY <1>1
  <2>2. /\ SubSeq(buf, 0 + 1, 0 + op) \in Path /\ Len(SubSeq(buf, 0 + 1, 0 + op)) = op
        /\ \A j \in 1..op : SubSeq(buf, 0 + 1, 0 + op)[j] = buf[0 + j]
    BY <1>1, <2>1, Behind
  <2> QED BY <2>1, <2>2 DEF Cleaned
<1> QED BY <1>1, <1>3, <1>4

\* The output without its last segment and the slash before it.
LEMMA SegmentDropped ==
  ASSUME IInv, upc = "dots", NEW k \in 0..op, LastSegment(k)
  PROVE  SubSeq(buf, 1, k) = DropLast(Cleaned)
<1>1. /\ Cleaned \in Path /\ Len(Cleaned) = op /\ \A j \in 1..op : Cleaned[j] = buf[j]
      /\ op \in 0..Len(buf) /\ Len(buf) \in Nat
  BY LoopState
<1> DEFINE c == Cleaned
<1>2. SubSeq(buf, 1, k) = SubSeq(c, 1, k)
  <2>1. /\ 1 \in 1..(Len(buf) + 1) /\ k \in 0..Len(buf) /\ k - 1 + 1 = k
        /\ 1 \in 1..(op + 1) /\ k \in 0..op /\ buf \in Path /\ k \in Nat
    BY <1>1 DEF IInv, Path
  <2> DEFINE x == SubSeq(buf, 1, k)
             y == SubSeq(c, 1, k)
  <2>2. x \in Path /\ Len(x) = k /\ \A j \in 1..k : x[j] = buf[j]
    <3>1. x \in Path /\ Len(x) = IF 1 <= k THEN k - 1 + 1 ELSE 0
      BY <2>1, Parts
    <3>2. \A j \in 1..(k - 1 + 1) : x[j] = buf[1 + j - 1]
      BY <2>1, Parts
    <3> HIDE DEF x
    <3> QED BY <2>1, <3>1, <3>2
  <2>3. y \in Path /\ Len(y) = k /\ \A j \in 1..k : y[j] = c[j]
    <3> HIDE DEF c
    <3>0. c \in Path /\ Len(c) = op
      BY <1>1 DEF c
    <3>1. y \in Path /\ Len(y) = IF 1 <= k THEN k - 1 + 1 ELSE 0
      BY <3>0, <2>1, Parts
    <3>2. \A j \in 1..(k - 1 + 1) : y[j] = c[1 + j - 1]
      BY <3>0, <2>1, Parts
    <3> HIDE DEF y
    <3> QED BY <2>1, <3>1, <3>2
  <2> HIDE DEF x, y
  <2>4. \A j \in 1..k : x[j] = y[j]
    BY <1>1, <2>1, <2>2, <2>3
  <2>5. x = y
    BY <2>2, <2>3, <2>4, SeqEqual DEF Path
  <2> QED BY <2>5 DEF x, y
<1>3. CASE k > 0
  <2>1. k < op /\ buf[k + 1] = "/" /\ \A j \in (k + 1)..(op - 1) : buf[j + 1] # "/"
    BY <1>3 DEF LastSegment
  <2>2. ASSUME NEW j \in (k + 2)..op PROVE c[j] # "/"
    <3>1. j - 1 \in (k + 1)..(op - 1) /\ (j - 1) + 1 = j /\ j \in 1..op
      BY <1>1
    <3> QED BY <1>1, <2>1, <3>1
  <2>3. k + 1 \in 1..op /\ (k + 1) + 1 = k + 2 /\ (k + 1) - 1 = k
    BY <1>1, <2>1
  <2>4. IsLastSlash(c, k + 1)
    BY <1>1, <2>1, <2>2, <2>3 DEF IsLastSlash
  <2>5. LastSlash(c) = k + 1
    BY <1>1, <2>4, LastSlashUnique
  <2> QED BY <1>2, <2>3, <2>5 DEF DropLast
<1>4. CASE k = 0
  <2>1. \A j \in 1..(op - 1) : buf[j + 1] # "/"
    BY <1>4 DEF LastSegment
  <2>2. ASSUME NEW j \in 2..op PROVE c[j] # "/"
    <3>1. j - 1 \in 1..(op - 1) /\ (j - 1) + 1 = j /\ j \in 1..op
      BY <1>1
    <3> QED BY <1>1, <2>1, <3>1
  <2>3. LastSlash(c) <= 1 /\ LastSlash(c) \in Nat
    <3> DEFINE m == LastSlash(c)
    <3>1. IsLastSlash(c, m)
      BY <1>1, LastSlashFound
    <3> HIDE DEF m
    <3> QED BY <1>1, <2>2, <3>1 DEF IsLastSlash, m
  <2>4. SubSeq(c, 1, LastSlash(c) - 1) = <<>> /\ SubSeq(c, 1, k) = <<>>
    BY <1>4, <2>3, SubSeqEmpty
  <2> QED BY <1>2, <2>4 DEF DropLast
<1> QED BY <1>3, <1>4

\* Paths that agree up to k begin with the same k characters.
LEMMA SamePrefix ==
  ASSUME NEW x \in Path, NEW y \in Path, NEW k \in Nat, k <= Len(x), k <= Len(y),
         \A j \in 1..k : x[j] = y[j]
  PROVE  SubSeq(x, 1, k) = SubSeq(y, 1, k)
<1> DEFINE u == SubSeq(x, 1, k)
           v == SubSeq(y, 1, k)
<1>1. /\ 0 \in 0..Len(x) /\ 0 \in 0..Len(y) /\ 0 + k <= Len(x) /\ 0 + k <= Len(y)
      /\ 0 + 1 = 1 /\ 0 + k = k
  BY DEF Path
<1>2. /\ SubSeq(x, 0 + 1, 0 + k) \in Path /\ Len(SubSeq(x, 0 + 1, 0 + k)) = k
      /\ \A j \in 1..k : SubSeq(x, 0 + 1, 0 + k)[j] = x[0 + j]
  BY <1>1, Behind
<1>3. /\ SubSeq(y, 0 + 1, 0 + k) \in Path /\ Len(SubSeq(y, 0 + 1, 0 + k)) = k
      /\ \A j \in 1..k : SubSeq(y, 0 + 1, 0 + k)[j] = y[0 + j]
  BY <1>1, Behind
<1>4. u \in Path /\ Len(u) = k /\ \A j \in 1..k : u[j] = x[j]
  BY <1>1, <1>2
<1>5. v \in Path /\ Len(v) = k /\ \A j \in 1..k : v[j] = y[j]
  BY <1>1, <1>3
<1> HIDE DEF u, v
<1>6. u = v
  BY <1>4, <1>5, SeqEqual DEF Path
<1> QED BY <1>6 DEF u, v

\* The part of the buffer that was written stays when a character behind it changes.
LEMMA SlashPut ==
  ASSUME IInv, upc = "dots", NEW i \in in..Len(buf), NEW k \in 0..op,
         buf' = [buf EXCEPT ![i] = "/"]
  PROVE  /\ buf' \in Path /\ Len(buf') = Len(buf) /\ buf'[i] = "/"
         /\ SubSeq(buf', 1, k) = SubSeq(buf, 1, k)
<1>1. buf \in Path /\ Len(buf) \in Nat /\ i \in 1..Len(buf) /\ op < i /\ op \in Nat /\ in \in Nat
  BY DEF IInv, Path
<1>2. /\ buf' \in Path /\ Len(buf') = Len(buf)
      /\ \A j \in 1..Len(buf) : buf'[j] = IF j = i THEN "/" ELSE buf[j]
  BY <1>1, "/" \in Chars, ExceptSeq DEF Path, Chars
<1>3. k \in Nat /\ k <= Len(buf) /\ \A j \in 1..k : buf'[j] = buf[j]
  BY <1>1, <1>2
<1> QED BY <1>1, <1>2, <1>3, SamePrefix

-----------------------------------------------------------------------------
(* The branches of the loop. *)

CleanedInv(p) == /\ upc = "dots" => CleaningInv(p)
                 /\ upc = "done" => Cleaned = CleanAbsolute(p)

\* B. The reference drops "." too.
LEMMA CleanDropDot ==
  ASSUME NEW p \in Path, IInv, upc = "dots", CleaningInv(p), DropDot
  PROVE  CleanedInv(p)'
<1>1. /\ Unread \in Path /\ Len(Unread) = Len(buf) - in + 1 /\ Len(buf) \in Nat
      /\ \A j \in 1..Len(Unread) : Unread[j] = buf[in + j - 1]
      /\ in \in 1..Len(buf) /\ op \in 0..Len(buf)
  BY LoopState
<1>a. Len(Unread) = Len(buf) - in + 1 /\ in \in Nat /\ Len(buf) \in Nat
  BY <1>1
<1>b. \A j \in 1..Len(Unread) : Unread[j] = buf[in + j - 1]
  BY <1>1
<1>2. ~isRel /\ Len(buf) = Len(p) /\ buf[in] = "/" /\ (RestInv(p) \/ RewrittenInv(p))
  BY DEF CleaningInv
<1>3. CASE Starts(<<"/", ".", "/">>) /\ Advance(2) /\ UNCHANGED buf
  <2>1. Len(Unread) >= 3 /\ Unread[2] = "." /\ Unread[3] = "/"
    BY <1>1, <1>3, PrefixChars DEF Starts
  <2>2. in + 2 <= Len(buf) /\ buf[in + 1] = "." /\ buf[in + 2] = "/"
    <3>1. in + 2 - 1 = in + 1 /\ in + 3 - 1 = in + 2 /\ in + 2 <= Len(buf)
      BY <1>a, <2>1
    <3> QED BY <1>b, <2>1, <3>1
  <2>3. RestInv(p)
    BY <1>1, <1>2, <2>2 DEF RewrittenInv
  <2>4. p[in] = "/" /\ p[in + 1] = "." /\ in \in 1..Len(p) /\ in + 1 <= Len(p)
    BY <1>1, <1>2, <2>2, <2>3 DEF RestInv
  <2>5. Settle(ReadUpTo(p)[in + 1]) = Cleaned
    BY <2>3, <2>4, DotRead DEF RestInv
  <2>6. in' = in + 2 /\ upc' = "dots" /\ isRel' = isRel /\ buf' = buf /\ op' = op
    BY <1>1, <1>3, <2>2 DEF Advance, DropDot
  <2>7. Cleaned' = Cleaned /\ in' - 1 = in + 1
    BY <1>1, <2>6 DEF Cleaned
  <2>8. RestInv(p)'
    BY <1>1, <2>3, <2>5, <2>6, <2>7 DEF RestInv
  <2> QED BY <1>2, <2>2, <2>6, <2>8 DEF CleanedInv, CleaningInv
<1>4. CASE Equals(<<"/", ".">>) /\ Advance(1) /\ buf' = [buf EXCEPT ![in + 1] = "/"]
  <2>1. Len(Unread) = 2 /\ Unread[2] = "."
    BY <1>1, <1>4, WholeChars DEF Equals
  <2>2. in + 1 = Len(buf) /\ buf[in + 1] = "."
    <3>0. 2 = Len(buf) - in + 1
      BY <1>a, <2>1
    <3>1. in + 2 - 1 = in + 1 /\ in + 1 = Len(buf)
      BY <1>a, <3>0
    <3> QED BY <1>b, <2>1, <3>1
  <2>3. RestInv(p)
    BY <1>1, <1>2, <2>2 DEF RewrittenInv
  <2>4. p[in] = "/" /\ p[in + 1] = "." /\ in \in 1..Len(p) /\ in + 1 <= Len(p) /\ in + 1 = Len(p)
    BY <1>1, <1>2, <2>2, <2>3 DEF RestInv
  <2>5. Settle(ReadUpTo(p)[Len(p)]) = Cleaned /\ LastSegmentOf(ReadUpTo(p)[Len(p)]) \in Dots
    BY <2>3, <2>4, DotRead DEF RestInv
  <2>6. in' = in + 1 /\ upc' = "dots" /\ isRel' = isRel /\ op' = op
    BY <1>1, <1>4, <2>2 DEF Advance, DropDot
  <2>7. in + 1 \in in..Len(buf) /\ op \in 0..op
    BY <1>1, <2>2
  <2>8. Len(buf') = Len(buf) /\ buf'[in + 1] = "/" /\ SubSeq(buf', 1, op) = SubSeq(buf, 1, op)
    BY <1>4, <2>7, SlashPut
  <2>9. Cleaned' = Cleaned
    BY <2>6, <2>8 DEF Cleaned
  <2>10. RewrittenInv(p)'
    BY <2>4, <2>5, <2>6, <2>9 DEF RewrittenInv
  <2> QED BY <1>2, <2>6, <2>8, <2>10 DEF CleanedInv, CleaningInv
<1> QED BY <1>3, <1>4 DEF DropDot

\* C. The segment before ".." goes in the output as in the reference.
LEMMA CleanDropDotDot ==
  ASSUME NEW p \in Path, IInv, upc = "dots", CleaningInv(p), DropDotDot
  PROVE  CleanedInv(p)'
<1>1. /\ Unread \in Path /\ Len(Unread) = Len(buf) - in + 1 /\ Len(buf) \in Nat
      /\ \A j \in 1..Len(Unread) : Unread[j] = buf[in + j - 1]
      /\ in \in 1..Len(buf) /\ op \in 0..Len(buf)
  BY LoopState
<1>a. Len(Unread) = Len(buf) - in + 1 /\ in \in Nat /\ Len(buf) \in Nat
  BY <1>1
<1>b. \A j \in 1..Len(Unread) : Unread[j] = buf[in + j - 1]
  BY <1>1
<1>2. ~isRel /\ Len(buf) = Len(p) /\ buf[in] = "/" /\ (RestInv(p) \/ RewrittenInv(p))
  BY DEF CleaningInv
<1>3. PICK k \in 0..op : LastSegment(k) /\ op' = k
  BY DEF DropDotDot
<1>4. SubSeq(buf, 1, k) = DropLast(Cleaned)
  BY <1>3, SegmentDropped
<1>5. CASE Starts(<<"/", ".", ".", "/">>) /\ Advance(3) /\ UNCHANGED buf
  <2>1. Len(Unread) >= 4 /\ Unread[2] = "." /\ Unread[3] = "." /\ Unread[4] = "/"
    BY <1>1, <1>5, PrefixChars DEF Starts
  <2>2. in + 3 <= Len(buf) /\ buf[in + 1] = "." /\ buf[in + 2] = "." /\ buf[in + 3] = "/"
    <3>1. /\ in + 2 - 1 = in + 1 /\ in + 3 - 1 = in + 2 /\ in + 4 - 1 = in + 3
          /\ in + 3 <= Len(buf)
      BY <1>a, <2>1
    <3> QED BY <1>b, <2>1, <3>1
  <2>3. RestInv(p)
    BY <1>1, <1>2, <2>2 DEF RewrittenInv
  <2>4. /\ p[in] = "/" /\ p[in + 1] = "." /\ p[in + 2] = "." /\ in \in 1..Len(p)
        /\ in + 2 <= Len(p)
    BY <1>1, <1>2, <2>2, <2>3 DEF RestInv
  <2>5. Settle(ReadUpTo(p)[in + 2]) = DropLast(Cleaned)
    BY <2>3, <2>4, DotDotRead DEF RestInv
  <2>6. in' = in + 3 /\ upc' = "dots" /\ isRel' = isRel /\ buf' = buf
    BY <1>1, <1>5, <2>2 DEF Advance
  <2>7. Cleaned' = DropLast(Cleaned) /\ in' - 1 = in + 2
    BY <1>1, <1>3, <1>4, <2>6 DEF Cleaned
  <2>8. RestInv(p)'
    BY <1>1, <2>3, <2>5, <2>6, <2>7 DEF RestInv
  <2> QED BY <1>2, <2>2, <2>6, <2>8 DEF CleanedInv, CleaningInv
<1>6. CASE Equals(<<"/", ".", ".">>) /\ Advance(2) /\ buf' = [buf EXCEPT ![in + 2] = "/"]
  <2>1. Len(Unread) = 3 /\ Unread[2] = "." /\ Unread[3] = "."
    BY <1>1, <1>6, WholeChars DEF Equals
  <2>2. in + 2 = Len(buf) /\ buf[in + 1] = "." /\ buf[in + 2] = "."
    <3>0. 3 = Len(buf) - in + 1
      BY <1>a, <2>1
    <3>1. in + 2 - 1 = in + 1 /\ in + 3 - 1 = in + 2 /\ in + 2 = Len(buf)
      BY <1>a, <3>0
    <3> QED BY <1>b, <2>1, <3>1
  <2>3. RestInv(p)
    BY <1>1, <1>2, <2>2 DEF RewrittenInv
  <2>4. /\ p[in] = "/" /\ p[in + 1] = "." /\ p[in + 2] = "." /\ in \in 1..Len(p)
        /\ in + 2 <= Len(p) /\ in + 2 = Len(p)
    BY <1>1, <1>2, <2>2, <2>3 DEF RestInv
  <2>5. /\ Settle(ReadUpTo(p)[Len(p)]) = DropLast(Cleaned)
        /\ LastSegmentOf(ReadUpTo(p)[Len(p)]) \in Dots
    BY <2>3, <2>4, DotDotRead DEF RestInv
  <2>6. in' = in + 2 /\ upc' = "dots" /\ isRel' = isRel
    BY <1>1, <1>6, <2>2 DEF Advance
  <2>7. in + 2 \in in..Len(buf)
    BY <1>1, <2>2
  <2>8. Len(buf') = Len(buf) /\ buf'[in + 2] = "/" /\ SubSeq(buf', 1, k) = SubSeq(buf, 1, k)
    BY <1>6, <2>7, SlashPut
  <2>9. Cleaned' = DropLast(Cleaned)
    BY <1>3, <1>4, <2>6, <2>8 DEF Cleaned
  <2>10. RewrittenInv(p)'
    BY <2>4, <2>5, <2>6, <2>9 DEF RewrittenInv
  <2> QED BY <1>2, <2>6, <2>8, <2>10 DEF CleanedInv, CleaningInv
<1> QED BY <1>5, <1>6 DEF DropDotDot

\* The segment that MoveSegment moves: k characters, the slash in front included.
Segment(k) == SubSeq(buf, in + 1, in + (k - 1))
Moved(k) ==
  /\ k \in Nat \ {0} /\ in + (k - 1) <= Len(buf)
  /\ \A j \in (in + 1)..(in + (k - 1)) : buf[j] # "/"
  /\ in + k <= Len(buf) => buf[in + k] = "/"
  /\ Segment(k) \notin Dots
  /\ buf' = [i \in DOMAIN buf |->
               IF i \in (op + 1)..(op + k) THEN buf[in + i - op - 1] ELSE buf[i]]
  /\ op' = op + k /\ Advance(k)

\* E. What MoveSegment moves is a segment other than "." and "..", with its slash.
LEMMA MoveIsMoved ==
  ASSUME IInv, upc = "dots", ~isRel, buf[in] = "/", MoveSegment
  PROVE  \E k \in Nat : Moved(k)
<1>1. Unread \in Path /\ in \in Nat /\ Len(buf) \in Nat /\ in <= Len(buf)
  BY LoopState
<1>2. \A j \in 1..Len(Unread) : Unread[j] = buf[in + j - 1]
  BY LoopState
<1> DEFINE L == Len(Unread)
<1>3. L = Len(buf) - in + 1
  BY LoopState
<1>4. LeadingSlash = 0
  BY DEF LeadingSlash
<1>5. PICK k \in 1..L, n \in 0..L :
        /\ NextSlash(k)
        /\ n = IF k + LeadingSlash <= L THEN k ELSE k - 1
        /\ buf' = [i \in DOMAIN buf |->
                     IF i \in (op + 1)..(op + n)
                       THEN buf[in + LeadingSlash + i - op - 1] ELSE buf[i]]
        /\ op' = op + n
        /\ Advance(n + LeadingSlash)
  BY DEF MoveSegment
<1>6. /\ ~Starts(<<"/", ".", "/">>) /\ ~Starts(<<"/", ".", ".", "/">>)
      /\ ~Equals(<<"/", ".">>) /\ ~Equals(<<"/", ".", ".">>)
  BY DEF MoveSegment
<1>7. (k < L => Unread[k + 1] = "/") /\ \A j \in 1..(k - 1) : Unread[j + 1] # "/"
  BY <1>5 DEF NextSlash
<1>8. L \in Nat /\ k \in Nat /\ k >= 1 /\ k <= L
  BY <1>1, <1>3
<1> HIDE DEF L
<1>9. n = k
  BY <1>4, <1>5, <1>8
<1>10. \A j \in 0..(L - 1) : Unread[j + 1] = buf[in + j]
  <2>1. ASSUME NEW j \in 0..(L - 1) PROVE Unread[j + 1] = buf[in + j]
    <3>1. j + 1 \in 1..L /\ in + (j + 1) - 1 = in + j
      BY <1>1, <1>8
    <3> QED BY <1>2, <3>1 DEF L
  <2> QED BY <2>1
<1>11. in + (k - 1) <= Len(buf) /\ (in + k <= Len(buf) => k < L) /\ (~(in + k <= Len(buf)) => k = L)
  BY <1>1, <1>3, <1>8
<1>12. in + k <= Len(buf) => buf[in + k] = "/"
  <2> SUFFICES ASSUME in + k <= Len(buf) PROVE buf[in + k] = "/"
    OBVIOUS
  <2>1. k < L /\ k \in 0..(L - 1)
    BY <1>8, <1>11
  <2> QED BY <1>7, <1>10, <2>1
<1>13. \A j \in (in + 1)..(in + (k - 1)) : buf[j] # "/"
  <2>1. ASSUME NEW j \in (in + 1)..(in + (k - 1)) PROVE buf[j] # "/"
    <3>1. j - in \in 1..(k - 1) /\ j - in \in 0..(L - 1) /\ in + (j - in) = j
      BY <1>1, <1>8
    <3> QED BY <1>7, <1>10, <3>1
  <2> QED BY <2>1
<1>14. Segment(k) \notin Dots
  <2>0. /\ in \in 0..Len(buf) /\ k - 1 \in Nat /\ buf \in Path
    BY <1>1, <1>8 DEF IInv, Path
  <2> DEFINE s == Segment(k)
  <2>1. Len(s) = k - 1 /\ \A j \in 1..(k - 1) : s[j] = buf[in + j]
    BY <1>11, <2>0, Behind DEF Segment
  <2> HIDE DEF s
  <2>2. Unread[1] = "/"
    <3>1. 0 \in 0..(L - 1) /\ 0 + 1 = 1 /\ in + 0 = in
      BY <1>1, <1>8
    <3> QED BY <1>10, <3>1
  <2>3. \A j \in 1..(k - 1) : Unread[j + 1] = s[j]
    <3>1. \A j \in 1..(k - 1) : j \in 0..(L - 1)
      BY <1>8
    <3> QED BY <1>10, <2>1, <3>1
  <2>4. s # <<".">>
    <3> SUFFICES ASSUME s = <<".">> PROVE FALSE
      OBVIOUS
    <3>1. k - 1 = 1 /\ s[1] = "."
      BY <2>1
    <3>2. k = 2
      BY <1>8, <3>1
    <3>3. Unread[2] = "."
      <4>1. 1 \in 1..(k - 1) /\ 1 + 1 = 2
        BY <3>2
      <4> QED BY <2>3, <3>1, <4>1
    <3>4. CASE k = L
      <4>1. Len(Unread) = 2
        BY <3>2, <3>4 DEF L
      <4>2. Unread = <<"/", ".">>
        BY <1>1, <2>2, <3>3, <4>1, WholeChars
      <4> QED BY <1>6, <4>2 DEF Equals
    <3>5. CASE k < L
      <4>1. Len(Unread) >= 3 /\ Unread[3] = "/"
        BY <1>7, <1>8, <3>2, <3>5 DEF L
      <4>2. Starts(<<"/", ".", "/">>)
        BY <1>1, <2>2, <3>3, <4>1, PrefixChars DEF Starts
      <4> QED BY <1>6, <4>2
    <3> QED BY <1>8, <3>4, <3>5
  <2>5. s # <<".", ".">>
    <3> SUFFICES ASSUME s = <<".", ".">> PROVE FALSE
      OBVIOUS
    <3>1. k - 1 = 2 /\ s[1] = "." /\ s[2] = "."
      BY <2>1
    <3>2. k = 3
      BY <1>8, <3>1
    <3>3. Unread[2] = "." /\ Unread[3] = "."
      <4>1. 1 \in 1..(k - 1) /\ 1 + 1 = 2 /\ 2 \in 1..(k - 1) /\ 2 + 1 = 3
        BY <3>2
      <4> QED BY <2>3, <3>1, <4>1
    <3>4. CASE k = L
      <4>1. Len(Unread) = 3
        BY <3>2, <3>4 DEF L
      <4>2. Unread = <<"/", ".", ".">>
        BY <1>1, <2>2, <3>3, <4>1, WholeChars
      <4> QED BY <1>6, <4>2 DEF Equals
    <3>5. CASE k < L
      <4>1. Len(Unread) >= 4 /\ Unread[4] = "/"
        BY <1>7, <1>8, <3>2, <3>5 DEF L
      <4>2. Starts(<<"/", ".", ".", "/">>)
        BY <1>1, <2>2, <3>3, <4>1, PrefixChars DEF Starts
      <4> QED BY <1>6, <4>2
    <3> QED BY <1>8, <3>4, <3>5
  <2> QED BY <2>4, <2>5 DEF Dots, s
<1>15. /\ buf' = [i \in DOMAIN buf |->
                    IF i \in (op + 1)..(op + k) THEN buf[in + i - op - 1] ELSE buf[i]]
       /\ op' = op + k /\ Advance(k)
  <2>1. in + 0 = in /\ k + 0 = k
    BY <1>1, <1>8
  <2> QED BY <1>4, <1>5, <1>9, <2>1
<1>16. Moved(k)
  <2>1. k \in Nat \ {0}
    BY <1>8
  <2>2. in + (k - 1) <= Len(buf)
    BY <1>11
  <2> QED BY <2>1, <2>2, <1>12, <1>13, <1>14, <1>15, Zenon DEF Moved
<1> QED BY <1>8, <1>16

\* What the move leaves in the buffer.
LEMMA MovedBuffer ==
  ASSUME IInv, upc = "dots", NEW k \in Nat, Moved(k)
  PROVE  /\ buf' \in Path /\ Len(buf') = Len(buf)
         /\ \A i \in 1..op : buf'[i] = buf[i]
         /\ \A i \in 0..(k - 1) : buf'[op + 1 + i] = buf[in + i]
         /\ \A i \in (in + k)..Len(buf) : buf'[i] = buf[i]
<1>1. /\ Len(buf) \in Nat /\ DOMAIN buf = 1..Len(buf) /\ op \in Nat /\ in \in Nat /\ op < in
      /\ k >= 1 /\ in + (k - 1) <= Len(buf)
  BY DEF IInv, Moved
<1>2. \A i \in 1..Len(buf) :
        buf'[i] = IF i \in (op + 1)..(op + k) THEN buf[in + i - op - 1] ELSE buf[i]
  BY <1>1 DEF Moved
<1>3. buf' = [i \in 1..Len(buf) |-> buf'[i]]
  BY <1>1 DEF Moved
<1>4. \A i \in 1..op : buf'[i] = buf[i]
  <2>1. \A i \in 1..op : i \in 1..Len(buf) /\ i \notin (op + 1)..(op + k)
    BY <1>1
  <2> QED BY <1>2, <2>1
<1>5. \A i \in 0..(k - 1) : buf'[op + 1 + i] = buf[in + i]
  <2>1. \A i \in 0..(k - 1) : /\ op + 1 + i \in 1..Len(buf) /\ op + 1 + i \in (op + 1)..(op + k)
                              /\ in + (op + 1 + i) - op - 1 = in + i
    BY <1>1
  <2> QED BY <1>2, <2>1
<1>6. \A i \in (in + k)..Len(buf) : buf'[i] = buf[i]
  <2>1. \A i \in (in + k)..Len(buf) : i \in 1..Len(buf) /\ i \notin (op + 1)..(op + k)
    BY <1>1
  <2> QED BY <1>2, <2>1
<1>7. \A i \in 1..Len(buf) : buf'[i] \in Chars
  <2>1. \A i \in 1..Len(buf) : buf[i] \in Chars
    BY <1>1, ElementOfSeq DEF IInv
  <2>2. \A i \in 1..Len(buf) : i \in (op + 1)..(op + k) => in + i - op - 1 \in 1..Len(buf)
    BY <1>1
  <2> QED BY <1>2, <2>1, <2>2
<1>8. buf' \in Path /\ Len(buf') = Len(buf)
  <2>1. buf' \in [1..Len(buf) -> Chars]
    BY <1>3, <1>7
  <2> QED BY <1>1, <2>1 DEF Path
<1> QED BY <1>4, <1>5, <1>6, <1>8

\* It is appended to the output.
LEMMA MovedOutput ==
  ASSUME IInv, upc = "dots", buf[in] = "/", NEW k \in Nat, Moved(k)
  PROVE  Cleaned' = Slashed(Cleaned, Segment(k))
<1>1. /\ buf' \in Path /\ Len(buf') = Len(buf)
      /\ \A i \in 1..op : buf'[i] = buf[i]
      /\ \A i \in 0..(k - 1) : buf'[op + 1 + i] = buf[in + i]
  BY MovedBuffer
<1>2. /\ Len(buf) \in Nat /\ op \in Nat /\ in \in Nat /\ op < in /\ buf \in Path
      /\ k >= 1 /\ in + (k - 1) <= Len(buf) /\ k - 1 \in Nat /\ in \in 0..Len(buf)
      /\ op' = op + k
  BY DEF IInv, Moved, Path
<1>3. /\ Cleaned \in Path /\ Len(Cleaned) = op
      /\ \A j \in 1..op : Cleaned[j] = buf[j]
  BY LoopState
<1> DEFINE s == Segment(k)
           c == Cleaned
           t == Slashed(c, s)
           b == buf'
           u == SubSeq(b, 0 + 1, 0 + (op + k))
<1>4. s \in Path /\ Len(s) = k - 1 /\ \A j \in 1..(k - 1) : s[j] = buf[in + j]
  BY <1>2, Behind DEF Segment
<1>5. u \in Path /\ Len(u) = op + k /\ \A j \in 1..(op + k) : u[j] = b[0 + j]
  <2>1. b \in Path /\ 0 \in 0..Len(b) /\ op + k \in Nat /\ 0 + (op + k) <= Len(b)
    BY <1>1, <1>2
  <2> HIDE DEF b
  <2> QED BY <2>1, Behind
<1> HIDE DEF s, c, u
<1>6. /\ t \in Path /\ Len(t) = Len(c) + 1 + Len(s)
      /\ \A i \in 1..Len(c) : t[i] = c[i]
      /\ t[Len(c) + 1] = "/"
      /\ \A i \in 1..Len(s) : t[Len(c) + 1 + i] = s[i]
  BY <1>3, <1>4, SlashedPath DEF c
<1> HIDE DEF t
<1>7. Len(c) = op /\ \A j \in 1..op : c[j] = buf[j]
  BY <1>3 DEF c
<1>8. ASSUME NEW j \in 1..(op + k) PROVE u[j] = t[j]
  <2>0. u[j] = b[j]
    <3>1. 0 + j = j
      OBVIOUS
    <3> HIDE DEF b
    <3> QED BY <1>5, <3>1
  <2>1. CASE j <= op
    <3>1. j \in 1..op
      BY <1>2, <2>1
    <3> QED BY <1>1, <1>6, <1>7, <2>0, <3>1
  <2>2. CASE j = op + 1
    <3>1. 0 \in 0..(k - 1) /\ op + 1 + 0 = op + 1 /\ in + 0 = in
      BY <1>2
    <3>2. b[op + 1] = buf[in]
      BY <1>1, <3>1
    <3> QED BY <1>6, <1>7, <2>0, <2>2, <3>2
  <2>3. CASE j > op + 1
    <3> DEFINE i == j - (op + 1)
    <3>1. i \in 1..(k - 1) /\ i \in 0..(k - 1) /\ op + 1 + i = j
      BY <1>2, <2>3
    <3> HIDE DEF i
    <3>2. b[j] = buf[in + i]
      BY <1>1, <3>1
    <3>3. t[j] = s[i]
      BY <1>4, <1>6, <1>7, <3>1
    <3> QED BY <1>4, <2>0, <3>1, <3>2, <3>3
  <2> QED BY <1>2, <2>1, <2>2, <2>3
<1>9. Len(t) = op + k
  BY <1>2, <1>4, <1>6, <1>7
<1>10. u = t
  BY <1>5, <1>6, <1>8, <1>9, SeqEqual DEF Path
<1>11. Cleaned' = u
  <2>1. 0 + 1 = 1 /\ 0 + (op + k) = op + k
    BY <1>2
  <2> QED BY <1>2, <2>1 DEF Cleaned, u
<1> QED BY <1>10, <1>11 DEF t, c, s

\* E. The reference takes the segment over, or puts a slash in the place of the last one.
LEMMA CleanMove ==
  ASSUME NEW p \in Path, IInv, upc = "dots", CleaningInv(p), MoveSegment
  PROVE  CleanedInv(p)'
<1> DEFINE R == ReadUpTo(p)
           c == Cleaned
           N == Len(p)
<1>1. ~isRel /\ Len(buf) = N /\ buf[in] = "/" /\ (RestInv(p) \/ RewrittenInv(p))
  BY DEF CleaningInv
<1>2. PICK k \in Nat : Moved(k)
  BY <1>1, MoveIsMoved
<1> DEFINE s == Segment(k)
<1>3. /\ N \in Nat /\ in \in 1..N /\ k - 1 \in Nat /\ in + (k - 1) <= N /\ buf \in Path
      /\ in \in 0..Len(buf) /\ in + (k - 1) = in + k - 1
  BY <1>1, <1>2 DEF IInv, Moved, Path
<1>4. /\ Cleaned' = Slashed(c, s) /\ Len(buf') = N
      /\ \A i \in (in + k)..N : buf'[i] = buf[i]
  BY <1>1, <1>2, MovedBuffer, MovedOutput
<1>5. /\ in' = in + k /\ isRel' = isRel
      /\ upc' = IF in + k > N THEN "done" ELSE "dots"
  BY <1>1, <1>2 DEF Moved, Advance
<1>6. /\ \A j \in (in + 1)..(in + (k - 1)) : buf[j] # "/"
      /\ in + k <= N => buf[in + k] = "/"
      /\ s \notin Dots
  BY <1>1, <1>2 DEF Moved
<1> HIDE DEF N
<1>7. CASE RestInv(p)
  <2>1. (\A j \in in..N : buf[j] = p[j]) /\ Settle(R[in - 1]) = c
    BY <1>7 DEF RestInv, N
  <2>2. p[in] = "/" /\ \A j \in (in + 1)..(in + (k - 1)) : p[j] # "/"
    <3>1. \A j \in (in + 1)..(in + (k - 1)) : j \in in..N
      BY <1>3
    <3> QED BY <1>1, <1>3, <1>6, <2>1, <3>1
  <2> DEFINE q == SubSeq(p, in + 1, in + (k - 1))
  <2>3. q = s
    <3>1. q \in Path /\ Len(q) = k - 1 /\ \A j \in 1..(k - 1) : q[j] = p[in + j]
      BY <1>1, <1>3, Behind DEF N
    <3>2. s \in Path /\ Len(s) = k - 1 /\ \A j \in 1..(k - 1) : s[j] = buf[in + j]
      BY <1>1, <1>3, Behind DEF Segment
    <3>3. \A j \in 1..(k - 1) : in + j \in in..N
      BY <1>3
    <3> HIDE DEF q, s
    <3>4. \A j \in 1..(k - 1) : q[j] = s[j]
      BY <2>1, <3>1, <3>2, <3>3
    <3> QED BY <3>1, <3>2, <3>4, SeqEqual DEF Path
  <2> DEFINE r == R[in + (k - 1)]
  <2>4. r = Slashed(c, q) /\ LastSegmentOf(r) = q
        /\ Settle(r) = IF q = <<".">> THEN c ELSE IF q = <<".", ".">> THEN DropLast(c) ELSE r
    BY <1>3, <2>1, <2>2, SegmentSettled DEF N
  <2> HIDE DEF q, r, s, c
  <2>5. r = Cleaned' /\ Settle(r) = Cleaned' /\ LastSegmentOf(r) \notin Dots
    BY <1>4, <1>6, <2>3, <2>4 DEF Dots
  <2>6. CASE in + k > N
    <3>1. in + (k - 1) = N /\ upc' = "done"
      BY <1>3, <1>5, <2>6
    <3>2. CleanAbsolute(p) = R[N]
      BY <2>5, <3>1 DEF CleanAbsolute, r, N
    <3> QED BY <2>5, <3>1, <3>2 DEF CleanedInv, r
  <2>7. CASE ~(in + k > N)
    <3>1. upc' = "dots" /\ in' - 1 = in + (k - 1) /\ in + k <= N /\ in + k \in (in + k)..N
      BY <1>3, <1>5, <2>7
    <3>2. buf'[in'] = "/"
      BY <1>4, <1>5, <1>6, <3>1
    <3>3. \A j \in in'..N : buf'[j] = p[j]
      <4>1. \A j \in (in + k)..N : j \in in..N
        BY <1>3
      <4> QED BY <1>4, <1>5, <2>1, <4>1
    <3>4. Settle(ReadUpTo(p)[in' - 1]) = Cleaned'
      BY <2>5, <3>1 DEF r
    <3>5. RestInv(p)'
      BY <3>3, <3>4 DEF RestInv, N
    <3> QED BY <1>1, <1>4, <1>5, <3>1, <3>2, <3>5 DEF CleanedInv, CleaningInv, N
  <2> QED BY <2>6, <2>7
<1>8. CASE RewrittenInv(p)
  <2>1. in = N /\ LastSegmentOf(R[N]) \in Dots /\ Settle(R[N]) = c
    BY <1>8 DEF RewrittenInv, N
  <2>2. k = 1 /\ upc' = "done" /\ in + (k - 1) = in
    BY <1>3, <1>5, <2>1
  <2>3. s = <<>>
    <3>1. SubSeq(buf, in + 1, in) = <<>>
      BY <1>3, SubSeqEmpty
    <3> QED BY <2>2, <3>1 DEF Segment
  <2>4. Slashed(c, <<>>) = Append(c, "/")
    <3>1. c \in Path
      BY LoopState
    <3>2. Append(c, "/") \in Path
      BY <3>1, AppendProperties DEF Path, Chars
    <3> QED BY <3>2, ConcatEmptySeq DEF Slashed, Path
  <2>5. CleanAbsolute(p) = Append(c, "/")
    BY <2>1 DEF CleanAbsolute, N
  <2> HIDE DEF s, c
  <2> QED BY <1>4, <2>2, <2>3, <2>4, <2>5 DEF CleanedInv
<1> QED BY <1>1, <1>7, <1>8

\* An absolute path is never left with dots in front.
LEMMA CleanStep ==
  ASSUME NEW p \in Path, IInv, upc = "dots", CleaningInv(p), RemoveDots
  PROVE  CleanedInv(p)' /\ upc' \in {"dots", "done"} /\ UNCHANGED <<base, ref, tar>>
<1>1. Unread \in Path /\ Unread[1] = "/"
  <2>1. in \in 1..Len(buf) /\ Len(buf) \in Nat
    BY LoopState
  <2>2. Len(Unread) = Len(buf) - in + 1
    BY LoopState
  <2>3. 1 \in 1..Len(Unread) /\ in + 1 - 1 = in
    BY <2>1, <2>2
  <2> QED BY <2>3, LoopState DEF CleaningInv
<1>2. /\ ~Starts(<<".", "/">>) /\ ~Starts(<<".", ".", "/">>)
      /\ ~Equals(<<".">>) /\ ~Equals(<<".", ".">>)
  BY <1>1, PrefixChars, WholeChars DEF Starts, Equals
<1>3. DropDot \/ DropDotDot \/ MoveSegment
  BY <1>2 DEF RemoveDots, DropLeadingDots, DropLoneDots
<1>4. CleanedInv(p)'
  BY <1>3, CleanDropDot, CleanDropDotDot, CleanMove
<1>5. \E n : Advance(n)
  BY <1>3 DEF DropDot, DropDotDot, MoveSegment
<1> QED BY <1>4, <1>5 DEF Advance

-----------------------------------------------------------------------------
(* From the choice of the target to the clean path. *)

LEMMA FirstSlash ==
  ASSUME NEW q \in Path
  PROVE  IsPrefix(<<"/">>, q) <=> q # <<>> /\ q[1] = "/"
BY PrefixChars

\* uri_resolve_path_append() puts the reference behind the directory of the base.
LEMMA DirectoryFound ==
  ASSUME NEW b \in Bases, NEW r \in Refs, r.scheme = Absent, r.auth = Absent, r.path # <<>>
  PROVE  Merge(b, r) = Uncleaned(b, r)
<1>1. b.path \in Path /\ r.path \in Path
  BY PathAssumption DEF Path
<1>2. IsPrefix(<<"/">>, r.path) <=> r.path[1] = "/"
  BY <1>1, FirstSlash
<1>3. LastSlash(b.path) \in 0..Len(b.path) /\ Len(b.path) \in Nat
  BY <1>1, LastSlashFound DEF IsLastSlash, Path
<1>4. b.path = <<>> => LastSlash(b.path) = 0
  BY <1>3
<1>5. Directory(b) = IF b.auth # Absent /\ b.path = <<>> THEN <<"/">>
                     ELSE SubSeq(b.path, 1, LastSlash(b.path))
  BY DEF Directory, LastSlash
<1>6. LastSlash(b.path) = 0 => SubSeq(b.path, 1, LastSlash(b.path)) \o r.path = r.path
  <2>1. SubSeq(b.path, 1, 0) = <<>>
    BY SubSeqEmpty
  <2>2. <<>> \o r.path = r.path
    BY <1>1, ConcatEmptySeq DEF Path
  <2> QED BY <2>1, <2>2
<1>7. LastSlash(b.path) > 0 <=> LastSlash(b.path) # 0
  BY <1>3
<1>8. CASE r.path[1] = "/"
  BY <1>2, <1>8 DEF Merge, Uncleaned
<1>9. CASE r.path[1] # "/"
  <2>1. Uncleaned(b, r) = Directory(b) \o r.path
    BY <1>2, <1>9 DEF Uncleaned
  <2>2. CASE LastSlash(b.path) # 0
    BY <1>4, <1>5, <1>7, <1>9, <2>1, <2>2 DEF Merge
  <2>3. CASE LastSlash(b.path) = 0
    <3>1. CASE b.auth # Absent /\ b.path = <<>>
      BY <1>5, <1>7, <1>9, <2>1, <2>3, <3>1 DEF Merge
    <3>2. CASE ~(b.auth # Absent /\ b.path = <<>>)
      BY <1>5, <1>6, <1>7, <1>9, <2>1, <2>3, <3>2 DEF Merge
    <3> QED BY <3>1, <3>2
  <2> QED BY <2>2, <2>3
<1> QED BY <1>8, <1>9

\* The path copied to the buffer is cleaned from its first character on.
LEMMA CleanBegins ==
  ASSUME NEW b \in Bases, NEW r \in Refs, base' = b, ref' = r, ~TakenFromBase(r),
         Uncleaned(b, r) \in Path, CleanPath(Uncleaned(b, r)),
         ~RelativePath(b, r)
  PROVE  /\ upc' = "dots" => CleaningInv(Uncleaned(b, r))'
         /\ upc' = "done" => Cleaned' = TargetPath(b, r)
<1> DEFINE p == Uncleaned(b, r)
<1>1. p \in Path
  OBVIOUS
<1>2. /\ buf' = p /\ in' = 1 /\ op' = 0 /\ isRel' = (p # <<>> /\ p[1] # "/")
      /\ upc' = IF p = <<>> THEN "done" ELSE "dots"
  BY DEF CleanPath
<1>3. p = <<>> \/ p[1] = "/"
  BY DEF RelativePath
<1>4. Cleaned' = <<>>
  <2>1. SubSeq(p, 1, 0) = <<>>
    BY SubSeqEmpty
  <2> HIDE DEF p
  <2> QED BY <1>2, <2>1 DEF Cleaned
<1>5. p = <<>> => TargetPath(b, r) = <<>>
  BY DEF TargetPath, Clean
<1> HIDE DEF p
<1>6. ASSUME p # <<>> PROVE CleaningInv(p)'
  <2>1. isRel' = FALSE /\ buf'[in'] = "/" /\ Len(buf') = Len(p)
    BY <1>2, <1>3, <1>6
  <2>2. Settle(ReadUpTo(p)[in' - 1]) = Cleaned'
    <3>1. ReadUpTo(p)[0] = <<>>
      BY <1>1, ReadUpToDef
    <3>2. Settle(<<>>) = <<>>
      <4>1. <<>> \in Path /\ Len(<<>>) = 0
        BY EmptySeq DEF Path
      <4>2. LastSlash(<<>>) = 0
        BY <4>1, LastSlashFound DEF IsLastSlash
      <4>3. SubSeq(<<>>, 1, 0) = <<>> /\ 0 + 1 = 1
        BY SubSeqEmpty
      <4>4. LastSegmentOf(<<>>) = <<>>
        BY <4>1, <4>2, <4>3 DEF LastSegmentOf
      <4> QED BY <4>4 DEF Settle
    <3>3. in' - 1 = 0
      BY <1>2
    <3> QED BY <1>4, <3>1, <3>2, <3>3
  <2>3. RestInv(p)'
    BY <1>2, <2>2 DEF RestInv
  <2> QED BY <2>1, <2>3 DEF CleaningInv
<1>7. upc' = "dots" => p # <<>>
  BY <1>2
<1>8. upc' = "done" => p = <<>>
  BY <1>2
<1> QED BY <1>4, <1>5, <1>6, <1>7, <1>8 DEF p

\* What is to be cleaned is a path.
LEMMA UncleanedIsPath ==
  ASSUME NEW b \in Bases, NEW r \in Refs, ~TakenFromBase(r)
  PROVE  Uncleaned(b, r) \in Path
<1>1. r.path \in Path
  BY PathAssumption DEF Path
<1>2. CASE r.scheme # Absent \/ r.auth # Absent
  BY <1>1, <1>2 DEF Uncleaned
<1>3. CASE ~(r.scheme # Absent \/ r.auth # Absent)
  <2>1. r.path # <<>>
    BY <1>3 DEF TakenFromBase
  <2> QED BY <1>3, <2>1, DirectoryFound, MergedPath DEF Path
<1> QED BY <1>2, <1>3

\* uri_resolve_append() up to the path.
LEMMA ResolveChooses ==
  ASSUME IInv, NEW b \in Bases, NEW r \in Refs, Resolve(b, r)
  PROVE  ResolveInv'
<1>1. IInv' /\ base' = b /\ ref' = r
  BY InvResolve DEF Resolve
<1>2. CASE TakenFromBase(r)
  <2>1. /\ Put(b.scheme, b.auth, IF r.query # Absent THEN r.query ELSE b.query, r.frag)
        /\ buf' = b.path /\ op' = Len(b.path) /\ upc' = "done"
    BY <1>2 DEF Resolve, TakenFromBase
  <2>2. tar' = Target(b, r)
    BY <1>2, <2>1 DEF Put, Target, TakenFromBase
  <2>3. Cleaned' = b.path
    BY <2>1, PathAssumption, SubSeqFull DEF Cleaned
  <2> QED BY <1>1, <1>2, <2>1, <2>2, <2>3 DEF ResolveInv, TargetPath
<1>3. CASE ~TakenFromBase(r)
  <2>1. tar' = Target(b, r) /\ CleanPath(Uncleaned(b, r))
    <3>1. CASE r.scheme # Absent \/ r.auth # Absent
      BY <3>1 DEF Resolve, Put, Target, Uncleaned
    <3>2. CASE r.scheme = Absent /\ r.auth = Absent
      <4>1. r.path # <<>> /\ Put(b.scheme, b.auth, r.query, r.frag) /\ CleanPath(Merge(b, r))
        BY <1>3, <3>2 DEF Resolve, TakenFromBase
      <4> QED BY <3>2, <4>1, DirectoryFound DEF Put, Target
    <3> QED BY <3>1, <3>2
  <2>2. upc' \in {"dots", "done"}
    BY <2>1 DEF CleanPath
  <2>3. ~RelativePath(b, r) => /\ upc' = "dots" => CleaningInv(Uncleaned(b, r))'
                               /\ upc' = "done" => Cleaned' = TargetPath(b, r)
    BY <1>1, <1>3, <2>1, UncleanedIsPath, CleanBegins
  <2> QED BY <1>1, <1>3, <2>1, <2>2, <2>3 DEF ResolveInv
<1> QED BY <1>2, <1>3

\* Every iteration of uri_remove_dot_segments_append().
LEMMA ResolveCleans == ASSUME ResolveInv, RemoveDots PROVE ResolveInv'
<1>1. IInv /\ upc = "dots"
  BY DEF ResolveInv, RemoveDots, DropLeadingDots, DropDot, DropDotDot, DropLoneDots, MoveSegment
<1>2. base \in Bases /\ ref \in Refs /\ tar = Target(base, ref)
  BY <1>1 DEF ResolveInv
<1>3. UNCHANGED <<base, ref, tar>> /\ upc' \in {"dots", "done"}
  BY DEF RemoveDots, DropLeadingDots, DropDot, DropDotDot, DropLoneDots, MoveSegment, Advance
<1>4. IInv'
  BY <1>1, InvRemove
<1>5. ASSUME ~RelativePath(base, ref)
      PROVE  /\ upc' = "dots" => TakenFromBase(ref)' = FALSE /\ CleaningInv(Uncleaned(base, ref))'
             /\ upc' = "done" => Cleaned' = TargetPath(base, ref)'
  <2>1. ~TakenFromBase(ref) /\ CleaningInv(Uncleaned(base, ref))
    BY <1>1, <1>5 DEF ResolveInv
  <2>2. PICK p \in Path : p = Uncleaned(base, ref)
    BY <1>2, <2>1, UncleanedIsPath
  <2>3. CleanedInv(p)'
    BY <1>1, <2>1, <2>2, CleanStep
  <2>4. Uncleaned(base, ref)' = p /\ TargetPath(base, ref)' = TargetPath(base, ref)
    BY <1>3, <2>2
  <2>5. TargetPath(base, ref) = CleanAbsolute(p)
    <3>1. p # <<>>
      <4>1. Len(p) = Len(buf) /\ Len(buf) \in Nat /\ Len(buf) >= 1
        BY <1>1, <2>1, <2>2, LoopState DEF CleaningInv
      <4> QED BY <4>1, EmptySeq DEF Path
    <3>2. p[1] = "/"
      BY <1>5, <2>1, <2>2, <3>1 DEF RelativePath
    <3> QED BY <2>1, <2>2, <3>1, <3>2 DEF TargetPath, Clean
  <2>6. upc' = "done" => Cleaned' = TargetPath(base, ref)'
    BY <2>3, <2>4, <2>5 DEF CleanedInv
  <2>7. upc' = "dots" => CleaningInv(Uncleaned(base, ref))'
    BY <2>3, <2>4 DEF CleanedInv, CleaningInv, RestInv, RewrittenInv
  <2> QED BY <1>3, <2>1, <2>6, <2>7
<1>6. RelativePath(base, ref)' = RelativePath(base, ref) /\ TakenFromBase(ref)' = TakenFromBase(ref)
      /\ Target(base, ref)' = Target(base, ref)
  BY <1>3
<1> QED BY <1>2, <1>3, <1>4, <1>5, <1>6 DEF ResolveInv

LEMMA ResolveInvInit == UriInit => ResolveInv
BY InvInit DEF UriInit, ResolveInv

LEMMA ResolveInvNext == ResolveInv /\ [UriNext]_uvars => ResolveInv'
<1> SUFFICES ASSUME ResolveInv, [UriNext]_uvars PROVE ResolveInv'
  OBVIOUS
<1>1. CASE upc = "fresh" /\ \E b \in Bases, r \in Refs : Resolve(b, r)
  BY <1>1, ResolveChooses DEF ResolveInv
<1>2. CASE RemoveDots
  BY <1>2, ResolveCleans
<1>3. CASE UNCHANGED uvars
  BY <1>3 DEF uvars, ResolveInv, IInv, Cleaned, CleaningInv, RestInv, RewrittenInv
<1> QED BY <1>1, <1>2, <1>3 DEF UriNext

\* uri_resolve_append() takes the components of the target as RFC 3986, 5.2.2 says,
\* and cleans a path that begins with "/" as 5.2.4 says, whatever its length.
THEOREM ResolvesAsRFC == UriSpec => []ResolvedAsRFC
<1>1. ResolveInv => ResolvedAsRFC
  BY DEF ResolveInv, ResolvedAsRFC
<1> QED BY <1>1, ResolveInvInit, ResolveInvNext, PTL DEF UriSpec
=============================================================================
