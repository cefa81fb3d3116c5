------------------------------ MODULE UriResolve ------------------------------
(***************************************************************************)
(* Reference resolution (include/jkl/uri/resolve.hpp): uri_resolve_append  *)
(* picks the components of the target URI, and                             *)
(* uri_remove_dot_segments_append cleans its path in place, one segment    *)
(* per iteration: the path read so far shrinks to the left of the part     *)
(* still to be read, in the same buffer.                                   *)
(*                                                                         *)
(* A path is a sequence of characters, as what is copied over what is the  *)
(* point; the other components are opaque, "" when absent.                 *)
(***************************************************************************)
EXTENDS Integers, Sequences, SequencesExt, FiniteSetsExt

CONSTANTS
  Segments,     \* the path segments that occur, as sequences of characters
  BaseSegments, \* those of them that occur in a base
  MaxBase,      \* bound on the number of segments of the base's path
  MaxRef,       \* bound on the number of segments of the reference's path
  NoURI         \* no base or reference chosen yet

VARIABLES
  base, ref, \* the arguments, as read_uri() splits them
  tar,       \* the components of the target, without the path
  buf,       \* the buffer that holds the path
  in,        \* the first character not yet read
  op,        \* how many characters have been written
  isRel,     \* the path to be cleaned did not begin with "/"
  upc        \* fresh, dots (inside the loop) or done

uvars == <<base, ref, tar, buf, in, op, isRel, upc>>

Absent == ""
NoComps == [scheme |-> Absent, auth |-> Absent, query |-> Absent, frag |-> Absent]

UriInit ==
  /\ base = NoURI /\ ref = NoURI
  /\ tar = NoComps
  /\ buf = <<>> /\ in = 1 /\ op = 0 /\ isRel = FALSE
  /\ upc = "fresh"

-----------------------------------------------------------------------------
\* What the parser yields: after an authority a path is empty or begins with
\* "/", without one it does not begin with "//"; a base has a scheme and, as
\* the comment at uri_resolve_append() demands, no dot segments.
Join(ss) == FoldLeft(LAMBDA p, s : p \o <<"/">> \o s, Head(ss), Tail(ss))
Paths(segs, n) == {Join(ss) : ss \in UNION {[1..k -> segs] : k \in 1..n}}

WellFormed(u) ==
  \/ u.auth # Absent /\ (u.path = <<>> \/ u.path[1] = "/")
  \/ u.auth = Absent /\ ~IsPrefix(<<"/", "/">>, u.path)

Dots == {<<".">>, <<".", ".">>}

Bases == {u \in [scheme : {"bs:"}, auth : {Absent, "//ba"},
                 path : Paths(BaseSegments \ Dots, MaxBase), query : {"?bq"}] :
            WellFormed(u)}
Refs == {u \in [scheme : {Absent, "rs:"}, auth : {Absent, "//ra"},
                path : Paths(Segments, MaxRef), query : {Absent, "?rq"},
                frag : {"#rf"}] :
           WellFormed(u)}

Chars == STRING \cup {"/"}
ASSUME PathAssumption == \A u \in Bases \cup Refs : u.path \in Seq(Chars)

-----------------------------------------------------------------------------
LastSlash(p) == Max({0} \cup {i \in DOMAIN p : p[i] = "/"})

\* Mutant: the last slash of the base is dropped with the segment after it.
MergeNoSlash(b, r) ==
  IF r.path[1] = "/" THEN r.path
  ELSE IF LastSlash(b.path) > 0 THEN SubSeq(b.path, 1, LastSlash(b.path) - 1) \o r.path
  ELSE IF b.auth # Absent /\ b.path = <<>> THEN <<"/">> \o r.path
  ELSE r.path

\* uri_resolve_path_append(): a relative path replaces what follows the last
\* slash of the base; an empty base with an authority counts as the root.
Merge(b, r) ==
  IF r.path[1] = "/" THEN r.path
  ELSE IF LastSlash(b.path) > 0 THEN SubSeq(b.path, 1, LastSlash(b.path)) \o r.path
  ELSE IF b.auth # Absent /\ b.path = <<>> THEN <<"/">> \o r.path
  ELSE r.path

Put(scheme, auth, query, frag) ==
  tar' = [scheme |-> scheme, auth |-> auth, query |-> query, frag |-> frag]

\* The path p is copied to the buffer; remove_dot_segments() returns at once if
\* it is empty.
CleanPath(p) ==
  /\ buf' = p /\ in' = 1 /\ op' = 0
  /\ isRel' = (p # <<>> /\ p[1] # "/")
  /\ upc' = IF p = <<>> THEN "done" ELSE "dots"

\* uri_resolve_append() up to the path.
Resolve(b, r) ==
  /\ upc = "fresh"
  /\ base' = b /\ ref' = r
  /\ \/ /\ r.scheme # Absent
        /\ Put(r.scheme, r.auth, r.query, r.frag)
        /\ CleanPath(r.path)
     \/ /\ r.scheme = Absent /\ r.auth # Absent
        /\ Put(b.scheme, r.auth, r.query, r.frag)
        /\ CleanPath(r.path)
     \/ /\ r.scheme = Absent /\ r.auth = Absent /\ r.path = <<>>
        /\ Put(b.scheme, b.auth, IF r.query # Absent THEN r.query ELSE b.query, r.frag)
        /\ buf' = b.path /\ in' = Len(b.path) + 1 /\ op' = Len(b.path)
        /\ isRel' = FALSE
        /\ upc' = "done"
     \/ /\ r.scheme = Absent /\ r.auth = Absent /\ r.path # <<>>
        /\ Put(b.scheme, b.auth, r.query, r.frag)
        /\ CleanPath(Merge(b, r))

-----------------------------------------------------------------------------
\* One iteration of uri_remove_dot_segments_append(): the unread input begins
\* with p, or consists of p.
Unread    == SubSeq(buf, in, Len(buf))
Starts(p) == IsPrefix(p, Unread)
Equals(p) == Unread = p

\* n characters of the input are read; the loop ends with the input.
Advance(n) ==
  /\ in' = in + n
  /\ upc' = IF in + n > Len(buf) THEN "done" ELSE "dots"
  /\ UNCHANGED <<base, ref, tar, isRel>>

\* A. "../" or "./" in front.
DropLeadingDots ==
  /\ upc = "dots"
  /\ \/ Starts(<<".", "/">>) /\ Advance(2)
     \/ Starts(<<".", ".", "/">>) /\ Advance(3)
  /\ UNCHANGED <<buf, op>>

\* B. "/./" or "/." becomes "/".
DropDot ==
  /\ upc = "dots"
  /\ \/ Starts(<<"/", ".", "/">>) /\ Advance(2) /\ UNCHANGED buf
     \/ Equals(<<"/", ".">>) /\ Advance(1) /\ buf' = [buf EXCEPT ![in + 1] = "/"]
  /\ UNCHANGED op

\* The output loses its last segment and the slash before it, if any.
LastSegment(k) ==
  /\ k > 0 => k < op /\ buf[k + 1] = "/"
  /\ \A j \in (k + 1)..(op - 1) : buf[j + 1] # "/"

\* C. "/../" or "/.." becomes "/" and the last segment of the output goes.
DropDotDot ==
  /\ upc = "dots"
  /\ \/ Starts(<<"/", ".", ".", "/">>) /\ Advance(3) /\ UNCHANGED buf
     \/ Equals(<<"/", ".", ".">>) /\ Advance(2) /\ buf' = [buf EXCEPT ![in + 2] = "/"]
  /\ \E k \in 0..op : LastSegment(k) /\ op' = k

\* Mutant: the loop is not left.
DropLoneDotsNoBreak ==
  /\ upc = "dots"
  /\ Equals(<<".">>) \/ Equals(<<".", ".">>)
  /\ op' = 0
  /\ UNCHANGED <<base, ref, tar, buf, in, isRel, upc>>

\* D. Only "." or ".." is left: the output is reset and the loop left.
DropLoneDots ==
  /\ upc = "dots"
  /\ Equals(<<".">>) \/ Equals(<<".", ".">>)
  /\ op' = 0
  /\ upc' = "done" /\ in' = Len(buf) + 1
  /\ UNCHANGED <<base, ref, tar, buf, isRel>>

\* The next slash behind the first character of the input, or its end, comes
\* after k characters.
NextSlash(k) ==
  /\ k < Len(Unread) => Unread[k + 1] = "/"
  /\ \A j \in 1..(k - 1) : Unread[j + 1] # "/"

\* A relative path is to have no leading slash: with nothing written yet, the
\* slash is skipped.
LeadingSlash == IF isRel /\ op = 0 /\ buf[in] = "/" THEN 1 ELSE 0

\* Mutant: the slash behind the segment is written with it, and read again.
MoveSegmentWithSlash ==
  /\ upc = "dots"
  /\ \A p \in {<<".", "/">>, <<".", ".", "/">>, <<"/", ".", "/">>,
               <<"/", ".", ".", "/">>} : ~Starts(p)
  /\ \A p \in {<<"/", ".">>, <<"/", ".", ".">>, <<".">>, <<".", ".">>} : ~Equals(p)
  /\ \E k \in 1..Len(Unread) :
       /\ NextSlash(k)
       /\ buf' = [i \in DOMAIN buf |->
                    IF i \in (op + 1)..(op + k) THEN buf[in + i - op - 1] ELSE buf[i]]
       /\ op' = IF k < Len(Unread) THEN op + k + 1 ELSE op + k
       /\ Advance(k)

\* E. The first segment moves to the output.  As many characters are copied as
\* there are before the next slash, but from behind a skipped one.
MoveSegment ==
  /\ upc = "dots"
  /\ \A p \in {<<".", "/">>, <<".", ".", "/">>, <<"/", ".", "/">>,
               <<"/", ".", ".", "/">>} : ~Starts(p)
  /\ \A p \in {<<"/", ".">>, <<"/", ".", ".">>, <<".">>, <<".", ".">>} : ~Equals(p)
  /\ \E k \in 1..Len(Unread), n \in 0..Len(Unread) :
       /\ NextSlash(k)
       /\ n = IF k + LeadingSlash <= Len(Unread) THEN k ELSE k - 1
       /\ buf' = [i \in DOMAIN buf |->
                    IF i \in (op + 1)..(op + n)
                      THEN buf[in + LeadingSlash + i - op - 1] ELSE buf[i]]
       /\ op' = op + n
       /\ Advance(n + LeadingSlash)

RemoveDots ==
  DropLeadingDots \/ DropDot \/ DropDotDot \/ DropLoneDots \/ MoveSegment

UriNext ==
  \/ upc = "fresh" /\ \E b \in Bases, r \in Refs : Resolve(b, r)
  \/ RemoveDots

UriSpec == UriInit /\ [][UriNext]_uvars

-----------------------------------------------------------------------------
\* The reference: RFC 3986, 5.2.2 and 5.2.4.  A path is cleaned from left to right,
\* with all of the result at hand and no buffer; a relative path is cleaned like the
\* absolute one, without the leading slash.
Target(b, r) ==
  IF r.scheme # Absent
    THEN [scheme |-> r.scheme, auth |-> r.auth, query |-> r.query, frag |-> r.frag]
  ELSE IF r.auth # Absent
    THEN [scheme |-> b.scheme, auth |-> r.auth, query |-> r.query, frag |-> r.frag]
  ELSE IF r.path = <<>> /\ r.query = Absent
    THEN [scheme |-> b.scheme, auth |-> b.auth, query |-> b.query, frag |-> r.frag]
  ELSE [scheme |-> b.scheme, auth |-> b.auth, query |-> r.query, frag |-> r.frag]

\* The last segment of a path, and the path without it and the slash before it.
LastSegmentOf(p) == SubSeq(p, LastSlash(p) + 1, Len(p))
DropLast(p)      == SubSeq(p, 1, LastSlash(p) - 1)

\* A path whose segments are clean but the last: "." goes, ".." takes the segment
\* before it along.
Settle(p) == IF LastSegmentOf(p) = <<".">> THEN DropLast(p)
             ELSE IF LastSegmentOf(p) = <<".", ".">> THEN DropLast(DropLast(p))
             ELSE p

\* A slash makes the segment before it complete.
ReadOn(p, c) == IF c = "/" THEN Append(Settle(p), c) ELSE Append(p, c)

\* What has become of the first i characters of p.
ReadUpTo(p) ==
  LET read[i \in 0..Len(p)] == IF i = 0 THEN <<>> ELSE ReadOn(read[i - 1], p[i])
  IN  read

CleanAbsolute(p) ==
  LET whole == ReadUpTo(p)[Len(p)]
  IN  IF LastSegmentOf(whole) \in Dots THEN Append(Settle(whole), "/") ELSE whole

Clean(p) == IF p = <<>> THEN p
            ELSE IF p[1] = "/" THEN CleanAbsolute(p)
            ELSE Tail(CleanAbsolute(<<"/">> \o p))

\* The base's path up to its right-most slash, "/" if it is empty and has an
\* authority.
Directory(b) ==
  IF b.auth # Absent /\ b.path = <<>> THEN <<"/">>
  ELSE SubSeq(b.path, 1, Max({0} \cup {i \in DOMAIN b.path : b.path[i] = "/"}))

TakenFromBase(r) == r.scheme = Absent /\ r.auth = Absent /\ r.path = <<>>

Uncleaned(b, r) ==
  IF r.scheme # Absent \/ r.auth # Absent \/ IsPrefix(<<"/">>, r.path) THEN r.path
  ELSE Directory(b) \o r.path

TargetPath(b, r) == IF TakenFromBase(r) THEN b.path ELSE Clean(Uncleaned(b, r))

RelativePath(b, r) ==
  ~TakenFromBase(r) /\ Uncleaned(b, r) # <<>> /\ Uncleaned(b, r)[1] # "/"

Cleaned == SubSeq(buf, 1, op)

-----------------------------------------------------------------------------
\* The target is the one of RFC 3986; for a path that begins with "/" or is
\* taken from the base so is every character of the path.
ResolvedAsRFC ==
  upc = "done" =>
    /\ tar = Target(base, ref)
    /\ ~RelativePath(base, ref) => Cleaned = TargetPath(base, ref)

\* "While scanning, segments are always copied to left": what is written never
\* reaches what is still to be read.
InPlaceSafe == op < in

\* Every iteration reads on, so that every path is cleaned after finitely many:
\* those that rewrite the input in place leave less of it than they found.
EveryIterationReads == [][upc = "dots" => in' > in]_uvars

\* A relative path without empty segments is cleaned like an absolute one, the
\* leading slash apart: each step E moves one segment "up to, but not including,
\* the next / character".
RelativeResolved ==
  /\ upc = "done" /\ RelativePath(base, ref)
  /\ \A i \in 2..Len(ref.path) : ref.path[i - 1] # "/" \/ ref.path[i] # "/"
  => Cleaned = TargetPath(base, ref)
=============================================================================
