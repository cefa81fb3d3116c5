-------------------------------- MODULE UriText --------------------------------
(***************************************************************************)
(* URIs as text (include/jkl/uri): uri_writer puts components together,    *)
(* encoding each as its part of a URI demands, and uri_reader takes a text *)
(* apart at the delimiters and decodes the parts.  Which components there  *)
(* are is a parameter of both: narrow ones (user, port, query ...), wide   *)
(* ones that hold several (authority, "?query#frag" ...) or any mixture.   *)
(*                                                                         *)
(* A text is a sequence of characters.                                     *)
(***************************************************************************)
EXTENDS Integers, Sequences, SequencesExt, FiniteSetsExt, TLC, Strings

CONSTANTS
  Components, \* what is written, a set of functions from tags to texts; a query may be
              \* given as "pairs" instead, a sequence of [key |-> ..., val |-> ...]
  Foreign,    \* URIs that come from elsewhere; "%" is followed by the code of a
              \* character of Reserved or by something that is no code
  WellKnown   \* the ports of schemes, [scheme |-> ..., port |-> ...]

VARIABLES
  comps, \* the components given to the reader
  text,  \* the URI
  put,   \* what the writer was given, with the size it had reserved
  uerr,  \* what the reader returned
  tpc    \* fresh, written, received, read

textVars == <<comps, text, put, uerr, tpc>>

Codecs == {"as_is", "encoded", "decoded"}

-----------------------------------------------------------------------------
\* The characters that keep their form in a part of a URI.  Those not listed here
\* (letters, digits, ".") always do.
Reserved == {" ", "#", "%", "&", "+", "/", ":", "=", "?", "@", "[", "]"}

NoEscape ==
  [query    |-> {"&", "/", ":", "=", "?", "@", "[", "]"},
   frag     |-> {"#", "&", "+", "/", ":", "=", "?", "@", "[", "]"},
   userinfo |-> {"&", "+"},
   host     |-> {"+", ":", "[", "]"},
   path     |-> {"&", "+", "/", ":", "=", "@", "[", "]"}]

Hex ==
  (" " :> <<"2", "0">>) @@ ("#" :> <<"2", "3">>) @@ ("%" :> <<"2", "5">>) @@
  ("&" :> <<"2", "6">>) @@ ("+" :> <<"2", "B">>) @@ ("/" :> <<"2", "F">>) @@
  (":" :> <<"3", "A">>) @@ ("=" :> <<"3", "D">>) @@ ("?" :> <<"3", "F">>) @@
  ("@" :> <<"4", "0">>) @@ ("[" :> <<"5", "B">>) @@ ("]" :> <<"5", "D">>)

Escape(s, cat) ==
  LET Escaped(ch) == IF ch = " " /\ cat = "query" THEN <<"+">>
                     ELSE IF ch \in Reserved \ NoEscape[cat] THEN <<"%">> \o Hex[ch] ELSE <<ch>>
  IN  IF cat = "as_is" THEN s ELSE FoldLeft(LAMBDA d, ch : d \o Escaped(ch), <<>>, s)

\* What the two characters at i stand for: at most one character.  Escapes of
\* characters outside Reserved do not occur.
Unhex(s, i) == {ch \in Reserved : i + 1 \in DOMAIN s /\ Hex[ch] = <<s[i], s[i + 1]>>}
\* The result of decoding a text with an escape that is none.
BadHex == <<"invalid_hex">>

\* A "+" before position plusEnd is a space.
Unescape(s, plusEnd) ==
  LET Unescaped[i \in 1..(Len(s) + 3)] ==
        CASE i > Len(s) -> <<>>
          [] i \in DOMAIN s /\ s[i] = "%" ->
               IF Unhex(s, i + 1) = {} \/ Unescaped[i + 3] = BadHex THEN BadHex
               ELSE <<CHOOSE ch \in Unhex(s, i + 1) : TRUE>> \o Unescaped[i + 3]
          [] i \in DOMAIN s /\ s[i] # "%" ->
               IF Unescaped[i + 1] = BadHex THEN BadHex
               ELSE <<IF i < plusEnd /\ s[i] = "+" THEN " " ELSE s[i]>> \o Unescaped[i + 1]
  IN  Unescaped[1]

-----------------------------------------------------------------------------
\* Which part of a URI a component is.
AsIs      == {"scheme", "scheme_colon", "port", "auto_port"}
UserLike  == {"user", "password"}
HostLike  == {"host", "host_port"}
PathLike  == {"path", "dir_path", "file", "file_name", "file_ext", "file_dot_ext"}
QueryLike == {"query", "qm_query"}
FragLike  == {"frag", "sharp_frag"}
Wide == {"userinfo", "userinfo_at", "authority", "ss_authority", "scheme_authority", "qm_query_frag"}

\* url_codec::encode_append(): a wide component is split at its first delimiter, and
\* each piece escaped as what it is.
As(cat, s) == <<[cat |-> cat, str |-> s]>>

SplitUserinfo(s, q) ==
  IF q > Len(s) THEN As("userinfo", s)
  ELSE As("userinfo", Until(s, q)) \o As("as_is", <<":">>) \o As("userinfo", From(s, q + 1))

SplitUserinfoAt(s) == IF s = <<>> THEN <<>> ELSE SplitUserinfo(Front(s), FindFirst(Front(s), 1, {":"}))

SplitAuthority(s, q) ==
  IF q > Len(s) THEN As("host", s)
  ELSE SplitUserinfo(Until(s, q), FindFirst(Until(s, q), 1, {":"}))
       \o As("as_is", <<"@">>) \o As("host", From(s, q + 1))

SplitSsAuthority(s) ==
  IF s = <<>> THEN <<>>
  ELSE As("as_is", <<"/", "/">>) \o SplitAuthority(From(s, 3), FindFirst(From(s, 3), 1, {"@"}))

SplitSchemeAuthority(s, q) ==
  IF q > Len(s) THEN SplitSsAuthority(s)
  ELSE As("as_is", Until(s, q + 1)) \o SplitSsAuthority(From(s, q + 1))

SplitQueryFrag(s, q) == As("query", Until(s, q)) \o As("frag", From(s, q))

SplitComp(tag, s) ==
  CASE tag \in AsIs      -> As("as_is", s)
    [] tag \in UserLike  -> As("userinfo", s)
    [] tag \in HostLike  -> As("host", s)
    [] tag \in PathLike  -> As("path", s)
    [] tag \in QueryLike -> As("query", s)
    [] tag \in FragLike  -> As("frag", s)
    [] tag = "userinfo"         -> SplitUserinfo(s, FindFirst(s, 1, {":"}))
    [] tag = "userinfo_at"      -> SplitUserinfoAt(s)
    [] tag = "authority"        -> SplitAuthority(s, FindFirst(s, 1, {"@"}))
    [] tag = "ss_authority"     -> SplitSsAuthority(s)
    [] tag = "scheme_authority" -> SplitSchemeAuthority(s, FindFirst(s, 1, {":"}))
    [] tag = "qm_query_frag"    -> SplitQueryFrag(s, FindFirst(s, 1, {"#"}))

EncodeComp(tag, s) == FoldLeft(LAMBDA d, p : d \o Escape(p.str, p.cat), <<>>, SplitComp(tag, s))

\* url_codec::decode_append(): "+" is a space in the query only.
PlusEnd(tag, s) ==
  CASE tag \in QueryLike     -> Len(s) + 1
    [] tag = "qm_query_frag" -> FindFirst(s, 1, {"#"})
    [] OTHER                 -> 1

DecodeComp(tag, s) == IF tag \in AsIs THEN s ELSE Unescape(s, PlusEnd(tag, s))

\* uri_codec_cvt_append(), from a component's codec to that of the URI or back.
Convert(tag, from, to, s) ==
  CASE from = "encoded" /\ to = "decoded" -> DecodeComp(tag, s)
    [] from = "decoded" /\ to = "encoded" -> EncodeComp(tag, s)
    [] from = to \/ "as_is" \in {from, to} -> s

-----------------------------------------------------------------------------
\* The port a URI that begins with a well-known scheme has if it names none.
WellKnownPort(u) ==
  LET known == {w \in WellKnown : IsPrefix(w.scheme \o <<":">>, u)}
  IN  IF known = {} THEN <<>> ELSE (CHOOSE w \in known : TRUE).port

-----------------------------------------------------------------------------
\* Reading.  The text is cut into pieces, in the order in which they are read; each
\* is for the component of that tag, if there is one.  An error ends the reading.
Piece(tag, s) == <<[tag |-> tag, str |-> s]>>

SchemePieces(s) ==
  CASE s = <<>>    -> <<>>
    [] s = <<":">> -> Piece("no_scheme_before_colon", s)
    [] OTHER       -> Piece("scheme_colon", s) \o Piece("scheme", Front(s))

UserinfoPieces(s) ==
  LET q == FindFirst(s, 1, {":"})
  IN  Piece("userinfo", s) \o Piece("userinfo_at", Append(s, "@")) \o Piece("user", Until(s, q))
      \o (IF q > Len(s) THEN <<>> ELSE Piece("password", From(s, q + 1)))

\* What follows the host, with the colon if there is one.
PortPieces(s) ==
  IF s # <<>> /\ s[1] = ":" THEN Piece("port", Tail(s)) \o Piece("auto_port", Tail(s))
  ELSE Piece("auto_port", s)

HostPieces(s) ==
  LET close == FindLast(s, "]")
      colon == FindLast(s, ":")
      q     == IF s[1] = "[" THEN close + 1 ELSE IF colon = 0 THEN Len(s) + 1 ELSE colon
  IN  CASE s = <<>> -> <<>>
        [] s # <<>> /\ s[1] = "[" /\ close = 0 ->
             Piece("host_port", s) \o Piece("unterminated_ipv6", s)
        [] s # <<>> /\ ~(s[1] = "[" /\ close = 0) ->
             Piece("host_port", s) \o Piece("host", Until(s, q)) \o PortPieces(From(s, q))

AuthorityPieces(s) ==
  LET m == From(s, 3)
      q == FindFirst(m, 1, {"@"})
  IN  IF s = <<>> THEN <<>>
      ELSE Piece("ss_authority", s)
           \o (IF q > Len(m) THEN HostPieces(m)
               ELSE UserinfoPieces(Until(m, q)) \o HostPieces(From(m, q + 1)))

\* Mutant: the directory ends before its slash.
PathPiecesNoSlash(s) ==
  LET q    == FindLast(s, "/")
      file == From(s, q + 1)
  IN  Piece("path", s)
      \o (IF q = 0 THEN <<>> ELSE Piece("dir_path", Until(s, q)))
      \o (IF file = <<>> THEN <<>> ELSE Piece("file", file))

PathPieces(s) ==
  LET q    == FindLast(s, "/")
      file == From(s, q + 1)
      dot  == FindLast(file, ".")
  IN  Piece("path", s)
      \o (IF q = 0 THEN <<>> ELSE Piece("dir_path", Until(s, q + 1)))
      \o (CASE file = <<>> -> <<>>
             [] file # <<>> /\ dot = 0 -> Piece("file", file) \o Piece("file_name", file)
             [] file # <<>> /\ dot > 0 ->
                  Piece("file", file) \o Piece("file_name", Until(file, dot))
                  \o Piece("file_ext", From(file, dot + 1)) \o Piece("file_dot_ext", From(file, dot)))

QueryFragPieces(query, frag) ==
  (IF query = <<>> THEN <<>> ELSE Piece("qm_query", query) \o Piece("query", Tail(query)))
  \o (IF frag = <<>> THEN <<>> ELSE Piece("sharp_frag", frag) \o Piece("frag", Tail(frag)))
  \o Piece("qm_query_frag", query \o frag)

Pieces(u) ==
  LET s     == Trim(u)
      colon == FindFirst(s, 1, {":", "/", "?", "#"})
      auth  == IF colon <= Len(s) /\ s[colon] = ":" THEN colon + 1 ELSE 1
      path  == IF IsPrefix(<<"/", "/">>, From(s, auth)) THEN FindFirst(s, auth + 2, {"/", "?", "#"})
               ELSE auth
      query == FindFirst(s, path, {"?", "#"})
      frag  == FindFirst(s, query, {"#"})
  IN  SchemePieces(Until(s, auth))
      \o AuthorityPieces(SubSeq(s, auth, path - 1))
      \o Piece("scheme_authority", Until(s, path))
      \o (IF path > Len(s) THEN <<>> ELSE PathPieces(SubSeq(s, path, query - 1)))
      \o (IF query > Len(s) THEN <<>>
          ELSE QueryFragPieces(SubSeq(s, query, frag - 1), From(s, frag)))

Digits == {"0", "8", "9"}

\* read() of one component; assign_port() of an auto_port.
ReadComp(p, u, from, to) ==
  IF p.tag # "auto_port" THEN Convert(p.tag, from, to, p.str)
  ELSE IF p.str = <<>> THEN WellKnownPort(u) ELSE p.str

FaultOf(p, val) ==
  CASE p.tag \in {"no_scheme_before_colon", "unterminated_ipv6"} -> p.tag
    [] p.tag = "auto_port" -> IF ToSet(p.str) \subseteq Digits THEN "ok" ELSE "invalid_port"
    [] OTHER -> IF val = BadHex THEN "invalid_hex" ELSE "ok"

Faults == {"no_scheme_before_colon", "unterminated_ipv6"}

\* Component p has been read as val.
AfterPiece(r, p, val) ==
  IF FaultOf(p, val) # "ok" THEN [r EXCEPT !.err = FaultOf(p, val)] ELSE [r EXCEPT !.val[p.tag] = val]

ReadPieces(ps, u, tags, from, to, old) ==
  FoldLeft(LAMBDA r, p :
             IF r.err # "ok" \/ p.tag \notin tags \cup Faults THEN r
             ELSE AfterPiece(r, p, ReadComp(p, u, from, to)),
           [err |-> "ok", val |-> old], ps)

-----------------------------------------------------------------------------
\* Writing.  Of components that overlap the widest is written; "//" is, whenever no
\* component brings it along.
Widest(alternatives, tags) ==
  LET given == SelectSeq(alternatives, LAMBDA t : t \in tags)
  IN  IF given = <<>> THEN <<>> ELSE <<Head(given)>>

Chosen(tags) ==
  LET Pick(alternatives) == Widest(alternatives, tags)
      Or(wide, narrow)   == IF Pick(wide) # <<>> THEN Pick(wide) ELSE narrow
  IN  Or(<<"scheme_authority">>,
         Pick(<<"scheme_colon", "scheme">>)
         \o Or(<<"ss_authority", "authority">>,
               <<"//">> \o Or(<<"userinfo_at", "userinfo">>, Pick(<<"user">>) \o Pick(<<"password">>))
               \o Or(<<"host_port">>, Pick(<<"host">>) \o Pick(<<"port", "auto_port">>))))
      \o Or(<<"path">>,
            Pick(<<"dir_path">>)
            \o Or(<<"file">>, Pick(<<"file_name">>) \o Pick(<<"file_dot_ext", "file_ext">>)))
      \o Or(<<"qm_query_frag">>,
            Pick(<<"qm_query", "pairs", "query">>) \o Pick(<<"sharp_frag", "frag">>))

\* The components that leave their delimiters out when they are empty.
OnlyIfAny == {"scheme", "userinfo", "user", "port", "query", "pairs", "frag"}

HasUser(c)     == "user" \in DOMAIN c /\ c.user # <<>>
HasPassword(c) == "password" \in DOMAIN c /\ c.password # <<>>

Omitted(c, tag) ==
  \/ tag \in OnlyIfAny /\ c[tag] = <<>>
  \/ tag = "password" /\ ~(HasUser(c) /\ HasPassword(c))

\* Component tag of c, converted to s, behind d.
Delimited(c, d, tag, s) ==
  CASE tag = "scheme"    -> d \o s \o <<":">>
    [] tag = "authority" -> d \o <<"/", "/">> \o s
    [] tag = "userinfo"  -> d \o s \o <<"@">>
    [] tag = "user"      -> d \o s \o (IF HasPassword(c) THEN <<>> ELSE <<"@">>)
    [] tag = "password"  -> d \o <<":">> \o s \o <<"@">>
    [] tag \in {"port", "auto_port"} -> d \o <<":">> \o s
    [] tag = "dir_path"  -> d \o s \o (IF s = <<>> \/ Last(s) # "/" THEN <<"/">> ELSE <<>>)
    [] tag = "file_ext"  -> d \o <<".">> \o s
    [] tag \in {"query", "pairs"} -> d \o <<"?">> \o s
    [] tag = "frag"      -> d \o <<"#">> \o s
    [] OTHER             -> d \o s

\* Each pair as "key=val&"; the last "&" goes.
PairsText(pairs, from, to) ==
  LET Part(s) == Convert("query", from, to, s)
      Pair(p) == Part(p.key) \o <<"=">> \o Part(p.val) \o <<"&">>
  IN  IF pairs = <<>> THEN <<>> ELSE Front(FoldLeft(LAMBDA d, p : d \o Pair(p), <<>>, pairs))

Converted(c, from, to, tag) ==
  IF tag = "pairs" THEN PairsText(c.pairs, from, to) ELSE Convert(tag, from, to, c[tag])

\* A port that the scheme implies, or none.
ImpliedPort(c, d) == c.auto_port \in {<<>>, WellKnownPort(d)}

\* append_to(): component tag of c behind d.
AppendComp(c, from, to, d, tag) ==
  IF tag = "//" THEN d \o <<"/", "/">>
  ELSE IF Omitted(c, tag) \/ (tag = "auto_port" /\ ImpliedPort(c, d)) THEN d
  ELSE Delimited(c, d, tag, Converted(c, from, to, tag))

AppendTo(c, from, to) ==
  FoldLeft(LAMBDA d, tag : AppendComp(c, from, to, d, tag), <<>>, Chosen(DOMAIN c))

\* max_write_size(): room for component tag of c.  A number may have MaxDigits digits.
MaxDigits == 5

MaxConvertSize(tag, s, from, to) ==
  IF from = "decoded" /\ to = "encoded" /\ tag \notin AsIs THEN 3 * Len(s) ELSE Len(s)

\* Room for both delimiters of each pair, the "&" that goes included.
MaxPairsSize(pairs, from, to) ==
  LET Size(s) == MaxConvertSize("query", s, from, to)
  IN  FoldLeft(LAMBDA n, p : n + Size(p.key) + Size(p.val) + 2, 0, pairs)

MaxCompSize(c, from, to, tag) ==
  LET size == IF tag = "pairs" THEN MaxPairsSize(c.pairs, from, to)
              ELSE MaxConvertSize(tag, c[tag], from, to)
  IN  CASE tag = "//"        -> 2
        [] tag = "auto_port" -> 1 + MaxDigits
        [] tag \in OnlyIfAny \cup {"password"} -> IF Omitted(c, tag) THEN 0 ELSE 1 + size
        [] tag = "authority" -> 2 + size
        [] tag = "file_ext"  -> 1 + size
        [] OTHER             -> size

MaxWriteSize(c, from, to) ==
  FoldLeft(LAMBDA n, tag : n + MaxCompSize(c, from, to, tag), 0, Chosen(DOMAIN c))

-----------------------------------------------------------------------------
\* The components an object of either class may have been given.
Tags == AsIs \cup UserLike \cup HostLike \cup PathLike \cup QueryLike \cup FragLike \cup Wide

\* Those append_uri() takes a URI apart into, and puts together again.
UriParts == {"scheme_colon", "ss_authority", "path", "qm_query_frag"}

Narrow == {"scheme", "user", "password", "host", "port", "path", "query", "frag"}

NothingPut == [comps |-> <<>>, to |-> "as_is", reserved |-> 0]

\* The objects to read into may hold anything before.
TextInit ==
  /\ \E s \in {<<>>, <<"a">>} : comps = [t \in Tags |-> s]
  /\ text = <<>> /\ put = NothingPut /\ uerr = "ok"
  /\ tpc = "fresh"

WriteComps(c, to) ==
  /\ text' = AppendTo(c, "decoded", to)
  /\ put' = [comps |-> c, to |-> to, reserved |-> MaxWriteSize(c, "decoded", to)]
  /\ tpc' = "written"
  /\ UNCHANGED <<comps, uerr>>

WriteUri == tpc = "fresh" /\ \E c \in Components, to \in Codecs : WriteComps(c, to)

ReceiveUri ==
  /\ tpc = "fresh"
  /\ \E u \in Foreign : text' = u
  /\ tpc' = "received"
  /\ UNCHANGED <<comps, put, uerr>>

\* Mutant: without clear(), as clang compiles it.
ReadIntoKept(tags, from, to, pc) ==
  LET r == ReadPieces(Pieces(text), Trim(text), tags, from, to, comps)
  IN  /\ comps' = r.val /\ uerr' = r.err
      /\ tpc' = pc
      /\ UNCHANGED <<text, put>>

\* uri_reader::read(): clear(), then the pieces.
ReadInto(tags, from, to, pc) ==
  LET cleared == [t \in Tags |-> IF t \in tags THEN <<>> ELSE comps[t]]
      r == ReadPieces(Pieces(text), Trim(text), tags, from, to, cleared)
  IN  /\ comps' = r.val /\ uerr' = r.err
      /\ tpc' = pc
      /\ UNCHANGED <<text, put>>

\* What was given as pairs is read as one text.
ReadableTags(c) == {IF t = "pairs" THEN "query" ELSE t : t \in DOMAIN c}

ReadBack == tpc = "written" /\ ReadInto(ReadableTags(put.comps), put.to, "decoded", "read")

\* A URI from elsewhere is taken apart as it is, or decoded and then encoded again.
TakeApart   == tpc = "received" /\ ReadInto(Tags, "encoded", "encoded", "apart")
ReadForeign == tpc = "received" /\ ReadInto(Narrow, "encoded", "decoded", "read")
WriteAgain  == /\ tpc = "read" /\ put = NothingPut /\ uerr = "ok"
               /\ WriteComps([t \in Narrow |-> comps[t]], "encoded")

TextNext == WriteUri \/ ReceiveUri \/ ReadBack \/ TakeApart \/ ReadForeign \/ WriteAgain
TextSpec == TextInit /\ [][TextNext]_textVars

-----------------------------------------------------------------------------
\* What a component may contain so that a URI can hold it.  A user, a password, a
\* query or a fragment may be anything.
No(s, chars) == \A i \in DOMAIN s : s[i] \notin chars
IsAddress(s) == s # <<>> /\ s[1] = "[" /\ FindLast(s, "]") = Len(s)

Holds(c, t) ==
  CASE t = "password"  -> c.password # <<>> => c.user # <<>>
    [] t = "host"      -> IsAddress(c.host) \/ No(c.host, {":", "["})
    [] t = "auto_port" -> c.host # <<>> /\ (c.auto_port = <<>> => WellKnownPort(c.scheme \o <<":">>) = <<>>)
    [] t = "authority" -> FALSE
    [] t = "userinfo_at" -> c.userinfo_at = <<>>
    [] t = "path"      -> c.path = <<>> \/ c.path[1] = "/"
    [] t = "dir_path"  -> c.dir_path # <<>> /\ c.dir_path[1] = "/" /\ Last(c.dir_path) = "/"
    [] t \in {"file", "file_name"} -> "dir_path" \in DOMAIN c /\ No(c[t], {"/"})
    [] t = "file_ext"  -> No(c.file_ext, {"/", "."})
    [] OTHER -> TRUE

Expressible(c) == \A t \in DOMAIN c : Holds(c, t)

\* Taken apart, a URI loses nothing: the pieces read() cuts make up the text, and
\* those of wide components those of the narrow ones.
NothingLost ==
  tpc = "apart" /\ uerr = "ok" =>
    LET Rebuilt(tags) == AppendTo([t \in tags |-> comps[t]], "encoded", "encoded")
    IN  /\ Rebuilt(UriParts) = Trim(text)
        /\ Rebuilt({"scheme_authority", "path", "qm_query", "sharp_frag"}) = Trim(text)
        /\ comps.ss_authority # <<>> =>
             comps.ss_authority = <<"/", "/">> \o comps.userinfo_at \o comps.host_port
        /\ comps.path = comps.dir_path \o comps.file
        /\ comps.file = comps.file_name \o comps.file_dot_ext

\* append_to() never writes more than max_write_size() has reserved.
FitsReserved ==
  tpc = "written" /\ ("dir_path" \in DOMAIN put.comps => Holds(put.comps, "dir_path")) =>
    Len(text) <= put.reserved

Given(c, t) ==
  IF t = "query" /\ "pairs" \in DOMAIN c THEN PairsText(c.pairs, "as_is", "as_is") ELSE c[t]

\* Components that were written encoded come back, whatever characters they contain
\* and whatever the objects they are read into held before (uri_writer::append_to(),
\* uri_reader::read() and the tables of url_codec); a URI taken apart is still whole;
\* and nothing is written behind the room that was reserved.
ReadsBack ==
  /\ NothingLost
  /\ FitsReserved
  /\ tpc = "read" /\ put.to = "encoded" /\ Expressible(put.comps) =>
       /\ uerr = "ok"
       /\ \A t \in ReadableTags(put.comps) : comps[t] = Given(put.comps, t)

\* An encoded uri_userinfo_at component, "userinfo@", comes back.
UserinfoKept ==
  tpc = "read" /\ put.to = "encoded" /\ "userinfo_at" \in DOMAIN put.comps =>
    comps.userinfo_at = put.comps.userinfo_at
=============================================================================
