------------------------------- MODULE HttpText -------------------------------
(***************************************************************************)
(* What a client learns from the text of headers: parse_header_trailer()   *)
(* (client.hpp) finds the last response's header and the trailer in what   *)
(* libcurl delivered, http_field_content_type (http_msg.hpp) reads the     *)
(* media type from its Content-Type fields, and parse_data_url()           *)
(* (uri/data_url.hpp) reads one from a data URL.                           *)
(*                                                                         *)
(* A text is a sequence of delimiters and words; a word is in lower case,  *)
(* and "\r\n" is one delimiter.                                            *)
(***************************************************************************)
EXTENDS Integers, Sequences, SequencesExt, FiniteSetsExt, Strings

CONSTANTS
  Answers,   \* what a transfer got: [responses, trailer], a response being [status,
             \* fields], a field [name, type, params], a parameter [name, val]
  DataUrls   \* records [type, params, base64, data]

VARIABLES
  answer,      \* what was written
  heard,     \* what was read from it
  mpc        \* fresh, answered, data_url

httpVars == <<answer, heard, mpc>>

CRLF      == "\r\n"
TextPlain == <<"text", "/", "plain">>

-----------------------------------------------------------------------------
\* parse_header_trailer().  rfind("\r\n\r\n", at), or 0.
BlankBefore(s, at) == Max({0} \cup {i \in 1..at : i < Len(s) /\ s[i] = CRLF /\ s[i + 1] = CRLF})

\* The last one that is not the end of the text.
LastBlank(s) == BlankBefore(s, Len(s) - 2)

HeaderTrailer(s) ==
  LET q == LastBlank(s)
      t == From(s, q + 2)
      j == BlankBefore(s, q - 1)
  IN  CASE q = 0                       -> [header |-> s, trailer |-> <<>>]
        [] q > 0 /\ t[1] = "HTTP/"     -> [header |-> t, trailer |-> <<>>]
        [] q > 0 /\ t[1] # "HTTP/"     ->
             [header |-> SubSeq(s, IF j > 0 THEN j + 2 ELSE 1, q + 1), trailer |-> t]

\* beast's parser (external): the lines up to the empty one, as names and values; the
\* first one of a header is the status line.
LinesOf(s) ==
  LET ends == SetToSortSeq({i \in DOMAIN s : s[i] = CRLF}, <)
      line(k) == SubSeq(s, IF k = 1 THEN 1 ELSE ends[k - 1] + 1, ends[k] - 1)
  IN  SelectSeq([k \in DOMAIN ends |-> line(k)], LAMBDA l : l # <<>>)

ParseHeaderTrailer(s) ==
  LET ht == HeaderTrailer(s)
      hd == LinesOf(ht.header)
  IN  [status |-> hd[1][2], fields |-> Tail(hd) \o LinesOf(ht.trailer)]

-----------------------------------------------------------------------------
\* http_field_content_type::parse() of one field.  A position behind the end is npos.
NotSpace(s, i)    == Min({k \in i..Len(s) : s[k] # " "} \cup {Len(s) + 1})
EndSpace(s, i, j) == Max({i - 1} \cup {k \in i..(j - 1) : s[k] # " "}) + 1

\* The unquoted value at position i, up to the next ";".
PlainValue(s, i) ==
  LET semi == FindFirst(s, i, {";"})
  IN  [val |-> SubSeq(s, i, EndSpace(s, i, semi) - 1), next |-> semi]

\* Without the backslashes that escape another character.
Unescaped(v) ==
  LET Copied[i \in 1..(Len(v) + 2)] ==
        CASE i > Len(v) \/ (i <= Len(v) /\ v[i] = "\"") -> <<>>
          [] i <= Len(v) /\ v[i] = "\\" /\ i < Len(v) -> <<v[i + 1]>> \o Copied[i + 2]
          [] i <= Len(v) /\ ~(v[i] \in {"\"", "\\"} /\ (v[i] = "\\" => i < Len(v))) -> <<v[i]>> \o Copied[i + 1]
  IN  Copied[1]

\* The text in quotes from position i to the quote at j.
InQuotes(s, i, j) ==
  LET from == NotSpace(Until(s, j), i) IN Unescaped(SubSeq(s, from, EndSpace(s, from, j) - 1))
ClosingQuote(s, i) == FindFirst(s, i + 1, {"\""})

\* Mutant: the next parameter is looked for behind the opening quote.
QuotedValueCut(s, i) == [val |-> InQuotes(s, i + 1, ClosingQuote(s, i)), next |-> FindFirst(s, i, {";"})]

\* The quoted value whose quote is at position i.  The next quote ends it, an escaped
\* one as well.
QuotedValue(s, i) ==
  LET quote == ClosingQuote(s, i)
  IN  [val |-> InQuotes(s, i + 1, quote), next |-> FindFirst(s, quote, {";"})]

ValueFrom(s, i) == IF s[i] = "\"" THEN QuotedValue(s, i) ELSE PlainValue(s, i)

\* The first charset and the first boundary that are not empty count, over all fields.
Assign(t, name, val) ==
  CASE name = <<"charset">> /\ t.charset = <<>>   -> [t EXCEPT !.charset = val]
    [] name = <<"boundary">> /\ t.boundary = <<>> -> [t EXCEPT !.boundary = val]
    [] OTHER -> t

\* The parameters from the ";" at position semi on.
ReadParams(t, s, semi) ==
  LET Read[i \in 1..(Len(s) + 1)] ==   \* the (name, value) pairs from the ";" at i on
        LET name  == NotSpace(s, i + 1)
            stop  == FindFirst(s, name, {";", "="})
            value == NotSpace(s, stop + 1)
        IN  CASE i > Len(s) \/ stop > Len(s) -> <<>>
              [] i <= Len(s) /\ stop <= Len(s) /\ s[stop] = ";" -> Read[stop]
              [] i <= Len(s) /\ stop <= Len(s) /\ s[stop] = "=" /\ value > Len(s) -> <<>>
              [] i <= Len(s) /\ stop <= Len(s) /\ s[stop] = "=" /\ value <= Len(s) ->
                   IF s[value] = ";" THEN Read[value]
                   ELSE LET v == ValueFrom(s, value)
                        IN  <<[name |-> SubSeq(s, name, stop - 1), val |-> v.val]>> \o Read[v.next]
  IN  FoldLeft(LAMBDA u, p : Assign(u, p.name, p.val), t, Read[semi])

NoType == [mime |-> <<>>, charset |-> <<>>, boundary |-> <<>>]

IsMime(m) ==
  LET q == FindFirst(m, 1, {"/"}) IN q > 1 /\ q < Len(m) /\ m # <<"*", "/", "*">>

ParseContentType(t, s) ==
  LET from == NotSpace(s, 1)
      to   == FindFirst(s, from, {" ", ";", "("})
      mime == SubSeq(s, from, to - 1)
  IN  IF from > Len(s) \/ ~IsMime(mime) THEN t
      ELSE ReadParams([t EXCEPT !.mime = mime], s, FindFirst(s, to, {";"}))

\* http_field_content_type::parse() of all fields of that name.
ContentType(fields) ==
  FoldLeft(LAMBDA t, l : IF l[1] = "content-type" THEN ParseContentType(t, From(l, 3)) ELSE t,
           NoType, fields)

-----------------------------------------------------------------------------
\* parse_data_url<false>().  Words of the URL: "data:", ";charset=", ";base64".
DataUrlError(e) == [mime |-> e, charset |-> <<>>, base64 |-> FALSE, data |-> <<>>]

ParseDataUrl(u) ==
  LET comma  == FindFirst(u, 1, {","})
      head   == SubSeq(u, 2, comma - 1)
      base64 == head # <<>> /\ Last(head) = ";base64"
      media  == IF base64 THEN Front(head) ELSE head
      semi   == FindFirst(media, 1, {";", ";charset="})
      at     == FindFirst(media, semi, {";charset="})
      cs     == SubSeq(media, at + 1, FindFirst(media, at + 1, {";", ";charset="}) - 1)
      type   == Until(media, semi)
      slash  == FindFirst(type, 1, {"/"})
      result(m, c) == [mime |-> m, charset |-> c, base64 |-> base64, data |-> From(u, comma + 1)]
  IN  CASE u = <<>> \/ u[1] # "data:" -> DataUrlError("not_data_url")
        [] u # <<>> /\ u[1] = "data:" /\ comma > Len(u) -> DataUrlError("no_data")
        [] OTHER ->
             CASE media = <<>> -> result(TextPlain, <<"us-ascii">>)
               [] media # <<>> /\ type = <<>> /\ cs = <<>> -> DataUrlError("empty_type_without_charset")
               [] media # <<>> /\ type = <<>> /\ cs # <<>> -> result(TextPlain, cs)
               [] type # <<>> /\ slash \in {1, Len(type), Len(type) + 1} -> DataUrlError("invliad_mime")
               [] type # <<>> /\ slash \notin {1, Len(type), Len(type) + 1} -> result(type, cs)

-----------------------------------------------------------------------------
\* What is written.  A value that is no token is quoted, its backslashes are escaped.
Escaped(v) == FoldLeft(LAMBDA w, c : w \o (IF c = "\\" THEN <<"\\", "\\">> ELSE <<c>>), <<>>, v)
ParamValue(v) ==
  IF ToSet(v) \cap {" ", ";", "=", "\\"} = {} THEN v ELSE <<"\"">> \o Escaped(v) \o <<"\"">>
MediaType(t) ==
  FoldLeft(LAMBDA w, p : w \o <<";", " ">> \o p.name \o <<"=">> \o ParamValue(p.val), t.type, t.params)

Line(f)      == <<f.name, ":", " ">> \o (IF f.name = "content-type" THEN MediaType(f) ELSE f.type) \o <<CRLF>>
Block(fs)    == FlattenSeq([i \in DOMAIN fs |-> Line(fs[i])]) \o <<CRLF>>
Response(r)  == <<"HTTP/", r.status, CRLF>> \o Block(r.fields)
AnswerText(a) ==
  FlattenSeq([i \in DOMAIN a.responses |-> Response(a.responses[i])])
    \o (IF a.trailer = <<>> THEN <<>> ELSE Block(a.trailer))

DataUrlText(d) ==
  <<"data:">> \o d.type
    \o FlattenSeq([i \in DOMAIN d.params |->
         (IF d.params[i].name = <<"charset">> THEN <<";charset=">> ELSE <<";">> \o d.params[i].name \o <<"=">>)
           \o d.params[i].val])
    \o (IF d.base64 THEN <<";base64">> ELSE <<>>) \o <<",">> \o d.data

HttpInit == answer = <<>> /\ heard = <<>> /\ mpc = "fresh"

ReadAnswer ==
  /\ mpc = "fresh" /\ mpc' = "answered"
  /\ \E a \in Answers :
       /\ answer' = a
       /\ LET r == ParseHeaderTrailer(AnswerText(a))
          IN  heard' = [status |-> r.status, lines |-> r.fields, type |-> ContentType(r.fields)]

ReadDataUrl ==
  /\ mpc = "fresh" /\ mpc' = "data_url"
  /\ \E d \in DataUrls : answer' = d /\ heard' = ParseDataUrl(DataUrlText(d))

HttpNext == ReadAnswer \/ ReadDataUrl

-----------------------------------------------------------------------------
\* The first value of a parameter that is not empty.
FirstOf(types, name) ==
  LET ps   == FlattenSeq([i \in DOMAIN types |-> types[i].params])
      vals == SelectSeq(ps, LAMBDA p : p.name = name /\ p.val # <<>>)
  IN  IF vals = <<>> THEN <<>> ELSE vals[1].val

\* Whatever responses came before, and whatever the parameters contain, what is heard
\* is the status of the last response, its fields and those of the trailer, and the
\* media type they were written with: of the last field with a type that can be used,
\* the charset and the boundary named first.  A data URL is read back as well.
MediaTypeRead ==
  /\ mpc = "answered" =>
       LET last  == Last(answer.responses)
           flds  == last.fields \o answer.trailer
           types == SelectSeq(flds, LAMBDA f : f.name = "content-type" /\ IsMime(f.type))
       IN  /\ heard.status = last.status
           /\ [i \in DOMAIN heard.lines |-> heard.lines[i][1]] = [i \in DOMAIN flds |-> flds[i].name]
           /\ heard.type = [mime     |-> IF types = <<>> THEN <<>> ELSE Last(types).type,
                            charset  |-> FirstOf(types, <<"charset">>),
                            boundary |-> FirstOf(types, <<"boundary">>)]
  /\ mpc = "data_url" =>
       LET cs == FirstOf(<<answer>>, <<"charset">>)
       IN  IF answer.type = <<>> /\ answer.params # <<>> /\ cs = <<>>
           THEN heard = DataUrlError("empty_type_without_charset")
           ELSE heard = [mime    |-> IF answer.type = <<>> THEN TextPlain ELSE answer.type,
                         charset |-> IF answer.type = <<>> /\ answer.params = <<>> THEN <<"us-ascii">> ELSE cs,
                         base64  |-> answer.base64, data |-> answer.data]
=============================================================================
