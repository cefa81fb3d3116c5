------------------------------ MODULE CurlOptions ------------------------------
(***************************************************************************)
(* What a curl_request is sent with (include/jkl/client.hpp).  Requests    *)
(* wait in the client's pool between their users.  Each is reset when it   *)
(* is created and when it is given back, and takes the client's defaults   *)
(* at that time.                                                           *)
(*                                                                         *)
(* libcurl (external) copies the values of options, but of the header      *)
(* fields it keeps a pointer to a list that belongs to the request: here   *)
(* the number of the list.                                                 *)
(***************************************************************************)
EXTENDS Naturals, Sequences

CONSTANTS
  Settable,  \* the options that users set one by one
  OptValues, \* what they set them to
  Lines,     \* header lines
  MaxLists,  \* bound on the lists of header lines made
  MaxLines,  \* bound on the lines of a user, besides the standard ones
  Nothing    \* no value

OptNames == {"method", "target", "proxy", "noproxy", "failonerror", "body", "other"}

ASSUME OptionsAssumption ==
  /\ Settable \subseteq OptNames
  /\ Nothing \notin OptValues /\ MaxLists \in Nat /\ MaxLines \in Nat

VARIABLES
  defaults, \* _defaultProxy, _noProxyList, and the option _defaultOptsFunc sets
  req,      \* _easy's options and header list, _fields
  lists,    \* the lists of header lines made so far
  use,      \* the request: none, pooled, held, running
  wanted,   \* for the properties: what its user, and the defaults, asked for
  outgoing  \* what libcurl sends

optionVars == <<defaults, req, lists, use, wanted, outgoing>>

-----------------------------------------------------------------------------
\* An easy handle as libcurl makes it, and after curl_easy_reset().
FreshOpts == [o \in OptNames |-> Nothing]

\* opts(): an option of the handle; an empty text is no value.
Setopt(r, o, v) == [r EXCEPT !.opts[o] = v]

\* field_line(), field(): the list grows, its first node stays.
AppendLine(r, line) == [r EXCEPT !.fields.lines = Append(@, line)]

Standard == <<"Expect:", "Accept:", "User-Agent:">>

\* reset_fields(): another list, which the handle is told of.
ResetFields(r, id, lines) ==
  [r EXCEPT !.fields = [id |-> id, lines |-> lines \o Standard], !.header = id]

ApplyDefaults(r, d) ==
  LET p == Setopt(Setopt(r, "proxy", d.proxy), "noproxy", d.noproxy)
  IN  IF d.func = Nothing THEN p ELSE Setopt(p, "other", d.func)

\* Mutant: the options of the handle stay.
ResetAllKeepsOpts(r, id, d) == ApplyDefaults([ResetFields(r, id, <<>>) EXCEPT !.header = 0], d)

\* reset_all(): the options that reset_fields() has set are reset after it, its header
\* list with them.
ResetAll(r, id, d) ==
  ApplyDefaults([ResetFields(r, id, <<>>) EXCEPT !.opts = FreshOpts, !.header = 0], d)

\* A request nobody has touched: the defaults, and the header lines that take away those
\* libcurl adds.
Asks(d) ==
  [opts |-> [FreshOpts EXCEPT !["proxy"] = d.proxy, !["noproxy"] = d.noproxy, !["other"] = d.func],
   replaced |-> FALSE, lines |-> Standard]

NoRequest == [opts |-> FreshOpts, header |-> 0, fields |-> [id |-> 0, lines |-> <<>>]]
NoDefaults == [proxy |-> Nothing, noproxy |-> Nothing, func |-> Nothing]

OptionsInit ==
  /\ defaults = NoDefaults /\ req = NoRequest /\ lists = 0 /\ use = "none"
  /\ wanted = [opts |-> FreshOpts, replaced |-> FALSE, lines |-> <<>>] /\ outgoing = Nothing

-----------------------------------------------------------------------------
\* default_proxy(), add_no_proxy(), default_opts_func() and those that clear them.
SetDefault(k, v) ==
  /\ defaults' = [defaults EXCEPT ![k] = v]
  /\ UNCHANGED <<req, lists, use, wanted, outgoing>>

\* A request out of the pool: one that waits there, or a new one.
FromPool ==
  IF use = "pooled" THEN [req |-> req, wanted |-> wanted, lists |-> lists]
  ELSE [req |-> ResetAll(NoRequest, lists + 1, defaults), wanted |-> Asks(defaults),
        lists |-> lists + 1]

AcquireRequest ==
  /\ use \in {"none", "pooled"} /\ use' = "held"
  /\ FromPool.lists <= MaxLists
  /\ req' = FromPool.req /\ wanted' = FromPool.wanted /\ lists' = FromPool.lists
  /\ UNCHANGED <<defaults, outgoing>>

SetOption(o, v) ==
  /\ use = "held"
  /\ req' = Setopt(req, o, v) /\ wanted' = [wanted EXCEPT !.opts[o] = v]
  /\ UNCHANGED <<defaults, lists, use, outgoing>>

AddField(line) ==
  /\ use = "held" /\ Len(wanted.lines) < Len(Standard) + MaxLines
  /\ req' = AppendLine(req, line) /\ wanted' = [wanted EXCEPT !.lines = Append(@, line)]
  /\ UNCHANGED <<defaults, lists, use, outgoing>>

ReplaceFields(lines) ==
  /\ use = "held" /\ lists < MaxLists /\ lists' = lists + 1
  /\ req' = ResetFields(req, lists', lines)
  /\ wanted' = [wanted EXCEPT !.replaced = TRUE, !.lines = lines \o Standard]
  /\ UNCHANGED <<defaults, use, outgoing>>

\* The first read adds the request to libcurl, which looks at its options.
Carried(r) == [opts |-> r.opts, list |-> r.header, lines |-> IF r.header = 0 THEN <<>> ELSE r.fields.lines]

StartTransfer ==
  /\ use = "held" /\ use' = "running" /\ outgoing' = Carried(req)
  /\ UNCHANGED <<defaults, req, lists, wanted>>

\* client.read_body(), read_response(): a request is acquired, told everything and sent.
Told(r, method, target, failing) ==
  Setopt(Setopt(IF failing THEN Setopt(r, "failonerror", 1) ELSE r, "method", method),
         "target", target)

ReadAtOnce(method, target, lines, failing) ==
  /\ use \in {"none", "pooled"} /\ use' = "running"
  /\ FromPool.lists < MaxLists /\ lists' = FromPool.lists + 1
  /\ req' = ResetFields(Told(FromPool.req, method, target, failing), lists', lines)
  /\ wanted' = [Told(FromPool.wanted, method, target, failing)
                  EXCEPT !.replaced = TRUE, !.lines = lines \o Standard]
  /\ outgoing' = Carried(req')
  /\ UNCHANGED defaults

EndTransfer ==
  /\ use = "running" /\ use' = "held" /\ outgoing' = Nothing
  /\ UNCHANGED <<defaults, req, lists, wanted>>

\* on_recycle()
GiveBack ==
  /\ use = "held" /\ use' = "pooled"
  /\ lists < MaxLists /\ lists' = lists + 1
  /\ req' = ResetAll(req, lists', defaults) /\ wanted' = Asks(defaults)
  /\ UNCHANGED <<defaults, outgoing>>

OptionsNext ==
  \/ \E k \in DOMAIN defaults, v \in OptValues \cup {Nothing} : SetDefault(k, v)
  \/ AcquireRequest
  \/ \E o \in Settable, v \in OptValues \cup {Nothing} : SetOption(o, v)
  \/ \E line \in Lines : AddField(line)
  \/ \E lines \in {<<>>} \cup {<<l>> : l \in Lines} : ReplaceFields(lines)
  \/ StartTransfer
  \/ \E v \in OptValues, line \in Lines, failing \in BOOLEAN : ReadAtOnce(v, v, <<line>>, failing)
  \/ EndTransfer
  \/ GiveBack

OptionsSpec == OptionsInit /\ [][OptionsNext]_optionVars

-----------------------------------------------------------------------------
\* A request is sent with the options and the header lines its user has given, over the
\* client's defaults when it was reset: those of field() and field_line(), and "Expect:"
\* and the like, which the comment above body() says are there.  reset_all() has libcurl
\* forget the list after reset_fields() has handed it over.
SentAsWanted ==
  use = "running" => outgoing.opts = wanted.opts /\ outgoing.lines = wanted.lines

\* Nothing of an earlier user is left in a request, of its options or of its lines, and
\* libcurl never holds a list that is freed: a list it holds is the request's, with the
\* lines given since reset_fields(), and it holds one once the user has called that
\* (opts(), reset_fields(), reset_all()).  Of the lines of a user who has not, this
\* promises nothing; SentAsWanted does.
NothingStale ==
  /\ req.header \in {0, req.fields.id} /\ req.fields.lines = wanted.lines
  /\ use = "running" =>
       /\ outgoing.opts = wanted.opts
       /\ wanted.replaced => outgoing.list # 0
       /\ outgoing.list # 0 => outgoing.lines = wanted.lines
=============================================================================
