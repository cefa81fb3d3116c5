------------------------------ MODULE HtmlSearch ------------------------------
(***************************************************************************)
(* Searching a parsed document (include/jkl/html.hpp): html_simple_sel     *)
(* reads and matches a selector, gumbo_node::foreach_if() visits the nodes *)
(* a kind of search asks for, and gumbo_elm_coll collects those found, to  *)
(* be searched again: root % "a.x" / "b".                                  *)
(*                                                                         *)
(* gumbo (external) makes the tree.  Nodes are numbered in document order, *)
(* 1 is the root element.  A selector is a sequence of separators, quotes, *)
(* "=" and words, a word standing for the characters between them.         *)
(***************************************************************************)
EXTENDS Integers, Sequences, SequencesExt, FiniteSetsExt, Strings

CONSTANTS
  Docs,      \* records [parent, tag, attrs] of functions on the nodes, and bom, meta:
             \* the charsets of a byte order mark and of the first <meta> in <head>
  Headers,   \* charsets that come with a document, "" for none
  Asked,     \* what is searched for: [op, of], one thing or several and how they are
             \* combined, each [tag, attrs] with attrs a sequence of [key, val]
  MaxSearch, \* bound on the searches in a chain
  Text,      \* in the place of a tag: a text node
  NoDoc

VARIABLES
  doc,    \* the document
  charset,\* that came with it, and that it was taken to be in
  coll,   \* the elements found last
  united, \* the text nodes found below them, as united_text() joins them
  search, \* the last search: what for, how, from where; its selector's fate
  chain   \* the kinds of the searches so far

htmlVars == <<doc, charset, coll, united, search, chain>>

\* What text_nodes() searches for.
Texts    == [op |-> "one", of |-> <<[tag |-> Text, attrs |-> <<>>]>>]
NoSearch == [for |-> Texts, st |-> "none", from |-> <<>>, res |-> "ok"]

-----------------------------------------------------------------------------
\* html_simple_sel::parse().  A position behind the end is npos.
AnyTag     == "*"
Separators == {".", "#", " "}
Quotes     == {"\"", "'"}

\* The key at separator i, and where its value begins.
KeyAt(s, i) ==
  CASE s[i] = "." -> [key |-> <<"class">>, at |-> i + 1]
    [] s[i] = "#" -> [key |-> <<"id">>, at |-> i + 1]
    [] s[i] = " " -> LET j == FindFirst(s, i + 1, Separators \cup {"="})
                     IN  [key |-> SubSeq(s, i + 1, j - 1), at |-> j]

\* The value at position i, and where the next separator is.
ValueAt(s, i) ==
  IF s[i] \in Quotes
  THEN LET j == FindFirst(s, i + 1, {s[i]})
       IN  [val |-> SubSeq(s, i + 1, j - 1), next |-> FindFirst(s, j, Separators)]
  ELSE LET j == FindFirst(s, i, Separators)
       IN  [val |-> SubSeq(s, i, j - 1), next |-> j]

\* "if(i == j) return false": no key between a space and the next separator.  A key
\* that ends the selector makes parse() read what is not there, sel[npos]; after that
\* nothing is known, most often substr() throws, out of a noexcept function.
Fault(s, i) ==
  LET at == KeyAt(s, i).at
  IN  CASE s[i] = " " /\ at = i + 1 /\ at <= Len(s) -> "failed"
        [] at > Len(s) -> "undefined"
        [] OTHER -> "ok"

ReadAttrs(s, first) ==
  LET Read[i \in 1..(Len(s) + 1)] ==
        IF i > Len(s) THEN [res |-> "ok", attrs |-> <<>>]
        ELSE IF Fault(s, i) # "ok" THEN [res |-> Fault(s, i), attrs |-> <<>>]
        ELSE LET k == KeyAt(s, i)
                 v == ValueAt(s, k.at)
             IN  [Read[v.next] EXCEPT !.attrs = <<[key |-> k.key, val |-> v.val]>> \o @]
  IN  Read[first]

\* Words are tags that gumbo knows.
ReadSelector(s) ==
  LET i == IF s[1] = AnyTag THEN 2 ELSE FindFirst(s, 1, Separators)
      r == ReadAttrs(s, i)
  IN  [res |-> r.res, tag |-> SubSeq(s, 1, i - 1), attrs |-> r.attrs]

-----------------------------------------------------------------------------
Nodes          == DOMAIN doc.parent
Children(n)    == SetToSortSeq({c \in Nodes : doc.parent[c] = n}, <)
IsText(n)      == doc.tag[n] = Text

\* html_simple_sel::match(): an attribute without a value has to be there.
HasAttr(n, a) ==
  a.key \in DOMAIN doc.attrs[n] /\ (a.val # <<>> => doc.attrs[n][a.key] = a.val)

Matches(sel, n) ==
  /\ sel.tag \in {<<AnyTag>>, <<doc.tag[n]>>}
  /\ \A i \in DOMAIN sel.attrs : HasAttr(n, sel.attrs[i])

\* Selectors are combined by &&, ||, - and !; "one" is a selector by itself.
Combined(op, m) == CASE op = "one" -> m[1]
                     [] op = "and" -> m[1] /\ m[2]
                     [] op = "or"  -> m[1] \/ m[2]
                     [] op = "but" -> m[1] /\ ~m[2]
                     [] op = "not" -> ~m[1]

\* elms(): the callback converts a node to an element first.
Hits(op, sels) ==
  {n \in Nodes : ~IsText(n) /\ Combined(op, [i \in DOMAIN sels |-> Matches(sels[i], n)])}

-----------------------------------------------------------------------------
SearchTypes == {"hs_self", "hs_direct_child", "hs_until_found", "hs_until_found_first",
                "hs_all"}

\* The children a loop of hs_until_found_first visits: up to the first hit.
ToFirst(cs, hits) ==
  LET at == {i \in DOMAIN cs : cs[i] \in hits} IN IF at = {} THEN cs ELSE SubSeq(cs, 1, Min(at))

\* Mutant: below a hit too.
GoesDeeperAlways(st, hit) == TRUE

\* May foreach_if() go on below a child for which the callback said so?
GoesDeeper(st, hit) == st = "hs_all" \/ ~hit

\* foreach_if(): the hits among what is visited from node n on.  The "return" of
\* hs_until_found_first leaves the loop over one node's children.
ForeachIf(n, st, hits) ==
  LET Visited(cs) == IF st = "hs_until_found_first" THEN ToFirst(cs, hits) ELSE cs
      OrNone(c)   == IF c \in hits THEN <<c>> ELSE <<>>
      Below[m \in Nodes] ==
        FoldLeft(LAMBDA all, c : all \o OrNone(c)
                                     \o (IF GoesDeeper(st, c \in hits) THEN Below[c] ELSE <<>>),
                 <<>>, Visited(Children(m)))
  IN  CASE st = "hs_self"         -> OrNone(n)
        [] st = "hs_direct_child" -> SelectSeq(Children(n), LAMBDA c : c \in hits)
        [] OTHER                  -> Below[n]

\* gumbo_elm_coll::foreach_if(): from one element after the other.
FoundFrom(ns, st, hits) == FoldLeft(LAMBDA all, n : all \o ForeachIf(n, st, hits), <<>>, ns)

-----------------------------------------------------------------------------
\* What a user writes for what is asked: the tag, then the attributes, "." and "#"
\* for class and id, a value in quotes if it has a separator inside.
Quoted(v)   == IF ToSet(v) \cap Separators = {} THEN v ELSE <<"'">> \o v \o <<"'">>
WrittenAttr(a)  == CASE a.key = <<"class">> /\ a.val # <<>> -> <<".">> \o Quoted(a.val)
                 [] a.key = <<"id">> /\ a.val # <<>> -> <<"#">> \o Quoted(a.val)
                 [] a.val = <<>> -> <<" ">> \o a.key
                 [] OTHER -> <<" ">> \o a.key \o <<"=">> \o Quoted(a.val)
Selector(q) == FoldLeft(LAMBDA s, a : s \o WrittenAttr(a), <<q.tag>>, q.attrs)

HtmlInit ==
  /\ doc = NoDoc /\ charset = [given |-> "", used |-> ""]
  /\ coll = <<>> /\ united = <<>> /\ search = NoSearch /\ chain = <<>>

\* detect_bom().  The literals it looks for, "\0xEF...", begin with a NUL and are empty
\* C strings, with which every text starts: the first is always found.
DetectBom(d) == "UTF-8"

\* parse_html(), with a byte order mark's charset, the one given or the document's own,
\* and the root as the first collection.
ParseHtml(d, given) ==
  LET src == CASE DetectBom(d) # "" -> DetectBom(d)
               [] DetectBom(d) = "" /\ given # "" -> given
               [] OTHER -> d.meta
  IN  /\ doc' = d
      /\ charset' = [given |-> given, used |-> IF src = "" THEN "UTF-8" ELSE src]
      /\ coll' = <<1>>
      /\ UNCHANGED <<united, search, chain>>

\* The selectors are read one after the other, up to the first that cannot be.
ReadSelectors(of) ==
  LET sels == [i \in DOMAIN of |-> ReadSelector(Selector(of[i]))]
      bad  == {i \in DOMAIN of : sels[i].res # "ok"}
  IN  [sels |-> sels, res |-> IF bad = {} THEN "ok" ELSE sels[Min(bad)].res]

\* elms<ST>(), operator%, operator/: a selector that cannot be read is an exception.
Elms(q, st) ==
  /\ doc # NoDoc /\ search.res = "ok" /\ united = <<>>
  /\ Len(chain) < MaxSearch /\ chain' = Append(chain, st)
  /\ \E read \in {ReadSelectors(q.of)} :
       /\ search' = [for |-> q, st |-> st, from |-> coll, res |-> read.res]
       /\ coll' = IF read.res = "ok" THEN FoundFrom(coll, st, Hits(q.op, read.sels)) ELSE coll
  /\ UNCHANGED <<doc, charset, united>>

\* text_nodes(), united_text(), operator*.
UnitedText(st) ==
  /\ doc # NoDoc /\ search.res = "ok" /\ united = <<>>
  /\ \E hits \in {{n \in Nodes : IsText(n)}} : united' = FoundFrom(coll, st, hits)
  /\ search' = [for |-> Texts, st |-> st, from |-> coll, res |-> "ok"]
  /\ UNCHANGED <<doc, charset, coll, chain>>

HtmlNext == \/ doc = NoDoc /\ \E d \in Docs, given \in Headers : ParseHtml(d, given)
            \/ \E q \in Asked, st \in SearchTypes : Elms(q, st)
            \/ \E st \in SearchTypes : UnitedText(st)

-----------------------------------------------------------------------------
\* What is meant by a search, in terms of the tree.
Means(a, n) ==
  /\ a.tag = doc.tag[n] \/ (a.tag = AnyTag /\ ~IsText(n))
  /\ \A i \in DOMAIN a.attrs : HasAttr(n, a.attrs[i])

Wanted(q, n) ==
  /\ Combined(q.op, [i \in DOMAIN q.of |-> Means(q.of[i], n)])
  /\ IsText(n) => q = Texts

Ancestors(n) ==
  LET Above[m \in Nodes] == IF m = 1 THEN {} ELSE {doc.parent[m]} \cup Above[doc.parent[m]]
  IN  Above[n]

Reached(st, n, m) ==
  CASE st = "hs_self" -> m = n
    [] st = "hs_direct_child" -> doc.parent[m] = n
    [] OTHER -> n \in Ancestors(m)

\* Between n and m there is none that is wanted.
Outermost(q, n, m) == \A h \in Ancestors(m) : Wanted(q, h) => n \notin Ancestors(h)

\* What a search is meant to find from node n.
Meant(q, st, n) ==
  {m \in Nodes : /\ Wanted(q, m) /\ Reached(st, n, m)
                 /\ st \in {"hs_until_found", "hs_until_found_first"} => Outermost(q, n, m)}

Searched == search # NoSearch
Gathered == IF search.for = Texts THEN united ELSE coll
MeantAll == UNION {Meant(search.for, search.st, search.from[i]) : i \in DOMAIN search.from}

\* A search finds what is meant, all of it and nothing else, from the selector's text to
\* the last node, and finds it in document order, once, unless a search of the chain was
\* for all descendants: then an element may be found from several.
\* hs_until_found_first is another promise, FirstFound.
SearchFinds ==
  Searched =>
    /\ search.res = "ok"
    /\ search.st # "hs_until_found_first" => ToSet(Gathered) = MeantAll
    /\ "hs_all" \notin ToSet(chain) \cup {search.st} \/ chain = <<>> =>
         \A i, k \in DOMAIN Gathered : i < k => Gathered[i] < Gathered[k]

\* "search target's descendants until first matched node was found" (hs_until_found_first):
\* from each element of the collection the first one, and no more.
FirstFound ==
  Searched /\ search.st = "hs_until_found_first" =>
    LET first(n) == LET meant == Meant(search.for, search.st, n) IN IF meant = {} THEN {} ELSE {Min(meant)}
    IN  ToSet(Gathered) = UNION {first(search.from[i]) : i \in DOMAIN search.from}

\* What the header's comments promise: both forms of an attribute in a selector are
\* understood, "attr1=value" and, at the end, "attr2" (html_simple_sel); and a search for
\* the first finds one (html_search_type).
SearchAsDocumented == SearchFinds /\ FirstFound
=============================================================================
