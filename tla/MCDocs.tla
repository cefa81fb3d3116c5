-------------------------------- MODULE MCDocs --------------------------------
(***************************************************************************)
(* Documents for HtmlSearch and answers for HttpText.                      *)
(***************************************************************************)
EXTENDS HtmlSearch, HttpText

\* Trees of five nodes, numbered in document order, one of them a text.  The second has
\* an id, the third a class, the fourth both, and two have a value with a space.
Attr(key, val) == [key |-> <<key>>, val |-> val]
X  == <<"x">>
YZ == <<"y", " ", "z">>

InPreorder(p) ==
  \A i \in 2..5 :
    LET Up[n \in 1..5] == {n} \cup (IF p[n] = 0 THEN {} ELSE Up[p[n]])
    IN  p[i] \in Up[i - 1]
Parents ==
  {p \in {q \in [1..5 -> 0..4] : q[1] = 0 /\ \A i \in 2..5 : q[i] \in 1..(i - 1)} : InPreorder(p)}

Id     == <<"id">> :> X
Class  == <<"class">> :> X @@ <<"k">> :> YZ
MCAttrs == <<<<>>, Id, Class, Id @@ Class, <<>>>>
MCDocs ==
  {d \in [parent : Parents, tag : [1..5 -> {"a", "b", Text}], attrs : {MCAttrs},
           bom : {""}, meta : {""}] :
     /\ d.tag[1] = "a"
     /\ \E n \in {3, 5} : {m \in 1..5 : d.tag[m] = Text} = {n}
     /\ \A n \in 2..5 : d.tag[d.parent[n]] # Text}

Named   == [tag |-> "a", attrs |-> <<>>]
Classed == [tag |-> "*", attrs |-> <<Attr("class", X)>>]
Keyed   == [tag |-> "b", attrs |-> <<Attr("k", <<>>), Attr("id", X)>>]
Ask(op, of) == [op |-> op, of |-> of]
MCAsked ==
  {Ask("one", <<Keyed>>), Ask("and", <<Classed, Named>>), Ask("or", <<Named, Keyed>>),
   Ask("but", <<Named, Classed>>), Ask("not", <<Classed>>)}

\* With the two forms of an attribute in the comment above html_simple_sel.
MCAnyForm ==
  MCAsked \cup
  {Ask("one", <<[tag |-> "*", attrs |-> <<Attr("k", YZ), Attr("class", X)>>]>>),
   Ask("one", <<[tag |-> "*", attrs |-> <<Attr("class", X), Attr("k", <<>>)>>]>>)}

-----------------------------------------------------------------------------
Param(name, val)   == [name |-> <<name>>, val |-> val]
Type(type, params) == [name |-> "content-type", type |-> type, params |-> params]
Plain(name)        == [name |-> name, type |-> <<"x">>, params |-> <<>>]

MCTypes ==
  {<<"a", "/", "b">>, <<"*", "/", "*">>, <<"a">>} \X
  {<<>>, <<Param("charset", <<"u">>), Param("charset", <<"v">>)>>,
   <<Param("q", <<" ", ";", "charset", "=", "x">>), Param("charset", <<"u", "\\", ";">>)>>,
   <<Param("boundary", <<"b", "=", " ", "b">>), Param("charset", <<>>)>>}

MCFields ==
  LET types == {Type(t[1], t[2]) : t \in MCTypes}
  IN  {<<>>, <<Plain("x")>>} \cup {<<t>> : t \in types} \cup {<<Plain("x"), t, u>> : t, u \in types}

MCAnswers ==
  {[responses |-> rs \o <<[status |-> "200", fields |-> f]>>, trailer |-> t] :
     rs \in {<<>>, <<[status |-> "100", fields |-> <<>>]>>,
             <<[status |-> "302", fields |-> <<Type(<<"a", "/", "c">>, <<Param("charset", X)>>)>>]>>},
     f \in MCFields,
     t \in {<<>>, <<Plain("y"), Plain("z")>>}}

MCDataUrls ==
  [type : {<<>>, <<"a", "/", "b">>},
   params : {<<>>, <<Param("q", X)>>, <<Param("charset", <<"u">>)>>, <<Param("charset", <<>>)>>,
             <<Param("q", X), Param("charset", <<"u">>), Param("q", X)>>},
   base64 : BOOLEAN,
   data : {<<>>, <<"x", ",", "/">>}]

docsVars == <<htmlVars, httpVars>>

DocsInit == HtmlInit /\ HttpInit
DocsNext == \/ mpc = "fresh" /\ HtmlNext /\ UNCHANGED httpVars
            \/ doc = NoDoc /\ HttpNext /\ UNCHANGED htmlVars
DocsSpec == DocsInit /\ [][DocsNext]_docsVars
=============================================================================
