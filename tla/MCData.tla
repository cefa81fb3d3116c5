-------------------------------- MODULE MCData --------------------------------
(***************************************************************************)
(* The parts that work on one thread: a behaviour is one of Varint, of     *)
(* UriResolve, of UriText, of PbMessage, of CurlClient, of CurlOptions, of *)
(* HtmlSearch and HttpText, of SqliteScopes, of SqliteStmt or of           *)
(* SqliteConn.  They share no state, and the others keep their initial     *)
(* one.                                                                    *)
(***************************************************************************)
EXTENDS Varint, UriResolve, UriText, PbMessage, MCCurlClient, CurlOptions, MCDocs,
  MCDatabase

VARIABLE part

MCSegments == {<<>>, <<".">>, <<".", ".">>, <<"x">>, <<".", "x">>}
MCBaseSegments == {<<>>, <<"x">>}

-----------------------------------------------------------------------------
\* Two versions of a message: fields of every kind, some of which only one version
\* has, optional or checked in one of them, or of another type.
MCVersions == {"old", "new"}
MCSchema ==
  [old |-> <<VarintFld(1), RepeatedFld(VarintFld(2)),
             RepeatedFld(MessageFld(3, <<BytesFld(1), Optional(VarintFld(2))>>)),
             OneofFld(<<VarintFld(4), MessageFld(5, <<FixedFld(1)>>)>>),
             RepeatedFld(MapEntry(8, VarintFld(1), VarintFld(2)))>>,
   new |-> <<Checked(VarintFld(1)),
             Optional(MessageFld(6, <<Optional(VarintFld(1)), RepeatedFld(BytesFld(2))>>)),
             RepeatedFld(MessageFld(3, <<BytesFld(1), RepeatedFld(FixedFld(3))>>)),
             OneofFld(<<MessageFld(5, <<FixedFld(1), VarintFld(2)>>), BytesFld(7)>>),
             MapFld(8, VarintFld(1), VarintFld(2))>>]

Choice(at, v) == [at |-> at, val |-> v]

MCSamples ==
  [old |-> {<<1, b, c, d, <<>>>> :
      b \in {<<>>, <<1>>, <<1, 2>>}, c \in {<<>>, <<<<<<1>>, None>>>>, <<<<<<>>, 0>>, <<<<2>>, None>>>>},
      d \in {Choice(0, None), Choice(1, 1), Choice(2, <<1>>)}}
      \cup {<<0, <<>>, c, Choice(1, 1), <<>>>> : c \in {<<>>, <<<<<<1>>, None>>>>}}
      \cup {<<1, <<1>>, <<>>, Choice(1, 1), e>> :
               e \in {<<<<1, 1>>>>, <<<<1, 1>>, <<2, 1>>, <<1, 2>>>>}},
   new |-> {<<1, b, c, d, {}>> :
      b \in {None, <<None, <<>>>>, <<1, <<<<>>, <<1>>>>>>},
      c \in {<<>>, <<<<<<1>>, <<>>>>, <<<<>>, <<1>>>>>>},
      d \in {Choice(0, None), Choice(1, <<0, 1>>), Choice(2, <<1>>)}}
      \cup {<<0, None, c, Choice(2, <<1>>), {}>> : c \in {<<>>, <<<<<<1>>, <<>>>>>>}}
      \cup {<<1, None, <<>>, Choice(2, <<1>>), e>> : e \in {{<<2, 1>>}, {<<1, 0>>, <<2, 1>>}}}]

-----------------------------------------------------------------------------
\* Components for the writer: narrow ones with every delimiter in the wrong place,
\* ports and pieces of a path, and wide ones.
MCNarrow ==
  [scheme : {<<>>, <<"h">>}, user : {<<>>, <<"@">>, <<":", "a">>}, password : {<<>>, <<":", "/">>},
   host : {<<>>, <<"a">>, <<"/", "?">>, <<"[", ":", "]">>, <<"a", ":", "8">>}, port : {<<>>, <<"9">>},
   path : {<<>>, <<"/">>, <<"/", "?", "#">>, <<"/", "%", " ", "+">>},
   query : {<<>>, <<" ", "+">>, <<"#", "=">>}, frag : {<<>>, <<"#", " ", "+">>}]

MCAutoPort ==
  [scheme : {<<"h">>, <<"x">>}, userinfo : {<<>>, <<"a", ":">>}, host : {<<>>, <<"a">>, <<"[", ":", "]">>},
   auto_port : {<<>>, <<"8">>, <<"9">>}, dir_path : {<<>>, <<"/">>, <<"/", "a">>, <<"/", "a", "/">>},
   file_name : {<<>>, <<"a", ".", "?">>}, file_ext : {<<>>, <<"#">>}]

MCWide ==
  [scheme_colon : {<<>>, <<"h", ":">>}, userinfo_at : {<<>>, <<"a", ":", ":", "@">>},
   host_port : {<<>>, <<"a", ":", "9">>, <<"[", ":", "]">>}, path : {<<>>, <<"/", "a">>},
   qm_query : {<<>>, <<"?">>, <<"?", "?", "+">>}, sharp_frag : {<<>>, <<"#">>, <<"#", "a">>}]
  \cup [scheme_authority : {<<>>, <<"/", "/", "a">>, <<"h", ":", "/", "/", ":", "9">>},
        path : {<<>>, <<"/">>}, qm_query_frag : {<<>>, <<"?", "#">>, <<"?", "+", "#", "a", "+">>}]
  \cup [scheme : {<<>>, <<"h">>}, authority : {<<>>, <<"a", "@", "a">>}, file : {<<>>, <<"a", "/">>}]

Pairs == {<<>>} \cup {<<[key |-> <<k>>, val |-> v]>> : k \in {"a", " "}, v \in {<<>>, <<"#">>}}
MCPaired ==
  [path : {<<>>, <<"/", "a">>}, pairs : {p \o q : p \in Pairs, q \in Pairs}, frag : {<<>>, <<"a">>}]

MCComponents == MCNarrow \cup MCAutoPort \cup MCWide \cup MCPaired


\* URIs from elsewhere: what comes before the path, the path, what follows it.
MCHeads == {<<>>, <<":">>, <<" ">>, <<"h", ":">>, <<"/", "/">>, <<"/", "/", "a">>, <<"h", ":", "/", "/", "[">>,
  <<"h", ":", "/", "/", "[", ":", "]", "a">>, <<"/", "/", "a", ":", "8", ":", "9">>, <<"/", "/", "@", "a", ":">>,
  <<"/", "/", "a", "@", ":", "@">>, <<"/", "/", "%", "4", "0", "a", ":", "%", "2", "F", "@", "a">>}
MCTails == {<<>>, <<"a">>, <<"/">>, <<"/", "a", ".", "a">>, <<"/", ".">>, <<"/", "%", "2", "F", "a">>, <<"/", "%", "2">>}
MCEnds == {<<>>, <<"?">>, <<"?", "#">>, <<"#", "?">>, <<"?", "+", "%", "2", "B", " ">>, <<"?", "a", "#", "%", "x", "a">>}
MCForeign == {h \o t \o e : h \in MCHeads, t \in MCTails, e \in MCEnds}
MCWellKnown == {[scheme |-> <<"h">>, port |-> <<"8">>]}
-----------------------------------------------------------------------------
\* The reads are those for which theorem DataStaysInOrder is proved.
ASSUME ReadsAreKept == RestFits /\ RestIsRead

dataVars == <<part, vvars, uvars, textVars, pbVars, clientVars, optionVars, docsVars, scopeVars,
              stmtVars, connVars>>

DataInit == /\ part \in {"varint", "uri", "text", "protobuf", "client", "options", "docs",
                         "scopes", "statement", "connection"}
            /\ Init /\ UriInit /\ TextInit /\ PbInit /\ ClientInit /\ OptionsInit /\ DocsInit
            /\ ScopesInit /\ StmtInit /\ ConnInit
            /\ part # "protobuf" => reader = "new"
            /\ part # "text" => comps["path"] = <<>>
            /\ part # "connection" => InUse("user_version")

DataNext ==
  /\ UNCHANGED part
  /\ \/ part = "varint" /\ Next
        /\ UNCHANGED <<uvars, textVars, pbVars, clientVars, optionVars, docsVars, scopeVars, stmtVars, connVars>>
     \/ part = "uri" /\ UriNext
        /\ UNCHANGED <<vvars, textVars, pbVars, clientVars, optionVars, docsVars, scopeVars, stmtVars, connVars>>
     \/ part = "text" /\ TextNext
        /\ UNCHANGED <<vvars, uvars, pbVars, clientVars, optionVars, docsVars, scopeVars, stmtVars, connVars>>
     \/ part = "protobuf" /\ PbNext
        /\ UNCHANGED <<vvars, uvars, textVars, clientVars, optionVars, docsVars, scopeVars, stmtVars, connVars>>
     \/ part = "client" /\ ClientNext
        /\ UNCHANGED <<vvars, uvars, textVars, pbVars, optionVars, docsVars, scopeVars, stmtVars, connVars>>
     \/ part = "options" /\ OptionsNext
        /\ UNCHANGED <<vvars, uvars, textVars, pbVars, clientVars, docsVars, scopeVars, stmtVars, connVars>>
     \/ part = "docs" /\ DocsNext
        /\ UNCHANGED <<vvars, uvars, textVars, pbVars, clientVars, optionVars, scopeVars, stmtVars, connVars>>
     \/ part = "scopes" /\ ScopesNext
        /\ UNCHANGED <<vvars, uvars, textVars, pbVars, clientVars, optionVars, docsVars, stmtVars, connVars>>
     \/ part = "statement" /\ StmtNext
        /\ UNCHANGED <<vvars, uvars, textVars, pbVars, clientVars, optionVars, docsVars, scopeVars, connVars>>
     \/ part = "connection" /\ ConnNext
        /\ UNCHANGED <<vvars, uvars, textVars, pbVars, clientVars, optionVars, docsVars, scopeVars, stmtVars>>

DataSpec == DataInit /\ [][DataNext]_dataVars
=============================================================================
