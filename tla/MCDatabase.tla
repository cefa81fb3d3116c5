------------------------------ MODULE MCDatabase ------------------------------
(***************************************************************************)
(* What is done with a database: the rows, arguments and settings of       *)
(* SqliteStmt and SqliteConn; SqliteScopes needs none.                     *)
(***************************************************************************)
EXTENDS SqliteScopes, SqliteStmt, SqliteConn, TLC

\* Three rows for some arguments, and columns that not every type can hold.
MCFound ==
  <<Num(1), Num(1)>> :> <<<<Num(1), Str(1)>>, <<NullVal, Float(1)>>, <<Float(2), Num(1)>>>>
  @@ <<Num(1), Str(1)>> :> <<<<Num(2), NullVal>>>>
  @@ <<Str(1), Num(1)>> :> <<<<NullVal, NullVal>>>>
  @@ <<NullVal, Num(1)>> :> <<<<Str(1), Num(1)>>>>

Arg(as, v) == [as |-> as, v |-> v]
MCArgs == {Arg("number", Num(1)), Arg("number", Num(9)), Arg("null", NullVal), Arg("text", Str(1)),
           Arg("optional", NullVal), Arg("optional", Str(1))}
MCTooBig == {Num(9)}

Plainly(of)    == [of |-> of, optional |-> FALSE]
OptionalOf(of) == [of |-> of, optional |-> TRUE]
ReadOf(ith, types) == [ith |-> ith, types |-> types]
MCReads ==
  {ReadOf(0, <<Plainly("narrow")>>), ReadOf(0, <<Plainly("wide")>>), ReadOf(1, <<Plainly("real")>>),
   ReadOf(1, <<OptionalOf("text")>>), ReadOf(0, <<>>),
   ReadOf(0, <<OptionalOf("wide"), Plainly("text")>>), ReadOf(0, <<Plainly("text"), Plainly("narrow")>>)}

-----------------------------------------------------------------------------
\* Every setting alone, but the size of the cache with the page size it is counted in.
MCTogether ==
  LET cache == {r \in AllSettings : r.name \in {"cache_size", "page_size"}}
  IN  {{r} : r \in AllSettings \ cache} \cup {cache}
MCTried == {-3} \cup 0..4
MCCacheSizes == {-3, 0, 2}
=============================================================================
