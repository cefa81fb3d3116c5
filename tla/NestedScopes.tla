----------------------------- MODULE NestedScopes -----------------------------
(***************************************************************************)
(* What sqlite3_scoped_transaction and sqlite3_scoped_savepoint            *)
(* (include/jkl/sqlite3/conn.hpp) promise: scopes nest; the writes of a    *)
(* scope that is kept become writes of the one around it, those of a scope *)
(* that is left otherwise are gone; a commit stores what is left.          *)
(***************************************************************************)
EXTENDS Naturals, Sequences

CONSTANT Writes

VARIABLES
  stored,  \* the writes in the database
  writes,  \* those of the transaction
  starts,  \* for each open scope, how many writes there were before it
  gone     \* the writes of scopes that were left without being kept

nestedVars == <<stored, writes, starts, gone>>

NestedInit == stored = <<>> /\ writes = <<>> /\ starts = <<>> /\ gone = {}

Write(w) ==
  writes' = Append(writes, w) /\ UNCHANGED <<stored, starts, gone>>

Open ==
  starts' = Append(starts, Len(writes)) /\ UNCHANGED <<stored, writes, gone>>

Innermost == starts[Len(starts)]
Outer     == SubSeq(starts, 1, Len(starts) - 1)

Keep ==
  starts # <<>> /\ starts' = Outer /\ UNCHANGED <<stored, writes, gone>>

Drop ==
  /\ starts # <<>>
  /\ writes' = SubSeq(writes, 1, Innermost)
  /\ gone' = gone \cup {writes[i] : i \in (Innermost + 1)..Len(writes)}
  /\ starts' = Outer
  /\ UNCHANGED stored

Commit ==
  /\ starts = <<>>
  /\ stored' = stored \o writes /\ writes' = <<>>
  /\ UNCHANGED <<starts, gone>>

\* The whole transaction is undone, and with it what its open scopes wrote.
Abandon ==
  /\ writes' = <<>> /\ starts' = [i \in DOMAIN starts |-> 0]
  /\ UNCHANGED <<stored, gone>>

NestedNext ==
  (\E w \in Writes : Write(w)) \/ Open \/ Keep \/ Drop \/ Commit \/ Abandon

NestedSpec == NestedInit /\ [][NestedNext]_nestedVars
=============================================================================
