----------------------------- MODULE SqliteScopes -----------------------------
(***************************************************************************)
(* sqlite3_scoped_transaction and sqlite3_scoped_savepoint                 *)
(* (include/jkl/sqlite3/conn.hpp): objects whose destructors undo what was *)
(* not committed or released.  They speak to SQLite in statements that     *)
(* name a savepoint; SQLite (external) keeps a stack of savepoints and     *)
(* takes the latest of that name.  ROLLBACK TO leaves the savepoint on the *)
(* stack, RELEASE and COMMIT do not.                                       *)
(***************************************************************************)
EXTENDS Naturals, Sequences

CONSTANTS
  Names,      \* the names of the scopes
  MaxWrites,  \* bound on the writes
  MaxDepth,   \* bound on the scopes and on SQLite's stack
  CanAbort    \* SQLite may abandon the transaction when a statement fails

ASSUME ScopesAssumption ==
  /\ CanAbort \in BOOLEAN /\ MaxWrites \in Nat /\ MaxDepth \in Nat

VARIABLES
  txn,      \* the sqlite3_scoped_transaction: none, open
  scopes,   \* the sqlite3_scoped_savepoint objects not yet released, [name, mark, at,
            \* hidden]: for the properties, how many writes came before them, where
            \* their savepoint is, and if one of the same name was left above it
  active,   \* SQLite: a transaction is active
  sps,      \* SQLite: its savepoints, a sequence of [name, mark]
  log,      \* SQLite: the writes of the transaction
  db,       \* SQLite: the writes committed
  next,     \* writes so far
  dropped,  \* those of scopes that were left without a release
  dead      \* a destructor threw: the program is terminated

scopeVars == <<txn, scopes, active, sps, log, db, next, dropped, dead>>

ScopesInit ==
  /\ txn = "none" /\ scopes = <<>>
  /\ active = FALSE /\ sps = <<>> /\ log = <<>> /\ db = <<>>
  /\ next = 1 /\ dropped = {} /\ dead = FALSE

-----------------------------------------------------------------------------
\* SQLite looks for the latest savepoint of a name.
Known(name) == \E p \in DOMAIN sps : sps[p].name = name

IsLatest(p, name) ==
  sps[p].name = name /\ \A q \in (p + 1)..Len(sps) : sps[q].name # name

Latest(name) == CHOOSE p \in DOMAIN sps : IsLatest(p, name)

Inner == scopes[Len(scopes)]
Outer == SubSeq(scopes, 1, Len(scopes) - 1)

\* The writes of the transaction since the constructor of the innermost scope.
Written == {log[i] : i \in (Inner.mark + 1)..Len(log)}

-----------------------------------------------------------------------------
\* The constructor: BEGIN.
BeginTransaction ==
  /\ txn = "none" /\ ~dead
  /\ txn' = "open" /\ active' = TRUE
  /\ UNCHANGED <<scopes, sps, log, db, next, dropped, dead>>

\* A statement of the user.
Insert ==
  /\ txn = "open" /\ active /\ ~dead /\ next <= MaxWrites
  /\ log' = Append(log, next) /\ next' = next + 1
  /\ UNCHANGED <<txn, scopes, active, sps, db, dropped, dead>>

\* A statement fails in such a way that SQLite abandons the transaction; it
\* throws, and the scopes are left.
StatementAborts ==
  /\ CanAbort /\ txn = "open" /\ active /\ ~dead
  /\ active' = FALSE /\ log' = <<>> /\ sps' = <<>>
  /\ scopes' = [i \in DOMAIN scopes |-> [scopes[i] EXCEPT !.mark = 0]]
  /\ UNCHANGED <<txn, db, next, dropped, dead>>

\* The constructor of a scope: SAVEPOINT name, which by default is "sp" every time.
OpenScope(name) ==
  /\ txn = "open" /\ active /\ ~dead
  /\ Len(scopes) < MaxDepth /\ Len(sps) < MaxDepth
  /\ sps' = Append(sps, [name |-> name, mark |-> Len(log)])
  /\ scopes' = Append(scopes, [name |-> name, mark |-> Len(log), at |-> Len(sps) + 1, hidden |-> FALSE])
  /\ UNCHANGED <<txn, active, log, db, next, dropped, dead>>

\* Mutant: release() sends the statement of the destructor.
ReleaseScopeRollsBack ==
  /\ scopes # <<>> /\ ~dead /\ Known(Inner.name)
  /\ log' = SubSeq(log, 1, sps[Latest(Inner.name)].mark)
  /\ sps' = SubSeq(sps, 1, Latest(Inner.name))
  /\ scopes' = Outer
  /\ UNCHANGED <<txn, active, db, next, dropped, dead>>

\* release() of the innermost scope: RELEASE name; its destructor will then do
\* nothing.  Without such a savepoint the statement throws.
ReleaseScope ==
  /\ scopes # <<>> /\ ~dead /\ Known(Inner.name)
  /\ sps' = SubSeq(sps, 1, Latest(Inner.name) - 1)
  /\ scopes' = Outer
  /\ UNCHANGED <<txn, active, log, db, next, dropped, dead>>

\* A destructor throws: it is noexcept, and the program ends there.
Terminate ==
  dead' = TRUE /\ UNCHANGED <<txn, scopes, active, sps, log, db, next, dropped>>

\* The destructor of the innermost scope: ROLLBACK TO name.
CloseScope ==
  /\ scopes # <<>> /\ ~dead
  /\ \/ /\ Known(Inner.name)
        /\ log' = SubSeq(log, 1, sps[Latest(Inner.name)].mark)
        /\ sps' = SubSeq(sps, 1, Latest(Inner.name))
        /\ dropped' = dropped \cup Written
        /\ scopes' = [i \in DOMAIN Outer |->
                        [Outer[i] EXCEPT !.hidden = @ \/ Outer[i].name = Inner.name]]
        /\ UNCHANGED <<txn, active, db, next, dead>>
     \/ ~Known(Inner.name) /\ Terminate

\* commit(): COMMIT ends the transaction; the destructor does nothing then.
CommitTransaction ==
  /\ txn = "open" /\ active /\ scopes = <<>> /\ ~dead
  /\ db' = db \o log
  /\ txn' = "none" /\ active' = FALSE /\ log' = <<>> /\ sps' = <<>>
  /\ UNCHANGED <<scopes, next, dropped, dead>>

\* The destructor without a commit(), or after one that threw: ROLLBACK, which throws
\* when no transaction is active.
EndTransaction ==
  /\ txn = "open" /\ scopes = <<>> /\ ~dead
  /\ \/ /\ active
        /\ txn' = "none" /\ active' = FALSE /\ log' = <<>> /\ sps' = <<>>
        /\ UNCHANGED <<scopes, db, next, dropped, dead>>
     \/ ~active /\ Terminate

ScopesNext ==
  \/ BeginTransaction \/ Insert \/ StatementAborts
  \/ \E name \in Names : OpenScope(name)
  \/ ReleaseScope \/ CloseScope \/ CommitTransaction \/ EndTransaction

ScopesSpec == ScopesInit /\ [][ScopesNext]_scopeVars

-----------------------------------------------------------------------------
\* The objects and SQLite together are nested scopes: sqlite3_scoped_savepoint's
\* release() keeps, its destructor drops what was written since its constructor.
Nested == INSTANCE NestedScopes WITH
  Writes <- 1..MaxWrites, stored <- db, writes <- log, gone <- dropped,
  starts <- [i \in DOMAIN scopes |-> scopes[i].mark]

\* What the constructor's default name and the comment above savepoint() ("SAVEPOINT
\* names ... do not have to be unique") lead a user to rely on.  The destructor leaves
\* its savepoint on SQLite's stack, where that of a scope of the same name around it
\* finds it.
ScopesNest == Nested!NestedSpec

\* The destructor of a scope around one of the same name that was left by its destructor:
\* the writes before its constructor stay, and maybe some of its own.
ClosesHidden ==
  /\ scopes # <<>> /\ Inner.hidden /\ db' = db
  /\ Len(scopes') = Len(scopes) - 1 /\ \A i \in DOMAIN scopes' : scopes'[i].mark = scopes[i].mark
  /\ \E n \in Inner.mark..Len(log) : log' = SubSeq(log, 1, n)

\* A destructor throws, which ends the program, only after SQLite has abandoned the
\* transaction: as long as it is active, the savepoint of every scope is there, whichever
\* names were used and whatever the scopes inside did.
ThrowsOnlyAborted == dead => ~active

\* Whatever the names, scopes nest but for the destructors of those around a scope of the
\* same name that was left by its destructor, and even these never undo what is not
\* their own; and destructors do what they should without throwing.
ApartScopesNest ==
  /\ Nested!NestedInit /\ [][ClosesHidden \/ Nested!NestedNext]_(Nested!nestedVars)
  /\ []ThrowsOnlyAborted
=============================================================================
