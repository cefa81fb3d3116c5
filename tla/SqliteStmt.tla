------------------------------ MODULE SqliteStmt ------------------------------
(***************************************************************************)
(* sqlite3_pstmt (include/jkl/sqlite3/stmt.hpp), a prepared statement that *)
(* is used again and again: exec(args...) for the first row, or a loop     *)
(* { scoped_resetter; args(...); while(next()) ... }, as the comment above *)
(* the class suggests.  Any step may throw: an argument that SQLite cannot *)
(* hold, an execution that fails, a column that cannot be converted.       *)
(*                                                                         *)
(* SQLite (external) binds arguments to a statement that was reset only,   *)
(* and keeps them over a reset; text is not copied (SQLITE_STATIC), so its *)
(* memory must live until the use ends, which the caller sees to.          *)
(***************************************************************************)
EXTENDS Integers, Sequences, SequencesExt

CONSTANTS
  Found,    \* SQLite: the rows, each a sequence of columns, it finds for the arguments
  Args,     \* the arguments of one parameter, [as, v]: as a number, text, optional, ...
  TooBig,   \* the numbers that fit no int64_t
  Reads,    \* what is read of a row, [ith, types]: a column, or a tuple of all
  MaxUses   \* bound on the uses of the statement

ASSUME StmtAssumption ==
  /\ MaxUses \in Nat
  /\ \A args \in DOMAIN Found : Found[args] \in Seq(ToSet(Found[args]))
  /\ \A read \in Reads : DOMAIN read.types \subseteq Nat \ {0}

VARIABLES
  run,     \* SQLite: the statement is ready, at a row or halted
  bound,   \* SQLite: the arguments bound
  owner,   \* the uses whose memory they are in, 0 if they are copies
  cursor,  \* SQLite: the rows passed
  loop,    \* a scoped_resetter exists
  given,   \* the arguments given to this use
  seen,    \* what it has read
  ended,   \* how: going, done, or what was thrown
  uses

stmtVars == <<run, bound, owner, cursor, loop, given, seen, ended, uses>>

\* SQLite's values: numbers (a float is one and a half of them), text, null.
Num(n)   == [t |-> "int", n |-> n]
Float(n) == [t |-> "float", n |-> n]
Str(k)  == [t |-> "text", n |-> k]   \* 0: empty
NullVal     == [t |-> "null", n |-> 0]

StmtInit ==
  /\ run = "ready" /\ bound = <<NullVal, NullVal>> /\ owner = <<0, 0>> /\ cursor = 0
  /\ loop = FALSE /\ given = <<NullVal, NullVal>> /\ seen = <<>> /\ ended = "none" /\ uses = 0

-----------------------------------------------------------------------------
\* SQLite.
Rows(args) == IF args \in DOMAIN Found THEN Found[args] ELSE <<>>

\* What an argument is to SQLite.  An empty optional binds null, another what it holds;
\* a pointer is null to all but the functions made for it.
Binding(a) ==
  CASE a.as \in {"null", "pointer"} -> NullVal
    [] a.as = "optional" /\ a.v = NullVal -> NullVal
    [] OTHER -> a.v

\* What args(a...) leaves bound, binding one after the other until one fails.
ArgFails(s, a) == s # "ready" \/ Binding(a) \in TooBig
BoundUpTo(s, a) ==
  {i \in DOMAIN a : \A k \in 1..i : ~ArgFails(s, a[k])}
Bind(b, s, a) == [i \in DOMAIN a |-> IF i \in BoundUpTo(s, a) THEN Binding(a[i]) ELSE b[i]]
Owners(o, s, a, use) ==
  [i \in DOMAIN a |-> IF i \notin BoundUpTo(s, a) THEN o[i]
                      ELSE IF Binding(a[i]).t = "text" THEN use ELSE 0]
ArgsThrown(s, a) == CASE s # "ready" -> "misuse"
                      [] s = "ready" /\ BoundUpTo(s, a) # DOMAIN a -> "bad_cast"
                      [] OTHER -> "none"

-----------------------------------------------------------------------------
\* num<T>(): numbers are cast with a check, a float loses its fraction to an integer
\* type, and text is not taken for a number.
NarrowLimit == 2   \* the least value that a narrow type cannot hold
Got(v)    == [thrown |-> "none", val |-> v]
Throws(e) == [thrown |-> e, val |-> NullVal]

NumCol(type, c) ==
  CASE c.t \notin {"int", "float"} -> Throws("not_numeric")
    [] type = "narrow" /\ c.n >= NarrowLimit -> Throws("bad_cast")
    [] type = "real" -> Got(c)
    [] OTHER -> Got(Num(c.n))

\* utf8(), utf16(), blob(): SQLite makes text of numbers, and null is empty.
TextCol(c) == CASE c.t = "text" -> Got(c)
                [] c.t = "null" -> Got(Str(0))
                [] OTHER -> Got([c EXCEPT !.t = IF c.t = "int" THEN "digits" ELSE "decimal"])

\* sqlite3_get_col(): null is for an optional to take.
Col(type, c) ==
  CASE type.optional /\ c.t = "null" -> Got(NullVal)
    [] type.of = "text" -> TextCol(c)
    [] OTHER -> NumCol(type.of, c)

\* col<T>(ith), or cols(c...) one after the other: a tuple has all columns.
ReadCols(read, cols) ==
  LET each == [i \in DOMAIN read.types |-> Col(read.types[i], cols[read.ith + i])]
      bad  == {i \in DOMAIN each : each[i].thrown # "none"}
  IN  IF bad = {} THEN Got([i \in DOMAIN each |-> each[i].val])
      ELSE Throws(each[CHOOSE i \in bad : \A k \in bad : i <= k].thrown)

-----------------------------------------------------------------------------
\* Mutant: without the resetter.
AfterExecKept(s) == s

\* exec<T>(args...) of a statement not in a loop: the resetter goes whatever is thrown.
\* T = void (nothing to read) wants no row.  fails: sqlite3_step() does.
AfterExec(s) == "ready"

Exec(read, a, fails) ==
  LET thrown == ArgsThrown(run, a)
      b      == Bind(bound, run, a)
      rows   == Rows(b)
      res    == IF read.types = <<>> THEN Got(<<>>)
                ELSE IF rows = <<>> THEN Throws("no_row") ELSE ReadCols(read, rows[1])
  IN  /\ ~loop /\ uses < MaxUses /\ uses' = uses + 1
      /\ given' = [i \in DOMAIN a |-> Binding(a[i])]
      /\ bound' = b /\ owner' = Owners(owner, run, a, uses')
      /\ IF thrown # "none" THEN /\ ended' = thrown /\ seen' = <<>> /\ run' = AfterExec(run)
         ELSE IF fails THEN /\ ended' = "failed" /\ seen' = <<>> /\ run' = AfterExec("halted")
         ELSE /\ ended' = IF res.thrown = "none" THEN "done" ELSE res.thrown
              /\ seen' = IF res.thrown = "none" /\ read.types # <<>>
                         THEN <<[read |-> read, got |-> res.val]>> ELSE <<>>
              /\ run' = AfterExec(IF rows = <<>> THEN "halted" ELSE "row")
      /\ cursor' = 0 /\ UNCHANGED loop

\* The loop's scoped_resetter, and args().
BeginLoop(a) ==
  /\ ~loop /\ uses < MaxUses /\ uses' = uses + 1
  /\ loop' = TRUE /\ given' = [i \in DOMAIN a |-> Binding(a[i])] /\ seen' = <<>> /\ cursor' = 0
  /\ bound' = Bind(bound, run, a) /\ owner' = Owners(owner, run, a, uses')
  /\ ended' = IF ArgsThrown(run, a) = "none" THEN "going" ELSE ArgsThrown(run, a)
  /\ UNCHANGED run

\* next() and, if there is a row, its columns.  Called again after it returned false,
\* it executes the statement again; the loop does not.
NextRow(read, fails) ==
  LET rows == Rows(bound)
      res  == ReadCols(read, rows[cursor + 1])
  IN  /\ loop /\ ended = "going" /\ read.types # <<>>
      /\ \/ /\ fails
            /\ run' = "halted" /\ ended' = "failed"
            /\ UNCHANGED <<cursor, seen>>
         \/ /\ ~fails /\ cursor = Len(rows)
            /\ run' = "halted" /\ ended' = "done"
            /\ UNCHANGED <<cursor, seen>>
         \/ /\ ~fails /\ cursor < Len(rows)
            /\ run' = "row" /\ cursor' = cursor + 1
            /\ seen' = IF res.thrown = "none"
                       THEN Append(seen, [read |-> read, got |-> res.val]) ELSE seen
            /\ ended' = IF res.thrown = "none" THEN "going" ELSE res.thrown
      /\ UNCHANGED <<bound, owner, loop, given, uses>>

\* The loop is left, by its end, a break or an exception: ~scoped_resetter_t().
LeaveLoop ==
  /\ loop /\ loop' = FALSE
  /\ run' = "ready" /\ cursor' = 0
  /\ UNCHANGED <<bound, owner, given, seen, ended, uses>>

StmtNext ==
  \/ \E read \in Reads, a \in Args \X Args, fails \in BOOLEAN : Exec(read, a, fails)
  \/ \E a \in Args \X Args : BeginLoop(a)
  \/ \E read \in Reads, fails \in BOOLEAN : NextRow(read, fails)
  \/ LeaveLoop

StmtSpec == StmtInit /\ [][StmtNext]_stmtVars

-----------------------------------------------------------------------------
\* A use finds the statement as if it were new, however the uses before it ended: its
\* arguments are accepted, it does not run on the memory of an earlier one's, what it
\* reads are rows for its own arguments, in order and, when next() has returned false,
\* all of them; and no use leaves a row, and with it the implicit transaction, open.
UsesApart ==
  LET rows == Rows(given)
  IN  /\ ended # "misuse"
      /\ run = "row" => bound = given /\ \A i \in DOMAIN owner : owner[i] \in {0, uses}
      /\ Len(seen) <= Len(rows)
      /\ \A i \in DOMAIN seen : seen[i].got = ReadCols(seen[i].read, rows[i]).val
      /\ loop /\ ended = "done" => Len(seen) = Len(rows)
      /\ ~loop => run = "ready"
=============================================================================
