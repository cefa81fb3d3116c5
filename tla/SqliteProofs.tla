----------------------------- MODULE SqliteProofs -----------------------------
(***************************************************************************)
(* Proofs about sqlite3_scoped_transaction and sqlite3_scoped_savepoint    *)
(* (SqliteScopes), with any number of scopes, names and writes; about the  *)
(* uses of a prepared statement (SqliteStmt), with any number of them and  *)
(* whatever rows SQLite finds; and about the settings of a connection      *)
(* (SqliteConn), with any databases, values and limits.                    *)
(*                                                                         *)
(* The scope objects know their savepoints by name only, and SQLite takes  *)
(* the latest of a name: there may be others of that name above it, those  *)
(* of scopes inside and those that destructors have left on its stack.     *)
(* The invariant says that each scope's savepoint is on the stack, in the  *)
(* order of the scopes, and that a scope below one that was left is known. *)
(***************************************************************************)
EXTENDS SqliteScopes, SqliteStmt, SqliteConn, SequenceTheorems, WellFoundedInduction, TLAPS

\* A savepoint of SQLite's stack, and what is kept of a scope.
Point == [name : Names, mark : Nat]
Scope == [name : Names, mark : Nat, at : Nat, hidden : BOOLEAN]

ScopesTypeOK ==
  /\ txn \in {"none", "open"} /\ active \in BOOLEAN /\ dead \in BOOLEAN
  /\ scopes \in Seq(Scope) /\ sps \in Seq(Point)
  /\ log \in Seq(Nat) /\ next \in Nat \ {0}

\* The savepoint that scope i made is on the stack.
HasSavepoint(i) ==
  /\ scopes[i].at \in 1..Len(sps)
  /\ sps[scopes[i].at] = [name |-> scopes[i].name, mark |-> scopes[i].mark]

\* A savepoint of its name above it is that of a scope inside, or else was left there.
Noted(i) ==
  \A p \in 1..Len(sps) :
    scopes[i].at < p /\ sps[p].name = scopes[i].name =>
      scopes[i].hidden \/ \E j \in 1..Len(scopes) : i < j /\ scopes[j].at = p

\* Savepoints lie on the stack in the order of their scopes, and what hides a scope
\* hides those around it that have its name.
InOrder(i, j) ==
  i < j => /\ scopes[i].at < scopes[j].at
           /\ scopes[i].name = scopes[j].name /\ scopes[j].hidden => scopes[i].hidden

StackInv ==
  /\ \A i \in 1..Len(scopes) : HasSavepoint(i) /\ Noted(i)
  /\ \A i, j \in 1..Len(scopes) : InOrder(i, j)

\* The transaction has grown since each savepoint, and what SQLite rolls back to is there.
MarksUp ==
  \A p, q \in 1..Len(sps) : p <= q => sps[p].mark <= sps[q].mark /\ sps[q].mark <= Len(log)

NoStack ==
  /\ sps = <<>> /\ log = <<>>
  /\ \A i \in 1..Len(scopes) : scopes[i].mark = 0

ScopesInv ==
  /\ ScopesTypeOK
  /\ scopes # <<>> => txn = "open"
  /\ MarksUp
  /\ IF active THEN StackInv ELSE NoStack
  /\ dead => ~active

-----------------------------------------------------------------------------
LEMMA SeqFacts ==
  ASSUME NEW S, NEW s \in Seq(S)
  PROVE  /\ Len(s) \in Nat /\ DOMAIN s = 1..Len(s)
         /\ \A i \in 1..Len(s) : s[i] \in S
         /\ s = <<>> <=> Len(s) = 0
BY LenProperties, ElementOfSeq, EmptySeq

\* What is left when a sequence is cut after its first m elements.
LEMMA CutFacts ==
  ASSUME NEW S, NEW s \in Seq(S), NEW m \in 0..Len(s)
  PROVE  /\ SubSeq(s, 1, m) \in Seq(S) /\ Len(SubSeq(s, 1, m)) = m
         /\ \A i \in 1..m : SubSeq(s, 1, m)[i] = s[i]
<1>1. Len(s) \in Nat /\ \A i \in 1..m : s[i] \in S
  BY SeqFacts
<1>2. /\ SubSeq(s, 1, m) \in Seq(S)
      /\ Len(SubSeq(s, 1, m)) = IF 1 <= m THEN m - 1 + 1 ELSE 0
      /\ \A i \in 1..m - 1 + 1 : SubSeq(s, 1, m)[i] = s[1 + i - 1]
  BY <1>1, SubSeqProperties
<1>3. m - 1 + 1 = m /\ (IF 1 <= m THEN m - 1 + 1 ELSE 0) = m
  BY <1>1
<1>4. \A i \in 1..m : 1 + i - 1 = i
  BY <1>1
<1> QED BY <1>2, <1>3, <1>4

\* The latest savepoint of a name is at least where there is one.
LEMMA LeastOf ==
  ASSUME NEW S, S \subseteq Nat, S # {}
  PROVE  \E i \in S : \A k \in S : i <= k
<1> DEFINE Less == {ss \in Nat \X Nat : ss[1] < ss[2]}
<1>1. IsWellFoundedOn(Less, Nat)
  BY NatLessThanWellFounded DEF OpToRel
<1>2. PICK i \in S : \A k \in S : ~(<<k, i>> \in Less)
  <2> HIDE DEF Less
  <2> QED BY <1>1, WFMin
<1>3. \A k \in S : ~(k < i)
  BY <1>2
<1> QED BY <1>3

LEMMA LatestFacts ==
  ASSUME ScopesTypeOK, NEW name, NEW p \in 1..Len(sps), sps[p].name = name
  PROVE  /\ Known(name) /\ Latest(name) \in 1..Len(sps) /\ p <= Latest(name)
         /\ sps[Latest(name)].name = name
<1> DEFINE n == Len(sps)
           back == {n - q : q \in {r \in 1..n : sps[r].name = name}}
<1>1. n \in Nat /\ DOMAIN sps = 1..n
  BY SeqFacts DEF ScopesTypeOK
<1>2. back \subseteq Nat /\ n - p \in back
  BY <1>1
<1>3. PICK b \in back : \A c \in back : b <= c
  <2> HIDE DEF back
  <2> QED BY <1>2, LeastOf
<1>4. PICK q \in 1..n : sps[q].name = name /\ b = n - q
  BY <1>3
<1>5. \A r \in (q + 1)..n : sps[r].name # name
  <2> SUFFICES ASSUME NEW r \in (q + 1)..n, sps[r].name = name PROVE FALSE
    OBVIOUS
  <2>1. r \in 1..n /\ n - r \in back
    BY <1>1
  <2>2. n - q <= n - r
    BY <1>3, <1>4, <2>1
  <2> QED BY <1>1, <2>2
<1>6. IsLatest(q, name) /\ q \in DOMAIN sps
  BY <1>1, <1>4, <1>5 DEF IsLatest
<1>7. Latest(name) \in 1..n /\ IsLatest(Latest(name), name)
  BY <1>1, <1>6 DEF Latest
<1> DEFINE l == Latest(name)
<1> HIDE DEF l, n
<1>8. p <= l
  <2> SUFFICES ASSUME l < p PROVE FALSE
    BY <1>1, <1>7 DEF l, n
  <2>1. p \in (l + 1)..Len(sps)
    BY <1>1, <1>7 DEF l, n
  <2> QED BY <1>7, <2>1 DEF IsLatest, l
<1> QED BY <1>1, <1>7, <1>8 DEF Known, IsLatest, l, n

-----------------------------------------------------------------------------
\* The innermost scope and the ones around it.
LEMMA InnerFacts ==
  ASSUME ScopesTypeOK, scopes # <<>>
  PROVE  /\ Len(scopes) \in Nat \ {0} /\ Inner = scopes[Len(scopes)]
         /\ Len(scopes) \in 1..Len(scopes) /\ Inner \in Scope
         /\ Outer \in Seq(Scope) /\ Len(Outer) = Len(scopes) - 1
         /\ \A i \in 1..Len(scopes) - 1 : Outer[i] = scopes[i] /\ scopes[i] \in Scope /\ i \in 1..Len(scopes)
<1>1. /\ scopes \in Seq(Scope) /\ Len(scopes) \in Nat \ {0}
      /\ \A i \in 1..Len(scopes) : scopes[i] \in Scope
  BY SeqFacts DEF ScopesTypeOK
<1>2. Len(scopes) - 1 \in 0..Len(scopes) /\ Len(scopes) \in 1..Len(scopes)
  BY <1>1
<1>3. \A i \in 1..Len(scopes) - 1 : i \in 1..Len(scopes)
  BY <1>1
<1> QED BY <1>1, <1>2, <1>3, CutFacts DEF Inner, Outer

\* The savepoint that SQLite takes for the innermost scope is its own or lies above it,
\* which the scope then has noted.
LEMMA InnerSavepoint ==
  ASSUME ScopesInv, active, scopes # <<>>
  PROVE  /\ Known(Inner.name) /\ Latest(Inner.name) \in 1..Len(sps)
         /\ Inner.at \in 1..Len(sps) /\ Inner.at <= Latest(Inner.name)
         /\ sps[Inner.at].name = Inner.name /\ sps[Inner.at].mark = Inner.mark
         /\ Inner.mark <= sps[Latest(Inner.name)].mark
         /\ Inner.at # Latest(Inner.name) => Inner.hidden
<1> DEFINE n == Len(scopes)
           l == Latest(Inner.name)
<1>1. n \in Nat \ {0} /\ Inner = scopes[n] /\ n \in 1..n
  BY InnerFacts DEF ScopesInv
<1>2. HasSavepoint(n) /\ Noted(n)
  BY <1>1 DEF ScopesInv, StackInv
<1>3. /\ Inner.at \in 1..Len(sps) /\ sps[Inner.at].name = Inner.name
      /\ sps[Inner.at].mark = Inner.mark
  BY <1>1, <1>2 DEF HasSavepoint
<1>4. Known(Inner.name) /\ l \in 1..Len(sps) /\ Inner.at <= l /\ sps[l].name = Inner.name
  BY <1>3, LatestFacts DEF ScopesInv
<1>5. Len(sps) \in Nat
  BY SeqFacts DEF ScopesInv, ScopesTypeOK
<1> HIDE DEF l
<1>6. Inner.mark <= sps[l].mark
  BY <1>3, <1>4 DEF ScopesInv, MarksUp
<1>7. ASSUME Inner.at # l PROVE Inner.hidden
  <2>1. Inner.at < l
    BY <1>3, <1>4, <1>5, <1>7
  <2>2. ~ \E j \in 1..n : n < j
    BY <1>1
  <2> QED BY <1>1, <1>2, <1>4, <2>1, <2>2 DEF Noted
<1> QED BY <1>3, <1>4, <1>6, <1>7 DEF l

\* The innermost scope ends, and SQLite's stack is cut at its savepoint or above it; its
\* destructor (drops) leaves a savepoint of its name to the scopes around it.
LEMMA CutKeeps ==
  ASSUME ScopesInv, active, scopes # <<>>,
         NEW m \in 0..Len(sps), Inner.at - 1 <= m, sps' = SubSeq(sps, 1, m),
         NEW drops \in BOOLEAN, m < Inner.at \/ drops \/ Inner.hidden,
         scopes' \in Seq(Scope), Len(scopes') = Len(scopes) - 1,
         \A i \in 1..Len(scopes) - 1 :
           /\ scopes'[i].name = scopes[i].name /\ scopes'[i].mark = scopes[i].mark
           /\ scopes'[i].at = scopes[i].at
           /\ scopes'[i].hidden <=> scopes[i].hidden \/ (drops /\ scopes[i].name = Inner.name)
  PROVE  sps' \in Seq(Point) /\ StackInv'
<1> DEFINE n == Len(scopes)
<1>1. /\ n \in Nat \ {0} /\ n \in 1..n /\ Inner = scopes[n] /\ Inner \in Scope
      /\ \A i \in 1..n - 1 : i \in 1..n /\ i < n /\ scopes[i] \in Scope
  BY InnerFacts DEF ScopesInv
<1>2. sps \in Seq(Point) /\ Len(sps) \in Nat
  BY SeqFacts DEF ScopesInv, ScopesTypeOK
<1>3. sps' \in Seq(Point) /\ Len(sps') = m /\ \A p \in 1..m : sps'[p] = sps[p] /\ p \in 1..Len(sps)
  BY <1>2, CutFacts
<1>4. /\ \A i \in 1..n : HasSavepoint(i) /\ Noted(i)
      /\ \A i, j \in 1..n : InOrder(i, j)
  BY DEF ScopesInv, StackInv
<1> HIDE DEF n
<1>5. Len(scopes') = n - 1
  BY DEF n
<1>6. ASSUME NEW i \in 1..n - 1 PROVE HasSavepoint(i)'
  <2>1. HasSavepoint(i) /\ InOrder(i, n)
    BY <1>1, <1>4
  <2>2. scopes[i].at < Inner.at /\ scopes[i].at \in 1..Len(sps)
    BY <1>1, <2>1 DEF InOrder, HasSavepoint
  <2>3. scopes[i].at \in 1..m
    BY <1>1, <1>2, <2>2 DEF Scope
  <2> QED BY <1>3, <2>1, <2>3 DEF HasSavepoint, n
<1>7. ASSUME NEW i \in 1..n - 1 PROVE Noted(i)'
  <2> SUFFICES ASSUME NEW p \in 1..m, scopes[i].at < p, sps[p].name = scopes[i].name
               PROVE  scopes'[i].hidden \/ \E j \in 1..n - 1 : i < j /\ scopes'[j].at = p
    BY <1>3, <1>5 DEF Noted, n
  <2>1. scopes[i].hidden \/ \E j \in 1..n : i < j /\ scopes[j].at = p
    BY <1>1, <1>3, <1>4 DEF Noted, n
  <2>2. CASE scopes[i].hidden
    BY <2>2 DEF n
  <2>3. ASSUME NEW j \in 1..n - 1, i < j, scopes[j].at = p
        PROVE  \E k \in 1..n - 1 : i < k /\ scopes'[k].at = p
    BY <2>3 DEF n
  <2>4. CASE scopes[n].at = p
    <3>1. HasSavepoint(n) /\ InOrder(i, n)
      BY <1>1, <1>4
    <3>2. Inner.name = scopes[i].name
      BY <1>1, <2>4, <3>1 DEF HasSavepoint
    <3>3. ~(m < Inner.at)
      BY <1>1, <2>4
    <3>4. CASE drops
      BY <3>2, <3>4 DEF n
    <3>5. CASE Inner.hidden
      <4>1. scopes[i].hidden
        BY <1>1, <3>1, <3>2, <3>5 DEF InOrder
      <4> QED BY <4>1 DEF n
    <3> QED BY <3>3, <3>4, <3>5
  <2>5. \A j \in 1..n : j \in 1..n - 1 \/ j = n
    BY <1>1
  <2> QED BY <2>1, <2>2, <2>3, <2>4, <2>5
<1>8. ASSUME NEW i \in 1..n - 1, NEW j \in 1..n - 1 PROVE InOrder(i, j)'
  <2>1. InOrder(i, j)
    BY <1>1, <1>4
  <2> QED BY <2>1 DEF InOrder, n
<1> QED BY <1>3, <1>5, <1>6, <1>7, <1>8 DEF StackInv

\* A new scope's savepoint lies above all others; those of its name below have it inside.
LEMMA OpenKeeps ==
  ASSUME ScopesInv, NEW name \in Names, OpenScope(name)
  PROVE  ScopesInv'
<1> DEFINE n == Len(scopes)
           k == Len(sps)
           point == [name |-> name, mark |-> Len(log)]
           scope == [name |-> name, mark |-> Len(log), at |-> k + 1, hidden |-> FALSE]
<1>1. /\ n \in Nat /\ k \in Nat /\ Len(log) \in Nat
      /\ scopes \in Seq(Scope) /\ sps \in Seq(Point)
  BY SeqFacts DEF ScopesInv, ScopesTypeOK
<1>2. point \in Point /\ scope \in Scope
  BY <1>1 DEF Point, Scope
<1>3. /\ active /\ active' = active /\ txn = "open" /\ txn' = txn /\ log' = log
      /\ next' = next /\ dead' = dead /\ ~dead
      /\ sps' = Append(sps, point) /\ scopes' = Append(scopes, scope)
  BY DEF OpenScope
<1>4. /\ point.name = name /\ point.mark = Len(log) /\ scope.name = name /\ scope.mark = Len(log)
      /\ scope.at = k + 1 /\ scope.hidden = FALSE
      /\ point = [name |-> scope.name, mark |-> scope.mark]
  OBVIOUS
<1> HIDE DEF point, scope
<1>5. /\ sps' \in Seq(Point) /\ Len(sps') = k + 1 /\ sps'[k + 1] = point
      /\ \A p \in 1..k : sps'[p] = sps[p]
  BY <1>1, <1>2, <1>3, AppendProperties
<1>6. /\ scopes' \in Seq(Scope) /\ Len(scopes') = n + 1 /\ scopes'[n + 1] = scope
      /\ \A i \in 1..n : scopes'[i] = scopes[i]
  BY <1>1, <1>2, <1>3, AppendProperties
<1>7. /\ \A i \in 1..n : HasSavepoint(i) /\ Noted(i)
      /\ \A i, j \in 1..n : InOrder(i, j)
  BY <1>3 DEF ScopesInv, StackInv
<1> HIDE DEF n, k
<1>8. /\ \A i \in 1..n + 1 : i \in 1..n \/ i = n + 1
      /\ \A i \in 1..n : i < n + 1 /\ i \in 1..n + 1 /\ ~(n + 1 < i)
      /\ \A p \in 1..k + 1 : p \in 1..k \/ p = k + 1
      /\ \A p \in 1..k : p < k + 1 /\ p \in 1..k + 1
      /\ n + 1 \in 1..n + 1 /\ k + 1 \in 1..k + 1 /\ ~(n + 1 < n + 1)
  BY <1>1
<1>9. ASSUME NEW i \in 1..n + 1 PROVE HasSavepoint(i)'
  <2>1. CASE i \in 1..n
    <3>1. scopes[i].at \in 1..k /\ HasSavepoint(i)
      BY <1>7, <2>1 DEF HasSavepoint, k
    <3> QED BY <1>5, <1>6, <1>8, <2>1, <3>1 DEF HasSavepoint
  <2>2. CASE i = n + 1
    BY <1>4, <1>5, <1>6, <1>8, <2>2 DEF HasSavepoint
  <2> QED BY <1>8, <2>1, <2>2
<1>10. ASSUME NEW i \in 1..n + 1 PROVE Noted(i)'
  <2> SUFFICES ASSUME NEW p \in 1..k + 1, scopes'[i].at < p, sps'[p].name = scopes'[i].name
               PROVE  scopes'[i].hidden \/ \E j \in 1..n + 1 : i < j /\ scopes'[j].at = p
    BY <1>5, <1>6 DEF Noted
  <2>1. CASE i = n + 1
    <3>1. k + 1 < p
      BY <1>4, <1>6, <2>1
    <3> QED BY <1>1, <3>1
  <2>2. CASE i \in 1..n /\ p = k + 1
    BY <1>4, <1>6, <1>8, <2>2
  <2>3. CASE i \in 1..n /\ p \in 1..k
    <3>1. scopes[i].hidden \/ \E j \in 1..n : i < j /\ scopes[j].at = p
      BY <1>5, <1>6, <1>7, <2>3 DEF Noted, n, k
    <3> QED BY <1>6, <1>8, <2>3, <3>1
  <2> QED BY <1>8, <2>1, <2>2, <2>3
<1>11. ASSUME NEW i \in 1..n + 1, NEW j \in 1..n + 1 PROVE InOrder(i, j)'
  <2> SUFFICES ASSUME i < j
               PROVE  /\ scopes'[i].at < scopes'[j].at
                      /\ scopes'[i].name = scopes'[j].name /\ scopes'[j].hidden => scopes'[i].hidden
    BY DEF InOrder
  <2>1. i \in 1..n
    BY <1>1
  <2>2. CASE j \in 1..n
    BY <1>6, <1>7, <2>1, <2>2 DEF InOrder
  <2>3. CASE j = n + 1
    <3>1. scopes[i].at \in 1..k
      BY <1>7, <2>1 DEF HasSavepoint, k
    <3> QED BY <1>4, <1>6, <1>8, <2>1, <2>3, <3>1
  <2> QED BY <1>8, <2>2, <2>3
<1>12. ScopesTypeOK'
  BY <1>3, <1>5, <1>6 DEF ScopesInv, ScopesTypeOK
<1>13. MarksUp'
  <2>1. point.mark = Len(log) /\ log' = log /\ Len(log) \in Nat
    BY <1>1, <1>3, <1>4
  <2>2. \A p, q \in 1..k : p <= q => sps[p].mark <= sps[q].mark /\ sps[q].mark <= Len(log)
    BY DEF ScopesInv, MarksUp, k
  <2>3. \A p \in 1..k : p <= p /\ ~(k + 1 <= p)
    BY <1>1
  <2>4. \A p \in 1..k : sps[p].mark <= Len(log)
    BY <2>2, <2>3
  <2> QED BY <1>5, <1>8, <2>1, <2>2, <2>3, <2>4 DEF MarksUp
<1>14. StackInv'
  BY <1>6, <1>9, <1>10, <1>11 DEF StackInv
<1> QED BY <1>3, <1>12, <1>13, <1>14 DEF ScopesInv

LEMMA MarkFacts ==
  ASSUME ScopesInv, NEW p \in 1..Len(sps)
  PROVE  /\ Len(sps) \in Nat /\ Len(log) \in Nat
         /\ sps[p].mark \in 0..Len(log)
<1>1. Len(sps) \in Nat /\ sps[p] \in Point
  BY SeqFacts DEF ScopesInv, ScopesTypeOK
<1>2. Len(log) \in Nat
  BY SeqFacts DEF ScopesInv, ScopesTypeOK
<1>3. sps[p].mark <= Len(log)
  BY <1>1 DEF ScopesInv, MarksUp
<1> QED BY <1>1, <1>2, <1>3 DEF Point

LEMMA CutMarks ==
  ASSUME ScopesInv, NEW m \in 0..Len(sps), sps' = SubSeq(sps, 1, m), log' = log
  PROVE  MarksUp'
<1>1. sps \in Seq(Point) /\ Len(sps) \in Nat
  BY SeqFacts DEF ScopesInv, ScopesTypeOK
<1>2. Len(sps') = m /\ \A p \in 1..m : sps'[p] = sps[p] /\ p \in 1..Len(sps)
  BY <1>1, CutFacts
<1> QED BY <1>2 DEF ScopesInv, MarksUp

\* ROLLBACK TO leaves the transaction as it was at the savepoint.
LEMMA RollBackMarks ==
  ASSUME ScopesInv, NEW m \in 1..Len(sps), sps' = SubSeq(sps, 1, m),
         log' = SubSeq(log, 1, sps[m].mark)
  PROVE  MarksUp'
<1>1. sps \in Seq(Point) /\ Len(sps) \in Nat /\ log \in Seq(Nat) /\ m \in 0..Len(sps)
  BY SeqFacts DEF ScopesInv, ScopesTypeOK
<1>2. Len(sps') = m /\ \A p \in 1..m : sps'[p] = sps[p] /\ p \in 1..Len(sps) /\ p <= m
  BY <1>1, CutFacts
<1>3. Len(log') = sps[m].mark
  BY <1>1, MarkFacts, CutFacts
<1> QED BY <1>2, <1>3 DEF ScopesInv, MarksUp

-----------------------------------------------------------------------------------------------------------------------------------------------------
LEMMA EmptyIsSeq == ASSUME NEW S PROVE <<>> \in Seq(S)
OBVIOUS

LEMMA ScopesStart == ScopesInit => ScopesInv
<1> SUFFICES ASSUME ScopesInit PROVE ScopesInv
  OBVIOUS
<1>1. 1..Len(scopes) = {}
  BY DEF ScopesInit
<1>2. scopes \in Seq(Scope) /\ sps \in Seq(Point) /\ log \in Seq(Nat)
  BY EmptyIsSeq DEF ScopesInit
<1>3. next \in Nat \ {0}
  BY DEF ScopesInit
<1>4. ScopesTypeOK
  BY <1>2, <1>3 DEF ScopesInit, ScopesTypeOK
<1>5. MarksUp /\ NoStack
  BY <1>1 DEF ScopesInit, MarksUp, NoStack
<1> QED BY <1>4, <1>5 DEF ScopesInit, ScopesInv

LEMMA ReleaseKeeps ==
  ASSUME ScopesInv, ReleaseScope
  PROVE  ScopesInv'
<1> DEFINE l == Latest(Inner.name)
<1>1. /\ scopes # <<>> /\ Known(Inner.name) /\ sps' = SubSeq(sps, 1, l - 1) /\ scopes' = Outer
      /\ UNCHANGED <<txn, active, log, next, dead>>
  BY DEF ReleaseScope
<1>2. active
  <2>1. ~active => DOMAIN sps = {}
    BY DEF ScopesInv, NoStack
  <2> QED BY <1>1, <2>1 DEF Known, ScopesInv, ScopesTypeOK
<1>3. /\ l \in 1..Len(sps) /\ Inner.at \in 1..Len(sps) /\ Inner.at <= l
      /\ Inner.at # l => Inner.hidden
  BY <1>1, <1>2, InnerSavepoint
<1> HIDE DEF l
<1>4. Len(sps) \in Nat
  BY SeqFacts DEF ScopesInv, ScopesTypeOK
<1>5. l - 1 \in 0..Len(sps) /\ Inner.at - 1 <= l - 1 /\ (l - 1 < Inner.at \/ Inner.hidden)
  BY <1>3, <1>4
<1>6. /\ scopes' \in Seq(Scope) /\ Len(scopes') = Len(scopes) - 1
      /\ \A i \in 1..Len(scopes) - 1 : scopes'[i] = scopes[i]
  BY <1>1, InnerFacts DEF ScopesInv
<1>7. sps' \in Seq(Point) /\ StackInv'
  BY <1>1, <1>2, <1>5, <1>6, CutKeeps
<1>8. MarksUp'
  BY <1>1, <1>5, CutMarks
<1> QED BY <1>1, <1>2, <1>6, <1>7, <1>8 DEF ScopesInv, ScopesTypeOK

LEMMA TerminateKeeps ==
  ASSUME ScopesInv, Terminate, ~active
  PROVE  ScopesInv'
<1>1. dead' = TRUE /\ UNCHANGED <<txn, scopes, active, sps, log, next>>
  BY DEF Terminate
<1>2. NoStack' /\ MarksUp' /\ ScopesTypeOK'
  BY <1>1 DEF ScopesInv, NoStack, MarksUp, ScopesTypeOK
<1> QED BY <1>1, <1>2 DEF ScopesInv

\* What a destructor leaves of the scopes around its own.
LEMMA LeftFacts ==
  ASSUME ScopesTypeOK, scopes # <<>>,
         scopes' = [i \in DOMAIN Outer |-> [Outer[i] EXCEPT !.hidden = @ \/ Outer[i].name = Inner.name]]
  PROVE  /\ scopes' \in Seq(Scope) /\ Len(scopes') = Len(scopes) - 1 /\ DOMAIN scopes' = 1..Len(scopes) - 1
         /\ \A i \in 1..Len(scopes) - 1 :
              /\ scopes'[i].name = scopes[i].name /\ scopes'[i].mark = scopes[i].mark
              /\ scopes'[i].at = scopes[i].at
              /\ scopes'[i].hidden <=> scopes[i].hidden \/ scopes[i].name = Inner.name
<1> DEFINE n == Len(scopes) - 1
           left(i) == [scopes[i] EXCEPT !.hidden = scopes[i].hidden \/ scopes[i].name = Inner.name]
<1>1. /\ Outer \in Seq(Scope) /\ Len(Outer) = n /\ n \in Nat
      /\ \A i \in 1..n : Outer[i] = scopes[i] /\ scopes[i] \in Scope
  BY InnerFacts
<1>2. DOMAIN Outer = 1..n
  BY <1>1, SeqFacts
<1> HIDE DEF n
<1>3. ASSUME NEW i \in 1..n
      PROVE  /\ left(i) \in Scope /\ left(i).name = scopes[i].name /\ left(i).mark = scopes[i].mark
             /\ left(i).at = scopes[i].at
             /\ left(i).hidden <=> scopes[i].hidden \/ scopes[i].name = Inner.name
  <2>1. scopes[i] \in [name : Names, mark : Nat, at : Nat, hidden : BOOLEAN]
    BY <1>1 DEF Scope
  <2> QED BY <2>1 DEF Scope
<1>4. scopes' = [i \in 1..n |-> left(i)]
  BY <1>1, <1>2
<1> HIDE DEF left
<1>5. /\ scopes' \in [1..n -> Scope] /\ DOMAIN scopes' = 1..n
      /\ \A i \in 1..n : scopes'[i] = left(i)
  BY <1>3, <1>4
<1>6. scopes' \in Seq(Scope) /\ Len(scopes') = n
  BY <1>1, <1>5
<1> QED BY <1>3, <1>5, <1>6 DEF n

LEMMA CloseKeeps ==
  ASSUME ScopesInv, CloseScope
  PROVE  ScopesInv'
<1> DEFINE l == Latest(Inner.name)
<1>1. CASE active
  <2>1. /\ Known(Inner.name) /\ l \in 1..Len(sps) /\ Inner.at \in 1..Len(sps) /\ Inner.at <= l
    BY <1>1, InnerSavepoint DEF CloseScope
  <2>2. /\ sps' = SubSeq(sps, 1, l) /\ log' = SubSeq(log, 1, sps[l].mark)
        /\ scopes' = [i \in DOMAIN Outer |-> [Outer[i] EXCEPT !.hidden = @ \/ Outer[i].name = Inner.name]]
        /\ scopes # <<>> /\ UNCHANGED <<txn, active, next, dead>>
    BY <2>1 DEF CloseScope
  <2> HIDE DEF l
  <2>3. l \in 0..Len(sps) /\ Inner.at - 1 <= l
    <3>1. Len(sps) \in Nat
      BY SeqFacts DEF ScopesInv, ScopesTypeOK
    <3> QED BY <2>1, <3>1
  <2>4. /\ scopes' \in Seq(Scope) /\ Len(scopes') = Len(scopes) - 1
        /\ \A i \in 1..Len(scopes) - 1 :
             /\ scopes'[i].name = scopes[i].name /\ scopes'[i].mark = scopes[i].mark
             /\ scopes'[i].at = scopes[i].at
             /\ scopes'[i].hidden <=> scopes[i].hidden \/ (TRUE /\ scopes[i].name = Inner.name)
    BY <2>2, LeftFacts DEF ScopesInv
  <2>5. TRUE \in BOOLEAN /\ (l < Inner.at \/ TRUE \/ Inner.hidden)
    OBVIOUS
  <2>6. sps' \in Seq(Point) /\ StackInv'
    BY <1>1, <2>2, <2>3, <2>4, <2>5, CutKeeps
  <2>7. log' \in Seq(Nat)
    BY <2>1, <2>2, MarkFacts, CutFacts DEF ScopesInv, ScopesTypeOK
  <2>8. MarksUp'
    BY <2>1, <2>2, RollBackMarks
  <2> QED BY <1>1, <2>2, <2>4, <2>6, <2>7, <2>8 DEF ScopesInv, ScopesTypeOK
<1>2. CASE ~active
  <2>1. DOMAIN sps = {}
    BY <1>2 DEF ScopesInv, NoStack
  <2>2. Terminate
    BY <2>1 DEF CloseScope, Known
  <2> QED BY <1>2, <2>2, TerminateKeeps
<1> QED BY <1>1, <1>2

\* The scopes, when the transaction under them is gone.
LEMMA AbortedFacts ==
  ASSUME ScopesTypeOK, StatementAborts
  PROVE  /\ scopes' \in Seq(Scope) /\ Len(scopes') = Len(scopes)
         /\ DOMAIN scopes' = DOMAIN scopes /\ DOMAIN scopes = 1..Len(scopes)
         /\ \A i \in 1..Len(scopes) : scopes'[i].mark = 0
<1>1. /\ scopes \in Seq(Scope) /\ Len(scopes) \in Nat /\ DOMAIN scopes = 1..Len(scopes)
      /\ \A i \in 1..Len(scopes) : scopes[i] \in [name : Names, mark : Nat, at : Nat, hidden : BOOLEAN]
  BY SeqFacts DEF ScopesTypeOK, Scope
<1>2. scopes' = [i \in 1..Len(scopes) |-> [scopes[i] EXCEPT !.mark = 0]]
  BY <1>1 DEF StatementAborts
<1>3. \A i \in 1..Len(scopes) : /\ [scopes[i] EXCEPT !.mark = 0] \in Scope
                                /\ [scopes[i] EXCEPT !.mark = 0].mark = 0
  BY <1>1 DEF Scope
<1>4. scopes' \in [1..Len(scopes) -> Scope]
  BY <1>2, <1>3
<1> QED BY <1>1, <1>2, <1>3, <1>4

LEMMA AbortKeeps ==
  ASSUME ScopesInv, StatementAborts
  PROVE  ScopesInv'
<1>1. /\ active' = FALSE /\ log' = <<>> /\ sps' = <<>> /\ txn = "open"
      /\ UNCHANGED <<txn, next, dead>>
  BY DEF StatementAborts
<1>2. /\ scopes' \in Seq(Scope) /\ Len(scopes') = Len(scopes)
      /\ \A i \in 1..Len(scopes) : scopes'[i].mark = 0
  BY AbortedFacts DEF ScopesInv
<1>3. sps' \in Seq(Point) /\ log' \in Seq(Nat)
  BY <1>1, EmptyIsSeq
<1>4. ScopesTypeOK'
  BY <1>1, <1>2, <1>3 DEF ScopesInv, ScopesTypeOK
<1>5. NoStack' /\ MarksUp'
  BY <1>1, <1>2 DEF NoStack, MarksUp
<1> QED BY <1>1, <1>4, <1>5 DEF ScopesInv

LEMMA ScopesStep == ScopesInv /\ [ScopesNext]_scopeVars => ScopesInv'
<1> SUFFICES ASSUME ScopesInv, [ScopesNext]_scopeVars PROVE ScopesInv'
  OBVIOUS
<1>1. CASE UNCHANGED scopeVars
  <2>1. UNCHANGED <<txn, active, scopes, sps, log, next, dead>>
    BY <1>1 DEF scopeVars
  <2>2. ScopesTypeOK'
    BY <2>1 DEF ScopesInv, ScopesTypeOK
  <2>3. active => StackInv'
    BY <2>1 DEF ScopesInv, StackInv, HasSavepoint, Noted, InOrder
  <2>4. ~active => NoStack'
    BY <2>1 DEF ScopesInv, NoStack
  <2>5. MarksUp'
    BY <2>1 DEF ScopesInv, MarksUp
  <2> QED BY <2>1, <2>2, <2>3, <2>4, <2>5 DEF ScopesInv
<1>2. CASE BeginTransaction
  <2>1. /\ scopes = <<>> /\ active' = TRUE /\ txn' = "open" /\ ~dead
        /\ UNCHANGED <<scopes, sps, log, next, dead>>
    BY <1>2 DEF BeginTransaction, ScopesInv
  <2>2. 1..Len(scopes') = {}
    BY <2>1
  <2>3. StackInv'
    BY <2>2 DEF StackInv
  <2> QED BY <2>1, <2>3 DEF ScopesInv, ScopesTypeOK, MarksUp
<1>3. CASE Insert
  <2>1. /\ log' = Append(log, next) /\ next' = next + 1 /\ active /\ active' = active /\ ~dead
        /\ UNCHANGED <<txn, scopes, sps, dead>>
    BY <1>3 DEF Insert
  <2>2. log' \in Seq(Nat) /\ next' \in Nat \ {0}
    BY <2>1 DEF ScopesInv, ScopesTypeOK
  <2>3. StackInv'
    BY <2>1 DEF ScopesInv, StackInv, HasSavepoint, Noted, InOrder
  <2>4. MarksUp'
    <3>1. /\ log \in Seq(Nat) /\ next \in Nat /\ Len(log) \in Nat
          /\ \A p \in 1..Len(sps) : sps[p].mark \in 0..Len(log)
      BY SeqFacts, MarkFacts DEF ScopesInv, ScopesTypeOK
    <3>2. Len(log') = Len(log) + 1
      BY <2>1, <3>1, AppendProperties
    <3> QED BY <2>1, <3>1, <3>2 DEF ScopesInv, MarksUp
  <2> QED BY <2>1, <2>2, <2>3, <2>4 DEF ScopesInv, ScopesTypeOK
<1>4. CASE StatementAborts
  BY <1>4, AbortKeeps
<1>5. CASE \E name \in Names : OpenScope(name)
  BY <1>5, OpenKeeps
<1>6. CASE ReleaseScope \/ CloseScope
  BY <1>6, ReleaseKeeps, CloseKeeps
<1>7. CASE CommitTransaction \/ (EndTransaction /\ active)
  <2>1. /\ scopes = <<>> /\ scopes' = scopes /\ txn' = "none" /\ active' = FALSE
        /\ log' = <<>> /\ sps' = <<>> /\ next' = next /\ dead' = dead
    BY <1>7 DEF CommitTransaction, EndTransaction
  <2>2. 1..Len(scopes') = {}
    BY <2>1
  <2>3. sps' \in Seq(Point) /\ log' \in Seq(Nat)
    BY <2>1, EmptyIsSeq
  <2>4. MarksUp' /\ NoStack'
    BY <2>1, <2>2 DEF MarksUp, NoStack
  <2> QED BY <2>1, <2>3, <2>4 DEF ScopesInv, ScopesTypeOK
<1>8. CASE EndTransaction /\ ~active
  BY <1>8, TerminateKeeps DEF EndTransaction
<1> QED BY <1>1, <1>2, <1>3, <1>4, <1>5, <1>6, <1>7, <1>8 DEF ScopesNext

LEMMA ScopesAlways == ScopesSpec => []ScopesInv
BY ScopesStart, ScopesStep, PTL DEF ScopesSpec

\* No destructor of a scope throws while SQLite has the transaction: the savepoint it
\* rolls back to is on the stack, with any names, the same ones or others, any depth, and
\* any order of release() and destructors inside (conn.hpp, the two classes).
THEOREM ScopesFindTheirSavepoints == ScopesSpec => []ThrowsOnlyAborted
<1>1. ScopesInv => ThrowsOnlyAborted
  BY DEF ScopesInv, ThrowsOnlyAborted
<1> QED BY <1>1, ScopesAlways, PTL

-----------------------------------------------------------------------------
\* The marks of scopes, innermost last: what the abstract specification keeps.
Marks(t) == [i \in DOMAIN t |-> t[i].mark]

LEMMA MarksFacts ==
  ASSUME NEW t \in Seq(Scope)
  PROVE  /\ Marks(t) \in Seq(Nat) /\ Len(Marks(t)) = Len(t) /\ Len(t) \in Nat
         /\ DOMAIN Marks(t) = 1..Len(t)
         /\ \A i \in 1..Len(t) : Marks(t)[i] = t[i].mark
<1>1. Len(t) \in Nat /\ DOMAIN t = 1..Len(t) /\ \A i \in 1..Len(t) : t[i] \in Scope
  BY SeqFacts
<1>2. \A i \in 1..Len(t) : t[i].mark \in Nat
  BY <1>1 DEF Scope
<1>3. Marks(t) \in [1..Len(t) -> Nat]
  BY <1>1, <1>2 DEF Marks
<1> QED BY <1>1, <1>3 DEF Marks

LEMMA MarksAre ==
  ASSUME NEW t \in Seq(Scope), NEW s \in Seq(Nat), Len(s) = Len(t),
         \A i \in 1..Len(s) : t[i].mark = s[i]
  PROVE  Marks(t) = s
<1>1. /\ Marks(t) \in Seq(Nat) /\ Len(Marks(t)) = Len(s)
      /\ \A i \in 1..Len(s) : Marks(t)[i] = s[i]
  BY MarksFacts
<1> QED BY <1>1, SeqEqual

LEMMA MarksEmpty == Marks(<<>>) = <<>>
<1>1. <<>> \in Seq(Scope) /\ Len(<<>>) = 0
  BY EmptyIsSeq
<1>2. Marks(<<>>) \in Seq(Nat) /\ Len(Marks(<<>>)) = 0
  BY <1>1, MarksFacts
<1> QED BY <1>2, EmptySeq

\* The innermost scope ends.
LEMMA MarksOuter ==
  ASSUME ScopesTypeOK, scopes # <<>>
  PROVE  /\ Marks(scopes) # <<>>
         /\ Marks(scopes)[Len(Marks(scopes))] = Inner.mark
         /\ Marks(Outer) = SubSeq(Marks(scopes), 1, Len(Marks(scopes)) - 1)
<1>1. scopes \in Seq(Scope)
  BY DEF ScopesTypeOK
<1>2. /\ Len(scopes) \in Nat \ {0} /\ Len(scopes) \in 1..Len(scopes)
      /\ Inner = scopes[Len(scopes)]
      /\ Outer \in Seq(Scope) /\ Len(Outer) = Len(scopes) - 1
      /\ \A i \in 1..Len(scopes) - 1 : Outer[i] = scopes[i]
  BY InnerFacts
<1>3. /\ Marks(scopes) \in Seq(Nat) /\ Len(Marks(scopes)) = Len(scopes)
      /\ \A i \in 1..Len(scopes) : Marks(scopes)[i] = scopes[i].mark
  BY <1>1, MarksFacts
<1>4. Len(scopes) - 1 \in 0..Len(scopes) /\ \A i \in 1..Len(scopes) - 1 : i \in 1..Len(scopes)
  BY <1>2
<1> DEFINE cut == SubSeq(Marks(scopes), 1, Len(scopes) - 1)
<1>5. /\ cut \in Seq(Nat) /\ Len(cut) = Len(scopes) - 1
      /\ \A i \in 1..Len(scopes) - 1 : cut[i] = Marks(scopes)[i]
  BY <1>3, <1>4, CutFacts
<1> HIDE DEF cut
<1>6. Len(cut) = Len(Outer) /\ \A i \in 1..Len(cut) : Outer[i].mark = cut[i]
  BY <1>2, <1>3, <1>4, <1>5
<1>7. Marks(Outer) = cut
  BY <1>2, <1>5, <1>6, MarksAre
<1>8. Marks(scopes) # <<>>
  BY <1>2, <1>3, EmptySeq
<1> QED BY <1>2, <1>3, <1>7, <1>8 DEF cut

LEMMA NestedStart == ScopesInit => Nested!NestedInit
BY MarksEmpty DEF ScopesInit, Nested!NestedInit, Marks

LEMMA OpenNests ==
  ASSUME ScopesInv, NEW name \in Names, OpenScope(name)
  PROVE  Nested!Open
<1> DEFINE sp == [name |-> name, mark |-> Len(log), at |-> Len(sps) + 1, hidden |-> FALSE]
<1>1. /\ scopes' = Append(scopes, sp) /\ UNCHANGED <<db, log, dropped>>
      /\ scopes \in Seq(Scope) /\ Len(log) \in Nat /\ Len(sps) \in Nat
  BY SeqFacts DEF OpenScope, ScopesInv, ScopesTypeOK
<1>2. sp \in Scope /\ sp.mark = Len(log)
  BY <1>1 DEF Scope
<1> HIDE DEF sp
<1>3. /\ scopes' \in Seq(Scope) /\ Len(scopes') = Len(scopes) + 1
      /\ scopes'[Len(scopes) + 1] = sp
      /\ \A i \in 1..Len(scopes) : scopes'[i] = scopes[i]
  BY <1>1, <1>2, AppendProperties
<1>4. /\ Marks(scopes) \in Seq(Nat) /\ Len(Marks(scopes)) = Len(scopes) /\ Len(scopes) \in Nat
      /\ \A i \in 1..Len(scopes) : Marks(scopes)[i] = scopes[i].mark
  BY <1>1, MarksFacts
<1> DEFINE new == Append(Marks(scopes), Len(log))
<1>5. /\ new \in Seq(Nat) /\ Len(new) = Len(scopes) + 1
      /\ new[Len(scopes) + 1] = Len(log)
      /\ \A i \in 1..Len(scopes) : new[i] = Marks(scopes)[i]
  BY <1>1, <1>4, AppendProperties
<1>6. \A i \in 1..Len(scopes) + 1 : i \in 1..Len(scopes) \/ i = Len(scopes) + 1
  BY <1>4
<1> HIDE DEF new
<1>7. Len(new) = Len(scopes') /\ \A i \in 1..Len(new) : scopes'[i].mark = new[i]
  BY <1>2, <1>3, <1>4, <1>5, <1>6
<1>8. Marks(scopes') = new
  BY <1>3, <1>5, <1>7, MarksAre
<1> QED BY <1>1, <1>8 DEF Nested!Open, Marks, new

\* release() keeps what the scope wrote.
LEMMA ReleaseNests ==
  ASSUME ScopesInv, ReleaseScope
  PROVE  Nested!Keep
<1>1. scopes # <<>> /\ scopes' = Outer /\ UNCHANGED <<db, log, dropped>>
  BY DEF ReleaseScope
<1>2. /\ Marks(scopes) # <<>>
      /\ Marks(scopes') = SubSeq(Marks(scopes), 1, Len(Marks(scopes)) - 1)
  BY <1>1, MarksOuter DEF ScopesInv
<1> QED BY <1>1, <1>2 DEF Nested!Keep, Nested!Outer, Marks

\* The destructor takes back what was written since the constructor, all of it and
\* nothing else, unless a savepoint of its name was left above that of its own: then less.
LEMMA CloseNests ==
  ASSUME ScopesInv, CloseScope
  PROVE  Nested!Drop \/ ClosesHidden \/ UNCHANGED Nested!nestedVars
<1> DEFINE l == Latest(Inner.name)
<1>1. CASE ~active
  <2>1. DOMAIN sps = {}
    BY <1>1 DEF ScopesInv, NoStack
  <2>2. Terminate
    BY <2>1 DEF CloseScope, Known
  <2> QED BY <2>2 DEF Terminate, Nested!nestedVars
<1>2. CASE active
  <2>1. /\ Known(Inner.name) /\ l \in 1..Len(sps) /\ sps[Inner.at].mark = Inner.mark
        /\ Inner.mark <= sps[l].mark /\ (Inner.at # l => Inner.hidden)
    BY <1>2, InnerSavepoint DEF CloseScope
  <2>2. /\ log' = SubSeq(log, 1, sps[l].mark) /\ db' = db /\ dropped' = dropped \cup Written
        /\ scopes' = [i \in DOMAIN Outer |-> [Outer[i] EXCEPT !.hidden = @ \/ Outer[i].name = Inner.name]]
        /\ scopes # <<>>
    BY <2>1 DEF CloseScope
  <2> HIDE DEF l
  <2>3. /\ scopes' \in Seq(Scope) /\ Len(scopes') = Len(scopes) - 1 /\ DOMAIN scopes' = 1..Len(scopes) - 1
        /\ \A i \in 1..Len(scopes) - 1 : scopes'[i].mark = scopes[i].mark
    BY <2>2, LeftFacts DEF ScopesInv
  <2>4. CASE Inner.at = l
    <3>1. /\ Marks(scopes) # <<>> /\ Marks(scopes)[Len(Marks(scopes))] = Inner.mark
          /\ Marks(Outer) = SubSeq(Marks(scopes), 1, Len(Marks(scopes)) - 1)
      BY <2>2, MarksOuter DEF ScopesInv
    <3>2. /\ Outer \in Seq(Scope) /\ Len(Outer) = Len(scopes) - 1
          /\ \A i \in 1..Len(scopes) - 1 : Outer[i] = scopes[i]
      BY <2>2, InnerFacts DEF ScopesInv
    <3>3. /\ Marks(Outer) \in Seq(Nat) /\ Len(Marks(Outer)) = Len(scopes) - 1
          /\ \A i \in 1..Len(scopes) - 1 : Marks(Outer)[i] = scopes[i].mark
      BY <3>2, MarksFacts
    <3>4. Marks(scopes') = Marks(Outer)
      BY <2>3, <3>3, MarksAre
    <3> QED BY <2>1, <2>2, <2>4, <3>1, <3>4 DEF Nested!Drop, Nested!Outer, Nested!Innermost, Marks, Written
  <2>5. CASE Inner.at # l
    <3>1. sps[l].mark \in Inner.mark..Len(log)
      <4>1. sps[l].mark \in 0..Len(log) /\ Len(log) \in Nat
        BY <2>1, MarkFacts
      <4>2. Inner.mark \in Nat
        BY <2>2, InnerFacts DEF ScopesInv, Scope
      <4> QED BY <2>1, <4>1, <4>2
    <3> QED BY <2>1, <2>2, <2>3, <2>5, <3>1 DEF ClosesHidden
  <2> QED BY <2>4, <2>5
<1> QED BY <1>1, <1>2

LEMMA AbortNests ==
  ASSUME ScopesInv, StatementAborts
  PROVE  Nested!Abandon
<1>1. log' = <<>> /\ UNCHANGED <<db, dropped>>
  BY DEF StatementAborts
<1>2. DOMAIN scopes' = DOMAIN scopes /\ \A i \in DOMAIN scopes : scopes'[i].mark = 0
  BY AbortedFacts DEF ScopesInv
<1>3. Marks(scopes') = [i \in DOMAIN Marks(scopes) |-> 0]
  BY <1>2 DEF Marks
<1> QED BY <1>1, <1>3 DEF Nested!Abandon, Marks

LEMMA EndNests ==
  ASSUME ScopesInv, CommitTransaction \/ EndTransaction
  PROVE  Nested!Commit \/ Nested!Abandon \/ UNCHANGED Nested!nestedVars
<1>1. CASE CommitTransaction
  <2>1. scopes = <<>> /\ scopes' = <<>> /\ log' = <<>> /\ dropped' = dropped
    BY <1>1 DEF CommitTransaction
  <2>2. Marks(scopes) = <<>> /\ Marks(scopes') = <<>>
    BY <2>1, MarksEmpty
  <2> QED BY <1>1, <2>1, <2>2 DEF CommitTransaction, Nested!Commit, Marks
<1>2. CASE EndTransaction /\ active
  <2>1. scopes = <<>> /\ scopes' = <<>> /\ log' = <<>> /\ UNCHANGED <<db, dropped>>
    BY <1>2 DEF EndTransaction
  <2>2. Marks(scopes') = [i \in DOMAIN Marks(scopes) |-> 0]
    BY <2>1 DEF Marks
  <2> QED BY <2>1, <2>2 DEF Nested!Abandon, Marks
<1>3. CASE EndTransaction /\ ~active
  BY <1>3 DEF EndTransaction, Terminate, Nested!nestedVars
<1> QED BY <1>1, <1>2, <1>3

LEMMA ScopesSimulate ==
  ScopesInv /\ [ScopesNext]_scopeVars => [ClosesHidden \/ Nested!NestedNext]_(Nested!nestedVars)
<1> SUFFICES ASSUME ScopesInv, [ScopesNext]_scopeVars
             PROVE  [ClosesHidden \/ Nested!NestedNext]_(Nested!nestedVars)
  OBVIOUS
<1>1. CASE UNCHANGED scopeVars
  BY <1>1 DEF scopeVars, Nested!nestedVars
<1>2. CASE BeginTransaction
  BY <1>2 DEF BeginTransaction, Nested!nestedVars
<1>3. CASE Insert
  <2>1. next \in 1..MaxWrites
    BY <1>3, ScopesAssumption DEF Insert, ScopesInv, ScopesTypeOK
  <2>2. Nested!Write(next)
    BY <1>3 DEF Insert, Nested!Write
  <2> QED BY <2>1, <2>2 DEF Nested!NestedNext
<1>4. CASE StatementAborts
  BY <1>4, AbortNests DEF Nested!NestedNext
<1>5. CASE \E name \in Names : OpenScope(name)
  BY <1>5, OpenNests DEF Nested!NestedNext
<1>6. CASE ReleaseScope
  BY <1>6, ReleaseNests DEF Nested!NestedNext
<1>7. CASE CloseScope
  BY <1>7, CloseNests DEF Nested!NestedNext
<1>8. CASE CommitTransaction \/ EndTransaction
  BY <1>8, EndNests DEF Nested!NestedNext
<1> QED BY <1>1, <1>2, <1>3, <1>4, <1>5, <1>6, <1>7, <1>8 DEF ScopesNext

\* sqlite3_scoped_transaction and sqlite3_scoped_savepoint are nested scopes, whatever
\* the depth, the number of writes and the names, the same one for all of them included:
\* release() keeps, the destructor drops what was written since the constructor, although
\* both tell SQLite no more than a name (conn.hpp, the two classes).  The one exception is
\* the destructor of a scope around one of the same name that was itself left by its
\* destructor; it drops nothing but what was written since its constructor, maybe less.
\* None of the destructors throws while SQLite has the transaction.
THEOREM ScopesAreNested == ScopesSpec => ApartScopesNest
BY ScopesAlways, ScopesFindTheirSavepoints, NestedStart, ScopesSimulate, PTL
DEF ScopesSpec, ApartScopesNest

-----------------------------------------------------------------------------
(***************************************************************************)
(* The uses of a prepared statement.  Outside a use the statement is reset *)
(* (ResetInv), so arguments are accepted; while a use goes on, what is     *)
(* bound are its arguments, and it has read one row for each it has passed *)
(* (GoingInv).                                                             *)
(***************************************************************************)
Entries ==
  {[read |-> read, got |-> ReadCols(read, Rows(args)[k]).val] :
     read \in Reads, args \in DOMAIN Found, k \in Nat}

OwnArgs == bound = given /\ \A i \in DOMAIN owner : owner[i] \in {0, uses}

StmtTypeOK ==
  /\ seen \in Seq(Entries) /\ cursor \in Nat /\ uses \in Nat /\ loop \in BOOLEAN
  /\ run \in {"ready", "row", "halted"}

ResetInv == ~loop => run = "ready"

GoingInv ==
  /\ loop /\ run = "ready" => cursor = 0
  /\ loop /\ ended = "going" => OwnArgs /\ cursor = Len(seen) /\ cursor <= Len(Rows(given))
  /\ run = "row" => OwnArgs

SeenInv ==
  /\ Len(seen) <= Len(Rows(given))
  /\ \A i \in 1..Len(seen) : seen[i].got = ReadCols(seen[i].read, Rows(given)[i]).val
  /\ loop /\ ended = "done" => Len(seen) = Len(Rows(given))

StmtInv == StmtTypeOK /\ ResetInv /\ GoingInv /\ SeenInv /\ ended # "misuse"

LEMMA RowsFacts ==
  ASSUME NEW args
  PROVE  /\ Len(Rows(args)) \in Nat
         /\ Len(Rows(args)) > 0 => args \in DOMAIN Found
         /\ Rows(args) # <<>> => Len(Rows(args)) > 0
<1>1. CASE args \in DOMAIN Found
  <2>1. Rows(args) \in Seq(ToSet(Found[args]))
    BY <1>1, StmtAssumption DEF Rows
  <2> QED BY <1>1, <2>1, SeqFacts
<1>2. CASE args \notin DOMAIN Found
  BY <1>2 DEF Rows
<1> QED BY <1>1, <1>2

\* What reading a row may throw.
ReadErrors == {"not_numeric", "bad_cast"}

LEMMA ColThrows ==
  ASSUME NEW type, NEW c
  PROVE  Col(type, c).thrown \in {"none"} \cup ReadErrors
<1>1. ASSUME NEW v PROVE Got(v).thrown = "none"
  BY DEF Got
<1>2. ASSUME NEW e PROVE Throws(e).thrown = e
  BY DEF Throws
<1>3. TextCol(c).thrown = "none"
  BY <1>1 DEF TextCol
<1>4. NumCol(type.of, c).thrown \in {"none"} \cup ReadErrors
  BY <1>1, <1>2 DEF NumCol, ReadErrors
<1> QED BY <1>1, <1>3, <1>4 DEF Col

LEMMA ReadThrows ==
  ASSUME NEW read \in Reads, NEW cols
  PROVE  ReadCols(read, cols).thrown \in {"none"} \cup ReadErrors
<1> DEFINE each == [i \in DOMAIN read.types |-> Col(read.types[i], cols[read.ith + i])]
           bad  == {i \in DOMAIN each : each[i].thrown # "none"}
<1>1. CASE bad = {}
  BY <1>1 DEF ReadCols, Got
<1>2. CASE bad # {}
  <2> DEFINE i == CHOOSE i \in bad : \A k \in bad : i <= k
  <2>1. bad \subseteq Nat
    BY StmtAssumption
  <2>2. i \in bad
    <3> HIDE DEF bad
    <3> QED BY <1>2, <2>1, LeastOf
  <2>3. each[i].thrown \in {"none"} \cup ReadErrors
    BY <2>2, ColThrows
  <2>4. ReadCols(read, cols) = Throws(each[i].thrown)
    BY <1>2 DEF ReadCols
  <2> HIDE DEF i, each
  <2> QED BY <2>3, <2>4 DEF Throws
<1> QED BY <1>1, <1>2

-----------------------------------------------------------------------------
\* Arguments that are accepted are bound, each in this use's memory or copied.
LEMMA Accepted ==
  ASSUME NEW a \in Args \X Args, NEW b, NEW o, NEW use,
         ArgsThrown("ready", a) = "none"
  PROVE  /\ Bind(b, "ready", a) = [i \in DOMAIN a |-> Binding(a[i])]
         /\ \A i \in DOMAIN Owners(o, "ready", a, use) :
              Owners(o, "ready", a, use)[i] \in {0, use}
<1>1. BoundUpTo("ready", a) = DOMAIN a
  BY DEF ArgsThrown
<1> QED BY <1>1 DEF Bind, Owners

LEMMA NoMisuse ==
  ASSUME NEW a
  PROVE  ArgsThrown("ready", a) \in {"none", "bad_cast"}
BY DEF ArgsThrown

LEMMA StmtStart == StmtInit => StmtInv
<1> SUFFICES ASSUME StmtInit PROVE StmtInv
  OBVIOUS
<1>1. seen \in Seq(Entries) /\ Len(seen) = 0
  BY EmptyIsSeq DEF StmtInit
<1>2. Len(Rows(given)) \in Nat
  BY RowsFacts
<1>3. StmtTypeOK /\ ResetInv /\ GoingInv
  BY <1>1 DEF StmtInit, StmtTypeOK, ResetInv, GoingInv
<1>4. SeenInv
  BY <1>1, <1>2 DEF StmtInit, SeenInv
<1> QED BY <1>3, <1>4 DEF StmtInit, StmtInv

LEMMA ExecKeeps ==
  ASSUME StmtInv, NEW read \in Reads, NEW a \in Args \X Args, NEW fails \in BOOLEAN,
         Exec(read, a, fails)
  PROVE  StmtInv'
<1> DEFINE b    == Bind(bound, "ready", a)
           rows == Rows(b)
           res  == ReadCols(read, rows[1])
<1>1. run = "ready" /\ loop = FALSE /\ uses \in Nat
  BY DEF StmtInv, StmtTypeOK, ResetInv, Exec
<1>2. /\ given' = [i \in DOMAIN a |-> Binding(a[i])] /\ bound' = b /\ uses' = uses + 1
      /\ loop' = FALSE /\ cursor' = 0 /\ run' = "ready"
  BY <1>1 DEF Exec, AfterExec
<1>3. Len(Rows(given')) \in Nat
  BY RowsFacts
<1>4. \/ /\ seen' = <<>> /\ ended' \in {"bad_cast", "failed", "done", "no_row"} \cup ReadErrors
      \/ /\ ArgsThrown("ready", a) = "none" /\ rows # <<>> /\ ended' = "done"
         /\ seen' = <<[read |-> read, got |-> res.val]>>
  <2>1. ArgsThrown("ready", a) \in {"none", "bad_cast"}
    BY NoMisuse
  <2>2. res.thrown \in {"none"} \cup ReadErrors
    BY ReadThrows
  <2>3. Got(<<>>).thrown = "none" /\ Throws("no_row").thrown = "no_row"
    BY DEF Got, Throws
  <2> HIDE DEF b, rows, res
  <2>4. CASE ArgsThrown("ready", a) # "none"
    BY <1>1, <2>1, <2>4 DEF Exec
  <2>5. CASE ArgsThrown("ready", a) = "none" /\ fails
    BY <1>1, <2>5 DEF Exec
  <2>6. CASE ArgsThrown("ready", a) = "none" /\ ~fails /\ read.types = <<>>
    BY <1>1, <2>3, <2>6 DEF Exec
  <2>7. CASE ArgsThrown("ready", a) = "none" /\ ~fails /\ read.types # <<>> /\ rows = <<>>
    BY <1>1, <2>3, <2>7 DEF Exec, rows, b
  <2>8. CASE ArgsThrown("ready", a) = "none" /\ ~fails /\ read.types # <<>> /\ rows # <<>>
    BY <1>1, <2>2, <2>8 DEF Exec, rows, b, res
  <2> QED BY <2>4, <2>5, <2>6, <2>7, <2>8
<1> HIDE DEF b, rows, res
<1>5. cursor' \in Nat /\ uses' \in Nat /\ loop' \in BOOLEAN /\ run' = "ready"
  <2>1. cursor' = 0 /\ uses' = uses + 1 /\ uses \in Nat
    BY <1>1, <1>2
  <2>2. loop' \in BOOLEAN
    BY <1>2
  <2>3. cursor' \in Nat /\ uses' \in Nat
    BY <2>1
  <2> QED BY <1>2, <2>2, <2>3
<1>6. CASE seen' = <<>> /\ ended' \in {"bad_cast", "failed", "done", "no_row"} \cup ReadErrors
  <2>1. seen' \in Seq(Entries) /\ Len(seen') = 0
    BY <1>6, EmptyIsSeq
  <2>2. StmtTypeOK'
    BY <1>5, <2>1 DEF StmtTypeOK
  <2>3. ResetInv' /\ GoingInv' /\ ended' # "misuse"
    BY <1>2, <1>6 DEF ResetInv, GoingInv, ReadErrors
  <2>4. SeenInv'
    BY <1>2, <1>3, <2>1 DEF SeenInv
  <2> QED BY <2>2, <2>3, <2>4 DEF StmtInv
<1>7. CASE /\ ArgsThrown("ready", a) = "none" /\ rows # <<>> /\ ended' = "done"
           /\ seen' = <<[read |-> read, got |-> res.val]>>
  <2>1. b = given'
    BY <1>2, <1>7, Accepted DEF b
  <2>2. rows = Rows(given') /\ res = ReadCols(read, Rows(given')[1])
    BY <2>1 DEF rows, res
  <2>3. given' \in DOMAIN Found /\ Len(Rows(given')) > 0
    BY <1>7, <2>2, RowsFacts
  <2> DEFINE e == [read |-> read, got |-> res.val]
  <2>4. e \in Entries /\ e.got = ReadCols(e.read, Rows(given')[1]).val
    BY <2>2, <2>3 DEF Entries
  <2> HIDE DEF e
  <2>5. seen' = <<e>>
    BY <1>7 DEF e
  <2>6. seen' \in Seq(Entries) /\ Len(seen') = 1 /\ seen'[1] = e
    BY <2>4, <2>5
  <2>7. StmtTypeOK'
    BY <1>5, <2>6 DEF StmtTypeOK
  <2>8. ResetInv' /\ GoingInv'
    BY <1>2, <1>7 DEF ResetInv, GoingInv
  <2>9. SeenInv'
    BY <1>2, <1>3, <2>3, <2>4, <2>6 DEF SeenInv
  <2> QED BY <1>7, <2>7, <2>8, <2>9 DEF StmtInv
<1> QED BY <1>4, <1>6, <1>7

LEMMA BeginKeeps ==
  ASSUME StmtInv, NEW a \in Args \X Args, BeginLoop(a)
  PROVE  StmtInv'
<1>1. run = "ready" /\ loop = FALSE /\ uses \in Nat
  BY DEF StmtInv, StmtTypeOK, ResetInv, BeginLoop
<1>2. /\ given' = [i \in DOMAIN a |-> Binding(a[i])] /\ bound' = Bind(bound, "ready", a)
      /\ uses' = uses + 1 /\ owner' = Owners(owner, "ready", a, uses')
      /\ loop' = TRUE /\ cursor' = 0 /\ run' = "ready" /\ seen' = <<>>
      /\ ended' = IF ArgsThrown("ready", a) = "none" THEN "going" ELSE ArgsThrown("ready", a)
  BY <1>1 DEF BeginLoop
<1>3. seen' \in Seq(Entries) /\ Len(seen') = 0
  BY <1>2, EmptyIsSeq
<1>4. Len(Rows(given')) \in Nat
  BY RowsFacts
<1>5. ended' \in {"going", "bad_cast"}
  BY <1>2, NoMisuse
<1>6. ended' = "going" => OwnArgs'
  <2> SUFFICES ASSUME ended' = "going" PROVE OwnArgs'
    OBVIOUS
  <2>1. ArgsThrown("ready", a) = "none"
    BY <1>2, NoMisuse
  <2> QED BY <1>2, <2>1, Accepted DEF OwnArgs
<1>7. StmtTypeOK'
  BY <1>1, <1>2, <1>3 DEF StmtTypeOK
<1>8. ResetInv' /\ GoingInv'
  BY <1>2, <1>3, <1>4, <1>6 DEF ResetInv, GoingInv
<1>9. SeenInv'
  BY <1>3, <1>4, <1>5 DEF SeenInv
<1> QED BY <1>5, <1>7, <1>8, <1>9 DEF StmtInv

LEMMA NextRowKeeps ==
  ASSUME StmtInv, NEW read \in Reads, NEW fails \in BOOLEAN, NextRow(read, fails)
  PROVE  StmtInv'
<1> DEFINE n == Len(Rows(given))
<1>1. /\ loop /\ ended = "going" /\ OwnArgs /\ cursor = Len(seen) /\ cursor <= n
      /\ n \in Nat /\ cursor \in Nat /\ seen \in Seq(Entries) /\ uses \in Nat
  BY RowsFacts DEF NextRow, StmtInv, GoingInv, StmtTypeOK
<1>2. /\ given' = given /\ bound' = bound /\ owner' = owner /\ uses' = uses
      /\ loop' = loop /\ bound = given
  BY <1>1 DEF NextRow, OwnArgs
<1>3. OwnArgs'
  BY <1>1, <1>2 DEF OwnArgs
<1>4. CASE /\ run' = "halted" /\ cursor' = cursor /\ seen' = seen
           /\ ended' = "failed" \/ (ended' = "done" /\ cursor = n)
  <2>1. StmtTypeOK'
    BY <1>1, <1>2, <1>4 DEF StmtTypeOK, StmtInv
  <2>2. ResetInv' /\ GoingInv' /\ ended' # "misuse"
    BY <1>1, <1>2, <1>4 DEF ResetInv, GoingInv
  <2>3. SeenInv'
    BY <1>1, <1>2, <1>4 DEF SeenInv, StmtInv
  <2> QED BY <2>1, <2>2, <2>3 DEF StmtInv
<1> DEFINE res == ReadCols(read, Rows(given)[cursor + 1])
           e   == [read |-> read, got |-> res.val]
<1>5. CASE /\ cursor < n /\ run' = "row" /\ cursor' = cursor + 1
           /\ seen' = IF res.thrown = "none" THEN Append(seen, e) ELSE seen
           /\ ended' = IF res.thrown = "none" THEN "going" ELSE res.thrown
  <2>1. given \in DOMAIN Found /\ cursor + 1 \in Nat
    BY <1>1, <1>5, RowsFacts
  <2>2. e \in Entries /\ e.got = ReadCols(e.read, Rows(given)[cursor + 1]).val
    BY <2>1 DEF Entries
  <2>3. res.thrown \in {"none", "not_numeric", "bad_cast"}
    BY ReadThrows DEF ReadErrors
  <2> HIDE DEF e, res, n
  <2>4. CASE res.thrown = "none"
    <3>1. /\ seen' \in Seq(Entries) /\ Len(seen') = cursor + 1 /\ seen'[cursor + 1] = e
          /\ \A i \in 1..cursor : seen'[i] = seen[i]
      BY <1>1, <1>5, <2>2, <2>4, AppendProperties
    <3>2. ended' = "going"
      BY <1>5, <2>4
    <3>3. StmtTypeOK'
      BY <1>1, <1>2, <1>5, <2>1, <3>1 DEF StmtTypeOK
    <3>4. ResetInv' /\ GoingInv'
      BY <1>1, <1>2, <1>3, <1>5, <3>1, <3>2 DEF ResetInv, GoingInv, n
    <3>5. \A i \in 1..cursor + 1 : i \in 1..cursor \/ i = cursor + 1
      BY <1>1
    <3>6. \A i \in 1..cursor : seen[i].got = ReadCols(seen[i].read, Rows(given)[i]).val
      BY <1>1 DEF StmtInv, SeenInv
    <3>7. \A i \in 1..Len(seen') : seen'[i].got = ReadCols(seen'[i].read, Rows(given)[i]).val
      BY <2>2, <3>1, <3>5, <3>6
    <3>8. SeenInv'
      BY <1>1, <1>2, <1>5, <3>1, <3>2, <3>7 DEF SeenInv, n
    <3> QED BY <3>2, <3>3, <3>4, <3>8 DEF StmtInv
  <2>5. CASE res.thrown # "none"
    <3>1. seen' = seen /\ ended' \in {"not_numeric", "bad_cast"}
      BY <1>5, <2>3, <2>5
    <3>2. StmtTypeOK'
      BY <1>1, <1>2, <1>5, <2>1, <3>1 DEF StmtTypeOK
    <3>3. ResetInv' /\ GoingInv'
      BY <1>1, <1>2, <1>3, <1>5, <3>1 DEF ResetInv, GoingInv
    <3>4. SeenInv'
      BY <1>2, <3>1 DEF SeenInv, StmtInv
    <3> QED BY <3>1, <3>2, <3>3, <3>4 DEF StmtInv
  <2> QED BY <2>4, <2>5
<1> QED BY <1>2, <1>4, <1>5 DEF NextRow

LEMMA StmtStep == StmtInv /\ [StmtNext]_stmtVars => StmtInv'
<1> SUFFICES ASSUME StmtInv, [StmtNext]_stmtVars PROVE StmtInv'
  OBVIOUS
<1>1. CASE UNCHANGED stmtVars
  BY <1>1 DEF stmtVars, StmtInv, StmtTypeOK, ResetInv, GoingInv, OwnArgs, SeenInv
<1>2. CASE LeaveLoop
  <2>1. /\ loop' = FALSE /\ run' = "ready" /\ cursor' = 0
        /\ UNCHANGED <<bound, owner, given, seen, ended, uses>>
    BY <1>2 DEF LeaveLoop
  <2> QED BY <2>1 DEF StmtInv, StmtTypeOK, ResetInv, GoingInv, SeenInv
<1>3. CASE \E read \in Reads, a \in Args \X Args, fails \in BOOLEAN : Exec(read, a, fails)
  BY <1>3, ExecKeeps
<1>4. CASE \E a \in Args \X Args : BeginLoop(a)
  BY <1>4, BeginKeeps
<1>5. CASE \E read \in Reads, fails \in BOOLEAN : NextRow(read, fails)
  BY <1>5, NextRowKeeps
<1> QED BY <1>1, <1>2, <1>3, <1>4, <1>5 DEF StmtNext

\* Every use of a prepared statement finds it as if it were new, however the uses
\* before it ended, with any number of uses, arguments and rows (stmt.hpp,
\* exec(), scoped_resetter_t, args(), next()).
THEOREM UsesAreApart == StmtSpec => []UsesApart
<1>1. StmtInv => UsesApart
  <2> SUFFICES ASSUME StmtInv PROVE UsesApart
    OBVIOUS
  <2>1. DOMAIN seen = 1..Len(seen)
    BY SeqFacts DEF StmtInv, StmtTypeOK
  <2> QED BY <2>1 DEF StmtInv, ResetInv, GoingInv, OwnArgs, SeenInv, UsesApart
<1> QED BY <1>1, StmtStart, StmtStep, PTL DEF StmtSpec

-----------------------------------------------------------------------------
(***************************************************************************)
(* A connection: what a setter that returned has set stays in force.       *)
(***************************************************************************)

SettingNames == {r.name : r \in inUse}
SettingKeys == SettingNames \X Schemas

ConnTypeOK ==
  /\ inUse \in Together /\ attached \subseteq Schemas /\ lockingAll \in Int
  /\ val \in [SettingKeys -> Int] /\ filed \in [SettingKeys -> Int]
  /\ delayed \in [SettingNames -> Int \cup {Unset}] /\ asked \in [SettingKeys -> Int \cup {Unset}]

\* A file that may only be read is not without its first page.
AttachedInv ==
  /\ IF isOpen THEN "main" \in attached ELSE attached = {}
  /\ temporary \subseteq attached
  /\ ro => attached \ temporary \subseteq filled

\* A setting whose value the file has.
Lasting(k) ==
  k[2] \notin temporary
    /\ (Setting(k[1]).where = "file" \/ (Setting(k[1]).where = "wal" /\ asked[k] \in {0, 1}))

\* A promise is kept by the connection, and outside of it by the file, or by the locking
\* mode of databases yet to be attached.
Kept(k) ==
  asked[k] # Unset =>
    /\ k[2] \in attached => Get(k[1], k[2]) = asked[k]
    /\ Lasting(k) => filed[k] = asked[k]
    /\ k[2] \notin attached =>
         Lasting(k) \/ (isOpen /\ k[1] = "locking_mode" /\ lockingAll = asked[k])

\* SQLite's limits, its page sizes, and the journal modes that last.
Legal(k) ==
  /\ Setting(k[1]).answer = "caps" => val[k] <= Cap /\ filed[k] <= Cap
  /\ k[1] = "page_size" => {val[k], filed[k]} \subseteq {1, 4} /\ delayed[k[1]] \in {1, 4, Unset}
  /\ k[1] = "journal_mode" => filed[k] \in {0, 1}

\* What a file that may only be read has of those settings that change all the same.
Stored(k) ==
  k[2] \in attached \ temporary =>
    /\ k[1] = "auto_vacuum" => (val[k] = 0 <=> filed[k] = 0)
    /\ k[1] = "journal_mode" => (val[k] = 1 <=> filed[k] = 1)

ConnInv ==
  /\ ConnTypeOK /\ AttachedInv
  /\ \A k \in SettingKeys : Kept(k) /\ Legal(k) /\ Stored(k)

-----------------------------------------------------------------------------
\* What the table says that the properties rest on.
RowFacts(r) ==
  /\ r.values \subseteq Int
  /\ r.check \in {"reads back", "return code", "previous", "none"}
  /\ r.answer \in {"keeps", "mute", "caps", "maps", "delays", "locks", "journal", "positive",
                   "not 0", "acts"}
  /\ r.where \in {"file", "wal", "conn"}
  /\ r.check = "return code" => r.answer \in {"keeps", "mute", "positive"} /\ r.where = "conn"
  /\ r.check = "previous" => r.answer = "caps"
  /\ r.answer = "caps" => r.where = "conn" /\ r.name = "limit"
  /\ r.where = "file" => r.answer \in {"keeps", "delays"}
  /\ r.where = "wal" => r.name = "journal_mode"
  /\ r.answer = "delays" => r.where = "file" /\ r.name \in {"auto_vacuum", "page_size"}
  /\ r.name = "ckpt_on_close" => r.check = "return code" /\ r.answer = "keeps"
  /\ r.name = "locking_mode" => r.check = "reads back" /\ r.answer = "locks" /\ r.where = "conn"
  /\ r.name = "journal_mode" => r.check = "reads back" /\ r.answer = "journal" /\ r.where = "wal"
  /\ r.name = "auto_vacuum" => r.check = "reads back" /\ r.answer = "delays"
  /\ r.name = "page_size" => r.values = {1, 4} /\ r.check = "none" /\ r.answer = "delays"

LEMMA TableFacts == \A r \in AllSettings : RowFacts(r)
<1>1. \A r \in IdSettings : RowFacts(r)
  <2>1. RowFacts(Number("application_id", "file"))
    BY DEF RowFacts, Entry, Number
  <2>2. RowFacts(Number("user_version", "file"))
    BY DEF RowFacts, Entry, Number
  <2>3. RowFacts(Number("schema_version", "file"))
    BY DEF RowFacts, Entry, Number
  <2>4. RowFacts(Entry("optimize", 0..2, FALSE, "none", "conn", "acts"))
    BY DEF RowFacts, Entry
  <2> QED BY <2>1, <2>2, <2>3, <2>4 DEF IdSettings
<1>2. \A r \in VacuumSettings : RowFacts(r)
  <2>1. RowFacts(Entry("auto_vacuum", 0..2, TRUE, "reads back", "file", "delays"))
    BY DEF RowFacts, Entry
  <2>2. RowFacts(Entry("incremental_vacuum", 0..2, FALSE, "none", "conn", "acts"))
    BY DEF RowFacts, Entry
  <2> QED BY <2>1, <2>2 DEF VacuumSettings
<1>3. \A r \in Switches : RowFacts(r)
  <2>1. RowFacts(Switch("automatic_index"))
    BY DEF RowFacts, Entry, Switch
  <2>2. RowFacts(Switch("cell_size_check"))
    BY DEF RowFacts, Entry, Switch
  <2>3. RowFacts(Switch("ignore_check_constraints"))
    BY DEF RowFacts, Entry, Switch
  <2>4. RowFacts([Switch("case_sensitive_like") EXCEPT !.answer = "mute"])
    BY DEF RowFacts, Entry, Switch
  <2> QED BY <2>1, <2>2, <2>3, <2>4 DEF Switches
<1>4. \A r \in CacheSettings : RowFacts(r)
  <2>1. RowFacts(Entry("cache_size", CacheSizes, FALSE, "reads back", "conn", "not 0"))
    BY ConnAssumption DEF RowFacts, Entry
  <2>2. RowFacts(Entry("mmap_size", 0..2, FALSE, "reads back", "conn", "maps"))
    BY DEF RowFacts, Entry
  <2> QED BY <2>1, <2>2 DEF CacheSettings
<1>5. \A r \in PageSizes : RowFacts(r)
  <2>1. RowFacts(Entry("page_size", {1, 4}, FALSE, "none", "file", "delays"))
    BY DEF RowFacts, Entry
  <2> QED BY <2>1 DEF PageSizes
<1>6. \A r \in BusyTimeouts : RowFacts(r)
  <2>1. RowFacts(Entry("busy_timeout", 0..2, FALSE, "return code", "conn", "positive"))
    BY DEF RowFacts, Entry
  <2> QED BY <2>1 DEF BusyTimeouts
<1>7. \A r \in LockingModes : RowFacts(r)
  <2>1. RowFacts(Entry("locking_mode", 0..1, FALSE, "reads back", "conn", "locks"))
    BY DEF RowFacts, Entry
  <2> QED BY <2>1 DEF LockingModes
<1>8. \A r \in JournalSettings : RowFacts(r)
  <2>1. RowFacts(Entry("journal_mode", 0..2, FALSE, "reads back", "wal", "journal"))
    BY DEF RowFacts, Entry
  <2>2. RowFacts(Number("journal_size_limit", "conn"))
    BY DEF RowFacts, Entry, Number
  <2>3. RowFacts(Entry("wal_autocheckpoint", 0..2, FALSE, "return code", "conn", "keeps"))
    BY DEF RowFacts, Entry
  <2> QED BY <2>1, <2>2, <2>3 DEF JournalSettings
<1>9. \A r \in SyncModes : RowFacts(r)
  <2>1. RowFacts(Entry("synchronous", 0..3, TRUE, "reads back", "conn", "keeps"))
    BY DEF RowFacts, Entry
  <2> QED BY <2>1 DEF SyncModes
<1>10. \A r \in TempStores : RowFacts(r)
  <2>1. RowFacts(Entry("temp_store", 0..2, TRUE, "reads back", "conn", "keeps"))
    BY DEF RowFacts, Entry
  <2> QED BY <2>1 DEF TempStores
<1>11. \A r \in ConfigSettings : RowFacts(r)
  <2>1. RowFacts(Entry("ckpt_on_close", 0..1, FALSE, "return code", "conn", "keeps"))
    BY DEF RowFacts, Entry
  <2>2. RowFacts(Entry("fk", 0..1, FALSE, "return code", "conn", "mute"))
    BY DEF RowFacts, Entry
  <2> QED BY <2>1, <2>2 DEF ConfigSettings
<1>12. \A r \in ChunkSizes : RowFacts(r)
  <2>1. RowFacts(Entry("chunk_size", 0..2, FALSE, "return code", "conn", "mute"))
    BY DEF RowFacts, Entry
  <2>2. RowFacts(Entry("journal_chunk_size", 0..2, FALSE, "return code", "conn", "mute"))
    BY DEF RowFacts, Entry
  <2> QED BY <2>1, <2>2 DEF ChunkSizes
<1>13. \A r \in Limits : RowFacts(r)
  <2>1. RowFacts(Entry("limit", 0..2, FALSE, "previous", "conn", "caps"))
    BY DEF RowFacts, Entry
  <2> QED BY <2>1 DEF Limits
<1> QED
  BY <1>1, <1>2, <1>3, <1>4, <1>5, <1>6, <1>7, <1>8, <1>9, <1>10, <1>11, <1>12, <1>13 DEF AllSettings

LEMMA SettingFacts ==
  ASSUME ConnTypeOK, NEW s \in SettingNames
  PROVE  RowFacts(Setting(s)) /\ Setting(s).name = s
<1>1. PICK r \in inUse : r.name = s
  BY DEF SettingNames
<1>2. Setting(s) \in inUse /\ Setting(s).name = s
  BY <1>1 DEF Setting
<1>3. inUse \subseteq AllSettings
  BY TogetherAssumption DEF ConnTypeOK
<1> QED BY <1>2, <1>3, TableFacts

LEMMA KeyFacts ==
  \A k \in SettingKeys : k = <<k[1], k[2]>> /\ k[1] \in SettingNames /\ k[2] \in Schemas
BY DEF SettingKeys

LEMMA DefaultFacts ==
  /\ \A s : DefaultOf(s) \in {0, 4} /\ (s # "page_size" => DefaultOf(s) = 0)
  /\ \A s, sch : /\ TemporaryOf(s, sch) \in Int
                 /\ s = "page_size" => TemporaryOf(s, sch) = 4
                 /\ s = "limit" => TemporaryOf(s, sch) = 0
  /\ DefaultOf("page_size") = 4
BY DEF DefaultOf, TemporaryOf

LEMMA ConnStart == ConnInit => ConnInv
<1> SUFFICES ASSUME ConnInit PROVE ConnInv
  OBVIOUS
<1>1. /\ inUse \in Together /\ isOpen = FALSE /\ ro = FALSE /\ attached = {} /\ temporary = {} /\ lockingAll = 0
      /\ val = [k \in SettingKeys |-> DefaultOf(k[1])] /\ filed = val
      /\ delayed = [s \in SettingNames |-> Unset] /\ asked = [k \in SettingKeys |-> Unset]
  BY DEF ConnInit, SettingKeys, SettingNames
<1>2. ConnTypeOK
  BY <1>1, DefaultFacts DEF ConnTypeOK
<1>3. ASSUME NEW k \in SettingKeys PROVE Kept(k) /\ Legal(k) /\ Stored(k)
  <2>1. /\ val[k] = DefaultOf(k[1]) /\ filed[k] = DefaultOf(k[1]) /\ asked[k] = Unset
        /\ delayed[k[1]] = Unset
    BY <1>1, KeyFacts
  <2>2. RowFacts(Setting(k[1])) /\ Setting(k[1]).name = k[1]
    BY <1>2, SettingFacts, KeyFacts
  <2>3. Setting(k[1]).answer = "caps" => DefaultOf(k[1]) = 0
    BY <2>2, DefaultFacts DEF RowFacts
  <2>4. Legal(k)
    BY <2>1, <2>3, DefaultFacts, ConnAssumption DEF Legal
  <2> QED BY <1>1, <2>1, <2>4 DEF Kept, Stored
<1> QED BY <1>1, <1>2, <1>3 DEF ConnInv, AttachedInv

-----------------------------------------------------------------------------
LEMMA SettingSame ==
  ASSUME inUse' = inUse
  PROVE  (\A s : Setting(s)' = Setting(s)) /\ SettingNames' = SettingNames /\ SettingKeys' = SettingKeys
BY DEF Setting, SettingNames, SettingKeys

LEMMA CodedFacts ==
  \A s, v : v \in Int => Coded(s, v) \in Int /\ Coded(s, Coded(s, v)) = v
                           /\ (s # "ckpt_on_close" => Coded(s, v) = v)
BY DEF Coded

LEMMA AnsweredFacts ==
  ASSUME ConnInv, NEW s \in SettingNames, NEW sch \in Schemas, NEW v \in Int
  PROVE  /\ Answered(s, sch, v) \in Int
         /\ Setting(s).answer = "caps" => Answered(s, sch, v) <= Cap /\ (v <= Cap => Answered(s, sch, v) = v)
         /\ Setting(s).answer = "keeps" =>
              Answered(s, sch, v) = IF ro /\ Setting(s).where = "file" THEN val[<<s, sch>>] ELSE v
         /\ (Setting(s).answer = "positive" /\ v > 0) => Answered(s, sch, v) = v
         /\ Setting(s).answer = "delays" =>
              /\ Answered(s, sch, v) \in {v, val[<<s, sch>>]}
              /\ (s = "auto_vacuum" /\ sch \in filled /\ 0 \in {v, val[<<s, sch>>]}) =>
                   Answered(s, sch, v) = val[<<s, sch>>]
         /\ Setting(s).answer = "locks" =>
              Answered(s, sch, v) = IF sch \in temporary THEN val[<<s, sch>>] ELSE v
         /\ Setting(s).answer = "journal" =>
              /\ Answered(s, sch, v) \in {v, val[<<s, sch>>]}
              /\ (1 \in {v, val[<<s, sch>>]} /\ ro) => Answered(s, sch, v) = val[<<s, sch>>]
<1> DEFINE a == Setting(s).answer
           old == val[<<s, sch>>]
           file == Setting(s).where = "file"
<1>1. old \in Int /\ Cap \in Nat
  BY ConnAssumption DEF ConnInv, ConnTypeOK, SettingKeys
<1>2. a \in {"keeps", "mute", "caps", "maps", "delays", "locks", "journal", "positive", "not 0", "acts"}
  <2>1. RowFacts(Setting(s))
    BY SettingFacts DEF ConnInv
  <2> QED BY <2>1 DEF RowFacts
<1>3. Answered(s, sch, v) =
        CASE a = "keeps"    -> IF ro /\ file THEN old ELSE v
          [] a = "caps"     -> IF v > Cap THEN Cap ELSE v
          [] a = "maps"     -> IF sch \in temporary THEN old ELSE IF v > Cap THEN Cap ELSE v
          [] a = "delays"   -> IF sch \in filled /\ (s = "auto_vacuum" => 0 \in {v, old}) THEN old ELSE v
          [] a = "locks"    -> IF sch \in temporary THEN old ELSE v
          [] a = "journal"  -> IF sch \in temporary \ {"main"} \/ (1 \in {v, old} /\ (ro \/ sch \in temporary))
                               THEN old ELSE v
          [] a = "positive" -> IF v > 0 THEN v ELSE old
          [] a = "acts"     -> old
          [] OTHER          -> v
  BY DEF Answered
<1> HIDE DEF a, old, file
<1>4. /\ a = "keeps" => Answered(s, sch, v) = IF ro /\ file THEN old ELSE v
      /\ a = "caps" => Answered(s, sch, v) = IF v > Cap THEN Cap ELSE v
      /\ a = "maps" => Answered(s, sch, v) = IF sch \in temporary THEN old ELSE IF v > Cap THEN Cap ELSE v
      /\ a = "delays" => Answered(s, sch, v) =
           IF sch \in filled /\ (s = "auto_vacuum" => 0 \in {v, old}) THEN old ELSE v
      /\ a = "locks" => Answered(s, sch, v) = IF sch \in temporary THEN old ELSE v
      /\ a = "journal" => Answered(s, sch, v) =
           IF sch \in temporary \ {"main"} \/ (1 \in {v, old} /\ (ro \/ sch \in temporary))
           THEN old ELSE v
      /\ a = "positive" => Answered(s, sch, v) = IF v > 0 THEN v ELSE old
      /\ a = "acts" => Answered(s, sch, v) = old
      /\ a \in {"mute", "not 0"} => Answered(s, sch, v) = v
  BY <1>3
<1>5. Answered(s, sch, v) \in Int
  <2>1. Answered(s, sch, v) \in {v, old, Cap}
    BY <1>2, <1>4
  <2> QED BY <2>1, <1>1
<1>6. a = "caps" => Answered(s, sch, v) <= Cap /\ (v <= Cap => Answered(s, sch, v) = v)
  BY <1>1, <1>4
<1>7. a = "delays" => /\ Answered(s, sch, v) \in {v, old}
                      /\ s = "auto_vacuum" /\ sch \in filled /\ 0 \in {v, old} => Answered(s, sch, v) = old
  BY <1>4
<1>8. a = "journal" => /\ Answered(s, sch, v) \in {v, old}
                       /\ 1 \in {v, old} /\ ro => Answered(s, sch, v) = old
  BY <1>4
<1>9. /\ a = "keeps" => Answered(s, sch, v) = IF ro /\ file THEN old ELSE v
      /\ a = "positive" /\ v > 0 => Answered(s, sch, v) = v
      /\ a = "locks" => Answered(s, sch, v) = IF sch \in temporary THEN old ELSE v
  BY <1>4
<1> QED BY <1>5, <1>6, <1>7, <1>8, <1>9 DEF a, old, file

LEMMA LastsFacts ==
  ASSUME ConnInv, NEW s \in SettingNames, NEW v \in Int
  PROVE  /\ Lasts(s, v) \in Int
         /\ Setting(s).where = "file" => Lasts(s, v) = v
         /\ Setting(s).where = "wal" => Lasts(s, v) = IF v = 1 THEN 1 ELSE 0
         /\ Setting(s).answer = "caps" => Lasts(s, v) <= Cap
<1>1. RowFacts(Setting(s)) /\ Cap \in Nat /\ Setting(s).name = s
  BY ConnAssumption, SettingFacts DEF ConnInv
<1>2. /\ Setting(s).where = "file" => Lasts(s, v) = v
      /\ Setting(s).where = "wal" => Lasts(s, v) = IF v = 1 THEN 1 ELSE 0
      /\ Setting(s).where \notin {"file", "wal"} => Lasts(s, v) = DefaultOf(s)
  BY DEF Lasts
<1>3. Setting(s).answer = "caps" => Lasts(s, v) = 0
  BY <1>1, <1>2, DefaultFacts DEF RowFacts
<1>4. DefaultOf(s) \in Int
  BY DefaultFacts
<1> QED BY <1>1, <1>2, <1>3, <1>4

\* A setter that returns has set what it was to set.
LEMMA TakenHolds ==
  ASSUME ConnInv, NEW s \in SettingNames, NEW sch \in Schemas, NEW v \in Int,
         Taken(s, sch, Coded(s, v), Answered(s, sch, Coded(s, v))), Promised(s, v)
  PROVE  Coded(s, Answered(s, sch, Coded(s, v))) = v
<1> DEFINE sql == Coded(s, v)
           now == Answered(s, sch, sql)
           row == Setting(s)
<1>1. RowFacts(row) /\ row.name = s /\ Cap \in Nat
  BY ConnAssumption, SettingFacts DEF ConnInv
<1>2. sql \in Int /\ Coded(s, sql) = v /\ (s # "ckpt_on_close" => sql = v)
  BY CodedFacts
<1>3. row.check # "none" /\ row.answer # "mute" /\ (row.answer = "positive" => v > 0)
  BY DEF Promised
<1>4. /\ row.check = "reads back" => now = sql
      /\ row.check = "previous" => val[<<s, sch>>] = sql
  BY DEF Taken
<1>5. row.answer = "caps" => val[<<s, sch>>] <= Cap
  <2>1. <<s, sch>> \in SettingKeys /\ <<s, sch>>[1] = s
    BY DEF SettingKeys
  <2>2. Legal(<<s, sch>>)
    BY <2>1 DEF ConnInv
  <2> QED BY <2>1, <2>2 DEF Legal
<1> HIDE DEF sql
<1>6. /\ row.answer = "keeps" /\ row.where # "file" => now = sql
      /\ row.answer = "positive" /\ sql > 0 => now = sql
      /\ row.answer = "caps" /\ sql <= Cap => now = sql
  <2>1. /\ row.answer = "keeps" => now = IF ro /\ row.where = "file" THEN val[<<s, sch>>] ELSE sql
        /\ (row.answer = "positive" /\ sql > 0) => now = sql
        /\ row.answer = "caps" => (sql <= Cap => now = sql)
    <3>1. /\ Setting(s).answer = "keeps" =>
               Answered(s, sch, sql) = IF ro /\ Setting(s).where = "file" THEN val[<<s, sch>>] ELSE sql
          /\ (Setting(s).answer = "positive" /\ sql > 0) => Answered(s, sch, sql) = sql
          /\ Setting(s).answer = "caps" => Answered(s, sch, sql) <= Cap /\ (sql <= Cap => Answered(s, sch, sql) = sql)
      BY <1>2, AnsweredFacts
    <3> QED BY <3>1
  <2> HIDE DEF now, row
  <2> QED BY <2>1
<1> HIDE DEF now, row
<1>7. now = sql
  <2>1. CASE row.check = "reads back"
    BY <2>1, <1>4
  <2>2. CASE row.check = "previous"
    BY <2>2, <1>1, <1>4, <1>5, <1>6 DEF RowFacts
  <2>3. CASE row.check = "return code"
    <3>1. row.answer \in {"keeps", "positive"} /\ row.where = "conn"
      BY <2>3, <1>1, <1>3 DEF RowFacts
    <3>2. row.answer = "positive" => sql = v
      BY <1>1, <1>2 DEF RowFacts
    <3> QED BY <3>1, <3>2, <1>3, <1>6
  <2> QED BY <2>1, <2>2, <2>3, <1>1, <1>3 DEF RowFacts
<1> QED BY <1>2, <1>7 DEF now, sql

\* A key whose setting a step leaves alone.
LEMMA KeySame ==
  ASSUME ConnInv, NEW k \in SettingKeys, asked'[k] = asked[k], val'[k] = val[k], filed'[k] = filed[k],
         delayed'[k[1]] = delayed[k[1]] \/ (k[1] = "page_size" => delayed'[k[1]] \in {1, 4, Unset}),
         UNCHANGED <<inUse, isOpen, attached, temporary>>,
         k[1] = "locking_mode" => UNCHANGED lockingAll \/ k[2] \in attached
  PROVE  Kept(k)' /\ Legal(k)' /\ Stored(k)'
<1>1. <<k[1], k[2]>> = k /\ Kept(k) /\ Legal(k) /\ Stored(k)
  BY KeyFacts DEF ConnInv
<1>2. Setting(k[1])' = Setting(k[1])
  BY SettingSame
<1>3. Get(k[1], k[2])' = Get(k[1], k[2])
  BY <1>1 DEF Get, Coded
<1>4. Lasting(k)' <=> Lasting(k)
  BY <1>2 DEF Lasting
<1>5. Kept(k)'
  BY <1>1, <1>3, <1>4 DEF Kept
<1>6. Legal(k)'
  BY <1>1, <1>2 DEF Legal
<1>7. Stored(k)'
  BY <1>1 DEF Stored
<1> QED BY <1>5, <1>6, <1>7

LEMMA ConnSame ==
  ASSUME ConnInv,
         UNCHANGED <<inUse, isOpen, ro, attached, temporary, filled, val, filed, delayed, lockingAll, asked>>
  PROVE  ConnInv'
<1>1. SettingNames' = SettingNames /\ SettingKeys' = SettingKeys
  BY SettingSame
<1>2. ConnTypeOK' /\ AttachedInv'
  BY <1>1 DEF ConnInv, ConnTypeOK, AttachedInv
<1>3. \A k \in SettingKeys : Kept(k)' /\ Legal(k)' /\ Stored(k)'
  BY KeySame
<1> QED BY <1>1, <1>2, <1>3 DEF ConnInv

-----------------------------------------------------------------------------
LEMMA ConnSet ==
  ASSUME ConnInv, NEW s \in SettingNames, NEW sch \in Schemas, NEW v \in Int,
         NEW fails \in BOOLEAN, Set(s, sch, v, fails)
  PROVE  ConnInv'
<1> DEFINE row == Setting(s)
           sql == Coded(s, v)
           now == Answered(s, sch, sql)
           writes == Writes(s, sch, sql, now)
           good == ~(ro /\ writes) /\ Taken(s, sch, sql, now)
           key == <<s, sch>>
<1>1. /\ UNCHANGED <<inUse, isOpen, ro, attached, temporary, lockingAll>>
      /\ isOpen /\ sch \in attached
  BY DEF Set
<1>2. ConnTypeOK /\ AttachedInv /\ \A k \in SettingKeys : Kept(k) /\ Legal(k) /\ Stored(k)
  BY DEF ConnInv
<1>3. /\ SettingNames' = SettingNames /\ SettingKeys' = SettingKeys /\ key \in SettingKeys
      /\ \A n : Setting(n)' = Setting(n)
  BY <1>1, SettingSame DEF SettingKeys
<1>4. CASE UNCHANGED <<val, filed, delayed, filled, asked>>
  BY <1>1, <1>4, ConnSame
<1>5. CASE /\ v \in row.values
           /\ val' = [val EXCEPT ![key] = now]
           /\ filed' = IF ro \/ sch \in temporary \/ s = "page_size" THEN filed
                       ELSE [filed EXCEPT ![key] = Lasts(s, now)]
           /\ delayed' = IF row.answer = "delays" THEN [delayed EXCEPT ![s] = v] ELSE delayed
           /\ filled' = IF writes /\ ~ro THEN filled \cup {sch} ELSE filled
           /\ asked' = IF ~good /\ now = val[key] THEN asked
                       ELSE [asked EXCEPT ![key] = IF good /\ Promised(s, v) THEN v ELSE Unset]
  <2> DEFINE old == val[key]
             lasts == Lasts(s, now)
             outside == ro \/ sch \in temporary \/ s = "page_size"
  <2>1. /\ sql \in Int /\ (s # "ckpt_on_close" => sql = v) /\ RowFacts(row) /\ row.name = s
        /\ Kept(key) /\ Legal(key) /\ Stored(key) /\ old \in Int
    BY <1>2, <1>3, CodedFacts, SettingFacts DEF ConnTypeOK
  <2>2. good /\ Promised(s, v) => Coded(s, now) = v
    BY TakenHolds
  <2>3. Promised(s, v) => row.check # "none"
    BY DEF Promised
  <2>4. good => (ro => ~writes) /\ (row.check = "reads back" => now = sql)
    BY DEF Taken
  <2>5. ~writes => ~(row.where = "file" /\ row.answer = "keeps") /\ (s = "auto_vacuum" => 0 \in {sql, now})
    BY DEF Writes
  <2> HIDE DEF sql, writes
  <2>6. /\ now \in Int
        /\ row.answer = "caps" => now <= Cap
        /\ row.answer = "keeps" => now = IF ro /\ row.where = "file" THEN old ELSE sql
        /\ row.answer = "delays" => now \in {sql, old}
    <3>1. /\ Answered(s, sch, sql) \in Int
          /\ Setting(s).answer = "caps" => Answered(s, sch, sql) <= Cap
          /\ Setting(s).answer = "keeps" =>
               Answered(s, sch, sql) = IF ro /\ Setting(s).where = "file" THEN val[<<s, sch>>] ELSE sql
          /\ Setting(s).answer = "delays" => Answered(s, sch, sql) \in {sql, val[<<s, sch>>]}
      BY <2>1, AnsweredFacts
    <3> QED BY <3>1
  <2>7. /\ (row.answer = "delays" /\ s = "auto_vacuum" /\ sch \in filled /\ 0 \in {sql, old}) => now = old
        /\ row.answer = "journal" => now \in {sql, old} /\ ((1 \in {sql, old} /\ ro) => now = old)
    <3>1. /\ Setting(s).answer = "delays" =>
               ((s = "auto_vacuum" /\ sch \in filled /\ 0 \in {sql, val[<<s, sch>>]}) =>
                  Answered(s, sch, sql) = val[<<s, sch>>])
          /\ Setting(s).answer = "journal" =>
              /\ Answered(s, sch, sql) \in {sql, val[<<s, sch>>]}
              /\ (1 \in {sql, val[<<s, sch>>]} /\ ro) => Answered(s, sch, sql) = val[<<s, sch>>]
      BY <2>1, AnsweredFacts
    <3> QED BY <3>1
  <2> HIDE DEF now, good
  <2>8. /\ lasts \in Int /\ (row.where = "file" => lasts = now)
        /\ row.where = "wal" => lasts = IF now = 1 THEN 1 ELSE 0
        /\ row.answer = "caps" => lasts <= Cap
    BY <2>6, LastsFacts
  <2> HIDE DEF lasts
  <2>9. /\ val' \in [SettingKeys -> Int] /\ filed' \in [SettingKeys -> Int]
        /\ delayed' \in [SettingNames -> Int \cup {Unset}] /\ asked' \in [SettingKeys -> Int \cup {Unset}]
    BY <1>2, <1>5, <2>6, <2>8 DEF ConnTypeOK, lasts
  <2>10. ConnTypeOK'
    BY <1>1, <1>2, <1>3, <2>9 DEF ConnTypeOK
  <2>11. AttachedInv'
    BY <1>1, <1>2, <1>5 DEF AttachedInv
  <2>12. s = "page_size" => v \in {1, 4} /\ sql = v /\ row.answer = "delays" /\ row.check = "none"
    <3> SUFFICES ASSUME s = "page_size"
                 PROVE  v \in {1, 4} /\ sql = v /\ row.answer = "delays" /\ row.check = "none"
      OBVIOUS
    <3>1. row.values = {1, 4} /\ row.answer = "delays" /\ row.check = "none"
      BY <2>1 DEF RowFacts
    <3>2. v \in row.values
      BY <1>5
    <3> QED BY <3>1, <3>2, <2>1
  <2>13. ASSUME NEW k \in SettingKeys, k # key PROVE Kept(k)' /\ Legal(k)' /\ Stored(k)'
    <3>1. val'[k] = val[k] /\ filed'[k] = filed[k] /\ asked'[k] = asked[k]
      BY <1>2, <1>5, <2>13 DEF ConnTypeOK
    <3>2. delayed'[k[1]] = delayed[k[1]] \/ (k[1] = "page_size" => delayed'[k[1]] \in {1, 4, Unset})
      <4>1. k[1] \in SettingNames
        BY KeyFacts
      <4>2. delayed'[k[1]] \in {delayed[k[1]], v} /\ (k[1] # s => delayed'[k[1]] = delayed[k[1]])
        BY <4>1, <1>2, <1>5 DEF ConnTypeOK
      <4> QED BY <4>2, <2>12
    <3> QED BY <3>1, <3>2, <1>1, KeySame
  <2>14. /\ val'[key] = now /\ filed'[key] = (IF outside THEN filed[key] ELSE lasts)
         /\ asked'[key] = (IF ~good /\ now = old THEN asked[key]
                           ELSE IF good /\ Promised(s, v) THEN v ELSE Unset)
         /\ delayed'[s] \in {v, delayed[s]} /\ key[1] = s /\ key[2] = sch
    BY <1>2, <1>3, <1>5 DEF ConnTypeOK, lasts
  <2>15. Stored(key)'
    <3> SUFFICES ASSUME sch \in attached \ temporary, s \in {"auto_vacuum", "journal_mode"} PROVE Stored(key)'
      BY <1>1, <2>14 DEF Stored
    <3>1. s = "auto_vacuum" => row.answer = "delays" /\ row.where = "file"
      BY <2>1 DEF RowFacts
    <3>2. s = "journal_mode" => row.answer = "journal" /\ row.where = "wal"
      BY <2>1 DEF RowFacts
    <3>3. ro => sch \in filled
      BY <1>2 DEF AttachedInv
    <3>4. /\ s = "auto_vacuum" => (old = 0 <=> filed[key] = 0)
          /\ s = "journal_mode" => (old = 1 <=> filed[key] = 1)
      BY <2>1, <2>14 DEF Stored
    <3>5. s = "auto_vacuum" => (now = 0 <=> filed'[key] = 0)
      BY <2>6, <2>7, <2>8, <2>14, <3>1, <3>3, <3>4
    <3>6. s = "journal_mode" => (now = 1 <=> filed'[key] = 1)
      BY <2>6, <2>7, <2>8, <2>14, <3>2, <3>4
    <3> QED BY <3>5, <3>6, <2>14 DEF Stored
  <2>16. Legal(key)'
    <3>1. s = "page_size" => now \in {1, 4} /\ filed'[key] \in {1, 4} /\ delayed'[s] \in {1, 4, Unset}
      BY <2>1, <2>6, <2>12, <2>14 DEF Legal
    <3>2. s = "journal_mode" => filed'[key] \in {0, 1}
      BY <2>1, <2>8, <2>14 DEF Legal, RowFacts
    <3>3. row.answer = "caps" => now <= Cap /\ filed'[key] <= Cap
      BY <2>1, <2>6, <2>8, <2>14 DEF Legal
    <3> QED BY <3>1, <3>2, <3>3, <1>3, <2>14 DEF Legal
  <2>17. Kept(key)'
    <3>1. CASE ~good /\ now = old
      <4> SUFFICES ASSUME asked[key] # Unset PROVE Kept(key)'
        BY <3>1, <2>14 DEF Kept
      <4>1. asked'[key] = asked[key] /\ val'[key] = val[key]
        BY <3>1, <2>14
      <4>2. Get(s, sch)' = Get(s, sch) /\ Get(s, sch) = asked[key]
        BY <4>1, <2>1, <2>14, <1>1 DEF Get, Coded, Kept
      <4>3. ASSUME Lasting(key)' PROVE filed'[key] = asked[key]
        <5>1. Lasting(key) /\ filed[key] = asked[key]
          BY <4>1, <4>3, <2>1, <1>1, <1>3 DEF Lasting, Kept
        <5>2. row.where = "file" \/ (row.where = "wal" /\ asked[key] \in {0, 1})
          BY <5>1, <2>14 DEF Lasting
        <5>3. old = asked[key]
          <6>1. s # "ckpt_on_close"
            BY <5>2, <2>1 DEF RowFacts
          <6> QED BY <6>1, <4>2 DEF Get, Coded
        <5> QED BY <5>1, <5>2, <5>3, <3>1, <2>8, <2>14
      <4> QED BY <4>1, <4>2, <4>3, <2>14, <1>1 DEF Kept
    <3>2. CASE ~(~good /\ now = old)
      <4> SUFFICES ASSUME good, Promised(s, v), asked'[key] = v PROVE Kept(key)'
        BY <3>2, <2>14 DEF Kept
      <4>1. Get(s, sch)' = v
        BY <2>2, <2>14 DEF Get, Coded
      <4>2. ASSUME Lasting(key)' PROVE filed'[key] = v
        <5>1. /\ row.where = "file" \/ (row.where = "wal" /\ v \in {0, 1})
              /\ sch \notin temporary
          BY <4>2, <1>1, <1>3, <2>14 DEF Lasting
        <5>2. s # "ckpt_on_close" /\ now = v /\ sql = v
          <6>1. s # "ckpt_on_close"
            BY <5>1, <2>1 DEF RowFacts
          <6> QED BY <6>1, <2>1, <2>2, <2>6, CodedFacts
        <5>3. s # "page_size"
          BY <2>3, <2>12
        <5>4. CASE ~ro
          BY <5>1, <5>2, <5>3, <5>4, <2>8, <2>14
        <5>5. CASE ro
          <6>1. filed'[key] = filed[key]
            BY <5>5, <2>14
          <6>2. CASE row.where = "file"
            <7>1. s = "auto_vacuum"
              BY <6>2, <5>3, <5>5, <2>1, <2>4, <2>5 DEF RowFacts
            <7>2. v = 0
              BY <7>1, <5>2, <5>5, <2>4, <2>5
            <7>3. filed'[key] = 0
              BY <7>1, <7>2, <5>1, <5>2, <1>1, <2>14, <2>15 DEF Stored
            <7> QED BY <7>2, <7>3
          <6>3. CASE row.where = "wal"
            <7>1. s = "journal_mode" /\ v \in {0, 1}
              BY <6>3, <5>1, <2>1 DEF RowFacts
            <7>2. (v = 1 <=> filed'[key] = 1) /\ filed'[key] \in {0, 1}
              BY <7>1, <5>1, <5>2, <1>1, <2>14, <2>15, <2>16 DEF Stored, Legal
            <7> QED BY <7>1, <7>2
          <6> QED BY <5>1, <6>2, <6>3
        <5> QED BY <5>4, <5>5
      <4> QED BY <4>1, <4>2, <2>14, <1>1 DEF Kept
    <3> QED BY <3>1, <3>2
  <2> QED BY <1>3, <2>10, <2>11, <2>13, <2>15, <2>16, <2>17 DEF ConnInv
<1> QED BY <1>4, <1>5 DEF Set

LEMMA ConnSetLocking ==
  ASSUME ConnInv, NEW v \in Int, SetAllLockingMode(v)
  PROVE  ConnInv'
<1> DEFINE s == "locking_mode"
<1>1. /\ isOpen /\ s \in SettingNames /\ lockingAll' = v
      /\ val' = [k \in DOMAIN val |-> IF k[1] = s /\ k[2] \in attached THEN Answered(s, k[2], v) ELSE val[k]]
      /\ asked' = [k \in DOMAIN asked |-> IF k[1] = s /\ k[2] \notin temporary THEN v ELSE asked[k]]
      /\ UNCHANGED <<inUse, isOpen, ro, attached, temporary, filled, filed, delayed>>
  BY DEF SetAllLockingMode, InUse, SettingNames
<1>2. ConnTypeOK /\ AttachedInv /\ (\A k \in SettingKeys : Kept(k) /\ Legal(k) /\ Stored(k))
  BY DEF ConnInv
<1>3. SettingNames' = SettingNames /\ SettingKeys' = SettingKeys /\ \A n : Setting(n)' = Setting(n)
  BY <1>1, SettingSame
<1>4. RowFacts(Setting(s)) /\ Setting(s).answer = "locks" /\ Setting(s).where = "conn"
  BY <1>1, <1>2, SettingFacts DEF RowFacts
<1>5. \A sch \in Schemas : Answered(s, sch, v) = IF sch \in temporary THEN val[<<s, sch>>] ELSE v
  BY <1>1, <1>4, AnsweredFacts
<1>6. \A k \in SettingKeys :
        /\ val'[k] = IF k[1] = s /\ k[2] \in attached \ temporary THEN v ELSE val[k]
        /\ asked'[k] = IF k[1] = s /\ k[2] \notin temporary THEN v ELSE asked[k]
        /\ filed'[k] = filed[k] /\ delayed' = delayed
  BY <1>1, <1>2, <1>5, KeyFacts DEF ConnTypeOK
<1>7. val' \in [SettingKeys -> Int] /\ asked' \in [SettingKeys -> Int \cup {Unset}]
  <2>1. DOMAIN val = SettingKeys /\ DOMAIN asked = SettingKeys
    BY <1>2 DEF ConnTypeOK
  <2>2. \A k \in SettingKeys : val[k] \in Int /\ asked[k] \in Int \cup {Unset}
    BY <1>2 DEF ConnTypeOK
  <2>3. \A k \in SettingKeys :
          (IF k[1] = s /\ k[2] \in attached THEN Answered(s, k[2], v) ELSE val[k]) \in Int
    BY <2>2, <1>5, KeyFacts
  <2> QED BY <2>1, <2>2, <2>3, <1>1
<1>8. ConnTypeOK'
  BY <1>1, <1>2, <1>3, <1>7 DEF ConnTypeOK
<1>9. AttachedInv'
  BY <1>1, <1>2 DEF AttachedInv
<1>10. ASSUME NEW k \in SettingKeys PROVE Kept(k)' /\ Legal(k)' /\ Stored(k)'
  <2>1. CASE k[1] # s \/ k[2] \in temporary
    <3>1. val'[k] = val[k] /\ asked'[k] = asked[k] /\ filed'[k] = filed[k] /\ delayed'[k[1]] = delayed[k[1]]
      BY <1>6, <2>1
    <3>2. k[1] = s => k[2] \in attached
      BY <1>2, <2>1 DEF AttachedInv
    <3> QED BY <3>1, <3>2, <1>1, KeySame
  <2>2. CASE k[1] = s /\ k[2] \notin temporary
    <3>1. k = <<s, k[2]>> /\ asked'[k] = v /\ (k[2] \in attached => val'[k] = v)
      BY <2>2, <1>6, KeyFacts
    <3>2. ~Lasting(k)'
      BY <1>3, <1>4, <2>2 DEF Lasting
    <3>3. k[2] \in attached => Get(k[1], k[2])' = v
      BY <3>1 DEF Get, Coded
    <3>4. Kept(k)'
      BY <3>1, <3>2, <3>3, <2>2, <1>1 DEF Kept
    <3>5. Legal(k)' /\ Stored(k)'
      BY <1>3, <1>4, <2>2 DEF Legal, Stored
    <3> QED BY <3>4, <3>5
  <2> QED BY <2>1, <2>2
<1> QED BY <1>3, <1>8, <1>9, <1>10 DEF ConnInv

LEMMA ConnSetJournal ==
  ASSUME ConnInv, NEW v \in Int, NEW reached, SetAllJournalMode(v, reached)
  PROVE  ConnInv'
<1> DEFINE s == "journal_mode"
           now(sch) == Answered(s, sch, v)
           changed(k) == k[1] = s /\ k[2] \in reached
           stuck == {sch \in attached \ temporary : ro /\ ((v = 1) # (val[<<s, sch>>] = 1))}
           good == reached = attached /\ Taken(s, "main", v, now("main"))
           written == {sch \in reached : Writes(s, sch, v, now(sch))}
<1>1. /\ isOpen /\ s \in SettingNames /\ reached \subseteq attached \ stuck
      /\ val' = [k \in DOMAIN val |-> IF changed(k) THEN now(k[2]) ELSE val[k]]
      /\ filed' = [k \in DOMAIN filed |-> IF changed(k) /\ k[2] \notin temporary
                                          THEN Lasts(k[1], now(k[2])) ELSE filed[k]]
      /\ filled' = filled \cup written
      /\ asked' = [k \in DOMAIN asked |-> IF ~changed(k) THEN asked[k]
                                          ELSE IF good /\ k[2] = "main" THEN v ELSE Unset]
      /\ UNCHANGED <<inUse, isOpen, ro, attached, temporary, delayed, lockingAll>>
  BY DEF SetAllJournalMode, InUse, SettingNames
<1>2. ConnTypeOK /\ AttachedInv /\ (\A k \in SettingKeys : Kept(k) /\ Legal(k) /\ Stored(k))
      /\ attached \subseteq Schemas
  BY DEF ConnInv, ConnTypeOK
<1>3. SettingNames' = SettingNames /\ SettingKeys' = SettingKeys /\ \A n : Setting(n)' = Setting(n)
  BY <1>1, SettingSame
<1>4. RowFacts(Setting(s)) /\ Setting(s).answer = "journal" /\ Setting(s).where = "wal"
      /\ Setting(s).check = "reads back"
  BY <1>1, <1>2, SettingFacts DEF RowFacts
<1>5. AttachedInv'
  BY <1>1, <1>2 DEF AttachedInv
<1>6. \A sch \in Schemas : now(sch) \in Int /\ Lasts(s, now(sch)) = IF now(sch) = 1 THEN 1 ELSE 0
  <2>1. \A sch \in Schemas : now(sch) \in Int
    BY <1>1, AnsweredFacts
  <2> HIDE DEF now
  <2> QED BY <1>1, <1>4, <2>1, LastsFacts
<1>7. good => now("main") = v
  BY <1>4 DEF Taken
<1> HIDE DEF now, good, written, stuck
<1>8. \A k \in SettingKeys :
        /\ val'[k] = IF changed(k) THEN now(k[2]) ELSE val[k]
        /\ filed'[k] = IF changed(k) /\ k[2] \notin temporary THEN Lasts(s, now(k[2])) ELSE filed[k]
        /\ asked'[k] = IF ~changed(k) THEN asked[k] ELSE IF good /\ k[2] = "main" THEN v ELSE Unset
        /\ delayed'[k[1]] = delayed[k[1]]
  BY <1>1, <1>2 DEF ConnTypeOK
<1>9. /\ val' \in [SettingKeys -> Int] /\ filed' \in [SettingKeys -> Int]
      /\ asked' \in [SettingKeys -> Int \cup {Unset}]
  <2>1. DOMAIN val = SettingKeys /\ DOMAIN filed = SettingKeys /\ DOMAIN asked = SettingKeys
    BY <1>2 DEF ConnTypeOK
  <2>2. \A k \in SettingKeys : val[k] \in Int /\ filed[k] \in Int /\ asked[k] \in Int \cup {Unset}
    BY <1>2 DEF ConnTypeOK
  <2>3. \A k \in SettingKeys : k[2] \in Schemas /\ now(k[2]) \in Int /\ Lasts(s, now(k[2])) \in Int
    BY <1>6, KeyFacts
  <2> QED BY <2>1, <2>2, <2>3, <1>1
<1>10. ConnTypeOK'
  BY <1>1, <1>2, <1>3, <1>9 DEF ConnTypeOK
<1>11. ASSUME NEW k \in SettingKeys, ~changed(k) PROVE Kept(k)' /\ Legal(k)' /\ Stored(k)'
  <2>1. val'[k] = val[k] /\ filed'[k] = filed[k] /\ asked'[k] = asked[k] /\ delayed'[k[1]] = delayed[k[1]]
    BY <1>8, <1>11
  <2> QED BY <2>1, <1>1, KeySame
<1>12. ASSUME NEW k \in SettingKeys, changed(k) PROVE Kept(k)' /\ Legal(k)' /\ Stored(k)'
  <2>1. k = <<s, k[2]>> /\ k[2] \in Schemas /\ k[2] \in attached /\ k[1] = s
    BY <1>1, <1>12, KeyFacts
  <2>2. /\ val'[k] = now(k[2]) /\ asked'[k] = IF good /\ k[2] = "main" THEN v ELSE Unset
        /\ k[2] \notin temporary => filed'[k] = IF now(k[2]) = 1 THEN 1 ELSE 0
        /\ k[2] \in temporary => filed'[k] = filed[k]
    BY <1>6, <1>8, <1>12, <2>1
  <2>3. Legal(k)'
    BY <1>2, <1>3, <1>4, <2>1, <2>2 DEF Legal
  <2>4. Stored(k)'
    BY <1>1, <2>1, <2>2 DEF Stored
  <2>5. Kept(k)'
    <3> SUFFICES ASSUME good, k[2] = "main", asked'[k] = v PROVE Kept(k)'
      BY <2>2 DEF Kept
    <3>1. Get(k[1], k[2])' = v
      BY <1>7, <2>1, <2>2 DEF Get, Coded
    <3>2. Lasting(k)' => filed'[k] = v
      BY <1>1, <1>3, <1>4, <1>7, <2>1, <2>2 DEF Lasting
    <3> QED BY <3>1, <3>2, <2>1, <1>1 DEF Kept
  <2> QED BY <2>3, <2>4, <2>5
<1> QED BY <1>3, <1>5, <1>10, <1>11, <1>12 DEF ConnInv

-----------------------------------------------------------------------------
\* What outlasts the connection is what the file has.
LEMMA OutlastingFacts ==
  ASSUME NEW k
  PROVE  Outlasting(k) = IF Lasting(k) THEN asked[k] ELSE Unset
BY DEF Outlasting, Lasting

LEMMA ConnOpen ==
  ASSUME ConnInv, NEW flags, NEW emptyPath \in BOOLEAN, NEW fails \in BOOLEAN,
         Readable(emptyPath, IsRo(flags), "main"), Open(flags, emptyPath, fails)
  PROVE  ConnInv'
<1>1. ConnTypeOK /\ AttachedInv /\ \A k \in SettingKeys : Kept(k) /\ Legal(k) /\ Stored(k)
  BY DEF ConnInv
<1>2. CASE UNCHANGED <<inUse, isOpen, ro, attached, temporary, filled, val, filed, delayed, lockingAll, asked>>
  BY <1>2, ConnSame
<1>3. CASE /\ isOpen' = TRUE /\ ro' = IsRo(flags) /\ attached' = {"main"} /\ lockingAll' = 0
           /\ temporary' = IF emptyPath THEN {"main"} ELSE {}
           /\ val' = [k \in DOMAIN val |->
                        IF k[2] = "main" /\ emptyPath THEN TemporaryOf(k[1], "main") ELSE filed[k]]
           /\ filled' = IF emptyPath THEN {} ELSE inFile \cap {"main"}
           /\ delayed' = [s \in DOMAIN delayed |-> Unset]
           /\ asked' = [k \in DOMAIN asked |->
                          IF k[2] = "main" /\ emptyPath THEN Unset ELSE Outlasting(k)]
           /\ UNCHANGED <<inUse, filed>>
  <2>1. SettingNames' = SettingNames /\ SettingKeys' = SettingKeys /\ \A n : Setting(n)' = Setting(n)
    BY <1>3, SettingSame
  <2>2. \A k \in SettingKeys :
          /\ filed'[k] = filed[k] /\ delayed'[k[1]] = Unset
          /\ val'[k] = IF k[2] = "main" /\ emptyPath THEN TemporaryOf(k[1], "main") ELSE filed[k]
          /\ asked'[k] = IF k[2] = "main" /\ emptyPath THEN Unset
                         ELSE IF Lasting(k) THEN asked[k] ELSE Unset
    BY <1>1, <1>3, OutlastingFacts, KeyFacts DEF ConnTypeOK
  <2>3. /\ val' \in [SettingKeys -> Int] /\ filed' \in [SettingKeys -> Int]
        /\ delayed' \in [SettingNames -> Int \cup {Unset}]
    BY <1>1, <1>3, DefaultFacts DEF ConnTypeOK
  <2>4. asked' \in [SettingKeys -> Int \cup {Unset}]
    BY <1>1, <1>3, OutlastingFacts DEF ConnTypeOK
  <2>5. ConnTypeOK'
    BY <1>1, <1>3, <2>1, <2>3, <2>4, ConnAssumption DEF ConnTypeOK
  <2>6. AttachedInv'
    BY <1>3 DEF AttachedInv, Readable
  <2>7. ASSUME NEW k \in SettingKeys PROVE Kept(k)' /\ Legal(k)' /\ Stored(k)'
    <3>1. /\ RowFacts(Setting(k[1])) /\ Setting(k[1]).name = k[1] /\ k = <<k[1], k[2]>>
          /\ Legal(k) /\ Kept(k)
      BY <1>1, SettingFacts, KeyFacts
    <3>2. Legal(k)'
      <4>1. Setting(k[1]).answer = "caps" => val'[k] <= Cap /\ filed'[k] <= Cap
        <5> SUFFICES ASSUME Setting(k[1]).answer = "caps" PROVE val'[k] <= Cap /\ filed'[k] <= Cap
          OBVIOUS
        <5>1. filed[k] <= Cap /\ k[1] = "limit"
          BY <3>1 DEF Legal, RowFacts
        <5>2. TemporaryOf(k[1], "main") = 0
          BY <5>1, DefaultFacts
        <5> QED BY <2>2, <5>1, <5>2, ConnAssumption
      <4>2. k[1] = "page_size" => {val'[k], filed'[k]} \subseteq {1, 4} /\ delayed'[k[1]] \in {1, 4, Unset}
        BY <2>2, <3>1, DefaultFacts DEF Legal
      <4> QED BY <4>1, <4>2, <2>1, <2>2, <3>1 DEF Legal
    <3>3. Stored(k)'
      BY <1>3, <2>2 DEF Stored
    <3>4. Kept(k)'
      <4> SUFFICES ASSUME asked'[k] # Unset PROVE Kept(k)'
        BY DEF Kept
      <4>1. Lasting(k) /\ asked'[k] = asked[k] /\ val'[k] = filed[k] /\ filed'[k] = filed[k]
            /\ ~(k[2] = "main" /\ emptyPath)
        BY <2>2
      <4>2. filed[k] = asked[k]
        BY <4>1, <3>1 DEF Kept
      <4>3. k[1] # "ckpt_on_close" /\ Lasting(k)'
        BY <4>1, <3>1, <2>1, <1>3 DEF Lasting, RowFacts
      <4>4. Get(k[1], k[2])' = val'[k]
        BY <4>3, <3>1 DEF Get, Coded
      <4> QED BY <4>1, <4>2, <4>3, <4>4 DEF Kept
    <3> QED BY <3>2, <3>3, <3>4
  <2> QED BY <2>1, <2>5, <2>6, <2>7 DEF ConnInv
<1> QED BY <1>2, <1>3 DEF Open, connVars

LEMMA ConnClose ==
  ASSUME ConnInv, Close
  PROVE  ConnInv'
<1>1. ConnTypeOK /\ \A k \in SettingKeys : Kept(k) /\ Legal(k) /\ Stored(k)
  BY DEF ConnInv
<1>2. /\ isOpen' = FALSE /\ attached' = {} /\ temporary' = {}
      /\ asked' = [k \in DOMAIN asked |-> Outlasting(k)]
      /\ UNCHANGED <<inUse, ro, filled, val, filed, delayed, lockingAll>>
  BY DEF Close
<1>3. SettingNames' = SettingNames /\ SettingKeys' = SettingKeys /\ (\A n : Setting(n)' = Setting(n))
      /\ AttachedInv'
  BY <1>2, SettingSame DEF AttachedInv
<1>4. asked' \in [SettingKeys -> Int \cup {Unset}]
  BY <1>1, <1>2, OutlastingFacts DEF ConnTypeOK
<1>5. ConnTypeOK'
  BY <1>1, <1>2, <1>3, <1>4 DEF ConnTypeOK
<1>6. ASSUME NEW k \in SettingKeys PROVE Kept(k)' /\ Legal(k)' /\ Stored(k)'
  <2>1. asked'[k] = IF Lasting(k) THEN asked[k] ELSE Unset
    BY <1>1, <1>2, OutlastingFacts DEF ConnTypeOK
  <2>2. Legal(k)' /\ Stored(k)'
    BY <1>1, <1>2, <1>3 DEF Legal, Stored
  <2>3. Kept(k)'
    <3> SUFFICES ASSUME asked'[k] # Unset PROVE Kept(k)'
      BY DEF Kept
    <3>1. Lasting(k) /\ asked'[k] = asked[k] /\ filed[k] = asked[k]
      BY <2>1, <1>1 DEF Kept
    <3>2. Lasting(k)'
      BY <3>1, <1>2, <1>3 DEF Lasting
    <3> QED BY <3>1, <3>2, <1>2 DEF Kept
  <2> QED BY <2>2, <2>3
<1> QED BY <1>3, <1>5, <1>6 DEF ConnInv

LEMMA ConnAttach ==
  ASSUME ConnInv, NEW sch \in Schemas, NEW inMemory \in BOOLEAN,
         Readable(inMemory, ro, sch), Attach(sch, inMemory)
  PROVE  ConnInv'
<1>1. ConnTypeOK /\ AttachedInv /\ \A k \in SettingKeys : Kept(k) /\ Legal(k) /\ Stored(k)
  BY DEF ConnInv
<1>2. /\ isOpen /\ sch \notin attached /\ attached' = attached \cup {sch}
      /\ temporary' = IF inMemory THEN temporary \cup {sch} ELSE temporary
      /\ val' = [k \in DOMAIN val |->
                   IF k[2] # sch THEN val[k]
                   ELSE IF inMemory THEN TemporaryOf(k[1], sch)
                   ELSE IF k[1] = "locking_mode" THEN lockingAll ELSE filed[k]]
      /\ filled' = (filled \ {sch}) \cup (IF inMemory THEN {} ELSE inFile \cap {sch})
      /\ asked' = [k \in DOMAIN asked |-> IF k[2] = sch /\ inMemory THEN Unset ELSE asked[k]]
      /\ UNCHANGED <<inUse, isOpen, ro, filed, delayed, lockingAll>>
  BY DEF Attach
<1>3. SettingNames' = SettingNames /\ SettingKeys' = SettingKeys /\ \A n : Setting(n)' = Setting(n)
  BY <1>2, SettingSame
<1>4. AttachedInv' /\ sch \notin temporary
  BY <1>1, <1>2 DEF AttachedInv, Readable
<1>5. val' \in [SettingKeys -> Int] /\ asked' \in [SettingKeys -> Int \cup {Unset}]
  BY <1>1, <1>2, DefaultFacts DEF ConnTypeOK
<1>6. ConnTypeOK'
  BY <1>1, <1>2, <1>3, <1>5 DEF ConnTypeOK
<1>7. \A k \in SettingKeys :
        /\ filed'[k] = filed[k] /\ delayed' = delayed
        /\ val'[k] = IF k[2] # sch THEN val[k]
                     ELSE IF inMemory THEN TemporaryOf(k[1], sch)
                     ELSE IF k[1] = "locking_mode" THEN lockingAll ELSE filed[k]
        /\ asked'[k] = IF k[2] = sch /\ inMemory THEN Unset ELSE asked[k]
  BY <1>1, <1>2 DEF ConnTypeOK
<1>8. ASSUME NEW k \in SettingKeys PROVE Kept(k)' /\ Legal(k)' /\ Stored(k)'
  <2>1. /\ RowFacts(Setting(k[1])) /\ Setting(k[1]).name = k[1] /\ k = <<k[1], k[2]>>
        /\ Legal(k) /\ Kept(k) /\ Stored(k)
    BY <1>1, SettingFacts, KeyFacts
  <2>2. Legal(k)'
    <3>1. Setting(k[1]).answer = "caps" => val'[k] <= Cap /\ filed'[k] <= Cap
      <4> SUFFICES ASSUME Setting(k[1]).answer = "caps" PROVE val'[k] <= Cap /\ filed'[k] <= Cap
        OBVIOUS
      <4>1. val[k] <= Cap /\ filed[k] <= Cap /\ k[1] = "limit"
        BY <2>1 DEF Legal, RowFacts
      <4>2. TemporaryOf(k[1], sch) = 0
        BY <4>1, DefaultFacts
      <4> QED BY <1>7, <4>1, <4>2, ConnAssumption
    <3>2. k[1] = "page_size" => {val'[k], filed'[k]} \subseteq {1, 4} /\ delayed'[k[1]] \in {1, 4, Unset}
      BY <2>1, <1>7, DefaultFacts DEF Legal
    <3> QED BY <3>1, <3>2, <1>3, <1>7, <2>1 DEF Legal
  <2>3. Stored(k)'
    <3>1. CASE k[2] # sch
      BY <3>1, <1>2, <1>7, <2>1 DEF Stored
    <3>2. CASE k[2] = sch
      BY <3>2, <1>2, <1>7 DEF Stored
    <3> QED BY <3>1, <3>2
  <2>4. CASE k[2] # sch
    <3>1. val'[k] = val[k] /\ filed'[k] = filed[k] /\ asked'[k] = asked[k]
      BY <1>7, <2>4
    <3>2. Get(k[1], k[2])' = Get(k[1], k[2])
      BY <3>1, <2>1 DEF Get, Coded
    <3>3. (Lasting(k)' <=> Lasting(k)) /\ (k[2] \in attached' <=> k[2] \in attached)
      BY <3>1, <1>2, <1>3, <2>4 DEF Lasting
    <3> QED BY <3>1, <3>2, <3>3, <2>1, <2>2, <2>3, <1>2 DEF Kept
  <2>5. CASE k[2] = sch
    <3> SUFFICES ASSUME asked[k] # Unset, ~inMemory PROVE Kept(k)'
      BY <1>7, <2>2, <2>3, <2>5 DEF Kept
    <3>1. /\ k[2] \notin attached /\ k[2] \in attached' /\ asked'[k] = asked[k]
          /\ Lasting(k)' <=> Lasting(k)
      BY <1>2, <1>3, <1>7, <2>5 DEF Lasting
    <3>2. CASE Lasting(k)
      <4>1. k[1] # "locking_mode" /\ k[1] # "ckpt_on_close"
        BY <3>2, <2>1 DEF Lasting, RowFacts
      <4>2. filed'[k] = asked[k] /\ val'[k] = asked[k]
        BY <4>1, <3>2, <2>1, <2>5, <1>7 DEF Kept
      <4>3. Get(k[1], k[2])' = val'[k]
        BY <4>1, <2>1 DEF Get, Coded
      <4> QED BY <4>2, <4>3, <3>1 DEF Kept
    <3>3. CASE ~Lasting(k)
      <4>1. k[1] = "locking_mode" /\ lockingAll = asked[k]
        BY <3>1, <3>3, <2>1 DEF Kept
      <4>2. val'[k] = asked[k]
        BY <4>1, <1>7, <2>5
      <4>3. Get(k[1], k[2])' = val'[k]
        BY <4>1, <2>1 DEF Get, Coded
      <4> QED BY <4>2, <4>3, <3>1, <3>3 DEF Kept
    <3> QED BY <3>2, <3>3
  <2> QED BY <2>2, <2>3, <2>4, <2>5
<1> QED BY <1>3, <1>4, <1>6, <1>8 DEF ConnInv

LEMMA ConnDetach ==
  ASSUME ConnInv, NEW sch \in Schemas, Detach(sch)
  PROVE  ConnInv'
<1>1. ConnTypeOK /\ AttachedInv /\ \A k \in SettingKeys : Kept(k) /\ Legal(k) /\ Stored(k)
  BY DEF ConnInv
<1>2. /\ isOpen /\ sch \in attached \ {"main"} /\ attached' = attached \ {sch}
      /\ temporary' = temporary \ {sch}
      /\ asked' = [k \in DOMAIN asked |-> IF k[2] = sch THEN Outlasting(k) ELSE asked[k]]
      /\ UNCHANGED <<inUse, isOpen, ro, filled, val, filed, delayed, lockingAll>>
  BY DEF Detach
<1>3. SettingNames' = SettingNames /\ SettingKeys' = SettingKeys /\ (\A n : Setting(n)' = Setting(n))
      /\ AttachedInv'
  BY <1>1, <1>2, SettingSame DEF AttachedInv
<1>4. asked' \in [SettingKeys -> Int \cup {Unset}]
  BY <1>1, <1>2, OutlastingFacts DEF ConnTypeOK
<1>5. ConnTypeOK'
  BY <1>1, <1>2, <1>3, <1>4 DEF ConnTypeOK
<1>6. ASSUME NEW k \in SettingKeys PROVE Kept(k)' /\ Legal(k)' /\ Stored(k)'
  <2>1. asked'[k] = IF k[2] = sch /\ ~Lasting(k) THEN Unset ELSE asked[k]
    BY <1>1, <1>2, OutlastingFacts DEF ConnTypeOK
  <2>2. Legal(k)' /\ Stored(k)'
    BY <1>1, <1>2, <1>3 DEF Legal, Stored
  <2>3. Kept(k)'
    <3> SUFFICES ASSUME asked'[k] # Unset PROVE Kept(k)'
      BY DEF Kept
    <3>1. asked'[k] = asked[k] /\ (k[2] = sch => Lasting(k)) /\ Kept(k)
      BY <2>1, <1>1
    <3>2. Lasting(k)' <=> Lasting(k)
      BY <3>1, <1>2, <1>3 DEF Lasting
    <3>3. Get(k[1], k[2])' = Get(k[1], k[2])
      BY <1>2 DEF Get, Coded
    <3>4. k[2] \notin attached' => k[2] \notin attached \/ k[2] = sch
      BY <1>2
    <3> QED BY <3>1, <3>2, <3>3, <3>4, <1>2 DEF Kept
  <2> QED BY <2>2, <2>3
<1> QED BY <1>3, <1>5, <1>6 DEF ConnInv

\* A database is written: what is promised of it, unless it is over, is as before.
LEMMA ConnRewritten ==
  ASSUME ConnInv, ~ro, NEW sch \in attached, NEW over, NEW now, Rewritten(sch, now, over),
         \A k \in SettingKeys :
           /\ now[k] \in Int
           /\ k[1] = "page_size" => now[k] \in {1, 4}
           /\ (k \notin over /\ asked[k] # Unset) => now[k] \in {val[k], asked[k]}
  PROVE  ConnInv'
<1> DEFINE stored(k) == k[2] = sch /\ Setting(k[1]).where = "file"
<1>1. ConnTypeOK /\ AttachedInv /\ \A k \in SettingKeys : Kept(k) /\ Legal(k) /\ Stored(k)
  BY DEF ConnInv
<1>2. /\ val' = [k \in DOMAIN val |-> IF stored(k) THEN now[k] ELSE val[k]]
      /\ filed' = [k \in DOMAIN filed |-> IF stored(k) /\ sch \notin temporary THEN now[k] ELSE filed[k]]
      /\ asked' = [k \in DOMAIN asked |-> IF stored(k) /\ k \in over THEN Unset ELSE asked[k]]
      /\ filled' = filled \cup {sch}
      /\ UNCHANGED <<inUse, isOpen, ro, attached, temporary, delayed, lockingAll>>
  BY DEF Rewritten
<1>3. /\ SettingNames' = SettingNames /\ SettingKeys' = SettingKeys /\ (\A n : Setting(n)' = Setting(n))
      /\ AttachedInv'
  BY <1>1, <1>2, SettingSame DEF AttachedInv
<1>4. \A k : stored(k) => k[2] = sch /\ Setting(k[1]).where = "file"
  OBVIOUS
<1> HIDE DEF stored
<1>5. /\ val' \in [SettingKeys -> Int] /\ filed' \in [SettingKeys -> Int]
      /\ asked' \in [SettingKeys -> Int \cup {Unset}]
  BY <1>1, <1>2 DEF ConnTypeOK
<1>6. ConnTypeOK'
  BY <1>1, <1>2, <1>3, <1>5 DEF ConnTypeOK
<1>7. \A k \in SettingKeys :
        /\ val'[k] = IF stored(k) THEN now[k] ELSE val[k]
        /\ filed'[k] = IF stored(k) /\ sch \notin temporary THEN now[k] ELSE filed[k]
        /\ asked'[k] = IF stored(k) /\ k \in over THEN Unset ELSE asked[k]
        /\ delayed'[k[1]] = delayed[k[1]]
  BY <1>1, <1>2 DEF ConnTypeOK
<1>8. ASSUME NEW k \in SettingKeys, ~stored(k) PROVE Kept(k)' /\ Legal(k)' /\ Stored(k)'
  <2>1. val'[k] = val[k] /\ filed'[k] = filed[k] /\ asked'[k] = asked[k] /\ delayed'[k[1]] = delayed[k[1]]
    BY <1>7, <1>8
  <2> QED BY <2>1, <1>2, KeySame
<1>9. ASSUME NEW k \in SettingKeys, stored(k) PROVE Kept(k)' /\ Legal(k)' /\ Stored(k)'
  <2>1. /\ RowFacts(Setting(k[1])) /\ Setting(k[1]).name = k[1] /\ k = <<k[1], k[2]>>
        /\ Kept(k) /\ Legal(k) /\ k[2] = sch /\ Setting(k[1]).where = "file"
    BY <1>1, <1>4, <1>9, SettingFacts, KeyFacts
  <2>2. /\ val'[k] = now[k] /\ (sch \notin temporary => filed'[k] = now[k])
        /\ sch \in temporary => filed'[k] = filed[k]
        /\ asked'[k] \in {asked[k], Unset} /\ (k \in over => asked'[k] = Unset)
    BY <1>7, <1>9
  <2>3. Legal(k)'
    <3>1. Setting(k[1]).answer # "caps" /\ k[1] # "journal_mode"
      BY <2>1 DEF RowFacts
    <3> QED BY <3>1, <1>3, <1>7, <2>1, <2>2 DEF Legal
  <2>4. Stored(k)'
    <3>1. k[1] # "journal_mode"
      BY <2>1 DEF RowFacts
    <3> QED BY <3>1, <1>2, <2>1, <2>2 DEF Stored
  <2>5. Kept(k)'
    <3> SUFFICES ASSUME asked'[k] # Unset PROVE Kept(k)'
      BY DEF Kept
    <3>1. asked'[k] = asked[k] /\ now[k] \in {val[k], asked[k]} /\ k[2] \in attached
      BY <2>1, <2>2
    <3>2. Get(k[1], k[2]) = val[k] /\ Get(k[1], k[2])' = val'[k]
      <4>1. k[1] # "ckpt_on_close"
        BY <2>1 DEF RowFacts
      <4> QED BY <4>1, <2>1 DEF Get, Coded
    <3>3. now[k] = asked[k]
      BY <3>1, <3>2, <2>1 DEF Kept
    <3>4. Lasting(k)' => sch \notin temporary
      BY <1>2, <2>1 DEF Lasting
    <3> QED BY <3>1, <3>2, <3>3, <3>4, <2>2, <1>2 DEF Kept
  <2> QED BY <2>3, <2>4, <2>5
<1> QED BY <1>3, <1>6, <1>8, <1>9 DEF ConnInv

\* SQLite's count of the changes, or a start anew.
LEMMA CountedFacts ==
  ASSUME ConnInv, NEW anew, NEW k \in SettingKeys
  PROVE  /\ Counted(k, anew) \in Int
         /\ k[1] = "page_size" => Counted(k, anew) \in {1, 4}
         /\ k \notin Recounted(anew) => Counted(k, anew) = val[k]
<1>1. val[k] \in Int /\ Legal(k) /\ RowFacts(Setting(k[1])) /\ Setting(k[1]).name = k[1] /\ k \in DOMAIN val
  BY SettingFacts, KeyFacts DEF ConnInv, ConnTypeOK
<1>2. /\ k[1] = "page_size" => Setting(k[1]).answer # "keeps" /\ val[k] \in {1, 4}
  BY <1>1 DEF Legal, RowFacts
<1> QED BY <1>1, <1>2 DEF Counted, Recounted

LEMMA ConnVacuumed ==
  ASSUME ConnInv, ~ro, NEW sch \in attached, NEW anew, Vacuumed(sch, anew)
  PROVE  ConnInv'
<1> DEFINE late == {k \in DOMAIN val : /\ Setting(k[1]).answer = "delays" /\ delayed[k[1]] # Unset
                                       /\ ~(k[1] = "page_size" /\ sch \in temporary)}
           now == [k \in DOMAIN val |-> IF k \in late THEN delayed[k[1]] ELSE Counted(k, anew)]
           over == {k \in late : delayed[k[1]] # asked[k]} \cup Recounted(anew)
<1>1. Rewritten(sch, now, over)
  BY DEF Vacuumed
<1>2. ASSUME NEW k \in SettingKeys
      PROVE  /\ now[k] \in Int
             /\ k[1] = "page_size" => now[k] \in {1, 4}
             /\ (k \notin over /\ asked[k] # Unset) => now[k] \in {val[k], asked[k]}
  <2>1. /\ k \in DOMAIN val /\ delayed[k[1]] \in Int \cup {Unset}
        /\ k[1] = "page_size" => delayed[k[1]] \in {1, 4, Unset}
    BY KeyFacts DEF ConnInv, ConnTypeOK, Legal
  <2>2. /\ Counted(k, anew) \in Int
        /\ k[1] = "page_size" => Counted(k, anew) \in {1, 4}
        /\ k \notin Recounted(anew) => Counted(k, anew) = val[k]
    BY CountedFacts
  <2>3. now[k] = IF k \in late THEN delayed[k[1]] ELSE Counted(k, anew)
    BY <2>1
  <2>4. k \in late => delayed[k[1]] # Unset
    OBVIOUS
  <2>5. k \notin over => k \notin Recounted(anew) /\ (k \in late => delayed[k[1]] = asked[k])
    OBVIOUS
  <2> HIDE DEF late, now, over
  <2> QED BY <2>1, <2>2, <2>3, <2>4, <2>5
<1> HIDE DEF now, over
<1> QED BY <1>1, <1>2, ConnRewritten

LEMMA ConnChange ==
  ASSUME ConnInv, NEW sch \in Schemas, ChangeSchema(sch)
  PROVE  ConnInv'
<1> DEFINE now == [k \in DOMAIN val |-> Counted(k, resetting)]
<1>1. ~ro /\ sch \in attached /\ Rewritten(sch, now, Recounted(resetting))
  BY DEF ChangeSchema
<1>2. \A k \in SettingKeys :
        /\ now[k] \in Int
        /\ k[1] = "page_size" => now[k] \in {1, 4}
        /\ (k \notin Recounted(resetting) /\ asked[k] # Unset) => now[k] \in {val[k], asked[k]}
  <2>1. \A k \in SettingKeys : now[k] = Counted(k, resetting)
    BY DEF ConnInv, ConnTypeOK
  <2> HIDE DEF now
  <2> QED BY <2>1, CountedFacts
<1> HIDE DEF now
<1> QED BY <1>1, <1>2, ConnRewritten

LEMMA ConnStep == ConnInv /\ [ConnNext]_connVars => ConnInv'
<1> SUFFICES ASSUME ConnInv, [ConnNext]_connVars PROVE ConnInv'
  OBVIOUS
<1>1. Tried \subseteq Int /\ AttachedInv
  BY ConnAssumption DEF ConnInv
<1>2. ASSUME NEW r \in inUse, NEW sch \in Schemas, NEW v \in Tried, NEW fails \in BOOLEAN,
             Set(r.name, sch, v, fails)
      PROVE  ConnInv'
  <2>1. r.name \in SettingNames /\ v \in Int
    BY <1>1 DEF SettingNames
  <2> QED BY <2>1, <1>2, ConnSet
<1>3. ASSUME NEW v \in Tried, SetAllLockingMode(v) PROVE ConnInv'
  BY <1>1, <1>3, ConnSetLocking
<1>4. ASSUME NEW v \in Tried, NEW reached, SetAllJournalMode(v, reached) PROVE ConnInv'
  BY <1>1, <1>4, ConnSetJournal
<1>5. ASSUME NEW flags, NEW emptyPath \in BOOLEAN, NEW fails \in BOOLEAN,
             Readable(emptyPath, IsRo(flags), "main"), Open(flags, emptyPath, fails)
      PROVE  ConnInv'
  BY <1>5, ConnOpen
<1>6. CASE Close
  BY <1>6, ConnClose
<1>7. ASSUME NEW sch \in Schemas, NEW inMemory \in BOOLEAN, Readable(inMemory, ro, sch), Attach(sch, inMemory)
      PROVE  ConnInv'
  BY <1>7, ConnAttach
<1>8. ASSUME NEW sch \in Schemas, Detach(sch) PROVE ConnInv'
  BY <1>8, ConnDetach
<1>9. ASSUME NEW sch \in Schemas, ChangeSchema(sch) PROVE ConnInv'
  BY <1>9, ConnChange
<1>10. ASSUME NEW sch \in Schemas, Vacuum(sch) PROVE ConnInv'
  BY <1>10, ConnVacuumed DEF Vacuum
<1>11. ASSUME NEW fails \in BOOLEAN, Clear(fails) PROVE ConnInv'
  <2>1. CASE fails \/ ro
    BY <1>11, <2>1, ConnSame DEF Clear
  <2>2. CASE ~(fails \/ ro)
    BY <1>1, <1>11, <2>2, ConnVacuumed DEF Clear, AttachedInv
  <2> QED BY <2>1, <2>2
<1>12. CASE UNCHANGED connVars
  BY <1>12, ConnSame DEF connVars
<1> QED
  BY <1>2, <1>3, <1>4, <1>5, <1>6, <1>7, <1>8, <1>9, <1>10, <1>11, <1>12 DEF ConnNext

\* Whole pages that hold a size in bytes, and not one page more.
LEMMA CacheFits ==
  ASSUME ConnInv, {"cache_size", "page_size"} \subseteq SettingNames
  PROVE  LET page == val[<<"page_size", "main">>]
         IN  /\ CachePages("main") * page >= CacheSize("main")
             /\ CachePages("main") = 0 \/ (CachePages("main") - 1) * page < CacheSize("main")
<1> DEFINE page == val[<<"page_size", "main">>]
           n == val[<<"cache_size", "main">>]
<1>1. page \in {1, 4} /\ n \in Int
  <2>1. "main" \in Schemas /\ <<"page_size", "main">> \in SettingKeys /\ <<"cache_size", "main">> \in SettingKeys
    BY ConnAssumption DEF SettingKeys
  <2> QED BY <2>1 DEF ConnInv, ConnTypeOK, Legal
<1>2. /\ CachePages("main") = IF n >= 0 THEN n ELSE (-n * 2 + page - 1) \div page
      /\ CacheSize("main") = IF n <= 0 THEN -n * 2 ELSE n * page
  BY DEF CachePages, CacheSize
<1> HIDE DEF page, n
<1>3. CASE page = 1
  BY <1>1, <1>2, <1>3 DEF page
<1>4. CASE page = 4
  BY <1>1, <1>2, <1>4 DEF page
<1> QED BY <1>1, <1>3, <1>4

\* For any of the settings, databases, numbers and interleaving of the calls with what
\* SQLite is told to do: what a setter that returned has set is what the getter returns
\* until it is set again, is counted on by SQLite or ends with what it was kept in.
THEOREM ReadAsTheyWereSet == ConnSpec => []ReadsAsSet
<1>1. ConnInv => ReadsAsSet
  <2> SUFFICES ASSUME ConnInv, isOpen PROVE ReadsAsSet
    BY DEF ReadsAsSet
  <2>1. ASSUME NEW k \in DOMAIN asked, k[2] \in attached, asked[k] # Unset
        PROVE  Get(k[1], k[2]) = asked[k]
    <3>1. k \in SettingKeys
      BY DEF ConnInv, ConnTypeOK
    <3> QED BY <3>1, <2>1 DEF ConnInv, Kept
  <2> QED BY <2>1, CacheFits DEF ReadsAsSet, SettingNames
<1>2. ConnSpec => []ConnInv
  BY ConnStart, ConnStep, PTL DEF ConnSpec
<1> QED BY <1>1, <1>2, PTL

=============================================================================
