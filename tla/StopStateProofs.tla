--------------------------- MODULE StopStateProofs ---------------------------
(***************************************************************************)
(* Proofs about StopState for any number of threads, callbacks, sources    *)
(* and tokens: nothing is used after it was freed, the state is deleted    *)
(* exactly when nothing refers to it, a callback is executed at most once, *)
(* and its destructor returns only when it is quiet.                       *)
(*                                                                         *)
(* A callback that is popped off the list while its constructor has not    *)
(* stored __state_ yet, or while its destructor waits, is in the hands of  *)
(* two threads at once.  The invariant says what each of them may rely on: *)
(* the signaller holds a callback that is not freed before it was told so  *)
(* through *__isRemoved_, and every thread that is to touch the state      *)
(* holds a reference that the word counts.                                 *)
(*                                                                         *)
(* Every step of Next has a lemma that it keeps StopInv.  Each is laid out *)
(* alike: <1>a what the step does, <1>p what that means for the thread and *)
(* the callback it is about, <1>l what becomes of the list, <1>u that      *)
(* nothing freed was used, then one step per conjunct of StopInv.          *)
(***************************************************************************)
EXTENDS StopState, SequenceTheorems, FiniteSetTheorems, TLAPS

Lives     == {"none", "making", "live", "dying", "dead"}
Pushing   == {"push", "pushMoved"}
Making    == {"push", "pushMoved", "made", "madeMoved"}
Removing  == {"remove", "await", "release"}
OpPCs     == {"none"} \cup Making \cup Removing
Executing == {"mark", "exec", "after"}
RsPCs     == {"none", "pop", "relock"} \cup Executing

StopTypeOK ==
  /\ stop \in BOOLEAN /\ deleted \in BOOLEAN /\ badUse \in BOOLEAN
  /\ locker \in Threads \cup {NoThread} /\ signaller \in Threads \cup {NoThread}
  /\ list \in Seq(Cbs)
  /\ sources \in SUBSET Sources /\ tokens \in SUBSET Tokens
  /\ cbst \in [Cbs -> Lives]
  /\ reg \in [Cbs -> BOOLEAN] /\ finished \in [Cbs -> BOOLEAN]
  /\ isRemoved \in [Cbs -> Threads \cup {NoThread}]
  /\ runs \in [Cbs -> {0, 1}]
  /\ rs \in [Threads -> RsPCs]
  /\ rsSrc \in [Threads -> Sources \cup {NoSrc}]
  /\ cur \in [Threads -> Cbs \cup {NoCb}]
  /\ more \in [Threads -> BOOLEAN] /\ removed \in [Threads -> BOOLEAN]
  /\ op \in [Threads -> OpPCs]
  /\ opCb \in [Threads -> Cbs \cup {NoCb}]
  /\ opTok \in [Threads -> Tokens \cup {NoTok}]

\* request_stop() on t has callback b off the list and is not through with it.
Holds(t, b) == rs[t] \in Executing /\ cur[t] = b

\* A callback request_stop() has not seen.
Fresh(b) == /\ runs[b] = 0 /\ ~finished[b] /\ ~Listed(b)
            /\ \A t \in Threads : ~Holds(t, b)

\* A callback that request_stop() will not touch any more.
Quiet(b) == \A t \in Threads : Holds(t, b) => rs[t] # "mark" /\ removed[t]

ListInv ==
  /\ \A i, j \in 1..Len(list) : list[i] = list[j] => i = j
  /\ \A b \in Cbs : Listed(b) => /\ runs[b] = 0 /\ ~finished[b]
                                 /\ cbst[b] = "making" \/ reg[b]

CbInv(b) ==
  /\ reg[b] => cbst[b] \in {"live", "dying"}
  /\ cbst[b] = "none" => Fresh(b)
  /\ cbst[b] = "dead" => Quiet(b)

\* The constructor or destructor that t runs.
OpInv(t) ==
  /\ op[t] = "none" => opCb[t] = NoCb
  /\ op[t] # "none" => opCb[t] \in Cbs /\ rs[t] \in {"none", "exec"}
  /\ IF op[t] \in Making THEN opTok[t] \in tokens /\ cbst[opCb[t]] = "making"
                         ELSE opTok[t] = NoTok
  /\ op[t] \in Pushing => Fresh(opCb[t])
  /\ op[t] \in Removing => cbst[opCb[t]] = "dying" /\ reg[opCb[t]]
  /\ op[t] \in {"await", "release"} => ~Listed(opCb[t])
  /\ op[t] = "release" => Quiet(opCb[t])

\* No two of them are about one callback, or use a token that is being moved.
PairInv ==
  \A t, u \in Threads :
    /\ opCb[t] = opCb[u] /\ opCb[t] # NoCb => t = u
    /\ op[t] \in {"pushMoved", "madeMoved"} /\ opTok[u] = opTok[t] => t = u

\* The request_stop() that t runs: it is the one that set the flag, its source
\* lives as long as it comes back to the list, and so does its callback, unless
\* the callback was destroyed from within.
RsInv(t) ==
  /\ rs[t] # "none" => stop /\ signaller = t
  /\ rs[t] \in {"pop", "relock"} \/ (rs[t] \in Executing /\ more[t]) =>
       rsSrc[t] \in sources
  /\ rs[t] \in Executing =>
       /\ cur[t] \in Cbs /\ ~Listed(cur[t]) /\ ~finished[cur[t]]
       /\ cbst[cur[t]] \in {"live", "dying"} => reg[cur[t]]
  /\ rs[t] = "mark" => runs[cur[t]] = 0
  /\ rs[t] \in {"exec", "after"} => isRemoved[cur[t]] = t

\* Who works under the lock has it.
LockInv ==
  \A t \in Threads : rs[t] = "pop" \/ op[t] \in Pushing \cup {"remove"} => locker = t

\* The callbacks that have a reference: before __state_ is stored it is there
\* already, unless it is the moved token's.
Counted == {b \in Cbs : reg[b] \/ \E t \in Threads : op[t] = "made" /\ opCb[t] = b}

CountInv ==
  /\ tok = Cardinality(tokens) + Cardinality(Counted)
  /\ src = Cardinality(sources)
  /\ deleted <=> sources = {} /\ tokens = {} /\ Counted = {}

StopInv ==
  /\ StopTypeOK /\ ListInv /\ PairInv /\ LockInv /\ CountInv
  /\ \A b \in Cbs : CbInv(b)
  /\ \A t \in Threads : OpInv(t) /\ RsInv(t)
  /\ ~badUse

-----------------------------------------------------------------------------
LEMMA ListFacts ==
  ASSUME list \in Seq(Cbs)
  PROVE  /\ Len(list) \in Nat /\ DOMAIN list = 1..Len(list)
         /\ \A i \in 1..Len(list) : list[i] \in Cbs
BY LenProperties, ElementOfSeq

\* Taking the head off the list.
LEMMA PopFacts ==
  ASSUME StopTypeOK, ListInv, list # <<>>, list' = Tail(list)
  PROVE  /\ list' \in Seq(Cbs) /\ Head(list) \in Cbs /\ Listed(Head(list))
         /\ \A i, j \in 1..Len(list') : list'[i] = list'[j] => i = j
         /\ \A b \in Cbs : Listed(b)' <=> Listed(b) /\ b # Head(list)
<1>1. /\ list \in Seq(Cbs) /\ Len(list) \in Nat /\ DOMAIN list = 1..Len(list)
      /\ \A i \in 1..Len(list) : list[i] \in Cbs
  BY ListFacts DEF StopTypeOK
<1>2. Len(list) # 0
  BY <1>1, EmptySeq
<1>3. Head(list) = list[1] /\ 1 \in 1..Len(list)
  BY <1>1, <1>2
<1>4. /\ list' \in Seq(Cbs) /\ Len(list') = Len(list) - 1
      /\ \A i \in 1..Len(list') : list'[i] = list[i + 1]
  BY <1>1, HeadTailProperties
<1>5. DOMAIN list' = 1..Len(list')
  BY <1>4, LenProperties
<1>6. \A i \in 1..Len(list') : i + 1 \in 1..Len(list) /\ i + 1 # 1
  BY <1>1, <1>4
<1>7. \A i \in 1..Len(list) : i # 1 => i - 1 \in 1..Len(list') /\ (i - 1) + 1 = i
  BY <1>1, <1>4
<1>8. ASSUME NEW i \in 1..Len(list'), NEW j \in 1..Len(list'), list'[i] = list'[j]
      PROVE  i = j
  <2>1. list[i + 1] = list[j + 1]
    BY <1>4, <1>8
  <2>2. i + 1 = j + 1
    BY <1>6, <2>1 DEF ListInv
  <2> QED BY <1>1, <1>4, <2>2
<1>9. ASSUME NEW b \in Cbs PROVE Listed(b)' <=> Listed(b) /\ b # Head(list)
  <2>1. ASSUME Listed(b)' PROVE Listed(b) /\ b # Head(list)
    <3>1. PICK i \in 1..Len(list') : list'[i] = b
      BY <1>5, <2>1 DEF Listed
    <3>2. list[i + 1] = b /\ i + 1 \in 1..Len(list) /\ i + 1 # 1
      BY <1>4, <1>6, <3>1
    <3> QED BY <1>1, <1>3, <3>2 DEF Listed, ListInv
  <2>2. ASSUME Listed(b), b # Head(list) PROVE Listed(b)'
    <3>1. PICK i \in 1..Len(list) : list[i] = b
      BY <1>1, <2>2 DEF Listed
    <3>2. i - 1 \in 1..Len(list') /\ (i - 1) + 1 = i
      BY <1>3, <1>7, <2>2, <3>1
    <3>3. list'[i - 1] = b
      BY <1>4, <3>1, <3>2
    <3> QED BY <1>5, <3>2, <3>3 DEF Listed
  <2> QED BY <2>1, <2>2
<1>10. Listed(Head(list))
  BY <1>1, <1>3 DEF Listed
<1> QED BY <1>1, <1>3, <1>4, <1>8, <1>9, <1>10

\* Putting a callback before the others.
LEMMA PushFacts ==
  ASSUME StopTypeOK, ListInv, NEW x \in Cbs, ~Listed(x), list' = <<x>> \o list
  PROVE  /\ list' \in Seq(Cbs)
         /\ \A i, j \in 1..Len(list') : list'[i] = list'[j] => i = j
         /\ \A b \in Cbs : Listed(b)' <=> Listed(b) \/ b = x
<1>1. /\ list \in Seq(Cbs) /\ Len(list) \in Nat /\ DOMAIN list = 1..Len(list)
      /\ \A i \in 1..Len(list) : list[i] \in Cbs
  BY ListFacts DEF StopTypeOK
<1>2. <<x>> \in Seq(Cbs) /\ Len(<<x>>) = 1 /\ <<x>>[1] = x
  OBVIOUS
<1>3. /\ list' \in Seq(Cbs) /\ Len(list') = Len(list) + 1
      /\ \A i \in 1..Len(list) + 1 : list'[i] = IF i <= 1 THEN x ELSE list[i - 1]
  BY <1>1, <1>2, ConcatProperties
<1>4. DOMAIN list' = 1..Len(list')
  BY <1>3, LenProperties
<1>5. \A i \in 1..Len(list) + 1 : i = 1 \/ i - 1 \in 1..Len(list)
  BY <1>1
<1>6. \A i \in 1..Len(list) : i + 1 \in 1..Len(list) + 1 /\ ~(i + 1 <= 1) /\ (i + 1) - 1 = i
  BY <1>1
<1>7. \A i \in 1..Len(list) : list[i] # x
  BY <1>1 DEF Listed
<1>8. ASSUME NEW i \in 1..Len(list) + 1, NEW j \in 1..Len(list) + 1, list'[i] = list'[j]
      PROVE  i = j
  <2>1. CASE i = 1 /\ j = 1
    BY <2>1
  <2>2. CASE i = 1 /\ j # 1
    BY <1>3, <1>5, <1>7, <1>8, <2>2
  <2>3. CASE i # 1 /\ j = 1
    BY <1>3, <1>5, <1>7, <1>8, <2>3
  <2>4. CASE i # 1 /\ j # 1
    <3>1. list[i - 1] = list[j - 1] /\ i - 1 \in 1..Len(list) /\ j - 1 \in 1..Len(list)
      BY <1>3, <1>5, <1>8, <2>4
    <3>2. i - 1 = j - 1
      BY <3>1 DEF ListInv
    <3> QED BY <1>1, <3>2
  <2> QED BY <2>1, <2>2, <2>3, <2>4
<1>9. ASSUME NEW b \in Cbs PROVE Listed(b)' <=> Listed(b) \/ b = x
  <2>1. ASSUME Listed(b)' PROVE Listed(b) \/ b = x
    <3>1. PICK i \in 1..Len(list) + 1 : list'[i] = b
      BY <1>3, <1>4, <2>1 DEF Listed
    <3>2. CASE i = 1
      BY <1>1, <1>3, <3>1, <3>2
    <3>3. CASE i # 1
      <4>1. i - 1 \in 1..Len(list) /\ list[i - 1] = b
        BY <1>3, <1>5, <3>1, <3>3
      <4> QED BY <1>1, <4>1 DEF Listed
    <3> QED BY <3>2, <3>3
  <2>2. ASSUME Listed(b) PROVE Listed(b)'
    <3>1. PICK i \in 1..Len(list) : list[i] = b
      BY <1>1, <2>2 DEF Listed
    <3>2. i + 1 \in 1..Len(list') /\ list'[i + 1] = b
      BY <1>3, <1>6, <3>1
    <3> QED BY <1>4, <3>2 DEF Listed
  <2>3. ASSUME b = x PROVE Listed(b)'
    <3>1. 1 \in 1..Len(list') /\ list'[1] = b
      BY <1>1, <1>3, <2>3
    <3> QED BY <1>4, <3>1 DEF Listed
  <2> QED BY <2>1, <2>2, <2>3
<1> QED BY <1>3, <1>8, <1>9

\* Linking the neighbours of a callback to each other.
LEMMA UnlinkFacts ==
  ASSUME StopTypeOK, ListInv, NEW x \in Cbs, Unlink(x)
  PROVE  /\ list' \in Seq(Cbs) /\ Listed(x)
         /\ \A i, j \in 1..Len(list') : list'[i] = list'[j] => i = j
         /\ \A b \in Cbs : Listed(b)' <=> Listed(b) /\ b # x
<1>1. /\ list \in Seq(Cbs) /\ Len(list) \in Nat /\ DOMAIN list = 1..Len(list)
      /\ \A i \in 1..Len(list) : list[i] \in Cbs
  BY ListFacts DEF StopTypeOK
<1> DEFINE n == Len(list)
<1>2. PICK k \in 1..n :
        list[k] = x /\ list' = SubSeq(list, 1, k - 1) \o SubSeq(list, k + 1, n)
  BY <1>1 DEF Unlink
<1> DEFINE p == SubSeq(list, 1, k - 1)
           q == SubSeq(list, k + 1, n)
<1>3. p \in Seq(Cbs) /\ Len(p) = k - 1 /\ \A i \in 1..k - 1 : p[i] = list[i]
  <2>1. \A i \in 1..k - 1 : list[i] \in Cbs
    BY <1>1
  <2>2. /\ p \in Seq(Cbs) /\ Len(p) = IF 1 <= k - 1 THEN (k - 1) - 1 + 1 ELSE 0
        /\ \A i \in 1..(k - 1) - 1 + 1 : p[i] = list[1 + i - 1]
    BY <1>1, <2>1, SubSeqProperties
  <2> HIDE DEF p
  <2>3. Len(p) = k - 1
    BY <1>1, <2>2
  <2> QED BY <2>2, <2>3
<1>4. q \in Seq(Cbs) /\ Len(q) = n - k /\ \A i \in 1..n - k : q[i] = list[k + i]
  <2>1. \A i \in k + 1..n : list[i] \in Cbs
    BY <1>1
  <2>2. /\ q \in Seq(Cbs) /\ Len(q) = IF k + 1 <= n THEN n - (k + 1) + 1 ELSE 0
        /\ \A i \in 1..n - (k + 1) + 1 : q[i] = list[k + 1 + i - 1]
    BY <1>1, <2>1, SubSeqProperties
  <2>3. n \in Nat /\ k \in 1..n
    BY <1>1
  <2> HIDE DEF q, n
  <2>4. Len(q) = n - k /\ n - (k + 1) + 1 = n - k
    BY <2>2, <2>3
  <2>5. \A i \in 1..n - k : k + 1 + i - 1 = k + i
    BY <2>3
  <2> QED BY <2>2, <2>4, <2>5
<1> HIDE DEF p, q
<1>5. /\ list' \in Seq(Cbs) /\ Len(list') = n - 1
      /\ \A i \in 1..n - 1 : list'[i] = IF i < k THEN list[i] ELSE list[i + 1]
  <2>1. list' = p \o q
    BY <1>2 DEF p, q
  <2>2. /\ list' \in Seq(Cbs) /\ Len(list') = (k - 1) + (n - k)
        /\ \A i \in 1..(k - 1) + (n - k) :
             list'[i] = IF i <= k - 1 THEN p[i] ELSE q[i - (k - 1)]
    <3>1. /\ list' \in Seq(Cbs) /\ Len(list') = Len(p) + Len(q)
          /\ \A i \in 1..Len(p) + Len(q) :
               list'[i] = IF i <= Len(p) THEN p[i] ELSE q[i - Len(p)]
      BY <1>3, <1>4, <2>1, ConcatProperties
    <3>2. Len(p) = k - 1 /\ Len(q) = n - k
      BY <1>3, <1>4
    <3> HIDE DEF n
    <3> QED BY <3>1, <3>2
  <2>3. ASSUME NEW i \in 1..n - 1
        PROVE  list'[i] = IF i < k THEN list[i] ELSE list[i + 1]
    <3>1. CASE i < k
      BY <1>1, <1>3, <2>2, <3>1
    <3>2. CASE ~(i < k)
      <4>1. n \in Nat /\ k \in 1..n
        BY <1>1
      <4> HIDE DEF n
      <4>2. /\ i - (k - 1) \in 1..n - k /\ k + (i - (k - 1)) = i + 1
            /\ ~(i <= k - 1) /\ i \in 1..(k - 1) + (n - k)
        BY <3>2, <4>1
      <4>3. list'[i] = q[i - (k - 1)] /\ q[i - (k - 1)] = list[i + 1]
        BY <1>4, <2>2, <4>2
      <4> QED BY <3>2, <4>3
    <3> QED BY <3>1, <3>2
  <2> QED BY <1>1, <2>2, <2>3
<1>6. DOMAIN list' = 1..n - 1
  BY <1>5, LenProperties
<1> DEFINE at(i) == IF i < k THEN i ELSE i + 1
<1>7. \A i \in 1..n - 1 : at(i) \in 1..n /\ at(i) # k /\ list'[i] = list[at(i)]
  BY <1>1, <1>5
<1>8. \A i, j \in 1..n - 1 : at(i) = at(j) => i = j
  BY <1>1
<1>9. \A i \in 1..n : i # k => \E j \in 1..n - 1 : at(j) = i
  <2> SUFFICES ASSUME NEW i \in 1..n, i # k PROVE \E j \in 1..n - 1 : at(j) = i
    OBVIOUS
  <2>1. CASE i < k
    <3>1. i \in 1..n - 1 /\ at(i) = i
      BY <1>1, <2>1
    <3> QED BY <3>1
  <2>2. CASE i > k
    <3>1. i - 1 \in 1..n - 1 /\ at(i - 1) = i
      BY <1>1, <2>2
    <3> QED BY <3>1
  <2> QED BY <1>1, <2>1, <2>2
<1> HIDE DEF at
<1>10. \A i, j \in 1..n - 1 : list'[i] = list'[j] => i = j
  BY <1>7, <1>8 DEF ListInv
<1>11. ASSUME NEW b \in Cbs PROVE Listed(b)' <=> Listed(b) /\ b # x
  <2>1. ASSUME Listed(b)' PROVE Listed(b) /\ b # x
    <3>1. PICK i \in 1..n - 1 : list'[i] = b
      BY <1>6, <2>1 DEF Listed
    <3>2. at(i) \in 1..n /\ at(i) # k /\ list[at(i)] = b
      BY <1>7, <3>1
    <3> QED BY <1>1, <1>2, <3>2 DEF Listed, ListInv
  <2>2. ASSUME Listed(b), b # x PROVE Listed(b)'
    <3>1. PICK i \in 1..n : list[i] = b
      BY <1>1, <2>2 DEF Listed
    <3>2. PICK j \in 1..n - 1 : at(j) = i
      BY <1>2, <1>9, <2>2, <3>1
    <3> QED BY <1>6, <1>7, <3>1, <3>2 DEF Listed
  <2> QED BY <2>1, <2>2
<1>12. Listed(x)
  BY <1>1, <1>2 DEF Listed
<1> QED BY <1>5, <1>10, <1>11, <1>12

-----------------------------------------------------------------------------
LEMMA Finite ==
  ASSUME StopTypeOK
  PROVE  /\ IsFiniteSet(tokens) /\ IsFiniteSet(sources) /\ IsFiniteSet(Counted)
         /\ Cardinality(tokens) \in Nat /\ Cardinality(sources) \in Nat
         /\ Cardinality(Counted) \in Nat
         /\ Cardinality(tokens) + Cardinality(Counted)
              <= Cardinality(Tokens) + Cardinality(Cbs)
         /\ Cardinality(Tokens) \in Nat /\ Cardinality(Cbs) \in Nat
<1>1. /\ tokens \in SUBSET Tokens /\ sources \in SUBSET Sources
      /\ Counted \in SUBSET Cbs
  BY DEF StopTypeOK, Counted
<1>2. /\ IsFiniteSet(tokens) /\ IsFiniteSet(sources) /\ IsFiniteSet(Counted)
      /\ Cardinality(tokens) <= Cardinality(Tokens)
      /\ Cardinality(Counted) <= Cardinality(Cbs)
  BY <1>1, FS_Subset, ConstAssumption
<1>3. /\ Cardinality(tokens) \in Nat /\ Cardinality(sources) \in Nat
      /\ Cardinality(Counted) \in Nat
      /\ Cardinality(Tokens) \in Nat /\ Cardinality(Cbs) \in Nat
  BY <1>2, FS_CardinalityType, ConstAssumption
<1> QED BY <1>2, <1>3

\* The comparisons by which the last reference is recognised.
LEMMA LastReference ==
  ASSUME StopTypeOK, CountInv
  PROVE  /\ tok \in Nat /\ src \in Nat
         /\ (Word < 4 + 4) <=> (src = 0 /\ tok <= 1)
         /\ Locked => ((Word < 2 + 4 + 4) <=> (src = 0 /\ tok <= 1))
         /\ (Word < 4 + SourceInc) <=> (src = 0 \/ (src = 1 /\ tok = 0))
<1>1. /\ tok \in Nat /\ src \in Nat /\ SourceInc \in Nat
      /\ 4 * tok + 7 < SourceInc
  BY Finite, ConstAssumption DEF CountInv
<1> DEFINE f == (IF stop THEN 1 ELSE 0) + (IF Locked THEN 2 ELSE 0)
           m == SourceInc * src
<1>2. f \in 0..3 /\ (Locked => f >= 2)
  OBVIOUS
<1>3. /\ m \in Nat
      /\ src = 0 => m = 0
      /\ src = 1 => m = SourceInc
      /\ src >= 2 => m >= 2 * SourceInc
  BY <1>1
<1>4. Word = f + 4 * tok + m
  BY DEF Word
<1> HIDE DEF f, m
<1>5. SourceInc > 3 /\ (src = 0 \/ src = 1 \/ src >= 2)
  BY <1>1
<1>6. CASE src = 0
  BY <1>1, <1>2, <1>3, <1>4, <1>5, <1>6
<1>7. CASE src = 1
  BY <1>1, <1>2, <1>3, <1>4, <1>5, <1>7
<1>8. CASE src >= 2
  BY <1>1, <1>2, <1>3, <1>4, <1>5, <1>8
<1> QED BY <1>5, <1>6, <1>7, <1>8

\* Dropping the reference of a callback or token with the others untouched.
LEMMA CallbackDropped ==
  ASSUME StopTypeOK, CountInv, NEW x \in Counted, Counted' = Counted \ {x},
         tok' = tok - 1, UNCHANGED <<src, sources, tokens>>,
         deleted' <=> deleted \/ (src = 0 /\ tok <= 1)
  PROVE  CountInv'
<1>1. /\ IsFiniteSet(Counted) /\ Cardinality(Counted) \in Nat
      /\ IsFiniteSet(tokens) /\ Cardinality(tokens) \in Nat
      /\ IsFiniteSet(sources) /\ Cardinality(sources) \in Nat
  BY Finite
<1>2. Cardinality(Counted') = Cardinality(Counted) - 1 /\ IsFiniteSet(Counted')
  BY <1>1, FS_RemoveElement
<1>3. /\ Cardinality(Counted') = 0 <=> Counted' = {}
      /\ Cardinality(tokens) = 0 <=> tokens = {}
      /\ Cardinality(sources) = 0 <=> sources = {}
      /\ Cardinality(Counted') \in Nat
  BY <1>1, <1>2, FS_EmptySet, FS_CardinalityType
<1>4. /\ tok = Cardinality(tokens) + Cardinality(Counted) /\ src = Cardinality(sources)
      /\ ~deleted
  BY DEF CountInv
<1>5. tok' = Cardinality(tokens) + Cardinality(Counted')
  BY <1>1, <1>2, <1>4
<1>6. (src = 0 /\ tok <= 1) <=> (sources = {} /\ tokens = {} /\ Counted' = {})
  BY <1>1, <1>2, <1>3, <1>4
<1> QED BY <1>4, <1>5, <1>6 DEF CountInv

LEMMA TokenDropped ==
  ASSUME StopTypeOK, CountInv, NEW k \in tokens, tokens' = tokens \ {k},
         tok' = tok - 1, UNCHANGED <<src, sources>>, Counted' = Counted,
         deleted' <=> deleted \/ (src = 0 /\ tok <= 1)
  PROVE  CountInv'
<1>1. /\ IsFiniteSet(Counted) /\ Cardinality(Counted) \in Nat
      /\ IsFiniteSet(tokens) /\ Cardinality(tokens) \in Nat
      /\ IsFiniteSet(sources) /\ Cardinality(sources) \in Nat
  BY Finite
<1>2. Cardinality(tokens') = Cardinality(tokens) - 1 /\ IsFiniteSet(tokens')
  BY <1>1, FS_RemoveElement
<1>3. /\ Cardinality(tokens') = 0 <=> tokens' = {}
      /\ Cardinality(Counted) = 0 <=> Counted = {}
      /\ Cardinality(sources) = 0 <=> sources = {}
      /\ Cardinality(tokens') \in Nat
  BY <1>1, <1>2, FS_EmptySet, FS_CardinalityType
<1>4. /\ tok = Cardinality(tokens) + Cardinality(Counted) /\ src = Cardinality(sources)
      /\ ~deleted
  BY DEF CountInv
<1>5. tok' = Cardinality(tokens') + Cardinality(Counted)
  BY <1>1, <1>2, <1>4
<1>6. (src = 0 /\ tok <= 1) <=> (sources = {} /\ tokens' = {} /\ Counted = {})
  BY <1>1, <1>2, <1>3, <1>4
<1> QED BY <1>4, <1>5, <1>6 DEF CountInv

LEMMA SourceDropped ==
  ASSUME StopTypeOK, CountInv, NEW s \in sources, sources' = sources \ {s},
         src' = src - 1, UNCHANGED <<tok, tokens>>, Counted' = Counted,
         deleted' <=> deleted \/ src = 0 \/ (src = 1 /\ tok = 0)
  PROVE  CountInv'
<1>1. /\ IsFiniteSet(Counted) /\ Cardinality(Counted) \in Nat
      /\ IsFiniteSet(tokens) /\ Cardinality(tokens) \in Nat
      /\ IsFiniteSet(sources) /\ Cardinality(sources) \in Nat
  BY Finite
<1>2. Cardinality(sources') = Cardinality(sources) - 1 /\ IsFiniteSet(sources')
  BY <1>1, FS_RemoveElement
<1>3. /\ Cardinality(sources') = 0 <=> sources' = {}
      /\ Cardinality(Counted) = 0 <=> Counted = {}
      /\ Cardinality(tokens) = 0 <=> tokens = {}
      /\ Cardinality(sources') \in Nat
  BY <1>1, <1>2, FS_EmptySet, FS_CardinalityType
<1>4. /\ tok = Cardinality(tokens) + Cardinality(Counted) /\ src = Cardinality(sources)
      /\ ~deleted
  BY DEF CountInv
<1>5. src' = Cardinality(sources') /\ src # 0
  BY <1>1, <1>2, <1>3, <1>4
<1>6. (src = 1 /\ tok = 0) <=> (sources' = {} /\ tokens = {} /\ Counted = {})
  BY <1>1, <1>2, <1>3, <1>4
<1> QED BY <1>4, <1>5, <1>6 DEF CountInv

-----------------------------------------------------------------------------
\* The signaller holds the callback: it has not been executed, nor freed.
LEMMA MarkKeeps ==
  ASSUME StopInv, NEW t \in Threads, Mark(t)
  PROVE  StopInv'
<1> USE DEF StopInv
<1>a. /\ rs[t] = "mark" /\ badUse' = (badUse \/ cbst[cur[t]] = "dead")
      /\ isRemoved' = [isRemoved EXCEPT ![cur[t]] = t]
      /\ removed' = [removed EXCEPT ![t] = FALSE]
      /\ runs' = [runs EXCEPT ![cur[t]] = @ + 1]
      /\ rs' = [rs EXCEPT ![t] = "exec"]
      /\ UNCHANGED <<stop, locker, tok, src, list, signaller, deleted, sources,
                     tokens, cbst, reg, finished, rsSrc, cur, more, op, opCb, opTok>>
  BY DEF Mark, UseCb, word, handles, opVars
<1>t. StopTypeOK /\ NoThread \notin Threads /\ NoCb \notin Cbs /\ NoTok \notin Tokens
  BY ConstAssumption
<1>p. /\ cur[t] \in Cbs /\ runs[cur[t]] = 0 /\ runs'[cur[t]] = 1
      /\ isRemoved'[cur[t]] = t /\ removed'[t] = FALSE /\ rs'[t] = "exec"
      /\ \A b \in Cbs \ {cur[t]} : isRemoved'[b] = isRemoved[b] /\ runs'[b] = runs[b]
      /\ \A u \in Threads \ {t} : rs'[u] = rs[u] /\ removed'[u] = removed[u]
      /\ rs[t] = "mark" /\ op[t] = "none" /\ signaller = t
  BY <1>a, <1>t DEF RsInv, OpInv, Executing, StopTypeOK
<1>l. \A d \in Cbs : Listed(d)' <=> Listed(d)
  BY <1>a DEF Listed
<1>u. ~badUse'
  BY <1>a, <1>t DEF CbInv, Quiet, Holds, Executing, StopTypeOK, RsInv
<1>1. StopTypeOK'
  <2>1. /\ runs' \in [Cbs -> {0, 1}] /\ isRemoved' \in [Cbs -> Threads \cup {NoThread}]
        /\ removed' \in [Threads -> BOOLEAN] /\ rs' \in [Threads -> RsPCs]
    BY <1>t, <1>a, <1>p DEF StopTypeOK, RsPCs, Executing
  <2> QED BY <1>a, <1>u, <2>1 DEF StopTypeOK
<1>2. ListInv'
  <2>1. ASSUME NEW b \in Cbs, Listed(b) PROVE b # cur[t]
    BY <1>a, <2>1 DEF RsInv, Executing
  <2> QED BY <1>t, <1>a, <1>p, <1>l, <2>1 DEF ListInv
<1>3. PairInv'
  BY <1>t, <1>a, <1>p DEF PairInv
<1>4. LockInv'
  BY <1>t, <1>a, <1>p DEF LockInv, Making, Pushing, Removing, Executing
<1>5. CountInv'
  BY <1>t, <1>a, <1>p DEF CountInv, Counted
<1>6. ASSUME NEW x \in Cbs PROVE CbInv(x)'
  <2>1. CbInv(x) /\ \A u \in Threads : Holds(u, x)' => Holds(u, x)
    BY <1>t, <1>a, <1>p DEF Holds, Executing
  <2>2. Fresh(x) => (cbst'[x] = "none" => Fresh(x)')
    BY <1>t, <1>a, <1>p, <1>l, <2>1 DEF Fresh, CbInv, Holds, Executing
  <2>3. Quiet(x) => (cbst'[x] = "dead" => Quiet(x)')
    BY <1>t, <1>a, <1>p, <2>1 DEF Quiet, Holds, CbInv
  <2> QED BY <1>t, <1>a, <1>p, <2>1, <2>2, <2>3 DEF CbInv
<1>7. ASSUME NEW u \in Threads PROVE OpInv(u)'
  BY <1>t, <1>a, <1>p, <1>l DEF OpInv, Fresh, Quiet, Holds, Making, Pushing, Removing, Executing
<1>8. ASSUME NEW u \in Threads PROVE RsInv(u)'
  BY <1>t, <1>a, <1>p, <1>l DEF RsInv, Making, Pushing, Removing, Executing
<1>9. ~badUse'
  BY <1>u
<1> QED BY <1>1, <1>2, <1>3, <1>4, <1>5, <1>6, <1>7, <1>8, <1>9

\* The callback returns.
LEMMA ExecReturnKeeps ==
  ASSUME StopInv, NEW t \in Threads, ExecReturn(t)
  PROVE  StopInv'
<1> USE DEF StopInv
<1>a. /\ rs[t] = "exec" /\ op[t] = "none" /\ rs' = [rs EXCEPT ![t] = "after"]
      /\ UNCHANGED <<stop, locker, tok, src, list, signaller, deleted, sources,
                     tokens, cbst, reg, isRemoved, finished, rsSrc, cur, more,
                     removed, op, opCb, opTok, runs, badUse>>
  BY DEF ExecReturn, word, handles, cbVars, opVars
<1>t. StopTypeOK /\ NoThread \notin Threads /\ NoCb \notin Cbs /\ NoTok \notin Tokens
  BY ConstAssumption
<1>p. /\ rs'[t] = "after" /\ rs[t] = "exec" /\ op[t] = "none"
      /\ \A u \in Threads \ {t} : rs'[u] = rs[u]
  BY <1>a, <1>t DEF StopTypeOK
<1>l. \A d \in Cbs : Listed(d)' <=> Listed(d)
  BY <1>a DEF Listed
<1>u. ~badUse'
  BY <1>a
<1>1. StopTypeOK'
  BY <1>t, <1>a DEF StopTypeOK, Lives, OpPCs, RsPCs, Making, Pushing, Removing, Executing
<1>2. ListInv'
  BY <1>t, <1>a, <1>p, <1>l DEF ListInv
<1>3. PairInv'
  BY <1>t, <1>a, <1>p DEF PairInv
<1>4. LockInv'
  BY <1>t, <1>a, <1>p DEF LockInv, Making, Pushing, Removing, Executing
<1>5. CountInv'
  BY <1>t, <1>a, <1>p DEF CountInv, Counted
<1>6. ASSUME NEW x \in Cbs PROVE CbInv(x)'
  <2>1. CbInv(x) /\ \A u \in Threads : Holds(u, x)' => Holds(u, x)
    BY <1>t, <1>a, <1>p DEF Holds, Executing
  <2>2. Fresh(x) => (cbst'[x] = "none" => Fresh(x)')
    BY <1>t, <1>a, <1>p, <1>l, <2>1 DEF Fresh, CbInv, Holds, Executing
  <2>3. Quiet(x) => (cbst'[x] = "dead" => Quiet(x)')
    BY <1>t, <1>a, <1>p, <2>1 DEF Quiet, Holds, CbInv
  <2> QED BY <1>t, <1>a, <1>p, <2>1, <2>2, <2>3 DEF CbInv
<1>7. ASSUME NEW u \in Threads PROVE OpInv(u)'
  BY <1>t, <1>a, <1>p, <1>l DEF OpInv, Fresh, Quiet, Holds, Making, Pushing, Removing, Executing
<1>8. ASSUME NEW u \in Threads PROVE RsInv(u)'
  BY <1>t, <1>a, <1>p, <1>l DEF RsInv, Making, Pushing, Removing, Executing
<1>9. ~badUse'
  BY <1>u
<1> QED BY <1>1, <1>2, <1>3, <1>4, <1>5, <1>6, <1>7, <1>8, <1>9

\* The signaller is through with the callback, which is freed only if it said so.
LEMMA AfterKeeps ==
  ASSUME StopInv, NEW t \in Threads, After(t)
  PROVE  StopInv'
<1> USE DEF StopInv
<1>a. /\ rs[t] = "after" /\ cur' = [cur EXCEPT ![t] = NoCb]
      /\ \/ /\ ~removed[t] /\ badUse' = (badUse \/ cbst[cur[t]] = "dead")
            /\ isRemoved' = [isRemoved EXCEPT ![cur[t]] = NoThread]
            /\ finished' = [finished EXCEPT ![cur[t]] = TRUE]
         \/ UNCHANGED <<badUse, isRemoved, finished>>
      /\ \/ /\ more[t] /\ rs' = [rs EXCEPT ![t] = "relock"] /\ UNCHANGED rsSrc
         \/ /\ ~more[t] /\ rs' = [rs EXCEPT ![t] = "none"]
            /\ rsSrc' = [rsSrc EXCEPT ![t] = NoSrc]
      /\ UNCHANGED <<stop, locker, tok, src, list, signaller, deleted, sources,
                     tokens, cbst, reg, more, removed, op, opCb, opTok, runs>>
  BY DEF After, UseCb, word, handles, opVars
<1>t. StopTypeOK /\ NoThread \notin Threads /\ NoCb \notin Cbs /\ NoTok \notin Tokens
  BY ConstAssumption
<1>p. /\ cur[t] \in Cbs /\ rs[t] = "after" /\ op[t] = "none" /\ signaller = t /\ stop
      /\ cur'[t] = NoCb
      /\ \/ rs'[t] = "relock" /\ more[t] /\ rsSrc'[t] = rsSrc[t] /\ rsSrc[t] \in sources
         \/ rs'[t] = "none"
      /\ \A u \in Threads \ {t} : /\ rs'[u] = rs[u] /\ cur'[u] = cur[u]
                                   /\ rsSrc'[u] = rsSrc[u] /\ rs[u] = "none"
      /\ \A b \in Cbs \ {cur[t]} : finished'[b] = finished[b]
      /\ ~Listed(cur[t])
  <2>1. /\ cur[t] \in Cbs /\ ~Listed(cur[t]) /\ op[t] = "none" /\ signaller = t /\ stop
        /\ more[t] => rsSrc[t] \in sources
        /\ \A u \in Threads \ {t} : rs[u] = "none"
    BY <1>a, <1>t DEF RsInv, OpInv, Executing
  <2> QED BY <1>a, <1>t, <2>1 DEF StopTypeOK
<1>l. \A d \in Cbs : Listed(d)' <=> Listed(d)
  BY <1>a DEF Listed
<1>u. ~badUse'
  BY <1>a, <1>t DEF CbInv, Quiet, Holds, Executing, RsInv
<1>1. StopTypeOK'
  BY <1>t, <1>a, ZenonT(40) DEF StopTypeOK, Lives, OpPCs, RsPCs, Making, Pushing, Removing, Executing
<1>2. ListInv'
  BY <1>t, <1>a, <1>p, <1>l DEF ListInv
<1>3. PairInv'
  BY <1>t, <1>a, <1>p DEF PairInv
<1>4. LockInv'
  BY <1>t, <1>a, <1>p DEF LockInv, Making, Pushing, Removing, Executing
<1>5. CountInv'
  BY <1>t, <1>a, <1>p DEF CountInv, Counted
<1>6. ASSUME NEW x \in Cbs PROVE CbInv(x)'
  <2>1. CbInv(x) /\ \A u \in Threads : Holds(u, x)' => Holds(u, x)
    BY <1>t, <1>a, <1>p DEF Holds, Executing
  <2>2. Fresh(x) => (cbst'[x] = "none" => Fresh(x)')
    BY <1>t, <1>a, <1>p, <1>l, <2>1 DEF Fresh, CbInv, Holds, Executing
  <2>3. Quiet(x) => (cbst'[x] = "dead" => Quiet(x)')
    BY <1>t, <1>a, <1>p, <2>1 DEF Quiet, Holds, CbInv
  <2> QED BY <1>t, <1>a, <1>p, <2>1, <2>2, <2>3 DEF CbInv
<1>7. ASSUME NEW u \in Threads PROVE OpInv(u)'
  BY <1>t, <1>a, <1>p, <1>l DEF OpInv, Fresh, Quiet, Holds, Making, Pushing, Removing, Executing
<1>8. ASSUME NEW u \in Threads PROVE RsInv(u)'
  BY <1>t, <1>a, <1>p, <1>l DEF RsInv, Making, Pushing, Removing, Executing
<1>9. ~badUse'
  BY <1>u
<1> QED BY <1>1, <1>2, <1>3, <1>4, <1>5, <1>6, <1>7, <1>8, <1>9

\* The first request takes the lock; no one has been signalling before.
LEMMA RequestStopKeeps ==
  ASSUME StopInv, NEW t \in Threads, NEW s \in Sources, RequestStop(t, s), ~stop
  PROVE  StopInv'
<1> USE DEF StopInv
<1>a. /\ UserCode(t) /\ s \in sources /\ locker = NoThread
      /\ badUse' = (badUse \/ deleted)
      /\ stop' = TRUE /\ locker' = t /\ signaller' = t
      /\ rs' = [rs EXCEPT ![t] = "pop"] /\ rsSrc' = [rsSrc EXCEPT ![t] = s]
      /\ UNCHANGED <<tok, src, list, deleted, sources, tokens, cbst, reg,
                     isRemoved, finished, cur, more, removed, op, opCb, opTok,
                     runs>>
  BY DEF RequestStop, UseState, Locked, word, handles, cbVars, opVars
<1>t. StopTypeOK /\ NoThread \notin Threads /\ NoCb \notin Cbs /\ NoTok \notin Tokens
  BY ConstAssumption
<1>p. /\ op[t] = "none" /\ s \in sources /\ locker = NoThread
      /\ rs'[t] = "pop" /\ rsSrc'[t] = s
      /\ \A u \in Threads : rs[u] = "none"
      /\ \A u \in Threads \ {t} : rs'[u] = "none" /\ rsSrc'[u] = rsSrc[u]
      /\ \A u \in Threads : op[u] \notin {"push", "pushMoved", "remove"}
  <2>1. \A u \in Threads : rs[u] = "none"
    BY DEF RsInv
  <2>2. \A u \in Threads : op[u] \notin {"push", "pushMoved", "remove"}
    BY <1>a, <1>t DEF LockInv, Pushing
  <2> QED BY <1>a, <1>t, <2>1, <2>2 DEF StopTypeOK, UserCode
<1>l. \A d \in Cbs : Listed(d)' <=> Listed(d)
  BY <1>a DEF Listed
<1>u. ~badUse'
  BY <1>a DEF CountInv
<1>1. StopTypeOK'
  BY <1>t, <1>a DEF StopTypeOK, Lives, OpPCs, RsPCs, Making, Pushing, Removing, Executing
<1>2. ListInv'
  BY <1>t, <1>a, <1>p, <1>l DEF ListInv
<1>3. PairInv'
  BY <1>t, <1>a, <1>p DEF PairInv
<1>4. LockInv'
  BY <1>t, <1>a, <1>p DEF LockInv, Making, Pushing, Removing, Executing
<1>5. CountInv'
  BY <1>t, <1>a, <1>p DEF CountInv, Counted
<1>6. ASSUME NEW x \in Cbs PROVE CbInv(x)'
  <2>1. CbInv(x) /\ \A u \in Threads : Holds(u, x)' => Holds(u, x)
    BY <1>t, <1>a, <1>p DEF Holds, Executing
  <2>2. Fresh(x) => (cbst'[x] = "none" => Fresh(x)')
    BY <1>t, <1>a, <1>p, <1>l, <2>1 DEF Fresh, CbInv, Holds, Executing
  <2>3. Quiet(x) => (cbst'[x] = "dead" => Quiet(x)')
    BY <1>t, <1>a, <1>p, <2>1 DEF Quiet, Holds, CbInv
  <2> QED BY <1>t, <1>a, <1>p, <2>1, <2>2, <2>3 DEF CbInv
<1>7. ASSUME NEW u \in Threads PROVE OpInv(u)'
  BY <1>t, <1>a, <1>p, <1>l DEF OpInv, Fresh, Quiet, Holds, Making, Pushing, Removing, Executing
<1>8. ASSUME NEW u \in Threads PROVE RsInv(u)'
  BY <1>t, <1>a, <1>p, <1>l DEF RsInv, Making, Pushing, Removing, Executing
<1>9. ~badUse'
  BY <1>u
<1> QED BY <1>1, <1>2, <1>3, <1>4, <1>5, <1>6, <1>7, <1>8, <1>9

\* The head of the list passes into the hands of the signaller.
LEMMA PopKeeps ==
  ASSUME StopInv, NEW t \in Threads, Pop(t), list # <<>>
  PROVE  StopInv'
<1> USE DEF StopInv
<1>a. /\ rs[t] = "pop" /\ locker' = NoThread /\ badUse' = (badUse \/ deleted)
      /\ cur' = [cur EXCEPT ![t] = Head(list)]
      /\ more' = [more EXCEPT ![t] = Tail(list) # <<>>]
      /\ list' = Tail(list) /\ rs' = [rs EXCEPT ![t] = "mark"]
      /\ UNCHANGED <<stop, tok, src, signaller, deleted, sources, tokens,
                     cbst, reg, isRemoved, finished, rsSrc, removed, op, opCb,
                     opTok, runs>>
  BY DEF Pop, UseState, handles, cbVars, opVars
<1>t. StopTypeOK /\ NoThread \notin Threads /\ NoCb \notin Cbs /\ NoTok \notin Tokens
  BY ConstAssumption
<1>p. /\ rs[t] = "pop" /\ locker = t /\ op[t] = "none" /\ stop /\ signaller = t
      /\ Head(list) \in Cbs /\ Listed(Head(list)) /\ rsSrc[t] \in sources
      /\ runs[Head(list)] = 0 /\ ~finished[Head(list)]
      /\ cbst[Head(list)] = "making" \/ reg[Head(list)]
      /\ cur'[t] = Head(list) /\ rs'[t] = "mark" /\ more'[t] \in BOOLEAN
      /\ \A u \in Threads \ {t} : /\ rs'[u] = "none" /\ rs[u] = "none"
                                   /\ cur'[u] = cur[u] /\ more'[u] = more[u]
      /\ \A u \in Threads : op[u] \notin {"push", "pushMoved", "remove"}
  <2>1. Head(list) \in Cbs /\ Listed(Head(list))
    BY <1>a, PopFacts
  <2>2. locker = t /\ op[t] = "none" /\ stop /\ signaller = t /\ rsSrc[t] \in sources
    BY <1>a, <1>t DEF LockInv, OpInv, RsInv, StopTypeOK
  <2>3. \A u \in Threads \ {t} : rs[u] = "none"
    BY <2>2 DEF RsInv
  <2>4. \A u \in Threads : op[u] \notin {"push", "pushMoved", "remove"}
    BY <2>2 DEF LockInv, Pushing
  <2>5. /\ runs[Head(list)] = 0 /\ ~finished[Head(list)]
        /\ cbst[Head(list)] = "making" \/ reg[Head(list)]
    BY <2>1 DEF ListInv
  <2> HIDE DEF StopInv
  <2>6. /\ cur'[t] = Head(list) /\ rs'[t] = "mark" /\ more'[t] \in BOOLEAN
        /\ \A u \in Threads \ {t} : /\ rs'[u] = rs[u]
                                     /\ cur'[u] = cur[u] /\ more'[u] = more[u]
    BY <1>a, <1>t DEF StopTypeOK
  <2> QED BY <1>a, <2>1, <2>2, <2>3, <2>4, <2>5, <2>6
<1>l. \A b \in Cbs : Listed(b)' <=> Listed(b) /\ b # Head(list)
  BY <1>a, PopFacts
<1>u. ~badUse'
  BY <1>a, <1>p DEF CountInv
<1>1. StopTypeOK'
  <2>1. list' \in Seq(Cbs)
    BY <1>a, PopFacts
  <2>2. more' \in [Threads -> BOOLEAN]
    BY <1>a, <1>t DEF StopTypeOK
  <2> QED BY <1>a, <1>p, <1>t, <2>1, <2>2 DEF StopTypeOK, RsPCs, Executing
<1>2. ListInv'
  BY <1>a, <1>p, <1>l, PopFacts DEF ListInv
<1>3. PairInv'
  BY <1>t, <1>a, <1>p DEF PairInv
<1>4. LockInv'
  BY <1>t, <1>a, <1>p DEF LockInv, Making, Pushing, Removing, Executing
<1>5. CountInv'
  BY <1>t, <1>a, <1>p DEF CountInv, Counted
<1>6. ASSUME NEW x \in Cbs PROVE CbInv(x)'
  <2>1. CASE x = Head(list)
    BY <1>t, <1>a, <1>p, <2>1 DEF CbInv
  <2>2. CASE x # Head(list)
    <3>1. CbInv(x) /\ \A u \in Threads : Holds(u, x)' => Holds(u, x)
      BY <1>t, <1>a, <1>p, <2>2 DEF Holds, Executing
    <3>2. Fresh(x) => Fresh(x)'
      BY <1>t, <1>a, <1>p, <1>l, <3>1 DEF Fresh
    <3>3. Quiet(x) => Quiet(x)'
      BY <1>t, <1>a, <1>p, <3>1 DEF Quiet, Holds, Executing
    <3> QED BY <1>t, <1>a, <3>1, <3>2, <3>3 DEF CbInv
  <2> QED BY <2>1, <2>2
<1>7. ASSUME NEW u \in Threads PROVE OpInv(u)'
  BY <1>t, <1>a, <1>p, <1>l DEF OpInv, Fresh, Quiet, Holds, Making, Pushing, Removing, Executing
<1>8. ASSUME NEW u \in Threads PROVE RsInv(u)'
  BY <1>t, <1>a, <1>p, <1>l, SMTT(30) DEF RsInv, Making, Pushing, Removing, Executing
<1>9. ~badUse'
  BY <1>u
<1> QED BY <1>1, <1>2, <1>3, <1>4, <1>5, <1>6, <1>7, <1>8, <1>9

\* Nothing is left: request_stop() returns.
LEMMA PopNoneKeeps ==
  ASSUME StopInv, NEW t \in Threads, Pop(t), list = <<>>
  PROVE  StopInv'
<1> USE DEF StopInv
<1>a. /\ rs[t] = "pop" /\ locker' = NoThread /\ badUse' = (badUse \/ deleted)
      /\ rs' = [rs EXCEPT ![t] = "none"] /\ rsSrc' = [rsSrc EXCEPT ![t] = NoSrc]
      /\ UNCHANGED <<stop, tok, src, list, signaller, deleted, sources,
                     tokens, cbst, reg, isRemoved, finished, cur, more,
                     removed, op, opCb, opTok, runs>>
  BY DEF Pop, UseState, handles, cbVars, opVars
<1>t. StopTypeOK /\ NoThread \notin Threads /\ NoCb \notin Cbs /\ NoTok \notin Tokens
  BY ConstAssumption
<1>p. /\ rs[t] = "pop" /\ locker = t /\ op[t] = "none" /\ rsSrc[t] \in sources
      /\ rs'[t] = "none"
      /\ \A u \in Threads \ {t} : rs'[u] = rs[u] /\ rsSrc'[u] = rsSrc[u]
      /\ \A u \in Threads : op[u] \notin {"push", "pushMoved", "remove"}
  <2>2. locker = t /\ op[t] = "none" /\ rsSrc[t] \in sources
    BY <1>a, <1>t DEF LockInv, OpInv, RsInv, StopTypeOK
  <2>4. \A u \in Threads : op[u] \notin {"push", "pushMoved", "remove"}
    BY <2>2 DEF LockInv, Pushing
  <2> QED BY <1>a, <1>t, <2>2, <2>4 DEF StopTypeOK
<1>l. \A d \in Cbs : Listed(d)' <=> Listed(d)
  BY <1>a DEF Listed
<1>u. ~badUse'
  BY <1>a, <1>p DEF CountInv
<1>1. StopTypeOK'
  BY <1>t, <1>a DEF StopTypeOK, Lives, OpPCs, RsPCs, Making, Pushing, Removing, Executing
<1>2. ListInv'
  BY <1>t, <1>a, <1>p, <1>l DEF ListInv
<1>3. PairInv'
  BY <1>t, <1>a, <1>p DEF PairInv
<1>4. LockInv'
  BY <1>t, <1>a, <1>p DEF LockInv, Making, Pushing, Removing, Executing
<1>5. CountInv'
  BY <1>t, <1>a, <1>p DEF CountInv, Counted
<1>6. ASSUME NEW x \in Cbs PROVE CbInv(x)'
  <2>1. CbInv(x) /\ \A u \in Threads : Holds(u, x)' => Holds(u, x)
    BY <1>t, <1>a, <1>p DEF Holds, Executing
  <2>2. Fresh(x) => (cbst'[x] = "none" => Fresh(x)')
    BY <1>t, <1>a, <1>p, <1>l, <2>1 DEF Fresh, CbInv, Holds, Executing
  <2>3. Quiet(x) => (cbst'[x] = "dead" => Quiet(x)')
    BY <1>t, <1>a, <1>p, <2>1 DEF Quiet, Holds, CbInv
  <2> QED BY <1>t, <1>a, <1>p, <2>1, <2>2, <2>3 DEF CbInv
<1>7. ASSUME NEW u \in Threads PROVE OpInv(u)'
  BY <1>t, <1>a, <1>p, <1>l DEF OpInv, Fresh, Quiet, Holds, Making, Pushing, Removing, Executing
<1>8. ASSUME NEW u \in Threads PROVE RsInv(u)'
  BY <1>t, <1>a, <1>p, <1>l DEF RsInv, Making, Pushing, Removing, Executing
<1>9. ~badUse'
  BY <1>u
<1> QED BY <1>1, <1>2, <1>3, <1>4, <1>5, <1>6, <1>7, <1>8, <1>9

\* The signaller comes back to the list: its source is still there.
LEMMA RelockKeeps ==
  ASSUME StopInv, NEW t \in Threads, Relock(t)
  PROVE  StopInv'
<1> USE DEF StopInv
<1>a. /\ rs[t] = "relock" /\ locker = NoThread /\ locker' = t
      /\ badUse' = (badUse \/ deleted) /\ rs' = [rs EXCEPT ![t] = "pop"]
      /\ UNCHANGED <<stop, tok, src, list, signaller, deleted, sources,
                     tokens, cbst, reg, isRemoved, finished, rsSrc, cur, more,
                     removed, op, opCb, opTok, runs>>
  BY DEF Relock, UseState, Locked, handles, cbVars, opVars
<1>t. StopTypeOK /\ NoThread \notin Threads /\ NoCb \notin Cbs /\ NoTok \notin Tokens
  BY ConstAssumption
<1>p. /\ rs[t] = "relock" /\ op[t] = "none" /\ rsSrc[t] \in sources
      /\ rs'[t] = "pop" /\ \A u \in Threads \ {t} : rs'[u] = rs[u]
      /\ \A u \in Threads : rs[u] # "pop" /\ op[u] \notin {"push", "pushMoved", "remove"}
  <2>2. op[t] = "none" /\ rsSrc[t] \in sources
    BY <1>a, <1>t DEF OpInv, RsInv, StopTypeOK
  <2>4. \A u \in Threads : rs[u] # "pop" /\ op[u] \notin {"push", "pushMoved", "remove"}
    BY <1>a, <1>t DEF LockInv, Pushing
  <2> QED BY <1>a, <1>t, <2>2, <2>4 DEF StopTypeOK
<1>l. \A d \in Cbs : Listed(d)' <=> Listed(d)
  BY <1>a DEF Listed
<1>u. ~badUse'
  BY <1>a, <1>p DEF CountInv
<1>1. StopTypeOK'
  BY <1>t, <1>a DEF StopTypeOK, Lives, OpPCs, RsPCs, Making, Pushing, Removing, Executing
<1>2. ListInv'
  BY <1>t, <1>a, <1>p, <1>l DEF ListInv
<1>3. PairInv'
  BY <1>t, <1>a, <1>p DEF PairInv
<1>4. LockInv'
  BY <1>t, <1>a, <1>p DEF LockInv, Making, Pushing, Removing, Executing
<1>5. CountInv'
  BY <1>t, <1>a, <1>p DEF CountInv, Counted
<1>6. ASSUME NEW x \in Cbs PROVE CbInv(x)'
  <2>1. CbInv(x) /\ \A u \in Threads : Holds(u, x)' => Holds(u, x)
    BY <1>t, <1>a, <1>p DEF Holds, Executing
  <2>2. Fresh(x) => (cbst'[x] = "none" => Fresh(x)')
    BY <1>t, <1>a, <1>p, <1>l, <2>1 DEF Fresh, CbInv, Holds, Executing
  <2>3. Quiet(x) => (cbst'[x] = "dead" => Quiet(x)')
    BY <1>t, <1>a, <1>p, <2>1 DEF Quiet, Holds, CbInv
  <2> QED BY <1>t, <1>a, <1>p, <2>1, <2>2, <2>3 DEF CbInv
<1>7. ASSUME NEW u \in Threads PROVE OpInv(u)'
  BY <1>t, <1>a, <1>p, <1>l DEF OpInv, Fresh, Quiet, Holds, Making, Pushing, Removing, Executing
<1>8. ASSUME NEW u \in Threads PROVE RsInv(u)'
  BY <1>t, <1>a, <1>p, <1>l DEF RsInv, Making, Pushing, Removing, Executing
<1>9. ~badUse'
  BY <1>u
<1> QED BY <1>1, <1>2, <1>3, <1>4, <1>5, <1>6, <1>7, <1>8, <1>9

\* A stop was requested or never will be: the constructor is through at once.
LEMMA AtOnceKeeps ==
  ASSUME StopInv, NEW t \in Threads, NEW b \in Cbs, NEW k \in Tokens, NEW pushOp \in Pushing,
         Construct(t, b, k, pushOp), stop \/ src = 0
  PROVE  StopInv'
<1> USE DEF StopInv
<1>a. /\ UserCode(t) /\ k \in tokens /\ cbst[b] = "none" /\ badUse' = (badUse \/ deleted)
      /\ cbst' = [cbst EXCEPT ![b] = "live"]
      /\ runs' = [runs EXCEPT ![b] = @ + 1] \/ UNCHANGED runs
      /\ UNCHANGED <<stop, locker, tok, src, list, signaller, deleted,
                     sources, tokens, reg, isRemoved, finished, rs, rsSrc,
                     cur, more, removed, op, opCb, opTok>>
  <2>1. src = 0 => ~(src > 0)
    BY DEF CountInv
  <2> QED BY <2>1
    DEF Construct, UseState, handles, word, rsVars, opVars
<1>t. StopTypeOK /\ NoThread \notin Threads /\ NoCb \notin Cbs /\ NoTok \notin Tokens
  BY ConstAssumption
<1>p. /\ cbst[b] = "none" /\ cbst'[b] = "live" /\ runs[b] = 0 /\ runs'[b] \in {0, 1}
      /\ \A d \in Cbs \ {b} : cbst'[d] = cbst[d] /\ runs'[d] = runs[d]
      /\ ~reg[b] /\ ~Listed(b) /\ \A u \in Threads : ~Holds(u, b) /\ opCb[u] # b
  <2>1. Fresh(b) /\ ~reg[b]
    BY <1>a DEF CbInv
  <2>2. \A u \in Threads : opCb[u] # b
    BY <1>a, <1>t DEF OpInv, StopTypeOK, OpPCs, Making, Removing
  <2> QED BY <1>a, <1>t, <2>1, <2>2 DEF StopTypeOK, Fresh
<1>l. \A d \in Cbs : Listed(d)' <=> Listed(d)
  BY <1>a DEF Listed
<1>u. ~badUse'
  BY <1>a DEF CountInv
<1>1. StopTypeOK'
  <2>1. cbst' \in [Cbs -> Lives] /\ runs' \in [Cbs -> {0, 1}]
    BY <1>t, <1>a, <1>p DEF StopTypeOK, Lives
  <2> QED BY <1>t, <1>a, <1>u, <2>1 DEF StopTypeOK
<1>2. ListInv'
  BY <1>t, <1>a, <1>p, <1>l DEF ListInv
<1>3. PairInv'
  BY <1>t, <1>a, <1>p DEF PairInv
<1>4. LockInv'
  BY <1>t, <1>a, <1>p DEF LockInv, Making, Pushing, Removing, Executing
<1>5. CountInv'
  BY <1>t, <1>a, <1>p DEF CountInv, Counted
<1>6. ASSUME NEW x \in Cbs PROVE CbInv(x)'
  <2>1. CbInv(x) /\ \A u \in Threads : Holds(u, x)' => Holds(u, x)
    BY <1>t, <1>a, <1>p DEF Holds, Executing
  <2>2. Fresh(x) => (cbst'[x] = "none" => Fresh(x)')
    BY <1>t, <1>a, <1>p, <1>l, <2>1 DEF Fresh, CbInv, Holds, Executing
  <2>3. Quiet(x) => (cbst'[x] = "dead" => Quiet(x)')
    BY <1>t, <1>a, <1>p, <2>1 DEF Quiet, Holds, CbInv
  <2> QED BY <1>t, <1>a, <1>p, <2>1, <2>2, <2>3 DEF CbInv
<1>7. ASSUME NEW u \in Threads PROVE OpInv(u)'
  BY <1>t, <1>a, <1>p, <1>l DEF OpInv, Fresh, Quiet, Holds, Making, Pushing, Removing, Executing
<1>8. ASSUME NEW u \in Threads PROVE RsInv(u)'
  <2>1. rs[u] \in Executing => cur[u] # b
    BY <1>p DEF Holds
  <2> QED BY <1>t, <1>a, <1>p, <1>l, <2>1 DEF RsInv, Executing
<1>9. ~badUse'
  BY <1>u
<1> QED BY <1>1, <1>2, <1>3, <1>4, <1>5, <1>6, <1>7, <1>8, <1>9

\* The constructor takes the lock with a token in hand.
LEMMA ConstructKeeps ==
  ASSUME StopInv, NEW t \in Threads, NEW b \in Cbs, NEW k \in Tokens, NEW pushOp \in Pushing,
         Construct(t, b, k, pushOp), ~(stop \/ src = 0)
  PROVE  StopInv'
<1> USE DEF StopInv
<1>a. /\ UserCode(t) /\ k \in tokens /\ ~Moving(k) /\ (pushOp = "pushMoved" => ~InUse(k))
      /\ cbst[b] = "none" /\ badUse' = (badUse \/ deleted)
      /\ locker = NoThread /\ locker' = t
      /\ cbst' = [cbst EXCEPT ![b] = "making"]
      /\ op' = [op EXCEPT ![t] = pushOp]
      /\ opCb' = [opCb EXCEPT ![t] = b] /\ opTok' = [opTok EXCEPT ![t] = k]
      /\ UNCHANGED <<stop, tok, src, list, signaller, deleted, sources,
                     tokens, reg, isRemoved, finished, rs, rsSrc, cur, more,
                     removed, runs>>
  BY DEF Construct, UseState, Locked, handles, word, rsVars
<1>t. StopTypeOK /\ NoThread \notin Threads /\ NoCb \notin Cbs /\ NoTok \notin Tokens
  BY ConstAssumption
<1>p. /\ op[t] = "none" /\ rs[t] \in {"none", "exec"} /\ cbst[b] = "none"
      /\ op'[t] = pushOp /\ opCb'[t] = b /\ opTok'[t] = k /\ cbst'[b] = "making"
      /\ \A u \in Threads \ {t} : /\ op'[u] = op[u] /\ opCb'[u] = opCb[u]
                                   /\ opTok'[u] = opTok[u]
      /\ \A d \in Cbs \ {b} : cbst'[d] = cbst[d]
      /\ Fresh(b) /\ ~reg[b] /\ \A u \in Threads : opCb[u] # b
      /\ \A u \in Threads : rs[u] # "pop" /\ op[u] \notin Pushing \cup {"remove"}
  <2>1. Fresh(b) /\ ~reg[b]
    BY <1>a DEF CbInv
  <2>2. \A u \in Threads : opCb[u] # b
    BY <1>a, <1>t DEF OpInv, StopTypeOK, OpPCs, Making, Removing
  <2>3. \A u \in Threads : rs[u] # "pop" /\ op[u] \notin Pushing \cup {"remove"}
    BY <1>a, <1>t DEF LockInv
  <2>4. op[t] = "none" /\ rs[t] \in {"none", "exec"}
    BY <1>a DEF UserCode
  <2> HIDE DEF StopInv
  <2>5. /\ op'[t] = pushOp /\ opCb'[t] = b /\ opTok'[t] = k /\ cbst'[b] = "making"
        /\ \A u \in Threads \ {t} : /\ op'[u] = op[u] /\ opCb'[u] = opCb[u]
                                     /\ opTok'[u] = opTok[u]
        /\ \A d \in Cbs \ {b} : cbst'[d] = cbst[d]
    BY <1>a, <1>t DEF StopTypeOK
  <2> QED BY <1>a, <2>1, <2>2, <2>3, <2>4, <2>5
<1>l. \A d \in Cbs : Listed(d)' <=> Listed(d)
  BY <1>a DEF Listed
<1>u. ~badUse'
  BY <1>a DEF CountInv
<1>1. StopTypeOK'
  BY <1>t, <1>a DEF StopTypeOK, Lives, OpPCs, RsPCs, Making, Pushing, Removing, Executing
<1>2. ListInv'
  BY <1>t, <1>a, <1>p, <1>l DEF ListInv
<1>3. PairInv'
  <2>1. /\ \A u \in Threads \ {t} : opCb[u] # b
        /\ \A u \in Threads \ {t} : op[u] \in {"pushMoved", "madeMoved"} => opTok[u] # k
        /\ pushOp = "pushMoved" => \A u \in Threads \ {t} : opTok[u] # k
    BY <1>a, <1>p DEF Moving, InUse
  <2> QED BY <1>p, <2>1 DEF PairInv, Pushing
<1>4. LockInv'
  BY <1>t, <1>a, <1>p DEF LockInv, Making, Pushing, Removing, Executing
<1>5. CountInv'
  <2>1. Counted' = Counted
    BY <1>a, <1>p DEF Counted, Pushing
  <2> QED BY <1>a, <1>u, <2>1 DEF CountInv
<1>6. ASSUME NEW x \in Cbs PROVE CbInv(x)'
  <2>1. CbInv(x) /\ \A u \in Threads : Holds(u, x)' => Holds(u, x)
    BY <1>t, <1>a, <1>p DEF Holds, Executing
  <2>2. Fresh(x) => (cbst'[x] = "none" => Fresh(x)')
    BY <1>t, <1>a, <1>p, <1>l, <2>1 DEF Fresh, CbInv, Holds, Executing
  <2>3. Quiet(x) => (cbst'[x] = "dead" => Quiet(x)')
    BY <1>t, <1>a, <1>p, <2>1 DEF Quiet, Holds, CbInv
  <2> QED BY <1>t, <1>a, <1>p, <2>1, <2>2, <2>3 DEF CbInv
<1>7. ASSUME NEW u \in Threads PROVE OpInv(u)'
  BY <1>t, <1>a, <1>p, <1>l DEF OpInv, Fresh, Quiet, Holds, Making, Pushing, Removing, Executing
<1>8. ASSUME NEW u \in Threads PROVE RsInv(u)'
  BY <1>t, <1>a, <1>p, <1>l DEF RsInv, Making, Pushing, Removing, Executing
<1>9. ~badUse'
  BY <1>u
<1> QED BY <1>1, <1>2, <1>3, <1>4, <1>5, <1>6, <1>7, <1>8, <1>9

\* The callback gets on the list, with a reference if its token was copied.
LEMMA PushKeeps ==
  ASSUME StopInv, NEW t \in Threads, Push(t)
  PROVE  StopInv'
<1> USE DEF StopInv
<1>a. /\ op[t] \in Pushing /\ badUse' = (badUse \/ deleted)
      /\ list' = <<opCb[t]>> \o list /\ locker' = NoThread
      /\ tok' = (IF op[t] = "push" THEN tok + 1 ELSE tok)
      /\ op' = [op EXCEPT ![t] = IF @ = "push" THEN "made" ELSE "madeMoved"]
      /\ UNCHANGED <<stop, src, signaller, deleted, sources, tokens, cbst,
                     reg, isRemoved, finished, rs, rsSrc, cur, more, removed,
                     opCb, opTok, runs>>
  BY DEF Push, Pushing, UseState, handles, cbVars, rsVars
<1>t. StopTypeOK /\ NoThread \notin Threads /\ NoCb \notin Cbs /\ NoTok \notin Tokens
  BY ConstAssumption
<1>p. /\ op[t] \in Pushing /\ locker = t /\ opTok[t] \in tokens
      /\ opCb[t] \in Cbs /\ Fresh(opCb[t]) /\ cbst[opCb[t]] = "making" /\ ~reg[opCb[t]]
      /\ op'[t] = (IF op[t] = "push" THEN "made" ELSE "madeMoved")
      /\ \A u \in Threads \ {t} :
           op'[u] = op[u] /\ opCb[u] # opCb[t] /\ op[u] \notin Pushing \cup {"remove"}
      /\ \A u \in Threads : rs[u] # "pop"
  <2>1. /\ locker = t /\ opTok[t] \in tokens /\ opCb[t] \in Cbs /\ Fresh(opCb[t])
        /\ cbst[opCb[t]] = "making" /\ rs[t] # "pop"
    BY <1>a DEF LockInv, OpInv, Pushing, Making
  <2>2. ~reg[opCb[t]]
    BY <2>1 DEF CbInv
  <2>3. \A u \in Threads \ {t} : opCb[u] # opCb[t]
    BY <1>t, <2>1 DEF PairInv
  <2>4. /\ \A u \in Threads \ {t} : op[u] \notin Pushing \cup {"remove"}
        /\ \A u \in Threads : rs[u] # "pop"
    BY <2>1 DEF LockInv
  <2>5. /\ op'[t] = (IF op[t] = "push" THEN "made" ELSE "madeMoved")
        /\ \A u \in Threads \ {t} : op'[u] = op[u]
    BY <1>a, <1>t DEF StopTypeOK
  <2> QED BY <1>a, <2>1, <2>2, <2>3, <2>4, <2>5
<1>l. \A b \in Cbs : Listed(b)' <=> Listed(b) \/ b = opCb[t]
  BY <1>a, <1>p, PushFacts DEF Fresh
<1>u. ~badUse'
  BY <1>a, <1>p DEF CountInv
<1>1. StopTypeOK'
  <2>1. list' \in Seq(Cbs)
    BY <1>a, <1>p, PushFacts DEF Fresh
  <2>2. op' \in [Threads -> OpPCs]
    BY <1>a, <1>t DEF StopTypeOK, OpPCs, Making
  <2> QED BY <1>a, <1>u, <1>t, <2>1, <2>2 DEF StopTypeOK
<1>2. ListInv'
  <2>1. \A i, j \in 1..Len(list') : list'[i] = list'[j] => i = j
    BY <1>a, <1>p, PushFacts DEF Fresh
  <2> QED BY <1>a, <1>p, <1>l, <2>1 DEF ListInv, Fresh
<1>3. PairInv'
  <2>1. \A u \in Threads : (op'[u] \in {"pushMoved", "madeMoved"}) <=>
                            (op[u] \in {"pushMoved", "madeMoved"})
    BY <1>p DEF Pushing
  <2> QED BY <1>a, <2>1 DEF PairInv
<1>4. LockInv'
  BY <1>t, <1>a, <1>p DEF LockInv, Making, Pushing, Removing, Executing
<1>5. CountInv'
  <2>1. /\ IsFiniteSet(Counted) /\ Cardinality(Counted) \in Nat
        /\ Cardinality(tokens) \in Nat
    BY Finite
  <2>2. ~deleted /\ ~deleted' /\ tokens' = tokens /\ sources' = sources /\ tokens # {}
    BY <1>a, <1>p DEF CountInv
  <2>3. CASE op[t] = "push"
    <3>1. Counted' = Counted \cup {opCb[t]} /\ opCb[t] \notin Counted
      BY <1>a, <1>p, <2>3 DEF Counted, Pushing
    <3>2. Cardinality(Counted') = Cardinality(Counted) + 1
      BY <2>1, <3>1, FS_AddElement
    <3> QED BY <1>a, <2>1, <2>2, <2>3, <3>2 DEF CountInv
  <2>4. CASE op[t] = "pushMoved"
    <3>1. Counted' = Counted
      BY <1>a, <1>p, <2>4 DEF Counted
    <3> QED BY <1>a, <2>2, <2>4, <3>1 DEF CountInv
  <2> QED BY <1>p, <2>3, <2>4 DEF Pushing
<1>6. ASSUME NEW x \in Cbs PROVE CbInv(x)'
  <2>1. CbInv(x) /\ \A u \in Threads : Holds(u, x)' <=> Holds(u, x)
    BY <1>a DEF Holds
  <2>2. cbst[x] = "none" => x # opCb[t]
    BY <1>p
  <2>3. x # opCb[t] /\ Fresh(x) => Fresh(x)'
    BY <1>a, <1>l, <2>1 DEF Fresh
  <2>4. Quiet(x) => Quiet(x)'
    BY <1>a DEF Quiet, Holds
  <2> QED BY <1>a, <2>1, <2>2, <2>3, <2>4 DEF CbInv
<1>7. ASSUME NEW u \in Threads PROVE OpInv(u)'
  BY <1>t, <1>a, <1>p, <1>l DEF OpInv, Fresh, Quiet, Holds, Making, Pushing, Removing, Executing
<1>8. ASSUME NEW u \in Threads PROVE RsInv(u)'
  <2>1. rs[u] \in Executing => cur[u] # opCb[t]
    BY <1>p DEF Fresh, Holds
  <2> QED BY <1>t, <1>a, <1>p, <1>l, <2>1 DEF RsInv, Executing
<1>9. ~badUse'
  BY <1>u
<1> QED BY <1>1, <1>2, <1>3, <1>4, <1>5, <1>6, <1>7, <1>8, <1>9

\* The constructor takes over the reference it was counted, or its token's.
LEMMA ConstructedKeeps ==
  ASSUME StopInv, NEW t \in Threads, Constructed(t)
  PROVE  StopInv'
<1> USE DEF StopInv
<1>a. /\ op[t] \in {"made", "madeMoved"}
      /\ badUse' = (badUse \/ cbst[opCb[t]] = "dead")
      /\ reg' = [reg EXCEPT ![opCb[t]] = TRUE]
      /\ cbst' = [cbst EXCEPT ![opCb[t]] = "live"]
      /\ tokens' = (IF op[t] = "made" THEN tokens ELSE tokens \ {opTok[t]})
      /\ op' = [op EXCEPT ![t] = "none"]
      /\ opCb' = [opCb EXCEPT ![t] = NoCb] /\ opTok' = [opTok EXCEPT ![t] = NoTok]
      /\ UNCHANGED <<stop, locker, tok, src, list, signaller, deleted,
                     sources, isRemoved, finished, rs, rsSrc, cur, more,
                     removed, runs>>
  BY DEF Constructed, UseCb, word, rsVars
<1>t. StopTypeOK /\ NoThread \notin Threads /\ NoCb \notin Cbs /\ NoTok \notin Tokens
  BY ConstAssumption
<1>q. ASSUME op[t] = "madeMoved", NEW u \in Threads \ {t} PROVE opTok[u] # opTok[t]
  BY <1>q DEF PairInv
<1>p. /\ op[t] \in {"made", "madeMoved"} /\ opTok[t] \in tokens
      /\ opCb[t] \in Cbs /\ cbst[opCb[t]] = "making" /\ ~reg[opCb[t]]
      /\ op'[t] = "none" /\ opCb'[t] = NoCb /\ opTok'[t] = NoTok
      /\ cbst'[opCb[t]] = "live" /\ reg'[opCb[t]]
      /\ \A u \in Threads \ {t} : /\ op'[u] = op[u] /\ opCb'[u] = opCb[u]
                                   /\ opTok'[u] = opTok[u] /\ opCb[u] # opCb[t]
      /\ \A d \in Cbs \ {opCb[t]} : cbst'[d] = cbst[d] /\ reg'[d] = reg[d]
  <2>1. opTok[t] \in tokens /\ opCb[t] \in Cbs /\ cbst[opCb[t]] = "making"
    BY <1>a DEF OpInv, Making
  <2>2. ~reg[opCb[t]]
    BY <2>1 DEF CbInv
  <2>3. \A u \in Threads \ {t} : opCb[u] # opCb[t]
    BY <1>t, <2>1 DEF PairInv
  <2>4. /\ op'[t] = "none" /\ opCb'[t] = NoCb /\ opTok'[t] = NoTok
        /\ \A u \in Threads \ {t} : /\ op'[u] = op[u] /\ opCb'[u] = opCb[u]
                                     /\ opTok'[u] = opTok[u]
    BY <1>a, <1>t DEF StopTypeOK
  <2>5. /\ cbst'[opCb[t]] = "live" /\ reg'[opCb[t]]
        /\ \A d \in Cbs \ {opCb[t]} : cbst'[d] = cbst[d] /\ reg'[d] = reg[d]
    BY <1>a, <1>t, <2>1 DEF StopTypeOK
  <2> QED BY <1>a, <2>1, <2>2, <2>3, <2>4, <2>5
<1>l. \A d \in Cbs : Listed(d)' <=> Listed(d)
  BY <1>a DEF Listed
<1>u. ~badUse'
  BY <1>a, <1>p
<1>1. StopTypeOK'
  BY <1>t, <1>a DEF StopTypeOK, Lives, OpPCs, RsPCs, Making, Pushing, Removing, Executing
<1>2. ListInv'
  BY <1>t, <1>a, <1>p, <1>l DEF ListInv
<1>3. PairInv'
  <2>1. \A u \in Threads : op[u] \in {"pushMoved", "madeMoved"} => opTok[u] # NoTok
    BY <1>t DEF OpInv, Making, StopTypeOK
  <2>2. op'[t] = "none" /\ opCb'[t] = NoCb /\ opTok'[t] = NoTok
    BY <1>p
  <2>3. \A u \in Threads \ {t} : op'[u] = op[u] /\ opCb'[u] = opCb[u] /\ opTok'[u] = opTok[u]
    BY <1>p
  <2> QED BY <2>1, <2>2, <2>3 DEF PairInv
<1>4. LockInv'
  BY <1>t, <1>a, <1>p DEF LockInv, Making, Pushing, Removing, Executing
<1>5. CountInv'
  <2>1. /\ IsFiniteSet(Counted) /\ Cardinality(Counted) \in Nat
        /\ IsFiniteSet(tokens) /\ Cardinality(tokens) \in Nat
    BY Finite
  <2>2. /\ ~deleted /\ deleted' = deleted /\ sources' = sources /\ tok' = tok /\ src' = src
        /\ opCb[t] \in Cbs /\ ~reg[opCb[t]] /\ reg'[opCb[t]]
        /\ op'[t] = "none" /\ op[t] \in {"made", "madeMoved"}
    BY <1>a, <1>p DEF CountInv
  <2>3. \A d \in Cbs \ {opCb[t]} : reg'[d] = reg[d]
    BY <1>p
  <2>4. \A u \in Threads \ {t} : op'[u] = op[u] /\ opCb'[u] = opCb[u] /\ opCb[u] # opCb[t]
    BY <1>p
  <2>5. \A d \in Cbs \ {opCb[t]} : (d \in Counted') <=> (d \in Counted)
    BY <2>2, <2>3, <2>4 DEF Counted
  <2>6. opCb[t] \in Counted' /\ ((opCb[t] \in Counted) <=> op[t] = "made")
    BY <2>2, <2>4 DEF Counted
  <2>7. Counted \subseteq Cbs /\ Counted' \subseteq Cbs
    BY DEF Counted
  <2>8. CASE op[t] = "made"
    <3>1. Counted' = Counted /\ tokens' = tokens
      BY <1>a, <2>5, <2>6, <2>7, <2>8
    <3> QED BY <2>2, <2>6, <3>1 DEF CountInv
  <2>9. CASE op[t] = "madeMoved"
    <3>1. Counted' = Counted \cup {opCb[t]} /\ opCb[t] \notin Counted
      BY <2>2, <2>5, <2>6, <2>7, <2>9
    <3>2. Cardinality(Counted') = Cardinality(Counted) + 1
      BY <2>1, <3>1, FS_AddElement
    <3>3. tokens' = tokens \ {opTok[t]} /\ opTok[t] \in tokens
      BY <1>a, <1>p, <2>9
    <3>4. Cardinality(tokens') = Cardinality(tokens) - 1
      BY <2>1, <3>3, FS_RemoveElement
    <3>5. tok = Cardinality(tokens) + Cardinality(Counted) /\ src = Cardinality(sources)
      BY DEF CountInv
    <3>6. tok' = Cardinality(tokens') + Cardinality(Counted')
      BY <2>1, <2>2, <3>2, <3>4, <3>5
    <3> QED BY <2>2, <2>6, <3>5, <3>6 DEF CountInv
  <2> QED BY <2>2, <2>8, <2>9
<1>6. ASSUME NEW x \in Cbs PROVE CbInv(x)'
  <2>1. CbInv(x) /\ \A u \in Threads : Holds(u, x)' => Holds(u, x)
    BY <1>t, <1>a, <1>p DEF Holds, Executing
  <2>2. Fresh(x) => (cbst'[x] = "none" => Fresh(x)')
    BY <1>t, <1>a, <1>p, <1>l, <2>1 DEF Fresh, CbInv, Holds, Executing
  <2>3. Quiet(x) => (cbst'[x] = "dead" => Quiet(x)')
    BY <1>t, <1>a, <1>p, <2>1 DEF Quiet, Holds, CbInv
  <2> QED BY <1>t, <1>a, <1>p, <2>1, <2>2, <2>3 DEF CbInv
<1>7. ASSUME NEW u \in Threads PROVE OpInv(u)'
  <2>1. CASE u = t
    BY <1>p, <2>1 DEF OpInv, Making, Pushing, Removing
  <2>2. CASE u # t
    <3>1. /\ op'[u] = op[u] /\ opCb'[u] = opCb[u] /\ opTok'[u] = opTok[u]
          /\ opCb[u] # opCb[t] /\ rs'[u] = rs[u]
      BY <1>a, <1>p, <2>2
    <3>2. op[u] # "none" => /\ opCb[u] \in Cbs
                            /\ cbst'[opCb[u]] = cbst[opCb[u]] /\ reg'[opCb[u]] = reg[opCb[u]]
      BY <1>p, <3>1 DEF OpInv
    <3>3. op[u] \in Making => opTok[u] \in tokens'
      <4>1. op[u] \in Making => opTok[u] \in tokens
        BY DEF OpInv
      <4>2. op[t] = "madeMoved" => opTok[u] # opTok[t]
        BY <1>q, <2>2
      <4> QED BY <1>a, <4>1, <4>2
    <3>4. /\ op[u] \in Pushing => Fresh(opCb[u])'
          /\ op[u] = "release" => Quiet(opCb[u])'
      BY <1>a, <1>l, <3>2 DEF OpInv, Fresh, Quiet, Holds, Pushing
    <3>5. op[u] \in {"await", "release"} => ~Listed(opCb[u])'
      <4>1. op[u] \in {"await", "release"} => opCb[u] \in Cbs /\ ~Listed(opCb[u])
        BY DEF OpInv
      <4>2. op[u] \in {"await", "release"} => ~\E i \in DOMAIN list : list[i] = opCb[u]
        BY <4>1 DEF Listed
      <4> QED BY <1>a, <3>1, <4>2 DEF Listed
    <3> QED BY <3>1, <3>2, <3>3, <3>4, <3>5 DEF OpInv, Pushing, Making, Removing
  <2> QED BY <2>1, <2>2
<1>8. ASSUME NEW u \in Threads PROVE RsInv(u)'
  BY <1>t, <1>a, <1>p, <1>l DEF RsInv, Making, Pushing, Removing, Executing
<1>9. ~badUse'
  BY <1>u
<1> QED BY <1>1, <1>2, <1>3, <1>4, <1>5, <1>6, <1>7, <1>8, <1>9

\* A callback that was not registered is not being executed.
LEMMA DestroyKeeps ==
  ASSUME StopInv, NEW t \in Threads, NEW b \in Cbs, Destroy(t, b), ~reg[b]
  PROVE  StopInv'
<1> USE DEF StopInv
<1>a. /\ UserCode(t) /\ cbst[b] = "live" /\ ~reg[b]
      /\ cbst' = [cbst EXCEPT ![b] = "dead"]
      /\ UNCHANGED <<stop, locker, tok, src, list, signaller, deleted,
                     sources, tokens, reg, isRemoved, finished, rs, rsSrc,
                     cur, more, removed, op, opCb, opTok, runs, badUse>>
  BY DEF Destroy, handles, word, rsVars, opVars
<1>t. StopTypeOK /\ NoThread \notin Threads /\ NoCb \notin Cbs /\ NoTok \notin Tokens
  BY ConstAssumption
<1>p. /\ cbst[b] = "live" /\ cbst'[b] = "dead" /\ ~reg[b] /\ ~Listed(b)
      /\ \A d \in Cbs \ {b} : cbst'[d] = cbst[d]
      /\ \A u \in Threads : ~Holds(u, b) /\ opCb[u] # b
  <2>1. \A u \in Threads : opCb[u] # b
    BY <1>a, <1>t DEF OpInv, StopTypeOK, OpPCs, Making, Removing
  <2>2. \A u \in Threads : ~Holds(u, b)
    BY <1>a DEF RsInv, Holds
  <2>3. ~Listed(b)
    BY <1>a DEF ListInv
  <2> QED BY <1>a, <1>t, <2>1, <2>2, <2>3 DEF StopTypeOK
<1>l. \A d \in Cbs : Listed(d)' <=> Listed(d)
  BY <1>a DEF Listed
<1>u. ~badUse'
  BY <1>a
<1>1. StopTypeOK'
  <2>1. cbst' \in [Cbs -> Lives]
    BY <1>t, <1>a DEF StopTypeOK, Lives
  <2> QED BY <1>t, <1>a, <2>1 DEF StopTypeOK
<1>2. ListInv'
  BY <1>t, <1>a, <1>p, <1>l DEF ListInv
<1>3. PairInv'
  BY <1>t, <1>a, <1>p DEF PairInv
<1>4. LockInv'
  BY <1>t, <1>a, <1>p DEF LockInv, Making, Pushing, Removing, Executing
<1>5. CountInv'
  BY <1>t, <1>a, <1>p DEF CountInv, Counted
<1>6. ASSUME NEW x \in Cbs PROVE CbInv(x)'
  <2>1. CbInv(x) /\ \A u \in Threads : Holds(u, x)' <=> Holds(u, x)
    BY <1>a DEF Holds
  <2>2. Fresh(x) => Fresh(x)'
    BY <1>a, <1>l, <2>1 DEF Fresh
  <2>3. Quiet(x) => Quiet(x)'
    BY <1>a DEF Quiet, Holds
  <2>4. Quiet(b)'
    BY <1>a, <1>p DEF Quiet, Holds
  <2> QED BY <1>a, <1>p, <2>1, <2>2, <2>3, <2>4 DEF CbInv
<1>7. ASSUME NEW u \in Threads PROVE OpInv(u)'
  BY <1>t, <1>a, <1>p, <1>l DEF OpInv, Fresh, Quiet, Holds, Making, Pushing, Removing, Executing
<1>8. ASSUME NEW u \in Threads PROVE RsInv(u)'
  <2>1. rs[u] \in Executing => cur[u] # b
    BY <1>p DEF Holds
  <2> QED BY <1>t, <1>a, <1>p, <1>l, <2>1 DEF RsInv, Executing
<1>9. ~badUse'
  BY <1>u
<1> QED BY <1>1, <1>2, <1>3, <1>4, <1>5, <1>6, <1>7, <1>8, <1>9

\* The destructor takes the lock of a state that its reference keeps.
LEMMA DestroyLocks ==
  ASSUME StopInv, NEW t \in Threads, NEW b \in Cbs, Destroy(t, b), reg[b]
  PROVE  StopInv'
<1> USE DEF StopInv
<1>a. /\ UserCode(t) /\ cbst[b] = "live" /\ reg[b] /\ locker = NoThread
      /\ badUse' = (badUse \/ deleted) /\ locker' = t
      /\ cbst' = [cbst EXCEPT ![b] = "dying"]
      /\ op' = [op EXCEPT ![t] = "remove"] /\ opCb' = [opCb EXCEPT ![t] = b]
      /\ UNCHANGED <<stop, tok, src, list, signaller, deleted, sources,
                     tokens, reg, isRemoved, finished, rs, rsSrc, cur, more,
                     removed, opTok, runs>>
  BY DEF Destroy, handles, word, rsVars, UseState, Locked
<1>t. StopTypeOK /\ NoThread \notin Threads /\ NoCb \notin Cbs /\ NoTok \notin Tokens
  BY ConstAssumption
<1>p. /\ op[t] = "none" /\ rs[t] \in {"none", "exec"} /\ cbst[b] = "live" /\ reg[b]
      /\ op'[t] = "remove" /\ opCb'[t] = b /\ opTok[t] = NoTok /\ cbst'[b] = "dying"
      /\ \A u \in Threads \ {t} : op'[u] = op[u] /\ opCb'[u] = opCb[u]
      /\ \A d \in Cbs \ {b} : cbst'[d] = cbst[d]
      /\ \A u \in Threads : opCb[u] # b
      /\ \A u \in Threads : rs[u] # "pop" /\ op[u] \notin Pushing \cup {"remove"}
  <2>2. \A u \in Threads : opCb[u] # b
    BY <1>a, <1>t DEF OpInv, StopTypeOK, OpPCs, Making, Removing
  <2>3. \A u \in Threads : rs[u] # "pop" /\ op[u] \notin Pushing \cup {"remove"}
    BY <1>a, <1>t DEF LockInv
  <2>4. op[t] = "none" /\ rs[t] \in {"none", "exec"} /\ opTok[t] = NoTok
    BY <1>a DEF UserCode, OpInv, Making
  <2> HIDE DEF StopInv
  <2>5. /\ op'[t] = "remove" /\ opCb'[t] = b /\ cbst'[b] = "dying"
        /\ \A u \in Threads \ {t} : op'[u] = op[u] /\ opCb'[u] = opCb[u]
        /\ \A d \in Cbs \ {b} : cbst'[d] = cbst[d]
    BY <1>a, <1>t DEF StopTypeOK
  <2> QED BY <1>a, <2>2, <2>3, <2>4, <2>5
<1>l. \A d \in Cbs : Listed(d)' <=> Listed(d)
  BY <1>a DEF Listed
<1>u. ~badUse'
  BY <1>a DEF CountInv, Counted
<1>1. StopTypeOK'
  BY <1>t, <1>a DEF StopTypeOK, Lives, OpPCs, RsPCs, Making, Pushing, Removing, Executing
<1>2. ListInv'
  BY <1>t, <1>a, <1>p, <1>l DEF ListInv
<1>3. PairInv'
  <2>1. \A u \in Threads : (op'[u] \in {"pushMoved", "madeMoved"}) <=>
                            (op[u] \in {"pushMoved", "madeMoved"})
    BY <1>p
  <2>2. \A u \in Threads \ {t} : opCb'[u] = opCb[u] /\ opCb[u] # b
    BY <1>p
  <2>3. opCb'[t] = b /\ UNCHANGED opTok
    BY <1>a, <1>p
  <2> QED BY <2>1, <2>2, <2>3 DEF PairInv
<1>4. LockInv'
  BY <1>t, <1>a, <1>p DEF LockInv, Making, Pushing, Removing, Executing
<1>5. CountInv'
  <2>1. Counted' = Counted
    BY <1>a, <1>p DEF Counted
  <2> QED BY <1>a, <1>u, <2>1 DEF CountInv
<1>6. ASSUME NEW x \in Cbs PROVE CbInv(x)'
  <2>1. CbInv(x) /\ \A u \in Threads : Holds(u, x)' <=> Holds(u, x)
    BY <1>a DEF Holds
  <2>2. Fresh(x) => Fresh(x)'
    BY <1>a, <1>l, <2>1 DEF Fresh
  <2>3. Quiet(x) => Quiet(x)'
    BY <1>a DEF Quiet, Holds
  <2> QED BY <1>a, <1>p, <2>1, <2>2, <2>3 DEF CbInv
<1>7. ASSUME NEW u \in Threads PROVE OpInv(u)'
  <2>1. CASE u = t
    BY <1>a, <1>p, <2>1 DEF OpInv, Making, Pushing, Removing
  <2>2. CASE u # t
    <3>1. /\ op'[u] = op[u] /\ opCb'[u] = opCb[u] /\ opCb[u] # b
          /\ opTok'[u] = opTok[u] /\ rs'[u] = rs[u] /\ OpInv(u)
      BY <1>a, <1>p, <2>2
    <3>2. op[u] # "none" => opCb[u] \in Cbs /\ cbst'[opCb[u]] = cbst[opCb[u]]
      BY <1>p, <3>1 DEF OpInv
    <3>3. /\ Fresh(opCb[u]) <=> Fresh(opCb[u])'
          /\ Quiet(opCb[u]) <=> Quiet(opCb[u])'
          /\ Listed(opCb[u]) <=> Listed(opCb[u])'
      BY <1>a, <3>1 DEF Fresh, Quiet, Holds, Listed
    <3> QED BY <1>a, <3>1, <3>2, <3>3 DEF OpInv, Pushing, Making, Removing
  <2> QED BY <2>1, <2>2
<1>8. ASSUME NEW u \in Threads PROVE RsInv(u)'
  BY <1>t, <1>a, <1>p, <1>l DEF RsInv, Making, Pushing, Removing, Executing
<1>9. ~badUse'
  BY <1>u
<1> QED BY <1>1, <1>2, <1>3, <1>4, <1>5, <1>6, <1>7, <1>8, <1>9

\* The destructor unlinks the callback and drops its reference with the lock.
LEMMA UnlinkKeeps ==
  ASSUME StopInv, NEW t \in Threads, UnlinkCb(t), Listed(opCb[t])
  PROVE  StopInv'
<1> USE DEF StopInv
<1>a. /\ op[t] = "remove" /\ badUse' = (badUse \/ deleted) /\ locker' = NoThread
      /\ Unlink(opCb[t]) /\ tok' = tok - 1
      /\ deleted' = (deleted \/ Word < 2 + 4 + 4)
      /\ cbst' = [cbst EXCEPT ![opCb[t]] = "dead"]
      /\ reg' = [reg EXCEPT ![opCb[t]] = FALSE]
      /\ op' = [op EXCEPT ![t] = "none"] /\ opCb' = [opCb EXCEPT ![t] = NoCb]
      /\ UNCHANGED <<stop, src, signaller, sources, tokens, isRemoved,
                     finished, rs, rsSrc, cur, more, removed, opTok, runs>>
  BY DEF UnlinkCb, UseState, handles, rsVars
<1>t. StopTypeOK /\ NoThread \notin Threads /\ NoCb \notin Cbs /\ NoTok \notin Tokens
  BY ConstAssumption
<1>p. /\ locker = t /\ opCb[t] \in Cbs /\ reg[opCb[t]] /\ opTok[t] = NoTok
      /\ op'[t] = "none" /\ opCb'[t] = NoCb
      /\ cbst'[opCb[t]] = "dead" /\ ~reg'[opCb[t]]
      /\ \A u \in Threads \ {t} :
           op'[u] = op[u] /\ opCb'[u] = opCb[u] /\ opCb[u] # opCb[t]
      /\ \A d \in Cbs \ {opCb[t]} : cbst'[d] = cbst[d] /\ reg'[d] = reg[d]
      /\ \A u \in Threads \ {t} : op[u] \notin Pushing \cup {"remove"}
      /\ \A u \in Threads : rs[u] # "pop" /\ ~Holds(u, opCb[t])
  <2>1. /\ locker = t /\ opCb[t] \in Cbs /\ reg[opCb[t]] /\ opTok[t] = NoTok
        /\ rs[t] # "pop"
    BY <1>a DEF LockInv, OpInv, Removing, Making
  <2>2. \A u \in Threads \ {t} : opCb[u] # opCb[t]
    BY <1>t, <2>1 DEF PairInv
  <2>3. /\ \A u \in Threads \ {t} : op[u] \notin Pushing \cup {"remove"}
        /\ \A u \in Threads : rs[u] # "pop"
    BY <2>1 DEF LockInv
  <2>4. \A u \in Threads : ~Holds(u, opCb[t])
    BY DEF RsInv, Holds
  <2> HIDE DEF StopInv
  <2>5. /\ op'[t] = "none" /\ opCb'[t] = NoCb
        /\ \A u \in Threads \ {t} : op'[u] = op[u] /\ opCb'[u] = opCb[u]
    BY <1>a, <1>t DEF StopTypeOK
  <2>6. /\ cbst'[opCb[t]] = "dead" /\ ~reg'[opCb[t]]
        /\ \A d \in Cbs \ {opCb[t]} : cbst'[d] = cbst[d] /\ reg'[d] = reg[d]
    BY <1>a, <1>t, <2>1 DEF StopTypeOK
  <2> QED BY <2>1, <2>2, <2>3, <2>4, <2>5, <2>6
<1>l. \A b \in Cbs : Listed(b)' <=> Listed(b) /\ b # opCb[t]
  BY <1>a, <1>p, UnlinkFacts
<1>u. ~badUse'
  BY <1>a, <1>p DEF CountInv, Counted
<1>1. StopTypeOK'
  <2>1. list' \in Seq(Cbs)
    BY <1>a, <1>p, UnlinkFacts
  <2>2. op' \in [Threads -> OpPCs] /\ opCb' \in [Threads -> Cbs \cup {NoCb}]
    BY <1>a, <1>t DEF StopTypeOK, OpPCs
  <2>3. cbst' \in [Cbs -> Lives] /\ reg' \in [Cbs -> BOOLEAN] /\ deleted' \in BOOLEAN
    BY <1>a, <1>t DEF StopTypeOK, Lives
  <2> QED BY <1>a, <1>u, <1>t, <2>1, <2>2, <2>3 DEF StopTypeOK
<1>2. ListInv'
  <2>1. \A i, j \in 1..Len(list') : list'[i] = list'[j] => i = j
    BY <1>a, <1>p, UnlinkFacts
  <2> QED BY <1>a, <1>p, <1>l, <2>1 DEF ListInv
<1>3. PairInv'
  <2>1. \A u \in Threads : op'[u] \in {"pushMoved", "madeMoved"} =>
                            op[u] \in {"pushMoved", "madeMoved"}
    BY <1>p
  <2>2. \A u \in Threads \ {t} : opCb'[u] = opCb[u]
    BY <1>p
  <2>3. opCb'[t] = NoCb /\ UNCHANGED opTok
    BY <1>a, <1>p
  <2> QED BY <2>1, <2>2, <2>3 DEF PairInv
<1>4. LockInv'
  BY <1>t, <1>a, <1>p DEF LockInv, Making, Pushing, Removing, Executing
<1>5. CountInv'
  <2>1. opCb[t] \in Counted /\ Counted' = Counted \ {opCb[t]}
    BY <1>a, <1>p DEF Counted
  <2>2. deleted' <=> deleted \/ (src = 0 /\ tok <= 1)
    BY <1>a, <1>p, <1>t, LastReference DEF Locked
  <2> QED BY <1>a, <2>1, <2>2, CallbackDropped
<1>6. ASSUME NEW x \in Cbs PROVE CbInv(x)'
  <2>1. CbInv(x) /\ \A u \in Threads : Holds(u, x)' <=> Holds(u, x)
    BY <1>a DEF Holds
  <2>2. Fresh(x) => Fresh(x)'
    BY <1>a, <1>l, <2>1 DEF Fresh
  <2>3. Quiet(x) => Quiet(x)'
    BY <1>a DEF Quiet, Holds
  <2>4. x = opCb[t] => Quiet(x)
    BY <1>p DEF Quiet
  <2> QED BY <1>a, <1>p, <2>1, <2>2, <2>3, <2>4 DEF CbInv
<1>7. ASSUME NEW u \in Threads PROVE OpInv(u)'
  <2>1. CASE u = t
    BY <1>a, <1>p, <2>1 DEF OpInv, Making, Pushing, Removing
  <2>2. CASE u # t
    <3>1. /\ op'[u] = op[u] /\ opCb'[u] = opCb[u] /\ opCb[u] # opCb[t]
          /\ opTok'[u] = opTok[u] /\ rs'[u] = rs[u] /\ OpInv(u)
      BY <1>a, <1>p, <2>2
    <3>2. op[u] # "none" => /\ opCb[u] \in Cbs
                            /\ cbst'[opCb[u]] = cbst[opCb[u]] /\ reg'[opCb[u]] = reg[opCb[u]]
      BY <1>p, <3>1 DEF OpInv
    <3>3. op[u] # "none" => (Listed(opCb[u])' <=> Listed(opCb[u]))
      BY <1>l, <3>1, <3>2 DEF Listed
    <3>4. op[u] # "none" =>
            (Fresh(opCb[u]) => Fresh(opCb[u])') /\ (Quiet(opCb[u]) => Quiet(opCb[u])')
      BY <1>a, <3>1, <3>3 DEF Fresh, Quiet, Holds
    <3> QED BY <1>a, <3>1, <3>2, <3>3, <3>4 DEF OpInv, Pushing, Making, Removing
  <2> QED BY <2>1, <2>2
<1>8. ASSUME NEW u \in Threads PROVE RsInv(u)'
  <2>1. rs[u] \in Executing => cur[u] # opCb[t]
    BY <1>p DEF Holds
  <2> QED BY <1>t, <1>a, <1>p, <1>l, <2>1 DEF RsInv, Executing
<1>9. ~badUse'
  BY <1>u
<1> QED BY <1>1, <1>2, <1>3, <1>4, <1>5, <1>6, <1>7, <1>8, <1>9

\* The callback was taken off the list: the destructor has to wait for it.
LEMMA AwaitStarts ==
  ASSUME StopInv, NEW t \in Threads, UnlinkCb(t), ~Listed(opCb[t])
  PROVE  StopInv'
<1> USE DEF StopInv
<1>a. /\ op[t] = "remove" /\ badUse' = (badUse \/ deleted) /\ locker' = NoThread
      /\ op' = [op EXCEPT ![t] = "await"] /\ ~Listed(opCb[t])
      /\ UNCHANGED <<stop, tok, src, list, signaller, deleted, sources,
                     tokens, cbst, reg, isRemoved, finished, rs, rsSrc, cur,
                     more, removed, opCb, opTok, runs>>
  BY DEF UnlinkCb, Unlink, Listed, UseState, handles, rsVars
<1>t. StopTypeOK /\ NoThread \notin Threads /\ NoCb \notin Cbs /\ NoTok \notin Tokens
  BY ConstAssumption
<1>p. /\ locker = t /\ opCb[t] \in Cbs /\ reg[opCb[t]] /\ opTok[t] = NoTok
      /\ cbst[opCb[t]] = "dying" /\ op'[t] = "await" /\ rs[t] \in {"none", "exec"}
      /\ \A u \in Threads \ {t} : op'[u] = op[u]
      /\ \A u \in Threads \ {t} : op[u] \notin Pushing \cup {"remove"}
      /\ \A u \in Threads : rs[u] # "pop"
  <2>1. /\ locker = t /\ opCb[t] \in Cbs /\ reg[opCb[t]] /\ opTok[t] = NoTok
        /\ cbst[opCb[t]] = "dying" /\ rs[t] \in {"none", "exec"}
    BY <1>a DEF LockInv, OpInv, Removing, Making
  <2>3. /\ \A u \in Threads \ {t} : op[u] \notin Pushing \cup {"remove"}
        /\ \A u \in Threads : rs[u] # "pop"
    BY <2>1 DEF LockInv
  <2>4. op'[t] = "await" /\ \A u \in Threads \ {t} : op'[u] = op[u]
    BY <1>a, <1>t DEF StopTypeOK
  <2> QED BY <2>1, <2>3, <2>4
<1>l. \A d \in Cbs : Listed(d)' <=> Listed(d)
  BY <1>a DEF Listed
<1>u. ~badUse'
  BY <1>a, <1>p DEF CountInv, Counted
<1>1. StopTypeOK'
  BY <1>t, <1>a DEF StopTypeOK, Lives, OpPCs, RsPCs, Making, Pushing, Removing, Executing
<1>2. ListInv'
  BY <1>t, <1>a, <1>p, <1>l DEF ListInv
<1>3. PairInv'
  <2>1. \A u \in Threads : op'[u] \in {"pushMoved", "madeMoved"} =>
                            op[u] \in {"pushMoved", "madeMoved"}
    BY <1>p
  <2> QED BY <1>a, <2>1 DEF PairInv
<1>4. LockInv'
  BY <1>t, <1>a, <1>p DEF LockInv, Making, Pushing, Removing, Executing
<1>5. CountInv'
  <2>1. Counted' = Counted
    BY <1>a, <1>p DEF Counted
  <2> QED BY <1>a, <2>1 DEF CountInv
<1>6. ASSUME NEW x \in Cbs PROVE CbInv(x)'
  <2>1. CbInv(x) /\ \A u \in Threads : Holds(u, x)' <=> Holds(u, x)
    BY <1>a DEF Holds
  <2>2. Fresh(x) => Fresh(x)'
    BY <1>a, <1>l, <2>1 DEF Fresh
  <2>3. Quiet(x) => Quiet(x)'
    BY <1>a, <1>p DEF Quiet, Holds
  <2> QED BY <1>a, <1>p, <2>1, <2>2, <2>3 DEF CbInv
<1>7. ASSUME NEW u \in Threads PROVE OpInv(u)'
  <2>1. CASE u = t
    <3>2. ~Listed(opCb[t])'
      BY <1>a, <1>p DEF Listed
    <3> QED BY <1>a, <1>p, <2>1, <3>2 DEF OpInv, Making, Pushing, Removing
  <2>2. CASE u # t
    <3>1. /\ op'[u] = op[u] /\ opCb'[u] = opCb[u]
          /\ opTok'[u] = opTok[u] /\ rs'[u] = rs[u] /\ OpInv(u)
      BY <1>a, <1>p, <2>2
    <3>2. op[u] # "none" => /\ opCb[u] \in Cbs
                            /\ cbst'[opCb[u]] = cbst[opCb[u]] /\ reg'[opCb[u]] = reg[opCb[u]]
      BY <1>a, <1>p, <3>1 DEF OpInv
    <3>3. op[u] # "none" => (Listed(opCb[u])' <=> Listed(opCb[u]))
      BY <1>a, <1>l, <3>1, <3>2 DEF Listed
    <3>4. op[u] # "none" =>
            (Fresh(opCb[u]) => Fresh(opCb[u])') /\ (Quiet(opCb[u]) => Quiet(opCb[u])')
      BY <1>a, <1>p, <3>1, <3>3 DEF Fresh, Quiet, Holds
    <3> QED BY <1>a, <3>1, <3>2, <3>3, <3>4 DEF OpInv, Pushing, Making, Removing
  <2> QED BY <2>1, <2>2
<1>8. ASSUME NEW u \in Threads PROVE RsInv(u)'
  BY <1>t, <1>a, <1>p, <1>l DEF RsInv, Making, Pushing, Removing, Executing
<1>9. ~badUse'
  BY <1>u
<1> QED BY <1>1, <1>2, <1>3, <1>4, <1>5, <1>6, <1>7, <1>8, <1>9

\* The destructor goes on when the callback is through, or is its own caller.
LEMMA AwaitKeeps ==
  ASSUME StopInv, NEW t \in Threads, Await(t)
  PROVE  StopInv'
<1> USE DEF StopInv
<1>a. /\ op[t] = "await" /\ badUse' = (badUse \/ deleted)
      /\ \/ /\ signaller = t
            /\ removed' = [x \in Threads |-> removed[x] \/ isRemoved[opCb[t]] = x]
         \/ /\ signaller # t /\ finished[opCb[t]] /\ UNCHANGED removed
      /\ op' = [op EXCEPT ![t] = "release"]
      /\ UNCHANGED <<stop, locker, tok, src, list, signaller, deleted,
                     sources, tokens, cbst, reg, isRemoved, finished, rs,
                     rsSrc, cur, more, opCb, opTok, runs>>
  BY DEF Await, UseState, handles, word, cbVars
<1>t. StopTypeOK /\ NoThread \notin Threads /\ NoCb \notin Cbs /\ NoTok \notin Tokens
  BY ConstAssumption
<1>p. /\ opCb[t] \in Cbs /\ reg[opCb[t]] /\ opTok[t] = NoTok /\ ~Listed(opCb[t])
      /\ cbst[opCb[t]] = "dying" /\ op[t] = "await" /\ op'[t] = "release"
      /\ rs[t] \in {"none", "exec"}
      /\ \A u \in Threads \ {t} : op'[u] = op[u]
      /\ \A u \in Threads : removed[u] => removed'[u]
      /\ \A u \in Threads : Holds(u, opCb[t]) => rs[u] # "mark" /\ removed'[u]
  <2>1. /\ opCb[t] \in Cbs /\ reg[opCb[t]] /\ opTok[t] = NoTok /\ ~Listed(opCb[t])
        /\ cbst[opCb[t]] = "dying" /\ rs[t] \in {"none", "exec"}
    BY <1>a DEF OpInv, Removing, Making
  <2>2. op'[t] = "release" /\ \A u \in Threads \ {t} : op'[u] = op[u]
    BY <1>a, <1>t DEF StopTypeOK
  <2>3. \A u \in Threads : removed[u] => removed'[u]
    BY <1>a, <1>t DEF StopTypeOK
  <2>7. signaller = t /\ isRemoved[opCb[t]] = t => removed'[t]
    BY <1>a, <1>t, ZenonT(40) DEF StopTypeOK
  <2>4. ASSUME NEW u \in Threads, Holds(u, opCb[t]) PROVE rs[u] # "mark" /\ removed'[u]
    <3>1. signaller = u /\ ~finished[opCb[t]]
      BY <2>4 DEF RsInv, Holds, Executing
    <3>2. u = t /\ rs[t] = "exec" /\ signaller = t
      BY <1>a, <2>1, <2>4, <3>1 DEF Holds, Executing
    <3>3. isRemoved[opCb[t]] = t
      BY <2>4, <3>2 DEF RsInv, Holds
    <3>4. removed'[u]
      BY <2>7, <3>2, <3>3
    <3> QED BY <3>2, <3>4
  <2> QED BY <1>a, <2>1, <2>2, <2>3, <2>4
<1>l. \A d \in Cbs : Listed(d)' <=> Listed(d)
  BY <1>a DEF Listed
<1>u. ~badUse'
  BY <1>a, <1>p DEF CountInv, Counted
<1>1. StopTypeOK'
  <2>1. op' \in [Threads -> OpPCs] /\ removed' \in [Threads -> BOOLEAN]
    BY <1>a, <1>t DEF StopTypeOK, OpPCs, Removing
  <2> QED BY <1>a, <1>u, <1>t, <2>1 DEF StopTypeOK
<1>2. ListInv'
  BY <1>t, <1>a, <1>p, <1>l DEF ListInv
<1>3. PairInv'
  <2>1. \A u \in Threads : op'[u] \in {"pushMoved", "madeMoved"} =>
                            op[u] \in {"pushMoved", "madeMoved"}
    BY <1>p
  <2> QED BY <1>a, <2>1 DEF PairInv
<1>4. LockInv'
  BY <1>t, <1>a, <1>p DEF LockInv, Making, Pushing, Removing, Executing
<1>5. CountInv'
  <2>1. Counted' = Counted
    BY <1>a, <1>p DEF Counted
  <2> QED BY <1>a, <2>1 DEF CountInv
<1>6. ASSUME NEW x \in Cbs PROVE CbInv(x)'
  <2>1. CbInv(x) /\ \A u \in Threads : Holds(u, x)' <=> Holds(u, x)
    BY <1>a DEF Holds
  <2>2. Fresh(x) => Fresh(x)'
    BY <1>a, <1>l, <2>1 DEF Fresh
  <2>3. Quiet(x) => Quiet(x)'
    BY <1>a, <1>p DEF Quiet, Holds
  <2> QED BY <1>a, <1>p, <2>1, <2>2, <2>3 DEF CbInv
<1>7. ASSUME NEW u \in Threads PROVE OpInv(u)'
  <2>1. CASE u = t
    <3>1. Quiet(opCb[t])'
      BY <1>a, <1>p DEF Quiet, Holds
    <3>2. ~Listed(opCb[t])'
      BY <1>a, <1>p DEF Listed
    <3> QED BY <1>a, <1>p, <2>1, <3>1, <3>2 DEF OpInv, Making, Pushing, Removing
  <2>2. CASE u # t
    <3>1. /\ op'[u] = op[u] /\ opCb'[u] = opCb[u]
          /\ opTok'[u] = opTok[u] /\ rs'[u] = rs[u] /\ OpInv(u)
      BY <1>a, <1>p, <2>2
    <3>2. op[u] # "none" => /\ opCb[u] \in Cbs
                            /\ cbst'[opCb[u]] = cbst[opCb[u]] /\ reg'[opCb[u]] = reg[opCb[u]]
      BY <1>a, <1>p, <3>1 DEF OpInv
    <3>3. op[u] # "none" => (Listed(opCb[u])' <=> Listed(opCb[u]))
      BY <1>a, <1>l, <3>1, <3>2 DEF Listed
    <3>4. op[u] # "none" =>
            (Fresh(opCb[u]) => Fresh(opCb[u])') /\ (Quiet(opCb[u]) => Quiet(opCb[u])')
      BY <1>a, <1>p, <3>1, <3>3 DEF Fresh, Quiet, Holds
    <3> QED BY <1>a, <3>1, <3>2, <3>3, <3>4 DEF OpInv, Pushing, Making, Removing
  <2> QED BY <2>1, <2>2
<1>8. ASSUME NEW u \in Threads PROVE RsInv(u)'
  BY <1>t, <1>a, <1>p, <1>l DEF RsInv, Making, Pushing, Removing, Executing
<1>9. ~badUse'
  BY <1>u
<1> QED BY <1>1, <1>2, <1>3, <1>4, <1>5, <1>6, <1>7, <1>8, <1>9

\* The destructor drops the callback's reference, and it is gone.
LEMMA ReleaseKeeps ==
  ASSUME StopInv, NEW t \in Threads, Release(t)
  PROVE  StopInv'
<1> USE DEF StopInv
<1>a. /\ op[t] = "release" /\ badUse' = (badUse \/ deleted) /\ tok' = tok - 1
      /\ deleted' = (deleted \/ Word < 4 + 4)
      /\ cbst' = [cbst EXCEPT ![opCb[t]] = "dead"]
      /\ reg' = [reg EXCEPT ![opCb[t]] = FALSE]
      /\ op' = [op EXCEPT ![t] = "none"] /\ opCb' = [opCb EXCEPT ![t] = NoCb]
      /\ UNCHANGED <<stop, locker, src, list, signaller, sources, tokens,
                     isRemoved, finished, rs, rsSrc, cur, more, removed,
                     opTok, runs>>
  BY DEF Release, UseState, handles, rsVars
<1>t. StopTypeOK /\ NoThread \notin Threads /\ NoCb \notin Cbs /\ NoTok \notin Tokens
  BY ConstAssumption
<1>p. /\ opCb[t] \in Cbs /\ reg[opCb[t]] /\ opTok[t] = NoTok
      /\ ~Listed(opCb[t]) /\ Quiet(opCb[t])
      /\ op'[t] = "none" /\ opCb'[t] = NoCb /\ op[t] = "release"
      /\ cbst'[opCb[t]] = "dead" /\ ~reg'[opCb[t]]
      /\ \A u \in Threads \ {t} :
           op'[u] = op[u] /\ opCb'[u] = opCb[u] /\ opCb[u] # opCb[t]
      /\ \A d \in Cbs \ {opCb[t]} : cbst'[d] = cbst[d] /\ reg'[d] = reg[d]
  <2>1. /\ opCb[t] \in Cbs /\ reg[opCb[t]] /\ opTok[t] = NoTok
        /\ ~Listed(opCb[t]) /\ Quiet(opCb[t])
    BY <1>a DEF OpInv, Removing, Making
  <2>2. \A u \in Threads \ {t} : opCb[u] # opCb[t]
    BY <1>t, <2>1 DEF PairInv
  <2> HIDE DEF StopInv
  <2>5. /\ op'[t] = "none" /\ opCb'[t] = NoCb
        /\ \A u \in Threads \ {t} : op'[u] = op[u] /\ opCb'[u] = opCb[u]
    BY <1>a, <1>t DEF StopTypeOK
  <2>6. /\ cbst'[opCb[t]] = "dead" /\ ~reg'[opCb[t]]
        /\ \A d \in Cbs \ {opCb[t]} : cbst'[d] = cbst[d] /\ reg'[d] = reg[d]
    BY <1>a, <1>t, <2>1 DEF StopTypeOK
  <2> QED BY <1>a, <2>1, <2>2, <2>5, <2>6
<1>l. \A d \in Cbs : Listed(d)' <=> Listed(d)
  BY <1>a DEF Listed
<1>u. ~badUse'
  BY <1>a, <1>p DEF CountInv, Counted
<1>1. StopTypeOK'
  <2>2. op' \in [Threads -> OpPCs] /\ opCb' \in [Threads -> Cbs \cup {NoCb}]
    BY <1>a, <1>t DEF StopTypeOK, OpPCs
  <2>3. cbst' \in [Cbs -> Lives] /\ reg' \in [Cbs -> BOOLEAN] /\ deleted' \in BOOLEAN
    BY <1>a, <1>t DEF StopTypeOK, Lives
  <2> QED BY <1>a, <1>u, <1>t, <2>2, <2>3 DEF StopTypeOK
<1>2. ListInv'
  BY <1>t, <1>a, <1>p, <1>l DEF ListInv
<1>3. PairInv'
  <2>1. \A u \in Threads : op'[u] \in {"pushMoved", "madeMoved"} =>
                            op[u] \in {"pushMoved", "madeMoved"}
    BY <1>p
  <2>2. \A u \in Threads \ {t} : opCb'[u] = opCb[u]
    BY <1>p
  <2>3. opCb'[t] = NoCb /\ UNCHANGED opTok
    BY <1>a, <1>p
  <2> QED BY <2>1, <2>2, <2>3 DEF PairInv
<1>4. LockInv'
  BY <1>t, <1>a, <1>p DEF LockInv, Making, Pushing, Removing, Executing
<1>5. CountInv'
  <2>1. opCb[t] \in Counted /\ Counted' = Counted \ {opCb[t]}
    BY <1>a, <1>p DEF Counted
  <2>2. deleted' <=> deleted \/ (src = 0 /\ tok <= 1)
    BY <1>a, LastReference
  <2> QED BY <1>a, <2>1, <2>2, CallbackDropped
<1>6. ASSUME NEW x \in Cbs PROVE CbInv(x)'
  <2>1. CbInv(x) /\ \A u \in Threads : Holds(u, x)' <=> Holds(u, x)
    BY <1>a DEF Holds
  <2>2. Fresh(x) => Fresh(x)'
    BY <1>a, <1>l, <2>1 DEF Fresh
  <2>3. Quiet(x) => Quiet(x)'
    BY <1>a, <1>p DEF Quiet, Holds
  <2>4. x = opCb[t] => Quiet(x)
    BY <1>p
  <2> QED BY <1>a, <1>p, <2>4, <2>1, <2>2, <2>3 DEF CbInv
<1>7. ASSUME NEW u \in Threads PROVE OpInv(u)'
  <2>1. CASE u = t
    BY <1>a, <1>p, <2>1 DEF OpInv, Making, Pushing, Removing
  <2>2. CASE u # t
    <3>1. /\ op'[u] = op[u] /\ opCb'[u] = opCb[u] /\ opCb[u] # opCb[t]
          /\ opTok'[u] = opTok[u] /\ rs'[u] = rs[u] /\ OpInv(u)
      BY <1>a, <1>p, <2>2
    <3>2. op[u] # "none" => /\ opCb[u] \in Cbs
                            /\ cbst'[opCb[u]] = cbst[opCb[u]] /\ reg'[opCb[u]] = reg[opCb[u]]
      BY <1>a, <1>p, <3>1 DEF OpInv
    <3>3. op[u] # "none" => (Listed(opCb[u])' <=> Listed(opCb[u]))
      BY <1>a, <1>l, <3>1, <3>2 DEF Listed
    <3>4. op[u] # "none" =>
            (Fresh(opCb[u]) => Fresh(opCb[u])') /\ (Quiet(opCb[u]) => Quiet(opCb[u])')
      BY <1>a, <1>p, <3>1, <3>3 DEF Fresh, Quiet, Holds
    <3> QED BY <1>a, <3>1, <3>2, <3>3, <3>4 DEF OpInv, Pushing, Making, Removing
  <2> QED BY <2>1, <2>2
<1>8. ASSUME NEW u \in Threads PROVE RsInv(u)'
  <2>1. RsInv(u) /\ (rs[u] \in Executing => cur[u] \in Cbs)
    BY DEF RsInv
  <2>2. rs[u] \in Executing /\ cbst'[cur[u]] \in {"live", "dying"} => reg'[cur[u]]
    BY <1>p, <2>1 DEF RsInv
  <2> QED BY <1>a, <1>l, <2>1, <2>2 DEF RsInv, Executing
<1>9. ~badUse'
  BY <1>u
<1> QED BY <1>1, <1>2, <1>3, <1>4, <1>5, <1>6, <1>7, <1>8, <1>9

\* A token is copied from a source or token, which keeps the state.
LEMMA AddTokenKeeps ==
  ASSUME StopInv, NEW t \in Threads, NEW k \in Tokens, AddToken(t, k)
  PROVE  StopInv'
<1> USE DEF StopInv
<1>a. /\ k \notin tokens /\ (sources # {} \/ tokens # {})
      /\ badUse' = (badUse \/ deleted)
      /\ tokens' = tokens \cup {k} /\ tok' = tok + 1
      /\ UNCHANGED <<stop, locker, src, list, signaller, deleted, sources,
                     cbst, reg, isRemoved, finished, rs, rsSrc, cur, more,
                     removed, op, opCb, opTok, runs>>
  BY DEF AddToken, UseState, cbVars, rsVars, opVars
<1>t. StopTypeOK /\ NoThread \notin Threads /\ NoCb \notin Cbs /\ NoTok \notin Tokens
  BY ConstAssumption
<1>p. ~deleted
  BY <1>a DEF CountInv
<1>l. \A d \in Cbs : Listed(d)' <=> Listed(d)
  BY <1>a DEF Listed
<1>u. ~badUse'
  BY <1>a, <1>p
<1>1. StopTypeOK'
  BY <1>t, <1>a DEF StopTypeOK, Lives, OpPCs, RsPCs, Making, Pushing, Removing, Executing
<1>2. ListInv'
  BY <1>t, <1>a, <1>p, <1>l DEF ListInv
<1>3. PairInv'
  BY <1>t, <1>a, <1>p DEF PairInv
<1>4. LockInv'
  BY <1>t, <1>a, <1>p DEF LockInv, Making, Pushing, Removing, Executing
<1>5. CountInv'
  <2>1. IsFiniteSet(tokens) /\ Cardinality(tokens) \in Nat /\ Cardinality(Counted) \in Nat
    BY Finite
  <2>2. Cardinality(tokens') = Cardinality(tokens) + 1
    BY <1>a, <2>1, FS_AddElement
  <2>3. Counted' = Counted
    BY <1>a DEF Counted
  <2> QED BY <1>a, <1>p, <2>1, <2>2, <2>3 DEF CountInv
<1>6. ASSUME NEW x \in Cbs PROVE CbInv(x)'
  <2>1. CbInv(x) /\ \A u \in Threads : Holds(u, x)' => Holds(u, x)
    BY <1>t, <1>a, <1>p DEF Holds, Executing
  <2>2. Fresh(x) => (cbst'[x] = "none" => Fresh(x)')
    BY <1>t, <1>a, <1>p, <1>l, <2>1 DEF Fresh, CbInv, Holds, Executing
  <2>3. Quiet(x) => (cbst'[x] = "dead" => Quiet(x)')
    BY <1>t, <1>a, <1>p, <2>1 DEF Quiet, Holds, CbInv
  <2> QED BY <1>t, <1>a, <1>p, <2>1, <2>2, <2>3 DEF CbInv
<1>7. ASSUME NEW u \in Threads PROVE OpInv(u)'
  BY <1>t, <1>a, <1>p, <1>l DEF OpInv, Fresh, Quiet, Holds, Making, Pushing, Removing, Executing
<1>8. ASSUME NEW u \in Threads PROVE RsInv(u)'
  BY <1>t, <1>a, <1>p, <1>l DEF RsInv, Making, Pushing, Removing, Executing
<1>9. ~badUse'
  BY <1>u
<1> QED BY <1>1, <1>2, <1>3, <1>4, <1>5, <1>6, <1>7, <1>8, <1>9

\* A token is destroyed, with the state if it is the last to refer to it.
LEMMA DropTokenKeeps ==
  ASSUME StopInv, NEW t \in Threads, NEW k \in Tokens, DropToken(t, k)
  PROVE  StopInv'
<1> USE DEF StopInv
<1>a. /\ k \in tokens /\ ~InUse(k) /\ badUse' = (badUse \/ deleted)
      /\ tokens' = tokens \ {k} /\ tok' = tok - 1
      /\ deleted' = (deleted \/ Word < 4 + 4)
      /\ UNCHANGED <<stop, locker, src, list, signaller, sources, cbst, reg,
                     isRemoved, finished, rs, rsSrc, cur, more, removed, op,
                     opCb, opTok, runs>>
  BY DEF DropToken, UseState, cbVars, rsVars, opVars
<1>t. StopTypeOK /\ NoThread \notin Threads /\ NoCb \notin Cbs /\ NoTok \notin Tokens
  BY ConstAssumption
<1>p. ~deleted /\ \A u \in Threads : opTok[u] # k
  BY <1>a DEF CountInv, InUse
<1>l. \A d \in Cbs : Listed(d)' <=> Listed(d)
  BY <1>a DEF Listed
<1>u. ~badUse'
  BY <1>a, <1>p
<1>1. StopTypeOK'
  BY <1>t, <1>a DEF StopTypeOK, Lives, OpPCs, RsPCs, Making, Pushing, Removing, Executing
<1>2. ListInv'
  BY <1>t, <1>a, <1>p, <1>l DEF ListInv
<1>3. PairInv'
  BY <1>t, <1>a, <1>p DEF PairInv
<1>4. LockInv'
  BY <1>t, <1>a, <1>p DEF LockInv, Making, Pushing, Removing, Executing
<1>5. CountInv'
  <2>1. Counted' = Counted
    BY <1>a DEF Counted
  <2>2. deleted' <=> deleted \/ (src = 0 /\ tok <= 1)
    BY <1>a, LastReference
  <2> QED BY <1>a, <2>1, <2>2, TokenDropped
<1>6. ASSUME NEW x \in Cbs PROVE CbInv(x)'
  <2>1. CbInv(x) /\ \A u \in Threads : Holds(u, x)' => Holds(u, x)
    BY <1>t, <1>a, <1>p DEF Holds, Executing
  <2>2. Fresh(x) => (cbst'[x] = "none" => Fresh(x)')
    BY <1>t, <1>a, <1>p, <1>l, <2>1 DEF Fresh, CbInv, Holds, Executing
  <2>3. Quiet(x) => (cbst'[x] = "dead" => Quiet(x)')
    BY <1>t, <1>a, <1>p, <2>1 DEF Quiet, Holds, CbInv
  <2> QED BY <1>t, <1>a, <1>p, <2>1, <2>2, <2>3 DEF CbInv
<1>7. ASSUME NEW u \in Threads PROVE OpInv(u)'
  BY <1>t, <1>a, <1>p, <1>l DEF OpInv, Fresh, Quiet, Holds, Making, Pushing, Removing, Executing
<1>8. ASSUME NEW u \in Threads PROVE RsInv(u)'
  BY <1>t, <1>a, <1>p, <1>l DEF RsInv, Making, Pushing, Removing, Executing
<1>9. ~badUse'
  BY <1>u
<1> QED BY <1>1, <1>2, <1>3, <1>4, <1>5, <1>6, <1>7, <1>8, <1>9

\* A source is copied.
LEMMA AddSourceKeeps ==
  ASSUME StopInv, NEW t \in Threads, NEW s \in Sources, AddSource(t, s)
  PROVE  StopInv'
<1> USE DEF StopInv
<1>a. /\ s \notin sources /\ sources # {} /\ badUse' = (badUse \/ deleted)
      /\ sources' = sources \cup {s} /\ src' = src + 1
      /\ UNCHANGED <<stop, locker, tok, list, signaller, deleted, tokens,
                     cbst, reg, isRemoved, finished, rs, rsSrc, cur, more,
                     removed, op, opCb, opTok, runs>>
  BY DEF AddSource, UseState, cbVars, rsVars, opVars
<1>t. StopTypeOK /\ NoThread \notin Threads /\ NoCb \notin Cbs /\ NoTok \notin Tokens
  BY ConstAssumption
<1>p. ~deleted
  BY <1>a DEF CountInv
<1>l. \A d \in Cbs : Listed(d)' <=> Listed(d)
  BY <1>a DEF Listed
<1>u. ~badUse'
  BY <1>a, <1>p
<1>1. StopTypeOK'
  BY <1>t, <1>a DEF StopTypeOK, Lives, OpPCs, RsPCs, Making, Pushing, Removing, Executing
<1>2. ListInv'
  BY <1>t, <1>a, <1>p, <1>l DEF ListInv
<1>3. PairInv'
  BY <1>t, <1>a, <1>p DEF PairInv
<1>4. LockInv'
  BY <1>t, <1>a, <1>p DEF LockInv, Making, Pushing, Removing, Executing
<1>5. CountInv'
  <2>1. IsFiniteSet(sources) /\ Cardinality(sources) \in Nat
    BY Finite
  <2>2. Cardinality(sources') = Cardinality(sources) + 1
    BY <1>a, <2>1, FS_AddElement
  <2>3. Counted' = Counted
    BY <1>a DEF Counted
  <2> QED BY <1>a, <1>p, <2>1, <2>2, <2>3 DEF CountInv
<1>6. ASSUME NEW x \in Cbs PROVE CbInv(x)'
  <2>1. CbInv(x) /\ \A u \in Threads : Holds(u, x)' => Holds(u, x)
    BY <1>t, <1>a, <1>p DEF Holds, Executing
  <2>2. Fresh(x) => (cbst'[x] = "none" => Fresh(x)')
    BY <1>t, <1>a, <1>p, <1>l, <2>1 DEF Fresh, CbInv, Holds, Executing
  <2>3. Quiet(x) => (cbst'[x] = "dead" => Quiet(x)')
    BY <1>t, <1>a, <1>p, <2>1 DEF Quiet, Holds, CbInv
  <2> QED BY <1>t, <1>a, <1>p, <2>1, <2>2, <2>3 DEF CbInv
<1>7. ASSUME NEW u \in Threads PROVE OpInv(u)'
  BY <1>t, <1>a, <1>p, <1>l DEF OpInv, Fresh, Quiet, Holds, Making, Pushing, Removing, Executing
<1>8. ASSUME NEW u \in Threads PROVE RsInv(u)'
  BY <1>t, <1>a, <1>p, <1>l DEF RsInv, Making, Pushing, Removing, Executing
<1>9. ~badUse'
  BY <1>u
<1> QED BY <1>1, <1>2, <1>3, <1>4, <1>5, <1>6, <1>7, <1>8, <1>9

\* A source is destroyed; none that request_stop() is to come back with.
LEMMA DropSourceKeeps ==
  ASSUME StopInv, NEW t \in Threads, NEW s \in Sources, DropSource(t, s)
  PROVE  StopInv'
<1> USE DEF StopInv
<1>a. /\ s \in sources /\ badUse' = (badUse \/ deleted) /\ UserCode(t)
      /\ \A x \in Threads : rsSrc[x] = s => (x = t /\ ~more[x])
      /\ sources' = sources \ {s} /\ src' = src - 1
      /\ deleted' = (deleted \/ Word < 4 + SourceInc)
      /\ UNCHANGED <<stop, locker, tok, list, signaller, tokens, cbst, reg,
                     isRemoved, finished, rs, rsSrc, cur, more, removed, op,
                     opCb, opTok, runs>>
  BY DEF DropSource, UseState, cbVars, rsVars, opVars
<1>t. StopTypeOK /\ NoThread \notin Threads /\ NoCb \notin Cbs /\ NoTok \notin Tokens
  BY ConstAssumption
<1>p. ~deleted
  BY <1>a DEF CountInv
<1>l. \A d \in Cbs : Listed(d)' <=> Listed(d)
  BY <1>a DEF Listed
<1>u. ~badUse'
  BY <1>a, <1>p
<1>1. StopTypeOK'
  BY <1>t, <1>a DEF StopTypeOK, Lives, OpPCs, RsPCs, Making, Pushing, Removing, Executing
<1>2. ListInv'
  BY <1>t, <1>a, <1>p, <1>l DEF ListInv
<1>3. PairInv'
  BY <1>t, <1>a, <1>p DEF PairInv
<1>4. LockInv'
  BY <1>t, <1>a, <1>p DEF LockInv, Making, Pushing, Removing, Executing
<1>5. CountInv'
  <2>1. Counted' = Counted
    BY <1>a DEF Counted
  <2>2. deleted' <=> deleted \/ src = 0 \/ (src = 1 /\ tok = 0)
    BY <1>a, LastReference
  <2> QED BY <1>a, <2>1, <2>2, SourceDropped
<1>6. ASSUME NEW x \in Cbs PROVE CbInv(x)'
  <2>1. CbInv(x) /\ \A u \in Threads : Holds(u, x)' => Holds(u, x)
    BY <1>t, <1>a, <1>p DEF Holds, Executing
  <2>2. Fresh(x) => (cbst'[x] = "none" => Fresh(x)')
    BY <1>t, <1>a, <1>p, <1>l, <2>1 DEF Fresh, CbInv, Holds, Executing
  <2>3. Quiet(x) => (cbst'[x] = "dead" => Quiet(x)')
    BY <1>t, <1>a, <1>p, <2>1 DEF Quiet, Holds, CbInv
  <2> QED BY <1>t, <1>a, <1>p, <2>1, <2>2, <2>3 DEF CbInv
<1>7. ASSUME NEW u \in Threads PROVE OpInv(u)'
  BY <1>t, <1>a, <1>p, <1>l DEF OpInv, Fresh, Quiet, Holds, Making, Pushing, Removing, Executing
<1>8. ASSUME NEW u \in Threads PROVE RsInv(u)'
  <2>1. rs[u] \in {"pop", "relock"} \/ (rs[u] \in Executing /\ more[u]) => rsSrc[u] # s
    BY <1>a DEF UserCode
  <2>2. rs[u] \in {"pop", "relock"} \/ (rs[u] \in Executing /\ more[u]) => rsSrc[u] \in sources'
    BY <1>a, <2>1 DEF RsInv
  <2> QED BY <1>a, <1>l, <2>2 DEF RsInv, Executing
<1>9. ~badUse'
  BY <1>u
<1> QED BY <1>1, <1>2, <1>3, <1>4, <1>5, <1>6, <1>7, <1>8, <1>9

\* A second request_stop() and a stuttering step change nothing.
LEMMA StutterKeeps ==
  ASSUME StopInv, UNCHANGED vars
  PROVE  StopInv'
<1> USE DEF StopInv, vars
<1>1. StopTypeOK' /\ ListInv' /\ PairInv' /\ LockInv'
  BY DEF StopTypeOK, ListInv, Listed, PairInv, LockInv
<1>2. CountInv'
  BY DEF CountInv, Counted
<1>3. \A b \in Cbs : CbInv(b)'
  BY DEF CbInv, Fresh, Quiet, Holds, Listed
<1>4. \A t \in Threads : OpInv(t)'
  BY DEF OpInv, Fresh, Quiet, Holds, Listed
<1>5. \A t \in Threads : RsInv(t)'
  BY DEF RsInv, Listed
<1> QED BY <1>1, <1>2, <1>3, <1>4, <1>5

-----------------------------------------------------------------------------
LEMMA StopInit == Init => StopInv
<1> SUFFICES ASSUME Init PROVE StopInv
  OBVIOUS
<1>1. PICK s \in Sources : sources = {s}
  BY DEF Init
<1>2. StopTypeOK
  <2>1. list \in Seq(Cbs) /\ sources \in SUBSET Sources /\ tokens \in SUBSET Tokens
    BY <1>1 DEF Init
  <2>2. /\ cbst \in [Cbs -> Lives] /\ runs \in [Cbs -> {0, 1}]
        /\ rs \in [Threads -> RsPCs] /\ op \in [Threads -> OpPCs]
    BY DEF Init, Lives, RsPCs, OpPCs
  <2>3. /\ reg \in [Cbs -> BOOLEAN] /\ finished \in [Cbs -> BOOLEAN]
        /\ isRemoved \in [Cbs -> Threads \cup {NoThread}]
    BY DEF Init
  <2>4. /\ rsSrc \in [Threads -> Sources \cup {NoSrc}]
        /\ cur \in [Threads -> Cbs \cup {NoCb}]
        /\ more \in [Threads -> BOOLEAN] /\ removed \in [Threads -> BOOLEAN]
        /\ opCb \in [Threads -> Cbs \cup {NoCb}]
        /\ opTok \in [Threads -> Tokens \cup {NoTok}]
    BY DEF Init
  <2>5. /\ stop \in BOOLEAN /\ deleted \in BOOLEAN /\ badUse \in BOOLEAN
        /\ locker \in Threads \cup {NoThread} /\ signaller \in Threads \cup {NoThread}
    BY DEF Init
  <2> QED BY <2>1, <2>2, <2>3, <2>4, <2>5 DEF StopTypeOK
<1>3. \A b \in Cbs : ~Listed(b)
  BY DEF Init, Listed
<1>4. ListInv /\ PairInv /\ LockInv
  <2>1. 1..Len(list) = {}
    BY DEF Init
  <2>2. ListInv
    BY <1>3, <2>1 DEF ListInv
  <2>3. PairInv
    BY DEF Init, PairInv
  <2>4. LockInv
    BY DEF Init, LockInv, Pushing
  <2> QED BY <2>2, <2>3, <2>4
<1>5. CountInv
  <2>1. Counted = {}
    BY DEF Init, Counted
  <2>2. Cardinality(sources) = 1 /\ Cardinality({}) = 0
    BY <1>1, FS_Singleton, FS_EmptySet
  <2> QED BY <1>1, <2>1, <2>2 DEF Init, CountInv
<1>6. \A b \in Cbs : CbInv(b)
  BY <1>3 DEF Init, CbInv, Fresh, Quiet, Holds, Executing
<1>7. \A t \in Threads : OpInv(t) /\ RsInv(t)
  BY <1>3 DEF Init, OpInv, RsInv, Executing, Pushing, Making, Removing
<1> QED BY <1>2, <1>4, <1>5, <1>6, <1>7 DEF Init, StopInv

LEMMA StopStep == StopInv /\ [Next]_vars => StopInv'
<1> SUFFICES ASSUME StopInv, [Next]_vars PROVE StopInv'
  OBVIOUS
<1>1. CASE UNCHANGED vars
  BY <1>1, StutterKeeps
<1>2. CASE Next
  <2>1. PICK t \in Threads : Continue(t) \/ Relock(t) \/ UserStep(t)
    BY <1>2 DEF Next
  <2>2. CASE Continue(t)
    <3>1. CASE Pop(t)
      BY <3>1, PopKeeps, PopNoneKeeps
    <3>2. CASE Mark(t)
      BY <3>2, MarkKeeps
    <3>3. CASE ExecReturn(t) \/ After(t)
      BY <3>3, ExecReturnKeeps, AfterKeeps
    <3>4. CASE Push(t)
      BY <3>4, PushKeeps
    <3>5. CASE Constructed(t)
      BY <3>5, ConstructedKeeps
    <3>6. CASE UnlinkCb(t)
      BY <3>6, UnlinkKeeps, AwaitStarts
    <3>7. CASE Await(t) \/ Release(t)
      BY <3>7, AwaitKeeps, ReleaseKeeps
    <3> QED BY <2>2, <3>1, <3>2, <3>3, <3>4, <3>5, <3>6, <3>7 DEF Continue
  <2>3. CASE Relock(t)
    BY <2>3, RelockKeeps
  <2>4. CASE UserStep(t)
    <3>1. CASE \E s \in Sources : RequestStop(t, s)
      <4>1. PICK s \in Sources : RequestStop(t, s)
        BY <3>1
      <4>2. CASE ~stop
        BY <4>1, <4>2, RequestStopKeeps
      <4>3. CASE stop
        <5>1. ~deleted /\ badUse = FALSE
          BY <4>1 DEF RequestStop, StopInv, CountInv, StopTypeOK
        <5>2. badUse' = (badUse \/ deleted) /\ UNCHANGED <<word, signaller, rs, rsSrc>>
          BY <4>1, <4>3 DEF RequestStop, UseState
        <5>3. UNCHANGED <<list, deleted, handles, cbVars, cur, more, removed, opVars, runs>>
          BY <4>1 DEF RequestStop
        <5>4. UNCHANGED vars
          BY <5>1, <5>2, <5>3 DEF word, handles, cbVars, opVars, vars
        <5> QED BY <5>4, StutterKeeps
      <4> QED BY <4>2, <4>3
    <3>2. CASE \E s \in Sources : AddSource(t, s) \/ DropSource(t, s)
      BY <3>2, AddSourceKeeps, DropSourceKeeps
    <3>3. CASE \E k \in Tokens : AddToken(t, k) \/ DropToken(t, k)
      BY <3>3, AddTokenKeeps, DropTokenKeeps
    <3>4. CASE \E b \in Cbs : Destroy(t, b)
      BY <3>4, DestroyKeeps, DestroyLocks
    <3>5. CASE \E b \in Cbs, k \in Tokens, pushOp \in {"push", "pushMoved"} :
                 Construct(t, b, k, pushOp)
      <4>1. PICK b \in Cbs, k \in Tokens, pushOp \in Pushing : Construct(t, b, k, pushOp)
        BY <3>5 DEF Pushing
      <4> QED BY <4>1, AtOnceKeeps, ConstructKeeps
    <3> QED BY <2>4, <3>1, <3>2, <3>3, <3>4, <3>5 DEF UserStep
  <2> QED BY <2>1, <2>2, <2>3, <2>4
<1> QED BY <1>1, <1>2

LEMMA StopAlways == Spec => []StopInv
BY StopInit, StopStep, PTL DEF Spec

-----------------------------------------------------------------------------
\* Whatever the order in which sources, tokens and callbacks are destroyed
\* against request_stop() and the constructors, every access to the shared
\* state and every access of request_stop() to a callback finds it alive.
THEOREM NothingFreedUsed == Spec => []NoUseAfterFree
<1>1. StopInv => NoUseAfterFree
  BY DEF StopInv, NoUseAfterFree
<1> QED BY <1>1, StopAlways, PTL

\* The comparisons with the state word delete the state with the last
\* reference, not before and not never.
THEOREM DeletedInTime == Spec => []DeletedWhenUnreferenced
<1>1. StopInv => DeletedWhenUnreferenced
  <2> SUFFICES ASSUME StopInv PROVE DeletedWhenUnreferenced
    OBVIOUS
  <2>1. deleted <=> sources = {} /\ tokens = {} /\ Counted = {}
    BY DEF StopInv, CountInv
  <2>2. ASSUME tokens = {} PROVE \A t \in Threads : op[t] # "made"
    BY <2>2 DEF StopInv, OpInv, Making
  <2>3. tokens = {} => (Counted = {} <=> \A b \in Cbs : ~reg[b])
    BY <2>2 DEF Counted
  <2> QED BY <2>1, <2>3 DEF DeletedWhenUnreferenced
<1> QED BY <1>1, StopAlways, PTL

\* A callback is executed by the constructor that finds the flag set or by
\* request_stop(), never by both and never twice.
THEOREM AtMostOnce == Spec => []ExecutedOnce
<1>1. StopInv => ExecutedOnce
  BY DEF StopInv, StopTypeOK, ExecutedOnce
<1> QED BY <1>1, StopAlways, PTL

\* When ~stop_callback() has returned, request_stop() is through with the
\* callback, or executes it further up the stack of the same thread and was
\* told not to touch it again.
THEOREM QuietWhenDestroyed == Spec => []QuietAfterDestroy
<1>1. StopInv => QuietAfterDestroy
  <2> SUFFICES ASSUME StopInv, NEW t \in Threads, rs[t] \in Executing, cbst[cur[t]] = "dead"
               PROVE  rs[t] # "mark" /\ removed[t]
    BY DEF QuietAfterDestroy, Executing
  <2>1. cur[t] \in Cbs
    BY DEF StopInv, RsInv
  <2> QED BY <2>1 DEF StopInv, CbInv, Quiet, Holds
<1> QED BY <1>1, StopAlways, PTL
=============================================================================
