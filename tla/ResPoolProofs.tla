---------------------------- MODULE ResPoolProofs ----------------------------
(***************************************************************************)
(* The safety of ResPool, for any number of coroutines, resources and      *)
(* waits, any capacity and any mix of timers and stop tokens, with one     *)
(* thread or many: the deque, the id set and the waiting coroutines agree; *)
(* a coroutine handed a resource is one that still waits for it; no        *)
(* resource has two owners; and the capacity is kept.                      *)
(*                                                                         *)
(* A wait can be ended by three parties - a recycling coroutine, a timer   *)
(* handler and a stop callback - which know it by its id only.  The        *)
(* invariant ties an id to one coroutine for good: ids are given out once, *)
(* in order, and timers keep the coroutine they were armed by.             *)
(***************************************************************************)
EXTENDS ResPool, SequenceTheorems, FiniteSetTheorems, TLAPS

\* The awaiter under construction is the one that owns the mutex; it was let
\* in while an id was left, and only a waiter arms a timer.
MutexInv ==
  /\ \A c \in Coros : pc[c] = "acquiring" => mut = c
  /\ mut # NoCoro => idSeq < MaxId
  /\ \A c \in Coros : susp[c] # "none" => myId[c] # 0

TypeInv == TypeOK /\ MutexInv

\* TypeOK alone is not inductive: add_awaiter() stays within the ids, and a
\* timer is armed for an id that was given out, because of MutexInv.
LEMMA TypeInit == Init => TypeInv
<1> SUFFICES ASSUME Init PROVE TypeInv
  OBVIOUS
<1>1. unused \in Seq(Res) /\ queue \in Seq(Slots)
  BY EmptySeq DEF Init
<1>2. cap \in 1..MaxCap
  BY ConstAssumption DEF Init
<1>a. pc \in [Coros -> PCs] /\ ec \in [Coros -> ECs] /\ susp \in [Coros -> SuspPCs]
      /\ stopCb \in [Coros -> CbStates] /\ stopReq \in [Coros -> BOOLEAN]
  BY DEF Init, PCs, ECs, SuspPCs, CbStates
<1>b. /\ myId \in [Coros -> 0..MaxId] /\ idSeq \in 0..MaxId
      /\ rh \in [Coros -> Res \cup {NoRes}] /\ held \in [Coros -> Res \cup {NoRes}]
      /\ next \in [Coros -> Coros \cup {NoCoro}]
  BY ConstAssumption DEF Init
<1>3. TypeOK
  BY <1>1, <1>2, <1>a, <1>b DEF Init, TypeOK
<1>4. MutexInv
  BY ConstAssumption DEF Init, MutexInv
<1> QED BY <1>3, <1>4 DEF TypeInv

\* try_acquire() takes a resource that was not in use and keeps the lists typed.
LEMMA TakeFacts ==
  ASSUME TypeOK, NEW r \in Res, Take(r)
  PROVE  /\ unused' \in Seq(Res)
         /\ inuse' \in SUBSET Res
         /\ inuse' = inuse \cup {r}
         /\ cap' = cap
         /\ \/ /\ unused # <<>> /\ r = unused[1]
               /\ Len(unused) \in Nat \ {0}
               /\ Len(unused') = Len(unused) - 1
               /\ \A i \in 1..Len(unused') : unused'[i] = unused[i + 1]
            \/ /\ unused = <<>> /\ unused' = unused /\ r \notin inuse
               /\ Cardinality(inuse) < cap
<1>1. CASE unused # <<>>
  <2>1. unused' = Tail(unused) /\ r = Head(unused) /\ inuse' = inuse \cup {r} /\ cap' = cap
    BY <1>1 DEF Take
  <2>2. Head(unused) = unused[1]
    BY <1>1 DEF TypeOK
  <2>3. Len(unused) \in Nat \ {0}
    BY <1>1, EmptySeq DEF TypeOK
  <2> QED BY <1>1, <2>1, <2>2, <2>3, HeadTailProperties DEF TypeOK
<1>2. CASE unused = <<>>
  BY <1>2 DEF Take, TypeOK
<1> QED BY <1>1, <1>2

\* remove_awaiter() keeps the deque's length and ids and nulls one slot.
LEMMA UnlinkFacts ==
  ASSUME TypeOK, NEW x, Unlink(x)
  PROVE  /\ queue' \in Seq(Slots)
         /\ awaiters' \in SUBSET (1..MaxId)
         /\ awaiters' = awaiters \ {x}
         /\ idSeq' = idSeq
         /\ Len(queue') = Len(queue)
         /\ Len(queue) \in Nat
         /\ \A i \in 1..Len(queue) :
              /\ queue[i] \in Slots /\ queue'[i] \in Slots
              /\ queue'[i].id = queue[i].id
              /\ queue'[i].w = IF queue[i].id = x THEN NoCoro ELSE queue[i].w
<1> DEFINE e(i) == IF queue[i].id = x THEN [queue[i] EXCEPT !.w = NoCoro] ELSE queue[i]
<1>1. Len(queue) \in Nat /\ \A i \in 1..Len(queue) : queue[i] \in Slots
  BY LenProperties, ElementOfSeq DEF TypeOK
<1>2. \A i \in 1..Len(queue) :
        /\ e(i) \in Slots /\ e(i).id = queue[i].id
        /\ e(i).w = IF queue[i].id = x THEN NoCoro ELSE queue[i].w
  BY <1>1 DEF Slots
<1>3. queue' = [i \in 1..Len(queue) |-> e(i)]
  BY DEF Unlink
<1> HIDE DEF e
<1>4. queue' \in [1..Len(queue) -> Slots]
  BY <1>2, <1>3
<1>5. queue' \in Seq(Slots) /\ Len(queue') = Len(queue)
  BY <1>1, <1>4, SeqDef
<1> QED BY <1>1, <1>2, <1>3, <1>5 DEF Unlink, TypeOK

\* Resuming a coroutine moves that coroutine only.
LEMMA ResumedFacts ==
  ASSUME TypeOK, NEW c \in Coros, NEW code \in ECs, Resumed(c, code)
  PROVE  /\ pc' \in [Coros -> PCs] /\ ec' \in [Coros -> ECs]
         /\ pc'[c] = "leaving"
         /\ ec'[c] = code
         /\ \A d \in Coros \ {c} : pc'[d] = pc[d] /\ ec'[d] = ec[d]
<1>1. pc \in [Coros -> PCs] /\ ec \in [Coros -> ECs] /\ "leaving" \in PCs
  BY DEF TypeOK, PCs
<1> QED BY <1>1 DEF Resumed

\* Popping k + 1 slots off the deque.
LEMMA PopFacts ==
  ASSUME TypeOK, NEW k \in 0..Len(queue) - 1
  PROVE  LET q == SubSeq(queue, k + 2, Len(queue))
         IN  /\ q \in Seq(Slots)
             /\ Len(queue) \in Nat
             /\ Len(q) = Len(queue) - (k + 1)
             /\ \A i \in 1..Len(q) : q[i] = queue[i + k + 1]
<1>1. Len(queue) \in Nat /\ \A i \in 1..Len(queue) : queue[i] \in Slots
  BY LenProperties, ElementOfSeq DEF TypeOK
<1>2. \A i \in k + 2 .. Len(queue) : queue[i] \in Slots
  BY <1>1
<1> DEFINE q == SubSeq(queue, k + 2, Len(queue))
<1>3. /\ q \in Seq(Slots)
      /\ Len(q) = IF k + 2 <= Len(queue) THEN Len(queue) - (k + 2) + 1 ELSE 0
      /\ \A i \in 1 .. Len(queue) - (k + 2) + 1 : q[i] = queue[k + 2 + i - 1]
  BY <1>1, <1>2, SubSeqProperties
<1> HIDE DEF q
<1>4. Len(q) = Len(queue) - (k + 1)
  BY <1>1, <1>3
<1>5. \A i \in 1..Len(q) : q[i] = queue[i + k + 1]
  BY <1>1, <1>3, <1>4
<1> QED BY <1>1, <1>3, <1>4, <1>5 DEF q

\* create_all() puts new resources before the unused ones.
LEMMA CreateAllFacts ==
  ASSUME TypeOK, CreateAll
  PROVE  \E k \in 1..(cap - Occupied), s \in Seq(Res) :
           /\ Len(s) = k
           /\ \A i \in 1..k : s[i] \notin inuse /\ \A j \in 1..Len(unused) : s[i] # unused[j]
           /\ \A i, j \in 1..k : s[i] = s[j] => i = j
           /\ unused' \in Seq(Res) /\ Len(unused) \in Nat
           /\ Len(unused') = k + Len(unused)
           /\ \A i \in 1..k + Len(unused) :
                unused'[i] = IF i <= k THEN s[i] ELSE unused[i - k]
<1> DEFINE fresh == Res \ (inuse \cup {unused[i] : i \in DOMAIN unused})
<1>0. Len(unused) \in Nat /\ DOMAIN unused = 1..Len(unused)
  BY LenProperties DEF TypeOK
<1>1. PICK k \in 1..(cap - Occupied) : \E s \in [1..k -> fresh] :
        /\ \A i, j \in DOMAIN s : s[i] = s[j] => i = j
        /\ unused' = s \o unused
  BY DEF CreateAll
<1>a. PICK s \in [1..k -> fresh] :
        /\ \A i, j \in DOMAIN s : s[i] = s[j] => i = j
        /\ unused' = s \o unused
  BY <1>1
<1>2. k \in Nat
  BY <1>1
<1>3. s \in [1..k -> Res]
  BY <1>a
<1>4. s \in Seq(Res) /\ Len(s) = k
  BY <1>2, <1>3, SeqDef
<1>5. \A i \in 1..k : s[i] \notin inuse /\ \A j \in 1..Len(unused) : s[i] # unused[j]
  BY <1>0, <1>a, SMTT(30)
<1>6. unused \in Seq(Res)
  BY DEF TypeOK
<1>7. /\ s \o unused \in Seq(Res)
      /\ Len(s \o unused) = Len(s) + Len(unused)
      /\ \A i \in 1 .. Len(s) + Len(unused) :
           (s \o unused)[i] = IF i <= Len(s) THEN s[i] ELSE unused[i - Len(s)]
  BY <1>4, <1>6, ConcatProperties
<1>8. \A i, j \in 1..k : s[i] = s[j] => i = j
  BY <1>a
<1>9. /\ Len(s) = k
      /\ unused' \in Seq(Res) /\ Len(unused) \in Nat
      /\ Len(unused') = k + Len(unused)
      /\ \A i \in 1..k + Len(unused) :
           unused'[i] = IF i <= k THEN s[i] ELSE unused[i - k]
  BY <1>0, <1>a, <1>4, <1>7
<1> QED BY <1>1, <1>4, <1>5, <1>8, <1>9

\* Every step keeps the types.
LEMMA TypeStep == ASSUME TypeInv, [Next]_vars PROVE TypeInv'
<1> USE ConstAssumption DEF TypeInv, TypeOK, MutexInv, PCs, ECs, SuspPCs, CbStates,
       poolVars, queueVars, stopVars
<1>1. ASSUME NEW c \in Coros, CallAcquire(c) PROVE TypeInv'
  BY <1>1 DEF CallAcquire
<1>2. ASSUME NEW c \in Coros, DropAwaiter(c) PROVE TypeInv'
  BY <1>2 DEF DropAwaiter
<1>3. ASSUME NEW c \in Coros, SuspendAborted(c) PROVE TypeInv'
  BY <1>3 DEF SuspendAborted, Resumed
<1>4. ASSUME NEW c \in Coros, SuspendAcquired(c) PROVE TypeInv'
  BY <1>4, TakeFacts DEF SuspendAcquired, MayAcquire, Resumed
<1>5. ASSUME NEW c \in Coros, SuspendThrows(c) PROVE TypeInv'
  BY <1>5 DEF SuspendThrows, MayAcquire, Resumed
<1>6. ASSUME NEW c \in Coros, SuspendQueued(c) PROVE TypeInv'
  BY <1>6 DEF SuspendQueued, MayAcquire, Slots
<1>7. ASSUME NEW c \in Coros, ArmTimer(c) PROVE TypeInv'
  BY <1>7 DEF ArmTimer, Timers
<1>8. ASSUME NEW c \in Coros, RegisterStop(c) PROVE TypeInv'
  BY <1>8 DEF RegisterStop
<1>9. ASSUME NEW c \in Coros, RegisterStopLate(c) PROVE TypeInv'
  <2>1. /\ queue' \in Seq(Slots) /\ awaiters' \in SUBSET (1..MaxId) /\ idSeq' = idSeq
        /\ timers' \in SUBSET timers
        /\ \/ Resumed(c, "aborted") /\ dangling' = TRUE
           \/ UNCHANGED <<pc, ec, dangling>>
    BY <1>9, UnlinkFacts DEF RegisterStopLate, Cancel
  <2>2. /\ susp' = [susp EXCEPT ![c] = "none"]
        /\ UNCHANGED <<mut, poolVars, myId, rh, held, next, stopVars>>
    BY <1>9 DEF RegisterStopLate
  <2>3. pc' \in [Coros -> PCs] /\ ec' \in [Coros -> ECs] /\ dangling' \in BOOLEAN
    BY <2>1, ResumedFacts
  <2>4. TypeOK'
    BY <2>1, <2>2, <2>3
  <2>5. MutexInv'
    BY <2>1, <2>2 DEF Resumed
  <2> QED BY <2>4, <2>5
<1>10. ASSUME NEW c \in Coros, RequestStop(c) PROVE TypeInv'
  BY <1>10 DEF RequestStop
<1>11. ASSUME NEW c \in Coros, StopCallback(c) PROVE TypeInv'
  BY <1>11, UnlinkFacts, ZenonT(40) DEF StopCallback, Cancel, Resumed
<1>12. ASSUME NEW c \in Coros, ResumeHanded(c) PROVE TypeInv'
  BY <1>12 DEF ResumeHanded, Resumed
<1>13. ASSUME NEW c \in Coros, DestroyAwaiter(c) PROVE TypeInv'
  BY <1>13 DEF DestroyAwaiter, Cancel
<1>14. ASSUME NEW c \in Coros, TryAcquire(c) PROVE TypeInv'
  BY <1>14, TakeFacts DEF TryAcquire
<1>15. ASSUME NEW c \in Coros, RecycleUnused(c) PROVE TypeInv'
  BY <1>15 DEF RecycleUnused
<1>16. ASSUME NEW c \in Coros, RecycleToWaiter(c) PROVE TypeInv'
  <2>1. PICK k \in 0..Len(queue) - 1 :
          /\ next' = [next EXCEPT ![c] = queue[k + 1].w]
          /\ awaiters' = awaiters \ {queue[k + 1].id}
          /\ queue' = SubSeq(queue, k + 2, Len(queue))
    BY <1>16 DEF RecycleToWaiter
  <2>2. queue' \in Seq(Slots) /\ Len(queue) \in Nat
    BY <2>1, PopFacts
  <2>3. queue[k + 1] \in Slots
    BY <2>1, <2>2, ElementOfSeq
  <2> QED BY <1>16, <2>1, <2>2, <2>3 DEF RecycleToWaiter, Slots
<1>17. ASSUME NEW c \in Coros, Complete(c) PROVE TypeInv'
  BY <1>17 DEF Complete
<1>18. ASSUME NEW t \in timers, TimerExpire(t) PROVE TypeInv'
  BY <1>18 DEF TimerExpire, Timers
<1>19. ASSUME NEW t \in timers, TimerHandler(t) PROVE TypeInv'
  <2>0. t \in Timers
    OBVIOUS
  <2>1. /\ queue' \in Seq(Slots) /\ awaiters' \in SUBSET (1..MaxId) /\ idSeq' = idSeq
        /\ \/ Resumed(t.c, "timeout")
           \/ UNCHANGED <<pc, ec>>
    BY <1>19, UnlinkFacts DEF TimerHandler
  <2>2. /\ timers' \in SUBSET timers
        /\ UNCHANGED <<mut, poolVars, myId, rh, held, next, susp, stopVars, dangling>>
    BY <1>19 DEF TimerHandler
  <2>3. t.c \in Coros
    BY <2>0 DEF Timers
  <2>4. pc' \in [Coros -> PCs] /\ ec' \in [Coros -> ECs]
    BY <2>1, <2>3, ResumedFacts
  <2>5. TypeOK'
    BY <2>1, <2>2, <2>4
  <2>6. MutexInv'
    BY <2>1, <2>2, <2>3 DEF Resumed
  <2> QED BY <2>5, <2>6
<1>20. ASSUME NEW n \in 1..MaxCap, Reserve(n) PROVE TypeInv'
  BY <1>20 DEF Reserve
<1>21. CASE CreateAll
  <2>1. unused' \in Seq(Res)
    BY <1>21, CreateAllFacts
  <2>2. UNCHANGED <<mut, cap, inuse, queueVars, pc, myId, rh, held, ec, next,
                    susp, timers, stopVars, dangling>>
    BY <1>21 DEF CreateAll
  <2> QED BY <2>1, <2>2
<1>22. CASE ClearUnused
  BY <1>22 DEF ClearUnused
<1>23. CASE UNCHANGED vars
  BY <1>23 DEF vars
<1>24. ASSUME NEW c \in Coros, OwnStop(c) PROVE TypeInv'
  BY <1>24 DEF OwnStop
<1> QED
  BY <1>1, <1>2, <1>3, <1>4, <1>5, <1>6, <1>7, <1>8, <1>9, <1>10, <1>11, <1>12, <1>13, <1>14, <1>15, <1>16, <1>17, <1>18, <1>19, <1>20, <1>21, <1>22, <1>23, <1>24 DEF Next, CoroStep, TimerStep, PoolStep, Undefined

\* The state of the pool, of its awaiters and of their timers keeps its types.
THEOREM TypeCorrect == Spec => []TypeOK
<1>1. Spec => []TypeInv
  BY TypeInit, TypeStep, PTL DEF Spec
<1> QED BY <1>1, PTL DEF TypeInv

-----------------------------------------------------------------------------
\* The deque is ordered by ids; its live slots are the ids in the set.
QueueInv ==
  /\ \A i, j \in 1..Len(queue) : i < j => queue[i].id < queue[j].id
  /\ \A i \in 1..Len(queue) :
       /\ queue[i].id <= idSeq
       /\ (queue[i].w # NoCoro) <=> (queue[i].id \in awaiters)
       /\ queue[i].w # NoCoro =>
            pc[queue[i].w] = "waiting" /\ myId[queue[i].w] = queue[i].id
  /\ \A x \in awaiters : \E i \in 1..Len(queue) : queue[i].id = x

\* An id belongs to one coroutine, and so does the timer armed with it.
IdInv ==
  /\ \A c \in Coros : myId[c] <= idSeq
  /\ \A c, d \in Coros : myId[c] = myId[d] /\ myId[c] # 0 => c = d
  /\ \A t \in timers :
       /\ t.id <= idSeq
       /\ \A c \in Coros : myId[c] = t.id => c = t.c

\* A coroutine that waits is in the set or about to be completed, by one
\* recycling coroutine; it has no error and no resource.
WaitInv ==
  /\ \A c \in Coros : pc[c] = "waiting" =>
       /\ ec[c] = "none"
       /\ myId[c] \in awaiters \/ \E d \in Coros : next[d] = c
  /\ \A d \in Coros : (next[d] # NoCoro) <=> (pc[d] = "completing")
  /\ \A d \in Coros : next[d] # NoCoro =>
       pc[next[d]] = "waiting" /\ myId[next[d]] \notin awaiters
  /\ \A c, d \in Coros : next[c] = next[d] /\ next[c] # NoCoro => c = d

LinkInv == QueueInv /\ IdInv /\ WaitInv

LEMMA LinkInit == Init => LinkInv
<1> SUFFICES ASSUME Init PROVE LinkInv
  OBVIOUS
<1>1. Len(queue) = 0
  BY DEF Init
<1> QED BY <1>1, ConstAssumption DEF Init, LinkInv, QueueInv, IdInv, WaitInv

\* The coroutine whose awaiter has an id of the set waits in a live slot.
LEMMA WhoWaits ==
  ASSUME TypeOK, LinkInv, NEW x \in awaiters
  PROVE  \E c \in Coros : /\ myId[c] = x /\ pc[c] = "waiting"
                          /\ \A d \in Coros : myId[d] = x => d = c
                          /\ \A t \in timers : t.id = x => t.c = c
<1>1. PICK i \in 1..Len(queue) : queue[i].id = x
  BY DEF LinkInv, QueueInv
<1>2. queue[i] \in Slots
  BY LenProperties, ElementOfSeq DEF TypeOK
<1>3. queue[i].w # NoCoro /\ queue[i].w \in Coros
  BY <1>1, <1>2 DEF LinkInv, QueueInv, Slots
<1>4. myId[queue[i].w] = x /\ pc[queue[i].w] = "waiting"
  BY <1>1, <1>3 DEF LinkInv, QueueInv
<1>5. x # 0
  BY DEF TypeOK
<1> QED BY <1>3, <1>4, <1>5 DEF LinkInv, IdInv

\* A handler that finds its id in the set takes the awaiter out and resumes
\* the coroutine it belongs to.
LEMMA Removal ==
  ASSUME TypeOK, LinkInv, NEW c \in Coros, myId[c] \in awaiters,
         NEW code \in ECs, Unlink(myId[c]), Resumed(c, code),
         UNCHANGED <<myId, next>>, timers' \in SUBSET timers
  PROVE  LinkInv'
<1> DEFINE x == myId[c]
<1>1. pc[c] = "waiting"
  BY WhoWaits
<1>2. /\ awaiters' = awaiters \ {x} /\ idSeq' = idSeq
      /\ Len(queue') = Len(queue) /\ Len(queue) \in Nat
      /\ \A i \in 1..Len(queue) :
              /\ queue[i] \in Slots
              /\ queue'[i].id = queue[i].id
              /\ queue'[i].w = IF queue[i].id = x THEN NoCoro ELSE queue[i].w
  BY UnlinkFacts
<1>3. /\ pc'[c] = "leaving"
      /\ \A d \in Coros \ {c} : pc'[d] = pc[d] /\ ec'[d] = ec[d]
  BY ResumedFacts
<1>4. x # 0 /\ \A d \in Coros : myId[d] = x => d = c
  BY DEF TypeOK, LinkInv, IdInv
<1> HIDE DEF x
<1>5. QueueInv'
  <2>1. \A i \in 1..Len(queue) :
          /\ queue[i].id <= idSeq
          /\ (queue'[i].w # NoCoro) <=> (queue[i].id \in awaiters \ {x})
    BY <1>2 DEF LinkInv, QueueInv
  <2>2. ASSUME NEW i \in 1..Len(queue), queue'[i].w # NoCoro
        PROVE  pc'[queue'[i].w] = "waiting" /\ myId[queue'[i].w] = queue[i].id
    <3>1. /\ queue'[i].w = queue[i].w /\ queue[i].w \in Coros
          /\ queue[i].id # x
      BY <1>2, <2>2 DEF Slots
    <3>2. pc[queue[i].w] = "waiting" /\ myId[queue[i].w] = queue[i].id
      BY <3>1, <2>2 DEF LinkInv, QueueInv
    <3>3. queue[i].w # c
      BY <3>1, <3>2 DEF x
    <3> QED BY <3>1, <3>2, <3>3, <1>3
  <2>3. \A y \in awaiters \ {x} : \E i \in 1..Len(queue) : queue[i].id = y
    BY DEF LinkInv, QueueInv
  <2>4. \A i, j \in 1..Len(queue) : i < j => queue[i].id < queue[j].id
    BY DEF LinkInv, QueueInv
  <2> QED BY <2>1, <2>2, <2>3, <2>4, <1>2 DEF QueueInv
<1>6. IdInv'
  BY <1>2 DEF LinkInv, IdInv
<1>7. WaitInv'
  <2>1. c \in Coros /\ next[c] = NoCoro /\ \A d \in Coros : next[d] # c
    BY <1>1, ConstAssumption DEF LinkInv, WaitInv, x
  <2>2. \A d \in Coros : d # c => myId[d] # x
    BY <1>4
  <2> QED BY <1>2, <1>3, <2>1, <2>2, ConstAssumption DEF LinkInv, WaitInv, TypeOK
<1> QED BY <1>5, <1>6, <1>7 DEF LinkInv

\* A step of a coroutine that neither waits nor completes, before or after it,
\* and leaves the deque, the ids and the others alone.
LEMMA Elsewhere ==
  ASSUME TypeOK, LinkInv, NEW c \in Coros, NEW s \in PCs,
         pc[c] \notin {"waiting", "completing"}, s \notin {"waiting", "completing"},
         pc' = [pc EXCEPT ![c] = s],
         \A d \in Coros \ {c} : ec'[d] = ec[d],
         UNCHANGED <<queue, awaiters, idSeq, myId, next>>, timers' \in SUBSET timers
  PROVE  LinkInv'
<1>1. /\ pc'[c] = s
      /\ \A d \in Coros \ {c} : pc'[d] = pc[d]
  BY DEF TypeOK
<1>2. \A i \in 1..Len(queue) : queue[i] \in Slots
  BY LenProperties, ElementOfSeq DEF TypeOK
<1>3. QueueInv'
  BY <1>1, <1>2, ConstAssumption DEF LinkInv, QueueInv, Slots
<1>4. IdInv'
  BY DEF LinkInv, IdInv
<1>5. WaitInv'
  BY <1>1, ConstAssumption DEF LinkInv, WaitInv, TypeOK
<1> QED BY <1>3, <1>4, <1>5 DEF LinkInv

\* A step that leaves everything the links are about alone.
LEMMA Untouched ==
  ASSUME LinkInv, UNCHANGED <<queue, awaiters, idSeq, myId, next, pc, ec>>,
         timers' \in SUBSET timers
  PROVE  LinkInv'
<1> QED BY DEF LinkInv, QueueInv, IdInv, WaitInv

\* add_awaiter() gives out an id that nobody has.
LEMMA QueuedLinks ==
  ASSUME TypeInv, LinkInv, NEW c \in Coros, SuspendQueued(c)
  PROVE  LinkInv'
<1> DEFINE x == idSeq + 1
           s == [id |-> x, w |-> c]
<1>1. /\ pc[c] = "acquiring" /\ mut = c /\ idSeq < MaxId
      /\ pc' = [pc EXCEPT ![c] = "waiting"] /\ ec' = [ec EXCEPT ![c] = "none"]
      /\ idSeq' = x /\ queue' = Append(queue, s) /\ awaiters' = awaiters \cup {x}
      /\ myId' = [myId EXCEPT ![c] = x]
      /\ UNCHANGED <<next, timers>>
  BY ConstAssumption DEF SuspendQueued, MayAcquire, TypeInv, MutexInv
<1>2. idSeq \in Nat /\ x \in 1..MaxId /\ s \in Slots
  BY <1>1, ConstAssumption DEF TypeInv, TypeOK, Slots
<1> USE DEF TypeInv
<1>3. Len(queue) \in Nat /\ \A i \in 1..Len(queue) : queue[i] \in Slots
  BY LenProperties, ElementOfSeq DEF TypeOK
<1>4. /\ Len(queue') = Len(queue) + 1 /\ queue'[Len(queue) + 1] = s
      /\ \A i \in 1..Len(queue) : queue'[i] = queue[i]
  BY <1>1, <1>2, AppendProperties DEF TypeOK
<1>5. s.id = x /\ s.w = c
  OBVIOUS
<1>6. /\ pc'[c] = "waiting" /\ ec'[c] = "none" /\ myId'[c] = x
      /\ \A d \in Coros \ {c} : pc'[d] = pc[d] /\ ec'[d] = ec[d] /\ myId'[d] = myId[d]
  BY <1>1 DEF TypeOK
<1>7. \A y \in awaiters : y <= idSeq /\ y # x
  <2> SUFFICES ASSUME NEW y \in awaiters PROVE y <= idSeq /\ y # x
    OBVIOUS
  <2>1. PICK i \in 1..Len(queue) : queue[i].id = y
    BY DEF LinkInv, QueueInv
  <2>2. y <= idSeq /\ y \in Nat
    BY <2>1 DEF LinkInv, QueueInv, TypeOK
  <2> QED BY <2>2, <1>2
<1> HIDE DEF x, s
<1>8. QueueInv'
  <2>1. ASSUME NEW i \in 1..Len(queue)
        PROVE  /\ queue'[i].id <= idSeq' /\ queue'[i].id # x
               /\ (queue'[i].w # NoCoro) <=> (queue'[i].id \in awaiters')
               /\ queue'[i].w # NoCoro =>
                    pc'[queue'[i].w] = "waiting" /\ myId'[queue'[i].w] = queue'[i].id
    <3>1. queue[i].id <= idSeq /\ queue[i].id \in Nat /\ queue[i].w \in Coros \cup {NoCoro}
      BY <1>3 DEF LinkInv, QueueInv, Slots
    <3>2. queue[i].id # x /\ queue[i].id <= idSeq'
      BY <3>1, <1>1, <1>2 DEF x
    <3>3. queue[i].w # NoCoro => queue[i].w # c
      BY <1>1 DEF LinkInv, QueueInv
    <3> QED BY <1>1, <1>4, <1>6, <3>1, <3>2, <3>3 DEF LinkInv, QueueInv
  <2>2. /\ x <= idSeq' /\ c # NoCoro /\ x \in awaiters'
        /\ \A i \in 1..Len(queue) : queue'[i].id < x
    BY <1>1, <1>2, <1>3, <1>4, ConstAssumption DEF x, LinkInv, QueueInv, Slots
  <2>3. \A i, j \in 1..Len(queue) + 1 : i < j => queue'[i].id < queue'[j].id
    BY <1>3, <1>4, <1>5, <2>2 DEF LinkInv, QueueInv
  <2>4. \A y \in awaiters' : \E i \in 1..Len(queue) + 1 : queue'[i].id = y
    BY <1>1, <1>3, <1>4, <1>5 DEF LinkInv, QueueInv
  <2>5. \A i \in 1..Len(queue) + 1 : i \in 1..Len(queue) \/ i = Len(queue) + 1
    BY <1>3
  <2> QED BY <1>4, <1>5, <1>6, <2>1, <2>2, <2>3, <2>4, <2>5 DEF QueueInv
<1>9. IdInv'
  BY <1>1, <1>2, <1>6 DEF LinkInv, IdInv, TypeOK, Timers, x
<1>10. WaitInv'
  BY <1>1, <1>2, <1>6, <1>7, ConstAssumption DEF LinkInv, WaitInv, IdInv, TypeOK, x
<1> QED BY <1>8, <1>9, <1>10 DEF LinkInv

\* recycle() takes the first awaiter that still waits out of the deque.
LEMMA RecycledLinks ==
  ASSUME TypeInv, LinkInv, NEW c \in Coros, RecycleToWaiter(c)
  PROVE  LinkInv'
<1> USE DEF TypeInv
<1>1. PICK k \in 0..Len(queue) - 1 :
        /\ LeadingNulls(k)
        /\ next' = [next EXCEPT ![c] = queue[k + 1].w]
        /\ awaiters' = awaiters \ {queue[k + 1].id}
        /\ queue' = SubSeq(queue, k + 2, Len(queue))
  BY DEF RecycleToWaiter
<1>2. /\ pc[c] = "idle" /\ pc' = [pc EXCEPT ![c] = "completing"]
      /\ UNCHANGED <<idSeq, myId, ec, timers>>
  BY DEF RecycleToWaiter
<1> DEFINE w == queue[k + 1].w
           x == queue[k + 1].id
<1>3. Len(queue) \in Nat /\ \A i \in 1..Len(queue) : queue[i] \in Slots
  BY LenProperties, ElementOfSeq DEF TypeOK
<1>4. /\ Len(queue') = Len(queue) - (k + 1)
      /\ \A i \in 1..Len(queue') : queue'[i] = queue[i + k + 1]
  BY <1>1, PopFacts
<1>5. /\ w \in Coros /\ w # NoCoro /\ x \in awaiters
      /\ pc[w] = "waiting" /\ myId[w] = x /\ w # c /\ x # 0
  BY <1>1, <1>2, <1>3 DEF LeadingNulls, LinkInv, QueueInv, Slots
<1>6. /\ pc'[c] = "completing" /\ next'[c] = w
      /\ \A d \in Coros \ {c} : pc'[d] = pc[d] /\ next'[d] = next[d]
  BY <1>1, <1>2, <1>5 DEF TypeOK
<1>7. \A d \in Coros : myId[d] = x => d = w
  BY <1>5 DEF LinkInv, IdInv
<1>8. \A i \in 1..Len(queue) : i <= k + 1 => queue[i].id = x \/ queue[i].id \notin awaiters
  <2> SUFFICES ASSUME NEW i \in 1..Len(queue), i <= k + 1
               PROVE  queue[i].id = x \/ queue[i].id \notin awaiters
    OBVIOUS
  <2>1. CASE i = k + 1
    BY <2>1
  <2>2. CASE i # k + 1
    <3>1. i \in 1..k
      BY <1>1, <1>3, <2>2
    <3>2. queue[i].w = NoCoro
      BY <1>1, <3>1 DEF LeadingNulls
    <3> QED BY <3>2 DEF LinkInv, QueueInv
  <2> QED BY <2>1, <2>2
<1>9. \A i \in 1..Len(queue) : i > k + 1 => queue[i].id # x
  BY <1>1, <1>3 DEF LinkInv, QueueInv, Slots
<1> HIDE DEF w, x
<1>10. awaiters' = awaiters \ {x}
  BY <1>1 DEF x
<1>11. QueueInv'
  <2>1. \A i \in 1..Len(queue') : i + k + 1 \in 1..Len(queue) /\ i + k + 1 > k + 1
    BY <1>3, <1>4
  <2>2. ASSUME NEW i \in 1..Len(queue')
        PROVE  /\ queue'[i].id <= idSeq
               /\ (queue'[i].w # NoCoro) <=> (queue'[i].id \in awaiters')
               /\ queue'[i].w # NoCoro =>
                    pc'[queue'[i].w] = "waiting" /\ myId[queue'[i].w] = queue'[i].id
    <3> DEFINE j == i + k + 1
    <3>1. j \in 1..Len(queue) /\ queue'[i] = queue[j] /\ queue[j].id # x
      BY <1>4, <1>9, <2>1
    <3> HIDE DEF j
    <3>2. queue[j].w # NoCoro => queue[j].w \in Coros /\ queue[j].w # c
      BY <1>2, <1>3, <3>1 DEF LinkInv, QueueInv, Slots
    <3> QED BY <1>6, <1>10, <3>1, <3>2 DEF LinkInv, QueueInv
  <2>3. \A i, j \in 1..Len(queue') : i < j => queue'[i].id < queue'[j].id
    <3> SUFFICES ASSUME NEW i \in 1..Len(queue'), NEW j \in 1..Len(queue'), i < j
                 PROVE  queue'[i].id < queue'[j].id
      OBVIOUS
    <3>1. /\ i + k + 1 \in 1..Len(queue) /\ j + k + 1 \in 1..Len(queue)
          /\ i + k + 1 < j + k + 1
      BY <1>3, <1>4
    <3> QED BY <1>4, <3>1 DEF LinkInv, QueueInv
  <2>4. ASSUME NEW y \in awaiters' PROVE \E i \in 1..Len(queue') : queue'[i].id = y
    <3>1. PICK j \in 1..Len(queue) : queue[j].id = y
      BY <1>10 DEF LinkInv, QueueInv
    <3>2. j > k + 1
      BY <1>8, <1>10, <3>1, <1>3
    <3>3. j - (k + 1) \in 1..Len(queue') /\ (j - (k + 1)) + k + 1 = j
      BY <1>3, <1>4, <3>1, <3>2
    <3>4. queue'[j - (k + 1)].id = y
      BY <1>4, <3>1, <3>3
    <3> QED BY <3>3, <3>4
  <2> QED BY <2>2, <2>3, <2>4, <1>2 DEF QueueInv
<1>12. IdInv'
  BY <1>2 DEF LinkInv, IdInv
<1>13. WaitInv'
  <2>1. next[c] = NoCoro /\ \A d \in Coros : next[d] # c /\ next[d] # w
    BY <1>2, <1>5, ConstAssumption DEF LinkInv, WaitInv
  <2>2. ASSUME NEW e \in Coros, pc'[e] = "waiting"
        PROVE  /\ ec[e] = "none"
               /\ myId[e] \in awaiters' \/ \E d \in Coros : next'[d] = e
    <3>1. e # c /\ pc[e] = "waiting"
      BY <2>2, <1>6
    <3>2. CASE myId[e] \in awaiters
      BY <3>1, <3>2, <1>6, <1>7, <1>10 DEF LinkInv, WaitInv
    <3>3. CASE \E d \in Coros : next[d] = e
      BY <3>1, <3>3, <1>6, <2>1, ConstAssumption DEF LinkInv, WaitInv
    <3> QED BY <3>1, <3>2, <3>3 DEF LinkInv, WaitInv
  <2>3. \A d \in Coros : (next'[d] # NoCoro) <=> (pc'[d] = "completing")
    BY <1>5, <1>6 DEF LinkInv, WaitInv
  <2>4. \A d \in Coros : next'[d] # NoCoro =>
          pc'[next'[d]] = "waiting" /\ myId[next'[d]] \notin awaiters'
    BY <1>5, <1>6, <1>10, <2>1 DEF LinkInv, WaitInv, TypeOK
  <2>5. \A a, b \in Coros : next'[a] = next'[b] /\ next'[a] # NoCoro => a = b
    BY <1>6, <2>1 DEF LinkInv, WaitInv
  <2> QED BY <1>2, <2>2, <2>3, <2>4, <2>5 DEF WaitInv
<1> QED BY <1>11, <1>12, <1>13 DEF LinkInv

\* complete() takes the awaiter out of the wait it was still in.
LEMMA CompletedLinks ==
  ASSUME TypeInv, LinkInv, NEW c \in Coros, Complete(c)
  PROVE  LinkInv'
<1> USE DEF TypeInv
<1> DEFINE w == next[c]
<1>1. /\ pc[c] = "completing" /\ pc' = [pc EXCEPT ![c] = "idle", ![w] = "handed"]
      /\ next' = [next EXCEPT ![c] = NoCoro]
      /\ UNCHANGED <<queue, awaiters, idSeq, myId, ec, timers>>
  BY DEF Complete, queueVars
<1>2. w \in Coros /\ w # NoCoro /\ pc[w] = "waiting" /\ myId[w] \notin awaiters /\ w # c
  BY <1>1 DEF LinkInv, WaitInv, TypeOK
<1>3. /\ pc'[c] = "idle" /\ pc'[w] = "handed" /\ next'[c] = NoCoro
      /\ \A d \in Coros : d # c => next'[d] = next[d]
      /\ \A d \in Coros : d # c /\ d # w => pc'[d] = pc[d]
  BY <1>1, <1>2, ConstAssumption DEF TypeOK
<1>4. \A d \in Coros : d # c => next[d] # w
  BY <1>2 DEF LinkInv, WaitInv
<1>5. \A d \in Coros : next[d] # c
  BY <1>1, <1>2, ConstAssumption DEF LinkInv, WaitInv
<1>6. \A i \in 1..Len(queue) : queue[i].w # NoCoro =>
        queue[i].w \in Coros /\ queue[i].w # c /\ queue[i].w # w
  <2>1. \A i \in 1..Len(queue) : queue[i] \in Slots
    BY LenProperties, ElementOfSeq DEF TypeOK
  <2> QED BY <1>1, <1>2, <2>1 DEF LinkInv, QueueInv, Slots
<1> HIDE DEF w
<1>u. UNCHANGED <<queue, awaiters, idSeq, myId, ec, timers>>
  BY <1>1
<1>7. QueueInv'
  <2>1. \A i \in 1..Len(queue) : queue[i].w # NoCoro => pc'[queue[i].w] = pc[queue[i].w]
    BY <1>3, <1>6
  <2> QED BY <1>u, <2>1 DEF LinkInv, QueueInv
<1>8. IdInv'
  BY <1>u DEF LinkInv, IdInv
<1>9. WaitInv'
  <2>1. \A e \in Coros : pc'[e] = "waiting" =>
          /\ ec[e] = "none"
          /\ myId[e] \in awaiters \/ \E d \in Coros : next'[d] = e
    <3> SUFFICES ASSUME NEW e \in Coros, pc'[e] = "waiting"
                 PROVE  /\ ec[e] = "none"
                        /\ myId[e] \in awaiters \/ \E d \in Coros : next'[d] = e
      OBVIOUS
    <3>1. e # c /\ e # w /\ pc[e] = "waiting"
      BY <1>3
    <3>2. \A d \in Coros : next[d] = e => d # c
      BY <3>1 DEF w
    <3> QED BY <1>3, <3>1, <3>2 DEF LinkInv, WaitInv
  <2>2. \A d \in Coros : (next'[d] # NoCoro) <=> (pc'[d] = "completing")
    BY <1>2, <1>3, <1>4 DEF LinkInv, WaitInv
  <2>3. \A d \in Coros : next'[d] # NoCoro =>
          pc'[next'[d]] = "waiting" /\ myId[next'[d]] \notin awaiters
    <3> SUFFICES ASSUME NEW d \in Coros, next'[d] # NoCoro
                 PROVE  pc'[next'[d]] = "waiting" /\ myId[next'[d]] \notin awaiters
      OBVIOUS
    <3>1. d # c /\ next'[d] = next[d]
      BY <1>3
    <3>2. next[d] \in Coros /\ next[d] # c /\ next[d] # w
      BY <3>1, <1>4, <1>5 DEF TypeOK
    <3> QED BY <1>3, <3>1, <3>2 DEF LinkInv, WaitInv
  <2>4. \A a, b \in Coros : next'[a] = next'[b] /\ next'[a] # NoCoro => a = b
    BY <1>3 DEF LinkInv, WaitInv
  <2> QED BY <1>u, <2>1, <2>2, <2>3, <2>4 DEF WaitInv
<1> QED BY <1>7, <1>8, <1>9 DEF LinkInv

\* recycle() finds only null slots: nobody waits, and all slots go.
LEMMA ClearedLinks ==
  ASSUME TypeInv, LinkInv, NEW c \in Coros, RecycleUnused(c)
  PROVE  LinkInv' /\ awaiters = {} /\ awaiters' = {} /\ queue' = <<>>
<1>1. /\ LeadingNulls(Len(queue)) /\ queue' = <<>>
      /\ UNCHANGED <<awaiters, idSeq, pc, myId, ec, next, timers>>
  BY DEF RecycleUnused
<1>2. awaiters = {}
  BY <1>1 DEF LeadingNulls, LinkInv, QueueInv
<1>3. Len(queue') = 0
  BY <1>1
<1>4. QueueInv'
  BY <1>1, <1>2, <1>3 DEF QueueInv
<1> QED BY <1>1, <1>2, <1>4 DEF LinkInv, IdInv, WaitInv

\* Every step keeps the links between the deque, the set and the coroutines.
LEMMA LinkStep == ASSUME TypeInv, LinkInv, [Next]_vars PROVE LinkInv'
<1> USE DEF TypeInv, PCs, ECs, poolVars, queueVars, stopVars
<1>1. ASSUME NEW c \in Coros, CallAcquire(c) PROVE LinkInv'
  <2>1. /\ pc[c] \notin {"waiting", "completing"}
        /\ pc' = [pc EXCEPT ![c] = "acquiring"]
        /\ \A d \in Coros \ {c} : ec'[d] = ec[d]
        /\ UNCHANGED <<queue, awaiters, idSeq, myId, next>> /\ timers' \in SUBSET timers
    BY <1>1 DEF CallAcquire, TypeOK
  <2> QED BY <2>1, Elsewhere
<1>2. ASSUME NEW c \in Coros, DropAwaiter(c) PROVE LinkInv'
  <2>1. /\ pc[c] \notin {"waiting", "completing"}
        /\ pc' = [pc EXCEPT ![c] = "idle"]
        /\ \A d \in Coros \ {c} : ec'[d] = ec[d]
        /\ UNCHANGED <<queue, awaiters, idSeq, myId, next>> /\ timers' \in SUBSET timers
    BY <1>2 DEF DropAwaiter, TypeOK
  <2> QED BY <2>1, Elsewhere
<1>3. ASSUME NEW c \in Coros, SuspendAborted(c) PROVE LinkInv'
  <2>1. /\ pc[c] \notin {"waiting", "completing"}
        /\ pc' = [pc EXCEPT ![c] = "leaving"]
        /\ \A d \in Coros \ {c} : ec'[d] = ec[d]
        /\ UNCHANGED <<queue, awaiters, idSeq, myId, next>> /\ timers' \in SUBSET timers
    BY <1>3 DEF SuspendAborted, Resumed, TypeOK
  <2> QED BY <2>1, Elsewhere
<1>4. ASSUME NEW c \in Coros, SuspendAcquired(c) PROVE LinkInv'
  <2>1. /\ pc[c] \notin {"waiting", "completing"}
        /\ pc' = [pc EXCEPT ![c] = "leaving"]
        /\ \A d \in Coros \ {c} : ec'[d] = ec[d]
        /\ UNCHANGED <<queue, awaiters, idSeq, myId, next>> /\ timers' \in SUBSET timers
    BY <1>4 DEF SuspendAcquired, MayAcquire, Resumed, Take, TypeOK
  <2> QED BY <2>1, Elsewhere
<1>5. ASSUME NEW c \in Coros, SuspendThrows(c) PROVE LinkInv'
  <2>1. /\ pc[c] \notin {"waiting", "completing"}
        /\ pc' = [pc EXCEPT ![c] = "leaving"]
        /\ \A d \in Coros \ {c} : ec'[d] = ec[d]
        /\ UNCHANGED <<queue, awaiters, idSeq, myId, next>> /\ timers' \in SUBSET timers
    BY <1>5 DEF SuspendThrows, MayAcquire, Resumed, TypeOK
  <2> QED BY <2>1, Elsewhere
<1>6. ASSUME NEW c \in Coros, ResumeHanded(c) PROVE LinkInv'
  <2>1. /\ pc[c] \notin {"waiting", "completing"}
        /\ pc' = [pc EXCEPT ![c] = "leaving"]
        /\ \A d \in Coros \ {c} : ec'[d] = ec[d]
        /\ UNCHANGED <<queue, awaiters, idSeq, myId, next>> /\ timers' \in SUBSET timers
    BY <1>6 DEF ResumeHanded, Resumed, TypeOK
  <2> QED BY <2>1, Elsewhere
<1>7. ASSUME NEW c \in Coros, DestroyAwaiter(c) PROVE LinkInv'
  <2>1. /\ pc[c] \notin {"waiting", "completing"}
        /\ pc' = [pc EXCEPT ![c] = "idle"]
        /\ \A d \in Coros \ {c} : ec'[d] = ec[d]
        /\ UNCHANGED <<queue, awaiters, idSeq, myId, next>> /\ timers' \in SUBSET timers
    BY <1>7 DEF DestroyAwaiter, Cancel, TypeOK
  <2> QED BY <2>1, Elsewhere
<1>8. ASSUME NEW c \in Coros, RegisterStop(c) PROVE LinkInv'
  BY <1>8, Untouched DEF RegisterStop
<1>9. ASSUME NEW c \in Coros, RequestStop(c) PROVE LinkInv'
  BY <1>9, Untouched DEF RequestStop
<1>10. ASSUME NEW c \in Coros, OwnStop(c) PROVE LinkInv'
  BY <1>10, Untouched DEF OwnStop
<1>11. ASSUME NEW c \in Coros, TryAcquire(c) PROVE LinkInv'
  BY <1>11, Untouched DEF TryAcquire
<1>12. ASSUME NEW c \in Coros, SuspendQueued(c) PROVE LinkInv'
  BY <1>12, QueuedLinks
<1>13. ASSUME NEW c \in Coros, RecycleUnused(c) PROVE LinkInv'
  BY <1>13, ClearedLinks
<1>14. ASSUME NEW c \in Coros, RecycleToWaiter(c) PROVE LinkInv'
  BY <1>14, RecycledLinks
<1>15. ASSUME NEW c \in Coros, Complete(c) PROVE LinkInv'
  BY <1>15, CompletedLinks
<1>16. ASSUME NEW c \in Coros, ArmTimer(c) PROVE LinkInv'
  <2>1. /\ UNCHANGED <<queue, awaiters, idSeq, myId, next, pc, ec>>
        /\ timers' = timers \cup {[c |-> c, id |-> myId[c], st |-> "armed"]}
        /\ susp[c] # "none"
    BY <1>16 DEF ArmTimer
  <2>2. myId[c] # 0
    BY <2>1 DEF MutexInv
  <2>3. QueueInv' /\ WaitInv'
    BY <2>1 DEF LinkInv, QueueInv, WaitInv
  <2>4. IdInv'
    BY <2>1, <2>2 DEF LinkInv, IdInv
  <2> QED BY <2>3, <2>4 DEF LinkInv
<1>17. ASSUME NEW c \in Coros, RegisterStopLate(c) PROVE LinkInv'
  <2>1. CASE myId[c] \in awaiters
    <3>1. /\ Unlink(myId[c]) /\ Resumed(c, "aborted")
          /\ UNCHANGED <<myId, next>> /\ timers' \in SUBSET timers
      BY <1>17, <2>1 DEF RegisterStopLate, Cancel
    <3> QED BY <2>1, <3>1, Removal
  <2>2. CASE myId[c] \notin awaiters
    BY <1>17, <2>2, Untouched DEF RegisterStopLate
  <2> QED BY <2>1, <2>2
<1>18. ASSUME NEW c \in Coros, StopCallback(c) PROVE LinkInv'
  <2>1. CASE myId[c] \in awaiters
    <3>1. /\ Unlink(myId[c]) /\ Resumed(c, "aborted")
          /\ UNCHANGED <<myId, next>> /\ timers' \in SUBSET timers
      BY <1>18, <2>1 DEF StopCallback, Cancel
    <3> QED BY <2>1, <3>1, Removal
  <2>2. CASE myId[c] \notin awaiters
    BY <1>18, <2>2, Untouched DEF StopCallback
  <2> QED BY <2>1, <2>2
<1>19. ASSUME NEW t \in timers, TimerHandler(t) PROVE LinkInv'
  <2>0. t.c \in Coros
    BY DEF TypeOK, Timers
  <2>1. CASE t.id \in awaiters
    <3>1. myId[t.c] = t.id
      BY <2>1, WhoWaits
    <3>2. /\ Unlink(myId[t.c]) /\ Resumed(t.c, "timeout")
          /\ UNCHANGED <<myId, next>> /\ timers' \in SUBSET timers
      BY <1>19, <2>1, <3>1 DEF TimerHandler
    <3> QED BY <2>0, <2>1, <3>1, <3>2, Removal
  <2>2. CASE t.id \notin awaiters
    BY <1>19, <2>2, Untouched DEF TimerHandler
  <2> QED BY <2>1, <2>2
<1>20. ASSUME NEW t \in timers, TimerExpire(t) PROVE LinkInv'
  <2>1. /\ UNCHANGED <<queue, awaiters, idSeq, myId, next, pc, ec>>
        /\ timers' = (timers \ {t}) \cup {[t EXCEPT !.st = "expired"]}
    BY <1>20 DEF TimerExpire
  <2>2. t \in Timers
    BY DEF TypeOK
  <2>3. [t EXCEPT !.st = "expired"].c = t.c /\ [t EXCEPT !.st = "expired"].id = t.id
    BY <2>2 DEF Timers
  <2>4. QueueInv' /\ WaitInv'
    BY <2>1 DEF LinkInv, QueueInv, WaitInv
  <2>5. IdInv'
    BY <2>1, <2>3, ZenonT(40) DEF LinkInv, IdInv
  <2> QED BY <2>4, <2>5 DEF LinkInv
<1>21. ASSUME NEW n \in 1..MaxCap, Reserve(n) PROVE LinkInv'
  BY <1>21, Untouched DEF Reserve
<1>22. CASE CreateAll
  <2>1. UNCHANGED <<queue, awaiters, idSeq, myId, next, pc, ec, timers>>
    BY <1>22 DEF CreateAll
  <2> QED BY <2>1, Untouched
<1>23. CASE ClearUnused
  <2>1. UNCHANGED <<queue, awaiters, idSeq, myId, next, pc, ec, timers>>
    BY <1>23 DEF ClearUnused
  <2> QED BY <2>1, Untouched
<1>24. CASE UNCHANGED vars
  BY <1>24, Untouched DEF vars
<1> QED
  BY <1>1, <1>2, <1>3, <1>4, <1>5, <1>6, <1>7, <1>8, <1>9, <1>10, <1>11,
     <1>12, <1>13, <1>14, <1>15, <1>16, <1>17, <1>18, <1>19, <1>20, <1>21,
     <1>22, <1>23, <1>24
  DEF Next, CoroStep, TimerStep, PoolStep, Undefined

LEMMA LinkAlways == Spec => [](TypeInv /\ LinkInv)
<1> QED BY TypeInit, TypeStep, LinkInit, LinkStep, PTL DEF Spec

\* The id set, the live slots of the deque and the waiting coroutines describe
\* the same waits, for every number of coroutines and waits.
THEOREM WaitersAgree == Spec => []WaiterAccounting
<1>1. TypeInv /\ LinkInv => WaiterAccounting
  <2> SUFFICES ASSUME TypeInv, LinkInv PROVE WaiterAccounting
    OBVIOUS
  <2>1. DOMAIN queue = 1..Len(queue)
    BY LenProperties DEF TypeInv, TypeOK
  <2> QED BY <2>1 DEF LinkInv, QueueInv, WaitInv, WaiterAccounting
<1> QED BY LinkAlways, <1>1, PTL

-----------------------------------------------------------------------------
\* Who may have a resource, and that nobody shares one.
OwnInv ==
  /\ \A c \in Coros :
       /\ held[c] # NoRes => pc[c] \in {"idle", "leaving", "completing"}
       /\ rh[c] # NoRes => pc[c] = "handed"
       /\ pc[c] = "completing" => held[c] # NoRes
  /\ \A r \in Res : (r \in inuse) <=> (\E c \in Coros : held[c] = r \/ rh[c] = r)
  /\ \A c, d \in Coros :
       /\ held[c] # NoRes => held[c] # rh[d]
       /\ c # d /\ held[c] # NoRes => held[c] # held[d]
       /\ c # d /\ rh[c] # NoRes => rh[c] # rh[d]

\* What is stored, what is in use and the capacity; a wait began when all the
\* capacity was in use, and its slot is gone before the last resource is idle.
StoreInv ==
  /\ \A i, j \in 1..Len(unused) :
       unused[i] \notin inuse /\ (unused[i] = unused[j] => i = j)
  /\ Cardinality(inuse) + Len(unused) <= cap
  /\ Len(queue) > 0 => inuse # {}

PoolInv == OwnInv /\ StoreInv

LEMMA PoolInit == Init => PoolInv
<1> SUFFICES ASSUME Init PROVE PoolInv
  OBVIOUS
<1>1. Len(unused) = 0 /\ Len(queue) = 0 /\ Cardinality(inuse) = 0
  BY FS_EmptySet DEF Init
<1>2. StoreInv
  BY <1>1, ConstAssumption DEF Init, StoreInv
<1>3. OwnInv
  BY ConstAssumption DEF Init, OwnInv
<1> QED BY <1>2, <1>3 DEF PoolInv

LEMMA FiniteInUse ==
  ASSUME TypeOK
  PROVE  /\ IsFiniteSet(inuse) /\ Cardinality(inuse) \in Nat
         /\ Len(unused) \in Nat /\ Len(queue) \in Nat /\ cap \in Nat
<1>1. IsFiniteSet(inuse)
  BY FS_Subset, ConstAssumption DEF TypeOK
<1> QED BY <1>1, FS_CardinalityType, LenProperties, ConstAssumption DEF TypeOK

\* Holders and stores are left alone; the coroutines move as they may.
LEMMA NoTransfer ==
  ASSUME OwnInv, UNCHANGED <<held, rh, inuse>>,
         \A c \in Coros :
           /\ held[c] # NoRes => pc'[c] \in {"idle", "leaving", "completing"}
           /\ rh[c] # NoRes => pc'[c] = "handed"
           /\ pc'[c] = "completing" => held[c] # NoRes
  PROVE  OwnInv'
<1> QED BY DEF OwnInv

LEMMA SameStore ==
  ASSUME StoreInv, UNCHANGED <<inuse, unused, cap>>,
         Len(queue') > 0 => inuse # {} \/ Len(queue) > 0
  PROVE  StoreInv'
<1> QED BY DEF StoreInv

\* try_acquire() gives a resource to a coroutine that has none.
LEMMA Taken ==
  ASSUME TypeOK, PoolInv, NEW c \in Coros, NEW r \in Res, Take(r),
         held[c] = NoRes, held' = [held EXCEPT ![c] = r],
         UNCHANGED <<rh, queue>>,
         pc'[c] \in {"idle", "leaving"}, rh[c] = NoRes,
         \A d \in Coros \ {c} : pc'[d] = pc[d]
  PROVE  PoolInv'
<1>1. /\ inuse' = inuse \cup {r} /\ cap' = cap
      /\ \/ /\ r = unused[1]
            /\ Len(unused) \in Nat \ {0}
            /\ Len(unused') = Len(unused) - 1
            /\ \A i \in 1..Len(unused') : unused'[i] = unused[i + 1]
         \/ /\ Len(unused) = 0 /\ unused' = unused /\ r \notin inuse
            /\ Cardinality(inuse) < cap
  BY TakeFacts
<1>2. r \notin inuse
  BY <1>1 DEF PoolInv, StoreInv
<1>3. held'[c] = r /\ \A d \in Coros \ {c} : held'[d] = held[d]
  BY DEF TypeOK
<1>4. \A d \in Coros : held[d] # r /\ rh[d] # r
  BY <1>2 DEF PoolInv, OwnInv
<1>5. r # NoRes
  BY ConstAssumption
<1>6. OwnInv'
  <2>1. \A d \in Coros :
          /\ held'[d] # NoRes => pc'[d] \in {"idle", "leaving", "completing"}
          /\ rh[d] # NoRes => pc'[d] = "handed"
          /\ pc'[d] = "completing" => held'[d] # NoRes
    BY <1>3, <1>5 DEF PoolInv, OwnInv
  <2>2. \A q \in Res : (q \in inuse') <=> (\E d \in Coros : held'[d] = q \/ rh[d] = q)
    BY <1>1, <1>3, ConstAssumption DEF PoolInv, OwnInv
  <2>3. \A a, b \in Coros :
          /\ held'[a] # NoRes => held'[a] # rh[b]
          /\ a # b /\ held'[a] # NoRes => held'[a] # held'[b]
          /\ a # b /\ rh[a] # NoRes => rh[a] # rh[b]
    BY <1>3, <1>4 DEF PoolInv, OwnInv
  <2> QED BY <2>1, <2>2, <2>3 DEF OwnInv
<1>7. StoreInv'
  <2>1. Cardinality(inuse') = Cardinality(inuse) + 1 /\ inuse' # {}
    BY <1>1, <1>2, FiniteInUse, FS_AddElement
  <2>2. Cardinality(inuse') + Len(unused') <= cap'
    BY <1>1, <2>1, FiniteInUse DEF PoolInv, StoreInv
  <2>3. \A i, j \in 1..Len(unused') :
          unused'[i] \notin inuse' /\ (unused'[i] = unused'[j] => i = j)
    <3>1. CASE Len(unused) = 0
      BY <1>1, <3>1
    <3>2. CASE Len(unused) # 0
      <4> SUFFICES ASSUME NEW i \in 1..Len(unused'), NEW j \in 1..Len(unused')
                   PROVE  unused'[i] \notin inuse' /\ (unused'[i] = unused'[j] => i = j)
        OBVIOUS
      <4>1. /\ i + 1 \in 1..Len(unused) /\ j + 1 \in 1..Len(unused) /\ 1 \in 1..Len(unused)
            /\ i + 1 # 1 /\ (i + 1 = j + 1 => i = j)
            /\ unused'[i] = unused[i + 1] /\ unused'[j] = unused[j + 1] /\ r = unused[1]
        BY <1>1, <3>2
      <4> QED BY <1>1, <4>1 DEF PoolInv, StoreInv
    <3> QED BY <3>1, <3>2
  <2> QED BY <2>1, <2>2, <2>3 DEF StoreInv
<1> QED BY <1>6, <1>7 DEF PoolInv

\* recycle() with nobody waiting puts the resource before the unused ones.
LEMMA PutBack ==
  ASSUME TypeInv, PoolInv, NEW c \in Coros, RecycleUnused(c)
  PROVE  PoolInv'
<1> DEFINE r == held[c]
<1>1. /\ pc[c] = "idle" /\ r # NoRes /\ queue' = <<>>
      /\ inuse' = inuse \ {r} /\ unused' = <<r>> \o unused
      /\ held' = [held EXCEPT ![c] = NoRes]
      /\ UNCHANGED <<cap, pc, rh>>
  BY DEF RecycleUnused
<1>2. r \in Res /\ r \in inuse
  BY <1>1 DEF TypeInv, TypeOK, PoolInv, OwnInv
<1>3. held'[c] = NoRes /\ \A d \in Coros \ {c} : held'[d] = held[d] /\ held[d] # r
  BY <1>1 DEF TypeInv, TypeOK, PoolInv, OwnInv
<1>4. \A d \in Coros : rh[d] # r
  BY <1>1 DEF PoolInv, OwnInv
<1>5. /\ Len(unused') = Len(unused) + 1 /\ Len(unused) \in Nat
      /\ unused'[1] = r
      /\ \A i \in 1..Len(unused) : unused'[i + 1] = unused[i]
  <2>1. <<r>> \in Seq(Res) /\ unused \in Seq(Res) /\ Len(<<r>>) = 1 /\ <<r>>[1] = r
    BY <1>2 DEF TypeInv, TypeOK
  <2>2. Len(unused) \in Nat
    BY <2>1, LenProperties
  <2> HIDE DEF r
  <2>3. /\ Len(<<r>> \o unused) = 1 + Len(unused)
        /\ \A i \in 1..1 + Len(unused) :
             (<<r>> \o unused)[i] = IF i <= 1 THEN <<r>>[i] ELSE unused[i - 1]
    BY <2>1, ConcatProperties
  <2>4. \A i \in 1..Len(unused) :
          i + 1 \in 1..1 + Len(unused) /\ ~(i + 1 <= 1) /\ (i + 1) - 1 = i
    BY <2>2
  <2> QED BY <1>1, <2>1, <2>2, <2>3, <2>4
<1>6. IsFiniteSet(inuse) /\ Cardinality(inuse) \in Nat /\ cap \in Nat
  BY FiniteInUse DEF TypeInv
<1>7. Cardinality(inuse') = Cardinality(inuse) - 1
  BY <1>1, <1>2, <1>6, FS_RemoveElement
<1> HIDE DEF r
<1>8. OwnInv'
  <2>1. \A q \in Res : (q \in inuse') <=> (\E d \in Coros : held'[d] = q \/ rh[d] = q)
    BY <1>1, <1>3, <1>4, ConstAssumption DEF PoolInv, OwnInv, r
  <2>2. \A d \in Coros :
          /\ held'[d] # NoRes => pc[d] \in {"idle", "leaving", "completing"}
          /\ rh[d] # NoRes => pc[d] = "handed"
          /\ pc[d] = "completing" => held'[d] # NoRes
    BY <1>1, <1>3 DEF PoolInv, OwnInv
  <2>3. \A a, b \in Coros :
          /\ held'[a] # NoRes => held'[a] # rh[b]
          /\ a # b /\ held'[a] # NoRes => held'[a] # held'[b]
          /\ a # b /\ rh[a] # NoRes => rh[a] # rh[b]
    BY <1>3 DEF PoolInv, OwnInv
  <2>4. UNCHANGED <<pc, rh>>
    BY <1>1
  <2> QED BY <2>1, <2>2, <2>3, <2>4 DEF OwnInv
<1>9. StoreInv'
  <2>1. Cardinality(inuse') + Len(unused') <= cap' /\ Len(queue') = 0
    BY <1>1, <1>5, <1>6, <1>7 DEF PoolInv, StoreInv
  <2>2. \A i \in 1..Len(unused) : unused[i] # r /\ unused[i] \notin inuse'
    BY <1>1, <1>2 DEF PoolInv, StoreInv
  <2>3. \A i \in 1..Len(unused') : i = 1 \/ (i - 1 \in 1..Len(unused) /\ (i - 1) + 1 = i)
    BY <1>5
  <2>4. \A i \in 1..Len(unused') : i # 1 => unused'[i] = unused[i - 1]
    BY <1>5, <2>3
  <2>5. r \notin inuse'
    BY <1>1
  <2>6. \A i, j \in 1..Len(unused') :
          unused'[i] \notin inuse' /\ (unused'[i] = unused'[j] => i = j)
    <3> SUFFICES ASSUME NEW i \in 1..Len(unused'), NEW j \in 1..Len(unused')
                 PROVE  unused'[i] \notin inuse' /\ (unused'[i] = unused'[j] => i = j)
      OBVIOUS
    <3>1. unused'[i] \notin inuse'
      BY <1>5, <2>2, <2>3, <2>4, <2>5
    <3>2. \A h \in 1..Len(unused') : h # 1 => unused'[h] # r
      BY <2>2, <2>3, <2>4
    <3>4. CASE i = 1 \/ j = 1
      BY <1>5, <3>1, <3>2, <3>4
    <3>3. CASE i # 1 /\ j # 1
      <4>1. i - 1 = j - 1 => i = j
        OBVIOUS
      <4> QED BY <2>3, <2>4, <3>1, <3>3, <4>1 DEF PoolInv, StoreInv
    <3> QED BY <3>1, <3>3, <3>4
  <2> QED BY <2>1, <2>6 DEF StoreInv
<1> QED BY <1>8, <1>9 DEF PoolInv

\* complete() moves the resource from the recycler to the waiter.
LEMMA HandedOver ==
  ASSUME TypeInv, LinkInv, PoolInv, NEW c \in Coros, Complete(c)
  PROVE  PoolInv'
<1> DEFINE w == next[c]
           r == held[c]
<1>1. /\ pc[c] = "completing" /\ pc' = [pc EXCEPT ![c] = "idle", ![w] = "handed"]
      /\ rh' = [rh EXCEPT ![w] = r] /\ held' = [held EXCEPT ![c] = NoRes]
  BY DEF Complete
<1>2. UNCHANGED <<inuse, unused, cap, queue>>
  BY DEF Complete, poolVars, queueVars
<1>3. w \in Coros /\ w # c /\ pc[w] = "waiting" /\ r # NoRes
  BY <1>1 DEF LinkInv, WaitInv, TypeInv, TypeOK, PoolInv, OwnInv
<1>4. held[w] = NoRes /\ rh[w] = NoRes /\ rh[c] = NoRes
  BY <1>1, <1>3 DEF PoolInv, OwnInv
<1>5. /\ pc'[c] = "idle" /\ pc'[w] = "handed" /\ rh'[w] = r /\ held'[c] = NoRes
      /\ \A d \in Coros : d # c => held'[d] = held[d]
      /\ \A d \in Coros : d # w => rh'[d] = rh[d]
      /\ \A d \in Coros : d # c /\ d # w => pc'[d] = pc[d]
  BY <1>1, <1>3 DEF TypeInv, TypeOK
<1>6. \A d \in Coros : /\ rh[d] # r
                       /\ d # c => held[d] # r
  BY <1>3 DEF PoolInv, OwnInv
<1>7. held[c] = r
  OBVIOUS
<1> HIDE DEF w, r
<1>8. OwnInv'
  <2>1. \A d \in Coros :
          /\ held'[d] # NoRes => pc'[d] \in {"idle", "leaving", "completing"}
          /\ rh'[d] # NoRes => pc'[d] = "handed"
          /\ pc'[d] = "completing" => held'[d] # NoRes
    BY <1>3, <1>4, <1>5 DEF PoolInv, OwnInv
  <2>2. \A q \in Res : (q \in inuse) <=> (\E d \in Coros : held'[d] = q \/ rh'[d] = q)
    BY <1>3, <1>4, <1>5, <1>7, ConstAssumption DEF PoolInv, OwnInv
  <2>3. \A a, b \in Coros :
          /\ held'[a] # NoRes => held'[a] # rh'[b]
          /\ a # b /\ held'[a] # NoRes => held'[a] # held'[b]
          /\ a # b /\ rh'[a] # NoRes => rh'[a] # rh'[b]
    BY <1>3, <1>5, <1>6 DEF PoolInv, OwnInv
  <2> QED BY <1>2, <2>1, <2>2, <2>3 DEF OwnInv
<1>9. StoreInv'
  BY <1>2, SameStore DEF PoolInv
<1> QED BY <1>8, <1>9 DEF PoolInv

\* The posted resumption moves the resource from the awaiter to its coroutine.
LEMMA PickedUp ==
  ASSUME TypeInv, PoolInv, NEW c \in Coros, ResumeHanded(c)
  PROVE  PoolInv'
<1> DEFINE r == rh[c]
<1>1. /\ pc[c] = "handed" /\ pc' = [pc EXCEPT ![c] = "leaving"]
      /\ held' = [held EXCEPT ![c] = r] /\ rh' = [rh EXCEPT ![c] = NoRes]
  BY DEF ResumeHanded, Resumed
<1>2. UNCHANGED <<inuse, unused, cap, queue>>
  BY DEF ResumeHanded, poolVars, queueVars
<1>3. held[c] = NoRes /\ rh[c] = r
  BY <1>1 DEF PoolInv, OwnInv
<1> HIDE DEF r
<1>4. /\ pc'[c] = "leaving" /\ held'[c] = r /\ rh'[c] = NoRes
      /\ \A d \in Coros \ {c} : pc'[d] = pc[d] /\ held'[d] = held[d] /\ rh'[d] = rh[d]
  BY <1>1 DEF TypeInv, TypeOK
<1>5. OwnInv'
  <2>1. \A q \in Res : (q \in inuse) <=> (\E d \in Coros : held'[d] = q \/ rh'[d] = q)
    BY <1>3, <1>4, ConstAssumption DEF PoolInv, OwnInv
  <2>2. \A d \in Coros :
          /\ held'[d] # NoRes => pc'[d] \in {"idle", "leaving", "completing"}
          /\ rh'[d] # NoRes => pc'[d] = "handed"
          /\ pc'[d] = "completing" => held'[d] # NoRes
    BY <1>4 DEF PoolInv, OwnInv
  <2>3. \A a, b \in Coros :
          /\ held'[a] # NoRes => held'[a] # rh'[b]
          /\ a # b /\ held'[a] # NoRes => held'[a] # held'[b]
          /\ a # b /\ rh'[a] # NoRes => rh'[a] # rh'[b]
    BY <1>3, <1>4 DEF PoolInv, OwnInv
  <2> QED BY <1>2, <2>1, <2>2, <2>3 DEF OwnInv
<1>6. StoreInv'
  BY <1>2, SameStore DEF PoolInv
<1> QED BY <1>5, <1>6 DEF PoolInv

\* create_all() fills up to the capacity with resources that are new.
LEMMA Created ==
  ASSUME TypeInv, PoolInv, CreateAll
  PROVE  PoolInv'
<1>1. PICK k \in 1..(cap - Occupied), s \in Seq(Res) :
           /\ Len(s) = k
           /\ \A i \in 1..k : s[i] \notin inuse /\ \A j \in 1..Len(unused) : s[i] # unused[j]
           /\ \A i, j \in 1..k : s[i] = s[j] => i = j
           /\ unused' \in Seq(Res) /\ Len(unused) \in Nat
           /\ Len(unused') = k + Len(unused)
           /\ \A i \in 1..k + Len(unused) :
                unused'[i] = IF i <= k THEN s[i] ELSE unused[i - k]
  BY CreateAllFacts DEF TypeInv
<1>2. UNCHANGED <<cap, inuse, queue, pc, rh, held>>
  BY DEF CreateAll, queueVars
<1>3. Cardinality(inuse) \in Nat /\ Len(unused) \in Nat /\ cap \in Nat
  BY FiniteInUse DEF TypeInv
<1>4. Cardinality(inuse) + Len(unused') <= cap
  BY <1>1, <1>3 DEF Occupied
<1>5. ASSUME NEW i \in 1..Len(unused'), NEW j \in 1..Len(unused')
      PROVE  unused'[i] \notin inuse /\ (unused'[i] = unused'[j] => i = j)
  <2>0. k \in Nat /\ i \in Nat /\ j \in Nat
    BY <1>1, <1>3
  <2>1. /\ i <= k => i \in 1..k /\ unused'[i] = s[i]
        /\ j <= k => j \in 1..k /\ unused'[j] = s[j]
        /\ ~(i <= k) => i - k \in 1..Len(unused) /\ unused'[i] = unused[i - k]
        /\ ~(j <= k) => j - k \in 1..Len(unused) /\ unused'[j] = unused[j - k]
    BY <1>1, <2>0
  <2>2. CASE i <= k /\ j <= k
    BY <1>1, <2>1, <2>2
  <2>3. CASE i <= k /\ ~(j <= k)
    BY <1>1, <2>1, <2>3
  <2>4. CASE ~(i <= k) /\ j <= k
    BY <1>1, <2>1, <2>4 DEF PoolInv, StoreInv
  <2>5. CASE ~(i <= k) /\ ~(j <= k)
    <3>1. i - k = j - k => i = j
      BY <2>0
    <3> QED BY <2>1, <2>5, <3>1 DEF PoolInv, StoreInv
  <2> QED BY <2>2, <2>3, <2>4, <2>5
<1>6. StoreInv'
  BY <1>2, <1>4, <1>5 DEF PoolInv, StoreInv
<1>7. OwnInv'
  BY <1>2 DEF PoolInv, OwnInv
<1> QED BY <1>6, <1>7 DEF PoolInv

\* Every step keeps resources owned once, stored once and within the capacity.
LEMMA PoolInvStep == ASSUME TypeInv, LinkInv, PoolInv, [Next]_vars PROVE PoolInv'
<1> USE DEF TypeInv, PoolInv, poolVars, queueVars, stopVars
<1> DEFINE Owners(d) == /\ held[d] # NoRes => pc'[d] \in {"idle", "leaving", "completing"}
                        /\ rh[d] # NoRes => pc'[d] = "handed"
                        /\ pc'[d] = "completing" => held[d] # NoRes
<1>1. ASSUME NEW c \in Coros, CallAcquire(c) PROVE PoolInv'
  <2>1. UNCHANGED <<held, rh, inuse, unused, cap, queue>>
    BY <1>1 DEF CallAcquire
  <2>2. \A d \in Coros : Owners(d)
    BY <1>1 DEF CallAcquire, OwnInv, TypeOK
  <2> QED BY <2>1, <2>2, NoTransfer, SameStore
<1>2. ASSUME NEW c \in Coros, DropAwaiter(c) PROVE PoolInv'
  <2>1. UNCHANGED <<held, rh, inuse, unused, cap, queue>>
    BY <1>2 DEF DropAwaiter
  <2>2. \A d \in Coros : Owners(d)
    BY <1>2 DEF DropAwaiter, OwnInv, TypeOK
  <2> QED BY <2>1, <2>2, NoTransfer, SameStore
<1>3. ASSUME NEW c \in Coros, SuspendAborted(c) PROVE PoolInv'
  <2>1. UNCHANGED <<held, rh, inuse, unused, cap, queue>>
    BY <1>3 DEF SuspendAborted
  <2>2. \A d \in Coros : Owners(d)
    BY <1>3 DEF SuspendAborted, Resumed, OwnInv, TypeOK
  <2> QED BY <2>1, <2>2, NoTransfer, SameStore
<1>4. ASSUME NEW c \in Coros, SuspendThrows(c) PROVE PoolInv'
  <2>1. UNCHANGED <<held, rh, inuse, unused, cap, queue>>
    BY <1>4 DEF SuspendThrows
  <2>2. \A d \in Coros : Owners(d)
    BY <1>4 DEF SuspendThrows, MayAcquire, Resumed, OwnInv, TypeOK
  <2> QED BY <2>1, <2>2, NoTransfer, SameStore
<1>5. ASSUME NEW c \in Coros, DestroyAwaiter(c) PROVE PoolInv'
  <2>1. UNCHANGED <<held, rh, inuse, unused, cap, queue>>
    BY <1>5 DEF DestroyAwaiter
  <2>2. \A d \in Coros : Owners(d)
    BY <1>5 DEF DestroyAwaiter, OwnInv, TypeOK
  <2> QED BY <2>1, <2>2, NoTransfer, SameStore
<1>6. ASSUME NEW c \in Coros, ArmTimer(c) PROVE PoolInv'
  <2>1. UNCHANGED <<held, rh, inuse, unused, cap, queue>>
    BY <1>6 DEF ArmTimer
  <2>2. \A d \in Coros : Owners(d)
    BY <1>6 DEF ArmTimer, OwnInv, TypeOK
  <2> QED BY <2>1, <2>2, NoTransfer, SameStore
<1>7. ASSUME NEW c \in Coros, RegisterStop(c) PROVE PoolInv'
  <2>1. UNCHANGED <<held, rh, inuse, unused, cap, queue>>
    BY <1>7 DEF RegisterStop
  <2>2. \A d \in Coros : Owners(d)
    BY <1>7 DEF RegisterStop, OwnInv, TypeOK
  <2> QED BY <2>1, <2>2, NoTransfer, SameStore
<1>8. ASSUME NEW c \in Coros, RequestStop(c) PROVE PoolInv'
  <2>1. UNCHANGED <<held, rh, inuse, unused, cap, queue>>
    BY <1>8 DEF RequestStop
  <2>2. \A d \in Coros : Owners(d)
    BY <1>8 DEF RequestStop, OwnInv, TypeOK
  <2> QED BY <2>1, <2>2, NoTransfer, SameStore
<1>9. ASSUME NEW c \in Coros, OwnStop(c) PROVE PoolInv'
  <2>1. UNCHANGED <<held, rh, inuse, unused, cap, queue>>
    BY <1>9 DEF OwnStop
  <2>2. \A d \in Coros : Owners(d)
    BY <1>9 DEF OwnStop, OwnInv, TypeOK
  <2> QED BY <2>1, <2>2, NoTransfer, SameStore
<1>10. ASSUME NEW c \in Coros, SuspendQueued(c) PROVE PoolInv'
  <2>1. /\ UNCHANGED <<held, rh, inuse, unused, cap>> /\ ~Available
        /\ pc[c] = "acquiring" /\ pc' = [pc EXCEPT ![c] = "waiting"]
    BY <1>10 DEF SuspendQueued, MayAcquire
  <2>2. \A d \in Coros : Owners(d)
    BY <2>1 DEF OwnInv, TypeOK
  <2>3. inuse # {}
    <3>1. Cardinality({}) = 0
      BY FS_EmptySet
    <3>2. ~(Cardinality(inuse) < cap)
      BY <2>1 DEF Available
    <3>3. 0 < cap
      BY ConstAssumption DEF TypeOK
    <3> QED BY <3>1, <3>2, <3>3
  <2> QED BY <2>1, <2>2, <2>3, NoTransfer, SameStore
<1>11. ASSUME NEW c \in Coros, SuspendAcquired(c) PROVE PoolInv'
  <2>1. PICK r \in Res : Take(r) /\ held' = [held EXCEPT ![c] = r]
    BY <1>11 DEF SuspendAcquired
  <2>2. /\ pc[c] = "acquiring" /\ pc' = [pc EXCEPT ![c] = "leaving"]
        /\ UNCHANGED <<rh, queue>>
    BY <1>11 DEF SuspendAcquired, MayAcquire, Resumed
  <2>3. held[c] = NoRes /\ rh[c] = NoRes
    BY <2>2 DEF OwnInv
  <2>4. pc'[c] = "leaving" /\ \A d \in Coros \ {c} : pc'[d] = pc[d]
    BY <2>2 DEF TypeOK
  <2> QED BY <2>1, <2>2, <2>3, <2>4, Taken
<1>12. ASSUME NEW c \in Coros, TryAcquire(c) PROVE PoolInv'
  <2>1. PICK r \in Res : Take(r) /\ held' = [held EXCEPT ![c] = r]
    BY <1>12 DEF TryAcquire
  <2>2. /\ pc[c] = "idle" /\ held[c] = NoRes
        /\ UNCHANGED <<pc, rh, queue>>
    BY <1>12 DEF TryAcquire
  <2>3. rh[c] = NoRes
    BY <2>2 DEF OwnInv
  <2> QED BY <2>1, <2>2, <2>3, Taken
<1>13. ASSUME NEW c \in Coros, RegisterStopLate(c) PROVE PoolInv'
  <2>1. UNCHANGED <<held, rh, inuse, unused, cap>>
    BY <1>13 DEF RegisterStopLate
  <2>2. CASE myId[c] \in awaiters
    <3>1. Unlink(myId[c]) /\ Resumed(c, "aborted")
      BY <1>13, <2>2 DEF RegisterStopLate
    <3>2. c \in Coros /\ pc[c] = "waiting"
      BY <2>2, WhoWaits DEF TypeOK, Timers
    <3>3. \A d \in Coros : Owners(d)
      BY <3>1, <3>2 DEF OwnInv, TypeOK, Resumed
    <3>4. Len(queue') = Len(queue)
      BY <3>1, UnlinkFacts
    <3> QED BY <2>1, <3>3, <3>4, NoTransfer, SameStore
  <2>3. CASE myId[c] \notin awaiters
    <3>1. UNCHANGED <<queue, pc>>
      BY <1>13, <2>3 DEF RegisterStopLate
    <3>2. \A d \in Coros : Owners(d)
      BY <3>1 DEF OwnInv
    <3> QED BY <2>1, <3>1, <3>2, NoTransfer, SameStore
  <2> QED BY <2>2, <2>3
<1>14. ASSUME NEW c \in Coros, StopCallback(c) PROVE PoolInv'
  <2>1. UNCHANGED <<held, rh, inuse, unused, cap>>
    BY <1>14 DEF StopCallback
  <2>2. CASE myId[c] \in awaiters
    <3>1. Unlink(myId[c]) /\ Resumed(c, "aborted")
      BY <1>14, <2>2 DEF StopCallback
    <3>2. c \in Coros /\ pc[c] = "waiting"
      BY <2>2, WhoWaits DEF TypeOK, Timers
    <3>3. \A d \in Coros : Owners(d)
      BY <3>1, <3>2 DEF OwnInv, TypeOK, Resumed
    <3>4. Len(queue') = Len(queue)
      BY <3>1, UnlinkFacts
    <3> QED BY <2>1, <3>3, <3>4, NoTransfer, SameStore
  <2>3. CASE myId[c] \notin awaiters
    <3>1. UNCHANGED <<queue, pc>>
      BY <1>14, <2>3 DEF StopCallback
    <3>2. \A d \in Coros : Owners(d)
      BY <3>1 DEF OwnInv
    <3> QED BY <2>1, <3>1, <3>2, NoTransfer, SameStore
  <2> QED BY <2>2, <2>3
<1>15. ASSUME NEW t \in timers, TimerHandler(t) PROVE PoolInv'
  <2>1. UNCHANGED <<held, rh, inuse, unused, cap>>
    BY <1>15 DEF TimerHandler
  <2>2. CASE t.id \in awaiters
    <3>1. Unlink(t.id) /\ Resumed(t.c, "timeout")
      BY <1>15, <2>2 DEF TimerHandler
    <3>2. t.c \in Coros /\ pc[t.c] = "waiting"
      BY <2>2, WhoWaits DEF TypeOK, Timers
    <3>3. \A d \in Coros : Owners(d)
      BY <3>1, <3>2 DEF OwnInv, TypeOK, Resumed
    <3>4. Len(queue') = Len(queue)
      BY <3>1, UnlinkFacts
    <3> QED BY <2>1, <3>3, <3>4, NoTransfer, SameStore
  <2>3. CASE t.id \notin awaiters
    <3>1. UNCHANGED <<queue, pc>>
      BY <1>15, <2>3 DEF TimerHandler
    <3>2. \A d \in Coros : Owners(d)
      BY <3>1 DEF OwnInv
    <3> QED BY <2>1, <3>1, <3>2, NoTransfer, SameStore
  <2> QED BY <2>2, <2>3
<1>16. ASSUME NEW c \in Coros, ResumeHanded(c) PROVE PoolInv'
  BY <1>16, PickedUp
<1>17. ASSUME NEW c \in Coros, RecycleUnused(c) PROVE PoolInv'
  BY <1>17, PutBack
<1>18. ASSUME NEW c \in Coros, Complete(c) PROVE PoolInv'
  BY <1>18, HandedOver
<1>19. ASSUME NEW c \in Coros, RecycleToWaiter(c) PROVE PoolInv'
  <2>1. /\ UNCHANGED <<held, rh, inuse, unused, cap>>
        /\ pc[c] = "idle" /\ held[c] # NoRes
        /\ pc' = [pc EXCEPT ![c] = "completing"]
    BY <1>19 DEF RecycleToWaiter
  <2>2. \A d \in Coros : Owners(d)
    BY <2>1 DEF OwnInv, TypeOK
  <2>3. inuse # {}
    BY <2>1 DEF OwnInv, TypeOK
  <2> QED BY <2>1, <2>2, <2>3, NoTransfer, SameStore
<1>20. ASSUME NEW t \in timers, TimerExpire(t) PROVE PoolInv'
  <2>1. UNCHANGED <<held, rh, inuse, unused, cap, queue, pc>>
    BY <1>20 DEF TimerExpire
  <2> QED BY <2>1 DEF OwnInv, StoreInv
<1>21. ASSUME NEW n \in 1..MaxCap, Reserve(n) PROVE PoolInv'
  <2>1. /\ UNCHANGED <<held, rh, inuse, unused, queue, pc>>
        /\ cap' = n /\ n > Cardinality(inuse) + Len(unused)
    BY <1>21 DEF Reserve, Occupied
  <2>2. Cardinality(inuse) \in Nat /\ Len(unused) \in Nat
    BY FiniteInUse
  <2> QED BY <2>1, <2>2 DEF OwnInv, StoreInv
<1>22. CASE CreateAll
  BY <1>22, Created
<1>23. CASE ClearUnused
  <2>1. /\ UNCHANGED <<held, rh, inuse, queue, pc, cap>>
        /\ Len(unused') = 0
    BY <1>23 DEF ClearUnused
  <2>2. Cardinality(inuse) \in Nat /\ Len(unused) \in Nat /\ cap \in Nat
    BY FiniteInUse
  <2>3. Cardinality(inuse) + Len(unused') <= cap
    BY <2>1, <2>2 DEF StoreInv
  <2> QED BY <2>1, <2>3 DEF OwnInv, StoreInv
<1>24. CASE UNCHANGED vars
  BY <1>24 DEF vars, OwnInv, StoreInv
<1> QED
  BY <1>1, <1>2, <1>3, <1>4, <1>5, <1>6, <1>7, <1>8, <1>9, <1>10, <1>11,
     <1>12, <1>13, <1>14, <1>15, <1>16, <1>17, <1>18, <1>19, <1>20, <1>21,
     <1>22, <1>23, <1>24
  DEF Next, CoroStep, TimerStep, PoolStep, Undefined

SafeInv == TypeInv /\ LinkInv /\ PoolInv

LEMMA SafeAlways == Spec => []SafeInv
<1>1. Init => SafeInv
  BY TypeInit, LinkInit, PoolInit DEF SafeInv
<1>2. SafeInv /\ [Next]_vars => SafeInv'
  BY TypeStep, LinkStep, PoolInvStep DEF SafeInv
<1> QED BY <1>1, <1>2, PTL DEF Spec

\* A resource is in use exactly while one holder or one awaiter has it.
THEOREM OwnedOnce == Spec => []ExclusiveOwnership
<1>1. SafeInv => ExclusiveOwnership
  <2> SUFFICES ASSUME SafeInv PROVE ExclusiveOwnership
    OBVIOUS
  <2>1. DOMAIN unused = 1..Len(unused)
    BY LenProperties DEF SafeInv, TypeInv, TypeOK
  <2>2. inuse = {r \in Res : \E c \in Coros : held[c] = r \/ rh[c] = r}
    BY DEF SafeInv, TypeInv, TypeOK, PoolInv, OwnInv
  <2> QED BY <2>1, <2>2 DEF SafeInv, PoolInv, OwnInv, StoreInv, ExclusiveOwnership
<1> QED BY SafeAlways, <1>1, PTL

\* No more resources exist than the capacity allows, whatever reserve() and
\* create_all() do in between.
THEOREM CapacityKept == Spec => []Capacity
<1>1. SafeInv => Capacity
  BY DEF SafeInv, PoolInv, StoreInv, Capacity, Occupied
<1> QED BY SafeAlways, <1>1, PTL

\* The awaiter that recycle() completes is suspended, has no error and no
\* resource, and is out of reach of its timer and its stop callback.
THEOREM CompletesWaiter == Spec => []CompleteAsserts
<1>1. SafeInv => CompleteAsserts
  <2> SUFFICES ASSUME SafeInv, NEW c \in Coros, pc[c] = "completing"
               PROVE  /\ held[c] # NoRes
                      /\ next[c] \in Coros
                      /\ pc[next[c]] = "waiting" /\ ec[next[c]] = "none"
                      /\ rh[next[c]] = NoRes
                      /\ myId[next[c]] \notin awaiters
                      /\ \A d \in Coros : d # c => next[d] # next[c]
    BY DEF CompleteAsserts
  <2>1. next[c] # NoCoro /\ next[c] \in Coros
    BY DEF SafeInv, LinkInv, WaitInv, TypeInv, TypeOK
  <2>2. pc[next[c]] = "waiting" /\ myId[next[c]] \notin awaiters
    BY <2>1 DEF SafeInv, LinkInv, WaitInv
  <2>3. rh[next[c]] = NoRes /\ held[c] # NoRes
    BY <2>1, <2>2 DEF SafeInv, PoolInv, OwnInv
  <2> QED BY <2>1, <2>2, <2>3 DEF SafeInv, LinkInv, WaitInv
<1> QED BY SafeAlways, <1>1, PTL

\* When every coroutine is through and holds nothing, the pool may be destroyed:
\* nothing is in use and no slot, null ones included, is left.
THEOREM Destructible == Spec => []DestructorAsserts
<1>1. SafeInv => DestructorAsserts
  <2> SUFFICES ASSUME SafeInv, \A c \in Coros : pc[c] = "idle" /\ held[c] = NoRes
               PROVE  inuse = {} /\ queue = <<>> /\ awaiters = {}
    BY DEF DestructorAsserts
  <2>1. \A c \in Coros : rh[c] = NoRes
    BY DEF SafeInv, PoolInv, OwnInv
  <2>2. inuse = {}
    <3>1. \A r \in Res : r \notin inuse
      BY <2>1, ConstAssumption DEF SafeInv, PoolInv, OwnInv
    <3> QED BY <3>1 DEF SafeInv, TypeInv, TypeOK
  <2>3. Len(queue) = 0
    BY <2>2, FiniteInUse DEF SafeInv, PoolInv, StoreInv, TypeInv
  <2>4. queue = <<>>
    BY <2>3, EmptySeq DEF SafeInv, TypeInv, TypeOK
  <2>5. awaiters = {}
    BY <2>3 DEF SafeInv, LinkInv, QueueInv
  <2> QED BY <2>2, <2>4, <2>5
<1> QED BY SafeAlways, <1>1, PTL

\* The assertions of complete() and of ~res_pool() hold in every state, with any
\* number of coroutines, resources and threads.
THEOREM AssertsHold == Spec => []PoolAsserts
<1>1. CompleteAsserts /\ DestructorAsserts => PoolAsserts
  BY DEF PoolAsserts
<1> QED BY CompletesWaiter, Destructible, <1>1, PTL

-----------------------------------------------------------------------------
\* Only recycle() with no live waiter takes a resource out of use.
LEMMA InUseGrows ==
  ASSUME SafeInv, [Next]_vars, awaiters # {} PROVE inuse \subseteq inuse'
<1> USE DEF poolVars
<1>1. ASSUME NEW c \in Coros, RecycleUnused(c) PROVE FALSE
  BY <1>1, ClearedLinks DEF SafeInv
<1>2. ASSUME NEW c \in Coros, SuspendAcquired(c) PROVE inuse \subseteq inuse'
  BY <1>2 DEF SuspendAcquired, Take
<1>3. ASSUME NEW c \in Coros, TryAcquire(c) PROVE inuse \subseteq inuse'
  BY <1>3 DEF TryAcquire, Take
<1>4. ASSUME NEW c \in Coros, CoroStep(c) PROVE inuse \subseteq inuse'
  BY <1>1, <1>2, <1>3, <1>4
  DEF CoroStep, CallAcquire, DropAwaiter, SuspendAborted, SuspendThrows,
      SuspendQueued, ArmTimer, RegisterStop, RegisterStopLate, OwnStop,
      RequestStop, StopCallback, ResumeHanded, DestroyAwaiter, RecycleToWaiter,
      Complete
<1>5. CASE TimerStep
  BY <1>5 DEF TimerStep, TimerExpire, TimerHandler
<1>6. CASE PoolStep
  BY <1>6 DEF PoolStep, Reserve, CreateAll, ClearUnused
<1>7. CASE UNCHANGED vars
  BY <1>7 DEF vars
<1> QED BY <1>4, <1>5, <1>6, <1>7 DEF Next, Undefined

\* A resource given back while somebody waits stays in use: it goes to a waiter.
THEOREM HandsOver == Spec => HandOverNotIdle
<1> DEFINE A == awaiters # {} => Cardinality(inuse') >= Cardinality(inuse)
<1>1. SafeInv /\ SafeInv' /\ [Next]_vars => [A]_vars
  <2> SUFFICES ASSUME SafeInv, SafeInv', [Next]_vars, awaiters # {}
               PROVE  Cardinality(inuse') >= Cardinality(inuse)
    OBVIOUS
  <2>1. inuse \in SUBSET inuse'
    BY InUseGrows
  <2>2. IsFiniteSet(inuse') /\ Cardinality(inuse') \in Nat
    <3>1. inuse' \in SUBSET Res
      BY DEF SafeInv, TypeInv, TypeOK
    <3> QED BY <3>1, FS_Subset, FS_CardinalityType, ConstAssumption
  <2>3. Cardinality(inuse) \in Nat
    BY FiniteInUse DEF SafeInv, TypeInv
  <2> QED BY <2>1, <2>2, <2>3, FS_Subset
<1> QED BY SafeAlways, <1>1, PTL DEF Spec, HandOverNotIdle

\* A step that ends the wait of c with a timeout is the handler of a timer that
\* was armed in that wait.
LEMMA TimeoutStep ==
  ASSUME SafeInv, [Next]_vars, NEW c \in Coros,
         pc[c] = "waiting", pc'[c] = "leaving", ec'[c] = "timeout"
  PROVE  \E t \in timers : t.c = c /\ t.id = myId[c] /\ t.st = "expired"
<1> USE DEF SafeInv, TypeInv
<1>1. ASSUME NEW t \in timers, TimerHandler(t)
      PROVE  t.c = c /\ t.id = myId[c] /\ t.st = "expired"
  <2>1. t.c \in Coros /\ t.st = "expired"
    BY <1>1 DEF TimerHandler, TypeOK, Timers
  <2>2. t.id \in awaiters /\ Resumed(t.c, "timeout")
    BY <1>1 DEF TimerHandler
  <2>3. t.c = c
    BY <2>1, <2>2 DEF Resumed, TypeOK
  <2>4. myId[t.c] = t.id
    BY <2>2, WhoWaits
  <2> QED BY <2>1, <2>3, <2>4
<1>2. ASSUME NEW d \in Coros, RegisterStopLate(d) \/ StopCallback(d) PROVE FALSE
  <2>1. Resumed(d, "aborted") \/ UNCHANGED <<pc, ec>>
    BY <1>2 DEF RegisterStopLate, StopCallback
  <2> QED BY <2>1 DEF Resumed, TypeOK
<1>3. ASSUME NEW d \in Coros, Complete(d) PROVE FALSE
  <2>1. next[d] \in Coros /\ pc' = [pc EXCEPT ![d] = "idle", ![next[d]] = "handed"]
    BY <1>3 DEF Complete, LinkInv, WaitInv, TypeOK
  <2> QED BY <2>1 DEF TypeOK
<1>4. ASSUME NEW d \in Coros, CoroStep(d) PROVE FALSE
  BY <1>2, <1>3, <1>4
  DEF CoroStep, CallAcquire, DropAwaiter, SuspendAborted, SuspendAcquired,
      SuspendThrows, SuspendQueued, MayAcquire, Resumed, ArmTimer, RegisterStop,
      OwnStop, RequestStop, ResumeHanded, DestroyAwaiter, TryAcquire,
      RecycleUnused, RecycleToWaiter, TypeOK
<1>5. CASE PoolStep
  BY <1>5 DEF PoolStep, Reserve, CreateAll, ClearUnused
<1>6. ASSUME NEW t \in timers, TimerExpire(t) PROVE FALSE
  BY <1>6 DEF TimerExpire
<1>7. CASE UNCHANGED vars
  BY <1>7 DEF vars
<1> QED BY <1>1, <1>4, <1>5, <1>6, <1>7 DEF Next, TimerStep, Undefined

\* A coroutine is told of a timeout only by the timer of that very wait, however
\* late the handlers of earlier waits run.
THEOREM OwnTimeout == Spec => TimeoutOwnWait
<1> DEFINE A == \A c \in Coros :
                  (pc[c] = "waiting" /\ pc'[c] = "leaving" /\ ec'[c] = "timeout") =>
                    \E t \in timers : t.c = c /\ t.id = myId[c] /\ t.st = "expired"
<1>1. SafeInv /\ [Next]_vars => [A]_vars
  BY TimeoutStep
<1> QED BY SafeAlways, <1>1, PTL DEF Spec, TimeoutOwnWait

-----------------------------------------------------------------------------
\* With one thread: nothing runs while a coroutine is inside await_suspend, so
\* a stop cannot come between its check and the registration of the callback.
SingleInv ==
  /\ \A c \in Coros :
       /\ susp[c] # "none" => pc[c] \in {"waiting", "handed"}
       /\ susp[c] = "reg" => c \in Stoppable
       /\ susp[c] \in {"arm", "reg"} /\ c \in Stoppable => ~stopReq[c]
       /\ stopCb[c] # "none" => pc[c] \in {"waiting", "handed", "leaving"}
       /\ stopCb[c] = "running" => susp[c] = "none"
  /\ ~dangling

LEMMA SingleStep ==
  ASSUME ~MultiThread, SafeInv, SingleInv, [Next]_vars PROVE SingleInv'
<1> USE ConstAssumption DEF SafeInv, TypeInv, TypeOK, SingleInv, SuspPCs, PCs, CbStates,
  stopVars
<1>1. ASSUME NEW c \in Coros, CallAcquire(c) PROVE SingleInv'
  BY <1>1 DEF CallAcquire
<1>2. ASSUME NEW c \in Coros, DropAwaiter(c) PROVE SingleInv'
  BY <1>2 DEF DropAwaiter
<1>3. ASSUME NEW c \in Coros, SuspendAborted(c) PROVE SingleInv'
  BY <1>3 DEF SuspendAborted, Resumed
<1>4. ASSUME NEW c \in Coros, SuspendAcquired(c) PROVE SingleInv'
  BY <1>4 DEF SuspendAcquired, MayAcquire, Resumed
<1>5. ASSUME NEW c \in Coros, SuspendThrows(c) PROVE SingleInv'
  BY <1>5 DEF SuspendThrows, MayAcquire, Resumed
<1>6. ASSUME NEW c \in Coros, SuspendQueued(c) PROVE SingleInv'
  BY <1>6 DEF SuspendQueued, MayAcquire
<1>7. ASSUME NEW c \in Coros, ArmTimer(c) PROVE SingleInv'
  BY <1>7 DEF ArmTimer
<1>8. ASSUME NEW c \in Coros, RegisterStop(c) PROVE SingleInv'
  BY <1>8 DEF RegisterStop
<1>9. ASSUME NEW c \in Coros, OwnStop(c) PROVE SingleInv'
  BY <1>9 DEF OwnStop
<1>10. ASSUME NEW c \in Coros, RequestStop(c) PROVE SingleInv'
  BY <1>10 DEF RequestStop, ThreadFree
<1>11. ASSUME NEW c \in Coros, ResumeHanded(c) PROVE SingleInv'
  BY <1>11 DEF ResumeHanded, ThreadFree, Resumed
<1>12. ASSUME NEW c \in Coros, DestroyAwaiter(c) PROVE SingleInv'
  BY <1>12 DEF DestroyAwaiter
<1>13. ASSUME NEW c \in Coros, TryAcquire(c) PROVE SingleInv'
  BY <1>13 DEF TryAcquire
<1>14. ASSUME NEW c \in Coros, RecycleUnused(c) PROVE SingleInv'
  BY <1>14 DEF RecycleUnused
<1>15. ASSUME NEW c \in Coros, RecycleToWaiter(c) PROVE SingleInv'
  BY <1>15 DEF RecycleToWaiter
<1>16. ASSUME NEW c \in Coros, RegisterStopLate(c) PROVE SingleInv'
  BY <1>16 DEF RegisterStopLate
<1>17. ASSUME NEW c \in Coros, StopCallback(c) PROVE SingleInv'
  <2>1. /\ stopCb[c] = "running" /\ stopCb' = [stopCb EXCEPT ![c] = "none"]
        /\ Resumed(c, "aborted") \/ UNCHANGED pc
        /\ UNCHANGED <<susp, stopReq, dangling>>
    BY <1>17 DEF StopCallback
  <2> QED BY <2>1 DEF Resumed
<1>18. ASSUME NEW c \in Coros, Complete(c) PROVE SingleInv'
  <2>1. /\ pc[c] = "completing" /\ next[c] \in Coros /\ pc[next[c]] = "waiting"
        /\ pc' = [pc EXCEPT ![c] = "idle", ![next[c]] = "handed"]
        /\ UNCHANGED <<susp, stopReq, stopCb, dangling>>
    BY <1>18 DEF Complete, LinkInv, WaitInv
  <2> QED BY <2>1, ZenonT(40)
<1>19. ASSUME NEW t \in timers, TimerHandler(t) PROVE SingleInv'
  <2>1. /\ (Resumed(t.c, "timeout") /\ t.id \in awaiters) \/ UNCHANGED pc
        /\ UNCHANGED <<susp, stopReq, stopCb, dangling>>
        /\ \A d \in Coros : susp[d] = "none"
    BY <1>19 DEF TimerHandler, ThreadFree
  <2>2. t.c \in Coros /\ (t.id \in awaiters => pc[t.c] = "waiting")
    BY WhoWaits DEF Timers
  <2> QED BY <2>1, <2>2 DEF Resumed
<1>20. ASSUME NEW t \in timers, TimerExpire(t) PROVE SingleInv'
  BY <1>20 DEF TimerExpire
<1>21. CASE PoolStep
  BY <1>21 DEF PoolStep, Reserve, CreateAll, ClearUnused
<1>22. CASE UNCHANGED vars
  BY <1>22 DEF vars
<1> QED
  BY <1>1, <1>2, <1>3, <1>4, <1>5, <1>6, <1>7, <1>8, <1>9, <1>10, <1>11,
     <1>12, <1>13, <1>14, <1>15, <1>16, <1>17, <1>18, <1>19, <1>20, <1>21,
     <1>22
  DEF Next, CoroStep, TimerStep, Undefined

\* With one thread no awaiter is destroyed while await_suspend still has members
\* to touch, for every number of coroutines and waits.
THEOREM SingleThreadSafe == ASSUME ~MultiThread PROVE Spec => []NoDangling
<1>1. Init => SingleInv
  BY DEF Init, SingleInv
<1>2. SafeInv /\ SingleInv /\ [Next]_vars => SingleInv'
  BY SingleStep
<1>3. SingleInv => NoDangling
  BY DEF SingleInv, NoDangling
<1> QED BY SafeAlways, <1>1, <1>2, <1>3, PTL DEF Spec

-----------------------------------------------------------------------------
(***************************************************************************)
(* The pool implements Allocator, the first-come-first-served exclusive    *)
(* allocator, for any number of coroutines, resources and waits: every     *)
(* step of ResPool, seen through Owns and Waits, is a step of Allocator or *)
(* leaves what Allocator sees alone.                                       *)
(*                                                                         *)
(*   await_suspend, try_acquire that take a resource    Grant              *)
(*   await_suspend that queues the awaiter              Enqueue            *)
(*   timer handler, stop callback that find the id      GiveUp             *)
(*   recycle() with no live slot in the deque           Free               *)
(*   recycle() that takes an awaiter out                HandOver           *)
(*   reserve()                                          SetLimit           *)
(*                                                                         *)
(* complete() and the resumption it posts are stutters: the resource is    *)
(* the waiter's from the critical section of recycle() on.                 *)
(***************************************************************************)

\* Owns, one coroutine at a time.
OwnsByState ==
  /\ Owns = [c \in Coros |-> Owns[c]]
  /\ \A c, d \in Coros : next[d] = c => Owns[c] = held[d]
  /\ \A c \in Coros : (\A d \in Coros : next[d] # c) =>
       Owns[c] = IF pc[c] = "completing" THEN NoRes
                 ELSE IF rh[c] # NoRes THEN rh[c] ELSE held[c]

\* The CHOOSE of Owns has one candidate, an awaiter is completed by one coroutine,
\* and the guards of its CASE exclude each other.
LEMMA OwnsFacts == SafeInv => OwnsByState
<1> SUFFICES ASSUME SafeInv PROVE OwnsByState
  OBVIOUS
<1>1. \A c, d \in Coros : next[d] = c => (CHOOSE e \in Coros : next[e] = c) = d
  <2> SUFFICES ASSUME NEW c \in Coros, NEW d \in Coros, next[d] = c
               PROVE  (CHOOSE e \in Coros : next[e] = c) = d
    OBVIOUS
  <2>1. \A e \in Coros : next[e] = c => e = d
    BY ConstAssumption DEF SafeInv, LinkInv, WaitInv
  <2> QED BY <2>1
<1>2. ASSUME NEW c \in Coros, NEW d \in Coros, next[d] = c
      PROVE  Owns[c] = held[d]
  <2>1. pc[c] = "waiting" /\ rh[c] = NoRes
    BY <1>2, ConstAssumption DEF SafeInv, LinkInv, WaitInv, PoolInv, OwnInv
  <2> QED BY <1>1, <1>2, <2>1 DEF Owns
<1>3. ASSUME NEW c \in Coros, \A d \in Coros : next[d] # c
      PROVE  Owns[c] = IF pc[c] = "completing" THEN NoRes
                       ELSE IF rh[c] # NoRes THEN rh[c] ELSE held[c]
  <2>1. pc[c] = "completing" => rh[c] = NoRes
    BY DEF SafeInv, PoolInv, OwnInv
  <2> QED BY <1>3, <2>1 DEF Owns
<1>4. Owns = [c \in Coros |-> Owns[c]]
  BY DEF Owns
<1> QED BY <1>2, <1>3, <1>4 DEF OwnsByState

\* Waits, by the ids that are in the set.
WaitsById == {[c |-> d, t |-> myId[d]] : d \in {d \in Coros : myId[d] \in awaiters}}

\* The live slots of the deque are the ids of the set, each with its coroutine.
LEMMA WaitsFacts == SafeInv => Waits = WaitsById
<1> SUFFICES ASSUME SafeInv PROVE Waits = WaitsById
  OBVIOUS
<1> USE DEF SafeInv, TypeInv
<1>1. DOMAIN queue = 1..Len(queue) /\ \A i \in 1..Len(queue) : queue[i] \in Slots
  BY LenProperties, ElementOfSeq DEF TypeOK
<1>2. ASSUME NEW i \in 1..Len(queue), queue[i].w # NoCoro
      PROVE  [c |-> queue[i].w, t |-> queue[i].id] \in WaitsById
  <2>1. queue[i].w \in Coros
    BY <1>1, <1>2 DEF Slots
  <2>2. myId[queue[i].w] = queue[i].id /\ queue[i].id \in awaiters
    BY <1>2 DEF LinkInv, QueueInv
  <2> QED BY <2>1, <2>2 DEF WaitsById
<1>3. ASSUME NEW d \in Coros, myId[d] \in awaiters
      PROVE  \E i \in 1..Len(queue) : queue[i].w # NoCoro /\ queue[i].w = d
                                      /\ queue[i].id = myId[d]
  <2>1. PICK i \in 1..Len(queue) : queue[i].id = myId[d]
    BY <1>3 DEF LinkInv, QueueInv
  <2>2. queue[i].w # NoCoro /\ queue[i].w \in Coros
    BY <1>1, <1>3, <2>1 DEF LinkInv, QueueInv, Slots
  <2>3. myId[queue[i].w] = myId[d]
    BY <2>1, <2>2 DEF LinkInv, QueueInv
  <2>4. queue[i].w = d
    BY <1>3, <2>2, <2>3, WhoWaits
  <2> QED BY <2>1, <2>2, <2>4
<1>4. Waits \subseteq WaitsById
  BY <1>1, <1>2 DEF Waits
<1>5. WaitsById \subseteq Waits
  BY <1>1, <1>3 DEF Waits, WaitsById
<1> QED BY <1>4, <1>5

\* What is owned is what is in use, wherever the holder is on its way.
LEMMA OwnedInUse == SafeInv => Alloc!Owned = inuse
<1> SUFFICES ASSUME SafeInv PROVE Alloc!Owned = inuse
  OBVIOUS
<1> USE DEF SafeInv, TypeInv
<1>0. OwnsByState
  BY OwnsFacts
<1>1. ASSUME NEW r \in Res, NEW c \in Coros, Owns[c] = r PROVE r \in inuse
  <2>0. r # NoRes
    BY ConstAssumption
  <2>1. CASE \E d \in Coros : next[d] = c
    BY <1>0, <1>1, <2>1 DEF OwnsByState, PoolInv, OwnInv
  <2>2. CASE \A d \in Coros : next[d] # c
    <3>1. rh[c] = r \/ held[c] = r
      BY <1>0, <1>1, <2>0, <2>2 DEF OwnsByState
    <3> QED BY <3>1 DEF PoolInv, OwnInv
  <2> QED BY <2>1, <2>2
<1>2. ASSUME NEW r \in inuse PROVE \E c \in Coros : Owns[c] = r
  <2>0. r \in Res /\ r # NoRes
    BY ConstAssumption DEF TypeOK
  <2>1. PICK c \in Coros : held[c] = r \/ rh[c] = r
    BY <2>0 DEF PoolInv, OwnInv
  <2>2. pc[c] # "waiting"
    BY <2>0, <2>1 DEF PoolInv, OwnInv
  <2>3. \A d \in Coros : next[d] # c
    BY <2>2, ConstAssumption DEF LinkInv, WaitInv
  <2>4. CASE pc[c] = "completing"
    <3>1. held[c] = r
      BY <2>0, <2>1, <2>4 DEF PoolInv, OwnInv
    <3>2. next[c] \in Coros
      BY <2>4 DEF LinkInv, WaitInv, TypeOK
    <3> QED BY <1>0, <3>1, <3>2 DEF OwnsByState
  <2>5. CASE pc[c] # "completing"
    <3>1. rh[c] # NoRes => held[c] = NoRes
      BY DEF PoolInv, OwnInv
    <3> QED BY <1>0, <2>0, <2>1, <2>3, <2>5, <3>1 DEF OwnsByState
  <2> QED BY <2>4, <2>5
<1> QED BY <1>1, <1>2 DEF Alloc!Owned, TypeOK

\* A coroutine that neither waits nor holds is idle to the allocator.
LEMMA IdleFacts ==
  ASSUME SafeInv, NEW c \in Coros, pc[c] # "waiting", pc[c] # "completing"
  PROVE  /\ \A e \in Waits : e.c # c
         /\ \A d \in Coros : next[d] # c
         /\ Owns[c] = IF rh[c] # NoRes THEN rh[c] ELSE held[c]
<1> USE DEF SafeInv, TypeInv
<1>1. \A d \in Coros : next[d] # c
  BY ConstAssumption DEF LinkInv, WaitInv
<1>2. myId[c] \notin awaiters
  BY WhoWaits
<1> QED BY <1>1, <1>2, OwnsFacts, WaitsFacts DEF OwnsByState, WaitsById

\* The allocator counts with its own instance of the standard module.
LEMMA SameCount == \A S : Alloc!Cardinality(S) = Cardinality(S)
BY DEF Alloc!Cardinality, Cardinality

\* The pool as the allocator sees it, in terms of the pool's own state.
View == OwnsByState /\ Waits = WaitsById /\ Alloc!Owned = inuse

LEMMA ViewFacts == SafeInv => View
BY OwnsFacts, WaitsFacts, OwnedInUse DEF View

ASteps == [Alloc!Next]_(Alloc!avars)

-----------------------------------------------------------------------------
\* Nobody's resource moves and no one begins or ends to complete another.
LEMMA SameOwns ==
  ASSUME OwnsByState, OwnsByState', UNCHANGED <<next, rh, held>>,
         \A c \in Coros : (pc'[c] = "completing") <=> (pc[c] = "completing")
  PROVE  Owns' = Owns
<1>1. ASSUME NEW c \in Coros PROVE Owns'[c] = Owns[c]
  <2>1. CASE \E d \in Coros : next[d] = c
    BY <2>1 DEF OwnsByState
  <2>2. CASE \A d \in Coros : next[d] # c
    BY <2>2 DEF OwnsByState
  <2> QED BY <2>1, <2>2
<1> QED BY <1>1 DEF OwnsByState

LEMMA SameWaits ==
  ASSUME View, View', UNCHANGED <<myId, awaiters>> PROVE Waits' = Waits
BY DEF View, WaitsById

\* A step that neither moves a resource nor ends or begins a wait.
LEMMA Quiet ==
  ASSUME View, View', UNCHANGED <<next, rh, held, myId, awaiters, cap>>,
         \A c \in Coros : (pc'[c] = "completing") <=> (pc[c] = "completing")
  PROVE  ASteps
<1>1. Owns' = Owns
  BY SameOwns DEF View
<1>2. Waits' = Waits
  BY SameWaits
<1> QED BY <1>1, <1>2 DEF ASteps, Alloc!avars

\* The coroutine resumed from complete() finds the resource it already owned.
LEMMA PickUpStutters ==
  ASSUME SafeInv, View, View', NEW c \in Coros, ResumeHanded(c) PROVE ASteps
<1> USE DEF SafeInv, TypeInv
<1>1. /\ pc[c] = "handed" /\ pc' = [pc EXCEPT ![c] = "leaving"]
      /\ held' = [held EXCEPT ![c] = rh[c]] /\ rh' = [rh EXCEPT ![c] = NoRes]
      /\ UNCHANGED <<next, myId, awaiters, cap>>
  BY DEF ResumeHanded, Resumed, queueVars, poolVars
<1>2. /\ pc'[c] = "leaving" /\ held'[c] = rh[c] /\ rh'[c] = NoRes
      /\ \A d \in Coros \ {c} : pc'[d] = pc[d] /\ held'[d] = held[d] /\ rh'[d] = rh[d]
  BY <1>1 DEF TypeOK
<1>3. held[c] = NoRes /\ \A d \in Coros : next[d] # c
  BY <1>1, IdleFacts DEF PoolInv, OwnInv
<1>4. \A d \in Coros : next[d] # NoCoro => d # c
  BY <1>1 DEF LinkInv, WaitInv
<1>5. ASSUME NEW d \in Coros PROVE Owns'[d] = Owns[d]
  <2>1. CASE \E e \in Coros : next[e] = d
    BY <1>1, <1>2, <1>4, <2>1, ConstAssumption DEF View, OwnsByState
  <2>2. CASE d # c /\ \A e \in Coros : next[e] # d
    BY <1>1, <1>2, <2>2 DEF View, OwnsByState
  <2>3. CASE d = c
    BY <1>1, <1>2, <1>3, <2>3 DEF View, OwnsByState
  <2> QED BY <2>1, <2>2, <2>3
<1>6. Owns' = Owns
  BY <1>5 DEF View, OwnsByState
<1> QED BY <1>1, <1>6, SameWaits DEF ASteps, Alloc!avars

\* complete() stores the resource where the waiter finds it.
LEMMA CompleteStutters ==
  ASSUME SafeInv, View, View', NEW c \in Coros, Complete(c) PROVE ASteps
<1> USE DEF SafeInv, TypeInv
<1> DEFINE w == next[c]
<1>1. /\ pc[c] = "completing" /\ pc' = [pc EXCEPT ![c] = "idle", ![w] = "handed"]
      /\ rh' = [rh EXCEPT ![w] = held[c]] /\ held' = [held EXCEPT ![c] = NoRes]
      /\ next' = [next EXCEPT ![c] = NoCoro]
      /\ UNCHANGED <<myId, awaiters, cap>>
  BY DEF Complete, queueVars, poolVars
<1>2. /\ w \in Coros /\ w # NoCoro /\ w # c /\ pc[w] = "waiting"
      /\ \A d \in Coros : next[d] = w => d = c
      /\ \A d \in Coros : next[d] # c
  <2>1. w # NoCoro /\ w \in Coros
    BY <1>1 DEF LinkInv, WaitInv, TypeOK
  <2>2. pc[w] = "waiting" /\ \A d \in Coros : next[d] = w => d = c
    BY <2>1 DEF LinkInv, WaitInv
  <2>3. \A d \in Coros : next[d] # c
    BY <1>1, ConstAssumption DEF LinkInv, WaitInv
  <2> QED BY <1>1, <2>1, <2>2, <2>3
<1> HIDE DEF w
<1>3. /\ pc'[c] = "idle" /\ pc'[w] = "handed" /\ rh'[w] = held[c]
      /\ held'[c] = NoRes /\ next'[c] = NoCoro
      /\ \A d \in Coros \ {c} : held'[d] = held[d] /\ next'[d] = next[d]
      /\ \A d \in Coros \ {w} : rh'[d] = rh[d]
      /\ \A d \in Coros \ {c, w} : pc'[d] = pc[d]
  BY <1>1, <1>2 DEF TypeOK
<1>4. /\ rh[c] = NoRes /\ held[c] # NoRes /\ held[w] = NoRes
      /\ next[c] = w
  BY <1>1, <1>2 DEF PoolInv, OwnInv, w
<1>5. \A d, e \in Coros : next'[e] = d => e # c /\ next[e] = d /\ d # w /\ d # c
  BY <1>2, <1>3, ConstAssumption
<1>6. ASSUME NEW d \in Coros PROVE Owns'[d] = Owns[d]
  <2>1. CASE d = w
    <3>1. Owns[d] = held[c]
      BY <1>4, <2>1 DEF View, OwnsByState
    <3>2. \A e \in Coros : next'[e] # d
      BY <1>5, <2>1
    <3>3. Owns'[d] = rh'[d]
      BY <1>3, <1>4, <2>1, <3>2 DEF View, OwnsByState
    <3> QED BY <1>3, <2>1, <3>1, <3>3
  <2>2. CASE d = c
    <3>1. Owns[d] = NoRes
      BY <1>1, <1>2, <2>2 DEF View, OwnsByState
    <3>2. \A e \in Coros : next'[e] # d
      BY <1>5, <2>2
    <3>3. Owns'[d] = NoRes
      BY <1>2, <1>3, <1>4, <2>2, <3>2 DEF View, OwnsByState
    <3> QED BY <3>1, <3>3
  <2>3. CASE d # w /\ d # c /\ \E e \in Coros : next[e] = d
    <3>1. PICK e \in Coros : next[e] = d
      BY <2>3
    <3>2. e # c /\ next'[e] = d /\ held'[e] = held[e]
      BY <1>3, <1>4, <2>3, <3>1
    <3> QED BY <3>1, <3>2 DEF View, OwnsByState
  <2>4. CASE d # w /\ d # c /\ \A e \in Coros : next[e] # d
    <3>1. \A e \in Coros : next'[e] # d
      BY <1>5, <2>4
    <3> QED BY <1>3, <2>4, <3>1 DEF View, OwnsByState
  <2> QED BY <2>1, <2>2, <2>3, <2>4
<1>7. Owns' = Owns
  BY <1>6 DEF View, OwnsByState
<1> QED BY <1>1, <1>7, SameWaits DEF ASteps, Alloc!avars

-----------------------------------------------------------------------------
\* The waits that are left when the one of c is taken out of the set.
LEMMA WaitsWithout ==
  ASSUME SafeInv, View, View', NEW c \in Coros, myId[c] \in awaiters,
         awaiters' = awaiters \ {myId[c]}, UNCHANGED myId
  PROVE  /\ [c |-> c, t |-> myId[c]] \in Waits
         /\ Waits' = Waits \ {[c |-> c, t |-> myId[c]]}
<1>1. \A d \in Coros : myId[d] = myId[c] => d = c
  BY WhoWaits DEF SafeInv, TypeInv
<1> QED BY <1>1 DEF View, WaitsById

\* The timer handler or the stop callback takes the awaiter out of the queue.
LEMMA RemovalGivesUp ==
  ASSUME SafeInv, View, View', NEW c \in Coros, NEW code \in ECs,
         myId[c] \in awaiters, Unlink(myId[c]), Resumed(c, code),
         UNCHANGED <<next, rh, held, myId, cap>>
  PROVE  ASteps
<1> USE DEF SafeInv, TypeInv
<1>1. pc[c] = "waiting"
  BY WhoWaits
<1>2. Owns' = Owns
  <2>1. \A d \in Coros : (pc'[d] = "completing") <=> (pc[d] = "completing")
    BY <1>1, ResumedFacts
  <2> QED BY <2>1, SameOwns DEF View
<1>3. /\ [c |-> c, t |-> myId[c]] \in Waits
      /\ Waits' = Waits \ {[c |-> c, t |-> myId[c]]}
  BY WaitsWithout DEF Unlink
<1>4. Alloc!GiveUp([c |-> c, t |-> myId[c]])
  BY <1>2, <1>3 DEF Alloc!GiveUp
<1> QED BY <1>3, <1>4 DEF ASteps, Alloc!Next

\* A coroutine takes a resource that is not in use, from the ones set aside or
\* a new one.
LEMMA TakingGrants ==
  ASSUME SafeInv, View, View', NEW c \in Coros, NEW r \in Res, Take(r),
         pc[c] \in {"idle", "acquiring"}, held[c] = NoRes,
         held' = [held EXCEPT ![c] = r],
         \A d \in Coros : (pc'[d] = "completing") <=> (pc[d] = "completing"),
         UNCHANGED <<next, rh, myId, awaiters>>
  PROVE  ASteps
<1> USE DEF SafeInv, TypeInv
<1>1. Cardinality(inuse) < cap /\ cap' = cap /\ r \notin inuse
  <2>1. Cardinality(inuse) \in Nat /\ Len(unused) \in Nat /\ cap \in Nat
    BY FiniteInUse
  <2>2. Cardinality(inuse) + Len(unused) <= cap
    BY DEF PoolInv, StoreInv
  <2>3. unused # <<>> => Len(unused) \in Nat \ {0} /\ r = unused[1] /\ cap' = cap
    BY TakeFacts
  <2>4. unused = <<>> => Cardinality(inuse) < cap /\ r \notin inuse /\ cap' = cap
    BY TakeFacts
  <2> QED BY <2>1, <2>2, <2>3, <2>4 DEF PoolInv, StoreInv
<1>2. /\ \A e \in Waits : e.c # c
      /\ \A d \in Coros : next[d] # c
      /\ rh[c] = NoRes /\ Owns[c] = NoRes
  BY IdleFacts DEF PoolInv, OwnInv
<1>3. /\ held'[c] = r /\ next[c] = NoCoro
      /\ \A d \in Coros \ {c} : held'[d] = held[d]
  BY DEF TypeOK, LinkInv, WaitInv
<1>4. \A d \in Coros : Owns'[d] = IF d = c THEN r ELSE Owns[d]
  <2> SUFFICES ASSUME NEW d \in Coros
               PROVE  Owns'[d] = IF d = c THEN r ELSE Owns[d]
    OBVIOUS
  <2>1. CASE d = c
    BY <1>2, <1>3, <2>1 DEF View, OwnsByState
  <2>2. CASE d # c /\ \E e \in Coros : next[e] = d
    <3>1. PICK e \in Coros : next[e] = d
      BY <2>2
    <3>2. e # c
      BY <1>3, <3>1, ConstAssumption
    <3> QED BY <1>3, <2>2, <3>1, <3>2 DEF View, OwnsByState
  <2>3. CASE d # c /\ \A e \in Coros : next[e] # d
    BY <1>3, <2>3 DEF View, OwnsByState
  <2> QED BY <2>1, <2>2, <2>3
<1>5. Owns' = [Owns EXCEPT ![c] = r]
  BY <1>4 DEF View, OwnsByState
<1>6. Alloc!Grant(c, r)
  BY <1>1, <1>2, <1>5, SameWaits, SameCount DEF Alloc!Grant, Alloc!Idle, View
<1> QED BY <1>6 DEF ASteps, Alloc!Next

\* A coroutine queues only when the capacity is used up, behind all who wait.
LEMMA QueueingEnqueues ==
  ASSUME SafeInv, View, View', NEW c \in Coros, SuspendQueued(c)
  PROVE  ASteps
<1> USE DEF SafeInv, TypeInv
<1> DEFINE x == idSeq + 1
<1>1. /\ pc[c] = "acquiring" /\ mut = c /\ idSeq < MaxId
      /\ pc' = [pc EXCEPT ![c] = "waiting"]
      /\ awaiters' = awaiters \cup {x} /\ myId' = [myId EXCEPT ![c] = x]
      /\ unused = <<>> /\ ~(Cardinality(inuse) < cap)
      /\ UNCHANGED <<next, rh, held, cap>>
  BY ConstAssumption DEF SuspendQueued, MayAcquire, Available, MutexInv, poolVars
<1>2. idSeq \in Nat /\ x \in 1..MaxId /\ Cardinality(inuse) >= cap
  BY <1>1, FiniteInUse, ConstAssumption DEF TypeOK
<1>3. /\ \A e \in Waits : e.c # c
      /\ rh[c] = NoRes /\ held[c] = NoRes /\ Owns[c] = NoRes
  BY <1>1, IdleFacts DEF PoolInv, OwnInv
<1>4. \A d \in Coros : myId[d] \in Nat /\ myId[d] <= idSeq
  BY DEF LinkInv, IdInv, TypeOK
<1>5. \A e \in Waits : e.t < x
  BY <1>2, <1>4 DEF View, WaitsById
<1>6. /\ myId[c] \notin awaiters /\ myId'[c] = x
      /\ \A d \in Coros \ {c} : myId'[d] = myId[d] /\ myId[d] # x
  BY <1>1, <1>2, <1>4, WhoWaits DEF TypeOK
<1>7. \A d \in Coros : (pc'[d] = "completing") <=> (pc[d] = "completing")
  BY <1>1 DEF TypeOK
<1> HIDE DEF x
<1>8. Waits' = Waits \cup {[c |-> c, t |-> x]}
  <2>1. \A d \in Coros : (myId'[d] \in awaiters') <=> (d = c \/ myId[d] \in awaiters)
    BY <1>1, <1>6
  <2> QED BY <1>6, <2>1 DEF View, WaitsById
<1>9. Owns' = Owns
  BY <1>1, <1>7, SameOwns DEF View
<1>10. Alloc!Enqueue(c, x)
  BY <1>1, <1>2, <1>3, <1>5, <1>8, <1>9, SameCount DEF Alloc!Enqueue, Alloc!Idle, View
<1> QED BY <1>2, <1>10 DEF ASteps, Alloc!Next

-----------------------------------------------------------------------------
\* recycle() with no live slot: nobody waits for the resource.
LEMMA PuttingBackFrees ==
  ASSUME SafeInv, View, View', NEW c \in Coros, RecycleUnused(c)
  PROVE  ASteps
<1> USE DEF SafeInv, TypeInv
<1>1. /\ pc[c] = "idle" /\ held[c] # NoRes /\ held' = [held EXCEPT ![c] = NoRes]
      /\ UNCHANGED <<next, rh, pc, myId, awaiters, cap>>
  BY DEF RecycleUnused
<1>2. awaiters = {}
  BY ClearedLinks
<1>3. Waits = {} /\ Waits' = Waits
  BY <1>1, <1>2, SameWaits DEF View, WaitsById
<1>4. /\ \A d \in Coros : next[d] # c
      /\ rh[c] = NoRes /\ Owns[c] = held[c] /\ next[c] = NoCoro
  BY <1>1, IdleFacts DEF PoolInv, OwnInv, LinkInv, WaitInv
<1>5. /\ held'[c] = NoRes
      /\ \A d \in Coros \ {c} : held'[d] = held[d]
  BY <1>1 DEF TypeOK
<1>6. \A d \in Coros : Owns'[d] = IF d = c THEN NoRes ELSE Owns[d]
  <2> SUFFICES ASSUME NEW d \in Coros
               PROVE  Owns'[d] = IF d = c THEN NoRes ELSE Owns[d]
    OBVIOUS
  <2>1. CASE d = c
    BY <1>1, <1>4, <1>5, <2>1 DEF View, OwnsByState
  <2>2. CASE d # c /\ \E e \in Coros : next[e] = d
    <3>1. PICK e \in Coros : next[e] = d
      BY <2>2
    <3>2. e # c
      BY <1>4, <3>1, ConstAssumption
    <3> QED BY <1>1, <1>5, <2>2, <3>1, <3>2 DEF View, OwnsByState
  <2>3. CASE d # c /\ \A e \in Coros : next[e] # d
    BY <1>1, <1>5, <2>3 DEF View, OwnsByState
  <2> QED BY <2>1, <2>2, <2>3
<1>7. Owns' = [Owns EXCEPT ![c] = NoRes]
  BY <1>6 DEF View, OwnsByState
<1>8. Alloc!Free(c)
  BY <1>1, <1>3, <1>4, <1>7 DEF Alloc!Free
<1> QED BY <1>8 DEF ASteps, Alloc!Next

\* recycle() takes out the live slot nearest the front: the smallest ticket.
LEMMA FirstInLine ==
  ASSUME SafeInv, NEW k \in 0..Len(queue) - 1, LeadingNulls(k)
  PROVE  /\ queue[k + 1].w \in Coros /\ queue[k + 1].id \in awaiters
         /\ pc[queue[k + 1].w] = "waiting" /\ myId[queue[k + 1].w] = queue[k + 1].id
         /\ \A x \in awaiters : queue[k + 1].id <= x
<1> USE DEF SafeInv, TypeInv
<1>1. Len(queue) \in Nat /\ \A i \in 1..Len(queue) : queue[i] \in Slots
  BY LenProperties, ElementOfSeq DEF TypeOK
<1>2. k + 1 \in 1..Len(queue) /\ queue[k + 1].w # NoCoro
  BY <1>1 DEF LeadingNulls
<1>3. /\ queue[k + 1].w \in Coros /\ queue[k + 1].id \in awaiters
      /\ pc[queue[k + 1].w] = "waiting" /\ myId[queue[k + 1].w] = queue[k + 1].id
  BY <1>1, <1>2 DEF LinkInv, QueueInv, Slots
<1>4. ASSUME NEW x \in awaiters PROVE queue[k + 1].id <= x
  <2>1. PICK i \in 1..Len(queue) : queue[i].id = x
    BY DEF LinkInv, QueueInv
  <2>2. queue[i].w # NoCoro
    BY <2>1 DEF LinkInv, QueueInv
  <2>3. i >= k + 1
    BY <1>1, <2>2 DEF LeadingNulls
  <2>4. queue[k + 1].id \in Nat /\ x \in Nat
    BY <1>1, <1>2, <2>1 DEF Slots
  <2>5. CASE i = k + 1
    BY <2>1, <2>4, <2>5
  <2>6. CASE i > k + 1
    BY <1>2, <2>1, <2>4, <2>6 DEF LinkInv, QueueInv
  <2> QED BY <1>1, <2>3, <2>5, <2>6
<1> QED BY <1>3, <1>4

LEMMA TakingOutHandsOver ==
  ASSUME SafeInv, View, View', NEW c \in Coros, RecycleToWaiter(c)
  PROVE  ASteps
<1> USE DEF SafeInv, TypeInv
<1>1. PICK k \in 0..Len(queue) - 1 :
        /\ LeadingNulls(k)
        /\ next' = [next EXCEPT ![c] = queue[k + 1].w]
        /\ awaiters' = awaiters \ {queue[k + 1].id}
  BY DEF RecycleToWaiter
<1> DEFINE w == queue[k + 1].w
           e == [c |-> w, t |-> myId[w]]
<1>2. /\ pc[c] = "idle" /\ held[c] # NoRes /\ pc' = [pc EXCEPT ![c] = "completing"]
      /\ UNCHANGED <<rh, held, myId, cap>>
  BY DEF RecycleToWaiter, poolVars
<1>3. /\ w \in Coros /\ w # c /\ pc[w] = "waiting" /\ myId[w] \in awaiters
      /\ next' = [next EXCEPT ![c] = w] /\ awaiters' = awaiters \ {myId[w]}
      /\ \A x \in awaiters : myId[w] <= x
  BY <1>1, <1>2, FirstInLine
<1> HIDE DEF w
<1>4. e \in Waits /\ Waits' = Waits \ {e} /\ \A f \in Waits : e.t <= f.t
  <2>1. e \in Waits /\ Waits' = Waits \ {e}
    BY <1>2, <1>3, WaitsWithout
  <2>2. \A f \in Waits : f.t \in awaiters
    BY DEF View, WaitsById
  <2> QED BY <1>3, <2>1, <2>2
<1>5. /\ \A d \in Coros : next[d] # c /\ next[d] # w
      /\ next[c] = NoCoro /\ Owns[c] = held[c]
  <2>1. \A d \in Coros : next[d] # w
    BY <1>3, ConstAssumption DEF LinkInv, WaitInv
  <2> QED BY <1>2, <2>1, IdleFacts DEF PoolInv, OwnInv, LinkInv, WaitInv
<1>6. /\ pc'[c] = "completing" /\ next'[c] = w
      /\ \A d \in Coros \ {c} : pc'[d] = pc[d] /\ next'[d] = next[d]
  BY <1>2, <1>3 DEF TypeOK
<1>7. \A d \in Coros :
        Owns'[d] = IF d = c THEN NoRes ELSE IF d = w THEN Owns[c] ELSE Owns[d]
  <2> SUFFICES ASSUME NEW d \in Coros
               PROVE  Owns'[d] = IF d = c THEN NoRes ELSE IF d = w THEN Owns[c] ELSE Owns[d]
    OBVIOUS
  <2>1. CASE d = c
    BY <1>3, <1>5, <1>6, <2>1 DEF View, OwnsByState
  <2>2. CASE d = w
    BY <1>2, <1>3, <1>5, <1>6, <2>2 DEF View, OwnsByState
  <2>3. CASE d # c /\ d # w /\ \E f \in Coros : next[f] = d
    <3>1. PICK f \in Coros : next[f] = d
      BY <2>3
    <3>2. f # c
      BY <1>5, <3>1, ConstAssumption
    <3> QED BY <1>2, <1>6, <2>3, <3>1, <3>2 DEF View, OwnsByState
  <2>4. CASE d # c /\ d # w /\ \A f \in Coros : next[f] # d
    BY <1>2, <1>6, <2>4 DEF View, OwnsByState
  <2> QED BY <2>1, <2>2, <2>3, <2>4
<1>8. Owns' = [Owns EXCEPT ![c] = NoRes, ![e.c] = Owns[c]]
  BY <1>3, <1>7 DEF View, OwnsByState
<1>9. Alloc!HandOver(c, e)
  BY <1>2, <1>4, <1>5, <1>8 DEF Alloc!HandOver
<1> QED BY <1>4, <1>9 DEF ASteps, Alloc!Next

-----------------------------------------------------------------------------
\* Every step of the pool is a step of the allocator or stutters.
LEMMA StepSimulation ==
  ASSUME SafeInv, View, View', [Next]_vars PROVE ASteps
<1> USE DEF SafeInv, TypeInv, ECs
<1>1. ASSUME NEW c \in Coros,
             \/ CallAcquire(c) \/ DropAwaiter(c) \/ SuspendAborted(c)
             \/ SuspendThrows(c) \/ ArmTimer(c) \/ RegisterStop(c) \/ OwnStop(c)
             \/ RequestStop(c) \/ DestroyAwaiter(c)
      PROVE  ASteps
  <2>1. UNCHANGED <<next, rh, held, myId, awaiters, cap>>
    BY <1>1 DEF CallAcquire, DropAwaiter, SuspendAborted, SuspendThrows, ArmTimer,
      RegisterStop, OwnStop, RequestStop, DestroyAwaiter, poolVars, queueVars
  <2>2. \/ pc' = pc
        \/ pc[c] # "completing" /\ \E s \in PCs \ {"completing"} : pc' = [pc EXCEPT ![c] = s]
    BY <1>1 DEF CallAcquire, DropAwaiter, SuspendAborted, SuspendThrows, ArmTimer,
      RegisterStop, OwnStop, RequestStop, DestroyAwaiter, MayAcquire, Resumed, PCs
  <2>3. \A d \in Coros : (pc'[d] = "completing") <=> (pc[d] = "completing")
    BY <2>2 DEF TypeOK
  <2> QED BY <2>1, <2>3, Quiet
<1>2. ASSUME NEW c \in Coros, SuspendAcquired(c) PROVE ASteps
  <2>1. PICK r \in Res : Take(r) /\ held' = [held EXCEPT ![c] = r]
    BY <1>2 DEF SuspendAcquired
  <2>2. /\ pc[c] = "acquiring" /\ pc' = [pc EXCEPT ![c] = "leaving"]
        /\ UNCHANGED <<next, rh, myId, awaiters>>
    BY <1>2 DEF SuspendAcquired, MayAcquire, Resumed, queueVars
  <2>3. held[c] = NoRes
    BY <2>2 DEF PoolInv, OwnInv
  <2>4. \A d \in Coros : (pc'[d] = "completing") <=> (pc[d] = "completing")
    BY <2>2 DEF TypeOK
  <2> QED BY <2>1, <2>2, <2>3, <2>4, TakingGrants
<1>3. ASSUME NEW c \in Coros, TryAcquire(c) PROVE ASteps
  <2>1. PICK r \in Res : Take(r) /\ held' = [held EXCEPT ![c] = r]
    BY <1>3 DEF TryAcquire
  <2>2. pc[c] = "idle" /\ held[c] = NoRes /\ UNCHANGED <<next, rh, myId, awaiters, pc>>
    BY <1>3 DEF TryAcquire, queueVars
  <2> QED BY <2>1, <2>2, TakingGrants
<1>4. ASSUME NEW c \in Coros, SuspendQueued(c) PROVE ASteps
  BY <1>4, QueueingEnqueues
<1>5. ASSUME NEW c \in Coros, RegisterStopLate(c) \/ StopCallback(c) PROVE ASteps
  <2>1. UNCHANGED <<next, rh, held, myId, cap>>
    BY <1>5 DEF RegisterStopLate, StopCallback, poolVars
  <2>2. CASE myId[c] \in awaiters
    BY <1>5, <2>1, <2>2, RemovalGivesUp DEF RegisterStopLate, StopCallback
  <2>3. CASE myId[c] \notin awaiters
    <3>1. UNCHANGED <<pc, awaiters>>
      BY <1>5, <2>3 DEF RegisterStopLate, StopCallback, queueVars
    <3> QED BY <2>1, <3>1, Quiet
  <2> QED BY <2>2, <2>3
<1>6. ASSUME NEW t \in timers, TimerHandler(t) PROVE ASteps
  <2>1. UNCHANGED <<next, rh, held, myId, cap>>
    BY <1>6 DEF TimerHandler, poolVars
  <2>2. CASE t.id \in awaiters
    <3>1. t.c \in Coros /\ myId[t.c] = t.id
      BY <2>2, WhoWaits DEF TypeOK, Timers
    <3>2. Unlink(t.id) /\ Resumed(t.c, "timeout")
      BY <1>6, <2>2 DEF TimerHandler
    <3> QED BY <2>1, <2>2, <3>1, <3>2, RemovalGivesUp
  <2>3. CASE t.id \notin awaiters
    <3>1. UNCHANGED <<pc, awaiters>>
      BY <1>6, <2>3 DEF TimerHandler, queueVars
    <3> QED BY <2>1, <3>1, Quiet
  <2> QED BY <2>2, <2>3
<1>7. ASSUME NEW t \in timers, TimerExpire(t) PROVE ASteps
  <2>1. UNCHANGED <<next, rh, held, myId, awaiters, cap, pc>>
    BY <1>7 DEF TimerExpire, poolVars, queueVars
  <2> QED BY <2>1, Quiet
<1>8. ASSUME NEW c \in Coros, ResumeHanded(c) PROVE ASteps
  BY <1>8, PickUpStutters
<1>9. ASSUME NEW c \in Coros, RecycleUnused(c) PROVE ASteps
  BY <1>9, PuttingBackFrees
<1>10. ASSUME NEW c \in Coros, RecycleToWaiter(c) PROVE ASteps
  BY <1>10, TakingOutHandsOver
<1>11. ASSUME NEW c \in Coros, Complete(c) PROVE ASteps
  BY <1>11, CompleteStutters
<1>12. ASSUME NEW n \in 1..MaxCap, Reserve(n) PROVE ASteps
  <2>1. /\ UNCHANGED <<next, rh, held, myId, awaiters, pc>>
        /\ cap' = n /\ n > Cardinality(inuse) + Len(unused)
    BY <1>12 DEF Reserve, Occupied, queueVars
  <2>2. n > Cardinality(inuse)
    BY <2>1, FiniteInUse
  <2>3. Owns' = Owns /\ Waits' = Waits
    BY <2>1, SameOwns, SameWaits DEF View
  <2>4. Alloc!SetLimit(n)
    BY <2>1, <2>2, <2>3, SameCount DEF Alloc!SetLimit, View
  <2> QED BY <2>4 DEF ASteps, Alloc!Next
<1>13. CASE CreateAll \/ ClearUnused
  <2>1. UNCHANGED <<next, rh, held, myId, awaiters, cap, pc>>
    BY <1>13 DEF CreateAll, ClearUnused, queueVars
  <2> QED BY <2>1, Quiet
<1>14. CASE UNCHANGED vars
  BY <1>14, Quiet DEF vars
<1> QED
  BY <1>1, <1>2, <1>3, <1>4, <1>5, <1>6, <1>7, <1>8, <1>9, <1>10, <1>11,
     <1>12, <1>13, <1>14
  DEF Next, CoroStep, TimerStep, PoolStep, Undefined

\* A new pool is a new allocator.
LEMMA InitSimulation == Init => Alloc!Init
<1> SUFFICES ASSUME Init PROVE Alloc!Init
  OBVIOUS
<1>1. SafeInv
  BY TypeInit, LinkInit, PoolInit DEF SafeInv
<1>2. Waits = {}
  BY <1>1, WaitsFacts DEF Init, WaitsById
<1>3. Owns = [c \in Coros |-> NoRes]
  BY <1>1, OwnsFacts, ConstAssumption DEF Init, OwnsByState
<1> QED BY <1>2, <1>3 DEF Init, Alloc!Init

\* The pool implements the first-come-first-served exclusive allocator: whatever
\* the mutex, the timers, the stop requests and the threads do, a resource has
\* one owner, the limit is kept, a coroutine queues only at the limit, and a
\* resource given back goes to the one who has waited longest.
THEOREM Implements == Spec => ImplementsAllocator
<1>1. SafeInv /\ SafeInv' /\ [Next]_vars => [Alloc!Next]_(Alloc!avars)
  <2>1. SafeInv' => View'
    BY ViewFacts, PTL
  <2> QED BY <2>1, ViewFacts, StepSimulation DEF ASteps
<1> QED BY SafeAlways, InitSimulation, <1>1, PTL
        DEF Spec, ImplementsAllocator, Alloc!Spec

=============================================================================
