------------------------------- MODULE ResPool -------------------------------
(***************************************************************************)
(* res_pool<T> (include/jkl/res_pool.hpp): a pool of at most cap resources *)
(* shared by coroutines.  acquire() returns an awaiter that OWNS the pool  *)
(* mutex until it is awaited or dropped; a coroutine that finds no         *)
(* resource waits in a deque until a resource is recycled to it, its timer *)
(* expires or its stop token is signalled.                                 *)
(*                                                                         *)
(* Each action is one critical section, or one stretch of code between two *)
(* of them.  The part of await_suspend after its critical section (arming  *)
(* the timer, registering the stop callback) runs unlocked: susp[c] says   *)
(* how far the suspending thread is in it.  When the awaiter is destroyed  *)
(* before that thread is through, it goes on with a dangling this: the     *)
(* flag dangling is set and nothing is claimed of what follows.            *)
(***************************************************************************)
EXTENDS Integers, Sequences, FiniteSets

CONSTANTS
  Coros,        \* the coroutines that use the pool
  Timed,        \* those that pass an expiry duration to acquire()
  Stoppable,    \* those that pass p_enable_stop
  Res,          \* identities of resources
  NoRes,        \* an invalid res_holder
  NoCoro,       \* a null awaiter pointer, or nobody owning the mutex
  MultiThread,  \* handlers and stop requests may run beside await_suspend
  InitCap,      \* capacity given to the constructor
  MaxCap,       \* bound on the argument of reserve()
  MaxId         \* bound on _idSeq

ASSUME ConstAssumption ==
  /\ Timed \subseteq Coros /\ Stoppable \subseteq Coros
  /\ NoRes \notin Res /\ NoCoro \notin Coros
  /\ MultiThread \in BOOLEAN
  /\ InitCap \in Nat \ {0} /\ MaxCap \in Nat /\ InitCap <= MaxCap
  /\ MaxId \in Nat
  /\ IsFiniteSet(Res) /\ Cardinality(Res) >= MaxCap

VARIABLES
  mut,       \* the coroutine whose awaiter owns _mut, or NoCoro
  cap,       \* _cap
  inuse,     \* _inuse
  unused,    \* _unused, taken from and returned to at the front
  queue,     \* _awaiterQueue: [id, w], w = NoCoro once removed
  awaiters,  \* _awaiters: the ids of the awaiters that still wait
  idSeq,     \* _idSeq
  pc,        \* where each coroutine is
  myId,      \* _id of the coroutine's awaiter
  rh,        \* _rh of the coroutine's awaiter
  held,      \* the res_holder the coroutine itself has
  ec,        \* _ec of the coroutine's awaiter, or of the last one
  next,      \* the awaiter a recycling coroutine is about to complete
  susp,      \* the unlocked part of await_suspend still to run
  timers,    \* timers and queued timer handlers: [c, id, st]
  stopReq,   \* stop requested on the coroutine's stop source
  stopCb,    \* _stopCb of the coroutine's awaiter
  dangling   \* a destroyed awaiter is about to be used

vars == <<mut, cap, inuse, unused, queue, awaiters, idSeq, pc, myId, rh, held,
          ec, next, susp, timers, stopReq, stopCb, dangling>>

poolVars  == <<cap, inuse, unused>>
queueVars == <<queue, awaiters, idSeq>>
stopVars  == <<stopReq, stopCb>>

PCs      == {"idle", "acquiring", "waiting", "handed", "leaving", "completing"}
ECs      == {"none", "ok", "timeout", "aborted", "threw"}
SuspPCs  == {"none", "arm", "reg", "own"}
CbStates == {"none", "registered", "running"}

Slots  == [id : 1..MaxId, w : Coros \cup {NoCoro}]
Timers == [c : Coros, id : 1..MaxId, st : {"armed", "expired"}]

-----------------------------------------------------------------------------
Init ==
  /\ mut = NoCoro
  /\ cap = InitCap
  /\ inuse = {} /\ unused = <<>>
  /\ queue = <<>> /\ awaiters = {} /\ idSeq = 0
  /\ pc = [c \in Coros |-> "idle"]
  /\ myId = [c \in Coros |-> 0]
  /\ rh = [c \in Coros |-> NoRes]
  /\ held = [c \in Coros |-> NoRes]
  /\ ec = [c \in Coros |-> "none"]
  /\ next = [c \in Coros |-> NoCoro]
  /\ susp = [c \in Coros |-> "none"]
  /\ timers = {}
  /\ stopReq = [c \in Coros |-> FALSE]
  /\ stopCb = [c \in Coros |-> "none"]
  /\ dangling = FALSE

\* With one thread, no handler runs while a coroutine is inside await_suspend.
ThreadFree == MultiThread \/ \A c \in Coros : susp[c] = "none"

Occupied == Cardinality(inuse) + Len(unused)

\* try_acquire(): the front of _unused, else a new resource if the capacity
\* allows one.  _creator runs under the lock.
Available == unused # <<>> \/ Cardinality(inuse) < cap

Take(r) ==
  /\ \/ /\ unused # <<>>
        /\ r = Head(unused)
        /\ unused' = Tail(unused)
     \/ /\ unused = <<>> /\ Cardinality(inuse) < cap
        /\ r \in Res \ inuse
        /\ UNCHANGED unused
  /\ inuse' = inuse \cup {r}
  /\ UNCHANGED cap

\* Mutant: the slot is left pointing to the removed awaiter.
UnlinkKeepSlot(id) ==
  /\ awaiters' = awaiters \ {id}
  /\ UNCHANGED <<queue, idSeq>>

\* remove_awaiter(id): the slot stays in the deque as a null pointer.
Unlink(id) ==
  /\ awaiters' = awaiters \ {id}
  /\ queue' = [i \in 1..Len(queue) |->
                 IF queue[i].id = id THEN [queue[i] EXCEPT !.w = NoCoro]
                                     ELSE queue[i]]
  /\ UNCHANGED idSeq

\* await_resume() hands the awaiter's holder to the coroutine.
Resumed(c, code) ==
  /\ pc' = [pc EXCEPT ![c] = "leaving"]
  /\ ec' = [ec EXCEPT ![c] = code]

Cancel(c) == timers' = {t \in timers : ~(t.c = c /\ t.st = "armed")}

-----------------------------------------------------------------------------
\* acquire(): construct an awaiter that owns the mutex.
CallAcquire(c) ==
  /\ pc[c] = "idle" /\ held[c] = NoRes
  /\ idSeq < MaxId
  /\ mut = NoCoro
  /\ mut' = c
  /\ pc' = [pc EXCEPT ![c] = "acquiring"]
  /\ UNCHANGED <<poolVars, queueVars, myId, rh, held, ec, next, susp, timers,
                 stopVars, dangling>>

\* The awaiter is destroyed without being awaited.
DropAwaiter(c) ==
  /\ pc[c] = "acquiring"
  /\ mut' = NoCoro
  /\ pc' = [pc EXCEPT ![c] = "idle"]
  /\ UNCHANGED <<poolVars, queueVars, myId, rh, held, ec, next, susp, timers,
                 stopVars, dangling>>

\* await_suspend(): a stop was requested already.
SuspendAborted(c) ==
  /\ pc[c] = "acquiring"
  /\ c \in Stoppable /\ stopReq[c]
  /\ mut' = NoCoro
  /\ Resumed(c, "aborted")
  /\ UNCHANGED <<poolVars, queueVars, myId, rh, held, next, susp, timers,
                 stopVars, dangling>>

\* Mutant: await_suspend() does not look at the stop token.
MayAcquireNoStopCheck(c) == pc[c] = "acquiring"

MayAcquire(c) == pc[c] = "acquiring" /\ ~(c \in Stoppable /\ stopReq[c])

\* await_suspend(): a resource is there, the coroutine is not suspended.
SuspendAcquired(c) ==
  /\ MayAcquire(c)
  /\ mut' = NoCoro
  /\ \E r \in Res : Take(r) /\ held' = [held EXCEPT ![c] = r]
  /\ Resumed(c, "ok")
  /\ UNCHANGED <<queueVars, myId, rh, next, susp, timers, stopVars, dangling>>

\* await_suspend(): _creator throws, the lock is released by unwinding.
SuspendThrows(c) ==
  /\ MayAcquire(c)
  /\ unused = <<>> /\ Cardinality(inuse) < cap
  /\ mut' = NoCoro
  /\ Resumed(c, "threw")
  /\ UNCHANGED <<poolVars, queueVars, myId, rh, held, next, susp, timers,
                 stopVars, dangling>>

\* await_suspend(): no resource, the awaiter is queued and the mutex released.
SuspendQueued(c) ==
  /\ MayAcquire(c)
  /\ ~Available
  /\ mut' = NoCoro
  /\ idSeq' = idSeq + 1
  /\ queue' = Append(queue, [id |-> idSeq + 1, w |-> c])
  /\ awaiters' = awaiters \cup {idSeq + 1}
  /\ myId' = [myId EXCEPT ![c] = idSeq + 1]
  /\ pc' = [pc EXCEPT ![c] = "waiting"]
  /\ ec' = [ec EXCEPT ![c] = "none"]
  /\ susp' = [susp EXCEPT ![c] = CASE c \in Timed -> "arm"
                                   [] c \in Stoppable \ Timed -> "reg"
                                   [] OTHER -> "none"]
  /\ UNCHANGED <<poolVars, rh, held, next, timers, stopVars, dangling>>

\* await_suspend(), unlocked: _timer.async_wait(...).
ArmTimer(c) ==
  /\ susp[c] = "arm"
  /\ timers' = timers \cup {[c |-> c, id |-> myId[c], st |-> "armed"]}
  /\ susp' = [susp EXCEPT ![c] = IF c \in Stoppable THEN "reg" ELSE "none"]
  /\ UNCHANGED <<mut, poolVars, queueVars, pc, myId, rh, held, ec, next,
                 stopVars, dangling>>

\* await_suspend(), unlocked: _stopCb.emplace(token, callback).
RegisterStop(c) ==
  /\ susp[c] = "reg" /\ ~stopReq[c]
  /\ stopCb' = [stopCb EXCEPT ![c] = "registered"]
  /\ susp' = [susp EXCEPT ![c] = "own"]
  /\ UNCHANGED <<mut, poolVars, queueVars, pc, myId, rh, held, ec, next,
                 timers, stopReq, dangling>>

\* optional_stop_callback::emplace(): the unique_ptr takes the callback, which
\* may be running already.
OwnStop(c) ==
  /\ susp[c] = "own"
  /\ susp' = [susp EXCEPT ![c] = "none"]
  /\ UNCHANGED <<mut, poolVars, queueVars, pc, myId, rh, held, ec, next, timers,
                 stopVars, dangling>>

\* The stop came in between: the callback runs inside its own constructor.  If
\* it removes the awaiter it resumes the coroutine, which destroys the
\* optional_stop_callback that is still being constructed.
RegisterStopLate(c) ==
  /\ susp[c] = "reg" /\ stopReq[c]
  /\ mut = NoCoro
  /\ susp' = [susp EXCEPT ![c] = "none"]
  /\ \/ /\ myId[c] \in awaiters
        /\ Unlink(myId[c])
        /\ Cancel(c)
        /\ Resumed(c, "aborted")
        /\ dangling' = TRUE
     \/ /\ myId[c] \notin awaiters
        /\ UNCHANGED <<queueVars, timers, pc, ec, dangling>>
  /\ UNCHANGED <<mut, poolVars, myId, rh, held, next, stopVars>>

-----------------------------------------------------------------------------
\* The clock reaches the expiry: the handler is queued with a success code.
TimerExpire(t) ==
  /\ t.st = "armed"
  /\ timers' = (timers \ {t}) \cup {[t EXCEPT !.st = "expired"]}
  /\ UNCHANGED <<mut, poolVars, queueVars, pc, myId, rh, held, ec, next, susp,
                 stopVars, dangling>>

\* Mutant: the handler asks for this->_id, not for the id it captured.
TimerHandlerThisId(t) ==
  /\ t.st = "expired" /\ ThreadFree
  /\ mut = NoCoro
  /\ timers' = timers \ {t}
  /\ \/ /\ myId[t.c] \in awaiters
        /\ Unlink(myId[t.c])
        /\ Resumed(t.c, "timeout")
     \/ /\ myId[t.c] \notin awaiters
        /\ UNCHANGED <<queueVars, pc, ec>>
  /\ UNCHANGED <<mut, poolVars, myId, rh, held, next, susp, stopVars, dangling>>

\* The handler of _timer.async_wait, with the pool and the id it captured.
TimerHandler(t) ==
  /\ t.st = "expired" /\ ThreadFree
  /\ mut = NoCoro
  /\ timers' = timers \ {t}
  /\ \/ /\ t.id \in awaiters
        /\ Unlink(t.id)
        /\ Resumed(t.c, "timeout")
     \/ /\ t.id \notin awaiters
        /\ UNCHANGED <<queueVars, pc, ec>>
  /\ UNCHANGED <<mut, poolVars, myId, rh, held, next, susp, stopVars, dangling>>

\* request_stop() on the coroutine's stop source starts a registered callback.
RequestStop(c) ==
  /\ c \in Stoppable /\ ~stopReq[c] /\ ThreadFree
  /\ stopReq' = [stopReq EXCEPT ![c] = TRUE]
  /\ stopCb' = [stopCb EXCEPT ![c] = IF @ = "registered" THEN "running" ELSE @]
  /\ UNCHANGED <<mut, poolVars, queueVars, pc, myId, rh, held, ec, next, susp,
                 timers, dangling>>

\* The stop callback.  When it resumes the coroutine the callback object is
\* destroyed on this very thread, which does not wait for it.
StopCallback(c) ==
  /\ stopCb[c] = "running"
  /\ mut = NoCoro
  /\ stopCb' = [stopCb EXCEPT ![c] = "none"]
  /\ \/ /\ myId[c] \in awaiters
        /\ Unlink(myId[c])
        /\ Cancel(c)
        /\ Resumed(c, "aborted")
     \/ /\ myId[c] \notin awaiters
        /\ UNCHANGED <<queueVars, timers, pc, ec>>
  /\ UNCHANGED <<mut, poolVars, myId, rh, held, next, susp, stopReq, dangling>>

\* The posted handler of complete() resumes the coroutine.
ResumeHanded(c) ==
  /\ pc[c] = "handed" /\ ThreadFree
  /\ Resumed(c, "ok")
  /\ held' = [held EXCEPT ![c] = rh[c]]
  /\ rh' = [rh EXCEPT ![c] = NoRes]
  /\ UNCHANGED <<mut, poolVars, queueVars, myId, next, susp, timers, stopVars,
                 dangling>>

\* ~awaiter() at the end of the co_await expression: ~_stopCb, once emplace()
\* has stored it, waits while the callback runs on another thread; ~_timer
\* cancels a timer not yet expired.
DestroyAwaiter(c) ==
  /\ pc[c] = "leaving"
  /\ stopCb[c] # "running" \/ susp[c] = "own"
  /\ pc' = [pc EXCEPT ![c] = "idle"]
  /\ stopCb' = [stopCb EXCEPT ![c] = "none"]
  /\ Cancel(c)
  /\ dangling' = (susp[c] # "none")
  /\ UNCHANGED <<mut, poolVars, queueVars, myId, rh, held, ec, next, susp,
                 stopReq>>

-----------------------------------------------------------------------------
\* try_acquire() as a call of its own.
TryAcquire(c) ==
  /\ pc[c] = "idle" /\ held[c] = NoRes
  /\ mut = NoCoro
  /\ \E r \in Res : Take(r) /\ held' = [held EXCEPT ![c] = r]
  /\ UNCHANGED <<mut, queueVars, pc, myId, rh, ec, next, susp, timers, stopVars,
                 dangling>>

\* The number of null slots recycle() pops from the front of the deque.
LeadingNulls(k) ==
  /\ k \in 0..Len(queue)
  /\ \A j \in 1..k : queue[j].w = NoCoro
  /\ k < Len(queue) => queue[k + 1].w # NoCoro

\* Mutant: the null slots are looked through but not popped.
RecycleUnusedKeepNulls(c) ==
  /\ pc[c] = "idle" /\ held[c] # NoRes
  /\ mut = NoCoro
  /\ LeadingNulls(Len(queue))
  /\ inuse' = inuse \ {held[c]}
  /\ unused' = <<held[c]>> \o unused
  /\ held' = [held EXCEPT ![c] = NoRes]
  /\ UNCHANGED <<mut, cap, queueVars, pc, myId, rh, ec, next, susp, timers,
                 stopVars, dangling>>

\* recycle(), nobody waits: the resource goes back to the front of _unused.
RecycleUnused(c) ==
  /\ pc[c] = "idle" /\ held[c] # NoRes
  /\ mut = NoCoro
  /\ LeadingNulls(Len(queue))
  /\ queue' = <<>>
  /\ inuse' = inuse \ {held[c]}
  /\ unused' = <<held[c]>> \o unused
  /\ held' = [held EXCEPT ![c] = NoRes]
  /\ UNCHANGED <<mut, cap, awaiters, idSeq, pc, myId, rh, ec, next, susp,
                 timers, stopVars, dangling>>

\* Mutant: the id of the awaiter taken out is not erased.
RecycleToWaiterKeepId(c) ==
  /\ pc[c] = "idle" /\ held[c] # NoRes
  /\ mut = NoCoro
  /\ \E k \in 0..Len(queue) - 1 :
       /\ LeadingNulls(k)
       /\ next' = [next EXCEPT ![c] = queue[k + 1].w]
       /\ queue' = SubSeq(queue, k + 2, Len(queue))
  /\ pc' = [pc EXCEPT ![c] = "completing"]
  /\ UNCHANGED <<mut, poolVars, awaiters, idSeq, myId, rh, held, ec, susp,
                 timers, stopVars, dangling>>

\* Mutant: the awaiter at the back of the deque is served.
RecycleToLast(c) ==
  /\ pc[c] = "idle" /\ held[c] # NoRes
  /\ mut = NoCoro
  /\ queue # <<>> /\ queue[Len(queue)].w # NoCoro
  /\ next' = [next EXCEPT ![c] = queue[Len(queue)].w]
  /\ awaiters' = awaiters \ {queue[Len(queue)].id}
  /\ queue' = SubSeq(queue, 1, Len(queue) - 1)
  /\ pc' = [pc EXCEPT ![c] = "completing"]
  /\ UNCHANGED <<mut, poolVars, idSeq, myId, rh, held, ec, susp, timers,
                 stopVars, dangling>>

\* recycle(), locked part: the first awaiter still waiting is taken out.
RecycleToWaiter(c) ==
  /\ pc[c] = "idle" /\ held[c] # NoRes
  /\ mut = NoCoro
  /\ \E k \in 0..Len(queue) - 1 :
       /\ LeadingNulls(k)
       /\ next' = [next EXCEPT ![c] = queue[k + 1].w]
       /\ awaiters' = awaiters \ {queue[k + 1].id}
       /\ queue' = SubSeq(queue, k + 2, Len(queue))
  /\ pc' = [pc EXCEPT ![c] = "completing"]
  /\ UNCHANGED <<mut, poolVars, idSeq, myId, rh, held, ec, susp, timers,
                 stopVars, dangling>>

\* Mutant: the recycled holder is not invalidated.
CompleteKeepHolder(c) ==
  /\ pc[c] = "completing"
  /\ rh' = [rh EXCEPT ![next[c]] = held[c]]
  /\ pc' = [pc EXCEPT ![c] = "idle", ![next[c]] = "handed"]
  /\ next' = [next EXCEPT ![c] = NoCoro]
  /\ UNCHANGED <<mut, poolVars, queueVars, myId, held, ec, susp, timers,
                 stopVars, dangling>>

\* Mutant: the resource is stored but no resumption is posted.
CompleteNoPost(c) ==
  /\ pc[c] = "completing"
  /\ rh' = [rh EXCEPT ![next[c]] = held[c]]
  /\ held' = [held EXCEPT ![c] = NoRes]
  /\ pc' = [pc EXCEPT ![c] = "idle"]
  /\ next' = [next EXCEPT ![c] = NoCoro]
  /\ UNCHANGED <<mut, poolVars, queueVars, myId, ec, susp, timers, stopVars,
                 dangling>>

\* recycle(), unlocked: w->complete(it) stores the resource and posts resume.
Complete(c) ==
  /\ pc[c] = "completing"
  /\ rh' = [rh EXCEPT ![next[c]] = held[c]]
  /\ held' = [held EXCEPT ![c] = NoRes]
  /\ pc' = [pc EXCEPT ![c] = "idle", ![next[c]] = "handed"]
  /\ next' = [next EXCEPT ![c] = NoCoro]
  /\ UNCHANGED <<mut, poolVars, queueVars, myId, ec, susp, timers, stopVars,
                 dangling>>

\* reserve(n), and reserve_by() with n = floor(cap * ratio).
Reserve(n) ==
  /\ mut = NoCoro
  /\ n > Occupied
  /\ cap' = n
  /\ UNCHANGED <<mut, inuse, unused, queueVars, pc, myId, rh, held, ec, next,
                 susp, timers, stopVars, dangling>>

\* create_all(): _creator runs once for each missing resource; if it throws,
\* the ones created so far stay.
CreateAll ==
  /\ mut = NoCoro
  /\ \E s \in UNION {[1..k -> Res \ (inuse \cup {unused[i] : i \in DOMAIN unused})] :
                       k \in 1..(cap - Occupied)} :
       /\ \A i, j \in DOMAIN s : s[i] = s[j] => i = j
       /\ unused' = s \o unused
  /\ UNCHANGED <<mut, cap, inuse, queueVars, pc, myId, rh, held, ec, next,
                 susp, timers, stopVars, dangling>>

ClearUnused ==
  /\ mut = NoCoro
  /\ unused # <<>>
  /\ unused' = <<>>
  /\ UNCHANGED <<mut, cap, inuse, queueVars, pc, myId, rh, held, ec, next,
                 susp, timers, stopVars, dangling>>

\* After a use of a destroyed awaiter nothing more is claimed.
Undefined == dangling /\ UNCHANGED vars

-----------------------------------------------------------------------------
CoroStep(c) ==
  \/ CallAcquire(c) \/ DropAwaiter(c)
  \/ SuspendAborted(c) \/ SuspendAcquired(c) \/ SuspendThrows(c)
  \/ SuspendQueued(c) \/ ArmTimer(c) \/ RegisterStop(c) \/ RegisterStopLate(c)
  \/ OwnStop(c)
  \/ RequestStop(c) \/ StopCallback(c)
  \/ ResumeHanded(c) \/ DestroyAwaiter(c)
  \/ TryAcquire(c) \/ RecycleUnused(c) \/ RecycleToWaiter(c) \/ Complete(c)

TimerStep == \E t \in timers : TimerExpire(t) \/ TimerHandler(t)

PoolStep == (\E n \in 1..MaxCap : Reserve(n)) \/ CreateAll \/ ClearUnused

Next ==
  \/ /\ ~dangling
     /\ (\E c \in Coros : CoroStep(c)) \/ TimerStep \/ PoolStep
  \/ Undefined

Spec == Init /\ [][Next]_vars

\* Fairness.  A thread inside await_suspend, a posted handler and a running
\* callback go on; a coroutine that owns the mutex awaits or drops the awaiter
\* (the NOTE at acquire()); a holder recycles in the end.  The last needs strong
\* fairness: the mutex may be taken by others again and again, but a thread that
\* blocks on it is let in eventually.
Fairness ==
  /\ \A c \in Coros :
       /\ WF_vars(~dangling /\ (\/ DropAwaiter(c) \/ SuspendAborted(c)
                                \/ SuspendAcquired(c) \/ SuspendQueued(c)))
       /\ WF_vars(~dangling /\ (\/ ArmTimer(c) \/ RegisterStop(c) \/ OwnStop(c)))
       /\ SF_vars(~dangling /\ RegisterStopLate(c))
       /\ SF_vars(~dangling /\ StopCallback(c))
       /\ WF_vars(~dangling /\ ResumeHanded(c))
       /\ WF_vars(~dangling /\ DestroyAwaiter(c))
       /\ SF_vars(~dangling /\ (RecycleUnused(c) \/ RecycleToWaiter(c)))
       /\ WF_vars(~dangling /\ Complete(c))

FairSpec == Spec /\ Fairness

-----------------------------------------------------------------------------
TypeOK ==
  /\ mut \in Coros \cup {NoCoro}
  /\ cap \in 1..MaxCap
  /\ inuse \in SUBSET Res
  /\ unused \in Seq(Res)
  /\ queue \in Seq(Slots)
  /\ awaiters \in SUBSET (1..MaxId)
  /\ idSeq \in 0..MaxId
  /\ pc \in [Coros -> PCs]
  /\ myId \in [Coros -> 0..MaxId]
  /\ rh \in [Coros -> Res \cup {NoRes}]
  /\ held \in [Coros -> Res \cup {NoRes}]
  /\ ec \in [Coros -> ECs]
  /\ next \in [Coros -> Coros \cup {NoCoro}]
  /\ susp \in [Coros -> SuspPCs]
  /\ timers \in SUBSET Timers
  /\ stopReq \in [Coros -> BOOLEAN]
  /\ stopCb \in [Coros -> CbStates]
  /\ dangling \in BOOLEAN

\* A resource is in _inuse exactly while one res_holder or one awaiter has it,
\* never two; a resource in _unused is not in use and is there once.
ExclusiveOwnership ==
  /\ inuse = {r \in Res : \E c \in Coros : held[c] = r \/ rh[c] = r}
  /\ \A c, d \in Coros :
       /\ held[c] # NoRes => held[c] # rh[d]
       /\ c # d /\ held[c] # NoRes => held[c] # held[d]
       /\ c # d /\ rh[c] # NoRes => rh[c] # rh[d]
  /\ \A i, j \in DOMAIN unused :
       /\ unused[i] \notin inuse
       /\ unused[i] = unused[j] => i = j

\* Whatever reserve(), create_all() and the coroutines do in between, no more
\* resources exist than the capacity allows (the assertion in create_all()).
Capacity == Occupied <= cap

\* The id set, the live slots of the deque and the waiting coroutines describe
\* the same waits, in the order of their ids.
WaiterAccounting ==
  /\ \A i, j \in DOMAIN queue : i < j => queue[i].id < queue[j].id
  /\ \A i \in DOMAIN queue :
       /\ queue[i].id <= idSeq
       /\ (queue[i].w # NoCoro) <=> (queue[i].id \in awaiters)
       /\ queue[i].w # NoCoro =>
            pc[queue[i].w] = "waiting" /\ myId[queue[i].w] = queue[i].id
  /\ \A id \in awaiters : \E i \in DOMAIN queue : queue[i].id = id
  /\ \A c \in Coros : pc[c] = "waiting" =>
       \/ myId[c] \in awaiters
       \/ \E d \in Coros : next[d] = c

\* The assertions of complete(): the awaiter taken out of the queue is still
\* suspended, has no error and no resource, and no handler can reach it.
CompleteAsserts ==
  \A c \in Coros : pc[c] = "completing" =>
    /\ held[c] # NoRes
    /\ next[c] \in Coros
    /\ pc[next[c]] = "waiting" /\ ec[next[c]] = "none" /\ rh[next[c]] = NoRes
    /\ myId[next[c]] \notin awaiters
    /\ \A d \in Coros : d # c => next[d] # next[c]

\* The assertion of ~res_pool(): once every coroutine is through and has given
\* back what it held, no resource is in use and no slot, null ones included, is
\* left in the deque.
DestructorAsserts ==
  (\A c \in Coros : pc[c] = "idle" /\ held[c] = NoRes) =>
    inuse = {} /\ queue = <<>> /\ awaiters = {}

\* The BOOST_ASSERTs of the pool, in complete(), await_suspend and ~res_pool().
PoolAsserts == CompleteAsserts /\ DestructorAsserts

\* No awaiter is destroyed while await_suspend still has members to touch.
NoDangling == ~dangling

\* A coroutine is told of a timeout only by the timer of that very wait: the
\* late handler of an earlier wait never ends a later one.
TimeoutOwnWait ==
  [][\A c \in Coros :
       (pc[c] = "waiting" /\ pc'[c] = "leaving" /\ ec'[c] = "timeout") =>
         \E t \in timers : t.c = c /\ t.id = myId[c] /\ t.st = "expired"]_vars

\* A resource given back while somebody waits goes to a waiter: the number in
\* use does not drop from a state with a live waiter.
HandOverNotIdle ==
  [][awaiters # {} => Cardinality(inuse') >= Cardinality(inuse)]_vars

\* A waiting coroutine is resumed in the end, timer and stop or not.
WaiterServed ==
  \A c \in Coros : (pc[c] = "waiting") ~> (pc[c] # "waiting" \/ dangling)

-----------------------------------------------------------------------------
\* Refinement: a resource belongs to the waiter from the moment recycle() took
\* the waiter out of the deque.
Owns == [c \in Coros |->
  CASE \E d \in Coros : next[d] = c -> held[CHOOSE d \in Coros : next[d] = c]
    [] pc[c] = "completing" -> NoRes
    [] rh[c] # NoRes -> rh[c]
    [] OTHER -> held[c]]

Waits == {[c |-> queue[i].w, t |-> queue[i].id] :
            i \in {j \in DOMAIN queue : queue[j].w # NoCoro}}

Alloc == INSTANCE Allocator WITH owns <- Owns, waits <- Waits, limit <- cap,
                                 Tickets <- 1..MaxId, Limits <- 1..MaxCap

\* The pool implements the first-come-first-served exclusive allocator.
ImplementsAllocator == Alloc!Spec
=============================================================================
