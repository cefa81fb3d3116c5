------------------------------ MODULE StopState ------------------------------
(***************************************************************************)
(* __stop_state, stop_source, stop_token and stop_callback                 *)
(* (include/jkl/std_stop_token.hpp): the shared state through which a stop *)
(* is requested, its spin lock, its reference counts and its callbacks.    *)
(*                                                                         *)
(* A thread runs at most one request_stop() (rs, with locals cur, more,    *)
(* removed) and at most one constructor or destructor of a callback (op),  *)
(* the latter also inside the callback that request_stop() is executing.   *)
(* Between two steps of a thread any other thread may run: a step is one   *)
(* atomic operation on the state word, or what is done under the lock.     *)
(***************************************************************************)
EXTENDS Integers, Sequences, FiniteSets

CONSTANTS
  Threads, NoThread,
  Cbs, NoCb,      \* stop_callback objects
  Sources, NoSrc, \* stop_source objects that share the state
  Tokens, NoTok,  \* stop_token objects that share the state
  SourceInc       \* __source_ref_increment, above every token count

ASSUME ConstAssumption ==
  /\ NoThread \notin Threads /\ NoCb \notin Cbs
  /\ NoSrc \notin Sources /\ NoTok \notin Tokens
  /\ IsFiniteSet(Cbs) /\ IsFiniteSet(Sources) /\ IsFiniteSet(Tokens)
  /\ SourceInc \in Nat
  /\ SourceInc > 4 * (Cardinality(Tokens) + Cardinality(Cbs) + 1) + 3

VARIABLES
  stop, locker, tok, src,   \* the state word: flags and reference counts
  list,                     \* __head_: the registered callbacks
  signaller,                \* __signallingThread_
  deleted,                  \* the state was deleted
  sources, tokens,          \* the live stop_source and stop_token objects
  cbst,                     \* life of each callback object
  reg,                      \* the callback's __state_ is set
  isRemoved,                \* the thread on whose stack *__isRemoved_ is
  finished,                 \* __callbackFinishedExecuting_
  rs, rsSrc, cur, more, removed,  \* request_stop() of each thread
  op, opCb, opTok,          \* constructor or destructor of each thread
  runs,                     \* how often each callback was executed
  badUse                    \* a freed state or callback was used

vars == <<stop, locker, tok, src, list, signaller, deleted, sources, tokens,
          cbst, reg, isRemoved, finished, rs, rsSrc, cur, more, removed, op,
          opCb, opTok, runs, badUse>>

word    == <<stop, locker, tok, src>>
handles == <<sources, tokens>>
cbVars  == <<cbst, reg, isRemoved, finished>>
rsVars  == <<rs, rsSrc, cur, more, removed>>
opVars  == <<op, opCb, opTok>>

Locked == locker # NoThread

\* The value of __state_, from which the last reference is recognised.
Word == (IF stop THEN 1 ELSE 0) + (IF Locked THEN 2 ELSE 0) + 4 * tok
        + SourceInc * src

Init ==
  /\ stop = FALSE /\ locker = NoThread
  /\ tok = 0 /\ src = 1
  /\ list = <<>> /\ signaller = NoThread /\ deleted = FALSE
  /\ \E s \in Sources : sources = {s}
  /\ tokens = {}
  /\ cbst = [b \in Cbs |-> "none"]
  /\ reg = [b \in Cbs |-> FALSE]
  /\ isRemoved = [b \in Cbs |-> NoThread]
  /\ finished = [b \in Cbs |-> FALSE]
  /\ rs = [t \in Threads |-> "none"]
  /\ rsSrc = [t \in Threads |-> NoSrc]
  /\ cur = [t \in Threads |-> NoCb]
  /\ more = [t \in Threads |-> FALSE]
  /\ removed = [t \in Threads |-> FALSE]
  /\ op = [t \in Threads |-> "none"]
  /\ opCb = [t \in Threads |-> NoCb]
  /\ opTok = [t \in Threads |-> NoTok]
  /\ runs = [b \in Cbs |-> 0]
  /\ badUse = FALSE

\* User code runs on t: outside the library, or in a callback.
UserCode(t) == op[t] = "none" /\ rs[t] \in {"none", "exec"}

\* __prev_ is not null.
Listed(b) == \E i \in DOMAIN list : list[i] = b

\* A constructor works with token k, or is moving it.
InUse(k)  == \E t \in Threads : opTok[t] = k
Moving(k) == \E t \in Threads : opTok[t] = k /\ op[t] \in {"pushMoved", "madeMoved"}

UseState  == badUse' = (badUse \/ deleted)
UseCb(b)  == badUse' = (badUse \/ cbst[b] = "dead")

-----------------------------------------------------------------------------
\* request_stop(): __try_lock_and_signal_until_signalled().
RequestStop(t, s) ==
  /\ UserCode(t) /\ rs[t] = "none"
  /\ s \in sources
  /\ UseState
  /\ \/ /\ stop     \* already requested: return false
        /\ UNCHANGED <<word, signaller, rs, rsSrc>>
     \/ /\ ~stop /\ ~Locked
        /\ stop' = TRUE /\ locker' = t
        /\ UNCHANGED <<tok, src>>
        /\ signaller' = t
        /\ rs' = [rs EXCEPT ![t] = "pop"]
        /\ rsSrc' = [rsSrc EXCEPT ![t] = s]
  /\ UNCHANGED <<list, deleted, handles, cbVars, cur, more, removed, opVars, runs>>

\* Mutant: the test for more callbacks is off by one.
PopMoreOffByOne(t) ==
  /\ rs[t] = "pop"
  /\ UseState
  /\ locker' = NoThread
  /\ \/ /\ list # <<>>
        /\ cur' = [cur EXCEPT ![t] = Head(list)]
        /\ more' = [more EXCEPT ![t] = Len(list) > 2]
        /\ list' = Tail(list)
        /\ rs' = [rs EXCEPT ![t] = "mark"]
        /\ UNCHANGED rsSrc
     \/ /\ list = <<>>
        /\ rs' = [rs EXCEPT ![t] = "none"]
        /\ rsSrc' = [rsSrc EXCEPT ![t] = NoSrc]
        /\ UNCHANGED <<cur, more, list>>
  /\ UNCHANGED <<stop, tok, src, signaller, deleted, handles, cbVars, removed,
                 opVars, runs>>

\* Under the lock: take the head off the list and unlock, or unlock and return.
Pop(t) ==
  /\ rs[t] = "pop"
  /\ UseState
  /\ locker' = NoThread
  /\ \/ /\ list # <<>>
        /\ cur' = [cur EXCEPT ![t] = Head(list)]
        /\ more' = [more EXCEPT ![t] = Tail(list) # <<>>]
        /\ list' = Tail(list)
        /\ rs' = [rs EXCEPT ![t] = "mark"]
        /\ UNCHANGED rsSrc
     \/ /\ list = <<>>
        /\ rs' = [rs EXCEPT ![t] = "none"]
        /\ rsSrc' = [rsSrc EXCEPT ![t] = NoSrc]
        /\ UNCHANGED <<cur, more, list>>
  /\ UNCHANGED <<stop, tok, src, signaller, deleted, handles, cbVars, removed,
                 opVars, runs>>

\* Unlocked: point __isRemoved_ at a local flag and execute the callback.
Mark(t) ==
  /\ rs[t] = "mark"
  /\ UseCb(cur[t])
  /\ isRemoved' = [isRemoved EXCEPT ![cur[t]] = t]
  /\ removed' = [removed EXCEPT ![t] = FALSE]
  /\ runs' = [runs EXCEPT ![cur[t]] = @ + 1]
  /\ rs' = [rs EXCEPT ![t] = "exec"]
  /\ UNCHANGED <<word, list, signaller, deleted, handles, cbst, reg, finished,
                 rsSrc, cur, more, opVars>>

\* The callback returns.
ExecReturn(t) ==
  /\ rs[t] = "exec" /\ op[t] = "none"
  /\ rs' = [rs EXCEPT ![t] = "after"]
  /\ UNCHANGED <<word, list, signaller, deleted, handles, cbVars, rsSrc, cur,
                 more, removed, opVars, runs, badUse>>

\* Mutant: the local flag is not looked at.
AfterIgnoreRemoved(t) ==
  /\ rs[t] = "after"
  /\ UseCb(cur[t])
  /\ isRemoved' = [isRemoved EXCEPT ![cur[t]] = NoThread]
  /\ finished' = [finished EXCEPT ![cur[t]] = TRUE]
  /\ cur' = [cur EXCEPT ![t] = NoCb]
  /\ \/ /\ more[t]
        /\ rs' = [rs EXCEPT ![t] = "relock"]
        /\ UNCHANGED rsSrc
     \/ /\ ~more[t]
        /\ rs' = [rs EXCEPT ![t] = "none"]
        /\ rsSrc' = [rsSrc EXCEPT ![t] = NoSrc]
  /\ UNCHANGED <<word, list, signaller, deleted, handles, cbst, reg, more,
                 removed, opVars, runs>>

\* Mutant: __callbackFinishedExecuting_ is not set.
AfterNoFinish(t) ==
  /\ rs[t] = "after"
  /\ \/ /\ ~removed[t]
        /\ UseCb(cur[t])
        /\ isRemoved' = [isRemoved EXCEPT ![cur[t]] = NoThread]
        /\ UNCHANGED finished
     \/ /\ removed[t]
        /\ UNCHANGED <<badUse, isRemoved, finished>>
  /\ cur' = [cur EXCEPT ![t] = NoCb]
  /\ \/ /\ more[t]
        /\ rs' = [rs EXCEPT ![t] = "relock"]
        /\ UNCHANGED rsSrc
     \/ /\ ~more[t]
        /\ rs' = [rs EXCEPT ![t] = "none"]
        /\ rsSrc' = [rsSrc EXCEPT ![t] = NoSrc]
  /\ UNCHANGED <<word, list, signaller, deleted, handles, cbst, reg, more,
                 removed, opVars, runs>>

\* Tell a waiting destructor that the callback is through, unless it was
\* destroyed by the callback itself; return, or go on with the list.
After(t) ==
  /\ rs[t] = "after"
  /\ \/ /\ ~removed[t]
        /\ UseCb(cur[t])
        /\ isRemoved' = [isRemoved EXCEPT ![cur[t]] = NoThread]
        /\ finished' = [finished EXCEPT ![cur[t]] = TRUE]
     \/ /\ removed[t]
        /\ UNCHANGED <<badUse, isRemoved, finished>>
  /\ cur' = [cur EXCEPT ![t] = NoCb]
  /\ \/ /\ more[t]
        /\ rs' = [rs EXCEPT ![t] = "relock"]
        /\ UNCHANGED rsSrc
     \/ /\ ~more[t]
        /\ rs' = [rs EXCEPT ![t] = "none"]
        /\ rsSrc' = [rsSrc EXCEPT ![t] = NoSrc]
  /\ UNCHANGED <<word, list, signaller, deleted, handles, cbst, reg, more,
                 removed, opVars, runs>>

Relock(t) ==
  /\ rs[t] = "relock"
  /\ UseState
  /\ ~Locked
  /\ locker' = t
  /\ rs' = [rs EXCEPT ![t] = "pop"]
  /\ UNCHANGED <<stop, tok, src, list, signaller, deleted, handles, cbVars,
                 rsSrc, cur, more, removed, opVars, runs>>

-----------------------------------------------------------------------------
\* Mutant: no return after the callback was executed in the constructor.
ConstructNoReturn(t, b, k, pushOp) ==
  /\ UserCode(t)
  /\ k \in tokens /\ ~Moving(k) /\ (pushOp = "pushMoved" => ~InUse(k))
  /\ cbst[b] = "none"
  /\ UseState
  /\ ~Locked
  /\ runs' = [runs EXCEPT ![b] = IF stop THEN @ + 1 ELSE @]
  /\ locker' = t
  /\ cbst' = [cbst EXCEPT ![b] = "making"]
  /\ op' = [op EXCEPT ![t] = pushOp]
  /\ opCb' = [opCb EXCEPT ![t] = b]
  /\ opTok' = [opTok EXCEPT ![t] = k]
  /\ UNCHANGED <<stop, tok, src, list, signaller, deleted, handles, reg,
                 isRemoved, finished, rsVars>>

\* stop_callback(token, f): __try_add_callback() up to the lock.  pushOp tells
\* a token that is copied ("push") from one that is moved ("pushMoved").
Construct(t, b, k, pushOp) ==
  /\ UserCode(t)
  /\ k \in tokens /\ ~Moving(k) /\ (pushOp = "pushMoved" => ~InUse(k))
  /\ cbst[b] = "none"
  /\ UseState
  /\ \/ /\ stop     \* execute in the constructor
        /\ runs' = [runs EXCEPT ![b] = @ + 1]
        /\ cbst' = [cbst EXCEPT ![b] = "live"]
        /\ UNCHANGED <<locker, opVars>>
     \/ /\ ~stop /\ src = 0     \* never to be requested
        /\ cbst' = [cbst EXCEPT ![b] = "live"]
        /\ UNCHANGED <<runs, locker, opVars>>
     \/ /\ ~stop /\ src > 0 /\ ~Locked
        /\ locker' = t
        /\ cbst' = [cbst EXCEPT ![b] = "making"]
        /\ op' = [op EXCEPT ![t] = pushOp]
        /\ opCb' = [opCb EXCEPT ![t] = b]
        /\ opTok' = [opTok EXCEPT ![t] = k]
        /\ UNCHANGED runs
  /\ UNCHANGED <<stop, tok, src, list, signaller, deleted, handles, reg,
                 isRemoved, finished, rsVars>>

\* Under the lock: push the callback; unlock and, if the token was copied,
\* count the callback's reference.
Push(t) ==
  /\ op[t] \in {"push", "pushMoved"}
  /\ UseState
  /\ list' = <<opCb[t]>> \o list
  /\ locker' = NoThread
  /\ tok' = IF op[t] = "push" THEN tok + 1 ELSE tok
  /\ op' = [op EXCEPT ![t] = IF @ = "push" THEN "made" ELSE "madeMoved"]
  /\ UNCHANGED <<stop, src, signaller, deleted, handles, cbVars, rsVars, opCb,
                 opTok, runs>>

\* The constructor stores __state_, after the callback can already be executed
\* on another thread, and takes the reference of a moved token over.
Constructed(t) ==
  /\ op[t] \in {"made", "madeMoved"}
  /\ UseCb(opCb[t])
  /\ reg' = [reg EXCEPT ![opCb[t]] = TRUE]
  /\ cbst' = [cbst EXCEPT ![opCb[t]] = "live"]
  /\ tokens' = IF op[t] = "made" THEN tokens ELSE tokens \ {opTok[t]}
  /\ op' = [op EXCEPT ![t] = "none"]
  /\ opCb' = [opCb EXCEPT ![t] = NoCb]
  /\ opTok' = [opTok EXCEPT ![t] = NoTok]
  /\ UNCHANGED <<word, list, signaller, deleted, sources, isRemoved, finished,
                 rsVars, runs>>

\* ~stop_callback(): nothing to do if never registered, else __lock().
Destroy(t, b) ==
  /\ UserCode(t)
  /\ cbst[b] = "live"
  /\ \/ /\ ~reg[b]
        /\ cbst' = [cbst EXCEPT ![b] = "dead"]
        /\ UNCHANGED <<op, opCb, badUse, locker>>
     \/ /\ reg[b] /\ ~Locked
        /\ UseState
        /\ locker' = t
        /\ cbst' = [cbst EXCEPT ![b] = "dying"]
        /\ op' = [op EXCEPT ![t] = "remove"]
        /\ opCb' = [opCb EXCEPT ![t] = b]
  /\ UNCHANGED <<stop, tok, src, list, signaller, deleted, handles, reg,
                 isRemoved, finished, rsVars, opTok, runs>>

\* A listed callback's neighbours are linked to each other.
Unlink(b) ==
  \E i \in DOMAIN list :
    /\ list[i] = b
    /\ list' = SubSeq(list, 1, i - 1) \o SubSeq(list, i + 1, Len(list))

\* Mutant: the locked flag is forgotten in the test for the last reference.
UnlinkCbThreshold(t) ==
  /\ op[t] = "remove"
  /\ UseState
  /\ locker' = NoThread
  /\ \/ /\ Unlink(opCb[t])
        /\ tok' = tok - 1
        /\ deleted' = (deleted \/ Word < 4)
        /\ cbst' = [cbst EXCEPT ![opCb[t]] = "dead"]
        /\ reg' = [reg EXCEPT ![opCb[t]] = FALSE]
        /\ op' = [op EXCEPT ![t] = "none"]
        /\ opCb' = [opCb EXCEPT ![t] = NoCb]
     \/ /\ ~Listed(opCb[t])
        /\ op' = [op EXCEPT ![t] = "await"]
        /\ UNCHANGED <<list, tok, deleted, cbst, reg, opCb>>
  /\ UNCHANGED <<stop, src, signaller, handles, isRemoved, finished, rsVars,
                 opTok, runs>>

\* Under the lock: unlink it and drop its reference with the lock, or unlock.
UnlinkCb(t) ==
  /\ op[t] = "remove"
  /\ UseState
  /\ locker' = NoThread
  /\ \/ /\ Unlink(opCb[t])
        /\ tok' = tok - 1
        /\ deleted' = (deleted \/ Word < 2 + 4 + 4)
        /\ cbst' = [cbst EXCEPT ![opCb[t]] = "dead"]
        /\ reg' = [reg EXCEPT ![opCb[t]] = FALSE]
        /\ op' = [op EXCEPT ![t] = "none"]
        /\ opCb' = [opCb EXCEPT ![t] = NoCb]
     \/ /\ ~Listed(opCb[t])
        /\ op' = [op EXCEPT ![t] = "await"]
        /\ UNCHANGED <<list, tok, deleted, cbst, reg, opCb>>
  /\ UNCHANGED <<stop, src, signaller, handles, isRemoved, finished, rsVars,
                 opTok, runs>>

\* Mutant: the destructor does not wait for the other thread.
AwaitNoSpin(t) ==
  /\ op[t] = "await"
  /\ UseState
  /\ removed' = [x \in Threads |->
                  removed[x] \/ (signaller = t /\ isRemoved[opCb[t]] = x)]
  /\ op' = [op EXCEPT ![t] = "release"]
  /\ UNCHANGED <<word, list, signaller, deleted, handles, cbVars, rs, rsSrc,
                 cur, more, opCb, opTok, runs>>

\* The callback was executed or is being executed.  On the signalling thread
\* leave a note for request_stop(); elsewhere spin until it is through.
Await(t) ==
  /\ op[t] = "await"
  /\ UseState
  /\ \/ /\ signaller = t
        /\ removed' = [x \in Threads |-> removed[x] \/ isRemoved[opCb[t]] = x]
     \/ /\ signaller # t
        /\ finished[opCb[t]]
        /\ UNCHANGED removed
  /\ op' = [op EXCEPT ![t] = "release"]
  /\ UNCHANGED <<word, list, signaller, deleted, handles, cbVars, rs, rsSrc,
                 cur, more, opCb, opTok, runs>>

\* __remove_token_reference() of the callback, which is gone then.
Release(t) ==
  /\ op[t] = "release"
  /\ UseState
  /\ tok' = tok - 1
  /\ deleted' = (deleted \/ Word < 4 + 4)
  /\ cbst' = [cbst EXCEPT ![opCb[t]] = "dead"]
  /\ reg' = [reg EXCEPT ![opCb[t]] = FALSE]
  /\ op' = [op EXCEPT ![t] = "none"]
  /\ opCb' = [opCb EXCEPT ![t] = NoCb]
  /\ UNCHANGED <<stop, locker, src, list, signaller, handles, isRemoved,
                 finished, rsVars, opTok, runs>>

-----------------------------------------------------------------------------
\* get_token() of a source or a copy of a token: __add_token_reference().
AddToken(t, k) ==
  /\ UserCode(t)
  /\ k \notin tokens /\ (sources # {} \/ \E j \in tokens : ~Moving(j))
  /\ UseState
  /\ tokens' = tokens \cup {k}
  /\ tok' = tok + 1
  /\ UNCHANGED <<stop, locker, src, list, signaller, deleted, sources, cbVars,
                 rsVars, opVars, runs>>

\* ~stop_token(); a token is not destroyed while a constructor uses it.
DropToken(t, k) ==
  /\ UserCode(t)
  /\ k \in tokens /\ ~InUse(k)
  /\ UseState
  /\ tokens' = tokens \ {k}
  /\ tok' = tok - 1
  /\ deleted' = (deleted \/ Word < 4 + 4)
  /\ UNCHANGED <<stop, locker, src, list, signaller, sources, cbVars, rsVars,
                 opVars, runs>>

\* A copy of a source: __add_source_reference().
AddSource(t, s) ==
  /\ UserCode(t)
  /\ s \notin sources /\ sources # {}
  /\ UseState
  /\ sources' = sources \cup {s}
  /\ src' = src + 1
  /\ UNCHANGED <<stop, locker, tok, list, signaller, deleted, tokens, cbVars,
                 rsVars, opVars, runs>>

\* ~stop_source().  A source is not destroyed while request_stop() runs on it,
\* except by the callback that request_stop() executes as its last.
DropSource(t, s) ==
  /\ UserCode(t)
  /\ s \in sources
  /\ \A x \in Threads : rsSrc[x] = s => (x = t /\ ~more[x])
  /\ UseState
  /\ sources' = sources \ {s}
  /\ src' = src - 1
  /\ deleted' = (deleted \/ Word < 4 + SourceInc)
  /\ UNCHANGED <<stop, locker, tok, list, signaller, tokens, cbVars, rsVars,
                 opVars, runs>>

-----------------------------------------------------------------------------
\* What a thread is bound to go on with.
Continue(t) ==
  \/ Pop(t) \/ Mark(t) \/ ExecReturn(t) \/ After(t) \/ Push(t) \/ Constructed(t)
  \/ UnlinkCb(t) \/ Await(t) \/ Release(t)

UserStep(t) ==
  \/ \E s \in Sources : RequestStop(t, s) \/ AddSource(t, s) \/ DropSource(t, s)
  \/ \E k \in Tokens : AddToken(t, k) \/ DropToken(t, k)
  \/ \E b \in Cbs : Destroy(t, b)
  \/ \E b \in Cbs, k \in Tokens, pushOp \in {"push", "pushMoved"} :
       Construct(t, b, k, pushOp)

Next == \E t \in Threads : Continue(t) \/ Relock(t) \/ UserStep(t)

Spec == Init /\ [][Next]_vars

\* Threads go on, callbacks return, and the spin lock lets a thread in that
\* finds it free again and again.
FairSpec ==
  /\ Spec
  /\ \A t \in Threads : WF_vars(Continue(t)) /\ SF_vars(Relock(t))

-----------------------------------------------------------------------------
\* Neither the shared state nor a callback is touched after it was freed, in
\* whatever order the destructors run against request_stop().
NoUseAfterFree == ~badUse

\* The state is deleted exactly when the last source, token and registered
\* callback are gone: neither early nor never.
DeletedWhenUnreferenced ==
  deleted <=> sources = {} /\ tokens = {} /\ \A b \in Cbs : ~reg[b]

\* A callback is executed at most once, by the constructor or by the signaller.
ExecutedOnce == \A b \in Cbs : runs[b] <= 1

\* ~stop_callback() has returned only when the callback is not being executed,
\* or was called by the callback itself.
QuietAfterDestroy ==
  \A t \in Threads : rs[t] \in {"mark", "exec", "after"} /\ cbst[cur[t]] = "dead"
    => rs[t] # "mark" /\ removed[t]

\* A registered callback of a state that is signalled is executed or destroyed.
Signalled ==
  \A b \in Cbs : (stop /\ reg[b]) ~> (runs[b] = 1 \/ cbst[b] = "dead")

\* A destructor that waits for the callback on another thread returns.
DestroyReturns == \A b \in Cbs : (cbst[b] = "dying") ~> (cbst[b] = "dead")
=============================================================================
