------------------------------ MODULE EcAwaiter ------------------------------
(***************************************************************************)
(* ec_awaiter (include/jkl/ec_awaiter.hpp): co_await on an asynchronous    *)
(* operation that can complete, time out or be stopped.  The completion    *)
(* handler, the timer handler and the stop callback race to resume the     *)
(* coroutine; with an expiry duration a shared flag decides between them.  *)
(* The coroutines share one AsyncObj (a socket, a resolver...), whose      *)
(* cancel() aborts the operations of all of them.                          *)
(*                                                                         *)
(* A coroutine awaits again and again: wait n of coroutine c has its own   *)
(* awaiter, its own operation ops[c][n], timer tm[c][n] and flag.          *)
(***************************************************************************)
EXTENDS Integers, FiniteSets

CONSTANTS
  Coros,
  Expiring,       \* coroutines that pass an expiry duration
  Modes,          \* what may vary between programs, see mode
  OutsideCancel,  \* other code may cancel the AsyncObj
  MaxWaits        \* bound on the waits of one coroutine

ASSUME BoundAssumption ==
  /\ Expiring \subseteq Coros /\ OutsideCancel \in BOOLEAN
  /\ Modes \subseteq [threads : BOOLEAN, stoppable : SUBSET Coros]
  /\ MaxWaits \in Nat

VARIABLES
  mode,      \* of the program, for good: do handlers run beside await_suspend and
             \* one another, and which coroutines pass p_enable_stop
  pc,        \* idle, suspended or resumed (inside the rest of the co_await)
  num,       \* number of the coroutine's latest wait
  alive,     \* number of the awaiter that exists, or 0
  susp,      \* what await_suspend() still has to do
  ops,       \* the asynchronous operation of each wait
  tm,        \* the timer of each wait
  reached,   \* the waits whose anyReached flag is set
  ec,        \* _ec
  cb,        \* _stopCb
  inCb,      \* the wait whose stop callback is on some stack, or 0
  stopReq,
  resumes,   \* how often each wait was resumed
  lost,      \* await_suspend() went on with a destroyed awaiter
  stale      \* the coroutines whose handler touched a destroyed awaiter

awaitVars == <<pc, num, alive, susp, ops, tm, reached, ec, cb, inCb, stopReq,
               resumes, lost, stale>>

Stoppable == mode.stoppable

Waits == 1..MaxWaits


AwaitInit ==
  /\ mode \in Modes
  /\ pc = [c \in Coros |-> "idle"]
  /\ num = [c \in Coros |-> 0]
  /\ alive = [c \in Coros |-> 0]
  /\ susp = [c \in Coros |-> "none"]
  /\ ops = [c \in Coros |-> [n \in Waits |-> "none"]]
  /\ tm = [c \in Coros |-> [n \in Waits |-> "none"]]
  /\ reached = {}
  /\ ec = [c \in Coros |-> "none"]
  /\ cb = [c \in Coros |-> "none"]
  /\ inCb = [c \in Coros |-> 0]
  /\ stopReq = [c \in Coros |-> FALSE]
  /\ resumes = [c \in Coros |-> [n \in Waits |-> 0]]
  /\ lost = FALSE /\ stale = {}

\* With one thread a handler starts only when nothing else is on the stack.
HandlerActive ==
  \E c \in Coros : \/ susp[c] # "none" \/ cb[c] \in {"running", "entered"}
                   \/ \E n \in Waits : ops[c][n] = "entered" \/ tm[c][n] = "entered"

Free == mode.threads \/ ~HandlerActive

\* _ao.cancel(): every pending operation completes with operation_aborted.
CancelAll(o) == [c \in Coros |-> [n \in Waits |->
                   IF o[c][n] = "pending" THEN "aborted" ELSE o[c][n]]]

\* _timer.cancel(): the handler of a timer not yet expired does nothing.
CancelTimer(c, n) == tm' = [tm EXCEPT ![c][n] = IF @ = "armed" THEN "done" ELSE @]

\* _stopCb.reset(): waits for a callback that runs on another thread.  It finds
\* nothing to reset as long as emplace() has not stored the callback.
ResetStop(c) ==
  \/ /\ susp[c] \in {"own", "inline"}
     /\ UNCHANGED cb
  \/ /\ susp[c] \notin {"own", "inline"}
     /\ cb[c] \notin {"running", "entered"}
     /\ cb' = [cb EXCEPT ![c] = "none"]

\* A handler of wait n uses the members of the awaiter.
Touch(c, n) == stale' = IF alive[c] = n THEN stale ELSE stale \cup {c}

Resume(c, n, code) ==
  /\ resumes' = [resumes EXCEPT ![c][n] = @ + 1]
  /\ ec' = [ec EXCEPT ![c] = code]
  /\ pc' = [pc EXCEPT ![c] = "resumed"]

-----------------------------------------------------------------------------
\* await_suspend(): a stop was requested already, or the operation starts.
Await(c) ==
  /\ pc[c] = "idle" /\ susp[c] = "none"
  /\ num[c] < MaxWaits /\ Free
  /\ num' = [num EXCEPT ![c] = @ + 1]
  /\ alive' = [alive EXCEPT ![c] = num[c] + 1]
  /\ \/ /\ c \in Stoppable /\ stopReq[c]
        /\ pc' = [pc EXCEPT ![c] = "resumed"]
        /\ ec' = [ec EXCEPT ![c] = "aborted"]
        /\ UNCHANGED <<ops, susp>>
     \/ /\ ~(c \in Stoppable /\ stopReq[c])
        /\ pc' = [pc EXCEPT ![c] = "suspended"]
        /\ ops' = [ops EXCEPT ![c][num[c] + 1] = "pending"]
        /\ susp' = [susp EXCEPT ![c] = CASE c \in Expiring -> "timer"
                                         [] c \in Stoppable \ Expiring -> "stop"
                                         [] OTHER -> "none"]
        /\ UNCHANGED ec
  /\ UNCHANGED <<tm, reached, cb, inCb, stopReq, resumes, lost, stale>>

\* await_suspend(): _timer.async_wait().
ArmTimer(c) ==
  /\ susp[c] = "timer"
  /\ tm' = [tm EXCEPT ![c][num[c]] = "armed"]
  /\ susp' = [susp EXCEPT ![c] = IF c \in Stoppable THEN "stop" ELSE "none"]
  /\ UNCHANGED <<pc, num, alive, ops, reached, ec, cb, inCb, stopReq, resumes,
                 lost, stale>>

\* await_suspend(): _stopCb.emplace().  If the stop came in between, the
\* callback runs here and now, and may resume the coroutine under emplace().
RegisterStop(c) ==
  /\ susp[c] = "stop"
  /\ cb' = [cb EXCEPT ![c] = IF stopReq[c] THEN "running" ELSE "registered"]
  /\ inCb' = [inCb EXCEPT ![c] = IF stopReq[c] THEN num[c] ELSE @]
  /\ susp' = [susp EXCEPT ![c] = IF stopReq[c] THEN "inline" ELSE "own"]
  /\ UNCHANGED <<pc, num, alive, ops, tm, reached, ec, stopReq, resumes,
                 lost, stale>>

\* emplace() stores the callback, once its constructor has returned.
OwnStop(c) ==
  /\ susp[c] = "own" \/ (susp[c] = "inline" /\ inCb[c] = 0)
  /\ susp' = [susp EXCEPT ![c] = "none"]
  /\ UNCHANGED <<pc, num, alive, ops, tm, reached, ec, cb, inCb, stopReq,
                 resumes, lost, stale>>

-----------------------------------------------------------------------------
\* The operation completes, with or without an error of its own.
OpCompletes(c, n) ==
  /\ ops[c][n] = "pending"
  /\ ops' = [ops EXCEPT ![c][n] = "queued"]
  /\ UNCHANGED <<pc, num, alive, susp, tm, reached, ec, cb, inCb, stopReq,
                 resumes, lost, stale>>

\* Other code cancels the AsyncObj.
CancelOutside ==
  /\ OutsideCancel /\ Free
  /\ \E c \in Coros, n \in Waits : ops[c][n] = "pending"
  /\ ops' = CancelAll(ops)
  /\ UNCHANGED <<pc, num, alive, susp, tm, reached, ec, cb, inCb, stopReq,
                 resumes, lost, stale>>

\* Mutant: the flag is taken before the error code is looked at.
AbortedHandlerTakesFlag(c, n) ==
  /\ ops[c][n] = "aborted" /\ Free
  /\ ops' = [ops EXCEPT ![c][n] = "done"]
  /\ reached' = reached \cup {<<c, n>>}
  /\ UNCHANGED <<pc, num, alive, susp, tm, ec, cb, inCb, stopReq, resumes,
                 lost, stale>>

\* The completion handler with operation_aborted returns at once.
AbortedHandler(c, n) ==
  /\ ops[c][n] = "aborted" /\ Free
  /\ ops' = [ops EXCEPT ![c][n] = "done"]
  /\ UNCHANGED <<pc, num, alive, susp, tm, reached, ec, cb, inCb, stopReq,
                 resumes, lost, stale>>

\* The completion handler up to _stopCb.reset().
CompletionEnter(c, n) ==
  /\ ops[c][n] = "queued" /\ Free
  /\ \/ /\ c \in Expiring /\ <<c, n>> \in reached
        /\ ops' = [ops EXCEPT ![c][n] = "done"]
        /\ UNCHANGED <<tm, reached, stale>>
     \/ /\ ~(c \in Expiring /\ <<c, n>> \in reached)
        /\ Touch(c, n)
        /\ ops' = [ops EXCEPT ![c][n] = "entered"]
        /\ \/ /\ c \in Expiring
              /\ reached' = reached \cup {<<c, n>>}
              /\ CancelTimer(c, n)
           \/ /\ c \notin Expiring
              /\ UNCHANGED <<reached, tm>>
  /\ UNCHANGED <<pc, num, alive, susp, ec, cb, inCb, stopReq, resumes, lost>>

\* The rest of the completion handler.
CompletionFinish(c, n) ==
  /\ ops[c][n] = "entered"
  /\ ResetStop(c)
  /\ ops' = [ops EXCEPT ![c][n] = "done"]
  /\ Touch(c, n)
  /\ Resume(c, n, "completed")
  /\ UNCHANGED <<num, alive, susp, tm, reached, inCb, stopReq, lost>>

TimerExpires(c, n) ==
  /\ tm[c][n] = "armed"
  /\ tm' = [tm EXCEPT ![c][n] = "expired"]
  /\ UNCHANGED <<pc, num, alive, susp, ops, reached, ec, cb, inCb, stopReq,
                 resumes, lost, stale>>

\* The timer handler up to _stopCb.reset().
TimerEnter(c, n) ==
  /\ tm[c][n] = "expired" /\ Free
  /\ \/ /\ <<c, n>> \in reached
        /\ tm' = [tm EXCEPT ![c][n] = "done"]
        /\ UNCHANGED <<reached, stale>>
     \/ /\ <<c, n>> \notin reached
        /\ tm' = [tm EXCEPT ![c][n] = "entered"]
        /\ reached' = reached \cup {<<c, n>>}
        /\ Touch(c, n)
  /\ UNCHANGED <<pc, num, alive, susp, ops, ec, cb, inCb, stopReq, resumes,
                 lost>>

\* Cancel the operation and resume with a timeout.
TimerFinish(c, n) ==
  /\ tm[c][n] = "entered"
  /\ ResetStop(c)
  /\ tm' = [tm EXCEPT ![c][n] = "done"]
  /\ ops' = CancelAll(ops)
  /\ Touch(c, n)
  /\ Resume(c, n, "timeout")
  /\ UNCHANGED <<num, alive, susp, reached, inCb, stopReq, lost>>

\* request_stop() starts a registered callback.
RequestStop(c) ==
  /\ c \in Stoppable /\ ~stopReq[c] /\ Free
  /\ stopReq' = [stopReq EXCEPT ![c] = TRUE]
  /\ cb' = [cb EXCEPT ![c] = IF @ = "registered" THEN "running" ELSE @]
  /\ inCb' = [inCb EXCEPT ![c] = IF cb[c] = "registered" THEN alive[c] ELSE @]
  /\ UNCHANGED <<pc, num, alive, susp, ops, tm, reached, ec, resumes, lost,
                 stale>>

\* Mutant: the stop callback does not look at the flag.
StopEnterNoFlag(c) ==
  /\ cb[c] = "running"
  /\ cb' = [cb EXCEPT ![c] = "entered"]
  /\ CancelTimer(c, inCb[c])
  /\ UNCHANGED <<pc, num, alive, susp, ops, reached, ec, inCb, stopReq, resumes,
                 lost, stale>>

\* The stop callback up to _ao.cancel().
StopEnter(c) ==
  /\ cb[c] = "running"
  /\ \/ /\ c \in Expiring /\ <<c, inCb[c]>> \in reached
        /\ cb' = [cb EXCEPT ![c] = "returned"]
        /\ UNCHANGED <<reached, tm>>
     \/ /\ c \in Expiring /\ <<c, inCb[c]>> \notin reached
        /\ cb' = [cb EXCEPT ![c] = "entered"]
        /\ reached' = reached \cup {<<c, inCb[c]>>}
        /\ CancelTimer(c, inCb[c])
     \/ /\ c \notin Expiring
        /\ cb' = [cb EXCEPT ![c] = "entered"]
        /\ UNCHANGED <<reached, tm>>
  /\ UNCHANGED <<pc, num, alive, susp, ops, ec, inCb, stopReq, resumes,
                 lost, stale>>

\* Mutant: the operation goes on after the stop.
StopFinishNoCancel(c) ==
  /\ cb[c] = "entered"
  /\ cb' = [cb EXCEPT ![c] = "returned"]
  /\ Touch(c, inCb[c])
  /\ Resume(c, inCb[c], "aborted")
  /\ UNCHANGED <<num, alive, susp, ops, tm, reached, inCb, stopReq, lost>>

\* Cancel the operation and resume the coroutine inside the callback.
StopFinish(c) ==
  /\ cb[c] = "entered"
  /\ cb' = [cb EXCEPT ![c] = "returned"]
  /\ ops' = CancelAll(ops)
  /\ Touch(c, inCb[c])
  /\ Resume(c, inCb[c], "aborted")
  /\ UNCHANGED <<num, alive, susp, tm, reached, inCb, stopReq, lost>>

\* The callback returns to request_stop(), after the coroutine it resumed has
\* been suspended again.
StopReturn(c) ==
  /\ inCb[c] # 0 /\ cb[c] \notin {"running", "entered"}
  /\ resumes[c][inCb[c]] > 0 /\ ec[c] = "aborted" => pc[c] # "resumed"
  /\ inCb' = [inCb EXCEPT ![c] = 0]
  /\ UNCHANGED <<pc, num, alive, susp, ops, tm, reached, ec, cb, stopReq,
                 resumes, lost, stale>>

\* The awaiter is destroyed at the end of the co_await expression: ~_stopCb
\* waits for a callback on another thread, ~_timer cancels.
DestroyAwaiter(c) ==
  /\ pc[c] = "resumed"
  /\ pc' = [pc EXCEPT ![c] = "idle"]
  /\ alive' = [alive EXCEPT ![c] = 0]
  /\ ResetStop(c)
  /\ CancelTimer(c, num[c])
  /\ lost' = (lost \/ susp[c] # "none")
  /\ UNCHANGED <<num, susp, ops, reached, ec, inCb, stopReq, resumes, stale>>

AwaitUndefined == (lost \/ stale # {}) /\ UNCHANGED awaitVars

-----------------------------------------------------------------------------
\* Steps that the io_context and the threads take sooner or later.
Handler(c) ==
  \/ ArmTimer(c) \/ RegisterStop(c) \/ OwnStop(c)
  \/ StopEnter(c) \/ StopFinish(c) \/ StopReturn(c) \/ DestroyAwaiter(c)
  \/ \E n \in Waits : \/ AbortedHandler(c, n)
                      \/ CompletionEnter(c, n) \/ CompletionFinish(c, n)
                      \/ TimerExpires(c, n) \/ TimerEnter(c, n) \/ TimerFinish(c, n)

AwaitStep ==
  \/ /\ ~lost /\ stale = {}
     /\ \/ \E c \in Coros : \/ Await(c) \/ RequestStop(c) \/ Handler(c)
                            \/ \E n \in Waits : OpCompletes(c, n)
        \/ CancelOutside
  \/ AwaitUndefined

AwaitNext == AwaitStep /\ UNCHANGED mode

AwaitSpec == AwaitInit /\ [][AwaitNext]_<<mode, awaitVars>>

-----------------------------------------------------------------------------
\* Their handlers have no flag to decide between them.
Unflagged == Stoppable \ Expiring

\* However completion, timeout and stop race, one handler resumes a wait whose flag
\* decides between them, or that nobody can stop, and the others stay away from the
\* awaiter, which is gone then.  On one thread await_suspend() does not use one that
\* is gone either.
OneHandlerResumes ==
  /\ \A c \in Coros \ Unflagged, n \in Waits : resumes[c][n] <= 1
  /\ stale \subseteq Unflagged
  /\ ~mode.threads => ~lost

\* When the coroutine goes on, its operation is over or cancelled: no buffer of
\* the coroutine is used behind its back.
NoOrphanOperation ==
  \A c \in Coros, n \in Waits :
    (pc[c] # "suspended" \/ n < num[c]) /\ ~lost /\ stale = {}
      => ops[c][n] # "pending"

\* On one thread, where every handler that can race has a flag, a suspended coroutine
\* that gave an expiry duration goes on, even if somebody else's timeout,
\* stop or cancel() on the AsyncObj aborted its operation.
SuspendedGoesOn ==
  \A c \in Expiring :
    (~mode.threads /\ Unflagged = {} /\ pc[c] = "suspended") ~> (pc[c] # "suspended")

=============================================================================
