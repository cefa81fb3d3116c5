------------------------------ MODULE SyncAwait ------------------------------
(***************************************************************************)
(* sync_await() (include/jkl/task.hpp): a thread starts a task and sleeps  *)
(* until it is through.  The task awaits another one, and so on, Depth of  *)
(* them; the innermost awaits an operation that may complete on another    *)
(* thread, which then runs the chain of continuations up to task 0, the    *)
(* lambda of sync_await() that wakes the waiting thread.                   *)
(***************************************************************************)
EXTENDS Naturals

CONSTANT Depth   \* how many tasks are awaited in a chain

ASSUME SyncAssumption == Depth \in Nat \ {0}

VARIABLES
  waiter,  \* where the thread that called sync_await() is
  mutex,   \* m: free, or the side that holds it
  done,    \* the flag under m
  thread,  \* who runs coroutines: waiter, other or nobody
  level,   \* the task that runs
  body,    \* where each task is; task 0 is the lambda
  result,  \* _rv of each task
  found    \* what a.await_resume() gave the waiting thread

syncVars == <<waiter, mutex, done, thread, level, body, result, found>>

Chain == 0..Depth

\* What _rv may hold once a task is through, and what its result() gives: the value,
\* or the exception again.
Returned  == {"value", "exception"}
Result(k) == result[k]

SyncInit ==
  /\ waiter = "calling" /\ mutex = "free" /\ done = FALSE
  /\ thread = "nobody" /\ level = 0
  /\ body = [k \in Chain |-> "fresh"] /\ result = [k \in Chain |-> "empty"]
  /\ found = "nothing"

-----------------------------------------------------------------------------
\* task.start() resumes the lambda on the waiting thread.
StartTask ==
  /\ waiter = "calling"
  /\ waiter' = "starting"
  /\ thread' = "waiter"
  /\ body' = [body EXCEPT ![0] = "running"]
  /\ UNCHANGED <<mutex, done, level, result, found>>

\* co_await of the next task: set_continuation(), and it is resumed at once.
AwaitTask ==
  /\ thread # "nobody" /\ level < Depth /\ body[level] = "running"
  /\ body' = [body EXCEPT ![level] = "awaiting", ![level + 1] = "running"]
  /\ level' = level + 1
  /\ UNCHANGED <<waiter, mutex, done, thread, result, found>>

\* The innermost task awaits the operation: the thread is free to go.
AwaitOperation ==
  /\ thread # "nobody" /\ level = Depth /\ body[Depth] = "running"
  /\ body' = [body EXCEPT ![Depth] = "awaiting"]
  /\ thread' = "nobody"
  /\ UNCHANGED <<waiter, mutex, done, level, result, found>>

OperationCompletes ==
  /\ thread = "nobody" /\ body[Depth] = "awaiting"
  /\ body' = [body EXCEPT ![Depth] = "resumed"]
  /\ thread' = "other"
  /\ UNCHANGED <<waiter, mutex, done, level, result, found>>

\* A task returns, or an exception leaves it, one of the task it awaited perhaps;
\* final_suspend resumes its continuation.
TaskReturns ==
  /\ thread # "nobody" /\ level > 0
  /\ body[level] = "resumed" \/ (level = Depth /\ body[level] = "running")
  /\ \E r \in Returned : result' = [result EXCEPT ![level] = r]
  /\ body' = [body EXCEPT ![level] = "done",
                          ![level - 1] = IF level = 1 THEN "lock" ELSE "resumed"]
  /\ level' = level - 1
  /\ UNCHANGED <<waiter, mutex, done, thread, found>>

-----------------------------------------------------------------------------
Lambda(from, to) == body[0] = from /\ body' = [body EXCEPT ![0] = to]

\* Mutant: done is set without the lock.
LambdaLocksNot ==
  /\ Lambda("lock", "set")
  /\ UNCHANGED <<waiter, mutex, done, thread, level, result, found>>

\* { std::lock_guard lg{m}; done = true; } c.notify_one();
LambdaLocks ==
  /\ Lambda("lock", "set")
  /\ mutex = "free" /\ mutex' = "lambda"
  /\ UNCHANGED <<waiter, done, thread, level, result, found>>

LambdaSetsDone ==
  /\ Lambda("set", "notify")
  /\ done' = TRUE
  /\ mutex' = IF mutex = "lambda" THEN "free" ELSE mutex
  /\ UNCHANGED <<waiter, thread, level, result, found>>

LambdaNotifies ==
  /\ Lambda("notify", "last")
  /\ waiter' = IF waiter = "asleep" THEN "relock" ELSE waiter
  /\ UNCHANGED <<mutex, done, thread, level, result, found>>

\* Nobody is to be continued.
LambdaEnds ==
  /\ Lambda("last", "done")
  /\ thread' = "nobody"
  /\ UNCHANGED <<waiter, mutex, done, level, result, found>>

-----------------------------------------------------------------------------
\* task.start() returns when the coroutines have left this thread.
StartReturns ==
  /\ waiter = "starting" /\ thread # "waiter"
  /\ waiter' = "relock"
  /\ UNCHANGED <<mutex, done, thread, level, body, result, found>>

WaiterLocks ==
  /\ waiter = "relock" /\ mutex = "free"
  /\ waiter' = "test" /\ mutex' = "waiter"
  /\ UNCHANGED <<done, thread, level, body, result, found>>

\* Mutant: "if" for "while": a thread that was woken does not look again.
WaiterTestsOnce ==
  /\ waiter = "test"
  /\ IF done \/ found = "woken"
     THEN waiter' = "awake" /\ mutex' = "free" /\ UNCHANGED found
     ELSE waiter' = "wait" /\ found' = "woken" /\ UNCHANGED mutex
  /\ UNCHANGED <<done, thread, level, body, result>>

\* while(! done) c.wait(lk);
WaiterTests ==
  /\ waiter = "test"
  /\ IF done THEN waiter' = "awake" /\ mutex' = "free"
             ELSE waiter' = "wait" /\ UNCHANGED mutex
  /\ UNCHANGED <<done, thread, level, body, result, found>>

\* c.wait() gives up the mutex and sleeps in one step.
WaiterSleeps ==
  /\ waiter = "wait"
  /\ waiter' = "asleep" /\ mutex' = "free"
  /\ UNCHANGED <<done, thread, level, body, result, found>>

\* It may wake without a notification.
WakesByItself ==
  /\ waiter = "asleep"
  /\ waiter' = "relock"
  /\ UNCHANGED <<mutex, done, thread, level, body, result, found>>

\* return a.await_resume(); m, c and the lambda's frame are destroyed.
WaiterReturns ==
  /\ waiter = "awake"
  /\ waiter' = "gone"
  /\ found' = Result(1)
  /\ UNCHANGED <<mutex, done, thread, level, body, result>>

-----------------------------------------------------------------------------
LambdaStep == LambdaLocks \/ LambdaSetsDone \/ LambdaNotifies \/ LambdaEnds
CoroStep   == \/ AwaitTask \/ AwaitOperation \/ OperationCompletes \/ TaskReturns
              \/ LambdaStep
WaiterStep == \/ StartTask \/ StartReturns \/ WaiterLocks \/ WaiterTests
              \/ WaiterSleeps \/ WaiterReturns

SyncNext == CoroStep \/ WaiterStep \/ WakesByItself

SyncSpec == SyncInit /\ [][SyncNext]_syncVars

\* The waiting thread returns, if the operation completes: the notification is
\* not lost between its look at done and its sleep, and it need not wake by itself.
SyncReturns == (waiter = "starting") ~> (waiter = "gone")

\* It returns with what the task it awaited came to, and no earlier, even if it
\* woke without a notification.
ResultAwaited ==
  waiter = "gone" => body[1] = "done" /\ found = result[1] /\ found # "empty"
=============================================================================
