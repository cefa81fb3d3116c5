------------------------------- MODULE MCTasks -------------------------------
(***************************************************************************)
(* Tasks, the threads that run them and the operations they await.  A      *)
(* behaviour is one of WhileNext, of SyncAwait, of IocPool or of EcAwaiter: *)
(* the modules do not share state, and the others keep their initial one.  *)
(***************************************************************************)
EXTENDS WhileNext, SyncAwait, IocPool, EcAwaiter

CONSTANTS c1, c2

\* Which coroutines can be stopped, with handlers on one thread or on several.
OneThread == [threads |-> FALSE, stoppable |-> {c1}]
MCModes   == [threads : BOOLEAN, stoppable : {{c1}, {c2}}]

VARIABLE part

whileVars == <<threads, vars>>
asyncVars == <<mode, awaitVars>>

TasksInit == /\ part \in {"while_next", "sync_await", "ioc_pool", "ec_awaiter"}
             /\ Init /\ SyncInit /\ IocInit /\ AwaitInit
             /\ part # "while_next" => threads
             /\ part # "ec_awaiter" => mode = OneThread

TasksNext ==
  /\ UNCHANGED part
  /\ \/ part = "while_next" /\ Next      /\ UNCHANGED <<syncVars, iocVars, asyncVars>>
     \/ part = "sync_await" /\ SyncNext  /\ UNCHANGED <<whileVars, iocVars, asyncVars>>
     \/ part = "ioc_pool"   /\ IocNext   /\ UNCHANGED <<whileVars, syncVars, asyncVars>>
     \/ part = "ec_awaiter" /\ AwaitNext /\ UNCHANGED <<whileVars, syncVars, iocVars>>

\* Fairness of while_next: every thread goes on, whatever a task or the generator
\* awaits happens in the end, and neither of them waits for ever: tasks finish, and
\* the generator yields finitely many items (MaxItems).  Fairness to some task is
\* enough, because a task finishes once.
While(A) == part = "while_next" /\ ~dangling /\ A

WhileFairness ==
  /\ WF_vars(While(WhileStep)) /\ WF_vars(While(GenResumes))
  /\ SF_vars(While(GenYields \/ GenDone))
  /\ WF_vars(While(\E t \in Tasks : TaskResumes(t)))
  /\ SF_vars(While(\E t \in Tasks : TaskFinishes(t)))
  /\ WF_vars(While(\E t \in Tasks : OnSuspendThen(t) \/ ResumeByTask(t)))

\* Fairness of sync_await: both threads go on, the operation completes, and a mutex
\* that is free again and again is got in the end.
Sync(A) == part = "sync_await" /\ A

SyncFairness ==
  /\ WF_syncVars(Sync(CoroStep)) /\ WF_syncVars(Sync(WaiterStep))
  /\ SF_syncVars(Sync(LambdaLocks)) /\ SF_syncVars(Sync(WaiterLocks))

\* Fairness of ec_awaiter: handlers queued on a running io_context run, and timers
\* expire.  An operation need not complete by itself.
AwaitFairness ==
  WF_awaitVars(part = "ec_awaiter" /\ ~lost /\ stale = {} /\ \E c \in Coros : Handler(c))

TasksSpec == /\ TasksInit /\ [][TasksNext]_<<part, whileVars, syncVars, iocVars, asyncVars>>
             /\ WhileFairness /\ SyncFairness /\ AwaitFairness
=============================================================================
