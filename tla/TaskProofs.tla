----------------------------- MODULE TaskProofs -----------------------------
(***************************************************************************)
(* Proofs about while_next, for any number of items, with one thread or    *)
(* many; about sync_await(), for any depth of the chain of tasks; about    *)
(* the join of an ioc_pool, for any number of sources, threads and jobs;   *)
(* and about ec_awaiter, for any number of coroutines that share the       *)
(* AsyncObj, any number of waits, and one thread or several.               *)
(***************************************************************************)
EXTENDS WhileNext, SyncAwait, IocPool, EcAwaiter, FiniteSetTheorems, TLAPS

-----------------------------------------------------------------------------
(***************************************************************************)
(* while_next: the awaiting coroutine is resumed at most once, only when   *)
(* the generator and every task are through, and finds the generator's     *)
(* result.                                                                 *)
(*                                                                         *)
(* The race is between while_next, which looks at pts once and then says   *)
(* that it is suspended, and the tasks, which leave pts one by one and     *)
(* look at that flag.  The inductive invariant says who, of all of them,   *)
(* still owes the resumption: while_next until it is past its final check, *)
(* then the tasks in pts, then the one task that found pts empty.          *)
(***************************************************************************)

Live == {"emplaced", "running", "waiting", "finishing"}

\* pts holds exactly the tasks between emplace() and their erase.
MapInv == \A t \in Tasks : (t \in pts) <=> (tpc[t] \in Live)

\* Items are turned into tasks in the order in which they are drawn.
DrawInv ==
  /\ \A t \in Tasks : t > yielded => tpc[t] = "none"
  /\ wpc = "emplace" => yielded > 0 /\ tpc[yielded] = "none"
  /\ wpc = "start" => yielded > 0 /\ tpc[yielded] = "emplaced"
  /\ wpc = "starting" => yielded > 0

\* The generator runs only inside gen.next(); its result is there when it ends.
GenInv ==
  /\ gen \in {"running", "waiting"} => wpc = "drawing"
  /\ (gen = "done") <=> (wpc \in {"finish", "unlocked", "suspended", "returned"})
  /\ gen = "done" => grv # "empty"

\* Who owes the resumption.
OweInv ==
  /\ wpSuspended <=> (wpc \in {"unlocked", "suspended"})
  /\ \A t \in Tasks : tpc[t] = "last" => wpSuspended /\ pts = {} /\ resumed = 0
  /\ \A t, u \in Tasks : tpc[t] = "last" /\ tpc[u] = "last" => t = u
  /\ resumed > 0 =>
       /\ resumed = 1 /\ got = grv
       /\ pts = {}
       /\ wpc \in {"unlocked", "suspended", "returned"}
       /\ \A t \in Tasks : tpc[t] # "last"
  /\ wpc = "returned" => resumed = 1

IInv == TypeOK /\ MapInv /\ DrawInv /\ GenInv /\ OweInv

LEMMA InvInit == Init => IInv
<1> SUFFICES ASSUME Init PROVE IInv
  OBVIOUS
<1> USE ConstAssumption DEF Init, Tasks
<1>1. TypeOK
  <2>1. wpSuspended \in BOOLEAN /\ frame \in BOOLEAN /\ dangling \in BOOLEAN
    BY Zenon
  <2>2. tpc \in [Tasks -> TPCs]
    BY DEF TPCs
  <2> QED BY <2>1, <2>2 DEF TypeOK, GenPCs, WPCs, RVs
<1>2. MapInv /\ DrawInv /\ GenInv /\ OweInv
  BY DEF MapInv, DrawInv, GenInv, OweInv, Live
<1> QED BY <1>1, <1>2 DEF IInv

\* Every step of while_next, of the generator, of a task and of the awaiting
\* coroutine keeps the account of who owes the resumption.
LEMMA InvStep == IInv /\ [Next]_<<threads, vars>> => IInv'
<1> SUFFICES ASSUME IInv, [Next]_<<threads, vars>> PROVE IInv'
  OBVIOUS
<1> USE ConstAssumption DEF IInv, TypeOK, MapInv, DrawInv, GenInv, OweInv, Live,
  Tasks, GenPCs, WPCs, TPCs, RVs, genVars, taskVars, outVars, memVars
<1>1. CASE CallNext
  BY <1>1 DEF CallNext
<1>2. CASE GenWaits
  BY <1>2 DEF GenWaits
<1>3. CASE GenResumes
  BY <1>3 DEF GenResumes
<1>4. CASE GenYields
  BY <1>4 DEF GenYields
<1>5. CASE GenDone
  BY <1>5 DEF GenDone
<1>6. CASE Emplace
  BY <1>6 DEF Emplace
<1>7. CASE Start
  BY <1>7 DEF Start
<1>8. CASE Started
  BY <1>8 DEF Started
<1>9. CASE FinishNoTask
  BY <1>9 DEF FinishNoTask, Return
<1>10. CASE FinishAllDone
  BY <1>10 DEF FinishAllDone, Return
<1>11. CASE FinishWait
  BY <1>11 DEF FinishWait
<1>12. CASE Suspend
  BY <1>12 DEF Suspend
<1>13. CASE DestroyFrame
  BY <1>13 DEF DestroyFrame
<1>14. ASSUME NEW t \in Tasks, TaskWaits(t) PROVE IInv'
  BY <1>14 DEF TaskWaits, Yield
<1>15. ASSUME NEW t \in Tasks, TaskResumes(t) PROVE IInv'
  BY <1>15 DEF TaskResumes
<1>16. ASSUME NEW t \in Tasks, TaskFinishes(t) PROVE IInv'
  BY <1>16 DEF TaskFinishes
<1>17. ASSUME NEW t \in Tasks, OnSuspendThen(t) PROVE IInv'
  <2>1. /\ tpc[t] = "finishing" /\ t \in pts /\ resumed = 0
        /\ pts' = pts \ {t}
        /\ inline' \in 0..MaxItems
        /\ UNCHANGED <<gen, yielded, grv, wrv, resumed, got, wpc, wpSuspended, frame>>
    BY <1>17 DEF OnSuspendThen, EraseSelf, Yield
  <2>2. /\ tpc' = [tpc EXCEPT ![t] = tpc'[t]]
        /\ \/ tpc'[t] = "last" /\ pts = {t} /\ wpSuspended
           \/ tpc'[t] = "gone"
    BY <1>17 DEF OnSuspendThen, EraseSelf
  <2>3. dangling' \in BOOLEAN
    <3>1. dangling' \in MovedByErase(t)
      BY <1>17 DEF OnSuspendThen, EraseSelf
    <3> QED BY <3>1, Zenon DEF MovedByErase
  <2>4. TypeOK' /\ MapInv'
    BY <2>1, <2>2, <2>3
  <2>5. DrawInv' /\ GenInv'
    BY <2>1, <2>2
  <2>6. \A u \in Tasks : tpc[u] # "last"
    BY <2>1
  <2>7. OweInv'
    BY <2>1, <2>2, <2>6
  <2> QED BY <2>4, <2>5, <2>7
<1>18. ASSUME NEW t \in Tasks, ResumeByTask(t) PROVE IInv'
  BY <1>18 DEF ResumeByTask
<1>19. CASE UNCHANGED <<threads, vars>>
  BY <1>19 DEF vars
<1> QED
  BY <1>1, <1>2, <1>3, <1>4, <1>5, <1>6, <1>7, <1>8, <1>9, <1>10, <1>11, <1>12, <1>13, <1>14, <1>15, <1>16, <1>17, <1>18, <1>19
  DEF Next, Step, GenStep, WhileStep, TaskStep, Finished, Undefined

LEMMA InvAlways == Spec => []IInv
<1> QED BY InvInit, InvStep, PTL DEF Spec

\* What the awaiting coroutine sees, as consequences of the invariant.
LEMMA InvPromises ==
  IInv => ResumedOnce /\ ResumedWhenAllDone /\ ResultForwarded
<1> SUFFICES ASSUME IInv
             PROVE  ResumedOnce /\ ResumedWhenAllDone /\ ResultForwarded
  OBVIOUS
<1>1. CASE resumed = 0
  BY <1>1 DEF ResumedOnce, ResumedWhenAllDone, ResultForwarded
<1>2. CASE resumed > 0
  BY <1>2 DEF IInv, TypeOK, MapInv, GenInv, OweInv, Live, TPCs, Tasks,
    ResumedOnce, ResumedWhenAllDone, ResultForwarded
<1> QED BY <1>1, <1>2 DEF IInv, TypeOK

\* The coroutine that awaits while_next is resumed at most once, for every
\* number of items and any threading.
THEOREM ResumesOnce == Spec => []ResumedOnce
<1> QED BY InvAlways, InvPromises, PTL

\* It is resumed only when the generator is done and no task is left.
THEOREM ResumesLast == Spec => []ResumedWhenAllDone
<1> QED BY InvAlways, InvPromises, PTL

\* It finds the result, value or exception, with which the generator ended.
THEOREM ForwardsResult == Spec => []ResultForwarded
<1> QED BY InvAlways, InvPromises, PTL

-----------------------------------------------------------------------------
Active == {"running", "finishing", "last"}

\* With one thread, a task runs only inside start() or while while_next is
\* suspended; so nobody can destroy the frame under while_next, and no erase
\* comes between emplace() and start().
SingleInv ==
  /\ \A t \in Tasks : tpc[t] \in Active =>
       \/ wpc = "starting" /\ inline = t
       \/ wpc = "drawing" /\ gen = "waiting"
       \/ wpc = "suspended"
  /\ inline # 0 => wpc = "starting"
  /\ resumed > 0 => wpc \in {"suspended", "returned"}
  /\ ~frame => resumed > 0
  /\ ~dangling

UnthreadedInv == ~threads => SingleInv

LEMMA SingleInit == Init => UnthreadedInv
<1> QED BY ConstAssumption DEF Init, UnthreadedInv, SingleInv, Active, Tasks

LEMMA SingleStep == IInv /\ UnthreadedInv /\ [Next]_<<threads, vars>> => UnthreadedInv'
<1> SUFFICES ASSUME IInv, SingleInv, ~threads, [Next]_<<threads, vars>>
             PROVE  SingleInv'
  BY DEF UnthreadedInv, Next
<1> USE ConstAssumption DEF IInv, TypeOK, MapInv, DrawInv, GenInv, OweInv, Live,
  SingleInv, Active, Tasks, WPCs, TPCs, genVars, taskVars, outVars, memVars
<1>1. CASE CallNext
  BY <1>1 DEF CallNext
<1>2. CASE GenWaits
  BY <1>2 DEF GenWaits
<1>3. CASE GenResumes
  BY <1>3 DEF GenResumes, Idle
<1>4. CASE GenYields
  BY <1>4 DEF GenYields
<1>5. CASE GenDone
  BY <1>5 DEF GenDone
<1>6. CASE Emplace
  BY <1>6 DEF Emplace
<1>7. CASE Start
  BY <1>7 DEF Start
<1>8. CASE Started
  BY <1>8 DEF Started
<1>9. CASE FinishNoTask
  BY <1>9 DEF FinishNoTask, Return
<1>10. CASE FinishAllDone
  BY <1>10 DEF FinishAllDone, Return
<1>11. CASE FinishWait
  BY <1>11 DEF FinishWait
<1>12. CASE Suspend
  BY <1>12 DEF Suspend
<1>13. CASE DestroyFrame
  BY <1>13 DEF DestroyFrame
<1>14. ASSUME NEW t \in Tasks, TaskWaits(t) PROVE SingleInv'
  BY <1>14 DEF TaskWaits, Yield
<1>15. ASSUME NEW t \in Tasks, TaskResumes(t) PROVE SingleInv'
  BY <1>15 DEF TaskResumes, Idle
<1>16. ASSUME NEW t \in Tasks, TaskFinishes(t) PROVE SingleInv'
  BY <1>16 DEF TaskFinishes
<1>17. ASSUME NEW t \in Tasks, OnSuspendThen(t) PROVE SingleInv'
  BY <1>17 DEF OnSuspendThen, EraseSelf, Yield, MovedByErase
<1>18. ASSUME NEW t \in Tasks, ResumeByTask(t) PROVE SingleInv'
  BY <1>18 DEF ResumeByTask
<1>19. CASE UNCHANGED <<threads, vars>>
  BY <1>19 DEF vars
<1> QED
  BY <1>1, <1>2, <1>3, <1>4, <1>5, <1>6, <1>7, <1>8, <1>9, <1>10, <1>11, <1>12, <1>13, <1>14, <1>15, <1>16, <1>17, <1>18, <1>19
  DEF Next, Step, GenStep, WhileStep, TaskStep, Finished, Undefined

\* With one thread, the frame of while_next and the references into pts are
\* never used after they are gone, for every number of items.
THEOREM SingleThreadSafe == Spec => []NoDangling
<1>1. UnthreadedInv => NoDangling
  BY DEF UnthreadedInv, SingleInv, NoDangling
<1> QED BY InvAlways, SingleInit, SingleStep, <1>1, PTL DEF Spec

-----------------------------------------------------------------------------
\* sync_await().
LambdaStates == {"lock", "set", "notify", "last", "done"}

SyncTypeOK ==
  /\ waiter \in {"calling", "starting", "relock", "test", "wait", "asleep", "awake", "gone"}
  /\ mutex \in {"free", "lambda", "waiter"}
  /\ done \in BOOLEAN
  /\ thread \in {"nobody", "waiter", "other"}
  /\ level \in Chain
  /\ body \in [Chain -> {"fresh", "running", "awaiting", "resumed"} \cup LambdaStates]
  /\ result \in [Chain -> {"empty", "value", "exception"}]

\* Up to the task that runs each awaits the next one; the task that was awaited is
\* through, with a result, exactly when the lambda goes on.
ChainInv ==
  /\ \A k \in Chain : k < level => body[k] = "awaiting"
  /\ waiter = "calling" => level = 0 /\ thread = "nobody" /\ \A k \in Chain : body[k] = "fresh"
  /\ body[0] \in {"fresh", "running"} => body[1] = "fresh"
  /\ body[1] = "done" <=> body[0] \in LambdaStates
  /\ body[1] = "done" => result[1] # "empty"

\* The mutex is held where the code holds it, the flag is set under it, and the
\* waiting thread goes on only when it has seen the flag.
MutexInv ==
  /\ mutex = "lambda" <=> body[0] = "set"
  /\ mutex = "waiter" <=> waiter \in {"test", "wait"}
  /\ done <=> body[0] \in {"notify", "last", "done"}
  /\ waiter \in {"awake", "gone"} => done
  /\ waiter = "gone" => found = result[1]

\* A thread that sleeps although the flag is set will be notified: the notification
\* cannot fall between its look at the flag and its sleep (c.wait(), task.hpp:364).
NotificationDue ==
  /\ waiter = "wait" => ~done
  /\ waiter = "asleep" /\ done => body[0] = "notify"

SyncInv == SyncTypeOK /\ ChainInv /\ MutexInv /\ NotificationDue

LEMMA ChainBounds == 0 \in Chain /\ 1 \in Chain /\ Depth \in Chain
BY SyncAssumption DEF Chain

LEMMA SyncInitInv == SyncInit => SyncInv
<1> SUFFICES ASSUME SyncInit PROVE SyncInv
  OBVIOUS
<1> USE ChainBounds DEF SyncInit, LambdaStates
<1>1. SyncTypeOK
  BY DEF SyncTypeOK
<1>2. ChainInv
  BY SyncAssumption DEF ChainInv, Chain
<1>3. MutexInv
  BY DEF MutexInv
<1>4. NotificationDue
  BY DEF NotificationDue
<1> QED
  BY <1>1, <1>2, <1>3, <1>4 DEF SyncInv

LEMMA SyncStepInv == SyncInv /\ [SyncNext]_syncVars => SyncInv'
<1> SUFFICES ASSUME SyncInv, [SyncNext]_syncVars PROVE SyncInv'
  OBVIOUS
<1> USE ChainBounds DEF SyncInv, SyncTypeOK, ChainInv, MutexInv, NotificationDue, LambdaStates
<1>1. CASE StartTask
  BY <1>1, SyncAssumption DEF StartTask, Chain
<1>2. CASE AwaitTask
  BY <1>2, SyncAssumption DEF AwaitTask, Chain
<1>3. CASE AwaitOperation
  BY <1>3, SyncAssumption DEF AwaitOperation, Chain
<1>4. CASE OperationCompletes
  BY <1>4, SyncAssumption DEF OperationCompletes, Chain
<1>5. CASE TaskReturns
  BY <1>5, SyncAssumption DEF TaskReturns, Chain, Returned
<1>6. CASE LambdaStep
  <2> USE <1>6, SyncAssumption DEF LambdaStep, LambdaLocks, LambdaSetsDone, LambdaNotifies, LambdaEnds, Lambda, Chain
  <2>1. SyncTypeOK'
    OBVIOUS
  <2>2. ChainInv'
    OBVIOUS
  <2>3. MutexInv'
    OBVIOUS
  <2>4. NotificationDue'
    OBVIOUS
  <2> QED
    BY <2>1, <2>2, <2>3, <2>4
<1>7. CASE StartReturns \/ WaiterLocks \/ WaiterTests \/ WaiterSleeps \/ WaiterReturns \/ WakesByItself
  BY <1>7 DEF StartReturns, WaiterLocks, WaiterTests, WaiterSleeps, WaiterReturns, WakesByItself, Result
<1>8. CASE UNCHANGED syncVars
  BY <1>8 DEF syncVars
<1> QED
  BY <1>1, <1>2, <1>3, <1>4, <1>5, <1>6, <1>7, <1>8 DEF SyncNext, CoroStep, WaiterStep

LEMMA SyncInvariant == SyncSpec => []SyncInv
<1>1. QED BY SyncInitInv, SyncStepInv, PTL DEF SyncSpec

\* sync_await() returns with the result of the task it was given, through a chain of
\* any depth, and even if the thread woke without a notification.
THEOREM ReturnsResult == SyncSpec => []ResultAwaited
<1>1. SyncInv => ResultAwaited
  BY DEF SyncInv, ChainInv, MutexInv, ResultAwaited, LambdaStates
<1> QED BY <1>1, SyncInvariant, PTL

\* No notification is missed (notify_one() is called unlocked, task.hpp:358).
THEOREM NeverMissed == SyncSpec => []NotificationDue
<1>1. SyncInv => NotificationDue
  BY DEF SyncInv
<1> QED BY <1>1, SyncInvariant, PTL

-----------------------------------------------------------------------------
\* ioc_pool.
IocTypeOK ==
  /\ turn \in Srcs
  /\ job \in [Jobs -> {"new", "loaded", "picked", "queued", "running", "done"}]
  /\ idx \in [Jobs -> Srcs] /\ at \in [Jobs -> Srcs]
  /\ guard \subseteq Srcs /\ stopped \subseteq Srcs
  /\ running \in [Srcs -> Nat]
  /\ owner \in {"stopped", "started", "reset", "waiting"} /\ joining \in Srcs
  /\ signalled \in BOOLEAN
  /\ owed \subseteq Jobs

\* A source keeps its work guard until its turn in join(), and with the guard only a
\* signal stops it.
GuardInv ==
  /\ owner = "started" => guard = Srcs
  /\ owner = "reset" => \A i \in Srcs : i >= joining => i \in guard
  /\ owner = "waiting" => \A i \in Srcs : i > joining => i \in guard
  /\ ~signalled => stopped \cap guard = {}

\* The threads of a source leave only when its context is stopped, so that a joined
\* source is a stopped one.
ThreadsInv ==
  /\ owner # "stopped" => \A i \in Srcs \ stopped : running[i] = Share(i)
  /\ owner \in {"reset", "waiting"} => \A i \in Srcs : i < joining => i \in stopped
  /\ owner = "stopped" /\ owed # {} => stopped = Srcs
  /\ \A i \in Srcs : Joined(i) => running[i] = 0

\* A context that stopped by itself has handled whatever it owed.
OwedInv ==
  /\ \A j \in owed : job[j] \in {"queued", "running", "done"}
  /\ ~signalled => \A j \in owed : at[j] \in stopped => job[j] = "done"

\* A handler runs on a thread of its context; that thread does not leave run() with it.
BusyInv == \A i \in Srcs : Cardinality(Busy(i)) <= running[i]

\* A source that was joined runs no handler, signalled or not.
JoinedMeansQuiet == \A j \in Jobs : Joined(at[j]) => job[j] # "running"

IocInv == IocTypeOK /\ GuardInv /\ ThreadsInv /\ OwedInv /\ BusyInv

\* Every source has a thread (Threads >= SrcCnt, ioc.hpp).
LEMMA EverySourceHasThread == \A i \in Srcs : Share(i) \in Nat \ {0}
<1> DEFINE quot == Threads \div SrcCnt
<1>1. quot \in Nat \ {0}
  BY IocAssumption
<1> QED
  BY <1>1 DEF Share

LEMMA IocInitInv == IocInit => IocInv
<1> SUFFICES ASSUME IocInit PROVE IocInv
  OBVIOUS
<1> USE DEF IocInit
<1>1. 0 \in Srcs
  BY IocAssumption DEF Srcs
<1>2. IocTypeOK
  BY <1>1 DEF IocTypeOK
<1>3. GuardInv /\ ThreadsInv /\ OwedInv
  BY DEF GuardInv, ThreadsInv, OwedInv
<1>4. \A i \in Srcs : Busy(i) = {}
  BY DEF Busy
<1> QED
  BY <1>2, <1>3, <1>4, FS_EmptySet DEF IocInv, BusyInv

LEMMA BusyFinite == \A i : IsFiniteSet(Busy(i)) /\ Cardinality(Busy(i)) \in Nat
BY IocAssumption, FS_Subset, FS_CardinalityType DEF Busy

LEMMA BusyStepInv == IocInv /\ [IocNext]_iocVars => BusyInv'
<1> SUFFICES ASSUME IocInv, [IocNext]_iocVars PROVE BusyInv'
  OBVIOUS
<1> USE BusyFinite DEF IocInv, IocTypeOK, BusyInv
<1>1. ASSUME \A i \in Srcs : Busy(i)' = Busy(i), UNCHANGED running PROVE BusyInv'
  BY <1>1
<1>2. ASSUME NEW j \in Jobs,
             \/ LoadNext(j) \/ ExchangeNext(j) \/ PostPicked(j)
             \/ \E k \in Jobs : PostFromHandler(j, k)
      PROVE BusyInv'
  BY <1>1, <1>2 DEF Busy, LoadNext, ExchangeNext, Picked, PostPicked, PostFromHandler
<1>3. ASSUME NEW j \in Jobs, TakeJob(j) PROVE BusyInv'
  <2>1. Busy(at[j])' = Busy(at[j]) \cup {j} /\ j \notin Busy(at[j])
    BY <1>3 DEF TakeJob, Busy
  <2>2. \A i \in Srcs \ {at[j]} : Busy(i)' = Busy(i)
    BY <1>3 DEF TakeJob, Busy
  <2>3. Cardinality(Busy(at[j])') = Cardinality(Busy(at[j])) + 1
    BY <2>1, FS_AddElement
  <2> QED
    BY <1>3, <2>2, <2>3 DEF TakeJob
<1>4. ASSUME NEW j \in Jobs, JobEnds(j) PROVE BusyInv'
  <2>1. \A i \in Srcs : Busy(i)' \subseteq Busy(i)
    BY <1>4 DEF JobEnds, Busy
  <2>2. \A i \in Srcs : Cardinality(Busy(i)') <= Cardinality(Busy(i)) /\ Cardinality(Busy(i)') \in Nat
    BY <2>1, FS_Subset, FS_CardinalityType
  <2> QED
    BY <1>4, <2>2 DEF JobEnds
<1>5. ASSUME NEW i \in Srcs, LeaveRun(i) PROVE BusyInv'
  <2>1. \A k \in Srcs : Busy(k)' = Busy(k)
    BY <1>5 DEF LeaveRun, Busy
  <2> QED
    BY <1>5, <2>1 DEF LeaveRun
<1>6. CASE StartPool
  <2>1. \A i \in Srcs : Busy(i)' = Busy(i) /\ running[i] = 0
    BY <1>6 DEF StartPool, Starts, Busy, ThreadsInv, Joined
  <2> QED
    BY <1>6, <2>1, EverySourceHasThread DEF StartPool, Starts
<1>7. CASE SignalStop \/ JoinStep \/ UNCHANGED iocVars
  BY <1>1, <1>7 DEF SignalStop, JoinStep, BeginJoin, ResetGuard, JoinThreads, iocVars, Busy
<1> QED
  BY <1>2, <1>3, <1>4, <1>5, <1>6, <1>7 DEF IocNext, JobStep

LEMMA IocStepInv == IocInv /\ [IocNext]_iocVars => IocInv'
<1> SUFFICES ASSUME IocInv, [IocNext]_iocVars, BusyInv' PROVE IocInv'
  BY BusyStepInv
<1> USE DEF IocInv, IocTypeOK, GuardInv, ThreadsInv, OwedInv, Joined
<1>1. ASSUME NEW j \in Jobs, LoadNext(j) PROVE IocInv'
  BY <1>1 DEF LoadNext
<1>2. ASSUME NEW j \in Jobs, ExchangeNext(j) PROVE IocInv'
  <2>1. (idx[j] + 1) % SrcCnt \in Srcs
    BY <1>2, IocAssumption DEF Srcs
  <2> QED
    BY <1>2, <2>1 DEF ExchangeNext, Picked
<1>3. ASSUME NEW j \in Jobs, PostPicked(j) PROVE IocInv'
  BY <1>3 DEF PostPicked
<1>4. ASSUME NEW j \in Jobs, NEW k \in Jobs, PostFromHandler(j, k) PROVE IocInv'
  BY <1>4 DEF PostFromHandler
<1>5. ASSUME NEW j \in Jobs, TakeJob(j) PROVE IocInv'
  BY <1>5 DEF TakeJob
<1>6. ASSUME NEW j \in Jobs, JobEnds(j) PROVE IocInv'
  BY <1>6 DEF JobEnds, Drained, Pending
<1>7. ASSUME NEW i \in Srcs, LeaveRun(i) PROVE IocInv'
  BY <1>7, BusyFinite DEF LeaveRun
<1>8. CASE StartPool
  BY <1>8, EverySourceHasThread DEF StartPool, Starts
<1>9. CASE SignalStop
  BY <1>9 DEF SignalStop
<1>10. CASE BeginJoin
  BY <1>10, IocAssumption DEF BeginJoin, Srcs
<1>11. CASE ResetGuard
  <2> USE <1>11 DEF ResetGuard
  <2>1. IocTypeOK'
    BY DEF Owes, Pending
  <2>2. GuardInv'
    BY DEF Srcs
  <2>3. ThreadsInv'
    OBVIOUS
  <2>4. OwedInv'
    <3>1. \A j \in owed' : j \in owed \/ j \in Pending(joining)
      BY DEF Owes
    <3>2. ~signalled => joining \notin stopped
      <4>1. joining >= joining
        BY DEF Srcs
      <4> QED
        BY <4>1
    <3>3. \A j \in owed' : job[j] \in {"queued", "running", "done"}
      BY <3>1 DEF Pending
    <3>4. ASSUME NEW j \in owed', ~signalled, at[j] \in stopped' PROVE job[j] = "done"
      <4>1. CASE at[j] = joining
        BY <3>1, <3>2, <3>3, <3>4, <4>1 DEF Pending
      <4>2. CASE at[j] # joining
        BY <3>1, <3>4, <4>2 DEF Pending
      <4> QED
        BY <4>1, <4>2
    <3> QED
      BY <3>3, <3>4
  <2> QED
    BY <2>1, <2>2, <2>3, <2>4
<1>12. CASE JoinThreads
  <2> USE <1>12 DEF JoinThreads
  <2>1. joining \in stopped
    BY EverySourceHasThread
  <2>2. IocTypeOK' /\ GuardInv'
    BY IocAssumption DEF Srcs
  <2>3. ThreadsInv'
    <3>1. CASE joining + 1 < SrcCnt
      BY <2>1, <3>1 DEF Srcs
    <3>2. CASE ~(joining + 1 < SrcCnt)
      <4>1. \A i \in Srcs : i < joining \/ i = joining
        BY <3>2, IocAssumption DEF Srcs
      <4> QED
        BY <2>1, <3>2, <4>1
    <3> QED
      BY <3>1, <3>2
  <2>4. OwedInv'
    OBVIOUS
  <2> QED
    BY <2>2, <2>3, <2>4
<1>13. CASE UNCHANGED iocVars
  BY <1>13 DEF iocVars
<1> QED
  BY <1>1, <1>2, <1>3, <1>4, <1>5, <1>6, <1>7, <1>8, <1>9, <1>10, <1>11, <1>12, <1>13
  DEF IocNext, JobStep, JoinStep

LEMMA IocInvariant == IocSpec => []IocInv
<1>1. QED BY IocInitInv, IocStepInv, PTL DEF IocSpec

\* join() of any number of sources and threads leaves no handler behind that a source
\* had, or got from these, when its turn came.
THEOREM JoinLosesNothing == IocSpec => []JoinedMeansDone
<1>1. IocInv => JoinedMeansDone
  BY DEF IocInv, IocTypeOK, ThreadsInv, OwedInv, JoinedMeansDone, Joined
<1> QED BY <1>1, IocInvariant, PTL

\* When join() has returned, signalled or not, no handler runs on a thread of the pool:
\* what its owner destroys next is not in use.
THEOREM JoinLeavesNoHandler == IocSpec => []JoinedMeansQuiet
<1>1. IocInv => JoinedMeansQuiet
  <2> SUFFICES ASSUME IocInv, NEW j \in Jobs, Joined(at[j]), job[j] = "running" PROVE FALSE
    BY DEF JoinedMeansQuiet
  <2>1. running[at[j]] = 0 /\ at[j] \in Srcs
    BY DEF IocInv, IocTypeOK, ThreadsInv
  <2>2. Cardinality(Busy(at[j])) = 0
    BY <2>1, BusyFinite DEF IocInv, BusyInv
  <2>3. Busy(at[j]) = {} /\ j \in Busy(at[j])
    BY <2>2, BusyFinite, FS_EmptySet DEF Busy
  <2> QED
    BY <2>3
<1> QED BY <1>1, IocInvariant, PTL

-----------------------------------------------------------------------------
(***************************************************************************)
(* ec_awaiter: a coroutine with an expiry is resumed by one handler, and   *)
(* no operation survives its wait.  Each handler of a wait looks at the    *)
(* wait's flag, which the one that resumes the coroutine sets.             *)
(***************************************************************************)


Nums == 0..MaxWaits

OpStates == {"none", "pending", "queued", "aborted", "entered", "done"}
TimerStates == {"none", "armed", "expired", "entered", "done"}

AwaitTypeOK ==
  /\ mode \in Modes
  /\ pc \in [Coros -> {"idle", "suspended", "resumed"}]
  /\ num \in [Coros -> Nums] /\ alive \in [Coros -> Nums]
  /\ susp \in [Coros -> {"none", "timer", "stop", "own", "inline"}]
  /\ ops \in [Coros -> [Waits -> OpStates]]
  /\ tm \in [Coros -> [Waits -> TimerStates]]
  /\ reached \subseteq Coros \X Waits
  /\ cb \in [Coros -> {"none", "registered", "running", "entered", "returned"}]
  /\ inCb \in [Coros -> Nums]
  /\ stopReq \in [Coros -> BOOLEAN]
  /\ resumes \in [Coros -> [Waits -> Nat]]
  /\ lost \in BOOLEAN /\ stale \subseteq Coros

Good == ~lost /\ stale = {}

\* The awaiter is that of the latest wait, and a coroutine without one has no
\* await_suspend() and no stop callback under way.
AwaiterInv(c) ==
  /\ pc[c] = "idle" <=> alive[c] = 0
  /\ alive[c] # 0 => alive[c] = num[c]
  /\ pc[c] = "idle" => susp[c] = "none" /\ cb[c] = "none"
  /\ cb[c] \in {"running", "entered"} => inCb[c] = num[c]

\* What a coroutine did not ask for does not happen.
KindInv(c) ==
  /\ susp[c] = "timer" => c \in Expiring
  /\ \A n \in Waits : tm[c][n] # "none" => c \in Expiring
  /\ susp[c] \in {"stop", "own", "inline"} \/ cb[c] # "none" \/ stopReq[c] => c \in Stoppable

\* A wait that is to come has left no trace.
FutureInv(c) ==
  \A n \in Waits : n > num[c] =>
    ops[c][n] = "none" /\ tm[c][n] = "none" /\ <<c, n>> \notin reached /\ resumes[c][n] = 0

\* An operation is outstanding for the suspended coroutine only.
PendingInv(c) ==
  \A n \in Waits : ops[c][n] = "pending" => n = num[c] /\ pc[c] = "suspended"

\* The flag of a wait is set by the one handler that resumes it: nobody else has
\* entered, and until then the coroutine is suspended.
FlagInv(c) ==
  c \in Expiring => \A n \in Waits :
    /\ ops[c][n] = "entered" \/ tm[c][n] = "entered" \/ (cb[c] = "entered" /\ inCb[c] = n)
         => <<c, n>> \in reached /\ resumes[c][n] = 0 /\ n = num[c] /\ pc[c] = "suspended"
    /\ ops[c][n] = "entered" => tm[c][n] # "entered" /\ cb[c] # "entered"
    /\ tm[c][n] = "entered" => cb[c] # "entered"
    /\ resumes[c][n] > 0 => <<c, n>> \in reached

\* A flag that is not set belongs to the suspended coroutine, or to a wait that found
\* the stop requested and started nothing.
UnsetInv(c) ==
  c \in Expiring => \A n \in Waits : n <= num[c] /\ <<c, n>> \notin reached =>
    \/ pc[c] = "suspended" /\ n = num[c]
    \/ /\ ops[c][n] = "none" /\ tm[c][n] = "none"
       /\ n = num[c] => pc[c] # "suspended" /\ susp[c] = "none" /\ cb[c] = "none"

\* Nobody but the operation resumes a coroutine that passes neither of the two.
PlainInv(c) ==
  c \notin Expiring \cup Stoppable => \A n \in Waits :
    ops[c][n] \in {"pending", "queued", "entered"}
      => n = num[c] /\ pc[c] = "suspended" /\ resumes[c][n] = 0

\* On one thread nothing happens beside await_suspend().
OneThreadInv(c) ==
  ~mode.threads /\ susp[c] # "none" =>
    /\ pc[c] = "suspended" /\ cb[c] \notin {"running", "entered"} /\ susp[c] # "inline"
    /\ \A n \in Waits : ops[c][n] # "entered" /\ tm[c][n] # "entered"
    /\ susp[c] \in {"timer", "stop"} => ~stopReq[c]

CoroInv(c) ==
  /\ AwaiterInv(c) /\ KindInv(c) /\ FutureInv(c) /\ PendingInv(c)
  /\ FlagInv(c) /\ UnsetInv(c) /\ PlainInv(c) /\ OneThreadInv(c)

AwaitInv == AwaitTypeOK /\ OneHandlerResumes /\ (Good => \A c \in Coros : CoroInv(c))
-----------------------------------------------------------------------------
LEMMA WaitNumbers ==
  /\ 0 \in Nums /\ Nums \subseteq Int /\ Waits = Nums \ {0}
  /\ \A n \in Nums : n < MaxWaits => n + 1 \in Waits
  /\ \A n \in Waits : n > 0
BY BoundAssumption DEF Nums, Waits

LEMMA SetsOp ==
  ASSUME AwaitTypeOK, NEW c \in Coros, NEW n \in Waits, NEW v \in OpStates,
         ops' = [ops EXCEPT ![c][n] = v]
  PROVE  /\ ops' \in [Coros -> [Waits -> OpStates]] /\ ops'[c][n] = v
         /\ \A m \in Waits \ {n} : ops'[c][m] = ops[c][m]
         /\ \A d \in Coros \ {c} : ops'[d] = ops[d]
BY DEF AwaitTypeOK

LEMMA SetsTimer ==
  ASSUME AwaitTypeOK, NEW c \in Coros, NEW n \in Waits, NEW v \in TimerStates,
         tm' = [tm EXCEPT ![c][n] = v]
  PROVE  /\ tm' \in [Coros -> [Waits -> TimerStates]] /\ tm'[c][n] = v
         /\ \A m \in Waits \ {n} : tm'[c][m] = tm[c][m]
         /\ \A d \in Coros \ {c} : tm'[d] = tm[d]
BY DEF AwaitTypeOK

\* What the parts of a handler do.
LEMMA Touches ==
  ASSUME NEW c \in Coros, NEW n \in Waits, stale \subseteq Coros, Touch(c, n)
  PROVE  /\ stale' \subseteq Coros /\ stale' \subseteq stale \cup {c}
         /\ stale' = stale \/ alive[c] # n
         /\ stale' = {} => alive[c] = n
BY DEF Touch

LEMMA Resumes ==
  ASSUME AwaitTypeOK, NEW c \in Coros, NEW n \in Waits, NEW code, Resume(c, n, code)
  PROVE  /\ pc' \in [Coros -> {"idle", "suspended", "resumed"}]
         /\ resumes' \in [Coros -> [Waits -> Nat]]
         /\ pc'[c] = "resumed" /\ resumes'[c][n] = resumes[c][n] + 1
         /\ \A m \in Waits \ {n} : resumes'[c][m] = resumes[c][m]
         /\ \A d \in Coros \ {c} : pc'[d] = pc[d] /\ resumes'[d] = resumes[d]
BY DEF AwaitTypeOK, Resume

LEMMA CancelsTimer ==
  ASSUME AwaitTypeOK, NEW c \in Coros, NEW n \in Waits, CancelTimer(c, n)
  PROVE  /\ tm' \in [Coros -> [Waits -> TimerStates]]
         /\ \A d \in Coros, m \in Waits :
              tm'[d][m] = tm[d][m] \/ (tm[d][m] = "armed" /\ tm'[d][m] = "done")
         /\ \A d \in Coros \ {c} : tm'[d] = tm[d]
BY DEF AwaitTypeOK, TimerStates, CancelTimer

LEMMA CancelsAll ==
  ASSUME AwaitTypeOK, ops' = CancelAll(ops)
  PROVE  /\ ops' \in [Coros -> [Waits -> OpStates]]
         /\ \A d \in Coros, m \in Waits :
              /\ ops[d][m] = "pending" => ops'[d][m] = "aborted"
              /\ ops[d][m] # "pending" => ops'[d][m] = ops[d][m]
BY DEF AwaitTypeOK, OpStates, CancelAll

LEMMA ResetsStop ==
  ASSUME AwaitTypeOK, NEW c \in Coros, ResetStop(c)
  PROVE  /\ cb' \in [Coros -> {"none", "registered", "running", "entered", "returned"}]
         /\ \A d \in Coros \ {c} : cb'[d] = cb[d]
         /\ susp[c] \in {"own", "inline"} => cb'[c] = cb[c]
         /\ susp[c] \notin {"own", "inline"} =>
              cb[c] \notin {"running", "entered"} /\ cb'[c] = "none"
BY DEF AwaitTypeOK, ResetStop

-----------------------------------------------------------------------------
LEMMA AwaitInitInv == AwaitInit => AwaitInv
<1> SUFFICES ASSUME AwaitInit PROVE AwaitInv
  OBVIOUS
<1> USE WaitNumbers DEF AwaitInit, OpStates, TimerStates
<1>1. AwaitTypeOK
  <2>1. 0 \in Nat
    OBVIOUS
  <2>2. /\ num \in [Coros -> Nums] /\ alive \in [Coros -> Nums]
        /\ inCb \in [Coros -> Nums] /\ resumes \in [Coros -> [Waits -> Nat]]
    BY <2>1
  <2>3. stopReq \in [Coros -> BOOLEAN] /\ lost \in BOOLEAN
    OBVIOUS
  <2> QED
    BY <2>2, <2>3 DEF AwaitTypeOK
<1>2. OneHandlerResumes
  BY DEF OneHandlerResumes
<1>3. ASSUME NEW c \in Coros PROVE CoroInv(c)
  <2>1. AwaitTypeOK
    BY <1>1
  <2>2. AwaiterInv(c) /\ KindInv(c) /\ FutureInv(c) /\ PendingInv(c)
    BY DEF AwaiterInv, KindInv, FutureInv, PendingInv
  <2>3. FlagInv(c) /\ UnsetInv(c) /\ PlainInv(c) /\ OneThreadInv(c)
    BY DEF FlagInv, UnsetInv, PlainInv, OneThreadInv
  <2> QED
    BY <2>2, <2>3 DEF CoroInv
<1> QED
  BY <1>1, <1>2, <1>3 DEF AwaitInv

\* Steps of a program that is still defined.
AwaitMoves ==
  /\ mode' = mode
  /\ \/ \E c \in Coros : \/ Await(c) \/ RequestStop(c) \/ Handler(c)
                         \/ \E n \in Waits : OpCompletes(c, n)
     \/ CancelOutside

LEMMA AwaitStepType == AwaitInv /\ Good /\ AwaitMoves => AwaitTypeOK'
<1> SUFFICES ASSUME AwaitInv, Good, AwaitMoves PROVE AwaitTypeOK'
  OBVIOUS
<1> USE DEF OpStates, TimerStates
<1>a. AwaitTypeOK /\ mode' = mode
  BY DEF AwaitInv, AwaitMoves
<1>b. ASSUME NEW c \in Coros, NEW n \in Waits PROVE <<c, n>> \in Coros \X Waits
  OBVIOUS
<1>c. ASSUME NEW c \in Coros, cb[c] \in {"running", "entered"} PROVE inCb[c] \in Waits
  BY <1>a, <1>c, WaitNumbers DEF AwaitInv, CoroInv, AwaiterInv, AwaitTypeOK
<1>d. ops \in [Coros -> [Waits -> OpStates]] /\ tm \in [Coros -> [Waits -> TimerStates]]
  BY <1>a DEF AwaitTypeOK
<1>1. ASSUME NEW c \in Coros, Await(c) PROVE AwaitTypeOK'
  <2>1. num[c] + 1 \in Waits
    BY <1>a, <1>1, WaitNumbers DEF AwaitTypeOK, Await
  <2>2. /\ num' \in [Coros -> Nums] /\ alive' \in [Coros -> Nums]
        /\ pc' \in [Coros -> {"idle", "suspended", "resumed"}]
    BY <1>a, <1>1, <2>1, WaitNumbers DEF AwaitTypeOK, Await
  <2>3. susp' \in [Coros -> {"none", "timer", "stop", "own", "inline"}]
    BY <1>a, <1>1 DEF AwaitTypeOK, Await
  <2>4. ops' \in [Coros -> [Waits -> OpStates]]
    <3>1. ops' = ops \/ ops' = [ops EXCEPT ![c][num[c] + 1] = "pending"]
      BY <1>1 DEF Await
    <3>2. CASE ops' = ops
      BY <1>d, <3>2
    <3>3. CASE ops' = [ops EXCEPT ![c][num[c] + 1] = "pending"]
      BY <1>a, <2>1, <3>3, SetsOp
    <3> QED
      BY <3>1, <3>2, <3>3
  <2> QED
    BY <1>a, <1>1, <2>2, <2>3, <2>4 DEF AwaitTypeOK, Await
<1>2. ASSUME NEW c \in Coros, ArmTimer(c) PROVE AwaitTypeOK'
  BY <1>a, <1>2 DEF AwaitTypeOK, ArmTimer
<1>3. ASSUME NEW c \in Coros, RegisterStop(c) PROVE AwaitTypeOK'
  BY <1>a, <1>3 DEF AwaitTypeOK, RegisterStop
<1>4. ASSUME NEW c \in Coros, OwnStop(c) PROVE AwaitTypeOK'
  BY <1>a, <1>4 DEF AwaitTypeOK, OwnStop
<1>5. ASSUME NEW c \in Coros, NEW n \in Waits, OpCompletes(c, n) PROVE AwaitTypeOK'
  BY <1>a, <1>5 DEF AwaitTypeOK, OpCompletes
<1>6. CASE CancelOutside
  BY <1>a, <1>6, CancelsAll DEF AwaitTypeOK, CancelOutside
<1>7. ASSUME NEW c \in Coros, NEW n \in Waits, AbortedHandler(c, n) PROVE AwaitTypeOK'
  BY <1>a, <1>7 DEF AwaitTypeOK, AbortedHandler
<1>8. ASSUME NEW c \in Coros, NEW n \in Waits, CompletionEnter(c, n) PROVE AwaitTypeOK'
  <2>1. reached' \subseteq reached \cup {<<c, n>>}
    BY <1>8 DEF CompletionEnter
  <2>2. reached' \subseteq Coros \X Waits
    BY <1>a, <1>b, <2>1 DEF AwaitTypeOK
  <2> QED
    <3>1. /\ stale' = stale \/ Touch(c, n)
          /\ tm' = tm \/ CancelTimer(c, n)
          /\ ops' = [ops EXCEPT ![c][n] = "done"] \/ ops' = [ops EXCEPT ![c][n] = "entered"]
      BY <1>8 DEF CompletionEnter
    <3>2. stale' \subseteq Coros
      BY <1>a, <3>1, Touches DEF AwaitTypeOK
    <3>3. tm' \in [Coros -> [Waits -> TimerStates]]
      BY <1>a, <3>1, CancelsTimer DEF AwaitTypeOK
    <3>4. ops' \in [Coros -> [Waits -> OpStates]]
      BY <1>a, <3>1, SetsOp
    <3> QED
      BY <1>a, <1>8, <2>2, <3>2, <3>3, <3>4 DEF AwaitTypeOK, CompletionEnter
<1>9. ASSUME NEW c \in Coros, NEW n \in Waits, CompletionFinish(c, n) PROVE AwaitTypeOK'
  BY <1>a, <1>9, ResetsStop, Touches, Resumes DEF AwaitTypeOK, CompletionFinish
<1>10. ASSUME NEW c \in Coros, NEW n \in Waits, TimerExpires(c, n) PROVE AwaitTypeOK'
  BY <1>a, <1>10 DEF AwaitTypeOK, TimerExpires
<1>11. ASSUME NEW c \in Coros, NEW n \in Waits, TimerEnter(c, n) PROVE AwaitTypeOK'
  <2>1. reached' \subseteq reached \cup {<<c, n>>}
    BY <1>11 DEF TimerEnter
  <2>2. reached' \subseteq Coros \X Waits
    BY <1>a, <1>b, <2>1 DEF AwaitTypeOK
  <2> QED
    <3>1. /\ stale' = stale \/ Touch(c, n)
          /\ tm' = [tm EXCEPT ![c][n] = "done"] \/ tm' = [tm EXCEPT ![c][n] = "entered"]
      BY <1>11 DEF TimerEnter
    <3>2. stale' \subseteq Coros
      BY <1>a, <3>1, Touches DEF AwaitTypeOK
    <3>3. tm' \in [Coros -> [Waits -> TimerStates]]
      BY <1>a, <3>1, SetsTimer
    <3> QED
      BY <1>a, <1>11, <2>2, <3>2, <3>3 DEF AwaitTypeOK, TimerEnter
<1>12. ASSUME NEW c \in Coros, NEW n \in Waits, TimerFinish(c, n) PROVE AwaitTypeOK'
  BY <1>a, <1>12, ResetsStop, Touches, Resumes, CancelsAll DEF AwaitTypeOK, TimerFinish
<1>13. ASSUME NEW c \in Coros, RequestStop(c) PROVE AwaitTypeOK'
  BY <1>a, <1>13 DEF AwaitTypeOK, RequestStop
<1>14. ASSUME NEW c \in Coros, StopEnter(c) PROVE AwaitTypeOK'
  <2>1. reached' \subseteq reached \cup {<<c, inCb[c]>>}
    BY <1>14 DEF StopEnter
  <2>2. reached' \subseteq Coros \X Waits
    BY <1>a, <1>c, <1>14, <2>1 DEF AwaitTypeOK, StopEnter
  <2> QED
    BY <1>a, <1>14, <1>c, <2>2, CancelsTimer DEF AwaitTypeOK, StopEnter
<1>15. ASSUME NEW c \in Coros, StopFinish(c) PROVE AwaitTypeOK'
  BY <1>a, <1>15, <1>c, Touches, Resumes, CancelsAll DEF AwaitTypeOK, StopFinish
<1>16. ASSUME NEW c \in Coros, StopReturn(c) PROVE AwaitTypeOK'
  BY <1>a, <1>16, WaitNumbers DEF AwaitTypeOK, StopReturn
<1>17. ASSUME NEW c \in Coros, DestroyAwaiter(c) PROVE AwaitTypeOK'
  <2>1. lost' \in BOOLEAN
    BY <1>17 DEF DestroyAwaiter
  <2>2. tm' \in [Coros -> [Waits -> TimerStates]]
    BY <1>a, <1>17, ZenonT(40) DEF AwaitTypeOK, DestroyAwaiter, CancelTimer
  <2> QED
    BY <1>a, <1>17, <2>1, <2>2, ResetsStop, WaitNumbers DEF AwaitTypeOK, DestroyAwaiter
<1> QED
  BY <1>1, <1>2, <1>3, <1>4, <1>5, <1>6, <1>7, <1>8, <1>9, <1>10, <1>11, <1>12, <1>13, <1>14, <1>15, <1>16, <1>17 DEF AwaitMoves, Handler

-----------------------------------------------------------------------------
\* Steps that a coroutine need not care about: another one's, which may cancel its
\* operation, and its own while no handler enters, resumes or awaits.
Quiet(d) ==
  /\ pc'[d] = pc[d] /\ num'[d] = num[d] /\ alive'[d] = alive[d]
  /\ susp'[d] = susp[d] /\ stopReq'[d] = stopReq[d] /\ resumes'[d] = resumes[d]
  /\ cb'[d] = cb[d] \/ (cb[d] = "running" /\ cb'[d] = "returned")
  /\ inCb'[d] = inCb[d] \/ cb'[d] \notin {"running", "entered"}
  /\ \A n \in Waits :
       /\ <<d, n>> \in reached' <=> <<d, n>> \in reached
       /\ \/ ops'[d][n] = ops[d][n]
          \/ ops[d][n] = "pending" /\ ops'[d][n] \in {"queued", "aborted"}
          \/ ops[d][n] \in {"queued", "aborted"} /\ ops'[d][n] = "done"
       /\ tm'[d][n] = tm[d][n] \/ (tm[d][n] # "none" /\ tm'[d][n] \in {"expired", "done"})

LEMMA QuietKeeps ==
  ASSUME AwaitTypeOK, mode' = mode, NEW d \in Coros, CoroInv(d), Quiet(d)
  PROVE  CoroInv(d)'
<1> USE DEF CoroInv, Quiet
<1>1. AwaiterInv(d)'
  BY DEF AwaiterInv
<1>2. KindInv(d)'
  BY DEF KindInv, Stoppable
<1>3. FutureInv(d)'
  BY DEF FutureInv
<1>4. PendingInv(d)'
  BY DEF PendingInv
<1>5. FlagInv(d)'
  BY DEF FlagInv
<1>6. UnsetInv(d)'
  BY DEF UnsetInv
<1>7. PlainInv(d)'
  BY DEF PlainInv, Stoppable
<1>8. OneThreadInv(d)'
  BY DEF OneThreadInv
<1> QED
  BY <1>1, <1>2, <1>3, <1>4, <1>5, <1>6, <1>7, <1>8

LEMMA Current ==
  ASSUME AwaitTypeOK, NEW c \in Coros, AwaiterInv(c)
  PROVE  /\ pc[c] # "idle" => num[c] \in Waits /\ alive[c] = num[c]
         /\ cb[c] \in {"running", "entered"} => inCb[c] \in Waits
BY WaitNumbers DEF AwaitTypeOK, AwaiterInv

\* The steps of another coroutine are quiet.
LEMMA OthersQuiet ==
  ASSUME AwaitTypeOK, NEW c \in Coros, AwaiterInv(c), NEW d \in Coros \ {c},
         \/ Await(c) \/ RequestStop(c) \/ Handler(c) \/ \E n \in Waits : OpCompletes(c, n)
  PROVE  Quiet(d)
<1> USE DEF Quiet
<1>1. CASE Await(c)
  BY <1>1 DEF AwaitTypeOK, Await
<1>2. CASE RequestStop(c) \/ ArmTimer(c) \/ RegisterStop(c) \/ OwnStop(c) \/ StopReturn(c)
  BY <1>2 DEF AwaitTypeOK, RequestStop, ArmTimer, RegisterStop, OwnStop, StopReturn
<1>3. CASE StopEnter(c)
  <2>1. inCb[c] \in Waits
    BY <1>3, Current DEF StopEnter
  <2>2. tm'[d] = tm[d]
    BY <1>3, <2>1, CancelsTimer DEF StopEnter
  <2> QED
    BY <1>3, <2>2 DEF AwaitTypeOK, StopEnter
<1>4. CASE StopFinish(c)
  <2>1. inCb[c] \in Waits
    BY <1>4, Current DEF StopFinish
  <2>2. pc'[d] = pc[d] /\ resumes'[d] = resumes[d]
    BY <1>4, <2>1, Resumes DEF StopFinish
  <2> QED
    BY <1>4, <2>2, CancelsAll DEF AwaitTypeOK, StopFinish
<1>5. CASE DestroyAwaiter(c)
  <2>1. tm'[d] = tm[d] /\ cb'[d] = cb[d]
    BY <1>5, Current, CancelsTimer, ResetsStop DEF DestroyAwaiter
  <2> QED
    BY <1>5, <2>1 DEF AwaitTypeOK, DestroyAwaiter
<1>6. ASSUME NEW n \in Waits, OpCompletes(c, n) \/ AbortedHandler(c, n) PROVE Quiet(d)
  BY <1>6, SetsOp DEF AwaitTypeOK, OpStates, OpCompletes, AbortedHandler
<1>7. ASSUME NEW n \in Waits, CompletionEnter(c, n) PROVE Quiet(d)
  BY <1>7, CancelsTimer DEF AwaitTypeOK, CompletionEnter
<1>8. ASSUME NEW n \in Waits, CompletionFinish(c, n) PROVE Quiet(d)
  BY <1>8, Resumes, ResetsStop DEF AwaitTypeOK, CompletionFinish
<1>9. ASSUME NEW n \in Waits, TimerExpires(c, n) \/ TimerEnter(c, n) PROVE Quiet(d)
  BY <1>9 DEF AwaitTypeOK, TimerExpires, TimerEnter
<1>10. ASSUME NEW n \in Waits, TimerFinish(c, n) PROVE Quiet(d)
  BY <1>10, Resumes, ResetsStop, CancelsAll DEF AwaitTypeOK, TimerFinish
<1> QED
  BY <1>1, <1>2, <1>3, <1>4, <1>5, <1>6, <1>7, <1>8, <1>9, <1>10 DEF Handler

LEMMA AwaitKeeps ==
  ASSUME AwaitInv, Good, mode' = mode, NEW c \in Coros, Await(c)
  PROVE  OneHandlerResumes' /\ (Good' => CoroInv(c)')
<1>a. AwaitTypeOK /\ OneHandlerResumes /\ CoroInv(c) /\ mode' = mode /\ Good
  BY DEF AwaitInv
<1>b. /\ num[c] \in Int /\ \A m \in Waits : m \in Int /\ m > 0 /\ resumes[c][m] \in Nat
      /\ pc[c] # "idle" => num[c] \in Waits /\ alive[c] = num[c]
  <2>1. num[c] \in Nums /\ resumes[c] \in [Waits -> Nat]
    BY <1>a DEF AwaitTypeOK
  <2> QED
    BY <1>a, <2>1, Current, WaitNumbers DEF CoroInv
<1>p. /\ pc[c] = "idle" /\ susp[c] = "none" /\ Free /\ num[c] \in Int
      /\ num'[c] = num[c] + 1 /\ num'[c] \in Waits /\ alive'[c] = num'[c]
  BY <1>a, WaitNumbers DEF AwaitTypeOK, Await, Free
<1>q. \/ /\ pc'[c] = "resumed" /\ UNCHANGED <<ops, susp>>
      \/ /\ pc'[c] = "suspended" /\ ~(c \in Stoppable /\ stopReq[c])
         /\ ops'[c][num'[c]] = "pending"
         /\ \A m \in Waits : m # num'[c] => ops'[c][m] = ops[c][m]
         /\ susp'[c] = "timer" => c \in Expiring
         /\ susp'[c] = "stop" => c \in Stoppable \ Expiring
         /\ susp'[c] \in {"none", "timer", "stop"}
  <2>1. CASE c \in Stoppable /\ stopReq[c]
    BY <1>a, <2>1 DEF AwaitTypeOK, Await
  <2>2. CASE ~(c \in Stoppable /\ stopReq[c])
    <3>1. ops' = [ops EXCEPT ![c][num'[c]] = "pending"] /\ pc' = [pc EXCEPT ![c] = "suspended"]
      BY <1>a, <2>2 DEF AwaitTypeOK, Await
    <3>2. /\ ops'[c][num'[c]] = "pending" /\ pc'[c] = "suspended"
          /\ \A m \in Waits : m # num'[c] => ops'[c][m] = ops[c][m]
      BY <1>a, <1>p, <3>1, SetsOp DEF OpStates, AwaitTypeOK
    <3> QED
      BY <1>a, <2>2, <3>2 DEF AwaitTypeOK, Await
  <2> QED
    BY <2>1, <2>2
<1>r. UNCHANGED <<tm, reached, cb, inCb, stopReq, resumes, lost, stale>>
  BY DEF Await
<1> USE DEF CoroInv, Good
<1>1. OneHandlerResumes'
  BY <1>a, <1>b, <1>p, <1>q, <1>r DEF OneHandlerResumes, Unflagged, Stoppable, OneThreadInv
<1>2. Good' => AwaiterInv(c)'
  BY <1>a, <1>b, <1>p, <1>q, <1>r DEF AwaiterInv
<1>3. Good' => KindInv(c)'
  BY <1>a, <1>b, <1>p, <1>q, <1>r DEF KindInv, Stoppable
<1>4. Good' => FutureInv(c)'
  BY <1>a, <1>b, <1>p, <1>q, <1>r DEF AwaiterInv, FutureInv
<1>5. Good' => PendingInv(c)'
  BY <1>a, <1>b, <1>p, <1>q, <1>r DEF AwaiterInv, PendingInv
<1>6. Good' => FlagInv(c)'
  BY <1>a, <1>b, <1>p, <1>q, <1>r DEF AwaiterInv, FlagInv, UnsetInv
<1>7. Good' => UnsetInv(c)'
  BY <1>a, <1>b, <1>p, <1>q, <1>r DEF AwaiterInv, FutureInv, FlagInv, UnsetInv
<1>8. Good' => PlainInv(c)'
  <2>1. c \notin Expiring \cup Stoppable =>
          \A n \in Waits : ops[c][n] \notin {"pending", "queued", "entered"}
    BY <1>a, <1>p DEF PlainInv
  <2>2. resumes[c][num'[c]] = 0
    <3>1. num'[c] \in Waits /\ num'[c] > num[c]
      BY <1>b, <1>p
    <3> QED
      BY <1>a, <3>1 DEF FutureInv
  <2> QED
    BY <1>a, <1>q, <1>r, <2>1, <2>2 DEF PlainInv, Stoppable
<1>9. Good' => OneThreadInv(c)'
  BY <1>a, <1>b, <1>p, <1>q, <1>r DEF AwaiterInv, KindInv, OneThreadInv, Free, HandlerActive
<1> QED
  BY <1>1, <1>2, <1>3, <1>4, <1>5, <1>6, <1>7, <1>8, <1>9

LEMMA ArmTimerKeeps ==
  ASSUME AwaitInv, Good, mode' = mode, NEW c \in Coros, ArmTimer(c)
  PROVE  OneHandlerResumes' /\ (Good' => CoroInv(c)')
<1>a. AwaitTypeOK /\ OneHandlerResumes /\ CoroInv(c) /\ mode' = mode /\ Good
  BY DEF AwaitInv
<1>b. /\ num[c] \in Int /\ \A m \in Waits : m \in Int /\ m > 0 /\ resumes[c][m] \in Nat
      /\ pc[c] # "idle" => num[c] \in Waits /\ alive[c] = num[c]
  <2>1. num[c] \in Nums /\ resumes[c] \in [Waits -> Nat]
    BY <1>a DEF AwaitTypeOK
  <2> QED
    BY <1>a, <2>1, Current, WaitNumbers DEF CoroInv
<1>p. /\ susp[c] = "timer" /\ num[c] \in Waits /\ num[c] \in Int
      /\ susp'[c] = IF c \in Stoppable THEN "stop" ELSE "none"
      /\ tm' = [tm EXCEPT ![c][num[c]] = "armed"]
  BY <1>a, Current, WaitNumbers DEF AwaitTypeOK, ArmTimer, AwaiterInv, CoroInv
<1>q. /\ tm'[c][num[c]] = "armed"
      /\ \A m \in Waits : m # num[c] => tm'[c][m] = tm[c][m]
  BY <1>a, <1>p DEF AwaitTypeOK
<1>r. UNCHANGED <<pc, num, alive, ops, reached, cb, inCb, stopReq, resumes, lost, stale>>
  BY DEF ArmTimer
<1> USE DEF CoroInv, Good
<1>1. OneHandlerResumes'
  BY <1>a, <1>b, <1>p, <1>q, <1>r DEF OneHandlerResumes, Unflagged, Stoppable, OneThreadInv
<1>2. Good' => AwaiterInv(c)'
  BY <1>a, <1>b, <1>p, <1>q, <1>r DEF AwaiterInv
<1>3. Good' => KindInv(c)'
  BY <1>a, <1>b, <1>p, <1>q, <1>r DEF KindInv, Stoppable
<1>4. Good' => FutureInv(c)'
  BY <1>a, <1>b, <1>p, <1>q, <1>r DEF AwaiterInv, FutureInv
<1>5. Good' => PendingInv(c)'
  BY <1>a, <1>b, <1>p, <1>q, <1>r DEF AwaiterInv, PendingInv
<1>6. Good' => FlagInv(c)'
  BY <1>a, <1>b, <1>p, <1>q, <1>r DEF AwaiterInv, FlagInv, UnsetInv
<1>7. Good' => UnsetInv(c)'
  BY <1>a, <1>b, <1>p, <1>q, <1>r DEF AwaiterInv, FutureInv, FlagInv, UnsetInv
<1>8. Good' => PlainInv(c)'
  BY <1>a, <1>b, <1>p, <1>q, <1>r DEF FutureInv, PlainInv, Stoppable, KindInv
<1>9. Good' => OneThreadInv(c)'
  BY <1>a, <1>b, <1>p, <1>q, <1>r DEF AwaiterInv, KindInv, OneThreadInv, Free, HandlerActive
<1> QED
  BY <1>1, <1>2, <1>3, <1>4, <1>5, <1>6, <1>7, <1>8, <1>9

LEMMA RegisterStopKeeps ==
  ASSUME AwaitInv, Good, mode' = mode, NEW c \in Coros, RegisterStop(c)
  PROVE  OneHandlerResumes' /\ (Good' => CoroInv(c)')
<1>a. AwaitTypeOK /\ OneHandlerResumes /\ CoroInv(c) /\ mode' = mode /\ Good
  BY DEF AwaitInv
<1>b. /\ num[c] \in Int /\ \A m \in Waits : m \in Int /\ m > 0 /\ resumes[c][m] \in Nat
      /\ pc[c] # "idle" => num[c] \in Waits /\ alive[c] = num[c]
  <2>1. num[c] \in Nums /\ resumes[c] \in [Waits -> Nat]
    BY <1>a DEF AwaitTypeOK
  <2> QED
    BY <1>a, <2>1, Current, WaitNumbers DEF CoroInv
<1>p. /\ susp[c] = "stop" /\ inCb'[c] = IF stopReq[c] THEN num[c] ELSE inCb[c]
      /\ cb'[c] = IF stopReq[c] THEN "running" ELSE "registered"
      /\ susp'[c] = IF stopReq[c] THEN "inline" ELSE "own"
  BY <1>a DEF AwaitTypeOK, RegisterStop
<1>r. UNCHANGED <<pc, num, alive, ops, tm, reached, stopReq, resumes, lost, stale>>
  BY DEF RegisterStop
<1> USE DEF CoroInv, Good
<1>1. OneHandlerResumes'
  BY <1>a, <1>b, <1>p, <1>r DEF OneHandlerResumes, Unflagged, Stoppable, OneThreadInv
<1>2. Good' => AwaiterInv(c)'
  BY <1>a, <1>b, <1>p, <1>r DEF AwaiterInv
<1>3. Good' => KindInv(c)'
  BY <1>a, <1>b, <1>p, <1>r DEF KindInv, Stoppable
<1>4. Good' => FutureInv(c)'
  BY <1>a, <1>b, <1>p, <1>r DEF AwaiterInv, FutureInv
<1>5. Good' => PendingInv(c)'
  BY <1>a, <1>b, <1>p, <1>r DEF AwaiterInv, PendingInv
<1>6. Good' => FlagInv(c)'
  BY <1>a, <1>b, <1>p, <1>r DEF AwaiterInv, FlagInv, UnsetInv
<1>7. Good' => UnsetInv(c)'
  BY <1>a, <1>b, <1>p, <1>r DEF AwaiterInv, FutureInv, FlagInv, UnsetInv
<1>8. Good' => PlainInv(c)'
  BY <1>a, <1>b, <1>p, <1>r DEF FutureInv, PlainInv, Stoppable, KindInv
<1>9. Good' => OneThreadInv(c)'
  BY <1>a, <1>b, <1>p, <1>r DEF AwaiterInv, KindInv, OneThreadInv, Free, HandlerActive
<1> QED
  BY <1>1, <1>2, <1>3, <1>4, <1>5, <1>6, <1>7, <1>8, <1>9

LEMMA OwnStopKeeps ==
  ASSUME AwaitInv, Good, mode' = mode, NEW c \in Coros, OwnStop(c)
  PROVE  OneHandlerResumes' /\ (Good' => CoroInv(c)')
<1>a. AwaitTypeOK /\ OneHandlerResumes /\ CoroInv(c) /\ mode' = mode /\ Good
  BY DEF AwaitInv
<1>b. /\ num[c] \in Int /\ \A m \in Waits : m \in Int /\ m > 0 /\ resumes[c][m] \in Nat
      /\ pc[c] # "idle" => num[c] \in Waits /\ alive[c] = num[c]
  <2>1. num[c] \in Nums /\ resumes[c] \in [Waits -> Nat]
    BY <1>a DEF AwaitTypeOK
  <2> QED
    BY <1>a, <2>1, Current, WaitNumbers DEF CoroInv
<1>p. susp'[c] = "none" /\ susp[c] # "none"
  BY <1>a DEF AwaitTypeOK, OwnStop
<1>r. UNCHANGED <<pc, num, alive, ops, tm, reached, cb, inCb, stopReq, resumes, lost, stale>>
  BY DEF OwnStop
<1> USE DEF CoroInv, Good
<1>1. OneHandlerResumes'
  BY <1>a, <1>b, <1>p, <1>r DEF OneHandlerResumes, Unflagged, Stoppable, OneThreadInv
<1>2. Good' => AwaiterInv(c)'
  BY <1>a, <1>b, <1>p, <1>r DEF AwaiterInv
<1>3. Good' => KindInv(c)'
  BY <1>a, <1>b, <1>p, <1>r DEF KindInv, Stoppable
<1>4. Good' => FutureInv(c)'
  BY <1>a, <1>b, <1>p, <1>r DEF AwaiterInv, FutureInv
<1>5. Good' => PendingInv(c)'
  BY <1>a, <1>b, <1>p, <1>r DEF AwaiterInv, PendingInv
<1>6. Good' => FlagInv(c)'
  BY <1>a, <1>b, <1>p, <1>r DEF AwaiterInv, FlagInv, UnsetInv
<1>7. Good' => UnsetInv(c)'
  BY <1>a, <1>b, <1>p, <1>r DEF AwaiterInv, FutureInv, FlagInv, UnsetInv
<1>8. Good' => PlainInv(c)'
  BY <1>a, <1>b, <1>p, <1>r DEF FutureInv, PlainInv, Stoppable, KindInv
<1>9. Good' => OneThreadInv(c)'
  BY <1>a, <1>b, <1>p, <1>r DEF AwaiterInv, KindInv, OneThreadInv, Free, HandlerActive
<1> QED
  BY <1>1, <1>2, <1>3, <1>4, <1>5, <1>6, <1>7, <1>8, <1>9

LEMMA CompletionEnterKeeps ==
  ASSUME AwaitInv, Good, mode' = mode, NEW c \in Coros, NEW n \in Waits, CompletionEnter(c, n),
         c \in Expiring => <<c, n>> \notin reached
  PROVE  OneHandlerResumes' /\ (Good' => CoroInv(c)')
<1>a. AwaitTypeOK /\ OneHandlerResumes /\ CoroInv(c) /\ mode' = mode /\ Good
  BY DEF AwaitInv
<1>b. /\ num[c] \in Int /\ \A m \in Waits : m \in Int /\ m > 0 /\ resumes[c][m] \in Nat
      /\ pc[c] # "idle" => num[c] \in Waits /\ alive[c] = num[c]
  <2>1. num[c] \in Nums /\ resumes[c] \in [Waits -> Nat]
    BY <1>a DEF AwaitTypeOK
  <2> QED
    BY <1>a, <2>1, Current, WaitNumbers DEF CoroInv
<1>m. ops[c][n] = "queued" /\ (c \in Expiring => <<c, n>> \notin reached)
  BY DEF CompletionEnter
<1>p. /\ Touch(c, n) /\ Free
      /\ ops' = [ops EXCEPT ![c][n] = "entered"]
      /\ \/ c \in Expiring /\ reached' = reached \cup {<<c, n>>} /\ CancelTimer(c, n)
         \/ c \notin Expiring /\ UNCHANGED <<reached, tm>>
  BY DEF CompletionEnter
<1>q. /\ ops'[c][n] = "entered" /\ \A m \in Waits \ {n} : ops'[c][m] = ops[c][m]
      /\ stale' \subseteq stale \cup {c} /\ (stale' = stale \/ alive[c] # n)
      /\ stale' = {} => alive[c] = n
      /\ \A m \in Waits : tm'[c][m] = tm[c][m] \/ (tm[c][m] = "armed" /\ tm'[c][m] = "done")
      /\ reached' = IF c \in Expiring THEN reached \cup {<<c, n>>} ELSE reached
  <2>1. \A m \in Waits : tm'[c][m] = tm[c][m] \/ (tm[c][m] = "armed" /\ tm'[c][m] = "done")
    BY <1>a, <1>p, CancelsTimer
  <2>2. /\ stale' \subseteq stale \cup {c} /\ (stale' = stale \/ alive[c] # n)
        /\ stale' = {} => alive[c] = n
    BY <1>a, <1>p, Touches DEF AwaitTypeOK
  <2>3. ops'[c][n] = "entered" /\ \A m \in Waits \ {n} : ops'[c][m] = ops[c][m]
    BY <1>a, <1>p DEF AwaitTypeOK
  <2> QED
    BY <1>p, <2>1, <2>2, <2>3
<1>r. UNCHANGED <<pc, num, alive, susp, cb, inCb, stopReq, resumes, lost>>
  BY DEF CompletionEnter
<1> USE DEF CoroInv, Good
<1>1. OneHandlerResumes'
  <2>1. Unflagged' = Unflagged
    BY <1>a DEF Unflagged, Stoppable
  <2>2. c \in Expiring => alive[c] = n
    BY <1>a, <1>b, <1>m DEF FutureInv, FlagInv, UnsetInv
  <2>3. c \notin Expiring \cup Stoppable => alive[c] = n
    BY <1>a, <1>b, <1>m DEF KindInv, PlainInv
  <2>4. c \notin Unflagged => alive[c] = n
    BY <2>2, <2>3 DEF Unflagged
  <2>5. stale' \subseteq Unflagged
    BY <1>a, <1>q, <2>4
  <2>6. \A d \in Coros \ Unflagged, m \in Waits : resumes'[d][m] <= 1
    BY <1>a, <1>r DEF OneHandlerResumes
  <2> QED
    BY <1>a, <1>r, <2>1, <2>5, <2>6 DEF OneHandlerResumes
<1>2. Good' => AwaiterInv(c)'
  BY <1>a, <1>b, <1>m, <1>p, <1>q, <1>r DEF AwaiterInv
<1>3. Good' => KindInv(c)'
  BY <1>a, <1>b, <1>m, <1>p, <1>q, <1>r DEF KindInv, Stoppable
<1>4. Good' => FutureInv(c)'
  BY <1>a, <1>b, <1>m, <1>p, <1>q, <1>r DEF AwaiterInv, FutureInv
<1>5. Good' => PendingInv(c)'
  BY <1>a, <1>b, <1>m, <1>p, <1>q, <1>r DEF AwaiterInv, PendingInv
<1>6. Good' => FlagInv(c)'
  BY <1>a, <1>b, <1>m, <1>p, <1>q, <1>r DEF AwaiterInv, FlagInv, UnsetInv
<1>7. Good' => UnsetInv(c)'
  BY <1>a, <1>b, <1>m, <1>p, <1>q, <1>r DEF AwaiterInv, FutureInv, FlagInv, UnsetInv
<1>8. Good' => PlainInv(c)'
  BY <1>a, <1>b, <1>m, <1>q, <1>r DEF FutureInv, PlainInv, Stoppable, KindInv
<1>9. Good' => OneThreadInv(c)'
  BY <1>a, <1>b, <1>m, <1>p, <1>q, <1>r DEF AwaiterInv, KindInv, OneThreadInv, Free, HandlerActive
<1> QED
  BY <1>1, <1>2, <1>3, <1>4, <1>5, <1>6, <1>7, <1>8, <1>9

LEMMA CompletionFinishKeeps ==
  ASSUME AwaitInv, Good, mode' = mode, NEW c \in Coros, NEW n \in Waits, CompletionFinish(c, n)
  PROVE  OneHandlerResumes' /\ (Good' => CoroInv(c)')
<1>a. AwaitTypeOK /\ OneHandlerResumes /\ CoroInv(c) /\ mode' = mode /\ Good
  BY DEF AwaitInv
<1>b. /\ num[c] \in Int /\ \A m \in Waits : m \in Int /\ m > 0 /\ resumes[c][m] \in Nat
      /\ pc[c] # "idle" => num[c] \in Waits /\ alive[c] = num[c]
  <2>1. num[c] \in Nums /\ resumes[c] \in [Waits -> Nat]
    BY <1>a DEF AwaitTypeOK
  <2> QED
    BY <1>a, <2>1, Current, WaitNumbers DEF CoroInv
<1>p. ops[c][n] = "entered" /\ ops' = [ops EXCEPT ![c][n] = "done"]
  BY DEF CompletionFinish
<1>q. /\ ops'[c][n] = "done" /\ \A m \in Waits \ {n} : ops'[c][m] = ops[c][m]
      /\ stale' \subseteq stale \cup {c} /\ (stale' = stale \/ alive[c] # n)
      /\ stale' = {} => alive[c] = n
      /\ pc'[c] = "resumed" /\ resumes'[c][n] = resumes[c][n] + 1
      /\ \A m \in Waits \ {n} : resumes'[c][m] = resumes[c][m]
      /\ \A d \in Coros \ {c} : resumes'[d] = resumes[d]
      /\ cb'[c] = cb[c] \/ (cb'[c] = "none" /\ cb[c] \notin {"running", "entered"})
  <2>1. /\ stale' \subseteq stale \cup {c} /\ (stale' = stale \/ alive[c] # n)
        /\ stale' = {} => alive[c] = n
    BY <1>a, Touches DEF AwaitTypeOK, CompletionFinish
  <2>2. ops'[c][n] = "done" /\ \A m \in Waits \ {n} : ops'[c][m] = ops[c][m]
    BY <1>a, <1>p DEF AwaitTypeOK
  <2>3. /\ pc'[c] = "resumed" /\ resumes'[c][n] = resumes[c][n] + 1
        /\ \A m \in Waits \ {n} : resumes'[c][m] = resumes[c][m]
        /\ \A d \in Coros \ {c} : resumes'[d] = resumes[d]
    BY <1>a, Resumes DEF CompletionFinish
  <2>4. cb'[c] = cb[c] \/ (cb'[c] = "none" /\ cb[c] \notin {"running", "entered"})
    BY <1>a, ResetsStop DEF CompletionFinish
  <2> QED
    BY <2>1, <2>2, <2>3, <2>4
<1>r. UNCHANGED <<num, alive, susp, tm, reached, inCb, stopReq, lost>>
  BY DEF CompletionFinish
<1> USE DEF CoroInv, Good
<1>1. OneHandlerResumes'
  <2>1. Unflagged' = Unflagged
    BY <1>a DEF Unflagged, Stoppable
  <2>2. c \in Expiring => alive[c] = n /\ resumes[c][n] = 0
    BY <1>a, <1>b, <1>p DEF FutureInv, FlagInv, UnsetInv
  <2>3. c \notin Expiring \cup Stoppable => alive[c] = n /\ resumes[c][n] = 0
    BY <1>a, <1>b, <1>p DEF KindInv, PlainInv
  <2>4. c \notin Unflagged => alive[c] = n /\ resumes[c][n] = 0
    BY <2>2, <2>3 DEF Unflagged
  <2>5. stale' \subseteq Unflagged
    BY <1>a, <1>q, <2>4
  <2>6. \A d \in Coros \ Unflagged, m \in Waits : resumes'[d][m] <= 1
    <3>1. \A m \in Waits : c \notin Unflagged => resumes'[c][m] <= 1
      BY <1>a, <1>q, <2>4 DEF OneHandlerResumes
    <3> QED
      BY <1>a, <1>q, <3>1 DEF OneHandlerResumes
  <2> QED
    BY <1>a, <1>r, <2>1, <2>5, <2>6 DEF OneHandlerResumes
<1>2. Good' => AwaiterInv(c)'
  BY <1>a, <1>b, <1>p, <1>q, <1>r DEF AwaiterInv
<1>3. Good' => KindInv(c)'
  BY <1>a, <1>b, <1>p, <1>q, <1>r DEF KindInv, Stoppable
<1>4. Good' => FutureInv(c)'
  BY <1>a, <1>b, <1>p, <1>q, <1>r DEF AwaiterInv, FutureInv
<1>5. Good' => PendingInv(c)'
  BY <1>a, <1>b, <1>p, <1>q, <1>r DEF AwaiterInv, PendingInv
<1>6. Good' => FlagInv(c)'
  BY <1>a, <1>b, <1>p, <1>q, <1>r DEF AwaiterInv, FlagInv, UnsetInv
<1>7. Good' => UnsetInv(c)'
  BY <1>a, <1>b, <1>p, <1>q, <1>r DEF AwaiterInv, FutureInv, FlagInv, UnsetInv
<1>8. Good' => PlainInv(c)'
  BY <1>a, <1>b, <1>p, <1>q, <1>r DEF FutureInv, PlainInv, Stoppable, KindInv
<1>9. Good' => OneThreadInv(c)'
  BY <1>a, <1>b, <1>p, <1>q, <1>r DEF AwaiterInv, KindInv, OneThreadInv, Free, HandlerActive
<1> QED
  BY <1>1, <1>2, <1>3, <1>4, <1>5, <1>6, <1>7, <1>8, <1>9

LEMMA TimerEnterKeeps ==
  ASSUME AwaitInv, Good, mode' = mode, NEW c \in Coros, NEW n \in Waits, TimerEnter(c, n),
         <<c, n>> \notin reached
  PROVE  OneHandlerResumes' /\ (Good' => CoroInv(c)')
<1>a. AwaitTypeOK /\ OneHandlerResumes /\ CoroInv(c) /\ mode' = mode /\ Good
  BY DEF AwaitInv
<1>b. /\ num[c] \in Int /\ \A m \in Waits : m \in Int /\ m > 0 /\ resumes[c][m] \in Nat
      /\ pc[c] # "idle" => num[c] \in Waits /\ alive[c] = num[c]
  <2>1. num[c] \in Nums /\ resumes[c] \in [Waits -> Nat]
    BY <1>a DEF AwaitTypeOK
  <2> QED
    BY <1>a, <2>1, Current, WaitNumbers DEF CoroInv
<1>m. tm[c][n] = "expired" /\ <<c, n>> \notin reached
  BY DEF TimerEnter
<1>p. /\ Free
      /\ tm' = [tm EXCEPT ![c][n] = "entered"]
      /\ reached' = reached \cup {<<c, n>>} /\ Touch(c, n)
  BY DEF TimerEnter
<1>q. /\ tm'[c][n] = "entered" /\ \A m \in Waits \ {n} : tm'[c][m] = tm[c][m]
      /\ stale' \subseteq stale \cup {c} /\ (stale' = stale \/ alive[c] # n)
      /\ stale' = {} => alive[c] = n
  <2>1. /\ stale' \subseteq stale \cup {c} /\ (stale' = stale \/ alive[c] # n)
        /\ stale' = {} => alive[c] = n
    BY <1>a, <1>p, Touches DEF AwaitTypeOK
  <2>2. tm'[c][n] = "entered" /\ \A m \in Waits \ {n} : tm'[c][m] = tm[c][m]
    BY <1>a, <1>p DEF AwaitTypeOK
  <2> QED
    BY <2>1, <2>2
<1>r. UNCHANGED <<pc, num, alive, susp, ops, cb, inCb, stopReq, resumes, lost>>
  BY DEF TimerEnter
<1> USE DEF CoroInv, Good
<1>1. OneHandlerResumes'
  <2>1. Unflagged' = Unflagged
    BY <1>a DEF Unflagged, Stoppable
  <2>2. c \in Expiring => alive[c] = n
    BY <1>a, <1>b, <1>m DEF FutureInv, FlagInv, UnsetInv
  <2>3. c \notin Expiring \cup Stoppable => alive[c] = n
    BY <1>a, <1>b, <1>m DEF KindInv, PlainInv
  <2>4. c \notin Unflagged => alive[c] = n
    BY <2>2, <2>3 DEF Unflagged
  <2>5. stale' \subseteq Unflagged
    BY <1>a, <1>q, <2>4
  <2>6. \A d \in Coros \ Unflagged, m \in Waits : resumes'[d][m] <= 1
    BY <1>a, <1>r DEF OneHandlerResumes
  <2> QED
    BY <1>a, <1>r, <2>1, <2>5, <2>6 DEF OneHandlerResumes
<1>2. Good' => AwaiterInv(c)'
  BY <1>a, <1>b, <1>m, <1>p, <1>q, <1>r DEF AwaiterInv
<1>3. Good' => KindInv(c)'
  BY <1>a, <1>b, <1>m, <1>p, <1>q, <1>r DEF KindInv, Stoppable
<1>4. Good' => FutureInv(c)'
  BY <1>a, <1>b, <1>m, <1>p, <1>q, <1>r DEF AwaiterInv, FutureInv
<1>5. Good' => PendingInv(c)'
  BY <1>a, <1>b, <1>m, <1>p, <1>q, <1>r DEF AwaiterInv, PendingInv
<1>6. Good' => FlagInv(c)'
  BY <1>a, <1>b, <1>m, <1>p, <1>q, <1>r DEF AwaiterInv, FlagInv, UnsetInv
<1>7. Good' => UnsetInv(c)'
  BY <1>a, <1>b, <1>m, <1>p, <1>q, <1>r DEF AwaiterInv, FutureInv, FlagInv, UnsetInv
<1>8. Good' => PlainInv(c)'
  BY <1>a, <1>b, <1>m, <1>p, <1>q, <1>r DEF FutureInv, PlainInv, Stoppable, KindInv
<1>9. Good' => OneThreadInv(c)'
  BY <1>a, <1>b, <1>m, <1>p, <1>q, <1>r DEF AwaiterInv, KindInv, OneThreadInv, Free, HandlerActive
<1> QED
  BY <1>1, <1>2, <1>3, <1>4, <1>5, <1>6, <1>7, <1>8, <1>9

LEMMA TimerFinishKeeps ==
  ASSUME AwaitInv, Good, mode' = mode, NEW c \in Coros, NEW n \in Waits, TimerFinish(c, n)
  PROVE  OneHandlerResumes' /\ (Good' => CoroInv(c)')
<1>a. AwaitTypeOK /\ OneHandlerResumes /\ CoroInv(c) /\ mode' = mode /\ Good
  BY DEF AwaitInv
<1>b. /\ num[c] \in Int /\ \A m \in Waits : m \in Int /\ m > 0 /\ resumes[c][m] \in Nat
      /\ pc[c] # "idle" => num[c] \in Waits /\ alive[c] = num[c]
  <2>1. num[c] \in Nums /\ resumes[c] \in [Waits -> Nat]
    BY <1>a DEF AwaitTypeOK
  <2> QED
    BY <1>a, <2>1, Current, WaitNumbers DEF CoroInv
<1>p. tm[c][n] = "entered" /\ tm' = [tm EXCEPT ![c][n] = "done"]
  BY DEF TimerFinish
<1>q. /\ tm'[c][n] = "done" /\ \A m \in Waits \ {n} : tm'[c][m] = tm[c][m]
      /\ stale' \subseteq stale \cup {c} /\ (stale' = stale \/ alive[c] # n)
      /\ stale' = {} => alive[c] = n
      /\ pc'[c] = "resumed" /\ resumes'[c][n] = resumes[c][n] + 1
      /\ \A m \in Waits \ {n} : resumes'[c][m] = resumes[c][m]
      /\ \A d \in Coros \ {c} : resumes'[d] = resumes[d]
      /\ cb'[c] = cb[c] \/ (cb'[c] = "none" /\ cb[c] \notin {"running", "entered"})
  <2>1. /\ stale' \subseteq stale \cup {c} /\ (stale' = stale \/ alive[c] # n)
        /\ stale' = {} => alive[c] = n
    BY <1>a, Touches DEF AwaitTypeOK, TimerFinish
  <2>2. tm'[c][n] = "done" /\ \A m \in Waits \ {n} : tm'[c][m] = tm[c][m]
    BY <1>a, <1>p DEF AwaitTypeOK
  <2>3. /\ pc'[c] = "resumed" /\ resumes'[c][n] = resumes[c][n] + 1
        /\ \A m \in Waits \ {n} : resumes'[c][m] = resumes[c][m]
        /\ \A d \in Coros \ {c} : resumes'[d] = resumes[d]
    BY <1>a, Resumes DEF TimerFinish
  <2>4. cb'[c] = cb[c] \/ (cb'[c] = "none" /\ cb[c] \notin {"running", "entered"})
    BY <1>a, ResetsStop DEF TimerFinish
  <2> QED
    BY <2>1, <2>2, <2>3, <2>4
<1>s. \A m \in Waits : /\ ops[c][m] = "pending" => ops'[c][m] = "aborted"
                       /\ ops[c][m] # "pending" => ops'[c][m] = ops[c][m]
  BY <1>a, CancelsAll DEF TimerFinish
<1>r. UNCHANGED <<num, alive, susp, reached, inCb, stopReq, lost>>
  BY DEF TimerFinish
<1> USE DEF CoroInv, Good
<1>1. OneHandlerResumes'
  <2>1. Unflagged' = Unflagged
    BY <1>a DEF Unflagged, Stoppable
  <2>2. c \in Expiring => alive[c] = n /\ resumes[c][n] = 0
    BY <1>a, <1>b, <1>p DEF FutureInv, FlagInv, UnsetInv
  <2>3. c \notin Expiring \cup Stoppable => alive[c] = n /\ resumes[c][n] = 0
    BY <1>a, <1>b, <1>p DEF KindInv, PlainInv
  <2>4. c \notin Unflagged => alive[c] = n /\ resumes[c][n] = 0
    BY <2>2, <2>3 DEF Unflagged
  <2>5. stale' \subseteq Unflagged
    BY <1>a, <1>q, <2>4
  <2>6. \A d \in Coros \ Unflagged, m \in Waits : resumes'[d][m] <= 1
    <3>1. \A m \in Waits : c \notin Unflagged => resumes'[c][m] <= 1
      BY <1>a, <1>q, <2>4 DEF OneHandlerResumes
    <3> QED
      BY <1>a, <1>q, <3>1 DEF OneHandlerResumes
  <2> QED
    BY <1>a, <1>r, <2>1, <2>5, <2>6 DEF OneHandlerResumes
<1>2. Good' => AwaiterInv(c)'
  BY <1>a, <1>b, <1>p, <1>q, <1>s, <1>r DEF AwaiterInv
<1>3. Good' => KindInv(c)'
  BY <1>a, <1>b, <1>p, <1>q, <1>s, <1>r DEF KindInv, Stoppable
<1>4. Good' => FutureInv(c)'
  BY <1>a, <1>b, <1>p, <1>q, <1>s, <1>r DEF AwaiterInv, FutureInv
<1>5. Good' => PendingInv(c)'
  BY <1>a, <1>b, <1>p, <1>q, <1>s, <1>r DEF AwaiterInv, PendingInv
<1>6. Good' => FlagInv(c)'
  BY <1>a, <1>b, <1>p, <1>q, <1>s, <1>r DEF AwaiterInv, FlagInv, UnsetInv
<1>7. Good' => UnsetInv(c)'
  BY <1>a, <1>b, <1>p, <1>q, <1>s, <1>r DEF AwaiterInv, FutureInv, FlagInv, UnsetInv
<1>8. Good' => PlainInv(c)'
  BY <1>a, <1>b, <1>p, <1>q, <1>s, <1>r DEF FutureInv, PlainInv, Stoppable, KindInv
<1>9. Good' => OneThreadInv(c)'
  BY <1>a, <1>b, <1>p, <1>q, <1>s, <1>r DEF AwaiterInv, KindInv, OneThreadInv, Free, HandlerActive
<1> QED
  BY <1>1, <1>2, <1>3, <1>4, <1>5, <1>6, <1>7, <1>8, <1>9

LEMMA RequestStopKeeps ==
  ASSUME AwaitInv, Good, mode' = mode, NEW c \in Coros, RequestStop(c)
  PROVE  OneHandlerResumes' /\ (Good' => CoroInv(c)')
<1>a. AwaitTypeOK /\ OneHandlerResumes /\ CoroInv(c) /\ mode' = mode /\ Good
  BY DEF AwaitInv
<1>b. /\ num[c] \in Int /\ \A m \in Waits : m \in Int /\ m > 0 /\ resumes[c][m] \in Nat
      /\ pc[c] # "idle" => num[c] \in Waits /\ alive[c] = num[c]
  <2>1. num[c] \in Nums /\ resumes[c] \in [Waits -> Nat]
    BY <1>a DEF AwaitTypeOK
  <2> QED
    BY <1>a, <2>1, Current, WaitNumbers DEF CoroInv
<1>p. /\ c \in Stoppable /\ Free
      /\ cb'[c] = IF cb[c] = "registered" THEN "running" ELSE cb[c]
      /\ inCb'[c] = IF cb[c] = "registered" THEN alive[c] ELSE inCb[c]
  BY <1>a DEF AwaitTypeOK, RequestStop
<1>r. UNCHANGED <<pc, num, alive, susp, ops, tm, reached, resumes, lost, stale>>
  BY DEF RequestStop
<1> USE DEF CoroInv, Good
<1>1. OneHandlerResumes'
  BY <1>a, <1>b, <1>p, <1>r DEF OneHandlerResumes, Unflagged, Stoppable, OneThreadInv
<1>2. Good' => AwaiterInv(c)'
  BY <1>a, <1>b, <1>p, <1>r DEF AwaiterInv
<1>3. Good' => KindInv(c)'
  BY <1>a, <1>b, <1>p, <1>r DEF KindInv, Stoppable
<1>4. Good' => FutureInv(c)'
  BY <1>a, <1>b, <1>p, <1>r DEF AwaiterInv, FutureInv
<1>5. Good' => PendingInv(c)'
  BY <1>a, <1>b, <1>p, <1>r DEF AwaiterInv, PendingInv
<1>6. Good' => FlagInv(c)'
  BY <1>a, <1>b, <1>p, <1>r DEF AwaiterInv, FlagInv, UnsetInv
<1>7. Good' => UnsetInv(c)'
  BY <1>a, <1>b, <1>p, <1>r DEF AwaiterInv, FutureInv, FlagInv, UnsetInv
<1>8. Good' => PlainInv(c)'
  BY <1>a, <1>b, <1>p, <1>r DEF FutureInv, PlainInv, Stoppable, KindInv
<1>9. Good' => OneThreadInv(c)'
  BY <1>a, <1>b, <1>p, <1>r DEF AwaiterInv, KindInv, OneThreadInv, Free, HandlerActive
<1> QED
  BY <1>1, <1>2, <1>3, <1>4, <1>5, <1>6, <1>7, <1>8, <1>9

LEMMA StopEnterKeeps ==
  ASSUME AwaitInv, Good, mode' = mode, NEW c \in Coros, StopEnter(c),
         c \in Expiring => <<c, inCb[c]>> \notin reached
  PROVE  OneHandlerResumes' /\ (Good' => CoroInv(c)')
<1>a. AwaitTypeOK /\ OneHandlerResumes /\ CoroInv(c) /\ mode' = mode /\ Good
  BY DEF AwaitInv
<1>b. /\ num[c] \in Int /\ \A m \in Waits : m \in Int /\ m > 0 /\ resumes[c][m] \in Nat
      /\ pc[c] # "idle" => num[c] \in Waits /\ alive[c] = num[c]
  <2>1. num[c] \in Nums /\ resumes[c] \in [Waits -> Nat]
    BY <1>a DEF AwaitTypeOK
  <2> QED
    BY <1>a, <2>1, Current, WaitNumbers DEF CoroInv
<1>p. /\ cb[c] = "running" /\ cb' = [cb EXCEPT ![c] = "entered"]
      /\ \/ c \in Expiring /\ <<c, inCb[c]>> \notin reached
            /\ reached' = reached \cup {<<c, inCb[c]>>} /\ CancelTimer(c, inCb[c])
         \/ c \notin Expiring /\ UNCHANGED <<reached, tm>>
  BY DEF StopEnter
<1>q. /\ cb'[c] = "entered" /\ inCb[c] \in Waits
      /\ \A m \in Waits : tm'[c][m] = tm[c][m] \/ (tm[c][m] = "armed" /\ tm'[c][m] = "done")
  <2>1. inCb[c] \in Waits
    BY <1>a, <1>p, Current DEF CoroInv
  <2> QED
    BY <1>a, <1>p, <2>1, CancelsTimer DEF AwaitTypeOK
<1>r. UNCHANGED <<pc, num, alive, susp, ops, inCb, stopReq, resumes, lost, stale>>
  BY DEF StopEnter
<1> USE DEF CoroInv, Good
<1>1. OneHandlerResumes'
  BY <1>a, <1>b, <1>p, <1>q, <1>r DEF OneHandlerResumes, Unflagged, Stoppable, OneThreadInv
<1>2. Good' => AwaiterInv(c)'
  BY <1>a, <1>b, <1>p, <1>q, <1>r DEF AwaiterInv
<1>3. Good' => KindInv(c)'
  BY <1>a, <1>b, <1>p, <1>q, <1>r DEF KindInv, Stoppable
<1>4. Good' => FutureInv(c)'
  BY <1>a, <1>b, <1>p, <1>q, <1>r DEF AwaiterInv, FutureInv
<1>5. Good' => PendingInv(c)'
  BY <1>a, <1>b, <1>p, <1>q, <1>r DEF AwaiterInv, PendingInv
<1>6. Good' => FlagInv(c)'
  BY <1>a, <1>b, <1>p, <1>q, <1>r DEF AwaiterInv, FlagInv, UnsetInv
<1>7. Good' => UnsetInv(c)'
  BY <1>a, <1>b, <1>p, <1>q, <1>r DEF AwaiterInv, FutureInv, FlagInv, UnsetInv
<1>8. Good' => PlainInv(c)'
  BY <1>a, <1>b, <1>p, <1>q, <1>r DEF FutureInv, PlainInv, Stoppable, KindInv
<1>9. Good' => OneThreadInv(c)'
  BY <1>a, <1>b, <1>p, <1>q, <1>r DEF AwaiterInv, KindInv, OneThreadInv, Free, HandlerActive
<1> QED
  BY <1>1, <1>2, <1>3, <1>4, <1>5, <1>6, <1>7, <1>8, <1>9

LEMMA StopFinishKeeps ==
  ASSUME AwaitInv, Good, mode' = mode, NEW c \in Coros, StopFinish(c)
  PROVE  OneHandlerResumes' /\ (Good' => CoroInv(c)')
<1>a. AwaitTypeOK /\ OneHandlerResumes /\ CoroInv(c) /\ mode' = mode /\ Good
  BY DEF AwaitInv
<1>b. /\ num[c] \in Int /\ \A m \in Waits : m \in Int /\ m > 0 /\ resumes[c][m] \in Nat
      /\ pc[c] # "idle" => num[c] \in Waits /\ alive[c] = num[c]
  <2>1. num[c] \in Nums /\ resumes[c] \in [Waits -> Nat]
    BY <1>a DEF AwaitTypeOK
  <2> QED
    BY <1>a, <2>1, Current, WaitNumbers DEF CoroInv
<1>p. cb[c] = "entered" /\ inCb[c] \in Waits /\ cb'[c] = "returned"
  BY <1>a, Current DEF CoroInv, StopFinish, AwaitTypeOK
<1>q. /\ stale' \subseteq stale \cup {c} /\ (stale' = stale \/ alive[c] # inCb[c])
      /\ stale' = {} => alive[c] = inCb[c]
      /\ pc'[c] = "resumed" /\ resumes'[c][inCb[c]] = resumes[c][inCb[c]] + 1
      /\ \A m \in Waits \ {inCb[c]} : resumes'[c][m] = resumes[c][m]
      /\ \A d \in Coros \ {c} : resumes'[d] = resumes[d]
  <2>1. stale \subseteq Coros
    BY <1>a DEF AwaitTypeOK
  <2> QED
    BY <1>a, <1>p, <2>1, Touches, Resumes DEF StopFinish
<1>s. \A m \in Waits : /\ ops[c][m] = "pending" => ops'[c][m] = "aborted"
                       /\ ops[c][m] # "pending" => ops'[c][m] = ops[c][m]
  BY <1>a, CancelsAll DEF StopFinish
<1>r. UNCHANGED <<num, alive, susp, tm, reached, inCb, stopReq, lost>>
  BY DEF StopFinish
<1> USE DEF CoroInv, Good
<1>1. OneHandlerResumes'
  <2>1. Unflagged' = Unflagged
    BY <1>a DEF Unflagged, Stoppable
  <2>2. c \in Expiring => alive[c] = inCb[c] /\ resumes[c][inCb[c]] = 0
    BY <1>a, <1>b, <1>p DEF FutureInv, FlagInv, UnsetInv
  <2>3. c \notin Expiring \cup Stoppable => alive[c] = inCb[c] /\ resumes[c][inCb[c]] = 0
    BY <1>a, <1>b, <1>p DEF KindInv, PlainInv
  <2>4. c \notin Unflagged => alive[c] = inCb[c] /\ resumes[c][inCb[c]] = 0
    BY <2>2, <2>3 DEF Unflagged
  <2>5. stale' \subseteq Unflagged
    BY <1>a, <1>q, <2>4
  <2>6. \A d \in Coros \ Unflagged, m \in Waits : resumes'[d][m] <= 1
    <3>1. \A m \in Waits : c \notin Unflagged => resumes'[c][m] <= 1
      BY <1>a, <1>q, <2>4 DEF OneHandlerResumes
    <3> QED
      BY <1>a, <1>q, <3>1 DEF OneHandlerResumes
  <2> QED
    BY <1>a, <1>r, <2>1, <2>5, <2>6 DEF OneHandlerResumes
<1>2. Good' => AwaiterInv(c)'
  BY <1>a, <1>b, <1>p, <1>q, <1>s, <1>r DEF AwaiterInv
<1>3. Good' => KindInv(c)'
  BY <1>a, <1>b, <1>p, <1>q, <1>s, <1>r DEF KindInv, Stoppable
<1>4. Good' => FutureInv(c)'
  BY <1>a, <1>b, <1>p, <1>q, <1>s, <1>r DEF AwaiterInv, FutureInv
<1>5. Good' => PendingInv(c)'
  BY <1>a, <1>b, <1>p, <1>q, <1>s, <1>r DEF AwaiterInv, PendingInv
<1>6. Good' => FlagInv(c)'
  BY <1>a, <1>b, <1>p, <1>q, <1>s, <1>r DEF AwaiterInv, FlagInv, UnsetInv
<1>7. Good' => UnsetInv(c)'
  BY <1>a, <1>b, <1>p, <1>q, <1>s, <1>r DEF AwaiterInv, FutureInv, FlagInv, UnsetInv
<1>8. Good' => PlainInv(c)'
  BY <1>a, <1>b, <1>p, <1>q, <1>s, <1>r DEF FutureInv, PlainInv, Stoppable, KindInv
<1>9. Good' => OneThreadInv(c)'
  BY <1>a, <1>b, <1>p, <1>q, <1>s, <1>r DEF AwaiterInv, KindInv, OneThreadInv, Free, HandlerActive
<1> QED
  BY <1>1, <1>2, <1>3, <1>4, <1>5, <1>6, <1>7, <1>8, <1>9

LEMMA DestroyAwaiterKeeps ==
  ASSUME AwaitInv, Good, mode' = mode, NEW c \in Coros, DestroyAwaiter(c)
  PROVE  OneHandlerResumes' /\ (Good' => CoroInv(c)')
<1>a. AwaitTypeOK /\ OneHandlerResumes /\ CoroInv(c) /\ mode' = mode /\ Good
  BY DEF AwaitInv
<1>b. /\ num[c] \in Int /\ \A m \in Waits : m \in Int /\ m > 0 /\ resumes[c][m] \in Nat
      /\ pc[c] # "idle" => num[c] \in Waits /\ alive[c] = num[c]
  <2>1. num[c] \in Nums /\ resumes[c] \in [Waits -> Nat]
    BY <1>a DEF AwaitTypeOK
  <2> QED
    BY <1>a, <2>1, Current, WaitNumbers DEF CoroInv
<1>p. /\ pc[c] = "resumed" /\ num[c] \in Waits /\ pc'[c] = "idle" /\ alive'[c] = 0
      /\ lost' = (lost \/ susp[c] # "none") /\ CancelTimer(c, num[c]) /\ ResetStop(c)
  BY <1>a, Current DEF CoroInv, DestroyAwaiter, AwaitTypeOK
<1>q. /\ \A m \in Waits : tm'[c][m] = tm[c][m] \/ (tm[c][m] = "armed" /\ tm'[c][m] = "done")
      /\ susp[c] = "none" => cb'[c] = "none"
  <2>1. \A m \in Waits : tm'[c][m] = tm[c][m] \/ (tm[c][m] = "armed" /\ tm'[c][m] = "done")
    BY <1>a, <1>p, CancelsTimer
  <2> QED
    BY <1>a, <1>p, <2>1, ResetsStop
<1>r. UNCHANGED <<num, susp, ops, reached, inCb, stopReq, resumes, stale>>
  BY DEF DestroyAwaiter
<1> USE DEF CoroInv, Good
<1>1. OneHandlerResumes'
  BY <1>a, <1>b, <1>p, <1>q, <1>r DEF OneHandlerResumes, Unflagged, Stoppable, OneThreadInv
<1>2. Good' => AwaiterInv(c)'
  BY <1>a, <1>b, <1>p, <1>q, <1>r DEF AwaiterInv
<1>3. Good' => KindInv(c)'
  BY <1>a, <1>b, <1>p, <1>q, <1>r DEF KindInv, Stoppable
<1>4. Good' => FutureInv(c)'
  BY <1>a, <1>b, <1>p, <1>q, <1>r DEF AwaiterInv, FutureInv
<1>5. Good' => PendingInv(c)'
  BY <1>a, <1>b, <1>p, <1>q, <1>r DEF AwaiterInv, PendingInv
<1>6. Good' => FlagInv(c)'
  BY <1>a, <1>b, <1>p, <1>q, <1>r DEF AwaiterInv, FlagInv, UnsetInv
<1>7. Good' => UnsetInv(c)'
  BY <1>a, <1>b, <1>p, <1>q, <1>r DEF AwaiterInv, FutureInv, FlagInv, UnsetInv
<1>8. Good' => PlainInv(c)'
  BY <1>a, <1>b, <1>p, <1>q, <1>r DEF FutureInv, PlainInv, Stoppable, KindInv
<1>9. Good' => OneThreadInv(c)'
  BY <1>a, <1>b, <1>p, <1>q, <1>r DEF AwaiterInv, KindInv, OneThreadInv, Free, HandlerActive
<1> QED
  BY <1>1, <1>2, <1>3, <1>4, <1>5, <1>6, <1>7, <1>8, <1>9

-----------------------------------------------------------------------------
LEMMA AwaitStepInv == AwaitInv /\ [AwaitNext]_<<mode, awaitVars>> => AwaitInv'
<1>1. CASE UNCHANGED <<mode, awaitVars>> \/ (AwaitUndefined /\ mode' = mode)
  BY <1>1 DEF AwaitInv, AwaitTypeOK, OneHandlerResumes, Good, CoroInv, AwaiterInv, KindInv, FutureInv, PendingInv,
     FlagInv, UnsetInv, PlainInv, OneThreadInv, Unflagged, Stoppable, AwaitUndefined, awaitVars
<1>2. ASSUME AwaitInv, Good, AwaitMoves PROVE AwaitInv'
  <2>1. AwaitTypeOK' /\ AwaitTypeOK /\ mode' = mode /\ \A c \in Coros : CoroInv(c) /\ AwaiterInv(c)
    BY <1>2, AwaitStepType DEF AwaitMoves, AwaitInv, CoroInv
  <2>2. ASSUME \A d \in Coros : Quiet(d), UNCHANGED <<lost, stale>> PROVE AwaitInv'
    BY <1>2, <2>1, <2>2, QuietKeeps DEF AwaitInv, OneHandlerResumes, Good, Quiet, Unflagged, Stoppable
  <2>3. CASE CancelOutside
    <3>1. \A d \in Coros : Quiet(d)
      BY <2>1, <2>3, CancelsAll DEF CancelOutside, Quiet
    <3> QED
      BY <2>2, <2>3, <3>1 DEF CancelOutside
  <2>4. ASSUME NEW c \in Coros,
               \/ Await(c) \/ RequestStop(c) \/ Handler(c) \/ \E n \in Waits : OpCompletes(c, n)
        PROVE  AwaitInv'
    <3>1. \A d \in Coros \ {c} : CoroInv(d)'
      BY <2>1, <2>4, OthersQuiet, QuietKeeps
    <3>2. ASSUME OneHandlerResumes' /\ (Good' => CoroInv(c)') PROVE AwaitInv'
      BY <2>1, <3>1, <3>2 DEF AwaitInv
    <3>3. ASSUME Quiet(c), UNCHANGED <<lost, stale>> PROVE AwaitInv'
      BY <2>1, <2>2, <2>4, <3>3, OthersQuiet
    <3>4. CASE Await(c) \/ RequestStop(c) \/ ArmTimer(c) \/ RegisterStop(c) \/ OwnStop(c)
      BY <1>2, <2>1, <3>2, <3>4, AwaitKeeps, RequestStopKeeps, ArmTimerKeeps, RegisterStopKeeps, OwnStopKeeps
    <3>5. CASE StopFinish(c) \/ DestroyAwaiter(c)
      BY <1>2, <2>1, <3>2, <3>5, StopFinishKeeps, DestroyAwaiterKeeps
    <3>6. CASE StopReturn(c)
      BY <2>1, <3>3, <3>6 DEF StopReturn, Quiet, AwaitTypeOK
    <3>7. CASE StopEnter(c)
      <4>1. CASE c \in Expiring => <<c, inCb[c]>> \notin reached
        BY <1>2, <2>1, <3>2, <3>7, <4>1, StopEnterKeeps
      <4>2. CASE c \in Expiring /\ <<c, inCb[c]>> \in reached
        BY <2>1, <3>3, <3>7, <4>2 DEF StopEnter, Quiet, AwaitTypeOK
      <4> QED
        BY <4>1, <4>2
    <3>8. ASSUME NEW n \in Waits, OpCompletes(c, n) \/ AbortedHandler(c, n) \/ TimerExpires(c, n) PROVE AwaitInv'
      BY <2>1, <3>3, <3>8 DEF OpCompletes, AbortedHandler, TimerExpires, Quiet, AwaitTypeOK
    <3>9. ASSUME NEW n \in Waits, CompletionFinish(c, n) \/ TimerFinish(c, n) PROVE AwaitInv'
      BY <1>2, <2>1, <3>2, <3>9, CompletionFinishKeeps, TimerFinishKeeps
    <3>10. ASSUME NEW n \in Waits, CompletionEnter(c, n) PROVE AwaitInv'
      <4>1. CASE c \in Expiring => <<c, n>> \notin reached
        BY <1>2, <2>1, <3>2, <3>10, <4>1, CompletionEnterKeeps
      <4>2. CASE c \in Expiring /\ <<c, n>> \in reached
        BY <2>1, <3>3, <3>10, <4>2 DEF CompletionEnter, Quiet, AwaitTypeOK
      <4> QED
        BY <4>1, <4>2
    <3>11. ASSUME NEW n \in Waits, TimerEnter(c, n) PROVE AwaitInv'
      <4>1. CASE <<c, n>> \notin reached
        BY <1>2, <2>1, <3>2, <3>11, <4>1, TimerEnterKeeps
      <4>2. CASE <<c, n>> \in reached
        BY <2>1, <3>3, <3>11, <4>2 DEF TimerEnter, Quiet, AwaitTypeOK
      <4> QED
        BY <4>1, <4>2
    <3> QED
      BY <2>4, <3>4, <3>5, <3>6, <3>7, <3>8, <3>9, <3>10, <3>11 DEF Handler
  <2> QED
    BY <1>2, <2>3, <2>4 DEF AwaitMoves
<1> QED
  BY <1>1, <1>2 DEF AwaitNext, AwaitStep, AwaitMoves, Good

LEMMA AwaitInvariant == AwaitSpec => []AwaitInv
<1>1. QED BY AwaitInitInv, AwaitStepInv, PTL DEF AwaitSpec

\* However many coroutines share the AsyncObj and however their handlers interleave,
\* the flag lets one handler resume a wait, and no other touches the awaiter.
THEOREM OneResumption == AwaitSpec => []OneHandlerResumes
<1>1. AwaitInv => OneHandlerResumes
  BY DEF AwaitInv
<1> QED BY <1>1, AwaitInvariant, PTL

\* A coroutine that goes on has no operation outstanding.
THEOREM NoOrphan == AwaitSpec => []NoOrphanOperation
<1>1. AwaitInv => NoOrphanOperation
  <2> SUFFICES ASSUME AwaitInv, Good, NEW c \in Coros, NEW n \in Waits, ops[c][n] = "pending",
                      pc[c] # "suspended" \/ n < num[c]
               PROVE  FALSE
    BY DEF NoOrphanOperation, Good
  <2>1. n = num[c] /\ pc[c] = "suspended" /\ num[c] \in Int
    BY WaitNumbers DEF AwaitInv, AwaitTypeOK, CoroInv, PendingInv
  <2> QED
    BY <2>1
<1> QED BY <1>1, AwaitInvariant, PTL
=============================================================================
