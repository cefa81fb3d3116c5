------------------------------- MODULE IocPool -------------------------------
(***************************************************************************)
(* ioc_pool and its mt_ioc_srcs (include/jkl/ioc.hpp): several             *)
(* io_contexts, each run by threads of its own.  Jobs are posted on the    *)
(* context whose turn it is, or by a handler on its own context; the       *)
(* owner of the pool starts the threads and joins them, source by source.  *)
(*                                                                         *)
(* asio's io_context is external: a queue of handlers, a count of what is  *)
(* outstanding (handlers and the work guard), and the stopped flag that    *)
(* sends the threads out of run().                                         *)
(***************************************************************************)
EXTENDS Naturals, FiniteSets

CONSTANTS
  SrcCnt,     \* size of _srcs
  Threads,    \* what start() is asked for
  Jobs,       \* handlers to be posted
  MaxStarts   \* bound on the calls of start()

ASSUME IocAssumption ==
  /\ SrcCnt \in Nat \ {0} /\ Threads \in Nat /\ Threads >= SrcCnt
  /\ MaxStarts \in Nat /\ IsFiniteSet(Jobs)

Srcs == 0..(SrcCnt - 1)

VARIABLES
  turn,      \* _next
  job,       \* what has come of each job
  idx,       \* the value its poster read from _next
  at,        \* the context a job was posted on
  guard,     \* the sources with a work guard
  stopped,   \* the contexts that are stopped
  running,   \* the number of threads in run(), by context
  owner,     \* where the owner of the pool is
  joining,   \* the source whose turn it is in join()
  starts,
  signalled, \* signal_event_loop_stop() was called since start()
  owed       \* the jobs a source had, or may get from these, when join() began

iocVars == <<turn, job, idx, at, guard, stopped, running, owner, joining,
             starts, signalled, owed>>

IocInit ==
  /\ turn = 0
  /\ job = [j \in Jobs |-> "new"] /\ idx = [j \in Jobs |-> 0]
  /\ at = [j \in Jobs |-> 0]
  /\ guard = {} /\ stopped = {} /\ running = [i \in Srcs |-> 0]
  /\ owner = "stopped" /\ joining = 0 /\ starts = 0
  /\ signalled = FALSE /\ owed = {}

-----------------------------------------------------------------------------
\* get_ioc(): _next.load().
LoadNext(j) ==
  /\ job[j] = "new"
  /\ job' = [job EXCEPT ![j] = "loaded"]
  /\ idx' = [idx EXCEPT ![j] = turn]
  /\ UNCHANGED <<turn, at, guard, stopped, running, owner, joining,
                 starts, signalled, owed>>

Picked(j) ==
  /\ job' = [job EXCEPT ![j] = "picked"]
  /\ at' = [at EXCEPT ![j] = idx[j]]
  /\ turn' = (idx[j] + 1) % SrcCnt

\* compare_exchange_weak(): it may fail for no reason, and reads _next again.
ExchangeNext(j) ==
  /\ job[j] = "loaded"
  /\ \/ /\ turn = idx[j]
        /\ Picked(j)
        /\ UNCHANGED idx
     \/ /\ idx' = [idx EXCEPT ![j] = turn]
        /\ UNCHANGED <<job, at, turn>>
  /\ UNCHANGED <<guard, stopped, running, owner, joining, starts, signalled, owed>>

\* The job is posted on the context that was picked.
PostPicked(j) ==
  /\ job[j] = "picked"
  /\ job' = [job EXCEPT ![j] = "queued"]
  /\ UNCHANGED <<turn, idx, at, guard, stopped, running, owner, joining,
                 starts, signalled, owed>>

\* A handler posts another job on its own context, which is then owed as it is.
PostFromHandler(j, k) ==
  /\ job[j] = "new" /\ job[k] = "running"
  /\ job' = [job EXCEPT ![j] = "queued"]
  /\ at' = [at EXCEPT ![j] = at[k]]
  /\ owed' = IF k \in owed THEN owed \cup {j} ELSE owed
  /\ UNCHANGED <<turn, idx, guard, stopped, running, owner, joining,
                 starts, signalled>>

-----------------------------------------------------------------------------
Pending(i) == {j \in Jobs : at[j] = i /\ job[j] \in {"queued", "running"}}
Busy(i)    == {j \in Jobs : at[j] = i /\ job[j] = "running"}

\* io_context::run() on one thread takes the next handler.
TakeJob(j) ==
  /\ job[j] = "queued" /\ at[j] \notin stopped
  /\ Cardinality(Busy(at[j])) < running[at[j]]
  /\ job' = [job EXCEPT ![j] = "running"]
  /\ UNCHANGED <<turn, idx, at, guard, stopped, running, owner, joining,
                 starts, signalled, owed>>

\* The last of the work gone, the context stops.
Drained(i, pending) ==
  stopped' = IF i \notin guard /\ pending = {} THEN stopped \cup {i} ELSE stopped

\* The handler returns, or throws: onExcep() is called and the thread enters run()
\* again.
JobEnds(j) ==
  /\ job[j] = "running"
  /\ job' = [job EXCEPT ![j] = "done"]
  /\ Drained(at[j], Pending(at[j]) \ {j})
  /\ UNCHANGED <<turn, idx, at, guard, running, owner, joining, starts,
                 signalled, owed>>

\* run() returns for good on a thread that has no handler to finish.
LeaveRun(i) ==
  /\ i \in stopped
  /\ running[i] > Cardinality(Busy(i))
  /\ running' = [running EXCEPT ![i] = @ - 1]
  /\ UNCHANGED <<turn, job, idx, at, guard, stopped, owner, joining, starts,
                 signalled, owed>>

-----------------------------------------------------------------------------
\* The threads are shared out evenly, the first sources get what is left over.
Share(i) == (Threads \div SrcCnt) + IF i < Threads % SrcCnt THEN 1 ELSE 0

Starts(st) ==
  /\ owner = "stopped" /\ starts < MaxStarts
  /\ owner' = "started" /\ starts' = starts + 1
  /\ guard' = Srcs /\ stopped' = st
  /\ running' = [i \in Srcs |-> Share(i)]
  /\ signalled' = FALSE /\ owed' = {}
  /\ UNCHANGED <<turn, job, idx, at, joining>>

\* Mutant: no restart() of the contexts.
StartStopped == Starts(stopped)

\* start(): every context is restarted, gets a work guard and its threads.
StartPool == Starts({})

\* signal_event_loop_stop(), by a handler or anybody.
SignalStop ==
  /\ owner # "stopped" /\ ~signalled
  /\ signalled' = TRUE /\ stopped' = Srcs
  /\ UNCHANGED <<turn, job, idx, at, guard, running, owner, joining, starts,
                 owed>>

\* join(): the first source's turn.
BeginJoin ==
  /\ owner = "started"
  /\ owner' = "reset" /\ joining' = 0
  /\ UNCHANGED <<turn, job, idx, at, guard, stopped, running, starts,
                 signalled, owed>>

Owes(i) == owed' = owed \cup Pending(i)

\* _wg.reset(), which stops a context with nothing to do.
ResetGuard ==
  /\ owner = "reset"
  /\ Owes(joining)
  /\ guard' = guard \ {joining}
  /\ stopped' = IF Pending(joining) = {} THEN stopped \cup {joining} ELSE stopped
  /\ owner' = "waiting"
  /\ UNCHANGED <<turn, job, idx, at, running, joining, starts, signalled>>

\* t.join() for every thread of the source, then the next one.
JoinThreads ==
  /\ owner = "waiting" /\ running[joining] = 0
  /\ IF joining + 1 < SrcCnt
     THEN owner' = "reset" /\ joining' = joining + 1
     ELSE owner' = "stopped" /\ joining' = 0
  /\ UNCHANGED <<turn, job, idx, at, guard, stopped, running, starts,
                 signalled, owed>>

-----------------------------------------------------------------------------
JobStep(j) == \/ LoadNext(j) \/ ExchangeNext(j) \/ PostPicked(j)
              \/ \E k \in Jobs : PostFromHandler(j, k)
              \/ TakeJob(j) \/ JobEnds(j)
JoinStep  == BeginJoin \/ ResetGuard \/ JoinThreads

IocNext == \/ \E j \in Jobs : JobStep(j)
           \/ \E i \in Srcs : LeaveRun(i)
           \/ StartPool \/ SignalStop \/ JoinStep

IocSpec == IocInit /\ [][IocNext]_iocVars

-----------------------------------------------------------------------------
Joined(i) == \/ owner = "stopped"
             \/ owner \in {"reset", "waiting"} /\ i < joining

\* When join() is through with a source, what was posted there before it began,
\* by its handlers too, is done: no exception, and no earlier run of the pool,
\* loses a handler.  Only signal_event_loop_stop() leaves them behind.
JoinedMeansDone ==
  ~signalled => \A j \in owed : Joined(at[j]) => job[j] = "done"
=============================================================================
