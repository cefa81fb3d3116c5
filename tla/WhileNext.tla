------------------------------ MODULE WhileNext ------------------------------
(***************************************************************************)
(* while_next() (include/jkl/gen.hpp): a coroutine draws items from an     *)
(* asynchronous generator (agen), starts one detached task per item, and   *)
(* co_returns the generator's result when the generator and all its tasks  *)
(* are through.  The tasks live in the map pts of a while_helper that is   *)
(* itself a local of the while_next frame; the last task to finish resumes *)
(* the coroutine that awaits while_next.                                   *)
(*                                                                         *)
(* One action per stretch between two lock operations, two suspensions or  *)
(* two resumptions.  The frame of while_next is destroyed by the awaiting  *)
(* coroutine as soon as it is resumed; whoever still works in that frame   *)
(* then, or through a reference into pts that an erase has moved, sets     *)
(* dangling, and nothing is claimed of what follows.                       *)
(***************************************************************************)
EXTENDS Integers, FiniteSets

CONSTANTS
  MaxItems,     \* bound on the number of items the generator yields
  Threadings    \* the values threads may have, for the programs to be looked at

ASSUME ConstAssumption == MaxItems \in Nat /\ Threadings \subseteq BOOLEAN

Tasks == 1..MaxItems

VARIABLES
  threads,     \* of the program, for good: tasks and the generator may be
               \* resumed on other threads
  gen,         \* the generator's coroutine
  yielded,     \* number of items yielded so far; item k is drawn by task k
  grv,         \* the generator's result variant
  wpc,         \* where while_next is
  wrv,         \* the result variant of while_next
  pts,         \* the tasks in the map
  tpc,         \* where each task is
  inline,      \* the task that runs inside task.start(), or 0
  wpSuspended, \* while_helper::wpSuspended
  resumed,     \* how often the awaiting coroutine was resumed
  got,         \* the result it found then
  frame,       \* the frame of while_next exists
  dangling     \* freed or moved memory is about to be used

vars == <<gen, yielded, grv, wpc, wrv, pts, tpc, inline, wpSuspended, resumed,
          got, frame, dangling>>

genVars  == <<gen, yielded, grv>>
taskVars == <<pts, tpc, inline>>
outVars  == <<wrv, resumed, got>>
memVars  == <<frame, dangling>>

GenPCs == {"fresh", "running", "waiting", "yielded", "done"}
WPCs   == {"next", "drawing", "emplace", "start", "starting", "finish",
           "unlocked", "suspended", "returned"}
TPCs   == {"none", "emplaced", "running", "waiting", "finishing", "last",
           "gone"}
RVs    == {"empty", "value", "exception"}

-----------------------------------------------------------------------------
Init ==
  /\ threads \in Threadings
  /\ gen = "fresh" /\ yielded = 0 /\ grv = "empty"
  /\ wpc = "next" /\ wrv = "empty"
  /\ pts = {} /\ tpc = [t \in Tasks |-> "none"] /\ inline = 0
  /\ wpSuspended = FALSE
  /\ resumed = 0 /\ got = "empty"
  /\ frame = TRUE /\ dangling = FALSE

\* With one thread a resumption from outside finds while_next suspended, in
\* gen.next() or for good, and no task or generator in the middle of a step.
Idle ==
  \/ threads
  \/ /\ \/ wpc = "drawing" /\ gen = "waiting"
        \/ wpc \in {"suspended", "returned"}
     /\ \A t \in Tasks : tpc[t] \notin {"running", "finishing", "last"}

-----------------------------------------------------------------------------
\* co_await gen.next() resumes the generator, here always one that is not done.
CallNext ==
  /\ wpc = "next" /\ gen # "done"
  /\ wpc' = "drawing"
  /\ gen' = "running"
  /\ UNCHANGED <<taskVars, outVars, memVars, yielded, grv, wpSuspended>>

\* The generator awaits something of its own.
GenWaits ==
  /\ gen = "running"
  /\ gen' = "waiting"
  /\ UNCHANGED <<taskVars, outVars, memVars, yielded, grv, wpc, wpSuspended>>

GenResumes ==
  /\ gen = "waiting" /\ Idle
  /\ gen' = "running"
  /\ UNCHANGED <<taskVars, outVars, memVars, yielded, grv, wpc, wpSuspended>>

\* co_yield stores the item and resumes while_next.
GenYields ==
  /\ gen = "running" /\ yielded < MaxItems
  /\ gen' = "yielded"
  /\ yielded' = yielded + 1
  /\ wpc' = "emplace"
  /\ UNCHANGED <<taskVars, outVars, memVars, grv, wpSuspended>>

\* The generator returns, or an exception leaves it; final_suspend resumes
\* while_next, whose next<false>() returns an empty optional in both cases.
GenDone ==
  /\ gen = "running"
  /\ gen' = "done"
  /\ grv' \in {"value", "exception"}
  /\ wpc' = "finish"
  /\ UNCHANGED <<taskVars, outVars, memVars, yielded, wpSuspended>>

-----------------------------------------------------------------------------
\* while_helper::emplace(), under the lock.
Emplace ==
  /\ wpc = "emplace"
  /\ pts' = pts \cup {yielded}
  /\ tpc' = [tpc EXCEPT ![yielded] = "emplaced"]
  /\ wpc' = "start"
  /\ UNCHANGED <<genVars, outVars, memVars, inline, wpSuspended>>

\* task.start() resumes the task on this thread.
Start ==
  /\ wpc = "start"
  /\ tpc' = [tpc EXCEPT ![yielded] = "running"]
  /\ inline' = yielded
  /\ wpc' = "starting"
  /\ UNCHANGED <<genVars, outVars, memVars, pts, wpSuspended>>

\* task.start() returns when the task has suspended or destroyed itself.
Started ==
  /\ wpc = "starting"
  /\ inline = 0
  /\ wpc' = "next"
  /\ UNCHANGED <<genVars, taskVars, outVars, memVars, wpSuspended>>

\* The task leaves the thread it runs on.
Yield(t) == inline' = IF inline = t THEN 0 ELSE inline

\* f(item), or the collector, suspends the task.
TaskWaits(t) ==
  /\ tpc[t] = "running"
  /\ tpc' = [tpc EXCEPT ![t] = "waiting"]
  /\ Yield(t)
  /\ UNCHANGED <<genVars, outVars, memVars, wpc, pts, wpSuspended>>

TaskResumes(t) ==
  /\ tpc[t] = "waiting" /\ Idle
  /\ tpc' = [tpc EXCEPT ![t] = "running"]
  /\ UNCHANGED <<genVars, outVars, memVars, wpc, pts, inline, wpSuspended>>

\* f and the collector are through; what they threw has been swallowed.
TaskFinishes(t) ==
  /\ tpc[t] = "running"
  /\ tpc' = [tpc EXCEPT ![t] = "finishing"]
  /\ UNCHANGED <<genVars, outVars, memVars, wpc, pts, inline, wpSuspended>>

\* An erase from the flat map moves other elements: the reference that
\* emplace() returned may no longer be the task it stood for.
MovedByErase(t) == {FALSE} \cup {wpc = "start" /\ t # yielded}

\* The task erases itself under the lock, which destroys its frame, and goes on
\* to resume the continuation when it was the last one.
EraseSelf(t, allDone) ==
  /\ tpc[t] = "finishing"
  /\ pts' = pts \ {t}
  /\ tpc' = [tpc EXCEPT ![t] = IF allDone THEN "last" ELSE "gone"]
  /\ Yield(t)
  /\ dangling' \in MovedByErase(t)
  /\ UNCHANGED <<genVars, outVars, wpc, wpSuspended, frame>>

\* Mutant: allDone does not ask whether while_next is suspended.
OnSuspendThenEager(t) == EraseSelf(t, pts = {t})

\* Mutant: pts.empty() is read before the erase.
OnSuspendThenEmptyFirst(t) == EraseSelf(t, pts = {} /\ wpSuspended)

\* Mutant: allDone does not look at the other tasks.
OnSuspendThenNotEmpty(t) == EraseSelf(t, wpSuspended)

\* on_suspend_then(), locked part.
OnSuspendThen(t) == EraseSelf(t, pts = {t} /\ wpSuspended)

\* Mutant: the generator's result is not handed over.
ResumeByTaskNoResult(t) ==
  /\ tpc[t] = "last"
  /\ tpc' = [tpc EXCEPT ![t] = "gone"]
  /\ resumed' = resumed + 1
  /\ got' = wrv
  /\ UNCHANGED <<genVars, memVars, wpc, wrv, pts, inline, wpSuspended>>

\* on_suspend_then(), unlocked: the result is moved and the continuation of
\* while_next resumed, where await_resume() takes the result.
ResumeByTask(t) ==
  /\ tpc[t] = "last"
  /\ tpc' = [tpc EXCEPT ![t] = "gone"]
  /\ wrv' = grv
  /\ resumed' = resumed + 1
  /\ got' = grv
  /\ dangling' = ~frame
  /\ UNCHANGED <<genVars, wpc, pts, inline, wpSuspended, frame>>

-----------------------------------------------------------------------------
\* while_next returns and its final_suspend resumes the continuation.
Return ==
  /\ wpc = "finish"
  /\ wrv' = grv
  /\ wpc' = "returned"
  /\ resumed' = resumed + 1
  /\ got' = grv
  /\ UNCHANGED <<genVars, taskVars, memVars, wpSuspended>>

\* No task was ever started: nobody else is there.
FinishNoTask == yielded = 0 /\ Return

\* Mutant: the final check does not look at the map.
FinishAllDoneBlind == yielded > 0 /\ Return

\* The final check, under the lock: every task is through.
FinishAllDone == yielded > 0 /\ pts = {} /\ Return

\* Some task is not: tell it to resume the continuation.
FinishWait ==
  /\ wpc = "finish" /\ yielded > 0 /\ pts # {}
  /\ wpSuspended' = TRUE
  /\ wpc' = "unlocked"
  /\ UNCHANGED <<genVars, taskVars, outVars, memVars>>

\* co_await std::suspend_always().
Suspend ==
  /\ wpc = "unlocked"
  /\ wpc' = "suspended"
  /\ UNCHANGED <<genVars, taskVars, outVars, memVars, wpSuspended>>

\* The resumed coroutine is through with co_await and destroys the atask, and
\* with it the frame of while_next, the helper, f and the collector.
DestroyFrame ==
  /\ resumed > 0 /\ frame
  /\ frame' = FALSE
  /\ dangling' = (wpc \notin {"suspended", "returned"})
  /\ UNCHANGED <<genVars, taskVars, outVars, wpc, wpSuspended>>

\* The awaiting coroutine has what it waited for.
Finished == ~frame /\ pts = {} /\ UNCHANGED vars

Undefined == dangling /\ UNCHANGED vars

-----------------------------------------------------------------------------
GenStep   == GenWaits \/ GenResumes \/ GenYields \/ GenDone
WhileStep == \/ CallNext \/ Emplace \/ Start \/ Started
             \/ FinishNoTask \/ FinishAllDone \/ FinishWait \/ Suspend
TaskStep(t) == \/ TaskWaits(t) \/ TaskResumes(t) \/ TaskFinishes(t)
               \/ OnSuspendThen(t) \/ ResumeByTask(t)

Step ==
  \/ /\ ~dangling
     /\ GenStep \/ WhileStep \/ DestroyFrame \/ \E t \in Tasks : TaskStep(t)
  \/ Finished
  \/ Undefined

Next == Step /\ UNCHANGED threads

Spec == Init /\ [][Next]_<<threads, vars>>

-----------------------------------------------------------------------------
TypeOK ==
  /\ gen \in GenPCs /\ yielded \in 0..MaxItems /\ grv \in RVs
  /\ wpc \in WPCs /\ wrv \in RVs
  /\ pts \in SUBSET Tasks /\ tpc \in [Tasks -> TPCs] /\ inline \in 0..MaxItems
  /\ wpSuspended \in BOOLEAN
  /\ resumed \in Nat /\ got \in RVs
  /\ frame \in BOOLEAN /\ dangling \in BOOLEAN

\* The coroutine that awaits while_next is resumed once: by while_next itself or
\* by the last task, never by both and never by two tasks.
ResumedOnce == resumed <= 1

\* It is resumed when the generator is done and no task is left, running ones
\* included: f, the collector and the helper, which die with the frame, are no
\* longer referred to.
ResumedWhenAllDone ==
  resumed > 0 =>
    /\ gen = "done" /\ pts = {}
    /\ \A t \in Tasks : tpc[t] \in {"none", "gone"}

\* It finds the generator's own result: a value, or the exception that ended the
\* generator while tasks were still running.
ResultForwarded == resumed > 0 => got = grv /\ got # "empty"

\* With one thread nobody works in the frame of while_next, or through a stale
\* reference into pts, after it is gone.
NoDangling == ~threads => ~dangling

\* while_next comes to an end, whoever finishes last.
Completes == (wpc = "drawing") ~> (resumed > 0 \/ dangling)
=============================================================================
