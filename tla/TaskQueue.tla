------------------------------ MODULE TaskQueue ------------------------------
(***************************************************************************)
(* The task queue of libretro-common, source/Libretro/queues/task_queue.c: *)
(* tasks are pushed, handled until they say they are finished, and told to *)
(* their owner by a callback on the main thread.  Handlers run on a worker *)
(* thread ("threaded") or inside task_queue_check ("regular"), and the     *)
(* queue changes from one to the other with tasks in it.                   *)
(*                                                                         *)
(* Every critical section is one action.  running_lock and queue_lock are  *)
(* held inside one action only; property_lock is held by the main thread   *)
(* while main is in "gather", "collect" or "callback", and finished_lock   *)
(* in the last two.  Handlers and callbacks are the application's: they    *)
(* may push tasks, and a handler decides whether its task is finished.     *)
(***************************************************************************)
EXTENDS Naturals, Sequences, SequencesExt

CONSTANTS
  Tasks,     \* the tasks the application makes
  Blocking,  \* those of TASK_TYPE_BLOCKING
  When,      \* the time each task is scheduled for, 0 for at once
  MaxCalls,  \* bound: a handler is called so often at most
  MaxTime,   \* bound: the clock stops here
  NoTask       \* the null pointer

ASSUME TasksAssumption ==
  /\ Blocking \subseteq Tasks
  /\ MaxTime \in Nat
  /\ When \in [Tasks -> 0 .. MaxTime]
  /\ MaxCalls \in Nat \ {0}
  /\ NoTask \notin Tasks

VARIABLES
  mode,     \* impl_current: "none", "regular" or "threaded"
  want,     \* task_threaded_enable
  running,  \* tasks_running
  finished, \* tasks_finished
  done,     \* the tasks whose field finished is set (until they are freed)
  cancelled,\* the tasks whose field cancelled is set
  goon,     \* worker_continue
  main,     \* where the main thread is
  wait,     \* the main thread is in task_queue_wait
  batch,    \* retro_task_regular_gather: its local list
  told,     \* history: the tasks whose callback was called
  worker,   \* where the worker is
  task,     \* its local variable task
  pushing,  \* the blocking task each thread has looked for a rival of
  pushed,   \* history: the tasks the queue has accepted
  calls,    \* bound: calls of each handler so far (until it is freed)
  clock     \* the time

queues == <<running, finished, batch, told>>
flags == <<done, cancelled, calls>>
setup == <<mode, want, goon>>
tqVars == <<setup, queues, flags, main, wait, worker, task, pushing, pushed, clock>>

MainPC == {"idle", "gather", "collect", "callback", "batch", "handler", "judge",
           "joining", "switching"}
TaskWorkerPC == {"none", "top", "sure", "waiting", "timed", "handling", "removed", "exited"}
Threads == {"main", "worker"}

TQInit ==
  /\ mode = "none" /\ want = FALSE /\ goon = TRUE
  /\ running = <<>> /\ finished = <<>> /\ batch = <<>> /\ told = {}
  /\ done = {} /\ cancelled = {} /\ calls = [t \in Tasks |-> 0]
  /\ main = "idle" /\ wait = FALSE
  /\ worker = "none" /\ task = NoTask
  /\ pushing = [a \in Threads |-> NoTask]
  /\ pushed = {}
  /\ clock = 0

-----------------------------------------------------------------------------
(* The lists *)

Before(q, t) == {i \in 1 .. Len(q) : When[q[i]] > When[t]}

\* task_queue_put: in front of the first task that is due later, if the last
\* one is; at the back otherwise.
Put(q, t) ==
  IF q # <<>> /\ When[Last(q)] > When[t]
  THEN InsertAt(q, CHOOSE i \in Before(q, t) : \A j \in Before(q, t) : i <= j, t)
  ELSE Append(q, t)

\* Mutant: the last task is never unlinked.
TakenButLast(q, t) == IF Last(q) = t THEN q ELSE RemoveFirst(q, t)

\* task_queue_remove
Taken(q, t) == RemoveFirst(q, t)

PropertyLocked == main \in {"gather", "collect", "callback"}
FinishedLocked == main \in {"collect", "callback"}

\* Mutant: only a worker that waits for a time is waked.
SignalledIfTimed == IF worker = "timed" THEN "top" ELSE worker

\* scond_signal(worker_cond)
Signalled == IF worker \in {"waiting", "timed"} THEN "top" ELSE worker

-----------------------------------------------------------------------------
(* task_queue_push, by the application, a callback or a handler *)

\* The thread runs code of the application, which may push a task.
MayPush(a) ==
  /\ mode # "none" /\ pushing[a] = NoTask
  /\ IF a = "main" THEN main \in {"idle", "callback", "handler"} ELSE worker = "handling"

\* push_running, of either implementation.
PushRunning(t) ==
  /\ running' = Put(running, t)
  /\ pushed' = pushed \cup {t}
  /\ worker' = Signalled
  /\ UNCHANGED <<setup, finished, batch, told, flags, main, wait, task, clock>>

Push(a, t) ==
  /\ MayPush(a)
  /\ t \notin pushed \cup Blocking
  /\ PushRunning(t)
  /\ UNCHANGED pushing

\* A blocking task is refused if there is one; the lock is given up before it
\* is pushed.
LookForBlocking(a, t) ==
  /\ MayPush(a)
  /\ t \in Blocking \ pushed /\ \A b \in Threads : pushing[b] # t
  /\ Blocking \cap ToSet(running) = {}
  /\ pushing' = [pushing EXCEPT ![a] = t]
  /\ UNCHANGED <<setup, queues, flags, main, wait, worker, task, pushed, clock>>

PushBlocking(a) ==
  /\ pushing[a] # NoTask
  /\ PushRunning(pushing[a])
  /\ pushing' = [pushing EXCEPT ![a] = NoTask]

-----------------------------------------------------------------------------
(* threaded_worker *)

\* worker_continue is read without running_lock.
Continue ==
  /\ worker = "top"
  /\ worker' = IF goon THEN "sure" ELSE "exited"
  /\ UNCHANGED <<setup, queues, flags, main, wait, task, pushing, pushed, clock>>

Due(t) == When[t] <= clock

\* The first task is looked at, under running_lock, and stays in the queue.
GetTask ==
  /\ worker = "sure"
  /\ \/ running = <<>> /\ worker' = "waiting" /\ UNCHANGED <<task, calls>>
     \/ running # <<>> /\ ~Due(Head(running)) /\ worker' = "timed" /\ UNCHANGED <<task, calls>>
     \/ /\ running # <<>> /\ Due(Head(running))
        /\ worker' = "handling"
        /\ task' = Head(running)
        /\ calls' = [calls EXCEPT ![Head(running)] = @ + 1]
  /\ UNCHANGED <<setup, queues, done, cancelled, main, wait, pushing, pushed, clock>>

\* scond_wait_timeout returns when the task is due.
Timeout ==
  /\ worker = "timed" /\ running # <<>> /\ Due(Head(running))
  /\ worker' = "top"
  /\ UNCHANGED <<setup, queues, flags, main, wait, task, pushing, pushed, clock>>

\* A wait may return although nobody signalled, as POSIX allows.
SpuriousWakeUp ==
  /\ worker \in {"waiting", "timed"}
  /\ worker' = "top"
  /\ UNCHANGED <<setup, queues, flags, main, wait, task, pushing, pushed, clock>>

\* Not finished: to the back of those due with it, unless it is the last.
Requeue ==
  IF Last(running) = task THEN running ELSE Put(Taken(running, task), task)

\* The handler returns and its task is not finished, as it must be when it is
\* cancelled.
HandlerReturns ==
  /\ worker = "handling" /\ pushing["worker"] = NoTask
  /\ calls[task] < MaxCalls /\ task \notin cancelled
  /\ ~PropertyLocked
  /\ running' = Requeue
  /\ worker' = "top" /\ task' = NoTask
  /\ UNCHANGED <<setup, finished, batch, told, flags, main, wait, pushing, pushed, clock>>

\* task_set_finished, the return of the handler, and the removal.  They are one
\* step: between them only the worker reads `finished', the task is still in the
\* running queue for all who look there, and a cancel that comes in between is
\* one that came before the handler set the flag and that it did not heed.
HandlerFinishes ==
  /\ worker = "handling" /\ pushing["worker"] = NoTask
  /\ ~PropertyLocked
  /\ done' = done \cup {task}
  /\ running' = Taken(running, task)
  /\ worker' = "removed"
  /\ UNCHANGED <<setup, finished, batch, told, cancelled, calls, main, wait, task,
                 pushing, pushed, clock>>

AddToFinished ==
  /\ worker = "removed" /\ ~FinishedLocked
  /\ finished' = Put(finished, task)
  /\ worker' = "top" /\ task' = NoTask
  /\ UNCHANGED <<setup, running, batch, told, flags, main, wait, pushing, pushed, clock>>

-----------------------------------------------------------------------------
(* The main thread *)

MainAt(from, to) == main = from /\ pushing["main"] = NoTask /\ main' = to

\* task_queue_init at the start, and from task_queue_check.
StartAs(m) ==
  /\ mode' = m
  /\ want' = (want \/ m = "threaded")
  /\ goon' = (goon \/ m = "threaded")
  /\ worker' = IF m = "threaded" THEN "top" ELSE worker

Gathering(m) == IF m = "threaded" THEN "gather" ELSE "batch"

TaskQueueInit(m) ==
  /\ MainAt("idle", "idle") /\ mode = "none"
  /\ StartAs(m)
  /\ UNCHANGED <<queues, flags, wait, task, pushing, pushed, clock>>

SetThreaded(b) ==
  /\ MainAt("idle", "idle") /\ want # b
  /\ want' = b
  /\ UNCHANGED <<mode, goon, queues, flags, wait, worker, task, pushing, pushed, clock>>

Wanted == IF want THEN "threaded" ELSE "regular"

\* Mutant: the tasks stay in the queue as well.
EmptiedCopies(m) ==
  /\ batch' = IF m = "regular" THEN Reverse(running) ELSE batch
  /\ UNCHANGED running

\* retro_task_regular_gather takes all tasks off the queue, the last one first.
Emptied(m) ==
  IF m = "regular" THEN batch' = Reverse(running) /\ running' = <<>>
  ELSE UNCHANGED <<batch, running>>

\* retro_task_threaded_deinit up to sthread_join.
StopWorker(next) ==
  /\ mode = "threaded"
  /\ goon' = FALSE
  /\ worker' = Signalled
  /\ main' = next
  /\ UNCHANGED <<mode, want, queues, flags, wait, task, pushing, pushed, clock>>

\* task_queue_check, once the implementation that was wanted is in place.
CheckFrom(at) ==
  /\ MainAt(at, Gathering(Wanted))
  /\ IF mode = Wanted THEN UNCHANGED <<setup, worker>> ELSE StartAs(Wanted)
  /\ Emptied(Wanted)
  /\ UNCHANGED <<finished, told, flags, wait, task, pushing, pushed, clock>>

TaskQueueCheck ==
  /\ mode = "threaded" => Wanted = "threaded"
  /\ CheckFrom("idle")

\* It must wait for the worker first.
CheckStopsWorker ==
  /\ MainAt("idle", "switching")
  /\ Wanted = "regular"
  /\ StopWorker("switching")

Switched ==
  /\ worker = "exited"
  /\ CheckFrom("switching")

\* task_queue_deinit
TaskQueueDeinit ==
  \/ MainAt("idle", "joining") /\ StopWorker("joining")
  \/ /\ MainAt("idle", "idle") /\ mode = "regular"
     /\ mode' = "none"
     /\ UNCHANGED <<want, goon, queues, flags, wait, worker, task, pushing, pushed, clock>>

Joined ==
  /\ MainAt("joining", "idle") /\ worker = "exited"
  /\ mode' = "none"
  /\ UNCHANGED <<want, goon, queues, flags, wait, worker, task, pushing, pushed, clock>>

\* retro_task_threaded_gather: the progress is told, then finished_lock taken.
LockFinished ==
  /\ MainAt("gather", "collect")
  /\ UNCHANGED <<setup, queues, flags, wait, worker, task, pushing, pushed, clock>>

\* retro_task_internal_gather: callback, cleanup and free of one task.
CallBack ==
  /\ MainAt("collect", "callback") /\ finished # <<>>
  /\ UNCHANGED <<setup, queues, flags, wait, worker, task, pushing, pushed, clock>>

CallBackReturns ==
  /\ MainAt("callback", "collect")
  /\ told' = told \cup {Head(finished)}
  /\ finished' = Tail(finished)
  /\ done' = done \ {Head(finished)}
  /\ cancelled' = cancelled \ {Head(finished)}
  /\ calls' = [calls EXCEPT ![Head(finished)] = 0]
  /\ UNCHANGED <<setup, running, batch, wait, worker, task, pushing, pushed, clock>>

Gathered ==
  /\ MainAt("collect", IF wait THEN "judge" ELSE "idle") /\ finished = <<>>
  /\ UNCHANGED <<setup, queues, flags, wait, worker, task, pushing, pushed, clock>>

\* task_queue_wait gathers before it looks at the queue, if threaded.
TaskQueueWait ==
  /\ MainAt("idle", IF mode = "threaded" THEN "gather" ELSE "judge") /\ mode # "none"
  /\ wait' = TRUE
  /\ UNCHANGED <<setup, queues, flags, worker, task, pushing, pushed, clock>>

\* Mutant: only a task that was never handled is waited for.
MustGatherFresh == running # <<>> /\ When[Head(running)] = 0 /\ calls[Head(running)] = 0

\* The condition of both loops, for a caller that gives no condition.
MustGather == running # <<>> /\ When[Head(running)] = 0

WaitOn ==
  /\ MainAt("judge", Gathering(mode)) /\ MustGather
  /\ Emptied(mode)
  /\ UNCHANGED <<setup, finished, told, flags, wait, worker, task, pushing, pushed, clock>>

WaitOver ==
  /\ MainAt("judge", "idle") /\ ~MustGather
  /\ wait' = FALSE
  /\ UNCHANGED <<setup, queues, flags, worker, task, pushing, pushed, clock>>

\* retro_task_regular_gather: the handler of the next task, if it is due.
CallHandler ==
  /\ MainAt("batch", "handler")
  /\ batch # <<>> /\ Due(Head(batch))
  /\ calls' = [calls EXCEPT ![Head(batch)] = @ + 1]
  /\ UNCHANGED <<setup, queues, done, cancelled, wait, worker, task, pushing, pushed, clock>>

\* The task goes to one of the two queues.
Sorted ==
  /\ \/ MainAt("batch", "batch") /\ batch # <<>> /\ ~Due(Head(batch)) /\ UNCHANGED done
     \/ /\ MainAt("handler", "batch")
        /\ calls[Head(batch)] < MaxCalls /\ Head(batch) \notin cancelled
        /\ UNCHANGED done
     \/ MainAt("handler", "batch") /\ done' = done \cup {Head(batch)}
  /\ IF Head(batch) \in done'
     THEN finished' = Put(finished, Head(batch)) /\ UNCHANGED running
     ELSE running' = Put(running, Head(batch)) /\ UNCHANGED finished
  /\ batch' = Tail(batch)
  /\ UNCHANGED <<setup, told, cancelled, calls, wait, worker, task, pushing, pushed, clock>>

BatchDone ==
  /\ MainAt("batch", "collect") /\ batch = <<>>
  /\ UNCHANGED <<setup, queues, flags, wait, worker, task, pushing, pushed, clock>>

Cancel(ts) ==
  /\ cancelled' = cancelled \cup ts
  /\ UNCHANGED <<setup, queues, done, calls, wait, worker, task, pushing, pushed, clock>>

\* Mutant: the task in work is spared.
InQueueIdle == ToSet(running) \ {task}

InQueue == ToSet(running)

TaskQueueReset ==
  /\ MainAt("idle", "idle") \/ MainAt("callback", "callback")
  /\ mode # "none"
  /\ Cancel(InQueue)

\* task_queue_cancel_task: in the queue only if threaded.
TaskQueueCancel(t) ==
  /\ MainAt("idle", "idle") /\ mode # "none"
  /\ t \in pushed \ told
  /\ Cancel({t} \cap IF mode = "threaded" THEN InQueue ELSE {t})

Tick ==
  /\ clock < MaxTime
  /\ clock' = clock + 1
  /\ UNCHANGED <<setup, queues, flags, main, wait, worker, task, pushing, pushed>>
-----------------------------------------------------------------------------

TaskWorker ==
  \/ Continue \/ GetTask \/ Timeout \/ HandlerReturns \/ HandlerFinishes
  \/ AddToFinished \/ PushBlocking("worker")

\* What the main thread does once it is inside a function of the queue.
InsideQueue ==
  \/ LockFinished \/ CallBack \/ CallBackReturns \/ Gathered
  \/ WaitOn \/ WaitOver \/ CallHandler \/ Sorted \/ BatchDone
  \/ PushBlocking("main") \/ Joined \/ Switched

Check == TaskQueueCheck \/ CheckStopsWorker

TQNext ==
  \/ TaskWorker \/ InsideQueue \/ Check
  \/ \E a \in Threads, t \in Tasks : Push(a, t) \/ LookForBlocking(a, t)
  \/ \E m \in {"regular", "threaded"} : TaskQueueInit(m)
  \/ \E b \in BOOLEAN : SetThreaded(b)
  \/ TaskQueueDeinit \/ TaskQueueWait \/ TaskQueueReset
  \/ \E t \in Tasks : TaskQueueCancel(t)
  \/ Tick \/ SpuriousWakeUp

TQSpec == TQInit /\ [][TQNext]_tqVars

\* Both threads run, handlers return, time passes, and the application calls
\* task_queue_check again and again, as its comment asks of the main thread.
\* The worker gets a lock that the main thread, which spins in task_queue_wait,
\* frees again and again.
TQFairSpec ==
  /\ TQSpec
  /\ SF_tqVars(TaskWorker) /\ WF_tqVars(InsideQueue)
  /\ WF_tqVars(Tick) /\ SF_tqVars(Check)

-----------------------------------------------------------------------------
(* Properties *)

Times(q, t) == {i \in 1 .. Len(q) : q[i] = t}

\* Every variable has its type (the globals of task_queue.c and the locals of
\* the two threads).
TQTypeOK ==
  /\ mode \in {"none", "regular", "threaded"}
  /\ {want, goon, wait} \subseteq BOOLEAN
  /\ {running, finished, batch} \subseteq Seq(Tasks)
  /\ done \cup cancelled \cup told \subseteq pushed
  /\ pushed \subseteq Tasks
  /\ main \in MainPC /\ worker \in TaskWorkerPC
  /\ task \in Tasks \cup {NoTask}
  /\ pushing \in [Threads -> Blocking \cup {NoTask}]
  /\ calls \in [Tasks -> 0 .. MaxCalls]
  /\ clock \in 0 .. MaxTime

\* A task that was pushed is in one place until it is told, and then in none:
\* no queue and no thread is left with it when it is freed, through all
\* changes of the implementation (retro_task_internal_gather).
OnePlace ==
  \A t \in Tasks :
    LET places == Times(running, t) \X {"r"} \cup Times(finished, t) \X {"f"}
                    \cup Times(batch, t) \X {"b"}
                    \cup (IF worker = "removed" /\ task = t THEN {<<0, "w">>} ELSE {})
                    \cup (IF t \in told THEN {<<0, "t">>} ELSE {})
    IN  /\ IF t \in pushed THEN \E p \in places : places = {p} ELSE places = {}
        /\ worker = "handling" /\ task = t => Times(running, t) # {}

\* The task whose handler runs.
Handled ==
  IF worker = "handling" THEN task
  ELSE IF main = "handler" THEN Head(batch) ELSE NoTask

L == INSTANCE TaskLife WITH
       queued <- ToSet(running) \cup ToSet(batch),
       inHand <- Handled,
       finished <- done,
       calling <- IF main = "callback" THEN Head(finished) ELSE NoTask

\* The promise of task_queue.h: handlers one at a time and never after the task
\* is finished, then one callback, whoever handles: threads, lists and changes
\* of the implementation do not show (threaded_worker, retro_task_*_gather).
KeepsLife == L!Spec

\* task_queue.h: "Blocks until all non-scheduled tasks have finished.": only
\* the first task is looked at, so the queue must keep its order.
WaitsForUnscheduled ==
  [][WaitOver => \A t \in pushed \ (done \cup told) : When[t] > 0]_tqVars

\* task_queue.h: "Sends a signal to terminate all the tasks.", those a handler
\* is in and those a callback has just pushed included (retro_task_*_reset).
ResetReachesAll == [][TaskQueueReset => pushed \ (done \cup told) \subseteq cancelled']_tqVars

\* If the queue is not shut down for good, and its thread not waited for for
\* ever, the callback of every task is called (the signals of worker_cond).
EveryTaskTold ==
  <>[](mode # "none" /\ main \notin {"joining", "switching"}) =>
    \A t \in Tasks : t \in pushed ~> t \in told

\* The functions that wait for the worker to end return.
ShutdownEnds == main \in {"joining", "switching"} ~> main \notin {"joining", "switching"}

\* task_queue.h: "Only one blocking task can exist in the queue at a time."
OneBlocking ==
  \A s, t \in Blocking \cap ToSet(running) : s = t

\* task_queue.h: wait "Blocks until all non-scheduled tasks have finished";
\* their callbacks were called too.
WaitTells == [][WaitOver => \A t \in pushed : When[t] = 0 => t \in told]_tqVars

=============================================================================
