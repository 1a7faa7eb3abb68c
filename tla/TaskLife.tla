------------------------------ MODULE TaskLife ------------------------------
(***************************************************************************)
(* What a queue of tasks promises, as                                      *)
(* source/Libretro/include/queues/task_queue.h puts it: a task that was    *)
(* pushed is handled, not before its time and never two at once, until its *)
(* handler has it finished; then its callback is called, once, and it is   *)
(* gone.  A handler ends a task that was cancelled, as it must.  Nothing   *)
(* is said of threads, lists and locks, or of the order of tasks.  The     *)
(* clock is as coarse as the queue's, which allows half a millisecond for  *)
(* switching threads.  TaskQueue implements this specification.            *)
(***************************************************************************)
EXTENDS Naturals

CONSTANTS
  Tasks,     \* the tasks the application makes
  When,      \* the time each is scheduled for
  NoTask     \* no task

VARIABLES
  queued,    \* pushed and not finished
  inHand,    \* the task whose handler runs
  finished,  \* finished, and not gone
  calling,   \* the task whose callback runs
  told,      \* those whose callback was called
  cancelled, \* those that must end
  clock      \* the time

vars == <<queued, inHand, finished, calling, told, cancelled, clock>>

Init ==
  /\ queued = {} /\ finished = {} /\ told = {} /\ cancelled = {}
  /\ inHand = NoTask /\ calling = NoTask
  /\ clock = 0

Push(t) ==
  /\ t \notin queued \cup finished \cup told
  /\ queued' = queued \cup {t}
  /\ UNCHANGED <<inHand, finished, calling, told, cancelled, clock>>

Begin(t) ==
  /\ inHand = NoTask
  /\ t \in queued /\ When[t] <= clock
  /\ inHand' = t
  /\ UNCHANGED <<queued, finished, calling, told, cancelled, clock>>

Return ==
  /\ inHand \in queued \ cancelled
  /\ inHand' = NoTask
  /\ UNCHANGED <<queued, finished, calling, told, cancelled, clock>>

Finish ==
  /\ inHand \in queued
  /\ queued' = queued \ {inHand}
  /\ finished' = finished \cup {inHand}
  /\ inHand' = NoTask
  /\ UNCHANGED <<calling, told, cancelled, clock>>

Call(t) ==
  /\ calling = NoTask
  /\ t \in finished
  /\ calling' = t
  /\ UNCHANGED <<queued, inHand, finished, told, cancelled, clock>>

Tell ==
  /\ calling \in finished
  /\ finished' = finished \ {calling}
  /\ told' = told \cup {calling}
  /\ cancelled' = cancelled \ {calling}
  /\ calling' = NoTask
  /\ UNCHANGED <<queued, inHand, clock>>

\* task_queue_cancel_task, and task_queue_reset, which spares none.
Cancel(ts) ==
  /\ cancelled' = cancelled \cup ts
  /\ UNCHANGED <<queued, inHand, finished, calling, told, clock>>

Pass ==
  /\ clock' > clock
  /\ UNCHANGED <<queued, inHand, finished, calling, told, cancelled>>

Next ==
  \/ \E t \in Tasks : Push(t) \/ Begin(t) \/ Call(t)
  \/ Return \/ Finish \/ Tell
  \/ (\E t \in queued \cup finished : Cancel({t})) \/ Cancel(queued)
  \/ Pass

Spec == Init /\ [][Next]_vars

=============================================================================
