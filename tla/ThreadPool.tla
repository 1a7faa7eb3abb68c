----------------------------- MODULE ThreadPool -----------------------------
(***************************************************************************)
(* The pool of threads of libretro-common, source/Libretro/rthreads/       *)
(* tpool.c.  The threads of the pool and the threads that use it run       *)
(* concurrently; work_mutex makes each critical section one action, and    *)
(* scond_wait, which gives the mutex up, ends one action and begins        *)
(* another.  A thread that waits is woken by a signal, a broadcast, or for *)
(* no reason, as POSIX allows, and must then take the mutex again.         *)
(***************************************************************************)
EXTENDS Naturals, Sequences, FiniteSets

CONSTANTS
  Workers,  \* the threads tpool_create starts (two if asked for none)
  Clients,  \* the threads that use the pool
  Work,     \* pieces of work, each added once
  None      \* the null pointer

ASSUME ThreadsAssumption ==
  /\ Workers # {} /\ IsFiniteSet(Workers)
  /\ Clients \cap Workers = {}
ASSUME NoneAssumption == None \notin Work

VARIABLES
  queue,       \* the list from work_first to work_last
  freed,       \* the work objects tpool_destroy has freed; they stay linked
  stop,        \* tp->stop
  thread_cnt,  \* tp->thread_cnt
  working_cnt, \* tp->working_cnt
  pc,          \* where each thread is: see WorkerPC and ClientPC
  work,        \* the local variable work of each worker
  ended,       \* history: the work whose function has returned
  gone,        \* tpool_destroy has freed the pool
  fault        \* a worker has read freed work: what follows is undefined

counts == <<thread_cnt, working_cnt>>
vars == <<queue, freed, stop, counts, pc, work, ended, gone, fault>>

WorkerPC == {"top", "waiting", "woken", "busy", "ran", "exited"}
ClientPC == {"idle", "joining", "waiting", "woken"}

Entries == {queue[i] : i \in 1 .. Len(queue)}
Held == {work[w] : w \in Workers} \ {None}

\* tpool_create: the counts are set before the threads start.
Init ==
  /\ queue = <<>>
  /\ freed = {}
  /\ stop = FALSE
  /\ thread_cnt = Cardinality(Workers)
  /\ working_cnt = 0
  /\ pc = [t \in Workers \cup Clients |-> IF t \in Workers THEN "top" ELSE "idle"]
  /\ work = [w \in Workers |-> None]
  /\ ended = {}
  /\ gone = FALSE
  /\ fault = FALSE

Goes(t, to) == [pc EXCEPT ![t] = to]

\* Mutant: nobody is woken.
BroadcastToNobody(p) == p

\* scond_broadcast(work_cond): every worker that waits must take the mutex.
Broadcast(p) ==
  [t \in Workers \cup Clients |->
     IF t \in Workers /\ p[t] = "waiting" THEN "woken" ELSE p[t]]

\* scond_signal(working_cond): one client that waits, if there is one.
SignalClient(p) ==
  \/ (\A c \in Clients : p[c] # "waiting") /\ pc' = p
  \/ \E c \in Clients : p[c] = "waiting" /\ pc' = [p EXCEPT ![c] = "woken"]

-----------------------------------------------------------------------------
(* tpool_worker *)

\* Mutant: the last item of the queue stays in it.
GetWorkKeepsLast(w) ==
  /\ queue # <<>>
  /\ queue' = IF Len(queue) = 1 THEN queue ELSE Tail(queue)
  /\ work' = [work EXCEPT ![w] = Head(queue)]
  /\ working_cnt' = working_cnt + 1
  /\ pc' = Goes(w, "busy")
  /\ UNCHANGED fault

\* tpool_work_get with the mutex held, and working_cnt++.  It may find the
\* queue empty, and it follows the first item even if that has been freed.
GetWork(w) ==
  \/ /\ queue = <<>>
     /\ working_cnt' = working_cnt + 1
     /\ pc' = Goes(w, "ran")
     /\ UNCHANGED <<queue, work, fault>>
  \/ /\ queue # <<>>
     /\ Head(queue) \notin freed
     /\ queue' = Tail(queue)
     /\ work' = [work EXCEPT ![w] = Head(queue)]
     /\ working_cnt' = working_cnt + 1
     /\ pc' = Goes(w, "busy")
     /\ UNCHANGED fault
  \/ /\ queue # <<>>
     /\ Head(queue) \in freed
     /\ fault' = TRUE
     /\ UNCHANGED <<queue, work, working_cnt, pc>>

\* The top of the loop: not stopped, and no work yet.
SleepForWork(w) ==
  /\ ~fault /\ pc[w] = "top"
  /\ ~stop
  /\ queue = <<>>
  /\ pc' = Goes(w, "waiting")
  /\ UNCHANGED <<queue, freed, stop, counts, work, ended, gone, fault>>

\* The same, with work; or scond_wait has returned.  Then neither stop nor
\* the queue is looked at again.
TakeWork(w) ==
  /\ ~fault
  /\ \/ pc[w] = "top" /\ ~stop /\ queue # <<>>
     \/ pc[w] = "woken"
  /\ GetWork(w)
  /\ UNCHANGED <<freed, stop, thread_cnt, ended, gone>>

\* work->func returns, and the work object is freed.
RunWork(w) ==
  /\ ~fault /\ pc[w] = "busy"
  /\ ended' = ended \cup {work[w]}
  /\ work' = [work EXCEPT ![w] = None]
  /\ pc' = Goes(w, "ran")
  /\ UNCHANGED <<queue, freed, stop, counts, gone, fault>>

\* Mutant: the signal is given only while there is work left.
QuietWithWork == ~stop /\ working_cnt = 1 /\ queue # <<>>

\* After working_cnt--: nothing is processed and nothing is queued.
Quiet == ~stop /\ working_cnt = 1 /\ queue = <<>>

LeaveWork(w) ==
  /\ ~fault /\ pc[w] = "ran"
  /\ working_cnt' = working_cnt - 1
  /\ IF Quiet THEN SignalClient(Goes(w, "top")) ELSE pc' = Goes(w, "top")
  /\ UNCHANGED <<queue, freed, stop, thread_cnt, work, ended, gone, fault>>

LastThread == thread_cnt = 1

Exit(w) ==
  /\ ~fault /\ pc[w] = "top"
  /\ stop
  /\ thread_cnt' = thread_cnt - 1
  /\ IF LastThread THEN SignalClient(Goes(w, "exited")) ELSE pc' = Goes(w, "exited")
  /\ UNCHANGED <<queue, freed, stop, working_cnt, work, ended, gone, fault>>

-----------------------------------------------------------------------------
(* The functions a client calls *)

\* tpool_add_work: append, and wake every worker that waits.
AddWork(c, x) ==
  /\ ~fault /\ pc[c] = "idle"
  /\ ~stop
  /\ x \notin Entries \cup Held \cup ended
  /\ queue' = Append(queue, x)
  /\ pc' = Broadcast(pc)
  /\ UNCHANGED <<freed, stop, counts, work, ended, gone, fault>>

\* Mutant: whoever waits for the end looks at the working threads only.
MustWaitForWork == working_cnt # 0

\* The condition of tpool_wait.
MustWait == (~stop /\ working_cnt # 0) \/ (stop /\ thread_cnt # 0)

\* tpool_wait, from its start or from the return of scond_wait.  In
\* tpool_destroy the pool is freed when it returns.
Wait(c) ==
  /\ ~fault /\ ~gone
  /\ pc[c] = "idle" => ~stop
  /\ pc[c] # "waiting"
  /\ pc' = Goes(c, IF MustWait THEN "waiting" ELSE "idle")
  /\ gone' = (stop /\ ~MustWait)
  /\ UNCHANGED <<queue, freed, stop, counts, work, ended, fault>>

\* tpool_destroy up to tpool_wait.  No other client is inside the pool, and
\* none calls it any more.
Destroy(c) ==
  /\ ~fault /\ ~stop
  /\ \A d \in Clients : pc[d] = "idle"
  /\ freed' = Entries
  /\ stop' = TRUE
  /\ pc' = [Broadcast(pc) EXCEPT ![c] = "joining"]
  /\ UNCHANGED <<queue, counts, work, ended, gone, fault>>

\* A wait returns although nobody signalled.
WakeUp(t) ==
  /\ ~fault /\ pc[t] = "waiting"
  /\ pc' = Goes(t, "woken")
  /\ UNCHANGED <<queue, freed, stop, counts, work, ended, gone, fault>>

-----------------------------------------------------------------------------

Worker(w) ==
  SleepForWork(w) \/ TakeWork(w) \/ RunWork(w) \/ LeaveWork(w) \/ Exit(w)

\* A client inside tpool_wait or tpool_destroy goes on with it.
Inside(c) == pc[c] # "idle" /\ Wait(c)

Next ==
  \/ \E w \in Workers : Worker(w)
  \/ \E c \in Clients : Wait(c) \/ Destroy(c) \/ \E x \in Work : AddWork(c, x)
  \/ \E t \in Workers \cup Clients : WakeUp(t)

Spec == Init /\ [][Next]_vars

\* The scheduler lets every thread run, every function of work returns, and
\* waits do not return for no reason for ever.
FairSpec ==
  /\ Spec
  /\ <>[][\A t \in Workers \cup Clients : ~WakeUp(t)]_vars
  /\ \A w \in Workers : WF_vars(Worker(w))
  /\ \A c \in Clients : WF_vars(Inside(c))

-----------------------------------------------------------------------------
(* Properties *)

\* Every variable has its type (struct tpool, the locals of tpool_worker).
TypeOK ==
  /\ queue \in Seq(Work)
  /\ freed \subseteq Work
  /\ stop \in BOOLEAN
  /\ thread_cnt \in 0 .. Cardinality(Workers)
  /\ working_cnt \in 0 .. Cardinality(Workers)
  /\ pc \in [Workers \cup Clients -> WorkerPC \cup ClientPC]
  /\ \A w \in Workers : pc[w] \in WorkerPC
  /\ \A c \in Clients : pc[c] \in ClientPC
  /\ work \in [Workers -> Work \cup {None}]
  /\ ended \subseteq Work
  /\ gone \in BOOLEAN
  /\ fault \in BOOLEAN

\* When tpool_destroy has freed the pool no thread of it is left that could
\* take its mutex or read its queue, whatever each was doing when the
\* destruction began (the two meanings of working_cond in tpool_wait).
GoneIsQuiet == gone => \A w \in Workers : pc[w] = "exited"

\* Work is begun in the order it was added, each piece once, and discarded
\* only by tpool_destroy, which outlasts the work that had begun.
P == INSTANCE WorkPool WITH
       Work <- Work,
       queued <- IF stop THEN <<>> ELSE queue,
       running <- Held,
       ended <- ended,
       discarded <- freed,
       pool <- IF gone THEN "gone" ELSE IF stop THEN "ending" ELSE "live"

KeepsPromise == P!Spec

\* Work that was added is completed or discarded in the end, also if every
\* worker was going to sleep when it came (tpool_add_work, tpool_worker).
WorkEnds ==
  \A x \in Work : x \in Entries ~> x \in ended \cup freed \/ fault

\* Two clients in tpool_wait, or in tpool_wait and tpool_destroy, at once.
Crowded ==
  \E c, d \in Clients :
    c # d /\ pc[c] \in {"waiting", "woken"} /\ pc[d] \in {"waiting", "woken"}

\* A client in tpool_wait or tpool_destroy gets out, if clients never wait two
\* at a time: the last worker to finish, or to exit, signals it (working_cond).
LoneWaiterReturns ==
  []~Crowded =>
    \A c \in Clients : pc[c] = "waiting" ~> pc[c] = "idle" \/ fault

\* tpool.h: "Wait for all work in the pool to be completed."
WaitsForAll ==
  [][\A c \in Clients :
       Wait(c) /\ pc'[c] = "idle" /\ ~stop => queue = <<>> /\ Held = {}]_vars

\* tpool.h: "The pool can be destroyed while there is outstanding work to
\* process." The work that is freed is not looked at again.
NoFreedWork == ~fault

\* tpool.h: "Wait for all work in the pool to be completed.": whoever waits is
\* told, also if several threads do.
WaiterReturns ==
  \A c \in Clients : pc[c] = "waiting" ~> pc[c] = "idle" \/ fault

=============================================================================
