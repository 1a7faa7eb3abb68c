---------------------------- MODULE ThreadProofs ----------------------------
(***************************************************************************)
(* Proofs about ThreadPool, for any finite set of threads, any clients and *)
(* any work.  The counters of the pool count the threads that the pc of    *)
(* each one says they count (Counted); a worker has an item exactly while  *)
(* it runs it (Sound); every item is in one place (Placed).                *)
(*                                                                         *)
(* And about TaskQueue, for any tasks and times: the lists, the finished   *)
(* tasks and those that were told share the pushed ones out (Shared), the  *)
(* list of the running ones is in the order of time (InTime), and which    *)
(* thread handles what follows from the implementation (Division).         *)
(***************************************************************************)
EXTENDS ThreadPool, TaskQueue, FiniteSetTheorems, SequenceTheorems,
        WellFoundedInduction, TLAPS

Working == {w \in Workers : pc[w] \in {"busy", "ran"}}
Alive == {w \in Workers : pc[w] # "exited"}

Counted ==
  /\ thread_cnt = Cardinality(Alive)
  /\ working_cnt = Cardinality(Working)

\* The types but for the ranges of the counters, which follow from Counted.
Typed ==
  /\ queue \in Seq(Work)
  /\ freed \subseteq Work
  /\ stop \in BOOLEAN
  /\ pc \in [Workers \cup Clients -> WorkerPC \cup ClientPC]
  /\ \A w \in Workers : pc[w] \in WorkerPC
  /\ \A c \in Clients : pc[c] \in ClientPC
  /\ work \in [Workers -> Work \cup {None}]
  /\ ended \subseteq Work
  /\ gone \in BOOLEAN
  /\ fault \in BOOLEAN

Sound ==
  /\ \A w \in Workers : work[w] # None <=> pc[w] = "busy"
  /\ \A w \in Workers : pc[w] = "exited" => stop
  /\ gone => stop /\ thread_cnt = 0

Placed ==
  /\ \A i, j \in 1 .. Len(queue) : queue[i] = queue[j] => i = j
  /\ \A v, w \in Workers : work[v] = work[w] /\ work[v] # None => v = w
  /\ \A w \in Workers : work[w] \notin Entries \cup ended
  /\ Entries \cap ended = {}
  /\ IF stop THEN Entries \subseteq freed ELSE freed = {}

IInv == Typed /\ Counted /\ Sound /\ Placed

-----------------------------------------------------------------------------
(* Queues and counts *)

LEMMA HeadTail ==
  ASSUME NEW S, NEW q \in Seq(S), q # <<>>
  PROVE  /\ Len(q) \in Nat /\ Len(q) >= 1
         /\ Head(q) = q[1] /\ Head(q) \in S
         /\ Tail(q) \in Seq(S)
         /\ Len(Tail(q)) = Len(q) - 1
         /\ \A i \in 1 .. Len(Tail(q)) : Tail(q)[i] = q[i + 1]
BY HeadTailProperties, EmptySeq

LEMMA Appended ==
  ASSUME NEW S, NEW q \in Seq(S), NEW x \in S
  PROVE  /\ Append(q, x) \in Seq(S)
         /\ Len(q) \in Nat /\ Len(Append(q, x)) = Len(q) + 1
         /\ \A i \in 1 .. Len(q) : Append(q, x)[i] = q[i]
         /\ Append(q, x)[Len(q) + 1] = x
BY AppendProperties

LEMMA FiniteParts ==
  ASSUME NEW A \in SUBSET Workers
  PROVE  /\ IsFiniteSet(A)
         /\ Cardinality(A) \in 0 .. Cardinality(Workers)
         /\ Cardinality(A) = 0 <=> A = {}
BY ThreadsAssumption, FS_Subset, FS_EmptySet, FS_CardinalityType

LEMMA OneMore ==
  ASSUME NEW A \in SUBSET Workers, NEW w \in Workers \ A
  PROVE  Cardinality(A \cup {w}) = Cardinality(A) + 1
BY FiniteParts, FS_AddElement

LEMMA OneLess ==
  ASSUME NEW A \in SUBSET Workers, NEW w \in A
  PROVE  Cardinality(A \ {w}) = Cardinality(A) - 1
BY FiniteParts, FS_RemoveElement

\* What waking others does: no worker begins or ends to work or to live.
SameWork(p, q) ==
  \A w \in Workers :
    q[w] = p[w] \/ (p[w] = "waiting" /\ q[w] = "woken")

PCTyped(p) ==
  /\ p \in [Workers \cup Clients -> WorkerPC \cup ClientPC]
  /\ \A w \in Workers : p[w] \in WorkerPC
  /\ \A c \in Clients : p[c] \in ClientPC

LEMMA Broadcasts ==
  ASSUME NEW p, PCTyped(p)
  PROVE  PCTyped(Broadcast(p)) /\ SameWork(p, Broadcast(p))
BY ThreadsAssumption DEF PCTyped, SameWork, Broadcast, WorkerPC, ClientPC

LEMMA Signals ==
  ASSUME NEW p, PCTyped(p), SignalClient(p)
  PROVE  PCTyped(pc') /\ \A w \in Workers : pc'[w] = p[w]
BY ThreadsAssumption DEF PCTyped, SignalClient, WorkerPC, ClientPC

LEMMA GoesTyped ==
  ASSUME PCTyped(pc), NEW w \in Workers, NEW to \in WorkerPC
  PROVE  /\ PCTyped(Goes(w, to)) /\ Goes(w, to)[w] = to
         /\ \A v \in Workers \ {w} : Goes(w, to)[v] = pc[v]
BY ThreadsAssumption DEF PCTyped, Goes, WorkerPC, ClientPC

LEMMA ClientGoes ==
  ASSUME PCTyped(pc), NEW c \in Clients, NEW to \in ClientPC
  PROVE  /\ PCTyped(Goes(c, to))
         /\ \A v \in Workers : Goes(c, to)[v] = pc[v]
BY ThreadsAssumption DEF PCTyped, Goes, WorkerPC, ClientPC

\* A step after which the workers work and live as before keeps the counts.
LEMMA CountedKept ==
  ASSUME Counted, SameWork(pc, pc'), UNCHANGED counts
  PROVE  Counted'
<1>1. Working' = Working BY DEF Working, SameWork
<1>2. Alive' = Alive BY DEF Alive, SameWork
<1> QED BY <1>1, <1>2 DEF Counted, counts

-----------------------------------------------------------------------------
(* The steps of a worker *)

\* One worker goes from one place to another and no other worker moves.
Moved(w, from, to) ==
  /\ PCTyped(pc')
  /\ pc[w] = from /\ pc'[w] = to
  /\ \A v \in Workers \ {w} : pc'[v] = pc[v]

LEMMA MovedSets ==
  ASSUME NEW w \in Workers, NEW from, NEW to, Moved(w, from, to)
  PROVE  /\ Working' = IF to \in {"busy", "ran"} THEN Working \cup {w} ELSE Working \ {w}
         /\ Alive' = IF to # "exited" THEN Alive \cup {w} ELSE Alive \ {w}
         /\ w \in Working <=> from \in {"busy", "ran"}
         /\ w \in Alive <=> from # "exited"
         /\ Working \subseteq Workers /\ Alive \subseteq Workers
<1>1. Working' = IF to \in {"busy", "ran"} THEN Working \cup {w} ELSE Working \ {w}
  BY DEF Working, Moved
<1>2. Alive' = IF to # "exited" THEN Alive \cup {w} ELSE Alive \ {w}
  BY DEF Alive, Moved
<1> QED BY <1>1, <1>2 DEF Working, Alive, Moved

LEMMA IInvTyped == IInv => PCTyped(pc)
BY DEF IInv, Typed, PCTyped

LEMMA SleepKeeps ==
  ASSUME IInv, NEW w \in Workers, SleepForWork(w)
  PROVE  IInv'
<1>1. Moved(w, "top", "waiting")
  BY GoesTyped, IInvTyped DEF Moved, SleepForWork, WorkerPC
<1>2. Typed'
  BY <1>1 DEF IInv, Typed, PCTyped, SleepForWork, Moved
<1>3. Counted'
  BY <1>1, MovedSets DEF IInv, Counted, SleepForWork, counts
<1>4. Sound'
  BY <1>1 DEF IInv, Sound, SleepForWork, counts, Moved
<1>5. Placed'
  BY DEF IInv, Placed, SleepForWork, Entries
<1> QED BY <1>2, <1>3, <1>4, <1>5 DEF IInv

LEMMA TakeKeeps ==
  ASSUME IInv, NEW w \in Workers, TakeWork(w)
  PROVE  IInv'
<1>0. /\ pc[w] \in {"top", "woken"} /\ w \notin Working /\ w \in Alive
      /\ work[w] = None /\ thread_cnt' = thread_cnt
  BY DEF TakeWork, IInv, Sound, Working, Alive
<1>1. CASE queue = <<>> /\ fault' = fault
  <2>1. Moved(w, pc[w], "ran") /\ working_cnt' = working_cnt + 1 /\ UNCHANGED <<queue, work>>
    BY <1>1, GoesTyped, IInvTyped DEF Moved, TakeWork, GetWork, WorkerPC
  <2>2. Typed'
    BY <2>1, <1>1 DEF IInv, Typed, PCTyped, TakeWork, Moved
  <2>3. Counted'
    BY <2>1, <1>0, MovedSets, OneMore DEF IInv, Counted
  <2>4. Sound'
    BY <2>1, <1>0 DEF IInv, Sound, TakeWork, Moved
  <2>5. Placed'
    BY <2>1 DEF IInv, Placed, TakeWork, Entries
  <2> QED BY <2>2, <2>3, <2>4, <2>5 DEF IInv
<1>2. CASE queue # <<>> /\ Head(queue) \notin freed
  <2>1. /\ Moved(w, pc[w], "busy") /\ working_cnt' = working_cnt + 1 /\ UNCHANGED fault
        /\ queue' = Tail(queue) /\ work' = [work EXCEPT ![w] = Head(queue)]
    BY <1>2, GoesTyped, IInvTyped DEF Moved, TakeWork, GetWork, WorkerPC
  <2>2. queue \in Seq(Work)
    BY DEF IInv, Typed
  <2>3. /\ Len(queue) \in Nat /\ Len(queue) >= 1 /\ Head(queue) = queue[1]
        /\ Head(queue) \in Work /\ Tail(queue) \in Seq(Work)
        /\ Len(queue') = Len(queue) - 1
        /\ \A i \in 1 .. Len(queue') : queue'[i] = queue[i + 1]
    BY <2>1, <2>2, <1>2, HeadTail
  <2>4. work' \in [Workers -> Work \cup {None}]
    BY <2>1, <2>3 DEF IInv, Typed
  <2>5. Typed'
    BY <2>1, <2>3, <2>4 DEF IInv, Typed, PCTyped, TakeWork, Moved
  <2>6. Counted'
    BY <2>1, <1>0, MovedSets, OneMore DEF IInv, Counted
  <2>7. Head(queue) # None
    BY <2>3, NoneAssumption
  <2>8. /\ work'[w] = Head(queue) /\ \A v \in Workers \ {w} : work'[v] = work[v]
    BY <2>1 DEF IInv, Typed
  <2>9. Sound'
    BY <2>1, <2>7, <2>8, <1>0 DEF IInv, Sound, TakeWork, Moved
  <2>10. Placed'
    <3>1. /\ \A i \in 1 .. Len(queue') : i + 1 \in 1 .. Len(queue) /\ i + 1 # 1
          /\ 1 \in 1 .. Len(queue) /\ Head(queue) \in Entries
      BY <2>3 DEF Entries
    <3>2. Entries' \subseteq Entries \ {Head(queue)}
      BY <3>1, <2>3 DEF Entries, IInv, Placed
    <3>3. \A i, j \in 1 .. Len(queue') : queue'[i] = queue'[j] => i = j
      <4> SUFFICES ASSUME NEW i \in 1 .. Len(queue'), NEW j \in 1 .. Len(queue'),
                          queue'[i] = queue'[j]
                   PROVE  i = j
        OBVIOUS
      <4>1. i + 1 = j + 1
        BY <3>1, <2>3 DEF IInv, Placed
      <4> QED BY <4>1, <2>3
    <3>4. \A u, v \in Workers : work'[u] = work'[v] /\ work'[u] # None => u = v
      BY <2>8, <3>1 DEF IInv, Placed
    <3>5. \A v \in Workers : work'[v] \notin Entries' \cup ended
      BY <2>8, <3>1, <3>2 DEF IInv, Placed
    <3> QED BY <3>2, <3>3, <3>4, <3>5 DEF IInv, Placed, TakeWork
  <2> QED BY <2>5, <2>6, <2>9, <2>10 DEF IInv
<1>3. CASE queue # <<>> /\ Head(queue) \in freed
  <2>1. fault' = TRUE /\ UNCHANGED <<queue, freed, stop, counts, pc, work, ended, gone>>
    BY <1>3 DEF TakeWork, GetWork, counts
  <2>2. Typed'
    BY <2>1 DEF IInv, Typed
  <2>3. Counted' /\ Sound' /\ Placed'
    BY <2>1 DEF IInv, Counted, Sound, Placed, Entries, counts, Working, Alive
  <2> QED BY <2>2, <2>3 DEF IInv
<1> QED BY <1>1, <1>2, <1>3 DEF TakeWork, GetWork

LEMMA RunKeeps ==
  ASSUME IInv, NEW w \in Workers, RunWork(w)
  PROVE  IInv'
<1>1. Moved(w, "busy", "ran")
  BY GoesTyped, IInvTyped DEF Moved, RunWork, WorkerPC
<1>2. /\ work'[w] = None /\ \A v \in Workers \ {w} : work'[v] = work[v]
      /\ work[w] \in Work /\ ended' = ended \cup {work[w]}
  BY DEF RunWork, IInv, Typed, Sound
<1>3. Typed'
  BY <1>1, <1>2 DEF IInv, Typed, PCTyped, RunWork, Moved
<1>4. Counted'
  <2>1. Working' = Working /\ Alive' = Alive
    BY <1>1, MovedSets
  <2> QED BY <2>1 DEF IInv, Counted, RunWork, counts
<1>5. Sound'
  BY <1>1, <1>2 DEF IInv, Sound, RunWork, counts, Moved
<1>6. Placed'
  <2>1. UNCHANGED <<queue, freed, stop, Entries>> /\ work[w] # None
    BY DEF RunWork, IInv, Sound, Entries
  <2>2. Entries \subseteq Work /\ ended \subseteq Work
    BY DEF IInv, Typed, Entries
  <2>3. \A v \in Workers : work'[v] \notin Entries \cup ended \cup {work[w]}
    BY <1>2, <2>1, <2>2, NoneAssumption DEF IInv, Placed
  <2>4. \A u, v \in Workers : work'[u] = work'[v] /\ work'[u] # None => u = v
    BY <1>2 DEF IInv, Placed
  <2>5. Entries' \cap ended' = {}
    BY <1>2, <2>1 DEF IInv, Placed
  <2>6. \A v \in Workers : work'[v] \notin Entries' \cup ended'
    BY <1>2, <2>1, <2>3
  <2>7. \A i, j \in 1 .. Len(queue') : queue'[i] = queue'[j] => i = j
    BY <2>1 DEF IInv, Placed
  <2>8. IF stop' THEN Entries' \subseteq freed' ELSE freed' = {}
    BY <2>1 DEF IInv, Placed
  <2> QED BY <2>4, <2>5, <2>6, <2>7, <2>8 DEF Placed
<1> QED BY <1>3, <1>4, <1>5, <1>6 DEF IInv

\* A client waked with the step of a worker does not disturb the workers.
LEMMA MovedSignal ==
  ASSUME IInv, NEW w \in Workers, NEW to \in WorkerPC, SignalClient(Goes(w, to))
  PROVE  Moved(w, pc[w], to)
<1>1. PCTyped(Goes(w, to))
  BY GoesTyped, IInvTyped
<1>2. PCTyped(pc') /\ \A v \in Workers : pc'[v] = Goes(w, to)[v]
  BY <1>1, Signals
<1> QED BY <1>2, GoesTyped, IInvTyped DEF Moved

LEMMA LeaveKeeps ==
  ASSUME IInv, NEW w \in Workers, LeaveWork(w)
  PROVE  IInv'
<1>1. Moved(w, "ran", "top")
  BY GoesTyped, IInvTyped, MovedSignal DEF Moved, LeaveWork, WorkerPC
<1>2. Typed'
  BY <1>1 DEF IInv, Typed, PCTyped, LeaveWork, Moved
<1>3. Counted'
  <2>1. /\ Working' = Working \ {w} /\ Alive' = Alive /\ w \in Working
        /\ Working \subseteq Workers
    BY <1>1, MovedSets
  <2> QED BY <2>1, OneLess DEF IInv, Counted, LeaveWork
<1>4. Sound'
  BY <1>1 DEF IInv, Sound, LeaveWork, Moved
<1>5. Placed'
  BY DEF IInv, Placed, LeaveWork, Entries
<1> QED BY <1>2, <1>3, <1>4, <1>5 DEF IInv

LEMMA ExitKeeps ==
  ASSUME IInv, NEW w \in Workers, Exit(w)
  PROVE  IInv'
<1>1. Moved(w, "top", "exited")
  BY GoesTyped, IInvTyped, MovedSignal DEF Moved, Exit, WorkerPC
<1>2. Typed'
  BY <1>1 DEF IInv, Typed, PCTyped, Exit, Moved
<1>3. Counted'
  <2>1. /\ Working' = Working /\ Alive' = Alive \ {w} /\ w \in Alive
        /\ Alive \subseteq Workers
    BY <1>1, MovedSets
  <2> QED BY <2>1, OneLess DEF IInv, Counted, Exit
<1>4. ~gone
  <2>1. w \in Alive
    BY <1>1, MovedSets
  <2> QED BY <2>1, FiniteParts DEF IInv, Counted, Sound, Alive
<1>5. Sound'
  BY <1>1, <1>4 DEF IInv, Sound, Exit, Moved
<1>6. Placed'
  BY DEF IInv, Placed, Exit, Entries
<1> QED BY <1>2, <1>3, <1>5, <1>6 DEF IInv

-----------------------------------------------------------------------------
(* The steps of a client, and waking *)

\* What every such step does to the workers is at most to wake them.
LEMMA WokenKeeps ==
  ASSUME IInv, PCTyped(pc'), SameWork(pc, pc'), UNCHANGED <<counts, work>>,
         stop => stop', gone' => stop' /\ thread_cnt = 0
  PROVE  Counted' /\ Sound'
<1>1. Counted'
  <2>1. Working' = Working /\ Alive' = Alive
    BY DEF Working, Alive, SameWork
  <2> QED BY <2>1 DEF IInv, Counted, counts
<1>2. Sound'
  BY DEF IInv, Sound, SameWork, counts
<1> QED BY <1>1, <1>2

LEMMA AddKeeps ==
  ASSUME IInv, NEW c \in Clients, NEW x \in Work, AddWork(c, x)
  PROVE  IInv'
<1>1. PCTyped(pc') /\ SameWork(pc, pc')
  BY Broadcasts, IInvTyped DEF AddWork
<1>2. Counted' /\ Sound'
  BY <1>1, WokenKeeps DEF AddWork, IInv, Sound
<1>3. /\ queue \in Seq(Work) /\ queue' \in Seq(Work)
      /\ Len(queue) \in Nat /\ Len(queue') = Len(queue) + 1
      /\ \A i \in 1 .. Len(queue) : queue'[i] = queue[i]
      /\ queue'[Len(queue) + 1] = x
  BY Appended DEF IInv, Typed, AddWork
<1>4. Typed'
  BY <1>1, <1>3 DEF IInv, Typed, PCTyped, AddWork
<1>5. Entries' = Entries \cup {x}
  <2>1. 1 .. Len(queue') = (1 .. Len(queue)) \cup {Len(queue) + 1}
    BY <1>3
  <2> QED BY <2>1, <1>3 DEF Entries
<1>6. x \notin Entries /\ x \notin ended /\ \A v \in Workers : work[v] # x
  BY NoneAssumption DEF AddWork, Held
<1>7. \A i, j \in 1 .. Len(queue') : queue'[i] = queue'[j] => i = j
  BY <1>3, <1>6 DEF IInv, Placed, Entries
<1>8. Placed'
  BY <1>5, <1>6, <1>7 DEF IInv, Placed, AddWork
<1> QED BY <1>2, <1>4, <1>8 DEF IInv

LEMMA WaitKeeps ==
  ASSUME IInv, NEW c \in Clients, Wait(c)
  PROVE  IInv'
<1>1. PCTyped(pc') /\ SameWork(pc, pc')
  BY ClientGoes, IInvTyped DEF Wait, SameWork, ClientPC
<1>2. gone' => stop' /\ thread_cnt = 0
  BY DEF Wait, MustWait, IInv, Typed
<1>3. Counted' /\ Sound'
  BY <1>1, <1>2, WokenKeeps DEF Wait
<1>4. Typed'
  BY <1>1 DEF IInv, Typed, PCTyped, Wait
<1>5. Placed'
  BY DEF IInv, Placed, Wait, Entries
<1> QED BY <1>3, <1>4, <1>5 DEF IInv

LEMMA DestroyKeeps ==
  ASSUME IInv, NEW c \in Clients, Destroy(c)
  PROVE  IInv'
<1>1. PCTyped(Broadcast(pc)) /\ SameWork(pc, Broadcast(pc))
  BY Broadcasts, IInvTyped
<1>2. PCTyped(pc') /\ SameWork(pc, pc')
  BY <1>1, ThreadsAssumption DEF Destroy, PCTyped, SameWork, WorkerPC, ClientPC
<1>3. Counted' /\ Sound'
  BY <1>2, WokenKeeps DEF Destroy, IInv, Sound
<1>4. Typed'
  <2>1. Entries \subseteq Work
    BY DEF IInv, Typed, Entries
  <2> QED BY <1>2, <2>1 DEF IInv, Typed, PCTyped, Destroy
<1>5. Placed'
  BY DEF IInv, Placed, Destroy, Entries
<1> QED BY <1>3, <1>4, <1>5 DEF IInv

LEMMA WakeKeeps ==
  ASSUME IInv, NEW t \in Workers \cup Clients, WakeUp(t)
  PROVE  IInv'
<1>1. PCTyped(pc') /\ SameWork(pc, pc')
  BY IInvTyped, ThreadsAssumption DEF WakeUp, Goes, PCTyped, SameWork, WorkerPC, ClientPC
<1>2. Counted' /\ Sound'
  BY <1>1, WokenKeeps DEF WakeUp, IInv, Sound
<1>3. Typed'
  BY <1>1 DEF IInv, Typed, PCTyped, WakeUp
<1>4. Placed'
  BY DEF IInv, Placed, WakeUp, Entries
<1> QED BY <1>2, <1>3, <1>4 DEF IInv

-----------------------------------------------------------------------------
(* Theorems *)

LEMMA InitSound == Init => IInv
<1> SUFFICES ASSUME Init PROVE IInv
  OBVIOUS
<1>1. Typed
  <2>1. /\ \A w \in Workers : pc[w] = "top"
        /\ \A c \in Clients : pc[c] = "idle"
        /\ pc \in [Workers \cup Clients -> WorkerPC \cup ClientPC]
    BY ThreadsAssumption DEF Init, WorkerPC, ClientPC
  <2>2. /\ \A w \in Workers : pc[w] \in WorkerPC
        /\ \A c \in Clients : pc[c] \in ClientPC
    BY <2>1 DEF WorkerPC, ClientPC
  <2>3. queue \in Seq(Work) /\ work \in [Workers -> Work \cup {None}]
    BY EmptySeq DEF Init
  <2> QED BY <2>1, <2>2, <2>3 DEF Init, Typed
<1>2. Working = {} /\ Alive = Workers
  BY DEF Init, Working, Alive
<1>3. Counted
  BY <1>2, FS_EmptySet DEF Init, Counted
<1>4. Sound /\ Placed
  BY NoneAssumption DEF Init, Sound, Placed, Entries
<1> QED BY <1>1, <1>3, <1>4 DEF IInv

LEMMA StepSound == IInv /\ [Next]_vars => IInv'
<1> SUFFICES ASSUME IInv, [Next]_vars PROVE IInv'
  OBVIOUS
<1>1. CASE UNCHANGED vars
  <2>1. UNCHANGED <<Working, Alive, Entries>>
    BY <1>1 DEF vars, Working, Alive, Entries
  <2>2. Typed' /\ Counted' /\ Sound' /\ Placed'
    BY <1>1, <2>1 DEF vars, counts, IInv, Typed, Counted, Sound, Placed
  <2> QED BY <2>2 DEF IInv
<1>2. CASE \E w \in Workers : Worker(w)
  BY <1>2, SleepKeeps, TakeKeeps, RunKeeps, LeaveKeeps, ExitKeeps DEF Worker
<1>3. CASE \E c \in Clients : Wait(c) \/ Destroy(c) \/ \E x \in Work : AddWork(c, x)
  BY <1>3, WaitKeeps, DestroyKeeps, AddKeeps
<1>4. CASE \E t \in Workers \cup Clients : WakeUp(t)
  BY <1>4, WakeKeeps
<1> QED BY <1>1, <1>2, <1>3, <1>4 DEF Next

\* The counters count, a worker has what it runs, each item is in one place.
THEOREM PoolIsSound == Spec => []IInv
BY InitSound, StepSound, PTL DEF Spec

\* Every variable of the pool has its type; in particular no counter drops
\* below zero or rises above the number of threads (tpool_worker).
THEOREM TypesHold == Spec => []TypeOK
<1>1. IInv => TypeOK
  <2> SUFFICES ASSUME IInv PROVE TypeOK
    OBVIOUS
  <2>1. Working \subseteq Workers /\ Alive \subseteq Workers
    BY DEF Working, Alive
  <2>2. /\ thread_cnt \in 0 .. Cardinality(Workers)
        /\ working_cnt \in 0 .. Cardinality(Workers)
    BY <2>1, FiniteParts DEF IInv, Counted
  <2> QED BY <2>2 DEF IInv, Typed, TypeOK
<1> QED BY <1>1, PoolIsSound, PTL

\* No thread of the pool is left when tpool_destroy has freed it, however many
\* threads there are and wherever each was (thread_cnt, working_cond).
THEOREM NoThreadOutlivesPool == Spec => []GoneIsQuiet
<1>1. IInv => GoneIsQuiet
  <2> SUFFICES ASSUME IInv, gone PROVE \A w \in Workers : pc[w] = "exited"
    BY DEF GoneIsQuiet
  <2>1. Cardinality(Alive) = 0 /\ Alive \subseteq Workers
    BY DEF IInv, Sound, Counted, Alive
  <2> QED BY <2>1, FiniteParts DEF Alive
<1> QED BY <1>1, PoolIsSound, PTL

LEMMA FirstStepMapped == Init => P!Init
BY DEF Init, P!Init, Held

\* No step of a thread, and no step of the specification, but the ones named.
LEMMA StepMapped == IInv /\ IInv' /\ [Next]_vars => [P!Next]_P!vars
<1> SUFFICES ASSUME IInv, IInv', [Next]_vars PROVE [P!Next]_P!vars
  OBVIOUS
<1>0. stop \in BOOLEAN /\ gone \in BOOLEAN /\ (gone => stop)
  BY DEF IInv, Typed, Sound
<1>1. CASE UNCHANGED vars
  BY <1>1 DEF vars, P!vars, Held
<1>2. CASE \E w \in Workers : SleepForWork(w) \/ LeaveWork(w) \/ Exit(w)
  BY <1>2 DEF SleepForWork, LeaveWork, Exit, counts, P!vars, Held
<1>3. CASE \E w \in Workers : TakeWork(w)
  <2> PICK w \in Workers : TakeWork(w)
    BY <1>3
  <2>1. CASE UNCHANGED <<queue, work>>
    BY <2>1 DEF TakeWork, P!vars, Held
  <2>2. CASE queue # <<>> /\ Head(queue) \notin freed /\ ~UNCHANGED <<queue, work>>
    <3>1. queue' = Tail(queue) /\ work' = [work EXCEPT ![w] = Head(queue)]
      BY <2>2 DEF TakeWork, GetWork
    <3>2. /\ Head(queue) \in Work /\ 1 \in 1 .. Len(queue) /\ Head(queue) = queue[1]
      BY <2>2, HeadTail DEF IInv, Typed
    <3>3. ~stop
      BY <2>2, <3>2 DEF IInv, Placed, Entries
    <3>4. work[w] = None /\ work \in [Workers -> Work \cup {None}]
      BY DEF TakeWork, IInv, Sound, Typed
    <3>5. Held' = Held \cup {Head(queue)}
      BY <3>1, <3>2, <3>4, NoneAssumption DEF Held
    <3>6. P!Begin
      BY <2>2, <3>1, <3>3, <3>5 DEF P!Begin, TakeWork
    <3> QED BY <3>6 DEF P!Next
  <2> QED BY <2>1, <2>2 DEF TakeWork, GetWork
<1>4. CASE \E w \in Workers : RunWork(w)
  <2> PICK w \in Workers : RunWork(w)
    BY <1>4
  <2>1. /\ work[w] \in Work /\ work[w] # None /\ work \in [Workers -> Work \cup {None}]
    BY DEF RunWork, IInv, Sound, Typed
  <2>2. work' = [work EXCEPT ![w] = None] /\ \A v \in Workers \ {w} : work[v] # work[w]
    BY <2>1 DEF RunWork, IInv, Placed
  <2>3. Held' = Held \ {work[w]} /\ work[w] \in Held
    BY <2>1, <2>2 DEF Held
  <2>4. P!Complete(work[w])
    BY <2>3 DEF RunWork, P!Complete
  <2> QED BY <2>1, <2>4 DEF P!Next
<1>5. CASE \E c \in Clients : Wait(c)
  <2> PICK c \in Clients : Wait(c)
    BY <1>5
  <2>1. CASE ~gone'
    BY <2>1 DEF Wait, P!vars, Held
  <2>2. CASE gone'
    <3>1. \A v \in Workers : pc'[v] = "exited" /\ work'[v] = None
      <4>1. Cardinality(Alive') = 0 /\ Alive' \subseteq Workers
        BY <2>2 DEF IInv, Sound, Counted, Alive
      <4>2. \A v \in Workers : pc'[v] = "exited"
        BY <4>1, FiniteParts DEF Alive
      <4> QED BY <4>2 DEF IInv, Sound
    <3>2. Held = {} /\ Held' = {}
      BY <3>1 DEF Wait, Held
    <3>3. P!Gone
      BY <2>2, <3>2, <1>0 DEF Wait, P!Gone
    <3> QED BY <3>3 DEF P!Next
  <2> QED BY <2>1, <2>2
<1>6. CASE \E c \in Clients : Destroy(c)
  <2> PICK c \in Clients : Destroy(c)
    BY <1>6
  <2>1. P!Entries(queue) = Entries /\ Held' = Held
    BY DEF Destroy, P!Entries, Entries, Held
  <2>2. P!Destroy
    BY <2>1, <1>0 DEF Destroy, P!Destroy
  <2> QED BY <2>2 DEF P!Next
<1>7. CASE \E c \in Clients, x \in Work : AddWork(c, x)
  <2> PICK c \in Clients, x \in Work : AddWork(c, x)
    BY <1>7
  <2>1. P!Entries(queue) = Entries /\ Held' = Held
    BY DEF AddWork, P!Entries, Entries, Held
  <2>2. P!Add(x)
    BY <2>1, <1>0 DEF AddWork, P!Add
  <2> QED BY <2>2 DEF P!Next
<1>8. CASE \E t \in Workers \cup Clients : WakeUp(t)
  BY <1>8 DEF WakeUp, counts, P!vars, Held
<1> QED BY <1>1, <1>2, <1>3, <1>4, <1>5, <1>6, <1>7, <1>8 DEF Next, Worker

\* The pool of threads implements the specification WorkPool: order, once
\* only, discarded only when destroyed, gone only when quiet (tpool.h).
THEOREM ImplementsWorkPool == Spec => KeepsPromise
<1>1. Spec => []IInv
  BY PoolIsSound
<1>2. Spec => P!Init
  BY FirstStepMapped DEF Spec
<1>3. Spec => [][P!Next]_P!vars
  BY <1>1, StepMapped, PTL DEF Spec
<1> QED BY <1>2, <1>3 DEF KeepsPromise, P!Spec

-----------------------------------------------------------------------------
(* TaskQueue *)

Distinct(q) == \A i, j \in 1 .. Len(q) : q[i] = q[j] => i = j
InTime(q) == \A i, j \in 1 .. Len(q) : i <= j => When[q[i]] <= When[q[j]]

\* The task the worker has taken off the queue and not yet put in the other one.
Removed == IF worker = "removed" THEN {task} ELSE {}

\* The type invariant, spelled out for the provers.
TaskTyped ==
  /\ mode \in {"none", "regular", "threaded"}
  /\ want \in BOOLEAN /\ goon \in BOOLEAN /\ wait \in BOOLEAN
  /\ running \in Seq(Tasks) /\ finished \in Seq(Tasks) /\ batch \in Seq(Tasks)
  /\ cancelled \subseteq pushed /\ pushed \subseteq Tasks
  /\ main \in MainPC /\ worker \in TaskWorkerPC
  /\ task \in Tasks \cup {NoTask}
  /\ clock \in 0 .. MaxTime

\* Each pushed task is in one list, or on its way, or was told, and is finished
\* in between.
Shared ==
  /\ Distinct(running) /\ Distinct(finished) /\ Distinct(batch)
  /\ done = ToSet(finished) \cup Removed
  /\ ToSet(finished) \cap Removed = {}
  /\ pushed = ToSet(running) \cup ToSet(batch) \cup done \cup told
  /\ ToSet(running) \cap ToSet(batch) = {}
  /\ (ToSet(running) \cup ToSet(batch)) \cap (done \cup told) = {}
  /\ done \cap told = {}

\* The worker handles a task of the list and lives only if the queue is
\* threaded, the main thread handles tasks of its batch only if it is not.
Division ==
  /\ worker = "handling" => task \in ToSet(running)
  /\ mode # "threaded" => worker \in {"none", "exited"}
  /\ main # "idle" => mode # "none"
  /\ main \in {"batch", "handler"} => mode = "regular"
  /\ batch # <<>> => main \in {"batch", "handler"}
  /\ main = "handler" => batch # <<>>
  /\ main = "callback" => finished # <<>>

\* A blocking task a thread is about to push was pushed by nobody.
AboutToPush ==
  /\ pushing \in [Threads -> Blocking \cup {NoTask}]
  /\ \A a \in Threads : pushing[a] \notin pushed
  /\ pushing["main"] = pushing["worker"] => pushing["main"] = NoTask

\* A handler that was called as often as it may is in its last call, or was.
CallsLeft ==
  /\ calls \in [Tasks -> 0 .. MaxCalls]
  /\ \A t \in Tasks :
       calls[t] = MaxCalls => \/ t \in done
                              \/ worker = "handling" /\ t = task
                              \/ main = "handler" /\ t = Head(batch)

TaskInv ==
  /\ TaskTyped /\ Shared /\ Division /\ AboutToPush /\ CallsLeft /\ InTime(running)

-----------------------------------------------------------------------------
(* What the operations on the lists do *)

\* p is q with x put in as its i-th element.
Inserted(p, q, i, x) ==
  /\ i \in 1 .. Len(q) + 1
  /\ Len(p) = Len(q) + 1
  /\ \A j \in 1 .. i - 1 : p[j] = q[j]
  /\ p[i] = x
  /\ \A j \in i .. Len(q) : p[j + 1] = q[j]

LEMMA Elements ==
  ASSUME NEW q \in Seq(Tasks)
  PROVE  /\ Len(q) \in Nat
         /\ \A i \in 1 .. Len(q) : q[i] \in Tasks
         /\ ToSet(q) \subseteq Tasks
         /\ \A x : x \in ToSet(q) <=> \E i \in 1 .. Len(q) : q[i] = x
         /\ ToSet(q) = {} <=> q = <<>>
<1>1. Len(q) \in Nat /\ DOMAIN q = 1 .. Len(q) /\ \A i \in 1 .. Len(q) : q[i] \in Tasks
  BY LenProperties, ElementOfSeq
<1>2. ToSet(q) = {q[i] : i \in 1 .. Len(q)}
  BY <1>1 DEF ToSet
<1>3. ToSet(q) = {} <=> q = <<>>
  <2>1. q = <<>> => Len(q) = 0
    OBVIOUS
  <2>2. q # <<>> => Len(q) >= 1 /\ 1 \in 1 .. Len(q)
    BY EmptySeq, <1>1
  <2> QED BY <1>1, <1>2, <2>1, <2>2
<1> QED BY <1>1, <1>2, <1>3

LEMMA InsertionElements ==
  ASSUME NEW p \in Seq(Tasks), NEW q \in Seq(Tasks), NEW i, NEW x, Inserted(p, q, i, x)
  PROVE  ToSet(p) = ToSet(q) \cup {x}
<1>1. Len(q) \in Nat /\ i \in 1 .. Len(q) + 1 /\ Len(p) = Len(q) + 1
  BY Elements DEF Inserted
<1>2. \A y : y \in ToSet(q) => y \in ToSet(p)
  <2> SUFFICES ASSUME NEW j \in 1 .. Len(q) PROVE \E k \in 1 .. Len(p) : p[k] = q[j]
    BY Elements
  <2>1. CASE j < i
    <3>1. j \in 1 .. Len(p) /\ p[j] = q[j]
      BY <1>1, <2>1 DEF Inserted
    <3> QED BY <3>1
  <2>2. CASE j >= i
    <3>1. j + 1 \in 1 .. Len(p) /\ p[j + 1] = q[j]
      BY <1>1, <2>2 DEF Inserted
    <3> QED BY <3>1
  <2> QED BY <1>1, <2>1, <2>2
<1>3. x \in ToSet(p)
  BY <1>1, Elements DEF Inserted
<1>4. \A y : y \in ToSet(p) => y = x \/ y \in ToSet(q)
  <2> SUFFICES ASSUME NEW k \in 1 .. Len(p), p[k] # x PROVE \E j \in 1 .. Len(q) : q[j] = p[k]
    BY Elements
  <2>0. k # i
    BY DEF Inserted
  <2>1. CASE k < i
    <3>1. k \in 1 .. Len(q) /\ p[k] = q[k]
      BY <1>1, <2>1 DEF Inserted
    <3> QED BY <3>1
  <2>2. CASE k > i
    <3>1. k - 1 \in i .. Len(q) /\ k - 1 \in 1 .. Len(q) /\ k = (k - 1) + 1
      BY <1>1, <2>2
    <3>2. p[(k - 1) + 1] = q[k - 1]
      BY <3>1 DEF Inserted
    <3> QED BY <3>1, <3>2
  <2> QED BY <1>1, <2>0, <2>1, <2>2
<1> QED BY <1>2, <1>3, <1>4

\* The index in p of the j-th element of q.
Shifted(i, j) == IF j < i THEN j ELSE j + 1

LEMMA InsertionMoves ==
  ASSUME NEW p \in Seq(Tasks), NEW q \in Seq(Tasks), NEW i, NEW x, Inserted(p, q, i, x)
  PROVE  /\ i \in 1 .. Len(p) /\ p[i] = x
         /\ \A j \in 1 .. Len(q) : /\ Shifted(i, j) \in 1 .. Len(p) \ {i}
                                   /\ p[Shifted(i, j)] = q[j]
         /\ \A k \in 1 .. Len(p) \ {i} : \E j \in 1 .. Len(q) : k = Shifted(i, j)
         /\ \A j, k \in 1 .. Len(q) : /\ j < k <=> Shifted(i, j) < Shifted(i, k)
                                      /\ j = k <=> Shifted(i, j) = Shifted(i, k)
<1>1. Len(q) \in Nat /\ i \in 1 .. Len(q) + 1 /\ Len(p) = Len(q) + 1
  BY Elements DEF Inserted
<1>2. \A j \in 1 .. Len(q) : Shifted(i, j) \in 1 .. Len(p) \ {i}
  BY <1>1 DEF Shifted
<1>3. ASSUME NEW j \in 1 .. Len(q) PROVE p[Shifted(i, j)] = q[j]
  <2>1. CASE j < i
    BY <1>1, <2>1 DEF Inserted, Shifted
  <2>2. CASE ~(j < i)
    <3>1. j \in i .. Len(q)
      BY <1>1, <2>2
    <3> QED BY <3>1, <2>2 DEF Inserted, Shifted
  <2> QED BY <2>1, <2>2
<1>4. ASSUME NEW k \in 1 .. Len(p) \ {i} PROVE \E j \in 1 .. Len(q) : k = Shifted(i, j)
  <2>1. CASE k < i
    <3>1. k \in 1 .. Len(q) /\ k = Shifted(i, k)
      BY <1>1, <2>1 DEF Shifted
    <3> QED BY <3>1
  <2>2. CASE k > i
    <3>1. k - 1 \in 1 .. Len(q) /\ k = Shifted(i, k - 1)
      BY <1>1, <2>2 DEF Shifted
    <3> QED BY <3>1
  <2> QED BY <1>1, <2>1, <2>2
<1>5. \A j, k \in 1 .. Len(q) : /\ j < k <=> Shifted(i, j) < Shifted(i, k)
                                /\ j = k <=> Shifted(i, j) = Shifted(i, k)
  BY <1>1 DEF Shifted
<1>6. i \in 1 .. Len(p) /\ p[i] = x
  BY <1>1 DEF Inserted
<1> QED BY <1>2, <1>3, <1>4, <1>5, <1>6

\* An insertion keeps elements distinct, and so does a removal.
LEMMA InsertionDistinct ==
  ASSUME NEW p \in Seq(Tasks), NEW q \in Seq(Tasks), NEW i, NEW x, Inserted(p, q, i, x)
  PROVE  Distinct(p) <=> Distinct(q) /\ x \notin ToSet(q)
<1> USE InsertionMoves
<1>1. ASSUME Distinct(p) PROVE Distinct(q)
  <2> SUFFICES ASSUME NEW j \in 1 .. Len(q), NEW k \in 1 .. Len(q), q[j] = q[k]
               PROVE  j = k
    BY DEF Distinct
  <2>1. Shifted(i, j) = Shifted(i, k)
    BY <1>1 DEF Distinct
  <2> QED BY <2>1
<1>2. ASSUME Distinct(p), x \in ToSet(q) PROVE FALSE
  <2> PICK j \in 1 .. Len(q) : q[j] = x
    BY <1>2, Elements
  <2>1. Shifted(i, j) = i
    BY <1>2 DEF Distinct
  <2> QED BY <2>1
<1>3. ASSUME Distinct(q), x \notin ToSet(q) PROVE Distinct(p)
  <2> SUFFICES ASSUME NEW j \in 1 .. Len(p), NEW k \in 1 .. Len(p), p[j] = p[k]
               PROVE  j = k
    BY DEF Distinct
  <2>1. ASSUME NEW m \in 1 .. Len(p) \ {i} PROVE p[m] # x
    <3>1. PICK n \in 1 .. Len(q) : m = Shifted(i, n)
      OBVIOUS
    <3>2. p[m] = q[n] /\ q[n] \in ToSet(q)
      BY <3>1, Elements
    <3> QED BY <3>2, <1>3
  <2>2. CASE j = i \/ k = i
    BY <2>1, <2>2
  <2>3. CASE j # i /\ k # i
    <3>1. PICK m \in 1 .. Len(q) : j = Shifted(i, m)
      BY <2>3
    <3>2. PICK n \in 1 .. Len(q) : k = Shifted(i, n)
      BY <2>3
    <3>3. q[m] = q[n]
      BY <3>1, <3>2
    <3>4. m = n
      BY <3>3, <1>3 DEF Distinct
    <3> QED BY <3>1, <3>2, <3>4
  <2> QED BY <2>2, <2>3
<1> QED BY <1>1, <1>2, <1>3

\* A removal keeps the order of time.
LEMMA RemovalInTime ==
  ASSUME NEW p \in Seq(Tasks), NEW q \in Seq(Tasks), NEW i, NEW x, Inserted(p, q, i, x),
         InTime(p)
  PROVE  InTime(q)
<1> SUFFICES ASSUME NEW j \in 1 .. Len(q), NEW k \in 1 .. Len(q), j <= k
             PROVE  When[q[j]] <= When[q[k]]
  BY DEF InTime
<1>1. Len(p) \in Nat /\ Len(q) \in Nat
  BY Elements
<1>2. Shifted(i, j) <= Shifted(i, k)
  BY <1>1, InsertionMoves
<1> QED BY <1>2, InsertionMoves DEF InTime

\* An insertion keeps it too, where the times around it allow it.
LEMMA InsertionInTime ==
  ASSUME NEW p \in Seq(Tasks), NEW q \in Seq(Tasks), NEW i, NEW x, Inserted(p, q, i, x),
         InTime(q), x \in Tasks,
         \A j \in 1 .. Len(q) : IF j < i THEN When[q[j]] <= When[x] ELSE When[x] <= When[q[j]]
  PROVE  InTime(p)
<1> SUFFICES ASSUME NEW j \in 1 .. Len(p), NEW k \in 1 .. Len(p), j <= k
             PROVE  When[p[j]] <= When[p[k]]
  BY DEF InTime
<1>0. Len(p) \in Nat /\ Len(q) \in Nat /\ i \in 1 .. Len(p) /\ p[i] = x /\ p[j] \in Tasks
  BY Elements, InsertionMoves
<1>1. \A t \in Tasks : When[t] \in Nat
  BY TasksAssumption
<1>2. CASE j = k
  BY <1>0, <1>1, <1>2
<1>3. CASE j = i /\ k > i
  <2>1. PICK n \in 1 .. Len(q) : k = Shifted(i, n) /\ p[k] = q[n]
    BY <1>0, <1>3, InsertionMoves
  <2>2. ~(n < i)
    BY <1>0, <1>3, <2>1 DEF Shifted
  <2> QED BY <1>0, <1>3, <2>1, <2>2
<1>4. CASE k = i /\ j < i
  <2>1. PICK n \in 1 .. Len(q) : j = Shifted(i, n) /\ p[j] = q[n]
    BY <1>0, <1>4, InsertionMoves
  <2>2. n < i
    BY <1>0, <1>4, <2>1 DEF Shifted
  <2> QED BY <1>0, <1>4, <2>1, <2>2
<1>5. CASE j # i /\ k # i
  <2>1. PICK m \in 1 .. Len(q) : j = Shifted(i, m)
    BY <1>5, InsertionMoves
  <2>2. PICK n \in 1 .. Len(q) : k = Shifted(i, n)
    BY <1>5, InsertionMoves
  <2>3. m <= n
    BY <1>0, <2>1, <2>2 DEF Shifted
  <2>4. p[j] = q[m] /\ p[k] = q[n]
    BY <2>1, <2>2, InsertionMoves
  <2> QED BY <2>3, <2>4 DEF InTime
<1> QED BY <1>0, <1>2, <1>3, <1>4, <1>5

LEMMA LeastIndex ==
  ASSUME NEW I \in SUBSET Nat, I # {}
  PROVE  \E i \in I : \A j \in I : i <= j
<1>1. PICK i \in I : \A j \in I : ~ (<<j, i>> \in OpToRel(<, Nat))
  BY NatLessThanWellFounded, WFMin
<1>2. ASSUME NEW j \in I PROVE i <= j
  <2>1. ~(j < i)
    BY <1>1 DEF OpToRel
  <2> QED BY <2>1
<1> QED BY <1>2

\* task_queue_put.
LEMMA PutInserts ==
  ASSUME NEW q \in Seq(Tasks), NEW t \in Tasks
  PROVE  /\ Put(q, t) \in Seq(Tasks)
         /\ \E i : Inserted(Put(q, t), q, i, t)
         /\ InTime(q) => InTime(Put(q, t))
<1>0. Len(q) \in Nat /\ \A i \in 1 .. Len(q) : When[q[i]] \in Nat /\ q[i] \in Tasks
  BY Elements, TasksAssumption
<1>1. CASE q # <<>> /\ When[Last(q)] > When[t]
  <2>1. Len(q) >= 1 /\ Len(q) \in Before(q, t) /\ Before(q, t) \in SUBSET Nat
    BY <1>0, <1>1, EmptySeq DEF Before, Last
  <2> DEFINE i == CHOOSE i \in Before(q, t) : \A j \in Before(q, t) : i <= j
  <2>2. i \in Before(q, t) /\ \A j \in Before(q, t) : i <= j
    BY <2>1, LeastIndex
  <2>3. i \in 1 .. Len(q) /\ When[q[i]] > When[t]
    BY <2>2 DEF Before
  <2>4. Put(q, t) = InsertAt(q, i, t)
    BY <1>1 DEF Put
  <2> HIDE DEF i
  <2>5. InsertAt(q, i, t) \in Seq(Tasks) /\ Inserted(InsertAt(q, i, t), q, i, t)
    <3>1. \A j \in 1 .. i - 1 : q[j] \in Tasks
      BY <1>0, <2>3
    <3>2. /\ SubSeq(q, 1, i - 1) \in Seq(Tasks)
          /\ Len(SubSeq(q, 1, i - 1)) = i - 1
          /\ \A j \in 1 .. i - 1 : SubSeq(q, 1, i - 1)[j] = q[j]
      BY <1>0, <2>3, <3>1, SubSeqProperties
    <3>3. \A j \in i .. Len(q) : q[j] \in Tasks
      BY <1>0, <2>3
    <3>4. /\ SubSeq(q, i, Len(q)) \in Seq(Tasks)
          /\ Len(SubSeq(q, i, Len(q))) = Len(q) - i + 1
          /\ \A j \in 1 .. Len(q) - i + 1 : SubSeq(q, i, Len(q))[j] = q[i + j - 1]
      BY <1>0, <2>3, <3>3, SubSeqProperties
    <3> DEFINE a == SubSeq(q, 1, i - 1)
               b == SubSeq(q, i, Len(q))
               c == a \o <<t>>
    <3> HIDE DEF a, b
    <3>5. <<t>> \in Seq(Tasks) /\ Len(<<t>>) = 1 /\ <<t>>[1] = t
      OBVIOUS
    <3>6. /\ c \in Seq(Tasks) /\ Len(c) = i
          /\ \A j \in 1 .. i - 1 : c[j] = q[j]
          /\ c[i] = t
      BY <2>3, <3>2, <3>5, ConcatProperties DEF a
    <3> HIDE DEF c
    <3>7. /\ c \o b \in Seq(Tasks) /\ Len(c \o b) = Len(q) + 1
          /\ \A j \in 1 .. Len(q) + 1 : (c \o b)[j] = IF j <= i THEN c[j] ELSE b[j - i]
      <4>1. b \in Seq(Tasks) /\ Len(b) = Len(q) - i + 1
        BY <3>4 DEF b
      <4>2. Len(c) + Len(b) = Len(q) + 1
        BY <1>0, <2>3, <3>6, <4>1
      <4> QED BY <3>6, <4>1, <4>2, ConcatProperties
    <3>8. ASSUME NEW j \in i .. Len(q) PROVE (c \o b)[j + 1] = q[j]
      <4>1. /\ j + 1 \in 1 .. Len(q) + 1 /\ ~(j + 1 <= i)
            /\ (j + 1) - i \in 1 .. Len(q) - i + 1 /\ i + ((j + 1) - i) - 1 = j
        BY <1>0, <2>3
      <4> QED BY <4>1, <3>4, <3>7 DEF b
    <3>9. Inserted(c \o b, q, i, t)
      <4>1. i \in 1 .. Len(q) + 1 /\ \A j \in 1 .. i : j \in 1 .. Len(q) + 1 /\ j <= i
        BY <1>0, <2>3
      <4>2. \A j \in 1 .. i - 1 : j \in 1 .. i
        BY <2>3
      <4> QED BY <2>3, <4>1, <4>2, <3>6, <3>7, <3>8 DEF Inserted
    <3> QED BY <3>7, <3>9 DEF InsertAt, a, b, c
  <2>6. ASSUME InTime(q), NEW j \in 1 .. Len(q)
        PROVE IF j < i THEN When[q[j]] <= When[t] ELSE When[t] <= When[q[j]]
    <3>1. When[t] \in Nat /\ When[q[j]] \in Nat
      BY <1>0, TasksAssumption
    <3>2. CASE j < i
      <4>1. j \notin Before(q, t)
        BY <1>0, <2>2, <2>3, <3>2
      <4> QED BY <3>1, <3>2, <4>1 DEF Before
    <3>3. CASE ~(j < i)
      <4>1. When[q[i]] <= When[q[j]]
        BY <1>0, <2>3, <2>6, <3>3 DEF InTime
      <4> QED BY <1>0, <2>3, <3>1, <3>3, <4>1
    <3> QED BY <3>2, <3>3
  <2>7. InTime(q) => InTime(InsertAt(q, i, t))
    BY <2>5, <2>6, InsertionInTime
  <2> QED BY <2>4, <2>5, <2>7
<1>2. CASE ~(q # <<>> /\ When[Last(q)] > When[t])
  <2>1. Put(q, t) = Append(q, t)
    BY <1>2 DEF Put
  <2>2. Append(q, t) \in Seq(Tasks) /\ Inserted(Append(q, t), q, Len(q) + 1, t)
    BY <1>0, AppendProperties DEF Inserted
  <2>3. ASSUME InTime(q), NEW j \in 1 .. Len(q)
        PROVE  IF j < Len(q) + 1 THEN When[q[j]] <= When[t] ELSE When[t] <= When[q[j]]
    <3>1. Len(q) \in 1 .. Len(q) /\ q # <<>> /\ j <= Len(q)
      BY <1>0
    <3>2. When[q[j]] <= When[q[Len(q)]]
      BY <2>3, <3>1 DEF InTime
    <3>3. When[q[Len(q)]] <= When[t]
      BY <1>0, <1>2, <3>1, TasksAssumption DEF Last
    <3> QED BY <1>0, <3>1, <3>2, <3>3, TasksAssumption
  <2>4. InTime(q) => InTime(Append(q, t))
    BY <2>2, <2>3, InsertionInTime
  <2> QED BY <2>1, <2>2, <2>4
<1> QED BY <1>1, <1>2

\* task_queue_remove: what is left is the list the task was inserted into.
LEMMA TakenRemoves ==
  ASSUME NEW q \in Seq(Tasks), NEW t \in ToSet(q), Distinct(q)
  PROVE  Taken(q, t) \in Seq(Tasks) /\ \E i : Inserted(q, Taken(q, t), i, t)
<1>0. Len(q) \in Nat /\ \A i \in 1 .. Len(q) : q[i] \in Tasks
  BY Elements
<1>1. PICK i \in 1 .. Len(q) : q[i] = t
  BY Elements
<1>2. SelectInSeq(q, LAMBDA v : v = t) = i
  <2>1. {j \in 1 .. Len(q) : q[j] = t} = {i}
    BY <1>1 DEF Distinct
  <2>2. i <= i
    BY <1>0
  <2>3. Min({i}) = i
    BY <2>2 DEF Min
  <2>4. SelectInSeq(q, LAMBDA v : v = t)
          = IF {j \in 1 .. Len(q) : q[j] = t} # {} THEN Min({j \in 1 .. Len(q) : q[j] = t}) ELSE 0
    BY DEF SelectInSeq
  <2> QED BY <2>1, <2>3, <2>4
<1>3. Taken(q, t) = RemoveAt(q, i)
  BY <1>1, <1>2 DEF Taken, RemoveFirst
<1> DEFINE a == SubSeq(q, 1, i - 1)
           b == SubSeq(q, i + 1, Len(q))
<1>4. a \in Seq(Tasks) /\ Len(a) = i - 1 /\ \A j \in 1 .. i - 1 : a[j] = q[j]
  <2>1. \A j \in 1 .. i - 1 : q[j] \in Tasks
    BY <1>0
  <2> QED BY <1>0, <2>1, SubSeqProperties
<1>5. /\ b \in Seq(Tasks) /\ Len(b) = Len(q) - i
      /\ \A j \in 1 .. Len(q) - i : b[j] = q[i + j]
  <2>1. \A j \in i + 1 .. Len(q) : q[j] \in Tasks
    BY <1>0
  <2>2. /\ b \in Seq(Tasks)
        /\ Len(b) = IF i + 1 <= Len(q) THEN Len(q) - (i + 1) + 1 ELSE 0
        /\ \A j \in 1 .. Len(q) - (i + 1) + 1 : b[j] = q[(i + 1) + j - 1]
    BY <1>0, <2>1, SubSeqProperties
  <2>3. \A j \in 1 .. Len(q) - i : j \in 1 .. Len(q) - (i + 1) + 1 /\ (i + 1) + j - 1 = i + j
    BY <1>0
  <2> QED BY <1>0, <2>2, <2>3
<1> HIDE DEF a, b
<1>6. /\ a \o b \in Seq(Tasks) /\ Len(a \o b) = Len(q) - 1
      /\ \A j \in 1 .. Len(q) - 1 : (a \o b)[j] = IF j <= i - 1 THEN a[j] ELSE b[j - (i - 1)]
  <2>1. Len(a) + Len(b) = Len(q) - 1
    BY <1>0, <1>4, <1>5
  <2>2. /\ a \o b \in Seq(Tasks) /\ Len(a \o b) = Len(a) + Len(b)
        /\ \A j \in 1 .. Len(a) + Len(b) :
             (a \o b)[j] = IF j <= Len(a) THEN a[j] ELSE b[j - Len(a)]
    BY <1>4, <1>5, ConcatProperties
  <2> QED BY <1>4, <2>1, <2>2
<1>7. ASSUME NEW j \in 1 .. i - 1 PROVE q[j] = (a \o b)[j]
  BY <1>0, <1>4, <1>6
<1>8. ASSUME NEW j \in i .. Len(q) - 1 PROVE q[j + 1] = (a \o b)[j]
  <2>1. /\ j \in 1 .. Len(q) - 1 /\ ~(j <= i - 1)
        /\ j - (i - 1) \in 1 .. Len(q) - i /\ i + (j - (i - 1)) = j + 1
    BY <1>0
  <2> QED BY <2>1, <1>5, <1>6
<1>9. Inserted(q, a \o b, i, t)
  <2>1. i \in 1 .. (Len(q) - 1) + 1 /\ Len(q) = (Len(q) - 1) + 1
    BY <1>0
  <2> QED BY <1>1, <1>6, <1>7, <1>8, <2>1 DEF Inserted
<1> QED BY <1>3, <1>6, <1>9 DEF RemoveAt, a, b

LEMMA TailRemoves ==
  ASSUME NEW q \in Seq(Tasks), q # <<>>
  PROVE  Tail(q) \in Seq(Tasks) /\ Head(q) \in Tasks /\ Inserted(q, Tail(q), 1, Head(q))
<1>1. Len(q) \in Nat /\ Len(q) >= 1
  BY EmptySeq
<1>2. /\ Head(q) \in Tasks /\ Head(q) = q[1]
      /\ Tail(q) \in Seq(Tasks) /\ Len(Tail(q)) = Len(q) - 1
      /\ \A i \in 1 .. Len(Tail(q)) : Tail(q)[i] = q[i + 1]
  BY HeadTail
<1> QED BY <1>1, <1>2 DEF Inserted

\* What the rest of the proofs needs to know of the operations.
LEMMA PutFacts ==
  ASSUME NEW q \in Seq(Tasks), NEW t \in Tasks, Distinct(q), t \notin ToSet(q)
  PROVE  /\ Put(q, t) \in Seq(Tasks) /\ Distinct(Put(q, t))
         /\ ToSet(Put(q, t)) = ToSet(q) \cup {t}
         /\ InTime(q) => InTime(Put(q, t))
<1>0. /\ Put(q, t) \in Seq(Tasks)
      /\ \E i : Inserted(Put(q, t), q, i, t)
      /\ InTime(q) => InTime(Put(q, t))
  BY PutInserts
<1>1. PICK i : Inserted(Put(q, t), q, i, t)
  BY <1>0
<1>2. Put(q, t) \in Seq(Tasks)
  BY <1>0
<1>3. Distinct(Put(q, t))
  BY <1>1, <1>2, InsertionDistinct
<1>4. ToSet(Put(q, t)) = ToSet(q) \cup {t}
  BY <1>1, <1>2, InsertionElements
<1> QED BY <1>0, <1>2, <1>3, <1>4

LEMMA TakenFacts ==
  ASSUME NEW q \in Seq(Tasks), NEW t \in ToSet(q), Distinct(q)
  PROVE  /\ Taken(q, t) \in Seq(Tasks) /\ Distinct(Taken(q, t))
         /\ ToSet(Taken(q, t)) = ToSet(q) \ {t}
         /\ InTime(q) => InTime(Taken(q, t))
<1>1. PICK i : Inserted(q, Taken(q, t), i, t)
  BY TakenRemoves
<1>2. Distinct(Taken(q, t)) /\ t \notin ToSet(Taken(q, t))
  BY <1>1, TakenRemoves, InsertionDistinct
<1>3. ToSet(q) = ToSet(Taken(q, t)) \cup {t}
  BY <1>1, TakenRemoves, InsertionElements
<1>4. InTime(q) => InTime(Taken(q, t))
  BY <1>1, TakenRemoves, RemovalInTime
<1> QED BY <1>2, <1>3, <1>4, TakenRemoves

LEMMA TailFacts ==
  ASSUME NEW q \in Seq(Tasks), q # <<>>, Distinct(q)
  PROVE  /\ Head(q) \in Tasks /\ Head(q) \in ToSet(q)
         /\ Tail(q) \in Seq(Tasks) /\ Distinct(Tail(q))
         /\ ToSet(Tail(q)) = ToSet(q) \ {Head(q)}
<1>1. Inserted(q, Tail(q), 1, Head(q)) /\ Tail(q) \in Seq(Tasks) /\ Head(q) \in Tasks
  BY TailRemoves
<1>2. Distinct(Tail(q)) /\ Head(q) \notin ToSet(Tail(q))
  BY <1>1, InsertionDistinct
<1>3. ToSet(q) = ToSet(Tail(q)) \cup {Head(q)}
  BY <1>1, InsertionElements
<1> QED BY <1>1, <1>2, <1>3

LEMMA ReverseFacts ==
  ASSUME NEW q \in Seq(Tasks), Distinct(q)
  PROVE  /\ Reverse(q) \in Seq(Tasks) /\ Distinct(Reverse(q))
         /\ ToSet(Reverse(q)) = ToSet(q)
         /\ q # <<>> => Reverse(q) # <<>>
<1>0. Len(q) \in Nat /\ \A i \in 1 .. Len(q) : q[i] \in Tasks
  BY Elements
<1>1. \A i \in 1 .. Len(q) : (Len(q) - i) + 1 \in 1 .. Len(q)
  BY <1>0
<1>2. Reverse(q) \in Seq(Tasks)
  BY <1>0, <1>1, IsASeq DEF Reverse
<1>3. DOMAIN Reverse(q) = 1 .. Len(q) /\ Len(Reverse(q)) = Len(q)
  <2>1. DOMAIN Reverse(q) = 1 .. Len(q)
    BY DEF Reverse
  <2>2. Len(Reverse(q)) \in Nat /\ DOMAIN Reverse(q) = 1 .. Len(Reverse(q))
    BY <1>2, LenProperties
  <2> QED BY <1>0, <2>1, <2>2
<1>4. \A i \in 1 .. Len(q) : Reverse(q)[i] = q[(Len(q) - i) + 1]
  BY DEF Reverse
<1>5. Distinct(Reverse(q))
  <2> SUFFICES ASSUME NEW i \in 1 .. Len(q), NEW j \in 1 .. Len(q),
                      Reverse(q)[i] = Reverse(q)[j]
               PROVE  i = j
    BY <1>3 DEF Distinct
  <2>1. (Len(q) - i) + 1 = (Len(q) - j) + 1
    BY <1>1, <1>4 DEF Distinct
  <2> QED BY <1>0, <2>1
<1>6. ToSet(Reverse(q)) = ToSet(q)
  <2>1. ASSUME NEW i \in 1 .. Len(q) PROVE \E j \in 1 .. Len(q) : q[j] = Reverse(q)[i]
    BY <1>1, <1>4
  <2>2. ASSUME NEW j \in 1 .. Len(q) PROVE \E i \in 1 .. Len(q) : Reverse(q)[i] = q[j]
    <3>1. (Len(q) - j) + 1 \in 1 .. Len(q) /\ (Len(q) - ((Len(q) - j) + 1)) + 1 = j
      BY <1>0, <1>1
    <3> QED BY <3>1, <1>4
  <2>3. \A x : x \in ToSet(q) <=> \E i \in 1 .. Len(q) : q[i] = x
    BY Elements
  <2>4. \A x : x \in ToSet(Reverse(q)) <=> \E i \in 1 .. Len(q) : Reverse(q)[i] = x
    BY <1>2, <1>3, Elements
  <2> QED BY <2>1, <2>2, <2>3, <2>4
<1>7. q # <<>> => Reverse(q) # <<>>
  BY <1>2, <1>6, Elements
<1> QED BY <1>2, <1>5, <1>6, <1>7

\* The lists when they are empty.
LEMMA EmptyFacts == <<>> \in Seq(Tasks) /\ Distinct(<<>>) /\ InTime(<<>>) /\ ToSet(<<>>) = {}
<1>1. <<>> \in Seq(Tasks) /\ Len(<<>>) = 0
  BY EmptySeq
<1> QED BY <1>1, Elements DEF Distinct, InTime

-----------------------------------------------------------------------------
(* TaskInv is an invariant *)

LEMMA TaskInvStarts == TQInit => TaskInv
<1> SUFFICES ASSUME TQInit PROVE TaskInv
  OBVIOUS
<1>0. MaxTime \in Nat /\ MaxCalls \in Nat \ {0} /\ NoTask \notin Tasks /\ Blocking \subseteq Tasks
  BY TasksAssumption
<1>1. TaskTyped
  <2>1. want \in BOOLEAN /\ goon \in BOOLEAN /\ wait \in BOOLEAN
    BY DEF TQInit
  <2>2. 0 \in 0 .. MaxTime
    BY <1>0
  <2> QED BY <2>1, <2>2, EmptyFacts DEF TQInit, TaskTyped, MainPC, TaskWorkerPC
<1>2. Shared /\ InTime(running)
  BY EmptyFacts DEF TQInit, Shared, Removed
<1>3. Division
  BY DEF TQInit, Division
<1>4. AboutToPush
  BY <1>0 DEF TQInit, AboutToPush, Threads
<1>5. CallsLeft
  <2>1. 0 \in 0 .. MaxCalls /\ 0 # MaxCalls
    BY <1>0
  <2> QED BY <2>1 DEF TQInit, CallsLeft
<1> QED BY <1>1, <1>2, <1>3, <1>4, <1>5 DEF TaskInv

\* A step that moves no task and calls no handler.
LEMMA QuietStep ==
  ASSUME TaskInv, TaskTyped', Division',
         UNCHANGED <<queues, done, calls, pushing, pushed, task>>,
         worker' = worker \/ {worker, worker'} \cap {"handling", "removed"} = {},
         main = "handler" => main' = main
  PROVE  TaskInv'
<1>0. UNCHANGED <<running, finished, batch, told, done, calls, pushing, pushed, task>>
  BY DEF queues
<1>1. Removed' = Removed
  BY <1>0 DEF Removed
<1>2. Shared' /\ InTime(running)'
  BY <1>0, <1>1 DEF Shared, TaskInv
<1>3. AboutToPush'
  BY <1>0 DEF AboutToPush, TaskInv
<1>4. CallsLeft'
  <2>1. calls' \in [Tasks -> 0 .. MaxCalls]
    BY <1>0 DEF CallsLeft, TaskInv
  <2>2. ASSUME NEW t \in Tasks, calls'[t] = MaxCalls
        PROVE  \/ t \in done'
               \/ worker' = "handling" /\ t = task'
               \/ main' = "handler" /\ t = Head(batch')
    BY <1>0, <2>2 DEF CallsLeft, TaskInv
  <2> QED BY <2>1, <2>2 DEF CallsLeft
<1> QED BY <1>2, <1>3, <1>4 DEF TaskInv

LEMMA SignalledIs ==
  /\ worker \in TaskWorkerPC => Signalled \in TaskWorkerPC
  /\ Signalled = worker \/ {worker, Signalled} \cap {"handling", "removed"} = {}
  /\ worker \in {"none", "exited"} => Signalled = worker
BY DEF Signalled, TaskWorkerPC

\* push_running with a task that nobody has pushed.
LEMMA PushRunningKeeps ==
  ASSUME TaskInv, NEW t \in Tasks, t \notin pushed, PushRunning(t), AboutToPush'
  PROVE  TaskInv'
<1>0. /\ running' = Put(running, t) /\ pushed' = pushed \cup {t} /\ worker' = Signalled
      /\ UNCHANGED <<mode, want, goon, finished, batch, told, done, cancelled, calls, main, wait,
                     task, clock>>
  BY DEF PushRunning, setup, flags
<1>1. TaskTyped /\ Shared /\ Division /\ CallsLeft /\ InTime(running)
  BY DEF TaskInv
<1>2. /\ running' \in Seq(Tasks) /\ Distinct(running')
      /\ ToSet(running') = ToSet(running) \cup {t} /\ InTime(running')
  <2>1. running \in Seq(Tasks) /\ Distinct(running) /\ t \notin ToSet(running)
    BY <1>1 DEF TaskTyped, Shared
  <2> QED BY <1>0, <1>1, <2>1, PutFacts
<1>3. Removed' = Removed
  BY <1>0, SignalledIs DEF Removed
<1>4. TaskTyped'
  BY <1>0, <1>1, <1>2, SignalledIs DEF TaskTyped
<1>5. Shared'
  <2> USE <1>0, <1>1, <1>2, <1>3
  <2>1. /\ Distinct(running)' /\ Distinct(finished)' /\ Distinct(batch)'
        /\ (done = ToSet(finished) \cup Removed)' /\ (ToSet(finished) \cap Removed = {})'
        /\ (done \cap told = {})'
    BY DEF Shared
  <2>2. (pushed = ToSet(running) \cup ToSet(batch) \cup done \cup told)'
    BY DEF Shared
  <2>3. /\ (ToSet(running) \cap ToSet(batch) = {})'
        /\ ((ToSet(running) \cup ToSet(batch)) \cap (done \cup told) = {})'
    BY DEF Shared
  <2> QED BY <2>1, <2>2, <2>3 DEF Shared
<1>6. Division'
  BY <1>0, <1>1, <1>2, SignalledIs DEF Division
<1>7. CallsLeft'
  <2>1. worker = "handling" => worker' = "handling"
    BY <1>0, SignalledIs
  <2> QED BY <1>0, <1>1, <2>1 DEF CallsLeft
<1> QED BY <1>2, <1>4, <1>5, <1>6, <1>7 DEF TaskInv

LEMMA PushKeeps ==
  ASSUME TaskInv, NEW a \in Threads, NEW t \in Tasks, Push(a, t)
  PROVE  TaskInv'
<1>1. t \notin pushed /\ t \notin Blocking /\ PushRunning(t) /\ pushing' = pushing
  BY DEF Push
<1>2. pushed' = pushed \cup {t}
  BY <1>1 DEF PushRunning
<1>3. AboutToPush'
  <2>1. AboutToPush
    BY DEF TaskInv
  <2>2. \A b \in Threads : pushing[b] # t
    BY <1>1, <2>1, TasksAssumption DEF AboutToPush
  <2> QED BY <1>1, <1>2, <2>1, <2>2 DEF AboutToPush
<1> QED BY <1>1, <1>3, PushRunningKeeps

LEMMA PushBlockingKeeps ==
  ASSUME TaskInv, NEW a \in Threads, PushBlocking(a)
  PROVE  TaskInv'
<1>1. /\ pushing[a] # NoTask /\ PushRunning(pushing[a])
      /\ pushing' = [pushing EXCEPT ![a] = NoTask]
  BY DEF PushBlocking
<1>2. AboutToPush /\ pushed \subseteq Tasks
  BY DEF TaskInv, TaskTyped
<1>3. pushing[a] \in Tasks /\ pushing[a] \notin pushed
  BY <1>1, <1>2, TasksAssumption DEF AboutToPush
<1>4. pushed' = pushed \cup {pushing[a]}
  BY <1>1 DEF PushRunning
<1>5. AboutToPush'
  <2>1. \A b \in Threads \ {a} : pushing[b] # pushing[a]
    BY <1>1, <1>2 DEF AboutToPush, Threads
  <2>2. pushing'[a] = NoTask /\ \A b \in Threads \ {a} : pushing'[b] = pushing[b]
    BY <1>1, <1>2 DEF AboutToPush
  <2>3. NoTask \notin pushed'
    BY <1>2, <1>3, <1>4, TasksAssumption
  <2>4. pushing' \in [Threads -> Blocking \cup {NoTask}]
    BY <1>1, <1>2 DEF AboutToPush
  <2>5. \A b \in Threads : pushing'[b] \notin pushed'
    BY <1>2, <1>4, <2>1, <2>2, <2>3 DEF AboutToPush
  <2>6. pushing'["main"] = pushing'["worker"] => pushing'["main"] = NoTask
    BY <2>2 DEF Threads
  <2> QED BY <2>4, <2>5, <2>6 DEF AboutToPush
<1> QED BY <1>1, <1>3, <1>5, PushRunningKeeps

LEMMA LookForBlockingKeeps ==
  ASSUME TaskInv, NEW a \in Threads, NEW t \in Tasks, LookForBlocking(a, t)
  PROVE  TaskInv'
<1>1. /\ t \in Blocking \ pushed /\ \A b \in Threads : pushing[b] # t
      /\ pushing' = [pushing EXCEPT ![a] = t]
      /\ UNCHANGED <<mode, want, goon, running, finished, batch, told, done, cancelled, calls, main,
                     wait, worker, task, pushed, clock>>
  BY DEF LookForBlocking, setup, queues, flags
<1>2. TaskTyped' /\ Division' /\ Shared' /\ CallsLeft' /\ InTime(running)'
  <2>1. TaskTyped /\ Division /\ Shared /\ CallsLeft /\ InTime(running)
    BY DEF TaskInv
  <2> QED BY <1>1, <2>1 DEF TaskTyped, Division, Shared, CallsLeft, Removed
<1>3. AboutToPush'
  <2>1. AboutToPush
    BY DEF TaskInv
  <2>2. pushing'[a] = t /\ \A b \in Threads \ {a} : pushing'[b] = pushing[b]
    BY <1>1, <2>1 DEF AboutToPush
  <2>3. pushing' \in [Threads -> Blocking \cup {NoTask}]
    BY <1>1, <2>1 DEF AboutToPush
  <2>4. \A b \in Threads : pushing'[b] \notin pushed'
    BY <1>1, <2>1, <2>2 DEF AboutToPush
  <2>5. pushing'["main"] # pushing'["worker"] \/ pushing'["main"] = NoTask
    BY <1>1, <2>1, <2>2 DEF AboutToPush, Threads
  <2> QED BY <2>3, <2>4, <2>5 DEF AboutToPush
<1> QED BY <1>2, <1>3 DEF TaskInv

\* The steps of the worker.

LEMMA WorkerQuiet ==
  ASSUME TaskInv, Continue \/ Timeout \/ SpuriousWakeUp
  PROVE  TaskInv'
<1>0. /\ worker \in {"top", "timed", "waiting"} /\ worker' \in {"sure", "exited", "top"}
      /\ UNCHANGED <<setup, queues, flags, main, wait, task, pushing, pushed, clock>>
  BY DEF Continue, Timeout, SpuriousWakeUp
<1>1. TaskTyped /\ Division
  BY DEF TaskInv
<1>2. TaskTyped' /\ Division'
  BY <1>0, <1>1 DEF TaskTyped, Division, TaskWorkerPC, setup, queues, flags
<1> QED BY <1>0, <1>2, QuietStep DEF flags

LEMMA GetTaskKeeps ==
  ASSUME TaskInv, GetTask
  PROVE  TaskInv'
<1>0. /\ worker = "sure"
      /\ UNCHANGED <<mode, want, goon, running, finished, batch, told, done, cancelled, main, wait,
                     pushing, pushed, clock>>
  BY DEF GetTask, setup, queues
<1>1. TaskTyped /\ Shared /\ Division /\ AboutToPush /\ CallsLeft /\ InTime(running)
  BY DEF TaskInv
<1>2. CASE worker' \in {"waiting", "timed"} /\ UNCHANGED <<task, calls>>
  <2>1. TaskTyped' /\ Division'
    BY <1>0, <1>1, <1>2 DEF TaskTyped, Division, TaskWorkerPC
  <2> QED BY <1>0, <1>2, <2>1, QuietStep DEF queues
<1>3. CASE /\ running # <<>> /\ worker' = "handling" /\ task' = Head(running)
           /\ calls' = [calls EXCEPT ![Head(running)] = @ + 1]
  <2> DEFINE t == Head(running)
  <2>1. t \in Tasks /\ t \in ToSet(running)
    BY <1>1, <1>3, TailFacts DEF TaskTyped, Shared
  <2> HIDE DEF t
  <2>2. t \notin done /\ ~(main = "handler" /\ t = Head(batch))
    <3>1. batch # <<>> => Head(batch) \in ToSet(batch)
      BY <1>1, TailFacts DEF TaskTyped, Shared
    <3> QED BY <1>1, <2>1, <3>1 DEF Shared, Division
  <2>3. calls \in [Tasks -> 0 .. MaxCalls] /\ calls[t] # MaxCalls
    BY <1>0, <1>1, <2>1, <2>2 DEF CallsLeft
  <2>4. CallsLeft'
    <3>1. calls[t] + 1 \in 0 .. MaxCalls
      BY <2>1, <2>3, TasksAssumption
    <3>2. calls' = [calls EXCEPT ![t] = calls[t] + 1]
      BY <1>3 DEF t
    <3>3. calls' \in [Tasks -> 0 .. MaxCalls] /\ \A s \in Tasks \ {t} : calls'[s] = calls[s]
      BY <2>3, <3>1, <3>2
    <3>4. ASSUME NEW s \in Tasks, calls'[s] = MaxCalls
          PROVE  \/ s \in done'
                 \/ worker' = "handling" /\ s = task'
                 \/ main' = "handler" /\ s = Head(batch')
      <4>1. CASE s = t
        BY <1>3, <4>1 DEF t
      <4>2. CASE s # t
        <5>1. calls[s] = MaxCalls
          BY <3>3, <3>4, <4>2
        <5>2. s \in done \/ worker = "handling" \/ (main = "handler" /\ s = Head(batch))
          BY <1>1, <5>1 DEF CallsLeft
        <5>3. worker # "handling" /\ done' = done /\ main' = main /\ batch' = batch
          BY <1>0
        <5> QED BY <5>2, <5>3
      <4> QED BY <4>1, <4>2
    <3> QED BY <3>3, <3>4 DEF CallsLeft
  <2>5. TaskTyped'
    BY <1>0, <1>1, <1>3, <2>1 DEF TaskTyped, TaskWorkerPC, t
  <2>6. Division'
    BY <1>0, <1>1, <1>3, <2>1 DEF Division, t
  <2>7. Shared' /\ AboutToPush' /\ InTime(running)'
    BY <1>0, <1>1, <1>3 DEF Shared, AboutToPush, Removed
  <2> QED BY <2>4, <2>5, <2>6, <2>7 DEF TaskInv
<1> QED BY <1>2, <1>3 DEF GetTask

LEMMA RequeueFacts ==
  ASSUME TaskInv, worker = "handling"
  PROVE  /\ task \in Tasks /\ task \in ToSet(running)
         /\ Requeue \in Seq(Tasks) /\ Distinct(Requeue)
         /\ ToSet(Requeue) = ToSet(running) /\ InTime(Requeue)
<1>1. /\ running \in Seq(Tasks) /\ Distinct(running) /\ InTime(running)
      /\ task \in ToSet(running)
  BY DEF TaskInv, TaskTyped, Shared, Division
<1>2. task \in Tasks
  BY <1>1, Elements
<1> DEFINE q == Taken(running, task)
<1>3. /\ q \in Seq(Tasks) /\ Distinct(q) /\ InTime(q)
      /\ ToSet(q) = ToSet(running) \ {task}
  BY <1>1, TakenFacts
<1> HIDE DEF q
<1>4. /\ Put(q, task) \in Seq(Tasks) /\ Distinct(Put(q, task)) /\ InTime(Put(q, task))
      /\ ToSet(Put(q, task)) = ToSet(q) \cup {task}
  BY <1>2, <1>3, PutFacts
<1>5. ToSet(q) \cup {task} = ToSet(running)
  BY <1>1, <1>3
<1> QED BY <1>1, <1>2, <1>4, <1>5 DEF Requeue, q

LEMMA HandlerReturnsKeeps ==
  ASSUME TaskInv, HandlerReturns
  PROVE  TaskInv'
<1>0. /\ worker = "handling" /\ calls[task] < MaxCalls
      /\ running' = Requeue /\ worker' = "top" /\ task' = NoTask
      /\ UNCHANGED <<mode, want, goon, finished, batch, told, done, cancelled, calls, main, wait,
                     pushing, pushed, clock>>
  BY DEF HandlerReturns, setup, flags
<1>1. TaskTyped /\ Shared /\ Division /\ AboutToPush /\ CallsLeft
  BY DEF TaskInv
<1>2. /\ running' \in Seq(Tasks) /\ Distinct(running') /\ InTime(running')
      /\ ToSet(running') = ToSet(running)
  BY <1>0, RequeueFacts
<1>3. Removed = {} /\ Removed' = {}
  BY <1>0 DEF Removed
<1>4. TaskTyped'
  BY <1>0, <1>1, <1>2 DEF TaskTyped, TaskWorkerPC
<1>5. Shared'
  BY <1>0, <1>1, <1>2, <1>3 DEF Shared
<1>6. Division' /\ AboutToPush'
  BY <1>0, <1>1 DEF Division, AboutToPush
<1>7. CallsLeft'
  <2>1. calls[task] # MaxCalls
    BY <1>0, <1>1, RequeueFacts, TasksAssumption DEF CallsLeft
  <2> QED BY <1>0, <1>1, <2>1 DEF CallsLeft
<1> QED BY <1>2, <1>4, <1>5, <1>6, <1>7 DEF TaskInv

LEMMA HandlerFinishesKeeps ==
  ASSUME TaskInv, HandlerFinishes
  PROVE  TaskInv'
<1>0. /\ worker = "handling" /\ done' = done \cup {task}
      /\ running' = Taken(running, task) /\ worker' = "removed"
      /\ UNCHANGED <<mode, want, goon, finished, batch, told, cancelled, calls, main, wait, task,
                     pushing, pushed, clock>>
  BY DEF HandlerFinishes, setup
<1>1. TaskTyped /\ Shared /\ Division /\ AboutToPush /\ CallsLeft /\ InTime(running)
  BY DEF TaskInv
<1>2. task \in Tasks /\ task \in ToSet(running)
  BY <1>0, RequeueFacts
<1>3. /\ running' \in Seq(Tasks) /\ Distinct(running') /\ InTime(running')
      /\ ToSet(running') = ToSet(running) \ {task}
  <2>1. running \in Seq(Tasks) /\ Distinct(running)
    BY <1>1 DEF TaskTyped, Shared
  <2> QED BY <1>0, <1>1, <1>2, <2>1, TakenFacts
<1>4. Removed = {} /\ Removed' = {task}
  BY <1>0 DEF Removed
<1>5. TaskTyped'
  BY <1>0, <1>1, <1>3 DEF TaskTyped, TaskWorkerPC
<1>6. Shared'
  <2> USE <1>0, <1>1, <1>2, <1>3, <1>4
  <2>1. /\ Distinct(running)' /\ Distinct(finished)' /\ Distinct(batch)'
        /\ (done = ToSet(finished) \cup Removed)' /\ (ToSet(finished) \cap Removed = {})'
    BY DEF Shared
  <2>2. (pushed = ToSet(running) \cup ToSet(batch) \cup done \cup told)'
    BY DEF Shared
  <2>3. /\ (ToSet(running) \cap ToSet(batch) = {})' /\ (done \cap told = {})'
        /\ ((ToSet(running) \cup ToSet(batch)) \cap (done \cup told) = {})'
    BY DEF Shared
  <2> QED BY <2>1, <2>2, <2>3 DEF Shared
<1>7. Division' /\ AboutToPush'
  BY <1>0, <1>1 DEF Division, AboutToPush
<1>8. CallsLeft'
  BY <1>0, <1>1 DEF CallsLeft
<1> QED BY <1>3, <1>5, <1>6, <1>7, <1>8 DEF TaskInv

LEMMA AddToFinishedKeeps ==
  ASSUME TaskInv, AddToFinished
  PROVE  TaskInv'
<1>0. /\ worker = "removed" /\ ~FinishedLocked
      /\ finished' = Put(finished, task) /\ worker' = "top" /\ task' = NoTask
      /\ UNCHANGED <<mode, want, goon, running, batch, told, done, cancelled, calls, main, wait,
                     pushing, pushed, clock>>
  BY DEF AddToFinished, setup, flags
<1>1. TaskTyped /\ Shared /\ Division /\ AboutToPush /\ CallsLeft /\ InTime(running)
  BY DEF TaskInv
<1>2. Removed = {task} /\ Removed' = {}
  BY <1>0 DEF Removed
<1>3. task \in Tasks /\ task \notin ToSet(finished)
  BY <1>1, <1>2 DEF TaskTyped, Shared
<1>4. /\ finished' \in Seq(Tasks) /\ Distinct(finished')
      /\ ToSet(finished') = ToSet(finished) \cup {task}
  <2>1. finished \in Seq(Tasks) /\ Distinct(finished)
    BY <1>1 DEF TaskTyped, Shared
  <2> QED BY <1>0, <1>3, <2>1, PutFacts
<1>5. TaskTyped'
  BY <1>0, <1>1, <1>4 DEF TaskTyped, TaskWorkerPC
<1>6. Shared'
  BY <1>0, <1>1, <1>2, <1>4 DEF Shared
<1>7. Division' /\ AboutToPush'
  BY <1>0, <1>1 DEF Division, AboutToPush, FinishedLocked
<1>8. CallsLeft' /\ InTime(running)'
  BY <1>0, <1>1 DEF CallsLeft
<1> QED BY <1>5, <1>6, <1>7, <1>8 DEF TaskInv

\* The steps of the main thread.

LEMMA MainQuiet ==
  ASSUME TaskInv,
         \/ \E m \in {"regular", "threaded"} : TaskQueueInit(m)
         \/ \E b \in BOOLEAN : SetThreaded(b)
         \/ CheckStopsWorker \/ TaskQueueDeinit \/ Joined
         \/ LockFinished \/ CallBack \/ Gathered \/ TaskQueueWait \/ WaitOver \/ BatchDone
         \/ TaskQueueReset \/ (\E t \in Tasks : TaskQueueCancel(t)) \/ Tick
  PROVE  TaskInv'
<1>0. TaskTyped /\ Shared /\ Division
  BY DEF TaskInv
<1>1. ASSUME NEW m \in {"regular", "threaded"}, TaskQueueInit(m) PROVE TaskInv'
  <2>1. /\ main = "idle" /\ main' = "idle" /\ mode = "none" /\ mode' = m
        /\ want' = (want \/ m = "threaded") /\ goon' = (goon \/ m = "threaded")
        /\ worker' = (IF m = "threaded" THEN "top" ELSE worker)
        /\ UNCHANGED <<queues, flags, wait, task, pushing, pushed, clock>>
    BY <1>1 DEF TaskQueueInit, MainAt, StartAs
  <2>2. want' \in BOOLEAN /\ goon' \in BOOLEAN
    BY <2>1
  <2>3. worker \in {"none", "exited"}
    BY <1>0, <2>1 DEF Division
  <2>4. TaskTyped'
    BY <1>0, <2>1, <2>2 DEF TaskTyped, TaskWorkerPC, queues, flags
  <2>5. Division'
    BY <1>0, <2>1, <2>3 DEF Division, queues
  <2> QED BY <2>1, <2>3, <2>4, <2>5, QuietStep DEF flags
<1>2. ASSUME NEW b \in BOOLEAN, SetThreaded(b) PROVE TaskInv'
  <2>1. /\ main = "idle" /\ main' = "idle" /\ want' = b
        /\ UNCHANGED <<mode, goon, queues, flags, wait, worker, task, pushing, pushed, clock>>
    BY <1>2 DEF SetThreaded, MainAt
  <2>2. want' \in BOOLEAN
    BY <2>1
  <2>3. TaskTyped' /\ Division'
    BY <1>0, <2>1, <2>2 DEF TaskTyped, Division, queues, flags
  <2> QED BY <2>1, <2>3, QuietStep DEF flags
<1>3. ASSUME NEW pc2 \in {"switching", "joining"}, main = "idle", StopWorker(pc2) PROVE TaskInv'
  <2>1. /\ main = "idle" /\ main' = pc2 /\ mode = "threaded" /\ goon' = FALSE /\ worker' = Signalled
        /\ UNCHANGED <<mode, want, queues, flags, wait, task, pushing, pushed, clock>>
    BY <1>3 DEF StopWorker
  <2>2. TaskTyped'
    BY <1>0, <2>1, SignalledIs DEF TaskTyped, MainPC, queues, flags
  <2>3. Division'
    BY <1>0, <2>1, SignalledIs DEF Division, queues
  <2> QED BY <2>1, <2>2, <2>3, QuietStep, SignalledIs DEF flags
<1>4. ASSUME \/ main = "idle" /\ mode = "regular"
             \/ main = "joining" /\ worker = "exited",
             main' = "idle", mode' = "none",
             UNCHANGED <<want, goon, queues, flags, wait, worker, task, pushing, pushed, clock>>
      PROVE  TaskInv'
  <2>1. worker \in {"none", "exited"}
    BY <1>0, <1>4 DEF Division
  <2>2. TaskTyped' /\ Division'
    BY <1>0, <1>4, <2>1 DEF TaskTyped, Division, MainPC, queues, flags
  <2> QED BY <1>4, <2>2, QuietStep DEF flags
<1>5. ASSUME LockFinished \/ CallBack \/ Gathered \/ BatchDone PROVE TaskInv'
  <2>1. /\ main \notin {"idle", "handler"}
        /\ main' \in {"collect", "callback", "judge", "idle"}
        /\ main' = "callback" => finished # <<>>
        /\ main = "batch" => batch = <<>>
        /\ UNCHANGED <<setup, queues, flags, wait, worker, task, pushing, pushed, clock>>
    BY <1>5 DEF LockFinished, CallBack, Gathered, BatchDone, MainAt
  <2>2. TaskTyped' /\ Division'
    BY <1>0, <2>1 DEF TaskTyped, Division, MainPC, setup, queues, flags
  <2> QED BY <2>1, <2>2, QuietStep DEF flags
<1>6. ASSUME TaskQueueWait \/ WaitOver PROVE TaskInv'
  <2>1. /\ main \in {"idle", "judge"} /\ main' \in {"gather", "judge", "idle"}
        /\ main' # "idle" => mode # "none"
        /\ wait' \in BOOLEAN
        /\ UNCHANGED <<setup, queues, flags, worker, task, pushing, pushed, clock>>
    BY <1>6 DEF TaskQueueWait, WaitOver, MainAt
  <2>2. TaskTyped' /\ Division'
    BY <1>0, <2>1 DEF TaskTyped, Division, MainPC, setup, queues, flags
  <2> QED BY <2>1, <2>2, QuietStep DEF flags
<1>7. ASSUME NEW ts \in SUBSET pushed, Cancel(ts), main' = main PROVE TaskInv'
  <2>1. /\ cancelled' = cancelled \cup ts
        /\ UNCHANGED <<setup, queues, done, calls, wait, worker, task, pushing, pushed, clock>>
    BY <1>7 DEF Cancel
  <2>2. TaskTyped' /\ Division'
    BY <1>0, <1>7, <2>1 DEF TaskTyped, Division, setup, queues
  <2> QED BY <1>7, <2>1, <2>2, QuietStep
<1>8. ASSUME Tick PROVE TaskInv'
  <2>1. /\ clock < MaxTime /\ clock' = clock + 1
        /\ UNCHANGED <<setup, queues, flags, main, wait, worker, task, pushing, pushed>>
    BY <1>8 DEF Tick
  <2>2. clock' \in 0 .. MaxTime
    BY <1>0, <2>1, TasksAssumption DEF TaskTyped
  <2>3. TaskTyped' /\ Division'
    BY <1>0, <2>1, <2>2 DEF TaskTyped, Division, setup, queues, flags
  <2> QED BY <2>1, <2>3, QuietStep DEF flags
<1>9. TaskQueueReset => Cancel(InQueue) /\ main' = main /\ InQueue \in SUBSET pushed
  BY <1>0 DEF TaskQueueReset, MainAt, InQueue, Shared
<1>10. ASSUME NEW t \in Tasks, TaskQueueCancel(t)
       PROVE  /\ main' = main
              /\ \E ts \in SUBSET pushed : Cancel(ts)
  <2> DEFINE ts == {t} \cap IF mode = "threaded" THEN InQueue ELSE {t}
  <2>1. t \in pushed /\ Cancel(ts) /\ main' = main
    BY <1>10 DEF TaskQueueCancel, MainAt
  <2>2. ts \in SUBSET pushed
    BY <2>1
  <2> HIDE DEF ts
  <2> QED BY <2>1, <2>2
<1>11. CheckStopsWorker \/ TaskQueueDeinit \/ Joined => TaskInv'
  <2>1. CheckStopsWorker => TaskInv'
    BY <1>3 DEF CheckStopsWorker, MainAt
  <2>2. TaskQueueDeinit => TaskInv'
    BY <1>3, <1>4 DEF TaskQueueDeinit, MainAt
  <2>3. Joined => TaskInv'
    BY <1>4 DEF Joined, MainAt
  <2> QED BY <2>1, <2>2, <2>3
<1> QED BY <1>1, <1>2, <1>5, <1>6, <1>7, <1>8, <1>9, <1>10, <1>11

\* retro_task_regular_gather takes all tasks off the queue.
LEMMA EmptiedKeeps ==
  ASSUME TaskInv, batch = <<>>, Emptied("regular"), worker \in {"none", "exited"},
         main \notin {"handler"},
         worker' = worker, main' = "batch", mode' = "regular",
         want' \in BOOLEAN, goon' \in BOOLEAN,
         UNCHANGED <<finished, told, flags, wait, task, pushing, pushed, clock>>
  PROVE  TaskInv'
<1>0. /\ batch' = Reverse(running) /\ running' = <<>>
      /\ UNCHANGED <<finished, told, done, cancelled, calls, wait, task, pushing, pushed, clock>>
  BY DEF Emptied, flags
<1>1. TaskTyped /\ Shared /\ Division /\ AboutToPush /\ CallsLeft
  BY DEF TaskInv
<1>2. /\ batch' \in Seq(Tasks) /\ Distinct(batch') /\ ToSet(batch') = ToSet(running)
      /\ running' \in Seq(Tasks) /\ Distinct(running') /\ ToSet(running') = {}
      /\ InTime(running') /\ ToSet(batch) = {}
  BY <1>0, <1>1, ReverseFacts, EmptyFacts DEF TaskTyped, Shared
<1>3. Removed = {} /\ Removed' = {}
  BY DEF Removed
<1>4. TaskTyped'
  BY <1>0, <1>1, <1>2 DEF TaskTyped, MainPC
<1>5. Shared'
  BY <1>0, <1>1, <1>2, <1>3 DEF Shared
<1>6. Division'
  BY <1>0, <1>1 DEF Division
<1>7. AboutToPush' /\ CallsLeft'
  BY <1>0, <1>1 DEF AboutToPush, CallsLeft
<1> QED BY <1>2, <1>4, <1>5, <1>6, <1>7 DEF TaskInv

LEMMA CheckKeeps ==
  ASSUME TaskInv, TaskQueueCheck \/ Switched
  PROVE  TaskInv'
<1>1. PICK at \in {"idle", "switching"} :
        /\ CheckFrom(at) /\ main = at
        /\ mode = "threaded" /\ Wanted = "regular" => worker = "exited"
  BY DEF TaskQueueCheck, Switched, CheckFrom, MainAt
<1>2. TaskTyped /\ Shared /\ Division
  BY DEF TaskInv
<1>3. /\ main' = Gathering(Wanted) /\ Emptied(Wanted)
      /\ UNCHANGED <<finished, told, flags, wait, task, pushing, pushed, clock>>
      /\ IF mode = Wanted THEN UNCHANGED <<setup, worker>> ELSE StartAs(Wanted)
  BY <1>1 DEF CheckFrom, MainAt
<1>4. batch = <<>>
  BY <1>1, <1>2 DEF Division
<1>5. CASE Wanted = "regular"
  <2>1. worker \in {"none", "exited"}
    BY <1>1, <1>2, <1>5 DEF Division
  <2>2. /\ worker' = worker /\ mode' = "regular"
        /\ want' = want \/ want' = (want \/ FALSE)
        /\ goon' = goon \/ goon' = (goon \/ FALSE)
    BY <1>3, <1>5 DEF StartAs, setup
  <2>3. want' \in BOOLEAN /\ goon' \in BOOLEAN
    BY <2>2, <1>2 DEF TaskTyped
  <2> QED BY <1>1, <1>3, <1>4, <1>5, <2>1, <2>2, <2>3, EmptiedKeeps DEF Gathering
<1>6. CASE Wanted = "threaded"
  <2>1. main' = "gather" /\ UNCHANGED <<running, batch, finished, told>>
    BY <1>3, <1>6 DEF Gathering, Emptied
  <2>2. CASE mode = "threaded"
    <3>1. UNCHANGED <<setup, worker>>
      BY <1>3, <1>6, <2>2
    <3>2. TaskTyped' /\ Division'
      BY <1>2, <1>3, <1>4, <2>1, <2>2, <3>1 DEF TaskTyped, Division, MainPC, setup, flags
    <3> QED BY <1>1, <1>3, <2>1, <3>1, <3>2, QuietStep DEF flags, queues
  <2>3. CASE mode # "threaded"
    <3>1. /\ mode' = "threaded" /\ worker' = "top" /\ worker \in {"none", "exited"}
          /\ want' = (want \/ TRUE) /\ goon' = (goon \/ TRUE)
      BY <1>2, <1>3, <1>6, <2>3 DEF StartAs, Division
    <3>2. want' \in BOOLEAN /\ goon' \in BOOLEAN
      BY <3>1
    <3>3. TaskTyped' /\ Division'
      BY <1>2, <1>3, <1>4, <2>1, <3>1, <3>2 DEF TaskTyped, Division, MainPC, TaskWorkerPC, flags
    <3> QED BY <1>1, <1>3, <2>1, <3>1, <3>3, QuietStep DEF flags, queues
  <2> QED BY <2>2, <2>3
<1> QED BY <1>5, <1>6 DEF Wanted

LEMMA WaitOnKeeps ==
  ASSUME TaskInv, WaitOn
  PROVE  TaskInv'
<1>1. /\ main = "judge" /\ main' = Gathering(mode) /\ Emptied(mode)
      /\ UNCHANGED <<mode, want, goon, worker>>
      /\ UNCHANGED <<finished, told, flags, wait, task, pushing, pushed, clock>>
  BY DEF WaitOn, MainAt, setup
<1>2. TaskTyped /\ Division
  BY DEF TaskInv
<1>3. batch = <<>> /\ mode \in {"regular", "threaded"}
  BY <1>1, <1>2 DEF Division, TaskTyped
<1>4. CASE mode = "regular"
  <2>1. worker \in {"none", "exited"} /\ want' \in BOOLEAN /\ goon' \in BOOLEAN
    BY <1>1, <1>2, <1>4 DEF Division, TaskTyped
  <2> QED BY <1>1, <1>3, <1>4, <2>1, EmptiedKeeps DEF Gathering
<1>5. CASE mode = "threaded"
  <2>1. main' = "gather" /\ UNCHANGED <<running, batch>>
    BY <1>1, <1>5 DEF Gathering, Emptied
  <2>2. TaskTyped' /\ Division'
    BY <1>1, <1>2, <1>3, <1>5, <2>1 DEF TaskTyped, Division, MainPC, flags
  <2> QED BY <1>1, <2>1, <2>2, QuietStep DEF flags, queues
<1> QED BY <1>3, <1>4, <1>5

LEMMA CallBackReturnsKeeps ==
  ASSUME TaskInv, CallBackReturns
  PROVE  TaskInv'
<1> DEFINE t == Head(finished)
<1>0. /\ main = "callback" /\ main' = "collect"
      /\ told' = told \cup {t} /\ finished' = Tail(finished)
      /\ done' = done \ {t} /\ cancelled' = cancelled \ {t}
      /\ calls' = [calls EXCEPT ![t] = 0]
      /\ UNCHANGED <<mode, want, goon, running, batch, wait, worker, task, pushing, pushed, clock>>
  BY DEF CallBackReturns, MainAt, setup
<1>1. TaskTyped /\ Shared /\ Division /\ AboutToPush /\ CallsLeft /\ InTime(running)
  BY DEF TaskInv
<1>2. /\ t \in Tasks /\ t \in ToSet(finished) /\ finished' \in Seq(Tasks)
      /\ Distinct(finished') /\ ToSet(finished') = ToSet(finished) \ {t}
  <2>1. finished \in Seq(Tasks) /\ finished # <<>> /\ Distinct(finished)
    BY <1>0, <1>1 DEF TaskTyped, Shared, Division
  <2> QED BY <1>0, <2>1, TailFacts
<1> HIDE DEF t
<1>3. Removed' = Removed /\ t \in done /\ t \notin Removed
  BY <1>0, <1>1, <1>2 DEF Shared, Removed
<1>4. TaskTyped'
  BY <1>0, <1>1, <1>2 DEF TaskTyped, MainPC
<1>5. Shared'
  <2> USE <1>0, <1>1, <1>2, <1>3
  <2>1. /\ Distinct(running)' /\ Distinct(finished)' /\ Distinct(batch)'
        /\ (done = ToSet(finished) \cup Removed)' /\ (ToSet(finished) \cap Removed = {})'
    BY DEF Shared
  <2>2. (pushed = ToSet(running) \cup ToSet(batch) \cup done \cup told)'
    BY DEF Shared
  <2>3. /\ (ToSet(running) \cap ToSet(batch) = {})' /\ (done \cap told = {})'
        /\ ((ToSet(running) \cup ToSet(batch)) \cap (done \cup told) = {})'
    BY DEF Shared
  <2> QED BY <2>1, <2>2, <2>3 DEF Shared
<1>6. Division' /\ AboutToPush'
  BY <1>0, <1>1 DEF Division, AboutToPush
<1>7. CallsLeft'
  <2>1. calls \in [Tasks -> 0 .. MaxCalls] /\ 0 \in 0 .. MaxCalls /\ 0 # MaxCalls
    BY <1>1, TasksAssumption DEF CallsLeft
  <2>2. /\ calls' \in [Tasks -> 0 .. MaxCalls] /\ calls'[t] # MaxCalls
        /\ \A s \in Tasks \ {t} : calls'[s] = calls[s]
    BY <1>0, <1>2, <2>1
  <2> QED BY <1>0, <1>1, <2>2 DEF CallsLeft
<1> QED BY <1>0, <1>1, <1>4, <1>5, <1>6, <1>7 DEF TaskInv

LEMMA CallHandlerKeeps ==
  ASSUME TaskInv, CallHandler
  PROVE  TaskInv'
<1> DEFINE t == Head(batch)
<1>0. /\ main = "batch" /\ main' = "handler" /\ batch # <<>>
      /\ calls' = [calls EXCEPT ![t] = @ + 1]
      /\ UNCHANGED <<mode, want, goon, running, finished, batch, told, done, cancelled, wait, worker,
                     task, pushing, pushed, clock>>
  BY DEF CallHandler, MainAt, setup, queues
<1>1. TaskTyped /\ Shared /\ Division /\ AboutToPush /\ CallsLeft /\ InTime(running)
  BY DEF TaskInv
<1>2. t \in Tasks /\ t \in ToSet(batch)
  <2>1. batch \in Seq(Tasks) /\ Distinct(batch)
    BY <1>1 DEF TaskTyped, Shared
  <2> QED BY <1>0, <2>1, TailFacts
<1>3. t = Head(batch')
  BY <1>0
<1> HIDE DEF t
<1>4. TaskTyped'
  BY <1>0, <1>1 DEF TaskTyped, MainPC
<1>5. Shared' /\ AboutToPush' /\ InTime(running)'
  BY <1>0, <1>1 DEF Shared, AboutToPush, Removed
<1>6. Division'
  BY <1>0, <1>1 DEF Division
<1>7. CallsLeft'
  <2>1. calls \in [Tasks -> 0 .. MaxCalls] /\ t \notin done /\ worker # "handling"
    BY <1>0, <1>1, <1>2 DEF CallsLeft, Shared, Division
  <2>2. calls[t] # MaxCalls
    BY <1>0, <1>1, <1>2, <2>1 DEF CallsLeft
  <2>3. calls[t] + 1 \in 0 .. MaxCalls
    BY <1>2, <2>1, <2>2, TasksAssumption
  <2>4. calls' = [calls EXCEPT ![t] = calls[t] + 1]
    BY <1>0 DEF t
  <2>5. calls' \in [Tasks -> 0 .. MaxCalls] /\ \A s \in Tasks \ {t} : calls'[s] = calls[s]
    BY <2>1, <2>3, <2>4
  <2>6. ASSUME NEW s \in Tasks, s # t, calls'[s] = MaxCalls PROVE s \in done'
    BY <1>0, <1>1, <2>1, <2>5, <2>6 DEF CallsLeft
  <2> QED BY <1>0, <1>3, <2>5, <2>6 DEF CallsLeft
<1> QED BY <1>4, <1>5, <1>6, <1>7 DEF TaskInv

LEMMA SortedKeeps ==
  ASSUME TaskInv, Sorted
  PROVE  TaskInv'
<1> DEFINE t == Head(batch)
<1>0. /\ main \in {"batch", "handler"} /\ main' = "batch" /\ batch' = Tail(batch)
      /\ main = "batch" => batch # <<>>
      /\ IF t \in done' THEN finished' = Put(finished, t) /\ running' = running
                        ELSE running' = Put(running, t) /\ finished' = finished
      /\ UNCHANGED <<mode, want, goon, told, cancelled, calls, wait, worker, task, pushing, pushed,
                     clock>>
  BY DEF Sorted, MainAt, setup
<1>1. \/ main = "batch" /\ done' = done
      \/ main = "handler" /\ calls[t] < MaxCalls /\ done' = done
      \/ main = "handler" /\ done' = done \cup {t}
  BY DEF Sorted, MainAt
<1>2. TaskTyped /\ Shared /\ Division /\ AboutToPush /\ CallsLeft /\ InTime(running)
  BY DEF TaskInv
<1>3. batch # <<>>
  BY <1>0, <1>2 DEF Division
<1>4. /\ t \in Tasks /\ t \in ToSet(batch) /\ batch' \in Seq(Tasks)
      /\ Distinct(batch') /\ ToSet(batch') = ToSet(batch) \ {t}
  <2>1. batch \in Seq(Tasks) /\ Distinct(batch)
    BY <1>2 DEF TaskTyped, Shared
  <2> QED BY <1>0, <1>3, <2>1, TailFacts
<1>5. \A s \in Tasks : main = "handler" /\ s = Head(batch) => s = t
  OBVIOUS
<1> HIDE DEF t
<1>6. t \notin done /\ t \notin ToSet(running) /\ t \notin ToSet(finished)
  BY <1>2, <1>4 DEF Shared
<1>7. Removed = {} /\ Removed' = {} /\ worker \in {"none", "exited"}
  BY <1>0, <1>2 DEF Removed, Division
<1>8. AboutToPush' /\ Division'
  BY <1>0, <1>2 DEF AboutToPush, Division
<1>9. CallsLeft'
  <2>1. calls \in [Tasks -> 0 .. MaxCalls] /\ calls' = calls
    BY <1>0, <1>2 DEF CallsLeft
  <2>2. ASSUME NEW s \in Tasks, calls[s] = MaxCalls PROVE s \in done'
    <3>1. s \in done \/ (main = "handler" /\ s = t)
      BY <1>2, <1>5, <1>7, <2>2 DEF CallsLeft
    <3>2. CASE s \in done
      BY <1>1, <3>2
    <3>3. CASE main = "handler" /\ s = t
      <4>1. ~(calls[t] < MaxCalls)
        BY <2>2, <3>3, TasksAssumption
      <4> QED BY <1>1, <3>3, <4>1
    <3> QED BY <3>1, <3>2, <3>3
  <2> QED BY <2>1, <2>2 DEF CallsLeft
<1>10. CASE done' = done \cup {t}
  <2>1. finished' = Put(finished, t) /\ running' = running
    BY <1>0, <1>10
  <2>2. /\ finished' \in Seq(Tasks) /\ Distinct(finished')
        /\ ToSet(finished') = ToSet(finished) \cup {t}
    <3>1. finished \in Seq(Tasks) /\ Distinct(finished)
      BY <1>2 DEF TaskTyped, Shared
    <3> QED BY <1>4, <1>6, <2>1, <3>1, PutFacts
  <2>3. TaskTyped'
    BY <1>0, <1>2, <1>4, <2>1, <2>2 DEF TaskTyped, MainPC
  <2>4. Shared'
    <3> USE <1>0, <1>2, <1>4, <1>6, <1>7, <1>10, <2>1, <2>2
    <3>1. /\ Distinct(running)' /\ Distinct(finished)' /\ Distinct(batch)'
          /\ (done = ToSet(finished) \cup Removed)' /\ (ToSet(finished) \cap Removed = {})'
      BY DEF Shared
    <3>2. (pushed = ToSet(running) \cup ToSet(batch) \cup done \cup told)'
      BY DEF Shared
    <3>3. /\ (ToSet(running) \cap ToSet(batch) = {})' /\ (done \cap told = {})'
          /\ ((ToSet(running) \cup ToSet(batch)) \cap (done \cup told) = {})'
      BY DEF Shared
    <3> QED BY <3>1, <3>2, <3>3 DEF Shared
  <2> QED BY <1>2, <1>8, <1>9, <2>1, <2>3, <2>4 DEF TaskInv
<1>11. CASE done' = done
  <2>1. running' = Put(running, t) /\ finished' = finished
    BY <1>0, <1>6, <1>11
  <2>2. /\ running' \in Seq(Tasks) /\ Distinct(running') /\ InTime(running')
        /\ ToSet(running') = ToSet(running) \cup {t}
    <3>1. running \in Seq(Tasks) /\ Distinct(running)
      BY <1>2 DEF TaskTyped, Shared
    <3> QED BY <1>2, <1>4, <1>6, <2>1, <3>1, PutFacts
  <2>3. TaskTyped'
    BY <1>0, <1>2, <1>4, <2>1, <2>2 DEF TaskTyped, MainPC
  <2>4. Shared'
    <3> USE <1>0, <1>2, <1>4, <1>6, <1>7, <1>11, <2>1, <2>2
    <3>1. /\ Distinct(running)' /\ Distinct(finished)' /\ Distinct(batch)'
          /\ (done = ToSet(finished) \cup Removed)' /\ (ToSet(finished) \cap Removed = {})'
      BY DEF Shared
    <3>2. (pushed = ToSet(running) \cup ToSet(batch) \cup done \cup told)'
      BY DEF Shared
    <3>3. /\ (ToSet(running) \cap ToSet(batch) = {})' /\ (done \cap told = {})'
          /\ ((ToSet(running) \cup ToSet(batch)) \cap (done \cup told) = {})'
      BY DEF Shared
    <3> QED BY <3>1, <3>2, <3>3 DEF Shared
  <2> QED BY <1>8, <1>9, <2>2, <2>3, <2>4 DEF TaskInv
<1> QED BY <1>1, <1>10, <1>11

LEMMA TaskStepKeeps == TaskInv /\ [TQNext]_tqVars => TaskInv'
<1> SUFFICES ASSUME TaskInv, [TQNext]_tqVars PROVE TaskInv'
  OBVIOUS
<1>1. CASE UNCHANGED tqVars
  <2>1. /\ UNCHANGED <<mode, want, goon, running, finished, batch, told, done, cancelled, calls>>
        /\ UNCHANGED <<main, wait, worker, task, pushing, pushed, clock>>
    BY <1>1 DEF tqVars, setup, queues, flags
  <2>2. TaskTyped' /\ Shared' /\ Division' /\ InTime(running)'
    BY <2>1 DEF TaskInv, TaskTyped, Shared, Removed, Division
  <2>3. AboutToPush' /\ CallsLeft'
    BY <2>1 DEF TaskInv, AboutToPush, CallsLeft
  <2> QED BY <2>2, <2>3 DEF TaskInv
<1>2. CASE TaskWorker
  <2>1. "worker" \in Threads
    BY DEF Threads
  <2> QED BY <1>2, <2>1, WorkerQuiet, GetTaskKeeps, HandlerReturnsKeeps, HandlerFinishesKeeps,
             AddToFinishedKeeps, PushBlockingKeeps DEF TaskWorker
<1>3. CASE InsideQueue
  <2>1. "main" \in Threads
    BY DEF Threads
  <2> QED BY <1>3, <2>1, MainQuiet, CallBackReturnsKeeps, WaitOnKeeps, CallHandlerKeeps,
             SortedKeeps, CheckKeeps, PushBlockingKeeps DEF InsideQueue
<1>4. CASE Check
  BY <1>4, MainQuiet, CheckKeeps DEF Check
<1>5. CASE \E a \in Threads, t \in Tasks : Push(a, t) \/ LookForBlocking(a, t)
  BY <1>5, PushKeeps, LookForBlockingKeeps
<1>6. CASE \/ \E m \in {"regular", "threaded"} : TaskQueueInit(m)
           \/ \E b \in BOOLEAN : SetThreaded(b)
           \/ TaskQueueDeinit \/ TaskQueueWait \/ TaskQueueReset
           \/ (\E t \in Tasks : TaskQueueCancel(t)) \/ Tick
  BY <1>6, MainQuiet
<1>7. CASE SpuriousWakeUp
  BY <1>7, WorkerQuiet
<1> QED BY <1>1, <1>2, <1>3, <1>4, <1>5, <1>6, <1>7 DEF TQNext

LEMMA TaskQueueIsSound == TQSpec => []TaskInv
BY TaskInvStarts, TaskStepKeeps, PTL DEF TQSpec

\* The globals of task_queue.c and the locals of the two threads have their
\* types in every state.
THEOREM TaskQueueTypeCorrect == TQSpec => []TQTypeOK
<1>1. TaskInv => TQTypeOK
  <2> SUFFICES ASSUME TaskInv PROVE TQTypeOK
    OBVIOUS
  <2>1. done \cup cancelled \cup told \subseteq pushed
    BY DEF TaskInv, TaskTyped, Shared
  <2>2. {want, goon, wait} \subseteq BOOLEAN
    BY DEF TaskInv, TaskTyped
  <2>3. {running, finished, batch} \subseteq Seq(Tasks)
    BY DEF TaskInv, TaskTyped
  <2> QED BY <2>1, <2>2, <2>3 DEF TaskInv, TaskTyped, AboutToPush, CallsLeft, TQTypeOK
<1> QED BY <1>1, TaskQueueIsSound, PTL

LEMMA TimesIn ==
  ASSUME NEW q \in Seq(Tasks), Distinct(q), NEW t, NEW x
  PROVE  IF t \in ToSet(q) THEN \E i : Times(q, t) \X {x} = {<<i, x>>}
                           ELSE Times(q, t) \X {x} = {}
<1>1. CASE t \in ToSet(q)
  <2>1. PICK i \in 1 .. Len(q) : q[i] = t
    BY <1>1, Elements
  <2>2. Times(q, t) = {i}
    BY <2>1 DEF Times, Distinct
  <2> QED BY <1>1, <2>2
<1>2. CASE t \notin ToSet(q)
  <2>1. Times(q, t) = {}
    BY <1>2, Elements DEF Times
  <2> QED BY <1>2, <2>1
<1> QED BY <1>1, <1>2

\* A task that was pushed is in one place until its callback was called, and
\* then in none, with every interleaving of the two threads, any number of
\* tasks and all changes of the implementation.
THEOREM EveryTaskInOnePlace == TQSpec => []OnePlace
<1>1. TaskInv => OnePlace
  <2> SUFFICES ASSUME TaskInv, NEW t \in Tasks
               PROVE  LET places == Times(running, t) \X {"r"} \cup Times(finished, t) \X {"f"}
                              \cup Times(batch, t) \X {"b"}
                              \cup (IF worker = "removed" /\ task = t THEN {<<0, "w">>} ELSE {})
                              \cup (IF t \in told THEN {<<0, "t">>} ELSE {})
                      IN  /\ IF t \in pushed THEN \E p \in places : places = {p} ELSE places = {}
                          /\ worker = "handling" /\ task = t => Times(running, t) # {}
    BY DEF OnePlace
  <2> DEFINE R == Times(running, t) \X {"r"}
             F == Times(finished, t) \X {"f"}
             B == Times(batch, t) \X {"b"}
             W == IF worker = "removed" /\ task = t THEN {<<0, "w">>} ELSE {}
             T == IF t \in told THEN {<<0, "t">>} ELSE {}
             places == R \cup F \cup B \cup W \cup T
  <2>0. TaskTyped /\ Shared /\ Division
    BY DEF TaskInv
  <2>1. IF t \in ToSet(running) THEN \E p : R = {p} ELSE R = {}
    BY <2>0, TimesIn DEF TaskTyped, Shared
  <2>2. IF t \in ToSet(finished) THEN \E p : F = {p} ELSE F = {}
    BY <2>0, TimesIn DEF TaskTyped, Shared
  <2>3. IF t \in ToSet(batch) THEN \E p : B = {p} ELSE B = {}
    BY <2>0, TimesIn DEF TaskTyped, Shared
  <2>4. IF t \in Removed THEN \E p : W = {p} ELSE W = {}
    BY DEF Removed
  <2>5. IF t \in told THEN \E p : T = {p} ELSE T = {}
    OBVIOUS
  <2>6. worker = "handling" /\ task = t => Times(running, t) # {}
    <3>1. worker = "handling" /\ task = t => R # {}
      BY <2>0, <2>1 DEF Division
    <3> QED BY <3>1
  <2> HIDE DEF R, F, B, W, T
  <2>7. t \notin pushed => places = {}
    BY <2>0, <2>1, <2>2, <2>3, <2>4, <2>5 DEF Shared
  <2>8. t \in pushed => \E p \in places : places = {p}
    <3>1. CASE t \in ToSet(running)
      <4>1. (\E p : R = {p}) /\ F = {} /\ B = {} /\ W = {} /\ T = {}
        BY <3>1, <2>0, <2>1, <2>2, <2>3, <2>4, <2>5 DEF Shared
      <4> QED BY <4>1
    <3>2. CASE t \in ToSet(finished)
      <4>1. (\E p : F = {p}) /\ R = {} /\ B = {} /\ W = {} /\ T = {}
        BY <3>2, <2>0, <2>1, <2>2, <2>3, <2>4, <2>5 DEF Shared
      <4> QED BY <4>1
    <3>3. CASE t \in ToSet(batch)
      <4>1. (\E p : B = {p}) /\ R = {} /\ F = {} /\ W = {} /\ T = {}
        BY <3>3, <2>0, <2>1, <2>2, <2>3, <2>4, <2>5 DEF Shared
      <4> QED BY <4>1
    <3>4. CASE t \in Removed
      <4>1. (\E p : W = {p}) /\ R = {} /\ F = {} /\ B = {} /\ T = {}
        BY <3>4, <2>0, <2>1, <2>2, <2>3, <2>4, <2>5 DEF Shared
      <4> QED BY <4>1
    <3>5. CASE t \in told
      <4>1. (\E p : T = {p}) /\ R = {} /\ F = {} /\ B = {} /\ W = {}
        BY <3>5, <2>0, <2>1, <2>2, <2>3, <2>4, <2>5 DEF Shared
      <4> QED BY <4>1
    <3> QED BY <2>0, <3>1, <3>2, <3>3, <3>4, <3>5 DEF Shared
  <2> QED BY <2>6, <2>7, <2>8 DEF R, F, B, W, T
<1> QED BY <1>1, TaskQueueIsSound, PTL

\* What is not finished is in the list of the running tasks, while the main
\* thread sorts no batch of its own.
LEMMA UnfinishedRuns ==
  ASSUME TaskInv, main \notin {"batch", "handler"}
  PROVE  pushed \ (done \cup told) = ToSet(running)
<1>1. Shared /\ batch = <<>>
  BY DEF TaskInv, Division
<1> QED BY <1>1, EmptyFacts DEF Shared

\* task_queue_wait returns when no task is left that was not scheduled for
\* later: it is enough to look at the first of the list.
THEOREM WaitEndsInTime == TQSpec => WaitsForUnscheduled
<1>1. TaskInv /\ [TQNext]_tqVars
        => [WaitOver => \A t \in pushed \ (done \cup told) : When[t] > 0]_tqVars
  <2> SUFFICES ASSUME TaskInv, WaitOver, NEW t \in pushed \ (done \cup told)
               PROVE  When[t] > 0
    OBVIOUS
  <2>1. main = "judge" /\ ~(running # <<>> /\ When[Head(running)] = 0)
    BY DEF WaitOver, MainAt, MustGather
  <2>2. running \in Seq(Tasks) /\ InTime(running)
    BY DEF TaskInv, TaskTyped
  <2>3. PICK i \in 1 .. Len(running) : running[i] = t
    BY <2>1, <2>2, UnfinishedRuns, Elements
  <2>4. running # <<>> /\ Head(running) = running[1] /\ 1 \in 1 .. Len(running) /\ 1 <= i
    BY <2>2, <2>3, HeadTail
  <2>5. When[running[1]] <= When[t]
    BY <2>2, <2>3, <2>4 DEF InTime
  <2>6. When[running[1]] \in Nat /\ When[t] \in Nat
    BY <2>2, <2>3, <2>4, Elements, TasksAssumption
  <2> QED BY <2>1, <2>4, <2>5, <2>6
<1> QED BY <1>1, TaskQueueIsSound, PTL DEF TQSpec, WaitsForUnscheduled

\* task_queue_reset cancels every task that is not finished, the one in the
\* hands of the worker and those that callbacks have pushed included.
THEOREM ResetCancelsAll == TQSpec => ResetReachesAll
<1>1. TaskInv /\ [TQNext]_tqVars
        => [TaskQueueReset => pushed \ (done \cup told) \subseteq cancelled']_tqVars
  <2> SUFFICES ASSUME TaskInv, TaskQueueReset
               PROVE  pushed \ (done \cup told) \subseteq cancelled'
    OBVIOUS
  <2>1. main \in {"idle", "callback"} /\ cancelled' = cancelled \cup ToSet(running)
    BY DEF TaskQueueReset, MainAt, Cancel, InQueue
  <2> QED BY <2>1, UnfinishedRuns
<1> QED BY <1>1, TaskQueueIsSound, PTL DEF TQSpec, ResetReachesAll

-----------------------------------------------------------------------------
(* TaskQueue implements TaskLife *)

Unfinished == ToSet(running) \cup ToSet(batch)
Calling == IF main = "callback" THEN Head(finished) ELSE NoTask

\* The steps that show in none of the variables of TaskLife.
LEMMA HiddenStep ==
  ASSUME Unfinished' = Unfinished, Handled' = Handled, Calling' = Calling,
         UNCHANGED <<done, told, cancelled, clock>>
  PROVE  UNCHANGED L!vars
BY DEF L!vars, Unfinished, Calling

\* Which handler runs, and which callback.
LEMMA HandsFull ==
  ASSUME TaskInv
  PROVE  /\ Handled # NoTask => Handled \in Unfinished
         /\ worker = "handling" => Handled = task /\ main # "handler"
         /\ main = "handler" => Handled = Head(batch) /\ Head(batch) \in ToSet(batch)
                                 /\ worker # "handling"
         /\ main = "callback" => Calling = Head(finished) /\ Calling \in done /\ Calling # NoTask
         /\ Unfinished \cap (done \cup told) = {} /\ NoTask \notin Unfinished
         /\ Unfinished \cup done \cup told = pushed
<1>0. TaskTyped /\ Shared /\ Division
  BY DEF TaskInv
<1>1. main = "handler" => Head(batch) \in ToSet(batch)
  BY <1>0, TailFacts DEF TaskTyped, Shared, Division
<1>2. main = "callback" => Head(finished) \in ToSet(finished)
  BY <1>0, TailFacts DEF TaskTyped, Shared, Division
<1>3. worker = "handling" => main # "handler" /\ task \in ToSet(running)
  BY <1>0 DEF Division
<1>4. /\ Unfinished \cap (done \cup told) = {}
      /\ Unfinished \cup done \cup told = pushed
  BY <1>0 DEF Shared, Unfinished
<1>5. NoTask \notin pushed
  BY <1>0, TasksAssumption DEF TaskTyped
<1>6. main = "callback" => Calling = Head(finished) /\ Calling \in done
  BY <1>0, <1>2 DEF Calling, Shared
<1> QED BY <1>1, <1>3, <1>4, <1>5, <1>6 DEF Handled, Unfinished

\* push_running adds one task, and wakes a worker that handles none.
LEMMA PushShows ==
  ASSUME TaskInv, NEW t \in Tasks, t \notin pushed, PushRunning(t)
  PROVE  L!Push(t)
<1>0. /\ running' = Put(running, t) /\ worker' = Signalled
      /\ UNCHANGED <<finished, batch, told, done, cancelled, main, task, clock>>
  BY DEF PushRunning, flags
<1>1. ToSet(running') = ToSet(running) \cup {t}
  <2>1. running \in Seq(Tasks) /\ Distinct(running) /\ t \notin ToSet(running)
    BY DEF TaskInv, TaskTyped, Shared
  <2> QED BY <1>0, <2>1, PutFacts
<1>2. Handled' = Handled /\ Calling' = Calling
  BY <1>0, SignalledIs DEF Handled, Calling
<1>3. t \notin Unfinished \cup done \cup told
  BY HandsFull
<1> QED BY <1>0, <1>1, <1>2, <1>3 DEF L!Push, Unfinished, Calling

LEMMA WorkerShows ==
  ASSUME TaskInv, TaskWorker \/ SpuriousWakeUp
  PROVE  [L!Next]_L!vars
<1>0. TaskTyped /\ Shared /\ Division
  BY DEF TaskInv
<1>1. CASE Continue \/ Timeout \/ SpuriousWakeUp
  <2>1. /\ worker # "handling" /\ worker' # "handling"
        /\ UNCHANGED <<running, finished, batch, told, done, cancelled, main, clock>>
    BY <1>1 DEF Continue, Timeout, SpuriousWakeUp, queues, flags
  <2>2. Unfinished' = Unfinished /\ Handled' = Handled /\ Calling' = Calling
    BY <2>1 DEF Unfinished, Handled, Calling
  <2> QED BY <2>1, <2>2, HiddenStep
<1>2. CASE GetTask
  <2>1. /\ worker = "sure"
        /\ UNCHANGED <<running, finished, batch, told, done, cancelled, main, clock>>
    BY <1>2 DEF GetTask, queues
  <2>2. Handled = NoTask /\ main # "handler" /\ Unfinished' = Unfinished /\ Calling' = Calling
    BY <1>0, <2>1 DEF Handled, Division, Unfinished, Calling
  <2>3. CASE worker' \in {"waiting", "timed"}
    BY <2>1, <2>2, <2>3, HiddenStep DEF Handled
  <2>4. CASE running # <<>> /\ Due(Head(running)) /\ worker' = "handling" /\ task' = Head(running)
    <3>1. Head(running) \in Tasks /\ Head(running) \in Unfinished
      BY <1>0, <2>4, TailFacts DEF TaskTyped, Shared, Unfinished
    <3>2. Handled' = Head(running)
      BY <2>4 DEF Handled
    <3>3. L!Begin(Head(running))
      BY <2>1, <2>2, <2>4, <3>1, <3>2 DEF L!Begin, Unfinished, Calling, Due
    <3> QED BY <3>1, <3>3 DEF L!Next
  <2> QED BY <1>2, <2>3, <2>4 DEF GetTask
<1>3. CASE HandlerReturns
  <2>1. /\ worker = "handling" /\ task \notin cancelled /\ running' = Requeue
        /\ worker' = "top" /\ main' = main
        /\ UNCHANGED <<finished, batch, told, done, cancelled, clock>>
    BY <1>3 DEF HandlerReturns, flags
  <2>2. /\ Unfinished' = Unfinished /\ Calling' = Calling
        /\ Handled = task /\ Handled' = NoTask /\ task \in Unfinished
    BY <2>1, RequeueFacts, HandsFull DEF Unfinished, Calling, Handled
  <2>3. L!Return
    BY <2>1, <2>2 DEF L!Return, Unfinished, Calling
  <2> QED BY <2>3 DEF L!Next
<1>4. CASE HandlerFinishes
  <2>1. /\ worker = "handling" /\ done' = done \cup {task} /\ running' = Taken(running, task)
        /\ worker' = "removed" /\ main' = main
        /\ UNCHANGED <<finished, batch, told, cancelled, clock>>
    BY <1>4 DEF HandlerFinishes
  <2>2. task \in Tasks /\ task \in ToSet(running) /\ task \notin ToSet(batch)
    BY <1>0, <2>1, RequeueFacts DEF Shared
  <2>3. ToSet(running') = ToSet(running) \ {task}
    BY <1>0, <2>1, <2>2, TakenFacts DEF TaskTyped, Shared
  <2>4. /\ Unfinished' = Unfinished \ {task} /\ Calling' = Calling
        /\ Handled = task /\ Handled' = NoTask /\ task \in Unfinished
    BY <2>1, <2>2, <2>3, HandsFull DEF Unfinished, Calling, Handled
  <2>5. L!Finish
    BY <2>1, <2>4 DEF L!Finish, Unfinished, Calling
  <2> QED BY <2>5 DEF L!Next
<1>5. CASE AddToFinished
  <2>1. /\ worker = "removed" /\ worker' = "top" /\ main # "callback" /\ main' = main
        /\ UNCHANGED <<running, batch, told, done, cancelled, clock>>
    BY <1>5 DEF AddToFinished, FinishedLocked, flags
  <2>2. Unfinished' = Unfinished /\ Handled' = Handled /\ Calling' = Calling
    BY <2>1 DEF Unfinished, Handled, Calling
  <2> QED BY <2>1, <2>2, HiddenStep
<1>6. CASE PushBlocking("worker")
  <2>1. pushing["worker"] # NoTask /\ PushRunning(pushing["worker"])
    BY <1>6 DEF PushBlocking
  <2>2. pushing["worker"] \in Tasks /\ pushing["worker"] \notin pushed
    BY <2>1, TasksAssumption DEF TaskInv, AboutToPush, Threads
  <2> QED BY <2>1, <2>2, PushShows DEF L!Next
<1> QED BY <1>1, <1>2, <1>3, <1>4, <1>5, <1>6 DEF TaskWorker

\* Steps of the main thread, and calls of the application, that move no task
\* but from one list of those that are not finished to the other.
LEMMA MainHides ==
  ASSUME TaskInv,
         \/ \E m \in {"regular", "threaded"} : TaskQueueInit(m)
         \/ \E b \in BOOLEAN : SetThreaded(b)
         \/ \E a \in Threads, t \in Tasks : LookForBlocking(a, t)
         \/ CheckStopsWorker \/ TaskQueueDeinit \/ Joined
         \/ LockFinished \/ Gathered \/ TaskQueueWait \/ WaitOver \/ BatchDone
         \/ TaskQueueCheck \/ Switched \/ WaitOn
  PROVE  UNCHANGED L!vars
<1>0. TaskTyped /\ Shared /\ Division
  BY DEF TaskInv
<1>1. ASSUME UNCHANGED <<running, batch, finished, told, done, cancelled, task, clock>>,
             main \notin {"handler", "callback"} \/ main' = main,
             main' \notin {"handler", "callback"} \/ main' = main,
             worker' = worker \/ {worker, worker'} \cap {"handling", "removed"} = {}
      PROVE  UNCHANGED L!vars
  <2>1. Unfinished' = Unfinished /\ Handled' = Handled /\ Calling' = Calling
    BY <1>1 DEF Unfinished, Handled, Calling
  <2> QED BY <1>1, <2>1, HiddenStep
<1>2. ASSUME NEW m \in {"regular", "threaded"}, TaskQueueInit(m) PROVE UNCHANGED L!vars
  <2>1. worker \in {"none", "exited"}
    BY <1>0, <1>2 DEF TaskQueueInit, Division
  <2> QED BY <1>1, <1>2, <2>1 DEF TaskQueueInit, StartAs, MainAt, queues, flags
<1>3. ASSUME \/ \E b \in BOOLEAN : SetThreaded(b)
             \/ \E a \in Threads, t \in Tasks : LookForBlocking(a, t)
             \/ Joined \/ LockFinished \/ Gathered \/ TaskQueueWait \/ WaitOver \/ BatchDone
      PROVE  UNCHANGED L!vars
  BY <1>1, <1>3 DEF SetThreaded, LookForBlocking, Joined, LockFinished, Gathered, TaskQueueWait,
                    WaitOver, BatchDone, MainAt, queues, flags
<1>4. ASSUME CheckStopsWorker \/ TaskQueueDeinit PROVE UNCHANGED L!vars
  BY <1>1, <1>4, SignalledIs DEF CheckStopsWorker, TaskQueueDeinit, StopWorker, MainAt, queues, flags
<1>5. ASSUME batch = <<>>, Emptied("regular"), main \notin {"handler", "callback"},
             main' = "batch", worker' = worker,
             UNCHANGED <<finished, told, done, cancelled, task, clock>>
      PROVE  UNCHANGED L!vars
  <2>1. batch' = Reverse(running) /\ running' = <<>>
    BY <1>5 DEF Emptied
  <2>2. ToSet(batch') = ToSet(running) /\ ToSet(running') = {} /\ ToSet(batch) = {}
    BY <1>0, <1>5, <2>1, ReverseFacts, EmptyFacts DEF TaskTyped, Shared
  <2>3. Unfinished' = Unfinished /\ Handled' = Handled /\ Calling' = Calling
    BY <1>5, <2>2 DEF Unfinished, Handled, Calling
  <2> QED BY <1>5, <2>3, HiddenStep
<1>6. ASSUME TaskQueueCheck \/ Switched PROVE UNCHANGED L!vars
  <2>1. /\ main \in {"idle", "switching"} /\ main' = Gathering(Wanted) /\ Emptied(Wanted)
        /\ mode = "threaded" /\ Wanted = "regular" => worker = "exited"
        /\ IF mode = Wanted THEN UNCHANGED <<setup, worker>> ELSE StartAs(Wanted)
        /\ UNCHANGED <<finished, told, done, cancelled, task, clock>>
    BY <1>6 DEF TaskQueueCheck, Switched, CheckFrom, MainAt, flags
  <2>2. CASE Wanted = "regular"
    <3>1. worker' = worker /\ batch = <<>>
      BY <1>0, <2>1, <2>2 DEF StartAs, Division
    <3> QED BY <1>5, <2>1, <2>2, <3>1 DEF Gathering
  <2>3. CASE Wanted = "threaded"
    <3>1. UNCHANGED <<running, batch>> /\ main' = "gather"
      BY <2>1, <2>3 DEF Emptied, Gathering
    <3>2. \/ worker' = worker
          \/ worker \in {"none", "exited"} /\ worker' = "top"
      BY <1>0, <2>1, <2>3 DEF StartAs, Division
    <3> QED BY <1>1, <2>1, <3>1, <3>2
  <2> QED BY <2>2, <2>3 DEF Wanted
<1>7. ASSUME WaitOn PROVE UNCHANGED L!vars
  <2>1. /\ main = "judge" /\ main' = Gathering(mode) /\ Emptied(mode) /\ worker' = worker
        /\ UNCHANGED <<finished, told, done, cancelled, task, clock>>
    BY <1>7 DEF WaitOn, MainAt, flags
  <2>2. batch = <<>> /\ mode \in {"regular", "threaded"}
    BY <1>0, <2>1 DEF Division, TaskTyped
  <2>3. CASE mode = "regular"
    BY <1>5, <2>1, <2>2, <2>3 DEF Gathering
  <2>4. CASE mode = "threaded"
    BY <1>1, <2>1, <2>4 DEF Gathering, Emptied
  <2> QED BY <2>2, <2>3, <2>4
<1> QED BY <1>2, <1>3, <1>4, <1>6, <1>7

\* The steps of the main thread that show: handlers of its batch, callbacks,
\* what it cancels, and what it pushes.
LEMMA HandlerShows ==
  ASSUME TaskInv, CallHandler
  PROVE  [L!Next]_L!vars
<1>0. TaskTyped /\ Shared /\ Division
  BY DEF TaskInv
<1>1. /\ main = "batch" /\ main' = "handler" /\ batch # <<>> /\ Due(Head(batch))
      /\ UNCHANGED <<running, finished, batch, told, done, cancelled, worker, task, clock>>
  BY DEF CallHandler, MainAt, queues
<1>2. Head(batch) \in Tasks /\ Head(batch) \in ToSet(batch)
  BY <1>0, <1>1, TailFacts DEF TaskTyped, Shared
<1>3. Handled = NoTask /\ Handled' = Head(batch) /\ Calling' = Calling
  BY <1>0, <1>1 DEF Division, Handled, Calling
<1>4. L!Begin(Head(batch))
  BY <1>1, <1>2, <1>3 DEF L!Begin, Unfinished, Calling, Due
<1> QED BY <1>2, <1>4 DEF L!Next

LEMMA SortedShows ==
  ASSUME TaskInv, Sorted
  PROVE  [L!Next]_L!vars
<1> DEFINE t == Head(batch)
<1>0. TaskTyped /\ Shared /\ Division
  BY DEF TaskInv
<1>1. /\ batch' = Tail(batch) /\ main' = "batch" /\ main \in {"batch", "handler"}
      /\ IF t \in done' THEN finished' = Put(finished, t) /\ running' = running
                        ELSE running' = Put(running, t) /\ finished' = finished
      /\ UNCHANGED <<told, cancelled, worker, task, clock>>
  BY DEF Sorted, MainAt
<1>2. batch # <<>>
  BY <1>0 DEF Sorted, Division, MainAt
<1>3. /\ t \in Tasks /\ t \in ToSet(batch) /\ ToSet(batch') = ToSet(batch) \ {t}
      /\ t \notin ToSet(running) /\ t \notin done
  BY <1>0, <1>1, <1>2, TailFacts DEF TaskTyped, Shared
<1>4. worker # "handling" /\ worker' # "handling" /\ Handled' = NoTask /\ Calling' = Calling
  BY <1>0, <1>1 DEF Division, Handled, Calling
<1>5. main = "handler" => Handled = t
  BY <1>4 DEF Handled
<1>6. t \in Unfinished
  BY <1>3 DEF Unfinished
<1> HIDE DEF t
<1>7. ASSUME done' = done PROVE Unfinished' = Unfinished
  <2>1. running' = Put(running, t)
    BY <1>1, <1>3, <1>7
  <2>2. ToSet(running') = ToSet(running) \cup {t}
    BY <1>0, <1>3, <2>1, PutFacts DEF TaskTyped, Shared
  <2> QED BY <1>3, <2>2 DEF Unfinished
<1>8. CASE main = "batch" /\ done' = done
  <2>1. Handled = NoTask
    BY <1>4, <1>8 DEF Handled
  <2> QED BY <1>1, <1>4, <1>7, <1>8, <2>1, HiddenStep
<1>9. CASE main = "handler" /\ t \notin cancelled /\ done' = done
  <2>1. L!Return
    BY <1>1, <1>4, <1>5, <1>6, <1>7, <1>9 DEF L!Return, Unfinished, Calling
  <2> QED BY <2>1 DEF L!Next
<1>10. CASE main = "handler" /\ done' = done \cup {t}
  <2>1. running' = running
    BY <1>1, <1>10
  <2>2. Unfinished' = Unfinished \ {t}
    BY <1>3, <2>1 DEF Unfinished
  <2>3. L!Finish
    BY <1>1, <1>4, <1>5, <1>6, <1>10, <2>2 DEF L!Finish, Unfinished, Calling
  <2> QED BY <2>3 DEF L!Next
<1> QED BY <1>8, <1>9, <1>10 DEF Sorted, MainAt, t

LEMMA CallBackShows ==
  ASSUME TaskInv, CallBack \/ CallBackReturns
  PROVE  [L!Next]_L!vars
<1>0. TaskTyped /\ Shared /\ Division
  BY DEF TaskInv
<1>1. /\ finished # <<>> /\ main \in {"collect", "callback"} /\ main' \in {"collect", "callback"}
      /\ UNCHANGED <<running, batch, worker, task, clock>>
  BY <1>0 DEF CallBack, CallBackReturns, MainAt, queues, Division
<1>2. Head(finished) \in Tasks /\ Head(finished) \in done
  BY <1>0, <1>1, TailFacts DEF TaskTyped, Shared
<1>3. Unfinished' = Unfinished /\ Handled' = Handled
  BY <1>1 DEF Unfinished, Handled
<1>4. CASE CallBack
  <2>1. /\ main = "collect" /\ main' = "callback"
        /\ UNCHANGED <<finished, told, done, cancelled>>
    BY <1>4 DEF CallBack, MainAt, queues, flags
  <2>2. Calling = NoTask /\ Calling' = Head(finished)
    BY <2>1 DEF Calling
  <2>3. L!Call(Head(finished))
    BY <1>1, <1>2, <1>3, <2>1, <2>2 DEF L!Call, Unfinished, Calling
  <2> QED BY <1>2, <2>3 DEF L!Next
<1>5. CASE CallBackReturns
  <2>1. /\ main = "callback" /\ main' = "collect"
        /\ told' = told \cup {Head(finished)} /\ done' = done \ {Head(finished)}
        /\ cancelled' = cancelled \ {Head(finished)}
    BY <1>5 DEF CallBackReturns, MainAt
  <2>2. Calling = Head(finished) /\ Calling' = NoTask
    BY <2>1 DEF Calling
  <2>3. L!Tell
    BY <1>1, <1>2, <1>3, <2>1, <2>2 DEF L!Tell, Unfinished, Calling
  <2> QED BY <2>3 DEF L!Next
<1> QED BY <1>4, <1>5

LEMMA CancelShows ==
  ASSUME TaskInv, TaskQueueReset \/ \E t \in Tasks : TaskQueueCancel(t)
  PROVE  [L!Next]_L!vars
<1>1. /\ main' = main /\ UNCHANGED <<running, finished, batch, told, done, worker, task, clock>>
      /\ main \notin {"batch", "handler"}
  BY DEF TaskQueueReset, TaskQueueCancel, Cancel, MainAt, queues
<1>2. Unfinished' = Unfinished /\ Handled' = Handled /\ Calling' = Calling
  BY <1>1 DEF Unfinished, Handled, Calling
<1>3. ASSUME NEW ts, cancelled' = cancelled \cup ts PROVE L!Cancel(ts)
  BY <1>1, <1>2, <1>3 DEF L!Cancel, Unfinished, Calling
<1>4. CASE TaskQueueReset
  <2>1. Unfinished = ToSet(running)
    BY <1>1, UnfinishedRuns, HandsFull
  <2>2. cancelled' = cancelled \cup Unfinished
    BY <1>4, <2>1 DEF TaskQueueReset, Cancel, InQueue
  <2>3. L!Cancel(ToSet(running) \cup ToSet(batch))
    BY <1>3, <2>2 DEF Unfinished
  <2> QED BY <2>3 DEF L!Next
<1>5. ASSUME NEW t \in Tasks, TaskQueueCancel(t) PROVE [L!Next]_L!vars
  <2>1. t \in Unfinished \cup done
    BY <1>5, HandsFull DEF TaskQueueCancel
  <2>2. cancelled' = cancelled \cup {t} \/ cancelled' = cancelled
    <3>1. cancelled' = cancelled \cup ({t} \cap IF mode = "threaded" THEN InQueue ELSE {t})
      BY <1>5 DEF TaskQueueCancel, Cancel
    <3> QED BY <3>1
  <2>3. CASE cancelled' = cancelled \cup {t}
    BY <1>3, <2>1, <2>3 DEF L!Next, Unfinished
  <2>4. CASE cancelled' = cancelled
    BY <1>1, <1>2, <2>4, HiddenStep
  <2> QED BY <2>2, <2>3, <2>4
<1> QED BY <1>4, <1>5

LEMMA PushingShows ==
  ASSUME TaskInv, PushBlocking("main") \/ \E a \in Threads, t \in Tasks : Push(a, t)
  PROVE  [L!Next]_L!vars
<1>1. CASE PushBlocking("main")
  <2>1. pushing["main"] # NoTask /\ PushRunning(pushing["main"])
    BY <1>1 DEF PushBlocking
  <2>2. pushing["main"] \in Tasks /\ pushing["main"] \notin pushed
    BY <2>1, TasksAssumption DEF TaskInv, AboutToPush, Threads
  <2> QED BY <2>1, <2>2, PushShows DEF L!Next
<1>2. ASSUME NEW a \in Threads, NEW t \in Tasks, Push(a, t) PROVE [L!Next]_L!vars
  BY <1>2, PushShows DEF Push, L!Next
<1> QED BY <1>1, <1>2

LEMMA LifeStarts == TQInit => L!Init
BY EmptyFacts DEF TQInit, L!Init, Handled

LEMMA LifeSteps == TaskInv /\ [TQNext]_tqVars => [L!Next]_L!vars
<1> SUFFICES ASSUME TaskInv, [TQNext]_tqVars PROVE [L!Next]_L!vars
  OBVIOUS
<1>1. CASE UNCHANGED tqVars
  <2>1. UNCHANGED <<running, batch, finished, done, told, cancelled, main, worker, task, clock>>
    BY <1>1 DEF tqVars, queues, flags
  <2>2. Unfinished' = Unfinished /\ Handled' = Handled /\ Calling' = Calling
    BY <2>1 DEF Unfinished, Handled, Calling
  <2> QED BY <2>1, <2>2, HiddenStep
<1>2. CASE TaskWorker \/ SpuriousWakeUp
  BY <1>2, WorkerShows
<1>3. CASE InsideQueue
  BY <1>3, MainHides, HandlerShows, SortedShows, CallBackShows, PushingShows DEF InsideQueue
<1>4. CASE Check
  BY <1>4, MainHides DEF Check
<1>5. CASE \E a \in Threads, t \in Tasks : Push(a, t) \/ LookForBlocking(a, t)
  BY <1>5, MainHides, PushingShows
<1>6. CASE \/ \E m \in {"regular", "threaded"} : TaskQueueInit(m)
           \/ \E b \in BOOLEAN : SetThreaded(b)
           \/ TaskQueueDeinit \/ TaskQueueWait
  BY <1>6, MainHides
<1>7. CASE TaskQueueReset \/ \E t \in Tasks : TaskQueueCancel(t)
  BY <1>7, CancelShows
<1>8. CASE Tick
  <2>1. /\ clock' > clock
        /\ UNCHANGED <<running, batch, finished, done, told, cancelled, main, worker, task>>
    BY <1>8, TasksAssumption DEF Tick, TaskInv, TaskTyped, queues, flags
  <2>2. Unfinished' = Unfinished /\ Handled' = Handled /\ Calling' = Calling
    BY <2>1 DEF Unfinished, Handled, Calling
  <2>3. L!Pass
    BY <2>1, <2>2 DEF L!Pass, Unfinished, Calling
  <2> QED BY <2>3 DEF L!Next
<1> QED BY <1>1, <1>2, <1>3, <1>4, <1>5, <1>6, <1>7, <1>8 DEF TQNext

\* The task queue implements TaskLife: whichever thread handles the tasks, and
\* however often that changes, each is handled alone, never after it finished,
\* and told once (threaded_worker, retro_task_regular_gather,
\* retro_task_internal_gather).
THEOREM ImplementsTaskLife == TQSpec => KeepsLife
<1>1. TQSpec => []TaskInv
  BY TaskQueueIsSound
<1>2. TQSpec => L!Init
  BY LifeStarts DEF TQSpec
<1>3. TQSpec => [][L!Next]_L!vars
  BY <1>1, LifeSteps, PTL DEF TQSpec
<1> QED BY <1>2, <1>3 DEF KeepsLife, L!Spec

=============================================================================
