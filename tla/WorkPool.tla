------------------------------ MODULE WorkPool ------------------------------
(***************************************************************************)
(* What a pool of threads promises for the work it is given, as            *)
(* source/Libretro/include/rthreads/tpool.h puts it: work is begun in the  *)
(* order it was added, each piece once; when the pool is destroyed the     *)
(* work not begun is discarded and the work begun is still completed; and  *)
(* the pool is gone only when none is running.  Nothing is said of how     *)
(* many threads there are.  ThreadPool implements this specification.      *)
(***************************************************************************)
EXTENDS Naturals, Sequences

CONSTANT Work      \* pieces of work

VARIABLES
  queued,    \* added and not begun, oldest first
  running,   \* begun and not completed
  ended,     \* completed
  discarded, \* given up by the destruction of the pool
  pool       \* "live", "ending" or "gone"

vars == <<queued, running, ended, discarded, pool>>

Entries(q) == {q[i] : i \in 1 .. Len(q)}

Init ==
  /\ queued = <<>>
  /\ running = {}
  /\ ended = {}
  /\ discarded = {}
  /\ pool = "live"

Add(x) ==
  /\ pool = "live"
  /\ x \notin Entries(queued) \cup running \cup ended
  /\ queued' = Append(queued, x)
  /\ UNCHANGED <<running, ended, discarded, pool>>

Begin ==
  /\ queued # <<>>
  /\ queued' = Tail(queued)
  /\ running' = running \cup {Head(queued)}
  /\ UNCHANGED <<ended, discarded, pool>>

Complete(x) ==
  /\ x \in running
  /\ running' = running \ {x}
  /\ ended' = ended \cup {x}
  /\ UNCHANGED <<queued, discarded, pool>>

Destroy ==
  /\ pool = "live"
  /\ discarded' = Entries(queued)
  /\ queued' = <<>>
  /\ pool' = "ending"
  /\ UNCHANGED <<running, ended>>

Gone ==
  /\ pool = "ending"
  /\ running = {}
  /\ pool' = "gone"
  /\ UNCHANGED <<queued, running, ended, discarded>>

Next ==
  \/ \E x \in Work : Add(x) \/ Complete(x)
  \/ Begin
  \/ Destroy
  \/ Gone

Spec == Init /\ [][Next]_vars

=============================================================================
