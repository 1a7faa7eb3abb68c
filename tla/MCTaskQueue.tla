----------------------------- MODULE MCTaskQueue -----------------------------
(***************************************************************************)
(* TaskQueue for TLC: plain tasks, one scheduled for later, and blocking   *)
(* ones.                                                                   *)
(***************************************************************************)
EXTENDS TaskQueue

CONSTANTS Plain, Later

MCTasks == Plain \cup Later \cup Blocking
MCWhen == [t \in MCTasks |-> IF t \in Later THEN 1 ELSE 0]

=============================================================================
