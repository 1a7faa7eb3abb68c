--------------------------- MODULE MCCoreSession ----------------------------
(* Values for the constants of CoreSession that a .cfg cannot write. *)
EXTENDS CoreSession

CONSTANTS c1, c2, c3, k1, k2

\* Every core registers both callbacks.
UsesAll == [c \in Cores |-> Kinds]

\* One core registers both callbacks and the other none.
UsesMixed == [c \in Cores |-> IF c = c1 THEN Kinds ELSE {}]

\* No core registers a callback.
UsesNone == [c \in Cores |-> {}]

\* Every core exports all its entry points.
LacksNone == [c \in Cores |-> {}]

\* The second core lacks an entry point that is called once its content has
\* been accepted.
LacksAvInfo == [c \in Cores |-> IF c = c2 THEN {"get_system_av_info"} ELSE {}]

\* The second core lacks retro_run.
LacksRun == [c \in Cores |-> IF c = c2 THEN {"run"} ELSE {}]

\* Each counter belongs to the core of its number.
OwnCounters == [k \in Counters |-> IF k = k1 THEN c1 ELSE c2]

MCKinds == {"frame_time", "audio"}

=============================================================================
