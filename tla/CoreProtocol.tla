---------------------------- MODULE CoreProtocol ----------------------------
(***************************************************************************)
(* The order in which a frontend calls into a libretro core, as libretro.h *)
(* states it for the entry points LegacyMachine looks up: the environment  *)
(* before retro_init (3794-3799), the rest of the set_* functions and the  *)
(* content before retro_run, the frame-time callback before retro_run of   *)
(* every frame (2633), and retro_unload_game before retro_deinit (3884).   *)
(* One library is open at a time, since these functions have no argument   *)
(* that tells two apart.                                                   *)
(*                                                                         *)
(* LMC_CloseCore keeps all of it but the last: it calls retro_deinit on a  *)
(* core whose game is loaded and never calls retro_unload_game.            *)
(* UnloadsFirst says whether the order is the header's (TRUE) or the one   *)
(* without that rule (FALSE); CoreSession implements the second and not    *)
(* the first.                                                              *)
(*                                                                         *)
(* Only the life of each library and the call in progress are visible:     *)
(* nothing is said of who asks for a call or of how the frontend remembers *)
(* what it has loaded.  That set_state precedes the first audio            *)
(* notification (2616) is not part of it.                                  *)
(***************************************************************************)
CONSTANTS
  Cores,        \* the core libraries on disk
  None,         \* no library
  UnloadsFirst  \* a Boolean: a loaded game is unloaded before retro_deinit

VARIABLES
  life,    \* how far each library has been taken: see Lives
  call     \* the call in progress, or Idle: [fn |-> ..., core |-> ...]

vars == <<life, call>>

Lives == {"closed", "opened", "inited", "playing"}

Idle == [fn |-> "none", core |-> None]
In(fn, c) == [fn |-> fn, core |-> c]

Init ==
  /\ life = [c \in Cores |-> "closed"]
  /\ call = Idle

\* A library is opened while no other is, and is given its environment first.
Open(c) ==
  /\ call = Idle
  /\ \A d \in Cores : life[d] = "closed"
  /\ life' = [life EXCEPT ![c] = "opened"]
  /\ call' = In("set_environment", c)

InitCore(c) ==
  /\ call = In("set_environment", c)
  /\ life' = [life EXCEPT ![c] = "inited"]
  /\ call' = In("init", c)

Ready(c) ==
  /\ call = In("init", c)
  /\ call' = Idle
  /\ UNCHANGED life

LoadGame(c) ==
  /\ call = Idle
  /\ life[c] = "inited"
  /\ call' = In("load_game", c)
  /\ UNCHANGED life

\* The core refuses the content, or accepts it and is then told, if it asked
\* for audio callbacks, that audio is running.
GameRefused(c) ==
  /\ call = In("load_game", c)
  /\ call' = Idle
  /\ UNCHANGED life

GameLoaded(c) ==
  /\ call = In("load_game", c)
  /\ life' = [life EXCEPT ![c] = "playing"]
  /\ call' \in {Idle, In("set_state", c)}

AudioStarted(c) ==
  /\ call = In("set_state", c)
  /\ call' = Idle
  /\ UNCHANGED life

\* One frame of a playing core: the frame-time callback right before
\* retro_run, the audio notification between them, each only if asked for.
Frame(c) ==
  /\ life[c] = "playing"
  /\ \/ call = Idle
        /\ call' \in {In("frame_time", c), In("audio", c), In("run", c)}
     \/ call = In("frame_time", c) /\ call' \in {In("audio", c), In("run", c)}
     \/ call = In("audio", c) /\ call' = In("run", c)
     \/ call = In("run", c) /\ call' = Idle
  /\ UNCHANGED life

UnloadGame(c) ==
  /\ call = Idle
  /\ life[c] = "playing"
  /\ call' = In("unload_game", c)
  /\ UNCHANGED life

GameUnloaded(c) ==
  /\ call = In("unload_game", c)
  /\ life' = [life EXCEPT ![c] = "inited"]
  /\ call' = Idle

\* A core with a game loaded may be deinitialized as it is only where the rule
\* of libretro.h:3884 is waived.
Deinit(c) ==
  /\ call = Idle
  /\ life[c] = "inited" \/ (~UnloadsFirst /\ life[c] = "playing")
  /\ call' = In("deinit", c)
  /\ UNCHANGED life

Close(c) ==
  /\ call = In("deinit", c)
  /\ life' = [life EXCEPT ![c] = "closed"]
  /\ call' = Idle

Next ==
  \E c \in Cores :
    \/ Open(c)        \/ InitCore(c)   \/ Ready(c)
    \/ LoadGame(c)    \/ GameRefused(c) \/ GameLoaded(c) \/ AudioStarted(c)
    \/ Frame(c)
    \/ UnloadGame(c)  \/ GameUnloaded(c)
    \/ Deinit(c)      \/ Close(c)

Spec == Init /\ [][Next]_vars

=============================================================================
