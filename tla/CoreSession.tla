----------------------------- MODULE CoreSession ----------------------------
(***************************************************************************)
(* The libretro core that LegacyMachine hosts: LMC_LoadCore,               *)
(* LMC_LoadContent, LMC_CloseCore, the core branch of LMC_UpdateFrame and  *)
(* the environment commands that leave a pointer behind, from              *)
(* source/LegacyMachine/LegacyMachine.c.                                   *)
(*                                                                         *)
(* The program is one thread, but control passes to and fro between the    *)
(* application, the library and the core, and a core may call CoreEnviron- *)
(* ment from inside any of its entry points.  An action is therefore the   *)
(* code between two such crossings, and `call' says where control is.      *)
(*                                                                         *)
(* A pointer into a library is the library's name; when the library is     *)
(* unmapped every pointer into it becomes Dangling for good, even if the   *)
(* same file is mapped again.                                              *)
(***************************************************************************)
EXTENDS Naturals, Sequences

CONSTANTS
  Cores,           \* core libraries the application can name
  None,            \* the null pointer
  Dangling,        \* a pointer into a library no longer mapped
  Kinds,           \* the callbacks a core may register: see KindsAssumption
  Uses,            \* Uses[c]: the callbacks core c registers
  Announces,       \* the cores that set core options
  Lacks,           \* Lacks[c]: the entry points core c does not export
  NeedFullpath,    \* cores whose retro_get_system_info sets need_fullpath
  Counters,        \* retro_perf_counter objects, static data of the cores
  CounterOf,       \* CounterOf[k]: the core whose data k is
  MAX_COUNTERS,    \* SystemManager.h:26 (64 there)
  ContentSize,     \* size in bytes of the content file, not empty
  MaxOpens,        \* bound: how often one library may be open at a time
  ClosesFirst      \* whether the application closes a core before the next

\* The symbols of LMC_LoadCore that the program calls.  The other four it looks
\* up, retro_api_version, retro_set_controller_port_device, retro_reset and
\* retro_unload_game, are never called.
SetFunctions == {"set_video_refresh", "set_input_poll", "set_input_state",
                 "set_audio_sample", "set_audio_sample_batch"}
EntryPoints == SetFunctions \cup
  {"set_environment", "init", "get_system_info", "load_game",
   "get_system_av_info", "run", "deinit"}

ASSUME PointerAssumption ==
  /\ None \notin Cores
  /\ Dangling \notin Cores
  /\ Dangling # None
  /\ Dangling \notin Counters
ASSUME KindsAssumption == Kinds = {"frame_time", "audio"}
ASSUME CoresAssumption ==
  /\ Uses \in [Cores -> SUBSET Kinds]
  /\ CounterOf \in [Counters -> Cores]
  /\ Announces \subseteq Cores
  /\ Lacks \in [Cores -> SUBSET EntryPoints]
  /\ NeedFullpath \subseteq Cores
ASSUME BoundsAssumption ==
  /\ MAX_COUNTERS \in Nat
  /\ ContentSize \in Nat \ {0}
  /\ MaxOpens \in Nat \ {0}
ASSUME ClosesFirstAssumption == ClosesFirst \in BOOLEAN

VARIABLES
  handle,          \* current_core->handle
  table,           \* the library current_core->retro_* point into
  initialized,     \* current_core->initialized
  running,         \* current_core->running
  callbacks,       \* system->cb_frame_time and system->cb_audio
  frame_time_last, \* the core whose frame stamped system->frame_time_last
  counters,        \* system->performance_counters, its first total entries
  registered,      \* the counters whose `registered' member is true
  options,         \* the core whose options retro_variables is a copy of
  content,         \* what content_info holds during retro_load_game
  opens,           \* the loader's reference count of each library
  life,            \* how far each library has been taken (CoreProtocol)
  call,            \* the core function control is in, or Idle
  fault            \* a call or a read the program does not survive

frontend == <<handle, table, initialized, running>>
system == <<callbacks, frame_time_last, counters, registered, options>>
vars == <<frontend, system, content, opens, life, call, fault>>

Idle == [fn |-> "none", core |-> None]
In(fn, c) == [fn |-> fn, core |-> c]

NoContent == [named |-> FALSE, size |-> 0]

Functions == {"set_environment", "init", "load_game", "set_state",
              "frame_time", "audio", "run", "deinit"}
Pointer == Cores \cup {None, Dangling}
Lives == {"closed", "opened", "inited", "playing"}
Calls == [fn : Functions, core : Cores] \cup {Idle}
Faults == {"none", "null_call", "dangling_call", "dangling_read"}

AtApplication == call = Idle /\ fault = "none"
Inside(fn) == call.fn = fn /\ fault = "none"

\* The call of a function through pointer p: control passes to the library,
\* unless the pointer is null or leads into memory that is gone.
CallThrough(fn, p) ==
  \/ /\ p \in Cores
     /\ call' = In(fn, p)
     /\ UNCHANGED fault
  \/ /\ p \notin Cores
     /\ fault' = IF p = None THEN "null_call" ELSE "dangling_call"
     /\ UNCHANGED call

\* The table's pointer to the last of the entry points in fns, which are called
\* one after the other: null if the symbol of any was missing, which LoadSymbol
\* only logs.  Those before the last get and set nothing modelled here.
Entry(fns, c) == IF c \in Cores /\ Lacks[c] \cap fns = {} THEN c ELSE None

Init ==
  /\ handle = None
  /\ table = None
  /\ initialized = FALSE
  /\ running = FALSE
  /\ callbacks = [k \in Kinds |-> None]
  /\ frame_time_last = None
  /\ counters = <<>>
  /\ registered = {}
  /\ options = None
  /\ content = NoContent
  /\ opens = [c \in Cores |-> 0]
  /\ life = [c \in Cores |-> "closed"]
  /\ call = Idle
  /\ fault = "none"

-----------------------------------------------------------------------------
(* LMC_LoadCore *)

\* Whether the application may load a core now.  The library itself does not
\* look: it overwrites the handle whatever was loaded before.
MayLoad == ClosesFirst => table = None /\ handle = None

\* dylib_load succeeds, the symbols are copied and retro_set_environment is
\* called.
LoadCore(c) ==
  /\ AtApplication
  /\ MayLoad
  /\ opens[c] < MaxOpens
  /\ opens' = [opens EXCEPT ![c] = @ + 1]
  /\ handle' = c
  /\ table' = c
  /\ life' = [life EXCEPT ![c] = IF @ = "closed" THEN "opened" ELSE @]
  /\ CallThrough("set_environment", Entry({"set_environment"}, c))
  /\ UNCHANGED <<initialized, running, system, content>>

\* Mutant: the failing path also forgets the symbols.
LoadCoreFailsClearsTable ==
  /\ AtApplication
  /\ MayLoad
  /\ handle' = None
  /\ table' = None
  /\ UNCHANGED <<initialized, running, system, content, opens, life, call, fault>>

\* dylib_load fails: the handle is null, the old symbols stay in the table.
LoadCoreFails ==
  /\ AtApplication
  /\ MayLoad
  /\ handle' = None
  /\ UNCHANGED <<table, initialized, running, system, content, opens, life,
                 call, fault>>

\* The other retro_set_* functions follow, then retro_init.
EnvironmentSet ==
  /\ Inside("set_environment")
  /\ life' = [life EXCEPT ![table] = "inited"]
  /\ CallThrough("init", Entry(SetFunctions \cup {"init"}, table))
  /\ UNCHANGED <<frontend, system, content, opens>>

LoadCoreReturns ==
  /\ Inside("init")
  /\ initialized' = TRUE
  /\ call' = Idle
  /\ UNCHANGED <<handle, table, running, system, content, opens, life, fault>>

-----------------------------------------------------------------------------
(* LMC_LoadContent *)

MayLoadContent == ClosesFirst => initialized /\ ~running

\* content_size is passed to filestream_read_file by value: the callee sees a
\* null length pointer, stores nothing, and content_info.size stays zero.
SizeRead == 0

\* No name was given, or the core was asked whether it needs the full path and
\* the file has been read; a file that cannot be read ends LMC_LoadContent with
\* no change.
LoadContent(named) ==
  /\ AtApplication
  /\ MayLoadContent
  /\ content' = [named |-> named, size |-> SizeRead]
  /\ CallThrough("load_game",
       Entry((IF named THEN {"get_system_info"} ELSE {}) \cup {"load_game"},
             table))
  /\ UNCHANGED <<frontend, system, opens, life>>

ContentRefused ==
  /\ Inside("load_game")
  /\ content' = NoContent
  /\ call' = Idle
  /\ UNCHANGED <<frontend, system, opens, life, fault>>

\* The core has registered, by the time it accepts the content, every callback
\* it uses, and announced its options.  It is asked for its geometry and
\* timing, the audio driver is initialised with them, which tells the audio
\* callback in place that audio is on, and only then is running set.
ContentAccepted ==
  /\ Inside("load_game")
  /\ \A k \in Uses[call.core] : callbacks[k] = call.core
  /\ call.core \in Announces => options = call.core
  /\ life' = [life EXCEPT ![call.core] = "playing"]
  /\ content' = NoContent
  /\ LET asked == Entry({"get_system_av_info"}, table) IN
     \/ /\ asked = None \/ callbacks["audio"] # None
        /\ CallThrough("set_state",
             IF asked = None THEN None ELSE callbacks["audio"])
        /\ UNCHANGED running
     \/ /\ asked # None /\ callbacks["audio"] = None
        /\ running' = TRUE
        /\ call' = Idle
        /\ UNCHANGED fault
  /\ UNCHANGED <<handle, table, initialized, system, opens>>

AudioStateSet ==
  /\ Inside("set_state")
  /\ running' = TRUE
  /\ call' = Idle
  /\ UNCHANGED <<handle, table, initialized, system, content, opens, life,
                 fault>>

-----------------------------------------------------------------------------
(* LMC_UpdateFrame with a running core *)

\* After the frame-time callback: the audio callback if there is one,
\* otherwise retro_run.
CallAudioOrRun ==
  \/ callbacks["audio"] # None /\ CallThrough("audio", callbacks["audio"])
  \/ callbacks["audio"] = None /\ CallThrough("run", Entry({"run"}, table))

\* Mutant: the core branch is taken whether or not a core runs.
AlwaysInCore == TRUE

CoreBranch == running

UpdateFrame ==
  /\ AtApplication
  /\ CoreBranch
  /\ \/ /\ callbacks["frame_time"] # None
        /\ frame_time_last' = table
        /\ CallThrough("frame_time", callbacks["frame_time"])
     \/ /\ callbacks["frame_time"] = None
        /\ CallAudioOrRun
        /\ UNCHANGED frame_time_last
  /\ UNCHANGED <<frontend, callbacks, counters, registered, options, content,
                 opens, life>>

\* Mutant: the frame ends once the core was told the time.
FrameTimeToldOnly ==
  /\ Inside("frame_time")
  /\ call' = Idle
  /\ UNCHANGED <<frontend, system, content, opens, life, fault>>

FrameTimeTold ==
  /\ Inside("frame_time")
  /\ CallAudioOrRun
  /\ UNCHANGED <<frontend, system, content, opens, life>>

AudioEmitted ==
  /\ Inside("audio")
  /\ CallThrough("run", Entry({"run"}, table))
  /\ UNCHANGED <<frontend, system, content, opens, life>>

FrameRun ==
  /\ Inside("run")
  /\ call' = Idle
  /\ UNCHANGED <<frontend, system, content, opens, life, fault>>

-----------------------------------------------------------------------------
(* LMC_CloseCore *)

CloseCore ==
  /\ AtApplication
  /\ initialized
  /\ CallThrough("deinit", Entry({"deinit"}, table))
  /\ UNCHANGED <<frontend, system, content, opens, life>>

\* What closing the handle unmaps: the library whose last reference it was.
Unmapped == {c \in Cores : c = handle /\ opens[c] = 1}

\* What was a pointer into memory that has just been unmapped.
Stale(p) == IF p \in Unmapped THEN Dangling ELSE p

\* Mutant: the handle is closed only if content was running.
ReleasedIfRunning ==
  [c \in Cores |-> IF c = handle /\ running THEN opens[c] - 1 ELSE opens[c]]

\* dylib_close on the handle, if any.
Released == [c \in Cores |-> IF c = handle THEN opens[c] - 1 ELSE opens[c]]

\* Mutants: one member of the structure is forgotten.
ClearCoreKeepsRunning ==
  /\ handle' = None
  /\ table' = None
  /\ initialized' = FALSE
  /\ UNCHANGED running

ClearCoreKeepsTable ==
  /\ handle' = None
  /\ initialized' = FALSE
  /\ running' = FALSE
  /\ UNCHANGED table

\* The memset of *current_core.
ClearCore ==
  /\ handle' = None
  /\ table' = None
  /\ initialized' = FALSE
  /\ running' = FALSE

\* The callbacks, the frame time and the counters are in the SystemManager:
\* they stay, and those that point into the library dangle.  The options are
\* copies in a static variable, and stay as well.
CoreDeinitialized ==
  /\ Inside("deinit")
  /\ opens' = Released
  /\ life' = [c \in Cores |-> IF c \in Unmapped THEN "closed"
                              ELSE IF c = call.core THEN "opened"
                              ELSE life[c]]
  /\ callbacks' = [k \in Kinds |-> Stale(callbacks[k])]
  /\ counters' = [i \in 1 .. Len(counters) |->
                    IF counters[i] = Dangling THEN Dangling
                    ELSE IF CounterOf[counters[i]] \in Unmapped THEN Dangling
                    ELSE counters[i]]
  /\ registered' = {k \in registered : CounterOf[k] \notin Unmapped}
  /\ ClearCore
  /\ call' = Idle
  /\ UNCHANGED <<frame_time_last, options, content, fault>>

-----------------------------------------------------------------------------
(* What a core asks of the frontend while control is inside it *)

\* RETRO_ENVIRONMENT_SET_FRAME_TIME_CALLBACK and _SET_AUDIO_CALLBACK.
SetCallback(k) ==
  /\ call # Idle
  /\ fault = "none"
  /\ k \in Uses[call.core]
  /\ callbacks' = [callbacks EXCEPT ![k] = call.core]
  /\ UNCHANGED <<frontend, frame_time_last, counters, registered, options,
                 content, opens, life, call, fault>>

\* RETRO_ENVIRONMENT_SET_VARIABLES: a copy of the options replaces the one that
\* GET_VARIABLE answers from.
SetVariables ==
  /\ call # Idle
  /\ fault = "none"
  /\ call.core \in Announces
  /\ options' = call.core
  /\ UNCHANGED <<frontend, callbacks, frame_time_last, counters, registered,
                 content, opens, life, call, fault>>

\* Mutant: no look at the flag.
AnyCounter(k) == TRUE

NotRegistered(k) == k \notin registered
RoomForCounter == Len(counters) < MAX_COUNTERS

\* perf_register: a counter is entered once, and only while there is room.
RegisterCounter(k) ==
  /\ call # Idle
  /\ fault = "none"
  /\ CounterOf[k] = call.core
  /\ NotRegistered(k)
  /\ RoomForCounter
  /\ counters' = Append(counters, k)
  /\ registered' = registered \cup {k}
  /\ UNCHANGED <<frontend, callbacks, frame_time_last, options, content, opens,
                 life, call, fault>>

\* perf_log dereferences every entry; only a dangling one changes anything.
LogCounters ==
  /\ call # Idle
  /\ fault = "none"
  /\ \E i \in 1 .. Len(counters) : counters[i] = Dangling
  /\ fault' = "dangling_read"
  /\ UNCHANGED <<frontend, system, content, opens, life, call>>

-----------------------------------------------------------------------------

Next ==
  \/ \E c \in Cores : LoadCore(c)
  \/ LoadCoreFails
  \/ EnvironmentSet
  \/ LoadCoreReturns
  \/ \E named \in BOOLEAN : LoadContent(named)
  \/ ContentRefused
  \/ ContentAccepted
  \/ AudioStateSet
  \/ UpdateFrame
  \/ FrameTimeTold
  \/ AudioEmitted
  \/ FrameRun
  \/ CloseCore
  \/ CoreDeinitialized
  \/ \E k \in Kinds : SetCallback(k)
  \/ SetVariables
  \/ \E k \in Counters : RegisterCounter(k)
  \/ LogCounters

Spec == Init /\ [][Next]_vars

-----------------------------------------------------------------------------
(* Properties *)

\* Every variable has its type (LegacyMachine.c, SystemManager.h, CoreLibrary.h).
TypeOK ==
  /\ handle \in Cores \cup {None}
  /\ table \in Cores \cup {None}
  /\ initialized \in BOOLEAN
  /\ running \in BOOLEAN
  /\ callbacks \in [Kinds -> Pointer]
  /\ frame_time_last \in Cores \cup {None}
  /\ counters \in Seq(Counters \cup {Dangling})
  /\ Len(counters) <= MAX_COUNTERS
  /\ registered \subseteq Counters
  /\ options \in Cores \cup {None}
  /\ content \in [named : BOOLEAN, size : Nat]
  /\ opens \in [Cores -> 0 .. MaxOpens]
  /\ life \in [Cores -> Lives]
  /\ call \in Calls
  /\ fault \in Faults

\* The retro_* table never points into an unmapped library, whatever the
\* application does: loading over a loaded core, or failing to, overwrites the
\* handle that closing would have used (LMC_LoadCore, LMC_CloseCore).
TableMapped == table # None => opens[table] > 0

\* Between two calls of the application the flags agree with the table: a core
\* is initialized exactly when there is a table to call through, and only an
\* initialized core is said to be running (LMC_IsCoreRunning).
FlagsAgree ==
  /\ running => initialized
  /\ AtApplication => (initialized <=> table # None)

\* A counter a core sees as registered has its one entry in the table, and an
\* entry is of a registered counter or dangles: unmapping a library resets the
\* flag and the entry together.  The table is never overrun, although entries
\* that dangle are not given up (RegisterCorePerformanceCounter).
CountersListedOnce ==
  /\ Len(counters) <= MAX_COUNTERS
  /\ registered = {counters[i] : i \in 1 .. Len(counters)} \ {Dangling}
  /\ \A i, j \in 1 .. Len(counters) :
        counters[i] = counters[j] => i = j \/ counters[i] = Dangling

\* An application that closes a core before loading the next leaves no library
\* behind: the only reference the loader counts is the handle's, so that
\* LMC_CloseCore really unmaps (dylib_load, dylib_close).
OnlyHandleOpen == \A c \in Cores : opens[c] = IF c = handle THEN 1 ELSE 0

\* While a core runs, the handle, the table, the core's own state, the
\* registered callbacks and the options all belong to one library: what an
\* earlier core left behind has been replaced by then.
RunningIsOneCore ==
  running =>
    /\ table \in Cores
    /\ handle = table
    /\ life[table] = "playing"
    /\ \A k \in Kinds : callbacks[k] = IF k \in Uses[table] THEN table ELSE None
    /\ options = IF table \in Announces THEN table ELSE None

\* What the core sees of all this: its own life and the calls into it, held to
\* the order of libretro.h without its rule on retro_unload_game.
P == INSTANCE CoreProtocol WITH
       Cores <- Cores, None <- None, life <- life, call <- call,
       UnloadsFirst <- FALSE

\* The core sees its entry points called in the order of libretro.h but for
\* retro_unload_game: environment, init, load_game, then per frame frame-time,
\* audio and run, and deinit last, one library at a time.  The header's order
\* itself does not hold: LMC_CloseCore deinitializes a core without unloading
\* its game (UnloadedBeforeDeinit, below).
FollowsProtocol == P!Spec

\* libretro.h:3884: a loaded game is unloaded before retro_deinit is called.
\* LMC_CloseCore does not do so.
UnloadedBeforeDeinit ==
  call.fn = "deinit" => life[call.core] # "playing"

\* libretro.h:3145-3148: a core that does not ask for the full path is given
\* the size of its content along with the data.
ContentSizeGiven ==
  (call.fn = "load_game" /\ content.named /\ call.core \notin NeedFullpath)
     => content.size = ContentSize

\* libretro.h:680-682: the frame-time callback tells the time since the last
\* retro_run of the same core, or the reference time if there was none.
DeltaSinceOwnFrame ==
  [][UpdateFrame /\ call'.fn = "frame_time" =>
        frame_time_last \in {None, call'.core}]_vars

\* SystemManager.h, LegacyMachine.c:54: the core variables are those of the core;
\* one that sets none is not answered with those of another.
OwnOptions == running => options \in {None, table}

\* LegacyMachine.c:1216: LMC_LoadCore returns true only for a core that loaded.
\* Taken to mean that what it returns true for can be called: no call is
\* through a null pointer.
NoNullCall == fault # "null_call"

\* Nothing in the repository promises it, but a program cannot survive the
\* contrary: no callback a core registered is called once LMC_CloseCore has
\* unmapped its library.  The first such call is that of set_state while the
\* next core's content is accepted (SDL2_AudioDriver.c:60); a frame-time or an
\* audio callback is called in a frame (LegacyMachine.c:1414, 1419).
NoDanglingCall == fault # "dangling_call"

\* Both: every call of the library lands in a core that is loaded.
CallsLand == fault \notin {"null_call", "dangling_call"}

=============================================================================
