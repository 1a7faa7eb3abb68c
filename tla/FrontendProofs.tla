--------------------------- MODULE FrontendProofs ---------------------------
(* Proofs about the programs of source/Examples, for every set of cores and   *)
(* every user: they are applications of the kind CoreSessionProofs is about,  *)
(* one run loads one core at most (OneCore), and a program that was closed    *)
(* leaves nothing of it (Left).                                               *)
EXTENDS Frontend, TLAPS

\* Where main may be, and what of the core session it knows there: until a game
\* was chosen there is no core, and while one is loaded none runs yet.
NoCore ==
  /\ handle = None
  /\ table = None
  /\ core_running = FALSE
  /\ call = C!Idle

Loading ==
  /\ systemState = "GameSelect"
  /\ core_running = FALSE
  /\ call = C!Idle => core_initialized = TRUE

ProgramInv ==
  /\ at \in Places
  /\ systemState # "GameRunning" /\ at \notin {"LoadSoftware", "exited"} => NoCore
  /\ at = "LoadSoftware" => Loading

\* The cores of the example export every entry point.
LEMMA AllExported ==
  ASSUME NEW fns, NEW c
  PROVE  /\ C!Entry(fns, c) = IF c \in Cores THEN c ELSE None
         /\ D!Entry(fns, c) = IF c \in Cores THEN c ELSE None
BY DEF C!Entry, D!Entry

\* The two instances of CoreSession differ in what the application may do: an
\* action of the session the library allows is one of the disciplined session,
\* unless it loads a core or content.
LEMMA SameSession ==
  ASSUME \/ C!EnvironmentSet \/ C!LoadCoreReturns \/ C!ContentRefused
         \/ C!ContentAccepted \/ C!AudioStateSet \/ C!UpdateFrame
         \/ C!FrameTimeTold \/ C!AudioEmitted \/ C!FrameRun \/ C!CloseCore
         \/ C!CoreDeinitialized \/ C!SetVariables
         \/ \E k \in Kinds : C!SetCallback(k)
  PROVE  D!Next
<1>1. CASE C!EnvironmentSet \/ C!LoadCoreReturns
  BY <1>1, AllExported DEF D!Next, C!EnvironmentSet, D!EnvironmentSet, C!LoadCoreReturns,
     D!LoadCoreReturns, C!Inside, D!Inside, C!CallThrough, D!CallThrough, C!In, D!In,
     C!Idle, D!Idle, C!frontend, D!frontend, C!system, D!system
<1>2. CASE C!ContentRefused \/ C!ContentAccepted \/ C!AudioStateSet
  BY <1>2, AllExported DEF D!Next, C!ContentRefused, D!ContentRefused, C!ContentAccepted,
     D!ContentAccepted, C!AudioStateSet, D!AudioStateSet, C!NoContent, D!NoContent,
     C!Inside, D!Inside, C!CallThrough, D!CallThrough, C!In, D!In,
     C!Idle, D!Idle, C!frontend, D!frontend, C!system, D!system
<1>3. CASE C!UpdateFrame \/ C!FrameTimeTold \/ C!AudioEmitted \/ C!FrameRun
  BY <1>3, AllExported DEF D!Next, C!UpdateFrame, D!UpdateFrame, C!FrameTimeTold, D!FrameTimeTold,
     C!AudioEmitted, D!AudioEmitted, C!FrameRun, D!FrameRun, C!CoreBranch, D!CoreBranch,
     C!CallAudioOrRun, D!CallAudioOrRun, C!AtApplication, D!AtApplication,
     C!Inside, D!Inside, C!CallThrough, D!CallThrough, C!In, D!In,
     C!Idle, D!Idle, C!frontend, D!frontend, C!system, D!system
<1>4. CASE C!CloseCore \/ C!CoreDeinitialized
  BY <1>4, AllExported DEF D!Next, C!CloseCore, D!CloseCore, C!CoreDeinitialized, D!CoreDeinitialized,
     C!Released, D!Released, C!Unmapped, D!Unmapped, C!Stale, D!Stale, C!ClearCore,
     D!ClearCore, C!AtApplication, D!AtApplication,
     C!Inside, D!Inside, C!CallThrough, D!CallThrough, C!In, D!In,
     C!Idle, D!Idle, C!frontend, D!frontend, C!system, D!system
<1>5. CASE C!SetVariables \/ \E k \in Kinds : C!SetCallback(k)
  BY <1>5 DEF D!Next, C!SetVariables, D!SetVariables, C!SetCallback, D!SetCallback,
     C!Idle, D!Idle, C!frontend, D!frontend
<1> QED BY <1>1, <1>2, <1>3, <1>4, <1>5

\* The program loads a core only while there is none.
LEMMA LoadsFirstCore ==
  ASSUME ProgramInv, Choose
  PROVE  D!Next
<1>1. NoCore
  BY DEF ProgramInv, Choose
<1>2. (\E c \in Cores : C!LoadCore(c)) \/ C!LoadCoreFails
  BY DEF Choose
<1>3. D!MayLoad
  BY <1>1 DEF D!MayLoad, NoCore
<1>4. ASSUME NEW c \in Cores, C!LoadCore(c) PROVE D!LoadCore(c)
  BY <1>3, <1>4, AllExported DEF C!LoadCore, D!LoadCore, C!AtApplication, D!AtApplication,
     C!CallThrough, D!CallThrough, C!In, D!In, C!Idle, D!Idle, C!system, D!system
<1>5. ASSUME C!LoadCoreFails PROVE D!LoadCoreFails
  BY <1>3, <1>5 DEF C!LoadCoreFails, D!LoadCoreFails, C!AtApplication,
     D!AtApplication, C!Idle, D!Idle, C!system, D!system
<1> QED BY <1>2, <1>4, <1>5 DEF D!Next

\* The program gives content only to a core that is initialised and has none.
LEMMA LoadsContentOnce ==
  ASSUME ProgramInv, at = "LoadSoftware", C!LoadContent(TRUE)
  PROVE  D!Next
<1>1. Loading
  BY DEF ProgramInv
<1>2. call = C!Idle
  BY DEF C!LoadContent, C!AtApplication
<1>3. D!MayLoadContent
  BY <1>1, <1>2 DEF D!MayLoadContent, Loading
<1>4. D!LoadContent(TRUE)
  BY <1>3, AllExported DEF C!LoadContent, D!LoadContent, C!AtApplication, D!AtApplication,
     C!SizeRead, D!SizeRead, C!CallThrough, D!CallThrough, C!In, D!In,
     C!Idle, D!Idle, C!frontend, D!frontend, C!system, D!system
<1> QED BY <1>4 DEF D!Next

\* Every step of the program is one of the disciplined session, or none.
LEMMA StepSimulation ==
  ASSUME ProgramInv, [Next]_vars
  PROVE  [D!Next]_(D!vars)
<1>1. UNCHANGED session => UNCHANGED D!vars
  BY DEF session, D!vars, D!frontend, D!system
<1>2. CASE User
  BY <1>1, <1>2 DEF User
<1>3. CASE CoreAsks
  BY <1>3, SameSession DEF CoreAsks
<1>4. CASE Exited \/ UNCHANGED vars
  BY <1>1, <1>4 DEF Exited, vars
<1>5. CASE Refused \/ Initialize \/ Start \/ ProcessWindow \/ HandleEvent
           \/ WindowProcessed \/ Boot \/ NothingChosen \/ MenuFrame \/ End
  BY <1>1, <1>5 DEF Refused, Initialize, Start, ProcessWindow, HandleEvent,
     WindowProcessed, Boot, NothingChosen, MenuFrame, End
<1>6. CASE CloseCore \/ WindowDeleted
  BY <1>6, SameSession DEF CloseCore, WindowDeleted
<1>7. CASE Choose
  BY <1>7, LoadsFirstCore
<1>8. CASE LoadCore \/ ContentRefused \/ ContentAccepted \/ AudioStateSet
  BY <1>8, SameSession DEF LoadCore, ContentRefused, ContentAccepted, AudioStateSet
<1>9. CASE LoadContent
  BY <1>1, <1>9, LoadsContentOnce DEF LoadContent
<1>10. CASE CoreFrame \/ FrameRun
  BY <1>10, SameSession DEF CoreFrame, FrameRun
<1> QED BY <1>2, <1>3, <1>4, <1>5, <1>6, <1>7, <1>8, <1>9, <1>10 DEF Next, Program

-----------------------------------------------------------------------------

\* The invariant holds before main has done anything.
LEMMA InitialProgram == Init => ProgramInv
  BY DEF Init, ProgramInv, Places, NoCore, C!Init

\* Leaving a place keeps the invariant if the core session stays as it is.
LEMMA ProgramMoves ==
  ASSUME ProgramInv, UNCHANGED session, at' \in Places, at' # "LoadSoftware",
         at \notin {"LoadSoftware", "exited"}, systemState' # "GameRunning" => systemState # "GameRunning"
  PROVE  ProgramInv'
  BY DEF ProgramInv, NoCore, session, C!Idle

\* Every step keeps the invariant.
LEMMA ProgramStep == ProgramInv /\ [Next]_vars => ProgramInv'
<1> SUFFICES ASSUME ProgramInv, [Next]_vars PROVE ProgramInv'
  OBVIOUS
<1>1. CASE User \/ Exited \/ UNCHANGED vars
  BY <1>1 DEF User, Exited, vars, program, session, ProgramInv, NoCore, Loading, C!Idle
<1>2. CASE CoreAsks
  BY <1>2 DEF CoreAsks, C!SetCallback, C!SetVariables, C!frontend, program,
     ProgramInv, NoCore, Loading, C!Idle
<1>3. CASE Refused \/ Initialize \/ Start \/ ProcessWindow \/ HandleEvent \/ WindowProcessed
  BY <1>3, ProgramMoves DEF Refused, Initialize, Start, ProcessWindow, HandleEvent,
     WindowProcessed, Goto, ErrorQuit, program, AfterProcessing, Places
<1>4. CASE Boot \/ NothingChosen \/ MenuFrame \/ End
  BY <1>4, ProgramMoves DEF Boot, NothingChosen, MenuFrame, End, Goto, ErrorQuit, Places
<1>5. CASE CloseCore
  <2>1. core_running /\ at' = "DeleteWindow" /\ systemState' = systemState
    BY <1>5 DEF CloseCore, ClosesCore, Goto
  <2>2. systemState = "GameRunning"
    BY <1>5, <2>1 DEF CloseCore, ProgramInv, NoCore
  <2> QED BY <2>1, <2>2 DEF ProgramInv, Places
<1>6. CASE WindowDeleted
  <2>1. NoCore'
    BY <1>6 DEF WindowDeleted, C!CoreDeinitialized, C!ClearCore, NoCore, C!Idle
  <2>2. at' \in {"Update", "End"}
    BY <1>6 DEF WindowDeleted, Goto, AfterProcessing
  <2> QED BY <2>1, <2>2 DEF ProgramInv, Places
<1>7. CASE Choose
  <2>1. CASE C!LoadCoreFails /\ ErrorQuit
    BY <2>1 DEF ErrorQuit, ProgramInv, Places
  <2>2. CASE \E c \in Cores : C!LoadCore(c) /\ Goto("LoadSoftware")
    <3>1. NoCore /\ systemState = "GameSelect"
      BY <1>7 DEF Choose, ProgramInv
    <3>2. call' # C!Idle
      BY <2>2, AllExported DEF C!LoadCore, C!CallThrough, C!In, C!Idle
    <3>3. core_running' = FALSE /\ systemState' = "GameSelect" /\ at' = "LoadSoftware"
      BY <2>2, <3>1 DEF C!LoadCore, Goto, NoCore
    <3> QED BY <3>2, <3>3 DEF ProgramInv, Places, Loading, C!Idle
  <2> QED BY <1>7, <2>1, <2>2 DEF Choose
<1>8. CASE LoadCore
  <2>1. at' = "LoadSoftware" /\ systemState' = "GameSelect" /\ core_running' = FALSE
    BY <1>8 DEF LoadCore, program, C!EnvironmentSet, C!LoadCoreReturns, C!frontend,
       ProgramInv, Loading
  <2>2. CASE C!EnvironmentSet
    <3>1. call' # C!Idle
      BY <2>2 DEF C!EnvironmentSet, C!Inside, C!CallThrough, C!In, C!Idle
    <3> QED BY <2>1, <3>1 DEF ProgramInv, Places, Loading, C!Idle
  <2>3. CASE C!LoadCoreReturns
    BY <2>1, <2>3 DEF C!LoadCoreReturns, ProgramInv, Places, Loading
  <2> QED BY <1>8, <2>2, <2>3 DEF LoadCore
<1>9. CASE LoadContent
  <2>1. CASE ErrorQuit
    BY <2>1 DEF ErrorQuit, ProgramInv, Places
  <2>2. CASE C!LoadContent(TRUE) /\ UNCHANGED program
    BY <1>9, <2>2 DEF LoadContent, C!LoadContent, C!frontend, program, ProgramInv,
       Places, Loading, C!AtApplication, C!CallThrough, C!In, C!Idle
  <2> QED BY <1>9, <2>1, <2>2 DEF LoadContent
<1>10. CASE ContentRefused
  BY <1>10 DEF ContentRefused, ErrorQuit, ProgramInv, Places
<1>11. CASE ContentAccepted \/ AudioStateSet
  <2>1. GameLoaded /\ at = "LoadSoftware" /\ Loading
    BY <1>11 DEF ContentAccepted, AudioStateSet, ProgramInv
  <2>2. CASE core_running'
    BY <2>1, <2>2 DEF GameLoaded, StateAfterMenu, ProgramInv, Places
  <2>3. CASE ~core_running'
    <3>1. C!ContentAccepted /\ call' # C!Idle /\ core_running' = core_running
      BY <1>11, <2>3 DEF ContentAccepted, C!ContentAccepted, AudioStateSet, C!AudioStateSet,
         C!Inside, C!CallThrough, C!In, C!Idle
    <3> QED BY <2>1, <2>3, <3>1 DEF GameLoaded, program, ProgramInv, Places, Loading, C!Idle
  <2> QED BY <2>2, <2>3
<1>12. CASE CoreFrame
  <2>1. at = "UpdateFrame" /\ UNCHANGED program
    BY <1>12 DEF CoreFrame
  <2>2. ~NoCore
    BY <1>12 DEF CoreFrame, C!UpdateFrame, C!CoreBranch, C!FrameTimeTold, C!AudioEmitted,
       C!Inside, NoCore, C!Idle
  <2> QED BY <2>1, <2>2 DEF program, ProgramInv
<1>13. CASE FrameRun
  <2>1. at = "UpdateFrame" /\ at' = "ProcessWindow" /\ systemState' = systemState
    BY <1>13 DEF FrameRun, Goto
  <2>2. ~NoCore
    BY <1>13 DEF FrameRun, C!FrameRun, C!Inside, NoCore, C!Idle
  <2> QED BY <2>1, <2>2 DEF ProgramInv, Places
<1> QED BY <1>1, <1>2, <1>3, <1>4, <1>5, <1>6, <1>7, <1>8, <1>9, <1>10, <1>11, <1>12,
           <1>13 DEF Next, Program

\* Until a game was chosen there is no core, and a core that is being loaded is
\* the first.
THEOREM ProgramKnowsCore == Spec => []ProgramInv
  BY InitialProgram, ProgramStep, PTL DEF Spec

\* The programs of source/Examples close a core before they load the next, so
\* that the session they drive is the one CoreSessionProofs is about
\* (VirtualMachine::LoadSoftware, IMachine::Update).
THEOREM ExamplesAreDisciplined == Spec => DisciplinedApplication
<1>1. Init => D!Init
  BY DEF Init, C!Init, D!Init, C!NoContent, D!NoContent, C!Idle, D!Idle
<1>2. ProgramInv /\ [Next]_vars => [D!Next]_(D!vars)
  BY StepSimulation
<1> QED BY <1>1, <1>2, ProgramKnowsCore, PTL DEF Spec, DisciplinedApplication, D!Spec

-----------------------------------------------------------------------------
(* One core for the life of the program *)

\* No library is open, and none was left with a call under way.
NothingLoaded ==
  /\ handle = None /\ table = None
  /\ core_initialized = FALSE /\ core_running = FALSE
  /\ opens = [c \in Cores |-> 0]
  /\ life = [c \in Cores |-> "closed"]
  /\ call = C!Idle
  /\ fault = "none"

\* As it is when the process starts.
Unused ==
  /\ NothingLoaded
  /\ callbacks = [k \in Kinds |-> None]
  /\ options = None

\* What the core has been taken through, told by where control is.
Stage ==
  IF call.fn = "set_environment" THEN "opened"
  ELSE IF core_running \/ call.fn = "set_state" THEN "playing"
  ELSE "inited"

\* One library is open, the only one that was ever opened: whatever is not null
\* is its own.
Single ==
  /\ table \in Cores /\ handle = table
  /\ core_initialized \in BOOLEAN /\ core_running \in BOOLEAN
  /\ opens = [c \in Cores |-> IF c = table THEN 1 ELSE 0]
  /\ life = [c \in Cores |-> IF c = table THEN Stage ELSE "closed"]
  /\ call = C!Idle \/ \E fn \in C!Functions : call = C!In(fn, table)
  /\ fault = "none"
  /\ callbacks \in [Kinds -> {None, table}]
  /\ \A k \in Kinds \ Uses[table] : callbacks[k] = None
  /\ options \in {None, table} /\ (table \notin Announces => options = None)

\* What may run when.
InOrder ==
  /\ call.fn \in {"set_environment", "init"} => ~core_running
  /\ call.fn \in {"load_game", "set_state"} => core_initialized /\ ~core_running
  /\ call.fn \in {"frame_time", "audio", "run", "deinit"} => core_running
  /\ core_running \/ call.fn \in {"none", "deinit"} => core_initialized

\* A core that plays has registered all it uses.
Equipped ==
  core_running \/ call.fn = "set_state" =>
    /\ \A k \in Uses[table] : callbacks[k] = table
    /\ table \in Announces => options = table

OneCore ==
  \/ NothingLoaded /\ (Unused \/ at \in {"End", "exited"})
  \/ Single /\ InOrder /\ Equipped

\* Where main is, how many windows there are and whether a game runs.
Underway ==
  /\ at \in {"main", "Start"} => systemState = "Startup"
  /\ at \in {"Start", "ProcessWindow", "DeleteWindow", "Update", "LoadSoftware",
             "UpdateFrame"} => instances = 1
  /\ at \in {"ProcessWindow", "Update", "UpdateFrame"} /\ systemState = "GameRunning"
       => core_running
  /\ at = "DeleteWindow" => ~window_running

\* What is left once the window was closed.
Left ==
  at = "End" \/ (at = "exited" /\ exit # "EXIT_FAILURE" /\ ~failed) =>
    NothingLoaded /\ ~window /\ ~sdl /\ instances = 0

WholeInv == OneCore /\ Underway /\ Left

(* The steps of the session *)

\* The library goes on being the only one, whatever is called in it next.
LEMMA SingleStays ==
  ASSUME Single,
         UNCHANGED <<handle, table, opens, callbacks, options, fault>>,
         call' = C!Idle \/ \E fn \in C!Functions : call' = C!In(fn, table),
         core_initialized' \in BOOLEAN, core_running' \in BOOLEAN,
         \/ life' = [life EXCEPT ![table] = Stage']
         \/ UNCHANGED <<life, Stage>>
  PROVE  Single'
<1>1. life' = [c \in Cores |-> IF c = table THEN Stage' ELSE "closed"]
  BY DEF Single
<1> HIDE DEF Stage
<1> QED BY <1>1 DEF Single

\* A call through a pointer into a library that is open lands there.
LEMMA CallLands ==
  ASSUME NEW fn, NEW p \in Cores, C!CallThrough(fn, p)
  PROVE  call' = C!In(fn, p) /\ UNCHANGED fault
BY DEF C!CallThrough

\* Loading into an unused session makes it a single one.
LEMMA FirstCore ==
  ASSUME Unused, NEW c \in Cores, C!LoadCore(c)
  PROVE  (Single /\ InOrder /\ Equipped)'
<1>1. call' = C!In("set_environment", c) /\ UNCHANGED fault
  BY CallLands, AllExported DEF C!LoadCore
<1>2. /\ handle' = c /\ table' = c
      /\ UNCHANGED <<core_initialized, core_running, callbacks, options>>
      /\ opens' = [opens EXCEPT ![c] = @ + 1]
      /\ life' = [life EXCEPT ![c] = "opened"]
  BY DEF C!LoadCore, C!system, Unused, NothingLoaded
<1>3. call'.fn = "set_environment"
  BY <1>1 DEF C!In
<1>4. "set_environment" \in C!Functions
  BY DEF C!Functions
<1>5. opens' = [d \in Cores |-> IF d = c THEN 1 ELSE 0]
  BY <1>2 DEF Unused, NothingLoaded
<1>6. life' = [d \in Cores |-> IF d = c THEN Stage' ELSE "closed"]
  BY <1>2, <1>3 DEF Unused, NothingLoaded, Stage
<1>7. Single'
  BY <1>1, <1>2, <1>4, <1>5, <1>6, SessionAssumption DEF Unused, NothingLoaded, Single
<1>8. (InOrder /\ Equipped)'
  BY <1>2, <1>3 DEF InOrder, Equipped, Unused, NothingLoaded
<1> QED BY <1>7, <1>8

\* LMC_LoadCore goes on to retro_init and returns.
LEMMA LoadingStays ==
  ASSUME Single, InOrder, Equipped, C!EnvironmentSet \/ C!LoadCoreReturns
  PROVE  (Single /\ InOrder /\ Equipped)'
<1> USE DEF C!frontend, C!system, C!Inside
<1>1. CASE C!EnvironmentSet
  <2>1. call' = C!In("init", table) /\ UNCHANGED fault
    BY <1>1, CallLands, AllExported DEF C!EnvironmentSet, Single
  <2>2. call'.fn = "init" /\ "init" \in C!Functions
    BY <2>1 DEF C!In, C!Functions
  <2>3. /\ UNCHANGED <<handle, table, core_initialized, core_running, opens, callbacks,
                       options>>
        /\ life' = [life EXCEPT ![table] = "inited"]
        /\ call.fn = "set_environment"
    BY <1>1 DEF C!EnvironmentSet
  <2>4. ~core_running
    BY <2>3 DEF InOrder
  <2>5. Stage' = "inited"
    BY <2>2, <2>3, <2>4 DEF Stage
  <2>6. Single'
    BY <2>1, <2>2, <2>3, <2>5, SingleStays DEF Single
  <2> QED BY <2>2, <2>3, <2>4, <2>6 DEF InOrder, Equipped
<1>2. CASE C!LoadCoreReturns
  <2>1. /\ UNCHANGED <<handle, table, core_running, opens, callbacks, options, life, fault>>
        /\ core_initialized' = TRUE /\ call' = C!Idle /\ call.fn = "init"
    BY <1>2 DEF C!LoadCoreReturns
  <2>2. call'.fn = "none" /\ ~core_running
    BY <2>1 DEF C!Idle, InOrder
  <2>3. Stage' = Stage
    BY <2>1, <2>2 DEF Stage
  <2>4. Single'
    BY <2>1, <2>3, SingleStays DEF Single
  <2> QED BY <2>1, <2>2, <2>4 DEF InOrder, Equipped
<1> QED BY <1>1, <1>2

\* LMC_LoadContent: once the core accepts, it has registered what it uses.
LEMMA ContentStays ==
  ASSUME Single, InOrder, Equipped,
         \/ core_initialized /\ ~core_running /\ C!LoadContent(TRUE)
         \/ C!ContentRefused \/ C!ContentAccepted \/ C!AudioStateSet
  PROVE  (Single /\ InOrder /\ Equipped)'
<1> USE DEF C!frontend, C!system, C!Inside
<1>1. CASE core_initialized /\ ~core_running /\ C!LoadContent(TRUE)
  <2>1. call' = C!In("load_game", table) /\ UNCHANGED fault
    BY <1>1, CallLands, AllExported DEF C!LoadContent, Single
  <2>2. call'.fn = "load_game" /\ "load_game" \in C!Functions
    BY <2>1 DEF C!In, C!Functions
  <2>3. /\ UNCHANGED <<handle, table, core_initialized, core_running, opens, callbacks,
                       options, life>>
        /\ call.fn = "none"
    BY <1>1 DEF C!LoadContent, C!AtApplication, C!Idle
  <2>4. Stage' = Stage
    BY <1>1, <2>2, <2>3 DEF Stage
  <2>5. Single'
    BY <2>1, <2>2, <2>3, <2>4, SingleStays DEF Single
  <2> QED BY <1>1, <2>2, <2>3, <2>5 DEF InOrder, Equipped
<1>2. CASE C!ContentRefused
  <2>1. /\ UNCHANGED <<handle, table, core_initialized, core_running, opens, callbacks,
                       options, life, fault>>
        /\ call' = C!Idle /\ call.fn = "load_game"
    BY <1>2 DEF C!ContentRefused
  <2>2. call'.fn = "none" /\ core_initialized /\ ~core_running
    BY <2>1 DEF C!Idle, InOrder
  <2>3. Stage' = Stage
    BY <2>1, <2>2 DEF Stage
  <2>4. Single'
    BY <2>1, <2>3, SingleStays DEF Single
  <2> QED BY <2>1, <2>2, <2>4 DEF InOrder, Equipped
<1>3. CASE C!ContentAccepted
  <2>1. call.fn = "load_game" /\ core_initialized /\ ~core_running
    BY <1>3 DEF C!ContentAccepted, InOrder
  <2>2. call.core = table
    BY <2>1 DEF Single, C!In, C!Idle
  <2>3. /\ \A k \in Uses[table] : callbacks[k] = table
        /\ table \in Announces => options = table
    BY <1>3, <2>2 DEF C!ContentAccepted
  <2>4. callbacks["audio"] \in {None, table}
    BY SessionAssumption DEF Single
  <2>5. \/ call' = C!In("set_state", table) /\ UNCHANGED <<fault, core_running>>
        \/ call' = C!Idle /\ core_running' = TRUE /\ UNCHANGED fault
    BY <1>3, <2>4, CallLands, AllExported DEF C!ContentAccepted, Single
  <2>6. /\ UNCHANGED <<handle, table, core_initialized, opens, callbacks, options>>
        /\ life' = [life EXCEPT ![table] = "playing"]
    BY <1>3, <2>2 DEF C!ContentAccepted
  <2>7. /\ "set_state" \in C!Functions
        /\ \/ call'.fn = "set_state" /\ ~core_running'
           \/ call'.fn = "none" /\ core_running'
    <3>1. C!In("set_state", table).fn = "set_state" /\ C!Idle.fn = "none"
      BY DEF C!In, C!Idle
    <3>2. "set_state" \in C!Functions
      BY DEF C!Functions
    <3>3. CASE call' = C!In("set_state", table) /\ UNCHANGED core_running
      BY <2>1, <3>1, <3>2, <3>3
    <3>4. CASE call' = C!Idle /\ core_running' = TRUE
      BY <3>1, <3>2, <3>4
    <3> QED BY <2>5, <3>3, <3>4
  <2>8. Stage' = "playing"
    BY <2>7 DEF Stage
  <2>9. core_running' \in BOOLEAN
    BY <2>5 DEF Single
  <2>10. Single'
    BY <2>5, <2>6, <2>7, <2>8, <2>9, SingleStays DEF Single
  <2> QED BY <2>1, <2>3, <2>6, <2>7, <2>10 DEF InOrder, Equipped
<1>4. CASE C!AudioStateSet
  <2>1. /\ UNCHANGED <<handle, table, core_initialized, opens, callbacks, options, life,
                       fault>>
        /\ core_running' = TRUE /\ call' = C!Idle /\ call.fn = "set_state"
    BY <1>4 DEF C!AudioStateSet
  <2>2. call'.fn = "none" /\ core_initialized
    BY <2>1 DEF C!Idle, InOrder
  <2>3. Stage' = Stage
    BY <2>1, <2>2 DEF Stage
  <2>4. Single'
    BY <2>1, <2>3, SingleStays DEF Single
  <2> QED BY <2>1, <2>2, <2>4 DEF InOrder, Equipped
<1> QED BY <1>1, <1>2, <1>3, <1>4

\* A frame of the core: every callback it goes through is its own.
LEMMA FrameStays ==
  ASSUME Single, InOrder, Equipped,
         C!UpdateFrame \/ C!FrameTimeTold \/ C!AudioEmitted \/ C!FrameRun
  PROVE  /\ (Single /\ InOrder /\ Equipped)'
         /\ core_running /\ core_running'
<1> USE DEF C!frontend, C!system, C!Inside
<1>1. /\ core_running /\ core_initialized /\ call.fn # "set_environment"
      /\ UNCHANGED <<handle, table, core_initialized, core_running, opens, callbacks,
                     options, life>>
  BY DEF C!UpdateFrame, C!CoreBranch, C!FrameTimeTold, C!AudioEmitted, C!FrameRun, InOrder,
         C!AtApplication, C!Idle
<1>2. callbacks["audio"] \in {None, table} /\ callbacks["frame_time"] \in {None, table}
  BY SessionAssumption DEF Single
<1>3. /\ C!In("audio", table).fn = "audio" /\ C!In("run", table).fn = "run"
      /\ C!In("frame_time", table).fn = "frame_time" /\ C!Idle.fn = "none"
      /\ {"frame_time", "audio", "run"} \subseteq C!Functions
  BY DEF C!In, C!Idle, C!Functions
<1>4. ASSUME C!CallAudioOrRun
      PROVE  call' \in {C!In("audio", table), C!In("run", table)} /\ UNCHANGED fault
  BY <1>2, <1>4, CallLands, AllExported DEF C!CallAudioOrRun, Single
<1>5. /\ UNCHANGED fault
      /\ call' \in {C!In("frame_time", table), C!In("audio", table), C!In("run", table),
                    C!Idle}
  <2>1. CASE C!UpdateFrame
    BY <1>2, <1>4, <2>1, CallLands DEF C!UpdateFrame, Single
  <2>2. CASE C!FrameTimeTold
    BY <1>4, <2>2 DEF C!FrameTimeTold
  <2>3. CASE C!AudioEmitted
    BY <2>3, CallLands, AllExported DEF C!AudioEmitted, Single
  <2>4. CASE C!FrameRun
    BY <2>4 DEF C!FrameRun
  <2> QED BY <2>1, <2>2, <2>3, <2>4
<1>6. call'.fn \in {"frame_time", "audio", "run", "none"}
  BY <1>3, <1>5
<1>7. Stage' = Stage
  BY <1>1, <1>6 DEF Stage
<1>8. Single'
  BY <1>1, <1>3, <1>5, <1>7, SingleStays DEF Single
<1> QED BY <1>1, <1>6, <1>8 DEF InOrder, Equipped

\* LMC_CloseCore of a running core, up to retro_deinit.
LEMMA CloseStays ==
  ASSUME Single, InOrder, Equipped, core_running, C!CloseCore
  PROVE  (Single /\ InOrder /\ Equipped)'
<1> USE DEF C!frontend, C!system
<1>1. call' = C!In("deinit", table) /\ UNCHANGED fault
  BY CallLands, AllExported DEF C!CloseCore, Single
<1>2. call'.fn = "deinit" /\ "deinit" \in C!Functions
  BY <1>1 DEF C!In, C!Functions
<1>3. /\ UNCHANGED <<handle, table, core_initialized, core_running, opens, callbacks,
                     options, life>>
      /\ call.fn = "none"
  BY DEF C!CloseCore, C!AtApplication, C!Idle
<1>4. Stage' = Stage
  BY <1>2, <1>3 DEF Stage
<1>5. Single'
  BY <1>1, <1>2, <1>3, <1>4, SingleStays DEF Single
<1> QED BY <1>2, <1>3, <1>5 DEF InOrder, Equipped

\* The rest of LMC_CloseCore unmaps the only library.
LEMMA CloseUnloads ==
  ASSUME Single, C!CoreDeinitialized
  PROVE  NothingLoaded'
<1>1. C!Unmapped = {table}
  BY DEF C!Unmapped, Single
<1>2. call.core = table
  BY DEF C!CoreDeinitialized, C!Inside, Single, C!In, C!Idle
<1>3. life' = [c \in Cores |-> "closed"]
  BY <1>1, <1>2 DEF C!CoreDeinitialized, Single
<1>4. opens' = [c \in Cores |-> 0]
  BY DEF C!CoreDeinitialized, C!Released, Single
<1> QED BY <1>3, <1>4 DEF C!CoreDeinitialized, C!ClearCore, NothingLoaded, Single

\* What the core asks for is its own.
LEMMA AskingStays ==
  ASSUME Single, InOrder, Equipped, C!SetVariables \/ \E k \in Kinds : C!SetCallback(k)
  PROVE  (Single /\ InOrder /\ Equipped)'
<1>1. /\ UNCHANGED <<handle, table, core_initialized, core_running, opens, life, call, fault>>
      /\ call.core = table
  BY DEF C!SetVariables, C!SetCallback, C!frontend, Single, C!In
<1>2. CASE C!SetVariables
  <2>1. options' = table /\ table \in Announces /\ UNCHANGED callbacks
    BY <1>1, <1>2 DEF C!SetVariables
  <2> QED BY <1>1, <2>1 DEF Single, InOrder, Equipped, Stage
<1>3. ASSUME NEW k \in Kinds, C!SetCallback(k) PROVE (Single /\ InOrder /\ Equipped)'
  <2>1. /\ callbacks' = [callbacks EXCEPT ![k] = table]
        /\ k \in Uses[table] /\ UNCHANGED options
    BY <1>1, <1>3 DEF C!SetCallback
  <2>2. /\ callbacks' \in [Kinds -> {None, table}]
        /\ \A j \in Kinds \ Uses[table] : callbacks'[j] = None
    BY <2>1 DEF Single
  <2>3. Single'
    BY <1>1, <2>1, <2>2 DEF Single, Stage
  <2>4. ASSUME \A j \in Uses[table] : callbacks[j] = table
        PROVE  \A j \in Uses[table] : callbacks'[j] = table
    BY <2>1, <2>4, SessionAssumption DEF Single
  <2> QED BY <1>1, <2>1, <2>3, <2>4 DEF InOrder, Equipped
<1> QED BY <1>2, <1>3

-----------------------------------------------------------------------------
(* The steps of the program *)

\* Where no core is known to main none is loaded, and elsewhere there is one.
LEMMA KnownCore ==
  ASSUME ProgramInv, OneCore
  PROVE  /\ NoCore /\ at \notin {"End", "exited"} => Unused
         /\ ~NoCore => Single /\ InOrder /\ Equipped
BY SessionAssumption DEF OneCore, NoCore, NothingLoaded, Single

\* A step that leaves the session alone keeps what is known of it.
LEMMA SessionRests ==
  ASSUME OneCore, UNCHANGED session, at \in {"End", "exited"} => at' \in {"End", "exited"}
  PROVE  OneCore'
BY DEF OneCore, session, NothingLoaded, Unused, Single, InOrder, Equipped, Stage, C!Idle, C!In

LEMMA OneCoreStep == ProgramInv /\ Underway /\ OneCore /\ [Next]_vars => OneCore'
<1> SUFFICES ASSUME ProgramInv, Underway, OneCore, [Next]_vars PROVE OneCore'
  OBVIOUS
<1>1. CASE User \/ Exited \/ UNCHANGED vars
  BY <1>1, SessionRests DEF User, Exited, vars, program
<1>2. CASE Refused \/ Initialize \/ Start \/ ProcessWindow \/ HandleEvent \/ WindowProcessed
  BY <1>2, SessionRests DEF Refused, Initialize, Start, ProcessWindow, HandleEvent,
     WindowProcessed, program
<1>3. CASE Boot \/ NothingChosen \/ MenuFrame \/ End
  BY <1>3, SessionRests DEF Boot, NothingChosen, MenuFrame, End
<1>4. CASE CoreAsks
  <2>1. ~NoCore
    BY <1>4 DEF CoreAsks, C!SetCallback, C!SetVariables, NoCore
  <2> QED BY <1>4, <2>1, KnownCore, AskingStays DEF CoreAsks, OneCore
<1>5. CASE CloseCore
  <2>1. core_running /\ ~NoCore /\ C!CloseCore
    BY <1>5 DEF CloseCore, ClosesCore, NoCore
  <2> QED BY <2>1, KnownCore, CloseStays DEF OneCore
<1>6. CASE WindowDeleted
  <2>1. C!CoreDeinitialized /\ ~NoCore
    BY <1>6 DEF WindowDeleted, C!CoreDeinitialized, C!Inside, NoCore, C!Idle
  <2>2. NothingLoaded'
    BY <2>1, KnownCore, CloseUnloads
  <2>3. at' = "End"
    BY <1>6 DEF WindowDeleted, Underway, W!Return, Goto, AfterProcessing
  <2> QED BY <2>2, <2>3 DEF OneCore
<1>7. CASE Choose
  <2>1. Unused
    BY <1>7, KnownCore DEF Choose, ProgramInv
  <2>2. CASE C!LoadCoreFails
    BY <2>1, <2>2 DEF C!LoadCoreFails, C!system, OneCore, Unused, NothingLoaded, C!Idle
  <2>3. ASSUME NEW c \in Cores, C!LoadCore(c) PROVE OneCore'
    BY <2>1, <2>3, FirstCore DEF OneCore
  <2> QED BY <1>7, <2>2, <2>3 DEF Choose
<1>8. CASE LoadCore
  <2>1. ~NoCore
    BY <1>8 DEF LoadCore, C!EnvironmentSet, C!LoadCoreReturns, C!Inside, NoCore, C!Idle
  <2> QED BY <1>8, <2>1, KnownCore, LoadingStays DEF LoadCore, OneCore
<1>9. CASE LoadContent
  <2>1. CASE C!LoadContent(TRUE)
    <3>1. core_initialized /\ ~core_running
      BY <1>9, <2>1 DEF LoadContent, C!LoadContent, C!AtApplication, ProgramInv, Loading
    <3>2. Single /\ InOrder /\ Equipped
      BY <3>1 DEF OneCore, NothingLoaded
    <3> QED BY <2>1, <3>1, <3>2, ContentStays DEF OneCore
  <2>2. CASE UNCHANGED session /\ ErrorQuit
    BY <2>2, SessionRests DEF ErrorQuit
  <2> QED BY <1>9, <2>1, <2>2 DEF LoadContent
<1>10. CASE ContentRefused \/ ContentAccepted \/ AudioStateSet
  <2>1. C!ContentRefused \/ C!ContentAccepted \/ C!AudioStateSet
    BY <1>10 DEF ContentRefused, ContentAccepted, AudioStateSet
  <2>2. ~NoCore
    BY <2>1 DEF C!ContentRefused, C!ContentAccepted, C!AudioStateSet, C!Inside, NoCore,
       C!Idle
  <2> QED BY <2>1, <2>2, KnownCore, ContentStays DEF OneCore
<1>11. CASE CoreFrame \/ FrameRun
  <2>1. C!UpdateFrame \/ C!FrameTimeTold \/ C!AudioEmitted \/ C!FrameRun
    BY <1>11 DEF CoreFrame, FrameRun
  <2>2. ~NoCore
    BY <2>1 DEF C!UpdateFrame, C!CoreBranch, C!FrameTimeTold, C!AudioEmitted, C!FrameRun,
       C!Inside, NoCore, C!Idle
  <2> QED BY <2>1, <2>2, KnownCore, FrameStays DEF OneCore
<1> QED BY <1>1, <1>2, <1>3, <1>4, <1>5, <1>6, <1>7, <1>8, <1>9, <1>10, <1>11
        DEF Next, Program

\* A step within the loop that keeps the window, the mode and what runs.
LEMMA UnderwayRests ==
  ASSUME Underway, UNCHANGED <<instances, window_running, core_running, systemState>>,
         at' = at \/ at' \in {"End", "exited"}
  PROVE  Underway'
BY DEF Underway

LEMMA UnderwayStep == ProgramInv /\ OneCore /\ Underway /\ [Next]_vars => Underway'
<1> SUFFICES ASSUME ProgramInv, OneCore, Underway, [Next]_vars PROVE Underway'
  OBVIOUS
<1> DEFINE InLoop == {"Start", "ProcessWindow", "DeleteWindow", "Update", "LoadSoftware",
                      "UpdateFrame"}
<1>1. CASE User \/ Exited \/ UNCHANGED vars
  BY <1>1, UnderwayRests
  DEF User, W!User, Exited, vars, program, session, events
<1>2. CASE CoreAsks
  BY <1>2, UnderwayRests
  DEF CoreAsks, C!SetCallback, C!SetVariables, C!frontend, events, program
<1>3. CASE Refused
  BY <1>3 DEF Refused, Underway
<1>4. CASE Initialize
  BY <1>4 DEF Initialize, W!CreateWindow, Goto, Underway
<1>5. CASE Start \/ Boot
  BY <1>5 DEF Start, Boot, Goto, ErrorQuit, session, events, Underway
<1>6. CASE ProcessWindow \/ HandleEvent
  BY <1>6 DEF ProcessWindow, W!Enter, HandleEvent, W!HandleEvent, program, session, Underway
<1>7. CASE WindowProcessed
  <2>1. /\ UNCHANGED <<systemState, core_running>> /\ at = "ProcessWindow"
        /\ at' = AfterProcessing(window_running)
    BY <1>7 DEF WindowProcessed, Goto, W!Return, session
  <2>2. CASE window_running
    BY <1>7, <2>1, <2>2 DEF WindowProcessed, W!Return, AfterProcessing, Underway
  <2>3. CASE ~window_running
    BY <2>1, <2>3 DEF AfterProcessing, Underway
  <2> QED BY <2>2, <2>3
<1>8. CASE CloseCore
  BY <1>8 DEF CloseCore, ClosesCore, Goto, events, Underway
<1>9. CASE WindowDeleted
  <2>1. at' = "End"
    BY <1>9 DEF WindowDeleted, Underway, W!Return, Goto, AfterProcessing
  <2> QED BY <2>1 DEF Underway
<1>10. CASE NothingChosen \/ MenuFrame
  BY <1>10 DEF NothingChosen, MenuFrame, Goto, session, events, Underway
<1>11. CASE Choose
  BY <1>11 DEF Choose, Goto, ErrorQuit, events, Underway
<1>12. CASE LoadCore \/ LoadContent \/ ContentRefused
  BY <1>12 DEF LoadCore, LoadContent, ContentRefused, ErrorQuit, program, events, Underway
<1>13. CASE ContentAccepted \/ AudioStateSet
  <2>1. at = "LoadSoftware" /\ UNCHANGED instances /\ GameLoaded
    BY <1>13 DEF ContentAccepted, W!LoadContent, AudioStateSet, events
  <2> QED BY <2>1 DEF GameLoaded, program, Underway
<1>14. CASE CoreFrame \/ FrameRun
  <2>1. core_running'
    <3>1. C!UpdateFrame \/ C!FrameTimeTold \/ C!AudioEmitted \/ C!FrameRun
      BY <1>14 DEF CoreFrame, FrameRun
    <3>2. ~NoCore
      BY <3>1 DEF C!UpdateFrame, C!CoreBranch, C!FrameTimeTold, C!AudioEmitted, C!FrameRun,
         C!Inside, NoCore, C!Idle
    <3> QED BY <3>1, <3>2, KnownCore, FrameStays
  <2> QED BY <1>14, <2>1 DEF CoreFrame, FrameRun, Goto, program, events, Underway
<1>15. CASE End
  BY <1>15 DEF End, Underway
<1> QED BY <1>1, <1>2, <1>3, <1>4, <1>5, <1>6, <1>7, <1>8, <1>9, <1>10, <1>11, <1>12,
           <1>13, <1>14, <1>15 DEF Next, Program

\* The end of LMC_ProcessWindow with a window that has ended.
LEMMA LastWindowGoes ==
  ASSUME W!Return, ~window_running, instances = 1
  PROVE  ~window' /\ ~sdl' /\ instances' = 0
BY DEF W!Return, W!Delete, W!Released, W!CloseAll

LEMMA LeftStep == ProgramInv /\ OneCore /\ Underway /\ Left /\ [Next]_vars => Left'
<1> SUFFICES ASSUME ProgramInv, OneCore, Underway, Left, [Next]_vars PROVE Left'
  OBVIOUS
<1>1. CASE User
  BY <1>1 DEF User, W!User, program, session, Left, NothingLoaded, C!Idle
<1>2. CASE Exited \/ UNCHANGED vars
  BY <1>2 DEF Exited, vars, program, session, events, Left, NothingLoaded, C!Idle
<1>3. CASE CoreAsks
  BY <1>3 DEF CoreAsks, C!SetCallback, C!SetVariables, program, Left, NothingLoaded, C!Idle
<1>4. CASE Refused
  BY <1>4 DEF Refused, Left
<1>5. CASE WindowProcessed
  <2>1. CASE window_running
    BY <1>5, <2>1 DEF WindowProcessed, W!Return, Goto, AfterProcessing, Left
  <2>2. CASE ~window_running
    <3>1. ~window' /\ ~sdl' /\ instances' = 0
      BY <1>5, <2>2, LastWindowGoes DEF WindowProcessed, Underway
    <3>2. ~core_running /\ UNCHANGED session
      BY <1>5, <2>2 DEF WindowProcessed, ClosesCore
    <3>3. NoCore
      BY <1>5, <3>2 DEF WindowProcessed, Underway, ProgramInv
    <3>4. NothingLoaded'
      BY <1>5, <3>2, <3>3, KnownCore
      DEF WindowProcessed, Unused, NothingLoaded, session, C!Idle
    <3> QED BY <3>1, <3>4 DEF Left
  <2> QED BY <2>1, <2>2
<1>6. CASE WindowDeleted
  <2>1. ~window' /\ ~sdl' /\ instances' = 0
    BY <1>6, LastWindowGoes DEF WindowDeleted, Underway
  <2>2. ~NoCore
    BY <1>6 DEF WindowDeleted, C!CoreDeinitialized, C!Inside, NoCore, C!Idle
  <2>3. NothingLoaded'
    BY <1>6, <2>2, KnownCore, CloseUnloads DEF WindowDeleted
  <2> QED BY <2>1, <2>3 DEF Left
<1>7. CASE End
  BY <1>7 DEF End, Left, session, events, NothingLoaded, C!Idle
<1>8. CASE Initialize \/ ProcessWindow \/ HandleEvent \/ CloseCore \/ NothingChosen
           \/ MenuFrame \/ LoadCore \/ AudioStateSet \/ ContentAccepted \/ CoreFrame
           \/ FrameRun
  <2>1. at' \notin {"End", "exited"}
    BY <1>8 DEF Initialize, ProcessWindow, HandleEvent, CloseCore, NothingChosen, MenuFrame,
       LoadCore, AudioStateSet, ContentAccepted, GameLoaded, CoreFrame, FrameRun, Goto,
       program
  <2> QED BY <2>1 DEF Left
<1>9. CASE Start \/ Boot \/ Choose \/ LoadContent \/ ContentRefused
  <2>1. at' \notin {"End", "exited"} \/ (at' = "exited" /\ failed')
    BY <1>9 DEF Start, Boot, Choose, LoadContent, ContentRefused, ErrorQuit, Goto, program
  <2> QED BY <2>1 DEF Left
<1> QED BY <1>1, <1>2, <1>3, <1>4, <1>5, <1>6, <1>7, <1>8, <1>9 DEF Next, Program

LEMMA WholeInvariant == Spec => []WholeInv
<1>1. Init => WholeInv
  BY DEF Init, C!Init, C!NoContent, WholeInv, OneCore, NothingLoaded, Unused, Underway, Left
<1>2. ProgramInv /\ WholeInv /\ [Next]_vars => WholeInv'
  BY OneCoreStep, UnderwayStep, LeftStep DEF WholeInv
<1> QED BY <1>1, <1>2, ProgramKnowsCore, PTL DEF Spec

\* Whatever cores there are and whatever each registers, no call of a program of
\* source/Examples goes astray and the core that runs has its own callbacks and
\* options (LMC_LoadCore, LoadSoftware, IMachine::Update).
THEOREM OnlyOneCore == Spec => []OneCoreEver
<1>1. WholeInv => OneCoreEver
  <2> SUFFICES ASSUME WholeInv PROVE OneCoreEver
    OBVIOUS
  <2>1. C!CallsLand
    BY DEF WholeInv, OneCore, NothingLoaded, Single, C!CallsLand
  <2>2. ASSUME core_running PROVE Single /\ InOrder /\ Equipped
    BY <2>2 DEF WholeInv, OneCore, NothingLoaded
  <2>3. ASSUME core_running
        PROVE  /\ table \in Cores /\ handle = table
               /\ life[table] = "playing"
               /\ \A k \in Kinds : callbacks[k] = IF k \in Uses[table] THEN table ELSE None
               /\ options = IF table \in Announces THEN table ELSE None
    <3>1. Stage = "playing"
      BY <2>2, <2>3 DEF Stage, InOrder
    <3> QED BY <2>2, <2>3, <3>1 DEF Single, Equipped
  <2> QED BY <2>1, <2>3 DEF OneCoreEver, C!RunningIsOneCore
<1> QED BY <1>1, WholeInvariant, PTL

\* A program the user has closed has given back window, engine and library, in
\* every order of events, from the menu and from the game (SDL2_ProcessEvents,
\* LMC_DeleteWindow, VirtualMachine::Run).
THEOREM ClosingLeavesNothing == Spec => []ClosedLeavesNothing
<1>1. WholeInv => ClosedLeavesNothing
  BY DEF WholeInv, Left, NothingLoaded, ClosedLeavesNothing
<1> QED BY <1>1, WholeInvariant, PTL

=============================================================================
