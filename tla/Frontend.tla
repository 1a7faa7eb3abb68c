------------------------------ MODULE Frontend ------------------------------
(***************************************************************************)
(* A whole program of source/Examples: main, VirtualMachine::Initialize,   *)
(* Run, LoadSoftware and ErrorQuit, and Start, Update and End of the       *)
(* machine, driving the core session (CoreSession) and the window          *)
(* (WindowEvents) of the library in the order the program calls them.      *)
(*                                                                         *)
(* Which game the menu offers is GameSelect's business: here the menu may  *)
(* choose any core in any frame.                                           *)
(***************************************************************************)
EXTENDS Naturals, Sequences

CONSTANTS
  Cores, None, Dangling, Kinds, Uses, Announces, \* see CoreSession
  MaxEvents,                                     \* see WindowEvents
  MaxPosted  \* bound: events the user posts before leaving the program alone

ASSUME PostedAssumption == MaxPosted \in Nat
ASSUME SessionAssumption ==
  /\ None \notin Cores
  /\ Kinds = {"frame_time", "audio"}
  /\ Uses \in [Cores -> SUBSET Kinds]

VARIABLES
  handle, table, core_initialized, core_running, callbacks, frame_time_last,
  counters, registered, options, content, opens, life, call, fault,
  instances, window_running, window, window_initialized, sdl, joysticks,
  queue, processing, result, asked,
  systemState, \* m_systemState of the machine
  at,          \* where main is
  failed,      \* ErrorQuit has shown an error
  exit,        \* the status the process ended with
  posted       \* how many events the user has posted

\* The session as the library allows it: nothing keeps the application from
\* loading a core over another.
C == INSTANCE CoreSession WITH
       initialized <- core_initialized, running <- core_running,
       Lacks <- [c \in Cores |-> {}], NeedFullpath <- {}, Counters <- {},
       CounterOf <- [k \in {} |-> None], MAX_COUNTERS <- 0, ContentSize <- 1,
       MaxOpens <- 2, ClosesFirst <- FALSE

\* The session of an application that closes a core before it loads the next.
D == INSTANCE CoreSession WITH
       initialized <- core_initialized, running <- core_running,
       Lacks <- [c \in Cores |-> {}], NeedFullpath <- {}, Counters <- {},
       CounterOf <- [k \in {} |-> None], MAX_COUNTERS <- 0, ContentSize <- 1,
       MaxOpens <- 2, ClosesFirst <- TRUE

\* For the window a core runs from the moment its content was accepted.
W == INSTANCE WindowEvents WITH
       MaxUsers <- 1,
       running <- window_running, initialized <- window_initialized,
       core <- core_running \/ call.fn = "set_state"

session == <<handle, table, core_initialized, core_running, callbacks,
             frame_time_last, counters, registered, options, content, opens,
             life, call, fault>>
events == <<instances, window_running, window, window_initialized, sdl,
            joysticks, queue, processing, result, asked>>
program == <<systemState, at, failed, exit>>
vars == <<session, events, program, posted>>

States == {"Startup", "GameSelect", "GameRunning"}
Places == {"main", "Start", "ProcessWindow", "DeleteWindow", "Update",
           "LoadSoftware", "UpdateFrame", "End", "exited"}

Init ==
  /\ C!Init
  /\ W!Init
  /\ systemState = "Startup"
  /\ at = "main"
  /\ failed = FALSE
  /\ exit = "running"
  /\ posted = 0

Goto(place) == at' = place /\ UNCHANGED <<systemState, failed, exit>>

\* Mutant: the error is shown and the call tried again.
ErrorShown ==
  /\ failed' = TRUE
  /\ UNCHANGED <<systemState, at, exit>>

\* ErrorQuit calls LMC_Deinit and then IMachine::End, which deletes the
\* VirtualMachine: its destructor exits with success, and the exit with failure
\* that follows in ErrorQuit is never reached.
ErrorQuit ==
  /\ failed' = TRUE
  /\ at' = "exited"
  /\ exit' = "EXIT_SUCCESS"
  /\ UNCHANGED systemState

\* The user acts.  What comes while the window is being deleted is lost with
\* SDL_Quit.
User ==
  /\ at \notin {"DeleteWindow", "exited"}
  /\ posted < MaxPosted
  /\ posted' = posted + 1
  /\ UNCHANGED <<session, program>>
  /\ \E e \in W!Events : W!User(e)

-----------------------------------------------------------------------------
(* main and VirtualMachine::Initialize *)

\* LMC_Init or LMC_CreateWindow fails: main returns EXIT_FAILURE.
Refused ==
  /\ at = "main"
  /\ UNCHANGED session
  /\ UNCHANGED events \/ W!CreateWindow(FALSE)
  /\ at' = "exited"
  /\ exit' = "EXIT_FAILURE"
  /\ UNCHANGED <<systemState, failed, posted>>

Initialize ==
  /\ at = "main"
  /\ UNCHANGED session
  /\ W!CreateWindow(TRUE)
  /\ Goto("Start")
  /\ UNCHANGED posted

Start ==
  /\ at = "Start"
  /\ Goto("ProcessWindow") \/ ErrorQuit
  /\ UNCHANGED <<session, events, posted>>

-----------------------------------------------------------------------------
(* The loop of VirtualMachine::Run: LMC_ProcessWindow *)

\* Mutant: the loop goes on whatever LMC_ProcessWindow returns.
AlwaysUpdate(returned) == "Update"

\* while (LMC_ProcessWindow())
AfterProcessing(returned) == IF returned THEN "Update" ELSE "End"

ProcessWindow ==
  /\ at = "ProcessWindow"
  /\ ~processing
  /\ UNCHANGED session
  /\ W!Enter
  /\ UNCHANGED <<program, posted>>

\* Mutant: the loop looks at the window itself and ends with the first event
\* that ends it.
HandleEventEnds ==
  /\ at = "ProcessWindow"
  /\ UNCHANGED session
  /\ W!HandleEvent
  /\ Goto(IF window_running' THEN at ELSE "End")
  /\ UNCHANGED posted

HandleEvent ==
  /\ at = "ProcessWindow"
  /\ UNCHANGED session
  /\ W!HandleEvent
  /\ UNCHANGED <<program, posted>>

\* if (LMC_IsCoreRunning()) in LMC_DeleteWindow, when the last instance goes.
ClosesCore == ~window_running /\ core_running

\* All events are handled, and no core has to be closed.
WindowProcessed ==
  /\ at = "ProcessWindow"
  /\ ~ClosesCore
  /\ UNCHANGED session
  /\ W!Return
  /\ Goto(AfterProcessing(result'))
  /\ UNCHANGED posted

\* LMC_DeleteWindow closes the core: control passes to retro_deinit.
CloseCore ==
  /\ at = "ProcessWindow"
  /\ processing /\ queue = <<>>
  /\ ClosesCore
  /\ C!CloseCore
  /\ Goto("DeleteWindow")
  /\ UNCHANGED <<events, posted>>

WindowDeleted ==
  /\ at = "DeleteWindow"
  /\ C!CoreDeinitialized
  /\ W!Return
  /\ Goto(AfterProcessing(result'))
  /\ UNCHANGED posted

-----------------------------------------------------------------------------
(* The loop of VirtualMachine::Run: IMachine::Update *)

\* The splash screen is shown for another frame, or gives way to the menu, if
\* Tilengine can show it.
Boot ==
  /\ at = "Update"
  /\ systemState = "Startup"
  /\ \/ Goto("UpdateFrame")
     \/ /\ systemState' = "GameSelect"
        /\ at' = "UpdateFrame"
        /\ UNCHANGED <<failed, exit>>
     \/ ErrorQuit
  /\ UNCHANGED <<session, events, posted>>

\* A frame of the menu without START, or of the game.
NothingChosen ==
  /\ at = "Update"
  /\ systemState # "Startup"
  /\ Goto("UpdateFrame")
  /\ UNCHANGED <<session, events, posted>>

\* START: LoadSoftware loads the core of the game, or ends the program.
Choose ==
  /\ at = "Update"
  /\ systemState = "GameSelect"
  /\ \/ \E c \in Cores : C!LoadCore(c) /\ Goto("LoadSoftware")
     \/ C!LoadCoreFails /\ ErrorQuit
  /\ UNCHANGED <<events, posted>>

LoadCore ==
  /\ at = "LoadSoftware"
  /\ C!EnvironmentSet \/ C!LoadCoreReturns
  /\ UNCHANGED <<events, program, posted>>

\* LMC_LoadContent reads the file of the game, or cannot.
LoadContent ==
  /\ at = "LoadSoftware"
  /\ \/ C!LoadContent(TRUE) /\ UNCHANGED program
     \/ C!AtApplication /\ UNCHANGED session /\ ErrorQuit
  /\ UNCHANGED <<events, posted>>

ContentRefused ==
  /\ at = "LoadSoftware"
  /\ C!ContentRefused
  /\ ErrorQuit
  /\ UNCHANGED <<events, posted>>

\* Mutant: the menu stays on once a game runs.
StaysInMenu == "GameSelect"

\* m_gameRunning is set once LoadSoftware has returned.
StateAfterMenu == "GameRunning"

GameLoaded ==
  IF core_running'
  THEN systemState' = StateAfterMenu /\ at' = "UpdateFrame"
       /\ UNCHANGED <<failed, exit>>
  ELSE UNCHANGED program

\* The window is made again for the content, and the core told of the audio.
ContentAccepted ==
  /\ at = "LoadSoftware"
  /\ C!ContentAccepted
  /\ \E ok \in BOOLEAN : W!LoadContent(ok)
  /\ GameLoaded
  /\ UNCHANGED posted

AudioStateSet ==
  /\ at = "LoadSoftware"
  /\ C!AudioStateSet
  /\ GameLoaded
  /\ UNCHANGED <<events, posted>>

-----------------------------------------------------------------------------
(* The loop of VirtualMachine::Run: LMC_UpdateFrame *)

MenuFrame ==
  /\ at = "UpdateFrame"
  /\ ~core_running
  /\ Goto("ProcessWindow")
  /\ UNCHANGED <<session, events, posted>>

CoreFrame ==
  /\ at = "UpdateFrame"
  /\ C!UpdateFrame \/ C!FrameTimeTold \/ C!AudioEmitted
  /\ UNCHANGED <<events, program, posted>>

FrameRun ==
  /\ at = "UpdateFrame"
  /\ C!FrameRun
  /\ Goto("ProcessWindow")
  /\ UNCHANGED <<events, posted>>

-----------------------------------------------------------------------------

\* What the core asks for while control is in it.
CoreAsks ==
  /\ \E k \in Kinds : C!SetCallback(k)
     \/ C!SetVariables
  /\ UNCHANGED <<events, program, posted>>

\* IMachine::End: LMC_Deinit, and the destructor that exits.
End ==
  /\ at = "End"
  /\ at' = "exited"
  /\ exit' = "EXIT_SUCCESS"
  /\ UNCHANGED <<session, events, systemState, failed, posted>>

Program ==
  \/ Refused
  \/ Initialize
  \/ Start
  \/ ProcessWindow
  \/ HandleEvent
  \/ WindowProcessed
  \/ CloseCore
  \/ WindowDeleted
  \/ Boot
  \/ NothingChosen
  \/ Choose
  \/ LoadCore
  \/ LoadContent
  \/ ContentRefused
  \/ ContentAccepted
  \/ AudioStateSet
  \/ MenuFrame
  \/ CoreFrame
  \/ FrameRun
  \/ End

\* The process is gone.
Exited == at = "exited" /\ UNCHANGED vars

Next == User \/ CoreAsks \/ Program \/ Exited

\* One thread: the program goes on, and a core that is called registers what it
\* uses and returns.  The user need not act.
Spec ==
  /\ Init /\ [][Next]_vars
  /\ WF_vars(Program)
  /\ WF_vars(CoreAsks /\ session' # session)

-----------------------------------------------------------------------------
(* Properties *)

\* Every variable has its type; those of the parts have the types of the parts.
TypeOK ==
  /\ C!TypeOK
  /\ W!TypeOK
  /\ systemState \in States
  /\ at \in Places
  /\ failed \in BOOLEAN
  /\ exit \in {"running", "EXIT_SUCCESS", "EXIT_FAILURE"}
  /\ posted \in 0 .. MaxPosted

\* The program is an application of the disciplined kind: whatever the user does
\* in whatever frame, no core is loaded over another and none is given content
\* twice, so what is shown of such applications holds here (LoadSoftware,
\* IMachine::Update, LMC_DeleteWindow).
DisciplinedApplication == D!Spec

\* Even with cores that register different callbacks no call goes astray and no
\* running core has the callbacks or options of another: one run of the program
\* loads one core.
OneCoreEver ==
  /\ C!CallsLand
  /\ C!RunningIsOneCore

\* A program the user has closed leaves no window, no core that was not
\* deinitialised and no library behind: all of it goes with the window, before
\* IMachine::End frees the engine (SDL2_ProcessEvents, LMC_DeleteWindow, Run).
ClosedLeavesNothing ==
  at \in {"End", "exited"} /\ exit # "EXIT_FAILURE" /\ ~failed =>
    /\ ~window /\ ~sdl /\ instances = 0
    /\ \A c \in Cores : life[c] = "closed" /\ opens[c] = 0

\* Closing the window ends the program, from the menu and from the game alike,
\* unless Alt+Enter opens the window again before the close was seen.
CloseEnds == asked /\ ~window_running ~> exit # "running" \/ window_running

\* A game that was chosen is shown, or the program ends: between START and the
\* first retro_run nothing waits for the user.
ChosenRuns == at = "LoadSoftware" ~> call.fn = "run" \/ exit # "running"

\* VirtualMachine.cpp:146: a program that failed exits with EXIT_FAILURE.
FailureReported == failed => exit # "EXIT_SUCCESS"

=============================================================================
