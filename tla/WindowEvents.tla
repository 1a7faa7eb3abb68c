---------------------------- MODULE WindowEvents ----------------------------
(***************************************************************************)
(* The life of the window: LMC_CreateWindow and LMC_DeleteWindow count its *)
(* users, LMC_ProcessWindow drains the events of SDL one by one and ends   *)
(* when the user asked for it, and Alt+Enter and LMC_LoadContent           *)
(* initialise it again in between.  From source/LegacyMachine/Window.c and *)
(* Window/Drivers/SDL2_WindowDriver.c.                                     *)
(*                                                                         *)
(* The user may act at any time, also while events are being handled; the  *)
(* application calls nothing while LMC_ProcessWindow runs.                 *)
(***************************************************************************)
EXTENDS Naturals, Sequences

CONSTANTS
  MaxUsers,  \* bound: LMC_CreateWindow calls not yet undone
  MaxEvents  \* bound: events SDL has queued

ASSUME UsersAssumption == MaxUsers \in Nat \ {0}
ASSUME EventsAssumption == MaxEvents \in Nat

VARIABLES
  instances,   \* params->instances
  running,     \* params->running
  window,      \* the static SDL_Window pointer is not null
  initialized, \* window->initialized
  sdl,         \* SDL_Init succeeded and SDL_Quit was not called since
  joysticks,   \* the joystick subsystem is initialised
  core,        \* current_core->running
  queue,       \* the events SDL has not delivered yet
  processing,  \* inside the event loop of LMC_ProcessWindow
  result,      \* what LMC_ProcessWindow last returned
  asked        \* the user asked to end and the application was not told yet

pipeline == <<window, initialized, sdl, joysticks, core>>
vars == <<instances, running, pipeline, queue, processing, result, asked>>

\* The close button, the QUIT key, or another signal to end.
Quits == {"SDL_QUIT", "SDL_WINDOWEVENT_CLOSE", "QUIT key"}
Events == Quits \cup {"Alt+Enter"}

Init ==
  /\ instances = 0
  /\ running = FALSE
  /\ window = FALSE
  /\ initialized = FALSE
  /\ sdl = FALSE
  /\ joysticks = FALSE
  /\ core = FALSE
  /\ queue = <<>>
  /\ processing = FALSE
  /\ result = TRUE
  /\ asked = FALSE

\* SDL_PollEvent will return e.  All events but SDL_QUIT need a window.
User(e) ==
  /\ sdl /\ Len(queue) < MaxEvents
  /\ window \/ e = "SDL_QUIT"
  /\ queue' = Append(queue, e)
  /\ UNCHANGED <<instances, running, pipeline, processing, result, asked>>

\* SDL2_InitializeWindow, with window and video made or not.  Input is
\* initialised with the first window only.
InitializeWindow(ok) ==
  /\ window' = ok
  /\ running' = (running \/ ok)
  /\ initialized' = (initialized \/ ok)
  /\ joysticks' = (joysticks \/ (ok /\ ~initialized))

-----------------------------------------------------------------------------
(* Calls of the application *)

\* A further LMC_CreateWindow.
ShareWindow ==
  /\ ~processing
  /\ instances > 0 /\ instances < MaxUsers
  /\ instances' = instances + 1
  /\ UNCHANGED <<running, pipeline, queue, processing, result, asked>>

\* The first LMC_CreateWindow, once SDL_Init has succeeded.  If the window fails
\* SDL stays initialised.  If SDL_Init itself fails LMC_CreateWindow returns
\* false before it has assigned anything (Window.c:61): that call is a
\* stuttering step.
CreateWindow(ok) ==
  /\ ~processing
  /\ instances = 0
  /\ sdl' = TRUE
  /\ InitializeWindow(ok)
  /\ instances' = IF ok THEN 1 ELSE 0
  /\ asked' = FALSE
  /\ UNCHANGED <<core, queue, processing, result>>

\* Mutant: the core goes on after the window has gone.
CloseOnly == window' = FALSE /\ UNCHANGED core

\* LMC_CloseCore and SDL2_CloseWindow.
CloseAll == window' = FALSE /\ core' = FALSE

\* if (!instances) return; instances--;
Released == IF instances = 0 THEN 0 ELSE instances - 1

\* LMC_DeleteWindow: the last instance closes the core, the window and SDL.
Delete ==
  /\ instances' = Released
  /\ IF instances = 1
     THEN CloseAll /\ sdl' = FALSE /\ joysticks' = FALSE /\ queue' = <<>>
     ELSE UNCHANGED <<window, core, sdl, joysticks, queue>>
  /\ UNCHANGED initialized

DeleteWindow ==
  /\ ~processing
  /\ Delete
  /\ UNCHANGED <<running, processing, result, asked>>

\* LMC_LoadContent, which an application calls while it has a window: cb_init
\* and running, whatever cb_init returned.
LoadContent(ok) ==
  /\ ~processing
  /\ instances > 0
  /\ InitializeWindow(ok)
  /\ core' = TRUE
  /\ UNCHANGED <<instances, sdl, queue, processing, result, asked>>

CloseCore ==
  /\ ~processing
  /\ core' = FALSE
  /\ UNCHANGED <<instances, running, window, initialized, sdl, joysticks>>
  /\ UNCHANGED <<queue, processing, result, asked>>

-----------------------------------------------------------------------------
(* SDL2_ProcessEvents *)

\* Mutant: a window that has ended is processed again.
AlwaysEnter == TRUE

\* if (!window_info.running) return false;
MayEnter == running

Enter ==
  /\ ~processing
  /\ processing' = MayEnter
  /\ result' = IF MayEnter THEN result ELSE FALSE
  /\ asked' = (asked /\ MayEnter)
  /\ UNCHANGED <<instances, running, pipeline, queue>>

Quit ==
  /\ Head(queue) \in Quits
  /\ running' = FALSE
  /\ asked' = TRUE
  /\ UNCHANGED pipeline

\* SDL2_CloseWindow, then SDL2_InitializeWindow in the other mode.
ToggleFullscreen(ok) ==
  /\ Head(queue) = "Alt+Enter"
  /\ InitializeWindow(ok)
  /\ UNCHANGED <<sdl, core, asked>>

HandleEvent ==
  /\ processing
  /\ queue # <<>>
  /\ queue' = Tail(queue)
  /\ Quit \/ \E ok \in BOOLEAN : ToggleFullscreen(ok)
  /\ UNCHANGED <<instances, processing, result>>

\* The queue is empty: delete the window if it has ended, and return.
Return ==
  /\ processing
  /\ queue = <<>>
  /\ IF running
     THEN UNCHANGED <<instances, pipeline, queue>>
     ELSE Delete
  /\ processing' = FALSE
  /\ result' = running
  /\ asked' = (asked /\ running)
  /\ UNCHANGED running

-----------------------------------------------------------------------------

Next ==
  \/ \E e \in Events : User(e)
  \/ ShareWindow
  \/ \E ok \in BOOLEAN : CreateWindow(ok) \/ LoadContent(ok)
  \/ DeleteWindow
  \/ CloseCore
  \/ Enter
  \/ HandleEvent
  \/ Return

Spec == Init /\ [][Next]_vars

-----------------------------------------------------------------------------
(* Properties *)

\* Every variable has its type (MainEngine.h, WindowDriver.h).
TypeOK ==
  /\ instances \in 0 .. MaxUsers
  /\ \A v \in {running, window, initialized, sdl, joysticks, core, processing,
               result, asked} : v \in BOOLEAN
  /\ queue \in Seq(Events)

\* SDL lives as long as the window has a user, and a window without users has
\* left nothing behind: no handle, no core that runs and no joysticks
\* (LMC_CreateWindow, LMC_DeleteWindow, the end of SDL2_ProcessEvents).
NothingOutlivesUsers ==
  /\ instances > 0 => sdl
  /\ instances = 0 => ~window /\ ~core /\ ~joysticks

\* LMC_ProcessWindow gives up one instance, and only one, each time the user
\* asks to end: the other users keep theirs, however often they call it after.
OneInstancePerQuit ==
  [][processing /\ instances' # instances
     => /\ asked /\ ~running
        /\ instances' = instances - 1
        /\ ~asked' /\ ~result']_vars

\* Window.c:121: LMC_ProcessWindow returns false if the user has requested to
\* end the application.
QuitReturnsFalse == [][Return => (asked => ~result')]_vars

\* Window.c:267: a window that was created provides input.
WindowHasInput == instances > 0 /\ window => joysticks

\* Window.c:136: true if the window is active and running.
ActiveHasWindow == ~processing /\ running => instances > 0

=============================================================================
