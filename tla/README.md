# A TLA+ verification of LegacyMachine

LegacyMachine is a frontend library for libretro cores: an application starts an
engine, opens a window, shows a menu drawn by Tilengine, and hands the window over
to an emulator core loaded from a shared library.  The modules here model the
library (`src/source/LegacyMachine`) and the part of the example machines
(`src/source/Examples`) that carries logic of its own.  Only the build with
`HAVE_MENU` compiles, and that is the one modelled.  Two modules of the vendored
libretro-common, its thread pool and its task queue, are modelled as well: they hold
the only concurrency of the repository.

## Inventory

LegacyMachine itself is single-threaded.  What makes it hard is not two threads but five
parties that call into one another through tables of function pointers: the
application, the library, the drivers (over SDL2), the core and the user, whose
events arrive at any time.  Every object is reached through the global
`legacy_machine`, and outlives, or is outlived by, the others in ways no type
records.  Pointers that dangle, an order of calls that nothing enforces, steps that
fail half-way and state a previous session has left are the recurring hazards.
`PROJECT.json` lists them at their lines, as far as they are not departures of the code,
which are listed below.

| Component | Source | State | Operations | Interacts with | Correct if |
|---|---|---|---|---|---|
| Core session | `LegacyMachine.c` 684-1446, `CoreLibrary.h`, `SystemManager.h` | handle and function table, `initialized`, `running`, registered callbacks, options, frame time, performance counters | `LMC_LoadCore`, `LMC_LoadContent`, `LMC_CloseCore`, `LMC_UpdateFrame`, environment commands | core (calls both ways), audio and video drivers | no call goes through a null or stale pointer; the core sees the order libretro.h fixes, which the code keeps but for `retro_unload_game`; nothing stays mapped |
| Audio driver | `SDL2_AudioDriver.c` | the SDL device | init with the content, samples from the core | calls the core's `set_state` | the callback it calls is the core's |
| Video pipeline | `SDL2_VideoDriver.c`, `SDL2_CRTFilter.c` | window, renderer, backbuffer, lock pointer, CRT handler, frame geometry and format, Tilengine's target | create, close, refresh, filter keys, geometry and format | window, core, menu | pointers are set and cleared together; the filter draws what was locked; frames fit and are read in their format |
| Window and events | `Window.c`, `SDL2_WindowDriver.c` | `instances`, `running`, `initialized`, SDL's queue | create, share, process, toggle, delete | user, input, core, video | a quit ends one instance; nothing outlives the last user |
| Input driver | `SDL2_InputDriver.c`, `InputDriver.c` | `joystick[]`, identifiers, inputs of each player | connect, disconnect, assign, keys, buttons | SDL's device list and events | no joystick is closed under a player; no key is marked that is up |
| Game menu frontends | `VirtualMachine.cpp`, `BasicMachine.cpp`, `BasicGameSelect.cpp`, `Famicom*` | list, page, active option, last key, screen, machine state | splash, navigate, draw, launch | library, Tilengine, user | the cursor is on the page and on the screen; one game is launched, the one chosen |
| Engine context | `LegacyMachine.c` 96-422, `MenuManager.c` | contexts, the managers they share | `LMC_Init`, `SetContext`, `Deinit`, `DeleteContext` | all of the above | freed once, never used after |
| Window geometry | `SDL2_WindowDriver.c` 61-144, 236-265 | sizes, scale, overrides, viewport | resize to aspect, windowed, fullscreen | desktop mode, frame geometry, Alt+Enter | the picture fits the desktop and has the shape of the frames announced last |
| Example program | `VirtualMachine.cpp`, `BasicMachine.cpp`, `VirtualConsole.cpp` | state of the machine, place in the main loop | initialize, loop, load, fail, end | core session, window, user | one core ever; a close ends it and leaves nothing; a chosen game runs |
| Thread pool | `tpool.c` | queue of work, counters of threads, two condition variables | add, wait, destroy, the worker | its clients | work runs once, in order; a pool that is gone has no thread |
| Task queue | `task_queue.c` | running and finished lists, implementation, worker | push, check, wait, reset, cancel, start, shutdown, the worker | handlers and callbacks of tasks | a task is in one place; its callback comes; a wait waits |
| Filter arithmetic, screens and palettes, platform paths, logging | `CRTFilter.c`, `RFBlur.c`, `BasicScreen.cpp`, `Platform/`, ... | pixels, tiles, strings | | | not a matter of states |
| rest of libretro-common, Tilengine, build files | `Libretro/`, `Tilengine/`, `CMakeLists.txt` | third-party | | | |

## Modules and plan

| Order | Module | What it is | Status |
|---|---|---|---|
| 1 | `CoreProtocol` | abstract: the calls a core may receive, and in which order | done |
| 2 | `CoreSession`, `MCCoreSession`, `CoreSessionProofs` | the core session; implements `CoreProtocol` | done |
| 3 | `VideoPipeline`, `VideoPipelineProofs` | video driver, filter, window handles, menu and core frames | done |
| 4 | `GameSelect`, `GameSelectProofs` | the machines of the examples | done |
| 5 | `JoypadInput`, `JoypadInputProofs` | joypads, keys and buttons | done |
| 6 | `WindowEvents`, `WindowProofs` | users of the window and the event loop | done |
| 7 | `EngineContext`, `EngineContextProofs` | contexts that share static managers, early returns of `LMC_Init`, the menu's Tilengine context | done |
| 8 | `Frontend`, `MCFrontend`, `FrontendProofs` | composition: an example program drives `CoreSession` and `WindowEvents`; implements the disciplined session | done |
| 9 | `WorkPool` | abstract: what a pool of threads promises its clients | done |
| 10 | `ThreadPool`, `ThreadProofs` | `tpool.c`; implements `WorkPool` | done |
| 11 | `TaskLife` | abstract: what becomes of a task that is pushed | done |
| 12 | `TaskQueue`, `MCTaskQueue`, `ThreadProofs` | `task_queue.c`, both implementations and the changes between them; implements `TaskLife` | done |
| 13 | `WindowGeometry`, `MCWindowGeometry`, `WindowProofs` | sizes of window and viewport, on top of `WindowEvents` | done |

`WindowProofs` and `ThreadProofs` hold the proofs of two modules each: those of the
window with and without its sizes, and those of the two modules with threads.

Worth doing next: `EngineContext` as a third part of `Frontend`, for the order in which
`ErrorQuit` frees things.

## How the modules correspond to the code

**CoreSession.**  Control passes between the application, the library and the core, and
a core calls `CoreEnvironment` from inside any of its entry points.  An action is the
code between two such crossings, and `call` says where control is: `LMC_LoadCore` is
`LoadCore` (up to `retro_set_environment`), `EnvironmentSet` (up to `retro_init`) and
`LoadCoreReturns`.  A pointer into a library is the library's name, and becomes
`Dangling` when the loader's reference count reaches zero.  `fault` records a call the
program does not survive; nothing happens after it.  `ClosesFirst` says whether the
application closes a core before it loads the next, as the examples do; that they do is what
`Frontend` shows.  `Lacks[c]` are the entry points core `c` does not export: their
pointers in the table are null (`Entry`), which `LoadSymbol` only logs, and the call
through one comes where the code makes it, in `LMC_LoadCore` for some and as late as a
frame for `retro_run`.  The four symbols the library looks up and never calls are left
out of it.  `options` is whose options `GET_VARIABLE` answers from; their text is
left out.  A core is assumed to have registered every callback it uses
by the time it accepts its content.

**CoreProtocol** has the life of each library and the call in progress and nothing
else.  `FollowsProtocol` is the refinement: `life` and `call` of `CoreSession` are
those of the protocol (`P == INSTANCE CoreProtocol WITH ...`), and handle, table, flags,
callbacks and counters are hidden.  The protocol is libretro.h's, lines cited, with one
parameter: `UnloadsFirst` says whether its rule holds that `retro_unload_game` is called
before `retro_deinit` (libretro.h:3884).  `LMC_CloseCore` breaks that rule, so
`FollowsProtocol` is the refinement of the protocol without it, and no more: that the
rule itself is broken is the violation run `core_unload_first`.

**VideoPipeline.**  One backbuffer exists at a time, so a pointer to it is `"texture"`,
or `"dangling"` once that texture is destroyed.  A size stands for width and height.
`InitializeWindow(ok, ...)` is `SDL2_InitializeWindow` with the two failures it looks
at, of the window and of the renderer; it overwrites a handle in use (`leaked`).  Two
failures nobody looks at are left out: `SDL_CreateTexture` in `InitializeBackbuffer`
with a renderer that is there, and the `calloc` of `SDL2_CRTCreate`.  `announced` and `resized` are history: whether
the running core announced its format, and whether it changed its geometry since the
backbuffer was made.  The pixels of a texture are taken to stay valid as long as the
texture does, and an application is assumed to create its window before it loads
content.

**GameSelect.**  A game is its index; a row of the screen is a name, whether it is lit
and an icon.  `Select(keys, ok)` is a whole frame of the menu: the option moves, START
launches, the page is drawn.  The keys are any subset in any frame.  Numbers of options
are `unsigned` in the code, so the last option of an empty list is `UIntMax`
(`LastOption`).  In the state `GameRunning` the machine does nothing, so it has no
action.  The order of a frame, its loop and its ends belong to `Frontend`.

**JoypadInput.**  SDL is the environment: a list of devices by index, an instance id
that is never given again, a count of opens, and a queue of events.  Each event is
handled by `ProcessEvent`; between two events joysticks are plugged in and out, keys go
down and up, and the application reassigns joypads.  An index beyond `MAX_PLAYERS` sets
`corrupt`, after which nothing is claimed.  The maps are the defaults, under which one
button of a joypad is an input and hats and axes are none, and the window stays open.

**WindowEvents.**  `Enter`, `HandleEvent` and `Return` are `SDL2_ProcessEvents` cut at
`SDL_PollEvent`: the user may add events at each cut.  `Delete` is `LMC_DeleteWindow`,
called by the application and by the event loop.  `CreateWindow` is a first
`LMC_CreateWindow` whose `SDL_Init` succeeds; one that fails returns before it assigns
anything (Window.c:61) and is a stuttering step.  `asked` is history: the user asked to
end and no call of `LMC_ProcessWindow` has returned false since.  The application loads
content only while it has a window.

**EngineContext.**  The managers of a context are static, so there is one
`current_core`, one `framebuffer` and one `tile_engine` however many contexts there
are; each pointer is null, live or freed, and keeps its value when its block is freed.
Tilengine has a current context of its own (`engine`), which the library sets through
`LMC_SetMenuTileEngineContext` and deletes through `TLN_Deinit`.  `InitRefused` stands
for the early returns before `context->system` is set, `InitOutOfMemory` for the one
after.  Two history variables say what an application did beyond the examples, and the
invariants except them: `several` (a second context, or `LMC_DeleteContext` on a
context of its own) and `refused` (a Tilengine context was refused, and stays current).
Three more say what became of the Tilengine contexts: `own` are those the application is
to delete, which it made or which `LMC_SetMenuTileEngineContext` replaced
(LegacyMachine.c:494); `strayed` those of the menu that `LMC_Deinit` missed, a refused
one being current; `lost` the blocks that were live when the manager's pointer to them
was overwritten.
An application is assumed to make Tilengine contexts of its own while it has an engine,
and to delete, while an engine runs, those only that the menu does not use.

**Frontend.**  `C` and `W` are instances of `CoreSession` and `WindowEvents` on the
variables of the module, `at` is where main is.  Each action is one of the program
joined with the action of the session or of the window it calls, and leaves the other
alone; `LMC_DeleteWindow` on a running core is cut in two, where control is in
`retro_deinit`.  The two parts meet in the core: `WindowEvents` takes it as running from
the moment its content was accepted, as the substitution for `core` says.  Which game
the menu offers is left to `GameSelect`: any core may be chosen in any frame.  `D` is
the session again, with `ClosesFirst`; that the program implements it is
`DisciplinedApplication`.

**ThreadPool.**  The lock makes atomic what lies between two points where it is given
up, so an action of a worker goes from one `slock_unlock` or `scond_wait` to the next.
Who waits for a condition variable is in the program counters; a signal wakes one of
them (`Goes`), and a wait may end for no reason (`WakeUp`).  `working_cnt` and
`thread_cnt` are kept as the code keeps them.  `tpool_destroy` frees the items of the
queue and leaves them linked, so a worker may take a freed one: that is `fault`,
which the two liveness properties except.  `WorkPool` knows the
sets of queued, begun, completed and discarded work and whether the pool is there.

**TaskQueue.**  `running`, `finished` and `batch` (the list the regular implementation
takes out of `running`) are sequences of tasks; a task is plain, scheduled for a time or
blocking.  The worker and the main thread are cut at every lock, and at every handler
and callback, from which tasks may be pushed and tasks cancelled.  The handler's
`task_set_finished` and the removal that follows are one step (`HandlerFinishes`): only
the worker reads `finished` in between, and all others still find the task in `running`.
That the handler of a cancelled task ends it is what task_queue.h asks of handlers, not
something task_queue.c enforces.  Of the locks only
those are variables that are held across a cut (`PropertyLocked`, `FinishedLocked`).
The change between the implementations, which `task_queue_check` makes and which shuts
the worker down first, is part of it.  Time advances in steps (`Tick`).  The names of the
specification have a prefix (`TQSpec`, `TQInit`), and some others are longer than they
would have to be, so that the module can stand beside `ThreadPool`.  `TaskLife` knows the tasks
pushed and not finished, the one handled, those finished, the one called back, those told
and those cancelled; it says nothing of threads, lists, locks or the order of tasks.

**WindowGeometry** extends `WindowEvents`: each of its steps is a step of the window with
the sizes it computes (`SizedCreateWindow`, `SizedLoadContent`, `SizedHandleEvent`), one
that computes none (`Unsized`), or a call that leaves the window's own state alone
(`SetGeometry`, `SetBaseDimensionOverrides`).  An aspect ratio is the fraction a float is, so that 4/3 is not four
thirds; products and quotients are cut to an int as in C.  The double in between may be rounded
in the program: where the exact result is a whole number, as with the ratio of a width
and a height (`AspectOf`, the overrides), a side may come out one pixel shorter there.
An override that is not positive both ways is no override (`None`) and lifts the one
before; one so flat that it has no height on the desktop is left out (it divides by zero
at SDL2_WindowDriver.c:130).  A window's size is computed
by the same two functions whoever asks, and the action is the asking.  `outdated` is
history: overrides set since.  `scale_factor` is not a variable: windowed it is computed
anew each time, and fullscreen nothing reads it.

## Runs

| Run | Shows | Bounds, and why they are enough |
|---|---|---|
| `core_disciplined` | one core at a time, each with all its entry points and the same callbacks: `OnlyHandleOpen`, `RunningIsOneCore`, `CallsLand`, and the refinement of `CoreProtocol` without the rule on `retro_unload_game` | three cores: the one that runs, one before and one after; up to two references each, although only one is taken |
| `core_any_app` | whatever the application does: `TableMapped`, `FlagsAgree`, `CountersListedOnce` | two cores, one without `retro_get_system_av_info`, so that it fails only once its content was accepted; two counters in a table of two: full, stale and re-registered entries all occur |
| `core_unload_first` | violation of `UnloadedBeforeDeinit`, see below | two cores, of which one session is enough |
| `video_pipeline` | `PipelineWhole`, `CrtOnBackbuffer`, `BackbufferMatches`, `FormatAgrees` | the menu's size with one core smaller and one larger; one window lost |
| `game_select` | `CursorOnPage`, `PageShown`, `LoadsOnce`, `MovesOncePerPress` | lists of 0 to 5 games in pages of 2: empty, full and half-full last pages; two games without icon; two splash frames |
| `joypad` | `NoClosedPad`, `NoGhostKey`, and `KeyReleased` | two players, three joysticks ever plugged in (so an id beyond the players occurs), two events queued; one key, one button |
| `window_life` | `NothingOutlivesUsers`, `OneInstancePerQuit` | three users, three events queued: a quit, an Alt+Enter and one more |
| `engine_contexts` | `EngineWhole`, `NothingHeld`, `TargetFits`, `NoFreedUse` | two engine contexts and three of Tilengine (the menu's, its successor and one more), whose addresses are given again; sizes too small, fitting and too large.  Contexts that are the application's, that stray and that a start then loses all occur |
| `thread_pool` | `GoneIsQuiet`, `WorkEnds`, `LoneWaiterReturns`, and the refinement of `WorkPool` | three threads, two clients, three pieces of work: a thread that runs, one that waits and one between, and work left for the one that is waked too late |
| `task_queue` | `OnePlace`, `WaitsForUnscheduled`, `ResetReachesAll`, `EveryTaskTold`, and the refinement of `TaskLife` | a plain, a scheduled and a blocking task, each handled up to twice, one step of time: a task due before, at and after now, and one that returns to the queue |
| `frontend` | `OneCoreEver`, `ClosedLeavesNothing`, `CloseEnds`, `ChosenRuns`, and the refinement of the disciplined session | two cores, one of which registers callbacks and options the other does not; three events queued, five ever: closes and Alt+Enters in any order, over several frames |
| `window_geometry` | `FullscreenFits`, `ShapeFollowsFrame` | a desktop of 120 by 90, frames that are wide, high, square, too large, or fill the desktop at an exact multiple; two overrides and their removal; no scale, two and five; two users and one event at a time, which is enough for a window that is shared, lost, toggled and made again |

Each property of a passing run has a mutant, a plausible slip in the code next to the
definition it changes, that breaks it.

A run that turns deadlock checking off models a program that may stop: the process
ends (`GameSelect`), a call faults (`CoreSession` with a core that lacks a symbol or
a mixed set of cores, `EngineContext`), the arrays are written out of bounds (`JoypadInput`), or all
work is done and the pool is gone (`ThreadPool`).  `TaskQueue` and `Frontend` are
checked for deadlock.

The type invariants are proved rather than run; that the counter table is not overrun,
which is more than a type, is part of `CountersListedOnce`.

### Where the code departs from what it says

Listed as a finding: `UnloadedBeforeDeinit` (run `core_unload_first`).  libretro.h:3884
says of `retro_unload_game`: "Unloads the currently loaded game. Called before
retro_deinit(void)."  `LMC_CloseCore` calls `retro_deinit` on a core whose game is loaded
(LegacyMachine.c:1380); `LMC_LoadCore` looks `retro_unload_game` up and nothing calls it.

Further departures, each reproduced by the `.cfg` named with it.  A file that names
several properties has one of them active; uncomment another to see it.

| Property | Configuration | What happens |
|---|---|---|
| `NoDanglingCall` | `CoreSession_stale_callback.cfg` | a core that registers no callback has those of the core before it called, after that one's library was unmapped: `set_state` while its content is accepted (SDL2_AudioDriver.c:60), before any frame (LegacyMachine.c:1414, 1419).  No line of the repository speaks of it; the program does not survive it |
| `DeltaSinceOwnFrame` | `CoreSession_departures.cfg` | the first frame of a core is timed from the core before |
| `NoNullCall` | `CoreSession_missing_symbol.cfg` | a core lacks `retro_run`; `LMC_LoadCore` and `LMC_LoadContent` return true, and the first frame calls it all the same |
| `ContentSizeGiven` | `CoreSession_content_size.cfg` | a core that takes data is given a size of zero |
| `OwnOptions` | `CoreSession_options.cfg` | a core that announces no options is answered with those of the core before |
| `OneWindow` | `VideoPipeline_departures.cfg` | loading content initialises a second window over the first, whose pointer is lost |
| `CoreFrameFits` | `VideoPipeline_departures.cfg` | a core that grows its geometry draws past the backbuffer |
| `DefaultFormat` | `VideoPipeline_departures.cfg` | a core that announces no format gets the menu's |
| `CoreFrameDrawn` | `VideoPipeline_departures.cfg` | an XRGB8888 frame is pointed at, never copied to the texture |
| `MenuDrawsInBounds` | `VideoPipeline_departures.cfg` | Tilengine draws on a target that was destroyed or is too small |
| `BlurInBounds` | `VideoPipeline_departures.cfg` | the handler blurs with the size of an earlier texture |
| `LaunchedExists` | `GameSelect_empty_list.cfg` | START on an empty list reads a game that does not exist |
| `OthersKeepTheirs` | `JoypadInput_departures.cfg` | the removal of a joystick carries an instance id and is taken for a player number; another player loses a joypad that is plugged in |
| `OwnInputs` | `JoypadInput_departures.cfg` | the buttons of player 2 are marked for player 1 |
| `ConnectedIsHeard` | `JoypadInput_departures.cfg` | a joypad that connects keeps the identifier of an earlier one |
| `QuitReturnsFalse` | `WindowEvents_departures.cfg` | Alt+Enter handled after a quit in the same call sets `running` again, and the quit is forgotten |
| `WindowHasInput` | `WindowEvents_departures.cfg` | a window created after the first was deleted has no joypads |
| `ActiveHasWindow` | `WindowEvents_departures.cfg` | `LMC_IsWindowActive` stays true after `LMC_DeleteWindow` |
| `InitSurvives` | `EngineContext_no_menu.cfg` | `LMC_Init` without a menu, or with any parameter out of range, deletes a context whose system manager is still null |
| `ActiveIsMenus` | `EngineContext_departures.cfg` | a Tilengine context that is refused stays the active one |
| `OthersUsable` | `EngineContext_departures.cfg` | deleting one of two contexts frees the core structure of both |
| `FailureReported` | `Frontend_failure.cfg` | `ErrorQuit` ends the machine, whose end deletes the `VirtualMachine`, whose destructor exits with success |
| `DefaultAspect` | `WindowGeometry_departures.cfg` | fullscreen, a core without an aspect ratio gets that of the desktop (libretro.h:3377) |
| `WholeMultiple` | `WindowGeometry_departures.cfg` | 4/3 rounded up as a float costs the window its last row, times the scale |
| `MaximalScale` | `WindowGeometry_departures.cfg` | the automatic scale stops at three, and below the desktop |
| `ForcedSize` | `WindowGeometry_departures.cfg` | a forced size is multiplied by the scale |
| `WaitsForAll` | `ThreadPool_departures.cfg` | `tpool_wait` returns while work is queued that no thread has taken |
| `NoFreedWork` | `ThreadPool_departures.cfg` | a worker takes an item `tpool_destroy` has freed |
| `WaiterReturns` | `ThreadPool_departures.cfg` | of two clients that wait one is signalled, and the other waits for ever |
| `OneBlocking` | `TaskQueue_blocking.cfg` | two blocking tasks are in the queue: the lock is given up between the look and the push |
| `ShutdownEnds` | `TaskQueue_departures.cfg` | the worker reads `worker_continue` before the lock under which it goes to sleep; a shutdown in between never returns |
| `WaitTells` | `TaskQueue_departures.cfg` | `task_queue_wait` returns before the callback of a finished task |

### Fairness

* `JoypadInput`: `WF(ProcessEvent)`.  `SDL2_ProcessEvents` drains the queue
  (SDL2_WindowDriver.c:296), and the application calls it in its loop.
* `ThreadPool`: weak fairness of each worker and of each client inside a call.  A thread
  that can go on does; a piece of work ends; and waits end for no reason finitely often
  only, as the specification says.
* `TaskQueue`: weak fairness of the main thread inside a call, `SF(TaskWorker)` and `SF(Check)`, because both are disabled again and
  again while the other holds a lock: the locks are taken to be fair.  `Check` says that the
  application keeps calling `task_queue_check`, for which the queue is made; time goes
  on (`Tick`); handlers return, and are called again `MaxCalls` times at most.
  `EveryTaskTold` excepts, in its premise, executions in which the queue is shut down
  for good or its worker is never joined.
* `Frontend`: `WF(Program)`, the one thread goes on, and a core that is called returns.
  The user is not fair, and acts `MaxPosted` times at most: someone who holds Alt+Enter
  down for ever keeps `SDL2_ProcessEvents` from returning.

Nothing is assumed of the devices.

## What is proved

| Module | Theorems | From |
|---|---|---|
| `CoreSessionProofs` | `TypeCorrect`, `TableStaysMapped` | the assumptions on the constants |
| | `FlagsAlwaysAgree`, `CountersAgree` | the same |
| | `RunsOneCore`, `CallsLandInACore`, `NothingLeftOpen`, `ProtocolFollowed` | also `ClosesFirst`, no core lacks an entry point that is called (`Complete`), all cores register the same callbacks and options (`Uniform`).  What `ProtocolFollowed` proves is the order of libretro.h without its rule on `retro_unload_game` |
| `VideoPipelineProofs` | `VideoTypeCorrect`, `VideoWhole`, `FilterOnBackbuffer`, `BackbufferFollows`, `FormatKept` | the assumptions on the constants |
| `GameSelectProofs` | `MenuTypeCorrect`, `CursorStaysOnPage`, `ScreenFollows`, `LaunchesOneGame`, `HeldKeyMovesOnce` | the assumptions on the constants |
| `WindowProofs` | `WindowTypeCorrect`, `UsersHoldWindow`, `QuitReleasesOne` | the assumptions on the constants |
| | `SizedWindowIsWindow`, `FullscreenAlwaysFits`, `ShapeAlwaysFollows` | also those on desktop, geometries, scales and overrides |
| `EngineContextProofs` | `EngineTypeCorrect`, `EngineStaysWhole`, `EngineLeavesNothing`, `MenuDrawsInside`, `FreedOnce` | the assumptions on the constants |
| `JoypadInputProofs` | `InputTypeCorrect`, `PadsStayOpen`, `NoKeySticks` | the assumptions on the constants |
| `ThreadProofs` | `PoolIsSound`, `TypesHold`, `NoThreadOutlivesPool`, `ImplementsWorkPool` | the assumptions on the constants of `ThreadPool` |
| | `TaskQueueTypeCorrect`, `EveryTaskInOnePlace`, `WaitEndsInTime`, `ResetCancelsAll`, `ImplementsTaskLife` | those of `TaskQueue` |
| `FrontendProofs` | `ProgramKnowsCore`, `ExamplesAreDisciplined` | those of `CoreSession` and `WindowEvents` |
| | `OnlyOneCore`, `ClosingLeavesNothing` | the same, and `SessionAssumption` |

The arguments:

* **Core session.**  `RunningIsOneCore` speaks of a running core only, and is not
  inductive: what makes it true is what holds at each point of a session before it.
  `SessionInv` says it in four parts: where the pointers lead, what the flags are at
  each point of control, how far each library has come, and what is registered (null,
  dangling or the core in the table, and the core's own once it plays).  The
  refinement follows step by step: an action that touches neither `life` nor `call` is
  a stutter, and each other is one step of the protocol.  Two of the three
  conditions are those `CoreSession_missing_symbol.cfg` and `CoreSession_stale_callback.cfg` drop,
  with the failures described there; without the first a library is mapped that
  nothing closes.
* **Video pipeline.**  Type, `PipelineWhole`, `CrtOnBackbuffer` and `BackbufferMatches`
  are inductive together (`PipelineInv`) once a window is known to come with a size;
  `FormatAgrees` is, with a running core having a window; two lemmas say what initialising a window and replacing the
  backbuffer leave of them.
* **Game menu.**  `MenuInv` adds to the invariants the state before the list is read
  and that only a menu that is left has launched.  Page arithmetic is nonlinear
  (`page * PerPage`); one lemma states the three facts about multiples that are needed,
  one that every key leaves the cursor on its page, one that a frame draws that page.
* **Window.**  A window without users must not be opened again from the queue:
  `NoToggleWithoutUsers` keeps Alt+Enter out of it, which holds because deleting the
  window flushes the queue and no such event comes without a window.  `EndedWasAsked`
  ties `running` to the user inside the loop; outside it an application may leave the
  flag as it likes.
* **Engine.**  What the next `LMC_Deinit` frees is what the last `LMC_Init` or
  `LMC_Deinit` left, so the invariants are inductive only together (`EngineInv`), with
  `MenuFits`, the menu is no larger than its framebuffer, and `TilesHeld`, which says of
  every Tilengine context there is whose it is: the menu's, the application's or strayed.
  `EngineLeavesNothing` is what that comes to once there is no engine; a start finds the
  managers' pointers dead but for one to a strayed context (`NothingLost`).  `NothingDangles` draws from
  them that both globals can be followed.

* **Core session, any application.**  `FlagsInv` adds to `FlagsAgree` that a call into
  the core has a table, and that `initialized` is set in every call but the first two.
  `CountersListedOnce` is inductive: only registering and unmapping touch the table, and
  unmapping clears flag and entry together.
* **Joypads.**  `NoClosedPad` compares the players that point to a joystick with SDL's
  count of its uses, which the code keeps in step but nowhere writes down; two lemmas say
  what overwriting a pointer does to a number of users.  `NoGhostKey` is not inductive: a
  key event still in the queue will mark its input.  `KeysFollow` says of each of these
  that the key is down or comes up later in the queue (`ComesUp`).
* **Thread pool.**  `IInv` says what the counters count (`Counted`): `working_cnt` the
  workers between the take and the end of an item, `thread_cnt` those that have not left;
  that a worker has an item exactly then (`Sound`), and that each item is in one place
  (`Placed`).  From it follow
  the types, that a destroyed pool has no thread, and the refinement, action by action:
  taking an item is `Begin`, leaving it is `Complete`, the rest stutters.
* **Task queue.**  `TaskInv` shares the pushed tasks out (`Shared`): the two lists, the
  batch, the hands of the worker and the tasks that were told are disjoint and each list
  names a task once.  That needs to know which thread handles what (`Division`): the
  worker lives only while the queue is threaded, the main thread has a batch only while
  it is not, so a change of the implementation must find both at rest; and that a
  blocking task between its look and its push was pushed by nobody else (`AboutToPush`).
  `InTime`, the order of the running tasks, is carried along: `task_queue_put` looks at
  the last task before it searches, and the list must be in order for that to be enough.
  Everything the list operations do comes from one relation, `Inserted`: a put inserts,
  a removal undoes an insertion, a tail undoes one at the front.  `WaitsForUnscheduled` and
  `ResetReachesAll` follow since main holds no batch where they apply (`UnfinishedRuns`).
  `CallsLeft` concerns the bound `MaxCalls` alone, and is there for the type of `calls`.
  `TaskLife` is implemented with nothing further to assume: the task in hand is the
  worker's or the head of main's batch, never both (`HandsFull`, from `Division`), a task
  that goes from `running` to `batch` or back stays unfinished, so the changes of the
  implementation, the locks and the wake-ups stutter (`HiddenStep`), and each other step
  is one of the abstract ones.  That a handler ends a task which was cancelled is what
  the header asks of handlers, and an assumption of both specifications.
* **Window geometry.**  Two things hold of every size the code computes, whoever asks for
  it: fullscreen it reaches across the desktop one way and not over its edge the other
  (`LargestFits`), and it has the shape of the frames (`CalculateKeeps`).  The lemmas
  under them are about cutting quotients: the desktop's width over a ratio is at most its
  height exactly if the height times the ratio is at least the width (`QuotientFits`), and
  a cut side times a scale of at most five is less than five below the cut product
  (`ScaledQuotient`).  `SizedInv` adds to the types that the picture is that of the frames
  stored, which every step must restore that changes frame, mode, scale or window.  The
  bound of five stands in `ScalesAssumption`: the flags of `LMC_CreateWindow` have no
  larger one.
* **Frontend.**  `ProgramInv` relates `at` and `systemState` to the session: before a
  game was chosen there is no core (`NoCore`), and in `LoadSoftware` one is being loaded
  (`Loading`).  So `LMC_LoadCore` is called only on an
  empty session, and every step is one of the disciplined session or leaves it alone.
  `WholeInv` adds what a whole run has done so far: at most one library was ever opened
  and registered callbacks (`OneCore`: nothing loaded, unused or single), how far its
  session is at each point of `main` (`Underway`: its stage, the calls in order, what it
  is equipped with), and what is left when the window goes (`Left`).  `SessionAssumption`
  only says that the null pointer is no core and that callbacks are of the kinds there
  are.

Only model-checked: the liveness properties (`KeyReleased`, `WorkEnds`,
`LoneWaiterReturns`, `EveryTaskTold`, `CloseEnds`, `ChosenRuns`), which are beyond the
prover, as is `ENABLED`; and the departures, which are counterexamples.  Every invariant
and every action property of a passing run is stated by a theorem.

## What is not modelled, and why

* The text of core options: whose options are answered is modelled, how `first|second`
  is cut up is not.
* Pixels, tiles, colours, audio samples, log and error texts, paths: data no property
  here is about.
* The other environment commands answer from constants or log.
* `LMC_EnableKeyboardAsJoypadInput`, maps other than the defaults, hats, axes and the
  last input: the examples use none of them; hats and axes write through the same two
  functions.
* The rest of libretro-common and Tilengine: third-party, modelled by the use made of
  them (reference counts of libraries; which contexts of Tilengine there are, which is
  current and what it draws on).  They are 119 000 of the
  repository's 125 000 lines: decoders, archives, headers of OpenGL, a renderer.
  Their algorithms are data from end to end, most are not linked into LegacyMachine, and
  a model of a parser would be a transliteration of it.  `tpool.c` and `task_queue.c`
  are not linked either; they are modelled because they are the code here in which the
  order of steps matters most.  Of the 5 000 lines of LegacyMachine itself and the
  3 000 of its examples, what changes state is modelled, and the rest is declarations,
  pixels, text and comments.
* The axis of time: frames are steps, and the frame-time callback is told whose frame
  it is measured from, not how long it took.

Bounds that exist for TLC only (`MaxOpens`, `MaxLeaked`, `MaxPages`, `MaxGames`,
`MaxInstances`, `MaxEvents`, `MaxPosted`, `MaxCalls`, `MaxTime`, `MaxUsers`) stand in guards of the environment or the
application, never in a handler of the library, with two exceptions: `MaxLeaked` in
`InitializeWindow` and `MaxPages` in `Forward` on an empty list.
