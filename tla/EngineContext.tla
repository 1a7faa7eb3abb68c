---------------------------- MODULE EngineContext ----------------------------
(***************************************************************************)
(* The engine contexts of LMC_Init, LMC_SetContext, LMC_Deinit and         *)
(* LMC_DeleteContext, and LMC_SetMenuTileEngineContext, which changes the  *)
(* Tilengine context that draws the menu.  From LegacyMachine.c; the       *)
(* managers a context points to are static (SystemManager.c,               *)
(* Menu/MenuManager.c), so all contexts share what hangs off them: the     *)
(* core structure, the framebuffer of the menu and its Tilengine context.  *)
(*                                                                         *)
(* A pointer to a block is "null", "live" or "freed".  An address may be   *)
(* given again once it was freed.  A size stands for width and height.     *)
(***************************************************************************)
EXTENDS Naturals

CONSTANTS
  Contexts,   \* addresses of engine contexts
  Tiles,      \* addresses of Tilengine contexts
  Null,
  MinSize,    \* 8: the least resolution of a menu
  Sizes       \* the sizes an application asks for

ASSUME NullAssumption == Null \notin Contexts \cup Tiles
ASSUME SizesAssumption == Sizes \subseteq Nat /\ MinSize \in Nat

VARIABLES
  contexts,       \* the engine contexts that are allocated
  legacy_machine, \* the current one
  current_core,   \* system_manager.current_core
  framebuffer,    \* menu_manager.framebuffer.data
  tile_engine,    \* menu_manager.tile_engine
  base_size,      \* menu_manager.av_info.geometry: the resolution of the menu
  max_size,       \*   and that of the framebuffer
  tiles,          \* the Tilengine contexts that are allocated
  engine,         \* the current one
  width,          \* the size of each
  targets,        \* those that draw into the framebuffer of the menu
  refused,        \* LMC_SetMenuTileEngineContext last returned false
  several,        \* a context was made beside another, or deleted by LMC_DeleteContext
  fault,          \* a null or freed pointer was followed: the process ends
  \* What became of the blocks, for the properties alone:
  own,            \* the Tilengine contexts the application is to delete
  strayed,        \* those of the menu that LMC_Deinit left, a refused one current
  lost            \* what is live after the manager's pointer to it was overwritten

system == <<current_core, framebuffer>>
menu == <<tile_engine, base_size, max_size>>
tilengine == <<tiles, engine, width, targets>>
history == <<own, strayed, lost>>
vars == <<contexts, legacy_machine, system, menu, tilengine, refused, several, fault, history>>

Init ==
  /\ contexts = {}
  /\ legacy_machine = Null
  /\ current_core = "null"
  /\ framebuffer = "null"
  /\ tile_engine = Null
  /\ base_size = 0
  /\ max_size = 0
  /\ tiles = {}
  /\ engine = Null
  /\ width = [t \in Tiles |-> 0]
  /\ targets = {}
  /\ refused = FALSE
  /\ several = FALSE
  /\ fault = "none"
  /\ own = {}
  /\ strayed = {}
  /\ lost = {}

Fails(f) ==
  /\ fault' = f
  /\ UNCHANGED <<contexts, legacy_machine, system, menu, tilengine, refused, several, history>>

-----------------------------------------------------------------------------
(* LMC_Init *)

\* Mutant: no check against the maximum.
NoSizeTooLarge(s, m) == FALSE

TooSmall(s) == s < MinSize
TooLarge(s, m) == s > m

\* A block is lost if its pointer is assigned while it is live.
Overwritten(name, pointer) == IF pointer = "live" THEN {name} ELSE {}

\* create_context of Tilengine: the first context becomes the current one.
NewTiles(t, size) ==
  /\ t \notin tiles
  /\ width' = [width EXCEPT ![t] = size]

FirstTiles(t) == IF engine = Null THEN t ELSE engine

\* The early returns before system is set, for a parameter out of range or a
\* Tilengine that cannot be made: LMC_DeleteContext follows the null pointer.
InitRefused(base, max) ==
  /\ TooSmall(base) \/ TooLarge(base, max)
  /\ Fails("null")

\* What is lost as LMC_Init assigns to the static managers.
LostAtStart ==
  lost \cup Overwritten("current_core", current_core)
       \cup Overwritten("framebuffer", framebuffer)
       \cup ({tile_engine} \cap tiles)

\* What it assigns.
SetManagers(t, base, max, core, buffer) ==
  /\ tile_engine' = t
  /\ base_size' = base
  /\ max_size' = max
  /\ current_core' = core
  /\ framebuffer' = buffer
  /\ several' = (several \/ contexts # {})

\* There is no memory for the core structure.  LMC_DeleteContext finds a null
\* core, the new framebuffer and whatever context Tilengine has current.
InitOutOfMemory(t, base, max) ==
  /\ NewTiles(t, base)
  /\ tiles' = (tiles \cup {t}) \ {FirstTiles(t)}
  /\ engine' = Null
  /\ targets' = {}
  /\ SetManagers(t, base, max, "null", "freed")
  /\ own' = own \ {FirstTiles(t)}
  /\ strayed' = strayed \ {FirstTiles(t)}
  /\ lost' = LostAtStart \ {FirstTiles(t)}
  /\ UNCHANGED <<contexts, legacy_machine, refused, fault>>

\* Success.  TLN_SetRenderTarget acts on the context Tilengine has current.
InitSucceeds(c, t, base, max) ==
  /\ c \notin contexts
  /\ NewTiles(t, base)
  /\ contexts' = contexts \cup {c}
  /\ legacy_machine' = IF legacy_machine = Null THEN c ELSE legacy_machine
  /\ tiles' = tiles \cup {t}
  /\ engine' = FirstTiles(t)
  /\ targets' = {FirstTiles(t)}
  /\ SetManagers(t, base, max, "live", "live")
  /\ lost' = LostAtStart
  /\ UNCHANGED <<refused, fault, own, strayed>>

\* Both globals are used on the way, LMC_SetLastError reads the first.
Dangling ==
  \/ legacy_machine \notin contexts \cup {Null}
  \/ engine \notin tiles \cup {Null}

LMC_Init ==
  /\ fault = "none"
  /\ \E base, max \in Sizes :
       \/ InitRefused(base, max)
       \/ ~TooSmall(base) /\ ~TooLarge(base, max) /\ Dangling /\ Fails("freed")
       \/ /\ ~TooSmall(base) /\ ~TooLarge(base, max) /\ ~Dangling
          /\ \E t \in Tiles :
               \/ InitOutOfMemory(t, base, max)
               \/ \E c \in Contexts : InitSucceeds(c, t, base, max)

-----------------------------------------------------------------------------
(* The other calls on engine contexts *)

LMC_SetContext(c) ==
  /\ fault = "none"
  /\ c \in contexts
  /\ legacy_machine' = c
  /\ UNCHANGED <<contexts, system, menu, tilengine, refused, several, fault, history>>

\* Mutant: nothing is freed.
NotFreed(pointer) == pointer

\* if (pointer) free(pointer); the pointer itself stays.
Freed(pointer) == IF pointer = "null" THEN "null" ELSE "freed"

\* Mutant: the current context is forgotten, not deleted.
ForgetTiles ==
  /\ engine' = Null
  /\ UNCHANGED <<tiles, width>>

\* TLN_Deinit, called when the menu has a Tilengine context, deletes the
\* current one.
DeinitTiles ==
  /\ tiles' = tiles \ {engine}
  /\ engine' = Null
  /\ UNCHANGED width

\* LMC_DeleteContext would free what was freed before.
FreesTwice ==
  \/ "freed" \in {current_core, framebuffer}
  \/ engine \notin tiles \cup {Null}

\* LMC_DeleteContext of a context that is allocated: the core structure,
\* Tilengine and the framebuffer go, whichever context they were made for.
DeleteContext(c) ==
  /\ contexts' = contexts \ {c}
  /\ current_core' = Freed(current_core)
  /\ framebuffer' = Freed(framebuffer)
  /\ DeinitTiles
  /\ targets' = {}
  /\ own' = own \ {engine}
  /\ strayed' = (IF refused THEN strayed \cup ({tile_engine} \cap tiles)
                 ELSE strayed) \ {engine}
  /\ lost' = lost \ {engine}
  /\ UNCHANGED <<menu, fault>>

LMC_DeleteContext(c) ==
  /\ fault = "none"
  /\ c \in contexts
  /\ IF FreesTwice
     THEN Fails("freed")
     ELSE /\ DeleteContext(c)
          /\ several' = TRUE
          /\ UNCHANGED <<legacy_machine, refused>>

\* Mutant: the current context is not reset.
SameMachine == legacy_machine

\* legacy_machine = NULL;
NoMachine == Null

\* A second call, as ErrorQuit makes it (VirtualMachine.cpp:142, then
\* BasicMachine.cpp:85), finds no context.
LMC_Deinit ==
  /\ fault = "none"
  /\ legacy_machine # Null
  /\ IF FreesTwice \/ Dangling
     THEN Fails("freed")
     ELSE /\ DeleteContext(legacy_machine)
          /\ legacy_machine' = NoMachine
          /\ refused' = FALSE
          /\ UNCHANGED several

-----------------------------------------------------------------------------
(* Tilengine contexts *)

\* Mutant: the pointer of the menu stays.
OldTiles(t) == tile_engine

\* tile_engine = TLN_GetContext(), which is t by then.
MenuTiles(t) == t

\* TLN_SetContext comes before the checks: a context that is refused stays
\* the current one of Tilengine.  One that is accepted becomes LMC_Deinit's to
\* delete, and the one it replaces the application's (LegacyMachine.c:494).
LMC_SetMenuTileEngineContext(t) ==
  /\ fault = "none"
  /\ legacy_machine \in contexts
  /\ t \in tiles
  /\ engine' = t
  /\ IF TooLarge(width[t], max_size) \/ TooSmall(width[t])
     THEN refused' = TRUE /\ UNCHANGED <<menu, history>>
     ELSE /\ refused' = FALSE
          /\ tile_engine' = MenuTiles(t)
          /\ base_size' = width[t]
          /\ own' = (own \cup ({tile_engine} \cap tiles)) \ {t}
          /\ strayed' = strayed \ {t}
          /\ lost' = lost \ {t}
          /\ UNCHANGED max_size
  /\ UNCHANGED <<contexts, legacy_machine, system, tiles, width, targets, several, fault>>

\* TLN_Init by the application, while LMC_Init has made the first.
TLN_Init(t, size) ==
  /\ fault = "none"
  /\ legacy_machine \in contexts /\ engine # Null
  /\ NewTiles(t, size)
  /\ tiles' = tiles \cup {t}
  /\ own' = own \cup {t}
  /\ UNCHANGED <<contexts, legacy_machine, system, menu, engine, targets, refused>>
  /\ UNCHANGED <<several, fault, strayed, lost>>

\* TLN_DeleteContext of an additional context, one the menu does not use, at
\* any time.
TLN_DeleteContext(t) ==
  /\ fault = "none"
  /\ t \in tiles
  /\ t # tile_engine \/ legacy_machine = Null
  /\ tiles' = tiles \ {t}
  /\ targets' = targets \ {t}
  /\ own' = own \ {t}
  /\ strayed' = strayed \ {t}
  /\ lost' = lost \ {t}
  /\ UNCHANGED <<contexts, legacy_machine, system, menu, engine, width, refused>>
  /\ UNCHANGED <<several, fault>>

\* The application has the current context draw into LMC_GetMenuRenderTarget.
TLN_SetRenderTarget ==
  /\ fault = "none"
  /\ legacy_machine \in contexts /\ engine # Null
  /\ framebuffer = "live"
  /\ IF engine \in tiles
     THEN /\ targets' = targets \cup {engine}
          /\ UNCHANGED <<tiles, engine, width>>
          /\ UNCHANGED <<contexts, legacy_machine, system, menu, refused, several>>
          /\ UNCHANGED <<fault, history>>
     ELSE Fails("freed")

-----------------------------------------------------------------------------

Next ==
  \/ LMC_Init
  \/ \E c \in Contexts : LMC_SetContext(c) \/ LMC_DeleteContext(c)
  \/ LMC_Deinit
  \/ \E t \in Tiles :
       \/ LMC_SetMenuTileEngineContext(t)
       \/ TLN_DeleteContext(t)
       \/ \E size \in Sizes : TLN_Init(t, size)
  \/ TLN_SetRenderTarget

Spec == Init /\ [][Next]_vars

-----------------------------------------------------------------------------
(* Properties *)

Pointers == {"null", "live", "freed"}

\* Every variable has its type (MainEngine.h, MenuManager.h), and the menu has
\* no resolution LMC_Init refuses.
TypeOK ==
  /\ contexts \subseteq Contexts
  /\ legacy_machine \in Contexts \cup {Null}
  /\ current_core \in Pointers
  /\ framebuffer \in Pointers
  /\ tile_engine \in Tiles \cup {Null}
  /\ base_size \in Nat /\ max_size \in Nat
  /\ tile_engine # Null => base_size >= MinSize /\ max_size >= MinSize
  /\ tiles \subseteq Tiles
  /\ engine \in Tiles \cup {Null}
  /\ width \in [Tiles -> Nat]
  /\ targets \subseteq tiles
  /\ refused \in BOOLEAN
  /\ several \in BOOLEAN
  /\ fault \in {"none", "null", "freed"}
  /\ own \subseteq tiles
  /\ strayed \subseteq tiles
  /\ lost \subseteq {"current_core", "framebuffer"} \cup tiles

\* An application with one context at a time can use it: what the managers
\* point to is allocated, the menu draws with the Tilengine context that is
\* current, and at the resolution of that context (LMC_Init,
\* LMC_SetMenuTileEngineContext).
EngineWhole ==
  legacy_machine # Null /\ ~several =>
    /\ contexts = {legacy_machine}
    /\ current_core = "live"
    /\ framebuffer = "live"
    /\ tile_engine \in tiles
    /\ base_size = width[tile_engine]
    /\ ~refused => engine = tile_engine

\* After LMC_Deinit what is left of the engine, however often it was started
\* before, are Tilengine contexts: those the application is to delete, which it
\* made with TLN_Init or replaced by LMC_SetMenuTileEngineContext
\* (LegacyMachine.c:494: "LMC_Deinit will only delete the active Tilengine
\* context"), and, where LMC_SetMenuTileEngineContext had refused a context and
\* so left it active, the one of the menu.  No start overwrites the pointer to
\* a live block but for that of such a stray context.
NothingHeld ==
  ~several =>
    /\ lost \subseteq strayed
    /\ legacy_machine = Null =>
         /\ contexts = {}
         /\ "live" \notin {current_core, framebuffer}
         /\ engine = Null
         /\ tiles \subseteq own \cup strayed

\* A Tilengine context that draws into the framebuffer of the menu fits in it
\* (LegacyMachine.c:257, allocated by the largest size).
TargetFits ==
  legacy_machine # Null /\ ~several /\ ~refused =>
    (engine \in targets => width[engine] <= max_size)

\* Nothing is used or freed after it was freed as long as the application has
\* one context at a time and no Tilengine context was refused.
NoFreedUse == fault = "freed" => several \/ refused

\* LegacyMachine.c:91: "Set all values to NULL if not using a frontend menu".
\* LMC_Init survives whatever parameters it is given.
InitSurvives == fault # "null"

\* LegacyMachine.c:494: LMC_Deinit deletes the active Tilengine context, which
\* is the one LMC_GetMenuTileEngineContext returns.
ActiveIsMenus == legacy_machine # Null /\ ~several => engine = tile_engine

\* LegacyMachine.c:377: LMC_DeleteContext deletes an explicit context, and
\* leaves the others usable.
OthersUsable == legacy_machine \in contexts => current_core = "live"

=============================================================================
