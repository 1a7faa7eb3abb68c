---------------------------- MODULE VideoPipeline ---------------------------
(***************************************************************************)
(* The SDL2 video driver: the window and renderer, the backbuffer texture, *)
(* the CRT filter over it, the frame geometry and pixel format that menu   *)
(* and core set in turn, and Tilengine's render target.  From              *)
(* source/LegacyMachine/Video/Drivers/SDL2_VideoDriver.c, Video/Filters/   *)
(* SDL2_CRTFilter.c and the parts of Window.c, SDL2_WindowDriver.c and     *)
(* LegacyMachine.c that drive it.                                          *)
(*                                                                         *)
(* At most one backbuffer exists at a time, so a pointer to it or to its   *)
(* pixels is "texture", and turns "dangling" when that texture goes, even  *)
(* if another takes its place.  A size stands for width and height.        *)
(***************************************************************************)
EXTENDS Naturals

CONSTANTS
  MenuSize,        \* size of the menu, from LMC_Init
  CoreSizes,       \* sizes a core may announce
  MaxLeaked        \* bound: SDL windows no handle leads to

ASSUME SizeAssumption == MenuSize \in Nat \ {0} /\ CoreSizes \subseteq Nat \ {0}
ASSUME MaxLeakedAssumption == MaxLeaked \in Nat

VARIABLES
  created,     \* LMC_CreateWindow succeeded: params->instances is not zero
  window,      \* the static SDL_Window pointer is not null
  leaked,      \* SDL windows whose pointer was overwritten
  renderer,    \* the static SDL_Renderer pointer is not null
  backbuffer,  \* size of the backbuffer texture, NoTexture if there is none
  framebuffer, \* where the last lock left the static framebuffer pointer
  target,      \* Tilengine's render target
  pixels,      \* what the backbuffer shows
  crt,         \* the CRT handler
  filter,      \* video->filter: enabled and blur
  base,        \* frame->base_width and base_height
  format,      \* frame->pixel_format
  running,     \* current_core->running
  core_format, \* the format the running core draws in
  announced,   \* whether it announced that format
  resized      \* whether it changed its geometry under this backbuffer

sdl == <<created, window, leaked, renderer>>
textures == <<backbuffer, framebuffer, target, pixels, resized>>
frame == <<base, format>>
core == <<running, core_format, announced>>
vars == <<sdl, textures, crt, filter, frame, core>>

NoTexture == 0
Sizes == {MenuSize} \cup CoreSizes
Formats == {"0RGB1555", "XRGB8888", "RGB565"}
Pointers == {"null", "texture", "dangling", "menu", "core"}

NoCrt == [null |-> TRUE, framebuffer |-> "null", size |-> 0, blur |-> FALSE]

\* What is left of a pointer once the backbuffer is destroyed.
Freed(p) == IF p = "texture" THEN "dangling" ELSE p
FreePointers == framebuffer' = Freed(framebuffer) /\ target' = Freed(target)

\* After LMC_Init: Tilengine draws into the menu's own buffer.
Init ==
  /\ created = FALSE
  /\ window = FALSE
  /\ leaked = 0
  /\ renderer = FALSE
  /\ backbuffer = NoTexture
  /\ framebuffer = "null"
  /\ target = "menu"
  /\ pixels = "blank"
  /\ crt = NoCrt
  /\ filter = [enabled |-> TRUE, blur |-> FALSE]
  /\ base = 0
  /\ format = "0RGB1555"
  /\ running = FALSE
  /\ core_format = "0RGB1555"
  /\ announced = TRUE
  /\ resized = FALSE

-----------------------------------------------------------------------------
(* Textures and the CRT handler *)

\* The texture SDL_CreateTexture makes with the renderer, if there is one.
Texture(made, s) == IF made THEN s ELSE NoTexture

\* InitializeBackbuffer: the old texture goes and a new one, t, takes its place.
InitializeBackbuffer(t) ==
  /\ backbuffer' = t
  /\ pixels' = "blank"
  /\ resized' = FALSE
  /\ FreePointers

\* SDL2_CRTCreate on the new backbuffer t.
NewCrt(t, blur) ==
  [null |-> FALSE,
   framebuffer |-> IF t = NoTexture THEN "null" ELSE "texture",
   size |-> t,
   blur |-> blur]

\* SDL2_ConfigCRTEffect.
ConfigCRTEffect(blur) ==
  /\ filter' = [enabled |-> TRUE, blur |-> blur]
  /\ InitializeBackbuffer(Texture(renderer, base))
  /\ crt' = NewCrt(Texture(renderer, base), blur)
  /\ UNCHANGED <<sdl, frame, core>>

\* SDL2_EnableRFBlur changes the handler, not the filter it is created from.
EnableRFBlur(mode) ==
  /\ ~crt.null
  /\ crt' = [crt EXCEPT !.blur = mode]
  /\ UNCHANGED <<sdl, textures, filter, frame, core>>

\* A key event needs a window to be typed into.
KeyEvent == created /\ (window \/ leaked > 0)

\* Mutant: the handler keeps drawing the texture it was created with.
KeepRenderTarget == [crt EXCEPT !.framebuffer = Freed(@)]

\* SDL2_CRTSetRenderTarget: the handler's size stays what it was.
CRTSetRenderTarget ==
  IF crt.null \/ backbuffer' = NoTexture
  THEN [crt EXCEPT !.framebuffer = Freed(@)]
  ELSE [crt EXCEPT !.framebuffer = "texture"]

\* SDL2_ToggleCRTEffect, on the CRT key.
ToggleCRTEffect ==
  /\ KeyEvent
  /\ filter' = [filter EXCEPT !.enabled = ~@]
  /\ InitializeBackbuffer(Texture(renderer, base))
  /\ crt' = CRTSetRenderTarget
  /\ UNCHANGED <<sdl, frame, core>>

\* SDL2_DisableCRTEffect leaves the handler on the texture it destroys.
DisableCRTEffect ==
  /\ filter' = [filter EXCEPT !.enabled = FALSE]
  /\ InitializeBackbuffer(Texture(renderer, base))
  /\ crt' = [crt EXCEPT !.framebuffer = Freed(@)]
  /\ UNCHANGED <<sdl, frame, core>>

-----------------------------------------------------------------------------
(* The window *)

\* SDL2_InitializeWindow for frames of size s.  It takes no notice of a window
\* it has open: if the handle is in use the window behind it is lost.  A
\* failure to create window or renderer closes all there is.  Left out, here and
\* wherever a backbuffer is made, are the failures nobody looks at: SDL_Create-
\* Texture with a renderer that is there (SDL2_VideoDriver.c:83), which leaves
\* a null backbuffer, and the calloc of SDL2_CRTCreate (SDL2_CRTFilter.c:56),
\* which leaves a null handler.
InitializeWindow(ok, inUse, s) ==
  /\ inUse => leaked < MaxLeaked
  /\ window' = ok
  /\ leaked' = IF inUse THEN leaked + 1 ELSE leaked
  /\ renderer' = ok
  /\ InitializeBackbuffer(Texture(ok, s))
  /\ crt' = IF ok THEN NewCrt(s, filter.blur) ELSE NoCrt

\* Mutant: the backbuffer pointer is not cleared.
CloseVideoKeepsBackbuffer ==
  /\ crt' = NoCrt
  /\ renderer' = FALSE
  /\ FreePointers
  /\ UNCHANGED <<backbuffer, pixels, resized>>

\* SDL2_CloseVideo.
CloseVideo ==
  /\ crt' = NoCrt
  /\ backbuffer' = NoTexture
  /\ pixels' = "blank"
  /\ resized' = FALSE
  /\ renderer' = FALSE
  /\ FreePointers

\* LMC_CreateWindow, the first instance: the menu's geometry and format.  A call
\* whose SDL_Init fails (Window.c:61) changes nothing and is a stuttering step.
CreateWindow(nearest, ok) ==
  /\ ~created
  /\ filter' = [filter EXCEPT !.enabled = ~nearest]
  /\ base' = MenuSize
  /\ format' = "XRGB8888"
  /\ InitializeWindow(ok, window, MenuSize)
  /\ created' = ok
  /\ UNCHANGED core

\* LMC_DeleteWindow, the last instance.  SDL_Quit takes the lost windows along.
DeleteWindow ==
  /\ created
  /\ created' = FALSE
  /\ running' = FALSE
  /\ CloseVideo
  /\ window' = FALSE
  /\ leaked' = 0
  /\ UNCHANGED <<filter, frame, core_format, announced>>

\* Alt+Enter: close, then initialise in the other mode.
ToggleFullscreen(ok) ==
  /\ KeyEvent
  /\ InitializeWindow(ok, FALSE, base)
  /\ UNCHANGED <<created, filter, frame, core>>

-----------------------------------------------------------------------------
(* Menu and core *)

\* Mutant: the window is initialised before the geometry is set.
ShowContentFirst(s, ok) ==
  /\ InitializeWindow(ok, window, base)
  /\ base' = s

\* The geometry of the content, and a window for it.
ShowContent(s, ok) ==
  /\ base' = s
  /\ InitializeWindow(ok, window, s)

\* Mutant: a core cannot change the format of the menu.
IgnoreFormat(f) == format' = format

\* SDL2_SetVideoPixelFormat.
SetPixelFormat(f) == format' = f

\* LMC_LoadContent with a core that draws frames of size s in format f, which
\* it announces while it loads, or does not.  That the window could not be
\* initialised goes unnoticed.
LoadContent(s, f, told, ok) ==
  /\ created
  /\ ~running
  /\ \/ told /\ SetPixelFormat(f)
     \/ ~told /\ f = "0RGB1555" /\ UNCHANGED format
  /\ announced' = told
  /\ core_format' = f
  /\ UNCHANGED <<created, filter>>
  /\ ShowContent(s, ok)
  /\ running' = TRUE

\* SDL2_SetVideoGeometry, asked for by a running core: sizes change, textures
\* do not.
SetGeometry(s) ==
  /\ running
  /\ base' = s
  /\ resized' = TRUE
  /\ UNCHANGED <<sdl, backbuffer, framebuffer, target, pixels, crt, filter, format, core>>

\* LMC_CloseCore.
CloseCore ==
  /\ running
  /\ running' = FALSE
  /\ UNCHANGED <<sdl, textures, crt, filter, frame, core_format, announced>>

\* Locking sets the pointer, unless there is no texture to lock.
Locked == IF backbuffer = NoTexture THEN framebuffer ELSE "texture"

\* SDL2_RefreshVideo from the menu, after Tilengine has drawn a frame if one
\* is due, where the frame before has left its target.
MenuFrame(due) ==
  /\ ~running
  /\ created
  /\ format' = "XRGB8888"
  /\ base' = MenuSize
  /\ framebuffer' = Locked
  /\ target' = Locked
  /\ pixels' = IF due /\ target = "texture" THEN "menu" ELSE pixels
  /\ UNCHANGED <<sdl, backbuffer, resized, crt, filter, core>>

\* SDL2_RefreshVideo from the core.  A frame in the backbuffer's own format is
\* pointed at and never copied; a duped frame (no data) is taken for the menu's.
CoreFrame(data) ==
  /\ running
  /\ \/ /\ data
        /\ format # "XRGB8888"
        /\ framebuffer' = Locked
        /\ pixels' = "core"
        /\ UNCHANGED target
     \/ /\ data
        /\ format = "XRGB8888"
        /\ framebuffer' = "core"
        /\ UNCHANGED <<target, pixels>>
     \/ /\ ~data
        /\ framebuffer' = Locked
        /\ target' = Locked
        /\ UNCHANGED pixels
  /\ UNCHANGED <<sdl, backbuffer, resized, crt, filter, frame, core>>

-----------------------------------------------------------------------------

Next ==
  \/ \E blur \in BOOLEAN : ConfigCRTEffect(blur) \/ EnableRFBlur(blur)
  \/ ToggleCRTEffect
  \/ DisableCRTEffect
  \/ \E nearest, ok \in BOOLEAN : CreateWindow(nearest, ok)
  \/ DeleteWindow
  \/ \E ok \in BOOLEAN : ToggleFullscreen(ok)
  \/ \E s \in CoreSizes, f \in Formats, told, ok \in BOOLEAN :
       LoadContent(s, f, told, ok)
  \/ \E s \in CoreSizes : SetGeometry(s)
  \/ CloseCore
  \/ \E due \in BOOLEAN : MenuFrame(due)
  \/ \E data \in BOOLEAN : CoreFrame(data)

Spec == Init /\ [][Next]_vars

-----------------------------------------------------------------------------
(* Properties *)

\* Every variable has its type (SDL2_VideoDriver.c, VideoDriver.h).
TypeOK ==
  /\ created \in BOOLEAN /\ window \in BOOLEAN /\ renderer \in BOOLEAN
  /\ leaked \in 0 .. MaxLeaked
  /\ backbuffer \in Sizes \cup {NoTexture}
  /\ framebuffer \in Pointers /\ target \in Pointers
  /\ pixels \in {"blank", "menu", "core"}
  /\ crt \in [null : BOOLEAN, framebuffer : {"null", "texture", "dangling"},
              size : Sizes \cup {0}, blur : BOOLEAN]
  /\ filter \in [enabled : BOOLEAN, blur : BOOLEAN]
  /\ base \in Sizes \cup {0}
  /\ format \in Formats /\ core_format \in Formats
  /\ running \in BOOLEAN /\ announced \in BOOLEAN /\ resized \in BOOLEAN

\* However windows open, fail to open and close, the driver's pointers are set
\* and cleared together: a window has a renderer, a backbuffer and a CRT
\* handler, and without one nothing of it is left (SDL2_InitializeWindow,
\* SDL2_CloseWindow, SDL2_CloseVideo).
PipelineWhole ==
  /\ window = renderer
  /\ renderer <=> backbuffer # NoTexture
  /\ renderer => ~crt.null

\* The CRT filter, when a frame is drawn through it, unlocks and copies the
\* texture that was locked: every way to replace the backbuffer tells the
\* handler or turns the filter off (SDL2_RefreshVideo, SDL2_CRTDraw).
CrtOnBackbuffer ==
  filter.enabled /\ ~crt.null /\ backbuffer # NoTexture
    => crt.framebuffer = "texture"

\* A running core draws on a backbuffer made for its frames, whatever sizes
\* menu and cores had before, unless it changed its geometry since
\* (SDL2_SetVideoGeometry, InitializeBackbuffer).
BackbufferMatches ==
  running /\ ~resized /\ backbuffer # NoTexture => backbuffer = base

\* libretro.h:937 lets a core change its geometry while it runs: its frames fit
\* the backbuffer they are converted into all the same.
CoreFrameFits == running /\ backbuffer # NoTexture => base <= backbuffer

\* The frames of a core that announced its format are read in that format until
\* the core is closed (SDL2_SetVideoPixelFormat, the menu branch).
FormatAgrees == running /\ announced => format = core_format

\* libretro.h:566: the format is 0RGB1555 for a core that announces none.
DefaultFormat == running /\ ~announced => format = core_format

\* Window.c:52: there is a single instance of the window.
OneWindow == leaked = 0

\* Tilengine.c:363: the surface Tilengine draws on is maintained, hence there
\* and large enough, whenever it draws a frame of the menu.
MenuDrawsInBounds ==
  [][MenuFrame(TRUE) =>
       /\ target \in {"menu", "texture"}
       /\ target = "texture" => MenuSize <= backbuffer]_vars

\* LegacyMachine.c:1390: the frame a core has run is the frame that is drawn.
CoreFrameDrawn ==
  [][CoreFrame(TRUE) /\ backbuffer # NoTexture => pixels' = "core"]_vars

\* SDL2_CRTFilter.c:64: the size the filter blurs is the framebuffer's.
BlurInBounds ==
  [][(\E due \in BOOLEAN : MenuFrame(due)) /\ filter.enabled /\ ~crt.null
       /\ crt.blur /\ backbuffer # NoTexture
     => crt.size <= backbuffer]_vars

=============================================================================
