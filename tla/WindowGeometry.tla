--------------------------- MODULE WindowGeometry ---------------------------
(***************************************************************************)
(* The size of the window and where frames are drawn in it: computed from  *)
(* the geometry of the frames, the scale among the flags, the overrides of *)
(* the application and the desktop, each time the window is initialised    *)
(* and each time the geometry changes.  From LegacyMachine/Window/Drivers/ *)
(* SDL2_WindowDriver.c and the parts of Window.c and SDL2_VideoDriver.c    *)
(* that lead to it.                                                        *)
(*                                                                         *)
(* An aspect ratio is a float, given as the exact fraction <<n, d>> it is, *)
(* so that 4/3 is not four thirds.  A product or quotient of it is cut to  *)
(* an int; that the double in between may be rounded is left out.  Where   *)
(* the exact value is within 2^-40 of a whole number, as with a ratio      *)
(* computed from a width and a height, a side may be one pixel less in the *)
(* program than here.                                                      *)
(*                                                                         *)
(* Which windows there are, and when they are made and made again, is      *)
(* WindowEvents' business: its steps are taken over, each with the sizes   *)
(* it computes.                                                            *)
(***************************************************************************)
EXTENDS WindowEvents, Integers, FiniteSetsExt

CONSTANTS
  Desktop,    \* SDL_GetDesktopDisplayMode: the width and height
  Menu,       \* the geometry of the menu
  Geometries, \* geometries cores announce
  Scales,     \* scales asked for in the flags, 0 if none
  Overrides   \* sizes given to LMC_SetBaseDimensionOverrides, None for one
              \* that is not positive both ways

Size == [width : Nat \ {0}, height : Nat \ {0}]

\* An aspect ratio is any float; of the sign only that of the numerator counts.
Aspect == Int \X (Nat \ {0})
Geometry == [width : Nat \ {0}, height : Nat \ {0}, aspect : Aspect]

ASSUME DesktopAssumption == Desktop \in Size
ASSUME GeometryAssumption == {Menu} \cup Geometries \subseteq Geometry
ASSUME ScalesAssumption == Scales \subseteq 0 .. 5

\* No size: the statics at the start, and no override.
None == [width |-> 0, height |-> 0]

ASSUME OverrideAssumption == Overrides \subseteq Size \cup {None}

VARIABLES
  fullscreen, \* LMC_CWF_FULLSCREEN is among the flags
  scale,      \* the scale among the flags
  frame,      \* video->frame: base_width, base_height and aspect_ratio
  override,   \* override_width and override_height, zero if none
  size,       \* window_info.width and height
  viewport,   \* viewport_info
  outdated    \* the overrides were set after the size was computed

geometry == <<fullscreen, scale, frame, override, size, viewport, outdated>>
sizedVars == <<vars, geometry>>

GeometryInit ==
  /\ fullscreen = FALSE
  /\ scale = 0
  /\ frame = [width |-> 0, height |-> 0, aspect |-> <<0, 1>>]
  /\ override = None
  /\ size = None
  /\ viewport = [x |-> 0, y |-> 0, w |-> 0, h |-> 0]
  /\ outdated = FALSE

-----------------------------------------------------------------------------
(* Sizes *)

Times(n, aspect) == (n * aspect[1]) \div aspect[2]
Over(n, aspect) == (n * aspect[2]) \div aspect[1]

\* The aspect ratio of a size, if none is given.  As a double the quotient may be
\* rounded, and a side computed back from it one pixel short.
AspectOf(aspect, s) ==
  IF aspect[1] <= 0 THEN <<s.width, s.height>> ELSE aspect

\* ResizeToAspect for a window: the longer side of s stays.
Windowed(aspect, s) ==
  IF s.width < s.height
  THEN [s EXCEPT !.width = Times(s.height, AspectOf(aspect, s))]
  ELSE [s EXCEPT !.height = Over(s.width, AspectOf(aspect, s))]

\* Mutant: the full width, whatever height it takes.
FillsWidth(aspect) == [Desktop EXCEPT !.height = Over(Desktop.width, aspect)]

\* ResizeToAspect for the desktop: the full width, or the full height if that
\* is too high.
Largest(aspect) ==
  IF Over(Desktop.width, aspect) > Desktop.height
  THEN [Desktop EXCEPT !.width = Times(Desktop.height, aspect)]
  ELSE [Desktop EXCEPT !.height = Over(Desktop.width, aspect)]

\* The optimal scale: up to three, as long as one more is below the desktop.
AutoScale(g) ==
  Max({1} \cup {s \in 2 .. 3 : /\ g.width * s < Desktop.width
                               /\ g.height * s < Desktop.height})

Scaled(s, f) == [width |-> s.width * f, height |-> s.height * f]

\* window_info.width and height for frames of geometry g under overrides o.
WindowedSize(f, g, o) ==
  Scaled(IF o # None THEN o
         ELSE Windowed(g.aspect, [width |-> g.width, height |-> g.height]),
         IF f = 0 THEN AutoScale(g) ELSE f)

FullscreenSize(g, o) ==
  Largest(IF o # None THEN <<o.width, o.height>>
                      ELSE AspectOf(g.aspect, Desktop))

\* viewport_info for a window of size s.
View(full, s) ==
  [x |-> IF full THEN (Desktop.width - s.width) \div 2 ELSE 0,
   y |-> IF full THEN (Desktop.height - s.height) \div 2 ELSE 0,
   w |-> s.width, h |-> s.height]

SizeFor(full, f, g, o) ==
  IF full THEN FullscreenSize(g, o) ELSE WindowedSize(f, g, o)

\* CalculateWindowedDimensions or CalculateFullscreenDimensions.
Calculate(full, f, g) ==
  /\ size' = SizeFor(full, f, g, override)
  /\ viewport' = View(full, SizeFor(full, f, g, override))
  /\ outdated' = FALSE

-----------------------------------------------------------------------------
(* Steps of the window with the sizes they compute, and calls of their own *)

\* Mutant: the new geometry is stored and the window left as it is.
StoresGeometry(g) ==
  /\ g # frame
  /\ frame' = g
  /\ UNCHANGED <<vars, fullscreen, scale, override, size, viewport, outdated>>

\* SDL2_SetVideoGeometry, called by a core at any time and by the menu in each
\* of its frames: a window that is open is resized.  One is open only after
\* window->initialized was set.
SetGeometry(g) ==
  /\ g # frame
  /\ frame' = g
  /\ IF window
     THEN Calculate(fullscreen, scale, g)
     ELSE UNCHANGED <<size, viewport, outdated>>
  /\ UNCHANGED <<vars, fullscreen, scale, override>>

\* The first LMC_CreateWindow.  What the calls to SDL2_SetVideoGeometry and
\* SDL2_InitializeWindow compute is the same.
SizedCreateWindow(full, asked_scale) ==
  /\ \E ok \in BOOLEAN : CreateWindow(ok)
  /\ fullscreen' = full
  /\ scale' = asked_scale
  /\ frame' = Menu
  /\ Calculate(full, asked_scale, Menu)
  /\ UNCHANGED override

\* LMC_LoadContent once the core has accepted content of geometry g.
SizedLoadContent(g) ==
  /\ \E ok \in BOOLEAN : LoadContent(ok)
  /\ frame' = g
  /\ Calculate(fullscreen, scale, g)
  /\ UNCHANGED <<fullscreen, scale, override>>

\* Alt+Enter initialises the window in the other mode.
SizedHandleEvent ==
  /\ HandleEvent
  /\ IF Head(queue) = "Alt+Enter"
     THEN /\ fullscreen' = ~fullscreen
          /\ Calculate(~fullscreen, scale, frame)
          /\ UNCHANGED <<scale, frame, override>>
     ELSE UNCHANGED geometry

\* Takes effect with the next size that is computed, and lifts the override if
\* the numbers are not both positive.  One so flat that the height of the desktop
\* comes out as zero is left out: in fullscreen and without a scale the driver
\* then divides by that height (SDL2_WindowDriver.c:130).
SetBaseDimensionOverrides(o) ==
  /\ override' = o
  /\ outdated' = TRUE
  /\ UNCHANGED <<vars, fullscreen, scale, frame, size, viewport>>

\* The steps of the window that compute no size.
Unsized ==
  /\ \/ \E e \in Events : User(e)
     \/ ShareWindow
     \/ DeleteWindow
     \/ CloseCore
     \/ Enter
     \/ Return
  /\ UNCHANGED geometry

SizedNext ==
  \/ \E full \in BOOLEAN, f \in Scales : SizedCreateWindow(full, f)
  \/ \E g \in Geometries : SizedLoadContent(g)
  \/ SizedHandleEvent
  \/ \E g \in {Menu} \cup Geometries : SetGeometry(g)
  \/ \E o \in Overrides : SetBaseDimensionOverrides(o)
  \/ Unsized

SizedSpec == Init /\ GeometryInit /\ [][SizedNext]_sizedVars

-----------------------------------------------------------------------------
(* Properties *)

\* The window of the resolution in pixels, where no other size is asked for.
Plain == window /\ ~fullscreen /\ ~outdated /\ override = None

\* Window.c:39: fullscreen, the picture uses the desktop, letterboxed or
\* pillarboxed: it lies inside, centered, and reaches across it one way at
\* least, whatever calls came before (ResizeToAspect,
\* CalculateFullscreenDimensions).
FullscreenFits ==
  window /\ fullscreen =>
    /\ viewport.x >= 0 /\ viewport.y >= 0
    /\ Desktop.width - viewport.w - 2 * viewport.x \in {0, 1}
    /\ Desktop.height - viewport.h - 2 * viewport.y \in {0, 1}
    /\ viewport.w = Desktop.width \/ viewport.h = Desktop.height

\* The picture has the shape of the frames: less than a pixel of scale five away
\* from the aspect ratio announced last, after any sequence of cores, modes and
\* failures (SDL2_SetVideoGeometry, SDL2_ResizeToAspect).
ShapeFollowsFrame ==
  window /\ ~outdated /\ override = None /\ frame.aspect[1] > 0 =>
    \/ Over(viewport.w, frame.aspect) - viewport.h \in 0 .. 4
    \/ Times(viewport.h, frame.aspect) - viewport.w \in 0 .. 4

\* libretro.h:3377: an aspect ratio of zero or less stands for that of
\* base_width and base_height, fullscreen too.
DefaultAspect ==
  window /\ fullscreen /\ ~outdated /\ override = None /\ frame.aspect[1] <= 0
    => size = Largest(<<frame.width, frame.height>>)

\* Window.c:41: a windowed window is an integer multiple of the resolution, if
\* its aspect ratio is that of the resolution.
WholeMultiple ==
  Plain /\ Over(frame.width, frame.aspect) \in frame.height - 1 .. frame.height
    => \E s \in 1 .. 5 : size = Scaled(frame, s)

\* Window.c:41: the maximum possible multiple, unless the flags name another.
MaximalScale ==
  Plain /\ scale = 0 =>
    \A s \in 1 .. 5 : /\ frame.width * s <= Desktop.width
                      /\ frame.height * s <= Desktop.height
                      => size.width >= frame.width * s

\* Window.c:163: overrides force a specific window size.
ForcedSize == window /\ ~fullscreen /\ ~outdated /\ override # None
                => size = override

=============================================================================
