---------------------------- MODULE WindowProofs ----------------------------
(***************************************************************************)
(* Proofs about WindowEvents, for every number of users and events, and    *)
(* about WindowGeometry, for every desktop, every geometry and every size  *)
(* an application may force.                                               *)
(***************************************************************************)
EXTENDS WindowGeometry, TLAPS

\* Each variable has its type, spelled out for the provers.
Typed ==
  /\ instances \in 0 .. MaxUsers
  /\ running \in BOOLEAN
  /\ window \in BOOLEAN
  /\ initialized \in BOOLEAN
  /\ sdl \in BOOLEAN
  /\ joysticks \in BOOLEAN
  /\ core \in BOOLEAN
  /\ processing \in BOOLEAN
  /\ result \in BOOLEAN
  /\ asked \in BOOLEAN
  /\ queue \in Seq(Events)

\* Without a user there is no window to press Alt+Enter in.
NoToggleWithoutUsers ==
  instances = 0 => \A k \in 1 .. Len(queue) : queue[k] # "Alt+Enter"

\* Inside the event loop the window ends only because the user asked.
EndedWasAsked == processing /\ ~running => asked

Inv ==
  /\ Typed
  /\ NothingOutlivesUsers
  /\ NoToggleWithoutUsers
  /\ EndedWasAsked

LEMMA InitInv == Init => Inv
<1> SUFFICES ASSUME Init PROVE Inv
  OBVIOUS
<1>1. 0 \in 0 .. MaxUsers BY UsersAssumption
<1>2. Typed
  <2>1. instances \in 0 .. MaxUsers BY <1>1 DEF Init
  <2>2. queue \in Seq(Events) BY DEF Init
  <2>3. /\ running \in BOOLEAN /\ window \in BOOLEAN /\ initialized \in BOOLEAN
        /\ sdl \in BOOLEAN /\ joysticks \in BOOLEAN /\ core \in BOOLEAN
        /\ processing \in BOOLEAN /\ result \in BOOLEAN /\ asked \in BOOLEAN
    BY DEF Init
  <2> QED BY <2>1, <2>2, <2>3 DEF Typed
<1>3. NothingOutlivesUsers /\ EndedWasAsked
  BY DEF Init, NothingOutlivesUsers, EndedWasAsked
<1>4. NoToggleWithoutUsers BY DEF Init, NoToggleWithoutUsers
<1> QED BY <1>2, <1>3, <1>4 DEF Inv

\* What SDL2_InitializeWindow leaves of the types.
LEMMA InitializeTyped ==
  ASSUME Typed, NEW ok \in BOOLEAN, InitializeWindow(ok)
  PROVE  /\ window' \in BOOLEAN /\ running' \in BOOLEAN
         /\ initialized' \in BOOLEAN /\ joysticks' \in BOOLEAN
BY DEF Typed, InitializeWindow

\* What LMC_DeleteWindow does to an invariant state.
LEMMA DeleteKeeps ==
  ASSUME Inv, Delete
  PROVE  /\ instances' \in 0 .. MaxUsers
         /\ window' \in BOOLEAN /\ initialized' \in BOOLEAN /\ sdl' \in BOOLEAN
         /\ joysticks' \in BOOLEAN /\ core' \in BOOLEAN /\ queue' \in Seq(Events)
         /\ NothingOutlivesUsers' /\ NoToggleWithoutUsers'
<1>1. instances' \in 0 .. MaxUsers
  <2>1. instances' = Released BY DEF Delete
  <2>2. instances \in 0 .. MaxUsers BY DEF Inv, Typed
  <2>3. Released \in 0 .. MaxUsers BY <2>2, UsersAssumption DEF Released
  <2> QED BY <2>1, <2>3
<1>2. CASE instances = 1
  <2>1. instances' = 0
    <3>1. instances' = Released BY DEF Delete
    <3>2. Released = 0 BY <1>2 DEF Released
    <3> QED BY <3>1, <3>2
  <2>2. /\ window' = FALSE /\ core' = FALSE /\ sdl' = FALSE /\ joysticks' = FALSE
        /\ queue' = <<>> /\ initialized' = initialized
    BY <1>2 DEF Delete, CloseAll
  <2>3. queue' \in Seq(Events) BY <2>2
  <2>4. NoToggleWithoutUsers' BY <2>2 DEF NoToggleWithoutUsers
  <2>5. NothingOutlivesUsers'
    <3>1. ~(instances' > 0) BY <2>1
    <3> QED BY <2>2, <3>1 DEF NothingOutlivesUsers
  <2>6. initialized' \in BOOLEAN BY <2>2 DEF Inv, Typed
  <2> QED BY <1>1, <2>2, <2>3, <2>4, <2>5, <2>6
<1>3. CASE instances # 1
  <2>1. UNCHANGED <<window, core, sdl, joysticks, queue, initialized>>
    BY <1>3 DEF Delete
  <2>2. instances' = 0 <=> instances = 0
    <3>1. instances' = Released BY DEF Delete
    <3>2. instances \in 0 .. MaxUsers BY DEF Inv, Typed
    <3>3. Released = 0 <=> instances = 0 BY <1>3, <3>2, UsersAssumption DEF Released
    <3> QED BY <3>1, <3>3
  <2>3. NothingOutlivesUsers'
    <3>1. instances' > 0 => instances > 0 BY <1>1, <2>2 DEF Inv, Typed
    <3> QED BY <2>1, <2>2, <3>1 DEF Inv, NothingOutlivesUsers
  <2>4. NoToggleWithoutUsers'
    BY <2>1, <2>2 DEF Inv, NoToggleWithoutUsers
  <2> QED BY <1>1, <2>1, <2>3, <2>4 DEF Inv, Typed
<1> QED BY <1>2, <1>3

LEMMA NextInv == Inv /\ [Next]_vars => Inv'
<1> SUFFICES ASSUME Inv, [Next]_vars PROVE Inv'
  OBVIOUS
<1> USE DEF Inv
<1>1. CASE \E e \in Events : User(e)
  <2> PICK e \in Events : User(e) BY <1>1
  <2>1. UNCHANGED <<instances, running, pipeline, processing, result, asked>>
    BY DEF User
  <2>2. queue' \in Seq(Events) BY DEF User, Typed
  <2>3. NoToggleWithoutUsers'
    <3>1. instances = 0 => e # "Alt+Enter"
      BY DEF User, NothingOutlivesUsers
    <3> SUFFICES ASSUME instances' = 0, NEW k \in 1 .. Len(queue')
                 PROVE  queue'[k] # "Alt+Enter"
      BY DEF NoToggleWithoutUsers
    <3>2. instances = 0 BY <2>1
    <3>3. /\ Len(queue') = Len(queue) + 1
          /\ queue'[k] = IF k = Len(queue) + 1 THEN e ELSE queue[k]
      BY DEF User, Typed
    <3> QED BY <3>1, <3>2, <3>3 DEF NoToggleWithoutUsers, Typed
  <2> QED
    BY <2>1, <2>2, <2>3
    DEF pipeline, Typed, NothingOutlivesUsers, EndedWasAsked
<1>2. CASE ShareWindow
  <2>1. UNCHANGED <<running, pipeline, queue, processing, result, asked>>
    BY <1>2 DEF ShareWindow
  <2>2. instances' \in 0 .. MaxUsers /\ instances' # 0 /\ instances > 0
    <3>1. instances \in 0 .. MaxUsers BY DEF Typed
    <3>2. instances > 0 /\ instances < MaxUsers /\ instances' = instances + 1
      BY <1>2 DEF ShareWindow
    <3> QED BY <3>1, <3>2, UsersAssumption
  <2> QED
    BY <2>1, <2>2 DEF pipeline, Typed, NothingOutlivesUsers, NoToggleWithoutUsers, EndedWasAsked
<1>3. ASSUME NEW ok \in BOOLEAN, CreateWindow(ok) PROVE Inv'
  <2>1. InitializeWindow(ok) /\ UNCHANGED <<core, queue, processing, result>>
    BY <1>3 DEF CreateWindow
  <2>2. /\ instances = 0 /\ sdl' = TRUE /\ asked' = FALSE /\ ~processing
        /\ instances' = IF ok THEN 1 ELSE 0
    BY <1>3 DEF CreateWindow
  <2>3. Typed'
    <3>1. instances' \in 0 .. MaxUsers BY <2>2, UsersAssumption
    <3>2. /\ window' \in BOOLEAN /\ running' \in BOOLEAN
          /\ initialized' \in BOOLEAN /\ joysticks' \in BOOLEAN
      BY <2>1, InitializeTyped
    <3>3. sdl' \in BOOLEAN /\ asked' \in BOOLEAN BY <2>2
    <3>4. /\ core' \in BOOLEAN /\ processing' \in BOOLEAN /\ result' \in BOOLEAN
          /\ queue' \in Seq(Events)
      BY <2>1 DEF Typed
    <3> QED BY <3>1, <3>2, <3>3, <3>4 DEF Typed
  <2>4. NothingOutlivesUsers'
    <3>1. ~core' /\ ~joysticks
      BY <2>1, <2>2 DEF NothingOutlivesUsers
    <3>2. ~ok => ~window' /\ ~joysticks'
      BY <2>1, <3>1 DEF InitializeWindow
    <3>3. instances' = 0 => ~ok BY <2>2
    <3> QED BY <2>2, <3>1, <3>2, <3>3 DEF NothingOutlivesUsers
  <2>5. NoToggleWithoutUsers'
    BY <2>1, <2>2 DEF NoToggleWithoutUsers
  <2>6. EndedWasAsked' BY <2>1, <2>2 DEF EndedWasAsked
  <2> QED BY <2>3, <2>4, <2>5, <2>6
<1>4. ASSUME NEW ok \in BOOLEAN, LoadContent(ok) PROVE Inv'
  <2>1. /\ InitializeWindow(ok) /\ core' = TRUE /\ instances > 0 /\ ~processing
        /\ UNCHANGED <<instances, sdl, queue, processing, result, asked>>
    BY <1>4 DEF LoadContent
  <2>2. Typed' BY <2>1, InitializeTyped DEF Typed
  <2> QED
    BY <2>1, <2>2 DEF NothingOutlivesUsers, NoToggleWithoutUsers, EndedWasAsked, Typed
<1>5. CASE DeleteWindow
  <2>1. Delete /\ ~processing /\ UNCHANGED <<running, processing, result, asked>>
    BY <1>5 DEF DeleteWindow
  <2> QED BY <2>1, DeleteKeeps DEF Typed, EndedWasAsked
<1>6. CASE CloseCore
  BY <1>6 DEF CloseCore, Typed, NothingOutlivesUsers, NoToggleWithoutUsers, EndedWasAsked
<1>7. CASE Enter
  BY <1>7
  DEF Enter, MayEnter, pipeline, Typed, NothingOutlivesUsers, NoToggleWithoutUsers,
      EndedWasAsked
<1>8. CASE HandleEvent
  <2>1. /\ processing /\ queue # <<>> /\ queue' = Tail(queue)
        /\ UNCHANGED <<instances, processing, result>>
    BY <1>8 DEF HandleEvent
  <2>2. queue' \in Seq(Events) BY <2>1 DEF Typed
  <2>3. NoToggleWithoutUsers'
    BY <2>1 DEF NoToggleWithoutUsers, Typed
  <2>4. CASE Quit
    BY <2>1, <2>2, <2>3, <2>4
    DEF Quit, pipeline, Typed, NothingOutlivesUsers, EndedWasAsked
  <2>5. ASSUME NEW ok \in BOOLEAN, ToggleFullscreen(ok) PROVE Inv'
    <3>1. /\ InitializeWindow(ok) /\ UNCHANGED <<sdl, core, asked>>
          /\ Head(queue) = "Alt+Enter"
      BY <2>5 DEF ToggleFullscreen
    <3>2. instances # 0
      BY <2>1, <3>1 DEF NoToggleWithoutUsers, Typed
    <3>3. Typed' BY <2>1, <2>2, <3>1, InitializeTyped DEF Typed
    <3>4. NothingOutlivesUsers'
      BY <2>1, <3>1, <3>2 DEF NothingOutlivesUsers, Typed
    <3>5. EndedWasAsked'
      BY <2>1, <3>1 DEF EndedWasAsked, InitializeWindow
    <3> QED BY <2>3, <3>3, <3>4, <3>5
  <2> QED BY <1>8, <2>4, <2>5 DEF HandleEvent
<1>9. CASE Return
  <2>1. /\ processing' = FALSE /\ result' = running /\ running' = running
        /\ asked' = (asked /\ running)
    BY <1>9 DEF Return
  <2>2. CASE running
    BY <1>9, <2>1, <2>2
    DEF Return, pipeline, Typed, NothingOutlivesUsers, NoToggleWithoutUsers, EndedWasAsked
  <2>3. CASE ~running
    <3>1. Delete BY <1>9, <2>3 DEF Return
    <3> QED BY <2>1, <3>1, DeleteKeeps DEF Typed, EndedWasAsked
  <2> QED BY <2>2, <2>3
<1>10. CASE UNCHANGED vars
  BY <1>10
  DEF vars, pipeline, Typed, NothingOutlivesUsers, NoToggleWithoutUsers, EndedWasAsked
<1> QED
  BY <1>1, <1>2, <1>3, <1>4, <1>5, <1>6, <1>7, <1>8, <1>9, <1>10 DEF Next

LEMMA Invariant == Spec => []Inv
<1> QED BY InitInv, NextInv, PTL DEF Spec

\* The counts and flags of the window keep their types: the number of instances
\* never goes below zero, however often LMC_DeleteWindow is called.
THEOREM WindowTypeCorrect == Spec => []TypeOK
<1>1. Inv => TypeOK BY DEF Inv, Typed, TypeOK
<1> QED BY <1>1, Invariant, PTL

\* Without users no window, core or joystick is left, and SDL stays as long as
\* there is one (LMC_DeleteWindow).
THEOREM UsersHoldWindow == Spec => []NothingOutlivesUsers
<1>1. Inv => NothingOutlivesUsers BY DEF Inv
<1> QED BY <1>1, Invariant, PTL

\* Each time the user asks to end, LMC_ProcessWindow gives up one instance and
\* says so to one caller.
THEOREM QuitReleasesOne == Spec => OneInstancePerQuit
<1> DEFINE OneStep ==
      processing /\ instances' # instances
      => asked /\ ~running /\ instances' = instances - 1 /\ ~asked' /\ ~result'
<1>1. Inv /\ [Next]_vars => [OneStep]_vars
  <2> SUFFICES ASSUME Inv, Next, processing, instances' # instances PROVE OneStep
    OBVIOUS
  <2>1. Return
    BY DEF Next, User, ShareWindow, CreateWindow, LoadContent, DeleteWindow, CloseCore,
           Enter, HandleEvent
  <2>2. ~running /\ Delete BY <2>1 DEF Return
  <2>3. asked BY <2>2 DEF Inv, EndedWasAsked
  <2>4. instances' = instances - 1
    BY <2>2 DEF Delete, Released, Inv, Typed
  <2>5. ~asked' /\ ~result' BY <2>1, <2>2 DEF Return
  <2> QED BY <2>2, <2>3, <2>4, <2>5
<1> QED BY <1>1, Invariant, PTL DEF Spec, OneInstancePerQuit

-----------------------------------------------------------------------------
(* WindowGeometry *)

\* The steps of the window with their sizes are steps of the window.
THEOREM SizedWindowIsWindow == SizedSpec => Spec
<1>1. [SizedNext]_sizedVars => [Next]_vars
  BY DEF SizedNext, sizedVars, Next, SizedCreateWindow, SizedLoadContent, SizedHandleEvent,
     SetGeometry, SetBaseDimensionOverrides, Unsized
<1> QED BY <1>1, PTL DEF SizedSpec, Spec

(* Quotients *)

\* What division leaves: the quotient is the largest number that fits.
LEMMA Quotient ==
  ASSUME NEW a \in Nat, NEW b \in Nat \ {0}
  PROVE  /\ a \div b \in Nat
         /\ (a \div b) * b <= a /\ a < (a \div b) * b + b
BY Z3

LEMMA QuotientFits ==
  ASSUME NEW a \in Nat, NEW b \in Nat \ {0}, NEW q \in Nat, a < (q + 1) * b
  PROVE  a \div b <= q
<1>1. (a \div b) * b <= a /\ a \div b \in Nat
  BY Quotient
<1>2. SUFFICES ASSUME a \div b >= q + 1 PROVE FALSE
  BY <1>1
<1>3. (a \div b) * b >= (q + 1) * b
  BY <1>1, <1>2
<1> QED BY <1>1, <1>3

\* Cutting before or after a factor of five or less makes less than five apart.
LEMMA ScaledQuotient ==
  ASSUME NEW x \in Nat, NEW n \in Nat \ {0}, NEW f \in 1 .. 5
  PROVE  (x * f) \div n - (x \div n) * f \in 0 .. 4
<1> DEFINE q == x \div n
           r == (x * f) \div n
<1>1. q \in Nat /\ q * n <= x /\ x < q * n + n
  BY Quotient
<1>2. r \in Nat /\ r * n <= x * f /\ x * f < r * n + n
  BY Quotient
<1> HIDE DEF q, r
<1>3. \A m \in 1 .. 5 : f = m => r - q * m \in 0 .. m - 1
  <2> SUFFICES ASSUME NEW m \in 1 .. 5, f = m PROVE r - q * m \in 0 .. m - 1
    OBVIOUS
  <2>1. r < q * m + m
    <3>1. r * n < (q * m + m) * n
      BY <1>1, <1>2
    <3> QED BY <3>1, <1>1, <1>2
  <2>2. r + 1 > q * m
    <3>1. (q * m) * n < (r + 1) * n
      BY <1>1, <1>2
    <3> QED BY <3>1, <1>1, <1>2
  <2> QED BY <2>1, <2>2, <1>1, <1>2
<1> QED BY <1>1, <1>2, <1>3 DEF q, r

\* What is cut off a border that is halved.
LEMMA Half ==
  ASSUME NEW n \in Nat
  PROVE  n \div 2 \in Nat /\ n - 2 * (n \div 2) \in {0, 1}
OBVIOUS

-----------------------------------------------------------------------------
(* Sizes *)

Ratio == (Nat \ {0}) \X (Nat \ {0})

\* A side computed from the other one is a number of pixels.
LEMMA Sides ==
  ASSUME NEW a \in Ratio, NEW n \in Nat
  PROVE  Times(n, a) \in Nat /\ Over(n, a) \in Nat
BY Quotient DEF Ratio, Times, Over

\* The picture on the desktop: as wide and high as it or less, and as wide or as
\* high as it; its other side is the one the ratio asks for.
LEMMA LargestFits ==
  ASSUME NEW a \in Ratio
  PROVE  LET s == Largest(a)
         IN  /\ s.width \in 0 .. Desktop.width
             /\ s.height \in 0 .. Desktop.height
             /\ \/ s.width = Desktop.width /\ s.height = Over(s.width, a)
                \/ s.height = Desktop.height /\ s.width = Times(s.height, a)
<1> DEFINE h == Over(Desktop.width, a)
           w == Times(Desktop.height, a)
<1>1. Desktop.width \in Nat /\ Desktop.height \in Nat /\ h \in Nat /\ w \in Nat
  BY Sides, DesktopAssumption DEF Size
<1>2. CASE h > Desktop.height
  <2>1. a[1] \in Nat \ {0} /\ a[2] \in Nat \ {0}
    BY DEF Ratio
  <2>2. h * a[1] <= Desktop.width * a[2]
    BY <1>1, <2>1, Quotient DEF Over
  <2>3. (Desktop.height + 1) * a[1] <= h * a[1]
    BY <1>1, <1>2, <2>1
  <2>4. Desktop.height * a[1] < (Desktop.width + 1) * a[2]
    BY <1>1, <2>1, <2>2, <2>3
  <2>5. w <= Desktop.width
    <3>1. Desktop.height * a[1] \in Nat
      BY <1>1, <2>1
    <3>2. (Desktop.height * a[1]) \div a[2] <= Desktop.width
      BY <1>1, <2>1, <2>4, <3>1, QuotientFits
    <3> QED BY <3>2 DEF Times
  <2>6. Largest(a) = [Desktop EXCEPT !.width = w]
    BY <1>2 DEF Largest
  <2> HIDE DEF w
  <2>7. Largest(a).width = w /\ Largest(a).height = Desktop.height
    BY <2>6, DesktopAssumption DEF Size
  <2>8. w = Times(Desktop.height, a)
    BY DEF w
  <2> QED BY <1>1, <2>5, <2>7, <2>8
<1>3. CASE h <= Desktop.height
  <2>1. Largest(a) = [Desktop EXCEPT !.height = h]
    BY <1>1, <1>3 DEF Largest
  <2> HIDE DEF h
  <2>2. Largest(a).height = h /\ Largest(a).width = Desktop.width
    BY <2>1, DesktopAssumption DEF Size
  <2>3. h = Over(Desktop.width, a)
    BY DEF h
  <2> QED BY <1>1, <1>3, <2>2, <2>3
<1> QED BY <1>1, <1>2, <1>3

-----------------------------------------------------------------------------
(* The sizes of the window *)

\* What the picture of a window is computed from: as long as the window lives,
\* the geometry announced last, and the overrides unless they are outdated.
SizedTyped ==
  /\ fullscreen \in BOOLEAN
  /\ scale \in 0 .. 5
  /\ override \in {None} \cup Overrides
  /\ instances # 0 => frame \in {Menu} \cup Geometries

PictureOfFrame ==
  window =>
    \E o \in {None} \cup Overrides :
      /\ viewport = View(fullscreen, SizeFor(fullscreen, scale, frame, o))
      /\ outdated \/ o = override

SizedInv == SizedTyped /\ PictureOfFrame

LEMMA SizedInitInv == Init /\ GeometryInit => SizedInv
<1> SUFFICES ASSUME Init, GeometryInit PROVE SizedInv
  OBVIOUS
<1>1. ~window /\ instances = 0
  BY DEF Init
<1>2. fullscreen = FALSE /\ scale = 0 /\ override = None
  BY DEF GeometryInit
<1>3. fullscreen \in BOOLEAN
  BY <1>2
<1>4. scale \in 0 .. 5
  BY <1>2
<1> QED BY <1>1, <1>2, <1>3, <1>4 DEF SizedInv, SizedTyped, PictureOfFrame

\* A step that computes the size again gives the picture of the frames.
LEMMA CalculateKeeps ==
  ASSUME NEW full \in BOOLEAN, NEW f \in 0 .. 5, NEW g \in {Menu} \cup Geometries,
         SizedTyped, Calculate(full, f, g), UNCHANGED override,
         fullscreen' = full, scale' = f, frame' = g
  PROVE  SizedInv'
BY DEF Calculate, SizedTyped, PictureOfFrame, SizedInv

\* A step that leaves the sizes alone opens no window and adds no first user.
LEMMA UnsizedKeeps ==
  ASSUME Inv, SizedInv, Unsized \/ UNCHANGED sizedVars
  PROVE  SizedInv'
<1>1. UNCHANGED geometry
  BY DEF Unsized, sizedVars
<1>2. (window' => window) /\ (instances' # 0 => instances # 0)
  <2>1. CASE UNCHANGED sizedVars
    BY <2>1 DEF sizedVars, vars, pipeline
  <2>2. ASSUME Delete PROVE (window' => window) /\ (instances' # 0 => instances # 0)
    BY <2>2 DEF Delete, Released, CloseAll
  <2>3. CASE DeleteWindow \/ Return
    <3>1. Delete \/ UNCHANGED <<instances, window>>
      BY <2>3 DEF DeleteWindow, Return, pipeline
    <3> QED BY <2>2, <3>1
  <2>4. CASE CloseCore \/ Enter \/ \E e \in Events : User(e)
    <3>1. UNCHANGED <<instances, window>>
      BY <2>4 DEF CloseCore, Enter, User, pipeline
    <3> QED BY <3>1
  <2>5. CASE ShareWindow
    BY <2>5 DEF ShareWindow, pipeline, Inv, Typed
  <2> QED BY <2>1, <2>3, <2>4, <2>5 DEF Unsized
<1> QED BY <1>1, <1>2 DEF SizedInv, SizedTyped, PictureOfFrame, geometry

LEMMA SizedNextInv == Inv /\ SizedInv /\ [SizedNext]_sizedVars => SizedInv'
<1> SUFFICES ASSUME Inv, SizedInv, [SizedNext]_sizedVars PROVE SizedInv'
  OBVIOUS
<1>1. ASSUME NEW full \in BOOLEAN, NEW f \in Scales, SizedCreateWindow(full, f)
      PROVE  SizedInv'
  BY <1>1, CalculateKeeps, ScalesAssumption DEF SizedCreateWindow, SizedInv
<1>2. ASSUME NEW g \in Geometries, SizedLoadContent(g)
      PROVE  SizedInv'
  BY <1>2, CalculateKeeps DEF SizedLoadContent, SizedInv, SizedTyped
<1>3. CASE SizedHandleEvent
  <2>1. CASE Head(queue) = "Alt+Enter"
    <3>1. instances # 0
      BY <1>3, <2>1 DEF SizedHandleEvent, HandleEvent, Inv, NoToggleWithoutUsers, Typed
    <3>2. /\ fullscreen' = ~fullscreen /\ Calculate(~fullscreen, scale, frame)
          /\ UNCHANGED <<scale, frame, override>>
      BY <1>3, <2>1 DEF SizedHandleEvent
    <3> QED BY <3>1, <3>2, CalculateKeeps DEF SizedInv, SizedTyped
  <2>2. CASE Head(queue) # "Alt+Enter"
    <3>1. UNCHANGED <<geometry, window, instances>>
      BY <1>3, <2>2 DEF SizedHandleEvent, HandleEvent, Quit, ToggleFullscreen, pipeline
    <3> QED BY <3>1 DEF SizedInv, SizedTyped, PictureOfFrame, geometry
  <2> QED BY <2>1, <2>2
<1>4. ASSUME NEW g \in {Menu} \cup Geometries, SetGeometry(g)
      PROVE  SizedInv'
  <2>1. CASE window
    BY <1>4, <2>1, CalculateKeeps DEF SetGeometry, SizedInv, SizedTyped
  <2>2. CASE ~window
    BY <1>4, <2>2 DEF SetGeometry, vars, pipeline, SizedInv, SizedTyped, PictureOfFrame
  <2> QED BY <2>1, <2>2
<1>5. ASSUME NEW o \in Overrides, SetBaseDimensionOverrides(o)
      PROVE  SizedInv'
  BY <1>5
  DEF SetBaseDimensionOverrides, vars, pipeline, SizedInv, SizedTyped, PictureOfFrame
<1>6. CASE Unsized \/ UNCHANGED sizedVars
  BY <1>6, UnsizedKeeps
<1> QED BY <1>1, <1>2, <1>3, <1>4, <1>5, <1>6 DEF SizedNext

LEMMA SizedInvariant == SizedSpec => [](Inv /\ SizedInv)
<1>1. SizedSpec => []Inv
  BY SizedWindowIsWindow, Invariant, PTL
<1>2. SizedSpec => []SizedInv
  BY <1>1, SizedInitInv, SizedNextInv, PTL DEF SizedSpec
<1> QED BY <1>1, <1>2, PTL

\* The ratio a fullscreen picture is given is one.
LEMMA FullscreenRatio ==
  ASSUME NEW g \in {Menu} \cup Geometries, NEW o \in {None} \cup Overrides
  PROVE  \E a \in Ratio :
           /\ FullscreenSize(g, o) = Largest(a)
           /\ o = None /\ g.aspect[1] > 0 => a = g.aspect
<1>1. CASE o # None
  <2>1. o.width \in Nat \ {0} /\ o.height \in Nat \ {0}
    BY <1>1, OverrideAssumption DEF Size
  <2>2. <<o.width, o.height>> \in Ratio
    BY <2>1 DEF Ratio
  <2> QED BY <1>1, <2>2 DEF FullscreenSize
<1>2. CASE o = None
  <2>1. FullscreenSize(g, o) = Largest(AspectOf(g.aspect, Desktop))
    BY <1>2 DEF FullscreenSize
  <2>2. g.aspect[1] \in Int /\ g.aspect[2] \in Nat \ {0} /\ g.aspect \in Int \X (Nat \ {0})
    BY GeometryAssumption DEF Geometry, Aspect
  <2>3. CASE g.aspect[1] <= 0
    <3>1. AspectOf(g.aspect, Desktop) = <<Desktop.width, Desktop.height>>
      BY <2>3 DEF AspectOf
    <3>2. <<Desktop.width, Desktop.height>> \in Ratio
      BY DesktopAssumption DEF Size, Ratio
    <3> QED BY <2>1, <2>2, <2>3, <3>1, <3>2
  <2>4. CASE g.aspect[1] > 0
    <3>1. AspectOf(g.aspect, Desktop) = g.aspect
      BY <2>2, <2>4 DEF AspectOf
    <3>2. g.aspect \in Ratio
      BY <2>2, <2>4 DEF Ratio
    <3> QED BY <1>2, <2>1, <3>1, <3>2
  <2> QED BY <2>2, <2>3, <2>4
<1> QED BY <1>1, <1>2

\* For any desktop, core, override and history a fullscreen picture lies on the
\* desktop, centered, and fills it one way (SDL2_ResizeToAspect,
\* CalculateFullscreenDimensions).
THEOREM FullscreenAlwaysFits == SizedSpec => []FullscreenFits
<1>1. Inv /\ SizedInv => FullscreenFits
  <2> SUFFICES ASSUME Inv, SizedInv, window, fullscreen PROVE FullscreenFits
    BY DEF FullscreenFits
  <2>1. frame \in {Menu} \cup Geometries
    BY DEF Inv, NothingOutlivesUsers, Typed, SizedInv, SizedTyped
  <2>2. PICK o \in {None} \cup Overrides :
          viewport = View(TRUE, FullscreenSize(frame, o))
    BY DEF SizedInv, PictureOfFrame, SizeFor, SizedTyped
  <2>3. PICK a \in Ratio : FullscreenSize(frame, o) = Largest(a)
    BY <2>1, FullscreenRatio
  <2> DEFINE s == Largest(a)
             dw == Desktop.width - s.width
             dh == Desktop.height - s.height
  <2>4. /\ Desktop.width \in Nat /\ Desktop.height \in Nat
        /\ s.width \in 0 .. Desktop.width /\ s.height \in 0 .. Desktop.height
        /\ s.width = Desktop.width \/ s.height = Desktop.height
    BY LargestFits, DesktopAssumption DEF Size
  <2>5. viewport = [x |-> dw \div 2, y |-> dh \div 2, w |-> s.width, h |-> s.height]
    BY <2>2, <2>3 DEF View
  <2> HIDE DEF s
  <2>6. dw \in Nat /\ dh \in Nat
    BY <2>4
  <2>7. /\ dw \div 2 \in Nat /\ dw - 2 * (dw \div 2) \in {0, 1}
        /\ dh \div 2 \in Nat /\ dh - 2 * (dh \div 2) \in {0, 1}
    BY <2>6, Half
  <2>8. /\ viewport.x = dw \div 2 /\ viewport.y = dh \div 2
        /\ viewport.w = s.width /\ viewport.h = s.height
    BY <2>5
  <2> HIDE DEF dw, dh
  <2>9. /\ Desktop.width - viewport.w = dw /\ Desktop.height - viewport.h = dh
    BY <2>8 DEF dw, dh
  <2>10. viewport.x >= 0 /\ viewport.y >= 0
    BY <2>7, <2>8
  <2>11. /\ Desktop.width - viewport.w - 2 * viewport.x \in {0, 1}
         /\ Desktop.height - viewport.h - 2 * viewport.y \in {0, 1}
    BY <2>7, <2>8, <2>9
  <2> QED BY <2>4, <2>8, <2>10, <2>11 DEF FullscreenFits
<1> QED BY <1>1, SizedInvariant, PTL

\* The scale that is chosen is one, two or three.
LEMMA AutoScaleRange == ASSUME NEW g PROVE AutoScale(g) \in 1 .. 5
<1> DEFINE S == {1} \cup {s \in 2 .. 3 : /\ g.width * s < Desktop.width
                                         /\ g.height * s < Desktop.height}
<1>1. \E m \in S : \A n \in S : m >= n
  BY Z3
<1>2. Max(S) \in S
  BY <1>1, Zenon DEF Max
<1> QED BY <1>2 DEF AutoScale

\* The picture in a window is less than five pixels off the ratio.
LEMMA WindowedShape ==
  ASSUME NEW g \in Geometry, NEW f \in 0 .. 5, g.aspect[1] > 0
  PROVE  LET s == WindowedSize(f, g, None)
         IN  \/ Over(s.width, g.aspect) - s.height \in 0 .. 4
             \/ Times(s.height, g.aspect) - s.width \in 0 .. 4
<1> DEFINE m == IF f = 0 THEN AutoScale(g) ELSE f
           a == g.aspect
           b == [width |-> g.width, height |-> g.height]
<1>1. m \in 1 .. 5
  BY AutoScaleRange
<1>2. /\ g.width \in Nat \ {0} /\ g.height \in Nat \ {0}
      /\ a[1] \in Nat \ {0} /\ a[2] \in Nat \ {0}
  BY DEF Geometry, Aspect
<1>3. AspectOf(a, b) = a
  BY <1>2 DEF AspectOf
<1>4. WindowedSize(f, g, None) = Scaled(Windowed(a, b), m)
  BY DEF WindowedSize
<1> HIDE DEF m, a
<1>5. CASE g.width < g.height
  <2>1. Windowed(a, b) = [width |-> Times(g.height, a), height |-> g.height]
    BY <1>3, <1>5 DEF Windowed
  <2>2. WindowedSize(f, g, None)
          = [width |-> Times(g.height, a) * m, height |-> g.height * m]
    BY <1>4, <2>1 DEF Scaled
  <2>3. (g.height * a[1]) * m = (g.height * m) * a[1]
    BY <1>1, <1>2
  <2>4. ((g.height * a[1]) * m) \div a[2] - ((g.height * a[1]) \div a[2]) * m \in 0 .. 4
    <3>1. g.height * a[1] \in Nat
      BY <1>2
    <3> QED BY <1>1, <1>2, <3>1, ScaledQuotient
  <2>5. Times(g.height * m, a) - Times(g.height, a) * m \in 0 .. 4
    BY <2>3, <2>4 DEF Times
  <2> QED BY <2>2, <2>5 DEF a
<1>6. CASE ~(g.width < g.height)
  <2>1. Windowed(a, b) = [width |-> g.width, height |-> Over(g.width, a)]
    BY <1>3, <1>6 DEF Windowed
  <2>2. WindowedSize(f, g, None)
          = [width |-> g.width * m, height |-> Over(g.width, a) * m]
    BY <1>4, <2>1 DEF Scaled
  <2>3. (g.width * a[2]) * m = (g.width * m) * a[2]
    BY <1>1, <1>2
  <2>4. ((g.width * a[2]) * m) \div a[1] - ((g.width * a[2]) \div a[1]) * m \in 0 .. 4
    <3>1. g.width * a[2] \in Nat
      BY <1>2
    <3> QED BY <1>1, <1>2, <3>1, ScaledQuotient
  <2>5. Over(g.width * m, a) - Over(g.width, a) * m \in 0 .. 4
    BY <2>3, <2>4 DEF Over
  <2> QED BY <2>2, <2>5 DEF a
<1> QED BY <1>5, <1>6

\* For any core, scale, mode and history the picture has the shape the current
\* frames ask for, less than a pixel of scale five off (SDL2_SetVideoGeometry,
\* SDL2_InitializeWindow).
THEOREM ShapeAlwaysFollows == SizedSpec => []ShapeFollowsFrame
<1>1. Inv /\ SizedInv => ShapeFollowsFrame
  <2> SUFFICES ASSUME Inv, SizedInv, window, ~outdated, override = None,
                      frame.aspect[1] > 0
               PROVE  \/ Over(viewport.w, frame.aspect) - viewport.h \in 0 .. 4
                      \/ Times(viewport.h, frame.aspect) - viewport.w \in 0 .. 4
    BY DEF ShapeFollowsFrame
  <2>1. frame \in {Menu} \cup Geometries /\ frame \in Geometry
    BY GeometryAssumption DEF Inv, NothingOutlivesUsers, Typed, SizedInv, SizedTyped
  <2>2. viewport = View(fullscreen, SizeFor(fullscreen, scale, frame, None))
    BY DEF SizedInv, PictureOfFrame
  <2> DEFINE s == SizeFor(fullscreen, scale, frame, None)
  <2>3. viewport.w = s.width /\ viewport.h = s.height
    BY <2>2 DEF View
  <2>4. CASE fullscreen
    <3>1. PICK a \in Ratio : s = Largest(a) /\ a = frame.aspect
      BY <2>1, <2>4, FullscreenRatio DEF SizeFor
    <3>2. s.height = Over(s.width, a) \/ s.width = Times(s.height, a)
      BY <3>1, LargestFits
    <3>3. s.width \in Nat /\ s.height \in Nat
      BY <3>1, LargestFits, DesktopAssumption DEF Size
    <3> QED BY <2>3, <3>1, <3>2, <3>3
  <2>5. CASE ~fullscreen
    <3>1. s = WindowedSize(scale, frame, None)
      BY <2>5 DEF SizeFor
    <3>2. scale \in 0 .. 5
      BY DEF SizedInv, SizedTyped
    <3> HIDE DEF s
    <3> QED BY <2>1, <2>3, <3>1, <3>2, WindowedShape
  <2> QED BY <2>4, <2>5
<1> QED BY <1>1, SizedInvariant, PTL

=============================================================================
