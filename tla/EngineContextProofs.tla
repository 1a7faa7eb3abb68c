------------------------- MODULE EngineContextProofs -------------------------
(***************************************************************************)
(* Proofs about EngineContext.  Alone, none of the invariants is inductive *)
(* (EngineInv): to know that the next LMC_Deinit frees each block once one *)
(* must know what the last LMC_Init or LMC_Deinit left.                    *)
(***************************************************************************)
EXTENDS EngineContext, TLAPS

USE NullAssumption, SizesAssumption

\* The two flags stay Boolean.
LEMMA FlagStep ==
  refused \in BOOLEAN /\ several \in BOOLEAN /\ [Next]_vars
    => refused' \in BOOLEAN /\ several' \in BOOLEAN
<1> SUFFICES ASSUME refused \in BOOLEAN, several \in BOOLEAN, [Next]_vars
             PROVE  refused' \in BOOLEAN /\ several' \in BOOLEAN
  OBVIOUS
<1>1. \/ refused' = refused
      \/ refused' = TRUE
      \/ refused' = FALSE
  BY ZenonT(60) DEF Next, vars, LMC_Init, InitRefused, InitOutOfMemory, InitSucceeds,
     LMC_SetContext, LMC_DeleteContext, LMC_Deinit, LMC_SetMenuTileEngineContext,
     TLN_Init, TLN_DeleteContext, TLN_SetRenderTarget, Fails
<1>2. \/ several' = several
      \/ several' = (several \/ contexts # {})
      \/ several' = TRUE
  BY ZenonT(60) DEF Next, vars, LMC_Init, InitRefused, InitOutOfMemory, InitSucceeds,
     SetManagers, LMC_SetContext, LMC_DeleteContext, LMC_Deinit,
     LMC_SetMenuTileEngineContext, TLN_Init, TLN_DeleteContext, TLN_SetRenderTarget,
     Fails
<1>3. refused' \in BOOLEAN
  BY <1>1, Zenon
<1>4. several' \in BOOLEAN
  BY <1>2, Zenon
<1> QED BY <1>3, <1>4

\* What LMC_Init lets through.
LEMMA AcceptedSizes ==
  ASSUME NEW base \in Sizes, NEW max \in Sizes,
         ~TooSmall(base), ~TooLarge(base, max)
  PROVE  /\ base \in Nat /\ max \in Nat
         /\ base >= MinSize /\ max >= MinSize /\ base <= max
BY DEF TooSmall, TooLarge

\* Each step keeps the types, whichever contexts there are.
LEMMA TypeStep == TypeOK /\ [Next]_vars => TypeOK'
<1> SUFFICES ASSUME TypeOK, [Next]_vars PROVE TypeOK'
  OBVIOUS
<1>0. refused' \in BOOLEAN /\ several' \in BOOLEAN
  BY FlagStep DEF TypeOK
<1> USE <1>0 DEF TypeOK, Pointers, system, menu, tilengine, history
<1>1. CASE LMC_Init
  <2>1. CASE \E base, max \in Sizes : InitRefused(base, max)
    BY <2>1 DEF InitRefused, Fails
  <2>2. CASE Fails("freed")
    BY <2>2 DEF Fails
  <2>3. ASSUME NEW base \in Sizes, NEW max \in Sizes, NEW t \in Tiles,
               ~TooSmall(base), ~TooLarge(base, max), ~Dangling,
               \/ InitOutOfMemory(t, base, max)
               \/ \E c \in Contexts : InitSucceeds(c, t, base, max)
        PROVE  TypeOK'
    <3>1. /\ base \in Nat /\ max \in Nat /\ base >= MinSize /\ max >= MinSize
      BY <2>3, AcceptedSizes
    <3>2. /\ FirstTiles(t) \in tiles \cup {t}
          /\ width' \in [Tiles -> Nat]
      BY <2>3, <3>1 DEF FirstTiles, Dangling, InitOutOfMemory, InitSucceeds, NewTiles
    <3>3. LostAtStart \subseteq {"current_core", "framebuffer"} \cup tiles
      BY DEF LostAtStart, Overwritten
    <3>5. CASE InitOutOfMemory(t, base, max)
      <4>1. /\ tiles' = (tiles \cup {t}) \ {FirstTiles(t)}
            /\ own' = own \ {FirstTiles(t)} /\ strayed' = strayed \ {FirstTiles(t)}
            /\ lost' = LostAtStart \ {FirstTiles(t)}
        BY <3>5 DEF InitOutOfMemory
      <4>2. /\ own' \subseteq tiles' /\ strayed' \subseteq tiles'
            /\ lost' \subseteq {"current_core", "framebuffer"} \cup tiles'
        BY <4>1, <3>3
      <4> QED
        BY <2>3, <3>1, <3>2, <3>5, <4>1, <4>2 DEF InitOutOfMemory, SetManagers
    <3>6. CASE \E c \in Contexts : InitSucceeds(c, t, base, max)
      <4>1. /\ tiles' = tiles \cup {t} /\ lost' = LostAtStart
            /\ UNCHANGED <<own, strayed>>
        BY <3>6 DEF InitSucceeds
      <4>2. lost' \subseteq {"current_core", "framebuffer"} \cup tiles'
        BY <4>1, <3>3
      <4> QED
        BY <2>3, <3>1, <3>2, <3>6, <4>1, <4>2 DEF InitSucceeds, SetManagers
    <3> QED BY <2>3, <3>5, <3>6
  <2> QED BY <1>1, <2>1, <2>2, <2>3 DEF LMC_Init
<1>2. ASSUME NEW c \in Contexts, LMC_SetContext(c) PROVE TypeOK'
  BY <1>2 DEF LMC_SetContext
<1>3. ASSUME NEW c \in Contexts, LMC_DeleteContext(c) PROVE TypeOK'
  BY <1>3 DEF LMC_DeleteContext, DeleteContext, DeinitTiles, Freed, Fails
<1>4. CASE LMC_Deinit
  BY <1>4 DEF LMC_Deinit, DeleteContext, DeinitTiles, Freed, Fails, NoMachine
<1>5. ASSUME NEW t \in Tiles, LMC_SetMenuTileEngineContext(t) PROVE TypeOK'
  <2>1. /\ UNCHANGED <<contexts, legacy_machine, current_core, framebuffer, tiles,
                       width, targets, max_size, fault>>
        /\ engine' = t
    BY <1>5 DEF LMC_SetMenuTileEngineContext
  <2>2. \/ UNCHANGED <<menu, history>>
        \/ /\ tile_engine' = t /\ base_size' = width[t]
           /\ ~TooLarge(width[t], max_size) /\ ~TooSmall(width[t])
           /\ own' = (own \cup ({tile_engine} \cap tiles)) \ {t}
           /\ strayed' = strayed \ {t} /\ lost' = lost \ {t}
    BY <1>5 DEF LMC_SetMenuTileEngineContext, MenuTiles
  <2>3. /\ tile_engine' \in Tiles \cup {Null} /\ base_size' \in Nat
        /\ tile_engine' # Null => base_size' >= MinSize /\ max_size' >= MinSize
    BY <2>1, <2>2 DEF TooSmall, TooLarge
  <2>4. /\ own' \subseteq tiles' /\ strayed' \subseteq tiles'
        /\ lost' \subseteq {"current_core", "framebuffer"} \cup tiles'
    BY <2>1, <2>2
  <2> QED BY <2>1, <2>3, <2>4
<1>6. ASSUME NEW t \in Tiles, TLN_DeleteContext(t) PROVE TypeOK'
  BY <1>6 DEF TLN_DeleteContext
<1>7. ASSUME NEW t \in Tiles, NEW size \in Sizes, TLN_Init(t, size) PROVE TypeOK'
  BY <1>7 DEF TLN_Init, NewTiles
<1>8. CASE TLN_SetRenderTarget
  <2>1. /\ UNCHANGED <<contexts, legacy_machine, current_core, framebuffer, menu,
                       tiles, engine, width, history>>
        /\ targets' \in {targets, targets \cup ({engine} \cap tiles)}
        /\ fault' \in {fault, "freed"}
    BY <1>8 DEF TLN_SetRenderTarget, Fails
  <2> QED BY <2>1
<1>9. CASE UNCHANGED vars
  BY <1>9 DEF vars
<1> QED BY <1>1, <1>2, <1>3, <1>4, <1>5, <1>6, <1>7, <1>8, <1>9 DEF Next

LEMMA TypeInit == Init => TypeOK
<1> SUFFICES ASSUME Init PROVE TypeOK
  OBVIOUS
<1>1. refused \in BOOLEAN /\ several \in BOOLEAN
  BY Zenon DEF Init
<1> QED BY <1>1 DEF Init, TypeOK, Pointers

\* The engine's variables keep their types, and the menu a resolution that
\* LMC_Init accepts, for all sizes and any number of contexts.
THEOREM EngineTypeCorrect == Spec => []TypeOK
<1>1. Init => TypeOK
  BY TypeInit
<1> QED BY <1>1, TypeStep, PTL DEF Spec

-----------------------------------------------------------------------------
(* One context at a time *)

\* The menu fits in the framebuffer it was given.
MenuFits == legacy_machine # Null /\ ~several => base_size <= max_size

\* While the engine runs, a Tilengine context is the menu's, the application's
\* or a stray one, and that of the menu is never the application's to delete.
TilesHeld ==
  ~several =>
    /\ tile_engine \notin own
    /\ legacy_machine # Null => tiles \subseteq own \cup strayed \cup {tile_engine}

EngineInv ==
  /\ TypeOK
  /\ EngineWhole
  /\ NothingHeld
  /\ TilesHeld
  /\ MenuFits
  /\ TargetFits
  /\ NoFreedUse

\* With one context at a time and no context refused, no global dangles and
\* the next LMC_Deinit frees what is live.
LEMMA NothingDangles ==
  ASSUME EngineInv, ~several, ~refused
  PROVE  /\ ~Dangling
         /\ legacy_machine # Null => ~FreesTwice
BY DEF EngineInv, TypeOK, EngineWhole, NothingHeld, Dangling, FreesTwice

\* A start that finds no engine loses at most a stray Tilengine context.
LEMMA NothingLost ==
  ASSUME EngineInv, ~several, legacy_machine = Null
  PROVE  LostAtStart \subseteq strayed
BY DEF EngineInv, NothingHeld, TilesHeld, LostAtStart, Overwritten

LEMMA EngineStep == EngineInv /\ [Next]_vars => EngineInv'
<1> SUFFICES ASSUME EngineInv, [Next]_vars PROVE EngineInv'
  OBVIOUS
<1>0. TypeOK /\ TypeOK'
  BY TypeStep DEF EngineInv
<1> DEFINE Rest == /\ EngineWhole /\ NothingHeld /\ TilesHeld
                    /\ MenuFits /\ TargetFits /\ NoFreedUse
<1> SUFFICES Rest'
  BY <1>0 DEF EngineInv
<1>a. ASSUME NEW f, f = "freed" => several \/ refused, Fails(f) PROVE Rest'
  BY <1>a DEF Fails, EngineInv, EngineWhole, NothingHeld, TilesHeld, MenuFits, TargetFits,
     NoFreedUse, system, menu, tilengine, history
<1>1. CASE LMC_Init
  <2>1. CASE \E base, max \in Sizes : InitRefused(base, max)
    BY <1>a, <2>1 DEF InitRefused
  <2>2. CASE Dangling /\ Fails("freed")
    BY <1>a, <2>2, NothingDangles
  <2>3. ASSUME NEW base \in Sizes, NEW max \in Sizes, NEW t \in Tiles,
               ~TooSmall(base), ~TooLarge(base, max),
               InitOutOfMemory(t, base, max)
        PROVE  Rest'
    <3>1. several' = (several \/ contexts # {})
      BY <2>3 DEF InitOutOfMemory, SetManagers
    <3>2. CASE several \/ contexts # {}
      BY <2>3, <3>1, <3>2 DEF EngineInv, InitOutOfMemory, EngineWhole, NothingHeld,
         TilesHeld, MenuFits, TargetFits, NoFreedUse
    <3>3. CASE ~several /\ contexts = {}
      <4>1. legacy_machine = Null /\ engine = Null
        BY <3>3 DEF EngineInv, EngineWhole, NothingHeld
      <4>2. /\ legacy_machine' = Null /\ contexts' = {} /\ engine' = Null
            /\ current_core' = "null" /\ framebuffer' = "freed" /\ fault' = fault
            /\ tile_engine' = t /\ t \notin tiles /\ tiles' = tiles
            /\ own' = own \ {t} /\ strayed' = strayed \ {t}
            /\ lost' = LostAtStart \ {t} /\ refused' = refused
        BY <1>0, <2>3, <3>3, <4>1 DEF InitOutOfMemory, SetManagers, NewTiles, FirstTiles,
           TypeOK
      <4>3. NothingHeld' /\ TilesHeld'
        BY <1>0, <3>3, <4>1, <4>2, NothingLost DEF EngineInv, NothingHeld, TilesHeld, TypeOK
      <4> QED
        BY <2>3, <3>3, <4>2, <4>3 DEF EngineInv, EngineWhole, MenuFits, TargetFits,
           NoFreedUse
    <3> QED BY <3>2, <3>3
  <2>4. ASSUME NEW base \in Sizes, NEW max \in Sizes, NEW t \in Tiles,
               NEW c \in Contexts,
               ~TooSmall(base), ~TooLarge(base, max),
               InitSucceeds(c, t, base, max)
        PROVE  Rest'
    <3>1. several' = (several \/ contexts # {})
      BY <2>4 DEF InitSucceeds, SetManagers
    <3>2. CASE several \/ contexts # {}
      BY <2>4, <3>1, <3>2 DEF EngineInv, InitSucceeds, EngineWhole, NothingHeld,
         TilesHeld, MenuFits, TargetFits, NoFreedUse
    <3>3. CASE ~several /\ contexts = {}
      <4>1. legacy_machine = Null /\ engine = Null
        BY <3>3 DEF EngineInv, EngineWhole, NothingHeld
      <4>2. /\ engine' = t /\ tile_engine' = t /\ t \in tiles'
            /\ width'[t] = base /\ base_size' = base /\ max_size' = max
            /\ base <= max
        BY <1>0, <2>4, <4>1, AcceptedSizes DEF InitSucceeds, SetManagers, FirstTiles,
           NewTiles, TypeOK
      <4>3. /\ legacy_machine' = c /\ c # Null /\ contexts' = {c}
            /\ current_core' = "live" /\ framebuffer' = "live"
        BY <2>4, <3>3, <4>1 DEF InitSucceeds, SetManagers
      <4>4. /\ t \notin tiles /\ tiles' = tiles \cup {t}
            /\ own' = own /\ strayed' = strayed /\ lost' = LostAtStart
        BY <2>4 DEF InitSucceeds, NewTiles
      <4>5. NothingHeld' /\ TilesHeld'
        BY <1>0, <3>3, <4>1, <4>2, <4>3, <4>4, NothingLost
           DEF EngineInv, NothingHeld, TilesHeld, TypeOK
      <4> QED
        BY <2>4, <3>3, <4>2, <4>3, <4>5 DEF EngineInv, InitSucceeds, EngineWhole,
           MenuFits, TargetFits, NoFreedUse
    <3> QED BY <3>2, <3>3
  <2> QED BY <1>1, <2>1, <2>2, <2>3, <2>4 DEF LMC_Init
<1>2. ASSUME NEW c \in Contexts, LMC_SetContext(c) PROVE Rest'
  <2>1. several \/ legacy_machine' = legacy_machine
    BY <1>2 DEF LMC_SetContext, EngineInv, EngineWhole, NothingHeld
  <2>2. c # Null
    OBVIOUS
  <2> QED
    BY <1>2, <2>1, <2>2 DEF LMC_SetContext, EngineInv, EngineWhole, NothingHeld,
       TilesHeld, MenuFits, TargetFits, NoFreedUse, system, menu, tilengine, history
<1>3. ASSUME NEW c \in Contexts, LMC_DeleteContext(c) PROVE Rest'
  <2>1. CASE FreesTwice
    <3>1. legacy_machine # Null \/ several
      BY <1>3 DEF LMC_DeleteContext, EngineInv, NothingHeld
    <3> QED BY <1>3, <1>a, <2>1, <3>1, NothingDangles DEF LMC_DeleteContext
  <2>2. CASE ~FreesTwice
    BY <1>3, <2>2 DEF LMC_DeleteContext, DeleteContext, EngineInv, EngineWhole,
       NothingHeld, TilesHeld, MenuFits, TargetFits, NoFreedUse
  <2> QED BY <2>1, <2>2
<1>4. CASE LMC_Deinit
  <2>1. CASE FreesTwice \/ Dangling
    BY <1>4, <1>a, <2>1, NothingDangles DEF LMC_Deinit
  <2>2. CASE ~(FreesTwice \/ Dangling)
    <3>1. fault' = fault /\ fault = "none" /\ legacy_machine' = Null
      BY <1>4, <2>2 DEF LMC_Deinit, DeleteContext, NoMachine
    <3>2. /\ legacy_machine # Null /\ several' = several /\ tile_engine' = tile_engine
          /\ contexts' = contexts \ {legacy_machine} /\ engine' = Null
          /\ current_core' = Freed(current_core) /\ framebuffer' = Freed(framebuffer)
          /\ tiles' = tiles \ {engine}
      BY <1>4, <2>2 DEF LMC_Deinit, DeleteContext, DeinitTiles, menu
    <3>3. /\ own' = own \ {engine} /\ lost' = lost \ {engine}
          /\ ~refused => strayed' = strayed \ {engine}
          /\ refused => strayed' = (strayed \cup ({tile_engine} \cap tiles)) \ {engine}
      BY <1>4, <2>2 DEF LMC_Deinit, DeleteContext
    <3>4. ~several => tiles \subseteq own \cup strayed \cup {tile_engine}
      BY <3>2 DEF EngineInv, TilesHeld
    <3>5. ~several /\ ~refused => engine = tile_engine
      BY <3>2 DEF EngineInv, EngineWhole
    <3>6. ~several => tiles' \subseteq own' \cup strayed' /\ lost' \subseteq strayed'
      BY <3>2, <3>3, <3>4, <3>5 DEF EngineInv, NothingHeld
    <3>7. /\ ~several => contexts' = {}
          /\ "live" \notin {current_core', framebuffer'}
      BY <3>2 DEF EngineInv, EngineWhole, Freed
    <3>8. NothingHeld' /\ TilesHeld'
      BY <3>1, <3>2, <3>3, <3>6, <3>7 DEF EngineInv, NothingHeld, TilesHeld
    <3> QED BY <3>1, <3>8 DEF EngineWhole, MenuFits, TargetFits, NoFreedUse
  <2> QED BY <2>1, <2>2
<1>5. ASSUME NEW t \in Tiles, LMC_SetMenuTileEngineContext(t) PROVE Rest'
  <2>1. /\ fault' = "none" /\ legacy_machine # Null
        /\ UNCHANGED <<contexts, legacy_machine, system, tiles, width, targets,
                       several, max_size>>
        /\ engine' = t /\ t \in tiles
    BY <1>0, <1>5 DEF LMC_SetMenuTileEngineContext, menu, TypeOK
  <2>2. CASE refused'
    <3>1. UNCHANGED <<menu, history>>
      BY <1>5, <2>2 DEF LMC_SetMenuTileEngineContext
    <3> QED
      BY <2>1, <2>2, <3>1 DEF EngineInv, EngineWhole, NothingHeld, TilesHeld, MenuFits,
         TargetFits, NoFreedUse, system, menu, history
  <2>3. CASE ~refused'
    <3>1. /\ tile_engine' = t /\ base_size' = width[t]
          /\ width[t] <= max_size
      BY <1>0, <1>5, <2>3 DEF LMC_SetMenuTileEngineContext, MenuTiles, TooLarge, TypeOK
    <3>2. /\ own' = (own \cup ({tile_engine} \cap tiles)) \ {t}
          /\ strayed' = strayed \ {t} /\ lost' = lost \ {t}
      BY <1>5, <2>3 DEF LMC_SetMenuTileEngineContext
    <3>3. NothingHeld' /\ TilesHeld'
      BY <2>1, <3>1, <3>2 DEF EngineInv, NothingHeld, TilesHeld
    <3> QED
      BY <2>1, <2>3, <3>1, <3>3 DEF EngineInv, EngineWhole, MenuFits, TargetFits,
         NoFreedUse, system
  <2> QED BY <2>2, <2>3
<1>6. ASSUME NEW t \in Tiles, TLN_DeleteContext(t) PROVE Rest'
  BY <1>6 DEF TLN_DeleteContext, EngineInv, EngineWhole, NothingHeld, TilesHeld, MenuFits,
     TargetFits, NoFreedUse, system, menu
<1>7. ASSUME NEW t \in Tiles, NEW size \in Sizes, TLN_Init(t, size) PROVE Rest'
  <2>1. \A u \in tiles : width'[u] = width[u]
    BY <1>0, <1>7 DEF TLN_Init, NewTiles, TypeOK
  <2>2. engine \in targets => engine \in tiles
    BY <1>0 DEF TypeOK
  <2>3. legacy_machine # Null
    BY <1>0, <1>7 DEF TLN_Init, TypeOK
  <2>4. NothingHeld' /\ TilesHeld'
    BY <1>7, <2>3 DEF TLN_Init, NewTiles, EngineInv, EngineWhole, NothingHeld, TilesHeld,
       menu
  <2> QED
    BY <1>7, <2>1, <2>2, <2>4 DEF TLN_Init, EngineInv, EngineWhole, MenuFits,
       TargetFits, NoFreedUse, system, menu
<1>8. CASE TLN_SetRenderTarget
  <2>1. CASE engine \in tiles
    BY <1>0, <1>8, <2>1 DEF TLN_SetRenderTarget, EngineInv, EngineWhole, NothingHeld,
       TilesHeld, MenuFits, TargetFits, NoFreedUse, system, menu, history, TypeOK
  <2>2. CASE engine \notin tiles
    <3>1. several \/ refused
      BY <1>8, <2>2, NothingDangles DEF TLN_SetRenderTarget, Dangling
    <3> QED BY <1>8, <1>a, <2>2, <3>1 DEF TLN_SetRenderTarget
  <2> QED BY <2>1, <2>2
<1>9. CASE UNCHANGED vars
  BY <1>9 DEF vars, EngineInv, EngineWhole, NothingHeld, TilesHeld, MenuFits, TargetFits,
     NoFreedUse, system, menu, tilengine, history
<1> HIDE DEF Rest
<1> QED BY <1>1, <1>2, <1>3, <1>4, <1>5, <1>6, <1>7, <1>8, <1>9 DEF Next

LEMMA EngineInvariant == Spec => []EngineInv
<1>1. Init => EngineInv
  <2> SUFFICES ASSUME Init PROVE EngineInv
    OBVIOUS
  <2>1. /\ legacy_machine = Null /\ contexts = {} /\ engine = Null
        /\ lost = {} /\ tiles = {} /\ own = {}
        /\ current_core = "null" /\ framebuffer = "null" /\ fault = "none"
    BY DEF Init
  <2> QED
    BY TypeInit, <2>1 DEF EngineInv, EngineWhole, NothingHeld, TilesHeld, MenuFits,
       TargetFits, NoFreedUse
<1> QED BY <1>1, EngineStep, PTL DEF Spec

\* An application with one context at a time can always use it: its managers
\* point to live memory, and the menu draws with the Tilengine context it holds.
THEOREM EngineStaysWhole == Spec => []EngineWhole
<1>1. EngineInv => EngineWhole
  BY DEF EngineInv
<1> QED BY <1>1, EngineInvariant, PTL

\* With one engine context at a time LMC_Deinit leaves neither engine context nor
\* core structure nor framebuffer, and of Tilengine contexts only those the
\* application is to delete and, where a refused context was current, the one of
\* the menu; a start overwrites the pointer to no live block but to such a one
\* (LMC_Init, LMC_Deinit, LMC_SetMenuTileEngineContext).
THEOREM EngineLeavesNothing == Spec => []NothingHeld
<1>1. EngineInv => NothingHeld
  BY DEF EngineInv
<1> QED BY <1>1, EngineInvariant, PTL

\* Whatever Tilengine contexts the menu goes through, the one in use fits in
\* the framebuffer it draws on.
THEOREM MenuDrawsInside == Spec => []TargetFits
<1>1. EngineInv => TargetFits
  BY DEF EngineInv
<1> QED BY <1>1, EngineInvariant, PTL

\* With one context at a time, and none refused, nothing is freed twice and
\* nothing is used after it was freed.
THEOREM FreedOnce == Spec => []NoFreedUse
<1>1. EngineInv => NoFreedUse
  BY DEF EngineInv
<1> QED BY <1>1, EngineInvariant, PTL

=============================================================================
