------------------------- MODULE VideoPipelineProofs ------------------------
(* Proofs about VideoPipeline, for all sizes and any number of lost windows. *)
EXTENDS VideoPipeline, TLAPS

\* The three invariants are proved together with the types: a new backbuffer
\* has the size base, and base is a size once there was a window.
Based == created \/ renderer => base # 0

PipelineInv ==
  TypeOK /\ PipelineWhole /\ CrtOnBackbuffer /\ Based /\ BackbufferMatches

LEMMA InitPipeline == Init => PipelineInv
<1> SUFFICES ASSUME Init PROVE PipelineInv
  OBVIOUS
<1>1. TypeOK
  <2>1. leaked \in 0 .. MaxLeaked
    BY MaxLeakedAssumption DEF Init
  <2>2. crt \in [null : BOOLEAN, framebuffer : {"null", "texture", "dangling"},
                size : Sizes \cup {0}, blur : BOOLEAN]
    BY DEF Init, NoCrt
  <2>3. /\ backbuffer \in Sizes \cup {NoTexture} /\ base \in Sizes \cup {0}
        /\ framebuffer \in Pointers /\ target \in Pointers
        /\ format \in Formats /\ core_format \in Formats
        /\ pixels \in {"blank", "menu", "core"}
        /\ filter \in [enabled : BOOLEAN, blur : BOOLEAN]
    BY DEF Init, NoTexture, Formats, Pointers
  <2>4. /\ created \in BOOLEAN /\ window \in BOOLEAN /\ renderer \in BOOLEAN
        /\ running \in BOOLEAN /\ announced \in BOOLEAN /\ resized \in BOOLEAN
    BY DEF Init
  <2> QED BY <2>1, <2>2, <2>3, <2>4 DEF TypeOK
<1>2. PipelineWhole
  BY DEF Init, PipelineWhole
<1>3. CrtOnBackbuffer /\ Based /\ BackbufferMatches
  BY DEF Init, CrtOnBackbuffer, Based, BackbufferMatches, NoCrt
<1> QED BY <1>1, <1>2, <1>3 DEF PipelineInv

\* What a destroyed backbuffer leaves of the two pointers keeps their types.
LEMMA FreedType ==
  /\ \A p \in Pointers : Freed(p) \in Pointers
  /\ \A p \in {"null", "texture", "dangling"} :
       Freed(p) \in {"null", "texture", "dangling"}
BY DEF Freed, Pointers

\* SDL2_InitializeWindow, whatever succeeds and whatever was open before.
LEMMA WindowStep ==
  ASSUME PipelineInv, NEW ok \in BOOLEAN, NEW inUse \in BOOLEAN, NEW s \in Sizes,
         InitializeWindow(ok, inUse, s), base' = s, filter' \in [enabled : BOOLEAN, blur : BOOLEAN],
         created' \in BOOLEAN, format' \in Formats, core_format' \in Formats,
         running' \in BOOLEAN, announced' \in BOOLEAN
  PROVE  PipelineInv'
<1> USE SizeAssumption, MaxLeakedAssumption DEF PipelineInv, Sizes, NoTexture
<1>1. window' = ok /\ renderer' = ok /\ backbuffer' = Texture(ok, s)
      /\ crt' = IF ok THEN NewCrt(s, filter.blur) ELSE NoCrt
  BY DEF InitializeWindow, InitializeBackbuffer
<1>2. leaked' \in 0 .. MaxLeaked
  BY DEF InitializeWindow, TypeOK
<1>3. /\ framebuffer' \in Pointers /\ target' \in Pointers /\ pixels' = "blank"
      /\ resized' \in BOOLEAN
  BY FreedType DEF InitializeWindow, InitializeBackbuffer, FreePointers, TypeOK
<1>4. crt' \in [null : BOOLEAN, framebuffer : {"null", "texture", "dangling"},
                size : Sizes \cup {0}, blur : BOOLEAN]
  BY <1>1 DEF NewCrt, NoCrt, TypeOK
<1>5. TypeOK'
  BY <1>1, <1>2, <1>3, <1>4 DEF TypeOK, Texture
<1> QED BY <1>1, <1>5
        DEF PipelineWhole, CrtOnBackbuffer, Based, BackbufferMatches, NewCrt, NoCrt, Texture

\* Replacing the backbuffer under a window that stays, provided the handler
\* ends up on the new one or the filter off.
LEMMA BackbufferStep ==
  ASSUME PipelineInv, InitializeBackbuffer(Texture(renderer, base)),
         UNCHANGED <<sdl, frame, core>>,
         filter' \in [enabled : BOOLEAN, blur : BOOLEAN],
         crt' \in [null : BOOLEAN, framebuffer : {"null", "texture", "dangling"},
                   size : Sizes \cup {0}, blur : BOOLEAN],
         renderer => ~crt'.null,
         filter'.enabled /\ ~crt'.null /\ backbuffer' # NoTexture
           => crt'.framebuffer = "texture"
  PROVE  PipelineInv'
<1> USE SizeAssumption DEF PipelineInv, Sizes, NoTexture, sdl, frame, core
<1>1. backbuffer' = Texture(renderer, base) /\ pixels' = "blank"
  BY DEF InitializeBackbuffer
<1>2. framebuffer' \in Pointers /\ target' \in Pointers /\ resized' \in BOOLEAN
  BY FreedType DEF InitializeBackbuffer, FreePointers, TypeOK
<1>3. TypeOK'
  BY <1>1, <1>2 DEF TypeOK, Texture
<1> QED BY <1>1, <1>3
        DEF PipelineWhole, CrtOnBackbuffer, Based, BackbufferMatches, Texture, TypeOK

LEMMA PipelineStep == PipelineInv /\ [Next]_vars => PipelineInv'
<1> SUFFICES ASSUME PipelineInv, [Next]_vars PROVE PipelineInv'
  OBVIOUS
<1> USE SizeAssumption, MaxLeakedAssumption DEF Sizes, NoTexture
<1>t. TypeOK /\ PipelineWhole /\ CrtOnBackbuffer /\ Based /\ BackbufferMatches
  BY DEF PipelineInv
<1>1. ASSUME NEW blur \in BOOLEAN, ConfigCRTEffect(blur) PROVE PipelineInv'
  <2>1. crt' = NewCrt(Texture(renderer, base), blur)
        /\ backbuffer' = Texture(renderer, base)
    BY <1>1 DEF ConfigCRTEffect, InitializeBackbuffer
  <2>2. crt' \in [null : BOOLEAN, framebuffer : {"null", "texture", "dangling"},
                  size : Sizes \cup {0}, blur : BOOLEAN]
    BY <2>1, <1>t DEF NewCrt, Texture, TypeOK
  <2> QED BY <1>1, <2>1, <2>2, BackbufferStep DEF ConfigCRTEffect, NewCrt
<1>2. ASSUME NEW mode \in BOOLEAN, EnableRFBlur(mode) PROVE PipelineInv'
  <2>1. TypeOK'
    BY <1>2, <1>t DEF EnableRFBlur, TypeOK, sdl, textures, frame, core
  <2>2. crt'.null = crt.null /\ crt'.framebuffer = crt.framebuffer
    BY <1>2, <1>t DEF EnableRFBlur, TypeOK
  <2> QED BY <1>2, <1>t, <2>1, <2>2
          DEF EnableRFBlur, PipelineInv, PipelineWhole, CrtOnBackbuffer, Based,
              BackbufferMatches, sdl, textures, frame, core
<1>3. CASE ToggleCRTEffect
  <2>1. crt' = CRTSetRenderTarget /\ filter' = [filter EXCEPT !.enabled = ~@]
    BY <1>3 DEF ToggleCRTEffect
  <2>2. crt' \in [null : BOOLEAN, framebuffer : {"null", "texture", "dangling"},
                  size : Sizes \cup {0}, blur : BOOLEAN]
    BY <2>1, <1>t, FreedType DEF CRTSetRenderTarget, TypeOK
  <2>3. crt'.null = crt.null /\ (~crt.null /\ backbuffer' # NoTexture
                                   => crt'.framebuffer = "texture")
    BY <2>1, <1>t DEF CRTSetRenderTarget, TypeOK
  <2>4. filter' \in [enabled : BOOLEAN, blur : BOOLEAN]
    BY <2>1, <1>t DEF TypeOK
  <2> QED BY <1>3, <1>t, <2>2, <2>3, <2>4, BackbufferStep
          DEF ToggleCRTEffect, PipelineWhole
<1>4. CASE DisableCRTEffect
  <2>1. crt' = [crt EXCEPT !.framebuffer = Freed(@)]
        /\ filter' = [filter EXCEPT !.enabled = FALSE]
    BY <1>4 DEF DisableCRTEffect
  <2>2. crt' \in [null : BOOLEAN, framebuffer : {"null", "texture", "dangling"},
                  size : Sizes \cup {0}, blur : BOOLEAN] /\ crt'.null = crt.null
    BY <2>1, <1>t, FreedType DEF TypeOK
  <2>3. filter' \in [enabled : BOOLEAN, blur : BOOLEAN] /\ ~filter'.enabled
    BY <2>1, <1>t DEF TypeOK
  <2> QED BY <1>4, <1>t, <2>2, <2>3, BackbufferStep
          DEF DisableCRTEffect, PipelineWhole
<1>5. ASSUME NEW nearest \in BOOLEAN, NEW ok \in BOOLEAN, CreateWindow(nearest, ok)
      PROVE  PipelineInv'
  <2>1. filter' \in [enabled : BOOLEAN, blur : BOOLEAN]
    BY <1>5, <1>t DEF CreateWindow, TypeOK
  <2> QED BY <1>5, <1>t, <2>1, WindowStep DEF CreateWindow, TypeOK, Formats, core
<1>6. CASE DeleteWindow
  <2>a. leaked' \in 0 .. MaxLeaked
    BY <1>6 DEF DeleteWindow
  <2>b. crt' \in [null : BOOLEAN, framebuffer : {"null", "texture", "dangling"},
                 size : Sizes \cup {0}, blur : BOOLEAN]
    BY <1>6 DEF DeleteWindow, CloseVideo, NoCrt
  <2>c. /\ backbuffer' \in Sizes \cup {NoTexture}
        /\ framebuffer' \in Pointers /\ target' \in Pointers
        /\ pixels' \in {"blank", "menu", "core"}
    BY <1>6, <1>t, FreedType DEF DeleteWindow, CloseVideo, FreePointers, TypeOK
  <2>d. /\ UNCHANGED <<filter, base, format, core_format, announced>>
        /\ created' \in BOOLEAN /\ window' \in BOOLEAN /\ renderer' \in BOOLEAN
        /\ running' \in BOOLEAN /\ resized' \in BOOLEAN
    BY <1>6 DEF DeleteWindow, CloseVideo, frame
  <2>1. TypeOK'
    BY <2>a, <2>b, <2>c, <2>d, <1>t DEF TypeOK
  <2>2. PipelineWhole'
    BY <1>6 DEF DeleteWindow, CloseVideo, PipelineWhole
  <2>3. CrtOnBackbuffer' /\ Based' /\ BackbufferMatches'
    BY <1>6 DEF DeleteWindow, CloseVideo, CrtOnBackbuffer, Based, BackbufferMatches
  <2> QED BY <2>1, <2>2, <2>3 DEF PipelineInv
<1>7. ASSUME NEW ok \in BOOLEAN, ToggleFullscreen(ok) PROVE PipelineInv'
  <2>1. CASE base \in Sizes
    BY <1>7, <1>t, <2>1, WindowStep DEF ToggleFullscreen, TypeOK, frame, core
  <2>2. CASE base = 0
    BY <1>7, <1>t, <2>2 DEF ToggleFullscreen, KeyEvent, Based
  <2> QED BY <1>t, <2>1, <2>2 DEF TypeOK
<1>8. ASSUME NEW s \in CoreSizes, NEW f \in Formats, NEW told \in BOOLEAN,
             NEW ok \in BOOLEAN, LoadContent(s, f, told, ok)
      PROVE  PipelineInv'
  <2>1. InitializeWindow(ok, window, s) /\ base' = s
    BY <1>8 DEF LoadContent, ShowContent
  <2> QED BY <1>8, <1>t, <2>1, WindowStep DEF LoadContent, SetPixelFormat, TypeOK
<1>9. ASSUME NEW s \in CoreSizes, SetGeometry(s) PROVE PipelineInv'
  BY <1>9, <1>t DEF SetGeometry, PipelineInv, TypeOK, PipelineWhole,
                    CrtOnBackbuffer, Based, BackbufferMatches, sdl, textures, core
<1>10. CASE CloseCore
  <2>a. UNCHANGED <<window, renderer, backbuffer, crt, filter>>
    BY <1>10 DEF CloseCore, sdl, textures
  <2>b. /\ UNCHANGED <<created, leaked, framebuffer, target, pixels>>
        /\ UNCHANGED <<base, format, core_format, announced, resized>>
        /\ running' \in BOOLEAN
    BY <1>10 DEF CloseCore, sdl, textures, frame
  <2>1. TypeOK'
    BY <2>a, <2>b, <1>t DEF TypeOK
  <2>2. PipelineWhole' /\ CrtOnBackbuffer'
    BY <2>a, <1>t DEF PipelineWhole, CrtOnBackbuffer
  <2>3. Based' /\ BackbufferMatches'
    BY <1>10, <1>t DEF CloseCore, Based, BackbufferMatches, sdl, frame
  <2> QED BY <2>1, <2>2, <2>3 DEF PipelineInv
<1>11. ASSUME NEW due \in BOOLEAN, MenuFrame(due) PROVE PipelineInv'
  BY <1>11, <1>t DEF MenuFrame, Locked, PipelineInv, TypeOK, PipelineWhole,
                     CrtOnBackbuffer, Based, BackbufferMatches, Pointers, Formats, sdl, core
<1>12. ASSUME NEW data \in BOOLEAN, CoreFrame(data) PROVE PipelineInv'
  BY <1>12, <1>t DEF CoreFrame, Locked, PipelineInv, TypeOK, PipelineWhole,
                     CrtOnBackbuffer, Based, BackbufferMatches, Pointers, sdl, frame, core
<1>13. CASE UNCHANGED vars
  BY <1>13, <1>t DEF vars, PipelineInv, TypeOK, PipelineWhole, CrtOnBackbuffer,
                     Based, BackbufferMatches, sdl, textures, frame, core
<1> QED BY <1>1, <1>2, <1>3, <1>4, <1>5, <1>6, <1>7, <1>8, <1>9, <1>10, <1>11,
           <1>12, <1>13 DEF Next

LEMMA PipelineInvariant == Spec => []PipelineInv
BY InitPipeline, PipelineStep, PTL DEF Spec

\* Every variable keeps its type, for all sizes and any number of lost windows.
THEOREM VideoTypeCorrect == Spec => []TypeOK
<1>1. PipelineInv => TypeOK
  BY DEF PipelineInv
<1> QED BY <1>1, PipelineInvariant, PTL

\* Window, renderer, backbuffer and CRT handler come and go together, whichever
\* of the window calls fails and whenever.
THEOREM VideoWhole == Spec => []PipelineWhole
<1>1. PipelineInv => PipelineWhole
  BY DEF PipelineInv
<1> QED BY <1>1, PipelineInvariant, PTL

\* A frame drawn through the CRT filter is drawn from the texture it was put in.
THEOREM FilterOnBackbuffer == Spec => []CrtOnBackbuffer
<1>1. PipelineInv => CrtOnBackbuffer
  BY DEF PipelineInv
<1> QED BY <1>1, PipelineInvariant, PTL

\* A running core draws on a backbuffer of the size of its frames, unless it
\* changed its geometry since that backbuffer was made.
THEOREM BackbufferFollows == Spec => []BackbufferMatches
<1>1. PipelineInv => BackbufferMatches
  BY DEF PipelineInv
<1> QED BY <1>1, PipelineInvariant, PTL

\* A core that announces its pixel format is read in that format until it ends.
THEOREM FormatKept == Spec => []FormatAgrees
<1>1. Init => FormatAgrees /\ (running => created)
  BY DEF Init, FormatAgrees
<1>2. FormatAgrees /\ (running => created) /\ [Next]_vars
        => (FormatAgrees /\ (running => created))'
  <2> SUFFICES ASSUME FormatAgrees, running => created, [Next]_vars
               PROVE  (FormatAgrees /\ (running => created))'
    OBVIOUS
  <2> USE DEF FormatAgrees
  <2>1. ASSUME NEW s \in CoreSizes, NEW f \in Formats, NEW told \in BOOLEAN,
               NEW ok \in BOOLEAN, LoadContent(s, f, told, ok)
        PROVE  (FormatAgrees /\ (running => created))'
    BY <2>1 DEF LoadContent, SetPixelFormat
  <2>2. ASSUME NEW nearest \in BOOLEAN, NEW ok \in BOOLEAN, CreateWindow(nearest, ok)
        PROVE  (FormatAgrees /\ (running => created))'
    BY <2>2 DEF CreateWindow, core
  <2>3. ASSUME NEW due \in BOOLEAN, MenuFrame(due)
        PROVE  (FormatAgrees /\ (running => created))'
    BY <2>3 DEF MenuFrame, sdl, core
  <2>4. CASE DeleteWindow \/ CloseCore
    BY <2>4 DEF DeleteWindow, CloseCore
  <2>5. CASE UNCHANGED <<created, running, announced, format, core_format>>
    BY <2>5
  <2>6. ASSUME NEW s \in CoreSizes, SetGeometry(s)
        PROVE  UNCHANGED <<created, running, announced, format, core_format>>
    BY <2>6 DEF SetGeometry, sdl, core
  <2>7. ASSUME NEW b \in BOOLEAN,
               ConfigCRTEffect(b) \/ EnableRFBlur(b) \/ ToggleCRTEffect
               \/ DisableCRTEffect \/ ToggleFullscreen(b) \/ CoreFrame(b)
        PROVE  UNCHANGED <<created, running, announced, format, core_format>>
    BY <2>7 DEF ConfigCRTEffect, EnableRFBlur, ToggleCRTEffect, DisableCRTEffect,
                ToggleFullscreen, CoreFrame, sdl, frame, core
  <2>8. CASE UNCHANGED vars
    BY <2>8, <2>5 DEF vars, sdl, frame, core
  <2> QED BY <2>1, <2>2, <2>3, <2>4, <2>5, <2>6, <2>7, <2>8 DEF Next
<1> QED BY <1>1, <1>2, PTL DEF Spec

=============================================================================
