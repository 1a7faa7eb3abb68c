-------------------------- MODULE GameSelectProofs --------------------------
(* Proofs about GameSelect, for lists and pages of any length. *)
EXTENDS GameSelect, TLAPS

Icons == [name : Games \cup {NoGame}, lit : BOOLEAN, icon : Games \cup {NoGame}]

\* Before the list is read the cursor is at its start; only the menu launches,
\* and the menu does not come back.
Fresh0 == state = "NotStarted" => page = 0 /\ active = 0 /\ \A r \in Rows : screen[r] = Blank
Once ==
  /\ state # "GameRunning" /\ ~ended => launched = <<>>
  /\ Len(launched) <= 1

MenuInv ==
  TypeOK /\ CursorOnPage /\ PageShown /\ LaunchedIsActive /\ Once /\ Fresh0

\* Where pages begin.
LEMMA Pages ==
  /\ \A p \in Nat : p * PerPage \in Nat /\ (p + 1) * PerPage = p * PerPage + PerPage
  /\ \A p \in Nat : p # 0 => p - 1 \in Nat /\ (p - 1) * PerPage = p * PerPage - PerPage
  /\ 0 * PerPage = 0
BY GamesAssumption

\* Every key leaves the cursor on a game of the page it leaves it on.
LEMMA Moves ==
  ASSUME total \in 0 .. MaxGames, page \in Nat, active \in Nat,
         last \in Nav \cup {"NONE"}, CursorOnPage,
         NEW keys, UpdateActiveOption(keys), UNCHANGED total
  PROVE  /\ page' \in Nat /\ active' \in Nat /\ last' \in Nav \cup {"NONE"}
         /\ CursorOnPage'
<1> USE GamesAssumption, UIntAssumption, Pages DEF ListStart, ListEnd, Least
<1>1. last' \in Nav \cup {"NONE"}
  BY DEF UpdateActiveOption, Nav
<1>2. CASE Forward
  <2>1. CASE total = 0
    BY <1>2, <2>1, <1>1 DEF Forward, LastOption, CursorOnPage
  <2>2. CASE total # 0
    <3>1. active' \in Nat /\ active' < total /\ active <= active' /\ active' <= active + 1
      BY <1>2, <2>2 DEF Forward, LastOption, CursorOnPage
    <3>2. CASE active' >= ListEnd(page)
      <4>1. page' = page + 1 /\ active' = page * PerPage + PerPage
        BY <1>2, <2>2, <3>1, <3>2 DEF Forward, CursorOnPage
      <4> QED BY <1>1, <3>1, <4>1 DEF CursorOnPage
    <3>3. CASE ~(active' >= ListEnd(page))
      <4>1. page' = page
        BY <1>2, <3>3 DEF Forward
      <4> QED BY <1>1, <2>2, <3>1, <3>3, <4>1 DEF CursorOnPage
    <3> QED BY <3>2, <3>3
  <2> QED BY <2>1, <2>2
<1>3. CASE Backward
  <2>1. active' \in Nat /\ active' <= active /\ active <= active' + 1
    BY <1>3 DEF Backward
  <2>2. CASE active' < ListStart(page)
    <3>1. page' = page - 1 /\ page # 0
      BY <1>3, <2>1, <2>2 DEF Backward
    <3>2. PICK q \in Nat : page' = q /\ page = q + 1
      BY <3>1
    <3>3. q * PerPage \in Nat /\ page * PerPage = q * PerPage + PerPage
      BY <3>2
    <3>4. total > 0 => page * PerPage <= active /\ active < total
      BY <3>3 DEF CursorOnPage
    <3>5. total > 0 => q * PerPage <= active' /\ active' < Least(q * PerPage + PerPage, total)
      <4>1. PICK m \in Nat : q * PerPage = m
        BY <3>3
      <4>2. active' < m + PerPage
        BY <2>2, <3>3, <4>1
      <4>3. total > 0 => m + PerPage <= active /\ active < total
        BY <3>3, <3>4, <4>1
      <4>4. total > 0 => m <= active' /\ active' < Least(m + PerPage, total)
        <5>1. PICK a \in Nat : active' = a
          BY <2>1
        <5> HIDE Pages DEF ListStart, ListEnd
        <5>2. a <= active /\ active <= a + 1 /\ a < m + PerPage
          BY <2>1, <4>2, <5>1
        <5>3. total > 0 => m <= a /\ a < total
          BY <4>3, <5>2
        <5> QED BY <5>1, <5>2, <5>3
      <4> QED BY <4>1, <4>4
    <3> QED BY <1>1, <2>1, <3>2, <3>5 DEF CursorOnPage
  <2>3. CASE ~(active' < ListStart(page))
    <3>1. page' = page
      BY <1>3, <2>3 DEF Backward
    <3> QED BY <1>1, <2>1, <2>3, <3>1 DEF CursorOnPage
  <2> QED BY <2>2, <2>3
<1>4. CASE PageBack
  <2>1. CASE ListStart(page) = 0
    BY <1>1, <1>4, <2>1 DEF PageBack, CursorOnPage
  <2>2. CASE ListStart(page) # 0
    <3>1. page # 0 /\ page' = page - 1 /\ active' = page' * PerPage
      BY <1>4, <2>2 DEF PageBack
    <3> QED BY <1>1, <3>1 DEF CursorOnPage
  <2> QED BY <2>1, <2>2
<1>5. CASE PageForward
  <2>1. CASE LastPage
    BY <1>1, <1>5, <2>1 DEF PageForward, CursorOnPage
  <2>2. CASE ~LastPage
    <3>1. page' = page + 1 /\ active' = page' * PerPage
          /\ page * PerPage + PerPage < total
      BY <1>5, <2>2 DEF PageForward, LastPage
    <3> QED BY <1>1, <3>1 DEF CursorOnPage
  <2> QED BY <2>1, <2>2
<1>6. CASE UNCHANGED <<page, active>>
  BY <1>1, <1>6 DEF CursorOnPage
<1> QED BY <1>2, <1>3, <1>4, <1>5, <1>6 DEF UpdateActiveOption

\* A drawn page is whole, whatever the screen showed.
LEMMA Draws ==
  ASSUME TypeOK, PageShown, ~ended, NEW p \in Nat, page' = p, active' \in Nat,
         UNCHANGED total, Update
  PROVE  screen' \in [Rows -> Icons] /\ \A r \in Rows : RowShows(r)'
<1> USE GamesAssumption DEF ListStart
<1>p. p * PerPage \in Nat
  BY Pages
<1>1. ListEnd(p) \in Nat /\ ListEnd(p) <= MaxGames /\ ListEnd(page') = ListEnd(p)
  <2>1. total \in Nat /\ total <= MaxGames /\ PerPage \in Nat
    BY DEF TypeOK
  <2>2. p * PerPage + PerPage \in Nat
    BY <1>p, <2>1
  <2> QED BY <2>1, <2>2 DEF ListEnd, Least
<1>2. Cleared \in [Rows -> Icons]
  BY DEF Cleared, TypeOK, Icons, Blank, Games, NoGame
<1>3. ASSUME NEW r \in Rows
      PROVE  screen'[r] \in Icons /\ RowShows(r)'
  <2> DEFINE g == p * PerPage + r
  <2>1. g \in Nat
    BY <1>p DEF Rows
  <2>2. screen'[r] = IF g < ListEnd(p)
                     THEN [name |-> g, lit |-> g = active',
                           icon |-> IF g \in Iconless THEN Cleared[r].icon ELSE g]
                     ELSE Cleared[r]
    BY <1>1 DEF Update
  <2>3. Cleared[r] = Blank
        \/ (page' = page /\ Cleared[r] = screen[r] /\ RowShows(r))
    BY DEF Cleared, PageShown
  <2>4. g < ListEnd(p) => Cleared[r].icon \in {g, NoGame}
    <3>1. CASE Cleared[r] = Blank
      BY <3>1 DEF Blank
    <3>2. CASE page' = page /\ Cleared[r] = screen[r] /\ RowShows(r)
      BY <3>2 DEF RowShows, ListEnd
    <3> QED BY <2>3, <3>1, <3>2
  <2>5. ~(g < ListEnd(p)) => Cleared[r] = Blank
    BY <2>3 DEF RowShows, ListEnd
  <2>6. ListEnd(p) = ListEnd(page)'
    BY DEF ListEnd
  <2>7. RowShows(r)'
    BY <2>2, <2>4, <2>5, <2>6 DEF RowShows
  <2>8. g < ListEnd(p) => g \in Games
    BY <1>1, <2>1 DEF Games
  <2>9. screen'[r] \in Icons
    BY <1>2, <2>2, <2>4, <2>8 DEF Icons
  <2> QED BY <2>7, <2>9
<1>4. screen' = [r \in Rows |-> screen'[r]]
  BY DEF Update
<1> QED BY <1>3, <1>4

LEMMA MenuInit == Init => MenuInv
<1> SUFFICES ASSUME Init PROVE MenuInv
  OBVIOUS
<1> USE GamesAssumption, BootAssumption DEF Init
<1>1. TypeOK
  BY DEF TypeOK, Rows, Blank, Games, NoGame, Nav
<1>2. CursorOnPage /\ Once /\ LaunchedIsActive /\ Fresh0
  BY DEF CursorOnPage, Once, LaunchedIsActive, Fresh0
<1>3. PageShown
  BY DEF PageShown
<1> QED BY <1>1, <1>2, <1>3 DEF MenuInv

LEMMA MenuStep == MenuInv /\ [Next]_vars => MenuInv'
<1> SUFFICES ASSUME MenuInv, [Next]_vars PROVE MenuInv'
  OBVIOUS
<1> USE GamesAssumption, BootAssumption
<1>t. TypeOK /\ CursorOnPage /\ PageShown /\ LaunchedIsActive /\ Once /\ Fresh0
  BY DEF MenuInv
<1>1. ASSUME NEW games \in 0 .. MaxGames, NEW ok \in BOOLEAN, Start(games, ok)
      PROVE  MenuInv'
  <2>1. page = 0 /\ active = 0 /\ \A r \in Rows : screen[r] = Blank
    BY <1>1, <1>t DEF Start, Fresh0
  <2>2. TypeOK'
    BY <1>1, <1>t DEF Start, TypeOK, cursor
  <2>3. CursorOnPage'
    BY <1>1, <2>1, Pages DEF Start, CursorOnPage, ListStart, ListEnd, Least, cursor
  <2>4. PageShown'
    BY <1>1, <2>1 DEF Start, PageShown
  <2>5. LaunchedIsActive' /\ Once' /\ Fresh0'
    BY <1>1, <1>t DEF Start, LaunchedIsActive, Once, Fresh0, cursor
  <2> QED BY <2>2, <2>3, <2>4, <2>5 DEF MenuInv
<1>2. ASSUME NEW ok \in BOOLEAN, Boot(ok) PROVE MenuInv'
  <2>1. TypeOK'
    BY <1>2, <1>t DEF Boot, NextFrame, TypeOK, cursor, list
  <2>2. CursorOnPage' /\ PageShown'
    BY <1>2, <1>t DEF Boot, CursorOnPage, PageShown, RowShows, ListStart, ListEnd,
                      cursor, list
  <2>3. LaunchedIsActive' /\ Once' /\ Fresh0'
    BY <1>2, <1>t DEF Boot, LaunchedIsActive, Once, Fresh0, cursor
  <2> QED BY <2>1, <2>2, <2>3 DEF MenuInv
<1>3. ASSUME NEW keys \in SUBSET Keys, NEW ok \in BOOLEAN, Select(keys, ok)
      PROVE  MenuInv'
  <2>1. page' \in Nat /\ active' \in Nat /\ last' \in Nav \cup {"NONE"} /\ CursorOnPage'
    BY <1>3, <1>t, Moves DEF Select, TypeOK, list
  <2>2. ~ended /\ launched = <<>> /\ UNCHANGED <<total, frame>> /\ held' = keys
    BY <1>3, <1>t DEF Select, Once, list
  <2>3. /\ launched' \in {<<>>, <<active'>>}
        /\ running' \in BOOLEAN /\ ended' \in BOOLEAN
        /\ ~ended' /\ launched' # <<>> => running'
    <3>1. CASE "START" \in keys
      <4>1. launched' = Append(launched, active') /\ running' = TRUE /\ ended' = ~ok
        BY <1>3, <3>1 DEF Select, LoadGame
      <4>2. launched' = <<active'>>
        BY <2>1, <2>2, <4>1
      <4> QED BY <4>1, <4>2
    <3>2. CASE "START" \notin keys
      BY <1>3, <1>t, <2>2, <3>2 DEF Select, TypeOK
    <3> QED BY <3>1, <3>2
  <2>l. launched' \in Seq(Nat)
    <3>1. PICK a \in Nat : active' = a
      BY <2>1
    <3>2. <<>> \in Seq(Nat) /\ <<a>> \in Seq(Nat)
      OBVIOUS
    <3> QED BY <2>3, <3>1, <3>2
  <2>4. CASE ended'
    <3>1. UNCHANGED <<screen, state>>
      BY <1>3, <2>4 DEF Select
    <3>2. TypeOK'
      BY <1>t, <2>1, <2>2, <2>3, <2>l, <3>1 DEF TypeOK
    <3>3. PageShown' /\ LaunchedIsActive' /\ Once'
      BY <2>3, <2>4 DEF PageShown, LaunchedIsActive, Once
    <3>4. Fresh0'
      BY <1>3, <3>1 DEF Select, Fresh0
    <3> QED BY <2>1, <3>2, <3>3, <3>4 DEF MenuInv
  <2>5. CASE ~ended'
    <3>1. Update /\ state' = StateAfterMenu
      BY <1>3, <2>5 DEF Select
    <3>2. screen' \in [Rows -> Icons] /\ \A r \in Rows : RowShows(r)'
      <4>1. PICK p \in Nat : page' = p
        BY <2>1
      <4> QED BY <1>t, <2>1, <2>2, <3>1, <4>1, Draws
    <3>a. state' \in {"NotStarted", "Startup", "GameSelect", "GameRunning"}
      BY <3>1 DEF StateAfterMenu
    <3>3. TypeOK'
      BY <1>t, <2>1, <2>2, <2>3, <2>l, <3>a, <3>2 DEF TypeOK, Icons
    <3>4. PageShown'
      BY <3>2 DEF PageShown
    <3>5. LaunchedIsActive' /\ Once' /\ Fresh0'
      BY <2>3, <2>5, <3>1 DEF LaunchedIsActive, Once, Fresh0, StateAfterMenu
    <3> QED BY <2>1, <3>3, <3>4, <3>5 DEF MenuInv
  <2> QED BY <2>3, <2>4, <2>5
<1>4. CASE Close
  <2>1. TypeOK'
    BY <1>4, <1>t DEF Close, TypeOK, cursor, list
  <2>2. CursorOnPage' /\ PageShown'
    BY <1>4, <1>t DEF Close, CursorOnPage, PageShown, ListStart, ListEnd, cursor, list
  <2>3. LaunchedIsActive' /\ Once' /\ Fresh0'
    BY <1>4, <1>t DEF Close, LaunchedIsActive, Once, Fresh0, cursor
  <2> QED BY <2>1, <2>2, <2>3 DEF MenuInv
<1>5. CASE UNCHANGED vars
  <2>1. TypeOK'
    BY <1>5, <1>t DEF vars, TypeOK, cursor, list
  <2>2. CursorOnPage' /\ PageShown'
    BY <1>5, <1>t DEF vars, CursorOnPage, PageShown, RowShows, ListStart, ListEnd,
                      cursor, list
  <2>3. LaunchedIsActive' /\ Once' /\ Fresh0'
    BY <1>5, <1>t DEF vars, LaunchedIsActive, Once, Fresh0, cursor
  <2> QED BY <2>1, <2>2, <2>3 DEF MenuInv
<1> QED BY <1>1, <1>2, <1>3, <1>4, <1>5 DEF Next, Turn

LEMMA MenuInvariant == Spec => []MenuInv
BY MenuInit, MenuStep, PTL DEF Spec

\* Every variable of the menu keeps its type, for every length of list and page.
THEOREM MenuTypeCorrect == Spec => []TypeOK
<1>1. MenuInv => TypeOK
  BY DEF MenuInv
<1> QED BY <1>1, MenuInvariant, PTL

\* The active option is a game of the current page.
THEOREM CursorStaysOnPage == Spec => []CursorOnPage
<1>1. MenuInv => CursorOnPage
  BY DEF MenuInv
<1> QED BY <1>1, MenuInvariant, PTL

\* The screen shows the current page and nothing else.
THEOREM ScreenFollows == Spec => []PageShown
<1>1. MenuInv => PageShown
  BY DEF MenuInv
<1> QED BY <1>1, MenuInvariant, PTL

\* At most one game is launched, and it is the one the menu was left with.
THEOREM LaunchesOneGame == Spec => [](LoadsOnce /\ LaunchedIsActive)
<1>1. MenuInv => LoadsOnce /\ LaunchedIsActive
  BY DEF MenuInv, Once, LoadsOnce
<1> QED BY <1>1, MenuInvariant, PTL

\* A single key that was held in the last frame is the one acted on.
HeldActed == \A k \in Nav : held \cap Nav = {k} => last = k

LEMMA Acted ==
  ASSUME NEW keys, UpdateActiveOption(keys), NEW k \in Nav, keys \cap Nav = {k}
  PROVE  last' = k /\ (last = k => UNCHANGED <<page, active>>)
<1>1. \A j \in Nav : Fresh(j, keys) => j = k /\ last # k
  BY DEF Fresh
<1>2. \A j \in Nav : Acts(j, keys) => Fresh(j, keys)
  BY DEF Acts
<1>3. k \in keys
  OBVIOUS
<1> QED BY <1>1, <1>2, <1>3 DEF UpdateActiveOption, Fresh, Nav

\* A key held down moves the option once, however long it is held.
THEOREM HeldKeyMovesOnce == Spec => MovesOncePerPress
<1>1. Init => HeldActed
  BY DEF Init, HeldActed, Nav
<1>2. HeldActed /\ [Next]_vars => HeldActed'
  <2> SUFFICES ASSUME HeldActed, [Next]_vars PROVE HeldActed'
    OBVIOUS
  <2>1. ASSUME NEW keys \in SUBSET Keys, NEW ok \in BOOLEAN, Select(keys, ok)
        PROVE  HeldActed'
    BY <2>1, Acted DEF Select, HeldActed
  <2>2. CASE UNCHANGED <<held, last>>
    BY <2>2 DEF HeldActed
  <2> QED BY <2>1, <2>2 DEF Next, Turn, Start, Boot, Close, vars, cursor
<1>3. HeldActed /\ [Next]_vars =>
        [ /\ \E keys \in SUBSET Keys, ok \in BOOLEAN : Select(keys, ok)
          /\ held' = held
          /\ \E k \in Nav : held \cap Nav = {k}
          => UNCHANGED <<page, active>> ]_vars
  BY Acted DEF HeldActed, Select
<1> QED BY <1>1, <1>2, <1>3, PTL DEF Spec, MovesOncePerPress

=============================================================================
