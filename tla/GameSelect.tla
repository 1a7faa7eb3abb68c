----------------------------- MODULE GameSelect -----------------------------
(***************************************************************************)
(* The frontends under source/Examples: the machine that shows a startup   *)
(* screen, then the pages of a game list, then hands the screen over to    *)
(* the game.  BasicMachine and BasicGameSelect of VirtualConsole,          *)
(* FamicomMachine and FamicomGameSelect of VirtualFamicom, which add an    *)
(* icon behind each name, and the loop of VirtualMachine::Run.             *)
(*                                                                         *)
(* A game is its index in the list; a row of the page shows the name of a  *)
(* game, lit if it is the active one, and the icon of a game.              *)
(***************************************************************************)
EXTENDS Integers, Sequences

CONSTANTS
  MaxGames,   \* bound: most lines in Games.csv
  PerPage,    \* m_optionsPerPage
  Iconless,   \* games with a number of players that has no icon
  BootFrames, \* CONSOLE_BOOT_FRAME_TIME
  UIntMax,    \* largest unsigned int (2^32 - 1)
  MaxPages    \* bound: pages turned to in an empty list

ASSUME GamesAssumption == MaxGames \in Nat /\ PerPage \in Nat \ {0}
ASSUME BootAssumption == BootFrames \in Nat
ASSUME UIntAssumption == UIntMax \in Nat /\ UIntMax >= MaxGames
ASSUME PagesAssumption == MaxPages \in Nat

VARIABLES
  total,    \* m_totalMenuOptions
  page,     \* m_pageNumber
  active,   \* m_activeMenuOption
  last,     \* m_lastInput
  running,  \* m_gameRunning
  screen,   \* what the rows of the menu's tilemaps show
  state,    \* m_systemState, "NotStarted" before IMachine::Start
  frame,    \* m_currentFrame, which stops here once it is of no more interest
  held,     \* the keys that were held in the last frame of the menu
  launched, \* the games given to LoadSoftware, one after the other
  ended     \* the process has left VirtualMachine::Run

list == <<total>>
cursor == <<page, active, last>>
vars == <<list, cursor, running, screen, state, frame, held, launched, ended>>

Nav == {"SELECT", "UP", "DOWN", "LEFT", "RIGHT"}
Keys == Nav \cup {"START"}
Rows == 0 .. PerPage - 1
NoGame == -1
Games == 0 .. MaxGames - 1
Blank == [name |-> NoGame, lit |-> FALSE, icon |-> NoGame]

Init ==
  /\ total = 0
  /\ page = 0
  /\ active = 0
  /\ last = "NONE"
  /\ running = FALSE
  /\ screen = [r \in Rows |-> Blank]
  /\ state = "NotStarted"
  /\ frame = 0
  /\ held = {}
  /\ launched = <<>>
  /\ ended = FALSE

-----------------------------------------------------------------------------
(* The list of games, cut into pages *)

Least(a, b) == IF a < b THEN a ELSE b
ListStart(p) == p * PerPage
ListEnd(p) == Least(p * PerPage + PerPage, total)
LastPage == ListEnd(page) = total

\* m_totalMenuOptions - 1 as an unsigned int: an empty list has no last option.
LastOption == IF total = 0 THEN UIntMax ELSE total - 1

\* SELECT and DOWN: on to the next option, over the end of the page if need be.
Forward ==
  /\ total = 0 => page < MaxPages
  /\ active' = IF active >= LastOption THEN LastOption ELSE active + 1
  /\ page' = IF active' >= ListEnd(page) THEN page + 1 ELSE page

\* Mutant: the page is not turned back.
BackwardStays ==
  /\ active' = IF active - 1 < 0 THEN 0 ELSE active - 1
  /\ UNCHANGED page

\* UP: back to the option before.
Backward ==
  /\ active' = IF active - 1 < 0 THEN 0 ELSE active - 1
  /\ page' = IF active' < ListStart(page) THEN page - 1 ELSE page

\* LEFT and RIGHT: to the first option of the page before or after.
PageBack ==
  IF ListStart(page) # 0
  THEN page' = page - 1 /\ active' = page' * PerPage
  ELSE UNCHANGED <<page, active>>

PageForward ==
  IF ~LastPage
  THEN page' = page + 1 /\ active' = page' * PerPage
  ELSE UNCHANGED <<page, active>>

\* Mutant: a key held down repeats.
Repeats(k, keys) == k \in keys

\* A key that was not the one acted on last.
Fresh(k, keys) == k \in keys /\ last # k

\* UpdateActiveOption: the first fresh key in this order moves the option.
Acts(k, keys) ==
  /\ Fresh(k, keys)
  /\ k # "SELECT" => ~Fresh("SELECT", keys)
  /\ k \in {"DOWN", "LEFT", "RIGHT"} => ~Fresh("UP", keys)
  /\ k \in {"LEFT", "RIGHT"} => ~Fresh("DOWN", keys)
  /\ k = "RIGHT" => ~Fresh("LEFT", keys)

UpdateActiveOption(keys) ==
  \/ /\ Acts("SELECT", keys) \/ Acts("DOWN", keys)
     /\ Forward
     /\ last' = IF Acts("SELECT", keys) THEN "SELECT" ELSE "DOWN"
  \/ Acts("UP", keys) /\ Backward /\ last' = "UP"
  \/ Acts("LEFT", keys) /\ PageBack /\ last' = "LEFT"
  \/ Acts("RIGHT", keys) /\ PageForward /\ last' = "RIGHT"
  \/ /\ \A k \in Nav : ~Fresh(k, keys)
     /\ last' = IF keys \cap Nav = {} THEN "NONE" ELSE last
     /\ UNCHANGED <<page, active>>

-----------------------------------------------------------------------------
(* The screen *)

\* Mutant: the rows of the page left keep what they show.
NoClear == screen

\* ClearText and ClearIcon, whenever the page is turned.
Cleared == IF page' # page THEN [r \in Rows |-> Blank] ELSE screen

\* Update: each game of the page is written on its row; a game without an icon
\* leaves the one that is there.
Update ==
  LET first == ListStart(page')
      Shown(r) == first + r < ListEnd(page')
  IN  screen' = [r \in Rows |->
        IF Shown(r)
        THEN [name |-> first + r,
              lit |-> first + r = active',
              icon |-> IF first + r \in Iconless THEN Cleared[r].icon ELSE first + r]
        ELSE Cleared[r]]

-----------------------------------------------------------------------------
(* The machine *)

\* IMachine::Start reads the list, which may be missing or empty, and shows the
\* startup screen, or quits if Tilengine cannot.
Start(games, ok) ==
  /\ state = "NotStarted" /\ ~ended
  /\ total' = games
  /\ state' = "Startup"
  /\ ended' = ~ok
  /\ UNCHANGED <<cursor, running, screen, frame, held, launched>>

\* m_currentFrame++, as far as it matters.
NextFrame == IF frame > BootFrames THEN frame ELSE frame + 1

\* Update in the state Startup: the splash screen, then the menu.
Boot(ok) ==
  /\ state = "Startup" /\ ~ended
  /\ state' = IF frame > BootFrames THEN "GameSelect" ELSE "Startup"
  /\ ended' = (frame > BootFrames /\ ~ok)
  /\ frame' = NextFrame
  /\ UNCHANGED <<list, cursor, running, screen, held, launched>>

\* LoadGame: the active game is given to LoadSoftware, which ends the program
\* if core or content cannot be loaded.
LoadGame(ok) ==
  /\ launched' = Append(launched, active')
  /\ running' = TRUE
  /\ ended' = ~ok

\* Mutant: the menu stays on once a game runs.
StaysInMenu == "GameSelect"

\* The state after a frame of the menu.
StateAfterMenu == IF running' THEN "GameRunning" ELSE "GameSelect"

\* Update in the state GameSelect, with the keys that are held.  (In the state
\* GameRunning nothing is left for the machine to do.)
Select(keys, ok) ==
  /\ state = "GameSelect" /\ ~ended
  /\ held' = keys
  /\ UpdateActiveOption(keys)
  /\ IF "START" \in keys THEN LoadGame(ok) ELSE UNCHANGED <<launched, running, ended>>
  /\ IF ended' THEN UNCHANGED <<screen, state>>
               ELSE Update /\ state' = StateAfterMenu
  /\ UNCHANGED <<list, frame>>

\* One turn of the loop in VirtualMachine::Run.
Turn == \E ok \in BOOLEAN : Boot(ok) \/ \E keys \in SUBSET Keys : Select(keys, ok)

\* LMC_ProcessWindow is false: the loop ends, and with IMachine::End the process.
Close ==
  /\ state # "NotStarted" /\ ~ended
  /\ ended' = TRUE
  /\ UNCHANGED <<list, cursor, running, screen, state, frame, held, launched>>

Next ==
  \/ \E games \in 0 .. MaxGames, ok \in BOOLEAN : Start(games, ok)
  \/ Turn
  \/ Close

Spec == Init /\ [][Next]_vars

-----------------------------------------------------------------------------
(* Properties *)

\* Every variable has its type (BasicGameSelect.h, BasicMachine.h).
TypeOK ==
  /\ total \in 0 .. MaxGames
  /\ page \in Nat /\ active \in Nat
  /\ last \in Nav \cup {"NONE"}
  /\ running \in BOOLEAN
  /\ screen \in [Rows -> [name : Games \cup {NoGame}, lit : BOOLEAN,
                         icon : Games \cup {NoGame}]]
  /\ state \in {"NotStarted", "Startup", "GameSelect", "GameRunning"}
  /\ frame \in 0 .. BootFrames + 1
  /\ held \in SUBSET Keys
  /\ launched \in Seq(Nat)
  /\ ended \in BOOLEAN

\* However keys and pages interleave, the active option is a game of the list
\* and lies on the current page, so that m_games[m_activeMenuOption] exists and
\* is shown (UpdateActiveOption, LoadGame).
CursorOnPage ==
  total > 0 => ListStart(page) <= active /\ active < ListEnd(page)

\* What a row of the current page is to show.
RowShows(r) ==
  LET g == ListStart(page) + r
  IN  IF g < ListEnd(page)
      THEN /\ screen[r].name = g
           /\ screen[r].lit = (g = active)
           /\ screen[r].icon \in {g, NoGame}
      ELSE screen[r] = Blank

\* The screen, once drawn, shows the games of the current page with their own
\* icons, the active one lit, and nothing of the pages turned before
\* (ClearText, ClearIcon, Update).
PageShown ==
  ~ended => \/ \A r \in Rows : screen[r] = Blank
            \/ \A r \in Rows : RowShows(r)

\* The game that runs is the one the menu was left with (LoadGame, Update).
LaunchedIsActive == Len(launched) > 0 => launched[Len(launched)] = active

\* BasicGameSelect.cpp:137: what START loads is a game of the list.
LaunchedExists == Len(launched) > 0 => active < total

\* At most one game is ever loaded, so no core is loaded over another
\* (BasicMachine::Update, LMC_LoadCore).
LoadsOnce == Len(launched) <= 1

\* A key held down moves the option once: it has no effect in a frame of the
\* menu that follows one with the same, single key (m_lastInput).
MovesOncePerPress ==
  [][ /\ \E keys \in SUBSET Keys, ok \in BOOLEAN : Select(keys, ok)
      /\ held' = held
      /\ \E k \in Nav : held \cap Nav = {k}
      => UNCHANGED <<page, active>> ]_vars

=============================================================================
