---------------------------- MODULE JoypadInput -----------------------------
(***************************************************************************)
(* The SDL2 input driver: keyboard and joypads of the players, while the   *)
(* events SDL queues are handled one by one.  From source/LegacyMachine/   *)
(* Input/Drivers/SDL2_InputDriver.c and Input/InputDriver.c, the input     *)
(* part of SDL2_ProcessEvents and LMC_AssignInputJoypad.                   *)
(*                                                                         *)
(* SDL lists the joysticks that are plugged in by device index and gives   *)
(* each an instance id it never gives again; opening one counts, and only  *)
(* an open one sends events.  The application leaves the maps as they are, *)
(* as the examples do: button 0 is an input, a hat or an axis is none, and *)
(* only player 1 has a keyboard.  The window stays open.                   *)
(***************************************************************************)
EXTENDS Integers, Sequences, FiniteSets

CONSTANTS
  MaxPlayers,   \* MAX_PLAYERS
  KeyInputs,    \* inputs only the keyboard of player 1 is mapped to
  ButtonInputs, \* inputs a button of a joypad is mapped to
  MaxInstances, \* bound: joysticks ever plugged in
  MaxEvents     \* bound: events SDL has queued

ASSUME PlayersAssumption == MaxPlayers \in Nat \ {0}
ASSUME BoundAssumption == MaxInstances \in Nat /\ MaxEvents \in Nat
ASSUME InputAssumption == KeyInputs \cap ButtonInputs = {}

VARIABLES
  devices,  \* the plugged in joysticks: instance ids by device index
  plugged,  \* how many were ever plugged in: the next instance id
  opens,    \* how often each instance is open
  queue,    \* the events SDL has not delivered yet
  keys,     \* the keys that are down
  joystick, \* the global joystick[]: an instance or NoJoystick
  pads,     \* of each player: connected and identifier
  inputs,   \* of each player: the inputs that are marked as pressed
  corrupt   \* an index was out of bounds: nothing more can be said

sdl == <<devices, plugged, opens>>
vars == <<sdl, queue, keys, joystick, pads, inputs, corrupt>>

Players == 0 .. MaxPlayers - 1
Instances == 0 .. MaxInstances - 1
Inputs == KeyInputs \cup ButtonInputs
NoJoystick == -1

Event(type, which, value, down) ==
  [type |-> type, which |-> which, value |-> value, down |-> down]
NoValue == "none"

-----------------------------------------------------------------------------
(* SDL *)

Post(e) == Len(queue) < MaxEvents /\ queue' = Append(queue, e)

Plug ==
  /\ plugged < MaxInstances
  /\ devices' = Append(devices, plugged)
  /\ plugged' = plugged + 1
  /\ Post(Event("added", Len(devices), NoValue, FALSE))
  /\ UNCHANGED <<opens, keys, joystick, pads, inputs, corrupt>>

Unplug(k) ==
  /\ devices' = SubSeq(devices, 1, k - 1) \o SubSeq(devices, k + 1, Len(devices))
  /\ Post(Event("removed", devices[k], NoValue, FALSE))
  /\ UNCHANGED <<plugged, opens, keys, joystick, pads, inputs, corrupt>>

Key(i) ==
  /\ keys' = IF i \in keys THEN keys \ {i} ELSE keys \cup {i}
  /\ Post(Event("key", 0, i, i \notin keys))
  /\ UNCHANGED <<sdl, joystick, pads, inputs, corrupt>>

Button(k, i, down) ==
  /\ opens[devices[k]] > 0
  /\ Post(Event("button", devices[k], i, down))
  /\ UNCHANGED <<sdl, keys, joystick, pads, inputs, corrupt>>

\* SDL_JoystickOpen: the instance at a device index, if there is one.
Opened(index) ==
  IF index >= 0 /\ index < Len(devices) THEN devices[index + 1] ELSE NoJoystick

\* The width of the identifier.
UInt8(n) == n % 256

\* SDL_JoystickInstanceID is -1 for a null pointer, as it is here.
InstanceID(j) == j

-----------------------------------------------------------------------------
(* Joypads *)

NoPad == [connected |-> FALSE, identifier |-> 0]
Connected(id) == [connected |-> TRUE, identifier |-> id]

\* SDL2_InitializeJoypad, with n joysticks plugged in, for each of which SDL
\* has an event queued as well.
Init ==
  \E n \in 0 .. MaxInstances :
    /\ n <= MaxEvents
    /\ devices = [k \in 1 .. n |-> k - 1]
    /\ plugged = n
    /\ opens = [j \in Instances |-> IF j < n /\ j \in Players THEN 1 ELSE 0]
    /\ queue = [k \in 1 .. n |-> Event("added", k - 1, NoValue, FALSE)]
    /\ keys = {}
    /\ joystick = [p \in Players |-> IF p < n THEN p ELSE NoJoystick]
    /\ pads = [p \in Players |-> IF p < n THEN Connected(0) ELSE NoPad]
    /\ inputs = [p \in Players |-> {}]
    /\ corrupt = FALSE

\* SDL2_ConnectJoypad: a player's pointer is overwritten, not closed, and its
\* identifier stays what it was.
ConnectJoypad(p) ==
  /\ joystick' = [joystick EXCEPT ![p] = Opened(p)]
  /\ IF Opened(p) = NoJoystick
     THEN UNCHANGED <<opens, pads>>
     ELSE /\ opens' = [opens EXCEPT ![Opened(p)] = @ + 1]
          /\ pads' = [pads EXCEPT ![p] = Connected(@.identifier)]
  /\ UNCHANGED <<inputs, corrupt>>

\* SDL_JoystickClose of a player's joystick, if it has one.
Close(p) ==
  IF joystick[p] = NoJoystick THEN opens ELSE [opens EXCEPT ![joystick[p]] = @ - 1]

\* Mutant: the closed pointer is kept.
KeepPointer(p) == joystick

\* joystick[player] = NULL in SDL2_DeinitializeJoypad.
ClearPointer(p) == [joystick EXCEPT ![p] = NoJoystick]

\* SDL2_DisconnectJoypad and SDL2_DeinitializeJoypad.
DisconnectJoypad(p) ==
  /\ opens' = Close(p)
  /\ joystick' = ClearPointer(p)
  /\ pads' = [pads EXCEPT ![p] = NoPad]
  /\ inputs' = [inputs EXCEPT ![p] = {}]
  /\ UNCHANGED corrupt

\* SDL2_AssignInputJoypad, which leaves a player unconnected or connected.
AssignInputJoypad(p, index) ==
  LET closed == Close(p)
      j == Opened(index)
  IN  /\ ~corrupt
      /\ joystick' = [joystick EXCEPT ![p] = j]
      /\ IF index < 0
         THEN opens' = closed /\ UNCHANGED pads
         ELSE /\ pads' = [pads EXCEPT ![p] =
                      [connected |-> @.connected, identifier |-> UInt8(InstanceID(j))]]
              /\ IF j = NoJoystick
                 THEN opens' = closed
                 ELSE opens' = [closed EXCEPT ![j] = @ + 1]
      /\ UNCHANGED <<devices, plugged, queue, keys, inputs, corrupt>>

\* An index that is no player's: memory next to the arrays is written.
OutOfBounds ==
  /\ corrupt' = TRUE
  /\ UNCHANGED <<opens, joystick, pads, inputs>>

-----------------------------------------------------------------------------
(* Inputs *)

\* SetInput and ClearInput: the player is not looked at.
SetInput(p, is) == inputs' = [inputs EXCEPT ![0] = @ \cup is]
ClearInput(p, is) == inputs' = [inputs EXCEPT ![0] = @ \ is]
\* The players whose joypad an event comes from.
Hearing(j) == {p \in Players : pads[p].connected /\ pads[p].identifier = j}

\* Mutant: the state of the key is ignored.
KeyIgnoresState(e) == SetInput(0, {e.value})

\* SDL2_ProcessJoypadKeycodeInput for player 1, the one with a keyboard.
KeyInput(e) ==
  IF e.down THEN SetInput(0, {e.value}) ELSE ClearInput(0, {e.value})

\* SDL2_ProcessJoypadButtonInput for each player that hears the joypad.
ButtonInput(e) ==
  IF Hearing(e.which) = {} THEN UNCHANGED inputs
  ELSE IF e.down THEN SetInput(0, {e.value}) ELSE ClearInput(0, {e.value})

\* SDL2_ProcessEvents, one event: connecting takes the device index for the
\* player, disconnecting takes the instance id for the player.
ProcessEvent ==
  /\ queue # <<>> /\ ~corrupt
  /\ queue' = Tail(queue)
  /\ LET e == Head(queue)
     IN  \/ e.type = "added" /\ e.which \in Players /\ ConnectJoypad(e.which)
         \/ e.type = "removed" /\ e.which \in Players /\ DisconnectJoypad(e.which)
         \/ e.type \in {"added", "removed"} /\ e.which \notin Players /\ OutOfBounds
         \/ /\ \/ e.type = "key" /\ KeyInput(e)
               \/ e.type = "button" /\ ButtonInput(e)
            /\ UNCHANGED <<opens, joystick, pads, corrupt>>
  /\ UNCHANGED <<devices, plugged, keys>>

-----------------------------------------------------------------------------

Environment ==
  /\ ~corrupt
  /\ \/ Plug
     \/ \E i \in KeyInputs : Key(i)
     \/ \E k \in 1 .. Len(devices) :
          \/ Unplug(k)
          \/ \E i \in ButtonInputs, down \in BOOLEAN : Button(k, i, down)

Next ==
  \/ Environment
  \/ \E p \in Players, index \in -1 .. MaxInstances : AssignInputJoypad(p, index)
  \/ ProcessEvent

\* The application keeps calling LMC_ProcessWindow.
Spec == Init /\ [][Next]_vars /\ WF_vars(ProcessEvent)

-----------------------------------------------------------------------------
(* Properties *)

\* Every variable has its type (InputDriver.h, the events SDL sends).
TypeOK ==
  /\ devices \in Seq(Instances)
  /\ plugged \in 0 .. MaxInstances
  /\ opens \in [Instances -> Nat]
  /\ queue \in Seq([type : {"added", "removed", "key", "button"}, which : Nat,
                    value : Inputs \cup {NoValue}, down : BOOLEAN])
  /\ keys \in SUBSET KeyInputs
  /\ joystick \in [Players -> Instances \cup {NoJoystick}]
  /\ pads \in [Players -> [connected : BOOLEAN, identifier : 0 .. 255]]
  /\ inputs \in [Players -> SUBSET Inputs]
  /\ corrupt \in BOOLEAN

\* However players and joysticks are connected, assigned and disconnected, each
\* pointer in joystick[] has a use of its own of the joystick it points to: none
\* is closed under another (SDL2_ConnectJoypad, SDL2_AssignInputJoypad).
NoClosedPad ==
  \A j \in Instances : Cardinality({p \in Players : joystick[p] = j}) <= opens[j]

\* An input of the keyboard is marked only while its key is down or the event
\* that it went up is on its way (SDL2_ProcessJoypadKeycodeInput).
NoGhostKey ==
  \A i \in KeyInputs \cap inputs[0] :
    \/ i \in keys
    \/ \E k \in 1 .. Len(queue) :
         queue[k].type = "key" /\ queue[k].value = i /\ ~queue[k].down

\* A key that stays up is not marked in the end, whatever joypads do.
KeyReleased ==
  \A i \in KeyInputs :
    <>[](i \notin keys) => <>[](i \notin inputs[0]) \/ <>corrupt

\* SDL2_InputDriver.c:145: when the removal of a joystick is handled, a player
\* with another joystick keeps it.
OthersKeepTheirs ==
  [][\A p \in Players :
       /\ ProcessEvent /\ Head(queue).type = "removed"
       /\ joystick[p] # NoJoystick /\ joystick[p] # Head(queue).which
       => joystick'[p] = joystick[p]]_vars

\* Window.c:262: the inputs of another player can be asked for.
OwnInputs ==
  [][\A p \in Players \ {0} :
       /\ ProcessEvent
       /\ Head(queue).type = "button" /\ Head(queue).down
       /\ pads[p].connected /\ pads[p].identifier = Head(queue).which
       => Head(queue).value \in inputs'[p]]_vars

\* SDL2_InputDriver.c:110: a joypad that is connected is heard.
ConnectedIsHeard ==
  queue = <<>> /\ ~corrupt =>
    \A p \in Players : pads[p].connected /\ joystick[p] # NoJoystick =>
      pads[p].identifier = joystick[p]

=============================================================================
