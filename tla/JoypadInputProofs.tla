-------------------------- MODULE JoypadInputProofs --------------------------
(* Proofs of what JoypadInput promises of joysticks and keys, for every       *)
(* number of players and joysticks, every set of inputs and every bound.      *)
EXTENDS JoypadInput, FiniteSetTheorems, SequenceTheorems, TLAPS

\* The players whose pointer is to joystick j.
Users(f, j) == {p \in Players : f[p] = j}

\* Each of them has a use of its own of the joystick.
Owed(f, o) == \A j \in Instances : Cardinality(Users(f, j)) <= o[j]

\* A further use of joystick v, if it is one.
OneMore(o, v) == IF v = NoJoystick THEN o ELSE [o EXCEPT ![v] = @ + 1]

\* What events carry: a key event an input of the keyboard, a button event an
\* input of a button.
EventOK(e) ==
  /\ e \in [type : {"added", "removed", "key", "button"}, which : Nat,
            value : Inputs \cup {NoValue}, down : BOOLEAN]
  /\ e.type = "key" => e.value \in KeyInputs
  /\ e.type = "button" => e.value \in ButtonInputs

IsUp(e, i) == e.type = "key" /\ e.value = i /\ ~e.down

\* From place k of the queue on, key i comes to be up, or it is down already.
ComesUp(i, k) ==
  \/ i \in keys
  \/ \E l \in k .. Len(queue) : IsUp(queue[l], i)

\* A key that is marked, or will be, is down or comes up later.
KeysFollow ==
  /\ \A i \in KeyInputs \cap inputs[0] : ComesUp(i, 1)
  /\ \A k \in 1 .. Len(queue) :
        queue[k].type = "key" /\ queue[k].down => ComesUp(queue[k].value, k)

Events == \A k \in 1 .. Len(queue) : EventOK(queue[k])

IInv == TypeOK /\ Events /\ NoClosedPad /\ KeysFollow

-----------------------------------------------------------------------------
(* Pointers and uses *)

LEMMA PlayersFinite == IsFiniteSet(Players) /\ 0 \in Players
<1>1. IsFiniteSet(0 .. MaxPlayers - 1)
  BY PlayersAssumption, FS_Interval
<1> QED BY <1>1, PlayersAssumption DEF Players

\* The users of a joystick are finitely many.
LEMMA UsersFinite ==
  ASSUME NEW f, NEW j
  PROVE  IsFiniteSet(Users(f, j)) /\ Cardinality(Users(f, j)) \in Nat
<1>1. Users(f, j) \subseteq Players
  BY DEF Users
<1> QED BY <1>1, PlayersFinite, FS_Subset, FS_CardinalityType

\* Overwriting a pointer gives a joystick one more user at most, and only the
\* one it now points to.
LEMMA UsersAfter ==
  ASSUME NEW f \in [Players -> Instances \cup {NoJoystick}], NEW p \in Players,
         NEW v \in Instances \cup {NoJoystick}, NEW j \in Instances,
         NEW g, g = [f EXCEPT ![p] = v]
  PROVE  /\ v # j => Cardinality(Users(g, j)) <= Cardinality(Users(f, j))
         /\ v = j => Cardinality(Users(g, j)) <= Cardinality(Users(f, j)) + 1
<1>0. /\ IsFiniteSet(Users(f, j)) /\ Cardinality(Users(f, j)) \in Nat
      /\ Cardinality(Users(g, j)) \in Nat
  BY UsersFinite
<1>1. CASE (v = j) = (f[p] = j)
  <2>1. Users(g, j) = Users(f, j)
    BY <1>1 DEF Users
  <2> QED BY <1>0, <1>1, <2>1
<1>2. CASE v # j /\ f[p] = j
  <2>1. Users(g, j) = Users(f, j) \ {p}
    BY <1>2 DEF Users
  <2>2. p \in Users(f, j)
    BY <1>2 DEF Users
  <2>3. Cardinality(Users(g, j)) = Cardinality(Users(f, j)) - 1
    BY <1>0, <2>1, <2>2, FS_RemoveElement
  <2>5. Cardinality(Users(g, j)) <= Cardinality(Users(f, j))
    BY <1>0, <2>3
  <2> QED BY <1>2, <2>5
<1>3. CASE v = j /\ f[p] # j
  <2>1. Users(g, j) = Users(f, j) \cup {p}
    BY <1>3 DEF Users
  <2>2. p \notin Users(f, j)
    BY <1>3 DEF Users
  <2>3. Cardinality(Users(g, j)) = Cardinality(Users(f, j)) + 1
    BY <1>0, <2>1, <2>2, FS_AddElement
  <2>4. Cardinality(Users(g, j)) <= Cardinality(Users(f, j)) + 1
    BY <1>0, <2>3
  <2> QED BY <1>3, <2>4
<1> QED BY <1>1, <1>2, <1>3

\* A pointer that is overwritten is one user less of what it pointed to.
LEMMA LostUser ==
  ASSUME NEW f \in [Players -> Instances \cup {NoJoystick}], NEW p \in Players,
         NEW v \in Instances \cup {NoJoystick}, NEW g, g = [f EXCEPT ![p] = v],
         v # f[p]
  PROVE  Cardinality(Users(f, f[p])) = Cardinality(Users(g, f[p])) + 1
<1>1. /\ IsFiniteSet(Users(f, f[p])) /\ Cardinality(Users(f, f[p])) \in Nat
      /\ Cardinality(Users(g, f[p])) \in Nat
  BY UsersFinite
<1>2. Users(g, f[p]) = Users(f, f[p]) \ {p}
  BY DEF Users
<1>3. p \in Users(f, f[p])
  BY DEF Users
<1>4. Cardinality(Users(g, f[p])) = Cardinality(Users(f, f[p])) - 1
  BY <1>1, <1>2, <1>3, FS_RemoveElement
<1> QED BY <1>1, <1>4

\* A joystick a player points to is open, so that closing it once is allowed.
LEMMA PointedIsOpen ==
  ASSUME TypeOK, NoClosedPad, NEW p \in Players, joystick[p] # NoJoystick
  PROVE  joystick[p] \in Instances /\ opens[joystick[p]] >= 1
<1> DEFINE j == joystick[p]
<1>1. j \in Instances
  BY DEF TypeOK
<1>2. IsFiniteSet(Users(joystick, j)) /\ p \in Users(joystick, j)
  BY UsersFinite DEF Users
<1>3. Cardinality(Users(joystick, j)) # 0
  BY <1>2, FS_EmptySet
<1>4. Cardinality(Users(joystick, j)) \in Nat
  BY UsersFinite
<1>5. Cardinality(Users(joystick, j)) <= opens[j]
  BY <1>1 DEF NoClosedPad, Users
<1>6. opens[j] \in Nat
  BY <1>1 DEF TypeOK
<1> QED BY <1>1, <1>3, <1>4, <1>5, <1>6

\* NoClosedPad in terms of Users.
LEMMA ClosedPadUsers ==
  NoClosedPad <=> Owed(joystick, opens)
  BY DEF NoClosedPad, Owed, Users

\* The same of the next state.
LEMMA ClosedPadUsersNext ==
  Owed(joystick', opens') => NoClosedPad'
  BY DEF NoClosedPad, Owed, Users

\* Closing a player's joystick and clearing its pointer go together.
LEMMA CloseKeeps ==
  ASSUME TypeOK, NoClosedPad, NEW p \in Players
  PROVE  /\ Close(p) \in [Instances -> Nat]
         /\ ClearPointer(p) \in [Players -> Instances \cup {NoJoystick}]
         /\ Owed(ClearPointer(p), Close(p))
<1>0. joystick \in [Players -> Instances \cup {NoJoystick}] /\ opens \in [Instances -> Nat]
  BY DEF TypeOK
<1>1. ClearPointer(p) \in [Players -> Instances \cup {NoJoystick}]
  BY <1>0 DEF ClearPointer
<1>2. Close(p) \in [Instances -> Nat]
  BY <1>0, PointedIsOpen DEF Close
<1>3. ASSUME NEW j \in Instances PROVE Cardinality(Users(ClearPointer(p), j)) <= Close(p)[j]
  <2>1. NoJoystick # j
    BY BoundAssumption DEF NoJoystick, Instances
  <2>2. Cardinality(Users(joystick, j)) <= opens[j]
    BY ClosedPadUsers DEF Owed
  <2>3. Cardinality(Users(joystick, j)) \in Nat /\ Cardinality(Users(ClearPointer(p), j)) \in Nat
    BY UsersFinite
  <2>8. ClearPointer(p) = [joystick EXCEPT ![p] = NoJoystick] /\ NoJoystick \in Instances \cup {NoJoystick}
    BY DEF ClearPointer
  <2>4. Cardinality(Users(ClearPointer(p), j)) <= Cardinality(Users(joystick, j))
    BY <1>0, <2>1, <2>8, UsersAfter
  <2>5. joystick[p] = j => Cardinality(Users(joystick, j)) = Cardinality(Users(ClearPointer(p), j)) + 1
    <3> DEFINE g == ClearPointer(p)
    <3>1. g = [joystick EXCEPT ![p] = NoJoystick] /\ NoJoystick \in Instances \cup {NoJoystick}
      BY <2>8
    <3> HIDE DEF g
    <3>2. joystick[p] = j => Cardinality(Users(joystick, j)) = Cardinality(Users(g, j)) + 1
      BY <1>0, <2>1, <3>1, LostUser
    <3> QED BY <2>1, <3>2 DEF g
  <2>6. CASE joystick[p] = j
    <3>1. Close(p)[j] = opens[j] - 1
      BY <1>0, <2>1, <2>6 DEF Close
    <3> QED BY <1>0, <2>2, <2>3, <2>5, <2>6, <3>1
  <2>7. CASE joystick[p] # j
    <3>1. Close(p)[j] = opens[j]
      BY <1>0, <2>7 DEF Close
    <3> QED BY <1>0, <2>2, <2>3, <2>4, <3>1
  <2> QED BY <2>6, <2>7
<1> QED BY <1>1, <1>2, <1>3 DEF Owed

\* What SDL_JoystickOpen returns.
LEMMA OpenedType ==
  ASSUME TypeOK, NEW n \in Int
  PROVE  Opened(n) \in Instances \cup {NoJoystick}
  BY DEF TypeOK, Opened

-----------------------------------------------------------------------------
(* The steps *)

LEMMA InitialInv == Init => IInv
<1> SUFFICES ASSUME Init PROVE IInv
  OBVIOUS
<1>1. PICK n \in 0 .. MaxInstances :
        /\ devices = [k \in 1 .. n |-> k - 1]
        /\ plugged = n
        /\ opens = [j \in Instances |-> IF j < n /\ j \in Players THEN 1 ELSE 0]
        /\ queue = [k \in 1 .. n |-> Event("added", k - 1, NoValue, FALSE)]
        /\ keys = {}
        /\ joystick = [p \in Players |-> IF p < n THEN p ELSE NoJoystick]
        /\ pads = [p \in Players |-> IF p < n THEN Connected(0) ELSE NoPad]
        /\ inputs = [p \in Players |-> {}]
        /\ corrupt = FALSE
  BY DEF Init
<1>2. n \in Nat /\ n <= MaxInstances /\ MaxInstances \in Nat
  BY BoundAssumption
<1>3. devices \in Seq(Instances)
  <2>1. devices \in [1 .. n -> Instances]
    BY <1>1, <1>2 DEF Instances
  <2> QED BY <1>2, <2>1, SeqDef
<1>4. queue \in Seq([type : {"added", "removed", "key", "button"}, which : Nat,
                     value : Inputs \cup {NoValue}, down : BOOLEAN])
  <2> DEFINE R == [type : {"added", "removed", "key", "button"}, which : Nat,
                   value : Inputs \cup {NoValue}, down : BOOLEAN]
  <2>1. \A k \in 1 .. n : Event("added", k - 1, NoValue, FALSE) \in R
    BY <1>2 DEF Event
  <2> HIDE DEF R
  <2>2. queue \in [1 .. n -> R]
    BY <1>1, <2>1
  <2>3. queue \in Seq(R)
    BY <1>2, <2>2, SeqDef
  <2> QED BY <2>3 DEF R
<1>5. joystick \in [Players -> Instances \cup {NoJoystick}]
  BY <1>1, <1>2, PlayersAssumption DEF Players, Instances
<1>6. pads \in [Players -> [connected : BOOLEAN, identifier : 0 .. 255]]
  <2>1. NoPad \in [connected : BOOLEAN, identifier : 0 .. 255]
    BY DEF NoPad
  <2>3. Connected(0) \in [connected : BOOLEAN, identifier : 0 .. 255]
    BY DEF Connected
  <2> QED BY <1>1, <2>1, <2>3
<1>7. TypeOK
  BY <1>1, <1>2, <1>3, <1>4, <1>5, <1>6 DEF TypeOK
<1>8. Events
  BY <1>1, <1>2 DEF Events, EventOK, Event
<1>9. KeysFollow
  BY <1>1, <1>2, PlayersFinite DEF KeysFollow, Event
<1>10. NoClosedPad
  <2> SUFFICES ASSUME NEW j \in Instances PROVE Cardinality(Users(joystick, j)) <= opens[j]
    BY ClosedPadUsers DEF Owed
  <2>1. CASE j < n /\ j \in Players
    <3>1. Users(joystick, j) = {j}
      BY <1>1, <2>1, <1>2, PlayersAssumption DEF Users, NoJoystick, Players, Instances
    <3>2. Cardinality({j}) = 1
      BY FS_Singleton
    <3>3. opens[j] = 1
      BY <1>1, <2>1
    <3>4. Cardinality(Users(joystick, j)) = 1
      BY <3>1, <3>2
    <3> QED BY <3>3, <3>4
  <2>2. CASE ~(j < n /\ j \in Players)
    <3>1. Users(joystick, j) = {}
      BY <1>1, <2>2, <1>2, PlayersAssumption DEF Users, NoJoystick, Players, Instances
    <3>3. opens[j] = 0
      BY <1>1, <2>2
    <3>4. Cardinality(Users(joystick, j)) = 0
      BY <3>1, FS_EmptySet
    <3> QED BY <3>3, <3>4
  <2> QED BY <2>1, <2>2
<1> QED BY <1>7, <1>8, <1>9, <1>10 DEF IInv

\* An event is queued behind all others.
LEMMA PostKeeps ==
  ASSUME IInv, NEW e, EventOK(e), Post(e), UNCHANGED <<inputs, corrupt>>,
         \A i \in KeyInputs : i \in keys => i \in keys' \/ IsUp(e, i),
         e.type = "key" /\ e.down => e.value \in keys'
  PROVE  Events' /\ KeysFollow'
         /\ queue' \in Seq([type : {"added", "removed", "key", "button"}, which : Nat,
                            value : Inputs \cup {NoValue}, down : BOOLEAN])
<1>1. queue \in Seq([type : {"added", "removed", "key", "button"}, which : Nat,
                     value : Inputs \cup {NoValue}, down : BOOLEAN])
  BY DEF IInv, TypeOK
<1>2. queue' = Append(queue, e)
  BY DEF Post
<1>3. queue' \in Seq([type : {"added", "removed", "key", "button"}, which : Nat,
                      value : Inputs \cup {NoValue}, down : BOOLEAN])
  BY <1>1, <1>2 DEF EventOK
<1>4. Len(queue') = Len(queue) + 1 /\ Len(queue) \in Nat
  BY <1>1, <1>2
<1>5. \A k \in 1 .. Len(queue) : queue'[k] = queue[k]
  BY <1>1, <1>2
<1>6. queue'[Len(queue')] = e
  BY <1>1, <1>2, <1>4
<1>7. Events'
  <2> SUFFICES ASSUME NEW k \in 1 .. Len(queue') PROVE EventOK(queue'[k])
    BY DEF Events, EventOK
  <2>1. k \in 1 .. Len(queue) \/ k = Len(queue')
    BY <1>4
  <2>2. Events
    BY DEF IInv
  <2> QED BY <1>5, <1>6, <2>1, <2>2 DEF Events
<1>8. ASSUME NEW i \in KeyInputs, NEW k \in 1 .. Len(queue), ComesUp(i, k)
      PROVE  ComesUp(i, k)'
  <2>1. CASE i \in keys
    <3>1. i \in keys' \/ IsUp(queue'[Len(queue')], i)
      BY <1>6, <2>1
    <3>2. Len(queue') \in k .. Len(queue')
      BY <1>4
    <3> QED BY <3>1, <3>2 DEF ComesUp, IsUp
  <2>2. CASE \E l \in k .. Len(queue) : IsUp(queue[l], i)
    <3>1. PICK l \in k .. Len(queue) : IsUp(queue[l], i)
      BY <2>2
    <3>2. l \in k .. Len(queue') /\ l \in 1 .. Len(queue)
      BY <1>4
    <3>3. IsUp(queue'[l], i)
      BY <1>5, <3>1, <3>2
    <3> QED BY <3>2, <3>3 DEF ComesUp, IsUp
  <2> QED BY <1>8, <2>1, <2>2 DEF ComesUp
<1>9. ASSUME NEW i \in KeyInputs \cap inputs[0]
      PROVE  ComesUp(i, 1)'
  <2>1. ComesUp(i, 1)
    BY <1>9 DEF IInv, KeysFollow
  <2>2. CASE i \in keys
    <3>1. i \in keys' \/ IsUp(queue'[Len(queue')], i)
      BY <1>6, <2>2
    <3>2. Len(queue') \in 1 .. Len(queue')
      BY <1>4
    <3> QED BY <3>1, <3>2 DEF ComesUp, IsUp
  <2>3. CASE i \notin keys
    <3>1. 1 \in 1 .. Len(queue)
      BY <1>4, <2>1, <2>3 DEF ComesUp
    <3> QED BY <1>8, <2>1, <3>1
  <2> QED BY <2>2, <2>3
<1>10. ASSUME NEW k \in 1 .. Len(queue'), queue'[k].type = "key", queue'[k].down
       PROVE  ComesUp(queue[k].value, k)'
  <2>1. CASE k \in 1 .. Len(queue)
    <3>1. queue'[k] = queue[k] /\ EventOK(queue[k])
      BY <1>5, <2>1 DEF IInv, Events
    <3>2. PICK i \in KeyInputs : i = queue[k].value /\ ComesUp(i, k)
      BY <1>10, <2>1, <3>1 DEF IInv, KeysFollow, EventOK
    <3>3. ComesUp(i, k)'
      BY <1>8, <2>1, <3>2
    <3>4. queue'[k].value = i
      BY <3>1, <3>2
    <3> QED BY <3>3, <3>4 DEF ComesUp
  <2>2. CASE k = Len(queue')
    <3>1. queue'[k].value \in keys'
      BY <1>6, <1>10, <2>2
    <3> QED BY <3>1 DEF ComesUp
  <2> QED BY <1>4, <2>1, <2>2
<1>11. inputs' = inputs
  OBVIOUS
<1>12. \A i \in (KeyInputs \cap inputs[0])' : ComesUp(i, 1)'
  BY <1>9, <1>11
<1>13. KeysFollow'
  BY <1>10, <1>12 DEF KeysFollow
<1> QED BY <1>3, <1>7, <1>13

LEMMA EnvironmentStep == IInv /\ Environment => IInv'
<1> SUFFICES ASSUME IInv, Environment PROVE IInv'
  OBVIOUS
<1>0. TypeOK /\ NoClosedPad
  BY DEF IInv
<1>1. CASE Plug
  <2>1. EventOK(Event("added", Len(devices), NoValue, FALSE))
    BY <1>0 DEF EventOK, Event, TypeOK
  <2>2. Post(Event("added", Len(devices), NoValue, FALSE))
    BY <1>1 DEF Plug
  <2>3. Event("added", Len(devices), NoValue, FALSE).type = "added"
    BY DEF Event
  <2>4. UNCHANGED <<inputs, corrupt, keys, opens, joystick, pads>>
    BY <1>1 DEF Plug
  <2>5. Events' /\ KeysFollow'
         /\ queue' \in Seq([type : {"added", "removed", "key", "button"}, which : Nat,
                            value : Inputs \cup {NoValue}, down : BOOLEAN])
    BY <2>1, <2>2, <2>3, <2>4, PostKeeps
  <2>6. devices' \in Seq(Instances) /\ plugged' \in 0 .. MaxInstances
    BY <1>0, <1>1, BoundAssumption DEF Plug, TypeOK, Instances
  <2>7. TypeOK'
    BY <1>0, <2>4, <2>5, <2>6 DEF TypeOK
  <2>8. NoClosedPad'
    BY <1>0, <2>4 DEF NoClosedPad
  <2> QED BY <2>5, <2>7, <2>8 DEF IInv
<1>2. ASSUME NEW k \in 1 .. Len(devices), Unplug(k) PROVE IInv'
  <2>0. devices[k] \in Nat
    BY <1>0, BoundAssumption DEF TypeOK, Instances
  <2>1. EventOK(Event("removed", devices[k], NoValue, FALSE))
    BY <2>0 DEF EventOK, Event
  <2>2. Post(Event("removed", devices[k], NoValue, FALSE))
    BY <1>2 DEF Unplug
  <2>3. Event("removed", devices[k], NoValue, FALSE).type = "removed"
    BY DEF Event
  <2>4. UNCHANGED <<inputs, corrupt, keys, opens, joystick, pads, plugged>>
    BY <1>2 DEF Unplug
  <2>5. Events' /\ KeysFollow'
         /\ queue' \in Seq([type : {"added", "removed", "key", "button"}, which : Nat,
                            value : Inputs \cup {NoValue}, down : BOOLEAN])
    BY <2>1, <2>2, <2>3, <2>4, PostKeeps
  <2>6. devices' \in Seq(Instances)
    <3>1. devices \in Seq(Instances) /\ Len(devices) \in Nat /\ k \in Nat /\ k >= 1 /\ k <= Len(devices)
      BY <1>0 DEF TypeOK
    <3>2. SubSeq(devices, 1, k - 1) \in Seq(Instances)
      BY <3>1
    <3>3. SubSeq(devices, k + 1, Len(devices)) \in Seq(Instances)
      BY <3>1
    <3> QED BY <1>2, <3>2, <3>3 DEF Unplug
  <2>7. TypeOK'
    BY <1>0, <2>4, <2>5, <2>6 DEF TypeOK
  <2>8. NoClosedPad'
    BY <1>0, <2>4 DEF NoClosedPad
  <2> QED BY <2>5, <2>7, <2>8 DEF IInv
<1>3. ASSUME NEW i \in KeyInputs, Key(i) PROVE IInv'
  <2> DEFINE e == Event("key", 0, i, i \notin keys)
  <2>1. e.type = "key" /\ e.which = 0 /\ e.value = i /\ e.down = (i \notin keys)
    BY DEF Event
  <2>2. EventOK(e)
    BY DEF EventOK, Event, Inputs
  <2>3. Post(e) /\ UNCHANGED <<inputs, corrupt, devices, plugged, opens, joystick, pads>>
    BY <1>3 DEF Key, sdl
  <2>4. keys' = IF i \in keys THEN keys \ {i} ELSE keys \cup {i}
    BY <1>3 DEF Key
  <2>5. \A h \in KeyInputs : h \in keys => h \in keys' \/ IsUp(e, h)
    BY <2>1, <2>4 DEF IsUp
  <2>6. e.type = "key" /\ e.down => e.value \in keys'
    BY <2>1, <2>4
  <2> HIDE DEF e
  <2>7. Events' /\ KeysFollow'
         /\ queue' \in Seq([type : {"added", "removed", "key", "button"}, which : Nat,
                            value : Inputs \cup {NoValue}, down : BOOLEAN])
    BY <2>2, <2>3, <2>5, <2>6, PostKeeps
  <2>8. TypeOK'
    BY <1>0, <2>3, <2>4, <2>7 DEF TypeOK
  <2>9. NoClosedPad'
    BY <1>0, <2>3 DEF NoClosedPad
  <2> QED BY <2>7, <2>8, <2>9 DEF IInv
<1>4. ASSUME NEW k \in 1 .. Len(devices), NEW i \in ButtonInputs, NEW down \in BOOLEAN,
             Button(k, i, down)
      PROVE  IInv'
  <2> DEFINE e == Event("button", devices[k], i, down)
  <2>0. devices[k] \in Nat
    BY <1>0, BoundAssumption DEF TypeOK, Instances
  <2>1. e.type = "button"
    BY DEF Event
  <2>2. EventOK(e)
    BY <2>0 DEF EventOK, Event, Inputs
  <2>3. Post(e) /\ UNCHANGED <<inputs, corrupt, devices, plugged, opens, joystick, pads, keys>>
    BY <1>4 DEF Button, sdl
  <2> HIDE DEF e
  <2>4. Events' /\ KeysFollow'
         /\ queue' \in Seq([type : {"added", "removed", "key", "button"}, which : Nat,
                            value : Inputs \cup {NoValue}, down : BOOLEAN])
    BY <2>1, <2>2, <2>3, PostKeeps
  <2>5. TypeOK'
    BY <1>0, <2>3, <2>4 DEF TypeOK
  <2>6. NoClosedPad'
    BY <1>0, <2>3 DEF NoClosedPad
  <2> QED BY <2>4, <2>5, <2>6 DEF IInv
<1> QED BY <1>1, <1>2, <1>3, <1>4 DEF Environment

\* Opening a joystick for a player keeps what its pointer is owed.
LEMMA OpenKeeps ==
  ASSUME NEW f \in [Players -> Instances \cup {NoJoystick}],
         NEW o \in [Instances -> Nat], Owed(f, o),
         NEW p \in Players, NEW v \in Instances \cup {NoJoystick}
  PROVE  /\ [f EXCEPT ![p] = v] \in [Players -> Instances \cup {NoJoystick}]
         /\ OneMore(o, v) \in [Instances -> Nat]
         /\ Owed([f EXCEPT ![p] = v], OneMore(o, v))
<1> DEFINE g == [f EXCEPT ![p] = v]
           q == OneMore(o, v)
<1>1. g \in [Players -> Instances \cup {NoJoystick}]
  OBVIOUS
<1>2. q \in [Instances -> Nat]
  BY DEF OneMore
<1>3. g = [f EXCEPT ![p] = v]
  OBVIOUS
<1> HIDE DEF g
<1>4. ASSUME NEW j \in Instances PROVE Cardinality(Users(g, j)) <= q[j]
  <2>1. NoJoystick # j
    BY BoundAssumption DEF NoJoystick, Instances
  <2>2. Cardinality(Users(f, j)) \in Nat /\ Cardinality(Users(g, j)) \in Nat /\ o[j] \in Nat
    BY UsersFinite
  <2>3. Cardinality(Users(f, j)) <= o[j]
    BY DEF Owed
  <2>4. CASE v = j
    <3>1. Cardinality(Users(g, j)) <= Cardinality(Users(f, j)) + 1
      BY <1>3, <2>4, UsersAfter
    <3>2. q[j] = o[j] + 1
      BY <2>1, <2>4 DEF OneMore
    <3> QED BY <2>2, <2>3, <3>1, <3>2
  <2>5. CASE v # j
    <3>1. Cardinality(Users(g, j)) <= Cardinality(Users(f, j))
      BY <1>3, <2>5, UsersAfter
    <3>2. q[j] = o[j]
      BY <2>5 DEF OneMore
    <3> QED BY <2>2, <2>3, <3>1, <3>2
  <2> QED BY <2>4, <2>5
<1>5. Owed(g, q)
  BY <1>4 DEF Owed
<1> QED BY <1>1, <1>2, <1>5 DEF g

LEMMA AssignStep ==
  ASSUME IInv, NEW p \in Players, NEW index \in -1 .. MaxInstances,
         AssignInputJoypad(p, index)
  PROVE  IInv'
<1> DEFINE j == Opened(index)
<1>0. TypeOK /\ NoClosedPad
  BY DEF IInv
<1>1. j \in Instances \cup {NoJoystick}
  BY <1>0, OpenedType, BoundAssumption
<1>2. /\ Close(p) \in [Instances -> Nat]
      /\ ClearPointer(p) \in [Players -> Instances \cup {NoJoystick}]
      /\ Owed(ClearPointer(p), Close(p))
  BY <1>0, CloseKeeps
<1>3. joystick' = [ClearPointer(p) EXCEPT ![p] = j]
  BY <1>0 DEF AssignInputJoypad, ClearPointer, TypeOK
<1>4. index < 0 => j = NoJoystick
  BY DEF Opened
<1>5. opens' = OneMore(Close(p), j)
  BY <1>4 DEF AssignInputJoypad, OneMore
<1> HIDE DEF j
<1>6. /\ joystick' \in [Players -> Instances \cup {NoJoystick}]
      /\ opens' \in [Instances -> Nat]
      /\ Owed(joystick', opens')
  BY <1>1, <1>2, <1>3, <1>5, OpenKeeps
<1>7. NoClosedPad'
  BY <1>6, ClosedPadUsersNext
<1>8. pads' \in [Players -> [connected : BOOLEAN, identifier : 0 .. 255]]
  <2>1. UInt8(InstanceID(j)) \in 0 .. 255
    BY <1>1, BoundAssumption DEF UInt8, InstanceID, Instances, NoJoystick
  <2>2. pads \in [Players -> [connected : BOOLEAN, identifier : 0 .. 255]]
    BY <1>0 DEF TypeOK
  <2>3. \/ pads' = pads
        \/ pads' = [pads EXCEPT ![p] = [connected |-> pads[p].connected,
                                       identifier |-> UInt8(InstanceID(j))]]
    BY <2>2 DEF AssignInputJoypad, j
  <2> QED BY <2>1, <2>2, <2>3
<1>9. UNCHANGED <<devices, plugged, queue, keys, inputs, corrupt>>
  BY DEF AssignInputJoypad
<1>10. TypeOK'
  BY <1>0, <1>6, <1>8, <1>9 DEF TypeOK
<1>11. Events'
  BY <1>9 DEF IInv, Events, EventOK
<1>12. KeysFollow'
  BY <1>9 DEF IInv, KeysFollow, ComesUp, IsUp
<1> QED BY <1>7, <1>10, <1>11, <1>12 DEF IInv

\* An event is taken from the front of the queue: what is marked afterwards was
\* marked by it, or before and not released by it.
LEMMA TailKeeps ==
  ASSUME IInv, queue # <<>>, queue' = Tail(queue), keys' = keys,
         \A i \in KeyInputs \cap inputs'[0] :
           \/ i \in inputs[0] /\ ~IsUp(Head(queue), i)
           \/ Head(queue).type = "key" /\ Head(queue).down /\ Head(queue).value = i
  PROVE  Events' /\ KeysFollow'
         /\ queue' \in Seq([type : {"added", "removed", "key", "button"}, which : Nat,
                            value : Inputs \cup {NoValue}, down : BOOLEAN])
<1>1. queue \in Seq([type : {"added", "removed", "key", "button"}, which : Nat,
                     value : Inputs \cup {NoValue}, down : BOOLEAN])
  BY DEF IInv, TypeOK
<1>2. queue' \in Seq([type : {"added", "removed", "key", "button"}, which : Nat,
                      value : Inputs \cup {NoValue}, down : BOOLEAN])
  BY <1>1
<1>3. Len(queue) \in Nat /\ Len(queue) >= 1 /\ Len(queue') = Len(queue) - 1
  BY <1>1
<1>4. \A k \in 1 .. Len(queue') : queue'[k] = queue[k + 1] /\ k + 1 \in 1 .. Len(queue)
  BY <1>1, <1>3
<1>5. Head(queue) = queue[1] /\ 1 \in 1 .. Len(queue)
  BY <1>1, <1>3
<1>6. Events'
  <2> SUFFICES ASSUME NEW k \in 1 .. Len(queue') PROVE EventOK(queue'[k])
    BY DEF Events, EventOK
  <2> QED BY <1>4 DEF IInv, Events
<1>7. ASSUME NEW i \in KeyInputs, NEW k \in 1 .. Len(queue), ComesUp(i, k),
             NEW h \in 1 .. Len(queue), k = 1 => ~IsUp(queue[1], i),
             h <= IF k = 1 THEN 1 ELSE k - 1
      PROVE  ComesUp(i, h)'
  <2>1. CASE i \in keys
    BY <2>1 DEF ComesUp
  <2>2. CASE \E l \in k .. Len(queue) : IsUp(queue[l], i)
    <3>1. PICK l \in k .. Len(queue) : IsUp(queue[l], i)
      BY <2>2
    <3>2. l # 1
      BY <1>7, <3>1
    <3>3. l - 1 \in h .. Len(queue') /\ l - 1 \in 1 .. Len(queue')
      BY <1>3, <1>7, <3>1, <3>2
    <3>4. queue'[l - 1] = queue[l]
      BY <1>4, <3>1, <3>3
    <3>5. IsUp(queue'[l - 1], i)
      BY <3>1, <3>4
    <3> QED BY <3>3, <3>5 DEF ComesUp, IsUp
  <2> QED BY <1>7, <2>1, <2>2 DEF ComesUp
<1>8. ASSUME NEW i \in (KeyInputs \cap inputs[0])' PROVE ComesUp(i, 1)'
  <2>1. CASE i \in inputs[0] /\ ~IsUp(Head(queue), i)
    <3>1. ComesUp(i, 1) /\ i \in KeyInputs
      BY <1>8, <2>1 DEF IInv, KeysFollow
    <3> QED BY <1>5, <1>7, <2>1, <3>1
  <2>2. CASE Head(queue).type = "key" /\ Head(queue).down /\ Head(queue).value = i
    <3>1. ComesUp(i, 1) /\ ~IsUp(queue[1], i) /\ i \in KeyInputs
      BY <1>5, <1>8, <2>2 DEF IInv, KeysFollow, IsUp
    <3> QED BY <1>5, <1>7, <3>1
  <2> QED BY <1>8, <2>1, <2>2
<1>9. ASSUME NEW k \in 1 .. Len(queue'), queue'[k].type = "key", queue'[k].down
      PROVE  ComesUp(queue[k].value, k)'
  <2>1. queue'[k] = queue[k + 1] /\ k + 1 \in 1 .. Len(queue)
    BY <1>4
  <2>2. EventOK(queue[k + 1])
    BY <2>1 DEF IInv, Events
  <2>3. PICK i \in KeyInputs : i = queue[k + 1].value /\ ComesUp(i, k + 1)
    BY <1>9, <2>1, <2>2 DEF IInv, KeysFollow, EventOK
  <2>4. k \in 1 .. Len(queue) /\ k + 1 # 1
    BY <1>3
  <2>5. ComesUp(i, k)'
    BY <1>7, <2>1, <2>3, <2>4
  <2> QED BY <2>1, <2>3, <2>5 DEF ComesUp
<1>10. KeysFollow'
  BY <1>8, <1>9 DEF KeysFollow
<1> QED BY <1>2, <1>6, <1>10

LEMMA EventStep == IInv /\ ProcessEvent => IInv'
<1> SUFFICES ASSUME IInv, ProcessEvent PROVE IInv'
  OBVIOUS
<1> DEFINE e == Head(queue)
<1>0. TypeOK /\ NoClosedPad /\ queue # <<>> /\ queue' = Tail(queue)
      /\ UNCHANGED <<devices, plugged, keys>>
  BY DEF IInv, ProcessEvent
<1>1. EventOK(e)
  BY <1>0 DEF IInv, Events, TypeOK
<1>2. inputs \in [Players -> SUBSET Inputs] /\ 0 \in Players
  BY <1>0, PlayersFinite DEF TypeOK
<1>3. CASE \E p \in Players : e.type = "added" /\ ConnectJoypad(p)
  <2>1. PICK p \in Players : e.type = "added" /\ ConnectJoypad(p)
    BY <1>3
  <2>2. Opened(p) \in Instances \cup {NoJoystick}
    BY <1>0, OpenedType, PlayersAssumption DEF Players
  <2>3. joystick' = [joystick EXCEPT ![p] = Opened(p)]
    BY <2>1 DEF ConnectJoypad
  <2>4. opens' = OneMore(opens, Opened(p))
    BY <2>1 DEF ConnectJoypad, OneMore
  <2>5. joystick \in [Players -> Instances \cup {NoJoystick}] /\ opens \in [Instances -> Nat]
    BY <1>0 DEF TypeOK
  <2>6. Owed(joystick, opens)
    BY <1>0, ClosedPadUsers
  <2>7. /\ joystick' \in [Players -> Instances \cup {NoJoystick}]
        /\ opens' \in [Instances -> Nat]
        /\ Owed(joystick', opens')
    BY <2>2, <2>3, <2>4, <2>5, <2>6, OpenKeeps
  <2>8. UNCHANGED <<inputs, corrupt>>
    BY <2>1 DEF ConnectJoypad
  <2>9. pads' \in [Players -> [connected : BOOLEAN, identifier : 0 .. 255]]
    <3>1. pads \in [Players -> [connected : BOOLEAN, identifier : 0 .. 255]]
      BY <1>0 DEF TypeOK
    <3>2. Connected(pads[p].identifier) \in [connected : BOOLEAN, identifier : 0 .. 255]
      BY <3>1 DEF Connected
    <3>3. pads' = pads \/ pads' = [pads EXCEPT ![p] = Connected(pads[p].identifier)]
      BY <2>1 DEF ConnectJoypad
    <3> QED BY <3>1, <3>2, <3>3
  <2>10. \A i : ~IsUp(e, i)
    BY <2>1 DEF IsUp
  <2>11. Events' /\ KeysFollow'
         /\ queue' \in Seq([type : {"added", "removed", "key", "button"}, which : Nat,
                            value : Inputs \cup {NoValue}, down : BOOLEAN])
    BY <1>0, <2>8, <2>10, TailKeeps
  <2>12. TypeOK'
    BY <1>0, <2>7, <2>8, <2>9, <2>11 DEF TypeOK
  <2> QED BY <2>7, <2>11, <2>12, ClosedPadUsersNext DEF IInv
<1>4. CASE \E p \in Players : e.type = "removed" /\ DisconnectJoypad(p)
  <2>1. PICK p \in Players : e.type = "removed" /\ DisconnectJoypad(p)
    BY <1>4
  <2>2. opens' = Close(p) /\ joystick' = ClearPointer(p)
    BY <2>1 DEF DisconnectJoypad
  <2>3. /\ joystick' \in [Players -> Instances \cup {NoJoystick}]
        /\ opens' \in [Instances -> Nat]
        /\ Owed(joystick', opens')
    BY <1>0, <2>2, CloseKeeps
  <2>4. pads' \in [Players -> [connected : BOOLEAN, identifier : 0 .. 255]]
    BY <1>0, <2>1 DEF DisconnectJoypad, NoPad, TypeOK
  <2>5. inputs' = [inputs EXCEPT ![p] = {}] /\ corrupt' = corrupt
    BY <2>1 DEF DisconnectJoypad
  <2>6. inputs' \in [Players -> SUBSET Inputs] /\ inputs'[0] \subseteq inputs[0]
    BY <1>2, <2>5
  <2>7. \A i : ~IsUp(e, i)
    BY <2>1 DEF IsUp
  <2>8. Events' /\ KeysFollow'
         /\ queue' \in Seq([type : {"added", "removed", "key", "button"}, which : Nat,
                            value : Inputs \cup {NoValue}, down : BOOLEAN])
    BY <1>0, <2>6, <2>7, TailKeeps
  <2>9. TypeOK'
    BY <1>0, <2>3, <2>4, <2>5, <2>6, <2>8 DEF TypeOK
  <2> QED BY <2>3, <2>8, <2>9, ClosedPadUsersNext DEF IInv
<1>5. CASE e.type \in {"added", "removed"} /\ OutOfBounds
  <2>1. UNCHANGED <<opens, joystick, pads, inputs>> /\ corrupt' = TRUE
    BY <1>5 DEF OutOfBounds
  <2>2. \A i : ~IsUp(e, i)
    BY <1>5 DEF IsUp
  <2>3. Events' /\ KeysFollow'
         /\ queue' \in Seq([type : {"added", "removed", "key", "button"}, which : Nat,
                            value : Inputs \cup {NoValue}, down : BOOLEAN])
    BY <1>0, <2>1, <2>2, TailKeeps
  <2>4. TypeOK'
    BY <1>0, <2>1, <2>3 DEF TypeOK
  <2>5. NoClosedPad'
    BY <1>0, <2>1 DEF NoClosedPad
  <2> QED BY <2>3, <2>4, <2>5 DEF IInv
<1>6. CASE /\ \/ e.type = "key" /\ KeyInput(e)
              \/ e.type = "button" /\ ButtonInput(e)
           /\ UNCHANGED <<opens, joystick, pads, corrupt>>
  <2>1. e.value \in Inputs
    BY <1>1, <1>6 DEF EventOK, Inputs
  <2>2. \/ inputs' = [inputs EXCEPT ![0] = @ \cup {e.value}]
        \/ inputs' = [inputs EXCEPT ![0] = @ \ {e.value}]
        \/ inputs' = inputs
    BY <1>6 DEF KeyInput, ButtonInput, SetInput, ClearInput
  <2>3. inputs' \in [Players -> SUBSET Inputs]
    BY <1>2, <2>1, <2>2
  <2>4. \A i \in KeyInputs \cap inputs'[0] :
           \/ i \in inputs[0] /\ ~IsUp(e, i)
           \/ e.type = "key" /\ e.down /\ e.value = i
    <3>1. CASE e.type = "key" /\ KeyInput(e) /\ e.down
      <4>1. inputs'[0] = inputs[0] \cup {e.value}
        BY <1>2, <3>1 DEF KeyInput, SetInput
      <4> QED BY <3>1, <4>1 DEF IsUp
    <3>2. CASE e.type = "key" /\ KeyInput(e) /\ ~e.down
      <4>1. inputs'[0] = inputs[0] \ {e.value}
        BY <1>2, <3>2 DEF KeyInput, ClearInput
      <4> QED BY <3>2, <4>1 DEF IsUp
    <3>3. CASE e.type = "button"
      <4>1. e.value \in ButtonInputs
        BY <1>1, <3>3 DEF EventOK
      <4>2. inputs'[0] \subseteq inputs[0] \cup {e.value}
        BY <1>2, <2>2
      <4> QED BY <3>3, <4>1, <4>2, InputAssumption DEF IsUp
    <3> QED BY <1>6, <3>1, <3>2, <3>3
  <2>5. Events' /\ KeysFollow'
         /\ queue' \in Seq([type : {"added", "removed", "key", "button"}, which : Nat,
                            value : Inputs \cup {NoValue}, down : BOOLEAN])
    BY <1>0, <2>4, TailKeeps
  <2>6. TypeOK'
    BY <1>0, <1>6, <2>3, <2>5 DEF TypeOK
  <2>7. NoClosedPad'
    BY <1>0, <1>6 DEF NoClosedPad
  <2> QED BY <2>5, <2>6, <2>7 DEF IInv
<1> QED BY <1>3, <1>4, <1>5, <1>6 DEF ProcessEvent

\* Every step keeps the invariant.
LEMMA InvStep == IInv /\ [Next]_vars => IInv'
<1> SUFFICES ASSUME IInv, [Next]_vars PROVE IInv'
  OBVIOUS
<1>1. CASE UNCHANGED vars
  BY <1>1 DEF vars, sdl, IInv, TypeOK, Events, EventOK, NoClosedPad, KeysFollow, ComesUp, IsUp
<1> QED BY <1>1, EnvironmentStep, AssignStep, EventStep DEF Next

\* The invariant the theorems rest on.
LEMMA JoypadInvariant == Spec => []IInv
  BY InitialInv, InvStep, PTL DEF Spec

\* Every variable has its type in every reachable state: no joystick is closed
\* more often than it was opened (SDL2_DisconnectJoypad, SDL2_AssignInputJoypad).
THEOREM InputTypeCorrect == Spec => []TypeOK
  BY JoypadInvariant, PTL DEF IInv

\* No joystick is closed under a player that points to it, for any number of
\* players and joysticks (SDL2_ConnectJoypad, SDL2_AssignInputJoypad).
THEOREM PadsStayOpen == Spec => []NoClosedPad
  BY JoypadInvariant, PTL DEF IInv

\* A key is marked only while it is down or its release is on its way, however
\* keys, buttons and joysticks interleave (SDL2_ProcessJoypadKeycodeInput).
THEOREM NoKeySticks == Spec => []NoGhostKey
<1>1. IInv => NoGhostKey
  BY DEF IInv, KeysFollow, ComesUp, IsUp, NoGhostKey
<1> QED BY <1>1, JoypadInvariant, PTL

=============================================================================
