-------------------------- MODULE CoreSessionProofs -------------------------
(* Proofs about CoreSession, for every set of cores and every bound. *)
EXTENDS CoreSession, TLAPS

\* What a call through a pointer leaves: control in the library, or a fault.
LEMMA CallThroughType ==
  ASSUME NEW fn \in Functions, NEW p \in Pointer,
         fault \in Faults, call \in Calls,
         CallThrough(fn, p)
  PROVE  fault' \in Faults /\ call' \in Calls
<1>1. CASE p \in Cores
  BY <1>1 DEF CallThrough, In, Calls
<1>2. CASE p \notin Cores
  BY <1>2 DEF CallThrough, Faults
<1> QED BY <1>1, <1>2

\* An entry point leads into the library it was looked up in, or nowhere.
LEMMA EntryType ==
  ASSUME NEW fns, NEW c
  PROVE  Entry(fns, c) \in {c, None} /\ Entry(fns, c) \in Cores \cup {None}
BY DEF Entry

\* TypeOK is not inductive: closing takes one from the reference count of the
\* handle, and the count stays a natural number only because the handle holds
\* a reference.
HandleCounted == handle # None => opens[handle] > 0

LEMMA InitTyped == Init => TypeOK
<1> SUFFICES ASSUME Init PROVE TypeOK
  OBVIOUS
<1>1. callbacks \in [Kinds -> Pointer] /\ life \in [Cores -> Lives]
  BY DEF Init, Pointer, Lives
<1>2. opens \in [Cores -> 0 .. MaxOpens]
  BY BoundsAssumption DEF Init
<1>3. counters \in Seq(Counters \cup {Dangling}) /\ Len(counters) <= MAX_COUNTERS
  BY BoundsAssumption DEF Init
<1> QED BY <1>1, <1>2, <1>3 DEF Init, TypeOK, Calls, NoContent, Faults

LEMMA StepTyped == TypeOK /\ HandleCounted /\ [Next]_vars => TypeOK'
<1> SUFFICES ASSUME TypeOK, HandleCounted, [Next]_vars PROVE TypeOK'
  OBVIOUS
<1> USE PointerAssumption, KindsAssumption, CoresAssumption, BoundsAssumption
    DEF TypeOK, frontend, system, Lives
<1>1. ASSUME NEW c \in Cores, LoadCore(c) PROVE TypeOK'
  <2>1. fault' \in Faults /\ call' \in Calls
    BY <1>1, CallThroughType, EntryType DEF LoadCore, Functions, Pointer
  <2>2. opens' \in [Cores -> 0 .. MaxOpens]
    BY <1>1 DEF LoadCore
  <2>3. life' \in [Cores -> Lives]
    BY <1>1 DEF LoadCore
  <2> QED BY <1>1, <2>1, <2>2, <2>3 DEF LoadCore
<1>2. CASE LoadCoreFails
  BY <1>2 DEF LoadCoreFails
<1>3. CASE EnvironmentSet
  <2>1. fault' \in Faults /\ call' \in Calls
    BY <1>3, CallThroughType, EntryType DEF EnvironmentSet, Functions, Pointer
  <2> QED BY <1>3, <2>1 DEF EnvironmentSet
<1>4. CASE LoadCoreReturns
  BY <1>4 DEF LoadCoreReturns, Calls
<1>5. ASSUME NEW named \in BOOLEAN, LoadContent(named) PROVE TypeOK'
  <2>1. fault' \in Faults /\ call' \in Calls
    BY <1>5, CallThroughType, EntryType DEF LoadContent, Functions, Pointer
  <2> QED BY <1>5, <2>1 DEF LoadContent, SizeRead
<1>6. CASE ContentRefused
  BY <1>6 DEF ContentRefused, NoContent, Calls
<1>7. CASE ContentAccepted
  <2>1. fault' \in Faults /\ call' \in Calls
    BY <1>7, CallThroughType, EntryType
       DEF ContentAccepted, Functions, Calls, Idle, Pointer
  <2>2. life' \in [Cores -> Lives]
    BY <1>7 DEF ContentAccepted
  <2>3. running' \in BOOLEAN
    BY <1>7 DEF ContentAccepted
  <2> QED BY <1>7, <2>1, <2>2, <2>3 DEF ContentAccepted, NoContent
<1>8. CASE AudioStateSet
  BY <1>8 DEF AudioStateSet, Calls
<1>9. CASE UpdateFrame
  <2>1. fault' \in Faults /\ call' \in Calls
    BY <1>9, CallThroughType, EntryType DEF UpdateFrame, CallAudioOrRun, Functions, Pointer
  <2>2. frame_time_last' \in Cores \cup {None}
    BY <1>9 DEF UpdateFrame
  <2> QED BY <1>9, <2>1, <2>2 DEF UpdateFrame
<1>10. CASE FrameTimeTold
  <2>1. fault' \in Faults /\ call' \in Calls
    BY <1>10, CallThroughType, EntryType DEF FrameTimeTold, CallAudioOrRun, Functions, Pointer
  <2> QED BY <1>10, <2>1 DEF FrameTimeTold
<1>11. CASE AudioEmitted
  <2>1. fault' \in Faults /\ call' \in Calls
    BY <1>11, CallThroughType, EntryType DEF AudioEmitted, Functions, Pointer
  <2> QED BY <1>11, <2>1 DEF AudioEmitted
<1>12. CASE FrameRun
  BY <1>12 DEF FrameRun, Calls
<1>13. CASE CloseCore
  <2>1. fault' \in Faults /\ call' \in Calls
    BY <1>13, CallThroughType, EntryType DEF CloseCore, Functions, Pointer
  <2> QED BY <1>13, <2>1 DEF CloseCore
<1>14. CASE CoreDeinitialized
  <2>1. counters' \in Seq(Counters \cup {Dangling}) /\ Len(counters') <= MAX_COUNTERS
    BY <1>14 DEF CoreDeinitialized
  <2>2. opens' \in [Cores -> 0 .. MaxOpens]
    BY <1>14 DEF CoreDeinitialized, Released, HandleCounted
  <2>3. callbacks' \in [Kinds -> Pointer]
    BY <1>14 DEF CoreDeinitialized, Stale, Pointer
  <2>4. life' \in [Cores -> Lives]
    BY <1>14 DEF CoreDeinitialized
  <2> QED BY <1>14, <2>1, <2>2, <2>3, <2>4 DEF CoreDeinitialized, ClearCore, Calls
<1>15. ASSUME NEW k \in Kinds, SetCallback(k) PROVE TypeOK'
  <2>1. call.core \in Cores
    BY <1>15 DEF SetCallback, Calls
  <2> QED BY <1>15, <2>1 DEF SetCallback, Pointer
<1>19. CASE SetVariables
  <2>1. call.core \in Cores
    BY <1>19 DEF SetVariables, Calls
  <2> QED BY <1>19, <2>1 DEF SetVariables
<1>16. ASSUME NEW k \in Counters, RegisterCounter(k) PROVE TypeOK'
  BY <1>16 DEF RegisterCounter, RoomForCounter
<1>17. CASE LogCounters
  BY <1>17 DEF LogCounters, Faults
<1>18. CASE UNCHANGED vars
  BY <1>18 DEF vars
<1> QED BY <1>1, <1>2, <1>3, <1>4, <1>5, <1>6, <1>7, <1>8, <1>9, <1>10, <1>11,
           <1>12, <1>13, <1>14, <1>15, <1>16, <1>17, <1>18, <1>19 DEF Next

LEMMA HandleStep == TypeOK /\ HandleCounted /\ [Next]_vars => HandleCounted'
<1> SUFFICES ASSUME TypeOK, HandleCounted, [Next]_vars PROVE HandleCounted'
  OBVIOUS
<1> USE PointerAssumption DEF TypeOK, HandleCounted, frontend
<1>1. ASSUME NEW c \in Cores, LoadCore(c) PROVE HandleCounted'
  BY <1>1 DEF LoadCore
<1>2. CASE LoadCoreFails
  BY <1>2 DEF LoadCoreFails
<1>3. CASE CoreDeinitialized
  BY <1>3 DEF CoreDeinitialized, ClearCore
<1>4. CASE UNCHANGED <<handle, opens>>
  BY <1>4
<1> QED BY <1>1, <1>2, <1>3, <1>4
        DEF Next, vars, EnvironmentSet, LoadCoreReturns, LoadContent,
            ContentRefused, ContentAccepted, AudioStateSet, UpdateFrame,
            FrameTimeTold, AudioEmitted, FrameRun, CloseCore, SetCallback,
            SetVariables, RegisterCounter, LogCounters

LEMMA TypedAndCounted == Spec => [](TypeOK /\ HandleCounted)
<1>1. Init => TypeOK /\ HandleCounted
  BY InitTyped DEF Init, HandleCounted
<1> QED BY <1>1, StepTyped, HandleStep, PTL DEF Spec

\* Every variable keeps its type, for all sets of cores and all bounds.
THEOREM TypeCorrect == Spec => []TypeOK
BY TypedAndCounted, PTL

\* The function table of LMC_LoadCore never leads into an unmapped library,
\* for every application, whether or not it closes one core before the next.
THEOREM TableStaysMapped == Spec => []TableMapped
<1>1. Init => TableMapped
  BY DEF Init, TableMapped
<1>2. TypeOK /\ TableMapped /\ [Next]_vars => TableMapped'
  <2> SUFFICES ASSUME TypeOK, TableMapped, [Next]_vars PROVE TableMapped'
    OBVIOUS
  <2> USE PointerAssumption DEF TypeOK, TableMapped, frontend
  <2>1. ASSUME NEW c \in Cores, LoadCore(c) PROVE TableMapped'
    BY <2>1 DEF LoadCore
  <2>2. CASE CoreDeinitialized
    BY <2>2 DEF CoreDeinitialized, ClearCore
  <2>3. CASE UNCHANGED <<table, opens>>
    BY <2>3
  <2> QED BY <2>1, <2>2, <2>3
          DEF Next, vars, LoadCoreFails, EnvironmentSet, LoadCoreReturns,
              LoadContent, ContentRefused, ContentAccepted, AudioStateSet,
              UpdateFrame, FrameTimeTold, AudioEmitted, FrameRun, CloseCore,
              SetCallback, SetVariables, RegisterCounter, LogCounters
<1> QED BY <1>1, <1>2, TypeCorrect, PTL DEF Spec

-----------------------------------------------------------------------------
(* One core at a time *)

\* The conditions under which the library keeps cores apart, beside that the
\* application closes a core before the next one (ClosesFirst): every core has
\* the symbols that are called, and all cores register the same callbacks and
\* all or none of them announce options.
Complete == \A c \in Cores : Lacks[c] = {}
Uniform ==
  \A c, d \in Cores : Uses[c] = Uses[d] /\ (c \in Announces <=> d \in Announces)

LEMMA EntryPresent ==
  ASSUME Complete, NEW c \in Cores, NEW fns
  PROVE  Entry(fns, c) = c
BY DEF Complete, Entry

OwnCallbacks ==
  /\ \A k \in Kinds : callbacks[k] = IF k \in Uses[table] THEN table ELSE None
  /\ options = IF table \in Announces THEN table ELSE None

\* RunningIsOneCore made inductive: what holds at each point of control of a
\* session, from the moment the library is opened.
Pointers ==
  /\ table = handle
  /\ OnlyHandleOpen
  /\ call # Idle => table # None /\ call.core = table
  /\ fault \notin {"null_call", "dangling_call"}

Progress ==
  /\ call = Idle => (initialized <=> table # None)
  /\ call.fn \in {"set_environment", "init"} => ~initialized /\ ~running
  /\ call.fn \in {"load_game", "set_state"} => initialized /\ ~running
  /\ call.fn \in {"frame_time", "audio", "run"} => initialized /\ running
  /\ call.fn = "deinit" => initialized
  /\ running => initialized

Lifetimes ==
  \A c \in Cores :
    life[c] = IF c # table THEN "closed"
              ELSE IF call.fn = "set_environment" THEN "opened"
              ELSE IF running \/ call.fn = "set_state" THEN "playing"
              ELSE "inited"

Registered ==
  /\ \A k \in Kinds : callbacks[k] \in {None, Dangling, table}
  /\ \A c \in Cores : \A k \in Kinds \ Uses[c] : callbacks[k] = None
  /\ \A c \in Cores \ Announces : options = None
  /\ running \/ call.fn = "set_state" => OwnCallbacks

SessionInv == Pointers /\ Progress /\ Lifetimes /\ Registered

LEMMA InitSession == Init => SessionInv
BY PointerAssumption
   DEF Init, SessionInv, Pointers, Progress, Lifetimes, Registered,
       OnlyHandleOpen, OwnCallbacks, Idle

\* Every call goes through a pointer that leads somewhere: the table's own
\* functions, and the callbacks once a core has accepted its content.
LEMMA SessionStep ==
  ASSUME ClosesFirst, Complete, Uniform
  PROVE  TypeOK /\ SessionInv /\ [Next]_vars => SessionInv'
<1> SUFFICES ASSUME TypeOK, SessionInv, [Next]_vars PROVE SessionInv'
  OBVIOUS
<1> USE PointerAssumption, KindsAssumption, CoresAssumption
    DEF SessionInv, frontend, system, AtApplication, Inside, In, Idle
<1>t. /\ handle \in Cores \cup {None} /\ table \in Cores \cup {None}
      /\ callbacks \in [Kinds -> Pointer] /\ life \in [Cores -> Lives]
      /\ opens \in [Cores -> 0 .. MaxOpens] /\ call \in Calls
      /\ initialized \in BOOLEAN /\ running \in BOOLEAN
  BY DEF TypeOK
<1>1. ASSUME NEW c \in Cores, LoadCore(c) PROVE SessionInv'
  <2>0. table = None /\ handle = None /\ ~initialized /\ ~running /\ call = Idle
    BY <1>1, <1>t DEF LoadCore, MayLoad, Progress
  <2>1. call' = In("set_environment", c) /\ UNCHANGED fault
    BY <1>1, EntryPresent, PointerAssumption DEF LoadCore, CallThrough
  <2>2. Pointers'
    BY <1>1, <1>t, <2>0, <2>1 DEF LoadCore, Pointers, OnlyHandleOpen
  <2>3. Progress'
    BY <1>1, <2>0, <2>1 DEF LoadCore, Progress
  <2>4. Lifetimes'
    BY <1>1, <1>t, <2>0, <2>1 DEF LoadCore, Lifetimes
  <2>5. Registered'
    BY <1>1, <2>0, <2>1 DEF LoadCore, Registered
  <2> QED BY <2>2, <2>3, <2>4, <2>5
<1>2. CASE LoadCoreFails
  <2>1. table = None /\ handle = None
    BY <1>2 DEF LoadCoreFails, MayLoad
  <2> QED BY <1>2, <2>1 DEF LoadCoreFails, Pointers, Progress, Lifetimes,
                            Registered, OnlyHandleOpen, OwnCallbacks
<1>3. CASE EnvironmentSet
  <2>1. table \in Cores /\ call' = In("init", table) /\ UNCHANGED fault
    BY <1>3, <1>t, EntryPresent DEF EnvironmentSet, CallThrough, Pointers
  <2>2. Lifetimes'
    BY <1>3, <1>t, <2>1 DEF EnvironmentSet, Lifetimes, Progress
  <2> QED BY <1>3, <2>1, <2>2 DEF EnvironmentSet, Pointers, Progress,
                                  Registered, OnlyHandleOpen, OwnCallbacks
<1>4. CASE LoadCoreReturns
  BY <1>4 DEF LoadCoreReturns, Pointers, Progress, Lifetimes, Registered,
              OnlyHandleOpen, OwnCallbacks
<1>5. ASSUME NEW named \in BOOLEAN, LoadContent(named) PROVE SessionInv'
  <2>1. table \in Cores /\ call' = In("load_game", table) /\ UNCHANGED fault
    BY <1>5, <1>t, EntryPresent DEF LoadContent, MayLoadContent, CallThrough, Pointers, Progress
  <2> QED BY <1>5, <2>1
          DEF LoadContent, MayLoadContent, Pointers, Progress, Lifetimes,
              Registered, OnlyHandleOpen, OwnCallbacks
<1>6. CASE ContentRefused
  BY <1>6 DEF ContentRefused, Pointers, Progress, Lifetimes, Registered,
              OnlyHandleOpen, OwnCallbacks
<1>7. CASE ContentAccepted
  <2>1. table \in Cores /\ call.core = table
    BY <1>7, <1>t DEF ContentAccepted, Pointers
  <2>2. OwnCallbacks
    BY <1>7, <2>1 DEF ContentAccepted, OwnCallbacks, Registered
  <2>3. callbacks["audio"] \in {None, table}
    BY <2>2 DEF OwnCallbacks
  <2>4. \/ call' = In("set_state", table) /\ UNCHANGED <<fault, running>>
        \/ call' = Idle /\ running' = TRUE /\ UNCHANGED fault
    BY <1>7, <2>1, <2>3, EntryPresent DEF ContentAccepted, CallThrough
  <2>5. Lifetimes'
    BY <1>7, <1>t, <2>1, <2>4 DEF ContentAccepted, Lifetimes, Progress
  <2>6. Registered'
    BY <1>7, <2>2 DEF ContentAccepted, Registered, OwnCallbacks
  <2>7. Pointers'
    BY <1>7, <2>1, <2>4 DEF ContentAccepted, Pointers, OnlyHandleOpen
  <2>8. Progress'
    BY <1>7, <2>1, <2>4 DEF ContentAccepted, Progress
  <2> QED BY <2>5, <2>6, <2>7, <2>8
<1>8. CASE AudioStateSet
  BY <1>8 DEF AudioStateSet, Pointers, Progress, Lifetimes, Registered,
              OnlyHandleOpen, OwnCallbacks
<1>9. ASSUME running, Inside("none") \/ Inside("frame_time"),
             CallAudioOrRun, UNCHANGED <<frontend, callbacks, options, opens, life>>
      PROVE  SessionInv'
  <2>1. table \in Cores
    BY <1>9, <1>t DEF Pointers, Progress
  <2>2. callbacks["audio"] \in {None, table}
    BY <1>9, <2>1 DEF Registered, OwnCallbacks
  <2>3. call' \in {In("audio", table), In("run", table)} /\ UNCHANGED fault
    BY <1>9, <2>1, <2>2, EntryPresent DEF CallAudioOrRun, CallThrough
  <2> QED BY <1>9, <2>1, <2>3 DEF Pointers, Progress, Lifetimes, Registered,
                                  OnlyHandleOpen, OwnCallbacks
<1>10. CASE UpdateFrame
  <2>1. CASE callbacks["frame_time"] = None
    BY <1>9, <1>10, <2>1 DEF UpdateFrame, CoreBranch
  <2>2. CASE callbacks["frame_time"] # None
    <3>1. table \in Cores /\ running
      BY <1>10, <1>t DEF UpdateFrame, CoreBranch, Pointers, Progress
    <3>2. callbacks["frame_time"] = table
      BY <2>2, <3>1 DEF Registered, OwnCallbacks
    <3>3. call' = In("frame_time", table) /\ UNCHANGED fault
      BY <1>10, <2>2, <3>1, <3>2 DEF UpdateFrame, CallThrough
    <3> QED BY <1>10, <3>1, <3>3
            DEF UpdateFrame, Pointers, Progress, Lifetimes, Registered,
                OnlyHandleOpen, OwnCallbacks
  <2> QED BY <2>1, <2>2
<1>11. CASE FrameTimeTold
  BY <1>9, <1>11 DEF FrameTimeTold, Progress
<1>12. CASE AudioEmitted
  <2>1. table \in Cores /\ call' = In("run", table) /\ UNCHANGED fault
    BY <1>12, <1>t, EntryPresent DEF AudioEmitted, CallThrough, Pointers
  <2> QED BY <1>12, <2>1 DEF AudioEmitted, Pointers, Progress, Lifetimes,
                             Registered, OnlyHandleOpen, OwnCallbacks
<1>13. CASE FrameRun
  BY <1>13 DEF FrameRun, Pointers, Progress, Lifetimes, Registered,
               OnlyHandleOpen, OwnCallbacks
<1>14. CASE CloseCore
  <2>1. table \in Cores /\ call' = In("deinit", table) /\ UNCHANGED fault
    BY <1>14, <1>t, EntryPresent DEF CloseCore, CallThrough, Pointers, Progress
  <2> QED BY <1>14, <2>1 DEF CloseCore, Pointers, Progress, Lifetimes,
                             Registered, OnlyHandleOpen, OwnCallbacks
<1>15. CASE CoreDeinitialized
  <2>1. table \in Cores /\ call.core = table /\ handle = table
    BY <1>15, <1>t DEF CoreDeinitialized, Pointers
  <2>2. Unmapped = {table}
    BY <2>1 DEF Unmapped, Pointers, OnlyHandleOpen
  <2>3. Pointers'
    BY <1>15, <2>1 DEF CoreDeinitialized, ClearCore, Released, Pointers,
                       OnlyHandleOpen
  <2>4. Progress'
    BY <1>15 DEF CoreDeinitialized, ClearCore, Progress
  <2>5. Lifetimes'
    BY <1>15, <2>1, <2>2 DEF CoreDeinitialized, ClearCore, Lifetimes
  <2>6. \A k \in Kinds : callbacks'[k] \in {None, Dangling}
    BY <1>15, <2>1, <2>2 DEF CoreDeinitialized, Stale, Registered
  <2>7. \A c \in Cores : \A k \in Kinds \ Uses[c] : callbacks'[k] = None
    BY <1>15, <2>1, <2>2 DEF CoreDeinitialized, Stale, Registered
  <2> QED BY <1>15, <2>3, <2>4, <2>5, <2>6, <2>7
          DEF CoreDeinitialized, ClearCore, Registered
<1>16. ASSUME NEW k \in Kinds, SetCallback(k) PROVE SessionInv'
  <2>1. table \in Cores /\ call.core = table /\ k \in Uses[table]
    BY <1>16, <1>t DEF SetCallback, Pointers
  <2>2. callbacks' = [callbacks EXCEPT ![k] = table]
    BY <1>16, <2>1 DEF SetCallback
  <2>3. \A c \in Cores : k \in Uses[c]
    BY <2>1 DEF Uniform
  <2>4. Registered'
    BY <1>16, <1>t, <2>1, <2>2, <2>3 DEF SetCallback, Registered, OwnCallbacks
  <2> QED BY <1>16, <2>4 DEF SetCallback, Pointers, Progress, Lifetimes,
                             OnlyHandleOpen
<1>21. CASE SetVariables
  <2>1. table \in Cores /\ call.core = table /\ table \in Announces
    BY <1>21, <1>t DEF SetVariables, Pointers
  <2>2. Cores \subseteq Announces /\ options' = table
    BY <1>21, <2>1 DEF Uniform, SetVariables
  <2>3. Registered'
    BY <1>21, <2>1, <2>2 DEF SetVariables, Registered, OwnCallbacks
  <2> QED BY <1>21, <2>3 DEF SetVariables, Pointers, Progress, Lifetimes,
                             OnlyHandleOpen
<1>17. CASE UNCHANGED <<frontend, callbacks, options, opens, life, call>>
            /\ fault' \notin {"null_call", "dangling_call"}
  BY <1>17 DEF Pointers, Progress, Lifetimes, Registered, OnlyHandleOpen,
               OwnCallbacks
<1>18. ASSUME NEW k \in Counters, RegisterCounter(k) PROVE SessionInv'
  BY <1>17, <1>18 DEF RegisterCounter
<1>19. CASE LogCounters
  BY <1>17, <1>19 DEF LogCounters
<1>20. CASE UNCHANGED vars
  BY <1>17, <1>20 DEF vars, Pointers
<1> QED BY <1>1, <1>2, <1>3, <1>4, <1>5, <1>6, <1>7, <1>8, <1>10, <1>11, <1>12,
           <1>13, <1>14, <1>15, <1>16, <1>18, <1>19, <1>20, <1>21 DEF Next

LEMMA SessionInvariant ==
  ASSUME ClosesFirst, Complete, Uniform
  PROVE  Spec => []SessionInv
BY InitSession, SessionStep, TypeCorrect, PTL DEF Spec

\* Under these conditions: while a core runs, handle, table, life and callbacks
\* are all of one library, whatever sessions came before: LMC_LoadContent starts the core only once its
\* callbacks have replaced those an earlier core left in the SystemManager.
THEOREM RunsOneCore ==
  ASSUME ClosesFirst, Complete, Uniform
  PROVE  Spec => []RunningIsOneCore
<1>1. TypeOK /\ SessionInv => RunningIsOneCore
  <2> SUFFICES ASSUME TypeOK, SessionInv, running PROVE RunningIsOneCore
    BY DEF RunningIsOneCore
  <2>1. table \in Cores
    BY PointerAssumption DEF TypeOK, SessionInv, Pointers, Progress
  <2>2. call.fn \notin {"set_environment", "init"}
    BY DEF SessionInv, Progress
  <2> QED BY <2>1, <2>2
          DEF SessionInv, Pointers, Lifetimes, Registered, OwnCallbacks,
              RunningIsOneCore
<1> QED BY <1>1, TypeCorrect, SessionInvariant, PTL

\* Under these conditions: no call of the library, through the table or a
\* registered callback, goes through a null pointer or into a library that LMC_CloseCore has unmapped.
THEOREM CallsLandInACore ==
  ASSUME ClosesFirst, Complete, Uniform
  PROVE  Spec => []CallsLand
<1>1. SessionInv => CallsLand
  BY DEF SessionInv, Pointers, CallsLand
<1> QED BY <1>1, SessionInvariant, PTL

\* Under these conditions: LMC_CloseCore leaves no library mapped: the handle's is the only reference.
THEOREM NothingLeftOpen ==
  ASSUME ClosesFirst, Complete, Uniform
  PROVE  Spec => []OnlyHandleOpen
<1>1. SessionInv => OnlyHandleOpen
  BY DEF SessionInv, Pointers
<1> QED BY <1>1, SessionInvariant, PTL

-----------------------------------------------------------------------------
(* CoreSession implements CoreProtocol *)

\* An action that touches neither life nor call is a stutter of the protocol;
\* each of the others is one step of it, taken by the core in the table.
LEMMA ProtocolStep ==
  ASSUME ClosesFirst, Complete, Uniform
  PROVE  TypeOK /\ SessionInv /\ SessionInv' /\ [Next]_vars => [P!Next]_(P!vars)
<1> SUFFICES ASSUME TypeOK, SessionInv, SessionInv', [Next]_vars
             PROVE  [P!Next]_(P!vars)
  OBVIOUS
<1> USE PointerAssumption, KindsAssumption
    DEF AtApplication, Inside, In, Idle, P!In, P!Idle
<1>t. /\ table \in Cores \cup {None} /\ handle \in Cores \cup {None}
      /\ life \in [Cores -> Lives] /\ call \in Calls
      /\ initialized \in BOOLEAN /\ running \in BOOLEAN
  BY DEF TypeOK
<1>u. CASE UNCHANGED <<life, call>>
  BY <1>u DEF P!vars
<1>c. call # Idle => table \in Cores /\ call = In(call.fn, table)
  BY <1>t DEF SessionInv, Pointers, Calls
<1>i. call = Idle /\ initialized =>
        table \in Cores /\ life[table] = IF running THEN "playing" ELSE "inited"
  BY <1>t DEF SessionInv, Pointers, Progress, Lifetimes
<1>o. running => OwnCallbacks
  BY DEF SessionInv, Registered
<1>1. ASSUME NEW c \in Cores, LoadCore(c) PROVE P!Next
  <2>1. table = None
    BY <1>1 DEF LoadCore, MayLoad
  <2>2. \A d \in Cores : life[d] = "closed"
    BY <2>1 DEF SessionInv, Lifetimes
  <2>3. P!Open(c)
    BY <1>1, <1>t, <2>2, EntryPresent DEF LoadCore, CallThrough, P!Open
  <2> QED BY <2>3 DEF P!Next
<1>2. CASE EnvironmentSet
  <2>1. P!InitCore(table)
    BY <1>2, <1>c, EntryPresent DEF EnvironmentSet, CallThrough, P!InitCore
  <2> QED BY <1>2, <1>c, <2>1 DEF EnvironmentSet, P!Next
<1>3. CASE LoadCoreReturns
  <2>1. P!Ready(table)
    BY <1>3, <1>c DEF LoadCoreReturns, P!Ready
  <2> QED BY <1>3, <1>c, <2>1 DEF LoadCoreReturns, P!Next
<1>4. ASSUME NEW named \in BOOLEAN, LoadContent(named) PROVE P!Next
  <2>1. table \in Cores /\ life[table] = "inited"
    BY <1>4, <1>i DEF LoadContent, MayLoadContent
  <2>2. P!LoadGame(table)
    BY <1>4, <2>1, EntryPresent DEF LoadContent, CallThrough, P!LoadGame
  <2> QED BY <2>1, <2>2 DEF P!Next
<1>5. CASE ContentRefused
  <2>1. P!GameRefused(table)
    BY <1>5, <1>c DEF ContentRefused, P!GameRefused
  <2> QED BY <1>5, <1>c, <2>1 DEF ContentRefused, P!Next
<1>6. CASE ContentAccepted
  <2>1. table \in Cores /\ call = In("load_game", table)
    BY <1>6, <1>c DEF ContentAccepted
  <2>2. callbacks["audio"] \in {None, table}
    BY <1>6, <2>1 DEF ContentAccepted, SessionInv, Registered
  <2>3. P!GameLoaded(table)
    BY <1>6, <2>1, <2>2, EntryPresent DEF ContentAccepted, CallThrough, P!GameLoaded
  <2> QED BY <2>1, <2>3 DEF P!Next
<1>7. CASE AudioStateSet
  <2>1. P!AudioStarted(table)
    BY <1>7, <1>c DEF AudioStateSet, P!AudioStarted
  <2> QED BY <1>7, <1>c, <2>1 DEF AudioStateSet, P!Next
<1>8. CASE UpdateFrame
  <2>1. running /\ call = Idle
    BY <1>8 DEF UpdateFrame, CoreBranch
  <2>2. table \in Cores /\ life[table] = "playing" /\ OwnCallbacks
    BY <2>1, <1>i, <1>o DEF SessionInv, Progress
  <2>3. callbacks["frame_time"] \in {None, table} /\ callbacks["audio"] \in {None, table}
    BY <2>2 DEF OwnCallbacks
  <2>4. P!Frame(table)
    BY <1>8, <2>1, <2>2, <2>3, EntryPresent
       DEF UpdateFrame, CallAudioOrRun, CallThrough, P!Frame
  <2> QED BY <2>2, <2>4 DEF P!Next
<1>9. CASE FrameTimeTold \/ AudioEmitted \/ FrameRun
  <2>1. table \in Cores /\ call = In(call.fn, table)
    BY <1>9, <1>c DEF FrameTimeTold, AudioEmitted, FrameRun
  <2>2. running /\ OwnCallbacks
    BY <1>9, <1>o DEF FrameTimeTold, AudioEmitted, FrameRun, SessionInv, Progress
  <2>3. life[table] = "playing" /\ callbacks["audio"] \in {None, table}
    BY <1>9, <2>1, <2>2 DEF FrameTimeTold, AudioEmitted, FrameRun, OwnCallbacks,
                           SessionInv, Lifetimes
  <2>4. P!Frame(table)
    BY <1>9, <2>1, <2>3, EntryPresent
       DEF FrameTimeTold, AudioEmitted, FrameRun, CallAudioOrRun, CallThrough,
           P!Frame
  <2> QED BY <2>1, <2>4 DEF P!Next
<1>10. CASE CloseCore
  <2>1. table \in Cores /\ life[table] \in {"inited", "playing"}
    BY <1>10, <1>i DEF CloseCore
  <2>2. P!Deinit(table)
    BY <1>10, <2>1, EntryPresent DEF CloseCore, CallThrough, P!Deinit
  <2> QED BY <2>1, <2>2 DEF P!Next
<1>11. CASE CoreDeinitialized
  <2>1. table \in Cores /\ handle = table /\ call = In("deinit", table)
    BY <1>11, <1>c DEF CoreDeinitialized, SessionInv, Pointers
  <2>2. Unmapped = {table}
    BY <2>1 DEF Unmapped, SessionInv, Pointers, OnlyHandleOpen
  <2>3. \A c \in Cores \ {table} : life[c] = "closed"
    BY DEF SessionInv, Lifetimes
  <2>4. life' = [life EXCEPT ![table] = "closed"]
    BY <1>11, <1>t, <2>1, <2>2, <2>3 DEF CoreDeinitialized
  <2>5. P!Close(table)
    BY <1>11, <2>1, <2>4 DEF CoreDeinitialized, P!Close
  <2> QED BY <2>1, <2>5 DEF P!Next
<1> QED BY <1>u, <1>1, <1>2, <1>3, <1>4, <1>5, <1>6, <1>7, <1>8, <1>9, <1>10,
           <1>11 DEF Next, vars, LoadCoreFails, SetCallback, SetVariables, RegisterCounter,
                     LogCounters

\* For any number of cores that export every entry point called and register
\* the same callbacks and options, hosted by an application that closes one core
\* before the next: each sees its entry points called in the order of
\* libretro.h, but for the rule that a game is unloaded before retro_deinit,
\* which LMC_CloseCore does not keep.
THEOREM ProtocolFollowed ==
  ASSUME ClosesFirst, Complete, Uniform
  PROVE  Spec => FollowsProtocol
<1>1. Init => P!Init
  BY DEF Init, P!Init, Idle, P!Idle
<1> QED BY <1>1, ProtocolStep, SessionInvariant, TypeCorrect, PTL
        DEF Spec, FollowsProtocol, P!Spec

-----------------------------------------------------------------------------
(* Flags and counters, for every application *)

\* FlagsAgree made inductive: control is in a core only through a table, and in
\* content only once the core is initialized.
FlagsInv ==
  /\ FlagsAgree
  /\ call # Idle => table # None
  /\ call.fn \notin {"none", "set_environment", "init"} => initialized

\* Between two calls the flags and the table of LMC_LoadCore agree, also if a
\* core is loaded over another or fails to load.
THEOREM FlagsAlwaysAgree == Spec => []FlagsAgree
<1>1. Init => FlagsInv
  BY DEF Init, FlagsInv, FlagsAgree, AtApplication, Idle
<1>2. TypeOK /\ FlagsInv /\ [Next]_vars => FlagsInv'
  <2> SUFFICES ASSUME TypeOK, FlagsInv, [Next]_vars PROVE FlagsInv'
    OBVIOUS
  <2> USE PointerAssumption
      DEF FlagsInv, FlagsAgree, AtApplication, Inside, frontend, CallThrough, In, Idle
  <2>0. table \in Cores \cup {None} /\ call \in Calls
    BY DEF TypeOK
  <2>1. ASSUME NEW c \in Cores, LoadCore(c) PROVE FlagsInv'
    BY <2>1, <2>0 DEF LoadCore, Calls, Functions
  <2>2. CASE LoadCoreFails
    BY <2>2 DEF LoadCoreFails
  <2>3. CASE EnvironmentSet \/ LoadCoreReturns
    BY <2>3, <2>0 DEF EnvironmentSet, LoadCoreReturns
  <2>4. ASSUME NEW named \in BOOLEAN, LoadContent(named) PROVE FlagsInv'
    <3>1. PICK e \in Cores \cup {None} : CallThrough("load_game", e) /\ e \in {table, None}
      BY <2>4, EntryType DEF LoadContent
    <3>2. UNCHANGED frontend /\ call = Idle /\ fault = "none"
      BY <2>4 DEF LoadContent
    <3> QED BY <2>0, <3>1, <3>2
  <2>5. CASE ContentRefused \/ ContentAccepted \/ AudioStateSet
    BY <2>5, <2>0 DEF ContentRefused, ContentAccepted, AudioStateSet
  <2>6. CASE UpdateFrame \/ FrameTimeTold \/ AudioEmitted \/ FrameRun
    BY <2>6, <2>0 DEF UpdateFrame, FrameTimeTold, AudioEmitted, FrameRun,
                      CallAudioOrRun, CoreBranch
  <2>7. CASE CloseCore \/ CoreDeinitialized
    BY <2>7, <2>0 DEF CloseCore, CoreDeinitialized, ClearCore
  <2>8. CASE UNCHANGED <<frontend, call>> /\ (fault = fault' \/ call # Idle)
    BY <2>8
  <2>9. CASE UNCHANGED vars
    BY <2>9, <2>8 DEF vars
  <2>10. CASE \/ \E k \in Kinds : SetCallback(k)
              \/ \E k \in Counters : RegisterCounter(k)
              \/ SetVariables \/ LogCounters
    BY <2>10, <2>8 DEF SetCallback, RegisterCounter, SetVariables, LogCounters
  <2> QED BY <2>1, <2>2, <2>3, <2>4, <2>5, <2>6, <2>7, <2>9, <2>10 DEF Next
<1>3. FlagsInv => FlagsAgree
  BY DEF FlagsInv
<1> QED BY <1>1, <1>2, <1>3, TypeCorrect, PTL DEF Spec

\* The flag of a counter and its entry in the table of the SystemManager agree,
\* however libraries come and go under them.
THEOREM CountersAgree == Spec => []CountersListedOnce
<1>1. Init => CountersListedOnce
  BY InitTyped DEF TypeOK, Init, CountersListedOnce
<1>2. TypeOK /\ TypeOK' /\ CountersListedOnce /\ [Next]_vars => CountersListedOnce'
  <2> SUFFICES ASSUME TypeOK, TypeOK', CountersListedOnce, [Next]_vars
               PROVE  CountersListedOnce'
    OBVIOUS
  <2>0. /\ counters \in Seq(Counters \cup {Dangling}) /\ registered \subseteq Counters
        /\ Dangling \notin Counters /\ Len(counters') <= MAX_COUNTERS
    BY PointerAssumption DEF TypeOK
  <2>1. CASE UNCHANGED <<counters, registered>>
    BY <2>1 DEF CountersListedOnce
  <2>2. ASSUME NEW k \in Counters, RegisterCounter(k) PROVE CountersListedOnce'
    <3>1. /\ counters' = Append(counters, k) /\ registered' = registered \cup {k}
          /\ k \notin registered /\ k # Dangling
      BY <2>2, <2>0 DEF RegisterCounter, NotRegistered
    <3>2. /\ Len(counters) \in Nat /\ Len(counters') = Len(counters) + 1
          /\ \A i \in 1 .. Len(counters) : counters'[i] = counters[i]
          /\ counters'[Len(counters) + 1] = k
      BY <3>1, <2>0
    <3>3. \A i \in 1 .. Len(counters) : counters[i] # k
      BY <3>1 DEF CountersListedOnce
    <3>4. 1 .. Len(counters') = (1 .. Len(counters)) \cup {Len(counters) + 1}
      BY <3>2
    <3>5. registered' = {counters'[i] : i \in 1 .. Len(counters')} \ {Dangling}
      BY <3>1, <3>2, <3>4 DEF CountersListedOnce
    <3>6. \A i, j \in 1 .. Len(counters') :
            counters'[i] = counters'[j] => i = j \/ counters'[i] = Dangling
      BY <3>2, <3>3, <3>4 DEF CountersListedOnce
    <3> QED BY <2>0, <3>5, <3>6 DEF CountersListedOnce
  <2>3. CASE CoreDeinitialized
    <3>1. /\ Len(counters) \in Nat /\ Len(counters') = Len(counters)
          /\ \A i \in 1 .. Len(counters) :
               counters'[i] = IF counters[i] = Dangling THEN Dangling
                              ELSE IF CounterOf[counters[i]] \in Unmapped THEN Dangling
                              ELSE counters[i]
          /\ registered' = {k \in registered : CounterOf[k] \notin Unmapped}
      BY <2>3, <2>0 DEF CoreDeinitialized
    <3>2. registered' = {counters'[i] : i \in 1 .. Len(counters')} \ {Dangling}
      BY <3>1, <2>0 DEF CountersListedOnce
    <3>3. \A i, j \in 1 .. Len(counters') :
            counters'[i] = counters'[j] => i = j \/ counters'[i] = Dangling
      BY <3>1 DEF CountersListedOnce
    <3> QED BY <2>0, <3>2, <3>3 DEF CountersListedOnce
  <2> QED BY <2>1, <2>2, <2>3
          DEF Next, vars, system, LoadCore, LoadCoreFails, EnvironmentSet,
              LoadCoreReturns, LoadContent, ContentRefused, ContentAccepted,
              AudioStateSet, UpdateFrame, FrameTimeTold, AudioEmitted, FrameRun,
              CloseCore, SetCallback, SetVariables, LogCounters
<1> QED BY <1>1, <1>2, TypeCorrect, PTL DEF Spec

=============================================================================
