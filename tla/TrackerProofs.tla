--------------------------- MODULE TrackerProofs ---------------------------
(***************************************************************************)
(* Proofs about Tracker for every set of cores and games, every name map,  *)
(* save interval and bound.                                                *)
(***************************************************************************)
EXTENDS Tracker, TLAPS

\* Which fields are set at which program point of the mutex holder, and that
\* nothing is in memory before the repair is done.
PointInv ==
  /\ pc \in {"saveCore", "stopCore", "startCore"} => activeCore \in Cores
  /\ pc = "enterCore" => activeCore = None
  /\ pc \in {"saveGame", "stopGame"} => activeGame \in Ids \cup Cores
  /\ pc = "enterGame" => nextGame \in Contents
  /\ svc \in {"down", "fixCores", "fixGames"} =>
       pc = "free" /\ got = None /\ activeCore = None /\ activeGame = None

TypeInv == TypeOK /\ PointInv

-----------------------------------------------------------------------------
(* Type correctness.                                                       *)

LEMMA NotifiedType ==
  ASSUME TypeOK, NEW kind \in Kinds
  PROVE  Notified(kind) \in Seq(Kinds)
BY DEF Notified, TypeOK, ServiceOK

LEMMA LookupType ==
  ASSUME NEW c, NEW p \in Paths \cup {None}
  PROVE  LookupName(c, p) \in Systems \cup {None}
BY ConstantsTyped, NamesDistinct DEF LookupName

LEMMA SecondsType ==
  ASSUME NEW t \in Nat \cup {Absent}
  PROVE  Seconds(t) \in Nat
BY DEF Seconds, Absent

LEMMA SeqKept ==
  ASSUME NEW S, NEW s \in Seq(S), NEW e \in S, NEW r,
         r = s \/ r = Append(s, e)
  PROVE  r \in Seq(S)
OBVIOUS

LEMMA LastEvent ==
  ASSUME NEW T, NEW events \in Seq(Event(T)), IsOpen(events)
  PROVE  /\ LastOf(events) \in Event(T)
         /\ LastOf(events).target \in T
         /\ LastOf(events).total \in Nat
<1>1. Len(events) \in 1 .. Len(events)
  BY DEF IsOpen
<1>2. LastOf(events) \in Event(T)
  BY <1>1 DEF LastOf
<1> QED
  BY <1>2 DEF Event

LEMMA RepairType ==
  ASSUME NEW T, NEW start \in Event(T), NEW row \in Nat \cup {Absent}
  PROVE  RepairTotal(start, row) \in Nat
BY DEF RepairTotal, Event, Absent

LEMMA FilesOKKept == TypeInv /\ [Next]_vars => FilesOK'
<1> SUFFICES ASSUME TypeInv, [Next]_vars
             PROVE  FilesOK'
  OBVIOUS
<1> USE ConstantsTyped, NamesDistinct DEF TypeInv, TypeOK, files, ctl, lock,
  core, game, coreDb, gameDb, FilesOK
<1>1. CASE EnsureActiveGame
  BY <1>1 DEF EnsureActiveGame
<1>2. CASE LoadCore
  BY <1>2, NotifiedType DEF LoadCore, Handle
<1>3. CASE LoadRecent
  BY <1>3, NotifiedType DEF LoadRecent
<1>4. CASE PowerLoss
  BY <1>4 DEF PowerLoss, Die
<1>5. CASE Environment
  BY <1>5, NotifiedType DEF Environment, WriteCore, WriteGame, WriteOther,
    Kinds
<1>6. CASE Boot \/ FixCores \/ FixGames \/ StartFileWatch \/ Receive \/
  SaveCore \/ StopCore \/ EnterCore \/ StartCore \/ LoadGame \/ SaveGame \/
  StopGame \/ EnterGame \/ TrackMenu \/ TickCore \/ TickGame \/ CloseWatcher
  \/ StopAll \/ Exit \/ Kill
  BY <1>6 DEF SetSystem, Boot, FixCores, FixGames, StartFileWatch, Die,
      Receive,
    SaveCore, UpdateCore, StopCore, AddCoreEvent, EnterCore, AddGameEvent,
    StartCore, LoadCoreTime, LoadGame, Handle, SaveGame, UpdateGame, StopGame,
    GameSeconds, EnterGame, LoadGameTime, TrackMenu, TickCore, CountsCore,
    CountsGame, TickGame, CloseWatcher, StopAll, Exit, Kill
<1>7. CASE UNCHANGED vars
  BY <1>7 DEF vars
<1> QED
  BY <1>1, <1>2, <1>3, <1>4, <1>5, <1>6, <1>7 DEF Next, Starting, Handling

LEMMA ServiceOKKept == TypeInv /\ [Next]_vars => ServiceOK'
<1> SUFFICES ASSUME TypeInv, [Next]_vars
             PROVE  ServiceOK'
  OBVIOUS
<1> USE ConstantsTyped, NamesDistinct DEF TypeInv, TypeOK, files, ctl, lock,
  core, game, coreDb, gameDb, ServiceOK, Kinds
<1>1. CASE Boot
  BY <1>1 DEF Boot
<1>2. CASE FixCores
  BY <1>2 DEF FixCores
<1>3. CASE FixGames
  BY <1>3 DEF FixGames
<1>4. CASE EnsureActiveGame
  BY <1>4 DEF EnsureActiveGame
<1>5. CASE StartFileWatch
  <2>1. /\ svc' \in {"down", "up"}
        /\ UNCHANGED boots
        /\ \/ UNCHANGED <<notes, got>>
           \/ notes' = <<>> /\ got' = None
    BY <1>5 DEF StartFileWatch, Die
  <2>2. <<>> \in Seq(Kinds)
    OBVIOUS
  <2> QED
    BY <2>1, <2>2
<1>6. CASE Receive
  BY <1>6 DEF Receive
<1>7. CASE LoadCore
  BY <1>7, NotifiedType DEF LoadCore, Handle
<1>8. CASE StopCore
  BY <1>8 DEF StopCore, AddCoreEvent
<1>9. CASE LoadGame
  BY <1>9 DEF LoadGame, Handle
<1>10. CASE StopGame
  BY <1>10 DEF StopGame, AddGameEvent, GameSeconds
<1>11. CASE LoadRecent
  BY <1>11, NotifiedType DEF LoadRecent
<1>12. CASE TrackMenu
  BY <1>12 DEF TrackMenu
<1>13. CASE CloseWatcher
  BY <1>13 DEF CloseWatcher
<1>14. CASE StopAll
  BY <1>14 DEF StopAll
<1>15. CASE Exit
  BY <1>15 DEF Exit, Die
<1>16. CASE Kill
  BY <1>16 DEF Kill, Die
<1>17. CASE PowerLoss
  BY <1>17 DEF PowerLoss, Die
<1>18. CASE Environment
  BY <1>18, NotifiedType DEF Environment, WriteCore, WriteGame, WriteOther,
    Kinds
<1>19. CASE SaveCore \/ EnterCore \/ StartCore \/ SaveGame \/ EnterGame \/
  TickCore \/ TickGame
  BY <1>19 DEF SetSystem, SaveCore, UpdateCore, EnterCore, AddGameEvent,
      StartCore,
    AddCoreEvent, LoadCoreTime, SaveGame, UpdateGame, EnterGame, LoadGameTime,
    TickCore, CountsCore, CountsGame, TickGame
<1>20. CASE UNCHANGED vars
  BY <1>20 DEF vars
<1> QED
  BY <1>1, <1>2, <1>3, <1>4, <1>5, <1>6, <1>7, <1>8, <1>9, <1>10, <1>11,
    <1>12, <1>13, <1>14, <1>15, <1>16, <1>17, <1>18, <1>19, <1>20 DEF Next,
    Starting, Handling

LEMMA LockOKKept == TypeInv /\ [Next]_vars => LockOK'
<1> SUFFICES ASSUME TypeInv, [Next]_vars
             PROVE  LockOK'
  OBVIOUS
<1> USE ConstantsTyped, NamesDistinct DEF TypeInv, TypeOK, files, ctl, lock,
  core, game, coreDb, gameDb, FilesOK, LockOK
<1>1. CASE StartFileWatch
  BY <1>1 DEF StartFileWatch, Die
<1>2. CASE LoadCore
  BY <1>2, NotifiedType DEF LoadCore, Handle
<1>3. CASE SaveCore
  BY <1>3 DEF SaveCore, UpdateCore
<1>4. CASE StopCore
  BY <1>4 DEF StopCore, AddCoreEvent
<1>5. CASE EnterCore
  BY <1>5, LookupType DEF SetSystem, EnterCore, AddGameEvent
<1>6. CASE StartCore
  BY <1>6 DEF StartCore, AddCoreEvent, LoadCoreTime
<1>7. CASE LoadGame
  BY <1>7 DEF LoadGame, Handle
<1>8. CASE SaveGame
  BY <1>8 DEF SaveGame, UpdateGame
<1>9. CASE StopGame
  BY <1>9 DEF StopGame, AddGameEvent, GameSeconds
<1>10. CASE EnterGame
  BY <1>10, LookupType DEF SetSystem, EnterGame, AddGameEvent, LoadGameTime
<1>11. CASE TickCore
  BY <1>11 DEF TickCore, UpdateCore, CountsCore, CountsGame
<1>12. CASE TickGame
  BY <1>12 DEF TickGame, UpdateGame, CountsGame
<1>13. CASE StopAll
  BY <1>13 DEF StopAll
<1>14. CASE Exit
  BY <1>14 DEF Exit, Die
<1>15. CASE Kill
  BY <1>15 DEF Kill, Die
<1>16. CASE PowerLoss
  BY <1>16 DEF PowerLoss, Die
<1>17. CASE Boot \/ FixCores \/ FixGames \/ EnsureActiveGame \/ Receive \/
  LoadRecent \/ TrackMenu \/ CloseWatcher \/ Environment
  BY <1>17 DEF Boot, FixCores, FixGames, EnsureActiveGame, Receive,
    LoadRecent, TrackMenu, CloseWatcher, Environment, WriteCore, WriteGame,
    WriteOther, Kinds
<1>18. CASE UNCHANGED vars
  BY <1>18 DEF vars
<1> QED
  BY <1>1, <1>2, <1>3, <1>4, <1>5, <1>6, <1>7, <1>8, <1>9, <1>10, <1>11,
    <1>12, <1>13, <1>14, <1>15, <1>16, <1>17, <1>18 DEF Next, Starting,
    Handling

LEMMA CoreOKKept == TypeInv /\ [Next]_vars => CoreOK'
<1> SUFFICES ASSUME TypeInv, [Next]_vars
             PROVE  CoreOK'
  OBVIOUS
<1> USE ConstantsTyped, NamesDistinct DEF TypeInv, TypeOK, files, ctl, lock,
  core, game, coreDb, gameDb, CoreOK, GameOK, LockOK, DbOK, PointInv, Seconds,
  Absent
<1>1. CASE StartFileWatch
  BY <1>1 DEF StartFileWatch, Die
<1>2. CASE StopCore
  BY <1>2 DEF StopCore, AddCoreEvent
<1>3. CASE EnterCore
  BY <1>3, LookupType DEF SetSystem, EnterCore, AddGameEvent
<1>4. CASE StartCore
  BY <1>4 DEF StartCore, AddCoreEvent, LoadCoreTime
<1>5. CASE EnterGame
  BY <1>5, LookupType DEF SetSystem, EnterGame, AddGameEvent, LoadGameTime
<1>6. CASE TickCore
  BY <1>6 DEF TickCore, UpdateCore, CountsCore, CountsGame
<1>7. CASE Exit
  BY <1>7 DEF Exit, Die
<1>8. CASE Kill
  BY <1>8 DEF Kill, Die
<1>9. CASE PowerLoss
  BY <1>9 DEF PowerLoss, Die
<1>10. CASE Boot \/ FixCores \/ FixGames \/ EnsureActiveGame \/ Receive \/
  LoadCore \/ SaveCore \/ LoadGame \/ SaveGame \/ StopGame \/ LoadRecent \/
  TrackMenu \/ TickGame \/ CloseWatcher \/ StopAll \/ Environment
  BY <1>10 DEF Boot, FixCores, FixGames, EnsureActiveGame, Receive, LoadCore,
    Handle, SaveCore, UpdateCore, LoadGame, SaveGame, UpdateGame, StopGame,
    AddGameEvent, GameSeconds, LoadRecent, TrackMenu, TickGame, CountsGame,
    CloseWatcher, StopAll, Environment, WriteCore, WriteGame, WriteOther,
    Kinds
<1>11. CASE UNCHANGED vars
  BY <1>11 DEF vars
<1> QED
  BY <1>1, <1>2, <1>3, <1>4, <1>5, <1>6, <1>7, <1>8, <1>9, <1>10, <1>11 DEF
    Next, Starting, Handling

LEMMA GameOKKept == TypeInv /\ [Next]_vars => GameOK'
<1> SUFFICES ASSUME TypeInv, [Next]_vars
             PROVE  GameOK'
  OBVIOUS
<1> USE ConstantsTyped, NamesDistinct DEF TypeInv, TypeOK, files, ctl, lock,
  core, game, coreDb, gameDb, CoreOK, GameOK, LockOK, DbOK, PointInv, Seconds,
  Absent
<1>1. CASE StartFileWatch
  BY <1>1 DEF StartFileWatch, Die
<1>2. CASE EnterCore
  BY <1>2, LookupType DEF SetSystem, EnterCore, AddGameEvent
<1>3. CASE StopGame
  BY <1>3 DEF StopGame, AddGameEvent, GameSeconds
<1>4. CASE EnterGame
  BY <1>4, LookupType DEF SetSystem, EnterGame, AddGameEvent, LoadGameTime
<1>5. CASE TickGame
  BY <1>5 DEF TickGame, UpdateGame, CountsGame
<1>6. CASE Exit
  BY <1>6 DEF Exit, Die
<1>7. CASE Kill
  BY <1>7 DEF Kill, Die
<1>8. CASE PowerLoss
  BY <1>8 DEF PowerLoss, Die
<1>9. CASE Boot \/ FixCores \/ FixGames \/ EnsureActiveGame \/ Receive \/
  LoadCore \/ SaveCore \/ StopCore \/ StartCore \/ LoadGame \/ SaveGame \/
  LoadRecent \/ TrackMenu \/ TickCore \/ CloseWatcher \/ StopAll \/
  Environment
  BY <1>9 DEF Boot, FixCores, FixGames, EnsureActiveGame, Receive, LoadCore,
    Handle, SaveCore, UpdateCore, StopCore, AddCoreEvent, StartCore,
    LoadCoreTime, LoadGame, SaveGame, UpdateGame, LoadRecent, TrackMenu,
    TickCore, CountsCore, CountsGame, CloseWatcher, StopAll, Environment,
    WriteCore, WriteGame, WriteOther, Kinds
<1>10. CASE UNCHANGED vars
  BY <1>10 DEF vars
<1> QED
  BY <1>1, <1>2, <1>3, <1>4, <1>5, <1>6, <1>7, <1>8, <1>9, <1>10 DEF Next,
    Starting, Handling

LEMMA HookOKKept == TypeInv /\ [Next]_vars => HookOK'
<1> SUFFICES ASSUME TypeInv, [Next]_vars
             PROVE  HookOK'
  OBVIOUS
<1> USE ConstantsTyped, NamesDistinct DEF TypeInv, TypeOK, files, ctl, lock,
  core, game, coreDb, gameDb, CoreOK, GameOK, LockOK, HookOK, PointInv, Hook,
  TargetPath
<1>1. CASE StopCore
  BY <1>1 DEF StopCore, AddCoreEvent
<1>2. CASE EnterCore
  BY <1>2 DEF SetSystem, EnterCore, AddGameEvent
<1>3. CASE StartCore
  BY <1>3 DEF StartCore, AddCoreEvent, LoadCoreTime
<1>4. CASE StopGame
  BY <1>4 DEF StopGame, AddGameEvent, GameSeconds
<1>5. CASE EnterGame
  BY <1>5 DEF SetSystem, EnterGame, AddGameEvent, LoadGameTime
<1>6. CASE Boot \/ FixCores \/ FixGames \/ EnsureActiveGame \/ StartFileWatch
  \/ Receive \/ LoadCore \/ SaveCore \/ LoadGame \/ SaveGame \/ LoadRecent \/
  TrackMenu \/ TickCore \/ TickGame \/ CloseWatcher \/ StopAll \/ Exit \/ Kill
  \/ PowerLoss \/ Environment
  BY <1>6 DEF Boot, FixCores, FixGames, EnsureActiveGame, StartFileWatch, Die,
    Receive, LoadCore, Handle, SaveCore, UpdateCore, LoadGame, SaveGame,
    UpdateGame, LoadRecent, TrackMenu, TickCore, CountsCore, CountsGame,
    TickGame, CloseWatcher, StopAll, Exit, Kill, PowerLoss, Environment,
    WriteCore, WriteGame, WriteOther, Kinds
<1>7. CASE UNCHANGED vars
  BY <1>7 DEF vars
<1> QED
  BY <1>1, <1>2, <1>3, <1>4, <1>5, <1>6, <1>7 DEF Next, Starting, Handling

LEMMA FixCoresKeepsDb == TypeInv /\ FixCores => DbOK'
<1> SUFFICES ASSUME TypeInv, FixCores
             PROVE  DbOK'
  OBVIOUS
<1>0. /\ coreRows \in [Cores -> Nat \cup {Absent}]
      /\ coreEvents \in Seq(Event(Cores))
      /\ gameRows \in [Ids -> Nat \cup {Absent}]
      /\ gameEvents \in Seq(Event(Ids \cup Cores))
  BY DEF TypeInv, TypeOK, DbOK

<1>1. UNCHANGED <<coreRows, gameRows, gameEvents>>
  BY DEF FixCores, gameDb
<1>2. CASE IsOpen(coreEvents)
  <2> DEFINE start == LastOf(coreEvents)
             total == RepairTotal(start, coreRows[start.target])
  <2>1. start \in Event(Cores) /\ start.target \in Cores
    BY <1>0, <1>2, LastEvent
  <2>2. total \in Nat
    BY <1>0, <2>1, RepairType
  <2>3. \/ UNCHANGED coreEvents
        \/ coreEvents' = Append(coreEvents,
             [action |-> "stop", target |-> start.target, total |-> total])
    BY <1>2 DEF FixCores
  <2> HIDE DEF start, total
  <2>4. [action |-> "stop", target |-> start.target, total |-> total]
          \in Event(Cores)
    BY <2>1, <2>2 DEF Event
  <2>5. coreEvents' \in Seq(Event(Cores))
    BY <1>0, <2>3, <2>4, SeqKept
  <2> QED
    BY <1>0, <1>1, <2>5 DEF DbOK
<1>3. CASE ~IsOpen(coreEvents)
  BY <1>0, <1>1, <1>3 DEF FixCores, DbOK
<1> QED
  BY <1>2, <1>3

LEMMA FixGamesKeepsDb == TypeInv /\ FixGames => DbOK'
<1> SUFFICES ASSUME TypeInv, FixGames
             PROVE  DbOK'
  OBVIOUS
<1>0. /\ coreRows \in [Cores -> Nat \cup {Absent}]
      /\ coreEvents \in Seq(Event(Cores))
      /\ gameRows \in [Ids -> Nat \cup {Absent}]
      /\ gameEvents \in Seq(Event(Ids \cup Cores))
  BY DEF TypeInv, TypeOK, DbOK

<1>1. UNCHANGED <<coreRows, coreEvents, gameRows>>
  BY DEF FixGames, coreDb
<1>2. CASE IsOpen(gameEvents)
  <2> DEFINE start == LastOf(gameEvents)
             row == IF start.target \in Ids THEN gameRows[start.target]
                                            ELSE Absent
             total == RepairTotal(start, row)
  <2>1. /\ start \in Event(Ids \cup Cores)
        /\ start.target \in Ids \cup Cores
    BY <1>0, <1>2, LastEvent
  <2>2. row \in Nat \cup {Absent}
    BY <1>0
  <2> HIDE DEF row
  <2>3. total \in Nat
    BY <2>1, <2>2, RepairType
  <2>4. \/ UNCHANGED gameEvents
        \/ gameEvents' = Append(gameEvents,
             [action |-> "stop", target |-> start.target, total |-> total])
    BY <1>2 DEF FixGames, row
  <2> HIDE DEF start, total
  <2>5. [action |-> "stop", target |-> start.target, total |-> total]
          \in Event(Ids \cup Cores)
    BY <2>1, <2>3 DEF Event
  <2>6. gameEvents' \in Seq(Event(Ids \cup Cores))
    BY <1>0, <2>4, <2>5
  <2> QED
    BY <1>0, <1>1, <2>6 DEF DbOK
<1>3. CASE ~IsOpen(gameEvents)
  BY <1>0, <1>1, <1>3 DEF FixGames, DbOK
<1> QED
  BY <1>2, <1>3

LEMMA StopCoreKeepsDb == TypeInv /\ StopCore => DbOK'
<1> SUFFICES ASSUME TypeInv, StopCore
             PROVE  DbOK'
  OBVIOUS
<1>0. /\ coreRows \in [Cores -> Nat \cup {Absent}]
      /\ coreEvents \in Seq(Event(Cores))
      /\ gameRows \in [Ids -> Nat \cup {Absent}]
      /\ gameEvents \in Seq(Event(Ids \cup Cores))
  BY DEF TypeInv, TypeOK, DbOK

<1>1. UNCHANGED <<coreRows, gameRows, gameEvents>>
  BY DEF StopCore, gameDb
<1>2. activeCore \in Cores /\ Seconds(coreTimes[activeCore]) \in Nat
  BY SecondsType DEF TypeInv, TypeOK, PointInv, CoreOK, StopCore
<1>3. \/ UNCHANGED coreEvents
      \/ coreEvents' = Append(coreEvents,
           [action |-> "stop", target |-> activeCore,
            total |-> Seconds(coreTimes[activeCore])])
  BY DEF StopCore, AddCoreEvent
<1>4. [action |-> "stop", target |-> activeCore,
    total |-> Seconds(coreTimes[activeCore])]
        \in Event(Cores)
  BY <1>2 DEF Event
<1>5. coreEvents' \in Seq(Event(Cores))
  BY <1>0, <1>3, <1>4, SeqKept
<1> QED
  BY <1>0, <1>1, <1>5 DEF DbOK

LEMMA StartCoreKeepsDb == TypeInv /\ StartCore => DbOK'
<1> SUFFICES ASSUME TypeInv, StartCore
             PROVE  DbOK'
  OBVIOUS
<1>0. /\ coreRows \in [Cores -> Nat \cup {Absent}]
      /\ coreEvents \in Seq(Event(Cores))
      /\ gameRows \in [Ids -> Nat \cup {Absent}]
      /\ gameEvents \in Seq(Event(Ids \cup Cores))
  BY DEF TypeInv, TypeOK, DbOK

<1>1. UNCHANGED <<coreRows, gameRows, gameEvents>>
  BY DEF StartCore, gameDb
<1>2. activeCore \in Cores /\ Seconds(coreTimes'[activeCore]) \in Nat
  BY CoreOKKept, SecondsType DEF TypeInv, TypeOK, PointInv, CoreOK, StartCore,
      Next, Handling
<1>3. \/ UNCHANGED coreEvents
      \/ coreEvents' = Append(coreEvents,
           [action |-> "start", target |-> activeCore,
            total |-> Seconds(coreTimes'[activeCore])])
  BY DEF StartCore, AddCoreEvent
<1>4. [action |-> "start", target |-> activeCore,
    total |-> Seconds(coreTimes'[activeCore])]
        \in Event(Cores)
  BY <1>2 DEF Event
<1>5. coreEvents' \in Seq(Event(Cores))
  BY <1>0, <1>3, <1>4, SeqKept
<1> QED
  BY <1>0, <1>1, <1>5 DEF DbOK

LEMMA StopGameKeepsDb == TypeInv /\ StopGame => DbOK'
<1> SUFFICES ASSUME TypeInv, StopGame
             PROVE  DbOK'
  OBVIOUS
<1>0. /\ coreRows \in [Cores -> Nat \cup {Absent}]
      /\ coreEvents \in Seq(Event(Cores))
      /\ gameRows \in [Ids -> Nat \cup {Absent}]
      /\ gameEvents \in Seq(Event(Ids \cup Cores))
  BY DEF TypeInv, TypeOK, DbOK

<1>1. UNCHANGED <<coreRows, coreEvents, gameRows>>
  BY DEF StopGame, coreDb
<1>2. activeGame \in Ids \cup Cores /\ GameSeconds(activeGame) \in Nat
  BY SecondsType DEF TypeInv, TypeOK, PointInv, GameOK, StopGame, GameSeconds
<1>3. \/ UNCHANGED gameEvents
      \/ gameEvents' = Append(gameEvents,
           [action |-> "stop", target |-> activeGame,
            total |-> GameSeconds(activeGame)])
  BY DEF StopGame, AddGameEvent
<1>4. [action |-> "stop", target |-> activeGame,
    total |-> GameSeconds(activeGame)]
        \in Event(Ids \cup Cores)
  BY <1>2 DEF Event
<1>5. gameEvents' \in Seq(Event(Ids \cup Cores))
  BY <1>0, <1>3, <1>4, SeqKept
<1> QED
  BY <1>0, <1>1, <1>5 DEF DbOK

LEMMA EnterGameKeepsDb == TypeInv /\ EnterGame => DbOK'
<1> SUFFICES ASSUME TypeInv, EnterGame
             PROVE  DbOK'
  OBVIOUS
<1>0. /\ coreRows \in [Cores -> Nat \cup {Absent}]
      /\ coreEvents \in Seq(Event(Cores))
      /\ gameRows \in [Ids -> Nat \cup {Absent}]
      /\ gameEvents \in Seq(Event(Ids \cup Cores))
  BY DEF TypeInv, TypeOK, DbOK

<1>1. UNCHANGED <<coreRows, coreEvents, gameRows>>
  BY DEF SetSystem, EnterGame, coreDb
<1>2. /\ GameId[nextGame] \in Ids \cup Cores
      /\ Seconds(gameTimes'[GameId[nextGame]]) \in Nat
  BY GameOKKept, SecondsType, ConstantsTyped DEF SetSystem, TypeInv, TypeOK,
      PointInv, GameOK, EnterGame, Next, Handling
<1>3. \/ UNCHANGED gameEvents
      \/ gameEvents' = Append(gameEvents,
           [action |-> "start", target |-> GameId[nextGame],
            total |-> Seconds(gameTimes'[GameId[nextGame]])])
  BY DEF SetSystem, EnterGame, AddGameEvent
<1>4. [action |-> "start", target |-> GameId[nextGame],
    total |-> Seconds(gameTimes'[GameId[nextGame]])]
        \in Event(Ids \cup Cores)
  BY <1>2 DEF Event
<1>5. gameEvents' \in Seq(Event(Ids \cup Cores))
  BY <1>0, <1>3, <1>4, SeqKept
<1> QED
  BY <1>0, <1>1, <1>5 DEF DbOK

LEMMA EnterCoreKeepsDb == TypeInv /\ EnterCore => DbOK'
<1> SUFFICES ASSUME TypeInv, EnterCore
             PROVE  DbOK'
  OBVIOUS
<1>0. /\ coreRows \in [Cores -> Nat \cup {Absent}]
      /\ coreEvents \in Seq(Event(Cores))
      /\ gameRows \in [Ids -> Nat \cup {Absent}]
      /\ gameEvents \in Seq(Event(Ids \cup Cores))
  BY DEF TypeInv, TypeOK, DbOK

<1>1. UNCHANGED <<coreRows, coreEvents, gameRows>>
  BY DEF SetSystem, EnterCore, coreDb
<1>2. LookupName(nextCore, activePath) = Arcade => nextCore \in Cores
  BY ConstantsTyped, NamesDistinct DEF LookupName
<1>3. \/ UNCHANGED gameEvents
      \/ /\ LookupName(nextCore, activePath) = Arcade
         /\ gameEvents' = Append(gameEvents,
              [action |-> "start", target |-> nextCore, total |-> 0])
  BY DEF SetSystem, EnterCore, AddGameEvent
<1>4. nextCore \in Cores =>
        [action |-> "start", target |-> nextCore, total |-> 0]
          \in Event(Ids \cup Cores)
  BY DEF Event
<1>5. gameEvents' \in Seq(Event(Ids \cup Cores))
  BY <1>0, <1>2, <1>3, <1>4
<1> QED
  BY <1>0, <1>1, <1>5 DEF DbOK

LEMMA TickCoreKeepsDb == TypeInv /\ TickCore => DbOK'
<1> SUFFICES ASSUME TypeInv, TickCore
             PROVE  DbOK'
  OBVIOUS
<1>1. DbOK
  BY DEF TypeInv, TypeOK
<1>2. UNCHANGED <<coreEvents, gameRows, gameEvents>>
  BY DEF TickCore, gameDb
<1>3. coreRows' = coreRows
      \/ (CountsCore
            /\ coreRows' = [coreRows EXCEPT
                              ![activeCore] = coreTimes[activeCore] + 1])
  BY DEF TickCore, UpdateCore
<1>4. CountsCore => coreTimes[activeCore] + 1 \in Nat
  BY ConstantsTyped, NamesDistinct
     DEF CountsCore, TypeInv, TypeOK, CoreOK, Absent
<1>5. coreRows' \in [Cores -> Nat \cup {Absent}]
  BY <1>1, <1>3, <1>4 DEF DbOK
<1> QED
  BY <1>1, <1>2, <1>5 DEF DbOK

LEMMA TickGameKeepsDb == TypeInv /\ TickGame => DbOK'
<1> SUFFICES ASSUME TypeInv, TickGame
             PROVE  DbOK'
  OBVIOUS
<1>1. DbOK
  BY DEF TypeInv, TypeOK
<1>2. UNCHANGED <<coreRows, coreEvents, gameEvents>>
  BY DEF TickGame, coreDb
<1>3. gameRows' = gameRows
      \/ (CountsGame
            /\ gameRows' = [gameRows EXCEPT
                              ![activeGame] = gameTimes[activeGame] + 1])
  BY DEF TickGame, UpdateGame
<1>4. CountsGame => gameTimes[activeGame] + 1 \in Nat
  BY DEF CountsGame, TypeInv, TypeOK, GameOK, Absent
<1>5. gameRows' \in [Ids -> Nat \cup {Absent}]
  BY <1>1, <1>3, <1>4 DEF DbOK
<1> QED
  BY <1>1, <1>2, <1>5 DEF DbOK

LEMMA DbOKKept == TypeInv /\ [Next]_vars => DbOK'
<1> SUFFICES ASSUME TypeInv, [Next]_vars
             PROVE  DbOK'
  OBVIOUS
<1> USE ConstantsTyped, NamesDistinct DEF TypeInv, TypeOK, files, ctl, lock,
  core, game, coreDb, gameDb, CoreOK, GameOK, LockOK, DbOK, PointInv, Seconds,
  Absent
<1>1. CASE FixCores
  BY <1>1, FixCoresKeepsDb
<1>2. CASE FixGames
  BY <1>2, FixGamesKeepsDb
<1>3. CASE SaveCore
  BY <1>3 DEF SaveCore, UpdateCore
<1>4. CASE StopCore
  BY <1>4, StopCoreKeepsDb
<1>5. CASE EnterCore
  BY <1>5, EnterCoreKeepsDb
<1>6. CASE StartCore
  BY <1>6, StartCoreKeepsDb
<1>7. CASE SaveGame
  BY <1>7 DEF SaveGame, UpdateGame
<1>8. CASE StopGame
  BY <1>8, StopGameKeepsDb
<1>9. CASE EnterGame
  BY <1>9, EnterGameKeepsDb
<1>10. CASE TickCore
  BY <1>10, TickCoreKeepsDb
<1>11. CASE TickGame
  BY <1>11, TickGameKeepsDb
<1>12. CASE Boot \/ EnsureActiveGame \/ StartFileWatch \/ Receive \/ LoadCore
  \/ LoadGame \/ LoadRecent \/ TrackMenu \/ CloseWatcher \/ StopAll \/ Exit \/
  Kill \/ PowerLoss \/ Environment
  BY <1>12 DEF Boot, EnsureActiveGame, StartFileWatch, Die, Receive, LoadCore,
    Handle, LoadGame, LoadRecent, TrackMenu, CloseWatcher, StopAll, Exit,
    Kill, PowerLoss, Environment, WriteCore, WriteGame, WriteOther, Kinds
<1>13. CASE UNCHANGED vars
  BY <1>13 DEF vars
<1> QED
  BY <1>1, <1>2, <1>3, <1>4, <1>5, <1>6, <1>7, <1>8, <1>9, <1>10, <1>11,
    <1>12, <1>13 DEF Next, Starting, Handling

LEMMA PointInvKept == TypeInv /\ [Next]_vars => PointInv'
<1> SUFFICES ASSUME TypeInv, [Next]_vars
             PROVE  PointInv'
  OBVIOUS
<1> USE ConstantsTyped, NamesDistinct DEF TypeInv, TypeOK, files, ctl, lock,
  core, game, coreDb, gameDb, PointInv, Kinds, FilesOK, ServiceOK, LockOK,
  CoreOK, GameOK
<1>1. CASE Boot
  BY <1>1 DEF Boot
<1>2. CASE FixCores
  BY <1>2 DEF FixCores
<1>3. CASE FixGames
  BY <1>3 DEF FixGames
<1>4. CASE EnsureActiveGame
  BY <1>4 DEF EnsureActiveGame
<1>5. CASE StartFileWatch
  BY <1>5 DEF StartFileWatch, Die
<1>6. CASE Receive
  <2>1. svc' = "up" /\ UNCHANGED <<pc, nextGame, activeCore, activeGame>>
    BY <1>6 DEF Receive, Watching
  <2> QED
    BY <2>1
<1>7. CASE LoadCore
  <2>1. /\ svc \notin {"down", "fixCores", "fixGames"}
        /\ svc' = svc
        /\ UNCHANGED <<nextGame, activeCore, activeGame>>
        /\ pc = "free"
        /\ pc' \in {"free", "saveCore", "enterCore"}
        /\ pc' = "saveCore" => activeCore # None
        /\ pc' = "enterCore" => activeCore = None
    BY <1>7 DEF LoadCore, Handle
  <2> QED
    BY <2>1
<1>8. CASE SaveCore
  BY <1>8 DEF SaveCore, UpdateCore
<1>9. CASE StopCore
  BY <1>9 DEF StopCore, AddCoreEvent
<1>10. CASE EnterCore
  BY <1>10, LookupType DEF SetSystem, EnterCore, AddGameEvent
<1>11. CASE StartCore
  BY <1>11 DEF StartCore, AddCoreEvent, LoadCoreTime
<1>12. CASE LoadGame
  <2>1. /\ svc \notin {"down", "fixCores", "fixGames"}
        /\ svc' = svc
        /\ UNCHANGED <<activeCore, activeGame>>
        /\ pc = "free"
        /\ pc' \in {"free", "saveGame", "enterGame"}
        /\ pc' = "saveGame" => activeGame # None
        /\ pc' = "enterGame" => nextGame' \in Contents
    BY <1>12 DEF LoadGame, Handle
  <2> QED
    BY <2>1
<1>13. CASE SaveGame
  BY <1>13 DEF SaveGame, UpdateGame
<1>14. CASE StopGame
  BY <1>14 DEF StopGame, AddGameEvent, GameSeconds
<1>15. CASE EnterGame
  BY <1>15, LookupType DEF SetSystem, EnterGame, AddGameEvent, LoadGameTime
<1>16. CASE LoadRecent
  BY <1>16, NotifiedType DEF LoadRecent
<1>17. CASE TrackMenu
  BY <1>17 DEF TrackMenu
<1>18. CASE TickCore
  BY <1>18 DEF TickCore, UpdateCore, CountsCore, CountsGame
<1>19. CASE TickGame
  BY <1>19 DEF TickGame, UpdateGame, CountsGame
<1>20. CASE CloseWatcher
  BY <1>20 DEF CloseWatcher
<1>21. CASE StopAll
  BY <1>21 DEF StopAll
<1>22. CASE Exit
  BY <1>22 DEF Exit, Die
<1>23. CASE Kill
  BY <1>23 DEF Kill, Die
<1>24. CASE PowerLoss
  BY <1>24 DEF PowerLoss, Die
<1>25. CASE Environment
  BY <1>25 DEF Environment, WriteCore, WriteGame, WriteOther, Kinds
<1>26. CASE UNCHANGED vars
  BY <1>26 DEF vars
<1> QED
  BY <1>1, <1>2, <1>3, <1>4, <1>5, <1>6, <1>7, <1>8, <1>9, <1>10, <1>11,
    <1>12, <1>13, <1>14, <1>15, <1>16, <1>17, <1>18, <1>19, <1>20, <1>21,
    <1>22, <1>23, <1>24, <1>25, <1>26 DEF Next, Starting, Handling

\* Every variable of the tracker keeps its type, for any cores, games, name
\* map and database failures.
THEOREM TypeCorrect == Spec => []TypeOK
<1>1. Init => TypeInv
  BY ConstantsTyped DEF Init, TypeInv, TypeOK, FilesOK, ServiceOK, LockOK,
     CoreOK, GameOK, HookOK, DbOK, PointInv, NoHook
<1>2. TypeInv /\ [Next]_vars => TypeInv'
  BY FilesOKKept, ServiceOKKept, LockOKKept, CoreOKKept, GameOKKept,
     HookOKKept, DbOKKept, PointInvKept DEF TypeInv, TypeOK
<1>3. TypeInv => TypeOK
  BY DEF TypeInv
<1> QED
  BY <1>1, <1>2, <1>3, PTL DEF Spec

-----------------------------------------------------------------------------
(* Saved time never goes down, whatever fails.                             *)

\* A count is never behind the row it was loaded from and is saved to.
AheadInv ==
  /\ \A c \in Cores : coreTimes[c] = Absent \/ coreTimes[c] >= coreRows[c]
  /\ \A g \in Ids : gameTimes[g] = Absent \/ gameTimes[g] >= gameRows[g]

RowsGrow ==
  /\ \A c \in Cores : coreRows'[c] >= coreRows[c]
  /\ \A g \in Ids : gameRows'[g] >= gameRows[g]

LEMMA RowTypes ==
  ASSUME TypeInv
  PROVE  /\ coreTimes \in [Cores -> Nat \cup {Absent}]
         /\ coreRows \in [Cores -> Nat \cup {Absent}]
         /\ gameTimes \in [Ids -> Nat \cup {Absent}]
         /\ gameRows \in [Ids -> Nat \cup {Absent}]
         /\ pc \in {"saveCore", "stopCore",
             "startCore"} => activeCore \in Cores
         /\ pc = "enterGame" => GameId[nextGame] \in Ids
         /\ None \notin Cores
         /\ activeCore \in Cores \cup {None}
BY NamesDistinct, ConstantsTyped
   DEF TypeInv, TypeOK, CoreOK, GameOK, DbOK, PointInv

LEMMA AheadKept == TypeInv /\ AheadInv /\ [Next]_vars => AheadInv' /\ RowsGrow
<1> SUFFICES ASSUME TypeInv, AheadInv, [Next]_vars
             PROVE  AheadInv' /\ RowsGrow
  OBVIOUS
<1>1. ASSUME UNCHANGED <<coreTimes, coreRows, gameTimes, gameRows>>
      PROVE  AheadInv' /\ RowsGrow
  BY <1>1, RowTypes DEF AheadInv, RowsGrow, Absent
<1>2. ASSUME Die
      PROVE  AheadInv' /\ RowsGrow
  <2>1. /\ coreTimes' = [c \in Cores |-> Absent]
        /\ gameTimes' = [g \in Ids |-> Absent]
        /\ coreRows' = coreRows
        /\ gameRows' = gameRows
    BY <1>2 DEF Die, coreDb, gameDb
  <2>2. AheadInv'
    BY <2>1 DEF AheadInv
  <2>3. RowsGrow
    BY <2>1, RowTypes DEF RowsGrow, Absent
  <2> QED
    BY <2>2, <2>3
<1>3. CASE SaveCore
  BY <1>3, RowTypes
     DEF SaveCore, UpdateCore, core, game, gameDb, AheadInv, RowsGrow, Absent
<1>4. CASE StartCore
  BY <1>4, RowTypes
     DEF StartCore, LoadCoreTime, game, gameDb, AheadInv, RowsGrow, Absent,
         Seconds
<1>5. CASE SaveGame
  BY <1>5, RowTypes
     DEF SaveGame, UpdateGame, core, game, coreDb, AheadInv, RowsGrow, Absent
<1>6. CASE EnterGame
  BY <1>6, RowTypes
     DEF SetSystem, EnterGame, LoadGameTime, coreDb, AheadInv, RowsGrow,
         Absent, Seconds
<1>7. CASE TickCore
  BY <1>7, RowTypes
     DEF TickCore, UpdateCore, CountsCore, game, gameDb, AheadInv, RowsGrow,
         Absent
<1>8. CASE TickGame
  BY <1>8, RowTypes
     DEF TickGame, UpdateGame, CountsGame, core, coreDb, AheadInv, RowsGrow,
         Absent
<1>9. CASE \/ Environment \/ Boot \/ FixCores \/ FixGames \/ EnsureActiveGame
           \/ Receive \/ LoadCore \/ LoadGame \/ LoadRecent \/ TrackMenu
           \/ CloseWatcher \/ StopAll \/ UNCHANGED vars
  BY <1>1, <1>9
     DEF Environment, WriteCore, WriteGame, WriteOther, Boot, FixCores,
         FixGames, EnsureActiveGame, Receive, LoadCore, LoadGame, LoadRecent,
         TrackMenu, CloseWatcher, StopAll, vars, core, game, coreDb, gameDb
<1>10. CASE StopCore \/ EnterCore \/ StopGame
  BY <1>1, <1>10
     DEF SetSystem, StopCore, EnterCore, StopGame, core, game, coreDb, gameDb
<1>11. CASE StartFileWatch
  BY <1>1, <1>2, <1>11 DEF StartFileWatch, core, game, coreDb, gameDb
<1>12. CASE Exit \/ Kill \/ PowerLoss
  BY <1>2, <1>12 DEF Exit, Kill, PowerLoss
<1> QED
  BY <1>3, <1>4, <1>5, <1>6, <1>7, <1>8, <1>9, <1>10, <1>11, <1>12
     DEF Next, Starting, Handling

\* No run of the service, whatever calls fail and wherever it is cut off,
\* replaces a saved time of a core or a game by a smaller one.
THEOREM SavedTimeNeverShrinks == Spec => SavedTimeGrows
<1>1. Init => TypeInv /\ AheadInv
  BY ConstantsTyped DEF Init, TypeInv, TypeOK, FilesOK, ServiceOK, LockOK,
     CoreOK, GameOK, HookOK, DbOK, PointInv, NoHook, AheadInv
<1>2. TypeInv /\ [Next]_vars => TypeInv'
  BY FilesOKKept, ServiceOKKept, LockOKKept, CoreOKKept, GameOKKept,
     HookOKKept, DbOKKept, PointInvKept DEF TypeInv, TypeOK
<1>3. TypeInv /\ AheadInv /\ [Next]_vars =>
        TypeInv' /\ AheadInv' /\ [RowsGrow]_vars
  BY <1>2, AheadKept
<1>4. Spec => [][RowsGrow]_vars
  BY <1>1, <1>3, PTL DEF Spec
<1> QED
  BY <1>4 DEF SavedTimeGrows, RowsGrow

-----------------------------------------------------------------------------
(* The active system.                                                      *)

\* It fits at every program point, not only at rest.
FitInv == activeSystem = LookupName(activeCore, activePath)

LEMMA NoCoreNoSystem == \A path : LookupName(None, path) = None
BY NamesDistinct, ConstantsTyped DEF LookupName

LEMMA FitKept == FitInv /\ [Next]_vars => FitInv'
<1> SUFFICES ASSUME FitInv, [Next]_vars
             PROVE  FitInv'
  OBVIOUS
<1>1. ASSUME UNCHANGED <<activeCore, activeSystem, activePath>>
      PROVE  FitInv'
  BY <1>1 DEF FitInv, LookupName
<1>2. ASSUME activeCore' = None, activeSystem' = None
      PROVE  FitInv'
  BY <1>2, NoCoreNoSystem DEF FitInv
<1>3. CASE EnterCore \/ EnterGame
  BY <1>3 DEF EnterCore, EnterGame, SetSystem, FitInv, LookupName
<1>4. CASE StopCore
  BY <1>2, <1>4 DEF StopCore
<1>5. CASE Exit \/ Kill \/ PowerLoss
  BY <1>2, <1>5 DEF Exit, Kill, PowerLoss, Die
<1>6. CASE StartFileWatch
  BY <1>1, <1>2, <1>6 DEF StartFileWatch, Die, core, game
<1>7. CASE \/ Environment \/ Boot \/ FixCores \/ FixGames \/ EnsureActiveGame
           \/ Receive \/ LoadCore \/ SaveCore \/ StartCore \/ LoadGame
           \/ SaveGame \/ StopGame \/ LoadRecent \/ TrackMenu \/ TickCore
           \/ TickGame \/ CloseWatcher \/ StopAll \/ UNCHANGED vars
  BY <1>1, <1>7
     DEF Environment, WriteCore, WriteGame, WriteOther, Boot, FixCores,
         FixGames, EnsureActiveGame, Receive, LoadCore, SaveCore, StartCore,
         LoadGame, SaveGame, StopGame, LoadRecent, TrackMenu, TickCore,
         TickGame, CloseWatcher, StopAll, vars, core, game
<1> QED
  BY <1>3, <1>4, <1>5, <1>6, <1>7 DEF Next, Starting, Handling

\* The active system is the one of the active core and of the last game's path
\* (tracker.go:311), for every name map, whatever fails.
THEOREM SystemAlwaysFits == Spec => []SystemFits
<1>1. Init => FitInv
  BY NoCoreNoSystem DEF Init, FitInv
<1>2. FitInv => SystemFits
  BY DEF FitInv, SystemFits
<1> QED
  BY <1>1, <1>2, FitKept, PTL DEF Spec

-----------------------------------------------------------------------------
(* What a power loss can lose.                                             *)

\* The seconds that are not saved are those since the last multiple of the
\* save interval.
Unsaved(time, row) ==
  time # Absent => time - Seconds(row) <= time % SaveSeconds

IntervalInv ==
  /\ \A c \in Cores : Unsaved(coreTimes[c], coreRows[c])
  /\ \A g \in Ids : Unsaved(gameTimes[g], gameRows[g])

LEMMA Multiples ==
  ASSUME NEW n \in Nat, NEW s \in Nat, s > 0
  PROVE  \E q \in Nat : n = q * s + (n % s) /\ n % s \in 0 .. s - 1
<1>1. n \div s \in Nat /\ n % s \in 0 .. s - 1
  OBVIOUS
<1>2. n = (n \div s) * s + (n % s)
  OBVIOUS
<1> QED
  BY <1>1, <1>2, Zenon

\* Division with remainder is unique.
LEMMA Remainder ==
  ASSUME NEW n \in Nat, NEW s \in Nat, s > 0, NEW q \in Int,
         NEW r \in 0 .. s - 1, n = q * s + r
  PROVE  n % s = r
<1>1. PICK p \in Nat : n = p * s + (n % s) /\ n % s \in 0 .. s - 1
  BY Multiples
<1>2. CASE p = q
  BY <1>1, <1>2
<1>3. CASE p > q
  <2>1. p * s >= (q + 1) * s
    BY <1>1, <1>3
  <2>2. (q + 1) * s = q * s + s
    OBVIOUS
  <2> QED
    BY <1>1, <2>1, <2>2
<1>4. CASE p < q
  <2>1. (p + 1) * s <= q * s
    BY <1>1, <1>4
  <2>2. (p + 1) * s = p * s + s
    BY <1>1
  <2> QED
    BY <1>1, <2>1, <2>2
<1> QED
  BY <1>1, <1>2, <1>3, <1>4

LEMMA NextSecond ==
  ASSUME NEW n \in Nat, NEW s \in Nat, s > 0
  PROVE  (n + 1) % s = 0 \/ (n + 1) % s = (n % s) + 1
<1> DEFINE r == n % s
<1>1. PICK q \in Nat : n = q * s + r /\ r \in 0 .. s - 1
  BY Multiples
<1> HIDE DEF r
<1>2. CASE r + 1 < s
  <2>1. r + 1 \in 0 .. s - 1 /\ n + 1 = q * s + (r + 1)
    BY <1>1, <1>2
  <2> QED
    BY <1>1, <2>1, Remainder DEF r
<1>3. CASE r + 1 = s
  <2>1. n + 1 = (q + 1) * s + 0
    BY <1>1, <1>3
  <2>2. q + 1 \in Int /\ 0 \in 0 .. s - 1
    BY <1>1
  <2> QED
    BY <2>1, <2>2, Remainder
<1> QED
  BY <1>1, <1>2, <1>3 DEF r

\* A tick counts a second and saves the time if an interval is complete.
LEMMA TickUnsaved ==
  ASSUME SaveSeconds > 0, NEW time \in Nat, NEW row \in Nat \cup {Absent},
         Unsaved(time, row)
  PROVE  /\ Unsaved(time + 1, time + 1)
         /\ ~SaveDue(time + 1) => Unsaved(time + 1, row)
<1>1. SaveSeconds \in Nat
  BY ConstantsTyped
<1>2. /\ time % SaveSeconds \in Nat /\ (time + 1) % SaveSeconds \in Nat
      /\ Seconds(time + 1) = time + 1 /\ Seconds(row) \in Nat
  BY <1>1 DEF Seconds, Absent
<1>3. Unsaved(time + 1, time + 1)
  BY <1>2 DEF Unsaved
<1>4. CASE ~SaveDue(time + 1)
  <2>1. (time + 1) % SaveSeconds = (time % SaveSeconds) + 1
    BY <1>1, <1>4, NextSecond DEF SaveDue
  <2>2. time - Seconds(row) <= time % SaveSeconds
    BY DEF Unsaved, Absent
  <2> QED
    BY <1>2, <1>3, <2>1, <2>2 DEF Unsaved
<1> QED
  BY <1>3, <1>4

LEMMA SavedAll ==
  ASSUME SaveSeconds > 0, NEW time \in Nat
  PROVE  Unsaved(time, time)
<1>1. time % SaveSeconds \in Nat /\ Seconds(time) = time
  BY ConstantsTyped DEF Seconds, Absent
<1> QED
  BY <1>1 DEF Unsaved

LEMMA LoadedAll ==
  ASSUME SaveSeconds > 0, NEW row \in Nat \cup {Absent}
  PROVE  Unsaved(Seconds(row), row)
<1>1. Seconds(row) \in Nat /\ Seconds(row) % SaveSeconds \in Nat
  BY ConstantsTyped DEF Seconds, Absent
<1> QED
  BY <1>1 DEF Unsaved

LEMMA IntervalKept ==
  SaveSeconds > 0 /\ ~DbMayFail /\ TypeInv /\ IntervalInv /\ [Next]_vars
    => IntervalInv'
<1> SUFFICES ASSUME SaveSeconds > 0, ~DbMayFail, TypeInv, IntervalInv,
                    [Next]_vars
             PROVE  IntervalInv'
  OBVIOUS
<1> HIDE DEF Unsaved
<1> USE RowTypes DEF core, game, coreDb, gameDb
<1>1. ASSUME UNCHANGED <<coreTimes, coreRows, gameTimes, gameRows>>
      PROVE  IntervalInv'
  BY <1>1 DEF IntervalInv
<1>2. ASSUME Die
      PROVE  IntervalInv'
  BY <1>2 DEF Die, IntervalInv, Unsaved
<1>3. CASE SaveCore
  BY <1>3, SavedAll DEF SaveCore, UpdateCore, IntervalInv, Absent
<1>4. CASE StartCore
  <2>1. /\ activeCore \in Cores /\ UNCHANGED <<coreRows, gameTimes, gameRows>>
        /\ \/ UNCHANGED coreTimes
           \/ coreTimes' = [coreTimes EXCEPT
                              ![activeCore] = Seconds(coreRows[activeCore])]
    BY <1>4 DEF StartCore, LoadCoreTime
  <2>2. Unsaved(Seconds(coreRows[activeCore]), coreRows[activeCore])
    BY <2>1, LoadedAll
  <2>3. \A c \in Cores : Unsaved(coreTimes'[c], coreRows[c])
    BY <2>1, <2>2 DEF IntervalInv
  <2> QED
    BY <2>1, <2>3 DEF IntervalInv
<1>5. CASE SaveGame
  BY <1>5, SavedAll DEF SaveGame, UpdateGame, IntervalInv, Absent
<1>6. CASE EnterGame
  BY <1>6, LoadedAll DEF EnterGame, LoadGameTime, IntervalInv
<1>7. CASE TickCore
  BY <1>7, TickUnsaved DEF TickCore, UpdateCore, CountsCore, IntervalInv,
    Absent
<1>8. CASE TickGame
  BY <1>8, TickUnsaved DEF TickGame, UpdateGame, CountsGame, IntervalInv,
    Absent
<1>9. CASE \/ Environment \/ Boot \/ FixCores \/ FixGames \/ EnsureActiveGame
           \/ Receive \/ LoadCore \/ LoadGame \/ LoadRecent \/ TrackMenu
           \/ CloseWatcher \/ StopAll \/ UNCHANGED vars
  BY <1>1, <1>9
     DEF Environment, WriteCore, WriteGame, WriteOther, Boot, FixCores,
         FixGames, EnsureActiveGame, Receive, LoadCore, LoadGame, LoadRecent,
         TrackMenu, CloseWatcher, StopAll, vars
<1>10. CASE StopCore \/ EnterCore \/ StopGame
  BY <1>1, <1>10 DEF SetSystem, StopCore, EnterCore, StopGame
<1>11. CASE StartFileWatch
  BY <1>1, <1>2, <1>11 DEF StartFileWatch
<1>12. CASE Exit \/ Kill \/ PowerLoss
  BY <1>2, <1>12 DEF Exit, Kill, PowerLoss
<1> QED
  BY <1>3, <1>4, <1>5, <1>6, <1>7, <1>8, <1>9, <1>10, <1>11, <1>12
     DEF Next, Starting, Handling

\* If database calls do not fail, a power loss loses less than one save
\* interval of the active core and of the active game, for every interval and
\* also when a session resumes in the middle of one (tracker.go:549).
THEOREM PowerLossIsBounded == ~DbMayFail /\ Spec => []LossBounded
<1>1. CASE SaveSeconds > 0 /\ ~DbMayFail
  <2>1. Init => TypeInv /\ IntervalInv
    BY ConstantsTyped DEF Init, TypeInv, TypeOK, FilesOK, ServiceOK, LockOK,
       CoreOK, GameOK, HookOK, DbOK, PointInv, NoHook, IntervalInv, Unsaved
  <2>2. TypeInv /\ [Next]_vars => TypeInv'
    BY FilesOKKept, ServiceOKKept, LockOKKept, CoreOKKept, GameOKKept,
       HookOKKept, DbOKKept, PointInvKept DEF TypeInv, TypeOK
  <2>3. TypeInv /\ IntervalInv /\ [Next]_vars => IntervalInv'
    BY <1>1, IntervalKept
  <2>4. ASSUME NEW time \in Nat \cup {Absent}, NEW row \in Nat \cup {Absent},
               Unsaved(time, row)
        PROVE  Seconds(time) < Seconds(row) + SaveSeconds
    <3>1. SaveSeconds \in Nat /\ Seconds(row) \in Nat
      BY ConstantsTyped DEF Seconds, Absent
    <3>2. CASE time = Absent
      BY <1>1, <3>1, <3>2 DEF Seconds
    <3>3. CASE time # Absent
      <4>1. time % SaveSeconds \in 0 .. SaveSeconds - 1 /\ time \in Nat
        BY <1>1, <3>1, <3>3
      <4> QED
        BY <2>4, <3>1, <3>3, <4>1 DEF Unsaved, Seconds
    <3> QED
      BY <3>2, <3>3
  <2>5. TypeInv /\ IntervalInv => LossBounded
    BY <2>4, RowTypes DEF IntervalInv, LossBounded
  <2> QED
    BY <2>1, <2>2, <2>3, <2>5, PTL DEF Spec
<1>2. CASE DbMayFail
  BY <1>2
<1>3. CASE ~(SaveSeconds > 0)
  BY <1>3, PTL DEF LossBounded
<1> QED
  BY <1>1, <1>2, <1>3
=============================================================================
