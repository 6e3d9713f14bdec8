------------------------------ MODULE Tracker ------------------------------
(***************************************************************************)
(* The core and game tracker (pkg/tracker) as the PlayLog service runs it  *)
(* (cmd/playlog): the two files in /tmp it watches, the goroutine that     *)
(* handles their write notifications, the once-a-second ticker, StopAll,   *)
(* the SQLite database, and the power losses its FixPowerLoss repairs.     *)
(*                                                                         *)
(* The handlers hold the tracker's mutex from beginning to end.  pc is the *)
(* program point of the holder ("free": nobody holds it), and a handler is *)
(* one action per database write it makes, because a power loss or a kill  *)
(* can fall between two of them.                                           *)
(***************************************************************************)
EXTENDS Integers, Sequences

CONSTANTS
  Cores,        \* core names, as MiSTer writes them to CORENAME
  Menu,         \* the core name of the menu (config.MenuCore)
  Contents,     \* the non-empty texts ACTIVEGAME may hold
  IniFiles,     \* the Contents that name an .ini file
  Ids,          \* game ids, "<system id>/<file name>"
  Paths,        \* resolved paths, an .mgl already replaced by its target
  Systems,      \* system ids
  Arcade,       \* the id of the arcade system
  GameId,       \* GameId[c]: the id loadGame gives to content c
  GamePath,     \* GamePath[c]: the path loadGame resolves content c to
  SystemOf,     \* SystemOf[p]: games.BestSystemMatch, None when it fails
  NameMap,      \* the <<core name, system id>> pairs of Tracker.NameMap
  None,         \* "", an unset value
  Missing,      \* no such file
  SaveSeconds,  \* the save interval in seconds; 0 turns periodic saves off
  DbMayFail,    \* whether a database call may return an error
  MaxWrites,    \* bound on the writes of other programs to the files
  MaxBoots,     \* bound on the starts of the service
  MaxTime       \* bound on the seconds counted for one core or game

Kinds == {"core", "game", "recent", "menu"}    \* of notifications

ASSUME NamesDistinct ==
  /\ None \notin Kinds
  /\ None \notin Cores \cup Contents \cup Ids \cup Paths \cup Systems
  /\ Missing \notin Cores \cup Contents \cup {None, Menu}
  /\ Menu \notin Cores \cup {None}
  /\ Cores \cap Ids = {}          \* an id contains "/", a core name does not
  /\ Arcade \notin Cores          \* core names of arcade games are setnames

ASSUME ConstantsTyped ==
  /\ IniFiles \subseteq Contents
  /\ Arcade \in Systems
  /\ GameId \in [Contents -> Ids]
  /\ GamePath \in [Contents -> Paths]
  /\ SystemOf \in [Paths -> Systems \cup {None}]
  /\ NameMap \subseteq Cores \X Systems
  /\ SaveSeconds \in Nat
  /\ DbMayFail \in BOOLEAN
  /\ MaxWrites \in Nat /\ MaxBoots \in Nat /\ MaxTime \in Nat

VARIABLES
  \* the files of /tmp and the writes other programs made to them
  coreFile, gameFile, writes,
  \* the service: its phase, the queued notifications, the one being handled
  svc, boots, notes, got,
  \* the holder of the mutex: program point, and the core or game to enter
  pc, nextCore, nextGame,
  \* the fields of Tracker
  activeCore, activeSystem, activeGame, activePath, coreTimes, gameTimes,
  \* the last hook started
  hook,
  \* the database: its times tables, and its events table by kind of event
  coreRows, gameRows, coreEvents, gameEvents

files == <<coreFile, gameFile, writes>>
ctl == <<svc, boots, notes, got>>
lock == <<pc, nextCore, nextGame>>
core == <<activeCore, activeSystem, coreTimes>>
game == <<activeGame, activePath, gameTimes>>
coreDb == <<coreRows, coreEvents>>
gameDb == <<gameRows, gameEvents>>
vars == <<files, ctl, lock, core, game, hook, coreDb, gameDb>>

\* No entry in a map, or no row in a table.
Absent == -1

Event(T) == [action : {"start", "stop"}, target : T, total : Nat]

Seconds(t) == IF t = Absent THEN 0 ELSE t

IsOpen(events) == events # <<>> /\ events[Len(events)].action = "start"

LastOf(events) == events[Len(events)]

-----------------------------------------------------------------------------
(* LookupName, and the hooks.                                              *)

\* LookupName(name, game): the system of the path, if the map pairs it with
\* the core's name.
LookupName(name, path) ==
  IF path # None /\ <<name, SystemOf[path]>> \in NameMap
    THEN SystemOf[path]
    ELSE None

\* Mutant: the else branch that clears the system is missing.
SetSystemIfFound(name, path) ==
  activeSystem' = IF LookupName(name, path) = None
                    THEN activeSystem ELSE LookupName(name, path)

\* The active system that a core or a game gets when it becomes active.
SetSystem(name, path) == activeSystem' = LookupName(name, path)

\* addEvent's TargetPath, which execHook passes to the hook: the path of the
\* target's entry in GameTimes.  The path itself is abstracted to "path".
TargetPath(target, times) ==
  IF target \in Ids /\ times[target] # Absent THEN "path" ELSE "empty"

Hook(on, target, times) ==
  [on |-> on, target |-> target, arg |-> TargetPath(target, times)]

NoHook == [on |-> "none", target |-> None, arg |-> "empty"]

-----------------------------------------------------------------------------
(* The database calls of playLogDb.                                        *)

\* Mutants: "insert or ignore" for "insert or replace".
InsertCore(c, time) ==
  coreRows' = IF coreRows[c] = Absent THEN [coreRows EXCEPT ![c] = time]
                                      ELSE coreRows

InsertGame(g, time) ==
  gameRows' = IF gameRows[g] = Absent THEN [gameRows EXCEPT ![g] = time]
                                      ELSE gameRows

\* Mutant: nothing is recorded of a core that has no time yet.
AddPlayedCoreEvent(action, c, total) ==
  coreEvents' = IF total = 0
    THEN coreEvents
    ELSE Append(coreEvents, [action |-> action, target |-> c, total |-> total])

UpdateCore(c, time) ==
  \/ coreRows' = [coreRows EXCEPT ![c] = time]
  \/ DbMayFail /\ UNCHANGED coreRows

UpdateGame(g, time) ==
  \/ gameRows' = [gameRows EXCEPT ![g] = time]
  \/ DbMayFail /\ UNCHANGED gameRows

AddCoreEvent(action, c, total) ==
  \/ coreEvents' = Append(coreEvents,
                     [action |-> action, target |-> c, total |-> total])
  \/ DbMayFail /\ UNCHANGED coreEvents

AddGameEvent(action, g, total) ==
  \/ gameEvents' = Append(gameEvents,
                     [action |-> action, target |-> g, total |-> total])
  \/ DbMayFail /\ UNCHANGED gameEvents

-----------------------------------------------------------------------------
(* The files and their notifications.                                      *)

Watching == svc = "up"

\* Mutant: a notification is dropped while any other is waiting.
NotifiedOnce(kind) == IF Watching /\ notes = <<>> THEN <<kind>> ELSE notes

\* inotify merges a notification into an equal one at the end of its queue.
Notified(kind) ==
  IF Watching /\ (notes = <<>> \/ notes[Len(notes)] # kind)
    THEN Append(notes, kind)
    ELSE notes

\* Another program (MiSTer itself, remote, a script) rewrites CORENAME.  A
\* rewrite truncates the file first, so the empty text is written too.
WriteCore(c) ==
  /\ writes < MaxWrites
  /\ writes' = writes + 1
  /\ coreFile' = c
  /\ notes' = Notified("core")
  /\ UNCHANGED <<gameFile, svc, boots, got, lock, core, game, hook, coreDb,
                 gameDb>>

\* Another program rewrites ACTIVEGAME (mister.SetActiveGame, or a script).
WriteGame(c) ==
  /\ writes < MaxWrites
  /\ writes' = writes + 1
  /\ gameFile' = c
  /\ notes' = Notified("game")
  /\ UNCHANGED <<coreFile, svc, boots, got, lock, core, game, hook, coreDb,
                 gameDb>>

\* MiSTer rewrites a recents file or the menu's current path.
WriteOther(kind) ==
  /\ writes < MaxWrites
  /\ writes' = writes + 1
  /\ Watching
  /\ notes' = Notified(kind)
  /\ UNCHANGED <<coreFile, gameFile, svc, boots, got, lock, core, game, hook,
                 coreDb, gameDb>>

Environment ==
  \/ \E c \in Cores \cup {Menu, None} : WriteCore(c)
  \/ \E c \in Contents \cup {None} : WriteGame(c)
  \/ \E kind \in {"recent", "menu"} : WriteOther(kind)

-----------------------------------------------------------------------------
(* Starting the service.                                                   *)

\* The service process starts and opens the database (openPlayLogDb).
Boot ==
  /\ svc = "down"
  /\ boots < MaxBoots
  /\ boots' = boots + 1
  /\ svc' = "fixCores"
  /\ UNCHANGED <<files, notes, got, lock, core, game, hook, coreDb, gameDb>>

\* Mutants: the saved time is taken although there may be none; or never.
RepairWithRow(start, row) == row

RepairWithStart(start, row) == start.total

\* The stop row that FixPowerLoss adds for a session left open: its total is
\* the saved time if that is more than the total at the start.
RepairTotal(start, row) ==
  IF row # Absent /\ row - start.total > 0 THEN row ELSE start.total

\* FixPowerLoss takes the row with the newest timestamp.  Rows get theirs from a
\* clock that grows, so this is the last one, if the service does not come back
\* within the second that its stop is stamped after the start.  Errors of the
\* queries, after which it returns too, are not modelled.
FixCores ==
  /\ svc = "fixCores"
  /\ IF IsOpen(coreEvents)
       THEN LET start == LastOf(coreEvents) IN
            \/ /\ coreEvents' = Append(coreEvents,
                    [action |-> "stop", target |-> start.target,
                     total |-> RepairTotal(start, coreRows[start.target])])
               /\ svc' = "fixGames"
            \/ DbMayFail /\ svc' = "down" /\ UNCHANGED coreEvents
       ELSE svc' = "fixGames" /\ UNCHANGED coreEvents
  /\ UNCHANGED <<files, boots, notes, got, lock, core, game, hook, coreRows,
                 gameDb>>

\* Mutant: only cores are repaired.
SkipGames ==
  /\ svc = "fixGames"
  /\ svc' = "init"
  /\ got' = "core"
  /\ UNCHANGED <<files, boots, notes, lock, core, game, hook, coreDb, gameDb>>

\* Then the same for games.  An arcade game's row has the core's name for its
\* target, which has no row in game_times.
FixGames ==
  /\ svc = "fixGames"
  /\ IF IsOpen(gameEvents)
       THEN LET start == LastOf(gameEvents)
                row == IF start.target \in Ids THEN gameRows[start.target]
                                               ELSE Absent
            IN
            \/ /\ gameEvents' = Append(gameEvents,
                    [action |-> "stop", target |-> start.target,
                     total |-> RepairTotal(start, row)])
               /\ svc' = "init"
               /\ got' = "core"
            \/ DbMayFail /\ svc' = "down" /\ UNCHANGED <<gameEvents, got>>
       ELSE svc' = "init" /\ got' = "core" /\ UNCHANGED gameEvents
  /\ UNCHANGED <<files, boots, notes, lock, core, game, hook, coreDb,
                 gameRows>>

\* startService called LoadCore; ACTIVEGAME is created when it is missing.
EnsureActiveGame ==
  /\ svc = "init"
  /\ got = None
  /\ pc = "free"
  /\ gameFile' = IF gameFile = Missing THEN None ELSE gameFile
  /\ svc' = "watch"
  /\ UNCHANGED <<coreFile, writes, boots, notes, got, lock, core, game, hook,
                 coreDb, gameDb>>

\* The process is gone: what it kept in memory is lost, the database is not.
Die ==
  /\ svc' = "down"
  /\ notes' = <<>>
  /\ got' = None
  /\ pc' = "free"
  /\ nextCore' = None
  /\ nextGame' = None
  /\ activeCore' = None
  /\ activeSystem' = None
  /\ activeGame' = None
  /\ activePath' = None
  /\ coreTimes' = [c \in Cores |-> Absent]
  /\ gameTimes' = [g \in Ids |-> Absent]
  /\ UNCHANGED <<boots, hook, coreDb, gameDb>>

\* StartFileWatch fails, and the process exits, when CORENAME does not exist.
\* (Its calls of watcher.Add, of which any may fail, are one step.)
StartFileWatch ==
  /\ svc = "watch"
  /\ \/ /\ coreFile = Missing
        /\ Die
        /\ UNCHANGED files
     \/ /\ coreFile # Missing
        /\ svc' = "up"
        /\ UNCHANGED <<files, boots, notes, got, lock, core, game, hook,
                       coreDb, gameDb>>

-----------------------------------------------------------------------------
(* The watcher's goroutine, and the four handlers it calls.                *)

\* It is sequential: it takes an event when no handler of its is running.
\* (While svc = "up" only a handler or tick holds the mutex.)
Receive ==
  /\ Watching
  /\ pc \in {"free", "tickGame"}
  /\ got = None
  /\ notes # <<>>
  /\ got' = Head(notes)
  /\ notes' = Tail(notes)
  /\ UNCHANGED <<files, svc, boots, lock, core, game, hook, coreDb, gameDb>>

\* A handler gets the mutex.
Handle(kind) ==
  /\ got = kind
  /\ pc = "free"
  /\ got' = None

\* LoadCore: read CORENAME and compare it with the active core.  In the menu
\* ACTIVEGAME is emptied too.
LoadCore ==
  LET coreName == IF coreFile \in Cores THEN coreFile ELSE None IN
  /\ Handle("core")
  /\ IF coreFile = Menu
       THEN gameFile' = None /\ notes' = Notified("game")
       ELSE UNCHANGED <<gameFile, notes>>
  /\ IF coreName = activeCore
       THEN UNCHANGED <<pc, nextCore>>
       ELSE /\ nextCore' = coreName
            /\ pc' = IF activeCore # None THEN "saveCore" ELSE "enterCore"
  /\ UNCHANGED <<coreFile, writes, svc, boots, nextGame, core, game, hook,
                 coreDb, gameDb>>

\* stopCore: save the core's time ...
SaveCore ==
  /\ pc = "saveCore"
  /\ pc' = "stopCore"
  /\ IF coreTimes[activeCore] > 0
       THEN UpdateCore(activeCore, coreTimes[activeCore])
       ELSE UNCHANGED coreRows
  /\ UNCHANGED <<files, ctl, nextCore, nextGame, core, game, hook, coreEvents,
                 gameDb>>

\* ... add its stop event, and clear it.  StopAll goes on to stopGame.
StopCore ==
  /\ pc = "stopCore"
  /\ AddCoreEvent("stop", activeCore, Seconds(coreTimes[activeCore]))
  /\ hook' = Hook("core_stop", activeCore, gameTimes)
  /\ activeCore' = None
  /\ activeSystem' = None
  /\ IF svc = "stopping"
       THEN /\ pc' = IF activeGame # None THEN "saveGame" ELSE "free"
            /\ svc' = IF activeGame # None THEN "stopping" ELSE "stopped"
       ELSE pc' = "enterCore" /\ UNCHANGED svc
  /\ UNCHANGED <<files, boots, notes, got, nextCore, nextGame, coreTimes,
                 game, coreRows, gameDb>>

\* The rest of LoadCore: the new core becomes active.  An arcade core becomes
\* the active game as well, and no game is stopped: under an arcade path, the
\* only one for which LookupName finds Arcade, the .mra's own id may be active.
EnterCore ==
  LET system == LookupName(nextCore, activePath) IN
  /\ pc = "enterCore"
  /\ activeCore' = nextCore
  /\ SetSystem(nextCore, activePath)
  /\ pc' = IF nextCore = None THEN "free" ELSE "startCore"
  /\ nextCore' = None
  /\ IF system = Arcade
       THEN /\ activeGame' = nextCore
            /\ AddGameEvent("start", nextCore, 0)
            /\ hook' = Hook("game_start", nextCore, gameTimes)
       ELSE UNCHANGED <<activeGame, gameEvents, hook>>
  /\ UNCHANGED <<files, ctl, nextGame, coreTimes, activePath, gameTimes,
                 coreDb, gameRows>>

\* Mutants: counting starts at 0 for each run; or after a failed query.
CountFromZero ==
  coreTimes' = IF coreTimes[activeCore] = Absent
                 THEN [coreTimes EXCEPT ![activeCore] = 0] ELSE coreTimes

CountFromZeroOnError ==
  IF coreTimes[activeCore] = Absent
    THEN \E time \in {0, Seconds(coreRows[activeCore])} :
           coreTimes' = [coreTimes EXCEPT ![activeCore] = time]
    ELSE UNCHANGED coreTimes

\* GetCore: the core's saved time is loaded once per run of the service.
LoadCoreTime ==
  IF coreTimes[activeCore] = Absent
    THEN \/ coreTimes' = [coreTimes EXCEPT
                            ![activeCore] = Seconds(coreRows[activeCore])]
         \/ DbMayFail /\ UNCHANGED coreTimes
    ELSE UNCHANGED coreTimes

StartCore ==
  /\ pc = "startCore"
  /\ pc' = "free"
  /\ LoadCoreTime
  /\ AddCoreEvent("start", activeCore, Seconds(coreTimes'[activeCore]))
  /\ hook' = Hook("core_start", activeCore, gameTimes)
  /\ UNCHANGED <<files, ctl, nextCore, nextGame, activeCore, activeSystem,
                 game, coreRows, gameDb>>

\* loadGame: read ACTIVEGAME and compare its game with the active game.
LoadGame ==
  /\ Handle("game")
  /\ \/ /\ gameFile \in {None, Missing}
        /\ nextGame' = None
        /\ pc' = IF activeGame # None THEN "saveGame" ELSE "free"
     \/ /\ gameFile \in IniFiles
        /\ UNCHANGED <<pc, nextGame>>
     \/ /\ gameFile \in Contents \ IniFiles
        /\ GameId[gameFile] = activeGame
        /\ UNCHANGED <<pc, nextGame>>
     \/ /\ gameFile \in Contents \ IniFiles
        /\ GameId[gameFile] # activeGame
        /\ nextGame' = gameFile
        /\ pc' = IF activeGame # None THEN "saveGame" ELSE "enterGame"
  /\ UNCHANGED <<files, svc, boots, notes, nextCore, core, game, hook, coreDb,
                 gameDb>>

\* stopGame: save the game's time, when GameTimes has it ...
SaveGame ==
  /\ pc = "saveGame"
  /\ pc' = "stopGame"
  /\ IF activeGame \in Ids /\ gameTimes[activeGame] > 0
       THEN UpdateGame(activeGame, gameTimes[activeGame])
       ELSE UNCHANGED gameRows
  /\ UNCHANGED <<files, ctl, nextCore, nextGame, core, game, hook, coreDb,
                 gameEvents>>

\* Mutant: the total of a game is looked up after it is cleared.
NoSeconds(g) == 0

GameSeconds(g) == IF g \in Ids THEN Seconds(gameTimes[g]) ELSE 0

\* ... clear it, and add its stop event.  Its path stays in activePath.
StopGame ==
  /\ pc = "stopGame"
  /\ activeGame' = None
  /\ AddGameEvent("stop", activeGame, GameSeconds(activeGame))
  /\ hook' = Hook("game_stop", activeGame, gameTimes)
  /\ pc' = IF nextGame = None THEN "free" ELSE "enterGame"
  /\ svc' = IF svc = "stopping" THEN "stopped" ELSE svc
  /\ UNCHANGED <<files, boots, notes, got, nextCore, nextGame, core,
                 activePath, gameTimes, coreDb, gameRows>>

\* GetGame, as GetCore.
LoadGameTime(id) ==
  IF gameTimes[id] = Absent
    THEN \/ gameTimes' = [gameTimes EXCEPT ![id] = Seconds(gameRows[id])]
         \/ DbMayFail /\ UNCHANGED gameTimes
    ELSE UNCHANGED gameTimes

\* The rest of loadGame: the new game becomes active.  Under an arcade core
\* the active game is named after the core, but the event after the file.
EnterGame ==
  LET id == GameId[nextGame]
      path == GamePath[nextGame]
      system == LookupName(activeCore, path)
  IN
  /\ pc = "enterGame"
  /\ pc' = "free"
  /\ nextGame' = None
  /\ activeGame' = IF system = Arcade THEN activeCore ELSE id
  /\ activePath' = path
  /\ SetSystem(activeCore, path)
  /\ LoadGameTime(id)
  /\ AddGameEvent("start", id, Seconds(gameTimes'[id]))
  /\ hook' = Hook("game_start", id, gameTimes')
  /\ UNCHANGED <<files, ctl, nextCore, activeCore, coreTimes, coreDb,
                 gameRows>>

\* loadRecent: the newest entry of a recents file, if it names a game, is
\* written to ACTIVEGAME.  No mutex is taken.
LoadRecent ==
  /\ got = "recent"
  /\ got' = None
  /\ \/ UNCHANGED <<gameFile, notes>>
     \/ \E newest \in Contents :
          gameFile' = newest /\ notes' = Notified("game")
  /\ UNCHANGED <<coreFile, writes, svc, boots, lock, core, game, hook, coreDb,
                 gameDb>>

\* trackMenu: a menu event is added, without the mutex.  Such events belong
\* to no session and are not kept here.
TrackMenu ==
  /\ got = "menu"
  /\ got' = None
  /\ UNCHANGED <<files, svc, boots, notes, lock, core, game, hook, coreDb,
                 gameDb>>

-----------------------------------------------------------------------------
(* The ticker: one second passes.                                          *)

Ticking == svc \in {"up", "closing", "stopped"}

\* Mutant: off by one in the interval.
SaveDueLate(time) == SaveSeconds > 0 /\ time % (SaveSeconds + 1) = 0

SaveDue(time) == SaveSeconds > 0 /\ time % SaveSeconds = 0

CountsCore == activeCore # None /\ coreTimes[activeCore] # Absent

CountsGame == activeGame \in Ids /\ gameTimes[activeGame] # Absent

\* A tick that counts nothing is left out.
TickCore ==
  LET time == coreTimes[activeCore] + 1 IN
  /\ Ticking
  /\ pc = "free"
  /\ pc' = "tickGame"
  /\ CountsCore \/ CountsGame
  /\ CountsCore => coreTimes[activeCore] < MaxTime
  /\ CountsGame => gameTimes[activeGame] < MaxTime
  /\ IF CountsCore
       THEN /\ coreTimes' = [coreTimes EXCEPT ![activeCore] = time]
            /\ IF SaveDue(time) THEN UpdateCore(activeCore, time)
                                ELSE UNCHANGED coreRows
       ELSE UNCHANGED <<coreTimes, coreRows>>
  /\ UNCHANGED <<files, ctl, nextCore, nextGame, activeCore, activeSystem,
                 game, hook, coreEvents, gameDb>>

TickGame ==
  LET time == gameTimes[activeGame] + 1 IN
  /\ pc = "tickGame"
  /\ pc' = "free"
  /\ IF CountsGame
       THEN /\ gameTimes' = [gameTimes EXCEPT ![activeGame] = time]
            /\ IF SaveDue(time) THEN UpdateGame(activeGame, time)
                                ELSE UNCHANGED gameRows
       ELSE UNCHANGED <<gameTimes, gameRows>>
  /\ UNCHANGED <<files, ctl, nextCore, nextGame, core, activeGame, activePath,
                 hook, coreDb, gameEvents>>

-----------------------------------------------------------------------------
(* Stopping the service, and losing it.                                    *)

\* The stop function closes the watcher.  An event its goroutine has already
\* taken is still handled.
CloseWatcher ==
  /\ svc = "up"
  /\ svc' = "closing"
  /\ notes' = <<>>
  /\ UNCHANGED <<files, boots, got, lock, core, game, hook, coreDb, gameDb>>

\* Then it calls StopAll: stopCore, and stopGame.
StopAll ==
  /\ svc = "closing"
  /\ pc = "free"
  /\ nextCore' = None
  /\ nextGame' = None
  /\ pc' = CASE activeCore # None -> "saveCore"
             [] activeCore = None /\ activeGame # None -> "saveGame"
             [] OTHER -> "free"
  /\ svc' = IF pc' = "free" THEN "stopped" ELSE "stopping"
  /\ UNCHANGED <<files, boots, notes, got, core, game, hook, coreDb, gameDb>>

\* Mutant: the exit waits until no core is active.
ExitWhenIdle ==
  /\ svc = "stopped"
  /\ activeCore = None
  /\ Die
  /\ UNCHANGED files

\* os.Exit, which waits for no handler.
Exit ==
  /\ svc = "stopped"
  /\ Die
  /\ UNCHANGED files

\* The process is killed, or dies of a fatal error.
Kill ==
  /\ svc # "down"
  /\ Die
  /\ UNCHANGED files

\* The power goes: /tmp is in memory, so its files are lost as well.
PowerLoss ==
  /\ svc # "down"
  /\ Die
  /\ coreFile' = Missing
  /\ gameFile' = Missing
  /\ UNCHANGED writes

-----------------------------------------------------------------------------
Init ==
  /\ coreFile = Missing
  /\ gameFile = Missing
  /\ writes = 0
  /\ svc = "down"
  /\ boots = 0
  /\ notes = <<>>
  /\ got = None
  /\ pc = "free"
  /\ nextCore = None
  /\ nextGame = None
  /\ activeCore = None
  /\ activeSystem = None
  /\ activeGame = None
  /\ activePath = None
  /\ coreTimes = [c \in Cores |-> Absent]
  /\ gameTimes = [g \in Ids |-> Absent]
  /\ hook = NoHook
  /\ coreRows = [c \in Cores |-> Absent]
  /\ gameRows = [g \in Ids |-> Absent]
  /\ coreEvents = <<>>
  /\ gameEvents = <<>>

Starting ==
  FixCores \/ FixGames \/ EnsureActiveGame \/ StartFileWatch

\* The handlers' steps, and those of the stop function that share them.
Handling ==
  \/ Receive
  \/ LoadCore \/ SaveCore \/ StopCore \/ EnterCore \/ StartCore
  \/ LoadGame \/ SaveGame \/ StopGame \/ EnterGame
  \/ LoadRecent \/ TrackMenu

Next ==
  \/ Environment
  \/ Boot \/ Starting
  \/ Handling
  \/ TickCore \/ TickGame
  \/ CloseWatcher \/ StopAll \/ Exit
  \/ Kill \/ PowerLoss

Spec == Init /\ [][Next]_vars

\* The process runs while it is up: its startup and its watcher goroutine go
\* on, and Go's mutex starves no goroutine that waits for it.  Nothing forces
\* other programs to write, a second to pass, or the service to be stopped.
Fairness ==
  /\ WF_vars(Starting)
  /\ WF_vars(Receive \/ LoadRecent \/ TrackMenu)
  /\ WF_vars(SaveCore \/ StopCore \/ EnterCore \/ StartCore)
  /\ WF_vars(SaveGame \/ StopGame \/ EnterGame \/ TickGame)
  /\ SF_vars(LoadCore)
  /\ SF_vars(LoadGame)
  /\ SF_vars(StopAll)
  /\ WF_vars(Exit)

FairSpec == Spec /\ Fairness

-----------------------------------------------------------------------------
(* What the play log promises.                                             *)

FilesOK ==
  /\ coreFile \in Cores \cup {Menu, None, Missing}
  /\ gameFile \in Contents \cup {None, Missing}
  /\ writes \in 0 .. MaxWrites

ServiceOK ==
  /\ svc \in {"down", "fixCores", "fixGames", "init", "watch", "up",
              "closing", "stopping", "stopped"}
  /\ boots \in 0 .. MaxBoots
  /\ notes \in Seq(Kinds)
  /\ got \in Kinds \cup {None}

LockOK ==
  /\ pc \in {"free", "saveCore", "stopCore", "enterCore", "startCore",
             "saveGame", "stopGame", "enterGame", "tickGame"}
  /\ nextCore \in Cores \cup {None}
  /\ nextGame \in Contents \cup {None}

CoreOK ==
  /\ activeCore \in Cores \cup {None}
  /\ activeSystem \in Systems \cup {None}
  /\ coreTimes \in [Cores -> Nat \cup {Absent}]

GameOK ==
  /\ activeGame \in Ids \cup Cores \cup {None}
  /\ activePath \in Paths \cup {None}
  /\ gameTimes \in [Ids -> Nat \cup {Absent}]

HookOK ==
  hook \in [on : {"none", "core_start", "core_stop", "game_start",
                  "game_stop"},
            target : Ids \cup Cores \cup {None},
            arg : {"path", "empty"}]

DbOK ==
  /\ coreRows \in [Cores -> Nat \cup {Absent}]
  /\ coreEvents \in Seq(Event(Cores))
  /\ gameRows \in [Ids -> Nat \cup {Absent}]
  /\ gameEvents \in Seq(Event(Ids \cup Cores))

\* Every variable keeps its type, whatever the database calls return: the
\* times in the maps and tables are never negative, and a row names a core or
\* a game.
TypeOK ==
  /\ FilesOK /\ ServiceOK /\ LockOK /\ CoreOK /\ GameOK /\ HookOK /\ DbOK

-----------------------------------------------------------------------------
(* The sessions of the events table.                                       *)

CoreLog == INSTANCE SessionLog WITH
  Targets <- Cores,
  log <- coreEvents,
  saved <- [c \in Cores |-> Seconds(coreRows[c])]

GameLog == INSTANCE SessionLog WITH
  Targets <- Ids,
  log <- gameEvents,
  saved <- [g \in Ids |-> Seconds(gameRows[g])]

\* The core events and core times are a session log: sessions of cores open
\* and close one at a time, a stop row closes the session that is open, under
\* its name, every row carries the seconds then saved, and seconds are only
\* added to the open session.  So it stays when the power goes between any
\* two writes and FixPowerLoss repairs what is left.
CoreSessions == CoreLog!Spec

\* The same of the game events and game times.
GameSessions == GameLog!Spec

\* No core session starts from another total than the one its core's last
\* session ended with.
CoreTimeHasNoGaps == CoreLog!NoGaps

\* The sessions the table shows as open are the ones the tracker is in: at
\* rest, after the repair, a start row is the last one of its kind exactly
\* when its core (its game) is the active one.
AtRest == pc = "free" /\ svc \notin {"down", "fixCores", "fixGames"}

OpenCoreIsActive ==
  AtRest =>
    IF activeCore = None
      THEN ~IsOpen(coreEvents)
      ELSE IsOpen(coreEvents) /\ LastOf(coreEvents).target = activeCore

OpenGameIsActive ==
  AtRest =>
    IF activeGame = None
      THEN ~IsOpen(gameEvents)
      ELSE IsOpen(gameEvents) /\ LastOf(gameEvents).target = activeGame

\* docs/playlog.md: "PlayLog always saves the current stats when you exit to
\* the MiSTer menu or launch a new game/core": what is counted for a core
\* that is no longer active is in the database.
CoreStatsSaved ==
  AtRest =>
    \A c \in Cores \ {activeCore} :
      coreTimes[c] \in {Absent, Seconds(coreRows[c])}

\* The same of games.
GameStatsSaved ==
  AtRest =>
    \A g \in Ids \ {activeGame} :
      gameTimes[g] \in {Absent, Seconds(gameRows[g])}

\* Losing power loses less than one save interval of the active core and of
\* the active game, also when a session resumes in the middle of an interval.
LossBounded ==
  SaveSeconds > 0 /\ pc = "free" =>
    /\ activeCore # None =>
         Seconds(coreTimes[activeCore])
           < Seconds(coreRows[activeCore]) + SaveSeconds
    /\ activeGame \in Ids =>
         Seconds(gameTimes[activeGame])
           < Seconds(gameRows[activeGame]) + SaveSeconds

\* Whatever fails and whenever the process dies, saved time is never
\* overwritten by less.
SavedTimeGrows ==
  [][/\ \A c \in Cores : coreRows'[c] >= coreRows[c]
     /\ \A g \in Ids : gameRows'[g] >= gameRows[g]]_vars

\* The active system is the one the active core and the path of the last game
\* determine now, in whichever order the two files were written.
SystemFits ==
  AtRest => activeSystem = LookupName(activeCore, activePath)

\* A core that MiSTer writes to CORENAME while the watcher runs is the active
\* core in the end, and the menu ends the active core, unless the service
\* stops first.
CoreNameFollowed ==
  (svc = "up" /\ got = "core")
    ~> \/ activeCore = (IF coreFile \in Cores THEN coreFile ELSE None)
       \/ svc # "up"

\* A service that is told to stop is gone in the end: StopAll always gets the
\* mutex and finishes.
StopEnds == svc = "closing" ~> svc = "down"

GameFollowed ==
  \/ activeGame \in Cores
  \/ /\ gameFile \in {None, Missing} => activeGame = None
     /\ gameFile \in Contents \ IniFiles => activeGame = GameId[gameFile]

\* ACTIVEGAME is followed in the same way: once a run of the service agrees
\* with the file, it agrees again after whatever is written to it, however
\* the writes and the handlers interleave, unless the service stops first.
\* (A file older than the run is not looked at; an arcade core may take the
\* place of the game.)
GameFileFollowed ==
  \A run \in 1..MaxBoots :
    LET watching == svc = "up" /\ boots = run
    IN  [](watching /\ GameFollowed => []<>(watching => GameFollowed))
=============================================================================
