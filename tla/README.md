# Verification of mrext

mrext is a collection of Go programs for the MiSTer FPGA: services that follow
what is being played (PlayLog, LastPlayed, Remote), a web remote, an NFC card
launcher, and small tools around game files. This directory holds TLA+ models of
its stateful parts, TLC configurations that check them on small instances, and
TLAPS proofs of the properties that matter most for every instance.

Paths below are relative to `src/`.

## 1. The system

| Component | State it keeps | Operations | Talks to |
| --- | --- | --- | --- |
| Tracker (`pkg/tracker`) | active core, system, game and path; seconds per core and game; all behind one mutex | LoadCore, loadGame, loadRecent, trackMenu, tick (each second), StopAll, hooks | files in `/tmp` through inotify; a `Db` and an event callback |
| PlayLog (`cmd/playlog`) | SQLite tables `core_times`, `game_times`, `events` | FixPowerLoss at start, Update/Get/AddEvent | is the `Db` of a Tracker |
| Service daemon (`pkg/service`) | a pid file and a copy of the program in `/tmp`, the process | Start, Stop, Restart, startService, the SIGTERM goroutine | kernel: processes, signals, ETXTBSY |
| LastPlayed (`cmd/lastplayed`) | a menu folder of numbered launchers | addToRecentFolder on each game start | Tracker's event callback |
| Remote WebSocket (`cmd/remote/websocket`) | a group of connections behind a mutex | Add, Remove, Clean, Broadcast, Handle | Tracker and index broadcasts, HTTP handlers |
| NFC service (`cmd/nfc`) | active card, launcher switch (and its file), mappings | poll goroutine, mapping watcher, socket commands; writing of cards | reader, inotify, launchers |
| Games, gamesdb (`pkg/games`, `pkg/gamesdb`, `pkg/txtindex`, `pkg/sqlindex`) | the search index | matching paths to systems, building the index, searching | Remote, Search, Random |
| Remote games/systems (`cmd/remote/games`) | the index job | start of the job, status, search | gamesdb, WebSocket |
| Remote menu (`cmd/remote/menu`) | folders and launchers of the menu on the SD card | create, rename, delete | launchers, the link to the cores |
| Remote settings, wallpapers, music, scripts, control | files of the SD card, mostly one call each | HTTP handlers | MiSTer files |
| Claude endpoints (`cmd/remote/claude`) | a cache of installed games behind a mutex; settings; a client per request | chat, suggestions, playlists, clear cache, update settings | Tracker, SAM's files, HTTP |
| LaunchSync (`cmd/launchsync`) | sync files and the launchers written for them | update, download, clean, index, link | games search, launchers |
| Launchers (`pkg/mister/launchers.go`) | one temporary .mgl file, the pipe of MiSTer, ACTIVEGAME | launch a game, file, random game or core; make and delete launchers | games lookup, MiSTer |
| MiSTer files (rest of `pkg/mister`) | startup script, `MiSTer.ini`, names, ACTIVEGAME | load, change and save each | every program |
| Tools (favorites, random, search, samindex, ...) | none that lasts beyond a call | sequential | the packages |
| Input, framebuffer, curses, config, metadata, build | device handles, constants | ioctl, drawing, downloads | kernel, network |

How they interact. MiSTer's own program writes `CORENAME`, recents files and the
menu path to `/tmp`; launchers (and Tracker itself, from a recents file) write
`ACTIVEGAME`. inotify tells each Tracker, whose watcher goroutine runs one
handler at a time; the ticker goroutine and the stop function compete with it for
the mutex. In PlayLog a Tracker writes to SQLite; in LastPlayed its event callback
renumbers the folder; in Remote its callback broadcasts to the WebSocket group,
while HTTP handlers and the index job do the same from their own goroutines. All
services are started, found and stopped through `pkg/service`.

What is hard here, and what makes it correct:

* **Tracker and PlayLog.** Crashes between any two database writes; notifications
  that arrive merged and late; the order in which two files are written; a
  ticker that saves the same rows as the handlers; database errors that are only
  logged. Correct: the events are a series of sessions, totals agree with saved
  times, nothing saved is overwritten by less, at most one save interval is lost,
  what the tables show as open is what the tracker is in.
* **Service.** Commands and daemons are separate processes that share two files.
  Correct: one service at most, it is found while it runs, a signalled one ends,
  restart comes back.
* **LastPlayed.** A rename loop that may be interrupted. Correct: each game once,
  in order of play, within the limit, the newest first.
* **WebSocket.** Handlers that come and go while other goroutines broadcast.
  Correct: every connected client is sent each event; nobody waits for ever.
* **NFC.** Polling, misreads and unplugging; commands and restarts in between;
  editors that write a file in several steps. Correct: a card is launched once,
  not while launching is disabled, and edits are followed.
* **Index job.** Two requests at once, clients that read its state while it
  changes, a failed build. Correct: searches see whole builds and lose nothing,
  everybody who waits is served, clients are shown the true state.
* **Launching.** Remote, cards and scripts write one temporary file and one pipe
  without a lock; systems share folders, extensions and cores. Correct: what was
  launched alone is what runs, in the core and under the set name of its system.
* **Menu folders and LaunchSync.** Requests and a sync run change one folder; each
  looks and then acts; a run may fail or be cut off anywhere. Correct: a run
  that ends undisturbed repairs whatever was left behind.
* **Claude endpoints.** Concurrent requests share a cache whose filling takes
  seconds and may panic; the Tracker and SAM change while a request reads them.
  Correct: everybody is answered, answers name installed games, and a context's
  name and system are those of its path.
* **Files rewritten in place** (startup script, ini). Other people's lines must
  survive.

`PROJECT.json` lists the hazards line by line, each with the properties that
cover it or the reason why none does.

## 2. Modules

| Module | Models | Role |
| --- | --- | --- |
| `SessionLog` | what the play log promises | abstract specification |
| `SearchIndex` | what searches are promised of the index | abstract specification |
| `RecentList` | what the folder of recent games is meant to show | abstract specification |
| `Tracker` | `pkg/tracker/tracker.go`, `files.go`; `cmd/playlog/main.go`, `db.go`; `SetActiveGame` of `pkg/mister/fs.go` | detailed; implements `SessionLog` twice |
| `Service` | `pkg/service/service.go` | commands and daemons |
| `RecentFolder` | `addToRecentFolder` of `cmd/lastplayed/main.go` | one call as a sequence of file operations; implements `RecentList` until a call is interrupted |
| `ConnGroup` | `cmd/remote/websocket/websocket.go` | handlers and broadcasters |
| `NfcReader` | `startService`, `pollDevice`, `ServiceState` of `cmd/nfc/main.go`; `launcher.go` | poll goroutine, watcher, commands |
| `GamesIndex` | `GenerateIndex`, `GetIndexingStatus`, `Search` of `cmd/remote/games/games.go`; `NewNamesIndex` and the searches of `pkg/gamesdb/gamesdb.go` | requests, the job, searches, WebSocket clients; implements `SearchIndex` |
| `GameSystems` | the table of `pkg/games/systems.go` | data |
| `GameLookup` | `games.go`, `paths.go`, `hooks.go` of `pkg/games`; `GenerateMgl` | operators |
| `Launching` | the launches of `pkg/mister/launchers.go`, from Remote, cards and scripts | requests, the temporary file, MiSTer; uses `GameLookup` |
| `MenuFolder` | `cmd/remote/menu/files.go`, `CreateLauncher`, `TrySetupArcadeCoresLink` | requests on a folder |
| `LaunchSync` | `cmd/launchsync`, `RemoveEmptyDirs`, `MoveFile` | a sync run on a folder that `MenuFolder`'s requests change too |
| `ClaudeRequests` | `cmd/remote/claude/handlers.go`; `SendMessage`, the check of answers | concurrent requests |
| `ClaudeContext` | `buildGameContext` and what it calls, in `client.go` | one reader, Tracker and SAM |
| `MC*` | | constants of the instances; `MCRemote`, `MCClaude` and `MCLaunchers` put components side by side (3) |
| `SessionLogProofs`, `TrackerProofs`, `SessionProofs` | | theorems about `SessionLog`, `Tracker`, and the refinement of the one by the other |
| `ServiceProofs` | | theorems about `Service` and `ConnGroup` |
| `NfcReaderProofs`, `GamesIndexProofs` | | theorems about these modules |
| `LauncherProofs` | | theorems about `Launching`, `LaunchSync` and `RecentFolder` |
| `ClaudeProofs` | | theorems about `ClaudeContext` and `ClaudeRequests` |

Definitions named "Mutant" are plausible bugs of the definition that follows
them. No specification uses them; each stands for the evidence that a property
can tell the code from its broken form.

### SessionLog and Tracker

`SessionLog` has a log of rows and the saved seconds of each target, and three
actions: `Start`, `Save`, `Stop`. One session is open at most, time is credited to
the open session only, and a row carries what is saved at that moment.

`Tracker` has the fields of the Go struct under their own names, the tables
(`coreRows`, `gameRows`: absent or seconds; `coreEvents`, `gameEvents`: the rows
of `events` split by kind, as FixPowerLoss reads them), the two files, the queue
of notifications and the mutex. `pc` is where the holder of the mutex is. A
handler is one action per database write:

| Code | Actions |
| --- | --- |
| `LoadCore` | `LoadCore`, then `SaveCore` and `StopCore` (stopCore), `EnterCore`, `StartCore` |
| `loadGame` | `LoadGame`, then `SaveGame` and `StopGame` (stopGame), `EnterGame` |
| `loadRecent`, `trackMenu` | `LoadRecent`, `TrackMenu` (without the mutex, as in the code) |
| `tick` | `TickCore`, `TickGame` |
| `startService` of PlayLog | `Boot`, `FixCores`, `FixGames` (FixPowerLoss), `LoadCore`, `EnsureActiveGame`, `StartFileWatch` |
| its stop function | `CloseWatcher`, `StopAll`, `Exit` |
| other programs, kernel | `WriteCore`, `WriteGame`, `WriteOther`, `Kill`, `PowerLoss` (which empties `/tmp` too) |

Abstractions: texts are members of small sets; the id, path and system of an
ACTIVEGAME content are constant functions (`GameId`, `GamePath`, `SystemOf`), and
`NameMap` is the set of pairs that LookupName accepts. Timestamps are the order of
the rows. The first step of a handler reads its file and compares. A tick that
would count nothing is left out, and the in-memory `Events` list, which nothing
reads, as well.

`CoreLog` and `GameLog` are the refinement mappings: the log is the kind's
events, the saved seconds are the kind's rows with 0 for none. `CoreSessions` and
`GameSessions` are the abstract specification under them. The second one is
checked without arcade cores only: an arcade core takes the place of its .mra
file's own id without ending it (see 5).

FixPowerLoss takes the row with the newest timestamp (`LastOf`: the last one, as the
clock grows); errors of its queries, like those of the calls of watcher.Add in
StartFileWatch, are not modelled step by step.

### Service

A command is `idle` or at a place of Start, Stop or Restart; a daemon is at a
place of startService, setupStopService or stopService. The pid file is missing,
empty (os.WriteFile truncates before it writes), or a pid. `runs` and `writers`
carry the kernel's ETXTBSY rule: a file that is executed cannot be opened for
writing and the other way round. No line of the code says so, and both Start and
Restart depend on it. Running reads the pid file twice and signals; it is one
step here, and Stop's second read (`StopRead`) is a step of its own. A daemon is
reaped as soon as it ends, since the command that started it has exited. Pids
are not used again while a file or a command still has them.

### RecentFolder

A file is a number, a game and a time. `Play` writes entry 00, `ReadFolder`
lists the files (`recentFiles`), each `Renumber` takes the newest that is left and
removes or renames it by the path it had when it was read, and rename replaces a
file of that name; `Renumbered` ends the loop. Sorting by time and taking the
newest each time are the same order. `Crash` may come between any two. Modification times are distinct and grow. Links of arcade games
(which the loop skips) are left out.

`RecentList` is the list without the numbers: a set of games with the times they
were played. `Play` puts a game first, and the oldest goes if the list is full;
`Lose` is the fault of section 5, an action of its own that only the first game can
meet. Under the refinement (`Recents`) the list is the folder, or the folder before
the call while one is under way, so that the end of the call (`Renumbered`) is the
one step that changes it. `ListKept` demands this of all steps up to the first
interrupted call; one that is cut off leaves files that are renumbered by the next.

### ConnGroup

A handler is `new`, `connected`, `closed` or `gone`; `id` is the index that Add
returned and by which Remove deletes. Broadcast is `Begin`, one `Send` for each
connection, and `Done`, with the mutex held in between, as in the code. `Clean`
removes nil connections, of which there are none. What a handler sends its own
client (on connecting and as answers) takes no mutex in the code and is left out.

### NfcReader

`pc` is where the poll goroutine is: it opens the reader (`Open`), initialises it
(`InitReader`) and polls; an input/output error opens it again (`PollFails`). If the
opening or the initialising fails, plugged in or not, the goroutine has `ended` for
this run of the service. The commands set the switch in memory and then its file,
and an error of the file is only logged (`Disable`, `Enable`). `active`, `text` and `aged` the active card,
whether its text was read, and whether five seconds have passed since its scan.
`PollCard` and `PollNothing` are pollDevice with SetActiveCard; a misread NTAG
changes nothing and is polled again, a misread card of another type becomes
active without text. `Decide` looks at the switch, `LaunchCard` launches. `fresh`
is the second after a load in which write events are ignored, `sleep` the second
before one. An edit truncates the file and then writes it, or deletes and creates
it. What the text launches, and what the mappings change in it, is left out.
Four variables are there for the properties only: how often the card on the
reader was launched (`launches`), whether launching has to be off (`off`: since a
command of this run, or of an earlier one whose file could be written), whether it
was enabled since the scan (`enabled`), and whether an edit began with nothing
pending (`alone`).

### GamesIndex

Requests look at `indexing` without the mutex (`Ask`), wait for it (`Lock`) and
start the job, which keeps it to its end (`Unlock`). The job opens the database,
walks the systems one after the other (`Walk`), and each system's names are
committed by a goroutine of its own (`UpdateNames`); at the end the job waits for
them (`Wait`). An error of a walk, or of a commit when the job waits for it
(`WaitFails`), closes the database while such calls may still run. bbolt's file lock is `writing` and
`reading`. A search is `Search`, `OpenReadOnly`, `View`, `CloseRead`. A client's
status is computed (`GetStatus`) and sent (`SendStatus`) in two steps, between
which a `Broadcast` may pass; each broadcast reaches all clients in one step here,
and what becomes of the group is the subject of `ConnGroup`. The status is
abstracted to whether a build is going on. `stable`, `indexed`, `sealed` and
`passed` are there for the properties only. A power loss during a build, which is
made without syncing, may leave a damaged file and is left out.

`SearchIndex` has the index as searches see it: a content that a build replaces in
one step (`Succeed`, `Fail`, or `Restart` when the server is killed), never takes games
away from, and during which no search is answered. Under the refinement (`Index`) a
build is going on while the job has the database open for writing, and its content
is what the last one left (`sealed`); `names`, which grows goroutine by goroutine
in between, is not visible. `BuildsAtOnce` is the abstract specification under it.

### GameSystems, GameLookup, Launching

A system is a record of its id, aliases, set name, folders, core and slots, copied
from the Go table. A path is the folder below `games` it lies in and its extension:
all that the lookups look at. `FolderPrefix` lists the pairs of folders of which
one name begins with the other, since FolderToSystems compares prefixes of whole
paths. Go ranges over maps in any order, so a lookup returns a set of results, and
a launch takes any of them. A hook may fail; of what it does only the slot it
gives the file is kept. `TableFacts` states what the lookups owe to the table: a
slot that names none of the core is for .mra files only, and no two systems list
files of one extension in one folder. It is a fact about these data, which TLC
evaluates; a table that a system is added to has to satisfy it again.

A launch is `CreateTemp` (which empties the file), `WriteTemp`, `Send` to the pipe,
`SetActiveGame`, `End`; `TakeCommand` is MiSTer, which reads the temporary file then.
If two launches write at once, the file may be torn. `last` is there for
`LastLaunchRuns`: the last launch, and whether anything else was under way when it
began; a launch that begins later replaces it.

### MenuFolder and LaunchSync

A folder has subfolders, files (a name and a kind: `mra`, `mgl`, or the placeholder
of a game that is `missing`) and links to the arcade cores. Every handler first
changes files and then sets the link up in two steps (`Look`, `SetLink`), as
TrySetupArcadeCoresLink reads the folder and then acts. LaunchSync does the same
between its own steps: `Read`; `Download`, `FinishCopy` (updateSyncFile; while the
copy runs the file is cut off, `local = 0`); `CleanFile`, `CleanLink`, `Cleaned`, `PruneEmpty`,
`Prune` (checkForChanges); `MakeIndex`; `LinkGame`, `RemoveOther` for each game; `Finish`.
Each step that can fail has its own action (`SetUpFails` is an error of the link,
which also a request can cause that makes or removes it in between: `Raced`), and
`CutOff` ends the run anywhere. `index` only grows, as NewNamesIndex removes no names. One
sync file is modelled, with or without url. That a search finds a game is
membership in `index`. Sections with the same folder and name are left out.

### ClaudeRequests and ClaudeContext

A request is at `cache`, `lock`, `scan` (holding the mutex), `filter`, `send`, `calling`,
`done`. The panic of a division by zero and the one of a negative index abort the
request; deferred unlocks run, as net/http recovers. `ScanSystem` may find any
games of the system, up to the limit; time-outs end the scan anywhere. The
client of a request is a record in its job. Texts are left out except for the
names in an answer; `Within` says which names contain which.

In `ClaudeContext` the request reads the core, then the names, then the path
(`ReadCore`, `ReadName`, `ReadPath`), and the Tracker's handlers set them one after the
other (`LoadGame`, `LoadPath`, `NameGame`; `LoadCore`, `NameGame`). `FromPath` makes the
system of the path, and the name too unless nothing is left of it without regions
and versions, as of "(USA).nes". What SAM has written is read once.

## 3. Runs

| Run | What it shows | Instance |
| --- | --- | --- |
| `cores_and_games` | type, sessions of cores and games (refinement), agreement of tables, memory and open sessions, bounded loss, the active system; CORENAME and ACTIVEGAME are followed; a stopping service ends | 2 cores, 2 games, 3 writes, 2 starts, up to 3 s, saves every 2 s, kill or power loss anywhere; fair |
| `faults` | saved time never shrinks when any database call may fail | an arcade core, an .ini text, 2 writes, 2 starts |
| `remote` | one service; signalled commands end; no handler is stuck | 1 command at a time, 3 pids, all faults; 3 clients, 2 broadcasters |
| `nfc_reader` | launch once, not while disabled, after misreads and errors; edits followed | an NTAG and a Mifare card, 2 contents, 4 acts of users, 2 starts, any number of errors |
| `games_index` | to the searches a build is one step (refinement); they lose nothing and end; the client's status is true | 2 systems with a game each, 2 requests, 1 search, 1 client, 1 change of the disk, failing opens, walks and writes, kills |
| `claude` | requests end; playlists hold games that were offered; a context's name and system are its path's | 2 requests, 3 games of 2 systems (two with one name), a third system without folder, 2 themes, 3 settings, 1 edit; 2 cores, 4 paths (one with no name but its region), 3 changes |
| `launchers` | what was launched alone runs, in its system; arcade launchers have their link and every game is shown after a whole run; the folder of recent games is well numbered after a whole call, and the list of the last games until one is interrupted (refinement) | every file type of every system and every name, one launch; 2 requests, 3 launches; 3 games, 2 versions, 1 request, 1 failure, 2 runs; 4 games, 3 places, 6 plays, 2 crashes |
| `arcade_game_stats`, `service_restart_lost`, `recent_replay`, `websocket_lost`, `launchsync_update` | disagreements of code and documentation (5) | minimal |

Three of the MC modules put components that share no state side by side: a
behaviour chooses its `part` in the first state and stays with it, so the run checks
each component on its own instance, with the properties of all. `ContextFits`, for
example, says nothing about requests, and the requests run with the context at rest.
What a run shows of one part does not depend on the others.

Why the bounds are enough. In `Tracker` a start, a kill or loss at any point, a
second start and its repair are all there with two starts; two writes switch from
one core or game to another and the third back; three seconds cross the save
interval of two and leave a rest in the next one. In `Service` three pids are a
daemon that is ending, the one that replaces it, and one more that a late file
might still name. Six plays fill three places twice over. Three clients are the
fewest for which one removal shifts another client's index and a third is
watched. In `NfcReader` four acts are, for example, a card, a disable, a removal
and the card again; each file event in the model comes from one of at most four
edits. In `GamesIndex` two requests are one that builds and one that passes the
check and waits, or comes late.

In `Launching` the lookups are checked for the whole table, one launch each; the
interleaving needs two requests, and the third launch finds what two have left. In
`LaunchSync` one run meets a failure, a cut or a request at any step, and the next
one must repair what it left. The arcade game, the game in a subfolder and the one
that an update replaces are one each. In `ClaudeRequests` one request fills or
clears what the other reads; two games with one name and one with a name inside
the answer's make each way of matching happen; the limit of two games is met by a
collection of one, two and three.

Deadlock is checked in `remote` and `games_index`. In the others a bound (on writes,
starts, plays, acts or launches) ends every behaviour, and in `service_restart_lost` a
Restart may wait for a daemon it never signalled.

Fairness, and why the code justifies it:

* `Tracker`: startup and the watcher's goroutine go on (weak fairness); whoever
  holds the mutex goes on; who waits for it gets it (strong fairness for
  `LoadCore`, `LoadGame`, `StopAll`), as Go's mutex hands over to a waiter that has
  been starved for 1 ms. No write, second, stop or crash is forced.
* `Service`: each process takes its steps. No command is forced, no fault either.
* `ConnGroup`: a broadcast goes on, and a handler that leaves gets the mutex. That
  each write to a client ends is an assumption: the code sets no deadline, and a
  client that does not read would keep the mutex. `HandlersEnd` shows only that
  nothing else does.
* `NfcReader`: the goroutines run, time passes, an editor finishes what it began,
  and polls that may fail or misread an NTAG, if there are ever more of them, read
  it at last (strong fairness of `PollCard`). Nothing forces the opening or the
  initialising to succeed: `CardLaunched` ends with the goroutine. That an edit takes
  less than the second the watcher sleeps is an assumption that the code states
  itself (`cmd/nfc/main.go:282`).
* `ClaudeRequests`: handlers go on, a request that waits for the cache's mutex gets
  it (Go's RWMutex does not starve writers), and a call of the API ends by its
  timeout. Nothing is asked of settings, the clock or the rest.
* `GamesIndex`: the same for its goroutines and mutex. bbolt polls the file lock,
  so that a search and a build get it in the end (strong fairness) assumes that
  searches do not follow one another without a gap for ever.

## 4. Proofs

`SessionLogProofs`: `SessionLogCorrect`. The abstract log alternates, totals grow,
no row claims more than is saved, and a session starts where its target's last
one ended. The invariant adds that the last row of each target has at most (if
closed: exactly) what is saved.

`TrackerProofs`: `TypeCorrect` (Spec => []TypeOK) and `SavedTimeNeverShrinks`
(Spec => SavedTimeGrows), from `NamesDistinct` and `ConstantsTyped` alone: with any
database error, kill or power loss. TypeOK is not inductive, so two more facts
are carried: at each place of a handler the core or game it is about to use is
there (`PointInv`: `activeCore # None` where stopCore and StartCore index by it,
`activeGame # None` in stopGame, and so on), and the seconds in memory are never
behind the saved ones (`AheadInv`), which makes every UpdateCore and UpdateGame an
increase.

Two more theorems of `TrackerProofs`. `SystemAlwaysFits` ([]SystemFits) needs no
assumption either: the equation that SystemFits has at rest holds at every place
of every handler (`FitInv`), since the system is set again in each step that changes
the core or the path. `PowerLossIsBounded` (~DbMayFail => []LossBounded): the seconds
counted since the last save are those since the last multiple of the interval
(`IntervalInv`), at every place of the tick as well.

`SessionProofs`: for every instance in which database calls do not fail
(`~DbMayFail`), whatever kills and power losses happen,

* `CoreSessionsHold`: `Spec => CoreSessions`, the refinement of `SessionLog` by the
  core events and times. The invariant `CoreInv` says for each place of the
  mutex's holder which session is open (`OpenInv`), that what was counted for
  other cores is saved (`CountInv`), and that the open session's start row has at
  most the saved time (`StartInv`). The proof has one lemma per action, each
  showing the invariant again and the step of the log it maps to;
* `OpenCoreIsPlayed`, `CoreRestsSaved`: `OpenCoreIsActive` and `CoreStatsSaved`, from
  the same invariant;
* `CoreTimeIsContinuous`: `[]CoreTimeHasNoGaps`, from the refinement and an instance
  of `SessionLogCorrect`;
* `GameSessionsHold`, `OpenGameIsPlayed`, `GameRestsSaved`: the same of games
  (`GameInv`), for name maps without arcade cores (`NoArcade`).

With `DbMayFail` these are false (a lost row breaks the alternation), which is why
the assumption is there and `SavedTimeNeverShrinks` and `SystemAlwaysFits` do without
it; with arcade cores the game half is false, as `arcade_game_stats` shows (the id of
an .mra file that is read before its core has started is never stopped).

`ServiceProofs`:

* `ServiceTypes` ([]TypeOK), for any number of commands;
* `ServiceRunsOnce`: `OneCommand => (Spec => []OneService)`, whatever is killed or
  interrupted or fails. The pid file does not help, as it may be missing while a
  daemon still ends; what does is that the temporary binary cannot be written
  while it is executed. `BinaryInv`: each daemon that has not yet removed the
  binary executes the one that is there, one process at most does, and none while
  Start writes it or is about to execute it. With two
  commands it is false (5), hence `OneCommand`;
* `GroupTypes`: the type invariant of `ConnGroup`; no connection is twice in the
  group (`NoneTwice`), and each one in it has been added (`OnlyAdded`), from which it
  follows that an index fits below the number of clients;
* `BroadcastsReachAll`: `AllConnectedGet`, which the run `websocket_lost` refutes, holds
  as long as each client that leaves is still at its index (`OwnIndexes`): the
  stale index is the only fault. The invariant (`ReachInv`) is that each client
  that has not gone is in the group, and during a broadcast has got the message
  or is still to get it.

`NfcReaderProofs`: `NfcTypes`, `CardsLaunchOnce` ([]LaunchedOnce; `LaunchInv`: a card on
the reader that is not the active one, or whose launch is not over, has not been
launched), `DisabledMeansDisabled`
(`NotWhileDisabled`; `FlagInv` ties `enabled` to the switch between a scan and the
decision, and `off` to the switch and its file).

`GamesIndexProofs`: `IndexTypes`, `IndexedIsFound`, `SearchSeesWholeBuilds`,
`ClientsSeeStatus`. `IndexInv` has a part each for the mutex and the job that keeps
it (`MutexInv`), for bbolt's file lock (`FileInv`: no search has the file open while
a build writes it, and the calls that commit names find it open), for what the
database holds (`NamesInv`), for the games that stay on the disk during a build
(`BuildInv`: in the database, on their way there, or of a system that is still to
be walked), and for the status that clients are about to be sent (`StatusInv`).
`BuildsAreAtOnce` (BuildsAtOnce): the refinement of `SearchIndex` from the same
invariant. One lemma per action that the searches can see: opening begins a build,
closing replaces the content, a view answers, a kill restarts. All others, among
them the goroutines that commit names, are stutters (`StepsUnseen`, `SearchUnseen`).

`LauncherProofs`:

* `LaunchTypes` and `LoneLaunchRuns` ([]LastLaunchRuns). `AloneInv`: while the last
  launch has been alone its request is the only one under way, and for each of
  its places (`StageInv`) the temporary file, the pipe and ACTIVEGAME are as far as
  that. Nothing is assumed of what earlier launches have left in the file;
* `ListedGamesAreTaken` ([]GamesAreTaken) and `GamesRunInTheirSystem`
  ([]RunsInItsSystem), for all files, settings of cores and overlaps of launches,
  from `TableFacts`. The lemmas are that if a system lists a file, the one that is
  taken for it lists its extension too, and its folder unless another's name
  begins it (`TakenMatches`), and that a slot for it is found (`SlotIsFound`, for
  which a set of naturals needs a least element: `LeastIn`). `RightInv` says so of
  each content wherever it is: with a request, in the file, in the pipe, loaded;
* `SyncTypes`, `ArcadeStarts` ([]ArcadeCanStart), `GamesAreShown` ([]EachGameIsShown):
  `ShownInv` says what is true of the games before the one that is being linked,
  as long as the run is calm;
* `RecentTypes`, `RecentsAreNumbered` ([]WellNumbered), `OthersAreKept` ([]OthersStay).
  `RecentInv`: times are distinct, and the entries that the loop has done are
  numbered by their time and of different games. `OthersInv`: each game that the
  folder had is in a file that is still to be done or in one that is done, or
  newer ones fill the places; it counts the games the loop has met (`MetInv`);
* `OwnFilesAreFollowed` (`[](~subscribed => FolderFollowsFile)`) and
  `UpdatesAreFollowed` (`[]FolderFollowsFile` while there are no users and each
  cleaning that an update calls for completes: it neither fails, as it does at a
  folder left empty, nor is cut off, `CleaningCompletes`). `FolderFollowsFile` is what
  the run `launchsync_update` refutes: the theorems show that LaunchSync itself loses
  an update only between putting the new file in place and the end of the cleaning,
  whatever fails or is cut off elsewhere (`FollowInv`);
* `PlayedIsFirstOrLost`: after a whole call, crashes before it or not, the game just
  played is the first entry, unless it was the first before the call
  (`Replayed`): then it is gone. `PlayedIsFirstAfterAnother` is what is left of
  `PlayedIsFirst`, which the run `recent_replay` refutes, under `[]~Replayed`.
  `FirstInv`: the new launcher becomes number 1 with the first renaming (`Fresh`,
  `Placed`) and falls only to the removal of an old entry of its own path;
* `FolderIsTheList` (ListKept): the refinement of `RecentList`. The invariant adds to
  `RecentInv`, `OthersInv` and `FirstInv` that the files a call is done with are the new one and files of
  other games (`MadeInv`). `CallEnds` says what that leaves in the folder; it
  counts games twice, to show that only the oldest of a full list goes
  (`OnlyOldestGoes`) and that it does go (`EndsWithRoom`).

`ClaudeProofs`: `ContextTypes` and `NameAndSystemAreThePaths` ([]ContextFits: the system
for each path in a system's folder, the name for each path that one can be made of), `ClaudeTypes` (mutual exclusion of the
cache's mutex is part of the types), and `PlaylistsAreInstalled`
(`PlaylistIsInstalled`, an action property; `ClaudeInv` bounds the games that are
offered and the count of a request).

The MC modules that put parts side by side: `EachPartRuns`, `EachEndpointRuns` and
`EachLauncherRuns` show that a behaviour of `MCRemote`, `MCClaude` or `MCLaunchers` is one
of each part's own specification, so that every theorem about a part holds there;
`RemotePartsTyped`, `EndpointsTyped` and `LauncherPartsTyped` ([]MCTypeOK) follow.

Apart from `~DbMayFail`, `NoArcade`, `OneCommand`, `OwnIndexes`, `CleaningCompletes` with
`Users = {}`, and `~Replayed`, which the theorems name, the proofs assume only what the modules assume of their constants
(`NamesDistinct`, `ConstantsTyped`, `ServiceConstants`, ...: types, distinct values,
finite sets; `GroupAssumption` of `MCRemote` is that of `ConnGroup`, and `FewAssumption`
of `MCLaunchers` says that the values it picks are among its constants) and `TableFacts`; TLC evaluates each of them on the runs.

Model-checked only:

* liveness, and whatever rests on fairness or ENABLED: `CoreNameFollowed`,
  `GameFileFollowed`, `StopEnds`, `SignalledEnds`, `HandlersEnd`, `CardLaunched`,
  `EditFollowed`, `SearchEnds`, `RequestsEnd`;
* `TableFacts` itself, a finite computation over some hundred systems;
* the runs that expect a violation: their properties are false.

## 5. Where code and documentation differ

With a run that shows it:

* If ACTIVEGAME is read before CORENAME, an arcade game is counted under its .mra
  file's own id ("Arcade/x.mra"). When its core then starts, LoadCore puts the core's
  name in the place of that id without stopping it: what was counted for it since
  its last save is lost (`pkg/tracker/tracker.go:362`; run `arcade_game_stats`). A
  console game is not lost so: LookupName finds Arcade only for an arcade path.
* Restart may end with no service: the old daemon removes its pid file first
  and still executes the temporary binary that Start then cannot open
  (`pkg/service/service.go:128`, `:237`; run `service_restart_lost`).
* Playing the newest game again drops it from the recent folder
  (`cmd/lastplayed/main.go:148`; run `recent_replay`; `PlayedIsFirstOrLost` shows that
  this is the only case).
* A WebSocket connection is removed by an index that earlier removals have made
  stale, so a client that stays loses its events
  (`cmd/remote/websocket/websocket.go:45`; run `websocket_lost`).

* An update that leaves a subfolder of a playlist empty is not applied:
  RemoveEmptyDirs removes the folder and then fails to look into it
  (`pkg/utils/utils.go:271`, called from `cmd/launchsync/syncfiles.go:281`). The new
  file is in place by then, so later runs of a subscribed playlist see no update
  (run `launchsync_update`; `UpdatesAreFollowed` shows that only a
  cleaning that does not complete loses one).

Met while modelling; the properties of the passing runs are stated around them:

* Hooks of cores get an empty argument: execHook is given TargetPath, which only
  games have (`pkg/tracker/tracker.go:263`; `docs/playlog.md:75`).
* A core written to CORENAME between the first LoadCore and the start of the
  watch is not noticed (`cmd/playlog/main.go:36`). `CoreNameFollowed` speaks of
  writes while the watch runs. Likewise an ACTIVEGAME older than the run is not looked
  at: `GameFileFollowed` speaks of a run that has agreed with the file once.
* The poll goroutine of the NFC service ends for good, with the reader plugged in,
  when the reader cannot be opened in its retries or not be initialised
  (`cmd/nfc/main.go:358`, `:371`): a reader that is unplugged and plugged in again
  between the two is enough. `CardLaunched` speaks of a goroutine that runs.
* If the file of the launcher's switch cannot be created or removed, that is only
  logged (`cmd/nfc/main.go:110`, `:119`), and the next start has the switch as it was.
  `NotWhileDisabled` speaks of files that could be written.
* The context that Claude is given may have another game's core
  (`cmd/remote/claude/client.go:464`), as it is read without the Tracker's mutex, and
  another game's name if none can be made of the path: none is left of it without
  regions and versions (`:501`), or it has no extension. `ContextFits` speaks of the
  name otherwise, and of the system.
* Two start commands at once can leave a running daemon without a pid file
  (`pkg/service/service.go:167`, `:174`). `remote` has one command at a time.
* Restart just after a start sees no pid file, signals nobody and then waits for
  the daemon that came up (`pkg/service/service.go:302`). `SignalledEnds` speaks of
  commands that signalled.
* A parent that lives on (the text menus) never waits for the daemon it started;
  once dead it stays a zombie that counts as running
  (`pkg/service/service.go:262`). In `Service` daemons are reaped.
* A client that connects, or asks for the index status, while a broadcast passes can
  be sent the older status last (`cmd/remote/websocket/websocket.go:102`,
  `cmd/remote/games/games.go:42`). `StatusShown` speaks of clients that no broadcast
  has overtaken.
* For arcade games CreateLauncher makes a link to the .mra file, which LastPlayed's
  loop over .mgl files skips: such entries are never renumbered or removed
  (`cmd/lastplayed/main.go:111`). `RecentFolder` has none.
* FolderToSystems compares prefixes: a game in a folder whose name begins with
  another system's may be taken for that system's (`pkg/games/paths.go:73`).
  `RunsInItsSystem` leaves such folders out; `GamesAreTaken` does not.
* LookupSystem does not know folder names, although `docs/launchsync.md:96` says
  "It's also ok to just enter the core's folder name as an ID" (for many systems an
  id or alias has the same name); and it compares the names of groups with their case
  (`pkg/games/games.go:46`), ids and aliases without.
* A run of LaunchSync that is cut off while it copies leaves a file that no run can
  read (`pkg/utils/utils.go:70`). The properties speak of runs that end.
* LaunchSync cleans the link to the cores away with everything that is not in its
  list (`cmd/launchsync/syncfiles.go:260`) and makes it again when it links the first
  arcade game. `ArcadeCanStart` therefore speaks of the end of a run, and of the
  games of its list: a user's own arcade launcher in that folder is removed as well.
* Remote's requests that run at once can leave an arcade launcher without its link
  (`pkg/mister/launchers.go:216`); `ArcadeCanStart` speaks of runs that no request
  disturbs, also after such a race.
* LaunchCore leaves ACTIVEGAME with the game before (`pkg/mister/launchers.go:290`), so
  `LastLaunchRuns` asks for ACTIVEGAME only after a game.
* The cache of Claude's playlists ignores the systems asked for
  (`cmd/remote/claude/handlers.go:283`; `types.go`: "Specific systems to include"), and
  it is used for 30 s where its comment says 15 minutes (`:32`).
* Each request makes a client (`cmd/remote/claude/handlers.go:68`), so that the limit
  of requests per hour and the history of a session never reach a second request.
* If every game of a large collection has a negative score, none is offered, and
  Claude's names are taken unchecked (`cmd/remote/claude/client.go:759`).
  `PlaylistIsInstalled` speaks of playlists for which games were offered.

## 6. Not modelled, and why

* Drawing, ioctl calls, downloads, the build: pure I/O. The formats of exported
  playlists, prompts and guessed arcade names: texts.
* The NDEF, NTAG and Mifare codecs and the writing of cards: bytes of a tag, one
  reader and one command at a time. The .ini files, the startup script, the boot
  environment: one file that one call reads and rewrites.
* Small tools (favorites, search, launchseq, ...): sequential programs over the
  packages. What Random launches is `LaunchRandomGame`.
* Earlier forms of the index (`pkg/txtindex`, `pkg/sqlindex`): nothing uses them in
  the services.
* Two trackers on the same two files: `Tracker` takes what other programs write to
  ACTIVEGAME as given.
* The other readers of Tracker's fields in Remote's HTTP handlers, and the unlocked map
  reads of trackMenu: data races whose outcome is a wrong answer or a fatal error.
  The latter is `Kill`; Claude's context is `ClaudeContext`.
* The clock: a clock that is set back reorders events in FixPowerLoss and files in
  the recent folder. So does a service that starts again within the second by which
  FixPowerLoss stamps a stop after its start (`cmd/playlog/db.go:197`).
* What a WebSocket handler sends its own client without the group's mutex, at the
  same time as a broadcast (`cmd/remote/websocket/websocket.go:102`, `:129`): two writers of
  one connection, which the library does not allow.
* Launches that overlap, as far as `LastLaunchRuns` goes: it speaks of a launch that
  nothing overlaps. Of the others `RunsInItsSystem` is checked. Errors of writing the
  temporary file or the pipe, an ACTIVEGAME that does not exist, and cores that are
  not installed are left out, as are hookAmiga's set name and listing.
* The moment at which the games database has a file and no bucket yet: its creation
  is one step. Fields of Claude's settings that are set one by one are set together.
* The parts with status `not_modelled` in `PROJECT.json`, each with its reason there.

## 7. Plan

Modelled, in this order: `SessionLog`, `Tracker` and their proofs; `Service`;
`RecentFolder`; `ConnGroup`; `NfcReader`; `GamesIndex`; `GameSystems`, `GameLookup` and
`Launching`; `MenuFolder` and `LaunchSync`; `ClaudeRequests` and `ClaudeContext`.

Proved: every safety invariant and action property of the runs that pass (4).

Refinements of an abstract specification, checked and proved: `SessionLog` (twice),
`SearchIndex`, `RecentList`.

Worth adding, the nearest first:

1. An abstract specification of the service that is on or off, which `Service`
   implements with one command.
2. What `RecentList` becomes when a call is interrupted, and after how many calls the
   folder is the list of the last games again.
3. That LaunchSync repairs what a run that was cut off has left, as a property of
   two runs.
