----------------------------- MODULE Launching -----------------------------
(***************************************************************************)
(* The launch of games and cores (pkg/mister/launchers.go), by requests of *)
(* Remote, by cards and by the scripts: all of them write the same         *)
(* temporary .mgl file, name it to MiSTer through a pipe, and then write   *)
(* ACTIVEGAME, with no lock between them.  MiSTer reads the file when it   *)
(* takes the command.                                                      *)
(***************************************************************************)
EXTENDS GameLookup

CONSTANTS
  Requests,
  Paths,        \* files that are launched
  SystemNames,  \* names of systems that are launched
  MaxLaunches

ASSUME LaunchConstants ==
  /\ Paths \subseteq [folder : STRING, ext : STRING]
  /\ MaxLaunches \in Nat

VARIABLES
  at, job,      \* the requests: where each is, and what it launches
  tmp,          \* LastLaunchFile: its content, Empty or Torn
  commands,     \* the pipe of MiSTer
  running,      \* what MiSTer has loaded
  activeGame,   \* the file ACTIVEGAME
  launches,     \* number of launches
  last          \* the last launch, and whether it has been alone

requests == <<at, job>>
mister == <<commands, running>>
launchVars == <<requests, tmp, mister, activeGame, launches, last>>

Empty == [kind |-> "empty"]
Torn == [kind |-> "torn"]
Whole(mgl) == [kind |-> "mgl", mgl |-> mgl]
Direct(path) == [kind |-> "direct", path |-> path]
Rbf(system) == [kind |-> "rbf", rbf |-> system.rbf]

NoJob == [via |-> "none", name |-> "", path |-> NoFile, content |-> Empty]

Quiet == commands = <<>> /\ \A r \in Requests : at[r] = "idle"

DirectExts == {".mra", ".mgl", ".rbf"}

\* r begins to launch: it goes to place with the content that is to be loaded.
Begin(r, what, place) ==
  /\ launches' = launches + 1
  /\ job' = [job EXCEPT ![r] = what]
  /\ at' = [at EXCEPT ![r] = place]
  /\ last' = [job |-> what, alone |-> Quiet]
  /\ UNCHANGED <<tmp, mister, activeGame>>

\* A file that is not a launcher gets an .mgl file, unless the hook of its
\* system fails or no slot takes it.
BeginTemp(r, via, name, system, path) ==
  LET what == [via |-> via, name |-> name, path |-> path,
               content |-> IF CanGenerate(system, path)
                             THEN Whole(GenerateMgl(system, path)) ELSE Empty]
  IN  \/ CanGenerate(system, path) /\ Begin(r, what, "create")
      \/ ~CanGenerate(system, path) /\ Begin(r, what, "refused")
      \/ /\ system.id \in Hooked
         /\ Begin(r, [what EXCEPT !.content = Empty], "done")

BeginDirect(r, via, path) ==
  Begin(r, [via |-> via, name |-> "", path |-> path,
            content |-> Direct(path)], "send")

\* Remote's LaunchGame, and LaunchGame itself.  (Errors of writing the temporary
\* file or the pipe, an ACTIVEGAME that does not exist, which is not written
\* then, and cores that are not installed are left out.)
LaunchGame(r, path) ==
  \E system \in BestSystemMatch(path) :
    IF path.ext \in {".mra", ".mgl"} THEN BeginDirect(r, "game", path)
      ELSE BeginTemp(r, "game", "", system, path)

\* LaunchGenericFile: files given by a card or by their whole path.  (It refuses
\* others with an error, which changes nothing.)
LaunchGenericFile(r, path) ==
  \/ path.ext \in DirectExts /\ BeginDirect(r, "generic", path)
  \/ /\ path.ext \notin DirectExts
     /\ \E system \in BestSystemMatch(path) :
          BeginTemp(r, "generic", "", system, path)

\* LaunchRandomGame: the system is that of the list the game is taken from.
LaunchRandomGame(r, path) ==
  \E system \in SystemTable :
    /\ IsGameOf(system, path)
    /\ IF path.ext = ".mra" THEN BeginDirect(r, "random", path)
         ELSE BeginTemp(r, "random", system.id, system, path)

\* The command **system of a card: LookupSystem and LaunchCore.  A core with a
\* set name needs an .mgl file, and is a game without a path.
LaunchSystem(r, name, exact) ==
  \/ \E system \in LookupSystem(name, exact) :
       IF system.setname # "" THEN BeginTemp(r, "system", name, system, NoFile)
         ELSE /\ system.rbf # ""    \* the core is installed
              /\ Begin(r, [via |-> "system", name |-> name, path |-> NoFile,
                           content |-> Rbf(system)], "send")
  \/ /\ LookupSystem(name, exact) = {}
     /\ Begin(r, [NoJob EXCEPT !.via = "unknown", !.name = name],
              "refused")

-----------------------------------------------------------------------------
(* writeTempFile, launchFile and SetActiveGame.                            *)

Goto(r, place) == at' = [at EXCEPT ![r] = place]

\* Mutant: the old text stays until it is written over.
OpenTemp(r) ==
  /\ at[r] = "create"
  /\ Goto(r, "write")
  /\ UNCHANGED <<job, tmp, mister, activeGame, launches, last>>

\* os.Create empties the file.
CreateTemp(r) ==
  /\ at[r] = "create"
  /\ tmp' = Empty
  /\ Goto(r, "write")
  /\ UNCHANGED <<job, mister, activeGame, launches, last>>

\* What another launch has written since stays behind a shorter text.
WriteTemp(r) ==
  /\ at[r] = "write"
  /\ tmp' \in IF tmp = Empty THEN {job[r].content} ELSE {job[r].content, Torn}
  /\ Goto(r, "send")
  /\ UNCHANGED <<job, mister, activeGame, launches, last>>

\* The command names the temporary file (Empty stands for its name), the
\* launcher, or the core; LaunchCore does not write ACTIVEGAME.
Send(r) ==
  /\ at[r] = "send"
  /\ commands' = Append(commands, IF job[r].content.kind = "mgl" THEN Empty
                                                      ELSE job[r].content)
  /\ Goto(r, IF job[r].content.kind = "rbf" THEN "done" ELSE "active")
  /\ UNCHANGED <<job, tmp, running, activeGame, launches, last>>

\* An .rbf file is no game.
SetActiveGame(r) ==
  /\ at[r] = "active"
  /\ activeGame' = IF job[r].path.ext = ".rbf" THEN activeGame ELSE job[r].path
  /\ Goto(r, "done")
  /\ UNCHANGED <<job, tmp, mister, launches, last>>

\* The request is answered.  A launch that has begun meanwhile was not alone.
End(r) ==
  /\ at[r] \in {"done", "refused"}
  /\ Goto(r, "idle")
  /\ job' = [job EXCEPT ![r] = NoJob]
  /\ UNCHANGED <<tmp, mister, activeGame, launches, last>>

\* MiSTer takes a command.
TakeCommand ==
  /\ commands # <<>>
  /\ commands' = Tail(commands)
  /\ running' = IF Head(commands) = Empty THEN tmp ELSE Head(commands)
  /\ UNCHANGED <<requests, tmp, activeGame, launches, last>>

LaunchInit ==
  /\ at = [r \in Requests |-> "idle"]
  /\ job = [r \in Requests |-> NoJob]
  /\ tmp = Empty
  /\ commands = <<>>
  /\ running = Empty
  /\ activeGame = NoFile
  /\ launches = 0
  /\ last = [job |-> NoJob, alone |-> FALSE]

\* Launches of some files and systems.
Launch(r, paths, names) ==
  /\ at[r] = "idle"
  /\ launches < MaxLaunches
  /\ \/ \E path \in paths : \/ LaunchGame(r, path)
                            \/ LaunchGenericFile(r, path)
                            \/ LaunchRandomGame(r, path)
     \/ \E name \in names, exact \in BOOLEAN : LaunchSystem(r, name, exact)

GoOn ==
  \/ \E r \in Requests :
       CreateTemp(r) \/ WriteTemp(r) \/ Send(r) \/ SetActiveGame(r) \/ End(r)
  \/ TakeCommand

LaunchNext == GoOn \/ \E r \in Requests : Launch(r, Paths, SystemNames)

LaunchSpec == LaunchInit /\ [][LaunchNext]_launchVars

-----------------------------------------------------------------------------
LaunchTypeOK ==
  /\ at \in [Requests -> {"idle", "create", "write", "send", "active", "done",
                          "refused"}]
  /\ \A path \in {activeGame} \cup {job[r].path : r \in Requests} :
       path = NoFile \/ path \in Paths
  /\ launches \in 0..MaxLaunches
  /\ last.alone \in BOOLEAN

\* A launch that nothing overlaps, until MiSTer has read its file, is what
\* runs in the end and what ACTIVEGAME names, whatever the launches before it
\* have left behind.  (Of launches that overlap nothing like it holds: their
\* temporary file is one.)
Launched == last.alone /\ last.job.content # Empty

LastLaunchRuns ==
  Quiet /\ Launched =>
    /\ running = last.job.content
    /\ last.job.content.kind # "rbf" /\ last.job.path.ext # ".rbf" =>
         activeGame = last.job.path

\* Every game that some system lists can be launched: the system found for its
\* path has a slot for it, also where systems share a folder.
GamesAreTaken ==
  \A r \in Requests :
    at[r] = "refused" /\ job[r].via # "unknown" =>
      ~\E s \in SystemTable : IsGameOf(s, job[r].path)

\* A game runs in the core and under the set name of the system that lists it,
\* unless its folder's name begins with another system's.
RunsInItsSystem ==
  running.kind = "mgl" /\ running.mgl.file # NoFile =>
    LET path == running.mgl.file IN
    \A s \in SystemTable :
      /\ IsGameOf(s, path)
      /\ \A p \in FolderPrefix : p[2] # path.folder
      => running.mgl.rbf = Core(s) /\ running.mgl.setname = s.setname
=============================================================================
