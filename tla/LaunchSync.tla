----------------------------- MODULE LaunchSync ----------------------------
(***************************************************************************)
(* LaunchSync (cmd/launchsync): a sync file names games, and may be        *)
(* replaced by a newer version from the web; the launchers in its folder   *)
(* are made to fit it.  Downloads, removals, the index and searches may    *)
(* fail, a run may be cut off at any step, and requests of Remote change   *)
(* the same folder (MenuFolder).                                           *)
(*                                                                         *)
(* One sync file is modelled; main handles each on its own between the     *)
(* steps that all of them share.  A game is one of its sections; order     *)
(* among the games is left open.                                           *)
(***************************************************************************)
EXTENDS MenuFolder

CONSTANTS
  Games,        \* sections: names of launchers
  Arcade,       \* those of the arcade system
  DirOf,        \* the subfolder of each
  Lists,        \* Lists[v]: the games in version v of the file
  MaxFaults, MaxRuns    \* bounds on failures and cuts, and on runs

ASSUME SyncConstants ==
  /\ Games \subseteq Names /\ Arcade \subseteq Games
  /\ DirOf \in [Games -> Dirs]
  /\ Lists \in Seq(SUBSET Games) \ {<<>>}
  /\ MaxFaults \in Nat /\ MaxRuns \in Nat

VARIABLES
  online,     \* the version on the web (of a file without url: what the user
              \* writes next)
  local,      \* the version on the card; 0 is a file that was cut off
  subscribed, \* the file has a url
  library,    \* the games that are on the card
  phase,      \* where the run is
  list,       \* the games that the run is to show
  new,        \* the version that it has downloaded
  index,      \* the games in the index
  left,       \* the games still to be linked
  game,       \* the games being linked: none or one
  calm,       \* no failure and no request so far in this run
  faults, runs

world == <<online, subscribed, library>>
process == <<phase, list, new, index, left, game>>
bounds == <<faults, runs>>
syncVars == <<world, local, process, calm, bounds>>
allVars == <<menuVars, syncVars>>

Launcher(g) == File(DirOf[g], g, IF g \in Arcade THEN "mra" ELSE "mgl")
NotFound(g) == File(DirOf[g], g, "missing")

Fault == faults < MaxFaults /\ faults' = faults + 1 /\ calm' = FALSE

NoFault == UNCHANGED <<faults, calm>>

Enter(place) == phase' = place

-----------------------------------------------------------------------------
(* readSyncFile and updateSyncFile.                                        *)

\* A file that was cut off is skipped, and a run without files ends.
Read ==
  /\ phase = "off"
  /\ runs < MaxRuns
  /\ runs' = runs + 1
  /\ calm' = \A u \in Users : todo[u] = <<>>
  /\ IF local = 0
       THEN UNCHANGED <<phase, list, new>>
       ELSE /\ list' = Lists[local]
            /\ new' = local
            /\ Enter(IF subscribed THEN "download" ELSE "clean")
  /\ UNCHANGED <<menuVars, world, local, index, left, game, faults>>

\* The file on the web takes the place of an older one, which is copied over.
Download ==
  /\ phase = "download"
  /\ IF online > local
       THEN new' = online /\ local' = 0 /\ Enter("copy")
       ELSE Enter("index") /\ UNCHANGED <<new, local>>
  /\ NoFault
  /\ UNCHANGED <<menuVars, world, list, index, left, game, runs>>

DownloadFails ==
  /\ phase = "download"
  /\ Fault
  /\ Enter("index")
  /\ UNCHANGED <<menuVars, world, local, list, new, index, left, game, runs>>

FinishCopy ==
  /\ phase = "copy"
  /\ local' = new
  /\ Enter("clean")
  /\ NoFault
  /\ UNCHANGED <<menuVars, world, list, new, index, left, game, runs>>

\* The old file is gone, the new one is not whole; the run goes on with the old
\* list.
CopyFails ==
  /\ phase = "copy"
  /\ Fault
  /\ Enter("index")
  /\ UNCHANGED <<menuVars, world, local, list, new, index, left, game, runs>>

-----------------------------------------------------------------------------
(* checkForChanges: what does not belong to the new version is removed.    *)

Kept == {Launcher(g) : g \in Lists[new]} \cup {NotFound(g) : g \in Lists[new]}

\* Launchers, and the links to the cores: none of them is in the list.
CleanFile(f) ==
  /\ phase = "clean"
  /\ f \in files \ Kept
  /\ files' = files \ {f}
  /\ NoFault
  /\ UNCHANGED <<dirs, links, setup, acts, world, local, process, runs>>

CleanLink(dir) ==
  /\ phase = "clean"
  /\ dir \in links
  /\ links' = links \ {dir}
  /\ NoFault
  /\ UNCHANGED <<files, dirs, setup, acts, world, local, process, runs>>

\* The run goes on with the old list.
CleanFails ==
  /\ phase \in {"clean", "prune"}
  /\ Fault
  /\ Enter("index")
  /\ UNCHANGED <<menuVars, world, local, list, new, index, left, game, runs>>

Cleaned ==
  /\ phase = "clean"
  /\ files \subseteq Kept /\ links = {}
  /\ Enter("prune")
  /\ NoFault
  /\ UNCHANGED <<menuVars, world, local, list, new, index, left, game, runs>>

EmptyDirs == {dir \in dirs \ {Root} : dir \notin links /\
                                      ~\E f \in files : f.dir = dir}

\* RemoveEmptyDirs removes an empty subfolder and then looks into it: this is
\* an error, and the run goes on with the old list.
PruneEmpty(dir) ==
  /\ phase = "prune"
  /\ dir \in EmptyDirs
  /\ dirs' = dirs \ {dir}
  /\ Enter("index")
  /\ NoFault
  /\ UNCHANGED <<files, links, setup, acts, world, local, list, new, index,
                 left, game, runs>>

Prune ==
  /\ phase = "prune"
  /\ EmptyDirs = {}
  /\ list' = Lists[new]
  /\ Enter("index")
  /\ NoFault
  /\ UNCHANGED <<menuVars, world, local, new, index, left, game, runs>>

-----------------------------------------------------------------------------
(* makeIndex, and the links of main.                                       *)

\* Games of the systems of the list are added; no game is taken out.
MakeIndex ==
  /\ phase = "index"
  /\ \E some \in SUBSET library :
       library \cap list \subseteq some /\ index' = index \cup some
  /\ left' = list
  /\ Enter("link")
  /\ dirs' = dirs \cup {Root}
  /\ NoFault
  /\ UNCHANGED <<files, links, setup, acts, world, local, list, new, game,
                 runs>>

\* Some systems may have been added; the run ends.
IndexFails ==
  /\ phase = "index"
  /\ \E some \in SUBSET library : index' = index \cup some
  /\ Fault
  /\ Enter("off")
  /\ UNCHANGED <<menuVars, world, local, list, new, left, game, runs>>

\* Mutant: a launcher that is there is left as it is.
KeepLauncher(g) ==
  /\ phase = "link"
  /\ g \in left
  /\ left' = left \ {g}
  /\ game' = {g}
  /\ dirs' = dirs \cup {Root, DirOf[g]}
  /\ files' = files \cup {IF g \in index THEN Launcher(g) ELSE NotFound(g)}
  /\ SetUp(Sync, IF g \in index /\ g \in Arcade /\ Launcher(g) \notin files
                   THEN <<DirOf[g]>> ELSE <<>>)
  /\ Enter("remove")
  /\ NoFault
  /\ UNCHANGED <<links, seen, acts, world, local, list, new, index, runs>>

\* Mutant: the subfolder is not made.
LinkInPlace(g) ==
  /\ phase = "link"
  /\ g \in left
  /\ left' = left \ {g}
  /\ game' = {g}
  /\ files' = files \cup {IF g \in index THEN Launcher(g) ELSE NotFound(g)}
  /\ SetUp(Sync, IF g \in index \cap Arcade THEN <<DirOf[g]>> ELSE <<>>)
  /\ Enter("remove")
  /\ NoFault
  /\ UNCHANGED <<dirs, links, seen, acts, world, local, list, new, index, runs>>

\* tryLinkGame makes the folders and the launcher of a game, or a placeholder;
\* of an arcade game also the link to the cores ...
LinkGame(g) ==
  /\ phase = "link"
  /\ g \in left
  /\ left' = left \ {g}
  /\ game' = {g}
  /\ dirs' = dirs \cup {Root, DirOf[g]}
  /\ files' = files \cup {IF g \in index THEN Launcher(g) ELSE NotFound(g)}
  /\ SetUp(Sync, IF g \in index \cap Arcade THEN <<DirOf[g]>> ELSE <<>>)
  /\ Enter("remove")
  /\ NoFault
  /\ UNCHANGED <<links, seen, acts, world, local, list, new, index, runs>>

\* ... or fails: in the search, or after the folders are made, or when the old
\* link of an arcade game is removed; the next one is tried ...
LinkFails(g) ==
  /\ phase = "link"
  /\ g \in left
  /\ Fault
  /\ left' = left \ {g}
  /\ \/ UNCHANGED <<files, dirs>>
     \/ dirs' = dirs \cup {Root, DirOf[g]} /\ UNCHANGED files
     \/ /\ g \in index \cap Arcade
        /\ dirs' = dirs \cup {Root, DirOf[g]}
        /\ files' = files \ {Launcher(g)}
  /\ UNCHANGED <<links, setup, acts, world, local, phase, list, new, index,
                 game, runs>>

SetUpLink ==
  /\ \/ Look(Sync) /\ Head(todo[Sync]) \in dirs
     \/ SetLink(Sync) /\ ~Raced(Sync)
  /\ UNCHANGED syncVars

\* An error of TrySetupArcadeCoresLink, of its own or because a request was
\* there first, is one of tryLinkGame: the other file stays, and the next game
\* is tried.
SetUpFails ==
  /\ \/ Look(Sync) /\ Head(todo[Sync]) \notin dirs /\ NoFault
     \/ SetLink(Sync) /\ Raced(Sync) /\ NoFault
     \/ /\ todo[Sync] # <<>>
        /\ Fault
        /\ SetUp(Sync, <<>>)
        /\ seen' = [seen EXCEPT ![Sync] = Nothing]
        /\ UNCHANGED <<card, acts>>
  /\ game' = {}
  /\ Enter("link")
  /\ UNCHANGED <<world, local, list, new, index, left, runs>>

\* Mutant: the other file is left.
RemoveNone ==
  /\ phase = "remove"
  /\ todo[Sync] = <<>>
  /\ game' = {}
  /\ Enter("link")
  /\ NoFault
  /\ UNCHANGED <<menuVars, world, local, list, new, index, left, runs>>

\* ... and removes the other one of the two files.
RemoveOther ==
  /\ phase = "remove"
  /\ todo[Sync] = <<>>
  /\ files' = files \ {IF g \in index THEN NotFound(g) ELSE Launcher(g) :
                         g \in game}
  /\ game' = {}
  /\ Enter("link")
  /\ NoFault
  /\ UNCHANGED <<dirs, links, setup, acts, world, local, list, new, index,
                 left, runs>>

Finish ==
  /\ phase = "link"
  /\ left = {}
  /\ Enter("ended")
  /\ NoFault
  /\ UNCHANGED <<menuVars, world, local, list, new, index, left, game, runs>>

\* The results are read; the next run may begin.
Leave ==
  /\ phase = "ended"
  /\ Enter("off")
  /\ NoFault
  /\ UNCHANGED <<menuVars, world, local, list, new, index, left, game, runs>>

\* The run is cut off: interrupted, killed, or the power is lost.
CutOff ==
  /\ phase \notin {"off", "ended"}
  /\ Fault
  /\ Enter("off")
  /\ game' = {} /\ left' = {}
  /\ SetUp(Sync, <<>>)
  /\ seen' = [seen EXCEPT ![Sync] = Nothing]
  /\ UNCHANGED <<card, acts, world, local, list, new, index, runs>>

-----------------------------------------------------------------------------
(* The world: a new version, written by the user if there is no url, games *)
(* that come and go, and the requests.                                     *)

Publish ==
  /\ online < Len(Lists)
  /\ online' = online + 1
  /\ subscribed \/ phase \in {"off", "ended"}
  /\ local' = IF subscribed THEN local ELSE online'
  /\ Enter(IF phase = "ended" THEN "off" ELSE phase)
  /\ UNCHANGED <<menuVars, subscribed, library, list, new, index, left, game,
                 calm, bounds>>

EditLibrary(g) ==
  /\ phase = "off"
  /\ library' = (library \cup {g}) \ (library \cap {g})
  /\ acts < MaxActs /\ acts' = acts + 1
  /\ UNCHANGED <<card, setup, online, subscribed, local, process, calm, bounds>>

Disturb ==
  /\ \E u \in Users : Request(u) \/ Look(u) \/ SetLink(u)
  /\ calm' = FALSE
  /\ Enter(IF phase = "ended" THEN "off" ELSE phase)
  /\ UNCHANGED <<world, local, list, new, index, left, game, bounds>>

SyncInit ==
  /\ MenuInit
  /\ online = 1 /\ local = 1
  /\ library \in SUBSET Games /\ subscribed \in BOOLEAN
  /\ phase = "off" /\ list = {} /\ new = 1 /\ index = {}
  /\ left = {} /\ game = {}
  /\ calm = FALSE
  /\ faults = 0 /\ runs = 0

SyncNext ==
  \/ Read \/ Download \/ DownloadFails \/ FinishCopy \/ CopyFails
  \/ \E f \in files : CleanFile(f)
  \/ \E dir \in Dirs : CleanLink(dir) \/ PruneEmpty(dir)
  \/ CleanFails \/ Cleaned \/ Prune
  \/ MakeIndex \/ IndexFails
  \/ \E g \in Games : LinkGame(g) \/ LinkFails(g) \/ EditLibrary(g)
  \/ SetUpLink \/ SetUpFails \/ RemoveOther \/ Finish \/ Leave \/ CutOff
  \/ Publish \/ Disturb

SyncSpec == SyncInit /\ [][SyncNext]_allVars

-----------------------------------------------------------------------------
SyncTypeOK ==
  /\ MenuTypeOK
  /\ online \in DOMAIN Lists /\ local \in 0..Len(Lists) /\ new \in DOMAIN Lists
  /\ library \subseteq Games /\ list \subseteq Games /\ index \subseteq Games
  /\ left \subseteq Games /\ game \subseteq Games
  /\ phase \in {"off", "download", "copy", "clean", "prune", "index", "link",
             "remove", "ended"}
  /\ calm \in BOOLEAN /\ subscribed \in BOOLEAN
  /\ faults \in 0..MaxFaults /\ runs \in 0..MaxRuns

\* A run that ends undisturbed leaves the link to the cores beside every arcade
\* launcher of its list, also where an earlier run was cut off after it had
\* removed the link, or requests have raced for it.
ArcadeCanStart ==
  phase = "ended" /\ calm =>
    \A g \in list \cap Arcade : Launcher(g) \in files => DirOf[g] \in links

\* Such a run shows each game of its list once: a launcher if it was found, or
\* else a placeholder, whatever was left behind by the runs before it.
EachGameIsShown ==
  phase = "ended" /\ calm =>
    \A g \in list : /\ Launcher(g) \in files <=> g \in index
                    /\ NotFound(g) \in files <=> g \notin index

\* docs/launchsync.md: "you can publish changes to your playlist and people will
\* see your updates on their own system".  After an undisturbed run with the
\* newest version the folder has no launcher of a game that it no longer lists.
FolderFollowsFile ==
  phase = "ended" /\ calm /\ local = online =>
    \A g \in Games \ Lists[local] : Launcher(g) \notin files
=============================================================================
