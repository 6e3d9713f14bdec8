---------------------------- MODULE MCLaunchers ----------------------------
(***************************************************************************)
(* An instance, for TLC, of what makes and launches launchers: Launching,  *)
(* LaunchSync and RecentFolder.  They share no state: a behaviour is one   *)
(* of the parts that the .cfg names.                                       *)
(*                                                                         *)
(* any: one request launches any game or system of the table.  pair: two   *)
(* requests launch a few, at any time.  sync: a sync file with an arcade   *)
(* game, a game in a subfolder, and a game that replaces it.  recent: the  *)
(* folder of recent games.                                                 *)
(***************************************************************************)
EXTENDS Launching, LaunchSync, RecentFolder, TLC

CONSTANTS
  r1, r2,                     \* requests
  user, pong, zelda, mario,   \* launchers in the menu
  sub,                        \* a subfolder
  g1, g2, g3, g4,             \* recent games
  Parts

Path(folder, ext) == [folder |-> folder, ext |-> ext]

\* A file for each extension of each system in each of its folders, a launcher,
\* a core, and files without a system.
MCPaths ==
  UNION {{Path(folder, ext) : folder \in s.folder, ext \in Extensions(s)} :
           s \in SystemTable}
    \cup {Path("_Arcade", ".mgl"), Path("_Console", ".rbf"),
          Path("NES", ".txt"), Path("_Console", ".txt"), Path("NEOGEO", ".zip")}

MCNames ==
  UNION {{s.id} \cup s.alias \cup s.folder : s \in SystemTable}
    \cup DOMAIN CoreGroups

FewPaths == {Path("NES", ".nes"), Path("_Arcade", ".mra")}

FewNames == {"GameGear"}

MCSetCore == [GBA |-> "GBA_alt"]

MCDirOf == [g \in Games |-> IF g = mario THEN sub ELSE Root]

MCLists == <<{pong, mario}, {pong, zelda}>>

ASSUME FewAssumption ==
  r1 \in Requests /\ FewPaths \subseteq Paths /\ FewNames \subseteq SystemNames

VARIABLE part

MCInit ==
  /\ LaunchInit /\ SyncInit /\ RecentInit
  /\ part \in Parts
  /\ part # "sync" => library = {} /\ ~subscribed

Launches ==
  \/ GoOn
  \/ part = "any" /\ launches = 0 /\ Launch(r1, Paths, SystemNames)
  \/ part = "pair" /\ \E r \in Requests : Launch(r, FewPaths, FewNames)

MCNext ==
  /\ \/ /\ part \in {"any", "pair"} /\ Launches
        /\ UNCHANGED <<allVars, recentVars>>
     \/ /\ part = "sync" /\ SyncNext
        /\ UNCHANGED <<launchVars, recentVars>>
     \/ /\ part = "recent" /\ RecentNext
        /\ UNCHANGED <<launchVars, allVars>>
  /\ UNCHANGED part

MCSpec == MCInit /\ [][MCNext]_<<launchVars, allVars, recentVars, part>>

MCSymmetry == Permutations(RecentGames)

\* Each component keeps its types.
MCTypeOK == LaunchTypeOK /\ SyncTypeOK /\ RecentTypeOK
=============================================================================
