--------------------------- MODULE ClaudeContext ---------------------------
(***************************************************************************)
(* What Remote tells Claude about the game being played                    *)
(* (cmd/remote/claude/client.go, buildGameContext): the SAM attract mode's *)
(* file if SAM runs the game, else the fields of the Tracker.  A request   *)
(* reads both without a lock while SAM and the Tracker change them.        *)
(*                                                                         *)
(* Names are compared with EqualFold and are taken as case-folded.  A path *)
(* stands for its base name (FileName), the name that is left when regions *)
(* and versions are cut off (PathName; the whole base name for an .mra;    *)
(* Nothing is left of, for example, "(USA).nes"), its extension and the    *)
(* folder below "games".  Nothing is also the empty string of a field.     *)
(***************************************************************************)
EXTENDS Naturals

CONSTANTS
  Cores, GameNames,
  SystemNames,  \* the names of systems in the Tracker's map, Arcade is one
  MglNames,     \* names of .mgl files, which start the game they point to
  Paths,        \* paths of games
  FileName, PathName,
  Ext,          \* Ext[p]: "mra", "ini", "rom" or "none"
  PathSystem,   \* PathSystem[p]: the system's folder in p, Nothing for none
  SamSystems,   \* system codes of SAM, Arcade is one
  ExpectedCores,\* samToCoreMap and the code itself: sets of cores
  Lookup,       \* Lookup[<<c, p>>]: LookupName, the system's name or Nothing
  CoreNamed,    \* CoreNamed[n]: the core called like game n, or Nothing
  ArcadeName,   \* ArcadeName[c]: the game of an arcade core
  Arcade, Nothing,
  MaxChanges    \* bound on what SAM and the Tracker do

ASSUME ContextConstants ==
  /\ Nothing \notin Cores \cup GameNames \cup Paths \cup SamSystems
  /\ Arcade \in SamSystems
  /\ MglNames \subseteq GameNames
  /\ FileName \in [Paths -> GameNames]
  /\ PathName \in [Paths -> GameNames \cup {Nothing}]
  /\ Ext \in [Paths -> {"mra", "ini", "rom", "none"}]
  /\ Lookup \in [Cores \X Paths -> SystemNames \cup {Nothing}]
  /\ CoreNamed \in [GameNames -> Cores \cup {Nothing}]
  /\ ArcadeName \in [Cores -> GameNames \cup {Nothing}]
  /\ ExpectedCores \in [SamSystems -> SUBSET Cores]
  /\ MaxChanges \in Nat

VARIABLES
  trkCore, trkName,            \* ActiveCore, ActiveGameName
  trkSystem, trkPath,          \* ActiveSystemName, ActiveGamePath
  loading,      \* the path that loadGame is setting, or Nothing
  naming,       \* LoadCore or loadGame has yet to look its names up
  samOn,        \* SAM's tmux session exists
  samFile,      \* the contents of SAM_Game.txt: Nothing or a game and a system
  ctxAt, sam, ctx,   \* the request: where it is, what it read of SAM, result
  changes

tracked == <<trkCore, trkName, trkSystem, trkPath, loading, naming>>
samState == <<samOn, samFile>>
request == <<ctxAt, sam, ctx>>
contextVars == <<tracked, samState, request, changes>>

SamInfo == [game : GameNames, system : SamSystems \cup {Nothing}]
NoContext ==
  [core |-> Nothing, name |-> Nothing, system |-> Nothing, path |-> Nothing]

-----------------------------------------------------------------------------
(* SAM and the Tracker.                                                    *)

Change == changes < MaxChanges /\ changes' = changes + 1

\* SAM starts, names the game it starts next, or ends; its file stays.
SamChanges ==
  /\ Change
  /\ \/ \E info \in SamInfo : samFile' = info /\ samOn' = TRUE
     \/ samOn' = FALSE /\ UNCHANGED samFile
  /\ UNCHANGED <<tracked, request>>

\* The Tracker's handlers work one after the other, under its mutex.
Unlocked == loading = Nothing /\ ~naming

\* stopGame: the name is cleared, the path is not.
StopGame ==
  /\ Change
  /\ Unlocked
  /\ trkName # Nothing
  /\ trkName' = Nothing
  /\ UNCHANGED <<trkCore, trkSystem, trkPath, loading, naming, samState,
                 request>>

\* loadGame stops the last game and sets the name of the new one, which is its
\* file's or that of the .mgl which starts it ...
LoadGame(p) ==
  /\ Change
  /\ Unlocked
  /\ trkName' \in {FileName[p]} \cup MglNames
  /\ loading' = p
  /\ UNCHANGED <<trkCore, trkSystem, trkPath, naming, samState, request>>

\* ... then its path ...
LoadPath ==
  /\ loading # Nothing
  /\ trkPath' = loading
  /\ loading' = Nothing
  /\ naming' = TRUE
  /\ UNCHANGED <<trkCore, trkName, trkSystem, samState, request, changes>>

\* LoadCore stops the last core, which clears the system, and sets the new one,
\* which may be none ...
LoadCore(c) ==
  /\ Change
  /\ Unlocked
  /\ c # trkCore
  /\ trkCore' = c
  /\ trkSystem' = IF trkCore = Nothing THEN trkSystem ELSE Nothing
  /\ naming' = (c # Nothing)
  /\ UNCHANGED <<trkName, trkPath, loading, samState, request>>

\* ... and both end with what LookupName gives for the core and the path: the
\* system's name and, for an arcade game, the game's.
Named == IF Nothing \in {trkCore, trkPath} THEN Nothing
                                         ELSE Lookup[<<trkCore, trkPath>>]

NameGame ==
  /\ naming
  /\ naming' = FALSE
  /\ trkSystem' = Named
  /\ trkName' = IF Named = Arcade THEN ArcadeName[trkCore] ELSE trkName
  /\ UNCHANGED <<trkCore, trkPath, loading, samState, request, changes>>

-----------------------------------------------------------------------------
(* The request.                                                            *)

NameMatches == trkName = sam.game
PathMatches == trkPath # Nothing /\ FileName[trkPath] = sam.game
IsMra == trkPath # Nothing /\ Ext[trkPath] = "mra"

\* detectSAMTrackerInconsistency: the tracker still has the path of an earlier
\* game while SAM has gone on to the next.
Inconsistent ==
  /\ sam.system = Arcade
  /\ \/ NameMatches /\ IsMra /\ ~PathMatches
     \/ ~NameMatches /\ trkPath # Nothing /\ ~PathMatches

\* verifySAMGameMatch: SAM runs what the tracker sees.
SamRunsIt ==
  \/ trkCore = Nothing
  \/ /\ sam.system = Arcade
     /\ IF IsMra THEN NameMatches \/ PathMatches
                 ELSE trkCore = CoreNamed[sam.game]
  \/ /\ sam.system \in SamSystems \ {Arcade}
     /\ trkCore \in ExpectedCores[sam.system]

SamContext ==
  [core |-> sam.system, name |-> sam.game, system |-> sam.system,
   path |-> Nothing]

\* A request begins: isSAMActive and parseSAMGameInfo.
BeginContext ==
  /\ ctxAt = "idle"
  /\ IF samOn /\ samFile # Nothing
       THEN sam' = samFile /\ ctxAt' = "detect"
       ELSE sam' = Nothing /\ ctxAt' = "core"
  /\ UNCHANGED <<tracked, samState, ctx, changes>>

DetectSam ==
  /\ ctxAt = "detect"
  /\ IF Inconsistent THEN ctx' = SamContext /\ ctxAt' = "done"
                     ELSE ctxAt' = "verify" /\ UNCHANGED ctx
  /\ UNCHANGED <<tracked, samState, sam, changes>>

VerifySam ==
  /\ ctxAt = "verify"
  /\ IF SamRunsIt THEN ctx' = SamContext /\ ctxAt' = "done"
                  ELSE ctxAt' = "core" /\ UNCHANGED ctx
  /\ UNCHANGED <<tracked, samState, sam, changes>>

\* The standard detection reads the core, then the names, then the path.
ReadCore ==
  /\ ctxAt = "core"
  /\ ctx' = [NoContext EXCEPT !.core = trkCore]
  /\ ctxAt' = "name"
  /\ UNCHANGED <<tracked, samState, sam, changes>>

ReadName ==
  /\ ctxAt = "name"
  /\ ctx' = [ctx EXCEPT !.name = trkName, !.system = trkSystem]
  /\ ctxAt' = "path"
  /\ UNCHANGED <<tracked, samState, sam, changes>>

\* inferSystemFromPath: the folder after "games", or else the core.
InferredSystem(p, core) ==
  IF PathSystem[p] = Nothing THEN core ELSE PathSystem[p]

\* The value, if there is one.
Or(value, default) == IF value = Nothing THEN default ELSE value

\* Mutant: the tracker's name is kept if there is one.
KeepName(p) ==
  [ctx EXCEPT !.path = p,
              !.name = Or(ctx.name, PathName[p]),
              !.system = IF Ext[p] = "mra"
                           THEN Arcade
                           ELSE Or(InferredSystem(p, ctx.core), @)]

\* The system is made of the path, and so is the name if one is left when the
\* regions and versions are cut off; the core stays the Tracker's.  An .ini is
\* no game.
FromPath(p) ==
  CASE Ext[p] = "ini"  -> [ctx EXCEPT !.name = Nothing]
    [] Ext[p] = "none" -> [ctx EXCEPT !.path = p]
    [] Ext[p] = "mra"  -> [ctx EXCEPT !.path = p, !.name = PathName[p],
                                      !.system = Arcade]
    [] Ext[p] = "rom"  ->
         [ctx EXCEPT !.path = p, !.name = Or(PathName[p], @),
                     !.system = Or(InferredSystem(p, ctx.core), @)]

ReadPath ==
  /\ ctxAt = "path"
  /\ ctx' = IF trkPath = Nothing THEN ctx ELSE FromPath(trkPath)
  /\ ctxAt' = "done"
  /\ UNCHANGED <<tracked, samState, sam, changes>>

\* The context is used; the next request comes.
EndContext ==
  /\ ctxAt = "done"
  /\ ctxAt' = "idle"
  /\ sam' = Nothing
  /\ ctx' = NoContext
  /\ UNCHANGED <<tracked, samState, changes>>

ContextInit ==
  /\ trkCore = Nothing /\ trkName = Nothing
  /\ trkSystem = Nothing /\ trkPath = Nothing
  /\ loading = Nothing /\ naming = FALSE
  /\ samOn = FALSE /\ samFile = Nothing
  /\ ctxAt = "idle" /\ sam = Nothing /\ ctx = NoContext
  /\ changes = 0

ContextNext ==
  \/ SamChanges
  \/ StopGame
  \/ \E p \in Paths : LoadGame(p)
  \/ LoadPath
  \/ \E c \in Cores \cup {Nothing} : LoadCore(c)
  \/ NameGame
  \/ BeginContext \/ DetectSam \/ VerifySam
  \/ ReadCore \/ ReadName \/ ReadPath
  \/ EndContext

ContextSpec == ContextInit /\ [][ContextNext]_contextVars

-----------------------------------------------------------------------------
ContextType ==
  [core : Cores \cup SamSystems \cup {Nothing},
   name : GameNames \cup {Nothing},
   system : SystemNames \cup Cores \cup SamSystems
              \cup {PathSystem[p] : p \in Paths} \cup {Nothing},
   path : Paths \cup {Nothing}]

ContextTypeOK ==
  /\ trkCore \in Cores \cup {Nothing}
  /\ trkName \in GameNames \cup {Nothing}
  /\ trkSystem \in SystemNames \cup {Nothing}
  /\ {trkPath, loading} \subseteq Paths \cup {Nothing}
  /\ naming \in BOOLEAN /\ samOn \in BOOLEAN
  /\ {samFile, sam} \subseteq SamInfo \cup {Nothing}
  /\ ctxAt \in {"idle", "detect", "verify", "core", "name", "path", "done"}
  /\ ctx \in ContextType
  /\ changes \in 0..MaxChanges

\* The name and the system that Claude is told are those of the path it was
\* read with, whatever the Tracker does between the reads: the system for every
\* path in a system's folder, the name for every path that has one when regions
\* and versions are cut off.  (The core, and the name beside any other path, may
\* be those of another game.)
ContextFits ==
  ctxAt = "done" /\ ctx.path # Nothing =>
    /\ Ext[ctx.path] = "mra" =>
         ctx.name = PathName[ctx.path] /\ ctx.system = Arcade
    /\ Ext[ctx.path] = "rom" /\ PathName[ctx.path] # Nothing =>
         ctx.name = PathName[ctx.path]
    /\ Ext[ctx.path] = "rom" /\ PathSystem[ctx.path] # Nothing =>
         ctx.system = PathSystem[ctx.path]
=============================================================================
