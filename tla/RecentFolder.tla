---------------------------- MODULE RecentFolder ----------------------------
(***************************************************************************)
(* The menu folder of recently played games that the LastPlayed service    *)
(* keeps (cmd/lastplayed, addToRecentFolder): a launcher is written as     *)
(* entry 00, and then the files of the folder are renumbered one by one,   *)
(* newest first.  The service may be killed between any two of these       *)
(* changes.                                                                *)
(***************************************************************************)
EXTENDS Integers, FiniteSets

CONSTANTS
  RecentGames,  \* the launchers' names, after the number
  MaxEntries,   \* maxRecentEntries
  MaxPlays,     \* bound on the games started
  MaxCrashes,   \* bound on the interrupted calls
  None

ASSUME RecentConstants ==
  /\ MaxEntries \in Nat \ {0}
  /\ MaxPlays \in Nat
  /\ MaxCrashes \in Nat
  /\ None \notin RecentGames

VARIABLES
  entries,      \* the .mgl files of the folder
  now,          \* the clock, which is also the number of games started
  pc,           \* where addToRecentFolder is
  recentFiles,  \* the files it has read and not renumbered yet
  knownFiles,   \* the games of those it has renumbered
  renamed,      \* their number, its i
  playing,      \* the game it was called for
  whole,        \* the last call ran to its end
  crashes,      \* how many calls were interrupted
  before        \* the entries before the call, for the properties

recentVars == <<entries, now, pc, recentFiles, knownFiles, renamed, playing,
                whole, crashes, before>>

\* A file is known by its number and game; rename and write replace it.
Named(number, game) ==
  {f \in entries : f.number = number /\ f.game = game}

Entry(number, game, time) == [number |-> number, game |-> game, time |-> time]

-----------------------------------------------------------------------------
\* A game starts: its launcher is written as entry 00.
Play(game) ==
  /\ pc = "idle"
  /\ now < MaxPlays
  /\ now' = now + 1
  /\ playing' = game
  /\ before' = entries
  /\ entries' = (entries \ Named(0, game)) \cup {Entry(0, game, now + 1)}
  /\ whole' = FALSE
  /\ pc' = "read"
  /\ UNCHANGED <<recentFiles, knownFiles, renamed, crashes>>

\* The folder is read, to be gone through from the newest file to the oldest.
ReadFolder ==
  /\ pc = "read"
  /\ recentFiles' = entries
  /\ knownFiles' = {}
  /\ renamed' = 0
  /\ pc' = "renumber"
  /\ UNCHANGED <<entries, now, playing, whole, crashes, before>>

\* sort.Slice puts this one before the others that are left.  Modification
\* times are all different: a file system that keeps them too coarsely, or a
\* clock that is set back, is left out.
Newest(f) == \A g \in recentFiles : g.time <= f.time

\* Mutant: removed games keep their place in the numbering.
RemoveAndCount(f) ==
  /\ entries' = entries \ Named(f.number, f.game)
  /\ renamed' = renamed + 1
  /\ UNCHANGED knownFiles

\* An old file, by the path it was read with.
RemoveFile(f) ==
  /\ entries' = entries \ Named(f.number, f.game)
  /\ UNCHANGED <<knownFiles, renamed>>

\* Mutant: the game is not remembered.
RenameOnly(f) ==
  /\ entries' =
       ((entries \ Named(f.number, f.game)) \ Named(renamed + 1, f.game))
         \cup {Entry(renamed + 1, f.game, f.time)}
  /\ renamed' = renamed + 1
  /\ UNCHANGED knownFiles

\* The newest file of a game gets the next number.  Rename keeps its time.
Rename(f) ==
  /\ entries' =
       ((entries \ Named(f.number, f.game)) \ Named(renamed + 1, f.game))
         \cup {Entry(renamed + 1, f.game, f.time)}
  /\ knownFiles' = knownFiles \cup {f.game}
  /\ renamed' = renamed + 1

Full == renamed >= MaxEntries

\* One file.  All have different paths, so each is still there when its turn
\* comes: renaming and removing it succeed.
Renumber ==
  /\ pc = "renumber"
  /\ \E f \in recentFiles :
       /\ Newest(f)
       /\ IF Full \/ f.game \in knownFiles THEN RemoveFile(f) ELSE Rename(f)
       /\ recentFiles' = recentFiles \ {f}
  /\ UNCHANGED <<now, pc, playing, whole, crashes, before>>

Renumbered ==
  /\ pc = "renumber"
  /\ recentFiles = {}
  /\ pc' = "idle"
  /\ whole' = TRUE
  /\ UNCHANGED <<entries, now, recentFiles, knownFiles, renamed, playing,
                 crashes, before>>

\* The service is killed, or the power goes.
Crash ==
  /\ pc # "idle"
  /\ crashes < MaxCrashes
  /\ crashes' = crashes + 1
  /\ pc' = "idle"
  /\ recentFiles' = {}
  /\ UNCHANGED <<entries, now, knownFiles, renamed, playing, whole, before>>

RecentInit ==
  /\ entries = {}
  /\ now = 0
  /\ pc = "idle"
  /\ recentFiles = {}
  /\ knownFiles = {}
  /\ renamed = 0
  /\ playing = None
  /\ whole = TRUE
  /\ crashes = 0
  /\ before = {}

RecentNext ==
  \/ \E game \in RecentGames : Play(game)
  \/ ReadFolder \/ Renumber \/ Renumbered
  \/ Crash

RecentSpec == RecentInit /\ [][RecentNext]_recentVars

-----------------------------------------------------------------------------
Entries ==
  [number : 0 .. MaxEntries, game : RecentGames, time : 1 .. MaxPlays]

\* Every variable keeps its type: in particular no number is beyond the limit.
RecentTypeOK ==
  /\ entries \subseteq Entries
  /\ now \in 0 .. MaxPlays
  /\ pc \in {"idle", "read", "renumber"}
  /\ recentFiles \subseteq Entries
  /\ knownFiles \subseteq RecentGames
  /\ renamed \in 0 .. MaxEntries
  /\ playing \in RecentGames \cup {None}
  /\ whole \in BOOLEAN
  /\ crashes \in 0 .. MaxCrashes
  /\ before \subseteq Entries

\* After a call that ran to its end, whatever was interrupted before it, the
\* folder lists each game once, in a place of its own, no more of them than
\* the limit, and in the order they were played.
WellNumbered ==
  pc = "idle" /\ whole =>
    /\ \A f, g \in entries :
         f # g => /\ f.game # g.game
                  /\ f.number < g.number <=> f.time > g.time
    /\ \A f \in entries : f.number \in 1 .. MaxEntries

\* The list that the folder stands for.  A call changes it when it ends.
Recents == INSTANCE RecentList WITH
  Games <- RecentGames,
  Times <- 1 .. MaxPlays,
  listed <- {[game |-> f.game, time |-> f.time] :
               f \in IF pc = "idle" THEN entries ELSE before}

\* Until a call is interrupted the folder is the list of the last distinct
\* games: a call, with all its renaming and removing, is one step of it.
ListKept ==
  Recents!Init /\ [][crashes' = 0 => Recents!Next]_(Recents!vars)

\* Playing a game takes no other game off the list, unless the list is full,
\* as long as no call was interrupted.
OthersStay ==
  pc = "idle" /\ crashes = 0 =>
    \A f \in before :
      \/ f.game = playing
      \/ \E g \in entries : g.game = f.game
      \/ Cardinality({playing} \cup
           {g.game : g \in {h \in before : h.time > f.time}}) >= MaxEntries

\* docs/lastplayed.md: the service keeps "a menu folder of recently played
\* games": the game just played is in it, as its first entry.
PlayedIsFirst ==
  pc = "idle" /\ whole /\ playing # None =>
    \E f \in entries : f.game = playing /\ f.number = 1
=============================================================================
