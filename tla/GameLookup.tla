----------------------------- MODULE GameLookup ----------------------------
(***************************************************************************)
(* Which system a name, or the path of a game, stands for, and the .mgl    *)
(* file that starts the game in the core of that system (pkg/games:        *)
(* games.go, paths.go, hooks.go; pkg/mister/launchers.go GenerateMgl).     *)
(*                                                                         *)
(* A path is the folder below a games folder that it is in, and its        *)
(* extension, in lower case.  A name is written as in the table; exact     *)
(* says whether the one who asks writes it the same way.  Maps are ranged  *)
(* over in any order, so a lookup has a set of possible results.           *)
(***************************************************************************)
EXTENDS GameSystems, Naturals, FiniteSets, SequencesExt

CONSTANT SetCore    \* set_core of the user: for some ids, another core

Find(id) == CHOOSE s \in SystemTable : s.id = id

\* The last system of the group SMS.
SgCopy == Sys("", {}, "", {}, "", <<F(1, {".sg"})>>)

Member(id) == IF id = "" THEN SgCopy ELSE Find(id)

\* The first system of a group, with the slots of all.
GetGroup(group) ==
  LET ids == CoreGroups[group]
  IN  [Find(ids[1]) EXCEPT !.slots =
         FlattenSeq([i \in DOMAIN ids |-> Member(ids[i]).slots])]

LookupSystem(name, exact) ==
  IF exact /\ name \in DOMAIN CoreGroups
    THEN {GetGroup(name)}
    ELSE {s \in SystemTable : name = s.id \/ name \in s.alias}

Extensions(system) == UNION {slot.exts : slot \in Range(system.slots)}

\* What the lookups owe to the table: a slot that names none of the core is
\* for .mra files only, and no two systems list files of one extension in one
\* folder.
ASSUME TableFacts ==
  /\ \A s \in SystemTable :
       /\ s.slots \in Seq([exts : SUBSET STRING,
                         mgl : {<<>>} \cup ({"f", "s"} \X Nat)])
       /\ \A slot \in Range(s.slots) :
            slot.mgl = <<>> => slot.exts = {".mra"}
  /\ \A s, t \in SystemTable :
       \A folder \in s.folder \cap t.folder :
         \A ext \in Extensions(s) \cap Extensions(t) : s = t

\* Files that begin with a dot are left out.
MatchSystemFile(system, path) == path.ext \in Extensions(system)

\* HasPrefix, of whole paths.
Begins(folder, path) ==
  folder = path.folder \/ <<folder, path.folder>> \in FolderPrefix

\* Mutant: the extension does not count.
FolderMatch(path) == {s \in SystemTable : \E f \in s.folder : Begins(f, path)}

FolderToSystems(path) ==
  LET valid == {s \in SystemTable : \E f \in s.folder : Begins(f, path)}
      matched == {s \in valid : MatchSystemFile(s, path)}
  IN  IF matched = {} THEN valid ELSE matched

\* A system with a set name is preferred.
BestSystemMatch(path) ==
  LET found == FolderToSystems(path)
      named == {s \in found : s.setname # ""}
  IN  IF Cardinality(found) > 1 /\ named # {} THEN named ELSE found

\* PathToMglDef: the first slot for a file; <<>> if there is none.
SlotFor(system, path) ==
  LET n == SelectInSeq(system.slots, LAMBDA slot : path.ext \in slot.exts)
  IN  IF n = 0 THEN <<>> ELSE system.slots[n].mgl

\* GetFiles: the games of a system.
IsGameOf(system, path) ==
  path.folder \in system.folder /\ MatchSystemFile(system, path)

\* RunSystemHook: the systems that do something of their own with files, which
\* may fail: copy a BIOS, list the folder of a disk, write a boot file.
Hooked == {"FDS", "WonderSwanColor", "ao486", "Amiga"}

\* The slot that a hook gives a file instead.  (Not that of hookAmiga, which
\* gives the games and demos of a listing a set name and no slot.)
HookSlot(system, path) ==
  IF system.id = "NeoGeo" /\ path.ext \in {".zip", ""} THEN <<"f", 1>>
    ELSE IF system.id = "ao486" /\ path.ext = ".vhd"
      THEN SlotFor(system, path) ELSE <<>>

Core(system) ==
  IF system.id \in DOMAIN SetCore THEN SetCore[system.id] ELSE system.rbf

NoFile == [folder |-> "", ext |-> ""]

FileSlot(system, path) ==
  IF HookSlot(system, path) # <<>> THEN HookSlot(system, path)
                                   ELSE SlotFor(system, path)

\* GenerateMgl fails when no slot takes the file.
CanGenerate(system, path) == path = NoFile \/ FileSlot(system, path) # <<>>

\* Mutant: the set name is left out.
PlainMgl(system, path) ==
  [rbf |-> Core(system), setname |-> "", file |-> path,
   slot |-> IF path = NoFile THEN <<>> ELSE FileSlot(system, path)]

GenerateMgl(system, path) ==
  [rbf |-> Core(system), setname |-> system.setname, file |-> path,
   slot |-> IF path = NoFile THEN <<>> ELSE FileSlot(system, path)]
=============================================================================
