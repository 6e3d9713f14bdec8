--------------------------- MODULE LauncherProofs ---------------------------
(***************************************************************************)
(* Proofs about Launching, for any number of requests, files, names and    *)
(* settings of cores, and about LaunchSync, for any folders, games and     *)
(* versions of a sync file, and whatever fails, is cut off or is changed   *)
(* by requests, and about RecentFolder, for any games, limit and crashes;  *)
(* and that what is proved of each is true where MCLaunchers puts them     *)
(* side by side.                                                           *)
(***************************************************************************)
EXTENDS MCLaunchers, FiniteSetTheorems, WellFoundedInduction, TLAPS

-----------------------------------------------------------------------------
(* Launching: what a launch begins with.                                   *)

\* Where a launch with this content begins.
BeginsAt(what, place) ==
  \/ place = "create" /\ what.content.kind = "mgl"
  \/ place = "send" /\ what.content.kind \in {"direct", "rbf"}
  \/ place \in {"refused", "done"} /\ what.content = Empty

IsFile(path) == path = NoFile \/ path \in Paths

Begun(r) ==
  \E what, place :
    Begin(r, what, place) /\ BeginsAt(what, place) /\ IsFile(what.path)

LEMMA TempBegins ==
  ASSUME NEW r \in Requests, NEW via, NEW name, NEW system, NEW path,
         IsFile(path), BeginTemp(r, via, name, system, path)
  PROVE  Begun(r)
<1> DEFINE what == [via |-> via, name |-> name, path |-> path,
                    content |-> IF CanGenerate(system, path)
                                  THEN Whole(GenerateMgl(system, path))
                                  ELSE Empty]
           none == [what EXCEPT !.content = Empty]
<1>1. /\ what.path = path /\ none.path = path /\ none.content = Empty
      /\ what.content = IF CanGenerate(system, path)
                          THEN Whole(GenerateMgl(system, path)) ELSE Empty
  OBVIOUS
<1>2. \/ CanGenerate(system, path) /\ Begin(r, what, "create")
      \/ ~CanGenerate(system, path) /\ Begin(r, what, "refused")
      \/ Begin(r, none, "done")
  BY DEF BeginTemp
<1> HIDE DEF what, none
<1>3. CASE CanGenerate(system, path) /\ Begin(r, what, "create")
  <2>1. what.content.kind = "mgl"
    BY <1>1, <1>3 DEF Whole
  <2> QED
    BY <1>1, <1>3, <2>1 DEF BeginsAt, Begun
<1>4. CASE ~CanGenerate(system, path) /\ Begin(r, what, "refused")
  BY <1>1, <1>4 DEF BeginsAt, Begun
<1>5. CASE Begin(r, none, "done")
  BY <1>1, <1>5 DEF BeginsAt, Begun
<1> QED
  BY <1>2, <1>3, <1>4, <1>5

LEMMA DirectBegins ==
  ASSUME NEW r \in Requests, NEW via, NEW path, IsFile(path),
         BeginDirect(r, via, path)
  PROVE  Begun(r)
<1> DEFINE what == [via |-> via, name |-> "", path |-> path,
                    content |-> Direct(path)]
<1>1. what.path = path /\ what.content.kind = "direct"
  BY DEF Direct
<1>2. Begin(r, what, "send")
  BY DEF BeginDirect
<1> HIDE DEF what
<1> QED
  BY <1>1, <1>2 DEF BeginsAt, Begun

LEMMA SystemBegins ==
  ASSUME NEW r \in Requests, NEW name, NEW exact, LaunchSystem(r, name, exact)
  PROVE  Begun(r)
<1>1. IsFile(NoFile)
  BY DEF IsFile
<1>2. ASSUME NEW system \in LookupSystem(name, exact), system.rbf # "",
             Begin(r, [via |-> "system", name |-> name, path |-> NoFile,
                       content |-> Rbf(system)], "send")
      PROVE  Begun(r)
  <2> DEFINE what == [via |-> "system", name |-> name, path |-> NoFile,
                      content |-> Rbf(system)]
  <2>1. what.path = NoFile /\ what.content.kind = "rbf"
    BY DEF Rbf
  <2>2. Begin(r, what, "send")
    BY <1>2
  <2> HIDE DEF what
  <2> QED
    BY <1>1, <2>1, <2>2 DEF BeginsAt, Begun
<1>3. ASSUME Begin(r, [NoJob EXCEPT !.via = "unknown", !.name = name],
                   "refused")
      PROVE  Begun(r)
  <2> DEFINE what == [NoJob EXCEPT !.via = "unknown", !.name = name]
  <2>1. what.path = NoFile /\ what.content = Empty
    BY DEF NoJob
  <2>2. Begin(r, what, "refused")
    BY <1>3
  <2> HIDE DEF what
  <2> QED
    BY <1>1, <2>1, <2>2 DEF BeginsAt, Begun
<1> QED
  BY <1>1, <1>2, <1>3, TempBegins DEF LaunchSystem

LEMMA LaunchBegins ==
  ASSUME NEW r \in Requests, Launch(r, Paths, SystemNames)
  PROVE  at[r] = "idle" /\ launches < MaxLaunches /\ Begun(r)
<1>1. ASSUME NEW path \in Paths,
             LaunchGame(r, path) \/ LaunchGenericFile(r, path)
               \/ LaunchRandomGame(r, path)
      PROVE  Begun(r)
  <2>1. IsFile(path)
    BY DEF IsFile
  <2>2. \/ \E via : BeginDirect(r, via, path)
        \/ \E via, name, system : BeginTemp(r, via, name, system, path)
    BY <1>1 DEF LaunchGame, LaunchGenericFile, LaunchRandomGame
  <2> QED
    BY <2>1, <2>2, TempBegins, DirectBegins
<1> QED
  BY <1>1, SystemBegins DEF Launch

-----------------------------------------------------------------------------
(* Launching: types.                                                       *)

LaunchTypeInv == LaunchTypeOK /\ DOMAIN job = Requests

LEMMA LaunchTypesKept ==
  ASSUME LaunchTypeInv, [LaunchNext]_launchVars
  PROVE  LaunchTypeInv'
<1> USE LaunchConstants DEF LaunchTypeInv, LaunchTypeOK, requests, mister
<1>1. ASSUME NEW r \in Requests, Launch(r, Paths, SystemNames)
      PROVE  LaunchTypeInv'
  <2>1. PICK what, place :
          Begin(r, what, place) /\ BeginsAt(what, place) /\ IsFile(what.path)
    BY <1>1, LaunchBegins DEF Begun
  <2>2. launches \in 0 .. MaxLaunches /\ launches < MaxLaunches
    BY <1>1, LaunchBegins
  <2>3. place \in {"create", "send", "refused", "done"}
    BY <2>1 DEF BeginsAt
  <2>4. \A q \in Requests : IsFile(job'[q].path)
    BY <2>1 DEF Begin, IsFile
  <2>5. last'.alone \in BOOLEAN
    BY <2>1 DEF Begin, Quiet
  <2> QED
    BY <2>1, <2>2, <2>3, <2>4, <2>5 DEF Begin, IsFile
<1>2. ASSUME NEW r \in Requests, CreateTemp(r) \/ WriteTemp(r) \/ Send(r)
      PROVE  LaunchTypeInv'
  BY <1>2 DEF CreateTemp, WriteTemp, Send, Goto
<1>3. ASSUME NEW r \in Requests, SetActiveGame(r)
      PROVE  LaunchTypeInv'
  BY <1>3 DEF SetActiveGame, Goto
<1>4. ASSUME NEW r \in Requests, End(r)
      PROVE  LaunchTypeInv'
  BY <1>4 DEF End, Goto, NoJob
<1>5. CASE TakeCommand \/ UNCHANGED launchVars
  BY <1>5 DEF TakeCommand, launchVars
<1> QED
  BY <1>1, <1>2, <1>3, <1>4, <1>5 DEF LaunchNext, GoOn

\* Every variable keeps its type (pkg/mister/launchers.go): what is launched,
\* and what ACTIVEGAME names, is one of the files.
THEOREM LaunchTypes == LaunchSpec => []LaunchTypeInv
<1>1. LaunchInit => LaunchTypeInv
  <2> SUFFICES ASSUME LaunchInit
               PROVE  LaunchTypeInv
    OBVIOUS
  <2>1. launches \in 0 .. MaxLaunches
    BY LaunchConstants DEF LaunchInit
  <2>2. activeGame = NoFile /\ \A r \in Requests : job[r].path = NoFile
    BY DEF LaunchInit, NoJob
  <2>3. last.alone \in BOOLEAN
    BY DEF LaunchInit
  <2> QED
    BY <2>1, <2>2, <2>3 DEF LaunchInit, LaunchTypeInv, LaunchTypeOK
<1> QED
  BY <1>1, LaunchTypesKept, PTL DEF LaunchSpec

-----------------------------------------------------------------------------
(* Launching: a launch that nothing overlaps.                              *)

Content == last.job.content

\* MiSTer has been told of the last launch; until it takes the command, the
\* temporary file holds what it will read.
Sent ==
  IF Content.kind = "mgl"
    THEN /\ tmp = Content
         /\ commands = <<Empty>> \/ (commands = <<>> /\ running = tmp)
    ELSE commands = <<Content>> \/ (commands = <<>> /\ running = Content)

Active ==
  Content.kind # "rbf" /\ last.job.path.ext # ".rbf" =>
    activeGame = last.job.path

\* How far the last launch has come when its request is at this place, if it
\* has been alone all the time.
StageInv(place) ==
  /\ place \in {"create", "write"} => Content.kind = "mgl" /\ commands = <<>>
  /\ place = "write" => tmp = Empty
  /\ place = "send" => /\ commands = <<>> /\ Content # Empty
                       /\ Content.kind = "mgl" => tmp = Content
  /\ place = "active" => Sent /\ Content.kind # "rbf" /\ Content # Empty
  /\ place \in {"done", "refused"} /\ Content # Empty => Sent /\ Active

AllIdle == \A r \in Requests : at[r] = "idle"

\* While the last launch has been alone its request is the only one there is,
\* and what it has done so far still stands.
AloneInv ==
  last.alone =>
    /\ \A q, r \in Requests : at[q] # "idle" /\ at[r] # "idle" => q = r
    /\ \A r \in Requests :
         at[r] # "idle" => job[r] = last.job /\ StageInv(at[r])
    /\ AllIdle /\ Content # Empty => Sent /\ Active

LEMMA AloneKeptByBegin ==
  ASSUME LaunchTypeInv, NEW r \in Requests, at[r] = "idle", Begun(r)
  PROVE  AloneInv'
<1>1. PICK what, place : Begin(r, what, place) /\ BeginsAt(what, place)
  BY DEF Begun
<1>2. /\ last'.job = what /\ last'.alone = Quiet
      /\ job'[r] = what /\ at'[r] = place
      /\ \A q \in Requests \ {r} : at'[q] = at[q]
      /\ commands' = commands
  BY <1>1 DEF Begin, LaunchTypeInv, LaunchTypeOK, mister
<1>3. SUFFICES ASSUME Quiet
               PROVE  AloneInv'
  BY <1>2 DEF AloneInv
<1>4. \A q \in Requests : at'[q] # "idle" => q = r
  BY <1>2, <1>3 DEF Quiet
<1>5. StageInv(place)'
  BY <1>1, <1>2, <1>3 DEF BeginsAt, StageInv, Content, Quiet, Empty
<1>6. place # "idle"
  BY <1>1 DEF BeginsAt
<1> QED
  BY <1>2, <1>4, <1>5, <1>6 DEF AloneInv, AllIdle

LEMMA AloneKept ==
  ASSUME LaunchTypeInv, AloneInv, [LaunchNext]_launchVars
  PROVE  AloneInv'
<1>1. ASSUME NEW r \in Requests, Launch(r, Paths, SystemNames)
      PROVE  AloneInv'
  BY <1>1, LaunchBegins, AloneKeptByBegin
<1>2. ASSUME NEW r \in Requests, NEW place, place # "idle",
             at[r] # "idle", at' = [at EXCEPT ![r] = place],
             UNCHANGED <<job, last>>,
             last.alone /\ job[r] = last.job /\ StageInv(at[r])
               => StageInv(place)'
      PROVE  AloneInv'
  <2>1. /\ \A q \in Requests : at'[q] = IF q = r THEN place ELSE at[q]
        /\ last' = last /\ job' = job
    BY <1>2 DEF LaunchTypeInv, LaunchTypeOK
  <2>2. SUFFICES ASSUME last.alone
                 PROVE  AloneInv'
    BY <2>1 DEF AloneInv
  <2>3. \A q \in Requests : at[q] # "idle" => q = r
    BY <1>2, <2>2 DEF AloneInv
  <2>4. job[r] = last.job /\ StageInv(place)'
    BY <1>2, <2>2 DEF AloneInv
  <2> QED
    BY <1>2, <2>1, <2>3, <2>4 DEF AloneInv, AllIdle
<1> USE DEF StageInv, Sent, Active, Content
<1>3. ASSUME NEW r \in Requests, CreateTemp(r)
      PROVE  AloneInv'
  BY <1>2, <1>3 DEF CreateTemp, Goto, mister
<1>4. ASSUME NEW r \in Requests, WriteTemp(r)
      PROVE  AloneInv'
  <2>1. /\ at[r] = "write" /\ at' = [at EXCEPT ![r] = "send"]
        /\ tmp = Empty => tmp' = job[r].content
        /\ UNCHANGED <<job, last, commands>>
    BY <1>4 DEF WriteTemp, Goto, mister
  <2>2. ASSUME job[r] = last.job, StageInv("write")
        PROVE  StageInv("send")'
    BY <2>1, <2>2 DEF Empty
  <2> HIDE DEF StageInv
  <2> QED
    BY <1>2, <2>1, <2>2
<1>5. ASSUME NEW r \in Requests, Send(r)
      PROVE  AloneInv'
  <2>1. /\ at[r] = "send"
        /\ commands' = Append(commands, IF job[r].content.kind = "mgl"
                                          THEN Empty ELSE job[r].content)
        /\ UNCHANGED <<job, last, tmp, running>>
    BY <1>5 DEF Send
  <2>2. ASSUME job[r] = last.job, StageInv("send")
        PROVE  Sent' /\ Content' = Content /\ Content # Empty
    <3>1. commands' = IF Content.kind = "mgl" THEN <<Empty>> ELSE <<Content>>
      BY <2>1, <2>2
    <3> QED
      BY <2>1, <2>2, <3>1
  <2>3. CASE job[r].content.kind = "rbf"
    <3>1. at' = [at EXCEPT ![r] = "done"]
      BY <1>5, <2>3 DEF Send, Goto
    <3>2. ASSUME job[r] = last.job, StageInv("send")
          PROVE  StageInv("done")'
      <4> HIDE DEF Sent
      <4> QED
        BY <2>2, <2>3, <3>2
    <3> HIDE DEF StageInv
    <3> QED
      BY <1>2, <2>1, <3>1, <3>2
  <2>4. CASE job[r].content.kind # "rbf"
    <3>1. at' = [at EXCEPT ![r] = "active"]
      BY <1>5, <2>4 DEF Send, Goto
    <3>2. ASSUME job[r] = last.job, StageInv("send")
          PROVE  StageInv("active")'
      <4> HIDE DEF Sent
      <4> QED
        BY <2>2, <2>4, <3>2
    <3> HIDE DEF StageInv
    <3> QED
      BY <1>2, <2>1, <3>1, <3>2
  <2> QED
    BY <2>3, <2>4
<1>6. ASSUME NEW r \in Requests, SetActiveGame(r)
      PROVE  AloneInv'
  BY <1>2, <1>6 DEF SetActiveGame, Goto, mister
<1>7. ASSUME NEW r \in Requests, End(r)
      PROVE  AloneInv'
  BY <1>7 DEF End, Goto, mister, AloneInv, AllIdle, LaunchTypeInv,
    LaunchTypeOK
<1>8. CASE TakeCommand
  <2>1. /\ commands # <<>> /\ commands' = Tail(commands)
        /\ running' = IF Head(commands) = Empty THEN tmp ELSE Head(commands)
        /\ UNCHANGED <<at, job, last, tmp, activeGame>>
    BY <1>8 DEF TakeCommand, requests
  <2>2. ASSUME Content # Empty, Sent
        PROVE  Sent'
    <3>1. CASE Content.kind = "mgl"
      <4>1. commands = <<Empty>>
        BY <2>1, <2>2, <3>1
      <4> QED
        BY <2>1, <2>2, <3>1, <4>1
    <3>2. CASE Content.kind # "mgl"
      <4>1. commands = <<Content>>
        BY <2>1, <2>2, <3>2
      <4> QED
        BY <2>1, <2>2, <3>2, <4>1
    <3> QED
      BY <3>1, <3>2
  <2>3. Active' <=> Active
    BY <2>1
  <2>4. ASSUME NEW place, StageInv(place)
        PROVE  StageInv(place)'
    <3> HIDE DEF Sent, Active
    <3> QED
      BY <2>1, <2>2, <2>3, <2>4
  <2> HIDE DEF Sent, Active, StageInv
  <2> QED
    BY <2>1, <2>2, <2>3, <2>4 DEF AloneInv, AllIdle
<1>9. CASE UNCHANGED launchVars
  BY <1>9 DEF launchVars, requests, mister, AloneInv, AllIdle
<1> QED
  BY <1>1, <1>3, <1>4, <1>5, <1>6, <1>7, <1>8, <1>9 DEF LaunchNext, GoOn

\* A launch that nothing overlaps, until MiSTer has read its file, is what runs
\* in the end and what ACTIVEGAME names (launchers.go:258), whatever launches
\* before it have left in the temporary file and in the pipe.
THEOREM LoneLaunchRuns == LaunchSpec => []LastLaunchRuns
<1>1. LaunchInit => AloneInv
  BY DEF LaunchInit, AloneInv
<1>2. AloneInv => LastLaunchRuns
  BY DEF AloneInv, LastLaunchRuns, Quiet, Launched, AllIdle, Sent, Active,
    Content
<1> QED
  BY <1>1, <1>2, AloneKept, LaunchTypes, PTL DEF LaunchSpec

-----------------------------------------------------------------------------
(* Launching: the system of a file, its slot and its core.                 *)

LEMMA LeastIn ==
  ASSUME NEW I \in SUBSET Nat, I # {}
  PROVE  \E i \in I : \A j \in I : i <= j
<1> DEFINE R == OpToRel(<, Nat)
<1>1. IsWellFoundedOn(R, Nat)
  BY NatLessThanWellFounded
<1>2. \A i, j \in Nat : i < j => <<i, j>> \in R
  BY DEF OpToRel
<1> HIDE DEF R
<1>3. PICK i \in I : \A j \in I : ~ (<<j, i>> \in R)
  BY <1>1, WFMin
<1>4. \A j \in I : i <= j
  <2> TAKE j \in I
  <2>1. ~(j < i)
    BY <1>2, <1>3
  <2> QED
    BY <2>1
<1> QED
  BY <1>4

\* The first slot that takes a file is found, and it is one of the core.
LEMMA SlotIsFound ==
  ASSUME NEW system \in SystemTable, NEW path, MatchSystemFile(system, path),
         path.ext # ".mra"
  PROVE  SlotFor(system, path) # <<>>
<1> DEFINE slots == system.slots
           I == {i \in 1 .. Len(slots) : path.ext \in slots[i].exts}
<1>1. /\ slots \in Seq([exts : SUBSET STRING,
                         mgl : {<<>>} \cup ({"f", "s"} \X Nat)])
      /\ \A slot \in Range(slots) : slot.mgl = <<>> => slot.exts = {".mra"}
  BY TableFacts
<1>2. DOMAIN slots = 1 .. Len(slots) /\ Len(slots) \in Nat
  BY <1>1
<1>3. I # {}
  BY <1>1 DEF MatchSystemFile, Extensions, Range
<1>4. I \in SUBSET Nat /\ \A i \in I : i # 0
  BY <1>2
<1>5. \A i \in I : slots[i] \in Range(slots) /\ path.ext \in slots[i].exts
  BY <1>2 DEF Range
<1>6. SlotFor(system, path) = IF Min(I) = 0 THEN <<>> ELSE slots[Min(I)].mgl
  BY <1>3 DEF SlotFor, SelectInSeq
<1> HIDE DEF I, slots
<1>7. PICK i \in I : \A j \in I : i <= j
  BY <1>3, <1>4, LeastIn
<1>8. Min(I) \in I
  BY <1>7 DEF Min
<1> QED
  BY <1>1, <1>4, <1>5, <1>6, <1>8

\* A system that a launch may take for a file.
Taken(system, path) ==
  \/ system \in BestSystemMatch(path)
  \/ system \in SystemTable /\ IsGameOf(system, path)

Listed(path) == \E s \in SystemTable : IsGameOf(s, path)

NoPrefix(path) == \A p \in FolderPrefix : p[2] # path.folder

\* If some system lists a file, one that takes it is found, in the same folder
\* unless that begins with the name of another.
LEMMA TakenMatches ==
  ASSUME NEW path, NEW system, Taken(system, path), Listed(path)
  PROVE  /\ system \in SystemTable
         /\ MatchSystemFile(system, path)
         /\ NoPrefix(path) => path.folder \in system.folder
<1>1. CASE system \in SystemTable /\ IsGameOf(system, path)
  BY <1>1 DEF IsGameOf
<1>2. CASE system \in BestSystemMatch(path)
  <2> DEFINE valid == {s \in SystemTable :
                         \E f \in s.folder : Begins(f, path)}
             matched == {s \in valid : MatchSystemFile(s, path)}
  <2>1. FolderToSystems(path) = IF matched = {} THEN valid ELSE matched
    BY DEF FolderToSystems
  <2>2. matched # {}
    BY DEF Listed, IsGameOf, Begins
  <2>3. system \in matched
    BY <1>2, <2>1, <2>2 DEF BestSystemMatch
  <2>4. PICK f \in system.folder : Begins(f, path)
    BY <2>3
  <2>5. ASSUME NoPrefix(path)
        PROVE  f = path.folder
    BY <2>4, <2>5 DEF Begins, NoPrefix
  <2> QED
    BY <2>3, <2>4, <2>5
<1> QED
  BY <1>1, <1>2 DEF Taken

\* The core and the set name of the system that lists the file.
Right(content) ==
  content.kind = "mgl" /\ content.mgl.file # NoFile =>
    LET path == content.mgl.file IN
    \A s \in SystemTable :
      IsGameOf(s, path) /\ NoPrefix(path) =>
        content.mgl.rbf = Core(s) /\ content.mgl.setname = s.setname

LEMMA MglIsRight ==
  ASSUME NEW path, NEW system, path # NoFile => Taken(system, path)
  PROVE  Right(Whole(GenerateMgl(system, path)))
<1> DEFINE content == Whole(GenerateMgl(system, path))
<1>1. /\ content.mgl.file = path
      /\ content.mgl.rbf = Core(system)
      /\ content.mgl.setname = system.setname
  BY DEF Whole, GenerateMgl
<1>2. ASSUME NEW s \in SystemTable, IsGameOf(s, path), NoPrefix(path),
             path # NoFile
      PROVE  system = s
  <2>1. /\ system \in SystemTable /\ path.folder \in system.folder
        /\ path.ext \in Extensions(system)
    BY <1>2, TakenMatches DEF Listed, MatchSystemFile
  <2>2. path.folder \in s.folder /\ path.ext \in Extensions(s)
    BY <1>2 DEF IsGameOf, MatchSystemFile
  <2> QED
    BY <2>1, <2>2, TableFacts
<1> HIDE DEF content
<1> QED
  BY <1>1, <1>2 DEF Right, content

\* What can be told MiSTer: the temporary file, launchers and cores.
Told ==
  {Empty} \cup {Direct(path) : path \in Paths}
    \cup {Rbf(system) : system \in UNION {LookupSystem(name, exact) :
                                           name \in SystemNames,
                                           exact \in BOOLEAN}}

LEMMA ToldIsNoMgl == \A content \in Told : content.kind # "mgl"
BY DEF Told, Empty, Direct, Rbf

Proper(content) == Right(content) /\ (content.kind = "mgl" \/ content \in Told)

LEMMA ToldIsProper == \A content \in Told : Proper(content)
BY ToldIsNoMgl DEF Proper, Right

\* Where a launch begins: one that is refused is of no game of a system.
BeginsRight(r) ==
  \E what, place :
    /\ Begin(r, what, place)
    /\ Proper(what.content)
    /\ place = "refused" /\ what.via # "unknown" => ~Listed(what.path)

LEMMA TempBeginsRight ==
  ASSUME NEW r \in Requests, NEW via, NEW name, NEW system, NEW path,
         path # NoFile => Taken(system, path) /\ path.ext # ".mra",
         BeginTemp(r, via, name, system, path)
  PROVE  BeginsRight(r)
<1> DEFINE what == [via |-> via, name |-> name, path |-> path,
                    content |-> IF CanGenerate(system, path)
                                  THEN Whole(GenerateMgl(system, path))
                                  ELSE Empty]
           none == [what EXCEPT !.content = Empty]
<1>1. /\ what.path = path /\ none.content = Empty
      /\ what.content = IF CanGenerate(system, path)
                          THEN Whole(GenerateMgl(system, path)) ELSE Empty
  OBVIOUS
<1>2. \/ CanGenerate(system, path) /\ Begin(r, what, "create")
      \/ ~CanGenerate(system, path) /\ Begin(r, what, "refused")
      \/ Begin(r, none, "done")
  BY DEF BeginTemp
<1> HIDE DEF what, none
<1>3. Proper(Empty)
  BY ToldIsProper DEF Told
<1>4. CASE CanGenerate(system, path) /\ Begin(r, what, "create")
  <2>1. Right(what.content) /\ what.content.kind = "mgl"
    BY <1>1, <1>4, MglIsRight DEF Whole
  <2> QED
    BY <1>4, <2>1 DEF BeginsRight, Proper
<1>5. CASE ~CanGenerate(system, path) /\ Begin(r, what, "refused")
  <2>1. path # NoFile /\ SlotFor(system, path) = <<>>
    BY <1>5 DEF CanGenerate, FileSlot
  <2>2. ~Listed(path)
    BY <2>1, TakenMatches, SlotIsFound
  <2> QED
    BY <1>1, <1>3, <1>5, <2>2 DEF BeginsRight
<1>6. CASE Begin(r, none, "done")
  BY <1>1, <1>3, <1>6 DEF BeginsRight
<1> QED
  BY <1>2, <1>4, <1>5, <1>6

LEMMA DirectBeginsRight ==
  ASSUME NEW r \in Requests, NEW via, NEW path \in Paths,
         BeginDirect(r, via, path)
  PROVE  BeginsRight(r)
<1> DEFINE what == [via |-> via, name |-> "", path |-> path,
                    content |-> Direct(path)]
<1>1. what.content \in Told
  BY DEF Told
<1>2. Begin(r, what, "send")
  BY DEF BeginDirect
<1> HIDE DEF what
<1> QED
  BY <1>1, <1>2, ToldIsProper DEF BeginsRight

LEMMA SystemBeginsRight ==
  ASSUME NEW r \in Requests, NEW name \in SystemNames,
         NEW exact \in BOOLEAN, LaunchSystem(r, name, exact)
  PROVE  BeginsRight(r)
<1>1. ASSUME NEW system \in LookupSystem(name, exact),
             Begin(r, [via |-> "system", name |-> name, path |-> NoFile,
                       content |-> Rbf(system)], "send")
      PROVE  BeginsRight(r)
  <2> DEFINE what == [via |-> "system", name |-> name, path |-> NoFile,
                      content |-> Rbf(system)]
  <2>1. what.content \in Told
    BY DEF Told
  <2>2. Begin(r, what, "send")
    BY <1>1
  <2> HIDE DEF what
  <2> QED
    BY <2>1, <2>2, ToldIsProper DEF BeginsRight
<1>2. ASSUME Begin(r, [NoJob EXCEPT !.via = "unknown", !.name = name],
                   "refused")
      PROVE  BeginsRight(r)
  <2> DEFINE what == [NoJob EXCEPT !.via = "unknown", !.name = name]
  <2>1. what.content \in Told /\ what.via = "unknown"
    BY DEF NoJob, Told
  <2>2. Begin(r, what, "refused")
    BY <1>2
  <2> HIDE DEF what
  <2> QED
    BY <2>1, <2>2, ToldIsProper DEF BeginsRight
<1> QED
  BY <1>1, <1>2, TempBeginsRight DEF LaunchSystem

LEMMA LaunchBeginsRight ==
  ASSUME NEW r \in Requests, Launch(r, Paths, SystemNames)
  PROVE  BeginsRight(r)
<1>1. ASSUME NEW path \in Paths,
             LaunchGame(r, path) \/ LaunchGenericFile(r, path)
               \/ LaunchRandomGame(r, path)
      PROVE  BeginsRight(r)
  <2>1. \/ \E via : BeginDirect(r, via, path)
        \/ \E via, name, system :
             /\ Taken(system, path) /\ path.ext # ".mra"
             /\ BeginTemp(r, via, name, system, path)
    BY <1>1 DEF LaunchGame, LaunchGenericFile, LaunchRandomGame, DirectExts,
      Taken
  <2> QED
    BY <2>1, TempBeginsRight, DirectBeginsRight
<1> QED
  BY <1>1, SystemBeginsRight DEF Launch

\* Every content there is, wherever it is, is the right one.
RightInv ==
  /\ \A r \in Requests : Proper(job[r].content)
  /\ commands \in Seq(Told)
  /\ Right(tmp)
  /\ Right(running)

RefusedInv ==
  \A r \in Requests :
    at[r] = "refused" /\ job[r].via # "unknown" => ~Listed(job[r].path)

LEMMA RightKept ==
  ASSUME LaunchTypeInv, RightInv, RefusedInv, [LaunchNext]_launchVars
  PROVE  RightInv' /\ RefusedInv'
<1> USE DEF RightInv, RefusedInv, requests, mister
<1> HIDE DEF Right
<1>1. at \in [Requests -> {at[r] : r \in Requests}] /\ DOMAIN job = Requests
  BY DEF LaunchTypeInv, LaunchTypeOK
<1>2. ASSUME NEW r \in Requests, Launch(r, Paths, SystemNames)
      PROVE  RightInv' /\ RefusedInv'
  <2>1. PICK what, place :
          /\ Begin(r, what, place)
          /\ Proper(what.content)
          /\ place = "refused" /\ what.via # "unknown" => ~Listed(what.path)
    BY <1>2, LaunchBeginsRight DEF BeginsRight
  <2> QED
    BY <1>1, <2>1 DEF Begin
<1>3. ASSUME NEW r \in Requests,
             CreateTemp(r) \/ WriteTemp(r) \/ SetActiveGame(r)
      PROVE  RightInv' /\ RefusedInv'
  <2>1. Right(Empty) /\ Right(Torn)
    BY DEF Right, Empty, Torn
  <2>2. /\ UNCHANGED <<job, commands, running>>
        /\ tmp' \in {tmp, Empty, Torn, job[r].content}
    BY <1>3 DEF CreateTemp, WriteTemp, SetActiveGame
  <2>3. RefusedInv'
    BY <1>1, <1>3 DEF CreateTemp, WriteTemp, SetActiveGame, Goto
  <2> QED
    BY <2>1, <2>2, <2>3 DEF Proper
<1>4. ASSUME NEW r \in Requests, Send(r)
      PROVE  RightInv' /\ RefusedInv'
  <2> DEFINE told == IF job[r].content.kind = "mgl" THEN Empty
                                                    ELSE job[r].content
  <2>1. told \in Told
    BY DEF Proper, Told
  <2>2. commands' = Append(commands, told) /\ UNCHANGED <<job, tmp, running>>
    BY <1>4 DEF Send
  <2> HIDE DEF told
  <2>3. commands' \in Seq(Told)
    BY <2>1, <2>2
  <2>4. RefusedInv'
    BY <1>1, <1>4 DEF Send, Goto
  <2> QED
    BY <2>2, <2>3, <2>4
<1>5. ASSUME NEW r \in Requests, End(r)
      PROVE  RightInv' /\ RefusedInv'
  <2>1. Proper(NoJob.content)
    BY ToldIsProper DEF NoJob, Told
  <2> QED
    BY <1>1, <1>5, <2>1 DEF End, Goto
<1>6. CASE TakeCommand
  <2>1. /\ commands # <<>> /\ commands' = Tail(commands)
        /\ running' = IF Head(commands) = Empty THEN tmp ELSE Head(commands)
        /\ UNCHANGED <<at, job, tmp>>
    BY <1>6 DEF TakeCommand
  <2>2. Tail(commands) \in Seq(Told) /\ Head(commands) \in Told
    BY <2>1
  <2>3. Right(Head(commands))
    BY <2>2, ToldIsProper DEF Proper
  <2> QED
    BY <2>1, <2>2, <2>3
<1>7. CASE UNCHANGED launchVars
  BY <1>7 DEF launchVars
<1> QED
  BY <1>2, <1>3, <1>4, <1>5, <1>6, <1>7 DEF LaunchNext, GoOn

LEMMA RightAlways == LaunchSpec => [](RightInv /\ RefusedInv)
<1>1. LaunchInit => RightInv /\ RefusedInv
  <2>1. Proper(Empty)
    BY ToldIsProper DEF Told
  <2>2. Right(Empty)
    BY <2>1 DEF Proper
  <2> SUFFICES ASSUME LaunchInit
               PROVE  RightInv /\ RefusedInv
    OBVIOUS
  <2>3. \A r \in Requests : at[r] = "idle" /\ job[r].content = Empty
    BY DEF LaunchInit, NoJob
  <2>4. commands \in Seq(Told)
    BY DEF LaunchInit
  <2>5. Right(tmp) /\ Right(running)
    BY <2>2 DEF LaunchInit
  <2> HIDE DEF Proper, Right, Told
  <2> QED
    BY <2>1, <2>3, <2>4, <2>5 DEF RightInv, RefusedInv
<1> QED
  BY <1>1, RightKept, LaunchTypes, PTL DEF LaunchSpec

\* Every game that some system lists can be launched: the system that
\* BestSystemMatch finds for its path has a slot for it
\* (pkg/games/games.go:214), whatever cores the user has set.
THEOREM ListedGamesAreTaken == LaunchSpec => []GamesAreTaken
<1>1. RefusedInv => GamesAreTaken
  BY DEF RefusedInv, GamesAreTaken, Listed
<1> QED
  BY <1>1, RightAlways, PTL

\* A game runs in the core and under the set name of the system that lists it,
\* unless the name of its folder begins with another system's
\* (pkg/mister/launchers.go:18), whichever launches overlap.
THEOREM GamesRunInTheirSystem == LaunchSpec => []RunsInItsSystem
<1>1. RightInv => RunsInItsSystem
  BY DEF RightInv, Right, RunsInItsSystem, NoPrefix
<1> QED
  BY <1>1, RightAlways, PTL

-----------------------------------------------------------------------------
(* LaunchSync: types.                                                      *)

\* LaunchSync sets a link up only for the game it has just linked.
SetupInv ==
  /\ todo[Sync] # <<>> => phase = "remove" /\ Tail(todo[Sync]) = <<>>
  /\ phase # "remove" => game = {}
  /\ phase = "remove" => \E g \in Games : game = {g}

SyncTypeInv == SyncTypeOK /\ SetupInv

LEMMA Versions == 1 \in DOMAIN Lists /\ DOMAIN Lists = 1 .. Len(Lists)
BY SyncConstants

LEMMA LauncherTypes ==
  ASSUME NEW g \in Games
  PROVE  /\ DirOf[g] \in Dirs
         /\ Launcher(g) \in [dir : Dirs, name : Names, kind : Kinds]
         /\ NotFound(g) \in [dir : Dirs, name : Names, kind : Kinds]
         /\ Launcher(g).dir = DirOf[g] /\ NotFound(g).dir = DirOf[g]
BY SyncConstants DEF Launcher, NotFound, File, Kinds

\* The steps of setting a link up, whoever takes them.
LEMMA LinkTypes ==
  ASSUME MenuTypeOK, NEW a \in Actors, Look(a) \/ SetLink(a)
  PROVE  /\ MenuTypeOK'
         /\ a # Sync => todo'[Sync] = todo[Sync]
         /\ a = Sync => todo'[Sync] \in {todo[Sync], Tail(todo[Sync])}
<1> USE DEF MenuTypeOK, card
<1>1. CASE Look(a)
  <2> DEFINE dir == Head(todo[a])
  <2>1. Tail(todo[a]) \in Seq(Dirs) /\ dir \in Dirs
    BY <1>1 DEF Look
  <2>2. CASE dir \in dirs
    <3> DEFINE link == dir \in links
               mra == HasMra(dir)
    <3>1. link \in BOOLEAN /\ mra \in BOOLEAN
      BY DEF HasMra
    <3>2. /\ seen' = [seen EXCEPT ![a] =
                        [known |-> TRUE, link |-> link, mra |-> mra]]
          /\ UNCHANGED <<files, dirs, links, todo, acts>> /\ todo[a] # <<>>
      BY <1>1, <2>2 DEF Look
    <3> HIDE DEF link, mra
    <3>3. seen' \in
            [Actors -> [known : BOOLEAN, link : BOOLEAN, mra : BOOLEAN]]
      BY <3>1, <3>2
    <3> QED
      BY <3>2, <3>3 DEF Actors
  <2>3. CASE dir \notin dirs
    <3>1. /\ todo' = [todo EXCEPT ![a] = Tail(@)]
          /\ UNCHANGED <<files, dirs, links, seen, acts>>
          /\ ~seen[a].known /\ todo[a] # <<>>
      BY <1>1, <2>3 DEF Look
    <3>2. todo' \in [Actors -> Seq(Dirs)]
      BY <2>1, <3>1
    <3>3. \A b \in Actors : seen'[b].known => todo'[b] # <<>>
      BY <3>1
    <3> QED
      BY <3>1, <3>2, <3>3 DEF Actors
  <2> QED
    BY <2>2, <2>3
<1>2. CASE SetLink(a)
  <2>1. Tail(todo[a]) \in Seq(Dirs) /\ todo[a] # <<>>
    BY <1>2 DEF SetLink
  <2>2. seen' \in [Actors -> [known : BOOLEAN, link : BOOLEAN, mra : BOOLEAN]]
    BY <1>2 DEF SetLink, Nothing
  <2>3. todo' \in [Actors -> Seq(Dirs)]
    BY <1>2, <2>1 DEF SetLink
  <2>4. \A b \in Actors : seen'[b].known => todo'[b] # <<>>
    BY <1>2 DEF SetLink, Nothing
  <2>5. links' \subseteq dirs
    <3>1. CASE Raced(a) \/ seen[a].mra = seen[a].link
      BY <1>2, <3>1 DEF SetLink
    <3>2. CASE ~Raced(a) /\ seen[a].mra # seen[a].link
      <4>1. seen[a].known
        BY <1>2 DEF SetLink
      <4>2. Head(todo[a]) \in dirs
        BY <3>2, <4>1 DEF Raced
      <4> QED
        BY <1>2, <3>2, <4>2 DEF SetLink
    <3> QED
      BY <3>1, <3>2
  <2> QED
    BY <1>2, <2>1, <2>2, <2>3, <2>4, <2>5 DEF SetLink, Actors
<1> QED
  BY <1>1, <1>2

LEMMA RequestTypes ==
  ASSUME MenuTypeOK, NEW u \in Users, Request(u)
  PROVE  MenuTypeOK' /\ todo'[Sync] = todo[Sync]
<1> USE MenuConstants DEF MenuTypeOK, Act, SetUp, Actors, File, Kinds
<1>1. ASSUME NEW dir \in Dirs, CreateFolder(u, dir)
      PROVE  MenuTypeOK' /\ todo'[Sync] = todo[Sync]
  BY <1>1 DEF CreateFolder
<1>2. ASSUME NEW dir \in Dirs, DeleteFolder(u, dir)
      PROVE  MenuTypeOK' /\ todo'[Sync] = todo[Sync]
  BY <1>2 DEF DeleteFolder
<1>3. ASSUME NEW dir \in Dirs, NEW name \in Names, NEW kind \in {"mra", "mgl"},
             CreateLauncher(u, dir, name, kind)
      PROVE  MenuTypeOK' /\ todo'[Sync] = todo[Sync]
  BY <1>3 DEF CreateLauncher
<1>4. ASSUME NEW f \in files, DeleteFile(u, f)
      PROVE  MenuTypeOK' /\ todo'[Sync] = todo[Sync]
  BY <1>4 DEF DeleteFile
<1>5. ASSUME NEW f \in files, NEW dir \in Dirs, NEW name \in Names,
             RenameFile(u, f, dir, name)
      PROVE  MenuTypeOK' /\ todo'[Sync] = todo[Sync]
  BY <1>5 DEF RenameFile
<1> QED
  BY <1>1, <1>2, <1>3, <1>4, <1>5 DEF Request

LEMMA SyncTypesKept == SyncTypeInv /\ [SyncNext]_allVars => SyncTypeInv'
<1> SUFFICES ASSUME SyncTypeInv, [SyncNext]_allVars
             PROVE  SyncTypeInv'
  OBVIOUS
<1>f. \/ Fault \/ NoFault
      \/ UNCHANGED <<faults, calm>>
      => faults' \in 0..MaxFaults /\ calm' \in BOOLEAN
  <2>1. CASE Fault
    <3>1. calm' = FALSE
      BY <2>1 DEF Fault
    <3>2. calm' \in BOOLEAN
      BY <3>1
    <3> QED
      BY <2>1, <3>2, SyncConstants DEF Fault, SyncTypeInv, SyncTypeOK
  <2>2. CASE UNCHANGED <<faults, calm>>
    BY <2>2 DEF SyncTypeInv, SyncTypeOK
  <2> QED
    BY <2>1, <2>2 DEF NoFault
<1> USE <1>f, SyncConstants, Versions
    DEF SyncTypeInv, SyncTypeOK, SetupInv, world, process, bounds, Enter
<1>t. Sync \in Actors /\ \A u \in Users : u \in Actors /\ u # Sync
  BY MenuConstants DEF Actors
<1>1. ASSUME UNCHANGED menuVars
      PROVE  MenuTypeOK' /\ UNCHANGED todo
  BY <1>1 DEF menuVars, card, setup, MenuTypeOK, HasMra
<1>2. ASSUME Read \/ Download \/ DownloadFails \/ FinishCopy \/ CopyFails
      PROVE  SyncTypeInv'
  <2>1. UNCHANGED menuVars /\ calm' \in BOOLEAN
    BY <1>2 DEF Read, Download, DownloadFails, FinishCopy, CopyFails
  <2>2. MenuTypeOK' /\ UNCHANGED todo
    BY <1>1, <2>1
  <2>3. CASE Read
    BY <2>1, <2>2, <2>3 DEF Read
  <2>4. CASE Download
    BY <2>1, <2>2, <2>4 DEF Download
  <2>5. CASE DownloadFails \/ CopyFails
    BY <2>1, <2>2, <2>5 DEF DownloadFails, CopyFails
  <2>6. CASE FinishCopy
    BY <2>1, <2>2, <2>6 DEF FinishCopy
  <2> QED
    BY <1>2, <2>3, <2>4, <2>5, <2>6
<1>3. ASSUME NEW f \in files, CleanFile(f)
      PROVE  SyncTypeInv'
  BY <1>3 DEF CleanFile, MenuTypeOK, setup
<1>4. ASSUME NEW dir \in Dirs, CleanLink(dir)
      PROVE  SyncTypeInv'
  BY <1>4 DEF CleanLink, MenuTypeOK, setup
<1>5. ASSUME NEW dir \in Dirs, PruneEmpty(dir)
      PROVE  SyncTypeInv'
  BY <1>5 DEF PruneEmpty, MenuTypeOK, setup, EmptyDirs
<1>6. CASE CleanFails \/ Cleaned \/ Prune \/ IndexFails \/ Finish \/ Leave
  <2>1. UNCHANGED menuVars
    BY <1>6 DEF CleanFails, Cleaned, Prune, IndexFails, Finish, Leave
  <2>2. MenuTypeOK' /\ UNCHANGED todo
    BY <1>1, <2>1
  <2>3. CASE CleanFails \/ IndexFails
    BY <2>2, <2>3 DEF CleanFails, IndexFails
  <2>4. CASE Prune
    <3>1. Lists[new] \subseteq Games
      OBVIOUS
    <3> QED
      BY <2>2, <2>4, <3>1 DEF Prune
  <2>5. CASE Cleaned \/ Finish \/ Leave
    BY <2>2, <2>5 DEF Cleaned, Finish, Leave
  <2> QED
    BY <1>6, <2>3, <2>4, <2>5
<1>7. CASE MakeIndex
  BY <1>7, MenuConstants DEF MakeIndex, MenuTypeOK, setup
<1>8. ASSUME NEW g \in Games, LinkGame(g)
      PROVE  SyncTypeInv'
  <2>1. <<DirOf[g]>> \in Seq(Dirs) /\ <<>> \in Seq(Dirs)
    BY LauncherTypes
  <2>2. todo' \in [Actors -> Seq(Dirs)]
    BY <1>8, <2>1 DEF LinkGame, SetUp, MenuTypeOK
  <2>3. \A a \in Actors : seen'[a].known => todo'[a] # <<>>
    BY <1>8 DEF LinkGame, SetUp, MenuTypeOK
  <2>4. /\ files' \subseteq [dir : Dirs, name : Names, kind : Kinds]
        /\ \A f \in files' : f.dir \in dirs'
    BY <1>8, LauncherTypes DEF LinkGame, MenuTypeOK
  <2>5. links' \subseteq dirs' /\ dirs' \subseteq Dirs
    BY <1>8, LauncherTypes, MenuConstants DEF LinkGame, MenuTypeOK
  <2>6. MenuTypeOK'
    BY <1>8, <2>2, <2>3, <2>4, <2>5 DEF LinkGame, MenuTypeOK
  <2>7. Tail(<<DirOf[g]>>) = <<>>
    OBVIOUS
  <2>8. \/ todo'[Sync] = <<>>
        \/ Tail(todo'[Sync]) = <<>>
    BY <1>8, <1>t, <2>7 DEF LinkGame, SetUp, MenuTypeOK
  <2> QED
    BY <1>8, <2>6, <2>8 DEF LinkGame
<1>9. ASSUME NEW g \in Games, LinkFails(g)
      PROVE  SyncTypeInv'
  <2>1. /\ files' \subseteq files
        /\ dirs \subseteq dirs' /\ dirs' \subseteq Dirs
        /\ UNCHANGED <<links, todo, seen, acts>>
    BY <1>9, LauncherTypes, MenuConstants DEF LinkFails, MenuTypeOK, setup
  <2>2. MenuTypeOK'
    BY <2>1 DEF MenuTypeOK
  <2>3. /\ phase = "link" /\ left' = left \ {g} /\ Fault
        /\ UNCHANGED <<world, local, phase, list, new, index, game, runs>>
    BY <1>9 DEF LinkFails
  <2> QED
    BY <2>1, <2>2, <2>3
<1>10. ASSUME NEW g \in Games, EditLibrary(g)
       PROVE  SyncTypeInv'
  <2>1. UNCHANGED <<files, dirs, links, todo, seen>> /\ acts' \in 0..MaxActs
    BY <1>10, MenuConstants DEF EditLibrary, card, setup, MenuTypeOK
  <2>2. MenuTypeOK'
    BY <2>1 DEF MenuTypeOK
  <2> QED
    BY <1>10, <2>1, <2>2 DEF EditLibrary
<1>11. CASE SetUpLink
  <2>1. Look(Sync) \/ SetLink(Sync)
    BY <1>11 DEF SetUpLink
  <2>2. /\ MenuTypeOK'
        /\ todo'[Sync] \in {todo[Sync], Tail(todo[Sync])}
        /\ todo[Sync] # <<>>
    BY <1>t, <2>1, LinkTypes DEF Look, SetLink, MenuTypeOK
  <2>3. todo'[Sync] = <<>> \/ todo'[Sync] = todo[Sync]
    BY <2>2
  <2> QED
    BY <1>11, <2>2, <2>3 DEF SetUpLink, syncVars
<1>17. CASE SetUpFails
  <2>1. todo[Sync] # <<>>
    BY <1>17, <1>t DEF SetUpFails, Look, SetLink, MenuTypeOK
  <2>2. MenuTypeOK' /\ todo'[Sync] = <<>> /\ (Fault \/ NoFault)
    <3>1. CASE /\ Look(Sync) /\ Head(todo[Sync]) \notin dirs /\ NoFault
      <4>1. todo' = [todo EXCEPT ![Sync] = Tail(@)]
        BY <3>1 DEF Look
      <4>2. todo'[Sync] = Tail(todo[Sync])
        BY <1>t, <4>1 DEF MenuTypeOK
      <4> QED
        BY <1>t, <2>1, <3>1, <4>2, LinkTypes
    <3>2. CASE SetLink(Sync) /\ Raced(Sync) /\ NoFault
      <4>1. todo' = [todo EXCEPT ![Sync] = Tail(@)]
        BY <3>2 DEF SetLink
      <4>2. todo'[Sync] = Tail(todo[Sync])
        BY <1>t, <4>1 DEF MenuTypeOK
      <4> QED
        BY <1>t, <2>1, <3>2, <4>2, LinkTypes
    <3>3. CASE /\ Fault
               /\ SetUp(Sync, <<>>)
               /\ seen' = [seen EXCEPT ![Sync] = Nothing]
               /\ UNCHANGED <<card, acts>>
      <4>1. /\ todo' \in [Actors -> Seq(Dirs)] /\ todo'[Sync] = <<>>
            /\ seen' \in
                 [Actors -> [known : BOOLEAN, link : BOOLEAN, mra : BOOLEAN]]
            /\ \A a \in Actors : seen'[a].known => todo'[a] # <<>>
        BY <3>3, <1>t DEF SetUp, MenuTypeOK, Nothing
      <4> QED
        BY <3>3, <4>1 DEF card, MenuTypeOK
    <3> QED
      BY <1>17, <3>1, <3>2, <3>3 DEF SetUpFails
  <2>3. /\ phase' = "link" /\ game' = {}
        /\ UNCHANGED <<world, local, list, new, index, left, runs>>
    BY <1>17 DEF SetUpFails
  <2> QED
    BY <2>2, <2>3
<1>12. CASE RemoveOther
  <2>1. files' \subseteq files /\ UNCHANGED <<dirs, links, todo, seen, acts>>
    BY <1>12 DEF RemoveOther, setup
  <2>2. MenuTypeOK'
    BY <2>1 DEF MenuTypeOK
  <2> QED
    BY <1>12, <2>1, <2>2 DEF RemoveOther
<1>13. CASE CutOff
  <2>1. /\ todo' \in [Actors -> Seq(Dirs)] /\ todo'[Sync] = <<>>
        /\ seen' \in
             [Actors -> [known : BOOLEAN, link : BOOLEAN, mra : BOOLEAN]]
        /\ \A a \in Actors : seen'[a].known => todo'[a] # <<>>
    BY <1>13, <1>t DEF CutOff, SetUp, MenuTypeOK, Nothing
  <2>2. MenuTypeOK'
    BY <1>13, <2>1 DEF CutOff, card, MenuTypeOK
  <2>3. /\ phase' = "off" /\ game' = {} /\ left' = {} /\ Fault
        /\ UNCHANGED <<world, local, list, new, index, runs>>
    BY <1>13 DEF CutOff
  <2> QED
    BY <2>1, <2>2, <2>3
<1>14. CASE Publish
  <2>1. MenuTypeOK' /\ UNCHANGED todo
    BY <1>1, <1>14 DEF Publish
  <2> QED
    BY <1>14, <2>1 DEF Publish
<1>15. CASE Disturb
  <2>1. PICK u \in Users : Request(u) \/ Look(u) \/ SetLink(u)
    BY <1>15 DEF Disturb
  <2>2. MenuTypeOK' /\ todo'[Sync] = todo[Sync]
    BY <1>t, <2>1, LinkTypes, RequestTypes
  <2> QED
    BY <1>15, <2>2 DEF Disturb
<1>16. CASE UNCHANGED allVars
  <2>1. MenuTypeOK' /\ UNCHANGED todo
    BY <1>1, <1>16 DEF allVars
  <2> QED
    BY <1>16, <2>1 DEF allVars, syncVars
<1> QED
  BY <1>2, <1>3, <1>4, <1>5, <1>6, <1>7, <1>8, <1>9, <1>10, <1>11, <1>12,
    <1>13, <1>14, <1>15, <1>16, <1>17 DEF SyncNext

\* The folder, the requests and LaunchSync keep their types: above all, links
\* and launchers are only in folders that exist.
THEOREM SyncTypes == SyncSpec => []SyncTypeInv
<1>1. ASSUME SyncInit
      PROVE  SyncTypeInv
  <2>1. MenuTypeOK
    BY <1>1, MenuConstants DEF SyncInit, MenuInit, MenuTypeOK, Nothing
  <2>2. todo[Sync] = <<>>
    BY <1>1 DEF SyncInit, MenuInit, Actors
  <2>3. calm = FALSE
    BY <1>1 DEF SyncInit
  <2>4. calm \in BOOLEAN
    BY <2>3
  <2>5. subscribed \in BOOLEAN
    BY <1>1 DEF SyncInit
  <2> QED
    BY <1>1, <2>1, <2>2, <2>4, <2>5, SyncConstants, Versions DEF SyncInit,
      SyncTypeInv, SyncTypeOK, SetupInv
<1> QED
  BY <1>1, SyncTypesKept, PTL DEF SyncSpec

-----------------------------------------------------------------------------
(* LaunchSync: what an undisturbed run leaves.                             *)

\* One of the two files of a game is there: the one that fits the index.
Shown(g) ==
  /\ Launcher(g) \in files <=> g \in index
  /\ NotFound(g) \in files <=> g \notin index

\* The link to the cores is there if a game needs it.
Linked(g) == g \in index \cap Arcade => DirOf[g] \in links

\* What is known while a game is being linked: its file is there, and the link
\* to the cores is there or still to be made, and will be.
Linking(g) ==
  /\ (IF g \in index THEN Launcher(g) ELSE NotFound(g)) \in files
  /\ IF g \in index \cap Arcade
       THEN /\ DirOf[g] \in dirs
            /\ IF todo[Sync] = <<>>
                 THEN DirOf[g] \in links
                 ELSE /\ todo[Sync] = <<DirOf[g]>>
                      /\ seen[Sync].known =>
                           /\ seen[Sync].mra
                           /\ seen[Sync].link <=> DirOf[g] \in links
       ELSE todo[Sync] = <<>>

\* In a run that nothing has disturbed so far.
ShownInv ==
  calm =>
    /\ phase \in {"link", "remove", "ended"} =>
         \A g \in list \ (left \cup game) : Shown(g) /\ Linked(g)
    /\ \A g \in game : Linking(g)
    /\ phase = "ended" => left = {}

SyncInv == SyncTypeInv /\ ShownInv

LEMMA FilesDiffer ==
  ASSUME NEW g \in Games, NEW h \in Games
  PROVE  /\ Launcher(g) # NotFound(h)
         /\ g # h => Launcher(g) # Launcher(h) /\ NotFound(g) # NotFound(h)
BY DEF Launcher, NotFound, File

\* LaunchSync is not linking a game before and after most of its steps.
LEMMA Elsewhere ==
  ASSUME SyncTypeInv', calm' => phase' \notin {"link", "remove", "ended"}
  PROVE  ShownInv'
BY DEF SyncTypeInv, SetupInv, ShownInv

LEMMA LinkGameShows ==
  ASSUME SyncInv, SyncTypeInv', NEW g \in Games, LinkGame(g)
  PROVE  ShownInv'
<1>1. /\ phase = "link" /\ g \in left /\ left' = left \ {g} /\ game' = {g}
      /\ dirs' = dirs \cup {Root, DirOf[g]}
      /\ files' = files \cup {IF g \in index THEN Launcher(g) ELSE NotFound(g)}
      /\ todo' = [todo EXCEPT ![Sync] =
                    IF g \in index \cap Arcade THEN <<DirOf[g]>> ELSE <<>>]
      /\ phase' = "remove"
      /\ UNCHANGED <<links, seen, list, index, calm>>
  BY DEF LinkGame, SetUp, Enter, NoFault
<1>2. Sync \in Actors /\ todo[Sync] = <<>> /\ ~seen[Sync].known /\ game = {}
      /\ todo \in [Actors -> Seq(Dirs)] /\ list \subseteq Games
  BY <1>1 DEF SyncInv, SyncTypeInv, SyncTypeOK, SetupInv, MenuTypeOK, Actors
<1>3. Linking(g)'
  BY <1>1, <1>2 DEF Linking, Launcher, NotFound, File
<1>4. ASSUME NEW h \in list \ (left' \cup game'), calm
      PROVE  Shown(h)' /\ Linked(h)'
  <2>1. h \in list \ (left \cup game) /\ h \in Games /\ h # g
    BY <1>1, <1>2, <1>4
  <2>2. Shown(h) /\ Linked(h)
    BY <1>1, <1>4, <2>1 DEF SyncInv, ShownInv
  <2>3. /\ Launcher(h) # Launcher(g) /\ Launcher(h) # NotFound(g)
        /\ NotFound(h) # Launcher(g) /\ NotFound(h) # NotFound(g)
    BY <2>1, FilesDiffer
  <2>4. Launcher(h)' = Launcher(h) /\ NotFound(h)' = NotFound(h)
    BY DEF Launcher, NotFound
  <2> QED
    BY <1>1, <2>2, <2>3, <2>4 DEF Shown, Linked
<1> HIDE DEF Shown, Linked, Linking
<1> QED
  BY <1>1, <1>3, <1>4 DEF ShownInv

LEMMA SetUpLinkShows ==
  ASSUME SyncInv, SyncTypeInv', SetUpLink
  PROVE  ShownInv'
<1>1. UNCHANGED <<files, dirs, phase, list, index, left, game, calm>>
      /\ (Look(Sync) \/ (SetLink(Sync) /\ ~Raced(Sync)))
  BY DEF SetUpLink, syncVars, process, Look, SetLink, card
<1>2. /\ Sync \in Actors /\ todo[Sync] # <<>> /\ phase = "remove"
      /\ todo \in [Actors -> Seq(Dirs)]
      /\ seen \in [Actors -> [known : BOOLEAN, link : BOOLEAN, mra : BOOLEAN]]
  BY <1>1 DEF SyncInv, SyncTypeInv, SyncTypeOK, SetupInv, MenuTypeOK, Actors,
    Look, SetLink
<1>3. PICK g \in Games : game = {g}
  BY <1>2 DEF SyncInv, SyncTypeInv, SetupInv
<1> SUFFICES ASSUME calm
             PROVE  ShownInv'
  BY <1>1 DEF ShownInv
<1>4. Linking(g)
  BY <1>3 DEF SyncInv, ShownInv
<1>5. /\ g \in index \cap Arcade /\ Launcher(g) \in files
      /\ DirOf[g] \in dirs /\ todo[Sync] = <<DirOf[g]>>
      /\ seen[Sync].known =>
           seen[Sync].mra /\ (seen[Sync].link <=> DirOf[g] \in links)
  BY <1>2, <1>4 DEF Linking
<1>6. Head(todo[Sync]) = DirOf[g] /\ Tail(todo[Sync]) = <<>>
  BY <1>5
<1>7. links \subseteq links' /\ Linking(g)'
  <2>1. CASE Look(Sync)
    <3>1. HasMra(DirOf[g])
      BY <1>5 DEF HasMra, Launcher, File
    <3> DEFINE link == DirOf[g] \in links
               mra == HasMra(DirOf[g])
    <3>2. /\ links' = links /\ todo' = todo
          /\ seen' = [seen EXCEPT ![Sync] =
                        [known |-> TRUE, link |-> link, mra |-> mra]]
      BY <1>2, <1>5, <1>6, <2>1 DEF Look, card
    <3>3. mra /\ (link <=> DirOf[g] \in links)
      BY <3>1
    <3> HIDE DEF link, mra
    <3>4. seen'[Sync].mra /\ (seen'[Sync].link <=> DirOf[g] \in links')
      BY <1>2, <3>2, <3>3
    <3>5. Launcher(g)' = Launcher(g)
      BY DEF Launcher
    <3>6. g \in index' \cap Arcade /\ Launcher(g) \in files'
          /\ DirOf[g] \in dirs' /\ todo'[Sync] = <<DirOf[g]>>
      BY <1>1, <1>5, <3>2
    <3> QED
      BY <3>2, <3>4, <3>5, <3>6 DEF Linking
  <2>2. CASE SetLink(Sync) /\ ~Raced(Sync)
    <3>1. todo'[Sync] = <<>> /\ DirOf[g] \in links' /\ links \subseteq links'
      BY <1>2, <1>5, <1>6, <2>2 DEF SetLink
    <3> QED
      BY <1>1, <1>5, <3>1 DEF Linking, Launcher
  <2> QED
    BY <1>1, <2>1, <2>2
<1>8. ASSUME NEW h \in list \ (left \cup game)
      PROVE  Shown(h)' /\ Linked(h)'
  <2>1. Shown(h) /\ Linked(h)
    BY <1>2 DEF SyncInv, ShownInv
  <2> QED
    BY <1>1, <1>7, <2>1 DEF Shown, Linked, Launcher, NotFound
<1> HIDE DEF Shown, Linked, Linking
<1> QED
  BY <1>1, <1>2, <1>3, <1>7, <1>8 DEF ShownInv

\* In a run that nothing disturbs, setting up the link does not fail.
LEMMA SetUpFailsShows ==
  ASSUME SyncInv, SetUpFails
  PROVE  ~calm'
<1>1. CASE Fault
  BY <1>1 DEF Fault
<1>2. CASE /\ \/ Look(Sync) /\ Head(todo[Sync]) \notin dirs
              \/ SetLink(Sync) /\ Raced(Sync)
           /\ NoFault
  <2> SUFFICES ASSUME calm
               PROVE  FALSE
    BY <1>2 DEF NoFault
  <2>1. /\ Sync \in Actors /\ todo[Sync] # <<>> /\ phase = "remove"
        /\ seen \in [Actors -> [known : BOOLEAN, link : BOOLEAN, mra : BOOLEAN]]
    BY <1>2 DEF SyncInv, SyncTypeInv, SyncTypeOK, SetupInv, MenuTypeOK, Actors,
      Look, SetLink
  <2>2. PICK g \in Games : game = {g}
    BY <2>1 DEF SyncInv, SyncTypeInv, SetupInv
  <2>3. Linking(g)
    BY <2>2 DEF SyncInv, ShownInv
  <2>4. /\ DirOf[g] \in dirs /\ todo[Sync] = <<DirOf[g]>>
        /\ seen[Sync].known =>
             seen[Sync].mra /\ (seen[Sync].link <=> DirOf[g] \in links)
    BY <2>1, <2>3 DEF Linking
  <2>5. Head(todo[Sync]) = DirOf[g]
    BY <2>4
  <2>6. Raced(Sync)
    BY <1>2, <2>4, <2>5
  <2>7. seen[Sync].known /\ ~(seen[Sync].link <=> DirOf[g] \in links)
    <3>1. seen[Sync].link \in BOOLEAN
      BY <2>1
    <3>2. seen[Sync].known /\ seen[Sync].link # (DirOf[g] \in links)
      BY <2>4, <2>5, <2>6 DEF Raced
    <3> QED
      BY <3>1, <3>2
  <2> QED
    BY <2>4, <2>7
<1> QED
  BY <1>1, <1>2 DEF SetUpFails, Look, SetLink

LEMMA RemoveOtherShows ==
  ASSUME SyncInv, SyncTypeInv', RemoveOther
  PROVE  ShownInv'
<1>1. /\ phase = "remove" /\ todo[Sync] = <<>> /\ game' = {} /\ phase' = "link"
      /\ files' = files \ {IF h \in index THEN NotFound(h) ELSE Launcher(h) :
                             h \in game}
      /\ UNCHANGED <<links, list, index, left, calm>>
  BY DEF RemoveOther, Enter, NoFault
<1>2. PICK g \in Games : game = {g}
  BY <1>1 DEF SyncInv, SyncTypeInv, SetupInv
<1>3. files' = files \ {IF g \in index THEN NotFound(g) ELSE Launcher(g)}
  BY <1>1, <1>2
<1>4. ASSUME NEW h \in list \ left, calm
      PROVE  Shown(h)' /\ Linked(h)'
  <2>1. h \in Games
    BY DEF SyncInv, SyncTypeInv, SyncTypeOK
  <2>2. /\ Launcher(h) # NotFound(g) /\ Launcher(g) # NotFound(h)
        /\ h # g => Launcher(h) # Launcher(g) /\ NotFound(h) # NotFound(g)
    BY <2>1, FilesDiffer
  <2>3. Launcher(h)' = Launcher(h) /\ NotFound(h)' = NotFound(h)
    BY DEF Launcher, NotFound
  <2>4. CASE h = g
    <3>1. Linking(g)
      BY <1>2, <1>4 DEF SyncInv, ShownInv
    <3> QED
      BY <1>1, <1>3, <2>2, <2>3, <2>4, <3>1 DEF Linking, Shown, Linked
  <2>5. CASE h # g
    <3>1. Shown(h) /\ Linked(h)
      BY <1>1, <1>2, <1>4, <2>5 DEF SyncInv, ShownInv
    <3> QED
      BY <1>1, <1>3, <2>2, <2>3, <2>5, <3>1 DEF Shown, Linked
  <2> QED
    BY <2>4, <2>5
<1> HIDE DEF Shown, Linked, Linking
<1> QED
  BY <1>1, <1>4 DEF ShownInv

LEMMA ShownKept == SyncInv /\ SyncTypeInv' /\ [SyncNext]_allVars => ShownInv'
<1> SUFFICES ASSUME SyncInv, SyncTypeInv', [SyncNext]_allVars
             PROVE  ShownInv'
  OBVIOUS
<1>1. CASE Read \/ Download \/ DownloadFails \/ FinishCopy \/ CopyFails
  <2>1. CASE Read
    BY <2>1, Elsewhere DEF Read, Enter
  <2>2. CASE Download \/ DownloadFails \/ FinishCopy \/ CopyFails
    BY <2>2, Elsewhere DEF Download, DownloadFails, FinishCopy, CopyFails,
      Enter
  <2> QED
    BY <1>1, <2>1, <2>2
<1>2. ASSUME NEW f \in files, CleanFile(f)
      PROVE  ShownInv'
  BY <1>2, Elsewhere DEF CleanFile, process
<1>3. ASSUME NEW dir \in Dirs, CleanLink(dir) \/ PruneEmpty(dir)
      PROVE  ShownInv'
  BY <1>3, Elsewhere DEF CleanLink, PruneEmpty, process, Enter
<1>4. CASE CleanFails \/ Cleaned \/ Prune \/ IndexFails \/ Leave \/ CutOff
  BY <1>4, Elsewhere DEF CleanFails, Cleaned, Prune, IndexFails, Leave, CutOff,
    Enter
<1>5. CASE MakeIndex
  <2>1. phase' = "link" /\ game' = {} /\ left' = list'
    BY <1>5 DEF MakeIndex, Enter, SyncInv, SyncTypeInv, SetupInv
  <2> QED
    BY <2>1 DEF ShownInv
<1>6. ASSUME NEW g \in Games, LinkGame(g)
      PROVE  ShownInv'
  BY <1>6, LinkGameShows
<1>7. ASSUME NEW g \in Games, LinkFails(g)
      PROVE  ShownInv'
  BY <1>7 DEF LinkFails, Fault, ShownInv
<1>8. ASSUME NEW g \in Games, EditLibrary(g)
      PROVE  ShownInv'
  BY <1>8, Elsewhere DEF EditLibrary, process
<1>9. CASE SetUpLink \/ SetUpFails
  BY <1>9, SetUpLinkShows, SetUpFailsShows DEF ShownInv
<1>10. CASE RemoveOther
  BY <1>10, RemoveOtherShows
<1>11. CASE Finish
  <2>1. phase = "link" /\ left = {} /\ game = {}
        /\ UNCHANGED <<files, links, list, index, left, game, calm>>
    BY <1>11 DEF Finish, NoFault, menuVars, card, SyncInv, SyncTypeInv,
      SetupInv
  <2>2. ASSUME NEW g \in list, calm
        PROVE  Shown(g)' /\ Linked(g)'
    <3>1. Shown(g) /\ Linked(g)
      BY <2>1, <2>2 DEF SyncInv, ShownInv
    <3> QED
      BY <2>1, <3>1 DEF Shown, Linked, Launcher, NotFound
  <2> HIDE DEF Shown, Linked
  <2> QED
    BY <2>1, <2>2 DEF ShownInv
<1>12. CASE Publish
  <2>1. /\ phase' = IF phase = "ended" THEN "off" ELSE phase
        /\ UNCHANGED <<files, dirs, links, todo, seen, list, index, left, game,
                       calm>>
    BY <1>12 DEF Publish, Enter, menuVars, card, setup
  <2> QED
    BY <2>1 DEF SyncInv, ShownInv, Shown, Linked, Linking, Launcher, NotFound
<1>13. CASE Disturb
  BY <1>13 DEF Disturb, ShownInv
<1>14. CASE UNCHANGED allVars
  <2>1. UNCHANGED <<files, dirs, links, todo, seen, phase, list, index, left,
                    game, calm>>
    BY <1>14 DEF allVars, syncVars, process, menuVars, card, setup
  <2> QED
    BY <2>1 DEF SyncInv, ShownInv, Shown, Linked, Linking, Launcher, NotFound
<1> QED
  BY <1>1, <1>2, <1>3, <1>4, <1>5, <1>6, <1>7, <1>8, <1>9, <1>10, <1>11,
    <1>12, <1>13, <1>14 DEF SyncNext

LEMMA RunsShow == SyncSpec => []SyncInv
<1>1. SyncInit => ShownInv
  BY DEF SyncInit, ShownInv
<1> QED
  BY <1>1, SyncTypes, ShownKept, PTL DEF SyncSpec, SyncInv

\* An undisturbed run of LaunchSync leaves the link to the cores beside every
\* arcade launcher of its list (launchers.go:108), whatever was left by the
\* runs and requests before it.
THEOREM ArcadeStarts == SyncSpec => []ArcadeCanStart
<1>1. SyncInv => ArcadeCanStart
  BY DEF SyncInv, SyncTypeInv, SetupInv, ShownInv, Shown, Linked,
    ArcadeCanStart
<1> QED
  BY <1>1, RunsShow, PTL

\* Such a run shows each game of its list as what the index says of it: by a
\* launcher or by a placeholder, and by one of them only
\* (cmd/launchsync/main.go).
THEOREM GamesAreShown == SyncSpec => []EachGameIsShown
<1>1. SyncInv => EachGameIsShown
  BY DEF SyncInv, SyncTypeInv, SetupInv, ShownInv, Shown, EachGameIsShown
<1> QED
  BY <1>1, RunsShow, PTL

-----------------------------------------------------------------------------
(* LaunchSync: games that a sync file no longer lists.  FolderFollowsFile  *)
(* is false, but not of the user's own files, and of others only where a   *)
(* cleaning is not brought to its end.                                     *)

\* No game but these has a launcher.
OnlyOf(games) == \A g \in Games \ games : Launcher(g) \notin files

\* A cleaning that a new version calls for ends with the new list: it neither
\* fails nor is cut off, and it does not leave a subfolder empty.
CleaningCompletes ==
  phase \in {"clean", "prune"} /\ phase' \notin {"clean", "prune"} =>
    list' = Lists[new]

\* A version that is on the card is applied if nothing has disturbed the run,
\* or, of a file with a url, in any case.
Good == IF subscribed THEN local # 0 ELSE calm

\* What the folder and the list of the run have to do with the version on the
\* card, at each place of the run.  A file without url is cleaned by every run;
\* one with a url only by the run that has copied it.
FollowInv ==
  /\ phase \in {"download", "copy"} => subscribed
  /\ phase = "copy" => local = 0
  /\ phase = "download" => local # 0
  /\ subscribed =>
       /\ phase \in {"off", "download"} /\ local # 0 => OnlyOf(Lists[local])
       /\ phase \in {"copy", "clean", "prune"} => OnlyOf(list)
  /\ phase = "download" \/ (~subscribed /\ phase # "off") =>
       list = Lists[local]
  /\ phase \in {"clean", "prune"} => local = new
  /\ phase = "prune" /\ Good => files \subseteq Kept
  /\ phase \in {"index", "link", "remove", "ended"} /\ Good =>
       list = Lists[local] /\ OnlyOf(list)
  /\ phase \in {"link", "remove"} => left \subseteq list

LEMMA KeptAreListed == files \subseteq Kept => OnlyOf(Lists[new])
BY DEF OnlyOf, Kept, Launcher, NotFound, File

\* A step that adds no launcher adds none of a game that is not listed.
LEMMA NoLauncherAdded ==
  ASSUME files' \subseteq files
  PROVE  /\ OnlyOf(list) /\ list' = list => OnlyOf(list)'
         /\ OnlyOf(Lists[local]) /\ local' = local => OnlyOf(Lists[local])'
         /\ OnlyOf(list) /\ list = Lists[local'] => OnlyOf(Lists[local])'
         /\ OnlyOf(Lists[local]) /\ list' = Lists[local] => OnlyOf(list)'
         /\ files \subseteq Kept /\ new' = new => (files \subseteq Kept)'
BY DEF OnlyOf, Kept, Launcher, NotFound

\* The steps up to the index.
LEMMA DownloadFollows ==
  ASSUME SyncTypeInv, FollowInv,
         Read \/ Download \/ DownloadFails \/ FinishCopy \/ CopyFails
  PROVE  FollowInv'
<1> USE NoLauncherAdded DEF FollowInv, Good, Enter, NoFault, Fault, world,
        menuVars, card, setup
<1>1. CASE Read
  BY <1>1 DEF Read
<1>2. CASE Download
  BY <1>2 DEF Download
<1>3. CASE DownloadFails
  BY <1>3 DEF DownloadFails
<1>4. CASE FinishCopy
  BY <1>4 DEF FinishCopy
<1>5. CASE CopyFails
  BY <1>5 DEF CopyFails
<1> QED
  BY <1>1, <1>2, <1>3, <1>4, <1>5

LEMMA CleaningFollows ==
  ASSUME SyncTypeInv, FollowInv, subscribed => CleaningCompletes,
         \/ \E f \in files : CleanFile(f)
         \/ \E dir \in Dirs : CleanLink(dir) \/ PruneEmpty(dir)
         \/ CleanFails \/ Cleaned \/ Prune
  PROVE  FollowInv'
<1> USE NoLauncherAdded DEF FollowInv, Good, Enter, NoFault, Fault, world,
        process, menuVars, card, setup
<1>1. ASSUME NEW f \in files, CleanFile(f)
      PROVE  FollowInv'
  BY <1>1 DEF CleanFile
<1>2. ASSUME NEW dir \in Dirs, CleanLink(dir)
      PROVE  FollowInv'
  BY <1>2 DEF CleanLink
<1>3. ASSUME NEW dir \in Dirs, PruneEmpty(dir)
      PROVE  FollowInv'
  BY <1>3, KeptAreListed DEF PruneEmpty, CleaningCompletes
<1>4. CASE CleanFails
  BY <1>4 DEF CleanFails, CleaningCompletes
<1>5. CASE Cleaned
  BY <1>5 DEF Cleaned
<1>6. CASE Prune
  BY <1>6, KeptAreListed DEF Prune
<1> QED
  BY <1>1, <1>2, <1>3, <1>4, <1>5, <1>6

\* The steps that link the games of the list.
LEMMA LinkingFollows ==
  ASSUME SyncTypeInv, FollowInv,
         \/ MakeIndex \/ IndexFails
         \/ \E g \in Games : LinkGame(g) \/ LinkFails(g)
         \/ SetUpLink \/ SetUpFails \/ RemoveOther \/ Finish
  PROVE  FollowInv'
<1> USE NoLauncherAdded DEF FollowInv, Good, Enter, NoFault, Fault, world,
        process, menuVars, card, setup
<1>1. CASE MakeIndex
  BY <1>1 DEF MakeIndex
<1>2. CASE IndexFails
  BY <1>2 DEF IndexFails
<1>3. ASSUME NEW g \in Games, LinkGame(g)
      PROVE  FollowInv'
  <2>1. g \in list /\ UNCHANGED <<list, local>>
    BY <1>3 DEF LinkGame
  <2>2. files' \subseteq files \cup {Launcher(g), NotFound(g)}
    BY <1>3 DEF LinkGame
  <2>3. OnlyOf(list) => OnlyOf(list)'
    BY <2>1, <2>2, FilesDiffer DEF OnlyOf, Launcher
  <2> QED
    BY <1>3, <2>1, <2>3 DEF LinkGame
<1>4. ASSUME NEW g \in Games, LinkFails(g)
      PROVE  FollowInv'
  BY <1>4 DEF LinkFails
<1>5. CASE SetUpLink
  BY <1>5 DEF SetUpLink, syncVars, Look, SetLink
<1>8. CASE SetUpFails
  <2>1. /\ UNCHANGED <<files, local, subscribed, list, new, left>>
        /\ phase' = "link" /\ (calm' = FALSE \/ calm' = calm)
    BY <1>8 DEF SetUpFails, Look, SetLink
  <2>2. todo[Sync] # <<>>
    BY <1>8, MenuConstants DEF SetUpFails, Look, SetLink, SyncTypeInv,
      SyncTypeOK, MenuTypeOK, Actors
  <2>3. phase = "remove"
    BY <2>2 DEF SyncTypeInv, SetupInv
  <2>4. OnlyOf(list) => OnlyOf(list)'
    BY <2>1
  <2> HIDE DEF OnlyOf
  <2> QED
    BY <2>1, <2>3, <2>4
<1>6. CASE RemoveOther
  BY <1>6 DEF RemoveOther
<1>7. CASE Finish
  BY <1>7 DEF Finish
<1> QED
  BY <1>1, <1>2, <1>3, <1>4, <1>5, <1>6, <1>7, <1>8

\* The ends of runs, and the world.
LEMMA WorldFollows ==
  ASSUME SyncTypeInv, FollowInv,
         subscribed => Users = {} /\ CleaningCompletes,
         \/ Leave \/ CutOff \/ Publish \/ Disturb
         \/ \E g \in Games : EditLibrary(g)
  PROVE  FollowInv'
<1> USE NoLauncherAdded DEF FollowInv, Good, Enter, NoFault, Fault, world,
        process, menuVars, card, setup
<1>1. CASE Leave
  BY <1>1 DEF Leave
<1>2. CASE CutOff
  <2>1. /\ phase' = "off" /\ phase # "off" /\ phase # "ended"
        /\ UNCHANGED <<files, local, subscribed, list, new>>
    BY <1>2 DEF CutOff
  <2>2. ASSUME subscribed, local # 0
        PROVE  OnlyOf(Lists[local])
    <3>1. CASE phase \in {"clean", "prune"}
      BY <2>1, <2>2, <3>1 DEF CleaningCompletes
    <3>2. CASE phase \notin {"clean", "prune"}
      BY <2>1, <2>2, <3>2 DEF SyncTypeInv, SyncTypeOK
    <3> QED
      BY <3>1, <3>2
  <2> QED
    BY <2>1, <2>2
<1>3. CASE Publish
  BY <1>3 DEF Publish
<1>4. CASE Disturb
  BY <1>4 DEF Disturb
<1>5. ASSUME NEW g \in Games, EditLibrary(g)
      PROVE  FollowInv'
  BY <1>5 DEF EditLibrary
<1> QED
  BY <1>1, <1>2, <1>3, <1>4, <1>5

LEMMA FollowKept ==
  ASSUME SyncTypeInv, FollowInv, [SyncNext]_allVars,
         subscribed => Users = {} /\ CleaningCompletes
  PROVE  FollowInv'
<1>1. CASE UNCHANGED allVars
  BY <1>1, NoLauncherAdded DEF FollowInv, Good, allVars, syncVars, world,
    process, menuVars, card
<1> QED
  BY <1>1, DownloadFollows, CleaningFollows, LinkingFollows, WorldFollows
  DEF SyncNext

LEMMA SubscribedStays == [SyncNext]_allVars => subscribed' = subscribed
<1> SUFFICES ASSUME [SyncNext]_allVars
             PROVE  subscribed' = subscribed
  OBVIOUS
<1> USE DEF world
<1>1. CASE Read \/ Download \/ DownloadFails \/ FinishCopy \/ CopyFails
  BY <1>1 DEF Read, Download, DownloadFails, FinishCopy, CopyFails
<1>2. CASE CleanFails \/ Cleaned \/ Prune \/ MakeIndex \/ IndexFails
  BY <1>2 DEF CleanFails, Cleaned, Prune, MakeIndex, IndexFails
<1>3. CASE \/ \E f \in files : CleanFile(f)
           \/ \E dir \in Dirs : CleanLink(dir) \/ PruneEmpty(dir)
  BY <1>3 DEF CleanFile, CleanLink, PruneEmpty
<1>4. CASE \E g \in Games : LinkGame(g) \/ LinkFails(g) \/ EditLibrary(g)
  BY <1>4 DEF LinkGame, LinkFails, EditLibrary
<1>5. CASE SetUpLink \/ SetUpFails \/ RemoveOther
  BY <1>5 DEF SetUpLink, syncVars, SetUpFails, RemoveOther
<1>8. CASE Finish \/ Leave \/ CutOff
  BY <1>8 DEF Finish, Leave, CutOff
<1>6. CASE Publish \/ Disturb
  BY <1>6 DEF Publish, Disturb
<1>7. CASE UNCHANGED allVars
  BY <1>7 DEF allVars, syncVars
<1> QED
  BY <1>1, <1>2, <1>3, <1>4, <1>5, <1>6, <1>7, <1>8 DEF SyncNext

LEMMA FollowAtFirst == SyncInit => FollowInv
BY DEF SyncInit, MenuInit, FollowInv, OnlyOf

LEMMA FollowedInTheEnd ==
  ASSUME FollowInv, SyncTypeInv
  PROVE  FolderFollowsFile
BY SyncConstants DEF FollowInv, Good, OnlyOf, FolderFollowsFile, SyncTypeInv,
  SyncTypeOK

\* A sync file without url is followed, whatever fails, is cut off or is changed
\* in the folder by requests: after an undisturbed run no launcher is left of a
\* game that it no longer lists (cmd/launchsync/syncfiles.go:260).
THEOREM OwnFilesAreFollowed ==
  SyncSpec => [](~subscribed => FolderFollowsFile)
<1> DEFINE Inv == ~subscribed => FollowInv
<1>1. SyncInit => Inv
  BY FollowAtFirst
<1>2. SyncTypeInv /\ Inv /\ [SyncNext]_allVars => Inv'
  <2> SUFFICES ASSUME SyncTypeInv, Inv, [SyncNext]_allVars, ~subscribed'
               PROVE  FollowInv'
    OBVIOUS
  <2>1. ~subscribed
    BY SubscribedStays
  <2> QED
    BY <2>1, FollowKept
<1>3. SyncTypeInv /\ Inv => (~subscribed => FolderFollowsFile)
  BY FollowedInTheEnd
<1> QED
  BY <1>1, <1>2, <1>3, SyncTypes, PTL DEF SyncSpec

\* So is one with a url, as long as each cleaning is brought to its end and
\* no request changes the folder (utils.go:271, syncfiles.go:281).
THEOREM UpdatesAreFollowed ==
  Users = {} =>
    (SyncSpec /\ [][CleaningCompletes]_allVars => []FolderFollowsFile)
<1> SUFFICES ASSUME Users = {}
             PROVE  SyncSpec /\ [][CleaningCompletes]_allVars
                      => []FolderFollowsFile
  OBVIOUS
<1>1. SyncTypeInv /\ FollowInv /\ [SyncNext]_allVars
        /\ [CleaningCompletes]_allVars => FollowInv'
  <2>1. UNCHANGED allVars => CleaningCompletes
    BY DEF allVars, syncVars, process, CleaningCompletes
  <2> QED
    BY <2>1, FollowKept
<1>2. SyncTypeInv /\ FollowInv => FolderFollowsFile
  BY FollowedInTheEnd
<1> QED
  BY <1>1, <1>2, FollowAtFirst, SyncTypes, PTL DEF SyncSpec

-----------------------------------------------------------------------------
(* RecentFolder                                                            *)

\* No two files are equally old, and none is newer than the clock.
TimesInv ==
  /\ \A f, g \in entries : f.time = g.time => f = g
  /\ \A f, g \in recentFiles : f.time = g.time => f = g
  /\ \A f \in entries \cup recentFiles : f.time <= now

\* The files that a call is done with are numbered from 1 to renamed, one for
\* each game it has met, in the order of their times, and are newer than the
\* files it has not come to.
DoneInv ==
  \A f \in entries \ recentFiles :
    /\ f.number \in 1 .. renamed
    /\ f.game \in knownFiles
    /\ \A g \in recentFiles : f.time > g.time
    /\ \A g \in entries \ recentFiles :
         f # g => /\ f.game # g.game
                  /\ f.number < g.number <=> f.time > g.time

RecentInv ==
  /\ RecentTypeOK /\ TimesInv
  /\ pc = "renumber" => DoneInv
  /\ pc # "renumber" => recentFiles = {}
  /\ whole => pc = "idle"
  /\ WellNumbered

\* The games of the entries that were newer than f, and the game played now.
Newer(f) ==
  {playing} \cup {g.game : g \in {h \in before : h.time > f.time}}

\* What has become of an entry of another game, in a call that nothing has
\* interrupted: it waits, it was renamed, or the folder is full without it.
Stays(f) ==
  \/ f \in recentFiles /\ f \in entries
  \/ f \notin recentFiles /\ \E g \in entries \ recentFiles : g.game = f.game
  \/ Cardinality(Newer(f)) >= MaxEntries

\* The entries before the call are one for each game and none is numbered 0.
BeforeInv ==
  /\ IsFiniteSet(before)
  /\ \A f, g \in before : f.game = g.game => f = g
  /\ \A f \in before : f.number # 0
  /\ pc # "idle" => \A f \in before : f.time < now

\* A call has met only the game played now and those of newer entries.
MetInv ==
  /\ recentFiles \subseteq before \cup {Entry(0, playing, now)}
  /\ knownFiles \subseteq {playing} \cup {f.game : f \in before \ recentFiles}
  /\ \A f \in before \ recentFiles : \A g \in recentFiles : f.time > g.time
  /\ IsFiniteSet(knownFiles)
  /\ Cardinality(knownFiles) = renamed

OthersInv ==
  /\ IsFiniteSet(entries)
  /\ crashes = 0 =>
       /\ BeforeInv
       /\ pc = "idle" => whole
       /\ pc = "read" => entries = before \cup {Entry(0, playing, now)}
       /\ pc = "renumber" => MetInv
       /\ pc # "read" => \A f \in before : f.game # playing => Stays(f)

\* Playing a game adds an entry that is newer than all others.
LEMMA PlayNumbers ==
  ASSUME RecentInv, NEW g \in RecentGames, Play(g)
  PROVE  RecentInv'
<1> DEFINE made == Entry(0, g, now + 1)
<1>1. /\ pc = "idle" /\ pc' = "read" /\ now \in Nat /\ now' = now + 1
      /\ now' \in 0 .. MaxPlays /\ recentFiles = {} /\ recentFiles' = {}
      /\ whole' = FALSE
      /\ entries' = (entries \ Named(0, g)) \cup {made}
  BY RecentConstants DEF RecentInv, RecentTypeOK, Play
<1>2. made \in Entries /\ made.time = now + 1
  BY <1>1, RecentConstants DEF Entry, Entries
<1> HIDE DEF made
<1>3. RecentTypeOK'
  BY <1>1, <1>2 DEF RecentInv, RecentTypeOK, Play
<1>4. \A f \in entries : f.time \in Nat /\ f.time <= now
  BY DEF RecentInv, TimesInv, RecentTypeOK, Entries
<1>5. TimesInv'
  BY <1>1, <1>2, <1>4 DEF RecentInv, TimesInv
<1> QED
  BY <1>1, <1>3, <1>5 DEF RecentInv, WellNumbered

LEMMA RemoveNumbers ==
  ASSUME RecentInv, pc = "renumber", NEW f \in recentFiles, RemoveFile(f),
         recentFiles' = recentFiles \ {f},
         UNCHANGED <<now, pc, playing, whole, crashes, before>>
  PROVE  RecentInv'
<1>1. /\ entries' \subseteq entries /\ f \notin entries'
      /\ UNCHANGED <<knownFiles, renamed>>
  BY DEF RemoveFile, Named
<1>2. RecentTypeOK'
  BY <1>1 DEF RecentInv, RecentTypeOK
<1>3. TimesInv'
  BY <1>1 DEF RecentInv, TimesInv
<1>4. entries' \ recentFiles' \subseteq entries \ recentFiles
  BY <1>1
<1>5. DoneInv'
  BY <1>1, <1>4 DEF RecentInv, DoneInv
<1> QED
  BY <1>2, <1>3, <1>5 DEF RecentInv, WellNumbered

\* The newest file that is left is given the next number.
LEMMA RenameNumbers ==
  ASSUME RecentInv, pc = "renumber", NEW f \in recentFiles, Newest(f),
         ~Full, f.game \notin knownFiles, Rename(f),
         recentFiles' = recentFiles \ {f},
         UNCHANGED <<now, pc, playing, whole, crashes, before>>
  PROVE  RecentInv'
<1> DEFINE made == Entry(renamed + 1, f.game, f.time)
<1>1. /\ f \in Entries
      /\ renamed \in Nat /\ renamed + 1 \in 1 .. MaxEntries
      /\ renamed' = renamed + 1 /\ knownFiles' = knownFiles \cup {f.game}
      /\ entries' =
           ((entries \ Named(f.number, f.game)) \ Named(renamed + 1, f.game))
             \cup {made}
  BY RecentConstants DEF RecentInv, RecentTypeOK, Rename, Full
<1>2. /\ made \in Entries /\ made.number = renamed + 1
      /\ made.game = f.game /\ made.time = f.time
  BY <1>1 DEF Entry, Entries
<1>3. /\ entries' \subseteq (entries \ {f}) \cup {made}
      /\ \A g \in recentFiles \cup entries : g.time \in Nat
  BY <1>1 DEF Named, RecentInv, RecentTypeOK, Entries
<1> HIDE DEF made
<1>4. RecentTypeOK'
  BY <1>1, <1>2, <1>3 DEF RecentInv, RecentTypeOK, Entries
<1>5. \A g \in entries \ {f} : g.time # f.time
  BY <1>3 DEF RecentInv, TimesInv, DoneInv
<1>6. TimesInv'
  BY <1>2, <1>3, <1>5 DEF RecentInv, TimesInv
<1>7. entries' \ recentFiles' \subseteq (entries \ recentFiles) \cup {made}
  BY <1>3
<1>8. \A g \in recentFiles' : f.time > g.time
  BY <1>3 DEF RecentInv, TimesInv, Newest
<1>9. \A d \in entries \ recentFiles :
        /\ d.number \in 1 .. renamed /\ d.game # f.game /\ d.time > f.time
        /\ d.number < renamed + 1 /\ d.time \in Nat
  BY <1>1, <1>3 DEF RecentInv, DoneInv
<1>10. f.time \in Nat
  BY <1>3
<1>11. DoneInv'
  <2> SUFFICES ASSUME NEW d \in entries' \ recentFiles'
               PROVE  /\ d.number \in 1 .. renamed'
                      /\ d.game \in knownFiles'
                      /\ \A g \in recentFiles' : d.time > g.time
                      /\ \A g \in entries' \ recentFiles' :
                           d # g => /\ d.game # g.game
                                    /\ d.number < g.number
                                         <=> d.time > g.time
    BY DEF DoneInv
  <2>1. CASE d = made
    <3>1. ASSUME NEW g \in entries' \ recentFiles', d # g
          PROVE  /\ d.game # g.game
                 /\ d.number < g.number <=> d.time > g.time
      BY <1>1, <1>2, <1>7, <1>9, <1>10, <2>1, <3>1
    <3> QED
      BY <1>1, <1>2, <1>8, <2>1, <3>1
  <2>2. CASE d \in entries \ recentFiles
    <3>1. ASSUME NEW g \in entries' \ recentFiles', d # g
          PROVE  /\ d.game # g.game
                 /\ d.number < g.number <=> d.time > g.time
      <4>1. CASE g = made
        BY <1>2, <1>9, <2>2, <4>1
      <4>2. CASE g \in entries \ recentFiles
        BY <2>2, <3>1, <4>2 DEF RecentInv, DoneInv
      <4> QED
        BY <1>7, <4>1, <4>2
    <3>2. /\ d.game \in knownFiles'
          /\ \A g \in recentFiles' : d.time > g.time
      BY <1>1, <2>2 DEF RecentInv, DoneInv
    <3>3. d.number \in 1 .. renamed'
      BY <1>1, <1>9, <2>2
    <3> QED
      BY <3>1, <3>2, <3>3
  <2> QED
    BY <1>7, <2>1, <2>2
<1> QED
  BY <1>4, <1>6, <1>11 DEF RecentInv, WellNumbered

LEMMA RecentKept == RecentInv /\ [RecentNext]_recentVars => RecentInv'
<1> SUFFICES ASSUME RecentInv, [RecentNext]_recentVars
             PROVE  RecentInv'
  OBVIOUS
<1>1. ASSUME NEW g \in RecentGames, Play(g)
      PROVE  RecentInv'
  BY <1>1, PlayNumbers
<1>2. CASE ReadFolder
  BY <1>2, RecentConstants
     DEF ReadFolder, RecentInv, RecentTypeOK, TimesInv, DoneInv, WellNumbered
<1>3. CASE Renumber
  <2>1. PICK f \in recentFiles :
          /\ Newest(f)
          /\ IF Full \/ f.game \in knownFiles THEN RemoveFile(f)
                                              ELSE Rename(f)
          /\ recentFiles' = recentFiles \ {f}
    BY <1>3 DEF Renumber
  <2>2. /\ pc = "renumber"
        /\ UNCHANGED <<now, pc, playing, whole, crashes, before>>
    BY <1>3 DEF Renumber
  <2> QED
    BY <2>1, <2>2, RemoveNumbers, RenameNumbers
<1>4. CASE Renumbered
  <2>1. /\ pc = "renumber" /\ pc' = "idle" /\ whole' = TRUE
        /\ recentFiles = {}
        /\ UNCHANGED <<entries, now, recentFiles, knownFiles, renamed,
                       playing, crashes, before>>
    BY <1>4 DEF Renumbered
  <2>2. WellNumbered'
    BY <2>1, RecentConstants
       DEF RecentInv, RecentTypeOK, DoneInv, WellNumbered
  <2> QED
    BY <2>1, <2>2 DEF RecentInv, RecentTypeOK, TimesInv
<1>5. CASE Crash
  BY <1>5, RecentConstants
     DEF Crash, RecentInv, RecentTypeOK, TimesInv, WellNumbered
<1>6. CASE UNCHANGED recentVars
  BY <1>6 DEF recentVars, RecentInv, RecentTypeOK, TimesInv, DoneInv,
    WellNumbered
<1> QED
  BY <1>1, <1>2, <1>3, <1>4, <1>5, <1>6 DEF RecentNext

LEMMA RecentAlways == RecentSpec => []RecentInv
<1>1. RecentInit => RecentInv
  BY RecentConstants
     DEF RecentInit, RecentInv, RecentTypeOK, TimesInv, WellNumbered
<1> QED
  BY <1>1, RecentKept, PTL DEF RecentSpec

\* Every variable of the folder keeps its type.
THEOREM RecentTypes == RecentSpec => []RecentTypeOK
<1>1. RecentInv => RecentTypeOK
  BY DEF RecentInv
<1> QED
  BY <1>1, RecentAlways, PTL

\* A call that runs to its end leaves a well numbered folder, whatever the
\* calls before it left (cmd/lastplayed/main.go).
THEOREM RecentsAreNumbered == RecentSpec => []WellNumbered
<1>1. RecentInv => WellNumbered
  BY DEF RecentInv
<1> QED
  BY <1>1, RecentAlways, PTL

LEMMA NewerFinite ==
  ASSUME IsFiniteSet(before), NEW f
  PROVE  IsFiniteSet(Newer(f))
<1> DEFINE newer == {h \in before : h.time > f.time}
           names == {g.game : g \in newer}
           name == [h \in newer |-> h.game]
<1>1. IsFiniteSet(newer)
  BY FS_Subset
<1>2. name \in Surjection(newer, names)
  BY DEF Surjection
<1>3. IsFiniteSet(names)
  <2> HIDE DEF newer, names, name
  <2> QED
    BY <1>1, <1>2, FS_Surjection
<1>4. IsFiniteSet(names \cup {playing})
  <2> HIDE DEF names
  <2> QED
    BY <1>3, FS_AddElement
<1> QED
  BY <1>4 DEF Newer

\* What the file that is renumbered next has to do with the entries before.
LEMMA NextEntry ==
  ASSUME RecentInv, BeforeInv, MetInv, NEW f \in recentFiles, Newest(f)
  PROVE  /\ f \in before \/ (f.game = playing /\ f \notin before)
         /\ \A d \in before :
              d.game # playing /\ d # f => d.game # f.game
         /\ \A g \in recentFiles \ {f} : f.time > g.time
         /\ f \in before /\ f.game # playing =>
              /\ f.game \notin knownFiles
              /\ knownFiles \subseteq Newer(f)
<1>1. f \in before \/ f = Entry(0, playing, now)
  BY DEF MetInv
<1>2. Entry(0, playing, now).game = playing
  BY DEF Entry
<1>3. \A d \in before : d.game # playing /\ d # f => d.game # f.game
  BY <1>1, <1>2 DEF BeforeInv
<1>4. \A g \in recentFiles \ {f} : f.time > g.time
  <2>1. \A g \in recentFiles : g.time \in Nat
    BY DEF RecentInv, RecentTypeOK, Entries
  <2> QED
    BY <2>1 DEF RecentInv, TimesInv, Newest
<1>5. ASSUME f \in before, f.game # playing
      PROVE  f.game \notin knownFiles /\ knownFiles \subseteq Newer(f)
  BY <1>5 DEF BeforeInv, MetInv, Newer
<1> QED
  BY <1>1, <1>2, <1>3, <1>4, <1>5

\* The entries that are not renumbered in this step keep their state.
LEMMA OthersWait ==
  ASSUME RecentInv, BeforeInv, MetInv, NEW f \in recentFiles, Newest(f),
         recentFiles' = recentFiles \ {f}, UNCHANGED <<playing, before>>,
         \A g \in entries : g.game # f.game => g \in entries',
         NEW d \in before, d.game # playing, d # f, Stays(d)
  PROVE  Stays(d)'
<1>1. d.game # f.game
  BY NextEntry
<1>2. CASE d \in recentFiles /\ d \in entries
  BY <1>1, <1>2 DEF Stays
<1>3. CASE d \notin recentFiles /\ \E g \in entries \ recentFiles :
                                     g.game = d.game
  BY <1>1, <1>3 DEF Stays
<1>4. CASE Cardinality(Newer(d)) >= MaxEntries
  BY <1>4 DEF Stays, Newer
<1> QED
  BY <1>2, <1>3, <1>4 DEF Stays

LEMMA RemoveKeepsOthers ==
  ASSUME RecentInv, OthersInv, crashes = 0, pc = "renumber",
         NEW f \in recentFiles, Newest(f), Full \/ f.game \in knownFiles,
         RemoveFile(f), recentFiles' = recentFiles \ {f},
         UNCHANGED <<now, pc, playing, whole, crashes, before>>
  PROVE  OthersInv'
<1>1. /\ IsFiniteSet(entries) /\ BeforeInv /\ MetInv
      /\ \A d \in before : d.game # playing => Stays(d)
  BY DEF OthersInv
<1>2. /\ entries' = entries \ Named(f.number, f.game)
      /\ UNCHANGED <<knownFiles, renamed>>
  BY DEF RemoveFile
<1>3. IsFiniteSet(entries')
  BY <1>1, <1>2, FS_Subset
<1>4. BeforeInv'
  BY <1>1 DEF BeforeInv
<1>5. MetInv'
  BY <1>1, <1>2, NextEntry DEF MetInv
<1>6. ASSUME NEW d \in before, d.game # playing
      PROVE  Stays(d)'
  <2>1. CASE d # f
    BY <1>1, <1>2, <1>6, <2>1, OthersWait DEF Named
  <2>2. CASE d = f
    <3>1. renamed >= MaxEntries /\ knownFiles \subseteq Newer(d)
      BY <1>1, <1>6, <2>2, NextEntry DEF Full
    <3>2. Cardinality(knownFiles) = renamed
      BY <1>1 DEF MetInv
    <3>3. IsFiniteSet(Newer(d))
      BY <1>1, NewerFinite DEF BeforeInv
    <3>4. /\ Cardinality(knownFiles) <= Cardinality(Newer(d))
          /\ Cardinality(Newer(d)) \in Nat
      BY <3>1, <3>3, FS_Subset, FS_CardinalityType
    <3>5. Cardinality(Newer(d)) >= MaxEntries
      BY <3>1, <3>2, <3>4, RecentConstants DEF RecentInv, RecentTypeOK
    <3> QED
      BY <3>5 DEF Stays, Newer
  <2> QED
    BY <2>1, <2>2
<1> QED
  BY <1>3, <1>4, <1>5, <1>6 DEF OthersInv

LEMMA RenameKeepsOthers ==
  ASSUME RecentInv, OthersInv, crashes = 0, pc = "renumber",
         NEW f \in recentFiles, Newest(f), f.game \notin knownFiles,
         Rename(f), recentFiles' = recentFiles \ {f},
         UNCHANGED <<now, pc, playing, whole, crashes, before>>
  PROVE  OthersInv'
<1> DEFINE made == Entry(renamed + 1, f.game, f.time)
           kept == (entries \ Named(f.number, f.game))
                     \ Named(renamed + 1, f.game)
<1>1. /\ IsFiniteSet(entries) /\ BeforeInv /\ MetInv
      /\ \A d \in before : d.game # playing => Stays(d)
  BY DEF OthersInv
<1>2. /\ entries' = kept \cup {made} /\ kept \subseteq entries
      /\ knownFiles' = knownFiles \cup {f.game} /\ renamed' = renamed + 1
      /\ \A g \in entries : g.game # f.game => g \in kept
  BY DEF Rename, Named
<1>3. made.game = f.game /\ made.time = f.time
  BY DEF Entry
<1> HIDE DEF made, kept
<1>4. IsFiniteSet(entries')
  BY <1>1, <1>2, FS_Subset, FS_AddElement
<1>5. BeforeInv'
  BY <1>1 DEF BeforeInv
<1>6. MetInv'
  <2>1. /\ IsFiniteSet(knownFiles')
        /\ Cardinality(knownFiles') = renamed'
    BY <1>1, <1>2, FS_AddElement DEF MetInv
  <2>2. knownFiles' \subseteq
          {playing} \cup {g.game : g \in before \ recentFiles'}
    BY <1>1, <1>2, NextEntry DEF MetInv
  <2>3. \A d \in before \ recentFiles' : \A g \in recentFiles' :
          d.time > g.time
    BY <1>1, NextEntry DEF MetInv
  <2> QED
    BY <1>1, <2>1, <2>2, <2>3 DEF MetInv
<1>7. ASSUME NEW d \in before, d.game # playing
      PROVE  Stays(d)'
  <2>1. CASE d # f
    BY <1>1, <1>2, <1>7, <2>1, OthersWait
  <2>2. CASE d = f
    <3>1. made \notin recentFiles'
      BY <1>3 DEF RecentInv, TimesInv
    <3>2. d \notin recentFiles' /\ made \in entries' \ recentFiles'
      BY <1>2, <2>2, <3>1
    <3> QED
      BY <1>3, <2>2, <3>2 DEF Stays
  <2> QED
    BY <2>1, <2>2
<1> QED
  BY <1>4, <1>5, <1>6, <1>7 DEF OthersInv

LEMMA PlayKeepsOthers ==
  ASSUME RecentInv, OthersInv, NEW g \in RecentGames, Play(g)
  PROVE  OthersInv'
<1> DEFINE made == Entry(0, g, now + 1)
<1>1. /\ pc = "idle" /\ pc' = "read" /\ before' = entries
      /\ entries' = (entries \ Named(0, g)) \cup {made}
      /\ playing' = g /\ now' = now + 1 /\ now \in Nat /\ crashes' = crashes
      /\ made = Entry(0, playing, now)'
  BY DEF Play, RecentInv, RecentTypeOK
<1> HIDE DEF made
<1>2. IsFiniteSet(entries) /\ IsFiniteSet(entries')
  BY <1>1, FS_Subset, FS_AddElement DEF OthersInv
<1>3. ASSUME crashes = 0
      PROVE  BeforeInv' /\ entries' = before' \cup {made}
  <2>1. /\ \A f, h \in entries : f # h => f.game # h.game
        /\ \A f \in entries : f.number \in 1 .. MaxEntries
    BY <1>1, <1>3 DEF OthersInv, RecentInv, WellNumbered
  <2>2. \A f \in entries : f.time \in Nat /\ f.time <= now
    BY DEF RecentInv, RecentTypeOK, TimesInv, Entries
  <2>3. BeforeInv'
    BY <1>1, <1>2, <2>1, <2>2, RecentConstants DEF BeforeInv
  <2>4. Named(0, g) = {}
    BY <2>1, RecentConstants DEF Named
  <2> QED
    BY <1>1, <2>3, <2>4
<1> QED
  BY <1>1, <1>2, <1>3 DEF OthersInv

LEMMA ReadKeepsOthers ==
  ASSUME RecentInv, OthersInv, ReadFolder
  PROVE  OthersInv'
<1>1. /\ pc = "read" /\ pc' = "renumber" /\ recentFiles' = entries
      /\ knownFiles' = {} /\ renamed' = 0
      /\ UNCHANGED <<entries, now, playing, whole, crashes, before>>
  BY DEF ReadFolder
<1>2. ASSUME crashes = 0
      PROVE  /\ BeforeInv' /\ MetInv'
             /\ \A f \in before : f.game # playing => Stays(f)'
  <2>1. BeforeInv /\ entries = before \cup {Entry(0, playing, now)}
    BY <1>1, <1>2 DEF OthersInv
  <2>2. BeforeInv'
    BY <1>1, <2>1 DEF BeforeInv
  <2>3. MetInv'
    BY <1>1, <2>1, FS_EmptySet DEF MetInv
  <2>4. \A f \in before : Stays(f)'
    BY <1>1, <2>1 DEF Stays
  <2> QED
    BY <2>2, <2>3, <2>4
<1> QED
  BY <1>1, <1>2 DEF OthersInv

LEMMA OthersKept ==
  RecentInv /\ OthersInv /\ [RecentNext]_recentVars => OthersInv'
<1> SUFFICES ASSUME RecentInv, OthersInv, [RecentNext]_recentVars
             PROVE  OthersInv'
  OBVIOUS
<1>1. ASSUME NEW g \in RecentGames, Play(g)
      PROVE  OthersInv'
  BY <1>1, PlayKeepsOthers
<1>2. CASE ReadFolder
  BY <1>2, ReadKeepsOthers
<1>3. CASE Renumber
  <2>1. PICK f \in recentFiles :
          /\ Newest(f)
          /\ IF Full \/ f.game \in knownFiles THEN RemoveFile(f)
                                              ELSE Rename(f)
          /\ recentFiles' = recentFiles \ {f}
    BY <1>3 DEF Renumber
  <2>2. /\ pc = "renumber"
        /\ UNCHANGED <<now, pc, playing, whole, crashes, before>>
    BY <1>3 DEF Renumber
  <2>3. CASE crashes = 0
    BY <2>1, <2>2, <2>3, RemoveKeepsOthers, RenameKeepsOthers
  <2>4. CASE crashes # 0
    <3>1. CASE RemoveFile(f)
      <4>1. entries' \subseteq entries
        BY <3>1 DEF RemoveFile
      <4> QED
        BY <2>2, <2>4, <4>1, FS_Subset DEF OthersInv
    <3>2. CASE Rename(f)
      <4>1. PICK kept \in SUBSET entries :
              \E entry : entries' = kept \cup {entry}
        BY <3>2 DEF Rename
      <4> QED
        BY <2>2, <2>4, <4>1, FS_Subset, FS_AddElement DEF OthersInv
    <3> QED
      BY <2>1, <3>1, <3>2
  <2> QED
    BY <2>3, <2>4
<1>4. CASE Renumbered
  <2>1. /\ pc = "renumber" /\ pc' = "idle" /\ whole' = TRUE
        /\ UNCHANGED <<entries, recentFiles, playing, crashes, before>>
    BY <1>4 DEF Renumbered
  <2> QED
    BY <2>1 DEF OthersInv, BeforeInv, Stays, Newer
<1>5. CASE Crash
  <2>1. crashes' # 0 /\ entries' = entries
    BY <1>5 DEF Crash, RecentInv, RecentTypeOK
  <2> QED
    BY <2>1 DEF OthersInv
<1>6. CASE UNCHANGED recentVars
  BY <1>6 DEF recentVars, OthersInv, BeforeInv, MetInv, Stays, Newer
<1> QED
  BY <1>1, <1>2, <1>3, <1>4, <1>5, <1>6 DEF RecentNext

\* Until a call is interrupted, a game that is in the folder stays in it when
\* another is played, unless it is full of newer ones
\* (cmd/lastplayed/main.go).
THEOREM OthersAreKept == RecentSpec => []OthersStay
<1>1. RecentInit => OthersInv
  BY FS_EmptySet DEF RecentInit, OthersInv, BeforeInv
<1>2. RecentInv /\ OthersInv => OthersStay
  BY DEF RecentInv, OthersInv, Stays, Newer, OthersStay
<1> QED
  BY <1>1, <1>2, RecentAlways, OthersKept, PTL DEF RecentSpec
-----------------------------------------------------------------------------
(* Where the game just played ends up.  PlayedIsFirst is false, and false  *)
(* of one case only.                                                       *)

\* The game played now is the one that was first already.
Replayed == \E f \in before : f.number = 1 /\ f.game = playing

\* The game just played is the first entry, unless it was: then it is gone.
FirstUnlessReplayed ==
  pc = "idle" /\ whole /\ playing # None =>
    IF Replayed
      THEN \A f \in entries : f.game # playing
      ELSE \E f \in entries : f.game = playing /\ f.number = 1

\* Before the first file is renumbered: the new launcher is the newest, and the
\* others were there before, the one that was first among them.
Fresh ==
  /\ Entry(0, playing, now) \in entries
  /\ \A f \in entries :
       f # Entry(0, playing, now) => f \in before /\ f.time < now
  /\ Replayed => \E f \in entries : f.number = 1 /\ f.game = playing

\* After it: the new launcher is number 1.  It lives until the path of an entry
\* before the call is removed that has its number and game.
Placed ==
  /\ playing \in knownFiles
  /\ recentFiles \subseteq before
  /\ \A f \in entries \ recentFiles : f.game = playing => f.number = 1
  /\ ~Replayed => \E f \in entries : f.game = playing /\ f.number = 1
  /\ Replayed =>
       \/ \E f \in recentFiles : f.number = 1 /\ f.game = playing
       \/ \A f \in entries \ recentFiles : f.game # playing

FirstInv ==
  /\ pc = "read" => Fresh
  /\ pc = "renumber" =>
       IF renamed = 0
         THEN Fresh /\ recentFiles = entries /\ knownFiles = {}
         ELSE Placed
  /\ FirstUnlessReplayed

LEMMA PlayIsFresh ==
  ASSUME RecentInv, NEW g \in RecentGames, Play(g)
  PROVE  FirstInv'
<1> DEFINE made == Entry(0, g, now + 1)
<1>1. /\ pc' = "read" /\ before' = entries /\ whole' = FALSE
      /\ entries' = (entries \ Named(0, g)) \cup {made}
      /\ playing' = g /\ now' = now + 1 /\ now \in Nat
      /\ made = Entry(0, playing, now)'
  BY DEF Play, RecentInv, RecentTypeOK
<1>2. \A f \in entries : f.time \in Nat /\ f.time <= now
  BY DEF RecentInv, RecentTypeOK, TimesInv, Entries
<1>3. \A f \in Named(0, g) : f.number = 0
  BY DEF Named
<1> HIDE DEF made
<1>4. \A f \in entries' : f # made => f \in before' /\ f.time < now'
  BY <1>1, <1>2
<1>5. Replayed' => \E f \in entries' : f.number = 1 /\ f.game = playing'
  BY <1>1, <1>3 DEF Replayed
<1>6. Fresh'
  BY <1>1, <1>4, <1>5 DEF Fresh
<1> QED
  BY <1>1, <1>6 DEF FirstInv, FirstUnlessReplayed

\* The first file is the new launcher, and it is renamed.
LEMMA FirstIsPlaced ==
  ASSUME RecentInv, FirstInv, pc = "renumber", renamed = 0,
         NEW f \in recentFiles, Newest(f), Rename(f),
         recentFiles' = recentFiles \ {f},
         UNCHANGED <<now, pc, playing, whole, crashes, before>>
  PROVE  renamed' = 1 /\ Placed'
<1> DEFINE written == Entry(0, playing, now)
           made == Entry(1, playing, now)
<1>1. /\ written.number = 0 /\ written.game = playing /\ written.time = now
      /\ made.number = 1 /\ made.game = playing /\ made.time = now
      /\ made # written
  BY DEF Entry
<1>2. /\ written \in entries /\ recentFiles = entries /\ knownFiles = {}
      /\ \A g \in entries : g # written => g \in before /\ g.time < now
      /\ Replayed => \E g \in entries : g.number = 1 /\ g.game = playing
  BY DEF FirstInv, Fresh
<1>3. now \in Nat /\ \A g \in entries : g.time \in Nat
  BY DEF RecentInv, RecentTypeOK, Entries
<1>4. f = written
  BY <1>1, <1>2, <1>3 DEF Newest
<1>5. Named(f.number, f.game) = {g \in entries : g.number = 0 /\
                                                 g.game = playing}
  BY <1>1, <1>4 DEF Named
<1>6. /\ entries' = ((entries \ Named(0, playing)) \ Named(1, playing))
                      \cup {made}
      /\ knownFiles' = {playing} /\ renamed' = 1
  BY <1>1, <1>2, <1>4 DEF Rename
<1>7. written \notin entries'
  BY <1>1, <1>2, <1>6 DEF Named
<1> HIDE DEF written, made
<1>8. recentFiles' = entries \ {written} /\ recentFiles' \subseteq before'
  BY <1>2, <1>4
<1>9. entries' \ recentFiles' \subseteq {made}
  BY <1>6, <1>7, <1>8
<1>10. Replayed' = Replayed
  BY DEF Replayed
<1> QED
  BY <1>1, <1>2, <1>6, <1>8, <1>9, <1>10 DEF Placed

LEMMA PlacedKept ==
  ASSUME RecentInv, Placed, pc = "renumber", NEW f \in recentFiles,
         IF Full \/ f.game \in knownFiles THEN RemoveFile(f) ELSE Rename(f),
         recentFiles' = recentFiles \ {f},
         UNCHANGED <<now, pc, playing, whole, crashes, before>>
  PROVE  Placed'
<1>1. Replayed' = Replayed
  BY DEF Replayed
<1>2. f \in before /\ (f.number = 1 /\ f.game = playing => Replayed)
  BY DEF Placed, Replayed
<1>3. CASE RemoveFile(f)
  <2>1. entries' = entries \ Named(f.number, f.game) /\ knownFiles' = knownFiles
    BY <1>3 DEF RemoveFile
  <2>2. /\ entries' \ recentFiles' \subseteq entries \ recentFiles
        /\ f \notin entries'
    BY <2>1 DEF Named
  <2>3. ASSUME ~Replayed
        PROVE  \E g \in entries' : g.game = playing /\ g.number = 1
    BY <1>2, <2>1, <2>3 DEF Placed, Named
  <2>4. ASSUME Replayed
        PROVE  \/ \E g \in recentFiles' : g.number = 1 /\ g.game = playing
               \/ \A g \in entries' \ recentFiles' : g.game # playing
    <3>1. CASE f.number = 1 /\ f.game = playing
      BY <2>1, <2>2, <3>1 DEF Placed, Named
    <3>2. CASE ~(f.number = 1 /\ f.game = playing)
      BY <2>2, <2>4, <3>2 DEF Placed
    <3> QED
      BY <3>1, <3>2
  <2> QED
    BY <1>1, <2>1, <2>2, <2>3, <2>4 DEF Placed
<1>4. CASE Rename(f) /\ f.game \notin knownFiles
  <2> DEFINE made == Entry(renamed + 1, f.game, f.time)
  <2>1. f.game # playing
    BY <1>4 DEF Placed
  <2>2. /\ entries' =
             ((entries \ Named(f.number, f.game)) \ Named(renamed + 1, f.game))
               \cup {made}
        /\ knownFiles' = knownFiles \cup {f.game}
    BY <1>4 DEF Rename
  <2>3. made.game = f.game
    BY DEF Entry
  <2> HIDE DEF made
  <2>4. /\ entries' \ recentFiles' \subseteq
             (entries \ recentFiles) \cup {made}
        /\ \A g \in entries : g.game = playing => g \in entries'
    BY <2>1, <2>2 DEF Named
  <2>5. ASSUME Replayed
        PROVE  \/ \E g \in recentFiles' : g.number = 1 /\ g.game = playing
               \/ \A g \in entries' \ recentFiles' : g.game # playing
    BY <2>1, <2>3, <2>4, <2>5 DEF Placed
  <2> QED
    BY <1>1, <2>1, <2>2, <2>3, <2>4, <2>5 DEF Placed
<1> QED
  BY <1>3, <1>4

LEMMA FirstKept ==
  RecentInv /\ RecentInv' /\ FirstInv /\ [RecentNext]_recentVars => FirstInv'
<1> SUFFICES ASSUME RecentInv, RecentInv', FirstInv, [RecentNext]_recentVars
             PROVE  FirstInv'
  OBVIOUS
<1>1. ASSUME NEW g \in RecentGames, Play(g)
      PROVE  FirstInv'
  BY <1>1, PlayIsFresh
<1>2. CASE ReadFolder
  <2>1. /\ pc = "read" /\ pc' = "renumber" /\ recentFiles' = entries
        /\ knownFiles' = {} /\ renamed' = 0
        /\ UNCHANGED <<entries, now, playing, whole, before>>
    BY <1>2 DEF ReadFolder
  <2>2. Fresh'
    BY <2>1 DEF FirstInv, Fresh, Replayed
  <2> QED
    BY <2>1, <2>2 DEF FirstInv, FirstUnlessReplayed
<1>3. CASE Renumber
  <2>1. PICK f \in recentFiles :
          /\ Newest(f)
          /\ IF Full \/ f.game \in knownFiles THEN RemoveFile(f)
                                              ELSE Rename(f)
          /\ recentFiles' = recentFiles \ {f}
    BY <1>3 DEF Renumber
  <2>2. /\ pc = "renumber" /\ pc' = pc
        /\ UNCHANGED <<now, pc, playing, whole, crashes, before>>
    BY <1>3 DEF Renumber
  <2>3. renamed \in Nat /\ MaxEntries \in Nat \ {0}
    BY RecentConstants DEF RecentInv, RecentTypeOK
  <2>4. renamed' # 0 /\ Placed'
    <3>1. CASE renamed = 0
      <4>1. Rename(f)
        BY <2>1, <2>2, <2>3, <3>1 DEF FirstInv, Full
      <4> QED
        BY <2>1, <2>2, <3>1, <4>1, FirstIsPlaced
    <3>2. CASE renamed # 0
      <4>1. renamed' = renamed \/ renamed' = renamed + 1
        BY <2>1 DEF RemoveFile, Rename
      <4>2. Placed
        BY <2>2, <3>2 DEF FirstInv
      <4> QED
        BY <2>1, <2>2, <2>3, <3>2, <4>1, <4>2, PlacedKept
    <3> QED
      BY <3>1, <3>2
  <2> QED
    BY <2>2, <2>4 DEF FirstInv, FirstUnlessReplayed
<1>4. CASE Renumbered
  <2>1. /\ pc = "renumber" /\ pc' = "idle" /\ recentFiles = {}
        /\ UNCHANGED <<entries, playing, before>>
    BY <1>4 DEF Renumbered
  <2>2. Placed
    BY <2>1 DEF FirstInv, Fresh
  <2> QED
    BY <2>1, <2>2 DEF FirstInv, FirstUnlessReplayed, Placed, Replayed
<1>5. CASE Crash
  BY <1>5 DEF Crash, FirstInv, FirstUnlessReplayed, RecentInv
<1>6. CASE UNCHANGED recentVars
  BY <1>6 DEF recentVars, FirstInv, FirstUnlessReplayed, Replayed, Fresh,
    Placed
<1> QED
  BY <1>1, <1>2, <1>3, <1>4, <1>5, <1>6 DEF RecentNext

\* After a call that runs to its end, whatever was interrupted before it, the
\* game just played is the first entry, unless it was the first one before:
\* then its launcher is removed (cmd/lastplayed/main.go:148).
THEOREM PlayedIsFirstOrLost == RecentSpec => []FirstUnlessReplayed
<1>1. RecentInit => FirstInv
  BY DEF RecentInit, FirstInv, FirstUnlessReplayed
<1>2. FirstInv => FirstUnlessReplayed
  BY DEF FirstInv
<1> QED
  BY <1>1, <1>2, RecentAlways, FirstKept, PTL DEF RecentSpec

\* So it is first as long as no game is played again at once.
THEOREM PlayedIsFirstAfterAnother ==
  RecentSpec /\ []~Replayed => []PlayedIsFirst
<1>1. FirstUnlessReplayed /\ ~Replayed => PlayedIsFirst
  BY DEF FirstUnlessReplayed, PlayedIsFirst
<1> QED
  BY <1>1, PlayedIsFirstOrLost, PTL

-----------------------------------------------------------------------------
(* The refinement of RecentList.                                           *)

\* What RecentList has of a file, and of a set of files.
ShownAs(f) == [game |-> f.game, time |-> f.time]

ShownOf(some) == {ShownAs(f) : f \in some}

\* The files that were there before the call, of other games than it is for,
\* and those of them that there is room for.
Rest == {f \in before : f.game # playing}

Room ==
  IF Cardinality(Rest) < MaxEntries
    THEN Rest
    ELSE {f \in Rest : \E h \in Rest : h.time < f.time}

\* Files that are numbered within the limit, in the order of their times.
Ordered(some) ==
  \A f \in some :
    /\ f.number \in 1 .. MaxEntries
    /\ \A g \in some :
         f # g => f.time # g.time /\ (f.number < g.number <=> f.time > g.time)

\* Until a call is interrupted, the files before it are in order, and those
\* that it is done with are the new one and files of other games.
MadeInv ==
  crashes = 0 =>
    /\ Ordered(before)
    /\ pc = "renumber" =>
         \A e \in entries \ recentFiles :
           IF e.game = playing THEN e.time = now
                               ELSE \E f \in before : ShownAs(f) = ShownAs(e)

ListInv == RecentInv /\ OthersInv /\ FirstInv /\ MadeInv

LEMMA ShownFields ==
  \A f : ShownAs(f).game = f.game /\ ShownAs(f).time = f.time
BY DEF ShownAs

LEMMA MadeKept == ListInv /\ [RecentNext]_recentVars => MadeInv'
<1> SUFFICES ASSUME ListInv, [RecentNext]_recentVars, crashes' = 0
             PROVE  MadeInv'
  BY DEF MadeInv
<1> USE DEF ListInv
<1>1. ASSUME NEW g \in RecentGames, Play(g)
      PROVE  MadeInv'
  <2>1. /\ pc = "idle" /\ pc' = "read" /\ before' = entries /\ crashes = 0
    BY <1>1 DEF Play
  <2>2. whole
    BY <2>1 DEF OthersInv
  <2>3. Ordered(entries)
    BY <2>1, <2>2 DEF RecentInv, WellNumbered, TimesInv, Ordered
  <2> QED
    BY <2>1, <2>3 DEF MadeInv, Ordered
<1>2. CASE ReadFolder
  <2>1. /\ recentFiles' = entries /\ entries' = entries
        /\ UNCHANGED <<crashes, before>>
    BY <1>2 DEF ReadFolder
  <2> QED
    BY <2>1 DEF MadeInv, Ordered
<1>3. CASE Renumber
  <2>1. PICK f \in recentFiles :
          /\ Newest(f)
          /\ IF Full \/ f.game \in knownFiles THEN RemoveFile(f)
                                              ELSE Rename(f)
          /\ recentFiles' = recentFiles \ {f}
    BY <1>3 DEF Renumber
  <2>2. /\ pc = "renumber"
        /\ UNCHANGED <<now, pc, playing, whole, crashes, before>>
    BY <1>3 DEF Renumber
  <2>3. Ordered(before)'
    BY <2>2 DEF MadeInv, Ordered
  <2>4. ASSUME NEW e \in (entries \ recentFiles) \cap (entries' \ recentFiles')
        PROVE  IF e.game = playing
                 THEN e.time = now
                 ELSE \E d \in before : ShownAs(d) = ShownAs(e)
    BY <2>2, <2>4 DEF MadeInv
  <2>5. CASE RemoveFile(f)
    <3>1. entries' = entries \ Named(f.number, f.game) /\ f \notin entries'
      BY <2>5 DEF RemoveFile, Named
    <3>2. entries' \ recentFiles' \subseteq entries \ recentFiles
      BY <2>1, <3>1
    <3> QED
      BY <2>2, <2>3, <2>4, <3>2 DEF MadeInv
  <2>6. CASE Rename(f) /\ f.game \notin knownFiles
    <3> DEFINE made == Entry(renamed + 1, f.game, f.time)
    <3>1. entries' = ((entries \ Named(f.number, f.game))
                        \ Named(renamed + 1, f.game)) \cup {made}
      BY <2>6 DEF Rename
    <3>2. made.game = f.game /\ made.time = f.time
      BY DEF Entry
    <3>3. f \notin entries' \ {made}
      BY <3>1 DEF Named
    <3> HIDE DEF made
    <3>4. entries' \ recentFiles' \subseteq (entries \ recentFiles) \cup {made}
      BY <2>1, <3>1, <3>3
    <3>5. f.game = playing => f.time = now
      <4>1. CASE renamed = 0
        <5>1. /\ Fresh /\ recentFiles = entries
          BY <2>2, <4>1 DEF FirstInv
        <5>2. Entry(0, playing, now) \in recentFiles
          BY <5>1 DEF Fresh
        <5>3. f # Entry(0, playing, now) => f.time < now
          BY <5>1 DEF Fresh
        <5>4. f.time \in Nat /\ now \in Nat
          BY DEF RecentInv, RecentTypeOK, Entries
        <5> QED
          BY <2>1, <5>2, <5>3, <5>4 DEF Newest, Entry
      <4>2. CASE renamed # 0
        BY <2>2, <2>6, <4>2 DEF FirstInv, Placed
      <4> QED
        BY <4>1, <4>2
    <3>6. f.game # playing => f \in before
      BY <2>2, NextEntry, <2>1 DEF OthersInv
    <3>7. ShownAs(made) = ShownAs(f)
      BY <3>2 DEF ShownAs
    <3>8. IF made.game = playing
            THEN made.time = now
            ELSE \E d \in before : ShownAs(d) = ShownAs(made)
      BY <3>2, <3>5, <3>6, <3>7
    <3> QED
      BY <2>2, <2>3, <2>4, <3>4, <3>8 DEF MadeInv
  <2> QED
    BY <2>1, <2>5, <2>6
<1>4. CASE Renumbered
  BY <1>4 DEF Renumbered, MadeInv, Ordered
<1>5. CASE Crash
  BY <1>5 DEF Crash, RecentInv, RecentTypeOK
<1>6. CASE UNCHANGED recentVars
  BY <1>6 DEF recentVars, MadeInv, Ordered
<1> QED
  BY <1>1, <1>2, <1>3, <1>4, <1>5, <1>6 DEF RecentNext

\* Files in order are no more than the limit.
LEMMA OrderedFit ==
  ASSUME NEW some, Ordered(some), \A f \in some : f.time \in Nat
  PROVE  IsFiniteSet(some) /\ Cardinality(some) <= MaxEntries
<1> DEFINE place == [f \in some |-> f.number]
<1>1. MaxEntries \in Nat /\ 1 \in Int /\ MaxEntries \in Int
  BY RecentConstants
<1>2. IsFiniteSet(1 .. MaxEntries) /\ Cardinality(1 .. MaxEntries) = MaxEntries
  BY <1>1, FS_Interval
<1>3. \A f, g \in some : f # g => f.number # g.number
  <2>1. \A f \in some : f.number \in Nat
    BY <1>1 DEF Ordered
  <2> QED
    BY <2>1 DEF Ordered
<1>4. place \in Injection(some, 1 .. MaxEntries)
  BY <1>3 DEF Injection, Ordered, IsInjective
<1> QED
  BY <1>2, <1>4, FS_Injection

\* The games of a finite set of files: one for each of them at most.
LEMMA GamesCount ==
  ASSUME NEW some, IsFiniteSet(some)
  PROVE  /\ IsFiniteSet({f.game : f \in some})
         /\ Cardinality({f.game : f \in some}) <= Cardinality(some)
         /\ (\A f, g \in some : f.game = g.game => f = g) =>
              Cardinality({f.game : f \in some}) = Cardinality(some)
<1> DEFINE games == {f.game : f \in some}
           of == [f \in some |-> f.game]
<1>1. of \in Surjection(some, games)
  BY DEF Surjection
<1>2. (\A f, g \in some : f.game = g.game => f = g) =>
        of \in Injection(some, games)
  BY <1>1 DEF Injection, Surjection, IsInjective
<1> HIDE DEF games, of
<1>3. /\ IsFiniteSet(games) /\ Cardinality(games) <= Cardinality(some)
      /\ of \in Injection(some, games) =>
           Cardinality(games) = Cardinality(some)
  BY <1>1, FS_Surjection
<1> QED
  BY <1>2, <1>3 DEF games

\* What RecentList has of files of different games is as many records.
LEMMA ShownCount ==
  ASSUME NEW some, IsFiniteSet(some),
         \A f, g \in some : f.game = g.game => f = g
  PROVE  Cardinality(ShownOf(some)) = Cardinality(some)
<1> DEFINE of == [f \in some |-> ShownAs(f)]
<1>1. of \in Surjection(some, ShownOf(some))
  BY DEF Surjection, ShownOf
<1>2. \A f, g \in some : of[f] = of[g] => f = g
  BY ShownFields
<1>3. of \in Injection(some, ShownOf(some))
  BY <1>1, <1>2 DEF Injection, Surjection, IsInjective
<1> HIDE DEF of
<1> QED
  BY <1>1, <1>3, FS_Surjection

\* An entry of another game that as many newer games as the limit come before
\* is the oldest of a full folder in which the game played now was not.
LEMMA OnlyOldestGoes ==
  ASSUME RecentInv, BeforeInv, Ordered(before), NEW f \in before,
         f.game # playing, Cardinality(Newer(f)) >= MaxEntries
  PROVE  /\ Rest = before
         /\ Cardinality(Rest) = MaxEntries
         /\ \A h \in before : f.time <= h.time
<1> DEFINE newer == {h \in before : h.time > f.time}
           names == {h.game : h \in newer}
           others == before \ {f}
<1>1. \A h \in before : h.time \in Nat
  BY DEF RecentInv, RecentTypeOK, Entries
<1>2. /\ IsFiniteSet(before) /\ Cardinality(before) <= MaxEntries
      /\ Cardinality(before) \in Nat /\ MaxEntries \in Nat
  BY <1>1, OrderedFit, FS_CardinalityType, RecentConstants
<1>3. newer \subseteq others
  BY <1>1
<1>4. /\ IsFiniteSet(others) /\ Cardinality(others) = Cardinality(before) - 1
  BY <1>2, FS_RemoveElement
<1>5. /\ IsFiniteSet(newer) /\ Cardinality(newer) <= Cardinality(others)
      /\ Cardinality(newer) \in Nat
  BY <1>3, <1>4, FS_Subset, FS_CardinalityType
<1>6. /\ IsFiniteSet(names) /\ Cardinality(names) <= Cardinality(newer)
      /\ Cardinality(names) \in Nat
  <2> HIDE DEF newer
  <2> QED
    BY <1>5, GamesCount, FS_CardinalityType
<1>7. Newer(f) = names \cup {playing}
  BY DEF Newer
<1>8. Cardinality(names \cup {playing}) =
        IF playing \in names THEN Cardinality(names) ELSE Cardinality(names) + 1
  <2> HIDE DEF names
  <2> QED
    BY <1>6, FS_AddElement
<1>9. /\ playing \notin names
      /\ Cardinality(newer) = Cardinality(others)
      /\ Cardinality(before) = MaxEntries
  <2> HIDE DEF names, newer, others
  <2> QED
    BY <1>2, <1>4, <1>5, <1>6, <1>7, <1>8
<1>10. newer = others
  <2> HIDE DEF newer, others
  <2> QED
    BY <1>3, <1>4, <1>9, FS_Subset
<1>11. Rest = before
  BY <1>9, <1>10 DEF Rest
<1> QED
  BY <1>1, <1>9, <1>10, <1>11

\* When the loop is through, each file of another game is one that was there,
LEMMA EndsWithOthers ==
  ASSUME ListInv, crashes = 0, pc = "renumber", recentFiles = {}
  PROVE  /\ \A e \in entries :
              IF e.game = playing
                THEN ShownAs(e) = [game |-> playing, time |-> now]
                ELSE \E f \in Rest : ShownAs(f) = ShownAs(e)
         /\ \A f \in Rest :
              \/ \E e \in entries : ShownAs(e) = ShownAs(f)
              \/ /\ Rest = before /\ Cardinality(Rest) = MaxEntries
                 /\ \A h \in before : f.time <= h.time
         /\ IF Replayed THEN \A e \in entries : e.game # playing
                        ELSE \E e \in entries : e.game = playing
<1>1. RecentInv /\ BeforeInv /\ Ordered(before)
  BY DEF ListInv, OthersInv, MadeInv
<1>2. \A e \in entries :
        IF e.game = playing THEN e.time = now
                            ELSE \E f \in before : ShownAs(f) = ShownAs(e)
  BY DEF ListInv, MadeInv
<1>3. ASSUME NEW e \in entries
      PROVE  IF e.game = playing
               THEN ShownAs(e) = [game |-> playing, time |-> now]
               ELSE \E f \in Rest : ShownAs(f) = ShownAs(e)
  <2>1. CASE e.game = playing
    BY <1>2, <2>1 DEF ShownAs
  <2>2. CASE e.game # playing
    <3>1. PICK f \in before : ShownAs(f) = ShownAs(e)
      BY <1>2, <2>2
    <3>2. f.game = e.game
      BY <3>1, ShownFields
    <3> QED
      BY <2>2, <3>1, <3>2 DEF Rest
  <2> QED
    BY <2>1, <2>2
<1>4. ASSUME NEW f \in Rest
      PROVE  \/ \E e \in entries : ShownAs(e) = ShownAs(f)
             \/ /\ Rest = before /\ Cardinality(Rest) = MaxEntries
                /\ \A h \in before : f.time <= h.time
  <2>1. f \in before /\ f.game # playing
    BY DEF Rest
  <2>2. Stays(f)
    BY <2>1 DEF ListInv, OthersInv
  <2>3. CASE Cardinality(Newer(f)) >= MaxEntries
    BY <1>1, <2>1, <2>3, OnlyOldestGoes
  <2>4. CASE \E e \in entries : e.game = f.game
    <3>1. PICK e \in entries : e.game = f.game
      BY <2>4
    <3>2. PICK d \in before : ShownAs(d) = ShownAs(e)
      BY <1>2, <2>1, <3>1
    <3>3. d.game = f.game
      BY <3>1, <3>2, ShownFields
    <3>4. d = f
      BY <1>1, <2>1, <3>3 DEF BeforeInv
    <3> QED
      BY <3>2, <3>4
  <2> QED
    BY <2>2, <2>3, <2>4 DEF Stays
<1>5. Placed
  BY DEF ListInv, FirstInv, Fresh
<1>6. IF Replayed THEN \A e \in entries : e.game # playing
                  ELSE \E e \in entries : e.game = playing
  BY <1>5 DEF Placed
<1> QED
  BY <1>3, <1>4, <1>6

\* and there is room for it.
LEMMA EndsWithRoom ==
  ASSUME ListInv, crashes = 0, pc = "renumber", recentFiles = {}, ~Replayed,
         NEW e \in entries, e.game # playing
  PROVE  \E f \in Room : ShownAs(f) = ShownAs(e)
<1>1. PICK f \in Rest : ShownAs(f) = ShownAs(e)
  BY EndsWithOthers
<1>2. SUFFICES ASSUME f \notin Room
               PROVE  FALSE
  BY <1>1
<1>3. \A h \in before \cup entries : h.time \in Nat
  BY DEF ListInv, RecentInv, RecentTypeOK, Entries
<1>4. /\ IsFiniteSet(before) /\ Cardinality(before) <= MaxEntries
      /\ Cardinality(before) \in Nat /\ MaxEntries \in Nat
      /\ Rest \in SUBSET before /\ BeforeInv /\ Ordered(before)
  BY <1>3, OrderedFit, FS_CardinalityType, RecentConstants
     DEF ListInv, MadeInv, OthersInv, Rest
<1>5. /\ ~(Cardinality(Rest) < MaxEntries)
      /\ ~\E h \in Rest : h.time < f.time
  BY <1>1, <1>2 DEF Room
<1>6. Rest = before /\ Cardinality(before) = MaxEntries
  <2>1. /\ Cardinality(Rest) <= Cardinality(before)
        /\ Cardinality(Rest) = Cardinality(before) => Rest = before
        /\ Cardinality(Rest) \in Nat
    BY <1>4, FS_Subset, FS_CardinalityType
  <2> QED
    BY <1>4, <1>5, <2>1
<1> DEFINE had == {d.game : d \in before}
           has == {d.game : d \in entries}
<1>7. had \cup {playing} \subseteq has
  <2>1. \E d \in entries : d.game = playing
    BY EndsWithOthers
  <2>2. ASSUME NEW d \in before
        PROVE  d.game \in has
    <3>1. CASE d = f
      BY <1>1, <3>1, ShownFields
    <3>2. CASE d # f
      <4>1. ~\A h \in before : d.time <= h.time
        BY <1>1, <1>3, <1>4, <1>5, <1>6, <3>2 DEF Ordered
      <4>2. PICK g \in entries : ShownAs(g) = ShownAs(d)
        BY <1>6, <4>1, EndsWithOthers
      <4> QED
        BY <4>2, ShownFields
    <3> QED
      BY <3>1, <3>2
  <2> QED
    BY <2>1, <2>2
<1>8. /\ IsFiniteSet(had) /\ Cardinality(had) = MaxEntries
      /\ playing \notin had
  BY <1>4, <1>6, GamesCount DEF BeforeInv, Rest
<1>9. Ordered(entries)
  <2>1. DoneInv /\ renamed \in 0 .. MaxEntries
    BY DEF ListInv, RecentInv, RecentTypeOK
  <2>2. \A d \in entries : d.number \in 1 .. MaxEntries
    BY <1>4, <2>1 DEF DoneInv
  <2> QED
    BY <2>1, <2>2 DEF DoneInv, Ordered, ListInv, RecentInv, TimesInv
<1>10. /\ IsFiniteSet(has) /\ Cardinality(has) <= MaxEntries
  <2>1. IsFiniteSet(entries) /\ Cardinality(entries) <= MaxEntries
    BY <1>3, <1>9, OrderedFit
  <2>2. IsFiniteSet(has) /\ Cardinality(has) <= Cardinality(entries)
    BY <2>1, GamesCount
  <2>3. Cardinality(has) \in Nat /\ Cardinality(entries) \in Nat
    BY <2>1, <2>2, FS_CardinalityType
  <2> QED
    BY <1>4, <2>1, <2>2, <2>3
<1> HIDE DEF had, has
<1>11. Cardinality(had \cup {playing}) = MaxEntries + 1
  BY <1>4, <1>8, FS_AddElement
<1>12. Cardinality(had \cup {playing}) <= Cardinality(has)
  BY <1>7, <1>10, FS_Subset
<1>13. Cardinality(has) \in Nat
  BY <1>10, FS_CardinalityType
<1> QED
  BY <1>4, <1>10, <1>11, <1>12, <1>13

\* A call leaves what RecentList has after one step.
LEMMA CallEnds ==
  ASSUME ListInv, crashes = 0, pc = "renumber", recentFiles = {}
  PROVE  ShownOf(entries) =
           IF Replayed
             THEN ShownOf(Rest)
             ELSE ShownOf(Room) \cup {[game |-> playing, time |-> now]}
<1>1. CASE Replayed
  <2>1. Rest # before
    BY <1>1 DEF Replayed, Rest
  <2>2. \A f \in Rest : \E e \in entries : ShownAs(e) = ShownAs(f)
    BY <2>1, EndsWithOthers
  <2>3. \A e \in entries : \E f \in Rest : ShownAs(f) = ShownAs(e)
    BY <1>1, EndsWithOthers
  <2> QED
    BY <1>1, <2>2, <2>3 DEF ShownOf
<1>2. CASE ~Replayed
  <2>1. ASSUME NEW f \in Room
        PROVE  \E e \in entries : ShownAs(e) = ShownAs(f)
    <3>1. f \in Rest /\ Rest \subseteq before
      BY DEF Room, Rest
    <3>2. \A h \in before : h.time \in Nat
      BY DEF ListInv, RecentInv, RecentTypeOK, Entries
    <3>3. MaxEntries \in Nat
      BY RecentConstants
    <3>4. Cardinality(Rest) = MaxEntries => \E h \in Rest : h.time < f.time
      BY <3>3 DEF Room
    <3>5. ~(/\ Cardinality(Rest) = MaxEntries
            /\ \A h \in before : f.time <= h.time)
      BY <3>1, <3>2, <3>4
    <3> QED
      BY <3>1, <3>5, EndsWithOthers
  <2>2. \E e \in entries : ShownAs(e) = [game |-> playing, time |-> now]
    BY <1>2, EndsWithOthers
  <2>3. ASSUME NEW e \in entries
        PROVE  \/ ShownAs(e) = [game |-> playing, time |-> now]
               \/ \E f \in Room : ShownAs(f) = ShownAs(e)
    BY <1>2, EndsWithOthers, EndsWithRoom
  <2> QED
    BY <1>2, <2>1, <2>2, <2>3 DEF ShownOf
<1> QED
  BY <1>1, <1>2

\* RecentList takes from its list what the call takes from the folder.
LEMMA ShownRoom ==
  ASSUME RecentInv, BeforeInv, pc = "renumber"
  PROVE  /\ Recents!Others(playing) = ShownOf(Rest)
         /\ Recents!Shortened(Recents!Others(playing)) = ShownOf(Room)
<1>1. Recents!Others(playing) = ShownOf(Rest)
  BY DEF Recents!Others, ShownOf, ShownAs, Rest
<1>2. Cardinality(ShownOf(Rest)) = Cardinality(Rest)
  <2>1. IsFiniteSet(Rest)
    BY FS_Subset DEF BeforeInv, Rest
  <2>2. \A f, g \in Rest : f.game = g.game => f = g
    BY DEF BeforeInv, Rest
  <2> QED
    BY <2>1, <2>2, ShownCount
<1>3. {e \in ShownOf(Rest) : \E h \in ShownOf(Rest) : h.time < e.time} =
        ShownOf({f \in Rest : \E h \in Rest : h.time < f.time})
  BY ShownFields DEF ShownOf
<1> DEFINE older == {f \in Rest : \E h \in Rest : h.time < f.time}
<1>4. Recents!Shortened(ShownOf(Rest)) =
        IF Cardinality(Rest) < MaxEntries THEN ShownOf(Rest) ELSE ShownOf(older)
  <2>1. Recents!Cardinality(ShownOf(Rest)) = Cardinality(ShownOf(Rest))
    BY DEF Recents!Cardinality, Cardinality
  <2> QED
    BY <1>2, <1>3, <2>1 DEF Recents!Shortened
<1>5. Recents!Shortened(ShownOf(Rest)) = ShownOf(Room)
  <2> HIDE DEF older
  <2>1. Room = IF Cardinality(Rest) < MaxEntries THEN Rest ELSE older
    BY DEF Room, older
  <2> QED
    BY <1>4, <2>1
<1> QED
  BY <1>1, <1>5

\* The end of a call is a step of RecentList.
LEMMA RenumberedRefines ==
  ASSUME ListInv, crashes = 0, Renumbered
  PROVE  \/ Recents!Lose(playing)
         \/ Recents!Play(playing, now)
<1>1. /\ pc = "renumber" /\ pc' = "idle" /\ recentFiles = {}
      /\ entries' = entries
      /\ RecentInv /\ BeforeInv /\ Ordered(before)
  BY DEF Renumbered, ListInv, OthersInv, MadeInv
<1>2. {[game |-> f.game, time |-> f.time] :
          f \in IF pc = "idle" THEN entries ELSE before}' = ShownOf(entries)
  BY <1>1 DEF ShownOf, ShownAs
<1>3. {[game |-> f.game, time |-> f.time] :
          f \in IF pc = "idle" THEN entries ELSE before} = ShownOf(before)
  BY <1>1 DEF ShownOf, ShownAs
<1>4. CASE Replayed
  <2>1. PICK f \in before : f.number = 1 /\ f.game = playing
    BY <1>4 DEF Replayed
  <2>2. \A h \in before : h.time <= f.time
    <3>1. \A h \in before : h.time \in Nat /\ h.number \in 1 .. MaxEntries
      BY <1>1 DEF RecentInv, RecentTypeOK, Entries, Ordered
    <3>2. MaxEntries \in Nat
      BY RecentConstants
    <3> QED
      BY <1>1, <2>1, <3>1, <3>2 DEF Ordered
  <2>3. ShownAs(f) \in ShownOf(before)
    BY DEF ShownOf
  <2>4. \A e \in ShownOf(before) : e.time <= ShownAs(f).time
    BY <2>2, ShownFields DEF ShownOf
  <2>5. Recents!IsFirst(playing)
    BY <1>3, <2>1, <2>3, <2>4, ShownFields DEF Recents!IsFirst
  <2> QED
    BY <1>1, <1>2, <1>4, <2>5, CallEnds, ShownRoom DEF Recents!Lose
<1>5. CASE ~Replayed
  <2>1. \A e \in ShownOf(before) : e.time < now
    BY <1>1, ShownFields DEF ShownOf, BeforeInv
  <2>2. Recents!Later(now)
    BY <1>3, <2>1 DEF Recents!Later
  <2> QED
    BY <1>1, <1>2, <1>5, <2>2, CallEnds, ShownRoom DEF Recents!Play
<1> QED
  BY <1>4, <1>5

LEMMA ListStep ==
  ASSUME ListInv, [RecentNext]_recentVars, crashes' = 0
  PROVE  [Recents!Next]_(Recents!vars)
<1>1. ASSUME NEW g \in RecentGames, Play(g)
      PROVE  UNCHANGED Recents!vars
  BY <1>1 DEF Play, Recents!vars
<1>2. CASE ReadFolder \/ Renumber
  BY <1>2 DEF ReadFolder, Renumber, Recents!vars
<1>3. CASE Renumbered
  <2>1. crashes = 0 /\ pc = "renumber"
    BY <1>3 DEF Renumbered
  <2>2. Recents!Lose(playing) \/ Recents!Play(playing, now)
    BY <1>3, <2>1, RenumberedRefines
  <2>3. playing \in RecentGames
    BY <2>1, <1>3 DEF Renumbered, ListInv, FirstInv, Fresh, Placed, RecentInv,
      RecentTypeOK
  <2>4. \E f \in entries \cup before : f.time <= now
    <3>1. Placed /\ BeforeInv
      BY <2>1, <1>3 DEF Renumbered, ListInv, FirstInv, Fresh, OthersInv
    <3>2. CASE ~Replayed
      BY <3>1, <3>2 DEF Placed, ListInv, RecentInv, TimesInv
    <3>3. CASE Replayed
      BY <2>1, <3>1, <3>3 DEF Replayed, BeforeInv, ListInv, RecentInv,
        RecentTypeOK, Entries
    <3> QED
      BY <3>2, <3>3
  <2>5. now \in 1 .. MaxPlays
    BY <2>4, RecentConstants DEF ListInv, RecentInv, RecentTypeOK, Entries
  <2> QED
    BY <2>2, <2>3, <2>5 DEF Recents!Next, Recents!Lose, Recents!Play
<1>4. CASE Crash
  BY <1>4 DEF Crash, ListInv, RecentInv, RecentTypeOK
<1>5. CASE UNCHANGED recentVars
  BY <1>5 DEF recentVars, Recents!vars
<1> QED
  BY <1>1, <1>2, <1>3, <1>4, <1>5 DEF RecentNext

\* Until a call is interrupted LastPlayed keeps the list of the last distinct
\* games, for any games and limit: all that a call renames and removes is one
\* step of it (cmd/lastplayed/main.go).
THEOREM FolderIsTheList == RecentSpec => ListKept
<1>1. RecentInit => Recents!Init /\ ListInv
  <2>1. RecentInit => RecentInv
    BY RecentConstants
       DEF RecentInit, RecentInv, RecentTypeOK, TimesInv, WellNumbered
  <2>2. RecentInit => OthersInv
    BY FS_EmptySet DEF RecentInit, OthersInv, BeforeInv
  <2>3. RecentInit => FirstInv /\ MadeInv
    BY DEF RecentInit, FirstInv, FirstUnlessReplayed, MadeInv, Ordered
  <2> QED
    BY <2>1, <2>2, <2>3 DEF RecentInit, Recents!Init, ListInv
<1>2. ListInv /\ [RecentNext]_recentVars => ListInv'
  BY RecentKept, OthersKept, FirstKept, MadeKept DEF ListInv
<1>3. ListInv /\ [RecentNext]_recentVars =>
        [crashes' = 0 => Recents!Next]_(Recents!vars)
  BY ListStep
<1> QED
  BY <1>1, <1>2, <1>3, PTL DEF RecentSpec, ListKept

-----------------------------------------------------------------------------
(* The three side by side.                                                 *)

\* A step of the instance is a step of each component, or leaves it alone.
LEMMA EachLauncherSteps ==
  [MCNext]_<<launchVars, allVars, recentVars, part>> =>
    /\ [LaunchNext]_launchVars
    /\ [SyncNext]_allVars
    /\ [RecentNext]_recentVars
<1>1. Launches => LaunchNext
  BY FewAssumption DEF Launches, LaunchNext, Launch
<1> QED
  BY <1>1 DEF MCNext

\* So all that is proved of a component is true of it in the instance.
THEOREM EachLauncherRuns == MCSpec => LaunchSpec /\ SyncSpec /\ RecentSpec
<1>1. MCInit => LaunchInit /\ SyncInit /\ RecentInit
  BY DEF MCInit
<1> QED
  BY <1>1, EachLauncherSteps, PTL DEF MCSpec, LaunchSpec, SyncSpec, RecentSpec

\* Every variable of the three keeps its type.
THEOREM LauncherPartsTyped == MCSpec => []MCTypeOK
<1>1. LaunchTypeInv /\ SyncTypeInv /\ RecentTypeOK => MCTypeOK
  BY DEF LaunchTypeInv, SyncTypeInv, MCTypeOK
<1> QED
  BY <1>1, EachLauncherRuns, LaunchTypes, SyncTypes, RecentTypes, PTL
=============================================================================
