---------------------------- MODULE ClaudeProofs ---------------------------
(***************************************************************************)
(* Proofs about ClaudeContext, for any cores, names and paths and whatever *)
(* SAM and the Tracker do, and about ClaudeRequests, for any number of     *)
(* requests, games, systems and settings; and that what is proved of each  *)
(* is true where MCClaude puts them side by side.                          *)
(***************************************************************************)
EXTENDS MCClaude, FiniteSetTheorems, TLAPS

-----------------------------------------------------------------------------
(* ClaudeContext                                                           *)

\* A path is only told at the end, and SAM only asked about what its file said.
ReadInv ==
  /\ ctxAt # "done" => ctx.path = Nothing
  /\ ctxAt \in {"detect", "verify"} => sam # Nothing

ContextInv == ContextTypeOK /\ ReadInv /\ ContextFits

LEMMA PathTypes ==
  ASSUME NEW p \in Paths
  PROVE  /\ FileName[p] \in GameNames
         /\ PathName[p] \in GameNames \cup {Nothing}
         /\ Ext[p] \in {"mra", "ini", "rom", "none"} /\ p # Nothing
BY ContextConstants

\* The path of the Tracker replaces the system, and the name if it gives one.
LEMMA PathFits ==
  ASSUME ctx \in ContextType, NEW p \in Paths, ctx.path = Nothing
  PROVE  /\ FromPath(p) \in ContextType
         /\ FromPath(p).path # Nothing => FromPath(p).path = p
         /\ Ext[p] = "mra" =>
              FromPath(p).name = PathName[p] /\ FromPath(p).system = Arcade
         /\ Ext[p] = "rom" /\ PathName[p] # Nothing =>
              FromPath(p).name = PathName[p]
         /\ Ext[p] = "rom" /\ PathSystem[p] # Nothing =>
              FromPath(p).system = PathSystem[p]
<1> USE PathTypes DEF ContextType
<1>1. CASE Ext[p] = "ini"
  <2>1. FromPath(p) = [ctx EXCEPT !.name = Nothing]
    BY <1>1 DEF FromPath
  <2> QED
    BY <1>1, <2>1
<1>2. CASE Ext[p] = "none"
  <2>1. FromPath(p) = [ctx EXCEPT !.path = p]
    BY <1>2 DEF FromPath
  <2> QED
    BY <1>2, <2>1
<1>3. CASE Ext[p] = "mra"
  <2>1. FromPath(p) = [ctx EXCEPT !.path = p, !.name = PathName[p],
                                  !.system = Arcade]
    BY <1>3 DEF FromPath
  <2> QED
    BY <1>3, <2>1, ContextConstants
<1>4. CASE Ext[p] = "rom"
  <2>1. FromPath(p) =
          [ctx EXCEPT !.path = p, !.name = Or(PathName[p], ctx.name),
                      !.system = Or(InferredSystem(p, ctx.core), ctx.system)]
    BY <1>4 DEF FromPath
  <2>2. Or(PathName[p], ctx.name) \in GameNames \cup {Nothing}
        /\ (PathName[p] # Nothing => Or(PathName[p], ctx.name) = PathName[p])
    BY DEF Or
  <2> DEFINE system == Or(InferredSystem(p, ctx.core), ctx.system)
  <2>3. system \in {PathSystem[p], ctx.core, ctx.system}
        /\ (PathSystem[p] # Nothing => system = PathSystem[p])
    BY DEF Or, InferredSystem
  <2>4. system \in SystemNames \cup Cores \cup SamSystems
                     \cup {PathSystem[q] : q \in Paths} \cup {Nothing}
    BY <2>3
  <2> HIDE DEF system
  <2> QED
    BY <1>4, <2>1, <2>2, <2>3, <2>4 DEF system
<1> QED
  BY <1>1, <1>2, <1>3, <1>4

LEMMA ContextKept == ContextInv /\ [ContextNext]_contextVars => ContextInv'
<1> SUFFICES ASSUME ContextInv, [ContextNext]_contextVars
             PROVE  ContextInv'
  OBVIOUS
<1> USE DEF tracked, samState, request
<1>1. ASSUME UNCHANGED request,
             trkCore' \in Cores \cup {Nothing},
             trkName' \in GameNames \cup {Nothing},
             trkSystem' \in SystemNames \cup {Nothing},
             {trkPath', loading'} \subseteq Paths \cup {Nothing},
             naming' \in BOOLEAN, samOn' \in BOOLEAN,
             samFile' \in SamInfo \cup {Nothing},
             changes' \in 0..MaxChanges
      PROVE  ContextInv'
  BY <1>1 DEF ContextInv, ContextTypeOK, ReadInv, ContextFits
<1>2. Change => changes' \in 0..MaxChanges
  BY ContextConstants DEF Change, ContextInv, ContextTypeOK
<1>3. CASE SamChanges
  <2>1. samOn' \in BOOLEAN
    <3>1. samOn' = TRUE \/ samOn' = FALSE
      BY <1>3 DEF SamChanges
    <3> QED
      BY <3>1
  <2>2. samFile' \in SamInfo \cup {Nothing}
    BY <1>3 DEF SamChanges, ContextInv, ContextTypeOK
  <2> QED
    BY <1>1, <1>2, <1>3, <2>1, <2>2 DEF SamChanges, ContextInv, ContextTypeOK
<1>4. CASE StopGame
  BY <1>1, <1>2, <1>4 DEF StopGame, ContextInv, ContextTypeOK
<1>5. ASSUME NEW p \in Paths, LoadGame(p)
      PROVE  ContextInv'
  <2>1. trkName' \in GameNames
    BY <1>5, PathTypes, ContextConstants DEF LoadGame
  <2> QED
    BY <1>1, <1>2, <1>5, <2>1 DEF LoadGame, ContextInv, ContextTypeOK
<1>6. CASE LoadPath
  <2>1. naming' \in BOOLEAN
    BY <1>6 DEF LoadPath
  <2> QED
    BY <1>1, <1>6, <2>1 DEF LoadPath, ContextInv, ContextTypeOK
<1>7. ASSUME NEW c \in Cores \cup {Nothing}, LoadCore(c)
      PROVE  ContextInv'
  <2>1. naming' \in BOOLEAN
    BY <1>7 DEF LoadCore
  <2> QED
    BY <1>1, <1>2, <1>7, <2>1 DEF LoadCore, ContextInv, ContextTypeOK
<1>8. CASE NameGame
  <2>1. naming' \in BOOLEAN
    BY <1>8 DEF NameGame
  <2>2. Named \in SystemNames \cup {Nothing}
        /\ (Named # Nothing => trkCore \in Cores)
    BY ContextConstants DEF Named, ContextInv, ContextTypeOK
  <2>3. Arcade # Nothing
    BY ContextConstants
  <2>4. trkName' \in GameNames \cup {Nothing}
    <3>1. CASE Named = Arcade
      BY <1>8, <2>2, <2>3, <3>1, ContextConstants DEF NameGame
    <3>2. CASE Named # Arcade
      BY <1>8, <3>2 DEF NameGame, ContextInv, ContextTypeOK
    <3> QED
      BY <3>1, <3>2
  <2> QED
    BY <1>1, <1>8, <2>1, <2>2, <2>4 DEF NameGame, ContextInv, ContextTypeOK
<1>9. ASSUME UNCHANGED <<tracked, samState, changes>>,
             sam' \in SamInfo \cup {Nothing},
             ctxAt' \in {"idle", "detect", "verify", "core", "name", "path",
                         "done"},
             ctx' \in ContextType,
             ReadInv', ContextFits'
      PROVE  ContextInv'
  BY <1>9 DEF ContextInv, ContextTypeOK
<1>10. NoContext \in ContextType
  BY DEF NoContext, ContextType
<1>11. CASE BeginContext
  BY <1>9, <1>11 DEF BeginContext, ContextInv, ContextTypeOK, ReadInv,
    ContextFits
<1>12. CASE DetectSam \/ VerifySam
  <2>1. ctx.path = Nothing /\ (ctx' = ctx \/ ctx' = SamContext)
        /\ UNCHANGED <<tracked, samState, sam, changes>>
        /\ ctxAt' \in {"verify", "core", "done"}
    BY <1>12 DEF DetectSam, VerifySam, ContextInv, ReadInv
  <2>2. sam \in SamInfo /\ sam # Nothing
        /\ (ctxAt' = "done" => ctx' = SamContext)
        /\ (ctxAt' # "done" => ctx' = ctx)
    BY <1>12 DEF DetectSam, VerifySam, ContextInv, ReadInv, ContextTypeOK
  <2>3. SamContext \in ContextType /\ SamContext.path = Nothing
    BY <2>2 DEF SamContext, ContextType, SamInfo
  <2> QED
    BY <1>9, <2>1, <2>2, <2>3 DEF ContextInv, ContextTypeOK, ReadInv,
      ContextFits
<1>13. CASE ReadCore \/ ReadName
  <2>1. ctx' \in ContextType /\ ctx'.path = Nothing
        /\ ctxAt' \in {"name", "path"}
        /\ UNCHANGED <<tracked, samState, sam, changes>>
    <3>1. CASE ReadCore
      BY <1>10, <3>1 DEF ReadCore, NoContext, ContextType, ContextInv,
        ContextTypeOK
    <3>2. CASE ReadName
      BY <3>2 DEF ReadName, ContextType, ContextInv, ContextTypeOK, ReadInv
    <3> QED
      BY <1>13, <3>1, <3>2
  <2> QED
    BY <1>9, <2>1 DEF ContextInv, ContextTypeOK, ReadInv, ContextFits
<1>14. CASE ReadPath
  <2>1. ctx.path = Nothing /\ ctxAt' = "done"
        /\ UNCHANGED <<tracked, samState, sam, changes>>
    BY <1>14 DEF ReadPath, ContextInv, ReadInv
  <2>2. CASE trkPath = Nothing
    BY <1>9, <1>14, <2>1, <2>2 DEF ReadPath, ContextInv, ContextTypeOK,
      ReadInv, ContextFits
  <2>3. CASE trkPath # Nothing
    <3>1. PICK p \in Paths : p = trkPath
      BY <2>3 DEF ContextInv, ContextTypeOK
    <3>2. ctx' = FromPath(p)
      BY <1>14, <2>3, <3>1 DEF ReadPath
    <3>3. ctx \in ContextType
      BY DEF ContextInv, ContextTypeOK
    <3> HIDE DEF FromPath
    <3> QED
      BY <1>9, <2>1, <3>2, <3>3, PathFits DEF ReadInv, ContextFits, ContextInv,
        ContextTypeOK
  <2> QED
    BY <2>2, <2>3
<1>15. CASE EndContext
  BY <1>9, <1>10, <1>15 DEF EndContext, NoContext, ContextInv, ContextTypeOK,
    ReadInv, ContextFits
<1>16. CASE UNCHANGED contextVars
  BY <1>1, <1>16 DEF contextVars, ContextInv, ContextTypeOK
<1> QED
  BY <1>3, <1>4, <1>5, <1>6, <1>7, <1>8, <1>11, <1>12, <1>13, <1>14, <1>15,
    <1>16 DEF ContextNext

LEMMA ContextInvariant == ContextSpec => []ContextInv
<1>1. ASSUME ContextInit
      PROVE  ContextInv
  <2>1. samOn \in BOOLEAN /\ naming \in BOOLEAN
    <3>1. samOn = FALSE /\ naming = FALSE
      BY <1>1 DEF ContextInit
    <3> QED
      BY <3>1
  <2>2. NoContext \in ContextType
    BY DEF NoContext, ContextType
  <2> QED
    BY <1>1, <2>1, <2>2, ContextConstants DEF ContextInit, ContextInv,
      ContextTypeOK, ReadInv, ContextFits, NoContext
<1> QED
  BY <1>1, ContextKept, PTL DEF ContextSpec

\* The context that Claude is told (client.go:413) is made of values that SAM,
\* the Tracker and the tables know.
THEOREM ContextTypes == ContextSpec => []ContextTypeOK
BY ContextInvariant, PTL DEF ContextInv

\* The name and the system that Claude is told are those of the path it was read
\* with, although the Tracker may go on to another game between the reads of
\* them (client.go:463): the system for a path in a system's folder, the name
\* for one that has a name left when regions and versions are cut off.
THEOREM NameAndSystemAreThePaths == ContextSpec => []ContextFits
BY ContextInvariant, PTL DEF ContextInv

-----------------------------------------------------------------------------
(* ClaudeRequests: types, and what is offered to Claude.                   *)

Places == {"idle", "cache", "lock", "scan", "filter", "send", "calling",
           "done"}

ClientType == [max : Int, requests : Nat, messages : Seq({"user"})]

JobType ==
  [kind : {None, "chat", "suggestions", "playlist"}, systems : SUBSET Systems,
   theme : Themes \cup {None}, count : Nat, left : SUBSET Folders,
   games : SUBSET Games, client : ClientType \cup {None}]

AnswerType ==
  [what : {None, "error", "text", "aborted", "list"},
   games : Seq(Games \cup Names)]

\* Between the filter and the answer of Claude a request has a client, and no
\* more games than are offered to Claude.
Offering(place, what) ==
  place \in {"send", "calling"} =>
    /\ what.client \in ClientType
    /\ Cardinality(what.games) <= MaxGamesForClaude

ClaudeInv ==
  /\ ClaudeTypeOK
  /\ job \in [Requests -> JobType]
  /\ answer \in [Requests -> AnswerType]
  /\ \A r \in Requests : Offering(at[r], job[r])

LEMMA Limits ==
  /\ MaxGamesForClaude \in Nat /\ MaxGamesPerSystem \in Nat
  /\ MaxCount \in Nat /\ DefaultCount \in Nat /\ ChatHistory \in Nat
  /\ MaxEdits \in Nat
BY ClaudeConstants

LEMMA NoJobs == NoJob \in JobType /\ NoJob.games = {} /\ NoJob.count = 0
BY DEF NoJob, JobType

LEMMA TextAnswers ==
  ASSUME NEW what \in {None, "error", "text", "aborted"}
  PROVE  Text(what) \in AnswerType /\ Text(what).games = <<>>
BY DEF Text, AnswerType

\* The step of one handler.
LEMMA HandlerKeeps ==
  ASSUME ClaudeInv, NEW r \in Requests, NEW place \in Places,
         NEW new \in JobType,
         at' = [at EXCEPT ![r] = place], job' = [job EXCEPT ![r] = new],
         answer' \in [Requests -> AnswerType],
         UNCHANGED <<edits, cfg>>,
         cache' \in [games : SUBSET Games, fresh : BOOLEAN],
         Offering(place, new),
         \/ place # "scan" /\ at[r] # "scan" /\ mutex' = mutex
         \/ place = "scan" /\ mutex \in {None, r} /\ mutex' = r
         \/ place # "scan" /\ at[r] = "scan" /\ mutex' = None
  PROVE  ClaudeInv'
<1> USE ClaudeConstants DEF ClaudeInv, ClaudeTypeOK
<1>1. job' \in [Requests -> JobType] /\ at' \in [Requests -> Places]
  BY DEF Places
<1>2. \A q \in Requests :
        job'[q].games \subseteq Games /\ job'[q].left \subseteq Folders
  BY <1>1 DEF JobType
<1>3. \A q \in Requests : mutex' = q <=> at'[q] = "scan"
  OBVIOUS
<1>4. \A q \in Requests : Offering(at'[q], job'[q])
  OBVIOUS
<1> QED
  BY <1>1, <1>2, <1>3, <1>4 DEF Places, Offering

LEMMA ReplyKeeps ==
  ASSUME ClaudeInv, NEW r \in Requests, NEW what \in AnswerType,
         at[r] # "scan", Reply(r, what), UNCHANGED <<edits, cfg, cache, mutex>>
  PROVE  ClaudeInv'
<1>1. answer' \in [Requests -> AnswerType]
  BY DEF Reply, ClaudeInv
<1>2. cache \in [games : SUBSET Games, fresh : BOOLEAN]
  BY DEF ClaudeInv, ClaudeTypeOK
<1>3. Offering("done", NoJob) /\ "done" \in Places
  BY DEF Offering, Places
<1> QED
  BY <1>1, <1>2, <1>3, NoJobs, HandlerKeeps DEF Reply, Goto

LEMMA ClientTypes == ClaudeInv => NewClient \in ClientType
BY DEF NewClient, ClientType, ClaudeInv, ClaudeTypeOK, ConfigType

LEMMA FilteredFits ==
  ASSUME NEW games \in SUBSET Games, NEW about, NEW some,
         some \in Filtered(games, about)
  PROVE  some \in SUBSET Games /\ Cardinality(some) <= MaxGamesForClaude
<1>1. CASE Cardinality(games) <= MaxGamesForClaude
  BY <1>1 DEF Filtered
<1>2. CASE ~(Cardinality(games) <= MaxGamesForClaude)
  <2> DEFINE counted == {g \in games : Score[about][g] >= 0}
  <2>1. Cardinality(counted) \in Nat
    BY ClaudeConstants, FS_Subset, FS_CardinalityType
  <2>2. some \in SUBSET counted
        /\ Cardinality(some) = IF Cardinality(counted) < MaxGamesForClaude
                                 THEN Cardinality(counted)
                                 ELSE MaxGamesForClaude
    BY <1>2 DEF Filtered, Best
  <2>3. some \subseteq Games
    BY <2>2
  <2> HIDE DEF counted
  <2> QED
    BY <2>1, <2>2, <2>3, Limits
<1> QED
  BY <1>1, <1>2

\* What an answer of Claude can become: no more games than were asked for, each
\* of them one that was offered, if any was.
LEMMA RecommendedAreOffered ==
  ASSUME NEW names \in Seq(Names), NEW games \in SUBSET Games,
         NEW count \in Nat, NEW list, list \in Recommended(names, games, count)
  PROVE  /\ list \in Seq(Games \cup Names) /\ Len(list) <= count
         /\ games # {} => \A n \in DOMAIN list : list[n] \in games
<1> DEFINE hits == {i \in DOMAIN names : Matches(names[i], games) # {}}
           size == IF Cardinality(hits) < count THEN Cardinality(hits)
                                                ELSE count
           taken == UNION {Matches(names[i], games) : i \in hits}
<1>1. Cardinality(hits) \in Nat
  <2>1. IsFiniteSet(1..Len(names)) /\ hits \subseteq 1..Len(names)
    BY FS_Interval
  <2> QED
    BY <2>1, FS_Subset, FS_CardinalityType
<1>2. list \in [1..size -> taken]
  BY DEF Recommended
<1>3. size \in Nat /\ size <= count
  BY <1>1
<1>4. ASSUME NEW g \in taken
      PROVE  g \in Games \cup Names /\ (games # {} => g \in games)
  <2>1. PICK i \in hits : g \in Matches(names[i], games)
    BY <1>4
  <2>2. names[i] \in Names
    BY <2>1
  <2> QED
    BY <2>1, <2>2 DEF Matches
<1> HIDE DEF taken, size
<1> QED
  BY <1>2, <1>3, <1>4

LEMMA ArriveKeeps ==
  ASSUME ClaudeInv, NEW r \in Requests, Arrive(r)
  PROVE  ClaudeInv'
<1>1. /\ at[r] = "idle" /\ UNCHANGED <<edits, cfg, cache, mutex>>
      /\ cache \in [games : SUBSET Games, fresh : BOOLEAN]
      /\ answer \in [Requests -> AnswerType]
  BY DEF Arrive, HandleChat, HandleSuggestions, HandlePlaylist, ClaudeInv,
    ClaudeTypeOK
<1>2. ASSUME NEW kind \in {"chat", "suggestions"},
             job' = [job EXCEPT ![r] = [NoJob EXCEPT !.kind = kind,
                                                     !.client = NewClient]],
             Goto(r, "send"), UNCHANGED answer
      PROVE  ClaudeInv'
  <2> DEFINE new == [NoJob EXCEPT !.kind = kind, !.client = NewClient]
  <2>1. new \in JobType /\ new.client \in ClientType /\ new.games = {}
    BY ClientTypes DEF NoJob, JobType
  <2>2. Offering("send", new)
    BY <2>1, FS_EmptySet, Limits DEF Offering
  <2> HIDE DEF new
  <2>3. "send" \in Places /\ job' = [job EXCEPT ![r] = new]
    BY <1>2 DEF Places, new
  <2> QED
    BY <1>1, <1>2, <2>1, <2>2, <2>3, HandlerKeeps DEF Goto
<1>3. CASE HandleChat(r)
  BY <1>1, <1>2, <1>3, TextAnswers, ReplyKeeps DEF HandleChat
<1>4. CASE HandleSuggestions(r)
  <2>1. \/ Reply(r, Text("text")) \/ Reply(r, Text("error"))
        \/ /\ job' = [job EXCEPT ![r] = [NoJob EXCEPT !.kind = "suggestions",
                                                     !.client = NewClient]]
           /\ Goto(r, "send") /\ UNCHANGED answer
    BY <1>4 DEF HandleSuggestions
  <2> QED
    BY <1>1, <1>2, <2>1, TextAnswers, ReplyKeeps
<1>5. ASSUME NEW systems \in Choices, NEW about \in Themes, NEW n \in Counts,
             HandlePlaylist(r, systems, about, n)
      PROVE  ClaudeInv'
  <2>1. CASE ~Ready
    BY <1>1, <1>5, <2>1, TextAnswers, ReplyKeeps DEF HandlePlaylist
  <2>2. CASE Ready
    <3> DEFINE new == [NoJob EXCEPT !.kind = "playlist", !.theme = about,
                                    !.systems = systems, !.count = Count(n)]
    <3>1. Count(n) \in Nat
      BY Limits, ClaudeConstants DEF Count
    <3>2. new \in JobType
      BY <3>1, ClaudeConstants DEF NoJob, JobType
    <3>3. Offering("cache", new) /\ "cache" \in Places
      BY DEF Offering, Places
    <3>4. job' = [job EXCEPT ![r] = new] /\ at' = [at EXCEPT ![r] = "cache"]
          /\ UNCHANGED answer
      BY <1>5, <2>2 DEF HandlePlaylist, Goto
    <3> HIDE DEF new
    <3> QED
      BY <1>1, <3>2, <3>3, <3>4, HandlerKeeps
  <2> QED
    BY <2>1, <2>2
<1> QED
  BY <1>3, <1>4, <1>5 DEF Arrive

LEMMA ReadCacheKeeps ==
  ASSUME ClaudeInv, NEW r \in Requests, ReadCache(r)
  PROVE  ClaudeInv'
<1> DEFINE new == IF CacheIsFresh THEN [job[r] EXCEPT !.games = cache.games]
                                  ELSE job[r]
           place == IF CacheIsFresh THEN "filter" ELSE "lock"
<1>1. job[r] \in JobType /\ job \in [Requests -> JobType]
      /\ cache \in [games : SUBSET Games, fresh : BOOLEAN]
      /\ answer \in [Requests -> AnswerType]
  BY DEF ClaudeInv, ClaudeTypeOK
<1>2. new \in JobType
  BY <1>1 DEF JobType
<1>3. job' = [job EXCEPT ![r] = new] /\ at' = [at EXCEPT ![r] = place]
  BY <1>1 DEF ReadCache, Goto
<1>4. place \in Places \ {"scan"} /\ Offering(place, new)
  BY DEF Places, Offering
<1>5. at[r] = "cache" /\ UNCHANGED <<edits, cfg, cache, mutex, answer>>
  BY DEF ReadCache
<1> HIDE DEF new, place
<1> QED
  BY <1>1, <1>2, <1>3, <1>4, <1>5, HandlerKeeps

LEMMA LockCacheKeeps ==
  ASSUME ClaudeInv, NEW r \in Requests, LockCache(r)
  PROVE  ClaudeInv'
<1>1. job[r] \in JobType /\ job \in [Requests -> JobType]
      /\ cache \in [games : SUBSET Games, fresh : BOOLEAN]
      /\ answer \in [Requests -> AnswerType]
  BY DEF ClaudeInv, ClaudeTypeOK
<1>2. /\ at[r] = "lock" /\ mutex = None
      /\ UNCHANGED <<edits, cfg, cache>>
  BY DEF LockCache
<1>3. CASE Targets(job[r].systems) = {}
  BY <1>2, <1>3, TextAnswers, ReplyKeeps DEF LockCache, Panic
<1>4. CASE Targets(job[r].systems) # {}
  <2> DEFINE new == [job[r] EXCEPT !.left = Targets(job[r].systems)]
  <2>1. new \in JobType
    BY <1>1 DEF JobType, Targets
  <2>2. job' = [job EXCEPT ![r] = new] /\ at' = [at EXCEPT ![r] = "scan"]
        /\ mutex' = r /\ UNCHANGED answer
    BY <1>1, <1>4 DEF LockCache, Goto
  <2>3. "scan" \in Places /\ Offering("scan", new)
    BY DEF Places, Offering
  <2> HIDE DEF new
  <2> QED
    BY <1>1, <1>2, <2>1, <2>2, <2>3, HandlerKeeps
<1> QED
  BY <1>3, <1>4

LEMMA ScanKeeps ==
  ASSUME ClaudeInv, NEW r \in Requests,
         (\E system \in Systems : ScanSystem(r, system)) \/ FillCache(r)
  PROVE  ClaudeInv'
<1>1. job[r] \in JobType /\ job \in [Requests -> JobType]
      /\ cache \in [games : SUBSET Games, fresh : BOOLEAN]
      /\ answer \in [Requests -> AnswerType] /\ at \in [Requests -> Places]
  BY DEF ClaudeInv, ClaudeTypeOK, Places
<1>2. at[r] = "scan" /\ mutex = r
  BY DEF ScanSystem, FillCache, ClaudeInv, ClaudeTypeOK
<1>3. ASSUME NEW system \in Systems, ScanSystem(r, system)
      PROVE  ClaudeInv'
  <2>1. PICK found \in SUBSET {g \in Games : SystemOf[g] = system} :
          job' = [job EXCEPT ![r].games = @ \cup found,
                             ![r].left = @ \ {system}]
    BY <1>3 DEF ScanSystem
  <2> DEFINE new == [job[r] EXCEPT !.games = @ \cup found,
                                   !.left = @ \ {system}]
  <2>2. new \in JobType
    BY <1>1, <2>1 DEF JobType
  <2>3. job' = [job EXCEPT ![r] = new]
    BY <1>1, <2>1 DEF JobType
  <2>4. at' = [at EXCEPT ![r] = "scan"]
        /\ UNCHANGED <<edits, cfg, cache, mutex, answer>>
    BY <1>1, <1>2, <1>3 DEF ScanSystem
  <2>5. "scan" \in Places /\ Offering("scan", new)
    BY DEF Places, Offering
  <2> HIDE DEF new
  <2> QED
    BY <1>1, <1>2, <2>2, <2>3, <2>4, <2>5, HandlerKeeps
<1>4. CASE FillCache(r)
  <2> DEFINE new == [job[r] EXCEPT !.left = {}]
  <2>1. new \in JobType
    BY <1>1 DEF JobType
  <2>2. job' = [job EXCEPT ![r] = new] /\ at' = [at EXCEPT ![r] = "filter"]
        /\ mutex' = None /\ UNCHANGED <<edits, cfg, answer>>
    BY <1>1, <1>4 DEF FillCache, Goto
  <2>3. cache' \in [games : SUBSET Games, fresh : BOOLEAN]
    <3>1. job[r].games \subseteq Games /\ TRUE \in BOOLEAN
      BY <1>1 DEF JobType
    <3> QED
      BY <1>4, <3>1 DEF FillCache
  <2>4. "filter" \in Places /\ Offering("filter", new)
    BY DEF Places, Offering
  <2> HIDE DEF new
  <2> QED
    BY <1>1, <1>2, <2>1, <2>2, <2>3, <2>4, HandlerKeeps
<1> QED
  BY <1>3, <1>4

LEMMA FilterKeeps ==
  ASSUME ClaudeInv, NEW r \in Requests, FilterGames(r)
  PROVE  ClaudeInv'
<1>1. job[r] \in JobType /\ job \in [Requests -> JobType]
      /\ cache \in [games : SUBSET Games, fresh : BOOLEAN]
      /\ answer \in [Requests -> AnswerType]
  BY DEF ClaudeInv, ClaudeTypeOK
<1>2. at[r] = "filter" /\ UNCHANGED <<edits, cfg, cache, mutex>>
  BY DEF FilterGames
<1>3. CASE Reply(r, Text("error")) \/ Reply(r, Text("aborted"))
  BY <1>2, <1>3, TextAnswers, ReplyKeeps
<1>4. ASSUME NEW some \in Filtered(job[r].games, job[r].theme),
             job' = [job EXCEPT ![r].games = some, ![r].client = NewClient],
             Goto(r, "send"), UNCHANGED answer
      PROVE  ClaudeInv'
  <2> DEFINE new == [job[r] EXCEPT !.games = some, !.client = NewClient]
  <2>1. some \in SUBSET Games /\ Cardinality(some) <= MaxGamesForClaude
    <3>1. job[r].games \in SUBSET Games
      BY <1>1 DEF JobType
    <3> QED
      BY <1>4, <3>1, FilteredFits
  <2>2. new \in JobType /\ Offering("send", new) /\ "send" \in Places
    BY <1>1, <2>1, ClientTypes DEF JobType, Offering, Places
  <2>3. job' = [job EXCEPT ![r] = new] /\ at' = [at EXCEPT ![r] = "send"]
    BY <1>1, <1>4 DEF JobType, Goto
  <2> HIDE DEF new
  <2> QED
    BY <1>1, <1>2, <1>4, <2>2, <2>3, HandlerKeeps
<1> QED
  BY <1>3, <1>4 DEF FilterGames

\* What asking makes of a client.
LEMMA AskedTypes ==
  ASSUME NEW client \in ClientType
  PROVE  LET asked == Say(Allow(client), "user") IN
         [asked EXCEPT !.messages = Trim(@)] \in ClientType
<1> DEFINE asked == Say(Allow(client), "user")
<1>1. Allow(client) \in ClientType
  BY DEF Allow, Allowed, ClientType
<1>2. asked \in ClientType
  <2>1. ASSUME NEW c \in ClientType
        PROVE  [c EXCEPT !.messages = Append(@, "user")] \in ClientType
    <3>1. Append(c.messages, "user") \in Seq({"user"})
      BY DEF ClientType
    <3> QED
      BY <3>1 DEF ClientType
  <2> QED
    BY <1>1, <2>1 DEF Say
<1> HIDE DEF asked
<1>3. ASSUME NEW messages \in Seq({"user"})
      PROVE  Trim(messages) \in Seq({"user"})
  BY <1>3, Limits DEF Trim
<1>4. [asked EXCEPT !.messages = Trim(@)] \in ClientType
  BY <1>2, <1>3 DEF ClientType
<1> QED
  BY <1>4 DEF asked

LEMMA SendKeeps ==
  ASSUME ClaudeInv, NEW r \in Requests, SendMessage(r)
  PROVE  ClaudeInv'
<1>1. job[r] \in JobType /\ job \in [Requests -> JobType]
      /\ cache \in [games : SUBSET Games, fresh : BOOLEAN]
      /\ answer \in [Requests -> AnswerType]
  BY DEF ClaudeInv, ClaudeTypeOK
<1>2. at[r] = "send" /\ UNCHANGED <<edits, cfg, cache, mutex>>
  BY DEF SendMessage
<1>3. /\ job[r].client \in ClientType
      /\ Cardinality(job[r].games) <= MaxGamesForClaude
  BY <1>2 DEF ClaudeInv, Offering
<1> DEFINE asked == Say(Allow(job[r].client), "user")
           client == [asked EXCEPT !.messages = Trim(@)]
           new == [job[r] EXCEPT !.client = client]
<1>4. \/ Reply(r, Text("error"))
      \/ job' = [job EXCEPT ![r].client = client] /\ Goto(r, "calling")
         /\ UNCHANGED answer
  BY DEF SendMessage
<1>5. client \in ClientType
  BY <1>3, AskedTypes
<1> HIDE DEF client
<1>6. CASE Reply(r, Text("error"))
  BY <1>2, <1>6, TextAnswers, ReplyKeeps
<1>7. CASE /\ job' = [job EXCEPT ![r].client = client] /\ Goto(r, "calling")
           /\ UNCHANGED answer
  <2>1. new \in JobType /\ Offering("calling", new) /\ "calling" \in Places
    BY <1>1, <1>3, <1>5 DEF JobType, Offering, Places
  <2>2. job' = [job EXCEPT ![r] = new] /\ at' = [at EXCEPT ![r] = "calling"]
    BY <1>1, <1>7 DEF Goto
  <2> HIDE DEF new
  <2> QED
    BY <1>1, <1>2, <1>7, <2>1, <2>2, HandlerKeeps
<1> QED
  BY <1>4, <1>6, <1>7

LEMMA ApiKeeps ==
  ASSUME ClaudeInv, NEW r \in Requests,
         (\E names \in Answers : ApiAnswers(r, names)) \/ ApiFails(r)
  PROVE  ClaudeInv'
<1>1. at[r] = "calling" /\ UNCHANGED <<edits, cfg, cache, mutex>>
  BY DEF ApiAnswers, ApiFails
<1>2. CASE Reply(r, Text("error")) \/ Reply(r, Text("text"))
  BY <1>1, <1>2, TextAnswers, ReplyKeeps
<1>3. ASSUME NEW names \in Answers,
             NEW list \in Recommended(names, job[r].games, job[r].count),
             Reply(r, List(list))
      PROVE  ClaudeInv'
  <2>1. job[r].games \in SUBSET Games /\ job[r].count \in Nat
    BY DEF ClaudeInv, JobType
  <2>2. list \in Seq(Games \cup Names)
    BY <1>3, <2>1, ClaudeConstants, RecommendedAreOffered
  <2>3. List(list) \in AnswerType
    BY <2>2 DEF List, AnswerType
  <2> QED
    BY <1>1, <1>3, <2>3, ReplyKeeps
<1> QED
  BY <1>2, <1>3 DEF ApiAnswers, ApiFails

LEMMA ClaudeKept == ClaudeInv /\ [ClaudeNext]_claudeVars => ClaudeInv'
<1> SUFFICES ASSUME ClaudeInv, [ClaudeNext]_claudeVars
             PROVE  ClaudeInv'
  OBVIOUS
<1>1. ASSUME UNCHANGED handlers, UNCHANGED mutex, edits' \in 0..MaxEdits,
             cfg' \in ConfigType,
             cache' \in [games : SUBSET Games, fresh : BOOLEAN]
      PROVE  ClaudeInv'
  BY <1>1 DEF handlers, ClaudeInv, ClaudeTypeOK
<1>2. ASSUME NEW r \in Requests, Arrive(r) \/ Step(r)
      PROVE  ClaudeInv'
  BY <1>2, ArriveKeeps, ReadCacheKeeps, LockCacheKeeps, ScanKeeps, FilterKeeps,
    SendKeeps, ApiKeeps DEF Step
<1>3. CASE ClearCache
  <2>1. [games |-> {}, fresh |-> FALSE] \in
          [games : SUBSET Games, fresh : BOOLEAN]
    OBVIOUS
  <2> QED
    BY <1>1, <1>3, <2>1, Limits DEF ClearCache, ClaudeInv, ClaudeTypeOK
<1>4. CASE UpdateConfig
  <2>1. PICK new \in Configs :
          cfg' = [new EXCEPT !.key = cfg.key,
                             !.max = IF @ > 0 THEN @ ELSE cfg.max]
    BY <1>4 DEF UpdateConfig
  <2>2. cfg' \in ConfigType
    BY <2>1, ClaudeConstants DEF ConfigType, ClaudeInv, ClaudeTypeOK
  <2> QED
    BY <1>1, <1>4, <2>2, Limits DEF UpdateConfig, ClaudeInv, ClaudeTypeOK
<1>5. CASE Expire
  <2>1. [cache EXCEPT !.fresh = FALSE] \in
          [games : SUBSET Games, fresh : BOOLEAN]
    BY DEF ClaudeInv, ClaudeTypeOK
  <2> QED
    BY <1>1, <1>5, <2>1 DEF Expire, ClaudeInv, ClaudeTypeOK
<1>6. CASE UNCHANGED claudeVars
  BY <1>1, <1>6 DEF claudeVars, ClaudeInv, ClaudeTypeOK
<1> QED
  BY <1>2, <1>3, <1>4, <1>5, <1>6 DEF ClaudeNext

LEMMA ClaudeInvariant == ClaudeSpec => []ClaudeInv
<1>1. ASSUME ClaudeInit
      PROVE  ClaudeInv
  <2>1. job \in [Requests -> JobType]
    BY <1>1, NoJobs DEF ClaudeInit
  <2>2. answer \in [Requests -> AnswerType]
    BY <1>1, TextAnswers DEF ClaudeInit
  <2>3. cache \in [games : SUBSET Games, fresh : BOOLEAN]
    <3>1. [games |-> {}, fresh |-> FALSE] \in
            [games : SUBSET Games, fresh : BOOLEAN]
      OBVIOUS
    <3> QED
      BY <1>1, <3>1 DEF ClaudeInit
  <2>4. at = [r \in Requests |-> "idle"] /\ mutex = None /\ edits = 0
        /\ cfg \in ConfigType
    BY <1>1, ClaudeConstants DEF ClaudeInit
  <2>5. \A r \in Requests : Offering(at[r], job[r])
    BY <2>4 DEF Offering
  <2>6. \A r \in Requests :
          job[r].games \subseteq Games /\ job[r].left \subseteq Folders
    BY <2>1 DEF JobType
  <2> QED
    BY <2>1, <2>2, <2>3, <2>4, <2>5, <2>6, ClaudeConstants, Limits
      DEF ClaudeInv, ClaudeTypeOK
<1> QED
  BY <1>1, ClaudeKept, PTL DEF ClaudeSpec

\* Requests, the cache and the settings keep their types, and the mutex of the
\* cache is held by the one request that scans the card (handlers.go:294),
\* although a panic may end any of them.
THEOREM ClaudeTypes == ClaudeSpec => []ClaudeTypeOK
BY ClaudeInvariant, PTL DEF ClaudeInv

\* What a step of r may do to an answer: nothing, or end a request with an
\* answer that keeps within what was asked for and offered.
Fitting(r, what) ==
  /\ Len(what.games) <= job[r].count
  /\ job[r].games # {} =>
       \A i \in DOMAIN what.games : what.games[i] \in job[r].games
  /\ at[r] = "calling" => Cardinality(job[r].games) <= MaxGamesForClaude

LEMMA AnswersFit ==
  ASSUME ClaudeInv, NEW r \in Requests, Arrive(r) \/ Step(r)
  PROVE  \/ UNCHANGED answer
         \/ \E what : /\ Fitting(r, what)
                      /\ answer' = [answer EXCEPT ![r] = what]
<1>1. job[r].count \in Nat /\ job[r].games \in SUBSET Games
      /\ (at[r] = "calling" => Cardinality(job[r].games) <= MaxGamesForClaude)
  BY DEF ClaudeInv, JobType, Offering
<1>2. ASSUME NEW what \in {"error", "text", "aborted"}, Reply(r, Text(what))
      PROVE  \E w : Fitting(r, w) /\ answer' = [answer EXCEPT ![r] = w]
  <2>1. Fitting(r, Text(what))
    BY <1>1 DEF Fitting, Text
  <2> QED
    BY <1>2, <2>1 DEF Reply
<1>3. ASSUME NEW names \in Answers,
             NEW list \in Recommended(names, job[r].games, job[r].count),
             Reply(r, List(list))
      PROVE  \E w : Fitting(r, w) /\ answer' = [answer EXCEPT ![r] = w]
  <2>1. Fitting(r, List(list))
    BY <1>1, <1>3, RecommendedAreOffered, ClaudeConstants DEF Fitting, List
  <2> QED
    BY <1>3, <2>1 DEF Reply
<1>4. CASE Arrive(r)
  <2>1. \/ UNCHANGED answer
        \/ Reply(r, Text("error")) \/ Reply(r, Text("text"))
    BY <1>4 DEF Arrive, HandleChat, HandleSuggestions, HandlePlaylist
  <2> QED
    BY <1>2, <2>1
<1>5. CASE ReadCache(r) \/ (\E s \in Systems : ScanSystem(r, s)) \/ FillCache(r)
  BY <1>5 DEF ReadCache, ScanSystem, FillCache
<1>6. CASE LockCache(r) \/ FilterGames(r) \/ SendMessage(r)
  <2>1. \/ UNCHANGED answer
        \/ Reply(r, Text("error")) \/ Reply(r, Text("aborted"))
    BY <1>6 DEF LockCache, FilterGames, SendMessage, Panic
  <2> QED
    BY <1>2, <2>1
<1>7. CASE (\E names \in Answers : ApiAnswers(r, names)) \/ ApiFails(r)
  BY <1>2, <1>3, <1>7 DEF ApiAnswers, ApiFails
<1> QED
  BY <1>4, <1>5, <1>6, <1>7 DEF Step

\* A playlist has no more games than were asked for, all of them are among the
\* games offered to Claude, and these never exceed the limit
\* (client.go:652, handlers.go:545).
THEOREM PlaylistsAreInstalled == ClaudeSpec => PlaylistIsInstalled
<1>1. ASSUME ClaudeInv, [ClaudeNext]_claudeVars,
             NEW r \in Requests, answer'[r] # answer[r]
      PROVE  Fitting(r, answer'[r])
  <2>1. PICK q \in Requests : Arrive(q) \/ Step(q)
    BY <1>1 DEF ClaudeNext, ClearCache, UpdateConfig, Expire, claudeVars,
      handlers
  <2>2. PICK what : /\ Fitting(q, what)
                    /\ answer' = [answer EXCEPT ![q] = what]
    BY <1>1, <2>1, AnswersFit
  <2>3. answer \in [Requests -> AnswerType]
    BY <1>1 DEF ClaudeInv
  <2>4. q = r /\ answer'[r] = what
    BY <1>1, <2>2, <2>3
  <2> QED
    BY <2>2, <2>4
<1>2. ClaudeInv /\ [ClaudeNext]_claudeVars =>
        [\A r \in Requests :
           LET list == answer'[r].games IN
           answer'[r] # answer[r] =>
             /\ Len(list) <= job[r].count
             /\ job[r].games # {} =>
                  \A i \in DOMAIN list : list[i] \in job[r].games
             /\ at[r] = "calling" =>
                  Cardinality(job[r].games) <= MaxGamesForClaude]_claudeVars
  BY <1>1 DEF Fitting
<1> QED
  BY <1>2, ClaudeInvariant, PTL DEF ClaudeSpec, PlaylistIsInstalled

-----------------------------------------------------------------------------
(* The two side by side.                                                   *)

\* So all that is proved of the requests and of the context is true of them in
\* the instance, whose steps are steps of the one or of the other.
THEOREM EachEndpointRuns == MCSpec => ClaudeSpec /\ ContextSpec
<1>1. MCInit => ClaudeInit /\ ContextInit
  BY DEF MCInit
<1>2. [MCNext]_<<claudeVars, contextVars, part>> =>
        [ClaudeNext]_claudeVars /\ [ContextNext]_contextVars
  BY DEF MCNext
<1> QED
  BY <1>1, <1>2, PTL DEF MCSpec, ClaudeSpec, ContextSpec

\* Every variable of both keeps its type.
THEOREM EndpointsTyped == MCSpec => []MCTypeOK
<1>1. ClaudeTypeOK /\ ContextTypeOK => MCTypeOK
  BY DEF MCTypeOK
<1> QED
  BY <1>1, EachEndpointRuns, ClaudeTypes, ContextTypes, PTL
=============================================================================
