-------------------------- MODULE ClaudeRequests ---------------------------
(***************************************************************************)
(* The Claude endpoints of Remote (cmd/remote/claude): concurrent requests *)
(* for a chat, for suggestions and for playlists, the cache of installed   *)
(* games that playlists share, the settings that can be changed meanwhile, *)
(* and the client that each request makes.                                 *)
(*                                                                         *)
(* Lists of games are sets: the code shuffles every one of them.  Texts    *)
(* are left out, except for the names of games in an answer.               *)
(***************************************************************************)
EXTENDS Integers, FiniteSets, Sequences

CONSTANTS
  Requests, Games, Systems, Themes, None,
  Names,          \* names in Claude's answers
  SystemOf, NameOf,
  Within,         \* pairs of names: the first is a part of the second
  Folders,        \* systems with a games folder on the card
  Score,          \* Score[theme][game], calculateGameThemeScore
  ActiveThemes,   \* themes that speak of the active game
  Choices,        \* the sets of systems that playlists ask for
  Configs,        \* settings
  Counts,         \* the numbers of games they ask for
  Answers,        \* the names in Claude's answers, and none
  MaxGamesForClaude, MaxGamesPerSystem, MaxCount, DefaultCount, ChatHistory,
  MaxEdits        \* bound

ConfigType == [enabled : BOOLEAN, key : BOOLEAN, suggestions : BOOLEAN,
               max : Int]

ASSUME ClaudeConstants ==
  /\ IsFiniteSet(Games)
  /\ Configs \subseteq ConfigType
  /\ SystemOf \in [Games -> Systems] /\ NameOf \in [Games -> Names]
  /\ Within \subseteq Names \X Names
  /\ Folders \subseteq Systems
  /\ Choices \subseteq SUBSET Systems /\ Counts \subseteq Int
  /\ <<>> \in Answers /\ Answers \subseteq Seq(Names)
  /\ Score \in [Themes -> [Games -> Int]]
  /\ ActiveThemes \subseteq Themes
  /\ {MaxGamesForClaude, MaxGamesPerSystem, MaxCount, DefaultCount,
      ChatHistory, MaxEdits} \subseteq Nat
  /\ None \notin Requests

VARIABLES
  edits,
  cfg,            \* cfg.Claude, shared by all requests
  cache,          \* gameCache: its games, and whether they are still fresh
  mutex,          \* the request that holds gameCache.mutex for writing
  at,             \* at[r]: where the handler of r is
  job,            \* job[r]: what it works on
  answer          \* answer[r]: what it has sent

handlers == <<at, job, answer>>
claudeVars == <<edits, cfg, cache, mutex, handlers>>

NoJob == [kind |-> None, systems |-> {}, theme |-> None, count |-> 0,
          left |-> {}, games |-> {}, client |-> None]

Goto(r, place) == at' = [at EXCEPT ![r] = place]

Text(what) == [what |-> what, games |-> <<>>]

List(games) == [what |-> "list", games |-> games]

\* The handler of r sends its answer and ends.
Reply(r, what) ==
  /\ Goto(r, "done")
  /\ job' = [job EXCEPT ![r] = NoJob]
  /\ answer' = [answer EXCEPT ![r] = what]

-----------------------------------------------------------------------------
(* The client.  It lives for one request, far less than the hour of its     *)
(* limiter: no request leaves the window, and a count is enough.            *)

NewClient == [max |-> cfg.max, requests |-> 0, messages |-> <<>>]

Allowed(client) == client.requests < client.max

\* Allow: a request that may go on is remembered.
Allow(client) ==
  IF Allowed(client) THEN [client EXCEPT !.requests = @ + 1] ELSE client

\* trimSessionHistory
Trim(messages) ==
  IF Len(messages) > ChatHistory * 2
    THEN SubSeq(messages, Len(messages) - ChatHistory * 2 + 1, Len(messages))
    ELSE messages

Say(client, role) == [client EXCEPT !.messages = Append(@, role)]

-----------------------------------------------------------------------------
(* The requests arrive.                                                    *)

Ready == cfg.enabled /\ cfg.key

HandleChat(r) ==
  /\ at[r] = "idle"
  /\ IF Ready
       THEN /\ job' = [job EXCEPT ![r] = [NoJob EXCEPT !.kind = "chat",
                                                      !.client = NewClient]]
            /\ Goto(r, "send")
            /\ UNCHANGED answer
       ELSE Reply(r, Text("error"))
  /\ UNCHANGED <<edits, cfg, cache, mutex>>

\* Suggestions need a game in the context of the client.
HandleSuggestions(r) ==
  /\ at[r] = "idle"
  /\ \/ /\ ~Ready \/ ~cfg.suggestions
        /\ Reply(r, Text(IF cfg.enabled /\ ~cfg.suggestions THEN "text"
                                                           ELSE "error"))
     \/ /\ Ready /\ cfg.suggestions
        /\ Reply(r, Text("error"))
     \/ /\ Ready /\ cfg.suggestions
        /\ job' = [job EXCEPT ![r] = [NoJob EXCEPT !.kind = "suggestions",
                                                  !.client = NewClient]]
        /\ Goto(r, "send")
        /\ UNCHANGED answer
  /\ UNCHANGED <<edits, cfg, cache, mutex>>

Count(n) == IF n <= 0 \/ n > MaxCount THEN DefaultCount ELSE n

HandlePlaylist(r, systems, theme, n) ==
  /\ at[r] = "idle"
  /\ IF Ready
       THEN /\ job' = [job EXCEPT ![r] =
                         [NoJob EXCEPT !.kind = "playlist", !.theme = theme,
                                       !.systems = systems,
                                       !.count = Count(n)]]
            /\ Goto(r, "cache")
            /\ UNCHANGED answer
       ELSE Reply(r, Text("error"))
  /\ UNCHANGED <<edits, cfg, cache, mutex>>

-----------------------------------------------------------------------------
(* getInstalledGamesFast                                                   *)

CacheIsFresh == cache.games # {} /\ cache.fresh

\* Under the read lock.
ReadCache(r) ==
  /\ at[r] = "cache"
  /\ mutex = None
  /\ IF CacheIsFresh
       THEN Goto(r, "filter") /\ job' = [job EXCEPT ![r].games = cache.games]
       ELSE Goto(r, "lock") /\ UNCHANGED job
  /\ UNCHANGED <<edits, cfg, cache, mutex, answer>>

\* The systems that are asked for and have a folder.
Targets(systems) == (IF systems = {} THEN Systems ELSE systems) \cap Folders

\* Mutant: the panic leaves the lock.
PanicLocked(r) == Reply(r, Text("aborted")) /\ mutex' = r

\* The time per system is divided by the number of systems.  With none it is a
\* panic: net/http ends the handler, the deferred Unlock runs.
Panic(r) == Reply(r, Text("aborted")) /\ UNCHANGED mutex

LockCache(r) ==
  /\ at[r] = "lock"
  /\ mutex = None
  /\ IF Targets(job[r].systems) = {}
       THEN Panic(r)
       ELSE /\ mutex' = r
            /\ job' = [job EXCEPT ![r].left = Targets(job[r].systems)]
            /\ Goto(r, "scan")
            /\ UNCHANGED answer
  /\ UNCHANGED <<edits, cfg, cache>>

\* The games of a system are listed until there are enough or the time is up;
\* which of them are on the card then is left open.
ScanSystem(r, system) ==
  /\ at[r] = "scan"
  /\ system \in job[r].left
  /\ \E found \in SUBSET {g \in Games : SystemOf[g] = system} :
       /\ Cardinality(found) <= MaxGamesPerSystem
       /\ job' = [job EXCEPT ![r].games = @ \cup found,
                             ![r].left = @ \ {system}]
  /\ UNCHANGED <<edits, cfg, cache, mutex, at, answer>>

\* All systems are done, or the time is up: the cache is replaced.
FillCache(r) ==
  /\ at[r] = "scan"
  /\ cache' = [games |-> job[r].games, fresh |-> TRUE]
  /\ mutex' = None
  /\ job' = [job EXCEPT ![r].left = {}]
  /\ Goto(r, "filter")
  /\ UNCHANGED <<edits, cfg, answer>>

\* HandleClearCache
ClearCache ==
  /\ mutex = None
  /\ edits < MaxEdits
  /\ edits' = edits + 1
  /\ cache' = [games |-> {}, fresh |-> FALSE]
  /\ UNCHANGED <<cfg, mutex, handlers>>

-----------------------------------------------------------------------------
(* smartFilterGames, and the rest of a playlist.                           *)

\* What may be left of the games: as many as fit, the best ones first; a game
\* with a negative score is never taken.
Best(games, theme) ==
  LET counted == {g \in games : Score[theme][g] >= 0}
      size == IF Cardinality(counted) < MaxGamesForClaude
                THEN Cardinality(counted) ELSE MaxGamesForClaude
  IN  {best \in SUBSET counted :
         /\ Cardinality(best) = size
         /\ \A g \in best, h \in counted \ best :
              Score[theme][g] >= Score[theme][h]}

Filtered(games, theme) ==
  IF Cardinality(games) <= MaxGamesForClaude THEN {games}
                                             ELSE Best(games, theme)

\* A small collection is shuffled with an index computed from the clock: on a
\* 32-bit machine int() of the nanoseconds, and so the index, may be negative.
MayPanic(games) == Cardinality(games) \in 2..MaxGamesForClaude

\* HandlePlaylist goes on with the games, and makes its client: one step.  (That
\* GeneratePlaylist looks at enabled too, just before SendMessage does, is one
\* look there.)
FilterGames(r) ==
  /\ at[r] = "filter"
  /\ \/ /\ job[r].games = {}
        /\ Reply(r, Text("error"))
     \/ /\ MayPanic(job[r].games)
        /\ Reply(r, Text("aborted"))
     \/ /\ job[r].theme \in ActiveThemes
        /\ job[r].games # {}
        /\ Reply(r, Text("error"))
     \/ /\ job[r].games # {}
        /\ \E some \in Filtered(job[r].games, job[r].theme) :
             job' = [job EXCEPT ![r].games = some, ![r].client = NewClient]
        /\ Goto(r, "send")
        /\ UNCHANGED answer
  /\ UNCHANGED <<edits, cfg, cache, mutex>>

-----------------------------------------------------------------------------
(* SendMessage.                                                            *)

SendMessage(r) ==
  LET client == job[r].client IN
  /\ at[r] = "send"
  /\ IF ~cfg.enabled
       THEN Reply(r, Text("error"))
       ELSE IF ~Allowed(client)
       THEN Reply(r, Text("error"))
       ELSE LET asked == Say(Allow(client), "user") IN
            /\ job' = [job EXCEPT ![r].client =
                         [asked EXCEPT !.messages = Trim(@)]]
            /\ Goto(r, "calling")
            /\ UNCHANGED answer
  /\ UNCHANGED <<edits, cfg, cache, mutex>>

\* Mutant: a name that matches nothing is taken as it is.
MatchesOrName(name, games) ==
  LET exact == {g \in games : NameOf[g] = name}
  IN  IF exact # {} THEN exact ELSE {name}

\* The games of a name, parseGameRecommendations: with that name, or else with
\* a name that contains it or is contained in it.  Without a collection to
\* compare it with, the name is taken as it is.
Matches(name, games) ==
  LET exact == {g \in games : NameOf[g] = name}
      near == {g \in games : \/ <<name, NameOf[g]>> \in Within
                             \/ <<NameOf[g], name>> \in Within}
  IN  IF games = {} THEN {name} ELSE IF exact # {} THEN exact ELSE near

\* The playlists that an answer with these names can become: one game for each
\* name that matches, until there are enough.
Recommended(names, games, count) ==
  LET hits == {i \in DOMAIN names : Matches(names[i], games) # {}}
      Hit(n) == CHOOSE i \in hits : Cardinality({h \in hits : h <= i}) = n
      size == IF Cardinality(hits) < count THEN Cardinality(hits) ELSE count
  IN  {list \in [1..size -> UNION {Matches(names[i], games) : i \in hits}] :
         \A n \in 1..size : list[n] \in Matches(names[Hit(n)], games)}

\* Claude answers.
ApiAnswers(r, names) ==
  /\ at[r] = "calling"
  /\ IF job[r].kind = "playlist"
       THEN \E list \in Recommended(names, job[r].games, job[r].count) :
              Reply(r, List(list))
       ELSE names = <<>> /\ Reply(r, Text("text"))
  /\ UNCHANGED <<edits, cfg, cache, mutex>>

\* The request times out, or the API refuses it.
ApiFails(r) ==
  /\ at[r] = "calling"
  /\ Reply(r, Text("error"))
  /\ UNCHANGED <<edits, cfg, cache, mutex>>

-----------------------------------------------------------------------------
(* The user and the clock.                                                 *)

\* HandleUpdateConfig; a key cannot be set, and a limit only above 0.  (The
\* fields it sets one by one are set together; the timeout and the length of the
\* chat history are left out.)
UpdateConfig ==
  /\ edits < MaxEdits
  /\ edits' = edits + 1
  /\ \E new \in Configs :
       cfg' = [new EXCEPT !.key = cfg.key,
                          !.max = IF @ > 0 THEN @ ELSE cfg.max]
  /\ UNCHANGED <<cache, mutex, handlers>>

\* 30 seconds after a listing.
Expire ==
  /\ cache.fresh
  /\ cache' = [cache EXCEPT !.fresh = FALSE]
  /\ UNCHANGED <<edits, cfg, mutex, handlers>>

ClaudeInit ==
  /\ edits = 0
  /\ cfg \in Configs
  /\ cache = [games |-> {}, fresh |-> FALSE]
  /\ mutex = None
  /\ at = [r \in Requests |-> "idle"]
  /\ job = [r \in Requests |-> NoJob]
  /\ answer = [r \in Requests |-> Text(None)]

\* What the handler of a request does once it has begun.
Step(r) ==
  \/ ReadCache(r) \/ LockCache(r)
  \/ \E s \in Systems : ScanSystem(r, s)
  \/ FillCache(r) \/ FilterGames(r) \/ SendMessage(r)
  \/ \E names \in Answers : ApiAnswers(r, names)
  \/ ApiFails(r)

Arrive(r) ==
  \/ HandleChat(r) \/ HandleSuggestions(r)
  \/ \E systems \in Choices, theme \in Themes, n \in Counts :
       HandlePlaylist(r, systems, theme, n)

ClaudeNext ==
  \/ \E r \in Requests : Arrive(r) \/ Step(r)
  \/ ClearCache \/ UpdateConfig \/ Expire

\* Handlers go on; a writer that waits for the mutex gets it; a call of the API
\* ends by its timeout.
ClaudeFairness ==
  \A r \in Requests : /\ WF_claudeVars(Step(r))
                      /\ SF_claudeVars(LockCache(r) \/ ReadCache(r))

ClaudeSpec == ClaudeInit /\ [][ClaudeNext]_claudeVars /\ ClaudeFairness

-----------------------------------------------------------------------------
ClaudeTypeOK ==
  /\ edits \in 0..MaxEdits
  /\ cfg \in ConfigType
  /\ cache \in [games : SUBSET Games, fresh : BOOLEAN]
  /\ mutex \in Requests \cup {None}
  /\ at \in [Requests -> {"idle", "cache", "lock", "scan", "filter", "send",
                          "calling", "done"}]
  /\ \A r \in Requests :
       /\ job[r].games \subseteq Games /\ job[r].left \subseteq Folders
       /\ mutex = r <=> at[r] = "scan"

\* A playlist has no more games than were asked for, and each of them is one
\* that was offered to Claude, whatever it answers (if any was: when every game
\* has a negative score, none is left to offer); the collection that is offered
\* never exceeds the limit.
PlaylistIsInstalled ==
  [][\A r \in Requests :
       LET list == answer'[r].games IN
       answer'[r] # answer[r] =>
         /\ Len(list) <= job[r].count
         /\ job[r].games # {} =>
              \A i \in DOMAIN list : list[i] \in job[r].games
         /\ at[r] = "calling" =>
              Cardinality(job[r].games) <= MaxGamesForClaude]_claudeVars

\* Every request is answered or aborted, however the requests, panics, slow
\* scans and cleared caches interleave.
RequestsEnd == \A r \in Requests : at[r] # "idle" ~> at[r] = "done"
=============================================================================
