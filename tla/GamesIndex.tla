----------------------------- MODULE GamesIndex -----------------------------
(***************************************************************************)
(* The search index of Remote: requests start a job that walks the folders *)
(* of the systems and writes the names it finds to the database            *)
(* (cmd/remote/games, pkg/gamesdb), searches read it, and the WebSocket    *)
(* clients are shown whether a build is going on.                          *)
(*                                                                         *)
(* The database is a bbolt file: one process has it open for writing, or   *)
(* any number for reading; who opens it tries until it may.                *)
(***************************************************************************)
EXTENDS Integers, FiniteSets

CONSTANTS
  Systems,      \* numbered in the order they are walked
  Games,        \* pairs of a system and a name
  Requests,     \* threads of the server that ask for a build
  Searches,     \* threads that search
  Clients,      \* WebSocket clients
  Faults,       \* what may go wrong, of FaultKinds
  None,
  MaxRequests,  \* bound on the requests
  MaxChanges    \* bound on the games added and removed

FaultKinds == {"open", "walk", "write", "kill"}

ASSUME IndexConstants ==
  /\ IsFiniteSet(Systems) /\ Systems = 1 .. Cardinality(Systems)
  /\ \A g \in Games : g[1] \in Systems
  /\ Faults \subseteq FaultKinds
  /\ None \notin Requests \cup {"busy", "idle"}
  /\ MaxRequests \in Nat /\ MaxChanges \in Nat

VARIABLES
  \* the disk: the games in the folders, the names in the database
  disk, changes, exists, names,
  \* the requests, Index.mu and Index.Indexing
  req, asked, mu, indexing,
  \* the job: where it is, the system it is at, the files of updateNames calls
  \* that are not committed yet, whether it has failed
  job, system, batch, failed,
  \* the file lock: "free", "job", or the searches that have it open
  writing, reading,
  \* searches: where they are, and what they found
  search, found,
  \* clients: where they are, the status they are about to be sent, and the
  \* one they were sent last; the status that is being broadcast
  client, payload, shown, message,
  \* for the properties: games on the disk since this build began; games on
  \* the disk during all of the last build that went well; the names when the
  \* file was last unlocked; clients passed by a broadcast while they wait
  stable, indexed, sealed, passed

onDisk == <<disk, changes>>
db == <<exists, names>>
asking == <<req, asked>>
building == <<job, system, batch, failed>>
locks == <<writing, reading>>
searching == <<search, found>>
clients == <<client, payload, shown, passed>>
seen == <<stable, indexed, sealed>>
vars == <<onDisk, db, asking, mu, indexing, building, locks, searching, clients,
          message, seen>>

Status == IF indexing THEN "busy" ELSE "idle"

-----------------------------------------------------------------------------
(* The user's disk.                                                        *)

Change(g) ==
  /\ changes < MaxChanges
  /\ changes' = changes + 1
  /\ disk' = IF g \in disk THEN disk \ {g} ELSE disk \cup {g}
  /\ stable' = stable \ {g}
  /\ UNCHANGED <<db, asking, mu, indexing, building, locks, searching, clients,
                 message, indexed, sealed>>

-----------------------------------------------------------------------------
(* GenerateIndex.                                                          *)

Asking(r, from, to) ==
  /\ req[r] = from
  /\ req' = [req EXCEPT ![r] = to]

\* Indexing is looked at without the mutex.
Ask(r) ==
  /\ asked < MaxRequests
  /\ asked' = asked + 1
  /\ Asking(r, "idle", IF indexing THEN "idle" ELSE "lock")
  /\ UNCHANGED <<onDisk, db, mu, indexing, building, locks, searching, clients,
                 message, seen>>

\* Who was told that there is no build waits for one that has begun since, and
\* then makes another.
Lock(r) ==
  /\ Asking(r, "lock", "start")
  /\ mu = None
  /\ mu' = r
  /\ indexing' = TRUE
  /\ message' = "busy"
  /\ UNCHANGED <<onDisk, db, asked, building, locks, searching, clients, seen>>

\* The goroutine starts; it unlocks the mutex in the end.
StartJob(r) ==
  /\ Asking(r, "start", "idle")
  /\ message = None
  /\ job' = "open"
  /\ UNCHANGED <<onDisk, db, asked, mu, indexing, system, batch, failed, locks,
                 searching, clients, message, seen>>

\* Mutant: the last status is taken before the job is over.
EndJobLate ==
  /\ job = "end" /\ message = None
  /\ indexing' = FALSE
  /\ message' = Status
  /\ job' = "unlock"
  /\ UNCHANGED <<onDisk, db, asking, mu, system, batch, failed, locks,
                 searching, clients, seen>>

EndJob ==
  /\ job = "end" /\ message = None
  /\ indexing' = FALSE
  /\ message' = "idle"
  /\ job' = "unlock"
  /\ UNCHANGED <<onDisk, db, asking, mu, system, batch, failed, locks,
                 searching, clients, seen>>

Unlock ==
  /\ job = "unlock" /\ message = None
  /\ mu' = None
  /\ job' = "none"
  /\ UNCHANGED <<onDisk, db, asking, indexing, system, batch, failed, locks,
                 searching, clients, message, seen>>

-----------------------------------------------------------------------------
(* NewNamesIndex.                                                          *)

Free == ~writing /\ reading = {}

\* Mutant: the index is emptied before it is built.
OpenEmpty ==
  /\ job = "open" /\ Free
  /\ writing' = TRUE
  /\ exists' = TRUE
  /\ names' = {}
  /\ job' = "walk" /\ system' = 1 /\ failed' = FALSE /\ message' = "busy"
  /\ stable' = disk
  /\ UNCHANGED <<onDisk, asking, mu, indexing, batch, reading, searching,
                 clients, indexed, sealed>>

\* openNames creates the file, locks it, and creates its bucket if they are not
\* there: one step here; a search or a kill in between is left out.
OpenNames ==
  /\ job = "open" /\ Free
  /\ writing' = TRUE
  /\ exists' = TRUE
  /\ job' = "walk" /\ system' = 1 /\ failed' = FALSE /\ message' = "busy"
  /\ stable' = disk
  /\ UNCHANGED <<onDisk, names, asking, mu, indexing, batch, reading, searching,
                 clients, indexed, sealed>>

OpenFails ==
  /\ "open" \in Faults
  /\ job = "open"
  /\ job' = "end" /\ failed' = TRUE
  /\ UNCHANGED <<onDisk, db, asking, mu, indexing, system, batch, locks,
                 searching, clients, message, seen>>

\* Mutant: one system too many.
WalkTooFar ==
  /\ job = "walk" /\ message = None
  /\ system' = system + 1
  /\ batch' = batch \cup {g \in disk : g[1] = system}
  /\ message' = "busy"
  /\ UNCHANGED <<onDisk, db, asking, mu, indexing, job, failed, locks,
                 searching, clients, seen>>

\* The files of one system are listed, and its call of updateNames gets a
\* goroutine of its own; then the next status is sent.  (Those of the first two
\* steps are one broadcast here.)
Walk ==
  /\ job = "walk" /\ message = None
  /\ system \in Systems
  /\ batch' = batch \cup {g \in disk : g[1] = system}
  /\ system' = system + 1
  /\ message' = "busy"
  /\ UNCHANGED <<onDisk, db, asking, mu, indexing, job, failed, locks,
                 searching, clients, seen>>

\* An error ends the build at once: calls of updateNames may still run.
WalkFails ==
  /\ "walk" \in Faults
  /\ job = "walk" /\ message = None
  /\ system \in Systems
  /\ job' = "close" /\ failed' = TRUE
  /\ UNCHANGED <<onDisk, db, asking, mu, indexing, system, batch, locks,
                 searching, clients, message, seen>>

\* Names are put into the bucket; none is ever deleted from it.
UpdateNames(s) ==
  /\ \E g \in batch : g[1] = s
  /\ names' = names \cup {g \in batch : g[1] = s}
  /\ batch' = {g \in batch : g[1] # s}
  /\ UNCHANGED <<onDisk, exists, asking, mu, indexing, job, system, failed,
                 locks, searching, clients, message, seen>>

\* g.Wait, the list of systems, Sync.
Wait ==
  /\ job = "walk" /\ message = None
  /\ system \notin Systems
  /\ batch = {}
  /\ job' = "close"
  /\ UNCHANGED <<onDisk, db, asking, mu, indexing, system, batch, failed, locks,
                 searching, clients, message, seen>>

\* A call of updateNames has failed, and its names are lost, or the list of
\* systems could not be written, or Sync has failed.
WaitFails ==
  /\ "write" \in Faults
  /\ job = "walk" /\ message = None
  /\ system \notin Systems
  /\ batch' = {}
  /\ job' = "close" /\ failed' = TRUE
  /\ UNCHANGED <<onDisk, db, asking, mu, indexing, system, locks, searching,
                 clients, message, seen>>

\* Mutant: the database is closed at the end only, not after an error.
CloseIfDone ==
  /\ job = "close"
  /\ writing' = failed
  /\ batch' = {}
  /\ sealed' = names
  /\ indexed' = IF failed THEN indexed ELSE stable
  /\ job' = "end"
  /\ UNCHANGED <<onDisk, db, asking, mu, indexing, system, failed, reading,
                 searching, clients, message, stable>>

\* The deferred Close.  Calls of updateNames that are late get an error.
Close ==
  /\ job = "close"
  /\ writing' = FALSE
  /\ batch' = {}
  /\ sealed' = names
  /\ indexed' = IF failed THEN indexed ELSE stable
  /\ job' = "end"
  /\ UNCHANGED <<onDisk, db, asking, mu, indexing, system, failed, reading,
                 searching, clients, message, stable>>

-----------------------------------------------------------------------------
(* Searches.                                                               *)

Searching(q, from, to) ==
  /\ search[q] = from
  /\ search' = [search EXCEPT ![q] = to]
  /\ UNCHANGED <<onDisk, db, asking, mu, indexing, building, writing, clients,
                 message, seen>>

\* DbExists: without a database the answer is an error.
Search(q) ==
  /\ Searching(q, "idle", IF exists THEN "open" ELSE "idle")
  /\ UNCHANGED <<reading, found>>

\* Mutant: the file is read without its lock.
OpenUnlocked(q) ==
  /\ Searching(q, "open", "view")
  /\ reading' = reading \cup {q}
  /\ UNCHANGED found

OpenReadOnly(q) ==
  /\ Searching(q, "open", "view")
  /\ ~writing
  /\ reading' = reading \cup {q}
  /\ UNCHANGED found

View(q) ==
  /\ Searching(q, "view", "close")
  /\ found' = [found EXCEPT ![q] = names]
  /\ UNCHANGED reading

CloseRead(q) ==
  /\ Searching(q, "close", "idle")
  /\ reading' = reading \ {q}
  /\ found' = [found EXCEPT ![q] = {}]

-----------------------------------------------------------------------------
(* Clients.                                                                *)

\* Broadcast, to those who have been added to the group.
Broadcast ==
  /\ message # None
  /\ message' = None
  /\ shown' = [c \in Clients |->
                IF client[c] = "new" THEN shown[c] ELSE message]
  /\ passed' = passed \cup {c \in Clients : client[c] = "send"}
  /\ UNCHANGED <<onDisk, db, asking, mu, indexing, building, locks, searching,
                 client, payload, seen>>

\* A client is added to the group; what it is sent first is computed next.  So
\* is the answer when it asks with getIndexStatus.
Connect(c) ==
  /\ client[c] = "new"
  /\ client' = [client EXCEPT ![c] = "compute"]
  /\ UNCHANGED <<onDisk, db, asking, mu, indexing, building, locks, searching,
                 payload, shown, passed, message, seen>>

GetStatus(c) ==
  /\ client[c] \in {"compute", "connected"}
  /\ client' = [client EXCEPT ![c] = "send"]
  /\ payload' = [payload EXCEPT ![c] = Status]
  /\ passed' = passed \ {c}
  /\ UNCHANGED <<onDisk, db, asking, mu, indexing, building, locks, searching,
                 shown, message, seen>>

SendStatus(c) ==
  /\ client[c] = "send"
  /\ client' = [client EXCEPT ![c] = "connected"]
  /\ shown' = [shown EXCEPT ![c] = payload[c]]
  /\ UNCHANGED <<onDisk, db, asking, mu, indexing, building, locks, searching,
                 payload, passed, message, seen>>

-----------------------------------------------------------------------------
\* The server is killed, and started again.  What is written stays written.
Fresh ==
  /\ req' = [r \in Requests |-> "idle"]
  /\ mu' = None /\ indexing' = FALSE
  /\ job' = "none" /\ system' = 1 /\ batch' = {} /\ failed' = FALSE
  /\ writing' = FALSE /\ reading' = {}
  /\ search' = [q \in Searches |-> "idle"]
  /\ found' = [q \in Searches |-> {}]
  /\ client' = [c \in Clients |-> "new"]
  /\ payload' = [c \in Clients |-> None]
  /\ shown' = [c \in Clients |-> None]
  /\ passed' = {} /\ message' = None

Kill ==
  /\ "kill" \in Faults
  /\ Fresh
  /\ sealed' = names
  /\ UNCHANGED <<onDisk, db, asked, stable, indexed>>

Init ==
  /\ disk \in SUBSET Games /\ changes = 0 /\ exists = FALSE /\ names = {}
  /\ req = [r \in Requests |-> "idle"] /\ asked = 0
  /\ mu = None /\ indexing = FALSE
  /\ job = "none" /\ system = 1 /\ batch = {} /\ failed = FALSE
  /\ writing = FALSE /\ reading = {}
  /\ search = [q \in Searches |-> "idle"]
  /\ found = [q \in Searches |-> {}]
  /\ client = [c \in Clients |-> "new"]
  /\ payload = [c \in Clients |-> None]
  /\ shown = [c \in Clients |-> None]
  /\ passed = {} /\ message = None
  /\ stable = {} /\ indexed = {} /\ sealed = {}

Job ==
  \/ OpenNames \/ OpenFails \/ Walk \/ WalkFails \/ Wait \/ WaitFails
  \/ Close \/ EndJob \/ Unlock
  \/ \E s \in Systems : UpdateNames(s)

Next ==
  \/ \E g \in Games : Change(g)
  \/ \E r \in Requests : Ask(r) \/ Lock(r) \/ StartJob(r)
  \/ Job
  \/ \E q \in Searches : Search(q) \/ OpenReadOnly(q) \/ View(q) \/ CloseRead(q)
  \/ Broadcast
  \/ \E c \in Clients : Connect(c) \/ GetStatus(c) \/ SendStatus(c)
  \/ Kill

Spec == Init /\ [][Next]_vars

\* Goroutines run.  Who opens the database polls its lock: searches one after
\* the other may keep it from a build, but do not go on for ever.
Fairness ==
  /\ \A r \in Requests : SF_vars(Lock(r)) /\ WF_vars(StartJob(r))
  /\ SF_vars(OpenNames)
  /\ WF_vars(Walk \/ Wait \/ Close \/ EndJob \/ Unlock)
  /\ \A s \in Systems : WF_vars(UpdateNames(s))
  /\ \A q \in Searches :
       SF_vars(OpenReadOnly(q)) /\ WF_vars(View(q) \/ CloseRead(q))
  /\ WF_vars(Broadcast)

FairSpec == Spec /\ Fairness

-----------------------------------------------------------------------------
TypeOK ==
  /\ disk \subseteq Games /\ names \subseteq Games /\ batch \subseteq Games
  /\ stable \subseteq Games /\ indexed \subseteq Games
  /\ sealed \subseteq Games
  /\ changes \in 0 .. MaxChanges /\ asked \in 0 .. MaxRequests
  /\ exists \in BOOLEAN /\ indexing \in BOOLEAN
  /\ failed \in BOOLEAN /\ writing \in BOOLEAN
  /\ req \in [Requests -> {"idle", "lock", "start"}]
  /\ mu \in Requests \cup {None}
  /\ job \in {"none", "open", "walk", "close", "end", "unlock"}
  /\ system \in Systems \cup {Cardinality(Systems) + 1}
  /\ reading \subseteq Searches
  /\ search \in [Searches -> {"idle", "open", "view", "close"}]
  /\ found \in [Searches -> SUBSET Games]
  /\ client \in [Clients -> {"new", "compute", "send", "connected"}]
  /\ payload \in [Clients -> {"busy", "idle", None}]
  /\ shown \in [Clients -> {"busy", "idle", None}]
  /\ message \in {"busy", "idle", None}
  /\ passed \subseteq Clients

Viewed(q) == search[q] = "close"

\* A search finds every game that was on the disk during all of the last build
\* that went well, whatever builds have failed or were killed since: they take
\* nothing away (gamesdb.go: "Overwrites any existing names index").
FoundIfIndexed == \A q \in Searches : Viewed(q) => indexed \subseteq found[q]

\* What a search has found is the content at which the file was last unlocked.
NoPartSeen == \A q \in Searches : Viewed(q) => found[q] = sealed

\* To the searches a build is one step: the index is what it was when the file
\* was last unlocked, and they see no part of a build that is going on.  It
\* only grows, and covers what stays on the disk during a build that goes well
\* (bbolt's lock, and the updates of gamesdb.go that a failed walk leaves
\* behind).
Index == INSTANCE SearchIndex WITH
  building <- writing,
  steady <- stable,
  content <- sealed,
  answer <- [q \in Searches |-> IF Viewed(q) THEN {found[q]} ELSE {}]

BuildsAtOnce == Index!Spec

\* A client that no broadcast has overtaken is shown, when all is quiet,
\* whether a build is going on: the last status it was sent is the true one.
\* (games.go:34; a status that is computed, and overtaken by a broadcast before
\* it is sent, stays on the client's screen.)
StatusShown ==
  \A c \in Clients \ passed :
    client[c] = "connected" /\ message = None => shown[c] = Status

\* A search ends, also if a build has the database open when it starts.
SearchEnds == \A q \in Searches : search[q] = "open" ~> search[q] # "open"
=============================================================================
