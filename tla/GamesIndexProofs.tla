-------------------------- MODULE GamesIndexProofs --------------------------
(***************************************************************************)
(* Proofs about GamesIndex, for any systems, games, requests, searches and *)
(* clients, and whatever fails or is killed.                               *)
(***************************************************************************)
EXTENDS GamesIndex, FiniteSetTheorems, TLAPS

-----------------------------------------------------------------------------
(* Type correctness.                                                       *)

\* The systems a build may be at, the one after the last included.
Places == Systems \cup {Cardinality(Systems) + 1}

LEMMA PlacesOrdered ==
  /\ Places \subseteq Nat
  /\ 1 \in Places
  /\ \A s \in Systems : s + 1 \in Places
  /\ \A s \in Places \ Systems : \A g \in Games : g[1] < s
  /\ \A g \in Games : g[1] \in Nat \ {0}
<1>1. Cardinality(Systems) \in Nat
  BY IndexConstants, FS_CardinalityType
<1> QED
  BY <1>1, IndexConstants DEF Places

LEMMA Bounds == MaxRequests \in Nat /\ MaxChanges \in Nat
BY IndexConstants

\* Every variable keeps its type (cmd/remote/games, pkg/gamesdb): in particular
\* the job never walks past the system after the last one.
THEOREM IndexTypes == Spec => []TypeOK
<1> USE PlacesOrdered, Bounds
    DEF Places, onDisk, db, asking, building, locks, searching, clients, seen
<1>1. Init => TypeOK
  <2> SUFFICES ASSUME Init
               PROVE  TypeOK
    OBVIOUS
  <2>1. /\ changes \in 0 .. MaxChanges /\ asked \in 0 .. MaxRequests
        /\ system \in Places
    BY DEF Init
  <2> QED
    BY <2>1 DEF Init, TypeOK
<1>2. TypeOK /\ [Next]_vars => TypeOK'
  <2> SUFFICES ASSUME TypeOK, [Next]_vars
               PROVE  TypeOK'
    OBVIOUS
  <2> USE DEF TypeOK
  <2>1. ASSUME NEW g \in Games, Change(g)
        PROVE  TypeOK'
    BY <2>1 DEF Change
  <2>2. ASSUME NEW r \in Requests, Ask(r) \/ Lock(r) \/ StartJob(r)
        PROVE  TypeOK'
    <3>1. CASE Ask(r)
      BY <3>1 DEF Ask, Asking
    <3>2. CASE Lock(r)
      BY <3>2 DEF Lock, Asking
    <3>3. CASE StartJob(r)
      BY <3>3 DEF StartJob, Asking
    <3> QED
      BY <2>2, <3>1, <3>2, <3>3
  <2>3. CASE OpenNames \/ OpenFails \/ Walk \/ WalkFails \/ WaitFails
    BY <2>3 DEF OpenNames, OpenFails, Walk, WalkFails, WaitFails
  <2>4. CASE Wait \/ Close \/ EndJob \/ Unlock
    BY <2>4 DEF Wait, Close, EndJob, Unlock
  <2>5. ASSUME NEW s \in Systems, UpdateNames(s)
        PROVE  TypeOK'
    BY <2>5 DEF UpdateNames
  <2>6. ASSUME NEW q \in Searches,
               Search(q) \/ OpenReadOnly(q) \/ View(q) \/ CloseRead(q)
        PROVE  TypeOK'
    BY <2>6 DEF Search, OpenReadOnly, View, CloseRead, Searching
  <2>7. CASE Broadcast
    BY <2>7 DEF Broadcast
  <2>8. ASSUME NEW c \in Clients, Connect(c) \/ GetStatus(c) \/ SendStatus(c)
        PROVE  TypeOK'
    BY <2>8 DEF Connect, GetStatus, SendStatus, Status
  <2>9. CASE Kill
    BY <2>9 DEF Kill, Fresh
  <2>10. CASE UNCHANGED vars
    BY <2>10 DEF vars
  <2> QED
    BY <2>1, <2>2, <2>3, <2>4, <2>5, <2>6, <2>7, <2>8, <2>9, <2>10
    DEF Next, Job
<1> QED
  BY <1>1, <1>2, PTL DEF Spec

-----------------------------------------------------------------------------
(* The invariant that the properties rest on.                              *)

\* The mutex is held from Lock to Unlock: by the request that is about to start
\* the job, and then for the job.  Indexing is true but for the last step.
MutexInv ==
  /\ \A r \in Requests : req[r] = "start" => mu = r /\ job = "none"
  /\ job # "none" => mu # None
  /\ indexing <=> mu # None /\ job # "unlock"

\* The job has the database open while it walks, and nobody else has it then.
\* Names are put into it only while it is open.
FileInv ==
  /\ writing <=> job \in {"walk", "close"}
  /\ batch # {} => writing
  /\ reading # {} => ~writing
  /\ \A q \in Searches : search[q] \in {"view", "close"} => q \in reading

\* Nothing is taken out of the database; while it is not being written it is as
\* it was when it was last closed, and a search that has read it found that.
NamesInv ==
  /\ sealed \subseteq names
  /\ ~writing => names = sealed
  /\ indexed \subseteq sealed
  /\ NoPartSeen

\* What stays on the disk during a build is in the names of the systems it has
\* walked, or on its way there; in the end it is in the database.
BuildInv ==
  /\ stable \subseteq disk
  /\ job = "walk" => \A g \in stable : g[1] < system => g \in names \cup batch
  /\ job = "close" /\ ~failed => stable \subseteq names

\* What is being broadcast is true, and what a client that no broadcast has
\* overtaken is about to be sent is true but for what is being broadcast.
StatusInv ==
  /\ message # None => message = Status
  /\ \A c \in Clients \ passed :
       client[c] = "send" /\ message = None => payload[c] = Status
  /\ StatusShown

IndexInv == MutexInv /\ FileInv /\ NamesInv /\ BuildInv /\ StatusInv

-----------------------------------------------------------------------------
(* Each part of it is kept by every step.                                  *)

\* A request starts the job only while it holds the mutex for it, so there is
\* one job at a time.
LEMMA MutexKept ==
  ASSUME TypeOK, MutexInv, [Next]_vars
  PROVE  MutexInv'
<1> USE IndexConstants DEF MutexInv, onDisk, db, asking, building, locks,
        searching, clients, seen
<1>1. ASSUME NEW r \in Requests, Ask(r)
      PROVE  MutexInv'
  BY <1>1 DEF Ask, Asking, TypeOK
<1>2. ASSUME NEW r \in Requests, Lock(r)
      PROVE  MutexInv'
  BY <1>2 DEF Lock, Asking, TypeOK
<1>3. ASSUME NEW r \in Requests, StartJob(r)
      PROVE  MutexInv'
  BY <1>3 DEF StartJob, Asking, TypeOK
<1>4. CASE OpenNames \/ OpenFails \/ WalkFails \/ WaitFails \/ Wait \/ Close
  BY <1>4 DEF OpenNames, OpenFails, WalkFails, WaitFails, Wait, Close
<1>5. CASE EndJob \/ Unlock
  BY <1>5 DEF EndJob, Unlock
<1>6. CASE Kill
  BY <1>6 DEF Kill, Fresh
<1>7. ASSUME UNCHANGED <<req, mu, job, indexing>>
      PROVE  MutexInv'
  BY <1>7
<1>8. CASE Walk \/ (\E s \in Systems : UpdateNames(s)) \/ Broadcast
           \/ (\E g \in Games : Change(g))
  BY <1>7, <1>8 DEF Walk, UpdateNames, Broadcast, Change
<1>9. ASSUME NEW q \in Searches,
             Search(q) \/ OpenReadOnly(q) \/ View(q) \/ CloseRead(q)
      PROVE  MutexInv'
  BY <1>7, <1>9 DEF Search, OpenReadOnly, View, CloseRead, Searching
<1>10. ASSUME NEW c \in Clients, Connect(c) \/ GetStatus(c) \/ SendStatus(c)
       PROVE  MutexInv'
  BY <1>7, <1>10 DEF Connect, GetStatus, SendStatus
<1>11. CASE UNCHANGED vars
  BY <1>7, <1>11 DEF vars
<1> QED
  BY <1>1, <1>2, <1>3, <1>4, <1>5, <1>6, <1>8, <1>9, <1>10, <1>11
  DEF Next, Job

\* The lock of the file: a build waits for the searches that have it, and they
\* for it.
LEMMA FileKept ==
  ASSUME TypeOK, MutexInv, FileInv, [Next]_vars
  PROVE  FileInv'
<1> USE DEF FileInv, onDisk, db, asking, building, locks, searching, clients,
        seen
<1>1. ASSUME NEW r \in Requests, StartJob(r)
      PROVE  FileInv'
  BY <1>1 DEF StartJob, Asking, MutexInv, TypeOK
<1>2. CASE OpenNames
  BY <1>2 DEF OpenNames, Free
<1>3. CASE OpenFails \/ EndJob \/ Unlock
  BY <1>3 DEF OpenFails, EndJob, Unlock
<1>4. CASE Walk \/ WalkFails \/ WaitFails \/ Wait \/ Close
  BY <1>4 DEF Walk, WalkFails, WaitFails, Wait, Close
<1>5. ASSUME NEW s \in Systems, UpdateNames(s)
      PROVE  FileInv'
  BY <1>5 DEF UpdateNames
<1>6. ASSUME NEW q \in Searches, Search(q) \/ View(q)
      PROVE  FileInv'
  BY <1>6 DEF Search, View, Searching, TypeOK
<1>7. ASSUME NEW q \in Searches, OpenReadOnly(q) \/ CloseRead(q)
      PROVE  FileInv'
  BY <1>7 DEF OpenReadOnly, CloseRead, Searching, TypeOK
<1>8. CASE Kill
  BY <1>8 DEF Kill, Fresh
<1>9. ASSUME UNCHANGED <<job, batch, locks, search>>
      PROVE  FileInv'
  BY <1>9
<1>10. CASE Broadcast \/ (\E g \in Games : Change(g))
  BY <1>9, <1>10 DEF Broadcast, Change
<1>11. ASSUME NEW r \in Requests, Ask(r) \/ Lock(r)
       PROVE  FileInv'
  BY <1>9, <1>11 DEF Ask, Lock, Asking
<1>12. ASSUME NEW c \in Clients, Connect(c) \/ GetStatus(c) \/ SendStatus(c)
       PROVE  FileInv'
  BY <1>9, <1>12 DEF Connect, GetStatus, SendStatus
<1>13. CASE UNCHANGED vars
  BY <1>9, <1>13 DEF vars
<1> QED
  BY <1>1, <1>2, <1>3, <1>4, <1>5, <1>6, <1>7, <1>8, <1>10, <1>11, <1>12,
     <1>13
  DEF Next, Job

\* What searches find: the file is only changed while none has it open.
LEMMA NamesKept ==
  ASSUME TypeOK, FileInv, NamesInv, BuildInv, [Next]_vars
  PROVE  NamesInv'
<1> USE DEF NamesInv, NoPartSeen, Viewed, onDisk, db, asking, building, locks,
        searching, clients, seen
<1>1. ASSUME NEW s \in Systems, UpdateNames(s)
      PROVE  NamesInv'
  BY <1>1 DEF UpdateNames, FileInv
<1>2. CASE Close
  <2>1. \A q \in Searches : search[q] # "close"
    BY <1>2 DEF Close, FileInv
  <2> QED
    BY <1>2, <2>1 DEF Close, BuildInv
<1>3. CASE OpenNames
  BY <1>3 DEF OpenNames
<1>4. ASSUME NEW q \in Searches, Search(q) \/ OpenReadOnly(q)
      PROVE  NamesInv'
  BY <1>4 DEF Search, OpenReadOnly, Searching, TypeOK
<1>5. ASSUME NEW q \in Searches, View(q) \/ CloseRead(q)
      PROVE  NamesInv'
  BY <1>5 DEF View, CloseRead, Searching, FileInv, TypeOK
<1>6. CASE Kill
  BY <1>6 DEF Kill, Fresh
<1>7. ASSUME UNCHANGED <<names, writing, search, found, sealed, indexed>>
      PROVE  NamesInv'
  BY <1>7
<1>8. CASE \/ OpenFails \/ Walk \/ WalkFails \/ WaitFails \/ Wait
           \/ EndJob \/ Unlock
  BY <1>7, <1>8 DEF OpenFails, Walk, WalkFails, WaitFails, Wait, EndJob,
    Unlock
<1>9. CASE Broadcast \/ (\E g \in Games : Change(g))
  BY <1>7, <1>9 DEF Broadcast, Change
<1>10. ASSUME NEW r \in Requests, Ask(r) \/ Lock(r) \/ StartJob(r)
       PROVE  NamesInv'
  BY <1>7, <1>10 DEF Ask, Lock, StartJob, Asking
<1>11. ASSUME NEW c \in Clients, Connect(c) \/ GetStatus(c) \/ SendStatus(c)
       PROVE  NamesInv'
  BY <1>7, <1>11 DEF Connect, GetStatus, SendStatus
<1>12. CASE UNCHANGED vars
  BY <1>7, <1>12 DEF vars
<1> QED
  BY <1>1, <1>2, <1>3, <1>4, <1>5, <1>6, <1>8, <1>9, <1>10, <1>11, <1>12
  DEF Next, Job

\* What a build covers: Walk takes every game of its system that is on the disk,
\* and the calls of updateNames only move games from the batch to the names.
LEMMA BuildKept ==
  ASSUME TypeOK, MutexInv, FileInv, BuildInv, [Next]_vars
  PROVE  BuildInv'
<1> USE PlacesOrdered
    DEF BuildInv, onDisk, db, asking, building, locks, searching, clients, seen
<1>1. ASSUME NEW g \in Games, Change(g)
      PROVE  BuildInv'
  BY <1>1 DEF Change
<1>2. ASSUME NEW r \in Requests, StartJob(r)
      PROVE  BuildInv'
  BY <1>2 DEF StartJob, Asking
<1>3. CASE OpenNames
  BY <1>3 DEF OpenNames, TypeOK
<1>4. CASE Walk
  <2>1. system \in Nat /\ system' = system + 1
    BY <1>4 DEF Walk, Places
  <2>2. ASSUME NEW g \in stable, g[1] < system'
        PROVE  g \in names \cup batch'
    <3>1. g[1] < system \/ g[1] = system
      BY <2>1, <2>2 DEF TypeOK
    <3> QED
      BY <1>4, <3>1 DEF Walk
  <2> QED
    BY <1>4, <2>2 DEF Walk
<1>5. ASSUME NEW s \in Systems, UpdateNames(s)
      PROVE  BuildInv'
  BY <1>5 DEF UpdateNames
<1>6. CASE Wait
  <2>1. \A g \in stable : g[1] < system
    BY <1>6 DEF Wait, Places, TypeOK
  <2> QED
    BY <1>6, <2>1 DEF Wait
<1>7. CASE OpenFails \/ WalkFails \/ WaitFails \/ Close \/ EndJob \/ Unlock
  BY <1>7 DEF OpenFails, WalkFails, WaitFails, Close, EndJob, Unlock
<1>8. CASE Kill
  BY <1>8 DEF Kill, Fresh
<1>9. ASSUME UNCHANGED <<disk, stable, building, names>>
      PROVE  BuildInv'
  BY <1>9
<1>10. ASSUME NEW q \in Searches,
              Search(q) \/ OpenReadOnly(q) \/ View(q) \/ CloseRead(q)
       PROVE  BuildInv'
  BY <1>9, <1>10 DEF Search, OpenReadOnly, View, CloseRead, Searching
<1>11. ASSUME NEW r \in Requests, Ask(r) \/ Lock(r)
       PROVE  BuildInv'
  BY <1>9, <1>11 DEF Ask, Lock, Asking
<1>12. ASSUME NEW c \in Clients, Connect(c) \/ GetStatus(c) \/ SendStatus(c)
       PROVE  BuildInv'
  BY <1>9, <1>12 DEF Connect, GetStatus, SendStatus
<1>13. CASE Broadcast \/ UNCHANGED vars
  BY <1>9, <1>13 DEF Broadcast, vars
<1> QED
  BY <1>1, <1>2, <1>3, <1>4, <1>5, <1>6, <1>7, <1>8, <1>10, <1>11, <1>12,
     <1>13
  DEF Next, Job

\* What clients are sent: the state changes with a broadcast of the new one, and
\* that broadcast marks the clients whose own status is older.
LEMMA StatusKept ==
  ASSUME TypeOK, MutexInv, StatusInv, [Next]_vars
  PROVE  StatusInv'
<1> USE IndexConstants DEF StatusInv, StatusShown, Status, onDisk, db, asking,
        building, locks, searching, clients, seen
<1>1. ASSUME NEW r \in Requests, Lock(r)
      PROVE  StatusInv'
  BY <1>1 DEF Lock, Asking, TypeOK
<1>2. CASE EndJob
  BY <1>2 DEF EndJob
<1>3. CASE OpenNames
  BY <1>3 DEF OpenNames, MutexInv
<1>4. CASE Walk
  BY <1>4 DEF Walk, MutexInv
<1>5. CASE Broadcast
  BY <1>5 DEF Broadcast, TypeOK
<1>6. ASSUME NEW c \in Clients, Connect(c) \/ GetStatus(c)
      PROVE  StatusInv'
  BY <1>6 DEF Connect, GetStatus, TypeOK
<1>7. ASSUME NEW c \in Clients, SendStatus(c)
      PROVE  StatusInv'
  BY <1>7 DEF SendStatus, TypeOK
<1>8. CASE Kill
  BY <1>8 DEF Kill, Fresh
<1>9. ASSUME UNCHANGED <<indexing, message, clients>>
      PROVE  StatusInv'
  BY <1>9
<1>10. CASE OpenFails \/ WalkFails \/ WaitFails \/ Wait \/ Close \/ Unlock
            \/ (\E s \in Systems : UpdateNames(s))
  BY <1>9, <1>10 DEF OpenFails, WalkFails, WaitFails, Wait, Close, Unlock,
    UpdateNames
<1>11. ASSUME NEW r \in Requests, Ask(r) \/ StartJob(r)
       PROVE  StatusInv'
  BY <1>9, <1>11 DEF Ask, StartJob, Asking
<1>12. ASSUME NEW q \in Searches,
              Search(q) \/ OpenReadOnly(q) \/ View(q) \/ CloseRead(q)
       PROVE  StatusInv'
  BY <1>9, <1>12 DEF Search, OpenReadOnly, View, CloseRead, Searching
<1>13. CASE (\E g \in Games : Change(g)) \/ UNCHANGED vars
  BY <1>9, <1>13 DEF Change, vars
<1> QED
  BY <1>1, <1>2, <1>3, <1>4, <1>5, <1>6, <1>7, <1>8, <1>10, <1>11, <1>12,
     <1>13
  DEF Next, Job

-----------------------------------------------------------------------------
(* The theorems.                                                           *)

LEMMA IndexInvariant == Spec => []IndexInv
<1>1. Init => IndexInv
  BY DEF Init, IndexInv, MutexInv, FileInv, NamesInv, NoPartSeen, Viewed,
    BuildInv, StatusInv, StatusShown
<1>2. TypeOK /\ IndexInv /\ [Next]_vars => IndexInv'
  BY MutexKept, FileKept, NamesKept, BuildKept, StatusKept DEF IndexInv
<1> QED
  BY <1>1, <1>2, IndexTypes, PTL DEF Spec

\* A search finds every game that was on the disk during all of the last build
\* that went well, whatever builds have failed or were killed since
\* (gamesdb.go: "Overwrites any existing names index").
THEOREM IndexedIsFound == Spec => []FoundIfIndexed
<1>1. IndexInv => FoundIfIndexed
  BY DEF IndexInv, NamesInv, NoPartSeen, FoundIfIndexed
<1> QED
  BY <1>1, IndexInvariant, PTL

\* A search sees no part of a build that is going on: bbolt's lock keeps them
\* apart, and nothing is put into the database without it (gamesdb.go).
THEOREM SearchSeesWholeBuilds == Spec => []NoPartSeen
<1>1. IndexInv => NoPartSeen
  BY DEF IndexInv, NamesInv
<1> QED
  BY <1>1, IndexInvariant, PTL

\* A client that no broadcast has overtaken is shown, when all is quiet, whether
\* a build is going on (games.go:34).
THEOREM ClientsSeeStatus == Spec => []StatusShown
<1>1. IndexInv => StatusShown
  BY DEF IndexInv, StatusInv
<1> QED
  BY <1>1, IndexInvariant, PTL

-----------------------------------------------------------------------------
(* The refinement of SearchIndex.                                          *)

\* What the searches have been told, as SearchIndex has it.
Told == [q \in Searches |-> IF Viewed(q) THEN {found[q]} ELSE {}]

\* Every other step is none of the index that the searches see.
LEMMA StepsUnseen ==
  ASSUME UNCHANGED <<disk, writing, seen, search, found>>
  PROVE  UNCHANGED Index!vars
BY DEF Index!vars, seen, Viewed

LEMMA ChangeRefines ==
  ASSUME TypeOK, NEW g \in Games, Change(g)
  PROVE  Index!Change(g)
<1>1. disk' = (disk \cup {g}) \ (disk \cap {g})
  BY DEF Change
<1> QED
  BY <1>1 DEF Change, Index!Change, searching, locks, Viewed

\* A build begins when it has opened the file, which no search has open then.
LEMMA OpenRefines ==
  ASSUME FileInv, OpenNames
  PROVE  Index!Begin
<1>1. \A q \in Searches : ~Viewed(q)
  BY DEF FileInv, OpenNames, Free, Viewed
<1>2. UNCHANGED <<search, found>>
  BY DEF OpenNames, searching
<1> QED
  BY <1>1, <1>2 DEF OpenNames, Free, onDisk, Viewed, Index!Begin,
    Index!NoAnswers

\* It replaces the content when it closes the file.
LEMMA CloseRefines ==
  ASSUME TypeOK, FileInv, NamesInv, BuildInv, Close
  PROVE  Index!Succeed(names) \/ Index!Fail(names)
<1>1. /\ job = "close" /\ writing /\ ~writing' /\ writing' = FALSE
      /\ sealed' = names
      /\ indexed' = IF failed THEN indexed ELSE stable
      /\ UNCHANGED <<disk, stable, search, found>>
  BY DEF Close, FileInv, onDisk, searching
<1>2. Index!Replace(names)
  BY <1>1 DEF NamesInv, Index!Replace
<1>3. CASE failed
  BY <1>1, <1>2, <1>3 DEF Index!Fail, Viewed
<1>4. CASE ~failed
  BY <1>1, <1>2, <1>4 DEF BuildInv, Index!Succeed, Viewed
<1> QED
  BY <1>3, <1>4

LEMMA ViewRefines ==
  ASSUME TypeOK, FileInv, NamesInv, NEW q \in Searches, View(q)
  PROVE  Index!Answer(q)
<1>1. /\ search[q] = "view"
      /\ search' = [search EXCEPT ![q] = "close"]
      /\ found' = [found EXCEPT ![q] = names]
      /\ UNCHANGED <<disk, writing, stable, sealed, indexed>>
  BY DEF View, Searching, onDisk, seen
<1>2. ~writing /\ names = sealed
  BY <1>1 DEF FileInv, NamesInv
<1>3. Told' = [Told EXCEPT ![q] = {sealed}]
  BY <1>1, <1>2 DEF Told, Viewed, TypeOK
<1>4. Told[q] = {}
  BY <1>1 DEF Told, Viewed
<1> QED
  BY <1>1, <1>2, <1>3, <1>4 DEF Index!Answer, Told

LEMMA CloseReadRefines ==
  ASSUME TypeOK, NEW q \in Searches, CloseRead(q)
  PROVE  Index!Forget(q)
<1>1. /\ search' = [search EXCEPT ![q] = "idle"]
      /\ found' = [found EXCEPT ![q] = {}]
      /\ UNCHANGED <<disk, writing, stable, sealed, indexed>>
  BY DEF CloseRead, Searching, onDisk, seen
<1>2. Told' = [Told EXCEPT ![q] = {}]
  BY <1>1 DEF Told, Viewed, TypeOK
<1> QED
  BY <1>1, <1>2 DEF Index!Forget, Told

\* A search that only begins has been told nothing.
LEMMA SearchUnseen ==
  ASSUME TypeOK, NEW q \in Searches, Search(q) \/ OpenReadOnly(q)
  PROVE  UNCHANGED Index!vars
<1>1. /\ search[q] # "close" /\ search'[q] # "close"
      /\ search' = [search EXCEPT ![q] = search'[q]]
      /\ UNCHANGED <<disk, writing, stable, sealed, indexed, found>>
  BY DEF Search, OpenReadOnly, Searching, onDisk, seen, TypeOK
<1>2. Told' = Told
  BY <1>1 DEF Told, Viewed, TypeOK
<1> QED
  BY <1>1, <1>2 DEF Index!vars, Told

\* What a build that is killed has written stays.
LEMMA KillRefines ==
  ASSUME NamesInv, Kill
  PROVE  Index!Restart(names)
<1>1. /\ sealed' = names /\ ~writing' /\ writing' = FALSE
      /\ \A q \in Searches : search'[q] = "idle"
      /\ UNCHANGED <<disk, stable, indexed>>
  BY DEF Kill, Fresh, onDisk
<1>2. Told' = [q \in Searches |-> {}]
  BY <1>1 DEF Told, Viewed
<1>3. Index!Replace(names) \/ (~writing /\ UNCHANGED sealed)
  BY <1>1 DEF NamesInv, Index!Replace
<1> QED
  BY <1>1, <1>2, <1>3 DEF Index!Restart, Index!NoAnswers, Told

LEMMA StepRefines ==
  ASSUME TypeOK, IndexInv, [Next]_vars
  PROVE  [Index!Next]_(Index!vars)
<1> USE DEF IndexInv
<1>1. ASSUME NEW g \in Games, Change(g)
      PROVE  Index!Next
  BY <1>1, ChangeRefines DEF Index!Next
<1>2. CASE OpenNames
  BY <1>2, OpenRefines DEF Index!Next
<1>3. CASE Close
  BY <1>3, CloseRefines DEF Index!Next, TypeOK
<1>4. ASSUME NEW q \in Searches, View(q) \/ CloseRead(q)
      PROVE  Index!Next
  BY <1>4, ViewRefines, CloseReadRefines DEF Index!Next
<1>5. ASSUME NEW q \in Searches, Search(q) \/ OpenReadOnly(q)
      PROVE  UNCHANGED Index!vars
  BY <1>5, SearchUnseen
<1>6. CASE Kill
  <2>1. Index!Restart(names)
    BY <1>6, KillRefines
  <2>2. names \in SUBSET Games
    BY DEF TypeOK
  <2> QED
    BY <2>1, <2>2 DEF Index!Next, Index!Restart
<1>7. CASE \/ OpenFails \/ Walk \/ WalkFails \/ WaitFails \/ Wait
           \/ EndJob \/ Unlock
  BY <1>7, StepsUnseen DEF OpenFails, Walk, WalkFails, WaitFails, Wait, EndJob,
    Unlock,
    onDisk, locks, searching
<1>8. ASSUME NEW s \in Systems, UpdateNames(s)
      PROVE  UNCHANGED Index!vars
  BY <1>8, StepsUnseen DEF UpdateNames, onDisk, locks, searching
<1>9. ASSUME NEW r \in Requests, Ask(r) \/ Lock(r) \/ StartJob(r)
      PROVE  UNCHANGED Index!vars
  BY <1>9, StepsUnseen DEF Ask, Lock, StartJob, onDisk, locks, searching
<1>10. ASSUME NEW c \in Clients, Connect(c) \/ GetStatus(c) \/ SendStatus(c)
       PROVE  UNCHANGED Index!vars
  BY <1>10, StepsUnseen DEF Connect, GetStatus, SendStatus, onDisk, locks,
    searching
<1>11. CASE Broadcast \/ UNCHANGED vars
  BY <1>11, StepsUnseen DEF Broadcast, vars, onDisk, locks, searching
<1> QED
  BY <1>1, <1>2, <1>3, <1>4, <1>5, <1>6, <1>7, <1>8, <1>9, <1>10, <1>11
  DEF Next, Job

\* To the searches a build is one step, whatever fails or is killed, however
\* many requests ask for builds and however long its goroutines go on
\* (gamesdb.go, games.go).
THEOREM BuildsAreAtOnce == Spec => BuildsAtOnce
<1>1. Init => Index!Init
  BY DEF Init, Index!Init, Index!NoAnswers, Viewed
<1> QED
  BY <1>1, IndexTypes, IndexInvariant, StepRefines, PTL
  DEF Spec, BuildsAtOnce, Index!Spec
=============================================================================
