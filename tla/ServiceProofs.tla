--------------------------- MODULE ServiceProofs ---------------------------
(***************************************************************************)
(* Proofs about Service, for any number of processes and whatever faults,  *)
(* and about ConnGroup, for any number of clients and of threads that      *)
(* broadcast to them; and that what is proved of each is true where        *)
(* MCRemote puts them side by side.                                        *)
(***************************************************************************)
EXTENDS MCRemote, Integers, Sequences, FiniteSetTheorems, SequenceTheorems,
        TLAPS

-----------------------------------------------------------------------------
(* Type correctness.                                                       *)

\* The steps of commands leave every variable in its type, however many
\* commands there are.
LEMMA CommandTypes ==
  ASSUME TypeOK, NEW c \in Cmds,
         RunStart(c) \/ RunStop(c) \/ RunRestart(c) \/ CommandStep(c)
           \/ Interrupt(c)
  PROVE  TypeOK'
<1> USE ServiceConstants DEF TypeOK, daemon, CmdGoto, End
<1>1. CASE RunStart(c) \/ RunStop(c) \/ RunRestart(c)
  BY <1>1 DEF RunStart, RunStop, RunRestart, Command
<1>2. CASE StartCheck(c)
  BY <1>2 DEF StartCheck
<1>3. CASE StartOpen(c)
  BY <1>3 DEF StartOpen
<1>4. CASE StartCopy(c)
  BY <1>4 DEF StartCopy
<1>5. CASE StartExec(c)
  BY <1>5 DEF StartExec, Goto
<1>6. CASE StopCheck(c)
  BY <1>6 DEF StopCheck
<1>7. CASE StopRead(c)
  BY <1>7 DEF StopRead
<1>8. CASE StopSignal(c)
  <2>1. /\ proc' \in [Pids -> {"check", "truncate", "write", "entry",
                               "failed", "notify", "set", "running",
                               "stopping", "unlink", "cleanup", "exit",
                               "dead"}]
        /\ term' \subseteq Pids
        /\ runs' \subseteq Pids
    BY <1>8 DEF StopSignal, Terminate, Die, Goto
  <2> QED
    BY <1>8, <2>1 DEF StopSignal
<1>9. CASE RestartWait(c)
  BY <1>9 DEF RestartWait
<1>10. CASE Interrupt(c)
  BY <1>10 DEF Interrupt
<1> QED
  BY <1>1, <1>2, <1>3, <1>4, <1>5, <1>6, <1>7, <1>8, <1>9, <1>10
  DEF CommandStep

\* So do those of daemons.
LEMMA DaemonTypes ==
  ASSUME TypeOK, NEW p \in Pids, DaemonStep(p) \/ Kill(p)
  PROVE  TypeOK'
<1> USE DEF TypeOK, command, Goto, Die
<1>1. CASE Check(p) \/ Truncate(p) \/ Write(p) \/ Fail(p)
  BY <1>1 DEF Check, Truncate, Write, Fail
<1>2. CASE Enter(p)
  BY <1>2 DEF Enter
<1>3. CASE Notify(p) \/ SetStop(p) \/ TakeSignal(p)
  BY <1>3 DEF Notify, SetStop, TakeSignal
<1>4. CASE Stopped(p) \/ RemovePidFile(p)
  BY <1>4 DEF Stopped, RemovePidFile
<1>5. CASE RemoveBinary(p)
  BY <1>5 DEF RemoveBinary
<1>6. CASE Exit(p) \/ Kill(p)
  BY <1>6 DEF Exit, Kill
<1> QED
  BY <1>1, <1>2, <1>3, <1>4, <1>5, <1>6 DEF DaemonStep

\* Every variable keeps its type (pkg/service): in particular the pid file is
\* missing, empty or holds the pid of a daemon, and Stop has read one of these.
THEOREM ServiceTypes == Spec => []TypeOK
<1>1. Init => TypeOK
  BY DEF Init, TypeOK
<1>2. TypeOK /\ [Next]_vars => TypeOK'
  <2> SUFFICES ASSUME TypeOK, [Next]_vars
               PROVE  TypeOK'
    OBVIOUS
  <2>1. CASE UNCHANGED vars
    BY <2>1 DEF vars, TypeOK
  <2> QED
    BY <2>1, CommandTypes, DaemonTypes DEF Next
<1> QED
  BY <1>1, <1>2, PTL DEF Spec

-----------------------------------------------------------------------------
(* One service.  What keeps two daemons apart is not the pid file, which   *)
(* both read before they write it, but the binary that is being executed.  *)

\* The daemon is executed from the file that Start would open: it has not
\* come so far as to remove that file.
Holds(p) == proc[p] \notin {"exit", "dead"}

\* At most one process executes the temporary binary, every daemon that is not
\* about to exit does, and Start writes and executes it only if nobody does.
BinaryInv ==
  /\ \A p \in Pids : Holds(p) => p \in runs
  /\ \A p, q \in runs : p = q
  /\ \A c \in Cmds : cmd[c] \in {"copy", "exec"} => runs = {}

OneCommand == \A c, d \in Cmds : c = d

\* Without this assumption StartExec fails to keep the invariant: two commands
\* may both have opened the file.
LEMMA CommandsKeepBinary ==
  ASSUME OneCommand, TypeOK, BinaryInv, NEW c \in Cmds,
         RunStart(c) \/ RunStop(c) \/ RunRestart(c) \/ CommandStep(c)
           \/ Interrupt(c)
  PROVE  BinaryInv'
<1> USE DEF TypeOK, BinaryInv, Holds, OneCommand, daemon, CmdGoto, End
<1>1. CASE RunStart(c) \/ RunStop(c) \/ RunRestart(c)
  BY <1>1 DEF RunStart, RunStop, RunRestart, Command
<1>2. CASE StartCheck(c) \/ StartOpen(c) \/ StartCopy(c)
  BY <1>2 DEF StartCheck, StartOpen, StartCopy
<1>3. CASE StartExec(c)
  BY <1>3 DEF StartExec, Goto
<1>4. CASE StopCheck(c) \/ StopRead(c) \/ RestartWait(c) \/ Interrupt(c)
  BY <1>4 DEF StopCheck, StopRead, RestartWait, Interrupt
<1>5. CASE StopSignal(c)
  <2>1. /\ cmd' = [cmd EXCEPT ![c] = cmd'[c]]
        /\ cmd'[c] \in {"wait", "idle"}
    BY <1>5 DEF StopSignal
  <2>2. \/ UNCHANGED <<proc, runs>>
        \/ Die(target[c])
    BY <1>5 DEF StopSignal, Terminate
  <2> QED
    BY <2>1, <2>2 DEF Die, Goto
<1> QED
  BY <1>1, <1>2, <1>3, <1>4, <1>5 DEF CommandStep

LEMMA DaemonsKeepBinary ==
  ASSUME TypeOK, BinaryInv, NEW p \in Pids, DaemonStep(p) \/ Kill(p)
  PROVE  BinaryInv'
<1> USE DEF TypeOK, BinaryInv, Holds, command
<1>1. ASSUME Die(p), UNCHANGED cmd
      PROVE  BinaryInv'
  BY <1>1 DEF Die, Goto
<1>2. ASSUME NEW place, place \notin {"dead", "exit"}, Holds(p),
             Goto(p, place), UNCHANGED <<runs, cmd>>
      PROVE  BinaryInv'
  BY <1>2 DEF Goto
<1>3. CASE Check(p) \/ Truncate(p) \/ Write(p) \/ Enter(p) \/ Fail(p)
  BY <1>1, <1>2, <1>3 DEF Check, Truncate, Write, Enter, Fail
<1>4. CASE Notify(p) \/ SetStop(p) \/ TakeSignal(p)
  BY <1>1, <1>2, <1>4 DEF Notify, SetStop, TakeSignal
<1>5. CASE Stopped(p) \/ RemovePidFile(p) \/ Exit(p) \/ Kill(p)
  BY <1>1, <1>2, <1>5 DEF Stopped, RemovePidFile, Exit, Kill
<1>6. CASE RemoveBinary(p)
  \* The file is removed by the only process that executed it.
  BY <1>6 DEF RemoveBinary, Goto
<1> QED
  BY <1>3, <1>4, <1>5, <1>6 DEF DaemonStep

\* The service never runs twice if commands come one after the other,
\* whatever is killed or interrupted or fails in between (service.go:167).
THEOREM ServiceRunsOnce == OneCommand => (Spec => []OneService)
<1> SUFFICES ASSUME OneCommand
             PROVE  Spec => []OneService
  OBVIOUS
<1>1. Init => BinaryInv
  BY DEF Init, BinaryInv, Holds
<1>2. TypeOK /\ BinaryInv /\ [Next]_vars => BinaryInv'
  <2> SUFFICES ASSUME TypeOK, BinaryInv, [Next]_vars
               PROVE  BinaryInv'
    OBVIOUS
  <2>1. CASE UNCHANGED vars
    BY <2>1 DEF vars, BinaryInv, Holds
  <2> QED
    BY <2>1, CommandsKeepBinary, DaemonsKeepBinary DEF Next
<1>3. BinaryInv => OneService
  BY DEF BinaryInv, OneService, Serving, Holds
<1> QED
  BY <1>1, <1>2, <1>3, ServiceTypes, PTL DEF Spec

-----------------------------------------------------------------------------
(* ConnGroup: types.                                                       *)

Indexes == 1 .. Len(conns)

\* No connection is twice in the group, and each has been added.
NoneTwice == \A i, j \in Indexes : conns[i] = conns[j] => i = j

OnlyAdded == \A i \in Indexes : at[conns[i]] # "new"

GroupInv == Group!TypeOK /\ NoneTwice /\ OnlyAdded

\* The finite sets of ConnGroup are those of the library.
LEMMA SameSets ==
  \A S : /\ Group!IsFiniteSet(S) <=> IsFiniteSet(S)
         /\ Group!Cardinality(S) = Cardinality(S)
<1> TAKE S
<1>1. Group!IsFiniteSet(S) <=> IsFiniteSet(S)
  BY Zenon DEF Group!IsFiniteSet, IsFiniteSet
<1>2. Group!Cardinality(S) = Cardinality(S)
  BY Zenon DEF Group!Cardinality, Cardinality
<1> QED
  BY <1>1, <1>2

LEMMA GroupTypeOK ==
  Group!TypeOK <=>
    /\ at \in [Clients -> {"new", "connected", "closed", "gone"}]
    /\ id \in [Clients -> 0 .. Cardinality(Clients) - 1]
    /\ conns \in Seq(Clients) /\ todo \in Seq(Clients)
    /\ mu \in Senders \cup {None}
    /\ got \subseteq Clients
BY SameSets DEF Group!TypeOK

\* A connection is added at an index that fits.
LEMMA AddedIndexFits ==
  ASSUME Group!ConnConstants, GroupInv, NEW c \in Clients, at[c] = "new"
  PROVE  Len(conns) \in 0 .. Cardinality(Clients) - 1
<1> DEFINE others == Clients \ {c}
<1>1. IsFiniteSet(Clients) /\ conns \in Seq(Clients)
  BY SameSets, GroupTypeOK DEF Group!ConnConstants, GroupInv
<1>2. /\ IsFiniteSet(others) /\ Cardinality(Clients) \in Nat
      /\ Cardinality(others) = Cardinality(Clients) - 1
  BY <1>1, FS_RemoveElement, FS_CardinalityType
<1>3. conns \in Injection(Indexes, others)
  <2>1. conns \in [Indexes -> others]
    BY <1>1 DEF GroupInv, OnlyAdded, Indexes
  <2> QED
    BY <2>1 DEF GroupInv, NoneTwice, Injection, IsInjective
<1>4. Cardinality(Indexes) <= Cardinality(others)
  BY <1>2, <1>3, FS_Injection
<1>5. Len(conns) \in Nat /\ Cardinality(Indexes) = Len(conns)
  <2>1. Len(conns) \in Nat
    BY <1>1
  <2>2. Cardinality(1 .. Len(conns)) =
          IF 1 > Len(conns) THEN 0 ELSE Len(conns) - 1 + 1
    BY <2>1, FS_Interval
  <2> QED
    BY <2>1, <2>2 DEF Indexes
<1> QED
  BY <1>2, <1>4, <1>5

LEMMA WithoutOne ==
  ASSUME NEW S, NEW s \in Seq(S), NEW k \in 1 .. Len(s)
  PROVE  /\ Group!RemoveAt(s, k) \in Seq(S)
         /\ Len(Group!RemoveAt(s, k)) = Len(s) - 1
         /\ \A i \in 1 .. Len(s) - 1 :
              Group!RemoveAt(s, k)[i] = IF i < k THEN s[i] ELSE s[i + 1]
<1> DEFINE front == SubSeq(s, 1, k - 1)
           back == SubSeq(s, k + 1, Len(s))
<1>1. Len(s) \in Nat /\ k \in Nat /\ \A i \in 1 .. Len(s) : s[i] \in S
  OBVIOUS
<1>2. /\ front \in Seq(S) /\ Len(front) = k - 1
      /\ \A i \in 1 .. k - 1 : front[i] = s[i]
  BY <1>1
<1>3. /\ back \in Seq(S) /\ Len(back) = Len(s) - k
      /\ \A i \in 1 .. Len(s) - k : back[i] = s[k + i]
  BY <1>1
<1>4. Group!RemoveAt(s, k) = front \o back
  BY DEF Group!RemoveAt
<1> HIDE DEF front, back
<1>5. /\ front \o back \in Seq(S)
      /\ Len(front \o back) = Len(front) + Len(back)
      /\ \A i \in 1 .. Len(front) + Len(back) :
           (front \o back)[i] = IF i <= Len(front) THEN front[i]
                                             ELSE back[i - Len(front)]
  BY <1>2, <1>3, ConcatProperties
<1>6. Len(front) + Len(back) = Len(s) - 1 /\ Len(front) = k - 1
  BY <1>1, <1>2, <1>3
<1>7. ASSUME NEW i \in 1 .. Len(s) - 1
      PROVE  (front \o back)[i] = IF i < k THEN s[i] ELSE s[i + 1]
  <2>1. CASE i < k
    <3>1. i <= Len(front) /\ i \in 1 .. k - 1
      BY <1>1, <1>6, <2>1
    <3> QED
      BY <1>2, <1>5, <1>6, <2>1, <3>1
  <2>2. CASE ~(i < k)
    <3>1. ~(i <= Len(front)) /\ i - (k - 1) \in 1 .. Len(s) - k
      BY <1>1, <1>6, <2>2
    <3>2. back[i - (k - 1)] = s[k + (i - (k - 1))]
      BY <1>3, <3>1
    <3>3. k + (i - (k - 1)) = i + 1
      BY <1>1
    <3> QED
      BY <1>5, <1>6, <2>2, <3>1, <3>2, <3>3
  <2> QED
    BY <2>1, <2>2
<1> QED
  BY <1>4, <1>5, <1>6, <1>7

\* What Leave does to the group: it loses the connection at the index.
LEMMA LeftGroup ==
  ASSUME GroupInv, NEW c \in Clients
  PROVE  /\ Group!WithoutIndex(id[c]) \in Seq(Clients)
         /\ \/ /\ id[c] >= Len(conns)
               /\ Group!WithoutIndex(id[c]) = conns
            \/ /\ id[c] < Len(conns)
               /\ Len(Group!WithoutIndex(id[c])) = Len(conns) - 1
               /\ \A i \in 1 .. Len(conns) - 1 :
                    Group!WithoutIndex(id[c])[i] =
                      IF i < id[c] + 1 THEN conns[i] ELSE conns[i + 1]
<1>1. conns \in Seq(Clients) /\ id[c] \in Nat /\ Len(conns) \in Nat
  BY GroupTypeOK DEF GroupInv
<1>2. CASE id[c] >= Len(conns)
  BY <1>1, <1>2 DEF Group!WithoutIndex
<1>3. CASE id[c] < Len(conns)
  <2>1. id[c] + 1 \in 1 .. Len(conns)
    BY <1>1, <1>3
  <2> QED
    BY <1>1, <1>3, <2>1, WithoutOne DEF Group!WithoutIndex
<1>4. id[c] >= Len(conns) \/ id[c] < Len(conns)
  BY <1>1
<1> QED
  BY <1>2, <1>3, <1>4

LEMMA GroupKept ==
  ASSUME Group!ConnConstants, GroupInv, [Group!Next]_(Group!vars)
  PROVE  GroupInv'
<1> USE GroupTypeOK DEF GroupInv, NoneTwice, OnlyAdded, Indexes
<1>0. /\ at' \in [Clients -> {"new", "connected", "closed", "gone"}]
      /\ id' \in [Clients -> 0 .. Cardinality(Clients) - 1]
      /\ conns' \in Seq(Clients) /\ todo' \in Seq(Clients)
      /\ mu' \in Senders \cup {None}
      /\ got' \subseteq Clients
      => Group!TypeOK'
  BY SameSets DEF Group!TypeOK
<1>1. ASSUME NEW c \in Clients, Group!Add(c)
      PROVE  GroupInv'
  <2>1. Len(conns) \in 0 .. Cardinality(Clients) - 1 /\ at[c] = "new"
    BY <1>1, AddedIndexFits DEF Group!Add
  <2>2. /\ conns' = Append(conns, c) /\ id' = [id EXCEPT ![c] = Len(conns)]
        /\ at' = [at EXCEPT ![c] = "connected"]
        /\ UNCHANGED <<mu, todo, got>>
    BY <1>1 DEF Group!Add, Group!AddIndex
  <2>3. Group!TypeOK'
    BY <1>0, <2>1, <2>2
  <2>4. /\ Len(conns') = Len(conns) + 1 /\ Len(conns) \in Nat
        /\ \A i \in 1 .. Len(conns') :
             conns'[i] = IF i <= Len(conns) THEN conns[i] ELSE c
    BY <2>2
  <2>5. \A i \in Indexes : conns[i] # c /\ conns[i] \in Clients
    BY <2>1
  <2> HIDE GroupTypeOK
  <2>6. \A i, j \in Indexes' : conns'[i] = conns'[j] => i = j
    BY <2>4, <2>5
  <2>7. ASSUME NEW i \in Indexes'
        PROVE  at'[conns'[i]] # "new"
    <3>1. DOMAIN at = Clients /\ i \in 1 .. Len(conns')
      BY GroupTypeOK
    <3>2. CASE i <= Len(conns)
      <4>1. i \in Indexes /\ conns'[i] = conns[i]
        BY <2>4, <3>1, <3>2
      <4> QED
        BY <2>2, <2>5, <3>1, <4>1
    <3>3. CASE ~(i <= Len(conns))
      BY <2>2, <2>4, <3>1, <3>3
    <3> QED
      BY <3>2, <3>3
  <2> QED
    BY <2>3, <2>6, <2>7
<1>2. ASSUME NEW c \in Clients, Group!Close(c)
      PROVE  GroupInv'
  BY <1>0, <1>2 DEF Group!Close
<1>3. ASSUME NEW c \in Clients, Group!Leave(c)
      PROVE  GroupInv'
  <2>1. /\ conns' = Group!WithoutIndex(id[c])
        /\ at' = [at EXCEPT ![c] = "gone"]
        /\ UNCHANGED <<id, mu, todo, got>>
    BY <1>3 DEF Group!Leave
  <2>2. conns' \in Seq(Clients) /\ Group!TypeOK'
    BY <1>0, <2>1, LeftGroup
  <2>3. CASE conns' = conns
    BY <2>1, <2>2, <2>3
  <2>4. CASE /\ Len(conns') = Len(conns) - 1
             /\ \A i \in 1 .. Len(conns) - 1 :
                  conns'[i] = IF i < id[c] + 1 THEN conns[i] ELSE conns[i + 1]
    <3>1. id[c] \in Nat /\ Len(conns) \in Nat
      OBVIOUS
    <3>2. ASSUME NEW i \in Indexes', NEW j \in Indexes',
                 conns'[i] = conns'[j]
          PROVE  i = j
      <4>1. i \in 1 .. Len(conns) - 1 /\ j \in 1 .. Len(conns) - 1
        BY <2>4
      <4>2. PICK k \in Indexes, l \in Indexes :
              /\ k = IF i < id[c] + 1 THEN i ELSE i + 1
              /\ l = IF j < id[c] + 1 THEN j ELSE j + 1
        BY <3>1, <4>1
      <4>3. conns[k] = conns[l]
        BY <2>4, <3>2, <4>1, <4>2
      <4>4. k = l
        BY <4>3
      <4> QED
        BY <3>1, <4>1, <4>2, <4>4
    <3>3. \A i \in Indexes' : \E j \in Indexes : conns'[i] = conns[j]
      BY <2>4, <3>1
    <3>4. \A i \in Indexes' : at'[conns'[i]] # "new"
      BY <2>1, <3>3
    <3> HIDE GroupTypeOK
    <3> QED
      BY <2>2, <3>2, <3>4
  <2> HIDE DEF GroupInv, NoneTwice, OnlyAdded
  <2> QED
    BY <2>1, <2>3, <2>4, LeftGroup
<1>4. ASSUME NEW s \in Senders, Group!Begin(s) \/ Group!Send(s) \/ Group!Done(s)
      PROVE  GroupInv'
  <2>1. /\ UNCHANGED <<at, id, conns>>
        /\ mu' \in Senders \cup {None}
        /\ \/ got' = {} /\ todo' \in {todo, conns}
           \/ /\ todo # <<>> /\ todo' = Tail(todo)
              /\ got' \in {got, got \cup {Head(todo)}}
    BY <1>4 DEF Group!Begin, Group!Send, Group!Done
  <2>2. todo # <<>> => Head(todo) \in Clients /\ Tail(todo) \in Seq(Clients)
    OBVIOUS
  <2>3. todo' \in Seq(Clients) /\ got' \subseteq Clients
    BY <2>1, <2>2
  <2> QED
    BY <1>0, <2>1, <2>3
<1>5. CASE UNCHANGED Group!vars
  BY <1>0, <1>5 DEF Group!vars
<1> QED
  BY <1>1, <1>2, <1>3, <1>4, <1>5 DEF Group!Next

LEMMA GroupAlways == Group!ConnConstants => (Group!Spec => []GroupInv)
<1> SUFFICES ASSUME Group!ConnConstants
             PROVE  Group!Spec => []GroupInv
  OBVIOUS
<1>1. Group!Init => GroupInv
  <2> SUFFICES ASSUME Group!Init
               PROVE  GroupInv
    OBVIOUS
  <2>1. id \in [Clients -> 0 .. Cardinality(Clients) - 1]
    <3>1. ASSUME NEW c \in Clients
          PROVE  0 \in 0 .. Cardinality(Clients) - 1
      <4>1. IsFiniteSet(Clients)
        BY SameSets DEF Group!ConnConstants
      <4>2. Cardinality(Clients) \in Nat /\ Cardinality(Clients) # 0
        BY <3>1, <4>1, FS_EmptySet, FS_CardinalityType
      <4> QED
        BY <4>2
    <3> QED
      BY <3>1 DEF Group!Init
  <2>2. Group!TypeOK
    BY <2>1, GroupTypeOK DEF Group!Init
  <2> QED
    BY <2>2 DEF Group!Init, GroupInv, NoneTwice, OnlyAdded, Indexes
<1> QED
  BY <1>1, GroupKept, PTL DEF Group!Spec

\* Whoever leaves in whatever order: the connections keep their types, no index
\* is past those of all clients, no connection is ever twice in the group, and
\* each one in it has been added (websocket.go:22).
THEOREM GroupTypes ==
  Group!ConnConstants =>
    (Group!Spec => [](Group!TypeOK /\ NoneTwice /\ OnlyAdded))
<1>1. GroupInv => Group!TypeOK /\ NoneTwice /\ OnlyAdded
  BY DEF GroupInv
<1> QED
  BY <1>1, GroupAlways, PTL

-----------------------------------------------------------------------------
(* ConnGroup: what a broadcast reaches.                                    *)

\* Each client that leaves is still at the index that Add has returned.
OwnIndexes ==
  \A c \in Clients :
    at[c] = "closed" => id[c] < Len(conns) /\ conns[id[c] + 1] = c

ReachInv ==
  /\ \A c \in Clients :
       at[c] \in {"connected", "closed"} => \E i \in Indexes : conns[i] = c
  /\ mu # None =>
       \A c \in Clients :
         at[c] = "connected" =>
           c \in got \/ \E i \in 1 .. Len(todo) : todo[i] = c

LEMMA ReachKept ==
  ASSUME Group!ConnConstants, GroupInv, ReachInv, OwnIndexes,
         [Group!Next]_(Group!vars)
  PROVE  ReachInv'
<1> USE DEF ReachInv, Indexes
<1>0. /\ at \in [Clients -> {"new", "connected", "closed", "gone"}]
      /\ id \in [Clients -> 0 .. Cardinality(Clients) - 1]
      /\ conns \in Seq(Clients) /\ todo \in Seq(Clients)
  BY GroupTypeOK DEF GroupInv
<1>1. ASSUME NEW c \in Clients, Group!Add(c)
      PROVE  ReachInv'
  <2>1. /\ mu = None /\ mu' = mu /\ conns' = Append(conns, c)
        /\ at' = [at EXCEPT ![c] = "connected"]
    BY <1>1 DEF Group!Add
  <2>2. \A i \in 1 .. Len(conns) : conns'[i] = conns[i]
    BY <1>0, <2>1
  <2>3. /\ Len(conns') = Len(conns) + 1 /\ conns'[Len(conns) + 1] = c
        /\ Len(conns) \in Nat
    BY <1>0, <2>1
  <2>4. ASSUME NEW d \in Clients, at'[d] \in {"connected", "closed"}
        PROVE  \E i \in Indexes' : conns'[i] = d
    BY <1>0, <2>1, <2>2, <2>3, <2>4
  <2> QED
    BY <2>1, <2>4
<1>2. ASSUME NEW c \in Clients, Group!Close(c)
      PROVE  ReachInv'
  BY <1>0, <1>2 DEF Group!Close
<1>3. ASSUME NEW c \in Clients, Group!Leave(c)
      PROVE  ReachInv'
  <2>1. /\ mu = None /\ mu' = mu /\ at[c] = "closed"
        /\ conns' = Group!WithoutIndex(id[c])
        /\ at' = [at EXCEPT ![c] = "gone"]
    BY <1>3 DEF Group!Leave
  <2>2. /\ id[c] < Len(conns) /\ conns[id[c] + 1] = c
        /\ id[c] \in Nat /\ Len(conns) \in Nat
    BY <1>0, <2>1 DEF OwnIndexes
  <2>3. /\ Len(conns') = Len(conns) - 1
        /\ \A i \in 1 .. Len(conns) - 1 :
             conns'[i] = IF i < id[c] + 1 THEN conns[i] ELSE conns[i + 1]
    <3>1. \/ /\ id[c] >= Len(conns)
             /\ Group!WithoutIndex(id[c]) = conns
          \/ /\ id[c] < Len(conns)
             /\ Len(Group!WithoutIndex(id[c])) = Len(conns) - 1
             /\ \A i \in 1 .. Len(conns) - 1 :
                  Group!WithoutIndex(id[c])[i] =
                    IF i < id[c] + 1 THEN conns[i] ELSE conns[i + 1]
      BY LeftGroup
    <3>2. ~(id[c] >= Len(conns))
      BY <2>2
    <3> QED
      BY <2>1, <3>1, <3>2
  <2>4. ASSUME NEW d \in Clients, at'[d] \in {"connected", "closed"}
        PROVE  \E i \in Indexes' : conns'[i] = d
    <3>1. PICK i \in Indexes : conns[i] = d /\ d # c
      BY <1>0, <2>1, <2>4
    <3>2. i # id[c] + 1 /\ i \in Nat
      BY <2>2, <3>1
    <3>3. CASE i < id[c] + 1
      BY <2>2, <2>3, <3>1, <3>2, <3>3
    <3>4. CASE i > id[c] + 1
      <4>1. i - 1 \in Indexes' /\ conns'[i - 1] = conns[i]
        BY <2>2, <2>3, <3>1, <3>2, <3>4
      <4> QED
        BY <3>1, <4>1
    <3> QED
      BY <2>2, <3>2, <3>3, <3>4
  <2> QED
    BY <2>1, <2>4
<1>4. ASSUME NEW s \in Senders, Group!Begin(s)
      PROVE  ReachInv'
  BY <1>4 DEF Group!Begin
<1>5. ASSUME NEW s \in Senders, Group!Send(s)
      PROVE  ReachInv'
  <2>1. /\ todo # <<>> /\ todo' = Tail(todo)
        /\ got' = IF at[Head(todo)] = "connected" THEN got \cup {Head(todo)}
                                                  ELSE got
        /\ mu # None /\ UNCHANGED <<at, conns, mu>>
    BY <1>5 DEF Group!Send, Group!ConnConstants
  <2>2. ASSUME NEW c \in Clients, at[c] = "connected"
        PROVE  c \in got' \/ \E i \in 1 .. Len(todo') : todo'[i] = c
    <3>1. CASE c \in got \/ c = Head(todo)
      BY <2>1, <2>2, <3>1
    <3>2. ASSUME NEW i \in 1 .. Len(todo), todo[i] = c, i # 1
          PROVE  \E j \in 1 .. Len(todo') : todo'[j] = c
      <4>1. i - 1 \in 1 .. Len(todo') /\ todo'[i - 1] = todo[i]
        BY <1>0, <2>1, <3>2
      <4> QED
        BY <3>2, <4>1
    <3> QED
      BY <1>0, <2>1, <2>2, <3>1, <3>2
  <2> QED
    BY <2>1, <2>2
<1>6. ASSUME NEW s \in Senders, Group!Done(s)
      PROVE  ReachInv'
  BY <1>6 DEF Group!Done
<1>7. CASE UNCHANGED Group!vars
  BY <1>7 DEF Group!vars
<1> QED
  BY <1>1, <1>2, <1>3, <1>4, <1>5, <1>6, <1>7 DEF Group!Next

\* While every client that leaves is still where Add has put it, a broadcast
\* reaches all that are connected: the removal by an index that has shifted
\* (websocket.go:45) is all that keeps an update from a client.
THEOREM BroadcastsReachAll ==
  Group!ConnConstants =>
    (Group!Spec /\ []OwnIndexes => []Group!AllConnectedGet)
<1> SUFFICES ASSUME Group!ConnConstants
             PROVE  Group!Spec /\ []OwnIndexes => []Group!AllConnectedGet
  OBVIOUS
<1>1. Group!Init => ReachInv
  BY DEF Group!Init, ReachInv
<1>2. GroupInv /\ ReachInv /\ OwnIndexes /\ [Group!Next]_(Group!vars)
        => ReachInv'
  BY ReachKept
<1>3. ReachInv => Group!AllConnectedGet
  BY DEF ReachInv, Group!AllConnectedGet
<1>4. Group!Spec => []GroupInv
  BY GroupAlways
<1> QED
  BY <1>1, <1>2, <1>3, <1>4, PTL DEF Group!Spec

-----------------------------------------------------------------------------
(* The two side by side.                                                   *)

\* So all that is proved of the service and of the group is true of them in the
\* instance, whose steps are steps of the one or of the other.
THEOREM EachPartRuns == MCSpec => FairSpec /\ Group!FairSpec
<1>1. MCInit => Init /\ Group!Init
  BY DEF MCInit
<1>2. [MCNext]_<<vars, groupVars, part>> =>
        [Next]_vars /\ [Group!Next]_(Group!vars)
  BY DEF MCNext, groupVars, Group!vars
<1> QED
  BY <1>1, <1>2, PTL
  DEF MCSpec, FairSpec, Spec, Group!FairSpec, Group!Spec

\* Every variable of both keeps its type.
THEOREM RemotePartsTyped == MCSpec => []MCTypeOK
<1>1. TypeOK /\ Group!TypeOK => MCTypeOK
  BY DEF MCTypeOK
<1> QED
  BY <1>1, EachPartRuns, ServiceTypes, GroupTypes, GroupAssumption, PTL
  DEF FairSpec, Group!FairSpec
=============================================================================
