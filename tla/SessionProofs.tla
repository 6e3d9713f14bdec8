--------------------------- MODULE SessionProofs ---------------------------
(***************************************************************************)
(* The tracker and its database implement a session log of cores, whatever *)
(* the sets of cores and games, arcade cores included, the save interval   *)
(* and the moments at which the power goes, provided that no database call *)
(* fails; and one of games, provided that the name map has no arcade core  *)
(* as well.                                                                *)
(***************************************************************************)
EXTENDS TrackerProofs

\* The open session is the active core's, from its start row to its stop row
\* (a handler is between the two writes at "startCore").
OpenInv ==
  svc \notin {"down", "fixCores"} =>
    IF activeCore # None /\ pc # "startCore"
      THEN IsOpen(coreEvents) /\ LastOf(coreEvents).target = activeCore
      ELSE ~IsOpen(coreEvents)

\* A core's count is ahead of its row only while its session is open and its
\* time has not been saved for the stop row.
CountInv ==
  /\ \A c \in Cores :
       /\ coreTimes[c] # Absent => coreTimes[c] >= Seconds(coreRows[c])
       /\ c # activeCore => coreTimes[c] \in {Absent, Seconds(coreRows[c])}
  /\ activeCore # None =>
       /\ pc = "startCore" =>
            coreTimes[activeCore] \in {Absent, Seconds(coreRows[activeCore])}
       /\ pc # "startCore" => coreTimes[activeCore] # Absent
       /\ pc = "stopCore" =>
            coreTimes[activeCore] = Seconds(coreRows[activeCore])

\* What FixPowerLoss relies on: the start row left open claims no more than
\* its core's row in core_times.
StartInv ==
  IsOpen(coreEvents) =>
    LastOf(coreEvents).total <= Seconds(coreRows[LastOf(coreEvents).target])

CoreInv == TypeInv /\ OpenInv /\ CountInv /\ StartInv

-----------------------------------------------------------------------------
LEMMA AppendLast ==
  ASSUME NEW S, NEW s \in Seq(S), NEW e \in S
  PROVE  /\ LastOf(Append(s, e)) = e
         /\ Append(s, e) # <<>>
         /\ IsOpen(Append(s, e)) <=> e.action = "start"
BY DEF LastOf, IsOpen

\* A core event is typed, and is the last row once it is added.
LEMMA RowAdded ==
  ASSUME TypeInv, ~DbMayFail, NEW a \in {"start", "stop"}, NEW c \in Cores,
         NEW n \in Nat, AddCoreEvent(a, c, n)
  PROVE  /\ coreEvents' = Append(coreEvents,
                            [action |-> a, target |-> c, total |-> n])
         /\ IsOpen(coreEvents)' <=> a = "start"
         /\ LastOf(coreEvents)'.target = c
         /\ LastOf(coreEvents)'.total = n
<1> DEFINE row == [action |-> a, target |-> c, total |-> n]
<1>1. coreEvents' = Append(coreEvents, row)
  BY DEF AddCoreEvent
<1>2. row \in Event(Cores)
  BY DEF Event
<1>3. coreEvents \in Seq(Event(Cores))
  BY DEF TypeInv, TypeOK, DbOK
<1>4. /\ LastOf(Append(coreEvents, row)) = row
      /\ IsOpen(Append(coreEvents, row)) <=> row.action = "start"
  BY <1>2, <1>3, AppendLast
<1>5. LastOf(coreEvents)' = row
      /\ (IsOpen(coreEvents)' <=> row.action = "start")
  BY <1>1, <1>4 DEF LastOf, IsOpen
<1> QED
  BY <1>1, <1>5

\* The types the steps below use.
LEMMA CoreTypes ==
  ASSUME TypeInv
  PROVE  /\ activeCore \in Cores \cup {None}
         /\ nextCore \in Cores \cup {None}
         /\ None \notin Cores
         /\ coreTimes \in [Cores -> Nat \cup {Absent}]
         /\ coreRows \in [Cores -> Nat \cup {Absent}]
         /\ coreEvents \in Seq(Event(Cores))
         /\ pc \in {"saveCore", "stopCore",
             "startCore"} => activeCore \in Cores
         /\ pc = "enterCore" => activeCore = None
         /\ svc \in {"down", "fixCores", "fixGames"} =>
              pc = "free" /\ activeCore = None
BY NamesDistinct DEF TypeInv, TypeOK, CoreOK, LockOK, DbOK, PointInv

SessionInv == OpenInv /\ CountInv /\ StartInv

\* The step of the session log that a step of the tracker maps to.
LogStep == [CoreLog!Next]_(CoreLog!vars)

LEMMA LogStutter ==
  ASSUME UNCHANGED coreEvents,
         \A c \in Cores : Seconds(coreRows'[c]) = Seconds(coreRows[c])
  PROVE  LogStep
BY DEF LogStep, CoreLog!vars

-----------------------------------------------------------------------------
(* Steps that leave the cores alone.                                       *)

LEMMA QuietStep ==
  ASSUME CoreInv,
         UNCHANGED <<activeCore, coreTimes, coreRows, coreEvents>>,
         \/ pc' = pc
         \/ pc # "startCore" /\ pc' \notin {"startCore", "stopCore"},
         svc' \in {"down", "fixCores"} \/ svc \notin {"down", "fixCores"}
  PROVE  SessionInv' /\ LogStep
<1>1. OpenInv'
  BY DEF CoreInv, OpenInv, IsOpen, LastOf
<1>2. CountInv'
  BY DEF CoreInv, CountInv, Seconds
<1>3. StartInv'
  BY DEF CoreInv, StartInv, IsOpen, LastOf, Seconds
<1> QED
  BY <1>1, <1>2, <1>3, LogStutter DEF SessionInv

LEMMA DieStep ==
  ASSUME CoreInv, Die
  PROVE  SessionInv' /\ LogStep
<1>1. /\ svc' = "down" /\ pc' = "free" /\ activeCore' = None
      /\ coreTimes' = [c \in Cores |-> Absent]
      /\ coreRows' = coreRows /\ coreEvents' = coreEvents
  BY DEF Die, coreDb
<1>2. OpenInv'
  BY <1>1 DEF OpenInv
<1>3. CountInv'
  BY <1>1 DEF CountInv, Seconds
<1>4. StartInv'
  BY <1>1 DEF CoreInv, StartInv, IsOpen, LastOf, Seconds
<1> QED
  BY <1>1, <1>2, <1>3, <1>4, LogStutter DEF SessionInv

LEMMA QuietActions ==
  ASSUME CoreInv,
         \/ Environment \/ Boot \/ FixGames \/ EnsureActiveGame \/ Receive
         \/ LoadCore \/ LoadGame \/ SaveGame \/ StopGame \/ EnterGame
         \/ LoadRecent \/ TrackMenu \/ TickGame \/ CloseWatcher \/ StopAll
         \/ UNCHANGED vars
  PROVE  SessionInv' /\ LogStep
<1> USE DEF ctl, lock, core, coreDb
<1>1. UNCHANGED <<activeCore, coreTimes, coreRows, coreEvents>>
  BY DEF SetSystem, Environment, WriteCore, WriteGame, WriteOther, Boot,
      FixGames,
     EnsureActiveGame, Receive, LoadCore, LoadGame, SaveGame, StopGame,
     EnterGame, LoadRecent, TrackMenu, TickGame, CloseWatcher, StopAll, vars
<1>2. CASE \/ Environment \/ Boot \/ FixGames \/ EnsureActiveGame \/ Receive
           \/ LoadRecent \/ TrackMenu \/ CloseWatcher \/ UNCHANGED vars
  <2>1. pc' = pc
    BY <1>2 DEF Environment, WriteCore, WriteGame, WriteOther, Boot, FixGames,
       EnsureActiveGame, Receive, LoadRecent, TrackMenu, CloseWatcher, vars
  <2>2. svc' \in {"down", "fixCores"} \/ svc \notin {"down", "fixCores"}
    BY <1>2 DEF Environment, WriteCore, WriteGame, WriteOther, Boot, FixGames,
       EnsureActiveGame, Receive, LoadRecent, TrackMenu, CloseWatcher, vars
  <2> QED
    BY <1>1, <2>1, <2>2, QuietStep
<1>3. CASE LoadCore \/ LoadGame
  <2>1. got # None /\ svc' = svc
    BY <1>3, NamesDistinct DEF LoadCore, LoadGame, Handle, Kinds
  <2>2. svc \notin {"down", "fixCores"}
    BY <2>1 DEF CoreInv, TypeInv, PointInv
  <2>3. pc = "free" /\ pc' \notin {"startCore", "stopCore"}
    BY <1>3 DEF LoadCore, LoadGame, Handle
  <2> QED
    BY <1>1, <2>1, <2>2, <2>3, QuietStep
<1>4. CASE SaveGame \/ StopGame \/ EnterGame \/ TickGame
  <2>1. /\ pc # "free" /\ pc # "startCore"
        /\ pc' \notin {"startCore", "stopCore"}
    BY <1>4 DEF SetSystem, SaveGame, StopGame, EnterGame, TickGame
  <2>2. svc \notin {"down", "fixCores"}
    BY <2>1 DEF CoreInv, TypeInv, PointInv
  <2> QED
    BY <1>1, <2>1, <2>2, QuietStep
<1>5. CASE StopAll
  <2>1. svc = "closing" /\ pc = "free"
    BY <1>5 DEF StopAll
  <2>2. pc' \in {"saveCore", "saveGame", "free"}
    BY <1>5 DEF StopAll
  <2> QED
    BY <1>1, <2>1, <2>2, QuietStep
<1> QED
  BY <1>2, <1>3, <1>4, <1>5

-----------------------------------------------------------------------------
(* Steps that write the core tables.                                       *)

\* The three steps of the session log, in the tracker's terms.
LEMMA LogStart ==
  ASSUME NEW c \in Cores, ~IsOpen(coreEvents), UNCHANGED coreRows,
         coreEvents' = Append(coreEvents,
           [action |-> "start", target |-> c, total |-> Seconds(coreRows[c])])
  PROVE  LogStep
<1>1. CoreLog!Start(c)
  BY DEF CoreLog!Start, CoreLog!AnyOpen, CoreLog!Row, IsOpen
<1> QED
  BY <1>1 DEF LogStep, CoreLog!Next

LEMMA LogStop ==
  ASSUME NEW c \in Cores, IsOpen(coreEvents), LastOf(coreEvents).target = c,
         UNCHANGED coreRows,
         coreEvents' = Append(coreEvents,
           [action |-> "stop", target |-> c, total |-> Seconds(coreRows[c])])
  PROVE  LogStep
<1>1. CoreLog!Stop(c)
  BY DEF CoreLog!Stop, CoreLog!Open, CoreLog!Row, IsOpen, LastOf
<1> QED
  BY <1>1 DEF LogStep, CoreLog!Next

LEMMA LogSave ==
  ASSUME TypeInv, NEW c \in Cores, NEW n \in Nat, n >= Seconds(coreRows[c]),
         IsOpen(coreEvents), LastOf(coreEvents).target = c,
         UNCHANGED coreEvents, coreRows' = [coreRows EXCEPT ![c] = n]
  PROVE  LogStep
<1>1. coreRows \in [Cores -> Nat \cup {Absent}]
  BY CoreTypes
<1>2. Seconds(n) = n
  BY DEF Seconds, Absent
<1>3. CASE n = Seconds(coreRows[c])
  BY <1>1, <1>2, <1>3, LogStutter
<1>4. CASE n > Seconds(coreRows[c])
  <2> DEFINE before == [d \in Cores |-> Seconds(coreRows[d])]
             after == [d \in Cores |-> Seconds(coreRows'[d])]
  <2>1. after = [before EXCEPT ![c] = after[c]]
    BY <1>1
  <2>2. after[c] = n /\ before[c] = Seconds(coreRows[c])
    BY <1>1, <1>2
  <2>3. CoreLog!Save(c)
    BY <1>4, <2>1, <2>2 DEF CoreLog!Save, CoreLog!Open, IsOpen, LastOf
  <2> QED
    BY <2>3 DEF LogStep, CoreLog!Next
<1> QED
  BY <1>1, <1>3, <1>4 DEF Seconds, Absent

LEMMA FixCoresStep ==
  ASSUME CoreInv, ~DbMayFail, FixCores
  PROVE  SessionInv' /\ LogStep
<1>1. /\ svc = "fixCores" /\ activeCore = None /\ pc = "free"
      /\ UNCHANGED <<pc, activeCore, coreTimes, coreRows>>
  BY CoreTypes DEF CoreInv, FixCores, lock, core
<1>2. CountInv'
  BY <1>1 DEF CoreInv, CountInv, Seconds
<1>3. CASE IsOpen(coreEvents)
  <2> DEFINE start == LastOf(coreEvents)
             total == RepairTotal(start, coreRows[start.target])
  <2>1. /\ start.target \in Cores
        /\ start.total \in Nat
        /\ start.total <= Seconds(coreRows[start.target])
        /\ coreRows[start.target] \in Nat \cup {Absent}
    BY <1>3, CoreTypes, LastEvent DEF CoreInv, StartInv
  <2>2. total = Seconds(coreRows[start.target]) /\ total \in Nat
    BY <2>1 DEF RepairTotal, Seconds, Absent
  <2>3. /\ AddCoreEvent("stop", start.target, total)
        /\ svc' = "fixGames"
    BY <1>3 DEF FixCores, AddCoreEvent
  <2> HIDE DEF start, total
  <2>4. /\ coreEvents' = Append(coreEvents,
             [action |-> "stop", target |-> start.target, total |-> total])
        /\ ~IsOpen(coreEvents)'
    BY <2>1, <2>2, <2>3, RowAdded DEF CoreInv
  <2>5. LogStep
    BY <1>1, <1>3, <2>1, <2>2, <2>4, LogStop DEF start
  <2>6. OpenInv' /\ StartInv'
    BY <1>1, <2>4 DEF OpenInv, StartInv
  <2> QED
    BY <1>2, <2>5, <2>6 DEF SessionInv
<1>4. CASE ~IsOpen(coreEvents)
  <2>1. UNCHANGED coreEvents
    BY <1>4 DEF FixCores
  <2>2. LogStep
    BY <1>1, <2>1, LogStutter
  <2>3. OpenInv' /\ StartInv'
    BY <1>1, <1>4, <2>1 DEF OpenInv, StartInv, IsOpen
  <2> QED
    BY <1>2, <2>2, <2>3 DEF SessionInv
<1> QED
  BY <1>3, <1>4

LEMMA SaveCoreStep ==
  ASSUME CoreInv, ~DbMayFail, SaveCore
  PROVE  SessionInv' /\ LogStep
<1> DEFINE time == coreTimes[activeCore]
<1>1. /\ pc = "saveCore" /\ pc' = "stopCore"
      /\ UNCHANGED <<svc, activeCore, coreTimes, coreEvents>>
  BY DEF SaveCore, ctl, core
<1>2. activeCore \in Cores /\ activeCore # None
  BY <1>1, CoreTypes DEF CoreInv
<1>3. /\ time \in Nat
      /\ time >= Seconds(coreRows[activeCore])
      /\ coreRows[activeCore] \in Nat \cup {Absent}
      /\ Seconds(coreRows[activeCore]) \in Nat
  BY <1>1, <1>2, CoreTypes DEF CoreInv, CountInv, Absent, Seconds
<1>4. svc \notin {"down", "fixCores"}
  BY <1>1, CoreTypes DEF CoreInv
<1>5. IsOpen(coreEvents) /\ LastOf(coreEvents).target = activeCore
  BY <1>1, <1>2, <1>4 DEF CoreInv, OpenInv
<1>6. \/ time > 0 /\ coreRows' = [coreRows EXCEPT ![activeCore] = time]
      \/ time = 0 /\ coreRows' = coreRows
  BY <1>3 DEF SaveCore, UpdateCore
<1>7. /\ Seconds(coreRows'[activeCore]) = time
      /\ \A c \in Cores \ {activeCore} : coreRows'[c] = coreRows[c]
  BY <1>2, <1>3, <1>6, CoreTypes DEF CoreInv, Seconds, Absent
<1>8. LogStep
  <2>1. CASE time > 0
    BY <1>1, <1>2, <1>3, <1>5, <1>6, <2>1, LogSave DEF CoreInv
  <2>2. CASE time = 0
    BY <1>1, <1>3, <1>6, <2>2, LogStutter
  <2> QED
    BY <1>3, <2>1, <2>2
<1>12. IsOpen(coreEvents)' /\ LastOf(coreEvents)' = LastOf(coreEvents)
  BY <1>1, <1>5 DEF IsOpen, LastOf
<1>9. OpenInv'
  BY <1>1, <1>2, <1>5, <1>12 DEF OpenInv
<1>10. CountInv'
  BY <1>1, <1>2, <1>3, <1>7 DEF CoreInv, CountInv, Seconds, Absent
<1>11. StartInv'
  <2>1. LastOf(coreEvents).total <= Seconds(coreRows[activeCore])
    BY <1>5 DEF CoreInv, StartInv
  <2>2. LastOf(coreEvents).total \in Nat
    BY <1>5, CoreTypes, LastEvent DEF CoreInv
  <2>3. LastOf(coreEvents).total <= Seconds(coreRows'[activeCore])
    BY <1>3, <1>7, <2>1, <2>2
  <2> QED
    BY <1>5, <1>12, <2>3 DEF StartInv
<1> QED
  BY <1>8, <1>9, <1>10, <1>11 DEF SessionInv

LEMMA StopCoreStep ==
  ASSUME CoreInv, ~DbMayFail, StopCore
  PROVE  SessionInv' /\ LogStep
<1> DEFINE time == coreTimes[activeCore]
<1>1. /\ pc = "stopCore" /\ pc' \in {"saveGame", "free", "enterCore"}
      /\ activeCore' = None
      /\ UNCHANGED <<coreTimes, coreRows>>
      /\ AddCoreEvent("stop", activeCore, Seconds(time))
  BY DEF StopCore
<1>2. activeCore \in Cores /\ activeCore # None
  BY <1>1, CoreTypes DEF CoreInv
<1>3. /\ time \in Nat
      /\ time = Seconds(coreRows[activeCore])
      /\ Seconds(time) = time
  BY <1>1, <1>2, CoreTypes DEF CoreInv, CountInv, Absent, Seconds
<1>4. svc \notin {"down", "fixCores"}
  BY <1>1, CoreTypes DEF CoreInv
<1>5. IsOpen(coreEvents) /\ LastOf(coreEvents).target = activeCore
  BY <1>1, <1>2, <1>4 DEF CoreInv, OpenInv
<1>6. /\ coreEvents' = Append(coreEvents,
           [action |-> "stop", target |-> activeCore, total |-> Seconds(time)])
      /\ ~IsOpen(coreEvents)'
  BY <1>1, <1>2, <1>3, RowAdded DEF CoreInv
<1>7. LogStep
  BY <1>1, <1>2, <1>3, <1>5, <1>6, LogStop
<1>8. OpenInv' /\ StartInv'
  BY <1>1, <1>6 DEF OpenInv, StartInv
<1>9. CountInv'
  BY <1>1, <1>2, <1>3, CoreTypes DEF CoreInv, CountInv, Absent
<1> QED
  BY <1>7, <1>8, <1>9 DEF SessionInv

LEMMA EnterCoreStep ==
  ASSUME CoreInv, EnterCore
  PROVE  SessionInv' /\ LogStep
<1>1. /\ pc = "enterCore" /\ activeCore = None
      /\ activeCore' = nextCore
      /\ pc' = IF nextCore = None THEN "free" ELSE "startCore"
      /\ UNCHANGED <<svc, coreTimes, coreRows, coreEvents>>
  BY CoreTypes DEF SetSystem, CoreInv, EnterCore, ctl, coreDb
<1>2. svc \notin {"down", "fixCores"}
  BY <1>1, CoreTypes DEF CoreInv
<1>3. ~IsOpen(coreEvents)
  BY <1>1, <1>2 DEF CoreInv, OpenInv
<1>4. ~IsOpen(coreEvents)'
  BY <1>1, <1>3 DEF IsOpen
<1>5. LogStep
  BY <1>1, LogStutter
<1>6. OpenInv' /\ StartInv'
  BY <1>1, <1>4 DEF OpenInv, StartInv
<1>7. \A c \in Cores : coreTimes[c] \in {Absent, Seconds(coreRows[c])}
  BY <1>1, CoreTypes DEF CoreInv, CountInv
<1>8. CountInv'
  <2>1. activeCore' # None => pc' = "startCore" /\ activeCore' \in Cores
    BY <1>1, CoreTypes DEF CoreInv
  <2>2. \A c \in Cores : Seconds(coreRows[c]) \in Nat
    BY CoreTypes DEF CoreInv, Seconds, Absent
  <2> QED
    BY <1>1, <1>7, <2>1, <2>2 DEF CountInv
<1> QED
  BY <1>5, <1>6, <1>8 DEF SessionInv

LEMMA StartCoreStep ==
  ASSUME CoreInv, ~DbMayFail, StartCore
  PROVE  SessionInv' /\ LogStep
<1> DEFINE time == coreTimes'[activeCore]
<1>1. /\ pc = "startCore" /\ pc' = "free"
      /\ UNCHANGED <<svc, activeCore, coreRows>>
      /\ LoadCoreTime
      /\ AddCoreEvent("start", activeCore, Seconds(time))
  BY DEF StartCore, ctl
<1>2. activeCore \in Cores /\ activeCore # None
  BY <1>1, CoreTypes DEF CoreInv
<1>3. svc \notin {"down", "fixCores"}
  BY <1>1, CoreTypes DEF CoreInv
<1>4. ~IsOpen(coreEvents)
  BY <1>1, <1>3 DEF CoreInv, OpenInv
<1>5. /\ Seconds(coreRows[activeCore]) \in Nat
      /\ coreTimes[activeCore] \in {Absent, Seconds(coreRows[activeCore])}
  BY <1>1, <1>2, CoreTypes DEF CoreInv, CountInv, Seconds, Absent
<1>6. /\ time = Seconds(coreRows[activeCore]) /\ time \in Nat
      /\ time # Absent /\ Seconds(time) = time
      /\ \A c \in Cores \ {activeCore} : coreTimes'[c] = coreTimes[c]
  BY <1>1, <1>2, <1>5, CoreTypes DEF CoreInv, LoadCoreTime, Seconds, Absent
<1>7. /\ coreEvents' = Append(coreEvents,
           [action |-> "start", target |-> activeCore,
               total |-> Seconds(time)])
      /\ IsOpen(coreEvents)'
      /\ LastOf(coreEvents)'.target = activeCore
      /\ LastOf(coreEvents)'.total = Seconds(time)
  BY <1>1, <1>2, <1>6, RowAdded DEF CoreInv
<1>8. LogStep
  BY <1>1, <1>2, <1>4, <1>6, <1>7, LogStart
<1>9. OpenInv'
  BY <1>1, <1>2, <1>7 DEF OpenInv
<1>10. StartInv'
  BY <1>1, <1>6, <1>7 DEF StartInv
<1>11. CountInv'
  BY <1>1, <1>2, <1>6 DEF CoreInv, CountInv
<1> QED
  BY <1>8, <1>9, <1>10, <1>11 DEF SessionInv

LEMMA TickCoreStep ==
  ASSUME CoreInv, ~DbMayFail, TickCore
  PROVE  SessionInv' /\ LogStep
<1> DEFINE time == coreTimes[activeCore] + 1
<1>1. /\ pc = "free" /\ pc' = "tickGame"
      /\ svc \notin {"down", "fixCores"}
      /\ UNCHANGED <<svc, activeCore, coreEvents>>
  BY DEF TickCore, Ticking, ctl
<1>2. CASE ~CountsCore
  <2>1. UNCHANGED <<coreTimes, coreRows>>
    BY <1>2 DEF TickCore
  <2> QED
    BY <1>1, <2>1, QuietStep
<1>3. CASE CountsCore
  <2>1. activeCore \in Cores /\ activeCore # None
    BY <1>3, CoreTypes DEF CoreInv, CountsCore
  <2>2. /\ coreTimes[activeCore] \in Nat
        /\ time \in Nat
        /\ time > Seconds(coreRows[activeCore])
        /\ Seconds(coreRows[activeCore]) \in Nat
    BY <1>3, <2>1, CoreTypes DEF CoreInv, CountInv, CountsCore, Absent, Seconds
  <2>3. IsOpen(coreEvents) /\ LastOf(coreEvents).target = activeCore
    BY <1>1, <2>1 DEF CoreInv, OpenInv
  <2>4. /\ coreTimes' = [coreTimes EXCEPT ![activeCore] = time]
        /\ \/ coreRows' = [coreRows EXCEPT ![activeCore] = time]
           \/ coreRows' = coreRows
    BY <1>3 DEF TickCore, UpdateCore
  <2>5. /\ coreTimes'[activeCore] = time
        /\ \A c \in Cores \ {activeCore} : coreTimes'[c] = coreTimes[c]
        /\ Seconds(coreRows'[activeCore]) \in
             {time, Seconds(coreRows[activeCore])}
        /\ \A c \in Cores \ {activeCore} : coreRows'[c] = coreRows[c]
    BY <2>1, <2>2, <2>4, CoreTypes DEF CoreInv, Seconds, Absent
  <2>6. LogStep
    BY <1>1, <2>1, <2>2, <2>3, <2>4, LogSave, LogStutter DEF CoreInv
  <2>7. IsOpen(coreEvents)' /\ LastOf(coreEvents)' = LastOf(coreEvents)
    BY <1>1, <2>3 DEF IsOpen, LastOf
  <2>8. OpenInv'
    BY <1>1, <2>1, <2>3, <2>7 DEF OpenInv
  <2>9. StartInv'
    <3>1. LastOf(coreEvents).total <= Seconds(coreRows[activeCore])
      BY <2>3 DEF CoreInv, StartInv
    <3>2. LastOf(coreEvents).total \in Nat
      BY <2>3, CoreTypes, LastEvent DEF CoreInv
    <3>3. LastOf(coreEvents).total <= Seconds(coreRows'[activeCore])
      BY <2>2, <2>5, <3>1, <3>2
    <3> QED
      BY <2>3, <2>7, <3>3 DEF StartInv
  <2>10. CountInv'
    <3>1. time # Absent /\ time >= Seconds(coreRows'[activeCore])
      BY <2>2, <2>5 DEF Absent
    <3>2. \A c \in Cores \ {activeCore} :
            Seconds(coreRows'[c]) = Seconds(coreRows[c])
      BY <2>5
    <3> QED
      BY <1>1, <2>1, <2>5, <3>1, <3>2 DEF CoreInv, CountInv
  <2> QED
    BY <2>6, <2>8, <2>9, <2>10 DEF SessionInv
<1> QED
  BY <1>2, <1>3

LEMMA CoreStep == CoreInv /\ ~DbMayFail /\ [Next]_vars => CoreInv' /\ LogStep
<1> SUFFICES ASSUME CoreInv, ~DbMayFail, [Next]_vars
             PROVE  CoreInv' /\ LogStep
  OBVIOUS
<1>1. TypeInv'
  BY FilesOKKept, ServiceOKKept, LockOKKept, CoreOKKept, GameOKKept,
     HookOKKept, DbOKKept, PointInvKept DEF CoreInv, TypeInv, TypeOK
<1>2. SessionInv' /\ LogStep
  <2>1. CASE \/ Environment \/ Boot \/ FixGames \/ EnsureActiveGame \/ Receive
             \/ LoadCore \/ LoadGame \/ SaveGame \/ StopGame \/ EnterGame
             \/ LoadRecent \/ TrackMenu \/ TickGame \/ CloseWatcher \/ StopAll
             \/ UNCHANGED vars
    BY <2>1, QuietActions
  <2>2. CASE Exit \/ Kill \/ PowerLoss
    BY <2>2, DieStep DEF Exit, Kill, PowerLoss
  <2>3. CASE StartFileWatch
    <3>1. CASE coreFile = Missing
      BY <2>3, <3>1, DieStep DEF StartFileWatch
    <3>2. CASE coreFile # Missing
      BY <2>3, <3>2, QuietStep DEF StartFileWatch, lock, core, coreDb
    <3> QED
      BY <3>1, <3>2
  <2>4. CASE FixCores
    BY <2>4, FixCoresStep
  <2>5. CASE SaveCore
    BY <2>5, SaveCoreStep
  <2>6. CASE StopCore
    BY <2>6, StopCoreStep
  <2>7. CASE EnterCore
    BY <2>7, EnterCoreStep
  <2>8. CASE StartCore
    BY <2>8, StartCoreStep
  <2>9. CASE TickCore
    BY <2>9, TickCoreStep
  <2> QED
    BY <2>1, <2>2, <2>3, <2>4, <2>5, <2>6, <2>7, <2>8, <2>9
       DEF Next, Starting, Handling
<1> QED
  BY <1>1, <1>2 DEF CoreInv, SessionInv

LEMMA CoreInit == Init => CoreInv /\ CoreLog!Init
<1> SUFFICES ASSUME Init
             PROVE  CoreInv /\ CoreLog!Init
  OBVIOUS
<1>1. TypeInv
  BY ConstantsTyped DEF Init, TypeInv, TypeOK, FilesOK, ServiceOK, LockOK,
     CoreOK, GameOK, HookOK, DbOK, PointInv, NoHook
<1>2. OpenInv /\ CountInv /\ StartInv
  BY DEF Init, OpenInv, CountInv, StartInv, IsOpen, Seconds
<1>3. CoreLog!Init
  BY DEF Init, CoreLog!Init, Seconds
<1> QED
  BY <1>1, <1>2, <1>3 DEF CoreInv

-----------------------------------------------------------------------------
\* The events and times that the tracker keeps for cores are a session log,
\* through every crash between two writes, for every instance of the model in
\* which database calls do not fail.
THEOREM CoreSessionsHold == ~DbMayFail /\ Spec => CoreSessions
<1>1. CASE DbMayFail
  BY <1>1
<1>2. CASE ~DbMayFail
  <2>1. CoreInv /\ [Next]_vars => CoreInv' /\ LogStep
    BY <1>2, CoreStep
  <2>2. Spec => CoreLog!Spec
    BY <2>1, CoreInit, PTL DEF Spec, CoreLog!Spec, LogStep
  <2> QED
    BY <2>2 DEF CoreSessions
<1> QED
  BY <1>1, <1>2

LEMMA CoreAlways == ~DbMayFail /\ Spec => []CoreInv
<1>1. CASE DbMayFail
  BY <1>1
<1>2. CASE ~DbMayFail
  <2>1. CoreInv /\ [Next]_vars => CoreInv'
    BY <1>2, CoreStep
  <2> QED
    BY <2>1, CoreInit, PTL DEF Spec
<1> QED
  BY <1>1, <1>2

\* At rest, the core session shown as open is the active core's.
THEOREM OpenCoreIsPlayed == ~DbMayFail /\ Spec => []OpenCoreIsActive
<1>1. CoreInv => OpenCoreIsActive
  BY DEF CoreInv, OpenInv, OpenCoreIsActive, AtRest
<1> QED
  BY <1>1, CoreAlways, PTL

\* At rest, what was counted for every core but the active one is saved.
THEOREM CoreRestsSaved == ~DbMayFail /\ Spec => []CoreStatsSaved
<1>1. CoreInv => CoreStatsSaved
  BY DEF CoreInv, CountInv, CoreStatsSaved
<1> QED
  BY <1>1, CoreAlways, PTL

\* The facts proved of every session log, of this one.
CoreLogFacts == INSTANCE SessionLogProofs WITH
  Targets <- Cores,
  log <- coreEvents,
  saved <- [c \in Cores |-> Seconds(coreRows[c])]

\* No second is lost or invented between two sessions of a core.
THEOREM CoreTimeIsContinuous == ~DbMayFail /\ Spec => []CoreTimeHasNoGaps
<1>1. CoreLogFacts!Spec => []CoreLogFacts!IInv
  BY CoreLogFacts!SessionLogCorrect
<1>2. CoreLogFacts!IInv => CoreTimeHasNoGaps
  BY DEF CoreLogFacts!IInv, CoreLogFacts!NoGaps, CoreTimeHasNoGaps,
         CoreLog!NoGaps
<1>3. CoreLog!Init => CoreLogFacts!Init
  BY DEF CoreLog!Init, CoreLogFacts!Init
<1>4. [CoreLog!Next]_(CoreLog!vars) => [CoreLogFacts!Next]_(CoreLogFacts!vars)
  BY DEF CoreLog!Next, CoreLog!vars, CoreLog!Start, CoreLog!Save,
         CoreLog!Stop, CoreLog!Open, CoreLog!AnyOpen, CoreLog!Row,
         CoreLogFacts!Next, CoreLogFacts!vars, CoreLogFacts!Start,
         CoreLogFacts!Save, CoreLogFacts!Stop, CoreLogFacts!Open,
         CoreLogFacts!AnyOpen, CoreLogFacts!Row
<1>5. CoreLog!Spec => CoreLogFacts!Spec
  BY <1>3, <1>4, PTL DEF CoreLog!Spec, CoreLogFacts!Spec
<1>6. ~DbMayFail /\ Spec => CoreLog!Spec
  BY CoreSessionsHold DEF CoreSessions
<1> QED
  BY <1>1, <1>2, <1>5, <1>6, PTL

-----------------------------------------------------------------------------
(* The same of games.  Without an arcade core in the name map only a game  *)
(* is the active game; with one the log of games breaks (MCTrackerArcade). *)

NoArcade == \A c \in Cores : <<c, Arcade>> \notin NameMap

\* The open session is the active game's; a game is entered when none is
\* active.
GameOpenInv ==
  /\ activeGame \in Ids \cup {None}
  /\ gameEvents \in Seq(Event(Ids))
  /\ pc = "enterGame" => activeGame = None
  /\ svc \notin {"down", "fixCores", "fixGames"} =>
       IF activeGame # None
         THEN IsOpen(gameEvents) /\ LastOf(gameEvents).target = activeGame
         ELSE ~IsOpen(gameEvents)

\* As CountInv.
GameCountInv ==
  /\ \A g \in Ids :
       /\ gameTimes[g] # Absent => gameTimes[g] >= Seconds(gameRows[g])
       /\ g # activeGame => gameTimes[g] \in {Absent, Seconds(gameRows[g])}
  /\ activeGame # None =>
       /\ gameTimes[activeGame] # Absent
       /\ pc = "stopGame" =>
            gameTimes[activeGame] = Seconds(gameRows[activeGame])

\* As StartInv.
GameStartInv ==
  IsOpen(gameEvents) =>
    LastOf(gameEvents).total <= Seconds(gameRows[LastOf(gameEvents).target])

GameSessionInv == GameOpenInv /\ GameCountInv /\ GameStartInv

GameInv == TypeInv /\ GameSessionInv

GameLogStep == [GameLog!Next]_(GameLog!vars)

LEMMA GameTypes ==
  ASSUME GameInv
  PROVE  /\ None \notin Ids /\ activeGame \in Ids \cup {None}
         /\ gameTimes \in [Ids -> Nat \cup {Absent}]
         /\ gameRows \in [Ids -> Nat \cup {Absent}]
         /\ gameEvents \in Seq(Event(Ids))
         /\ pc \in {"saveGame", "stopGame"} => activeGame \in Ids
         /\ pc = "enterGame" =>
              activeGame = None /\ GameId[nextGame] \in Ids
         /\ svc \in {"down", "fixCores", "fixGames"} =>
              pc = "free" /\ activeGame = None
<1>1. activeGame \in Ids \cup Cores /\ activeGame \in Ids \cup {None} =>
        activeGame \in Ids
  BY NamesDistinct
<1> QED
  BY <1>1, NamesDistinct, ConstantsTyped
     DEF GameInv, GameSessionInv, GameOpenInv, TypeInv, TypeOK, GameOK, DbOK,
         PointInv

\* No core is an arcade core.
LEMMA NeverArcade ==
  ASSUME NoArcade, NEW name, NEW path
  PROVE  LookupName(name, path) # Arcade
BY NamesDistinct, ConstantsTyped DEF NoArcade, LookupName

\* A game event is typed, and is the last row once it is added.
LEMMA GameRowAdded ==
  ASSUME GameInv, ~DbMayFail, NEW a \in {"start", "stop"}, NEW g \in Ids,
         NEW n \in Nat, AddGameEvent(a, g, n)
  PROVE  /\ gameEvents' = Append(gameEvents,
                            [action |-> a, target |-> g, total |-> n])
         /\ gameEvents' \in Seq(Event(Ids))
         /\ IsOpen(gameEvents)' <=> a = "start"
         /\ LastOf(gameEvents)'.target = g
         /\ LastOf(gameEvents)'.total = n
<1> DEFINE row == [action |-> a, target |-> g, total |-> n]
<1>1. gameEvents' = Append(gameEvents, row)
  BY DEF AddGameEvent
<1>2. row \in Event(Ids)
  BY DEF Event
<1>3. gameEvents \in Seq(Event(Ids))
  BY GameTypes
<1>4. /\ LastOf(Append(gameEvents, row)) = row
      /\ IsOpen(Append(gameEvents, row)) <=> row.action = "start"
  BY <1>2, <1>3, AppendLast
<1>5. LastOf(gameEvents)' = row
      /\ (IsOpen(gameEvents)' <=> row.action = "start")
  BY <1>1, <1>4 DEF LastOf, IsOpen
<1>6. gameEvents' \in Seq(Event(Ids))
  BY <1>1, <1>2, <1>3
<1> QED
  BY <1>1, <1>5, <1>6

LEMMA GameLogStutter ==
  ASSUME UNCHANGED gameEvents,
         \A g \in Ids : Seconds(gameRows'[g]) = Seconds(gameRows[g])
  PROVE  GameLogStep
BY DEF GameLogStep, GameLog!vars

LEMMA GameQuietStep ==
  ASSUME GameInv,
         UNCHANGED <<activeGame, gameTimes, gameRows, gameEvents>>,
         \/ pc' = pc
         \/ pc' \notin {"stopGame", "enterGame"}
         \/ pc' = "enterGame" /\ activeGame = None,
         \/ svc' \in {"down", "fixCores", "fixGames"}
         \/ svc \notin {"down", "fixCores", "fixGames"}
  PROVE  GameSessionInv' /\ GameLogStep
<1>1. GameOpenInv'
  BY DEF GameInv, GameSessionInv, GameOpenInv, IsOpen, LastOf
<1>2. GameCountInv'
  BY DEF GameInv, GameSessionInv, GameCountInv, Seconds
<1>3. GameStartInv'
  BY DEF GameInv, GameSessionInv, GameStartInv, IsOpen, LastOf, Seconds
<1> QED
  BY <1>1, <1>2, <1>3, GameLogStutter DEF GameSessionInv

LEMMA GameDieStep ==
  ASSUME GameInv, Die
  PROVE  GameSessionInv' /\ GameLogStep
<1>1. /\ svc' = "down" /\ pc' = "free" /\ activeGame' = None
      /\ gameTimes' = [g \in Ids |-> Absent]
      /\ gameRows' = gameRows /\ gameEvents' = gameEvents
  BY DEF Die, gameDb
<1>2. GameOpenInv'
  BY <1>1, GameTypes DEF GameOpenInv
<1>3. GameCountInv'
  BY <1>1 DEF GameCountInv, Seconds
<1>4. GameStartInv'
  BY <1>1 DEF GameInv, GameSessionInv, GameStartInv, IsOpen, LastOf, Seconds
<1> QED
  BY <1>1, <1>2, <1>3, <1>4, GameLogStutter DEF GameSessionInv

LEMMA GameQuietActions ==
  ASSUME GameInv, NoArcade,
         \/ Environment \/ Boot \/ FixCores \/ EnsureActiveGame \/ Receive
         \/ LoadCore \/ SaveCore \/ StopCore \/ EnterCore \/ StartCore
         \/ LoadGame \/ LoadRecent \/ TrackMenu \/ TickCore \/ CloseWatcher
         \/ StopAll \/ UNCHANGED vars
  PROVE  GameSessionInv' /\ GameLogStep
<1> USE DEF ctl, lock, game, gameDb
<1>1. CASE \/ Environment \/ Boot \/ FixCores \/ EnsureActiveGame \/ Receive
           \/ LoadRecent \/ TrackMenu \/ CloseWatcher \/ UNCHANGED vars
  <2>1. UNCHANGED <<activeGame, gameTimes, gameRows, gameEvents, pc>>
    BY <1>1 DEF Environment, WriteCore, WriteGame, WriteOther, Boot, FixCores,
       EnsureActiveGame, Receive, LoadRecent, TrackMenu, CloseWatcher, vars
  <2>2. \/ svc' \in {"down", "fixCores", "fixGames"}
        \/ svc \notin {"down", "fixCores", "fixGames"}
    BY <1>1 DEF Environment, WriteCore, WriteGame, WriteOther, Boot, FixCores,
       EnsureActiveGame, Receive, LoadRecent, TrackMenu, CloseWatcher, vars
  <2> QED
    BY <2>1, <2>2, GameQuietStep
<1>2. CASE LoadCore \/ SaveCore \/ StopCore \/ StartCore \/ TickCore
  <2>1. /\ UNCHANGED <<activeGame, gameTimes, gameRows, gameEvents>>
        /\ svc' = svc \/ svc = "stopping"
    BY <1>2 DEF LoadCore, Handle, SaveCore, StopCore, StartCore, TickCore
  <2>2. pc' = pc \/ pc' \notin {"stopGame", "enterGame"}
    BY <1>2 DEF LoadCore, Handle, SaveCore, StopCore, StartCore, TickCore
  <2> QED
    BY <2>1, <2>2, GameQuietStep
<1>3. CASE EnterCore
  <2>1. LookupName(nextCore, activePath) # Arcade
    BY NeverArcade
  <2>2. /\ UNCHANGED <<activeGame, gameTimes, gameRows, gameEvents, svc>>
        /\ pc' \in {"free", "startCore"}
    BY <1>3, <2>1 DEF EnterCore
  <2> QED
    BY <2>2, GameQuietStep
<1>4. CASE LoadGame
  <2>1. /\ UNCHANGED <<activeGame, gameTimes, gameRows, gameEvents, svc>>
        /\ \/ pc' = pc
           \/ pc' \in {"saveGame", "free"}
           \/ pc' = "enterGame" /\ activeGame = None
    BY <1>4 DEF LoadGame, Handle
  <2> QED
    BY <2>1, GameQuietStep
<1>5. CASE StopAll
  <2>1. /\ UNCHANGED <<activeGame, gameTimes, gameRows, gameEvents>>
        /\ pc' \in {"saveCore", "saveGame", "free"}
        /\ svc = "closing"
    BY <1>5 DEF StopAll
  <2> QED
    BY <2>1, GameQuietStep
<1> QED
  BY <1>1, <1>2, <1>3, <1>4, <1>5

\* As LogStart, LogStop and LogSave.
LEMMA GameLogStart ==
  ASSUME NEW g \in Ids, ~IsOpen(gameEvents), UNCHANGED gameRows,
         gameEvents' = Append(gameEvents,
           [action |-> "start", target |-> g, total |-> Seconds(gameRows[g])])
  PROVE  GameLogStep
<1>1. GameLog!Start(g)
  BY DEF GameLog!Start, GameLog!AnyOpen, GameLog!Row, IsOpen
<1> QED
  BY <1>1 DEF GameLogStep, GameLog!Next

LEMMA GameLogStop ==
  ASSUME NEW g \in Ids, IsOpen(gameEvents), LastOf(gameEvents).target = g,
         UNCHANGED gameRows,
         gameEvents' = Append(gameEvents,
           [action |-> "stop", target |-> g, total |-> Seconds(gameRows[g])])
  PROVE  GameLogStep
<1>1. GameLog!Stop(g)
  BY DEF GameLog!Stop, GameLog!Open, GameLog!Row, IsOpen, LastOf
<1> QED
  BY <1>1 DEF GameLogStep, GameLog!Next

LEMMA GameLogSave ==
  ASSUME GameInv, NEW g \in Ids, NEW n \in Nat, n >= Seconds(gameRows[g]),
         IsOpen(gameEvents), LastOf(gameEvents).target = g,
         UNCHANGED gameEvents, gameRows' = [gameRows EXCEPT ![g] = n]
  PROVE  GameLogStep
<1>1. gameRows \in [Ids -> Nat \cup {Absent}]
  BY GameTypes
<1>2. Seconds(n) = n
  BY DEF Seconds, Absent
<1>3. CASE n = Seconds(gameRows[g])
  BY <1>1, <1>2, <1>3, GameLogStutter
<1>4. CASE n > Seconds(gameRows[g])
  <2> DEFINE before == [h \in Ids |-> Seconds(gameRows[h])]
             after == [h \in Ids |-> Seconds(gameRows'[h])]
  <2>1. after = [before EXCEPT ![g] = after[g]]
    BY <1>1
  <2>2. after[g] = n /\ before[g] = Seconds(gameRows[g])
    BY <1>1, <1>2
  <2>3. GameLog!Save(g)
    BY <1>4, <2>1, <2>2 DEF GameLog!Save, GameLog!Open, IsOpen, LastOf
  <2> QED
    BY <2>3 DEF GameLogStep, GameLog!Next
<1> QED
  BY <1>1, <1>3, <1>4 DEF Seconds, Absent

LEMMA FixGamesStep ==
  ASSUME GameInv, ~DbMayFail, FixGames
  PROVE  GameSessionInv' /\ GameLogStep
<1>1. /\ svc = "fixGames" /\ activeGame = None /\ pc = "free"
      /\ UNCHANGED <<pc, activeGame, gameTimes, gameRows>>
  BY GameTypes DEF FixGames, lock, game
<1>2. GameCountInv'
  BY <1>1 DEF GameInv, GameSessionInv, GameCountInv, Seconds
<1>3. CASE IsOpen(gameEvents)
  <2> DEFINE start == LastOf(gameEvents)
             total == RepairTotal(start, gameRows[start.target])
  <2>1. /\ start.target \in Ids
        /\ start.total \in Nat
        /\ start.total <= Seconds(gameRows[start.target])
        /\ gameRows[start.target] \in Nat \cup {Absent}
    BY <1>3, GameTypes, LastEvent DEF GameInv, GameSessionInv, GameStartInv
  <2>2. total = Seconds(gameRows[start.target]) /\ total \in Nat
    BY <2>1 DEF RepairTotal, Seconds, Absent
  <2>3. /\ AddGameEvent("stop", start.target, total)
        /\ svc' = "init"
    BY <1>3, <2>1 DEF FixGames, AddGameEvent
  <2> HIDE DEF start, total
  <2>4. /\ gameEvents' = Append(gameEvents,
             [action |-> "stop", target |-> start.target, total |-> total])
        /\ gameEvents' \in Seq(Event(Ids))
        /\ ~IsOpen(gameEvents)'
    BY <2>1, <2>2, <2>3, GameRowAdded
  <2>5. GameLogStep
    BY <1>1, <1>3, <2>1, <2>2, <2>4, GameLogStop DEF start
  <2>6. GameOpenInv' /\ GameStartInv'
    BY <1>1, <2>4 DEF GameOpenInv, GameStartInv
  <2> QED
    BY <1>2, <2>5, <2>6 DEF GameSessionInv
<1>4. CASE ~IsOpen(gameEvents)
  <2>1. UNCHANGED gameEvents
    BY <1>4 DEF FixGames
  <2>2. GameLogStep
    BY <1>1, <2>1, GameLogStutter
  <2>3. GameOpenInv' /\ GameStartInv'
    BY <1>1, <1>4, <2>1, GameTypes DEF GameOpenInv, GameStartInv, IsOpen
  <2> QED
    BY <1>2, <2>2, <2>3 DEF GameSessionInv
<1> QED
  BY <1>3, <1>4

\* The counts and the open session while a game is active and the service is
\* beyond its repair.
LEMMA GameActive ==
  ASSUME GameInv, activeGame \in Ids,
         svc \notin {"down", "fixCores", "fixGames"}
  PROVE  /\ activeGame # None
         /\ gameTimes[activeGame] \in Nat
         /\ gameRows[activeGame] \in Nat \cup {Absent}
         /\ Seconds(gameRows[activeGame]) \in Nat
         /\ gameTimes[activeGame] >= Seconds(gameRows[activeGame])
         /\ IsOpen(gameEvents)
         /\ LastOf(gameEvents).target = activeGame
         /\ LastOf(gameEvents).total \in Nat
         /\ LastOf(gameEvents).total <= Seconds(gameRows[activeGame])
<1>1. activeGame # None
  BY GameTypes
<1>2. IsOpen(gameEvents) /\ LastOf(gameEvents).target = activeGame
  BY <1>1 DEF GameInv, GameSessionInv, GameOpenInv
<1>3. LastOf(gameEvents).total \in Nat
  BY <1>2, GameTypes, LastEvent
<1>4. LastOf(gameEvents).total <= Seconds(gameRows[activeGame])
  BY <1>2 DEF GameInv, GameSessionInv, GameStartInv
<1>5. /\ gameTimes[activeGame] \in Nat
      /\ gameTimes[activeGame] >= Seconds(gameRows[activeGame])
  BY <1>1, GameTypes DEF GameInv, GameSessionInv, GameCountInv, Absent
<1>6. /\ gameRows[activeGame] \in Nat \cup {Absent}
      /\ Seconds(gameRows[activeGame]) \in Nat
  BY GameTypes DEF Seconds, Absent
<1> QED
  BY <1>1, <1>2, <1>3, <1>4, <1>5, <1>6

\* The active game's count goes on to time, and its row may be set to it.
LEMMA GameCounted ==
  ASSUME GameInv, activeGame \in Ids,
         svc \notin {"down", "fixCores", "fixGames"},
         NEW time \in Nat, time >= gameTimes[activeGame],
         UNCHANGED <<svc, activeGame, gameEvents>>,
         gameTimes' = [gameTimes EXCEPT ![activeGame] = time],
         \/ gameRows' = gameRows
         \/ gameRows' = [gameRows EXCEPT ![activeGame] = time],
         pc' # "enterGame",
         pc' = "stopGame" => time = Seconds(gameRows'[activeGame])
  PROVE  GameSessionInv' /\ GameLogStep
<1>1. /\ gameTimes'[activeGame] = time
      /\ time # Absent
      /\ time >= Seconds(gameRows[activeGame])
      /\ \A g \in Ids \ {activeGame} :
           gameTimes'[g] = gameTimes[g] /\ gameRows'[g] = gameRows[g]
  BY GameActive, GameTypes DEF Absent
<1>2. /\ Seconds(gameRows'[activeGame]) \in
           {time, Seconds(gameRows[activeGame])}
      /\ gameRows'[activeGame] # Absent \/ gameRows' = gameRows
  BY GameTypes DEF Seconds, Absent
<1>3. IsOpen(gameEvents)' /\ LastOf(gameEvents)' = LastOf(gameEvents)
  BY GameActive DEF IsOpen, LastOf
<1>4. GameLogStep
  BY <1>1, GameActive, GameLogSave, GameLogStutter
<1>5. GameOpenInv'
  BY <1>3, GameActive, GameTypes DEF GameOpenInv
<1>6. GameStartInv'
  <2>1. LastOf(gameEvents).total <= Seconds(gameRows'[activeGame])
    BY <1>1, <1>2, GameActive
  <2> QED
    BY <1>3, <2>1, GameActive DEF GameStartInv
<1>7. GameCountInv'
  <2>1. \A g \in Ids \ {activeGame} :
          Seconds(gameRows'[g]) = Seconds(gameRows[g])
    BY <1>1
  <2>2. time >= Seconds(gameRows'[activeGame])
    BY <1>1, <1>2
  <2> QED
    BY <1>1, <2>1, <2>2 DEF GameInv, GameSessionInv, GameCountInv
<1> QED
  BY <1>4, <1>5, <1>6, <1>7 DEF GameSessionInv

LEMMA SaveGameStep ==
  ASSUME GameInv, ~DbMayFail, SaveGame
  PROVE  GameSessionInv' /\ GameLogStep
<1> DEFINE time == gameTimes[activeGame]
<1>1. /\ pc = "saveGame" /\ pc' = "stopGame"
      /\ UNCHANGED <<svc, activeGame, gameTimes, gameEvents>>
  BY DEF SaveGame, ctl, game
<1>2. activeGame \in Ids /\ svc \notin {"down", "fixCores", "fixGames"}
  BY <1>1, GameTypes
<1>3. time \in Nat /\ time >= Seconds(gameRows[activeGame])
  BY <1>2, GameActive
<1>4. /\ gameTimes' = [gameTimes EXCEPT ![activeGame] = time]
      /\ gameTimes \in [Ids -> Nat \cup {Absent}]
      /\ gameRows \in [Ids -> Nat \cup {Absent}]
  BY <1>1, <1>2, GameTypes
<1>5. \/ time > 0 /\ gameRows' = [gameRows EXCEPT ![activeGame] = time]
      \/ time = 0 /\ gameRows' = gameRows
  BY <1>2, <1>3 DEF SaveGame, UpdateGame
<1>6. time = Seconds(gameRows'[activeGame])
  BY <1>2, <1>3, <1>4, <1>5 DEF Seconds, Absent
<1>7. time >= gameTimes[activeGame]
  BY <1>3
<1> HIDE DEF time
<1> QED
  BY <1>1, <1>2, <1>3, <1>4, <1>5, <1>6, <1>7, GameCounted

LEMMA TickGameStep ==
  ASSUME GameInv, ~DbMayFail, TickGame
  PROVE  GameSessionInv' /\ GameLogStep
<1> DEFINE time == gameTimes[activeGame] + 1
<1>1. /\ pc = "tickGame" /\ pc' = "free"
      /\ UNCHANGED <<svc, activeGame, gameEvents>>
  BY DEF TickGame, ctl
<1>2. svc \notin {"down", "fixCores", "fixGames"}
  BY <1>1, GameTypes
<1>3. CASE ~CountsGame
  <2>1. UNCHANGED <<gameTimes, gameRows>>
    BY <1>3 DEF TickGame
  <2> QED
    BY <1>1, <1>2, <2>1, GameQuietStep
<1>4. CASE CountsGame
  <2>1. activeGame \in Ids
    BY <1>4 DEF CountsGame
  <2>2. time \in Nat /\ time >= gameTimes[activeGame]
    BY <1>2, <2>1, GameActive
  <2>3. /\ gameTimes' = [gameTimes EXCEPT ![activeGame] = time]
        /\ \/ gameRows' = gameRows
           \/ gameRows' = [gameRows EXCEPT ![activeGame] = time]
    BY <1>4 DEF TickGame, UpdateGame
  <2> QED
    BY <1>1, <1>2, <2>1, <2>2, <2>3, GameCounted
<1> QED
  BY <1>3, <1>4

LEMMA StopGameStep ==
  ASSUME GameInv, ~DbMayFail, StopGame
  PROVE  GameSessionInv' /\ GameLogStep
<1> DEFINE time == gameTimes[activeGame]
<1>1. /\ pc = "stopGame" /\ pc' \in {"free", "enterGame"}
      /\ activeGame' = None
      /\ UNCHANGED <<gameTimes, gameRows>>
      /\ AddGameEvent("stop", activeGame, GameSeconds(activeGame))
  BY DEF StopGame
<1>2. activeGame \in Ids /\ svc \notin {"down", "fixCores", "fixGames"}
  BY <1>1, GameTypes
<1>3. /\ time \in Nat
      /\ time = Seconds(gameRows[activeGame])
      /\ GameSeconds(activeGame) = time
  BY <1>1, <1>2, GameActive
     DEF GameInv, GameSessionInv, GameCountInv, GameSeconds, Seconds, Absent
<1>4. /\ gameEvents' = Append(gameEvents,
           [action |-> "stop", target |-> activeGame, total |-> time])
      /\ gameEvents' \in Seq(Event(Ids))
      /\ ~IsOpen(gameEvents)'
  BY <1>1, <1>2, <1>3, GameRowAdded
<1>5. GameLogStep
  BY <1>1, <1>2, <1>3, <1>4, GameActive, GameLogStop
<1>6. GameOpenInv' /\ GameStartInv'
  BY <1>1, <1>4 DEF GameOpenInv, GameStartInv
<1>7. GameCountInv'
  BY <1>1, <1>2, <1>3, GameTypes DEF GameInv, GameSessionInv, GameCountInv
<1> QED
  BY <1>5, <1>6, <1>7 DEF GameSessionInv

LEMMA EnterGameStep ==
  ASSUME GameInv, NoArcade, ~DbMayFail, EnterGame
  PROVE  GameSessionInv' /\ GameLogStep
<1> DEFINE id == GameId[nextGame]
           time == gameTimes'[id]
<1>1. LookupName(activeCore, GamePath[nextGame]) # Arcade
  BY NeverArcade
<1>2. /\ pc = "enterGame" /\ pc' = "free"
      /\ activeGame' = id
      /\ LoadGameTime(id)
      /\ AddGameEvent("start", id, Seconds(time))
      /\ UNCHANGED <<svc, gameRows>>
  BY <1>1 DEF EnterGame, ctl
<1>3. /\ activeGame = None /\ id \in Ids /\ id # None
      /\ svc \notin {"down", "fixCores", "fixGames"}
  BY <1>2, GameTypes
<1>4. ~IsOpen(gameEvents)
  BY <1>3 DEF GameInv, GameSessionInv, GameOpenInv
<1>5. /\ Seconds(gameRows[id]) \in Nat
      /\ gameTimes[id] \in {Absent, Seconds(gameRows[id])}
  BY <1>3, GameTypes
     DEF GameInv, GameSessionInv, GameCountInv, Seconds, Absent
<1>6. /\ time = Seconds(gameRows[id]) /\ time \in Nat
      /\ time # Absent /\ Seconds(time) = time
      /\ \A g \in Ids \ {id} : gameTimes'[g] = gameTimes[g]
  BY <1>2, <1>3, <1>5, GameTypes DEF LoadGameTime, Seconds, Absent
<1>7. /\ gameEvents' = Append(gameEvents,
           [action |-> "start", target |-> id, total |-> Seconds(time)])
      /\ gameEvents' \in Seq(Event(Ids))
      /\ IsOpen(gameEvents)'
      /\ LastOf(gameEvents)'.target = id
      /\ LastOf(gameEvents)'.total = Seconds(time)
  BY <1>2, <1>3, <1>6, GameRowAdded
<1>8. GameLogStep
  BY <1>2, <1>3, <1>4, <1>6, <1>7, GameLogStart
<1>9. GameOpenInv'
  BY <1>2, <1>3, <1>7 DEF GameOpenInv
<1>10. GameStartInv'
  BY <1>2, <1>6, <1>7 DEF GameStartInv
<1>11. GameCountInv'
  <2> HIDE DEF id
  <2>1. \A g \in Ids \ {id} :
          /\ gameTimes'[g] \in {Absent, Seconds(gameRows'[g])}
          /\ gameTimes'[g] # Absent => gameTimes'[g] >= Seconds(gameRows'[g])
    BY <1>2, <1>3, <1>6, GameTypes
       DEF GameInv, GameSessionInv, GameCountInv
  <2>2. time >= Seconds(gameRows'[id])
    BY <1>2, <1>6
  <2> QED
    BY <1>2, <1>6, <2>1, <2>2 DEF GameCountInv
<1> QED
  BY <1>8, <1>9, <1>10, <1>11 DEF GameSessionInv

LEMMA GameStep ==
  GameInv /\ NoArcade /\ ~DbMayFail /\ [Next]_vars => GameInv' /\ GameLogStep
<1> SUFFICES ASSUME GameInv, NoArcade, ~DbMayFail, [Next]_vars
             PROVE  GameInv' /\ GameLogStep
  OBVIOUS
<1>1. TypeInv'
  BY FilesOKKept, ServiceOKKept, LockOKKept, CoreOKKept, GameOKKept,
     HookOKKept, DbOKKept, PointInvKept DEF GameInv, TypeInv, TypeOK
<1>2. GameSessionInv' /\ GameLogStep
  <2>1. CASE \/ Environment \/ Boot \/ FixCores \/ EnsureActiveGame \/ Receive
             \/ LoadCore \/ SaveCore \/ StopCore \/ EnterCore \/ StartCore
             \/ LoadGame \/ LoadRecent \/ TrackMenu \/ TickCore
             \/ CloseWatcher \/ StopAll \/ UNCHANGED vars
    BY <2>1, GameQuietActions
  <2>2. CASE Exit \/ Kill \/ PowerLoss
    BY <2>2, GameDieStep DEF Exit, Kill, PowerLoss
  <2>3. CASE StartFileWatch
    <3>1. CASE coreFile = Missing
      BY <2>3, <3>1, GameDieStep DEF StartFileWatch
    <3>2. CASE coreFile # Missing
      BY <2>3, <3>2, GameQuietStep DEF StartFileWatch, lock, game, gameDb
    <3> QED
      BY <3>1, <3>2
  <2>4. CASE FixGames
    BY <2>4, FixGamesStep
  <2>5. CASE SaveGame
    BY <2>5, SaveGameStep
  <2>6. CASE StopGame
    BY <2>6, StopGameStep
  <2>7. CASE EnterGame
    BY <2>7, EnterGameStep
  <2>8. CASE TickGame
    BY <2>8, TickGameStep
  <2> QED
    BY <2>1, <2>2, <2>3, <2>4, <2>5, <2>6, <2>7, <2>8
       DEF Next, Starting, Handling
<1> QED
  BY <1>1, <1>2 DEF GameInv

LEMMA GameInit == Init => GameInv /\ GameLog!Init
<1> SUFFICES ASSUME Init
             PROVE  GameInv /\ GameLog!Init
  OBVIOUS
<1>1. TypeInv
  BY CoreInit DEF CoreInv
<1>2. GameSessionInv
  BY DEF Init, GameSessionInv, GameOpenInv, GameCountInv, GameStartInv,
     IsOpen, Seconds
<1>3. GameLog!Init
  BY DEF Init, GameLog!Init, Seconds
<1> QED
  BY <1>1, <1>2, <1>3 DEF GameInv

\* Without an arcade core and with a database that does not fail, the games'
\* invariant holds in every state.
LEMMA GameAlways == ~DbMayFail /\ NoArcade /\ Spec => []GameInv
<1>1. CASE DbMayFail \/ ~NoArcade
  BY <1>1
<1>2. CASE ~DbMayFail /\ NoArcade
  <2>1. GameInv /\ [Next]_vars => GameInv'
    BY <1>2, GameStep
  <2> QED
    BY <2>1, GameInit, PTL DEF Spec
<1> QED
  BY <1>1, <1>2

-----------------------------------------------------------------------------
\* The events and times that the tracker keeps for games are a session log,
\* through every crash between two writes, for every instance in which no
\* core is an arcade core and database calls do not fail.
THEOREM GameSessionsHold == ~DbMayFail /\ NoArcade /\ Spec => GameSessions
<1>1. CASE DbMayFail \/ ~NoArcade
  BY <1>1
<1>2. CASE ~DbMayFail /\ NoArcade
  <2>1. GameInv /\ [Next]_vars => GameInv' /\ GameLogStep
    BY <1>2, GameStep
  <2>2. Spec => GameLog!Spec
    BY <2>1, GameInit, PTL DEF Spec, GameLog!Spec, GameLogStep
  <2> QED
    BY <2>2 DEF GameSessions
<1> QED
  BY <1>1, <1>2

\* At rest, the game session shown as open is the active game's.
THEOREM OpenGameIsPlayed ==
  ~DbMayFail /\ NoArcade /\ Spec => []OpenGameIsActive
<1>1. GameInv => OpenGameIsActive
  BY DEF GameInv, GameSessionInv, GameOpenInv, OpenGameIsActive, AtRest
<1> QED
  BY <1>1, GameAlways, PTL

\* At rest, what was counted for every game but the active one is saved.
THEOREM GameRestsSaved == ~DbMayFail /\ NoArcade /\ Spec => []GameStatsSaved
<1>1. GameInv => GameStatsSaved
  BY DEF GameInv, GameSessionInv, GameCountInv, GameStatsSaved
<1> QED
  BY <1>1, GameAlways, PTL
=============================================================================

