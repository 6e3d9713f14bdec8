----------------------------- MODULE SessionLog -----------------------------
(***************************************************************************)
(* What the play log promises for one kind of target (cores, or games):    *)
(* an append-only series of sessions.  A session starts with the time      *)
(* saved for its target, may save more time while it is open, and stops    *)
(* with the time saved at that moment.  Only one session is open at once.  *)
(* The tracker with its database (module Tracker) implements this module,  *)
(* across power losses, once for cores and, when no arcade core is in its  *)
(* name map, once for games.                                               *)
(***************************************************************************)
EXTENDS Integers, Sequences

CONSTANT Targets

VARIABLES log,    \* the rows of the events table of this kind, oldest first
          saved   \* saved[t]: seconds credited to t in its times table

vars == <<log, saved>>

Event == [action : {"start", "stop"}, target : Targets, total : Nat]

\* The session of t is open: the last row starts t.
Open(t) ==
  /\ log # <<>>
  /\ log[Len(log)].action = "start"
  /\ log[Len(log)].target = t

AnyOpen == log # <<>> /\ log[Len(log)].action = "start"

Row(action, t) == [action |-> action, target |-> t, total |-> saved[t]]

-----------------------------------------------------------------------------
Init ==
  /\ log = <<>>
  /\ saved = [t \in Targets |-> 0]

Start(t) ==
  /\ ~AnyOpen
  /\ log' = Append(log, Row("start", t))
  /\ UNCHANGED saved

\* Time is credited to the open session only, and never taken back.
Save(t) ==
  /\ Open(t)
  /\ saved'[t] \in Nat
  /\ saved'[t] > saved[t]
  /\ saved' = [saved EXCEPT ![t] = saved'[t]]
  /\ UNCHANGED log

Stop(t) ==
  /\ Open(t)
  /\ log' = Append(log, Row("stop", t))
  /\ UNCHANGED saved

Next == \E t \in Targets : Start(t) \/ Save(t) \/ Stop(t)

Spec == Init /\ [][Next]_vars

-----------------------------------------------------------------------------
TypeOK ==
  /\ log \in Seq(Event)
  /\ saved \in [Targets -> Nat]

\* Odd rows start a session and even rows stop the one just before them: no
\* session is started twice, stopped twice, or stopped under another name.
Alternates ==
  \A i \in 1 .. Len(log) :
    IF i % 2 = 1
      THEN log[i].action = "start"
      ELSE /\ log[i].action = "stop"
           /\ log[i].target = log[i - 1].target

\* The running totals of one target never go down from a row to a later row.
TotalsGrow ==
  \A i, j \in 1 .. Len(log) :
    i < j /\ log[i].target = log[j].target => log[i].total <= log[j].total

\* No row claims more time than the times table holds for its target.
RowsBacked ==
  \A i \in 1 .. Len(log) : log[i].total <= saved[log[i].target]

\* A session resumes exactly where the previous session of the same target
\* ended: time between two sessions is neither lost nor invented.
NoGaps ==
  \A i, j \in 1 .. Len(log) :
    /\ i < j
    /\ log[i].action = "stop"
    /\ log[j].action = "start"
    /\ log[i].target = log[j].target
    /\ \A k \in i + 1 .. j - 1 : log[k].target # log[i].target
    => log[j].total = log[i].total
=============================================================================
