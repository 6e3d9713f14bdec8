-------------------------- MODULE SessionLogProofs --------------------------
(***************************************************************************)
(* What every session log satisfies, for any set of targets.               *)
(***************************************************************************)
EXTENDS SessionLog, TLAPS

\* The last row of a target whose session is closed holds its saved time:
\* what makes the next session of the target resume without a gap.
ClosedBacked ==
  \A i \in 1 .. Len(log) :
    /\ log[i].action = "stop"
    /\ \A k \in i + 1 .. Len(log) : log[k].target # log[i].target
    => saved[log[i].target] = log[i].total

IInv ==
  /\ TypeOK
  /\ Alternates
  /\ TotalsGrow
  /\ RowsBacked
  /\ ClosedBacked
  /\ NoGaps

\* A row is appended with the time saved for its target: what the later
\* steps need to know about the longer log.
LEMMA AppendRow ==
  ASSUME TypeOK, NEW t \in Targets, NEW a \in {"start", "stop"},
         log' = Append(log, Row(a, t)), saved' = saved
  PROVE  /\ Len(log) \in Nat
         /\ Len(log') = Len(log) + 1
         /\ \A i \in 1 .. Len(log) : log'[i] = log[i]
         /\ log'[Len(log) + 1] = [action |-> a, target |-> t,
                                  total |-> saved[t]]
         /\ \A i \in 1 .. Len(log) : log[i] \in Event
         /\ TypeOK'
<1>1. Row(a, t) = [action |-> a, target |-> t, total |-> saved[t]]
  BY DEF Row
<1>2. Row(a, t) \in Event
  BY <1>1 DEF TypeOK, Event
<1>3. log \in Seq(Event)
  BY DEF TypeOK
<1>4. log' \in Seq(Event)
  BY <1>2, <1>3
<1> QED
  BY <1>1, <1>2, <1>3, <1>4 DEF TypeOK

\* The parity of the log says whether a session is open.
LEMMA OpenIsOdd ==
  ASSUME TypeOK, Alternates
  PROVE  AnyOpen <=> Len(log) % 2 = 1
<1>1. Len(log) \in Nat /\ (log # <<>> <=> Len(log) > 0)
  BY DEF TypeOK
<1>2. CASE Len(log) = 0
  BY <1>1, <1>2 DEF AnyOpen
<1>3. CASE Len(log) > 0
  BY <1>1, <1>3 DEF AnyOpen, Alternates
<1> QED
  BY <1>1, <1>2, <1>3

\* The properties that only compare rows with the times table survive any
\* row that carries the saved time.
LEMMA RowKeepsTotals ==
  ASSUME IInv, NEW t \in Targets, NEW a \in {"start", "stop"},
         log' = Append(log, Row(a, t)), saved' = saved
  PROVE  TotalsGrow' /\ RowsBacked' /\ ClosedBacked'
<1>1. /\ Len(log) \in Nat
      /\ Len(log') = Len(log) + 1
      /\ \A i \in 1 .. Len(log) : log'[i] = log[i]
      /\ log'[Len(log) + 1] = [action |-> a, target |-> t, total |-> saved[t]]
      /\ \A i \in 1 .. Len(log) : log[i] \in Event
  BY AppendRow DEF IInv
<1>2. RowsBacked'
  <2> SUFFICES ASSUME NEW i \in 1 .. Len(log')
               PROVE  log'[i].total <= saved[log'[i].target]
    BY DEF RowsBacked
  <2>1. CASE i = Len(log) + 1
    BY <1>1, <2>1 DEF IInv, TypeOK
  <2>2. CASE i \in 1 .. Len(log)
    BY <1>1, <2>2 DEF IInv, RowsBacked
  <2> QED
    BY <1>1, <2>1, <2>2
<1>3. TotalsGrow'
  <2> SUFFICES ASSUME NEW i \in 1 .. Len(log'), NEW j \in 1 .. Len(log'),
                      i < j, log'[i].target = log'[j].target
               PROVE  log'[i].total <= log'[j].total
    BY DEF TotalsGrow
  <2>1. i \in 1 .. Len(log)
    BY <1>1
  <2>2. CASE j = Len(log) + 1
    BY <1>1, <2>1, <2>2 DEF IInv, RowsBacked
  <2>3. CASE j \in 1 .. Len(log)
    BY <1>1, <2>1, <2>3 DEF IInv, TotalsGrow
  <2> QED
    BY <1>1, <2>2, <2>3
<1>4. ClosedBacked'
  <2> SUFFICES ASSUME NEW i \in 1 .. Len(log'), log'[i].action = "stop",
                      \A k \in i + 1 .. Len(log') :
                        log'[k].target # log'[i].target
               PROVE  saved[log'[i].target] = log'[i].total
    BY DEF ClosedBacked
  <2>1. CASE i = Len(log) + 1
    BY <1>1, <2>1
  <2>2. CASE i \in 1 .. Len(log)
    <3>1. \A k \in i + 1 .. Len(log) : log[k].target # log[i].target
      BY <1>1, <2>2
    <3> QED
      BY <1>1, <2>2, <3>1 DEF IInv, ClosedBacked
  <2> QED
    BY <1>1, <2>1, <2>2
<1> QED
  BY <1>2, <1>3, <1>4

LEMMA StartKeepsIInv ==
  ASSUME IInv, NEW t \in Targets, Start(t)
  PROVE  IInv'
<1>1. log' = Append(log, Row("start", t)) /\ saved' = saved /\ ~AnyOpen
  BY DEF Start
<1>2. /\ Len(log) \in Nat
      /\ Len(log') = Len(log) + 1
      /\ \A i \in 1 .. Len(log) : log'[i] = log[i]
      /\ log'[Len(log) + 1] = [action |-> "start", target |-> t,
                               total |-> saved[t]]
      /\ \A i \in 1 .. Len(log) : log[i] \in Event
      /\ TypeOK'
  BY <1>1, AppendRow DEF IInv
<1>3. TotalsGrow' /\ RowsBacked' /\ ClosedBacked'
  BY <1>1, RowKeepsTotals
<1>4. Alternates'
  <2>1. Len(log) % 2 = 0
    BY <1>1, <1>2, OpenIsOdd DEF IInv
  <2> SUFFICES ASSUME NEW i \in 1 .. Len(log')
               PROVE  IF i % 2 = 1
                        THEN log'[i].action = "start"
                        ELSE /\ log'[i].action = "stop"
                             /\ log'[i].target = log'[i - 1].target
    BY DEF Alternates
  <2>2. CASE i = Len(log) + 1
    BY <1>2, <2>1, <2>2
  <2>3. CASE i \in 1 .. Len(log)
    <3>1. i % 2 # 1 => i - 1 \in 1 .. Len(log)
      BY <2>3, <1>2
    <3> QED
      BY <1>2, <2>3, <3>1 DEF IInv, Alternates
  <2> QED
    BY <1>2, <2>2, <2>3
<1>5. NoGaps'
  <2> SUFFICES ASSUME NEW i \in 1 .. Len(log'), NEW j \in 1 .. Len(log'),
                      i < j,
                      log'[i].action = "stop", log'[j].action = "start",
                      log'[i].target = log'[j].target,
                      \A k \in i + 1 .. j - 1 :
                        log'[k].target # log'[i].target
               PROVE  log'[j].total = log'[i].total
    BY DEF NoGaps
  <2>1. i \in 1 .. Len(log)
    BY <1>2
  <2>2. CASE j = Len(log) + 1
    <3>1. \A k \in i + 1 .. Len(log) : log[k].target # log[i].target
      BY <1>2, <2>1, <2>2
    <3> QED
      BY <1>2, <2>1, <2>2, <3>1 DEF IInv, ClosedBacked
  <2>3. CASE j \in 1 .. Len(log)
    BY <1>2, <2>1, <2>3 DEF IInv, NoGaps
  <2> QED
    BY <1>2, <2>2, <2>3
<1> QED
  BY <1>2, <1>3, <1>4, <1>5 DEF IInv

LEMMA StopKeepsIInv ==
  ASSUME IInv, NEW t \in Targets, Stop(t)
  PROVE  IInv'
<1>1. log' = Append(log, Row("stop", t)) /\ saved' = saved /\ Open(t)
  BY DEF Stop
<1>2. /\ Len(log) \in Nat
      /\ Len(log') = Len(log) + 1
      /\ \A i \in 1 .. Len(log) : log'[i] = log[i]
      /\ log'[Len(log) + 1] = [action |-> "stop", target |-> t,
                               total |-> saved[t]]
      /\ \A i \in 1 .. Len(log) : log[i] \in Event
      /\ TypeOK'
  BY <1>1, AppendRow DEF IInv
<1>3. TotalsGrow' /\ RowsBacked' /\ ClosedBacked'
  BY <1>1, RowKeepsTotals
<1>4. Alternates'
  <2>1. /\ Len(log) % 2 = 1
        /\ Len(log) \in 1 .. Len(log)
        /\ log[Len(log)].target = t
    BY <1>1, <1>2, OpenIsOdd DEF IInv, TypeOK, Open, AnyOpen
  <2> SUFFICES ASSUME NEW i \in 1 .. Len(log')
               PROVE  IF i % 2 = 1
                        THEN log'[i].action = "start"
                        ELSE /\ log'[i].action = "stop"
                             /\ log'[i].target = log'[i - 1].target
    BY DEF Alternates
  <2>2. CASE i = Len(log) + 1
    BY <1>2, <2>1, <2>2
  <2>3. CASE i \in 1 .. Len(log)
    <3>1. i % 2 # 1 => i - 1 \in 1 .. Len(log)
      BY <2>3, <1>2
    <3> QED
      BY <1>2, <2>3, <3>1 DEF IInv, Alternates
  <2> QED
    BY <1>2, <2>2, <2>3
<1>5. NoGaps'
  <2> SUFFICES ASSUME NEW i \in 1 .. Len(log'), NEW j \in 1 .. Len(log'),
                      i < j,
                      log'[i].action = "stop", log'[j].action = "start",
                      log'[i].target = log'[j].target,
                      \A k \in i + 1 .. j - 1 :
                        log'[k].target # log'[i].target
               PROVE  log'[j].total = log'[i].total
    BY DEF NoGaps
  <2>1. j \in 1 .. Len(log) /\ i \in 1 .. Len(log)
    BY <1>2
  <2> QED
    BY <1>2, <2>1 DEF IInv, NoGaps
<1> QED
  BY <1>2, <1>3, <1>4, <1>5 DEF IInv

LEMMA SaveKeepsIInv ==
  ASSUME IInv, NEW t \in Targets, Save(t)
  PROVE  IInv'
<1>1. /\ log' = log
      /\ saved' = [saved EXCEPT ![t] = saved'[t]]
      /\ saved'[t] \in Nat
      /\ saved'[t] > saved[t]
      /\ Open(t)
  BY DEF Save
<1>2. log \in Seq(Event) /\ Len(log) \in Nat /\ saved \in [Targets -> Nat]
  BY DEF IInv, TypeOK
<1>3. TypeOK'
  <2>1. saved' \in [Targets -> Nat]
    BY <1>1, <1>2
  <2> QED
    BY <1>1, <1>2, <2>1 DEF TypeOK
<1>4. \A i \in 1 .. Len(log) :
         log[i].target \in Targets /\ log[i].total \in Nat
  <2>1. \A i \in 1 .. Len(log) : log[i] \in Event
    BY <1>2
  <2> QED
    BY <2>1 DEF Event
<1>5. \A u \in Targets :
        saved'[u] >= saved[u] /\ (u # t => saved'[u] = saved[u])
  BY <1>1, <1>2
<1>6. RowsBacked'
  BY <1>1, <1>2, <1>3, <1>4, <1>5 DEF IInv, RowsBacked, TypeOK
<1>7. ClosedBacked'
  <2> SUFFICES ASSUME NEW i \in 1 .. Len(log), log[i].action = "stop",
                      \A k \in i + 1 .. Len(log) :
                        log[k].target # log[i].target
               PROVE  saved'[log[i].target] = log[i].total
    BY <1>1 DEF ClosedBacked
  <2>1. log[i].target # t
    <3>1. log[Len(log)].action = "start" /\ log[Len(log)].target = t
      BY <1>1 DEF Open
    <3>2. i # Len(log)
      BY <3>1
    <3> QED
      BY <1>2, <3>1, <3>2
  <2> QED
    BY <1>4, <1>5, <2>1 DEF IInv, ClosedBacked
<1>8. Alternates' /\ TotalsGrow' /\ NoGaps'
  <2>1. Alternates'
    BY <1>1 DEF IInv, Alternates
  <2>2. TotalsGrow'
    BY <1>1 DEF IInv, TotalsGrow
  <2>3. NoGaps'
    BY <1>1 DEF IInv, NoGaps
  <2> QED
    BY <2>1, <2>2, <2>3
<1> QED
  BY <1>3, <1>6, <1>7, <1>8 DEF IInv

\* In every session log, for any targets: rows start and stop sessions in
\* turn, totals grow, no row exceeds the saved time, and no session resumes
\* with a gap.
THEOREM SessionLogCorrect == Spec => []IInv
<1>1. Init => IInv
  BY DEF Init, IInv, TypeOK, Alternates, TotalsGrow, RowsBacked, ClosedBacked,
         NoGaps
<1>2. IInv /\ [Next]_vars => IInv'
  <2> SUFFICES ASSUME IInv, [Next]_vars
               PROVE  IInv'
    OBVIOUS
  <2>1. CASE UNCHANGED vars
    BY <2>1 DEF vars, IInv, TypeOK, Alternates, TotalsGrow, RowsBacked,
                ClosedBacked, NoGaps
  <2>2. ASSUME NEW t \in Targets, Start(t) PROVE IInv'
    BY <2>2, StartKeepsIInv
  <2>3. ASSUME NEW t \in Targets, Save(t) PROVE IInv'
    BY <2>3, SaveKeepsIInv
  <2>4. ASSUME NEW t \in Targets, Stop(t) PROVE IInv'
    BY <2>4, StopKeepsIInv
  <2> QED
    BY <2>1, <2>2, <2>3, <2>4 DEF Next
<1> QED
  BY <1>1, <1>2, PTL DEF Spec
=============================================================================
