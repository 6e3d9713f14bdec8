-------------------------- MODULE NfcReaderProofs --------------------------
(***************************************************************************)
(* Proofs about NfcReader, for any cards and contents of the mappings,     *)
(* whatever users do and however often the service is started and killed.  *)
(***************************************************************************)
EXTENDS NfcReader, TLAPS

-----------------------------------------------------------------------------
(* Type correctness.                                                       *)

LEMMA NotifiedType ==
  ASSUME NEW event \in {"write", "remove"},
         events \in Seq({"write", "remove"})
  PROVE  Notified(event) \in Seq({"write", "remove"})
BY DEF Notified

LEMMA LoadedType ==
  ASSUME TypeOK, Loaded
  PROVE  db' \in Versions \cup {Half, None} /\ fresh' \in BOOLEAN
BY DEF Loaded, TypeOK

LEMMA UsersKeepTypes ==
  ASSUME TypeOK, Users
  PROVE  TypeOK'
<1> USE NfcConstants DEF TypeOK, users, poller, mappings, seen, Do
<1>1. ASSUME NEW c \in Cards, Place(c)
      PROVE  TypeOK'
  BY <1>1 DEF Place
<1>2. CASE Take
  BY <1>2 DEF Take
<1>8. CASE Plug
  BY <1>8 DEF Plug
<1>3. CASE BeginEdit
  BY <1>3, NotifiedType DEF BeginEdit, Pending
<1>4. ASSUME NEW v \in Versions, EndEdit(v)
      PROVE  TypeOK'
  BY <1>4, NotifiedType DEF EndEdit
<1>5. CASE Delete
  <2>1. events' \in Seq({"write", "remove"})
    BY <1>5, NotifiedType DEF Delete
  <2>2. watch' \in BOOLEAN /\ alone' \in BOOLEAN
    BY <1>5 DEF Delete, Pending
  <2> QED
    BY <1>5, <2>1, <2>2 DEF Delete
<1>6. CASE Create
  BY <1>6 DEF Create, RemovePending
<1>7. CASE Disable
  <2>1. /\ disabled' \in BOOLEAN
        /\ disabledFile' \in BOOLEAN
        /\ off' \in BOOLEAN
    BY <1>7 DEF Disable
  <2> QED
    BY <1>7, <2>1 DEF Disable
<1>9. CASE Enable
  <2>1. /\ disabled' \in BOOLEAN
        /\ disabledFile' \in BOOLEAN
        /\ off' \in BOOLEAN /\ enabled' \in BOOLEAN
    BY <1>9 DEF Enable
  <2> QED
    BY <1>9, <2>1 DEF Enable
<1> QED
  BY <1>1, <1>2, <1>3, <1>4, <1>5, <1>6, <1>7, <1>8, <1>9 DEF Users

LEMMA ServiceKeepsTypes ==
  ASSUME TypeOK, Boot \/ Load \/ AddWatch \/ ReadFlag \/ Die
  PROVE  TypeOK'
<1> USE NfcConstants DEF TypeOK, users, mappings, seen
<1>1. CASE Boot
  BY <1>1 DEF Boot
<1>2. CASE Load
  <2>1. db' \in Versions \cup {Half, None} /\ fresh' \in BOOLEAN
    BY <1>2, LoadedType DEF Load
  <2>2. alone' \in BOOLEAN /\ UNCHANGED <<off, enabled>>
    BY <1>2 DEF Load
  <2> QED
    BY <1>2, <2>1, <2>2 DEF Load
<1>3. CASE AddWatch
  BY <1>3 DEF AddWatch
<1>4. CASE ReadFlag
  BY <1>4 DEF ReadFlag
<1>5. CASE Die
  <2>1. events' \in Seq({"write", "remove"}) /\ off' \in BOOLEAN
    BY <1>5 DEF Die
  <2> QED
    BY <1>5, <2>1 DEF Die
<1> QED
  BY <1>1, <1>2, <1>3, <1>4, <1>5

LEMMA PollingKeepsTypes ==
  ASSUME TypeOK, Polling
  PROVE  TypeOK'
<1> USE NfcConstants DEF TypeOK, users, mappings, Goto
<1>1. CASE Open \/ InitReader \/ PollFails
  BY <1>1 DEF Open, InitReader, PollFails
<1>5. CASE PollNothing
  BY <1>5 DEF PollNothing
<1>2. CASE PollCard
  BY <1>2 DEF PollCard
<1>3. CASE Decide
  BY <1>3 DEF Decide
<1>4. CASE LaunchCard
  BY <1>4 DEF LaunchCard, Launches
<1> QED
  BY <1>1, <1>2, <1>3, <1>4, <1>5 DEF Polling

LEMMA TimeKeepsTypes ==
  ASSUME TypeOK, Age \/ Expire \/ TakeEvent \/ Wake
  PROVE  TypeOK'
<1> USE NfcConstants DEF TypeOK, users, poller, seen
<1>1. CASE Age
  BY <1>1 DEF Age, mappings
<1>4. CASE Expire
  <2>1. fresh' \in BOOLEAN
    BY <1>4 DEF Expire
  <2> QED
    BY <1>4, <2>1 DEF Expire
<1>2. CASE TakeEvent
  BY <1>2 DEF TakeEvent
<1>3. CASE Wake
  BY <1>3, LoadedType DEF Wake
<1> QED
  BY <1>1, <1>2, <1>3, <1>4

\* Every variable keeps its type (cmd/nfc): in particular a text is only there
\* for a card.
THEOREM NfcTypes == Spec => []TypeOK
<1>1. Init => TypeOK
  <2>1. <<>> \in Seq({"write", "remove"})
    OBVIOUS
  <2> SUFFICES ASSUME Init
               PROVE  TypeOK
    OBVIOUS
  <2>2. /\ plugged \in BOOLEAN /\ disabledFile \in BOOLEAN
        /\ disabled \in BOOLEAN /\ text \in BOOLEAN /\ aged \in BOOLEAN
        /\ fresh \in BOOLEAN /\ watch \in BOOLEAN /\ alone \in BOOLEAN
        /\ off \in BOOLEAN /\ enabled \in BOOLEAN
    BY DEF Init
  <2> QED
    BY <2>1, <2>2, NfcConstants DEF Init, TypeOK
<1>2. TypeOK /\ [Next]_vars => TypeOK'
  <2> SUFFICES ASSUME TypeOK, [Next]_vars
               PROVE  TypeOK'
    OBVIOUS
  <2>1. CASE UNCHANGED vars
    BY <2>1 DEF vars, users, poller, mappings, seen, TypeOK
  <2> QED
    BY <2>1, UsersKeepTypes, ServiceKeepsTypes, PollingKeepsTypes,
       TimeKeepsTypes
    DEF Next
<1> QED
  BY <1>1, <1>2, PTL DEF Spec

-----------------------------------------------------------------------------
(* A card is launched once.                                                *)

\* A card that is on the reader and is not the active one has not been
\* launched, and neither has the active one before its launch is over.
LaunchInv ==
  /\ LaunchedOnce
  /\ present # None /\ pc # "down"
       /\ (active # present \/ pc \in {"decide", "launch"})
       => launches = 0

LEMMA LaunchKept ==
  ASSUME TypeOK, LaunchInv, [Next]_vars
  PROVE  LaunchInv'
<1> USE NfcConstants DEF LaunchInv, LaunchedOnce, TypeOK, users, poller,
        mappings, seen
<1>1. ASSUME NEW c \in Cards, Place(c)
      PROVE  LaunchInv'
  BY <1>1 DEF Place
<1>2. CASE Take
  BY <1>2 DEF Take
<1>3. CASE Boot \/ Die
  BY <1>3 DEF Boot, Die
<1>4. CASE Load \/ AddWatch \/ ReadFlag
  BY <1>4 DEF Load, AddWatch, ReadFlag
<1>5. CASE Open \/ InitReader \/ PollFails \/ PollNothing \/ Decide
  BY <1>5 DEF Open, InitReader, PollFails, PollNothing, Decide, Goto
<1>6. CASE PollCard
  BY <1>6 DEF PollCard, Goto
<1>7. CASE LaunchCard
  BY <1>7 DEF LaunchCard, Launches, Goto
<1>8. ASSUME UNCHANGED <<present, pc, active, launches>>
      PROVE  LaunchInv'
  BY <1>8
<1>9. CASE Plug \/ BeginEdit \/ (\E v \in Versions : EndEdit(v)) \/ Delete
           \/ Create \/ Disable \/ Enable
  BY <1>8, <1>9 DEF Plug, BeginEdit, EndEdit, Delete, Create, Disable, Enable
<1>10. CASE Age \/ Expire \/ TakeEvent \/ Wake \/ UNCHANGED vars
  BY <1>8, <1>10 DEF Age, Expire, TakeEvent, Wake, vars
<1> QED
  BY <1>1, <1>2, <1>3, <1>4, <1>5, <1>6, <1>7, <1>9, <1>10
  DEF Next, Users, Polling

\* A card that lies on the reader is launched once at most, however often it is
\* polled or misread and also if the reader is unplugged under it
\* (main.go:168, :409).
THEOREM CardsLaunchOnce == Spec => []LaunchedOnce
<1>1. Init => LaunchInv
  BY DEF Init, LaunchInv, LaunchedOnce
<1>2. LaunchInv => LaunchedOnce
  BY DEF LaunchInv
<1> QED
  BY <1>1, <1>2, LaunchKept, NfcTypes, PTL DEF Spec

-----------------------------------------------------------------------------
(* Nothing is launched while launching is disabled.                        *)

\* Launching that must be off is off by the flag while the service runs, and by
\* the file while it does not; and the poll goroutine goes on to a launch only
\* if launching was enabled at a time since the scan.
FlagInv ==
  /\ off => IF Running THEN disabled ELSE disabledFile
  /\ pc = "decide" => disabled \/ enabled
  /\ pc = "launch" => enabled

LEMMA FlagKept ==
  ASSUME TypeOK, FlagInv, [Next]_vars
  PROVE  FlagInv'
<1> USE DEF FlagInv, Running, TypeOK, users, poller, mappings, seen
<1>1. CASE Disable \/ Enable
  BY <1>1 DEF Disable, Enable
<1>2. CASE Boot \/ Load \/ AddWatch \/ Die
  BY <1>2 DEF Boot, Load, AddWatch, Die
<1>3. CASE ReadFlag
  BY <1>3 DEF ReadFlag
<1>4. CASE Open \/ InitReader \/ PollFails \/ PollNothing \/ LaunchCard
  BY <1>4 DEF Open, InitReader, PollFails, PollNothing, LaunchCard, Goto
<1>5. CASE PollCard
  BY <1>5 DEF PollCard, Goto
<1>6. CASE Decide
  BY <1>6 DEF Decide, Goto
<1>7. ASSUME UNCHANGED <<pc, disabled, disabledFile, off, enabled>>
      PROVE  FlagInv'
  BY <1>7
<1>8. CASE (\E c \in Cards : Place(c)) \/ Take \/ Plug \/ BeginEdit
           \/ (\E v \in Versions : EndEdit(v)) \/ Delete \/ Create
  BY <1>7, <1>8 DEF Place, Take, Plug, BeginEdit, EndEdit, Delete, Create
<1>9. CASE Age \/ Expire \/ TakeEvent \/ Wake \/ UNCHANGED vars
  BY <1>7, <1>9 DEF Age, Expire, TakeEvent, Wake, vars
<1> QED
  BY <1>1, <1>2, <1>3, <1>4, <1>5, <1>6, <1>8, <1>9 DEF Next, Users, Polling

LEMMA OnlyLaunchCounts ==
  ASSUME TypeOK, [Next]_vars, launches' > launches
  PROVE  pc = "launch"
<1> USE DEF TypeOK, users, poller, mappings, seen
<1>1. CASE LaunchCard
  BY <1>1 DEF LaunchCard
<1>2. CASE (\E c \in Cards : Place(c)) \/ Boot
  BY <1>2 DEF Place, Boot
<1>3. CASE Open \/ InitReader \/ PollFails \/ PollNothing \/ PollCard
           \/ Decide
  BY <1>3 DEF Open, InitReader, PollFails, PollNothing, PollCard, Decide
<1>4. CASE Take \/ Plug \/ BeginEdit \/ (\E v \in Versions : EndEdit(v))
           \/ Delete \/ Create
  BY <1>4 DEF Take, Plug, BeginEdit, EndEdit, Delete, Create
<1>7. CASE Disable \/ Enable
  <2>1. launches' = launches
    BY <1>7 DEF Disable, Enable
  <2> QED
    BY <2>1
<1>5. CASE Load \/ AddWatch \/ ReadFlag \/ Die
  BY <1>5 DEF Load, AddWatch, ReadFlag, Die
<1>6. CASE Age \/ Expire \/ TakeEvent \/ Wake \/ UNCHANGED vars
  BY <1>6 DEF Age, Expire, TakeEvent, Wake, vars
<1> QED
  BY <1>1, <1>2, <1>3, <1>4, <1>5, <1>6, <1>7 DEF Next, Users, Polling

\* A card is not launched if launching was disabled all the time since its
\* scan, by a command of this run of the service, or by one of an earlier run
\* that could write the file (main.go:348, :414).
THEOREM DisabledMeansDisabled == Spec => NotWhileDisabled
<1>1. Init => FlagInv
  BY DEF Init, FlagInv, Running
<1>2. TypeOK /\ FlagInv /\ [Next]_vars
        => [launches' > launches => enabled]_vars
  BY OnlyLaunchCounts DEF FlagInv
<1> QED
  BY <1>1, <1>2, FlagKept, NfcTypes, PTL DEF Spec, NotWhileDisabled
=============================================================================
