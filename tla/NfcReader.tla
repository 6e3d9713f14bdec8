----------------------------- MODULE NfcReader -----------------------------
(***************************************************************************)
(* The service of cmd/nfc: a goroutine polls the reader for a card and     *)
(* launches what is written on it, another follows the file of mappings,   *)
(* and commands that come over a socket turn launching off and on.         *)
(*                                                                         *)
(* A poll lasts six seconds when it finds nothing: it is taken to miss no  *)
(* card that lies on the reader, unless it ends in an input/output error.  *)
(* Times are abstracted to "more than five  *)
(* seconds after the scan" (aged) and "less than one second after the      *)
(* mappings were loaded" (fresh).                                          *)
(***************************************************************************)
EXTENDS Integers, Sequences, SequencesExt

CONSTANTS
  Cards,        \* UIDs
  Ntags,        \* the cards whose read errors pollDevice returns (type NTAG)
  Versions,     \* contents of the file of mappings
  Half,         \* its content while it is being written
  Missing,      \* no such file
  None,
  MaxEnv,       \* bound on what users do: cards, plugs, commands, edits
  MaxBoots      \* bound on the starts of the service

ASSUME NfcConstants ==
  /\ Ntags \subseteq Cards
  /\ None \notin Cards
  /\ {Half, Missing, None} \cap Versions = {} /\ Half # Missing
  /\ MaxEnv \in Nat /\ MaxBoots \in Nat

VARIABLES
  env,          \* how much users have done
  \* the reader: whether it is plugged in, the card on it
  plugged, present,
  \* files: the mappings, and launcherDisabledPath
  file, disabledFile,
  \* the poll goroutine: where it is; activeCard with its text read or not
  boots, pc, active, text, aged,
  disabled,     \* disableLauncher
  \* the mappings: the ones loaded, whether just now; the file's watch, its
  \* events, and what the goroutine that handles them sleeps for
  db, fresh, watch, events, sleep,
  \* for the properties: how often the card was launched since it was placed or
  \* the service started; whether launching must be off, and whether it was
  \* enabled at a time since the last scan; whether the last edit began with
  \* nothing pending
  launches, off, enabled, alone

users == <<env, plugged, present>>
poller == <<boots, pc, active, text, aged>>
mappings == <<db, fresh, watch, events, sleep>>
seen == <<launches, off, enabled, alone>>
vars == <<users, file, disabledFile, poller, disabled, mappings, seen>>

-----------------------------------------------------------------------------
(* Users.                                                                  *)

Do == env < MaxEnv /\ env' = env + 1

Place(c) ==
  /\ Do
  /\ present = None
  /\ present' = c
  /\ launches' = 0
  /\ UNCHANGED <<plugged, file, disabledFile, poller, disabled, mappings,
                 off, enabled, alone>>

Take ==
  /\ Do
  /\ present # None
  /\ present' = None
  /\ UNCHANGED <<plugged, file, disabledFile, poller, disabled, mappings, seen>>

\* The reader is unplugged, or plugged in again.
Plug ==
  /\ Do
  /\ plugged' = ~plugged
  /\ UNCHANGED <<present, file, disabledFile, poller, disabled, mappings, seen>>

\* inotify merges an event into an equal one at the end of the queue.
Notified(event) ==
  IF watch /\ (events = <<>> \/ Last(events) # event)
    THEN Append(events, event) ELSE events

Pending == events # <<>> \/ sleep # "no"
RemovePending == sleep = "remove" \/ "remove" \in Range(events)

\* An editor truncates the file, and then writes it.
BeginEdit ==
  /\ Do
  /\ file \in Versions
  /\ file' = Half
  /\ events' = Notified("write")
  /\ alone' = (watch /\ ~fresh /\ ~Pending)
  /\ UNCHANGED <<plugged, present, disabledFile, poller, disabled, db, fresh,
                 watch, sleep, launches, off, enabled>>

EndEdit(v) ==
  /\ file = Half
  /\ file' = v
  /\ events' = Notified("write")
  /\ UNCHANGED <<users, disabledFile, poller, disabled, db, fresh, watch, sleep,
                 seen>>

\* Or it deletes the file, which ends the watch, and creates it again.
Delete ==
  /\ Do
  /\ file \in Versions
  /\ file' = Missing
  /\ events' = Notified("remove")
  /\ watch' = FALSE
  /\ alone' = (watch /\ ~fresh /\ ~Pending)
  /\ UNCHANGED <<plugged, present, disabledFile, poller, disabled, db, fresh,
                 sleep, launches, off, enabled>>

Create ==
  /\ file = Missing
  /\ file' = Half
  /\ alone' = (alone /\ RemovePending)
  /\ UNCHANGED <<users, disabledFile, poller, disabled, mappings, launches,
                 off, enabled>>

Running == pc \notin {"down", "load", "watch", "flag"}

\* Commands of the socket.  Each sets the flag and writes the file under the
\* mutex; an error of the file is only logged.
Disable ==
  /\ Do
  /\ Running
  /\ disabled' = TRUE
  /\ disabledFile' \in {TRUE, disabledFile}
  /\ off' = TRUE
  /\ UNCHANGED <<plugged, present, file, poller, mappings, launches, enabled,
                 alone>>

Enable ==
  /\ Do
  /\ Running
  /\ disabled' = FALSE
  /\ disabledFile' \in {FALSE, disabledFile}
  /\ off' = FALSE
  /\ enabled' = TRUE
  /\ UNCHANGED <<plugged, present, file, poller, mappings, launches, alone>>

-----------------------------------------------------------------------------
(* Starting and stopping.                                                  *)

Boot ==
  /\ pc = "down"
  /\ boots < MaxBoots
  /\ boots' = boots + 1
  /\ pc' = "load"
  /\ launches' = 0
  /\ UNCHANGED <<users, file, disabledFile, active, text, aged, disabled,
                 mappings, off, enabled, alone>>

\* Mutant: a missing file is loaded as an empty one.
LoadedAlways ==
  /\ db' = file
  /\ fresh' = TRUE

\* loadDatabase: a file that is half written may parse, or may not.
Loaded ==
  \/ /\ file # Missing
     /\ db' = file
     /\ fresh' = TRUE
  \/ /\ file \in {Half, Missing}
     /\ UNCHANGED <<db, fresh>>

Load ==
  /\ pc = "load"
  /\ Loaded
  /\ pc' = "watch"
  /\ alone' = FALSE
  /\ UNCHANGED <<users, file, disabledFile, boots, active, text, aged, disabled,
                 watch, events, sleep, launches, off, enabled>>

AddWatch ==
  /\ pc = "watch"
  /\ watch' = (file # Missing)
  /\ pc' = "flag"
  /\ UNCHANGED <<users, file, disabledFile, boots, active, text, aged, disabled,
                 db, fresh, events, sleep, seen>>

\* Mutant: the file of the flag is not looked at.
ForgetFlag ==
  /\ pc = "flag"
  /\ pc' = "open"
  /\ UNCHANGED <<users, file, disabledFile, boots, active, text, aged, disabled,
                 mappings, seen>>

\* Launching stays off across a restart.  Then the poll goroutine starts.
ReadFlag ==
  /\ pc = "flag"
  /\ disabled' = disabledFile
  /\ pc' = "open"
  /\ UNCHANGED <<users, file, disabledFile, boots, active, text, aged, mappings,
                 seen>>

\* The service is stopped, or killed, wherever it is.  That launching is off
\* outlives it if the file could be written.
Die ==
  /\ pc # "down"
  /\ pc' = "down"
  /\ active' = None /\ text' = FALSE /\ aged' = FALSE
  /\ disabled' = FALSE
  /\ db' = None /\ fresh' = FALSE /\ watch' = FALSE /\ events' = <<>>
  /\ sleep' = "no"
  /\ off' = (off /\ disabledFile)
  /\ UNCHANGED <<users, file, disabledFile, boots, launches, enabled, alone>>

-----------------------------------------------------------------------------
(* The poll goroutine.                                                     *)

Goto(place) ==
  /\ pc' = place
  /\ UNCHANGED <<users, file, disabledFile, boots, disabled, mappings, off,
                 alone>>

\* openDeviceWithRetries gives up in the end, at once if there is no reader, and
\* the goroutine ends for good.
Open ==
  /\ pc = "open"
  /\ \E opened \in BOOLEAN :
       /\ opened => plugged
       /\ Goto(IF opened THEN "init" ELSE "ended")
  /\ UNCHANGED <<active, text, aged, launches, enabled>>

\* So it does when the reader that it opened cannot be initialised, as when it
\* was unplugged since.
InitReader ==
  /\ pc = "init"
  /\ \E ready \in BOOLEAN :
       /\ ready => plugged
       /\ Goto(IF ready THEN "poll" ELSE "ended")
  /\ UNCHANGED <<active, text, aged, launches, enabled>>

\* An input/output error, always without a reader and at times with one: the
\* device is opened again.
PollFails ==
  /\ pc = "poll"
  /\ Goto("open")
  /\ UNCHANGED <<active, text, aged, launches, enabled>>

\* No card: the active one is forgotten, not before its time.
PollNothing ==
  /\ pc = "poll" /\ plugged /\ present = None
  /\ active # None /\ aged
  /\ active' = None /\ text' = FALSE /\ aged' = FALSE
  /\ Goto("poll")
  /\ UNCHANGED <<launches, enabled>>

\* Mutant: a read error of any card leaves it without text.
ReadAnyway(c, readable) == TRUE

\* A read error of an NTAG leaves everything for the next poll, one of another
\* card leaves that card without text.
ReadCounts(c, readable) == readable \/ c \notin Ntags

\* A card that is not the active one is read, and becomes the active one.
PollCard ==
  /\ pc = "poll" /\ plugged
  /\ present \notin {None, active}
  /\ \E readable \in BOOLEAN :
       /\ ReadCounts(present, readable)
       /\ text' = readable
  /\ active' = present
  /\ aged' = FALSE
  /\ enabled' = ~off
  /\ Goto("decide")
  /\ UNCHANGED launches

Decide ==
  /\ pc = "decide"
  /\ Goto(IF disabled THEN "poll" ELSE "launch")
  /\ UNCHANGED <<active, text, aged, launches, enabled>>

Launches == IF active = present /\ text THEN launches + 1 ELSE launches

\* Mutant: an error of the launch makes the goroutine forget the card.
LaunchAndForget ==
  /\ pc = "launch"
  /\ \E fails \in BOOLEAN : active' = IF fails THEN None ELSE active
  /\ launches' = Launches
  /\ Goto("poll")
  /\ UNCHANGED <<text, aged, enabled>>

\* launchCard: without a text nothing is launched.  (What the mappings change
\* in the text is left out.)  Errors are only logged.
LaunchCard ==
  /\ pc = "launch"
  /\ launches' = Launches
  /\ Goto("poll")
  /\ UNCHANGED <<active, text, aged, enabled>>

-----------------------------------------------------------------------------
(* Time, and the goroutine of the mappings.                                *)

Age ==
  /\ active # None /\ ~aged
  /\ aged' = TRUE
  /\ UNCHANGED <<users, file, disabledFile, boots, pc, active, text, disabled,
                 mappings, seen>>

Expire ==
  /\ fresh
  /\ fresh' = FALSE
  /\ UNCHANGED <<users, file, disabledFile, poller, disabled, db, watch, events,
                 sleep, seen>>

\* It takes an event when it is not asleep: a write within a second of the
\* last load is ignored.
TakeEvent ==
  /\ events # <<>>
  /\ sleep = "no"
  /\ events' = Tail(events)
  /\ sleep' = IF Head(events) = "write" /\ fresh THEN "no" ELSE Head(events)
  /\ UNCHANGED <<users, file, disabledFile, poller, disabled, db, fresh, watch,
                 seen>>

\* Mutant: the file is loaded at once, without the sleep.
LoadAtOnce ==
  /\ sleep # "no"
  /\ sleep' = "no"
  /\ Loaded
  /\ watch' = (watch \/ (sleep = "remove" /\ file # Missing))
  /\ UNCHANGED <<users, file, disabledFile, poller, disabled, events, seen>>

\* After a second the file is loaded: an edit that began with nothing pending
\* is over by then.  A file that was deleted is watched again if it is back.
Wake ==
  /\ sleep # "no"
  /\ ~(alone /\ file = Half)
  /\ sleep' = "no"
  /\ Loaded
  /\ watch' = (watch \/ (sleep = "remove" /\ file # Missing))
  /\ UNCHANGED <<users, file, disabledFile, poller, disabled, events, seen>>

-----------------------------------------------------------------------------
Init ==
  /\ env = 0 /\ plugged = TRUE /\ present = None
  /\ file \in Versions \cup {Missing} /\ disabledFile = FALSE
  /\ boots = 0 /\ pc = "down" /\ active = None /\ text = FALSE /\ aged = FALSE
  /\ disabled = FALSE
  /\ db = None /\ fresh = FALSE /\ watch = FALSE /\ events = <<>>
  /\ sleep = "no"
  /\ launches = 0 /\ off = FALSE /\ enabled = TRUE /\ alone = FALSE

Users ==
  \/ \E c \in Cards : Place(c)
  \/ Take \/ Plug
  \/ BeginEdit \/ (\E v \in Versions : EndEdit(v)) \/ Delete \/ Create
  \/ Disable \/ Enable

Polling ==
  \/ Open \/ InitReader \/ PollFails \/ PollNothing \/ PollCard
  \/ Decide \/ LaunchCard

Next ==
  \/ Users
  \/ Boot \/ Load \/ AddWatch \/ ReadFlag \/ Die
  \/ Polling
  \/ Age \/ Expire
  \/ TakeEvent \/ Wake

Spec == Init /\ [][Next]_vars

\* The service's goroutines run, an editor finishes what it writes, and among
\* ever more polls of a card there is one that reads it without an error.
Fairness ==
  /\ WF_vars(Load \/ AddWatch \/ ReadFlag)
  /\ WF_vars(Open \/ InitReader \/ PollNothing \/ Decide \/ LaunchCard)
  /\ WF_vars(PollFails /\ ~plugged)
  /\ SF_vars(PollCard)
  /\ WF_vars(Age)
  /\ WF_vars(TakeEvent)
  /\ WF_vars(Wake)
  /\ WF_vars(Create \/ \E v \in Versions : EndEdit(v))

FairSpec == Spec /\ Fairness

-----------------------------------------------------------------------------
TypeOK ==
  /\ env \in 0..MaxEnv /\ boots \in 0..MaxBoots
  /\ plugged \in BOOLEAN /\ disabledFile \in BOOLEAN /\ disabled \in BOOLEAN
  /\ text \in BOOLEAN /\ aged \in BOOLEAN /\ fresh \in BOOLEAN
  /\ watch \in BOOLEAN /\ alone \in BOOLEAN
  /\ off \in BOOLEAN /\ enabled \in BOOLEAN
  /\ present \in Cards \cup {None} /\ active \in Cards \cup {None}
  /\ active = None => ~text
  /\ file \in Versions \cup {Half, Missing} /\ db \in Versions \cup {Half, None}
  /\ pc \in {"down", "load", "watch", "flag", "open", "init", "poll",
             "decide", "launch", "ended"}
  /\ sleep \in {"no", "write", "remove"}
  /\ events \in Seq({"write", "remove"})
  /\ launches \in Nat

\* A card that lies on the reader is launched once, however often it is polled,
\* whatever its launch or a read of it gives, and also if the reader is
\* unplugged under it.  (main.go:168 and :409 compare with the active card.)
LaunchedOnce == launches <= 1

\* A card is not launched if launching was disabled all the time since its
\* scan: by a command of this run of the service, or by one of an earlier run if
\* the file could be written then, for that outlives the service (main.go:348,
\* :414).
NotWhileDisabled == [][launches' > launches => enabled]_vars

\* A card whose read errors are returned is launched in the end, after
\* whatever misreads and input/output errors, if it is not the active one and
\* stays on the reader, and the reader stays plugged in and launching enabled
\* (main.go:189); unless the goroutine ends, which a reader that cannot be
\* opened or initialised makes it do, and then no card is ever launched again
\* in this run (main.go:358, :371).
CardLaunched ==
  \A c \in Ntags :
    (/\ Running /\ pc # "ended" /\ plugged /\ ~disabled
     /\ present = c /\ active # c)
    ~> (\/ launches > 0
        \/ ~Running \/ pc = "ended"
        \/ ~plugged \/ disabled \/ present # c)

\* An edit that begins a second after the last load, with nothing pending, is
\* loaded in the end, whether the file is rewritten or deleted and created
\* (main.go:301).
EditFollowed ==
  \A v \in Versions :
    (Running /\ alone /\ file = v) ~> (db = v \/ file # v \/ ~Running)
=============================================================================
