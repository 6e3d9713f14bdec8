------------------------------ MODULE Service ------------------------------
(***************************************************************************)
(* The daemons of pkg/service: the "-service" commands start, stop and     *)
(* restart of one service, the pid file they find it by, the copy of the   *)
(* program in /tmp that the daemon is executed from, and the daemon's      *)
(* process from its own check of the pid file to its exit.                 *)
(*                                                                         *)
(* Linux refuses to open a file for writing while it is being executed,    *)
(* and to execute one that is open for writing (ETXTBSY).  No code here    *)
(* says so, but the commands depend on it.  Every service of the           *)
(* repository is a daemon (NoDaemon is never set).                         *)
(***************************************************************************)
EXTENDS FiniteSets

CONSTANTS
  Pids,     \* process ids of daemons
  Cmds,     \* commands that may be running at the same time
  None,     \* no pid
  Missing,  \* no pid file
  Empty,    \* the pid file just after os.WriteFile has truncated it
  Faults    \* the faults that may happen, a subset of FaultKinds

\* A command may be interrupted, a daemon killed, the service's entry
\* function or its stop function may fail.
FaultKinds == {"interrupt", "kill", "entry", "stop"}

ASSUME ServiceConstants ==
  /\ Faults \subseteq FaultKinds
  /\ {None, Missing, Empty} \cap Pids = {}

VARIABLES
  proc,     \* proc[p]: where the daemon p is
  term,     \* daemons with a SIGTERM in the channel of setupStopService
  pidFile,
  tmpFile,  \* whether the copy in /tmp exists
  runs,     \* processes executing the file that is now there
  writers,  \* commands that have it open for writing
  cmd,      \* cmd[c]: where the command is
  restart,  \* commands that are in Restart
  target    \* target[c]: the pid that Stop has read

vars == <<proc, term, pidFile, tmpFile, runs, writers, cmd, restart, target>>

daemon == <<proc, term, pidFile, tmpFile, runs>>
command == <<writers, cmd, restart, target>>

Alive(p) == proc[p] # "dead"

\* Running: the pid file names a process that accepts signal 0.  Pid fails on
\* an empty file.
Running == pidFile \in Pids /\ Alive(pidFile)

Goto(p, place) == proc' = [proc EXCEPT ![p] = place]

\* The process ends.  Its parent, the command, has exited: init reaps it.
Die(p) ==
  /\ Goto(p, "dead")
  /\ term' = term \ {p}
  /\ runs' = runs \ {p}

-----------------------------------------------------------------------------
(* Commands.                                                               *)

CmdGoto(c, place) == cmd' = [cmd EXCEPT ![c] = place]

Command(c, place) ==
  /\ cmd[c] = "idle"
  /\ CmdGoto(c, place)
  /\ UNCHANGED <<daemon, writers, target>>

RunStart(c) == Command(c, "start") /\ UNCHANGED restart

RunStop(c) == Command(c, "stop") /\ UNCHANGED restart

\* Restart begins with Stop, or goes straight to its loop.
RunRestart(c) ==
  /\ Command(c, IF Running THEN "stop" ELSE "wait")
  /\ restart' = restart \cup {c}

\* The command ends, in success or with an error message.
End(c) == CmdGoto(c, "idle") /\ restart' = restart \ {c}

\* Start: nothing to do if the service is running.
StartCheck(c) ==
  /\ cmd[c] = "start"
  /\ IF Running THEN End(c) ELSE CmdGoto(c, "open") /\ UNCHANGED restart
  /\ UNCHANGED <<daemon, writers, target>>

\* Mutant: the temporary binary is replaced by a rename, never busy.
StartOpenAnyway(c) ==
  /\ cmd[c] = "open"
  /\ tmpFile' = TRUE
  /\ runs' = {}
  /\ writers' = {c}
  /\ CmdGoto(c, "copy")
  /\ UNCHANGED <<proc, term, pidFile, restart, target>>

\* The temporary binary is opened and truncated, unless it is being executed.
StartOpen(c) ==
  /\ cmd[c] = "open"
  /\ IF runs # {}
       THEN End(c) /\ UNCHANGED <<tmpFile, writers>>
       ELSE /\ tmpFile' = TRUE
            /\ writers' = writers \cup {c}
            /\ CmdGoto(c, "copy")
            /\ UNCHANGED restart
  /\ UNCHANGED <<proc, term, pidFile, runs, target>>

\* It is copied and closed.
StartCopy(c) ==
  /\ cmd[c] = "copy"
  /\ writers' = writers \ {c}
  /\ CmdGoto(c, "exec")
  /\ UNCHANGED <<daemon, restart, target>>

\* It is executed, and the command returns without waiting for it.  The new
\* process gets a pid that no process, file or command has.
StartExec(c) ==
  /\ cmd[c] = "exec"
  /\ End(c)
  /\ IF tmpFile /\ writers = {}
       THEN \E p \in Pids :
              /\ ~Alive(p)
              /\ pidFile # p
              /\ \A d \in Cmds : target[d] # p
              /\ Goto(p, "check")
              /\ runs' = runs \cup {p}
       ELSE UNCHANGED <<proc, runs>>
  /\ UNCHANGED <<term, pidFile, tmpFile, writers, target>>

\* Stop checks, and reads the pid file once more.
StopCheck(c) ==
  /\ cmd[c] = "stop"
  /\ IF Running THEN CmdGoto(c, "read") /\ UNCHANGED restart ELSE End(c)
  /\ UNCHANGED <<daemon, writers, target>>

\* Mutant: a missing pid file is not told from a pid.
StopReadAny(c) ==
  /\ cmd[c] = "read"
  /\ target' = [target EXCEPT ![c] = pidFile]
  /\ CmdGoto(c, "signal")
  /\ UNCHANGED <<daemon, writers, restart>>

StopRead(c) ==
  /\ cmd[c] = "read"
  /\ IF pidFile = Empty
       THEN End(c) /\ UNCHANGED target
       ELSE /\ target' = [target EXCEPT
                            ![c] = IF pidFile = Missing THEN None ELSE pidFile]
            /\ CmdGoto(c, "signal")
            /\ UNCHANGED restart
  /\ UNCHANGED <<daemon, writers>>

\* SIGTERM kills a process that has not called signal.Notify yet.
Terminate(p) ==
  CASE proc[p] \in {"check", "truncate", "write", "entry", "failed", "notify"}
         -> Die(p)
    [] proc[p] \in {"set", "running"}
         -> term' = term \cup {p} /\ UNCHANGED <<proc, runs>>
    [] OTHER -> UNCHANGED <<proc, term, runs>>

\* Then it signals the process, unless it is gone.  Restart then waits.
StopSignal(c) ==
  /\ cmd[c] = "signal"
  /\ target' = [target EXCEPT ![c] = None]
  /\ IF target[c] \in Pids /\ Alive(target[c])
       THEN /\ Terminate(target[c])
            /\ CmdGoto(c, IF c \in restart THEN "wait" ELSE "idle")
            /\ UNCHANGED restart
       ELSE End(c) /\ UNCHANGED <<proc, term, runs>>
  /\ UNCHANGED <<pidFile, tmpFile, writers>>

\* Restart polls until the service is not running, then starts it.
RestartWait(c) ==
  /\ cmd[c] = "wait"
  /\ ~Running
  /\ CmdGoto(c, "start")
  /\ UNCHANGED <<daemon, writers, restart, target>>

\* The user interrupts the command; the kernel closes its file.
Interrupt(c) ==
  /\ "interrupt" \in Faults
  /\ cmd[c] # "idle"
  /\ End(c)
  /\ writers' = writers \ {c}
  /\ target' = [target EXCEPT ![c] = None]
  /\ UNCHANGED daemon

CommandStep(c) ==
  \/ StartCheck(c) \/ StartOpen(c) \/ StartCopy(c) \/ StartExec(c)
  \/ StopCheck(c) \/ StopRead(c) \/ StopSignal(c)
  \/ RestartWait(c)

-----------------------------------------------------------------------------
(* The daemon.                                                             *)

\* startService: another daemon may have won.
Check(p) ==
  /\ proc[p] = "check"
  /\ IF Running THEN Die(p) ELSE Goto(p, "truncate") /\ UNCHANGED <<term, runs>>
  /\ UNCHANGED <<pidFile, tmpFile, command>>

\* createPidFile, in the two steps of os.WriteFile.
Truncate(p) ==
  /\ proc[p] = "truncate"
  /\ pidFile' = Empty
  /\ Goto(p, "write")
  /\ UNCHANGED <<term, tmpFile, runs, command>>

Write(p) ==
  /\ proc[p] = "write"
  /\ pidFile' = p
  /\ Goto(p, "entry")
  /\ UNCHANGED <<term, tmpFile, runs, command>>

\* The entry function starts the service; it may return an error, and some
\* call os.Exit themselves.
Enter(p) ==
  /\ proc[p] = "entry"
  /\ \/ Goto(p, "notify") /\ UNCHANGED <<term, runs>>
     \/ "entry" \in Faults /\ Goto(p, "failed") /\ UNCHANGED <<term, runs>>
     \/ "entry" \in Faults /\ Die(p)
  /\ UNCHANGED <<pidFile, tmpFile, command>>

\* After an error the pid file is removed, whosever it is.
Fail(p) ==
  /\ proc[p] = "failed"
  /\ pidFile' = Missing
  /\ Die(p)
  /\ UNCHANGED <<tmpFile, command>>

\* setupStopService, and then the assignment to s.stop.
Notify(p) ==
  /\ proc[p] = "notify"
  /\ Goto(p, "set")
  /\ UNCHANGED <<term, pidFile, tmpFile, runs, command>>

SetStop(p) ==
  /\ proc[p] = "set"
  /\ Goto(p, "running")
  /\ UNCHANGED <<term, pidFile, tmpFile, runs, command>>

\* The goroutine of setupStopService receives the signal and calls s.stop,
\* which is a call of nil, and a panic, before SetStop.
TakeSignal(p) ==
  /\ p \in term
  /\ \/ proc[p] = "set" /\ Die(p)
     \/ /\ proc[p] = "running"
        /\ Goto(p, "stopping")
        /\ term' = term \ {p}
        /\ UNCHANGED runs
  /\ UNCHANGED <<pidFile, tmpFile, command>>

\* Mutant: after an error the process goes on.
StoppedOrOn(p) ==
  /\ proc[p] = "stopping"
  /\ Goto(p, "unlink") \/ ("stop" \in Faults /\ Goto(p, "running"))
  /\ UNCHANGED <<term, runs, pidFile, tmpFile, command>>

\* stopService: s.stop returns.  On an error the process exits at once.
Stopped(p) ==
  /\ proc[p] = "stopping"
  /\ \/ Goto(p, "unlink") /\ UNCHANGED <<term, runs>>
     \/ "stop" \in Faults /\ Die(p)
  /\ UNCHANGED <<pidFile, tmpFile, command>>

\* removePidFile, which fails if there is none; the process then exits.
RemovePidFile(p) ==
  /\ proc[p] = "unlink"
  /\ pidFile' = Missing
  /\ IF pidFile = Missing
       THEN Die(p)
       ELSE Goto(p, "cleanup") /\ UNCHANGED <<term, runs>>
  /\ UNCHANGED <<tmpFile, command>>

\* The temporary binary is removed by its name.
RemoveBinary(p) ==
  /\ proc[p] = "cleanup"
  /\ Goto(p, "exit")
  /\ tmpFile' = FALSE
  /\ runs' = {}
  /\ writers' = {}
  /\ UNCHANGED <<term, pidFile, cmd, restart, target>>

Exit(p) ==
  /\ proc[p] = "exit"
  /\ Die(p)
  /\ UNCHANGED <<pidFile, tmpFile, command>>

\* The process is killed or dies of a panic of its own.
Kill(p) ==
  /\ "kill" \in Faults
  /\ Alive(p)
  /\ Die(p)
  /\ UNCHANGED <<pidFile, tmpFile, command>>

DaemonStep(p) ==
  \/ Check(p) \/ Truncate(p) \/ Write(p) \/ Enter(p) \/ Fail(p)
  \/ Notify(p) \/ SetStop(p) \/ TakeSignal(p)
  \/ Stopped(p) \/ RemovePidFile(p) \/ RemoveBinary(p) \/ Exit(p)

-----------------------------------------------------------------------------
Init ==
  /\ proc = [p \in Pids |-> "dead"]
  /\ term = {}
  /\ pidFile = Missing
  /\ tmpFile = FALSE
  /\ runs = {}
  /\ writers = {}
  /\ cmd = [c \in Cmds |-> "idle"]
  /\ restart = {}
  /\ target = [c \in Cmds |-> None]

Next ==
  \/ \E c \in Cmds : RunStart(c) \/ RunStop(c) \/ RunRestart(c)
  \/ \E c \in Cmds : CommandStep(c) \/ Interrupt(c)
  \/ \E p \in Pids : DaemonStep(p) \/ Kill(p)

Spec == Init /\ [][Next]_vars

\* Processes run.  Nothing forces a command to be given, or a fault.
Fairness ==
  /\ \A c \in Cmds : WF_vars(CommandStep(c))
  /\ \A p \in Pids : WF_vars(DaemonStep(p))

FairSpec == Spec /\ Fairness

-----------------------------------------------------------------------------
\* The entry function has been called, and the stop function has not returned.
Serving(p) == proc[p] \in {"entry", "notify", "set", "running", "stopping"}

TypeOK ==
  /\ proc \in [Pids -> {"check", "truncate", "write", "entry",
                        "failed", "notify", "set", "running", "stopping",
                        "unlink", "cleanup", "exit", "dead"}]
  /\ term \subseteq Pids
  /\ pidFile \in Pids \cup {Missing, Empty}
  /\ tmpFile \in BOOLEAN
  /\ runs \subseteq Pids
  /\ writers \subseteq Cmds
  /\ cmd \in [Cmds -> {"idle", "start", "open", "copy", "exec", "stop", "read",
                       "signal", "wait"}]
  /\ restart \subseteq Cmds
  /\ target \in [Cmds -> Pids \cup {None}]

\* The service never runs twice (service.go: "service already running"): as
\* long as commands come one after the other, no two daemons are past their
\* entry at once, whatever is killed, interrupted or fails in between.
OneService == \A p, q \in Pids : Serving(p) /\ Serving(q) => p = q

\* A command that has signalled the daemon ends: the loop of a Restart that
\* has stopped the service does not wait forever.
SignalledEnds == \A c \in Cmds : cmd[c] = "signal" ~> cmd[c] = "idle"

\* docs/remote-api.md: "Restart the Remote service. Used for reloading after
\* an update": a Restart that signals the daemon executes a new one.
RestartComesBack ==
  \A c \in Cmds :
    (cmd[c] = "signal" /\ c \in restart)
      ~> \E p \in Pids : proc[p] = "check"
=============================================================================
