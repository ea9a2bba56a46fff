--------------------------- MODULE DaemonLifecycle ---------------------------
(***************************************************************************)
(* The processes of onWatch on one machine: the commands that start, stop  *)
(* and update the daemon (main.go, service_cmd.go), the daemon with the    *)
(* update from the dashboard (internal/update/update.go), and what they    *)
(* share: the PID file, the port and the binary.                           *)
(*                                                                         *)
(* The default port is used.  PIDs are not used again.  systemd, launchd   *)
(* and containers, which start and stop the daemon themselves, are left    *)
(* out.  Version 2 is the latest release.                                  *)
(***************************************************************************)
EXTENDS Integers, Sequences

CONSTANTS
    MaxCommands,        \* bound: starts, stops and updates
    MaxDaemonFaults     \* bound: crashes and file operations that fail

ASSUME DaemonAssumption == MaxCommands \in Nat /\ MaxDaemonFaults \in Nat

VARIABLES
    procs,      \* all processes; a PID is an index
    pidFile,    \* the PID in onwatch.pid, or 0
    port,       \* the PID of the process that listens, or 0
    disk,       \* the version of the binary and of its .old copy, or 0
    past        \* history: commands and faults so far, whether two commands
                \* overlapped, and whether the daemon is wanted

daemonVars == <<procs, pidFile, port, disk, past>>

DaemonInit ==
    /\ procs = << >>
    /\ pidFile = 0 /\ port = 0
    /\ disk = [exe |-> 1, old |-> 0]
    /\ past = [commands |-> 0, faults |-> 0, crossed |-> FALSE, wanted |-> FALSE]

-----------------------------------------------------------------------------
(* Processes.  "at" is how far a process has come, "job" the update it does.  *)

Process(at, job) == [at |-> at, job |-> job, version |-> disk.exe, awaits |-> 0]
Gone == [at |-> "gone", job |-> "none", version |-> 0, awaits |-> 0]

Alive(p) == p \in DOMAIN procs /\ procs[p].at # "gone"
Commands == {p \in DOMAIN procs : procs[p].at \in {"stop", "wait", "spawn", "write", "update"}}
Jobs == {p \in DOMAIN procs : Alive(p) /\ procs[p].job # "none"}

\* One more command, which may overlap with others.
Commanded(wanted) ==
    /\ past.commands < MaxCommands
    /\ past' = [past EXCEPT !.commands = @ + 1, !.wanted = wanted,
                            !.crossed = @ \/ Commands # {} \/ Jobs # {}]

\* SIGTERM ends a process that has yet to call signal.Notify.
Signalled(ps, p) ==
    [ps EXCEPT ![p] = IF @.at = "boot" THEN Gone
                      ELSE IF @.at = "serving" THEN [@ EXCEPT !.at = "signalled"] ELSE @]

\* The process to stop: that of the PID file, or else the one on the port.
Previous == IF Alive(pidFile) THEN pidFile ELSE port

\* Timing: what a signal starts (100 ms to the closing of the listener, then
\* two file operations without a pause) does not outlast a sleep of 500 ms.
HalfSecond(p) == p # 0 => procs[p].at \notin {"signalled", "removing"}

Command(at, job, wanted) ==
    /\ disk.exe # 0 /\ Commanded(wanted)
    /\ procs' = Append(procs, Process(at, job))
    /\ UNCHANGED <<pidFile, port, disk>>

-----------------------------------------------------------------------------
(* onwatch and onwatch stop *)

StartCommand == Command("stop", "none", TRUE)

StopPreviousInstance(p) ==
    /\ procs[p].at = "stop"
    /\ LET ps == [procs EXCEPT ![p].awaits = Previous,
                               ![p].at = IF Previous = 0 THEN "spawn" ELSE "wait"]
       IN procs' = IF Previous = 0 THEN ps ELSE Signalled(ps, Previous)
    /\ pidFile' = 0
    /\ UNCHANGED <<port, disk, past>>

\* A bug to detect: it goes on before the daemon it signalled is gone.
SleepNotAtAll(p) ==
    /\ procs[p].at = "wait"
    /\ procs' = [procs EXCEPT ![p].at = "spawn", ![p].awaits = 0]
    /\ UNCHANGED <<pidFile, port, disk, past>>

SleepHalfSecond(p) ==
    /\ procs[p].at = "wait" /\ HalfSecond(procs[p].awaits)
    /\ procs' = [procs EXCEPT ![p].at = "spawn", ![p].awaits = 0]
    /\ UNCHANGED <<pidFile, port, disk, past>>

\* The parent starts the child and then writes the PID of it.
Daemonize(p) ==
    /\ procs[p].at = "spawn"
    /\ \/ /\ disk.exe # 0
          /\ procs' = Append([procs EXCEPT ![p].at = "write", ![p].awaits = Len(procs) + 1],
                             Process("boot", "none"))
          /\ past' = past
       \/ /\ disk.exe = 0
          /\ procs' = [procs EXCEPT ![p] = Gone]
          /\ past' = [past EXCEPT !.wanted = FALSE]
    /\ UNCHANGED <<pidFile, port, disk>>

WriteChildPID(p) ==
    /\ procs[p].at = "write"
    /\ procs' = [procs EXCEPT ![p] = Gone]
    /\ pidFile' = procs[p].awaits
    /\ UNCHANGED <<port, disk, past>>

\* With --debug the process itself becomes the daemon.
Foreground(p) ==
    /\ procs[p].at = "spawn"
    /\ procs' = [procs EXCEPT ![p].at = "boot"]
    /\ pidFile' = p
    /\ UNCHANGED <<port, disk, past>>

RunStop ==
    /\ Previous # 0 \/ pidFile # 0
    /\ procs' = IF Previous = 0 THEN procs ELSE Signalled(procs, Previous)
    /\ pidFile' = 0
    /\ Commanded(FALSE)
    /\ UNCHANGED <<port, disk>>

-----------------------------------------------------------------------------
(* The daemon *)

\* The end of run's start: signals are caught and the server listens; if it
\* cannot, the daemon shuts down as after a signal.
Listen(d) ==
    /\ procs[d].at = "boot"
    /\ IF port = 0
       THEN port' = d /\ procs' = [procs EXCEPT ![d].at = "serving"]
       ELSE port' = port /\ procs' = [procs EXCEPT ![d].at = "signalled"]
    /\ UNCHANGED <<pidFile, disk, past>>

\* server.Shutdown closes the listener, and then waits for open requests.
Shutdown(d) ==
    /\ procs[d].at = "signalled"
    /\ procs' = [procs EXCEPT ![d].at = "closing"]
    /\ port' = IF port = d THEN 0 ELSE port
    /\ UNCHANGED <<pidFile, disk, past>>

\* A bug to detect: the file is removed whomever it names.
RemoveAnyPIDFile(d) ==
    /\ procs[d].at = "closing"
    /\ procs' = [procs EXCEPT ![d].at = "removing"]
    /\ UNCHANGED <<pidFile, port, disk, past>>

\* removePIDFile reads the file ...
ReadPIDFile(d) ==
    /\ procs[d].at = "closing"
    /\ procs' = [procs EXCEPT ![d] = IF pidFile = d THEN [@ EXCEPT !.at = "removing"] ELSE Gone]
    /\ UNCHANGED <<pidFile, port, disk, past>>

\* ... and removes it.
RemovePIDFile(d) ==
    /\ procs[d].at = "removing"
    /\ procs' = [procs EXCEPT ![d] = Gone]
    /\ pidFile' = 0
    /\ UNCHANGED <<port, disk, past>>

DaemonFault == past.faults < MaxDaemonFaults

CrashDaemon(d) ==
    /\ DaemonFault /\ procs[d].at \in {"boot", "serving"}
    /\ procs' = [procs EXCEPT ![d] = Gone]
    /\ port' = IF port = d THEN 0 ELSE port
    /\ past' = [past EXCEPT !.faults = @ + 1, !.wanted = FALSE]
    /\ UNCHANGED <<pidFile, disk>>

-----------------------------------------------------------------------------
(* Updates: by onwatch update, or by the daemon for the dashboard *)

UpdateCommand == Command("update", "check", past.wanted)

\* ApplyUpdate takes no lock: a daemon may be asked again once its update has
\* come to the restart, which waits for a second.
ApplyUpdate(d) ==
    /\ procs[d].at = "serving" /\ procs[d].job = "none"
    /\ procs' = [procs EXCEPT ![d].job = "check"]
    /\ Commanded(past.wanted)
    /\ UNCHANGED <<pidFile, port, disk>>

\* A job that ends takes the command it was with it.
Job(p, job) ==
    [procs EXCEPT ![p] = IF job = "none" /\ @.at = "update" THEN Gone
                         ELSE [@ EXCEPT !.job = job]]

\* Whether a tag is found: GitHub's API, or the redirect of its web site, or,
\* when the API's failure was a passing one, the list of releases.
FetchLatestTag(api, redirect, list) ==
    \/ api = "ok"
    \/ redirect
    \/ api = "transient" /\ list

\* Whether the download comes to its end; it is tried again after a timeout.
DownloadWithRetry(first, again) == first = "ok" \/ (first = "timeout" /\ again)

\* Apply up to the replacement: is the latest release newer than this process,
\* and can it be downloaded, and is what was downloaded a program?
FetchUpdate(p) ==
    /\ Alive(p) /\ procs[p].job = "check"
    /\ \E api \in {"ok", "transient", "refused"}, first \in {"ok", "timeout", "error"},
          redirect, list, again, valid \in BOOLEAN :
          procs' = Job(p, IF /\ FetchLatestTag(api, redirect, list) /\ procs[p].version < 2
                             /\ DownloadWithRetry(first, again) /\ valid
                          THEN "remove" ELSE "none")
    /\ UNCHANGED <<pidFile, port, disk, past>>

\* replaceBinary: the old binary is removed, or else moved aside.
RemoveBinary(p) ==
    /\ Alive(p) /\ procs[p].job = "remove"
    /\ \/ /\ disk.exe # 0
          /\ procs' = Job(p, "place") /\ disk' = [exe |-> 0, old |-> 0] /\ past' = past
       \/ /\ disk.exe = 0
          /\ procs' = Job(p, "none") /\ disk' = [disk EXCEPT !.old = 0] /\ past' = past
       \/ /\ disk.exe # 0 /\ DaemonFault
          /\ procs' = Job(p, "swap") /\ disk' = [exe |-> 0, old |-> disk.exe]
          /\ past' = [past EXCEPT !.faults = @ + 1]
    /\ UNCHANGED <<pidFile, port>>

\* The new binary takes its place; a copy moved aside is put back on failure,
\* and the downloaded file is deleted in any case.
PlaceBinary(p) ==
    /\ Alive(p) /\ procs[p].job \in {"place", "swap"}
    /\ \/ procs' = Job(p, "restart") /\ disk' = [exe |-> 2, old |-> 0] /\ past' = past
       \/ /\ DaemonFault
          /\ procs' = Job(p, "none")
          /\ disk' = IF procs[p].job = "swap" THEN [exe |-> disk.old, old |-> 0] ELSE disk
          /\ past' = [past EXCEPT !.faults = @ + 1]
    /\ UNCHANGED <<pidFile, port>>

\* A bug to detect: the marker of the child is inherited, so that the new
\* process stops nobody.
RestartAsChild(p) ==
    /\ Alive(p) /\ procs[p].job = "restart" /\ procs[p].at # "update"
    /\ \/ /\ disk.exe # 0
          /\ procs' = Append(Job(p, "none"), Process("boot", "none"))
       \/ /\ disk.exe = 0
          /\ procs' = Job(p, "none")
    /\ UNCHANGED <<pidFile, port, disk, past>>

\* Restart of the dashboard's update: a new process, not marked as the child.
Restart(p) ==
    /\ Alive(p) /\ procs[p].job = "restart" /\ procs[p].at # "update"
    /\ \/ /\ disk.exe # 0
          /\ procs' = Append(Job(p, "none"), Process("stop", "none"))
       \/ /\ disk.exe = 0
          /\ procs' = Job(p, "none")
    /\ UNCHANGED <<pidFile, port, disk, past>>

\* restartAfterUpdate of the command: the daemon of the PID file is stopped ...
StopForUpdate(p) ==
    /\ procs[p].at = "update" /\ procs[p].job = "restart"
    /\ LET ps == [Job(p, "start") EXCEPT ![p].awaits = IF Alive(pidFile) THEN pidFile ELSE 0]
       IN procs' = IF Alive(pidFile) THEN Signalled(ps, pidFile) ELSE ps
    /\ UNCHANGED <<pidFile, port, disk, past>>

\* ... and, when it is gone or five seconds have passed, onwatch is run.
StartAfterUpdate(p) ==
    /\ procs[p].at = "update" /\ procs[p].job = "start" /\ HalfSecond(procs[p].awaits)
    /\ \/ /\ disk.exe # 0
          /\ procs' = Append(Job(p, "none"), Process("stop", "none"))
          /\ past' = past
       \/ /\ disk.exe = 0
          /\ procs' = Job(p, "none")
          /\ past' = [past EXCEPT !.wanted = FALSE]
    /\ UNCHANGED <<pidFile, port, disk>>

-----------------------------------------------------------------------------

DaemonSteps ==
    \E p \in DOMAIN procs :
       \/ StopPreviousInstance(p) \/ SleepHalfSecond(p) \/ Daemonize(p) \/ WriteChildPID(p)
       \/ Listen(p) \/ Shutdown(p) \/ ReadPIDFile(p) \/ RemovePIDFile(p)
       \/ FetchUpdate(p) \/ RemoveBinary(p) \/ PlaceBinary(p)
       \/ Restart(p) \/ StopForUpdate(p) \/ StartAfterUpdate(p)

DaemonOutside ==
    \/ StartCommand \/ RunStop \/ UpdateCommand
    \/ \E p \in DOMAIN procs : Foreground(p) \/ ApplyUpdate(p) \/ CrashDaemon(p)

DaemonSpec ==
    DaemonInit /\ [][DaemonSteps \/ DaemonOutside]_daemonVars /\ WF_daemonVars(DaemonSteps)

-----------------------------------------------------------------------------
(* Properties *)

\* Nobody is on the way to becoming the daemon or to replacing it.
Quiet == Commands = {} /\ Jobs = {} /\ \A p \in DOMAIN procs : procs[p].at # "boot"

\* A daemon that took over is named in the PID file, and stays so while the
\* one before it is still shutting down, unless two commands overlapped.
PIDFileNamesServer ==
    Quiet /\ ~past.crossed /\ port # 0 /\ procs[port].at = "serving" => pidFile = port

\* Of a start, however many others and updates run beside it, and unless a stop
\* or a crash follows, some daemon comes to serve for good.
StartedServes == <>[](past.wanted => port # 0)

\* After an update the daemon that serves is of the version on the disk, unless
\* two commands overlapped.
UpdateTakesOver ==
    <>[](port # 0 /\ disk.exe # 0 /\ ~past.crossed => procs[port].version = disk.exe)

\* A failed update leaves the binary or a copy of it.  False: after its removal
\* the new one may fail to take its place, and is then deleted as well.
BinaryIsLeft == (\A p \in Jobs : procs[p].job \notin {"place", "swap"}) => disk.exe # 0
=============================================================================
