---------------------------- MODULE SettingsProofs ----------------------------
(***************************************************************************)
(* Machine-checked proofs about what the user changes while the daemon     *)
(* runs: the daemon itself (DaemonLifecycle), the accounts of MiniMax      *)
(* (MiniMaxAccounts), the passwords (SmtpSettings) and the profiles of     *)
(* Codex (CodexProfiles), for any number of commands, requests, crashes    *)
(* and failing calls.  The parts share no state, and each has an inductive *)
(* invariant of its own.                                                   *)
(***************************************************************************)
EXTENDS CodexProfiles, DaemonLifecycle, MiniMaxAccounts, SmtpSettings,
        WellFoundedInduction, TLAPS

(***************************************************************************)
(* The daemon.  That the PID file names the server is a property of states *)
(* in which nothing is under way.  The invariant says what holds between   *)
(* the steps of a command, of an update and of a daemon that is leaving:   *)
(* who has the port, whom the file names, and who will remove or write it. *)
(***************************************************************************)

\* The places of a command and of a daemon, the steps of an update, a process and
\* the history.
CommandPlaces == {"stop", "wait", "spawn", "write", "update"}
DaemonPlaces == {"boot", "serving", "signalled", "closing", "removing", "gone"}
Works == {"none", "check", "remove", "place", "swap", "restart", "start"}
Proc == [at : CommandPlaces \cup DaemonPlaces, job : Works, version : 0 .. 2, awaits : Nat]
Past == [commands : Nat, faults : Nat, crossed : BOOLEAN, wanted : BOOLEAN]

\* The processes so far, each of which awaits none or one of them.
Table == {ps \in Seq(Proc) : \A p \in DOMAIN ps : ps[p].awaits <= Len(ps)}

DaemonTypeOK ==
    /\ procs \in Table
    /\ pidFile \in 0 .. Len(procs) /\ port \in 0 .. Len(procs)
    /\ disk \in [exe : 0 .. 2, old : 0 .. 2]
    /\ past \in Past

\* A process that is a command, or that does an update.
Busy(p) == procs[p].at \in CommandPlaces \/ procs[p].job # "none"

\* One process at most is at that.
OneBusy == \A p, q \in DOMAIN procs : Busy(p) /\ Busy(q) => p = q

\* An update is done by its command or by the daemon, and the former restarts it.
JobsOK ==
    \A p \in DOMAIN procs :
       /\ procs[p].job # "none" => procs[p].at \in {"update", "serving"}
       /\ procs[p].job = "start" => procs[p].at = "update"

\* The child that a start is about to write down.
Announced(d) == \E p \in DOMAIN procs : procs[p].at = "write" /\ procs[p].awaits = d

\* The file names the daemon, or will.
Named(d) == pidFile = d \/ Announced(d)

\* A daemon that is about to listen finds the port free.
BootsOK == \A d \in DOMAIN procs : procs[d].at = "boot" => port = 0 /\ Named(d)

\* A daemon that serves has the port.
ServesOK == \A d \in DOMAIN procs : procs[d].at = "serving" => port = d /\ Named(d)

\* Who has the port serves or is asked to leave, and nobody else is in the file.
PortOK == port # 0 => procs[port].at \in {"serving", "signalled"} /\ pidFile \in {0, port}

\* The file names a daemon, which may have gone.
PidOK == pidFile # 0 => procs[pidFile].at \in DaemonPlaces

\* A command has removed the file, then waits until the port is free, and writes
\* down the child that it has started.
StartsOK ==
    \A p \in DOMAIN procs :
       /\ procs[p].at \in {"wait", "spawn", "write"} => pidFile = 0
       /\ procs[p].at = "wait" => port = 0 \/ (port = procs[p].awaits /\ procs[port].at = "signalled")
       /\ procs[p].at = "spawn" => port = 0
       /\ procs[p].at = "write" =>
             /\ procs[p].awaits \in DOMAIN procs /\ procs[procs[p].awaits].at \in {"boot", "serving", "gone"}
             /\ port \in {0, procs[p].awaits}

\* An update has stopped r, and waits for it.
Replaced(r) == \E p \in DOMAIN procs : procs[p].job = "start" /\ procs[p].awaits = r

\* A command is about to stop the daemon in the file.
NextStops == \E p \in DOMAIN procs : procs[p].at = "stop"

\* A daemon that leaves while it is in the file is being replaced.
LeavingOK ==
    pidFile # 0 /\ procs[pidFile].at \in {"signalled", "closing", "removing"}
       => NextStops \/ Replaced(pidFile)

\* Whoever is about to remove the file removes its own, or none.
RemovingOK ==
    \A r \in DOMAIN procs : procs[r].at = "removing" =>
       \/ pidFile = r
       \/ pidFile = 0 /\ \E p \in DOMAIN procs : procs[p].at = "wait" /\ procs[p].awaits = r

\* A new binary is in place when the daemon is started anew.
DiskOK == \A p \in DOMAIN procs : procs[p].job \in {"restart", "start"} => disk.exe # 0

\* What holds as long as commands and updates follow one another.
InTurn ==
    /\ DiskOK /\ OneBusy /\ JobsOK /\ BootsOK /\ ServesOK /\ PortOK /\ PidOK /\ StartsOK
    /\ LeavingOK /\ RemovingOK

\* The invariant of the daemon.
DaemonInv == DaemonTypeOK /\ (~past.crossed => InTurn)

-----------------------------------------------------------------------------

\* Where a process may be.
Places == CommandPlaces \cup DaemonPlaces

\* Putting a process into the table of processes, and adding one.
LEMMA PutProcess ==
  ASSUME NEW ps \in Table, NEW p \in DOMAIN ps, NEW c \in Proc, c.awaits <= Len(ps), NEW qs,
         qs = [ps EXCEPT ![p] = c]
  PROVE  /\ qs \in Table /\ Len(qs) = Len(ps) /\ DOMAIN qs = DOMAIN ps
         /\ qs[p] = c /\ \A q \in DOMAIN ps \ {p} : qs[q] = ps[q]
<1>1. ps \in Seq(Proc) /\ \A q \in DOMAIN ps : ps[q].awaits <= Len(ps)
  BY DEF Table
<1>2. /\ qs \in Seq(Proc) /\ Len(qs) = Len(ps) /\ DOMAIN qs = DOMAIN ps
      /\ qs[p] = c /\ \A q \in DOMAIN ps \ {p} : qs[q] = ps[q]
  BY <1>1
<1>3. QED
  BY <1>1, <1>2 DEF Table

\* A process that starts is one more of them.
LEMMA AddProcess ==
  ASSUME NEW ps \in Table, NEW c \in Proc, c.awaits <= Len(ps)
  PROVE  /\ Append(ps, c) \in Table /\ Len(Append(ps, c)) = Len(ps) + 1
         /\ DOMAIN Append(ps, c) = DOMAIN ps \cup {Len(ps) + 1} /\ Len(ps) + 1 \notin DOMAIN ps
         /\ Append(ps, c)[Len(ps) + 1] = c /\ \A q \in DOMAIN ps : Append(ps, c)[q] = ps[q]
<1> DEFINE qs == Append(ps, c)
<1>1. /\ ps \in Seq(Proc) /\ Len(ps) \in Nat /\ DOMAIN ps = 1 .. Len(ps)
      /\ \A q \in DOMAIN ps : ps[q].awaits <= Len(ps)
  BY DEF Table
<1>2. /\ qs \in Seq(Proc) /\ Len(qs) = Len(ps) + 1 /\ DOMAIN qs = 1 .. Len(ps) + 1
      /\ qs[Len(ps) + 1] = c /\ \A q \in DOMAIN ps : qs[q] = ps[q]
  BY <1>1
<1> HIDE DEF qs
<1>3. \A q \in DOMAIN ps : ps[q] \in Proc
  BY <1>1
<1>4. \A q \in DOMAIN ps : ps[q].awaits \in Nat
  BY <1>3 DEF Proc
<1>5. c.awaits \in Nat
  BY DEF Proc
<1>6. \A q \in DOMAIN qs : qs[q].awaits <= Len(ps) + 1
  <2>1. \A q \in DOMAIN qs : q \in DOMAIN ps \/ q = Len(ps) + 1
    BY <1>1, <1>2
  <2>2. QED
    BY <1>1, <1>2, <1>4, <1>5, <2>1
<1>7. qs \in Table
  BY <1>2, <1>6 DEF Table
<1>8. DOMAIN qs = DOMAIN ps \cup {Len(ps) + 1} /\ Len(ps) + 1 \notin DOMAIN ps
  BY <1>1, <1>2
<1>9. QED
  BY <1>2, <1>7, <1>8 DEF qs

\* What is started is a process.
LEMMA NewProcess ==
  ASSUME DaemonTypeOK, NEW at \in Places, NEW job \in Works
  PROVE  /\ Process(at, job) \in Proc /\ Process(at, job).at = at /\ Process(at, job).job = job
         /\ Process(at, job).awaits = 0
  BY DEF DaemonTypeOK, Process, Proc, Places

\* A process that has exited does no work and awaits none.
LEMMA GoneProcess == Gone \in Proc /\ Gone.at = "gone" /\ Gone.job = "none" /\ Gone.awaits = 0
  BY DEF Gone, Proc, DaemonPlaces, Works

\* A process that has come to another place, or whose update has.
LEMMA MovedProcess ==
  ASSUME NEW c \in Proc, NEW at \in Places
  PROVE  LET d == [c EXCEPT !.at = at] IN
         d \in Proc /\ d.at = at /\ d.job = c.job /\ d.awaits = c.awaits
  BY DEF Proc, Places

\* A daemon that takes up a step of an update stays a process.
LEMMA EmployedProcess ==
  ASSUME NEW c \in Proc, NEW job \in Works
  PROVE  LET d == [c EXCEPT !.job = job] IN
         d \in Proc /\ d.at = c.at /\ d.job = job /\ d.awaits = c.awaits
  BY DEF Proc

\* A command that waits for a process stays a process.
LEMMA WaitingProcess ==
  ASSUME NEW c \in Proc, NEW n \in Nat
  PROVE  LET d == [c EXCEPT !.awaits = n] IN
         d \in Proc /\ d.at = c.at /\ d.job = c.job /\ d.awaits = n
  BY DEF Proc

\* A process that is sent a signal.
Hit(c) ==
    IF c.at = "boot" THEN Gone
    ELSE IF c.at = "serving" THEN [c EXCEPT !.at = "signalled"] ELSE c

\* A process that a signal hits stays one, and does no more than before.
LEMMA HitProcess ==
  ASSUME NEW c \in Proc
  PROVE  /\ Hit(c) \in Proc
         /\ c.at = "boot" => Hit(c).at = "gone" /\ Hit(c).job = "none"
         /\ c.at = "serving" => Hit(c).at = "signalled"
         /\ c.at \notin {"boot", "serving"} => Hit(c) = c
         /\ c.at # "boot" => Hit(c).job = c.job /\ Hit(c).awaits = c.awaits
         /\ c.at = "boot" => Hit(c).awaits = 0
<1>1. CASE c.at = "boot"
  BY <1>1, GoneProcess DEF Hit, Proc
<1>2. CASE c.at # "boot"
  BY <1>2 DEF Hit, Proc, DaemonPlaces
<1>3. QED
  BY <1>1, <1>2

\* After a signal the processes are as many as before.
LEMMA SignalledTable ==
  ASSUME NEW ps \in Table, NEW p \in DOMAIN ps, NEW qs, qs = Signalled(ps, p)
  PROVE  /\ qs \in Table /\ Len(qs) = Len(ps) /\ DOMAIN qs = DOMAIN ps
         /\ qs[p] = Hit(ps[p]) /\ \A q \in DOMAIN ps \ {p} : qs[q] = ps[q]
<1>1. qs = [ps EXCEPT ![p] = Hit(ps[p])]
  BY DEF Signalled, Hit
<1>2. ps[p] \in Proc /\ ps[p].awaits <= Len(ps) /\ 0 <= Len(ps)
  BY DEF Table
<1>3. Hit(ps[p]) \in Proc /\ Hit(ps[p]).awaits <= Len(ps)
  BY <1>2, HitProcess
<1>4. QED
  BY <1>1, <1>3 DEF Table

-----------------------------------------------------------------------------
(* Each action keeps the invariant *)

\* What the invariant says of one process.
LEMMA EachProcess ==
  ASSUME DaemonTypeOK
  PROVE  /\ DOMAIN procs = 1 .. Len(procs) /\ Len(procs) \in Nat
         /\ \A p \in DOMAIN procs : /\ procs[p] \in Proc /\ procs[p].at \in Places
                                    /\ procs[p].job \in Works
                                    /\ procs[p].awaits \in 0 .. Len(procs)
         /\ pidFile # 0 => pidFile \in DOMAIN procs
         /\ port # 0 => port \in DOMAIN procs
<1>1. procs \in Seq(Proc) /\ \A p \in DOMAIN procs : procs[p].awaits <= Len(procs)
  BY DEF DaemonTypeOK, Table
<1>2. DOMAIN procs = 1 .. Len(procs) /\ Len(procs) \in Nat
  BY <1>1
<1>3. \A p \in DOMAIN procs : procs[p] \in Proc
  BY <1>1
<1>4. \A p \in DOMAIN procs : procs[p].awaits \in 0 .. Len(procs)
  BY <1>1, <1>2, <1>3 DEF Proc
<1>5. QED
  BY <1>2, <1>3, <1>4 DEF DaemonTypeOK, Proc, Places

\* A command asks the daemon that the file names to leave.
LEMMA StopPreviousInstanceOK ==
  ASSUME DaemonInv, NEW p \in DOMAIN procs, StopPreviousInstance(p)
  PROVE  DaemonInv'
<1> DEFINE v == Previous
           c == [procs[p] EXCEPT !.awaits = v, !.at = IF v = 0 THEN "spawn" ELSE "wait"]
           ps == [procs EXCEPT ![p] = c]
<1>1. DaemonTypeOK
  BY DEF DaemonInv
<1>2. /\ procs[p].at = "stop" /\ pidFile' = 0 /\ port' = port /\ disk' = disk /\ past' = past
      /\ procs' = IF v = 0 THEN ps ELSE Signalled(ps, v)
  BY DEF StopPreviousInstance
<1>3. v \in 0 .. Len(procs) /\ (v # 0 => v \in DOMAIN procs)
  BY <1>1, EachProcess DEF Previous, DaemonTypeOK
<1>4. /\ c \in Proc /\ c.at = (IF v = 0 THEN "spawn" ELSE "wait") /\ c.job = procs[p].job
      /\ c.awaits = v
  <2>1. procs[p] \in Proc /\ v \in Nat
    BY <1>1, <1>3, EachProcess
  <2>2. QED
    BY <2>1 DEF Proc, CommandPlaces
<1> HIDE DEF c
<1>5. /\ ps \in Table /\ Len(ps) = Len(procs) /\ DOMAIN ps = DOMAIN procs
      /\ ps[p] = c /\ \A q \in DOMAIN procs \ {p} : ps[q] = procs[q]
  BY <1>1, <1>3, <1>4, EachProcess DEF DaemonTypeOK, Table
<1> HIDE DEF ps
<1>6. /\ procs' \in Table /\ Len(procs') = Len(procs) /\ DOMAIN procs' = DOMAIN procs
      /\ v = 0 => procs' = ps
      /\ v # 0 => procs'[v] = Hit(ps[v]) /\ \A q \in DOMAIN procs \ {v} : procs'[q] = ps[q]
  <2>1. CASE v = 0
    BY <1>2, <1>5, <2>1
  <2>2. CASE v # 0
    BY <1>2, <1>3, <1>5, <2>2, SignalledTable
  <2>3. QED
    BY <2>1, <2>2
<1>7. DaemonTypeOK'
  BY <1>1, <1>2, <1>6 DEF DaemonTypeOK
<1>8. SUFFICES ASSUME ~past'.crossed PROVE InTurn'
  BY <1>7 DEF DaemonInv
<1>9. InTurn
  BY <1>2, <1>8 DEF DaemonInv
<1>10. \A q \in DOMAIN procs \ {p} : procs[q].at \notin CommandPlaces /\ procs[q].job = "none"
  BY <1>2, <1>9 DEF InTurn, OneBusy, Busy, CommandPlaces
<1>11. procs[p].job = "none"
  BY <1>2, <1>9 DEF InTurn, JobsOK
<1>12. v # p
  BY <1>1, <1>2, <1>9, EachProcess DEF InTurn, PidOK, PortOK, Previous, DaemonPlaces, Alive
<1>13. \A d \in DOMAIN procs : procs[d].at \in {"boot", "serving", "removing"} => v = d
  BY <1>1, <1>9, <1>10, EachProcess, <1>2
     DEF InTurn, BootsOK, ServesOK, RemovingOK, Named, Announced, Previous, Alive, CommandPlaces
<1>14. port \in {0, v}
  BY <1>1, <1>9, EachProcess DEF InTurn, PortOK, Previous, Alive
<1>15. /\ procs'[p] = c
       /\ \A q \in DOMAIN procs \ {p, v} : procs'[q] = procs[q]
       /\ v # 0 => procs'[v] = Hit(procs[v])
  BY <1>3, <1>5, <1>6, <1>12
<1>16. /\ \A d \in DOMAIN procs' \ {p} : procs'[d].at \notin CommandPlaces \cup {"boot", "serving"}
       /\ \A d \in DOMAIN procs' : procs'[d].job = "none"
  <2>1. SUFFICES ASSUME NEW d \in DOMAIN procs \ {p}
                 PROVE  procs'[d].at \notin CommandPlaces \cup {"boot", "serving"}
                        /\ procs'[d].job = "none"
    BY <1>4, <1>6, <1>11, <1>15
  <2>2. CASE d = v
    BY <1>1, <1>10, <1>15, <2>2, EachProcess, HitProcess DEF CommandPlaces
  <2>3. CASE d # v
    BY <1>10, <1>13, <1>15, <2>3
  <2>4. QED
    BY <2>2, <2>3
<1>17. OneBusy' /\ JobsOK' /\ BootsOK' /\ ServesOK' /\ DiskOK'
  BY <1>4, <1>6, <1>15, <1>16 DEF OneBusy, Busy, JobsOK, BootsOK, ServesOK, DiskOK
<1>18. v # 0 /\ port = v => procs'[v].at = "signalled"
  BY <1>1, <1>9, <1>15, EachProcess, HitProcess DEF InTurn, PortOK
<1>19. PortOK' /\ PidOK' /\ LeavingOK'
  BY <1>2, <1>14, <1>18 DEF PortOK, PidOK, LeavingOK
<1>20. StartsOK'
  BY <1>2, <1>4, <1>6, <1>14, <1>15, <1>16, <1>18 DEF StartsOK, CommandPlaces
<1>21. RemovingOK'
  <2>1. SUFFICES ASSUME NEW r \in DOMAIN procs, procs'[r].at = "removing"
                 PROVE  procs'[p].at = "wait" /\ procs'[p].awaits = r
    BY <1>2, <1>6 DEF RemovingOK
  <2>2. r # p
    BY <1>4, <1>15, <2>1
  <2>3. CASE r = v
    BY <1>1, <1>4, <1>15, <2>3, EachProcess
  <2>4. CASE r # v
    BY <1>13, <1>15, <2>1, <2>2, <2>4
  <2>5. QED
    BY <2>3, <2>4
<1>22. QED
  BY <1>17, <1>19, <1>20, <1>21 DEF InTurn

\* The process that is busy is the only one.
LEMMA Alone ==
  ASSUME InTurn, NEW p \in DOMAIN procs, Busy(p)
  PROVE  /\ \A q \in DOMAIN procs \ {p} : procs[q].at \notin CommandPlaces /\ procs[q].job = "none"
         /\ \A d : Announced(d) => procs[p].at = "write" /\ procs[p].awaits = d
         /\ NextStops => procs[p].at = "stop"
         /\ \A r : Replaced(r) => procs[p].job = "start" /\ procs[p].awaits = r
<1>1. \A q \in DOMAIN procs : Busy(q) => q = p
  BY DEF InTurn, OneBusy
<1>2. QED
  BY <1>1 DEF Busy, CommandPlaces, Announced, NextStops, Replaced

\* A command waits half a second for the daemon to leave.
LEMMA SleepHalfSecondOK ==
  ASSUME DaemonInv, NEW p \in DOMAIN procs, SleepHalfSecond(p)
  PROVE  DaemonInv'
<1> DEFINE c == [procs[p] EXCEPT !.at = "spawn", !.awaits = 0]
<1>1. DaemonTypeOK
  BY DEF DaemonInv
<1>2. /\ procs[p].at = "wait" /\ HalfSecond(procs[p].awaits)
      /\ procs' = [procs EXCEPT ![p] = c] /\ UNCHANGED <<pidFile, port, disk, past>>
  BY DEF SleepHalfSecond
<1>3. c \in Proc /\ c.at = "spawn" /\ c.job = procs[p].job /\ c.awaits = 0
  BY <1>1, EachProcess DEF Proc, CommandPlaces
<1> HIDE DEF c
<1>4. /\ procs' \in Table /\ Len(procs') = Len(procs) /\ DOMAIN procs' = DOMAIN procs
      /\ procs'[p] = c /\ \A q \in DOMAIN procs \ {p} : procs'[q] = procs[q]
  BY <1>1, <1>2, <1>3, EachProcess DEF DaemonTypeOK, Table
<1>5. DaemonTypeOK'
  BY <1>1, <1>2, <1>4 DEF DaemonTypeOK
<1>6. SUFFICES ASSUME ~past'.crossed PROVE InTurn'
  BY <1>5 DEF DaemonInv
<1>7. InTurn
  BY <1>2, <1>6 DEF DaemonInv
<1>8. Busy(p)
  BY <1>2 DEF Busy, CommandPlaces
<1>9. pidFile = 0 /\ port = 0 /\ procs[p].job = "none"
  BY <1>1, <1>2, <1>7, EachProcess DEF InTurn, StartsOK, JobsOK, HalfSecond
<1>10. \A q \in DOMAIN procs \ {p} : procs[q].at \notin CommandPlaces /\ procs[q].job = "none"
  BY <1>7, <1>8, Alone
<1>11. \A d \in DOMAIN procs : procs[d].at \notin {"boot", "serving", "removing"}
  BY <1>1, <1>2, <1>7, <1>8, <1>9, <1>10, Alone, EachProcess
     DEF InTurn, BootsOK, ServesOK, RemovingOK, Named, HalfSecond, CommandPlaces
<1>12. OneBusy' /\ JobsOK' /\ BootsOK' /\ ServesOK' /\ DiskOK'
  BY <1>3, <1>4, <1>9, <1>10, <1>11 DEF OneBusy, Busy, JobsOK, BootsOK, ServesOK, DiskOK
<1>13. PortOK' /\ PidOK' /\ LeavingOK' /\ RemovingOK'
  BY <1>2, <1>3, <1>4, <1>9, <1>11 DEF PortOK, PidOK, LeavingOK, RemovingOK
<1>14. StartsOK'
  BY <1>2, <1>3, <1>4, <1>9, <1>10 DEF StartsOK, CommandPlaces
<1>15. QED
  BY <1>12, <1>13, <1>14 DEF InTurn

\* What a start finds when it has stopped the daemon before.
LEMMA BeforeStart ==
  ASSUME DaemonTypeOK, InTurn, NEW p \in DOMAIN procs, procs[p].at = "spawn"
  PROVE  /\ pidFile = 0 /\ port = 0 /\ procs[p].job = "none"
         /\ \A q \in DOMAIN procs \ {p} : procs[q].at \notin CommandPlaces /\ procs[q].job = "none"
         /\ \A d \in DOMAIN procs : procs[d].at \notin {"boot", "serving", "removing"}
<1>1. Busy(p)
  BY DEF Busy, CommandPlaces
<1>2. pidFile = 0 /\ port = 0 /\ procs[p].job = "none"
  BY DEF InTurn, StartsOK, JobsOK
<1>3. \A q \in DOMAIN procs \ {p} : procs[q].at \notin CommandPlaces /\ procs[q].job = "none"
  BY <1>1, Alone
<1>4. \A d \in DOMAIN procs : procs[d].at \notin {"boot", "serving", "removing"}
  BY <1>1, <1>2, <1>3, Alone, EachProcess
     DEF InTurn, BootsOK, ServesOK, RemovingOK, Named, CommandPlaces
<1>5. QED
  BY <1>2, <1>3, <1>4

\* A command becomes the daemon itself.
LEMMA ForegroundOK ==
  ASSUME DaemonInv, NEW p \in DOMAIN procs, Foreground(p)
  PROVE  DaemonInv'
<1> DEFINE c == [procs[p] EXCEPT !.at = "boot"]
<1>1. DaemonTypeOK
  BY DEF DaemonInv
<1>2. /\ procs[p].at = "spawn" /\ pidFile' = p
      /\ procs' = [procs EXCEPT ![p] = c] /\ UNCHANGED <<port, disk, past>>
  BY DEF Foreground
<1>3. c \in Proc /\ c.at = "boot" /\ c.job = procs[p].job /\ c.awaits = procs[p].awaits
  BY <1>1, EachProcess, MovedProcess DEF Places, DaemonPlaces
<1> HIDE DEF c
<1>4. /\ procs' \in Table /\ Len(procs') = Len(procs) /\ DOMAIN procs' = DOMAIN procs
      /\ procs'[p] = c /\ \A q \in DOMAIN procs \ {p} : procs'[q] = procs[q]
  BY <1>1, <1>2, <1>3, EachProcess DEF DaemonTypeOK, Table
<1>5. DaemonTypeOK'
  BY <1>1, <1>2, <1>4, EachProcess DEF DaemonTypeOK
<1>6. SUFFICES ASSUME ~past'.crossed PROVE InTurn'
  BY <1>5 DEF DaemonInv
<1>7. InTurn
  BY <1>2, <1>6 DEF DaemonInv
<1>8. /\ pidFile = 0 /\ port = 0 /\ procs[p].job = "none"
      /\ \A q \in DOMAIN procs \ {p} : procs[q].at \notin CommandPlaces /\ procs[q].job = "none"
      /\ \A d \in DOMAIN procs : procs[d].at \notin {"boot", "serving", "removing"}
  BY <1>1, <1>2, <1>7, BeforeStart
<1>9. OneBusy' /\ JobsOK' /\ BootsOK' /\ ServesOK' /\ DiskOK'
  BY <1>2, <1>3, <1>4, <1>8
     DEF OneBusy, Busy, JobsOK, BootsOK, ServesOK, DiskOK, Named, CommandPlaces
<1>10. PortOK' /\ PidOK' /\ LeavingOK' /\ RemovingOK'
  BY <1>2, <1>3, <1>4, <1>8 DEF PortOK, PidOK, LeavingOK, RemovingOK, DaemonPlaces
<1>11. StartsOK'
  BY <1>2, <1>3, <1>4, <1>8 DEF StartsOK, CommandPlaces
<1>12. QED
  BY <1>9, <1>10, <1>11 DEF InTurn

\* A command starts the daemon as its child.
LEMMA DaemonizeOK ==
  ASSUME DaemonInv, NEW p \in DOMAIN procs, Daemonize(p)
  PROVE  DaemonInv'
<1>1. DaemonTypeOK
  BY DEF DaemonInv
<1>2. procs[p].at = "spawn" /\ UNCHANGED <<pidFile, port, disk>>
  BY DEF Daemonize
<1>3. CASE disk.exe # 0
  <2> DEFINE c == [procs[p] EXCEPT !.at = "write", !.awaits = Len(procs) + 1]
             ps == [procs EXCEPT ![p] = c]
             n == Len(procs) + 1
  <2>1. procs' = Append(ps, Process("boot", "none")) /\ past' = past
    BY <1>3 DEF Daemonize
  <2>2. c \in Proc /\ c.at = "write" /\ c.job = procs[p].job /\ c.awaits = n
    <3>1. procs[p] \in Proc /\ n \in Nat
      BY <1>1, EachProcess
    <3>2. QED
      BY <3>1 DEF Proc, CommandPlaces
  <2> HIDE DEF c
  <2>3. /\ ps \in Seq(Proc) /\ Len(ps) = Len(procs) /\ DOMAIN ps = DOMAIN procs
        /\ ps[p] = c /\ \A q \in DOMAIN procs \ {p} : ps[q] = procs[q]
    BY <1>1, <2>2, EachProcess DEF DaemonTypeOK, Table
  <2> HIDE DEF ps
  <2>4. /\ Process("boot", "none") \in Proc /\ Process("boot", "none").at = "boot"
        /\ Process("boot", "none").job = "none" /\ Process("boot", "none").awaits = 0
    BY <1>1, NewProcess DEF Places, DaemonPlaces, Works
  <2>5. /\ procs' \in Seq(Proc) /\ Len(procs') = n /\ DOMAIN procs' = DOMAIN procs \cup {n}
        /\ n \notin DOMAIN procs /\ n \in Nat
        /\ procs'[n] = Process("boot", "none")
        /\ procs'[p] = c /\ \A q \in DOMAIN procs \ {p} : procs'[q] = procs[q]
    BY <1>1, <2>1, <2>3, <2>4, EachProcess
  <2>6. procs' \in Table
    <3>1. \A q \in DOMAIN procs : procs[q].awaits <= n
      BY <1>1, EachProcess
    <3>2. \A q \in DOMAIN procs' : procs'[q].awaits <= n
      BY <2>2, <2>4, <2>5, <3>1
    <3>3. QED
      BY <2>5, <3>2 DEF Table
  <2> HIDE DEF n
  <2>7. DaemonTypeOK'
    BY <1>1, <1>2, <2>1, <2>5, <2>6 DEF DaemonTypeOK, n
  <2>8. SUFFICES ASSUME ~past'.crossed PROVE InTurn'
    BY <2>7 DEF DaemonInv
  <2>9. InTurn
    BY <2>1, <2>8 DEF DaemonInv
  <2>10. /\ pidFile = 0 /\ port = 0 /\ procs[p].job = "none"
        /\ \A q \in DOMAIN procs \ {p} : procs[q].at \notin CommandPlaces /\ procs[q].job = "none"
        /\ \A d \in DOMAIN procs : procs[d].at \notin {"boot", "serving", "removing"}
    BY <1>1, <1>2, <2>9, BeforeStart
  <2>11. OneBusy' /\ JobsOK' /\ BootsOK' /\ ServesOK' /\ DiskOK'
    BY <1>2, <2>2, <2>4, <2>5, <2>10
       DEF OneBusy, Busy, JobsOK, BootsOK, ServesOK, DiskOK, Named, Announced, CommandPlaces
  <2>12. PortOK' /\ PidOK' /\ LeavingOK' /\ RemovingOK'
    BY <1>2, <2>2, <2>4, <2>5, <2>10 DEF PortOK, PidOK, LeavingOK, RemovingOK, DaemonPlaces
  <2>13. StartsOK'
    BY <1>2, <2>2, <2>4, <2>5, <2>10 DEF StartsOK, CommandPlaces
  <2>14. QED
    BY <2>11, <2>12, <2>13 DEF InTurn
<1>4. CASE disk.exe = 0
  <2>1. procs' = [procs EXCEPT ![p] = Gone] /\ past' = [past EXCEPT !.wanted = FALSE]
    BY <1>4 DEF Daemonize
  <2>2. /\ procs' \in Table /\ Len(procs') = Len(procs) /\ DOMAIN procs' = DOMAIN procs
        /\ procs'[p] = Gone /\ \A q \in DOMAIN procs \ {p} : procs'[q] = procs[q]
    BY <1>1, <2>1, GoneProcess, EachProcess DEF DaemonTypeOK, Table
  <2>3. past' \in Past /\ past'.crossed = past.crossed
    BY <1>1, <2>1 DEF DaemonTypeOK, Past
  <2>4. DaemonTypeOK'
    BY <1>1, <1>2, <2>2, <2>3 DEF DaemonTypeOK
  <2>5. SUFFICES ASSUME ~past'.crossed PROVE InTurn'
    BY <2>4 DEF DaemonInv
  <2>6. InTurn
    BY <2>3, <2>5 DEF DaemonInv
  <2>7. /\ pidFile = 0 /\ port = 0 /\ procs[p].job = "none"
        /\ \A q \in DOMAIN procs \ {p} : procs[q].at \notin CommandPlaces /\ procs[q].job = "none"
        /\ \A d \in DOMAIN procs : procs[d].at \notin {"boot", "serving", "removing"}
    BY <1>1, <1>2, <2>6, BeforeStart
  <2>8. OneBusy' /\ JobsOK' /\ BootsOK' /\ ServesOK' /\ DiskOK'
    BY <1>2, <2>2, <2>7, GoneProcess
       DEF OneBusy, Busy, JobsOK, BootsOK, ServesOK, DiskOK, CommandPlaces
  <2>9. PortOK' /\ PidOK' /\ LeavingOK' /\ RemovingOK' /\ StartsOK'
    BY <1>2, <2>2, <2>7, GoneProcess
       DEF PortOK, PidOK, LeavingOK, RemovingOK, StartsOK, CommandPlaces
  <2>10. QED
    BY <2>8, <2>9 DEF InTurn
<1>5. QED
  BY <1>3, <1>4

\* A command writes down the child that it has started.
LEMMA WriteChildPIDOK ==
  ASSUME DaemonInv, NEW p \in DOMAIN procs, WriteChildPID(p)
  PROVE  DaemonInv'
<1>1. DaemonTypeOK
  BY DEF DaemonInv
<1>2. /\ procs[p].at = "write" /\ pidFile' = procs[p].awaits
      /\ procs' = [procs EXCEPT ![p] = Gone] /\ UNCHANGED <<port, disk, past>>
  BY DEF WriteChildPID
<1>3. /\ procs' \in Table /\ Len(procs') = Len(procs) /\ DOMAIN procs' = DOMAIN procs
      /\ procs'[p] = Gone /\ \A q \in DOMAIN procs \ {p} : procs'[q] = procs[q]
  BY <1>1, <1>2, GoneProcess, EachProcess DEF DaemonTypeOK, Table
<1>4. DaemonTypeOK'
  BY <1>1, <1>2, <1>3, EachProcess DEF DaemonTypeOK
<1>5. SUFFICES ASSUME ~past'.crossed PROVE InTurn'
  BY <1>4 DEF DaemonInv
<1>6. InTurn
  BY <1>2, <1>5 DEF DaemonInv
<1>7. Busy(p)
  BY <1>2 DEF Busy, CommandPlaces
<1>8. /\ \A q \in DOMAIN procs \ {p} : procs[q].at \notin CommandPlaces /\ procs[q].job = "none"
      /\ \A d : Announced(d) => d = pidFile'
  BY <1>2, <1>6, <1>7, Alone
<1>9. /\ pidFile = 0 /\ port \in {0, pidFile'} /\ pidFile' \in DOMAIN procs
      /\ procs[pidFile'].at \in {"boot", "serving", "gone"}
  BY <1>2, <1>6 DEF InTurn, StartsOK
<1>10. \A d \in DOMAIN procs : procs[d].at # "removing"
  BY <1>1, <1>2, <1>6, <1>8, <1>9, EachProcess DEF InTurn, RemovingOK, CommandPlaces
<1>11. OneBusy' /\ JobsOK' /\ DiskOK'
  BY <1>2, <1>3, <1>8, GoneProcess DEF OneBusy, Busy, JobsOK, DiskOK, CommandPlaces
<1>12. BootsOK' /\ ServesOK'
  BY <1>2, <1>3, <1>6, <1>8, <1>9, GoneProcess DEF InTurn, BootsOK, ServesOK, Named
<1>13. PortOK' /\ PidOK' /\ LeavingOK' /\ RemovingOK'
  BY <1>2, <1>3, <1>6, <1>9, <1>10, GoneProcess
     DEF InTurn, PortOK, PidOK, LeavingOK, RemovingOK, DaemonPlaces
<1>14. StartsOK'
  BY <1>3, <1>8, GoneProcess DEF StartsOK, CommandPlaces
<1>15. QED
  BY <1>11, <1>12, <1>13, <1>14 DEF InTurn

\* A daemon takes the port, or finds it taken and exits.
LEMMA ListenOK ==
  ASSUME DaemonInv, NEW d \in DOMAIN procs, Listen(d)
  PROVE  DaemonInv'
<1> DEFINE c == [procs[d] EXCEPT !.at = IF port = 0 THEN "serving" ELSE "signalled"]
<1>1. DaemonTypeOK
  BY DEF DaemonInv
<1>2. /\ procs[d].at = "boot" /\ port' = (IF port = 0 THEN d ELSE port)
      /\ procs' = [procs EXCEPT ![d] = c] /\ UNCHANGED <<pidFile, disk, past>>
  BY DEF Listen
<1>3. /\ c \in Proc /\ c.at = (IF port = 0 THEN "serving" ELSE "signalled")
      /\ c.job = procs[d].job /\ c.awaits = procs[d].awaits
  BY <1>1, EachProcess DEF Proc, DaemonPlaces
<1> HIDE DEF c
<1>4. /\ procs' \in Table /\ Len(procs') = Len(procs) /\ DOMAIN procs' = DOMAIN procs
      /\ procs'[d] = c /\ \A q \in DOMAIN procs \ {d} : procs'[q] = procs[q]
  BY <1>1, <1>2, <1>3, EachProcess DEF DaemonTypeOK, Table
<1>5. DaemonTypeOK'
  BY <1>1, <1>2, <1>4, EachProcess DEF DaemonTypeOK
<1>6. SUFFICES ASSUME ~past'.crossed PROVE InTurn'
  BY <1>5 DEF DaemonInv
<1>7. InTurn
  BY <1>2, <1>6 DEF DaemonInv
<1>8. port = 0 /\ Named(d) /\ procs[d].job = "none"
  BY <1>2, <1>7 DEF InTurn, BootsOK, JobsOK
<1>9. c.at = "serving" /\ port' = d
  BY <1>2, <1>3, <1>8
<1>10. \A e : Announced(e) => Announced(e)'
  BY <1>2, <1>4 DEF Announced
<1>11. \A p \in DOMAIN procs : procs[p].at \in {"wait", "spawn", "write"} =>
          procs[p].at = "write" /\ procs[p].awaits = d /\ pidFile = 0
  <2>1. SUFFICES ASSUME NEW p \in DOMAIN procs, procs[p].at \in {"wait", "spawn", "write"}
                 PROVE  procs[p].at = "write" /\ procs[p].awaits = d /\ pidFile = 0
    OBVIOUS
  <2>2. pidFile = 0
    BY <1>7, <2>1 DEF InTurn, StartsOK
  <2>3. Announced(d)
    BY <1>1, <1>8, <2>2, EachProcess DEF Named
  <2>4. Busy(p)
    BY <2>1 DEF Busy, CommandPlaces
  <2>5. QED
    BY <1>7, <2>2, <2>3, <2>4, Alone
<1>12. pidFile \in {0, d}
  BY <1>8, <1>11 DEF Named, Announced
<1>13. OneBusy' /\ JobsOK' /\ DiskOK'
  BY <1>2, <1>3, <1>4, <1>7, <1>8, <1>9
     DEF InTurn, OneBusy, Busy, JobsOK, DiskOK, CommandPlaces
<1>14. \A e \in DOMAIN procs : procs[e].at # "serving"
  BY <1>1, <1>7, <1>8, EachProcess DEF InTurn, ServesOK
<1>15. \A e \in DOMAIN procs \ {d} : procs[e].at # "boot"
  BY <1>1, <1>7, <1>11, <1>12, EachProcess, <1>8 DEF InTurn, BootsOK, Named, Announced
<1>16. BootsOK' /\ ServesOK'
  BY <1>2, <1>4, <1>8, <1>9, <1>10, <1>14, <1>15 DEF BootsOK, ServesOK, Named
<1>17. PortOK' /\ PidOK' /\ StartsOK'
  BY <1>2, <1>3, <1>4, <1>7, <1>9, <1>11, <1>12
     DEF InTurn, PortOK, PidOK, StartsOK, DaemonPlaces
<1>18. LeavingOK' /\ RemovingOK'
  BY <1>2, <1>3, <1>4, <1>7, <1>9, <1>12 DEF InTurn, LeavingOK, RemovingOK
<1>19. QED
  BY <1>13, <1>16, <1>17, <1>18 DEF InTurn

\* A daemon that was signalled gives the port back.
LEMMA ShutdownOK ==
  ASSUME DaemonInv, NEW d \in DOMAIN procs, Shutdown(d)
  PROVE  DaemonInv'
<1> DEFINE c == [procs[d] EXCEPT !.at = "closing"]
<1>1. DaemonTypeOK
  BY DEF DaemonInv
<1>2. /\ procs[d].at = "signalled" /\ port' = (IF port = d THEN 0 ELSE port)
      /\ procs' = [procs EXCEPT ![d] = c] /\ UNCHANGED <<pidFile, disk, past>>
  BY DEF Shutdown
<1>3. c \in Proc /\ c.at = "closing" /\ c.job = procs[d].job /\ c.awaits = procs[d].awaits
  BY <1>1, EachProcess, MovedProcess DEF Places, DaemonPlaces
<1> HIDE DEF c
<1>4. /\ procs' \in Table /\ Len(procs') = Len(procs) /\ DOMAIN procs' = DOMAIN procs
      /\ procs'[d] = c /\ \A q \in DOMAIN procs \ {d} : procs'[q] = procs[q]
  BY <1>1, <1>2, <1>3, EachProcess DEF DaemonTypeOK, Table
<1>5. DaemonTypeOK'
  BY <1>1, <1>2, <1>4 DEF DaemonTypeOK
<1>6. SUFFICES ASSUME ~past'.crossed PROVE InTurn'
  BY <1>5 DEF DaemonInv
<1>7. InTurn
  BY <1>2, <1>6 DEF DaemonInv
<1>8. OneBusy' /\ JobsOK' /\ DiskOK'
  BY <1>2, <1>3, <1>4, <1>7 DEF InTurn, OneBusy, Busy, JobsOK, DiskOK, CommandPlaces
<1>9. BootsOK' /\ ServesOK'
  BY <1>2, <1>3, <1>4, <1>7 DEF InTurn, BootsOK, ServesOK, Named, Announced
<1>10. PortOK' /\ PidOK' /\ LeavingOK' /\ RemovingOK'
  BY <1>2, <1>3, <1>4, <1>7
     DEF InTurn, PortOK, PidOK, LeavingOK, RemovingOK, DaemonPlaces, NextStops, Replaced
<1>11. StartsOK'
  BY <1>2, <1>3, <1>4, <1>7 DEF InTurn, StartsOK
<1>12. QED
  BY <1>8, <1>9, <1>10, <1>11 DEF InTurn

\* A daemon that leaves reads whom the file names.
LEMMA ReadPIDFileOK ==
  ASSUME DaemonInv, NEW d \in DOMAIN procs, ReadPIDFile(d)
  PROVE  DaemonInv'
<1> DEFINE c == IF pidFile = d THEN [procs[d] EXCEPT !.at = "removing"] ELSE Gone
<1>1. DaemonTypeOK
  BY DEF DaemonInv
<1>2. /\ procs[d].at = "closing"
      /\ procs' = [procs EXCEPT ![d] = c] /\ UNCHANGED <<pidFile, port, disk, past>>
  BY DEF ReadPIDFile
<1>3. /\ c \in Proc /\ c.at = (IF pidFile = d THEN "removing" ELSE "gone")
      /\ c.job \in {"none", procs[d].job} /\ c.awaits <= Len(procs)
  <2>1. CASE pidFile = d
    <3>1. c = [procs[d] EXCEPT !.at = "removing"]
      BY <2>1
    <3>2. QED
      BY <1>1, <2>1, <3>1, EachProcess DEF Proc, DaemonPlaces
  <2>2. CASE pidFile # d
    BY <1>1, <2>2, GoneProcess, EachProcess
  <2>3. QED
    BY <2>1, <2>2
<1> HIDE DEF c
<1>4. /\ procs' \in Table /\ Len(procs') = Len(procs) /\ DOMAIN procs' = DOMAIN procs
      /\ procs'[d] = c /\ \A q \in DOMAIN procs \ {d} : procs'[q] = procs[q]
  BY <1>1, <1>2, <1>3, EachProcess DEF DaemonTypeOK, Table
<1>5. DaemonTypeOK'
  BY <1>1, <1>2, <1>4 DEF DaemonTypeOK
<1>6. SUFFICES ASSUME ~past'.crossed PROVE InTurn'
  BY <1>5 DEF DaemonInv
<1>7. InTurn
  BY <1>2, <1>6 DEF DaemonInv
<1>8. procs[d].job = "none"
  BY <1>2, <1>7 DEF InTurn, JobsOK
<1>9. OneBusy' /\ JobsOK' /\ DiskOK'
  BY <1>2, <1>3, <1>4, <1>7, <1>8 DEF InTurn, OneBusy, Busy, JobsOK, DiskOK, CommandPlaces
<1>10. BootsOK' /\ ServesOK'
  BY <1>2, <1>3, <1>4, <1>7 DEF InTurn, BootsOK, ServesOK, Named, Announced
<1>11. \A p \in DOMAIN procs \ {d} : procs'[p] = procs[p]
  BY <1>4
<1>12. PortOK' /\ PidOK'
  BY <1>2, <1>3, <1>4, <1>7 DEF InTurn, PortOK, PidOK, DaemonPlaces
<1>13. LeavingOK' /\ RemovingOK'
  BY <1>2, <1>3, <1>4, <1>7, <1>8 DEF InTurn, LeavingOK, RemovingOK, NextStops, Replaced
<1>14. StartsOK'
  BY <1>2, <1>3, <1>4, <1>7 DEF InTurn, StartsOK
<1>15. QED
  BY <1>9, <1>10, <1>12, <1>13, <1>14 DEF InTurn

\* A daemon that has found itself in the file removes the file.
LEMMA RemovePIDFileOK ==
  ASSUME DaemonInv, NEW d \in DOMAIN procs, RemovePIDFile(d)
  PROVE  DaemonInv'
<1>1. DaemonTypeOK
  BY DEF DaemonInv
<1>2. /\ procs[d].at = "removing" /\ pidFile' = 0
      /\ procs' = [procs EXCEPT ![d] = Gone] /\ UNCHANGED <<port, disk, past>>
  BY DEF RemovePIDFile
<1>3. /\ procs' \in Table /\ Len(procs') = Len(procs) /\ DOMAIN procs' = DOMAIN procs
      /\ procs'[d] = Gone /\ \A q \in DOMAIN procs \ {d} : procs'[q] = procs[q]
  BY <1>1, <1>2, GoneProcess, EachProcess DEF DaemonTypeOK, Table
<1>4. DaemonTypeOK'
  BY <1>1, <1>2, <1>3 DEF DaemonTypeOK
<1>5. SUFFICES ASSUME ~past'.crossed PROVE InTurn'
  BY <1>4 DEF DaemonInv
<1>6. InTurn
  BY <1>2, <1>5 DEF DaemonInv
<1>7. pidFile \in {0, d}
  BY <1>2, <1>6 DEF InTurn, RemovingOK
<1>8. OneBusy' /\ JobsOK' /\ DiskOK'
  BY <1>2, <1>3, <1>6, GoneProcess DEF InTurn, OneBusy, Busy, JobsOK, DiskOK, CommandPlaces
<1>9. BootsOK' /\ ServesOK'
  BY <1>1, <1>2, <1>3, <1>6, <1>7, GoneProcess, EachProcess
     DEF InTurn, BootsOK, ServesOK, Named, Announced
<1>10. PortOK' /\ PidOK' /\ LeavingOK'
  BY <1>2, <1>3, <1>6 DEF InTurn, PortOK, PidOK, LeavingOK
<1>11. RemovingOK'
  BY <1>1, <1>2, <1>3, <1>6, <1>7, GoneProcess, EachProcess DEF InTurn, RemovingOK
<1>12. StartsOK'
  BY <1>1, <1>2, <1>3, <1>6, GoneProcess, EachProcess DEF InTurn, StartsOK
<1>13. QED
  BY <1>8, <1>9, <1>10, <1>11, <1>12 DEF InTurn

\* A daemon dies without removing the file.
LEMMA CrashDaemonOK ==
  ASSUME DaemonInv, NEW d \in DOMAIN procs, CrashDaemon(d)
  PROVE  DaemonInv'
<1>1. DaemonTypeOK
  BY DEF DaemonInv
<1>2. /\ procs[d].at \in {"boot", "serving"} /\ port' = (IF port = d THEN 0 ELSE port)
      /\ procs' = [procs EXCEPT ![d] = Gone] /\ UNCHANGED <<pidFile, disk>>
  BY DEF CrashDaemon
<1>3. past' \in Past /\ past'.crossed = past.crossed
  <2>1. past' = [past EXCEPT !.faults = @ + 1, !.wanted = FALSE]
    BY DEF CrashDaemon
  <2>2. past \in Past /\ past.faults + 1 \in Nat
    BY <1>1 DEF DaemonTypeOK, Past
  <2>3. QED
    BY <2>1, <2>2 DEF Past
<1>4. /\ procs' \in Table /\ Len(procs') = Len(procs) /\ DOMAIN procs' = DOMAIN procs
      /\ procs'[d] = Gone /\ \A q \in DOMAIN procs \ {d} : procs'[q] = procs[q]
  BY <1>1, <1>2, GoneProcess, EachProcess DEF DaemonTypeOK, Table
<1>5. DaemonTypeOK'
  BY <1>1, <1>2, <1>3, <1>4 DEF DaemonTypeOK
<1>6. SUFFICES ASSUME ~past'.crossed PROVE InTurn'
  BY <1>5 DEF DaemonInv
<1>7. InTurn
  BY <1>3, <1>6 DEF DaemonInv
<1>8. OneBusy' /\ JobsOK' /\ DiskOK'
  BY <1>2, <1>4, <1>7, GoneProcess DEF InTurn, OneBusy, Busy, JobsOK, DiskOK, CommandPlaces
<1>9. BootsOK' /\ ServesOK'
  BY <1>2, <1>4, <1>7, GoneProcess DEF InTurn, BootsOK, ServesOK, Named, Announced
<1>10. PortOK' /\ PidOK'
  BY <1>1, <1>2, <1>4, <1>7, GoneProcess, EachProcess DEF InTurn, PortOK, PidOK, DaemonPlaces
<1>11. LeavingOK' /\ RemovingOK'
  <2>1. \A p \in DOMAIN procs \ {d} : procs'[p] = procs[p]
    BY <1>4
  <2>2. LeavingOK'
    <3>1. SUFFICES ASSUME pidFile # 0, procs'[pidFile].at \in {"signalled", "closing", "removing"}
                   PROVE  NextStops' \/ Replaced(pidFile)'
      BY <1>2 DEF LeavingOK, Replaced
    <3>2. pidFile # d /\ procs'[pidFile] = procs[pidFile]
      BY <1>1, <1>4, <3>1, GoneProcess, EachProcess
    <3>3. NextStops \/ Replaced(pidFile)
      BY <1>7, <3>1, <3>2 DEF InTurn, LeavingOK
    <3>4. \A p \in DOMAIN procs : procs[p].at = "stop" \/ procs[p].job = "start" => p # d
      BY <1>2, <1>7 DEF InTurn, JobsOK
    <3>5. QED
      BY <1>2, <1>4, <3>3, <3>4 DEF NextStops, Replaced
  <2>3. RemovingOK'
    BY <1>2, <1>4, <1>7, GoneProcess DEF InTurn, RemovingOK
  <2>4. QED
    BY <2>2, <2>3
<1>12. StartsOK'
  BY <1>1, <1>2, <1>4, <1>7, GoneProcess, EachProcess DEF InTurn, StartsOK, PortOK
<1>13. QED
  BY <1>8, <1>9, <1>10, <1>11, <1>12 DEF InTurn

\* A command begins when no other is there, or the two cross.
LEMMA CommandsApart ==
  ASSUME DaemonTypeOK, NEW wanted \in BOOLEAN, Commanded(wanted),
         ~past.crossed => InTurn
  PROVE  /\ past' \in Past
         /\ ~past'.crossed =>
              /\ ~past.crossed
              /\ \A q \in DOMAIN procs : procs[q].at \notin CommandPlaces /\ procs[q].job = "none"
<1>1. /\ past' = [past EXCEPT !.commands = @ + 1, !.wanted = wanted,
                              !.crossed = @ \/ Commands # {} \/ Jobs # {}]
      /\ past \in Past
  BY DEF Commanded, DaemonTypeOK
<1>2. past.commands + 1 \in Nat
  BY <1>1 DEF Past
<1>3. (past.crossed \/ Commands # {} \/ Jobs # {}) \in BOOLEAN
  BY <1>1 DEF Past
<1>4. past' \in Past
  BY <1>1, <1>2, <1>3 DEF Past
<1>5. past'.crossed = (past.crossed \/ Commands # {} \/ Jobs # {})
  BY <1>1 DEF Past
<1>6. SUFFICES ASSUME ~past'.crossed, NEW q \in DOMAIN procs
               PROVE  /\ ~past.crossed
                      /\ procs[q].at \notin CommandPlaces /\ procs[q].job = "none"
  BY <1>4, <1>5
<1>7. ~past.crossed /\ Commands = {} /\ Jobs = {}
  BY <1>5, <1>6
<1>8. JobsOK
  BY <1>7 DEF InTurn
<1>9. procs[q].at \notin CommandPlaces
  BY <1>7 DEF Commands, CommandPlaces
<1>10. procs[q].job = "none"
  BY <1>7, <1>8 DEF Jobs, Alive, JobsOK
<1>11. QED
  BY <1>7, <1>9, <1>10

\* The user gives a command when none is under way.
LEMMA CommandOK ==
  ASSUME DaemonInv, NEW at \in {"stop", "update"}, NEW job \in {"none", "check"},
         NEW wanted \in BOOLEAN, job = "check" <=> at = "update", Command(at, job, wanted)
  PROVE  DaemonInv'
<1> DEFINE n == Len(procs) + 1
           c == Process(at, job)
<1>1. DaemonTypeOK
  BY DEF DaemonInv
<1>2. procs' = Append(procs, c) /\ UNCHANGED <<pidFile, port, disk>> /\ Commanded(wanted)
  BY DEF Command
<1>3. c \in Proc /\ c.at = at /\ c.job = job /\ c.awaits = 0
  BY <1>1, NewProcess DEF Places, CommandPlaces, Works
<1> HIDE DEF c
<1>4. /\ procs' \in Table /\ Len(procs') = n /\ DOMAIN procs' = DOMAIN procs \cup {n}
      /\ n \notin DOMAIN procs
      /\ procs'[n] = c /\ \A q \in DOMAIN procs : procs'[q] = procs[q]
  <2>1. procs \in Table /\ c.awaits <= Len(procs)
    BY <1>1, <1>3, EachProcess DEF DaemonTypeOK
  <2>2. QED
    BY <1>2, <1>3, <2>1, AddProcess
<1>5. /\ past' \in Past
      /\ ~past'.crossed =>
           /\ ~past.crossed
           /\ \A q \in DOMAIN procs : procs[q].at \notin CommandPlaces /\ procs[q].job = "none"
  BY <1>1, <1>2, CommandsApart DEF DaemonInv
<1>6. DaemonTypeOK'
  BY <1>1, <1>2, <1>4, <1>5, EachProcess DEF DaemonTypeOK
<1> HIDE DEF n
<1>7. SUFFICES ASSUME ~past'.crossed PROVE InTurn'
  BY <1>6 DEF DaemonInv
<1>8. InTurn /\ \A q \in DOMAIN procs : procs[q].at \notin CommandPlaces /\ procs[q].job = "none"
  BY <1>5, <1>7 DEF DaemonInv
<1>9. OneBusy' /\ JobsOK' /\ DiskOK'
  BY <1>3, <1>4, <1>8 DEF InTurn, OneBusy, Busy, JobsOK, DiskOK, CommandPlaces
<1>10. BootsOK' /\ ServesOK'
  BY <1>2, <1>3, <1>4, <1>8 DEF InTurn, BootsOK, ServesOK, Named, Announced, CommandPlaces
<1>11. PortOK' /\ PidOK'
  BY <1>1, <1>2, <1>4, <1>8, EachProcess DEF InTurn, PortOK, PidOK
<1>12. LeavingOK' /\ RemovingOK'
  BY <1>1, <1>2, <1>3, <1>4, <1>8, EachProcess
     DEF InTurn, LeavingOK, RemovingOK, NextStops, Replaced, CommandPlaces
<1>13. StartsOK'
  BY <1>2, <1>3, <1>4, <1>8 DEF StartsOK, CommandPlaces
<1>14. QED
  BY <1>9, <1>10, <1>11, <1>12, <1>13 DEF InTurn

\* The stop command signals the daemon and removes the file.
LEMMA RunStopOK ==
  ASSUME DaemonInv, RunStop
  PROVE  DaemonInv'
<1> DEFINE v == Previous
<1>1. DaemonTypeOK
  BY DEF DaemonInv
<1>2. /\ procs' = (IF v = 0 THEN procs ELSE Signalled(procs, v)) /\ pidFile' = 0
      /\ UNCHANGED <<port, disk>> /\ Commanded(FALSE)
  BY DEF RunStop
<1>3. v \in 0 .. Len(procs) /\ (v # 0 => v \in DOMAIN procs)
  BY <1>1, EachProcess DEF Previous, DaemonTypeOK
<1>4. /\ procs' \in Table /\ Len(procs') = Len(procs) /\ DOMAIN procs' = DOMAIN procs
      /\ v # 0 => procs'[v] = Hit(procs[v])
      /\ \A q \in DOMAIN procs \ {v} : procs'[q] = procs[q]
  <2>1. CASE v = 0
    BY <1>1, <1>2, <2>1 DEF DaemonTypeOK
  <2>2. CASE v # 0
    BY <1>1, <1>2, <1>3, <2>2, SignalledTable DEF DaemonTypeOK
  <2>3. QED
    BY <2>1, <2>2
<1>5. /\ past' \in Past
      /\ ~past'.crossed =>
           /\ ~past.crossed
           /\ \A q \in DOMAIN procs : procs[q].at \notin CommandPlaces /\ procs[q].job = "none"
  BY <1>1, <1>2, CommandsApart DEF DaemonInv
<1>6. DaemonTypeOK'
  BY <1>1, <1>2, <1>4, <1>5 DEF DaemonTypeOK
<1>7. SUFFICES ASSUME ~past'.crossed PROVE InTurn'
  BY <1>6 DEF DaemonInv
<1>8. InTurn /\ \A q \in DOMAIN procs : procs[q].at \notin CommandPlaces /\ procs[q].job = "none"
  BY <1>5, <1>7 DEF DaemonInv
<1>9. \A d \in DOMAIN procs : procs[d].at \in {"boot", "serving"} => v = d
  BY <1>1, <1>8, EachProcess
     DEF InTurn, BootsOK, ServesOK, Named, Announced, Previous, Alive, CommandPlaces
<1>10. \A d \in DOMAIN procs : procs[d].at # "removing"
  BY <1>1, <1>8, EachProcess
     DEF InTurn, RemovingOK, LeavingOK, NextStops, Replaced, CommandPlaces
<1>11. \A d \in DOMAIN procs :
          /\ procs'[d].at \in DaemonPlaces \ {"boot", "serving", "removing"}
          /\ procs'[d].job = "none"
  <2>1. SUFFICES ASSUME NEW d \in DOMAIN procs
                 PROVE  /\ procs'[d].at \in DaemonPlaces \ {"boot", "serving", "removing"}
                        /\ procs'[d].job = "none"
    OBVIOUS
  <2>2. procs[d] \in Proc /\ procs[d].at \in DaemonPlaces /\ procs[d].job = "none"
    BY <1>1, <1>8, EachProcess DEF Places
  <2>3. CASE d = v
    BY <1>1, <1>4, <1>10, <2>2, <2>3, EachProcess, HitProcess DEF DaemonPlaces
  <2>4. CASE d # v
    BY <1>4, <1>9, <1>10, <2>2, <2>4
  <2>5. QED
    BY <2>3, <2>4
<1>12. OneBusy' /\ JobsOK' /\ DiskOK' /\ BootsOK' /\ ServesOK' /\ RemovingOK' /\ StartsOK'
  BY <1>4, <1>11 DEF OneBusy, Busy, JobsOK, DiskOK, BootsOK, ServesOK, RemovingOK, StartsOK,
                     CommandPlaces, DaemonPlaces
<1>13. PortOK'
  <2>1. SUFFICES ASSUME port # 0 PROVE procs'[port].at = "signalled"
    BY <1>2 DEF PortOK
  <2>2. port \in DOMAIN procs /\ procs[port].at \in {"serving", "signalled"}
    BY <1>1, <1>8, <2>1, EachProcess DEF InTurn, PortOK
  <2>3. CASE port = v
    BY <1>1, <1>4, <2>2, <2>3, EachProcess, HitProcess
  <2>4. CASE port # v
    BY <1>4, <1>9, <2>2, <2>4
  <2>5. QED
    BY <2>3, <2>4
<1>14. PidOK' /\ LeavingOK'
  BY <1>2 DEF PidOK, LeavingOK
<1>15. QED
  BY <1>12, <1>13, <1>14 DEF InTurn

\* An update begins, in a command or in the daemon.
LEMMA ApplyUpdateOK ==
  ASSUME DaemonInv, NEW d \in DOMAIN procs, ApplyUpdate(d)
  PROVE  DaemonInv'
<1> DEFINE c == [procs[d] EXCEPT !.job = "check"]
<1>1. DaemonTypeOK
  BY DEF DaemonInv
<1>2. /\ procs[d].at = "serving" /\ procs[d].job = "none"
      /\ procs' = [procs EXCEPT ![d] = c] /\ UNCHANGED <<pidFile, port, disk>>
      /\ Commanded(past.wanted)
  BY DEF ApplyUpdate
<1>3. c \in Proc /\ c.at = "serving" /\ c.job = "check" /\ c.awaits = procs[d].awaits
  BY <1>1, <1>2, EachProcess, EmployedProcess DEF Works
<1> HIDE DEF c
<1>4. /\ procs' \in Table /\ Len(procs') = Len(procs) /\ DOMAIN procs' = DOMAIN procs
      /\ procs'[d] = c /\ \A q \in DOMAIN procs \ {d} : procs'[q] = procs[q]
  BY <1>1, <1>2, <1>3, EachProcess DEF DaemonTypeOK, Table
<1>5. /\ past' \in Past
      /\ ~past'.crossed =>
           /\ ~past.crossed
           /\ \A q \in DOMAIN procs : procs[q].at \notin CommandPlaces /\ procs[q].job = "none"
  <2>1. past.wanted \in BOOLEAN
    BY <1>1 DEF DaemonTypeOK, Past
  <2>2. QED
    BY <1>1, <1>2, <2>1, CommandsApart DEF DaemonInv
<1>6. DaemonTypeOK'
  BY <1>1, <1>2, <1>4, <1>5 DEF DaemonTypeOK
<1>7. SUFFICES ASSUME ~past'.crossed PROVE InTurn'
  BY <1>6 DEF DaemonInv
<1>8. InTurn /\ \A q \in DOMAIN procs : procs[q].at \notin CommandPlaces /\ procs[q].job = "none"
  BY <1>5, <1>7 DEF DaemonInv
<1>9. \A q \in DOMAIN procs : procs'[q].at = procs[q].at /\ procs'[q].awaits = procs[q].awaits
  BY <1>2, <1>3, <1>4
<1>10. OneBusy' /\ JobsOK' /\ DiskOK'
  BY <1>3, <1>4, <1>8 DEF OneBusy, Busy, JobsOK, DiskOK, CommandPlaces
<1>11. BootsOK' /\ ServesOK' /\ PortOK' /\ PidOK' /\ RemovingOK'
  BY <1>1, <1>2, <1>4, <1>8, <1>9, EachProcess
     DEF InTurn, BootsOK, ServesOK, Named, Announced, PortOK, PidOK, RemovingOK
<1>12. LeavingOK'
  BY <1>1, <1>2, <1>4, <1>8, <1>9, EachProcess
     DEF InTurn, LeavingOK, NextStops, Replaced, CommandPlaces
<1>13. StartsOK'
  BY <1>4, <1>8, <1>9 DEF StartsOK, CommandPlaces
<1>14. QED
  BY <1>10, <1>11, <1>12, <1>13 DEF InTurn

\* Job, at a process that does an update.
LEMMA JobTable ==
  ASSUME DaemonTypeOK, NEW p \in DOMAIN procs, NEW job \in Works, NEW ps, ps = Job(p, job)
  PROVE  /\ ps \in Table /\ Len(ps) = Len(procs) /\ DOMAIN ps = DOMAIN procs
         /\ \A q \in DOMAIN procs \ {p} : ps[q] = procs[q]
         /\ ps[p] \in Proc
         /\ ps[p] = Gone \/ (/\ ps[p].at = procs[p].at /\ ps[p].job = job
                             /\ ps[p].awaits = procs[p].awaits)
         /\ job = "none" /\ procs[p].at = "update" => ps[p] = Gone
         /\ job # "none" \/ procs[p].at # "update" => ps[p].at = procs[p].at /\ ps[p].job = job
         /\ ps[p].awaits <= Len(procs)
<1> DEFINE c == [procs[p] EXCEPT !.job = job]
           d == IF job = "none" /\ procs[p].at = "update" THEN Gone ELSE c
<1>1. ps = [procs EXCEPT ![p] = d]
  BY DEF Job
<1>2. c \in Proc /\ c.at = procs[p].at /\ c.job = job /\ c.awaits = procs[p].awaits
  BY EachProcess, EmployedProcess
<1> HIDE DEF c
<1>3. d \in Proc /\ d.awaits <= Len(procs)
  BY <1>2, GoneProcess, EachProcess
<1>4. /\ ps \in Table /\ Len(ps) = Len(procs) /\ DOMAIN ps = DOMAIN procs
      /\ \A q \in DOMAIN procs \ {p} : ps[q] = procs[q]
      /\ ps[p] = d
  <2> HIDE DEF d
  <2>1. QED
    BY <1>1, <1>3, EachProcess DEF DaemonTypeOK, Table
<1>5. QED
  BY <1>2, <1>3, <1>4

\* A step of an update that leaves the daemons alone.
LEMMA JobDone ==
  ASSUME DaemonInv, NEW p \in DOMAIN procs, NEW job \in Works \ {"start"},
         procs[p].job \in Works \ {"none", "start"}, Alive(p),
         procs' = Job(p, job), UNCHANGED <<pidFile, port>>,
         disk' \in [exe : 0 .. 2, old : 0 .. 2], job = "restart" => disk'.exe # 0,
         past' \in Past, past'.crossed = past.crossed
  PROVE  DaemonInv'
<1>1. DaemonTypeOK
  BY DEF DaemonInv
<1>2. /\ procs' \in Table /\ Len(procs') = Len(procs) /\ DOMAIN procs' = DOMAIN procs
      /\ \A q \in DOMAIN procs \ {p} : procs'[q] = procs[q]
      /\ \/ procs'[p] = Gone
         \/ procs'[p].at = procs[p].at /\ procs'[p].job = job /\ procs'[p].awaits = procs[p].awaits
      /\ procs[p].at # "update" => procs'[p].at = procs[p].at /\ procs'[p].job = job
  BY <1>1, JobTable
<1>3. DaemonTypeOK'
  BY <1>1, <1>2 DEF DaemonTypeOK
<1>4. SUFFICES ASSUME ~past'.crossed PROVE InTurn'
  BY <1>3 DEF DaemonInv
<1>5. InTurn
  BY <1>4 DEF DaemonInv
<1>6. procs[p].at \in {"update", "serving"}
  BY <1>5 DEF InTurn, JobsOK
<1>7. Busy(p)
  BY DEF Busy
<1>8. \A q \in DOMAIN procs \ {p} : procs[q].at \notin CommandPlaces /\ procs[q].job = "none"
  BY <1>5, <1>7, Alone
<1>9. ~NextStops /\ (\A r : ~Replaced(r)) /\ \A d : ~Announced(d)
  BY <1>5, <1>6, <1>7, Alone
<1>10. OneBusy' /\ JobsOK'
  BY <1>2, <1>6, <1>8, GoneProcess DEF OneBusy, Busy, JobsOK
<1>11. DiskOK'
  BY <1>2, <1>8, GoneProcess DEF DiskOK
<1>12. \A q \in DOMAIN procs : procs'[q].at # "gone" => procs'[q].at = procs[q].at
  BY <1>2, GoneProcess
<1>13. \A q \in DOMAIN procs : procs[q].at # "update" => procs'[q].at = procs[q].at
  BY <1>2
<1>14. BootsOK' /\ ServesOK' /\ PortOK' /\ PidOK'
  BY <1>1, <1>2, <1>5, <1>9, <1>12, <1>13, EachProcess
     DEF InTurn, BootsOK, ServesOK, Named, PortOK, PidOK, DaemonPlaces
<1>15. LeavingOK'
  BY <1>1, <1>5, <1>9, <1>12, EachProcess DEF InTurn, LeavingOK
<1>16. RemovingOK'
  BY <1>2, <1>5, <1>6, <1>8, <1>12 DEF InTurn, RemovingOK, CommandPlaces
<1>17. StartsOK'
  BY <1>2, <1>6, <1>8, <1>12 DEF StartsOK, CommandPlaces
<1>18. QED
  BY <1>10, <1>11, <1>14, <1>15, <1>16, <1>17 DEF InTurn

\* A call that fails is counted.
LEMMA OneMoreFault ==
  ASSUME DaemonTypeOK, past' = [past EXCEPT !.faults = @ + 1]
  PROVE  past' \in Past /\ past'.crossed = past.crossed
<1>1. past \in Past /\ past.faults + 1 \in Nat
  BY DEF DaemonTypeOK, Past
<1>2. QED
  BY <1>1 DEF Past

\* An update downloads the new binary.
LEMMA FetchUpdateOK ==
  ASSUME DaemonInv, NEW p \in DOMAIN procs, FetchUpdate(p)
  PROVE  DaemonInv'
<1>1. DaemonTypeOK
  BY DEF DaemonInv
<1>2. PICK job \in {"remove", "none"} : procs' = Job(p, job)
  BY DEF FetchUpdate
<1>3. Alive(p) /\ procs[p].job = "check" /\ UNCHANGED <<pidFile, port, disk, past>>
  BY DEF FetchUpdate
<1>4. job \in Works \ {"start"} /\ job # "restart" /\ procs[p].job \in Works \ {"none", "start"}
  BY <1>3 DEF Works
<1>5. past' \in Past /\ past'.crossed = past.crossed /\ disk' \in [exe : 0 .. 2, old : 0 .. 2]
  BY <1>1, <1>3 DEF DaemonTypeOK
<1>6. QED
  BY <1>2, <1>3, <1>4, <1>5, JobDone

\* An update removes the old binary, or moves it aside.
LEMMA RemoveBinaryOK ==
  ASSUME DaemonInv, NEW p \in DOMAIN procs, RemoveBinary(p)
  PROVE  DaemonInv'
<1>1. DaemonTypeOK /\ past \in Past /\ disk \in [exe : 0 .. 2, old : 0 .. 2]
  BY DEF DaemonInv, DaemonTypeOK
<1>2. Alive(p) /\ procs[p].job = "remove" /\ UNCHANGED <<pidFile, port>>
  BY DEF RemoveBinary
<1>3. PICK job \in {"place", "none", "swap"} : procs' = Job(p, job)
  BY DEF RemoveBinary
<1>4. disk' \in [exe : 0 .. 2, old : 0 .. 2]
  BY <1>1 DEF RemoveBinary
<1>5. past' \in Past /\ past'.crossed = past.crossed
  <2>1. CASE past' = past
    BY <1>1, <2>1
  <2>2. CASE past' = [past EXCEPT !.faults = @ + 1]
    BY <1>1, <2>2, OneMoreFault
  <2>3. QED
    BY <2>1, <2>2 DEF RemoveBinary
<1>6. job \in Works \ {"start"} /\ job # "restart" /\ procs[p].job \in Works \ {"none", "start"}
  BY <1>2 DEF Works
<1>7. QED
  BY <1>2, <1>3, <1>4, <1>5, <1>6, JobDone

\* An update puts the new binary in its place, or does not.
LEMMA PlaceBinaryOK ==
  ASSUME DaemonInv, NEW p \in DOMAIN procs, PlaceBinary(p)
  PROVE  DaemonInv'
<1>1. DaemonTypeOK /\ past \in Past /\ disk \in [exe : 0 .. 2, old : 0 .. 2]
  BY DEF DaemonInv, DaemonTypeOK
<1>2. Alive(p) /\ procs[p].job \in {"place", "swap"} /\ UNCHANGED <<pidFile, port>>
  BY DEF PlaceBinary
<1>3. procs[p].job \in Works \ {"none", "start"} /\ {"restart", "none"} \subseteq Works \ {"start"}
  BY <1>2 DEF Works
<1>4. CASE procs' = Job(p, "restart") /\ disk' = [exe |-> 2, old |-> 0] /\ past' = past
  <2>1. disk' \in [exe : 0 .. 2, old : 0 .. 2] /\ disk'.exe # 0
    BY <1>4
  <2>2. QED
    BY <1>1, <1>2, <1>3, <1>4, <2>1, JobDone
<1>5. CASE /\ procs' = Job(p, "none")
           /\ disk' = IF procs[p].job = "swap" THEN [exe |-> disk.old, old |-> 0] ELSE disk
           /\ past' = [past EXCEPT !.faults = @ + 1]
  <2>1. disk' \in [exe : 0 .. 2, old : 0 .. 2]
    BY <1>1, <1>5
  <2>2. past' \in Past /\ past'.crossed = past.crossed
    BY <1>1, <1>5, OneMoreFault
  <2>3. QED
    BY <1>2, <1>3, <1>5, <2>1, <2>2, JobDone
<1>6. QED
  BY <1>4, <1>5 DEF PlaceBinary

\* The update that is over has onwatch run once more.
LEMMA RestartOK ==
  ASSUME DaemonInv, NEW p \in DOMAIN procs, Restart(p)
  PROVE  DaemonInv'
<1> DEFINE n == Len(procs) + 1
           c == Process("stop", "none")
           ps == Job(p, "none")
<1>1. DaemonTypeOK
  BY DEF DaemonInv
<1>2. /\ Alive(p) /\ procs[p].job = "restart" /\ procs[p].at # "update"
      /\ UNCHANGED <<pidFile, port, disk, past>>
  BY DEF Restart
<1>3. /\ c \in Proc /\ c.at = "stop" /\ c.job = "none" /\ c.awaits = 0
  BY <1>1, NewProcess DEF Places, CommandPlaces, Works
<1> HIDE DEF c
<1>4. /\ ps \in Table /\ Len(ps) = Len(procs) /\ DOMAIN ps = DOMAIN procs
      /\ \A q \in DOMAIN procs \ {p} : ps[q] = procs[q]
      /\ ps[p].at = procs[p].at /\ ps[p].job = "none"
  BY <1>1, <1>2, JobTable DEF Works
<1> HIDE DEF ps
<1>5. CASE disk.exe # 0
  <2>1. procs' = Append(ps, c)
    BY <1>5 DEF Restart, ps, c
  <2>2. /\ procs' \in Table /\ Len(procs') = n /\ DOMAIN procs' = DOMAIN procs \cup {n}
        /\ n \notin DOMAIN procs
        /\ procs'[n] = c /\ \A q \in DOMAIN procs : procs'[q] = ps[q]
    <3>1. c.awaits <= Len(ps)
      BY <1>1, <1>3, <1>4, EachProcess
    <3>2. /\ procs' \in Table /\ Len(procs') = Len(ps) + 1
          /\ DOMAIN procs' = DOMAIN ps \cup {Len(ps) + 1} /\ Len(ps) + 1 \notin DOMAIN ps
          /\ procs'[Len(ps) + 1] = c /\ \A q \in DOMAIN ps : procs'[q] = ps[q]
      BY <1>3, <1>4, <2>1, <3>1, AddProcess
    <3>3. QED
      BY <1>4, <3>2
  <2>3. DaemonTypeOK'
    BY <1>1, <1>2, <2>2, EachProcess DEF DaemonTypeOK
  <2> HIDE DEF n
  <2>4. SUFFICES ASSUME ~past'.crossed PROVE InTurn'
    BY <2>3 DEF DaemonInv
  <2>5. InTurn
    BY <1>2, <2>4 DEF DaemonInv
  <2>6. Busy(p) /\ procs[p].at = "serving"
    BY <1>2, <2>5 DEF Busy, InTurn, JobsOK
  <2>7. /\ \A q \in DOMAIN procs \ {p} : procs[q].at \notin CommandPlaces /\ procs[q].job = "none"
        /\ \A d : ~Announced(d)
    BY <2>5, <2>6, Alone
  <2>8. \A q \in DOMAIN procs : /\ procs'[q].at = procs[q].at /\ procs'[q].at \notin CommandPlaces
                                /\ procs'[q].job = "none"
    BY <1>4, <2>2, <2>6, <2>7 DEF CommandPlaces
  <2>9. OneBusy' /\ JobsOK' /\ DiskOK'
    BY <1>3, <2>2, <2>8 DEF OneBusy, Busy, JobsOK, DiskOK
  <2>10. BootsOK' /\ ServesOK'
    BY <1>2, <1>3, <2>2, <2>5, <2>7, <2>8 DEF InTurn, BootsOK, ServesOK, Named
  <2>11. PortOK' /\ PidOK' /\ LeavingOK'
    BY <1>1, <1>2, <1>3, <2>2, <2>5, <2>8, EachProcess
       DEF InTurn, PortOK, PidOK, LeavingOK, NextStops
  <2>12. RemovingOK' /\ StartsOK'
    BY <1>2, <1>3, <2>2, <2>5, <2>7, <2>6, <2>8
       DEF InTurn, RemovingOK, StartsOK, CommandPlaces
  <2>13. QED
    BY <2>9, <2>10, <2>11, <2>12 DEF InTurn
<1>6. CASE disk.exe = 0
  <2>1. procs' = Job(p, "none")
    BY <1>6 DEF Restart
  <2>2. past' \in Past /\ past'.crossed = past.crossed /\ disk' \in [exe : 0 .. 2, old : 0 .. 2]
    BY <1>1, <1>2 DEF DaemonTypeOK
  <2>3. procs[p].job \in Works \ {"none", "start"} /\ "none" \in Works \ {"start"}
    BY <1>2 DEF Works
  <2>4. QED
    BY <1>2, <2>1, <2>2, <2>3, JobDone
<1>7. QED
  BY <1>5, <1>6

\* An update stops the daemon that runs the old binary.
LEMMA StopForUpdateOK ==
  ASSUME DaemonInv, NEW p \in DOMAIN procs, StopForUpdate(p)
  PROVE  DaemonInv'
<1> DEFINE v == IF Alive(pidFile) THEN pidFile ELSE 0
           js == Job(p, "start")
           c == [js[p] EXCEPT !.awaits = v]
           ps == [js EXCEPT ![p] = c]
<1>1. DaemonTypeOK
  BY DEF DaemonInv
<1>2. /\ procs[p].at = "update" /\ procs[p].job = "restart"
      /\ procs' = (IF Alive(pidFile) THEN Signalled([js EXCEPT ![p].awaits = v], pidFile)
                   ELSE [js EXCEPT ![p].awaits = v])
      /\ UNCHANGED <<pidFile, port, disk, past>>
  BY DEF StopForUpdate
<1>3. /\ js \in Table /\ Len(js) = Len(procs) /\ DOMAIN js = DOMAIN procs
      /\ \A q \in DOMAIN procs \ {p} : js[q] = procs[q]
      /\ js[p] \in Proc /\ js[p].at = "update" /\ js[p].job = "start"
  BY <1>1, <1>2, JobTable DEF Works
<1> HIDE DEF js
<1>4. v \in 0 .. Len(procs) /\ (v # 0 => v \in DOMAIN procs /\ v = pidFile /\ Alive(pidFile))
  BY <1>1, EachProcess DEF Alive, DaemonTypeOK
<1>5. /\ v = 0 => ~Alive(pidFile)
      /\ \A d \in DOMAIN procs : pidFile = d /\ procs[d].at # "gone" => v = d
  BY <1>1, EachProcess DEF Alive
<1> HIDE DEF v
<1>6. c \in Proc /\ c.at = "update" /\ c.job = "start" /\ c.awaits = v
  <2>1. v \in Nat
    BY <1>1, <1>4, EachProcess
  <2>2. QED
    BY <1>3, <2>1, WaitingProcess
<1> HIDE DEF c
<1>7. /\ ps \in Table /\ Len(ps) = Len(procs) /\ DOMAIN ps = DOMAIN procs
      /\ ps[p] = c /\ \A q \in DOMAIN procs \ {p} : ps[q] = procs[q]
  BY <1>1, <1>3, <1>4, <1>6, EachProcess DEF Table
<1>8. [js EXCEPT ![p].awaits = v] = ps
  BY DEF c
<1> HIDE DEF ps
<1>9. /\ procs' \in Table /\ Len(procs') = Len(procs) /\ DOMAIN procs' = DOMAIN procs
      /\ v = 0 => procs' = ps
      /\ v # 0 => procs'[v] = Hit(ps[v]) /\ \A q \in DOMAIN procs \ {v} : procs'[q] = ps[q]
  <2>1. CASE v = 0
    BY <1>2, <1>5, <1>7, <1>8, <2>1
  <2>2. CASE v # 0
    <3>1. procs' = Signalled(ps, v)
      BY <1>2, <1>4, <1>8, <2>2
    <3>2. QED
      BY <1>4, <1>7, <2>2, <3>1, SignalledTable
  <2>3. QED
    BY <2>1, <2>2
<1>10. DaemonTypeOK'
  BY <1>1, <1>2, <1>9 DEF DaemonTypeOK
<1>11. SUFFICES ASSUME ~past'.crossed PROVE InTurn'
  BY <1>10 DEF DaemonInv
<1>12. InTurn
  BY <1>2, <1>11 DEF DaemonInv
<1>13. Busy(p)
  BY <1>2 DEF Busy
<1>14. /\ \A q \in DOMAIN procs \ {p} : procs[q].at \notin CommandPlaces /\ procs[q].job = "none"
       /\ (\A d : ~Announced(d)) /\ disk.exe # 0
  BY <1>2, <1>12, <1>13, Alone DEF InTurn, DiskOK
<1>15. v # p
  BY <1>1, <1>2, <1>4, <1>12, EachProcess DEF InTurn, PidOK, DaemonPlaces
<1>16. /\ procs'[p] = c
       /\ \A q \in DOMAIN procs \ {p, v} : procs'[q] = procs[q]
       /\ v # 0 => procs'[v] = Hit(procs[v])
  BY <1>4, <1>7, <1>9, <1>15
<1>17. \A d \in DOMAIN procs : procs[d].at \in {"boot", "serving"} => v = d
  BY <1>5, <1>12, <1>14 DEF InTurn, BootsOK, ServesOK, Named
<1>18. \A d \in DOMAIN procs \ {p} :
          /\ procs'[d].at \notin CommandPlaces \cup {"boot", "serving"}
          /\ procs'[d].at \in DaemonPlaces /\ procs'[d].job = "none"
          /\ procs'[d].at = "removing" => procs[d].at = "removing"
  <2>1. SUFFICES ASSUME NEW d \in DOMAIN procs \ {p}
                 PROVE  /\ procs'[d].at \notin CommandPlaces \cup {"boot", "serving"}
                        /\ procs'[d].at \in DaemonPlaces /\ procs'[d].job = "none"
                        /\ procs'[d].at = "removing" => procs[d].at = "removing"
    OBVIOUS
  <2>2. /\ procs[d] \in Proc /\ procs[d].at \in DaemonPlaces /\ procs[d].job = "none"
        /\ procs[d].at \notin CommandPlaces
    BY <1>1, <1>14, EachProcess DEF Places
  <2>3. CASE d = v
    BY <1>1, <1>16, <2>2, <2>3, EachProcess, HitProcess DEF DaemonPlaces, CommandPlaces
  <2>4. CASE d # v
    BY <1>16, <1>17, <2>2, <2>4
  <2>5. QED
    BY <2>3, <2>4
<1>19. OneBusy' /\ JobsOK' /\ DiskOK' /\ BootsOK' /\ ServesOK' /\ StartsOK'
  <2>1. procs'[p].at = "update" /\ procs'[p].job = "start" /\ disk' = disk
    BY <1>2, <1>6, <1>16
  <2>2. OneBusy' /\ JobsOK' /\ DiskOK'
    BY <1>9, <1>14, <1>18, <2>1 DEF OneBusy, Busy, JobsOK, DiskOK
  <2>3. BootsOK' /\ ServesOK' /\ StartsOK'
    BY <1>9, <1>18, <2>1 DEF BootsOK, ServesOK, StartsOK, CommandPlaces
  <2>4. QED
    BY <2>2, <2>3
<1>20. PortOK'
  <2>1. SUFFICES ASSUME port # 0 PROVE procs'[port].at = "signalled" /\ pidFile \in {0, port}
    BY <1>2 DEF PortOK
  <2>2. /\ port \in DOMAIN procs /\ procs[port].at \in {"serving", "signalled"}
        /\ pidFile \in {0, port} /\ port # p
    BY <1>1, <1>2, <1>12, <2>1, EachProcess DEF InTurn, PortOK
  <2>3. CASE port = v
    BY <1>1, <1>16, <2>2, <2>3, EachProcess, HitProcess
  <2>4. CASE port # v
    BY <1>16, <1>17, <2>2, <2>4
  <2>5. QED
    BY <2>2, <2>3, <2>4
<1>21. pidFile # p
  BY <1>1, <1>2, <1>12, EachProcess DEF InTurn, PidOK, DaemonPlaces
<1>22. PidOK'
  BY <1>1, <1>2, <1>18, <1>21, EachProcess DEF PidOK
<1>23. LeavingOK'
  <2>1. SUFFICES ASSUME pidFile # 0, procs'[pidFile].at \in {"signalled", "closing", "removing"}
                 PROVE  procs'[p].job = "start" /\ procs'[p].awaits = pidFile
    BY <1>2, <1>9 DEF LeavingOK, Replaced
  <2>2. pidFile \in DOMAIN procs
    BY <1>1, <2>1, EachProcess
  <2>3. pidFile = v
    <3>1. CASE procs[pidFile].at = "gone"
      BY <1>4, <1>16, <1>21, <2>1, <2>2, <3>1 DEF Alive
    <3>2. CASE procs[pidFile].at # "gone"
      BY <1>5, <2>2, <3>2
    <3>3. QED
      BY <3>1, <3>2
  <2>4. QED
    BY <1>6, <1>16, <2>3
<1>24. RemovingOK'
  <2>1. SUFFICES ASSUME NEW r \in DOMAIN procs, procs'[r].at = "removing" PROVE pidFile = r
    BY <1>2, <1>9 DEF RemovingOK
  <2>2. procs[r].at = "removing"
    BY <1>6, <1>16, <1>18, <2>1
  <2>3. \A q \in DOMAIN procs : procs[q].at # "wait"
    BY <1>2, <1>14 DEF CommandPlaces
  <2>4. QED
    BY <1>12, <2>2, <2>3 DEF InTurn, RemovingOK
<1>25. QED
  BY <1>19, <1>20, <1>22, <1>23, <1>24 DEF InTurn

\* An update starts the new binary when the old one has left.
LEMMA StartAfterUpdateOK ==
  ASSUME DaemonInv, NEW p \in DOMAIN procs, StartAfterUpdate(p)
  PROVE  DaemonInv'
<1> DEFINE n == Len(procs) + 1
           c == Process("stop", "none")
           ps == Job(p, "none")
<1>1. DaemonTypeOK
  BY DEF DaemonInv
<1>2. /\ procs[p].at = "update" /\ procs[p].job = "start"
      /\ UNCHANGED <<pidFile, port, disk>>
  BY DEF StartAfterUpdate
<1>3. /\ c \in Proc /\ c.at = "stop" /\ c.job = "none" /\ c.awaits = 0
  BY <1>1, NewProcess DEF Places, CommandPlaces, Works
<1> HIDE DEF c
<1>4. /\ ps \in Table /\ Len(ps) = Len(procs) /\ DOMAIN ps = DOMAIN procs
      /\ \A q \in DOMAIN procs \ {p} : ps[q] = procs[q]
      /\ ps[p] = Gone
  BY <1>1, <1>2, JobTable DEF Works
<1> HIDE DEF ps
<1>5. CASE disk.exe # 0
  <2>1. procs' = Append(ps, c) /\ past' = past
    BY <1>5 DEF StartAfterUpdate, ps, c
  <2>2. /\ procs' \in Table /\ Len(procs') = n /\ DOMAIN procs' = DOMAIN procs \cup {n}
        /\ n \notin DOMAIN procs
        /\ procs'[n] = c /\ \A q \in DOMAIN procs : procs'[q] = ps[q]
    <3>1. c.awaits <= Len(ps)
      BY <1>1, <1>3, <1>4, EachProcess
    <3>2. /\ procs' \in Table /\ Len(procs') = Len(ps) + 1
          /\ DOMAIN procs' = DOMAIN ps \cup {Len(ps) + 1} /\ Len(ps) + 1 \notin DOMAIN ps
          /\ procs'[Len(ps) + 1] = c /\ \A q \in DOMAIN ps : procs'[q] = ps[q]
      BY <1>3, <1>4, <2>1, <3>1, AddProcess
    <3>3. QED
      BY <1>4, <3>2
  <2>3. DaemonTypeOK'
    BY <1>1, <1>2, <2>1, <2>2, EachProcess DEF DaemonTypeOK
  <2> HIDE DEF n
  <2>4. SUFFICES ASSUME ~past'.crossed PROVE InTurn'
    BY <2>3 DEF DaemonInv
  <2>5. InTurn
    BY <2>1, <2>4 DEF DaemonInv
  <2>6. Busy(p)
    BY <1>2 DEF Busy
  <2>7. /\ \A q \in DOMAIN procs \ {p} : procs[q].at \notin CommandPlaces /\ procs[q].job = "none"
        /\ \A d : ~Announced(d)
    BY <1>2, <2>5, <2>6, Alone
  <2>8. \A q \in DOMAIN procs :
           /\ procs'[q].at \notin CommandPlaces /\ procs'[q].job = "none"
           /\ procs'[q].at # "gone" => procs'[q].at = procs[q].at
           /\ procs[q].at # "update" => procs'[q].at = procs[q].at
    BY <1>2, <1>4, <2>2, <2>7, GoneProcess DEF CommandPlaces
  <2>9. OneBusy' /\ JobsOK' /\ DiskOK'
    BY <1>3, <2>2, <2>8 DEF OneBusy, Busy, JobsOK, DiskOK
  <2>10. BootsOK' /\ ServesOK'
    BY <1>2, <1>3, <2>2, <2>5, <2>7, <2>8 DEF InTurn, BootsOK, ServesOK, Named
  <2>11. PortOK' /\ PidOK' /\ LeavingOK'
    BY <1>1, <1>2, <1>3, <2>2, <2>5, <2>8, EachProcess
       DEF InTurn, PortOK, PidOK, LeavingOK, NextStops, DaemonPlaces
  <2>12. RemovingOK' /\ StartsOK'
    BY <1>2, <1>3, <2>2, <2>5, <2>7, <2>8
       DEF InTurn, RemovingOK, StartsOK, CommandPlaces
  <2>13. QED
    BY <2>9, <2>10, <2>11, <2>12 DEF InTurn
<1>6. CASE disk.exe = 0
  <2>1. procs' = ps /\ past' = [past EXCEPT !.wanted = FALSE]
    BY <1>6 DEF StartAfterUpdate, ps
  <2>2. past' \in Past /\ past'.crossed = past.crossed
    BY <1>1, <2>1 DEF DaemonTypeOK, Past
  <2>3. DaemonTypeOK'
    BY <1>1, <1>2, <1>4, <2>1, <2>2 DEF DaemonTypeOK
  <2>4. past'.crossed
    BY <1>2, <1>6, <2>2 DEF DaemonInv, InTurn, DiskOK
  <2>5. QED
    BY <2>3, <2>4 DEF DaemonInv
<1>7. QED
  BY <1>5, <1>6

-----------------------------------------------------------------------------
(* The theorems *)

\* Initially nothing runs.
LEMMA DaemonInitOK ==
  ASSUME DaemonInit
  PROVE  DaemonInv
<1>1. procs = <<>> /\ DOMAIN procs = {} /\ Len(procs) = 0
  BY DEF DaemonInit
<1>2. procs \in Table
  BY <1>1 DEF Table
<1>3. DaemonTypeOK
  BY <1>1, <1>2 DEF DaemonInit, DaemonTypeOK, Past
<1>4. InTurn
  BY <1>1 DEF DaemonInit, InTurn, OneBusy, JobsOK, DiskOK, BootsOK, ServesOK, PortOK, PidOK,
              StartsOK, LeavingOK, RemovingOK
<1>5. QED
  BY <1>3, <1>4 DEF DaemonInv

\* What goes on by itself keeps the invariant.
LEMMA DaemonStepsOK ==
  ASSUME DaemonInv, DaemonSteps
  PROVE  DaemonInv'
<1>1. PICK p \in DOMAIN procs :
         \/ StopPreviousInstance(p) \/ SleepHalfSecond(p) \/ Daemonize(p) \/ WriteChildPID(p)
         \/ Listen(p) \/ Shutdown(p) \/ ReadPIDFile(p) \/ RemovePIDFile(p)
         \/ FetchUpdate(p) \/ RemoveBinary(p) \/ PlaceBinary(p)
         \/ Restart(p) \/ StopForUpdate(p) \/ StartAfterUpdate(p)
  BY DEF DaemonSteps
<1>2. QED
  BY <1>1, StopPreviousInstanceOK, SleepHalfSecondOK, DaemonizeOK, WriteChildPIDOK, ListenOK,
     ShutdownOK, ReadPIDFileOK, RemovePIDFileOK, FetchUpdateOK, RemoveBinaryOK, PlaceBinaryOK,
     RestartOK, StopForUpdateOK, StartAfterUpdateOK

\* So does what the user and the system do.
LEMMA DaemonOutsideOK ==
  ASSUME DaemonInv, DaemonOutside
  PROVE  DaemonInv'
<1>1. CASE StartCommand
  BY <1>1, CommandOK DEF StartCommand
<1>2. CASE RunStop
  BY <1>2, RunStopOK
<1>3. CASE UpdateCommand
  <2>1. past.wanted \in BOOLEAN
    BY DEF DaemonInv, DaemonTypeOK, Past
  <2>2. QED
    BY <1>3, <2>1, CommandOK DEF UpdateCommand
<1>4. CASE \E p \in DOMAIN procs : Foreground(p) \/ ApplyUpdate(p) \/ CrashDaemon(p)
  BY <1>4, ForegroundOK, ApplyUpdateOK, CrashDaemonOK
<1>5. QED
  BY <1>1, <1>2, <1>3, <1>4 DEF DaemonOutside

\* The invariant holds throughout.
LEMMA DaemonInvAlways == DaemonSpec => []DaemonInv
<1>1. DaemonInv /\ UNCHANGED daemonVars => DaemonInv'
  BY DEF DaemonInv, DaemonTypeOK, InTurn, OneBusy, Busy, JobsOK, DiskOK, BootsOK, ServesOK, Named,
     Announced, PortOK, PidOK, StartsOK, LeavingOK, NextStops, Replaced, RemovingOK, daemonVars
<1>2. DaemonInv /\ [DaemonSteps \/ DaemonOutside]_daemonVars => DaemonInv'
  BY <1>1, DaemonStepsOK, DaemonOutsideOK
<1>3. DaemonInit => DaemonInv
  BY DaemonInitOK
<1>4. QED
  BY <1>2, <1>3, PTL DEF DaemonSpec

\* Every PID that is written down, waited for or listening was given out.
THEOREM DaemonTypeCorrect == DaemonSpec => []DaemonTypeOK
<1>1. DaemonInv => DaemonTypeOK
  BY DEF DaemonInv
<1>2. QED
  BY <1>1, DaemonInvAlways, PTL

\* Starts, stops and updates that do not overlap, with crashes and file operations
\* that fail among them, leave the PID file naming the daemon that serves.
THEOREM PIDFileAlwaysNamesServer == DaemonSpec => []PIDFileNamesServer
<1>1. DaemonInv => PIDFileNamesServer
  <2>1. SUFFICES ASSUME DaemonInv, Quiet, ~past.crossed, port # 0, procs[port].at = "serving"
                 PROVE  pidFile = port
    BY DEF PIDFileNamesServer
  <2>2. DaemonTypeOK /\ InTurn
    BY <2>1 DEF DaemonInv
  <2>3. port \in DOMAIN procs
    BY <2>1, <2>2, EachProcess
  <2>4. Named(port)
    BY <2>1, <2>2, <2>3 DEF InTurn, ServesOK
  <2>5. ~Announced(port)
    BY <2>1 DEF Announced, Quiet, Commands
  <2>6. QED
    BY <2>4, <2>5 DEF Named
<1>2. QED
  BY <1>1, DaemonInvAlways, PTL

-----------------------------------------------------------------------------
(***************************************************************************)
(* The accounts of MiniMax.  That the agents follow the accounts is kept   *)
(* by the lock of Reload only together with what each line of a reload     *)
(* knows: which agents are left, whose context they have, and which        *)
(* changes have been written whose rows have not been read yet.            *)
(***************************************************************************)

\* Where a thread loads the accounts, and where a request works on a row.
Loading == {"stop", "wait", "query", "start", "launch"}
Changing == {"row", "restore", "rename", "metadata", "delete", "lock"}

\* All lines of a thread.
ThreadPlaces == {"none", "serve", "done"} \cup Loading \cup Changing

\* The records of a thread, an account, an agent and the history.
ThreadShape ==
    [at : ThreadPlaces,
     op : {"", "create", "update", "delete"}, on : {0} \cup AccountIds, key : Nat,
     todo : SUBSET (AccountIds \X Nat), cancelled : BOOLEAN, wrote : BOOLEAN]
AccountShape == [name : {""} \cup AccountNames, key : Nat, gone : BOOLEAN]
InstanceShape ==
    [account : {0} \cup AccountIds, key : Nat, parent : {"none"} \cup ManagerRuns,
     mapped : BOOLEAN, cancelled : BOOLEAN, live : BOOLEAN]
SeenShape == [requests : Nat, faults : Nat, keys : Nat, unloaded : SUBSET ({0} \cup AccountIds)]

\* The types of the variables.
MiniMaxTypeOK ==
    /\ accounts \in [AccountIds -> AccountShape]
    /\ instances \in [Slots -> InstanceShape]
    /\ threads \in [Threads -> ThreadShape]
    /\ reloadMu \in {"free"} \cup AccountClients
    /\ ctx \in {"none"} \cup ManagerRuns
    /\ registry \in {"none"} \cup ManagerRuns
    /\ seen \in SeenShape

\* Used up to its end, or in the map.
Taken(s) == instances[s] # NoInstance

\* Runs follow one another, and requests and the start of a run do not overlap.
RunsInTurn ==
    /\ \A r \in ManagerRuns : threads[r].at \notin Changing
    /\ \A c \in AccountClients : threads[c].at \notin {"serve", "done"}
    /\ threads["rerun"].at # "none" => threads["run"].at = "done"
    /\ ctx = IF threads["rerun"].at # "none" THEN "rerun"
             ELSE IF threads["run"].at # "none" THEN "run" ELSE "none"
    /\ \A r \in ManagerRuns :
          /\ threads[r].at \in {"query", "start", "launch"} => NoneUnderway
          /\ threads[r].at \in {"stop", "wait"} => threads[r].cancelled
    /\ registry # "none" => threads[registry].at \notin {"none", "done"}

\* It has agents to start.
Starts(t) == threads[t].at = "launch" \/ threads[t].todo # {}

\* A reload has the lock, and the manager runs while it has something to start.
ReloadsInTurn ==
    \A c \in AccountClients :
       /\ threads[c].at \in Loading => reloadMu = c
       /\ threads[c].at \in {"stop", "wait", "query"} \/ Starts(c) => ~ContextDone(ctx)

\* Only a thread that starts agents has any to start.
TodoOK == \A t \in Threads : threads[t].todo # {} => threads[t].at \in {"start", "launch"}

\* An account has one agent at most, which is of the run the manager has.
SlotsOK ==
    /\ \A s \in Slots : Taken(s) =>
          /\ instances[s].account \in AccountIds /\ instances[s].parent = ctx
          /\ instances[s].live \/ instances[s].mapped
    /\ \A s, u \in Slots :
          Taken(s) /\ Taken(u) /\ instances[s].account = instances[u].account => s = u

\* What is left of the agents when a thread stops them, and when it starts new ones.
PlacesOK ==
    /\ ContextDone(ctx) /\ (\A r \in ManagerRuns : threads[r].at \in {"none", "done"})
         => \A s \in Slots : ~Taken(s)
    /\ \A t \in Threads :
          /\ threads[t].at = "wait" => \A s \in Slots : ~instances[s].mapped
          /\ threads[t].at = "query" => \A s \in Slots : ~Taken(s)
          /\ Starts(t) => \A s \in Slots : Taken(s) => instances[s].mapped
          /\ threads[t].at = "launch" =>
                /\ threads[t].todo # {}
                /\ \A s \in Slots : Taken(s) => instances[s].account # NextToStart(t)[1]

\* A request has changed the account and has yet to have the rows read.
Dirty(i) ==
    \E c \in AccountClients :
       /\ threads[c].on = i
       /\ \/ threads[c].at \in {"lock", "stop", "wait", "query"}
          \/ threads[c].at \in {"rename", "metadata"} /\ threads[c].wrote

\* The account has this key, or someone knows that it has another.
Current(i, key) == (Active(i) /\ accounts[i].key = key) \/ Dirty(i) \/ i \in seen.unloaded

\* The keys of the agents that go on, and of those to start, are accounted for.
KeysOK ==
    /\ \A s \in Slots : instances[s].live /\ ~AgentStops(instances[s]) =>
          Current(instances[s].account, instances[s].key)
    /\ \A t \in Threads : \A a \in threads[t].todo : Current(a[1], a[2])

\* The invariant of the accounts.
MiniMaxInv ==
    MiniMaxTypeOK /\ RunsInTurn /\ ReloadsInTurn /\ TodoOK /\ SlotsOK /\ PlacesOK /\ KeysOK

\* A thread that stops agents, or that has agents to start.
Loads(t) == threads[t].at \in {"stop", "wait", "query"} \/ Starts(t)

-----------------------------------------------------------------------------
\* The manager's runs and the requests are not the same threads.
LEMMA ThreadKinds ==
  /\ Threads = ManagerRuns \cup AccountClients
  /\ \A r \in ManagerRuns : r \notin AccountClients
  /\ "run" \in ManagerRuns /\ "rerun" \in ManagerRuns /\ "run" # "rerun" /\ "none" \notin ManagerRuns
  /\ \A r \in ManagerRuns : r = "run" \/ r = "rerun"
  /\ "free" \notin AccountClients
BY DEF Threads, ManagerRuns, AccountClients

\* A thread that is free loads nothing.
LEMMA NoThreadIs ==
  NoThread.at = "none" /\ NoThread.todo = {} /\ NoThread.on = 0 /\ NoThread \in ThreadShape
BY DEF NoThread, ThreadShape, ThreadPlaces

\* What is to be started is an account with a key.
LEMMA TodoShape ==
  ASSUME MiniMaxInv, NEW t \in Threads, NEW a \in threads[t].todo
  PROVE  a[1] \in AccountIds /\ a[2] \in Nat
<1>1. threads[t] \in ThreadShape
  BY DEF MiniMaxInv, MiniMaxTypeOK
<1>2. threads[t].todo \in SUBSET (AccountIds \X Nat)
  BY <1>1 DEF ThreadShape
<1>3. a \in AccountIds \X Nat
  BY <1>2
<1>4. QED
  BY <1>3

\* No two threads load accounts at once.
LEMMA OneLoads ==
  ASSUME MiniMaxInv, NEW t \in Threads, NEW u \in Threads, t # u, Loads(t)
  PROVE  ~Loads(u)
<1>1. \A r \in ManagerRuns : Loads(r) => r = ctx
  BY ThreadKinds DEF MiniMaxInv, MiniMaxTypeOK, RunsInTurn, Loads, Starts, TodoOK
<1>2. \A r \in ManagerRuns, c \in AccountClients : ~(Loads(r) /\ Loads(c))
  <2> SUFFICES ASSUME NEW r \in ManagerRuns, NEW c \in AccountClients, Loads(r), Loads(c)
               PROVE  FALSE
    OBVIOUS
  <2>1. CASE threads[r].at \in {"stop", "wait"}
    BY <2>1, <1>1, ThreadKinds
       DEF MiniMaxInv, RunsInTurn, ReloadsInTurn, Loads, Starts, ContextDone
  <2>2. CASE threads[r].at \notin {"stop", "wait"}
    <3>1. threads[r].at \in {"query", "start", "launch"}
      BY <2>2, ThreadKinds DEF MiniMaxInv, TodoOK, Loads, Starts
    <3>2. threads[c] = NoThread
      BY <3>1 DEF MiniMaxInv, RunsInTurn, NoneUnderway
    <3>3. QED
      BY <3>2, NoThreadIs DEF Loads, Starts
  <2>3. QED
    BY <2>1, <2>2
<1>3. \A c, d \in AccountClients : Loads(c) /\ Loads(d) => c = d
  BY ThreadKinds DEF MiniMaxInv, ReloadsInTurn, TodoOK, Loads, Starts, Loading
<1>4. QED
  BY <1>1, <1>2, <1>3, ThreadKinds

\* A thread goes on to another line.
LEMMA ThreadMoves ==
  ASSUME threads \in [Threads -> ThreadShape], NEW t \in Threads, NEW at \in ThreadPlaces,
         threads' = [threads EXCEPT ![t].at = at]
  PROVE  /\ threads' \in [Threads -> ThreadShape]
         /\ \A u \in Threads : u # t => threads'[u] = threads[u]
         /\ threads'[t].at = at
         /\ \A u \in Threads :
               /\ threads'[u].op = threads[u].op /\ threads'[u].on = threads[u].on
               /\ threads'[u].key = threads[u].key /\ threads'[u].todo = threads[u].todo
               /\ threads'[u].cancelled = threads[u].cancelled
               /\ threads'[u].wrote = threads[u].wrote
<1>1. threads[t] \in ThreadShape
  OBVIOUS
<1> DEFINE after == [threads[t] EXCEPT !.at = at]
<1>2. /\ after \in ThreadShape /\ after.at = at
      /\ after.op = threads[t].op /\ after.on = threads[t].on /\ after.key = threads[t].key
      /\ after.todo = threads[t].todo /\ after.cancelled = threads[t].cancelled
      /\ after.wrote = threads[t].wrote
  BY <1>1 DEF ThreadShape
<1>3. threads' = [threads EXCEPT ![t] = after]
  OBVIOUS
<1> HIDE DEF after
<1>4. QED
  BY <1>2, <1>3

\* A thread that loads and is at another line, with other accounts to start.
LoadsOn(thread, at, todo) == [thread EXCEPT !.at = at, !.todo = todo]

\* It stays the same thread in everything else.
LEMMA LoadsOnIs ==
  ASSUME NEW thread \in ThreadShape, NEW at \in ThreadPlaces,
         NEW todo, todo \subseteq AccountIds \X Nat
  PROVE  LET after == LoadsOn(thread, at, todo)
         IN  /\ after \in ThreadShape /\ after.at = at /\ after.todo = todo
             /\ after.on = thread.on /\ after.cancelled = thread.cancelled
             /\ after.wrote = thread.wrote
<1>1. todo \in SUBSET (AccountIds \X Nat)
  OBVIOUS
<1>2. QED
  BY <1>1 DEF ThreadShape, LoadsOn

\* Initially there are no agents and no threads.
LEMMA InitEstablishesMiniMaxInv ==
  MiniMaxInit => MiniMaxInv
<1> SUFFICES ASSUME MiniMaxInit PROVE MiniMaxInv
  OBVIOUS
<1>1. MiniMaxTypeOK
  <2>1. NoThread \in ThreadShape
    BY DEF NoThread, ThreadShape, ThreadPlaces
  <2>2. NoInstance \in InstanceShape
    BY DEF NoInstance, InstanceShape
  <2>3. accounts \in [AccountIds -> AccountShape]
    <3>1. PICK key \in {0, 1}, gone \in BOOLEAN :
             accounts = [i \in AccountIds |->
                     IF i = 1 THEN [name |-> "default", key |-> key, gone |-> gone]
                     ELSE NoAccount]
      BY DEF MiniMaxInit
    <3>2. [name |-> "default", key |-> key, gone |-> gone] \in AccountShape /\ NoAccount \in AccountShape
      BY DEF NoAccount, AccountShape, AccountNames
    <3>3. QED
      BY <3>1, <3>2
  <2>4. seen \in SeenShape
    BY DEF MiniMaxInit, SeenShape
  <2>5. QED
    BY <2>1, <2>2, <2>3, <2>4 DEF MiniMaxInit, MiniMaxTypeOK
<1>2. \A t \in Threads : threads[t] = NoThread
  BY DEF MiniMaxInit
<1>3. \A s \in Slots : instances[s] = NoInstance
  BY DEF MiniMaxInit
<1>4. \A t \in Threads : threads[t].at = "none" /\ threads[t].todo = {}
  BY <1>2, NoThreadIs
<1>5. RunsInTurn
  BY <1>4, ThreadKinds DEF MiniMaxInit, RunsInTurn, Changing
<1>6. ReloadsInTurn /\ TodoOK
  BY <1>4, ThreadKinds DEF ReloadsInTurn, TodoOK, Starts, Loading
<1>7. SlotsOK /\ PlacesOK
  BY <1>3, <1>4 DEF SlotsOK, PlacesOK, Taken, Starts, NoInstance
<1>8. KeysOK
  BY <1>3, <1>4 DEF KeysOK, NoInstance
<1>9. QED
  BY <1>1, <1>5, <1>6, <1>7, <1>8 DEF MiniMaxInv

-----------------------------------------------------------------------------
(* The agents *)

\* A free slot has no agent that runs, is in the map or has an account.
LEMMA NoInstanceIs ==
  ~NoInstance.live /\ ~NoInstance.mapped /\ NoInstance.account = 0 /\ NoInstance \in InstanceShape
BY DEF NoInstance, InstanceShape

\* Keys stay accounted for as long as no agent and nothing to start is added.
LEMMA KeysStay ==
  ASSUME MiniMaxInv,
         \A i \in AccountIds, key \in Nat : Current(i, key) => Current(i, key)',
         \A s \in Slots : instances'[s].live /\ ~AgentStops(instances[s])' =>
            /\ instances[s].live /\ ~AgentStops(instances[s])
            /\ instances'[s].account = instances[s].account /\ instances'[s].key = instances[s].key,
         \A u \in Threads : threads'[u].todo \subseteq threads[u].todo
  PROVE  KeysOK'
<1>1. \A s \in Slots : instances[s].live => instances[s].account \in AccountIds /\ instances[s].key \in Nat
  BY NoInstanceIs DEF MiniMaxInv, MiniMaxTypeOK, SlotsOK, Taken, InstanceShape
<1>2. \A s \in Slots : instances'[s].live /\ ~AgentStops(instances[s])' =>
         Current(instances[s].account, instances[s].key)'
  <2> SUFFICES ASSUME NEW s \in Slots, instances'[s].live, ~AgentStops(instances[s])'
               PROVE  Current(instances[s].account, instances[s].key)'
    OBVIOUS
  <2>1. Current(instances[s].account, instances[s].key)
    BY DEF MiniMaxInv, KeysOK
  <2>2. instances[s].account \in AccountIds /\ instances[s].key \in Nat
    BY <1>1
  <2>3. QED
    BY <2>1, <2>2
<1>3. \A u \in Threads : \A a \in threads'[u].todo : Current(a[1], a[2])'
  BY TodoShape DEF MiniMaxInv, KeysOK
<1>4. QED
  BY <1>2, <1>3 DEF KeysOK

\* A thread that stops all agents leaves none in the map.
LEMMA StopAllKeepsMiniMaxInv ==
  ASSUME MiniMaxInv, NEW t \in Threads, StopAllAgents(t)
  PROVE  MiniMaxInv'
<1>1. /\ threads[t].at = "stop" /\ threads' = [threads EXCEPT ![t].at = "wait"]
      /\ UNCHANGED <<accounts, reloadMu, ctx, registry, seen>>
  BY DEF StopAllAgents, AtLine
<1>2. /\ threads' \in [Threads -> ThreadShape]
      /\ \A u \in Threads : u # t => threads'[u] = threads[u]
      /\ threads'[t].at = "wait"
      /\ \A u \in Threads :
            /\ threads'[u].on = threads[u].on /\ threads'[u].todo = threads[u].todo
            /\ threads'[u].cancelled = threads[u].cancelled /\ threads'[u].wrote = threads[u].wrote
  BY <1>1, ThreadMoves, "wait" \in ThreadPlaces DEF MiniMaxInv, MiniMaxTypeOK, ThreadPlaces, Loading
<1>3. \A s \in Slots :
         /\ instances'[s] \in InstanceShape /\ ~instances'[s].mapped
         /\ Taken(s)' => /\ Taken(s) /\ instances'[s].live /\ instances[s].live
                         /\ instances'[s].account = instances[s].account
                         /\ instances'[s].parent = instances[s].parent
                         /\ instances'[s].key = instances[s].key
                         /\ instances'[s].cancelled \/ instances'[s] = instances[s]
  <2> TAKE s \in Slots
  <2>1. instances[s] \in InstanceShape /\ NoInstance \in InstanceShape /\ ~NoInstance.mapped
    BY DEF MiniMaxInv, MiniMaxTypeOK, NoInstance, InstanceShape
  <2>2. instances'[s] = IF ~instances[s].mapped THEN instances[s]
                  ELSE IF instances[s].live
                  THEN [instances[s] EXCEPT !.mapped = FALSE, !.cancelled = TRUE]
                  ELSE NoInstance
    BY DEF StopAllAgents, TakeAll
  <2>3. Taken(s) => instances[s].live \/ instances[s].mapped
    BY DEF MiniMaxInv, SlotsOK
  <2>4. CASE ~instances[s].mapped
    BY <2>1, <2>2, <2>3, <2>4 DEF Taken
  <2>5. CASE instances[s].mapped /\ instances[s].live
    <3> DEFINE g == [instances[s] EXCEPT !.mapped = FALSE, !.cancelled = TRUE]
    <3>1. /\ g \in InstanceShape /\ ~g.mapped /\ g.cancelled /\ g.live
          /\ g.account = instances[s].account /\ g.parent = instances[s].parent
          /\ g.key = instances[s].key
      BY <2>1, <2>5 DEF InstanceShape
    <3>2. instances'[s] = g /\ Taken(s)
      BY <2>1, <2>2, <2>5 DEF Taken
    <3> HIDE DEF g
    <3>3. QED
      BY <3>1, <3>2, <2>5 DEF Taken
  <2>6. CASE instances[s].mapped /\ ~instances[s].live
    BY <2>1, <2>2, <2>6 DEF Taken
  <2>7. QED
    BY <2>4, <2>5, <2>6
<1>4. instances' \in [Slots -> InstanceShape]
  BY <1>3 DEF StopAllAgents, TakeAll
<1>5. MiniMaxTypeOK'
  BY <1>1, <1>2, <1>4 DEF MiniMaxInv, MiniMaxTypeOK
<1>6. RunsInTurn'
  BY <1>1, <1>2, ThreadKinds, NoThreadIs DEF MiniMaxInv, RunsInTurn, NoneUnderway, Changing
<1>7. ReloadsInTurn' /\ TodoOK'
  BY <1>1, <1>2, ThreadKinds DEF MiniMaxInv, MiniMaxTypeOK, ReloadsInTurn, TodoOK, Starts, ContextDone, Loading
<1>8. SlotsOK'
  BY <1>1, <1>3 DEF MiniMaxInv, SlotsOK
<1>9. \A u \in Threads : u # t => ~Loads(u)
  BY <1>1, OneLoads DEF Loads
<1>10. PlacesOK'
  <2>1. (ContextDone(ctx) /\ (\A r \in ManagerRuns : threads[r].at \in {"none", "done"}))'
           => \A s \in Slots : ~Taken(s)'
    BY <1>1, <1>2, <1>3, ThreadKinds
       DEF MiniMaxInv, MiniMaxTypeOK, PlacesOK, ReloadsInTurn, ContextDone
  <2>2. \A u \in Threads : threads'[u].at # "query" /\ ~Starts(u)'
    BY <1>1, <1>2, <1>9 DEF Loads, Starts, MiniMaxInv, TodoOK
  <2>3. QED
    BY <2>1, <2>2, <1>3 DEF PlacesOK, Starts
<1>11. \A i : Dirty(i) => Dirty(i)'
  BY <1>1, <1>2, ThreadKinds DEF Dirty
<1>12. \A i \in AccountIds, key \in Nat : Current(i, key) => Current(i, key)'
  BY <1>1, <1>11 DEF Current, Active
<1>13. KeysOK'
  <2>1. \A s \in Slots : instances'[s].live /\ ~AgentStops(instances[s])' =>
           instances[s].live /\ ~AgentStops(instances[s])
               /\ instances'[s].account = instances[s].account /\ instances'[s].key = instances[s].key
    BY <1>1, <1>2, <1>3, ThreadKinds, NoInstanceIs DEF AgentStops, ContextDone, Taken, MiniMaxInv, MiniMaxTypeOK, InstanceShape
  <2>2. \A u \in Threads : threads'[u].todo \subseteq threads[u].todo
    BY <1>2
  <2>3. QED
    BY <2>1, <2>2, <1>12, KeysStay
<1>14. QED
  BY <1>5, <1>6, <1>7, <1>8, <1>10, <1>13 DEF MiniMaxInv

\* The agents have ended, and with them those of the map.
LEMMA AgentsEndedKeepsMiniMaxInv ==
  ASSUME MiniMaxInv, NEW t \in Threads, AgentsEnded(t)
  PROVE  MiniMaxInv'
<1> DEFINE at == IF t \in ManagerRuns THEN "done" ELSE "query"
<1>1. /\ threads[t].at = "wait" /\ threads' = [threads EXCEPT ![t].at = at]
      /\ \A s \in Slots : ~instances[s].live
      /\ registry' = IF t \in ManagerRuns THEN "none" ELSE registry
      /\ UNCHANGED <<accounts, instances, reloadMu, ctx, seen>>
  BY DEF AgentsEnded, AtLine
<1>2. /\ threads' \in [Threads -> ThreadShape]
      /\ \A u \in Threads : u # t => threads'[u] = threads[u]
      /\ threads'[t].at = at
      /\ \A u \in Threads :
            /\ threads'[u].on = threads[u].on /\ threads'[u].todo = threads[u].todo
            /\ threads'[u].cancelled = threads[u].cancelled /\ threads'[u].wrote = threads[u].wrote
  BY <1>1, ThreadMoves, at \in ThreadPlaces DEF MiniMaxInv, MiniMaxTypeOK, ThreadPlaces, Loading
<1>3. \A s \in Slots : ~Taken(s) /\ ~Taken(s)'
  BY <1>1 DEF MiniMaxInv, SlotsOK, PlacesOK, Taken
<1>4. \A u \in Threads : u # t => ~Loads(u)
  BY <1>1, OneLoads DEF Loads
<1>5. threads[t].todo = {}
  BY <1>1 DEF MiniMaxInv, TodoOK
<1>6. CASE t \in ManagerRuns
  <2>1. at = "done" /\ t \notin AccountClients
    BY <1>6, ThreadKinds
  <2>2. t = ctx /\ threads[t].cancelled
    BY <1>1, <1>6, ThreadKinds DEF MiniMaxInv, RunsInTurn
  <2>3. \A c \in AccountClients : ~Loads(c) /\ threads'[c] = threads[c]
    BY <1>2, <1>4, <2>1, ThreadKinds
  <2>4. MiniMaxTypeOK'
    BY <1>1, <1>2, <1>6 DEF MiniMaxInv, MiniMaxTypeOK
  <2>5. RunsInTurn'
    BY <1>1, <1>2, <1>6, <2>1, <2>3, ThreadKinds DEF MiniMaxInv, RunsInTurn, NoneUnderway, Changing
  <2>6. ReloadsInTurn' /\ TodoOK'
    BY <1>1, <1>2, <1>5, <2>3, ThreadKinds DEF MiniMaxInv, ReloadsInTurn, TodoOK, Starts, Loads
  <2>7. SlotsOK'
    BY <1>3 DEF SlotsOK
  <2>8. PlacesOK'
    BY <1>1, <1>2, <1>3, <1>4, <1>5, <2>1, NoInstanceIs DEF PlacesOK, Starts, Loads, Taken
  <2>9. \A i \in AccountIds, key \in Nat : Current(i, key) => Current(i, key)'
    BY <1>1, <2>3 DEF Current, Active, Dirty
  <2>10. KeysOK'
    BY <1>1, <1>2, <2>9, KeysStay
  <2>11. QED
    BY <2>4, <2>5, <2>6, <2>7, <2>8, <2>10 DEF MiniMaxInv
<1>7. CASE t \notin ManagerRuns
  <2>1. at = "query" /\ t \in AccountClients
    BY <1>7, ThreadKinds
  <2>2. \A r \in ManagerRuns : threads'[r] = threads[r]
    BY <1>2, <1>7, ThreadKinds
  <2>3. reloadMu = t /\ ~ContextDone(ctx) /\ ~ContextDone(ctx)'
    BY <1>1, <2>1, <2>2 DEF MiniMaxInv, MiniMaxTypeOK, ReloadsInTurn, Loading, ContextDone
  <2>4. MiniMaxTypeOK'
    BY <1>1, <1>2, <1>7 DEF MiniMaxInv, MiniMaxTypeOK
  <2>5. RunsInTurn'
    BY <1>1, <1>2, <1>7, <2>1, <2>2, ThreadKinds, NoThreadIs DEF MiniMaxInv, RunsInTurn, NoneUnderway
  <2>6. ReloadsInTurn' /\ TodoOK'
    BY <1>1, <1>2, <1>5, <2>3, ThreadKinds DEF MiniMaxInv, ReloadsInTurn, TodoOK, Starts, Loading
  <2>7. SlotsOK'
    BY <1>3 DEF SlotsOK
  <2>8. PlacesOK'
    BY <1>1, <1>2, <1>3, <1>4, <1>5, <2>1, NoInstanceIs DEF PlacesOK, Starts, Loads, Taken
  <2>9. \A i \in AccountIds, key \in Nat : Current(i, key) => Current(i, key)'
    BY <1>1, <1>2, <2>1, ThreadKinds DEF Current, Active, Dirty
  <2>10. KeysOK'
    BY <1>1, <1>2, <2>9, KeysStay
  <2>11. QED
    BY <2>4, <2>5, <2>6, <2>7, <2>8, <2>10 DEF MiniMaxInv
<1>8. QED
  BY <1>6, <1>7

\* The rows that are read are the accounts as they are.
LEMMA QueryKeepsMiniMaxInv ==
  ASSUME MiniMaxInv, NEW t \in Threads, QueryAccounts(t)
  PROVE  MiniMaxInv'
<1> DEFINE read == {<<i, accounts[i].key>> : i \in {j \in AccountIds : Active(j)}}
<1>1. /\ threads[t].at = "query"
      /\ UNCHANGED <<accounts, instances, reloadMu, ctx, registry>>
  BY DEF QueryAccounts
<1>2. threads[t].todo = {} /\ threads[t] \in ThreadShape
  BY <1>1 DEF MiniMaxInv, MiniMaxTypeOK, TodoOK
<1>3. \A i \in AccountIds : accounts[i].key \in Nat
  BY DEF MiniMaxInv, MiniMaxTypeOK, AccountShape
<1>4. read \in SUBSET (AccountIds \X Nat)
  BY <1>3
<1>5. PICK todo \in {{}, read} :
         /\ threads' = [threads EXCEPT ![t].at = "start", ![t].todo = todo]
         /\ \/ seen' = [seen EXCEPT !.unloaded = {}]
            \/ todo = {} /\ seen' = [seen EXCEPT !.faults = @ + 1, !.unloaded = AccountIds]
  <2>1. threads[t].todo = {} => [threads EXCEPT ![t].at = "start"] = [threads EXCEPT ![t].at = "start", ![t].todo = {}]
    BY <1>2 DEF ThreadShape
  <2>2. QED
    BY <1>2, <2>1 DEF QueryAccounts
<1> HIDE DEF read
<1>6. todo \in SUBSET (AccountIds \X Nat) /\ "start" \in ThreadPlaces
  BY <1>4 DEF ThreadPlaces, Loading
<1>7. /\ threads' \in [Threads -> ThreadShape]
      /\ \A u \in Threads : u # t => threads'[u] = threads[u]
      /\ threads'[t].at = "start" /\ threads'[t].todo = todo
      /\ \A u \in Threads :
            /\ threads'[u].on = threads[u].on /\ threads'[u].cancelled = threads[u].cancelled
            /\ threads'[u].wrote = threads[u].wrote
  <2>1. threads \in [Threads -> ThreadShape]
    BY DEF MiniMaxInv, MiniMaxTypeOK
  <2>2. threads' = [threads EXCEPT ![t] = LoadsOn(threads[t], "start", todo)]
    BY <1>5 DEF LoadsOn
  <2>3. QED
    <3>1. todo \subseteq AccountIds \X Nat
      BY <1>6
    <3> DEFINE after == LoadsOn(threads[t], "start", todo)
    <3>2. /\ after \in ThreadShape /\ after.at = "start" /\ after.todo = todo
          /\ after.on = threads[t].on /\ after.cancelled = threads[t].cancelled
          /\ after.wrote = threads[t].wrote
      BY <1>2, <1>6, <3>1, LoadsOnIs
    <3> HIDE DEF after
    <3>3. threads' = [threads EXCEPT ![t] = after]
      BY <2>2 DEF after
    <3>4. QED
      BY <2>1, <3>2, <3>3
<1>8. \A s \in Slots : ~Taken(s) /\ ~Taken(s)' /\ ~instances'[s].live
  BY <1>1, NoInstanceIs DEF MiniMaxInv, PlacesOK, Taken
<1>9. \A u \in Threads : u # t => ~Loads(u) /\ ~Loads(u)'
  <2>1. \A u \in Threads : u # t => ~Loads(u)
    BY <1>1, OneLoads DEF Loads
  <2>2. QED
    BY <2>1, <1>7 DEF Loads, Starts
<1>10. MiniMaxTypeOK'
  <2>1. seen' \in SeenShape
    <3>1. seen \in SeenShape
      BY DEF MiniMaxInv, MiniMaxTypeOK
    <3>2. CASE seen' = [seen EXCEPT !.unloaded = {}]
      BY <3>1, <3>2 DEF SeenShape
    <3>3. CASE seen' = [seen EXCEPT !.faults = @ + 1, !.unloaded = AccountIds]
      <4> DEFINE failed == [seen EXCEPT !.faults = @ + 1]
      <4>1. failed \in SeenShape
        <5>1. seen.faults + 1 \in Nat
          BY <3>1 DEF SeenShape
        <5>2. QED
          BY <3>1, <5>1 DEF SeenShape
      <4>2. seen' = [failed EXCEPT !.unloaded = AccountIds]
        BY <3>3
      <4> HIDE DEF failed
      <4>3. QED
        BY <4>1, <4>2 DEF SeenShape
    <3>4. QED
      BY <1>5, <3>2, <3>3
  <2>2. QED
    BY <1>1, <1>7, <2>1 DEF MiniMaxInv, MiniMaxTypeOK
<1>11. ContextDone(ctx)' <=> ContextDone(ctx)
  BY <1>1, <1>7, ThreadKinds DEF ContextDone, MiniMaxInv, MiniMaxTypeOK
<1>12. RunsInTurn'
  <2>1. NoneUnderway => NoneUnderway'
    BY <1>1, <1>7, NoThreadIs, ThreadKinds DEF NoneUnderway
  <2>2. QED
    <3>1. /\ \A u \in Threads : threads'[u].at = threads[u].at
                                 \/ (threads[u].at = "query" /\ threads'[u].at = "start")
          /\ \A u \in Threads : threads'[u].cancelled = threads[u].cancelled
      BY <1>1, <1>7
    <3>2. QED
      BY <1>1, <2>1, <3>1, ThreadKinds DEF MiniMaxInv, MiniMaxTypeOK, RunsInTurn, Changing
<1>13. ReloadsInTurn' /\ TodoOK'
  BY <1>1, <1>7, <1>11, ThreadKinds DEF MiniMaxInv, ReloadsInTurn, TodoOK, Starts, Loading
<1>14. SlotsOK'
  BY <1>8 DEF SlotsOK
<1>15. PlacesOK'
  BY <1>7, <1>8, <1>9, NoInstanceIs DEF PlacesOK, Starts, Loads, Taken
<1>16. KeysOK'
  <2>1. \A u \in Threads : \A a \in threads'[u].todo : u = t /\ a \in todo
    BY <1>7, <1>9 DEF Loads, Starts
  <2>2. ASSUME NEW a \in read PROVE Active(a[1]) /\ accounts[a[1]].key = a[2]
    BY DEF read
  <2>3. \A a \in todo : Current(a[1], a[2])'
    <3>1. \A a \in todo : Active(a[1])' /\ accounts'[a[1]].key = a[2]
      BY <1>1, <1>5, <2>2 DEF Active
    <3>2. QED
      BY <3>1 DEF Current
  <2>4. QED
    BY <1>8, <2>1, <2>3 DEF KeysOK
<1>17. QED
  BY <1>10, <1>12, <1>13, <1>14, <1>15, <1>16 DEF MiniMaxInv

\* There is an account to start next as long as there is one to start.
LEMMA NextIsDue ==
  ASSUME MiniMaxInv, NEW t \in Threads, threads[t].todo # {}
  PROVE  /\ NextToStart(t) \in threads[t].todo
         /\ NextToStart(t)[1] \in AccountIds /\ NextToStart(t)[2] \in Nat
<1>1. \E a \in threads[t].todo : \A b \in threads[t].todo : a[1] <= b[1]
  <2>1. CASE \E a \in threads[t].todo : a[1] = 1
    <3>1. PICK a \in threads[t].todo : a[1] = 1
      BY <2>1
    <3>2. \A b \in threads[t].todo : a[1] <= b[1]
      BY <3>1, TodoShape DEF AccountIds
    <3>3. QED
      BY <3>2
  <2>2. CASE \A a \in threads[t].todo : a[1] # 1
    <3>1. \A a \in threads[t].todo : a[1] = 2
      BY <2>2, TodoShape DEF AccountIds
    <3>2. QED
      BY <3>1
  <2>3. QED
    BY <2>1, <2>2
<1>2. NextToStart(t) \in threads[t].todo
  BY <1>1 DEF NextToStart
<1>3. QED
  BY <1>2, TodoShape

\* The next to start depends on what is left to start.
LEMMA NextStays ==
  ASSUME NEW t \in Threads, threads'[t].todo = threads[t].todo
  PROVE  NextToStart(t)' = NextToStart(t)
BY DEF NextToStart

\* A step that adds no agent and nothing to start leaves the places right.
LEMMA PlacesStay ==
  ASSUME MiniMaxInv,
         (ContextDone(ctx) /\ (\A r \in ManagerRuns : threads[r].at \in {"none", "done"}))'
            => ContextDone(ctx) /\ (\A r \in ManagerRuns : threads[r].at \in {"none", "done"}),
         \A s \in Slots : Taken(s)' =>
            /\ Taken(s) /\ instances'[s].account = instances[s].account,
         \A s \in Slots : instances'[s].mapped <=> instances[s].mapped,
         \A u \in Threads :
            /\ threads'[u].at \in {"wait", "query", "launch"} => threads'[u].at = threads[u].at
            /\ threads'[u].todo # {} => threads'[u].todo = threads[u].todo
            /\ threads'[u].at = "launch" => threads'[u].todo # {}
  PROVE  PlacesOK'
<1>1. (ContextDone(ctx) /\ (\A r \in ManagerRuns : threads[r].at \in {"none", "done"}))'
         => \A s \in Slots : ~Taken(s)'
  BY DEF MiniMaxInv, PlacesOK
<1>2. ASSUME NEW u \in Threads
      PROVE  /\ threads'[u].at = "wait" => \A s \in Slots : ~instances'[s].mapped
             /\ threads'[u].at = "query" => \A s \in Slots : ~Taken(s)'
             /\ Starts(u)' => \A s \in Slots : Taken(s)' => instances'[s].mapped
  BY DEF MiniMaxInv, PlacesOK, Starts
<1>3. ASSUME NEW u \in Threads, threads'[u].at = "launch"
      PROVE  \A s \in Slots : Taken(s)' => instances'[s].account # NextToStart(u)'[1]
  <2>1. threads[u].at = "launch" /\ threads'[u].todo = threads[u].todo
    BY <1>3
  <2>2. NextToStart(u)' = NextToStart(u)
    BY <2>1, NextStays
  <2>3. QED
    BY <2>1, <2>2 DEF MiniMaxInv, PlacesOK
<1>4. QED
  BY <1>1, <1>2, <1>3 DEF PlacesOK

\* An account is started only when it has no agent in the map.
LEMMA CheckKeepsMiniMaxInv ==
  ASSUME MiniMaxInv, NEW t \in Threads, CheckInstance(t)
  PROVE  MiniMaxInv'
<1> DEFINE a == NextToStart(t)
<1>1. /\ threads[t].at = "start" /\ threads[t].todo # {}
      /\ UNCHANGED <<accounts, instances, reloadMu, ctx, registry, seen>>
  BY DEF CheckInstance
<1>2. threads[t] \in ThreadShape /\ threads[t].todo \subseteq AccountIds \X Nat
  <2>1. threads[t] \in ThreadShape
    BY DEF MiniMaxInv, MiniMaxTypeOK
  <2>2. threads[t].todo \in SUBSET (AccountIds \X Nat)
    BY <2>1 DEF ThreadShape
  <2>3. QED
    BY <2>1, <2>2
<1>3. a \in threads[t].todo
  BY <1>1, NextIsDue
<1>4. PICK at, todo :
         /\ threads' = [threads EXCEPT ![t] = LoadsOn(threads[t], at, todo)]
         /\ \/ at = "start" /\ todo = threads[t].todo \ {a}
            \/ /\ at = "launch" /\ todo = threads[t].todo
               /\ ~\E s \in Slots : instances[s].mapped /\ instances[s].account = a[1]
  <2>1. LoadsOn(threads[t], "launch", threads[t].todo) = [threads[t] EXCEPT !.at = "launch"]
    BY <1>2 DEF LoadsOn, ThreadShape
  <2>2. LoadsOn(threads[t], "start", threads[t].todo \ {a}) = [threads[t] EXCEPT !.todo = @ \ {a}]
    BY <1>1, <1>2 DEF LoadsOn, ThreadShape
  <2>3. CASE \E s \in Slots : instances[s].mapped /\ instances[s].account = a[1]
    BY <2>2, <2>3 DEF CheckInstance
  <2>4. CASE ~\E s \in Slots : instances[s].mapped /\ instances[s].account = a[1]
    BY <2>1, <2>4 DEF CheckInstance
  <2>5. QED
    BY <2>3, <2>4
<1> HIDE DEF a
<1>5. /\ threads' \in [Threads -> ThreadShape]
      /\ \A u \in Threads : u # t => threads'[u] = threads[u]
      /\ threads'[t].at = at /\ threads'[t].todo = todo
      /\ \A u \in Threads :
            /\ threads'[u].on = threads[u].on /\ threads'[u].cancelled = threads[u].cancelled
            /\ threads'[u].wrote = threads[u].wrote
  <2> DEFINE after == LoadsOn(threads[t], at, todo)
  <2>1. todo \subseteq AccountIds \X Nat /\ at \in ThreadPlaces
    BY <1>2, <1>4 DEF ThreadPlaces, Loading
  <2>2. /\ after \in ThreadShape /\ after.at = at /\ after.todo = todo
        /\ after.on = threads[t].on /\ after.cancelled = threads[t].cancelled
        /\ after.wrote = threads[t].wrote
    BY <1>2, <2>1, LoadsOnIs
  <2>3. threads' = [threads EXCEPT ![t] = after]
    BY <1>4
  <2>4. threads \in [Threads -> ThreadShape]
    BY DEF MiniMaxInv, MiniMaxTypeOK
  <2> HIDE DEF after
  <2>5. QED
    BY <2>2, <2>3, <2>4
<1>6. Starts(t) /\ \A u \in Threads : u # t => ~Loads(u) /\ ~Loads(u)'
  <2>1. \A u \in Threads : u # t => ~Loads(u)
    BY <1>1, OneLoads DEF Loads, Starts
  <2>2. QED
    BY <1>1, <2>1, <1>5 DEF Loads, Starts
<1>7. at \in {"start", "launch"} /\ todo \subseteq threads[t].todo
  BY <1>4
<1>8. MiniMaxTypeOK'
  BY <1>1, <1>5 DEF MiniMaxInv, MiniMaxTypeOK
<1>9. ContextDone(ctx)' <=> ContextDone(ctx)
  BY <1>1, <1>5, <1>7, ThreadKinds DEF ContextDone, MiniMaxInv, MiniMaxTypeOK
<1>10. RunsInTurn'
  <2>1. NoneUnderway => NoneUnderway'
    BY <1>1, <1>5, NoThreadIs, ThreadKinds DEF NoneUnderway
  <2>2. \A u \in Threads : threads'[u].at = threads[u].at
                                \/ (threads[u].at = "start" /\ threads'[u].at = "launch")
    BY <1>1, <1>5, <1>7
  <2>3. QED
    BY <1>1, <1>5, <2>1, <2>2, ThreadKinds DEF MiniMaxInv, MiniMaxTypeOK, RunsInTurn, Changing
<1>11. ReloadsInTurn' /\ TodoOK'
  BY <1>1, <1>5, <1>6, <1>7, <1>9, ThreadKinds DEF MiniMaxInv, ReloadsInTurn, TodoOK, Starts, Loading
<1>12. SlotsOK'
  BY <1>1 DEF MiniMaxInv, SlotsOK, Taken
<1>13. PlacesOK'
  <2>1. (ContextDone(ctx) /\ (\A r \in ManagerRuns : threads[r].at \in {"none", "done"}))'
            => ContextDone(ctx) /\ (\A r \in ManagerRuns : threads[r].at \in {"none", "done"})
    BY <1>1, <1>5, <1>7, <1>9, ThreadKinds
  <2>2. \A s \in Slots : Taken(s) => instances[s].mapped
    BY <1>6 DEF MiniMaxInv, PlacesOK
  <2>3. threads'[t].at = "launch" =>
           /\ threads'[t].todo # {}
           /\ \A s \in Slots : Taken(s) => instances[s].account # NextToStart(t)'[1]
    <3> SUFFICES ASSUME threads'[t].at = "launch"
                 PROVE  /\ threads'[t].todo # {}
                        /\ \A s \in Slots : Taken(s) => instances[s].account # NextToStart(t)'[1]
      OBVIOUS
    <3>1. threads'[t].todo = threads[t].todo
      BY <1>4, <1>5
    <3>2. NextToStart(t)' = a
      BY <3>1, NextStays DEF a
    <3>3. QED
      BY <1>1, <1>4, <1>5, <2>2, <3>1, <3>2
  <2>4. QED
    BY <1>1, <1>5, <1>6, <1>7, <2>1, <2>2, <2>3 DEF MiniMaxInv, PlacesOK, Loads, Starts, Taken
<1>14. KeysOK'
  <2>1. \A i \in AccountIds, key \in Nat : Current(i, key) => Current(i, key)'
    BY <1>1, <1>5, ThreadKinds DEF Current, Active, Dirty
  <2>2. \A s \in Slots : instances'[s].live /\ ~AgentStops(instances[s])' =>
            /\ instances[s].live /\ ~AgentStops(instances[s])
            /\ instances'[s].account = instances[s].account /\ instances'[s].key = instances[s].key
    BY <1>1, <1>5, <1>7, ThreadKinds DEF AgentStops, ContextDone, MiniMaxInv, MiniMaxTypeOK, InstanceShape
  <2>3. QED
    BY <1>5, <1>7, <2>1, <2>2, KeysStay
<1>15. QED
  BY <1>8, <1>10, <1>11, <1>12, <1>13, <1>14 DEF MiniMaxInv

\* An account that is to be started has a slot left for its agent.
LEMMA SlotIsFree ==
  ASSUME MiniMaxInv, NEW i \in AccountIds,
         \A s \in Slots : Taken(s) => instances[s].account # i
  PROVE  \E s \in Slots : instances[s] = NoInstance
<1>1. 1 \in Slots /\ 2 \in Slots
  BY DEF Slots
<1>2. ~(Taken(1) /\ Taken(2))
  <2> SUFFICES ASSUME Taken(1), Taken(2) PROVE FALSE
    OBVIOUS
  <2>1. /\ instances[1].account \in {1, 2} \ {i} /\ instances[2].account \in {1, 2} \ {i}
        /\ instances[1].account # instances[2].account
    BY <1>1 DEF MiniMaxInv, SlotsOK, AccountIds
  <2>2. QED
    BY <2>1 DEF AccountIds
<1>3. QED
  BY <1>1, <1>2 DEF Taken

\* The agent that is started is the only one of its account.
LEMMA LaunchKeepsMiniMaxInv ==
  ASSUME MiniMaxInv, NEW t \in Threads, LaunchAgent(t)
  PROVE  MiniMaxInv'
<1> DEFINE a == NextToStart(t)
           free == CHOOSE s \in Slots : instances[s] = NoInstance
           started == [account |-> a[1], key |-> a[2], parent |-> ctx,
                       mapped |-> TRUE, cancelled |-> FALSE, live |-> TRUE]
           todo == threads[t].todo \ {a}
<1>1. /\ threads[t].at = "launch" /\ threads[t].todo # {}
      /\ UNCHANGED <<accounts, reloadMu, ctx, registry, seen>>
  BY DEF LaunchAgent, MiniMaxInv, PlacesOK
<1>2. threads[t] \in ThreadShape /\ threads[t].todo \subseteq AccountIds \X Nat
  <2>1. threads[t] \in ThreadShape
    BY DEF MiniMaxInv, MiniMaxTypeOK
  <2>2. threads[t].todo \in SUBSET (AccountIds \X Nat)
    BY <2>1 DEF ThreadShape
  <2>3. QED
    BY <2>1, <2>2
<1>3. a \in threads[t].todo /\ a[1] \in AccountIds /\ a[2] \in Nat
  BY <1>1, NextIsDue
<1>4. \A s \in Slots : Taken(s) => instances[s].account # a[1] /\ instances[s].mapped
  BY <1>1 DEF MiniMaxInv, PlacesOK, Starts
<1>5. free \in Slots /\ instances[free] = NoInstance
  BY <1>3, <1>4, SlotIsFree
<1>6. instances' = [s \in Slots |-> IF s = free THEN started ELSE instances[s]]
  <2>1. \A s \in Slots : Unmapped(instances[s], a[1]) = instances[s]
    BY <1>3, <1>4, NoInstanceIs DEF Unmapped, Taken, AccountIds
  <2>2. instances' = [s \in Slots |-> IF s = free THEN started ELSE Unmapped(instances[s], a[1])]
    BY DEF LaunchAgent
  <2>3. QED
    BY <2>1, <2>2
<1>7. threads' = [threads EXCEPT ![t] = LoadsOn(threads[t], "start", todo)]
  BY DEF LaunchAgent, LoadsOn
<1>8. /\ started \in InstanceShape /\ started # NoInstance
      /\ started.account = a[1] /\ started.key = a[2] /\ started.parent = ctx /\ started.mapped
      /\ started.live /\ ~started.cancelled
  BY <1>3, NoInstanceIs DEF InstanceShape, MiniMaxInv, MiniMaxTypeOK
<1>9. todo \subseteq AccountIds \X Nat /\ todo \subseteq threads[t].todo
  BY <1>2
<1> HIDE DEF a, free, started, todo
<1>10. /\ threads' \in [Threads -> ThreadShape]
       /\ \A u \in Threads : u # t => threads'[u] = threads[u]
       /\ threads'[t].at = "start" /\ threads'[t].todo = todo
       /\ \A u \in Threads :
            /\ threads'[u].on = threads[u].on /\ threads'[u].cancelled = threads[u].cancelled
            /\ threads'[u].wrote = threads[u].wrote
  <2> DEFINE after == LoadsOn(threads[t], "start", todo)
  <2>1. "start" \in ThreadPlaces
    BY DEF ThreadPlaces, Loading
  <2>2. /\ after \in ThreadShape /\ after.at = "start" /\ after.todo = todo
        /\ after.on = threads[t].on /\ after.cancelled = threads[t].cancelled
        /\ after.wrote = threads[t].wrote
    BY <1>2, <1>9, <2>1, LoadsOnIs
  <2>3. threads' = [threads EXCEPT ![t] = after]
    BY <1>7
  <2>4. threads \in [Threads -> ThreadShape]
    BY DEF MiniMaxInv, MiniMaxTypeOK
  <2> HIDE DEF after
  <2>5. QED
    BY <2>2, <2>3, <2>4
<1>11. /\ instances' \in [Slots -> InstanceShape] /\ instances'[free] = started
       /\ \A s \in Slots : s # free => instances'[s] = instances[s]
  BY <1>5, <1>6, <1>8 DEF MiniMaxInv, MiniMaxTypeOK
<1>12. Starts(t) /\ \A u \in Threads : u # t => ~Loads(u) /\ ~Loads(u)'
  <2>1. \A u \in Threads : u # t => ~Loads(u)
    BY <1>1, OneLoads DEF Loads, Starts
  <2>2. QED
    BY <1>1, <2>1, <1>10 DEF Loads, Starts
<1>13. MiniMaxTypeOK'
  BY <1>1, <1>10, <1>11 DEF MiniMaxInv, MiniMaxTypeOK
<1>14. ContextDone(ctx)' <=> ContextDone(ctx)
  BY <1>1, <1>10, ThreadKinds DEF ContextDone, MiniMaxInv, MiniMaxTypeOK
<1>15. RunsInTurn'
  <2>1. NoneUnderway => NoneUnderway'
    BY <1>1, <1>10, NoThreadIs, ThreadKinds DEF NoneUnderway
  <2>2. \A u \in Threads : threads'[u].at = threads[u].at
                                \/ (threads[u].at = "launch" /\ threads'[u].at = "start")
    BY <1>1, <1>10
  <2>3. QED
    BY <1>1, <1>10, <2>1, <2>2, ThreadKinds DEF MiniMaxInv, MiniMaxTypeOK, RunsInTurn, Changing
<1>16. ReloadsInTurn' /\ TodoOK'
  BY <1>1, <1>10, <1>12, <1>9, <1>14, ThreadKinds DEF MiniMaxInv, ReloadsInTurn, TodoOK, Starts, Loading
<1>17. SlotsOK'
  BY <1>1, <1>3, <1>4, <1>5, <1>8, <1>11 DEF MiniMaxInv, SlotsOK, Taken
<1>18. ~(ContextDone(ctx) /\ (\A r \in ManagerRuns : threads[r].at \in {"none", "done"}))'
  <2>1. CASE t \in ManagerRuns
    BY <1>10, <2>1
  <2>2. CASE t \in AccountClients
    BY <1>12, <1>14, <2>2 DEF MiniMaxInv, ReloadsInTurn
  <2>3. QED
    BY <2>1, <2>2, ThreadKinds
<1>19. PlacesOK'
  BY <1>4, <1>8, <1>10, <1>11, <1>12, <1>18 DEF PlacesOK, Loads, Starts, Taken
<1>20. KeysOK'
  <2>1. \A i \in AccountIds, key \in Nat : Current(i, key) => Current(i, key)'
    BY <1>1, <1>10, ThreadKinds DEF Current, Active, Dirty
  <2>2. \A s \in Slots : s # free /\ instances'[s].live /\ ~AgentStops(instances[s])' =>
            instances[s].live /\ ~AgentStops(instances[s])
    BY <1>1, <1>10, <1>11, ThreadKinds DEF AgentStops, ContextDone, MiniMaxInv, MiniMaxTypeOK, InstanceShape
  <2>3. \A s \in Slots : instances[s].live => instances[s].account \in AccountIds /\ instances[s].key \in Nat
    BY NoInstanceIs DEF MiniMaxInv, MiniMaxTypeOK, SlotsOK, Taken, InstanceShape
  <2>4. \A s \in Slots : s # free /\ instances'[s].live /\ ~AgentStops(instances[s])' =>
            Current(instances[s].account, instances[s].key)'
    <3> SUFFICES ASSUME NEW s \in Slots, s # free, instances'[s].live, ~AgentStops(instances[s])'
                 PROVE  Current(instances[s].account, instances[s].key)'
      OBVIOUS
    <3>1. instances'[s] = instances[s] /\ Current(instances[s].account, instances[s].key)
      BY <1>11, <2>2 DEF MiniMaxInv, KeysOK
    <3>2. instances[s].account \in AccountIds /\ instances[s].key \in Nat
      BY <2>2, <2>3
    <3>3. QED
      BY <2>1, <3>1, <3>2
  <2>5. ASSUME NEW s \in Slots, s = free
        PROVE  Current(instances[s].account, instances[s].key)'
    <3>1. Current(a[1], a[2])
      BY <1>3 DEF MiniMaxInv, KeysOK
    <3>2. instances'[s].account = a[1] /\ instances'[s].key = a[2]
      BY <1>8, <1>11, <2>5
    <3>3. QED
      BY <1>3, <2>1, <3>1, <3>2
  <2>6. \A u \in Threads : \A b \in threads'[u].todo : Current(b[1], b[2])'
    <3>1. \A u \in Threads : threads'[u].todo \subseteq threads[u].todo
      BY <1>9, <1>10
    <3>2. QED
      BY <2>1, <3>1, TodoShape DEF MiniMaxInv, KeysOK
  <2>7. QED
    BY <2>4, <2>5, <2>6 DEF KeysOK
<1>21. QED
  BY <1>13, <1>15, <1>16, <1>17, <1>19, <1>20 DEF MiniMaxInv

\* An agent that ends has been told to.
LEMMA AgentEndsKeepsMiniMaxInv ==
  ASSUME MiniMaxInv, NEW s \in Slots, AgentEnds(s)
  PROVE  MiniMaxInv'
<1> DEFINE after == IF instances[s].mapped THEN [instances[s] EXCEPT !.live = FALSE] ELSE NoInstance
<1>1. /\ instances[s].live /\ AgentStops(instances[s]) /\ instances' = [instances EXCEPT ![s] = after]
      /\ UNCHANGED <<accounts, threads, reloadMu, ctx, registry, seen>>
  BY DEF AgentEnds
<1>2. instances[s] \in InstanceShape /\ instances \in [Slots -> InstanceShape] /\ Taken(s)
  BY <1>1, NoInstanceIs DEF MiniMaxInv, MiniMaxTypeOK, Taken
<1>3. /\ after \in InstanceShape /\ ~after.live /\ (after.mapped <=> instances[s].mapped)
      /\ after # NoInstance => /\ after.account = instances[s].account /\ after.mapped
                               /\ after.parent = instances[s].parent
  <2>1. CASE instances[s].mapped
    <3>1. after = [instances[s] EXCEPT !.live = FALSE]
      BY <2>1
    <3>2. QED
      BY <1>2, <2>1, <3>1 DEF InstanceShape
  <2>2. CASE ~instances[s].mapped
    BY <2>2, NoInstanceIs
  <2>3. QED
    BY <2>1, <2>2
<1> HIDE DEF after
<1>4. /\ instances' \in [Slots -> InstanceShape] /\ instances'[s] = after
      /\ \A u \in Slots : u # s => instances'[u] = instances[u]
  BY <1>1, <1>2, <1>3
<1>5. MiniMaxTypeOK'
  BY <1>1, <1>4 DEF MiniMaxInv, MiniMaxTypeOK
<1>6. RunsInTurn' /\ ReloadsInTurn' /\ TodoOK'
  BY <1>1 DEF MiniMaxInv, RunsInTurn, ReloadsInTurn, TodoOK, NoneUnderway, Starts, ContextDone
<1>7. SlotsOK'
  BY <1>1, <1>2, <1>3, <1>4 DEF MiniMaxInv, SlotsOK, Taken
<1>8. PlacesOK'
  <2>1. \A u \in Slots : Taken(u)' => Taken(u) /\ instances'[u].account = instances[u].account
    BY <1>2, <1>3, <1>4 DEF Taken
  <2>2. \A u \in Slots : instances'[u].mapped <=> instances[u].mapped
    BY <1>3, <1>4
  <2>3. (ContextDone(ctx) /\ (\A r \in ManagerRuns : threads[r].at \in {"none", "done"}))'
            => ContextDone(ctx) /\ (\A r \in ManagerRuns : threads[r].at \in {"none", "done"})
    BY <1>1 DEF ContextDone
  <2>4. \A u \in Threads : threads'[u].at = "launch" => threads'[u].todo # {}
    BY <1>1 DEF MiniMaxInv, PlacesOK
  <2>5. QED
    BY <1>1, <2>1, <2>2, <2>3, <2>4, PlacesStay
<1>9. KeysOK'
  <2>1. \A i \in AccountIds, key \in Nat : Current(i, key) => Current(i, key)'
    BY <1>1 DEF Current, Active, Dirty
  <2>2. \A u \in Slots : instances'[u].live /\ ~AgentStops(instances[u])' =>
            /\ instances[u].live /\ ~AgentStops(instances[u])
            /\ instances'[u].account = instances[u].account /\ instances'[u].key = instances[u].key
    BY <1>1, <1>3, <1>4 DEF AgentStops, ContextDone
  <2>3. QED
    BY <1>1, <2>1, <2>2, KeysStay
<1>10. QED
  BY <1>5, <1>6, <1>7, <1>8, <1>9 DEF MiniMaxInv

-----------------------------------------------------------------------------
(* The runs of the manager *)

\* A run that begins finds no agent of an earlier one.
LEMMA StartKeepsMiniMaxInv ==
  ASSUME MiniMaxInv, ~Overlap, NEW r \in ManagerRuns, StartManager(r)
  PROVE  MiniMaxInv'
<1>1. /\ registry = "none" /\ threads[r].at = "none" /\ threads' = [threads EXCEPT ![r].at = "query"]
      /\ r = "rerun" => threads["run"].at = "done"
      /\ NoneUnderway /\ registry' = r /\ ctx' = r
      /\ UNCHANGED <<accounts, instances, reloadMu, seen>>
  BY DEF StartManager, AtLine
<1>2. /\ threads' \in [Threads -> ThreadShape]
      /\ \A u \in Threads : u # r => threads'[u] = threads[u]
      /\ threads'[r].at = "query"
      /\ \A u \in Threads :
            /\ threads'[u].on = threads[u].on /\ threads'[u].todo = threads[u].todo
            /\ threads'[u].cancelled = threads[u].cancelled /\ threads'[u].wrote = threads[u].wrote
  BY <1>1, ThreadKinds, ThreadMoves, "query" \in ThreadPlaces DEF MiniMaxInv, MiniMaxTypeOK, ThreadPlaces, Loading
<1>3. /\ ContextDone(ctx) /\ \A q \in ManagerRuns : threads[q].at \in {"none", "done"}
      /\ r = "run" => threads["rerun"].at = "none"
  BY <1>1, ThreadKinds DEF MiniMaxInv, RunsInTurn, ContextDone
<1>4. \A s \in Slots : ~Taken(s) /\ ~Taken(s)' /\ ~instances'[s].live
  BY <1>1, <1>3, NoInstanceIs DEF MiniMaxInv, PlacesOK, Taken
<1>5. \A c \in AccountClients : threads[c] = NoThread /\ threads'[c] = NoThread
  BY <1>1, <1>2, ThreadKinds DEF NoneUnderway
<1>6. \A u \in Threads : threads'[u].todo = {} /\ (u # r => threads'[u].at \in {"none", "done"})
  BY <1>2, <1>3, <1>5, ThreadKinds, NoThreadIs DEF MiniMaxInv, TodoOK
<1>7. MiniMaxTypeOK'
  BY <1>1, <1>2 DEF MiniMaxInv, MiniMaxTypeOK
<1>8. RunsInTurn'
  BY <1>1, <1>2, <1>3, <1>5, ThreadKinds, NoThreadIs DEF MiniMaxInv, RunsInTurn, NoneUnderway, Changing
<1>9. ReloadsInTurn' /\ TodoOK'
  BY <1>5, <1>6, ThreadKinds, NoThreadIs DEF ReloadsInTurn, TodoOK, Starts, Loading
<1>10. SlotsOK' /\ PlacesOK' /\ KeysOK'
  BY <1>2, <1>4, <1>6, NoInstanceIs DEF SlotsOK, PlacesOK, KeysOK, Starts, Taken
<1>11. QED
  BY <1>7, <1>8, <1>9, <1>10 DEF MiniMaxInv

\* What it needs that a run moves on, without loading, and nothing else happens.
LEMMA RunMovesOn ==
  ASSUME MiniMaxInv, NEW r \in ManagerRuns, NEW at \in {"serve", "stop"},
         threads[r].at \in {"start", "serve"}, threads[r].todo = {},
         at = "stop" => threads[r].cancelled,
         threads' = [threads EXCEPT ![r].at = at],
         UNCHANGED <<accounts, instances, reloadMu, ctx, registry, seen>>
  PROVE  MiniMaxInv'
<1>1. /\ threads' \in [Threads -> ThreadShape]
      /\ \A u \in Threads : u # r => threads'[u] = threads[u]
      /\ threads'[r].at = at
      /\ \A u \in Threads :
            /\ threads'[u].on = threads[u].on /\ threads'[u].todo = threads[u].todo
            /\ threads'[u].cancelled = threads[u].cancelled /\ threads'[u].wrote = threads[u].wrote
  <2>1. at \in ThreadPlaces
    BY DEF ThreadPlaces, Loading
  <2>2. threads \in [Threads -> ThreadShape]
    BY DEF MiniMaxInv, MiniMaxTypeOK
  <2>3. QED
    BY <2>1, <2>2, ThreadKinds, ThreadMoves
<1>2. \A c \in AccountClients : threads'[c] = threads[c]
  BY <1>1, ThreadKinds
<1>3. ContextDone(ctx)' <=> ContextDone(ctx)
  BY <1>1, ThreadKinds DEF ContextDone, MiniMaxInv, MiniMaxTypeOK
<1>4. MiniMaxTypeOK'
  BY <1>1 DEF MiniMaxInv, MiniMaxTypeOK
<1>5. RunsInTurn'
  BY <1>1, <1>2, ThreadKinds DEF MiniMaxInv, MiniMaxTypeOK, RunsInTurn, NoneUnderway, Changing
<1>6. ReloadsInTurn' /\ TodoOK'
  BY <1>1, <1>2, <1>3, ThreadKinds DEF MiniMaxInv, ReloadsInTurn, TodoOK, Starts
<1>7. SlotsOK'
  BY DEF MiniMaxInv, SlotsOK, Taken
<1>8. PlacesOK'
  <2>1. (ContextDone(ctx) /\ (\A q \in ManagerRuns : threads[q].at \in {"none", "done"}))'
            => ContextDone(ctx) /\ (\A q \in ManagerRuns : threads[q].at \in {"none", "done"})
    BY <1>1, <1>3, ThreadKinds
  <2>2. \A u \in Threads :
            /\ threads'[u].at \in {"wait", "query", "launch"} => threads'[u].at = threads[u].at
            /\ threads'[u].at = "launch" => threads'[u].todo # {}
    BY <1>1 DEF MiniMaxInv, PlacesOK
  <2>3. QED
    BY <1>1, <2>1, <2>2, PlacesStay DEF Taken
<1>9. KeysOK'
  <2>1. \A i \in AccountIds, key \in Nat : Current(i, key) => Current(i, key)'
    BY <1>2 DEF Current, Active, Dirty
  <2>2. \A s \in Slots : instances'[s].live /\ ~AgentStops(instances[s])' =>
            instances[s].live /\ ~AgentStops(instances[s])
    BY <1>1, ThreadKinds DEF AgentStops, ContextDone, MiniMaxInv, MiniMaxTypeOK, InstanceShape
  <2>3. QED
    BY <1>1, <2>1, <2>2, KeysStay
<1>10. QED
  BY <1>4, <1>5, <1>6, <1>7, <1>8, <1>9 DEF MiniMaxInv

\* A run that has loaded serves, and stops when it is cancelled.
LEMMA RunKeepsMiniMaxInv ==
  ASSUME MiniMaxInv, NEW r \in ManagerRuns, RunServes(r) \/ RunStops(r)
  PROVE  MiniMaxInv'
<1>1. CASE RunServes(r)
  BY <1>1, RunMovesOn DEF RunServes, AtLine
<1>2. CASE RunStops(r)
  <2>1. threads[r].todo = {}
    BY <1>2, ThreadKinds DEF RunStops, AtLine, MiniMaxInv, TodoOK
  <2>2. QED
    BY <1>2, <2>1, RunMovesOn DEF RunStops, AtLine
<1>3. QED
  BY <1>1, <1>2

\* The run that the registry stops has begun and not ended.
LEMMA StopKeepsMiniMaxInv ==
  ASSUME MiniMaxInv, ~Overlap, StopManager
  PROVE  MiniMaxInv'
<1> DEFINE after == [threads[registry] EXCEPT !.cancelled = TRUE]
<1>1. /\ registry # "none" /\ NoneUnderway /\ threads' = [threads EXCEPT ![registry] = after]
      /\ registry' = "none"
      /\ UNCHANGED <<accounts, instances, reloadMu, ctx, seen>>
  BY DEF StopManager
<1>2. /\ registry \in ManagerRuns /\ registry \in Threads /\ threads \in [Threads -> ThreadShape]
      /\ threads[registry] \in ThreadShape /\ threads[registry].at \notin {"none", "done"}
  BY <1>1, ThreadKinds DEF MiniMaxInv, MiniMaxTypeOK, RunsInTurn
<1>3. /\ after \in ThreadShape /\ after.cancelled /\ after.at = threads[registry].at
      /\ after.todo = threads[registry].todo
  BY <1>2 DEF ThreadShape
<1> HIDE DEF after
<1>4. /\ threads' \in [Threads -> ThreadShape] /\ threads'[registry].cancelled
      /\ \A u \in Threads : u # registry => threads'[u] = threads[u]
      /\ \A u \in Threads :
            /\ threads'[u].at = threads[u].at /\ threads'[u].todo = threads[u].todo
            /\ threads[u].cancelled => threads'[u].cancelled
  BY <1>1, <1>2, <1>3
<1>5. \A c \in AccountClients : threads[c] = NoThread /\ threads'[c] = NoThread
  BY <1>1, <1>2, <1>4, ThreadKinds DEF NoneUnderway
<1>6. MiniMaxTypeOK'
  BY <1>1, <1>4 DEF MiniMaxInv, MiniMaxTypeOK
<1>7. RunsInTurn'
  BY <1>1, <1>4, <1>5, ThreadKinds DEF MiniMaxInv, RunsInTurn, NoneUnderway
<1>8. ReloadsInTurn' /\ TodoOK'
  BY <1>4, <1>5, ThreadKinds, NoThreadIs DEF MiniMaxInv, ReloadsInTurn, TodoOK, Starts, Loading
<1>9. SlotsOK'
  BY <1>1 DEF MiniMaxInv, SlotsOK, Taken
<1>10. PlacesOK'
  <2>1. ~\A q \in ManagerRuns : threads'[q].at \in {"none", "done"}
    BY <1>2, <1>4
  <2>2. \A u \in Threads : threads'[u].at = "launch" => threads'[u].todo # {}
    BY <1>4 DEF MiniMaxInv, PlacesOK
  <2>3. QED
    BY <1>1, <1>4, <2>1, <2>2, PlacesStay DEF Taken
<1>11. KeysOK'
  <2>1. \A i \in AccountIds, key \in Nat : Current(i, key) => Current(i, key)'
    BY <1>1, <1>5 DEF Current, Active, Dirty
  <2>2. \A s \in Slots : instances'[s].live /\ ~AgentStops(instances[s])' =>
            instances[s].live /\ ~AgentStops(instances[s])
    BY <1>1, <1>4, ThreadKinds DEF AgentStops, ContextDone, MiniMaxInv, MiniMaxTypeOK, InstanceShape
  <2>3. QED
    BY <1>1, <1>4, <2>1, <2>2, KeysStay
<1>12. QED
  BY <1>6, <1>7, <1>8, <1>9, <1>10, <1>11 DEF MiniMaxInv

-----------------------------------------------------------------------------
(* Reload *)

\* A reload takes the lock, and leaves a manager alone that does not run.
LEMMA ReloadKeepsMiniMaxInv ==
  ASSUME MiniMaxInv, NEW c \in AccountClients, Reload(c)
  PROVE  MiniMaxInv'
<1> DEFINE at == IF ContextDone(ctx) THEN "start" ELSE "stop"
<1>1. /\ reloadMu = "free" /\ threads[c].at = "lock" /\ threads' = [threads EXCEPT ![c].at = at]
      /\ reloadMu' = c
      /\ UNCHANGED <<accounts, instances, ctx, registry, seen>>
  BY DEF Reload, LockReload, AtLine
<1>2. /\ threads' \in [Threads -> ThreadShape]
      /\ \A u \in Threads : u # c => threads'[u] = threads[u]
      /\ threads'[c].at = at
      /\ \A u \in Threads :
            /\ threads'[u].on = threads[u].on /\ threads'[u].todo = threads[u].todo
            /\ threads'[u].cancelled = threads[u].cancelled /\ threads'[u].wrote = threads[u].wrote
  <2>1. at \in ThreadPlaces
    BY DEF ThreadPlaces, Loading
  <2>2. threads \in [Threads -> ThreadShape]
    BY DEF MiniMaxInv, MiniMaxTypeOK
  <2>3. QED
    BY <1>1, <2>1, <2>2, ThreadKinds, ThreadMoves
<1>3. \A r \in ManagerRuns : threads'[r] = threads[r] /\ threads[r].at \notin {"query", "start", "launch"}
  BY <1>1, <1>2, ThreadKinds, NoThreadIs DEF MiniMaxInv, RunsInTurn, NoneUnderway
<1>4. \A d \in AccountClients : d # c => threads'[d] = threads[d] /\ threads[d].at \notin Loading
  BY <1>1, <1>2, ThreadKinds DEF MiniMaxInv, ReloadsInTurn
<1>5. threads'[c].todo = {} /\ threads[c].todo = {}
  BY <1>1, <1>2, ThreadKinds DEF MiniMaxInv, TodoOK
<1>6. ContextDone(ctx)' <=> ContextDone(ctx)
  BY <1>1, <1>3 DEF ContextDone, MiniMaxInv, MiniMaxTypeOK
<1>7. MiniMaxTypeOK'
  BY <1>1, <1>2 DEF MiniMaxInv, MiniMaxTypeOK
<1>8. RunsInTurn'
  BY <1>1, <1>2, <1>3, <1>4, ThreadKinds DEF MiniMaxInv, RunsInTurn
<1>9. \A u \in Threads : threads'[u].todo = {}
  BY <1>2, <1>3, <1>4, <1>5, ThreadKinds DEF MiniMaxInv, TodoOK, Loading
<1>10. ReloadsInTurn' /\ TodoOK'
  BY <1>1, <1>2, <1>4, <1>6, <1>9, ThreadKinds DEF ReloadsInTurn, TodoOK, Starts, Loading
<1>11. SlotsOK'
  BY <1>1 DEF MiniMaxInv, SlotsOK, Taken
<1>12. PlacesOK'
  <2>1. (ContextDone(ctx) /\ (\A r \in ManagerRuns : threads[r].at \in {"none", "done"}))'
            => ContextDone(ctx) /\ (\A r \in ManagerRuns : threads[r].at \in {"none", "done"})
    BY <1>3, <1>6
  <2>2. \A u \in Threads :
            /\ threads'[u].at \in {"wait", "query", "launch"} => threads'[u].at = threads[u].at
            /\ threads'[u].at = "launch" => threads'[u].todo # {}
    BY <1>2 DEF MiniMaxInv, PlacesOK
  <2>3. QED
    BY <1>1, <1>2, <2>1, <2>2, PlacesStay DEF Taken
<1>13. KeysOK'
  <2>1. CASE ContextDone(ctx)
    <3>1. \A s \in Slots : instances'[s].live => AgentStops(instances[s])'
      BY <1>1, <1>6, <2>1, NoInstanceIs DEF MiniMaxInv, SlotsOK, Taken, AgentStops
    <3>2. QED
      BY <1>9, <3>1 DEF KeysOK
  <2>2. CASE ~ContextDone(ctx)
    <3>1. \A i \in AccountIds, key \in Nat : Current(i, key) => Current(i, key)'
      BY <1>1, <1>2, <1>4, <2>2 DEF Current, Active, Dirty
    <3>2. \A s \in Slots : instances'[s].live /\ ~AgentStops(instances[s])' =>
            instances[s].live /\ ~AgentStops(instances[s])
      BY <1>1, <1>3 DEF AgentStops, ContextDone, MiniMaxInv, MiniMaxTypeOK, InstanceShape
    <3>3. QED
      BY <1>1, <1>2, <3>1, <3>2, KeysStay
  <2>3. QED
    BY <2>1, <2>2
<1>14. QED
  BY <1>7, <1>8, <1>10, <1>11, <1>12, <1>13 DEF MiniMaxInv

\* The request that has reloaded gives the lock back.
LEMMA ReloadEndKeepsMiniMaxInv ==
  ASSUME MiniMaxInv, NEW c \in AccountClients, ReloadEnds(c)
  PROVE  MiniMaxInv'
<1>1. /\ threads[c].at = "start" /\ threads[c].todo = {} /\ threads' = [threads EXCEPT ![c] = NoThread]
      /\ reloadMu' = IF reloadMu = c THEN "free" ELSE reloadMu
      /\ UNCHANGED <<accounts, instances, ctx, registry, seen>>
  BY DEF ReloadEnds, Answer
<1>2. /\ threads' \in [Threads -> ThreadShape] /\ threads'[c] = NoThread
      /\ \A u \in Threads : u # c => threads'[u] = threads[u]
      /\ \A u \in Threads : threads'[u].todo = threads[u].todo
  BY <1>1, ThreadKinds, NoThreadIs DEF MiniMaxInv, MiniMaxTypeOK
<1>3. \A r \in ManagerRuns : threads'[r] = threads[r]
  BY <1>2, ThreadKinds
<1>4. reloadMu = c /\ \A d \in AccountClients : d # c => threads'[d] = threads[d] /\ threads[d].at \notin Loading
  BY <1>1, <1>2, ThreadKinds DEF MiniMaxInv, ReloadsInTurn, Loading
<1>5. ContextDone(ctx)' <=> ContextDone(ctx)
  BY <1>1, <1>3 DEF ContextDone, MiniMaxInv, MiniMaxTypeOK
<1>6. MiniMaxTypeOK'
  BY <1>1, <1>2, <1>4 DEF MiniMaxInv, MiniMaxTypeOK
<1>7. RunsInTurn'
  <2>1. NoneUnderway => NoneUnderway'
    BY <1>2, ThreadKinds DEF NoneUnderway
  <2>2. \A d \in AccountClients : threads'[d].at \notin {"serve", "done"}
    BY <1>2, ThreadKinds, NoThreadIs DEF MiniMaxInv, RunsInTurn
  <2>3. QED
    BY <1>1, <1>3, <2>1, <2>2, ThreadKinds DEF MiniMaxInv, MiniMaxTypeOK, RunsInTurn
<1>8. ReloadsInTurn' /\ TodoOK'
  BY <1>1, <1>2, <1>4, <1>5, ThreadKinds, NoThreadIs DEF MiniMaxInv, ReloadsInTurn, TodoOK, Starts, Loading
<1>9. SlotsOK'
  BY <1>1 DEF MiniMaxInv, SlotsOK, Taken
<1>10. PlacesOK'
  <2>1. (ContextDone(ctx) /\ (\A r \in ManagerRuns : threads[r].at \in {"none", "done"}))'
            => ContextDone(ctx) /\ (\A r \in ManagerRuns : threads[r].at \in {"none", "done"})
    BY <1>3, <1>5
  <2>2. \A u \in Threads :
            /\ threads'[u].at \in {"wait", "query", "launch"} => threads'[u].at = threads[u].at
            /\ threads'[u].at = "launch" => threads'[u].todo # {}
    BY <1>2, NoThreadIs DEF MiniMaxInv, PlacesOK
  <2>3. QED
    BY <1>1, <1>2, <2>1, <2>2, PlacesStay DEF Taken
<1>11. KeysOK'
  <2>1. \A i \in AccountIds, key \in Nat : Current(i, key) => Current(i, key)'
    BY <1>1, <1>4 DEF Current, Active, Dirty
  <2>2. \A s \in Slots : instances'[s].live /\ ~AgentStops(instances[s])' =>
            instances[s].live /\ ~AgentStops(instances[s])
    BY <1>1, <1>3 DEF AgentStops, ContextDone, MiniMaxInv, MiniMaxTypeOK, InstanceShape
  <2>3. QED
    BY <1>1, <1>2, <2>1, <2>2, KeysStay
<1>12. QED
  BY <1>6, <1>7, <1>8, <1>9, <1>10, <1>11 DEF MiniMaxInv

-----------------------------------------------------------------------------
(* The requests of the dashboard *)

\* What the work of a request on a row leaves to be shown.
LEMMA RequestWorks ==
  ASSUME MiniMaxInv, NEW c \in AccountClients, MiniMaxTypeOK',
         \A r \in ManagerRuns : threads[r].at \notin {"query", "start", "launch"},
         threads[c].at \in Changing \cup {"none"}, threads'[c].at \in Changing \cup {"none"},
         threads'[c].todo = {},
         \A u \in Threads : u # c => threads'[u] = threads[u],
         UNCHANGED <<instances, reloadMu, ctx, registry>>,
         \A i \in AccountIds, key \in Nat : Current(i, key) => Current(i, key)'
  PROVE  MiniMaxInv'
<1>1. \A r \in ManagerRuns : threads'[r] = threads[r]
  BY ThreadKinds
<1>2. ContextDone(ctx)' <=> ContextDone(ctx)
  BY <1>1 DEF ContextDone, MiniMaxInv, MiniMaxTypeOK
<1>3. \A u \in Threads : threads'[u].todo = threads[u].todo
  BY ThreadKinds DEF MiniMaxInv, TodoOK, Changing
<1>4. RunsInTurn'
  <2>1. \A d \in AccountClients : threads'[d].at \notin {"serve", "done"}
    BY ThreadKinds DEF MiniMaxInv, RunsInTurn, Changing
  <2>2. QED
    BY <1>1, <2>1, ThreadKinds DEF MiniMaxInv, MiniMaxTypeOK, RunsInTurn
<1>5. ReloadsInTurn' /\ TodoOK'
  BY <1>1, <1>2, <1>3, ThreadKinds DEF MiniMaxInv, ReloadsInTurn, TodoOK, Starts, Loading, Changing
<1>6. SlotsOK'
  BY DEF MiniMaxInv, SlotsOK, Taken
<1>7. PlacesOK'
  <2>1. (ContextDone(ctx) /\ (\A r \in ManagerRuns : threads[r].at \in {"none", "done"}))'
            => ContextDone(ctx) /\ (\A r \in ManagerRuns : threads[r].at \in {"none", "done"})
    BY <1>1, <1>2
  <2>2. \A u \in Threads :
            /\ threads'[u].at \in {"wait", "query", "launch"} => threads'[u].at = threads[u].at
            /\ threads'[u].at = "launch" => threads'[u].todo # {}
    BY ThreadKinds DEF MiniMaxInv, PlacesOK, Changing
  <2>3. QED
    BY <1>3, <2>1, <2>2, PlacesStay DEF Taken
<1>8. KeysOK'
  <2>1. \A s \in Slots : instances'[s].live /\ ~AgentStops(instances[s])' =>
            instances[s].live /\ ~AgentStops(instances[s])
    BY <1>1 DEF AgentStops, ContextDone, MiniMaxInv, MiniMaxTypeOK, InstanceShape
  <2>2. QED
    BY <1>3, <2>1, KeysStay
<1>9. QED
  BY <1>4, <1>5, <1>6, <1>7, <1>8 DEF MiniMaxInv

\* While a request is underway no run loads the accounts.
LEMMA RequestWaitsForRuns ==
  ASSUME MiniMaxInv, NEW c \in AccountClients, threads[c].at \in Changing
  PROVE  /\ \A r \in ManagerRuns : threads[r].at \notin {"query", "start", "launch"}
         /\ c \in Threads /\ threads[c] \in ThreadShape /\ threads[c].todo = {}
BY ThreadKinds, NoThreadIs
   DEF MiniMaxInv, MiniMaxTypeOK, RunsInTurn, TodoOK, NoneUnderway, Changing

\* A request that is refused is recorded when it has changed the account.
LEMMA RefuseKeepsMiniMaxInv ==
  ASSUME MiniMaxInv, NEW c \in AccountClients, NEW spent \in BOOLEAN, threads[c].at \in Changing \ {"lock"},
         Refuse(c, spent), UNCHANGED <<instances, reloadMu, ctx, registry>>
  PROVE  MiniMaxInv'
<1> DEFINE faults == IF spent THEN seen.faults + 1 ELSE seen.faults
           unloaded == IF threads[c].wrote THEN seen.unloaded \cup {threads[c].on} ELSE seen.unloaded
<1>1. /\ threads' = [threads EXCEPT ![c] = NoThread] /\ UNCHANGED accounts
      /\ seen' = [seen EXCEPT !.faults = faults, !.unloaded = unloaded]
  BY DEF Refuse, Answer
<1>2. /\ threads' \in [Threads -> ThreadShape] /\ threads'[c] = NoThread
      /\ \A u \in Threads : u # c => threads'[u] = threads[u]
  BY <1>1, ThreadKinds, NoThreadIs DEF MiniMaxInv, MiniMaxTypeOK
<1>3. seen \in SeenShape /\ c \in Threads /\ threads[c] \in ThreadShape
  BY ThreadKinds DEF MiniMaxInv, MiniMaxTypeOK
<1>4. seen' \in SeenShape /\ seen'.unloaded = unloaded
  <2>1. faults \in Nat /\ unloaded \in SUBSET ({0} \cup AccountIds)
    <3>1. seen.faults \in Nat /\ seen.unloaded \in SUBSET ({0} \cup AccountIds)
      BY <1>3 DEF SeenShape
    <3>2. threads[c].on \in {0} \cup AccountIds
      BY <1>3 DEF ThreadShape
    <3>3. seen.unloaded \cup {threads[c].on} \in SUBSET ({0} \cup AccountIds)
      BY <3>1, <3>2
    <3>4. seen.faults + 1 \in Nat
      BY <3>1
    <3>5. QED
      BY <3>1, <3>3, <3>4
  <2> HIDE DEF faults, unloaded
  <2> DEFINE failed == [seen EXCEPT !.faults = faults]
  <2>2. failed \in SeenShape
    BY <1>3, <2>1 DEF SeenShape
  <2>3. seen' = [failed EXCEPT !.unloaded = unloaded]
    BY <1>1
  <2> HIDE DEF failed
  <2>4. QED
    BY <2>1, <2>2, <2>3 DEF SeenShape
<1> HIDE DEF faults
<1>5. MiniMaxTypeOK'
  BY <1>1, <1>2, <1>4 DEF MiniMaxInv, MiniMaxTypeOK
<1>6. \A i \in AccountIds, key \in Nat : Current(i, key) => Current(i, key)'
  <2> SUFFICES ASSUME NEW i \in AccountIds, NEW key \in Nat, Current(i, key)
               PROVE  Current(i, key)'
    OBVIOUS
  <2>1. Active(i) <=> Active(i)'
    BY <1>1 DEF Active
  <2>2. i \in seen.unloaded => i \in seen'.unloaded
    BY <1>4
  <2>3. Dirty(i) => Dirty(i)' \/ (threads[c].on = i /\ threads[c].wrote)
    BY <1>2, ThreadKinds DEF Dirty, Changing
  <2>4. threads[c].on = i /\ threads[c].wrote => i \in seen'.unloaded
    BY <1>4
  <2>5. QED
    BY <1>1, <2>1, <2>2, <2>3, <2>4 DEF Current
<1>7. threads[c].at \in Changing /\ threads'[c].at = "none" /\ threads'[c].todo = {}
  BY <1>2, NoThreadIs
<1>8. QED
  BY <1>2, <1>5, <1>6, <1>7, RequestWaitsForRuns, RequestWorks

\* A request goes on to another line of its work on an account.
RowWork(thread, at, on, key, wrote) ==
    [thread EXCEPT !.at = at, !.on = on, !.key = key, !.wrote = wrote]

\* It stays the same thread in what it has to start.
LEMMA RowWorkIs ==
  ASSUME NEW thread \in ThreadShape, NEW at \in ThreadPlaces, NEW on \in {0} \cup AccountIds,
         NEW key \in Nat, NEW wrote, wrote \in BOOLEAN
  PROVE  LET after == RowWork(thread, at, on, key, wrote)
         IN  /\ after \in ThreadShape /\ after.at = at /\ after.on = on /\ after.wrote = wrote
             /\ after.todo = thread.todo
<1> DEFINE one == [thread EXCEPT !.at = at]
           two == [one EXCEPT !.on = on]
           three == [two EXCEPT !.key = key]
           four == [three EXCEPT !.wrote = wrote]
<1>1. RowWork(thread, at, on, key, wrote) = four
  BY DEF RowWork
<1>2. one \in ThreadShape /\ one.at = at /\ one.todo = thread.todo
  BY DEF ThreadShape
<1> HIDE DEF one
<1>3. two \in ThreadShape /\ two.at = at /\ two.todo = thread.todo /\ two.on = on
  BY <1>2 DEF ThreadShape
<1> HIDE DEF two
<1>4. three \in ThreadShape /\ three.at = at /\ three.todo = thread.todo /\ three.on = on
  BY <1>3 DEF ThreadShape
<1> HIDE DEF three
<1>5. /\ four \in ThreadShape /\ four.at = at /\ four.todo = thread.todo /\ four.on = on
      /\ four.wrote = wrote
  BY <1>4 DEF ThreadShape
<1>6. QED
  BY <1>1, <1>5

\* A request that has gone on with its work, and what it may have changed.
LEMMA WorkKeepsMiniMaxInv ==
  ASSUME MiniMaxInv, NEW c \in AccountClients, NEW at \in Changing, NEW on \in {0} \cup AccountIds,
         NEW key \in Nat, NEW wrote, wrote \in BOOLEAN,
         threads[c].at \in Changing,
         threads' = [threads EXCEPT ![c] = RowWork(threads[c], at, on, key, wrote)],
         accounts' \in [AccountIds -> AccountShape], seen' \in SeenShape,
         seen'.unloaded = seen.unloaded,
         UNCHANGED <<instances, reloadMu, ctx, registry>>,
         \* Another key, or an account that goes, is known to the request.
         \A i \in AccountIds : Active(i) => \/ Active(i)' /\ accounts'[i].key = accounts[i].key
                                            \/ on = i /\ at = "lock",
         \* It does not forget what it has changed.
         threads[c].at = "lock" => at = "lock" /\ on = threads[c].on,
         threads[c].at \in {"rename", "metadata"} /\ threads[c].wrote =>
            on = threads[c].on /\ (at = "lock" \/ (at \in {"rename", "metadata"} /\ wrote))
  PROVE  MiniMaxInv'
<1> DEFINE after == RowWork(threads[c], at, on, key, wrote)
<1>1. /\ c \in Threads /\ threads[c] \in ThreadShape /\ threads[c].todo = {}
      /\ \A r \in ManagerRuns : threads[r].at \notin {"query", "start", "launch"}
  BY RequestWaitsForRuns
<1>2. /\ after \in ThreadShape /\ after.at = at /\ after.on = on /\ after.wrote = wrote
      /\ after.todo = {}
  <2>1. at \in ThreadPlaces
    BY DEF ThreadPlaces
  <2>2. after \in ThreadShape
    BY <1>1, <2>1, RowWorkIs
  <2>3. after.at = at
    BY <1>1, <2>1, RowWorkIs
  <2>4. after.on = on
    BY <1>1, <2>1, RowWorkIs
  <2>5. after.todo = threads[c].todo
    BY <1>1, <2>1, RowWorkIs
  <2>6. after.wrote = wrote
    BY <1>1, <2>1, RowWorkIs
  <2>7. QED
    BY <1>1, <2>2, <2>6, <2>3, <2>4, <2>5
<1>3. threads' = [threads EXCEPT ![c] = after] /\ threads \in [Threads -> ThreadShape]
  BY DEF MiniMaxInv, MiniMaxTypeOK
<1> HIDE DEF after
<1>4. /\ threads' \in [Threads -> ThreadShape] /\ threads'[c] = after
      /\ \A u \in Threads : u # c => threads'[u] = threads[u]
  BY <1>1, <1>2, <1>3
<1>5. MiniMaxTypeOK'
  BY <1>4 DEF MiniMaxInv, MiniMaxTypeOK
<1>6. \A i \in AccountIds, k \in Nat : Current(i, k) => Current(i, k)'
  <2> SUFFICES ASSUME NEW i \in AccountIds, NEW k \in Nat, Current(i, k)
               PROVE  Current(i, k)'
    OBVIOUS
  <2>1. Dirty(i) => Dirty(i)'
    BY <1>2, <1>4, ThreadKinds DEF Dirty, Changing
  <2>2. on = i /\ at = "lock" => Dirty(i)'
    BY <1>2, <1>4 DEF Dirty
  <2>3. QED
    BY <2>1, <2>2 DEF Current
<1>7. QED
  BY <1>1, <1>2, <1>4, <1>5, <1>6, RequestWorks

\* A request begins when no run of the manager moves.
LEMMA AskKeepsMiniMaxInv ==
  ASSUME MiniMaxInv, ~Overlap, NEW c \in AccountClients, AskForAccount(c)
  PROVE  MiniMaxInv'
<1>1. PICK op \in {"create", "update", "delete"} :
         threads' = [threads EXCEPT ![c].at = "row", ![c].op = op]
  BY DEF AskForAccount
<1>2. /\ threads[c] = NoThread /\ NoRunMoves /\ seen' = [seen EXCEPT !.requests = @ + 1]
      /\ UNCHANGED <<accounts, instances, reloadMu, ctx, registry>>
  BY DEF AskForAccount
<1> DEFINE after == [NoThread EXCEPT !.at = "row", !.op = op]
<1>3. after \in ThreadShape /\ after.at = "row" /\ after.todo = {}
  BY DEF NoThread, ThreadShape, ThreadPlaces, Changing
<1>4. /\ threads' = [threads EXCEPT ![c] = after]
      /\ c \in Threads /\ threads \in [Threads -> ThreadShape] /\ seen \in SeenShape
  BY <1>1, <1>2, ThreadKinds DEF MiniMaxInv, MiniMaxTypeOK
<1> HIDE DEF after
<1>5. /\ threads' \in [Threads -> ThreadShape] /\ threads'[c] = after
      /\ \A u \in Threads : u # c => threads'[u] = threads[u]
  BY <1>3, <1>4
<1>6. seen' \in SeenShape /\ seen'.unloaded = seen.unloaded
  <2>1. seen.requests + 1 \in Nat
    BY <1>4 DEF SeenShape
  <2>2. QED
    BY <1>2, <1>4, <2>1 DEF SeenShape
<1>7. MiniMaxTypeOK'
  BY <1>2, <1>5, <1>6 DEF MiniMaxInv, MiniMaxTypeOK
<1>8. \A i \in AccountIds, k \in Nat : Current(i, k) => Current(i, k)'
  BY <1>2, <1>5, <1>6, ThreadKinds, NoThreadIs DEF Current, Active, Dirty
<1>9. threads[c].at = "none" /\ threads'[c].at = "row"
  BY <1>2, <1>3, <1>5, NoThreadIs
<1>10. \A r \in ManagerRuns : threads[r].at \notin {"query", "start", "launch"}
  BY <1>2 DEF NoRunMoves
<1>11. QED
  BY <1>2, <1>3, <1>5, <1>7, <1>8, <1>9, <1>10, RequestWorks DEF Changing

\* An account that is created or restored keeps its key for now.
LEMMA CreateKeepsMiniMaxInv ==
  ASSUME MiniMaxInv, NEW c \in AccountClients, CreateAccount(c)
  PROVE  MiniMaxInv'
<1>1. /\ threads[c].at = "row" /\ UNCHANGED <<instances, reloadMu, ctx, registry>>
      /\ threads[c] \in ThreadShape /\ accounts \in [AccountIds -> AccountShape] /\ seen \in SeenShape
  BY ThreadKinds DEF CreateAccount, MiniMaxInv, MiniMaxTypeOK
<1>2. CASE Refuse(c, TRUE)
  BY <1>1, <1>2, RefuseKeepsMiniMaxInv DEF Changing
<1>3. CASE \E name \in AccountNames : CreateOrRestoreProviderAccount(c, name) /\ UNCHANGED seen
  <2>1. PICK name \in AccountNames, i \in AccountIds :
           /\ accounts' = [accounts EXCEPT ![i].name = name, ![i].gone = FALSE]
           /\ threads' = [threads EXCEPT ![c].at = "metadata", ![c].on = i,
                                     ![c].wrote = accounts[i].gone]
    BY <1>3 DEF CreateOrRestoreProviderAccount
  <2>2. accounts[i] \in AccountShape
    BY <1>1
  <2>3. accounts[i].gone \in BOOLEAN /\ threads[c].key \in Nat
    BY <1>1, <2>2 DEF AccountShape, ThreadShape
  <2> DEFINE after == [accounts[i] EXCEPT !.name = name, !.gone = FALSE]
  <2>4. after \in AccountShape /\ ~after.gone /\ after.key = accounts[i].key
    BY <2>2 DEF AccountShape
  <2>5. accounts' = [accounts EXCEPT ![i] = after]
    BY <2>1
  <2> HIDE DEF after
  <2>6. /\ accounts' \in [AccountIds -> AccountShape]
        /\ \A j \in AccountIds : Active(j) => Active(j)' /\ accounts'[j].key = accounts[j].key
    BY <1>1, <2>4, <2>5 DEF Active
  <2>7. threads' = [threads EXCEPT ![c] = RowWork(threads[c], "metadata", i, threads[c].key, accounts[i].gone)]
    BY <1>1, <2>1 DEF RowWork, ThreadShape
  <2>8. QED
    BY <1>1, <1>3, <2>3, <2>6, <2>7, WorkKeepsMiniMaxInv DEF Changing
<1>4. QED
  BY <1>2, <1>3 DEF CreateAccount

\* A request reads the account it is about.
LEMMA GetKeepsMiniMaxInv ==
  ASSUME MiniMaxInv, NEW c \in AccountClients, GetAccount(c)
  PROVE  MiniMaxInv'
<1>1. /\ threads[c].at = "row" /\ UNCHANGED <<instances, reloadMu, ctx, registry>>
      /\ threads[c] \in ThreadShape /\ accounts \in [AccountIds -> AccountShape] /\ seen \in SeenShape
  BY ThreadKinds DEF GetAccount, MiniMaxInv, MiniMaxTypeOK
<1>2. CASE Refuse(c, FALSE)
  BY <1>1, <1>2, RefuseKeepsMiniMaxInv DEF Changing
<1>3. CASE ~Refuse(c, FALSE)
  <2> DEFINE at == IF threads[c].op = "update" THEN "restore" ELSE "delete"
  <2>1. PICK i \in AccountIds :
           /\ threads' = [threads EXCEPT ![c].on = i, ![c].key = accounts[i].key, ![c].at = at]
           /\ UNCHANGED <<accounts, seen>>
    BY <1>3 DEF GetAccount
  <2>2. accounts[i].key \in Nat /\ threads[c].wrote \in BOOLEAN
    BY <1>1 DEF AccountShape, ThreadShape
  <2>3. at \in Changing \ {"lock"}
    BY DEF Changing
  <2> HIDE DEF at
  <2>4. threads' = [threads EXCEPT ![c] = RowWork(threads[c], at, i, accounts[i].key, threads[c].wrote)]
    BY <1>1, <2>1 DEF RowWork, ThreadShape
  <2>5. \A j \in AccountIds : Active(j) => Active(j)' /\ accounts'[j].key = accounts[j].key
    BY <2>1 DEF Active
  <2>6. QED
    <3>1. /\ seen' \in SeenShape /\ seen'.unloaded = seen.unloaded
          /\ accounts' \in [AccountIds -> AccountShape]
      BY <1>1, <2>1
    <3>2. /\ threads[c].at \in Changing /\ at \in Changing /\ threads[c].at # "lock"
          /\ threads[c].at \notin {"rename", "metadata"}
      BY <1>1, <2>3 DEF Changing
    <3>3. i \in {0} \cup AccountIds
      OBVIOUS
    <3>4. QED
      BY <1>1, <2>2, <2>4, <2>5, <3>1, <3>2, <3>3, WorkKeepsMiniMaxInv
<1>4. QED
  BY <1>2, <1>3

\* Where a request stands that works on the row of an account.
LEMMA WorkShape ==
  ASSUME MiniMaxInv, NEW c \in AccountClients
  PROVE  /\ threads[c] \in ThreadShape /\ accounts \in [AccountIds -> AccountShape] /\ seen \in SeenShape
         /\ threads[c].on \in {0} \cup AccountIds /\ threads[c].key \in Nat /\ threads[c].wrote \in BOOLEAN
BY ThreadKinds DEF MiniMaxInv, MiniMaxTypeOK, ThreadShape

\* A request that keeps its account is at another line.
LEMMA RowWorkGoesOn ==
  ASSUME MiniMaxInv, NEW c \in AccountClients, NEW at,
         threads' = [threads EXCEPT ![c].at = at]
  PROVE  threads' = [threads EXCEPT ![c] =
                        RowWork(threads[c], at, threads[c].on, threads[c].key, threads[c].wrote)]
<1>1. threads[c] \in ThreadShape
  BY WorkShape
<1>2. RowWork(threads[c], at, threads[c].on, threads[c].key, threads[c].wrote) = [threads[c] EXCEPT !.at = at]
  BY <1>1 DEF RowWork, ThreadShape
<1>3. QED
  BY <1>2

\* An account that is restored keeps its key.
LEMMA RestoreKeepsMiniMaxInv ==
  ASSUME MiniMaxInv, NEW c \in AccountClients, RestoreAccount(c)
  PROVE  MiniMaxInv'
<1>1. threads[c].at = "restore" /\ UNCHANGED <<instances, reloadMu, ctx, registry>>
  BY DEF RestoreAccount
<1>2. CASE Refuse(c, TRUE)
  BY <1>1, <1>2, RefuseKeepsMiniMaxInv DEF Changing
<1>3. CASE ~Refuse(c, TRUE)
  <2> DEFINE i == threads[c].on
             wrote == accounts' # accounts
             after == [accounts[i] EXCEPT !.gone = FALSE]
  <2>1. /\ UNCHANGED accounts \/ accounts' = [accounts EXCEPT ![i] = after]
        /\ threads' = [threads EXCEPT ![c].at = "rename", ![c].wrote = wrote]
        /\ UNCHANGED seen
    BY <1>3 DEF RestoreAccount
  <2>2. /\ accounts' \in [AccountIds -> AccountShape]
        /\ \A j \in AccountIds : Active(j) => Active(j)' /\ accounts'[j].key = accounts[j].key
    <3>1. CASE i \in AccountIds
      <4>1. accounts[i] \in AccountShape
        BY <3>1, WorkShape
      <4>2. after \in AccountShape /\ ~after.gone /\ after.key = accounts[i].key
        BY <4>1 DEF AccountShape
      <4> HIDE DEF after
      <4>3. QED
        BY <2>1, <3>1, <4>2, WorkShape DEF Active
    <3>2. CASE i \notin AccountIds
      <4>1. accounts' = accounts
        BY <2>1, <3>2, WorkShape
      <4>2. QED
        BY <4>1, WorkShape DEF Active
    <3>3. QED
      BY <3>1, <3>2
  <2>3. threads' = [threads EXCEPT ![c] = RowWork(threads[c], "rename", i, threads[c].key, wrote)]
    <3>1. threads[c] \in ThreadShape
      BY WorkShape
    <3>2. QED
      BY <2>1, <3>1 DEF RowWork, ThreadShape
  <2>4. wrote \in BOOLEAN
    OBVIOUS
  <2> HIDE DEF wrote
  <2>5. QED
    <3>1. seen' \in SeenShape /\ seen'.unloaded = seen.unloaded
      BY <2>1, WorkShape
    <3>2. /\ threads[c].at \in Changing /\ "rename" \in Changing /\ threads[c].at # "lock"
          /\ threads[c].at \notin {"rename", "metadata"}
      BY <1>1 DEF Changing
    <3>3. threads[c].on \in {0} \cup AccountIds /\ threads[c].key \in Nat
      BY WorkShape
    <3>4. QED
      BY <1>1, <2>2, <2>3, <2>4, <3>1, <3>2, <3>3, WorkKeepsMiniMaxInv
<1>4. QED
  BY <1>2, <1>3

\* An account that is renamed keeps its key.
LEMMA RenameKeepsMiniMaxInv ==
  ASSUME MiniMaxInv, NEW c \in AccountClients, RenameAccount(c)
  PROVE  MiniMaxInv'
<1>1. threads[c].at = "rename" /\ UNCHANGED <<instances, reloadMu, ctx, registry>>
  BY DEF RenameAccount
<1>2. CASE Refuse(c, FALSE)
  BY <1>1, <1>2, RefuseKeepsMiniMaxInv DEF Changing
<1>3. CASE ~Refuse(c, FALSE)
  <2> DEFINE i == threads[c].on
  <2>1. /\ \/ UNCHANGED accounts
           \/ \E name \in AccountNames : accounts' = [accounts EXCEPT ![i].name = name]
        /\ threads' = [threads EXCEPT ![c].at = "metadata"]
        /\ UNCHANGED seen
    BY <1>3 DEF RenameAccount, AtLine
  <2>2. /\ accounts' \in [AccountIds -> AccountShape]
        /\ \A j \in AccountIds : Active(j) => Active(j)' /\ accounts'[j].key = accounts[j].key
    <3>1. CASE UNCHANGED accounts
      BY <3>1, WorkShape DEF Active
    <3>2. ASSUME NEW name \in AccountNames, accounts' = [accounts EXCEPT ![i].name = name], i \in AccountIds
          PROVE  <2>2!1 /\ <2>2!2
      <4> DEFINE after == [accounts[i] EXCEPT !.name = name]
      <4>1. accounts[i] \in AccountShape
        BY <3>2, WorkShape
      <4>2. after \in AccountShape /\ after.gone = accounts[i].gone /\ after.key = accounts[i].key
        BY <4>1 DEF AccountShape
      <4>3. accounts' = [accounts EXCEPT ![i] = after]
        BY <3>2
      <4> HIDE DEF after
      <4>4. QED
        BY <3>2, <4>2, <4>3, WorkShape DEF Active
    <3>3. ASSUME NEW name \in AccountNames, accounts' = [accounts EXCEPT ![i].name = name], i \notin AccountIds
          PROVE  accounts' = accounts
      BY <3>3, WorkShape
    <3>4. QED
      BY <2>1, <3>1, <3>2, <3>3
  <2>3. QED
    <3>1. seen' \in SeenShape /\ seen'.unloaded = seen.unloaded
      BY <2>1, WorkShape
    <3>2. threads[c].at \in Changing /\ "metadata" \in Changing /\ threads[c].at # "lock"
      BY <1>1 DEF Changing
    <3>3. threads[c].on \in {0} \cup AccountIds /\ threads[c].key \in Nat /\ threads[c].wrote \in BOOLEAN
      BY WorkShape
    <3>4. threads' = [threads EXCEPT ![c] =
                        RowWork(threads[c], "metadata", threads[c].on, threads[c].key, threads[c].wrote)]
      BY <2>1, RowWorkGoesOn
    <3>5. QED
      BY <1>1, <2>2, <3>1, <3>2, <3>3, <3>4, WorkKeepsMiniMaxInv
<1>4. QED
  BY <1>2, <1>3

\* A key that is saved is remembered by the request until it has reloaded.
LEMMA SaveKeepsMiniMaxInv ==
  ASSUME MiniMaxInv, NEW c \in AccountClients, SaveMetadata(c)
  PROVE  MiniMaxInv'
<1>1. threads[c].at = "metadata" /\ UNCHANGED <<instances, reloadMu, ctx, registry>>
  BY DEF SaveMetadata
<1>2. CASE Refuse(c, FALSE) \/ Refuse(c, TRUE)
  BY <1>1, <1>2, RefuseKeepsMiniMaxInv DEF Changing
<1>3. CASE ~(Refuse(c, FALSE) \/ Refuse(c, TRUE))
  <2> DEFINE i == threads[c].on
  <2>1. /\ threads' = [threads EXCEPT ![c].at = "lock"]
        /\ \/ UNCHANGED <<accounts, seen>>
           \/ UNCHANGED accounts /\ seen' = [seen EXCEPT !.faults = @ + 1]
           \/ \E key, kept \in Nat : /\ accounts' = [accounts EXCEPT ![i].key = key]
                               /\ seen' = [seen EXCEPT !.keys = kept]
    <3>1. seen.keys \in Nat /\ seen.keys + 1 \in Nat /\ threads[c].key \in Nat
      BY WorkShape DEF SeenShape
    <3>2. ASSUME NEW key \in {0, seen.keys + 1},
                 accounts' = [accounts EXCEPT ![threads[c].on].key =
                            IF key = 0 /\ threads[c].op = "update" THEN threads[c].key ELSE key],
                 seen' = [seen EXCEPT !.keys = IF key = 0 THEN @ ELSE key]
          PROVE  \E k, kept \in Nat : /\ accounts' = [accounts EXCEPT ![i].key = k]
                                /\ seen' = [seen EXCEPT !.keys = kept]
      <4>1. /\ (IF key = 0 /\ threads[c].op = "update" THEN threads[c].key ELSE key) \in Nat
            /\ (IF key = 0 THEN seen.keys ELSE key) \in Nat
        BY <3>1
      <4>2. QED
        BY <3>2, <4>1
    <3>3. QED
      BY <1>3, <3>2 DEF SaveMetadata, AtLine, DBFault
  <2>2. seen' \in SeenShape /\ seen'.unloaded = seen.unloaded
    <3>1. seen \in SeenShape /\ seen.faults + 1 \in Nat
      BY WorkShape DEF SeenShape
    <3>2. CASE seen' = seen
      BY <3>1, <3>2
    <3>3. CASE seen' = [seen EXCEPT !.faults = @ + 1]
      BY <3>1, <3>3 DEF SeenShape
    <3>4. ASSUME NEW kept \in Nat, seen' = [seen EXCEPT !.keys = kept]
          PROVE  seen' \in SeenShape /\ seen'.unloaded = seen.unloaded
      BY <3>1, <3>4 DEF SeenShape
    <3>5. QED
      BY <2>1, <3>2, <3>3, <3>4
  <2>3. /\ accounts' \in [AccountIds -> AccountShape]
        /\ \A j \in AccountIds : Active(j) => \/ Active(j)' /\ accounts'[j].key = accounts[j].key
                                              \/ i = j
    <3>1. CASE UNCHANGED accounts
      BY <3>1, WorkShape DEF Active
    <3>2. ASSUME NEW key \in Nat, accounts' = [accounts EXCEPT ![i].key = key], i \in AccountIds
          PROVE  <2>3!1 /\ <2>3!2
      <4> DEFINE after == [accounts[i] EXCEPT !.key = key]
      <4>1. accounts[i] \in AccountShape
        BY <3>2, WorkShape
      <4>2. after \in AccountShape
        BY <4>1 DEF AccountShape
      <4>3. accounts' = [accounts EXCEPT ![i] = after]
        BY <3>2
      <4> HIDE DEF after
      <4>4. QED
        BY <3>2, <4>2, <4>3, WorkShape DEF Active
    <3>3. ASSUME NEW key \in Nat, accounts' = [accounts EXCEPT ![i].key = key], i \notin AccountIds
          PROVE  accounts' = accounts
      BY <3>3, WorkShape
    <3>4. QED
      BY <2>1, <3>1, <3>2, <3>3
  <2>4. threads[c].at \in Changing /\ "lock" \in Changing /\ threads[c].at # "lock"
    BY <1>1 DEF Changing
  <2>5. threads[c].on \in {0} \cup AccountIds /\ threads[c].key \in Nat /\ threads[c].wrote \in BOOLEAN
    BY WorkShape
  <2>6. threads' = [threads EXCEPT ![c] =
                        RowWork(threads[c], "lock", threads[c].on, threads[c].key, threads[c].wrote)]
    BY <2>1, RowWorkGoesOn
  <2>7. QED
    BY <1>1, <2>2, <2>3, <2>4, <2>5, <2>6, WorkKeepsMiniMaxInv
<1>4. QED
  BY <1>2, <1>3

\* An account that is deleted is remembered by the request.
LEMMA DeleteKeepsMiniMaxInv ==
  ASSUME MiniMaxInv, NEW c \in AccountClients, DeleteAccount(c)
  PROVE  MiniMaxInv'
<1>1. threads[c].at = "delete" /\ UNCHANGED <<instances, reloadMu, ctx, registry>>
  BY DEF DeleteAccount
<1>2. CASE Refuse(c, TRUE)
  BY <1>1, <1>2, RefuseKeepsMiniMaxInv DEF Changing
<1>3. CASE ~Refuse(c, TRUE)
  <2> DEFINE i == threads[c].on
             after == [accounts[i] EXCEPT !.gone = TRUE]
  <2>1. /\ accounts' = [accounts EXCEPT ![i] = after]
        /\ threads' = [threads EXCEPT ![c].at = "lock"]
        /\ UNCHANGED seen
    BY <1>3 DEF DeleteAccount, AtLine
  <2>2. /\ accounts' \in [AccountIds -> AccountShape]
        /\ \A j \in AccountIds : Active(j) => \/ Active(j)' /\ accounts'[j].key = accounts[j].key
                                              \/ i = j
    <3>1. CASE i \in AccountIds
      <4>1. accounts[i] \in AccountShape
        BY <3>1, WorkShape
      <4>2. after \in AccountShape
        BY <4>1 DEF AccountShape
      <4> HIDE DEF after
      <4>3. QED
        BY <2>1, <3>1, <4>2, WorkShape DEF Active
    <3>2. CASE i \notin AccountIds
      <4>1. accounts' = accounts
        BY <2>1, <3>2, WorkShape
      <4>2. QED
        BY <4>1, WorkShape DEF Active
    <3>3. QED
      BY <3>1, <3>2
  <2>3. seen' \in SeenShape /\ seen'.unloaded = seen.unloaded
    BY <2>1, WorkShape
  <2>4. /\ threads[c].at \in Changing /\ "lock" \in Changing /\ threads[c].at # "lock"
        /\ threads[c].at \notin {"rename", "metadata"}
    BY <1>1 DEF Changing
  <2>5. threads[c].on \in {0} \cup AccountIds /\ threads[c].key \in Nat /\ threads[c].wrote \in BOOLEAN
    BY WorkShape
  <2>6. threads' = [threads EXCEPT ![c] =
                        RowWork(threads[c], "lock", threads[c].on, threads[c].key, threads[c].wrote)]
    BY <2>1, RowWorkGoesOn
  <2>7. QED
    BY <1>1, <2>2, <2>3, <2>4, <2>5, <2>6, WorkKeepsMiniMaxInv
<1>4. QED
  BY <1>2, <1>3

-----------------------------------------------------------------------------
(* The theorems *)

\* A step that changes nothing keeps the invariant.
LEMMA StutterKeepsMiniMaxInv ==
  ASSUME MiniMaxInv, UNCHANGED minimaxVars
  PROVE  MiniMaxInv'
<1>1. UNCHANGED <<accounts, instances, threads, reloadMu, ctx, registry, seen>>
  BY DEF minimaxVars
<1>2. MiniMaxTypeOK' /\ RunsInTurn' /\ ReloadsInTurn' /\ TodoOK' /\ SlotsOK'
  BY <1>1 DEF MiniMaxInv, MiniMaxTypeOK, RunsInTurn, ReloadsInTurn, TodoOK, SlotsOK,
              NoneUnderway, ContextDone, Starts, Taken
<1>3. PlacesOK'
  <2>1. \A u \in Threads : threads'[u].at = "launch" => threads'[u].todo # {}
    BY <1>1 DEF MiniMaxInv, PlacesOK
  <2>2. QED
    BY <1>1, <2>1, PlacesStay DEF ContextDone, Taken
<1>4. KeysOK'
  <2>1. \A i \in AccountIds, key \in Nat : Current(i, key) => Current(i, key)'
    BY <1>1 DEF Current, Active, Dirty
  <2>2. QED
    BY <1>1, <2>1, KeysStay DEF AgentStops, ContextDone
<1>5. QED
  BY <1>2, <1>3, <1>4 DEF MiniMaxInv

\* So does every step.
LEMMA NextKeepsMiniMaxInv ==
  ASSUME MiniMaxInv, ~Overlap, [MiniMaxNext]_minimaxVars
  PROVE  MiniMaxInv'
<1>1. ASSUME NEW t \in Threads, MiniMaxThread(t) PROVE MiniMaxInv'
  BY <1>1, StopAllKeepsMiniMaxInv, AgentsEndedKeepsMiniMaxInv, QueryKeepsMiniMaxInv,
     CheckKeepsMiniMaxInv, LaunchKeepsMiniMaxInv DEF MiniMaxThread
<1>2. ASSUME NEW c \in AccountClients, MiniMaxRequest(c) PROVE MiniMaxInv'
  BY <1>2, ReloadKeepsMiniMaxInv, ReloadEndKeepsMiniMaxInv, CreateKeepsMiniMaxInv, GetKeepsMiniMaxInv,
     RestoreKeepsMiniMaxInv, RenameKeepsMiniMaxInv, SaveKeepsMiniMaxInv, DeleteKeepsMiniMaxInv
     DEF MiniMaxRequest
<1>3. CASE MiniMaxSteps
  BY <1>1, <1>2, <1>3, AgentEndsKeepsMiniMaxInv, RunKeepsMiniMaxInv DEF MiniMaxSteps
<1>4. CASE MiniMaxOutside
  BY <1>4, StartKeepsMiniMaxInv, StopKeepsMiniMaxInv, AskKeepsMiniMaxInv, StutterKeepsMiniMaxInv
     DEF MiniMaxOutside, ListAccounts
<1>5. CASE UNCHANGED minimaxVars
  BY <1>5, StutterKeepsMiniMaxInv
<1>6. QED
  BY <1>3, <1>4, <1>5 DEF MiniMaxNext

\* The invariant says more than the property.
LEMMA MiniMaxInvImpliesAgentsFollow ==
  MiniMaxInv => AgentsFollowAccounts
<1> SUFFICES ASSUME MiniMaxInv, NEW s \in Slots, instances[s].live, ~AgentStops(instances[s])
             PROVE  LET i == instances[s].account IN
                    /\ \A u \in Slots \ {s} :
                          instances[u].live /\ instances[u].account = i => AgentStops(instances[u])
                    /\ (Active(i) /\ instances[s].key = accounts[i].key) \/ Underway(i) \/ i \in seen.unloaded
  BY DEF AgentsFollowAccounts
<1>1. \A u \in Slots \ {s} : ~(instances[u].live /\ instances[u].account = instances[s].account)
  BY NoInstanceIs DEF MiniMaxInv, SlotsOK, Taken
<1>2. Current(instances[s].account, instances[s].key)
  BY DEF MiniMaxInv, KeysOK
<1>3. \A i : Dirty(i) => Underway(i)
  BY DEF Dirty, Underway
<1>4. QED
  BY <1>1, <1>2, <1>3 DEF Current

\* The records keep their shape: a run that loads, and a request that works on
\* an account, are at one of their lines.
THEOREM MiniMaxTypeCorrect ==
  ASSUME ~Overlap
  PROVE  MiniMaxSpec => []MiniMaxTypeOK
<1>1. MiniMaxInit => MiniMaxInv
  BY InitEstablishesMiniMaxInv
<1>2. MiniMaxInv /\ [MiniMaxNext]_minimaxVars => MiniMaxInv'
  BY NextKeepsMiniMaxInv
<1>3. MiniMaxInv => MiniMaxTypeOK
  BY DEF MiniMaxInv
<1>4. QED
  BY <1>1, <1>2, <1>3, PTL DEF MiniMaxSpec

\* An agent that goes on polling is the only one of its account, and polls with
\* the account's key unless the request that changed it is underway or was
\* answered by an error (startAgentForAccount, Reload), for any number of
\* requests and of failing calls, as long as the manager neither starts nor
\* stops in the midst of a request.
THEOREM MiniMaxAgentsFollowAccounts ==
  ASSUME ~Overlap
  PROVE  MiniMaxSpec => []AgentsFollowAccounts
<1>1. MiniMaxInit => MiniMaxInv
  BY InitEstablishesMiniMaxInv
<1>2. MiniMaxInv /\ [MiniMaxNext]_minimaxVars => MiniMaxInv'
  BY NextKeepsMiniMaxInv
<1>3. MiniMaxInv => AgentsFollowAccounts
  BY MiniMaxInvImpliesAgentsFollow
<1>4. QED
  BY <1>1, <1>2, <1>3, PTL DEF MiniMaxSpec

-----------------------------------------------------------------------------
(***************************************************************************)
(* The passwords.  Both properties speak of a daemon that is up with no    *)
(* request under way.  Their invariants say what holds between the steps   *)
(* of a request: of the admin's hash between its two writes, and of the    *)
(* mail password through every key that it may have been encrypted with,   *)
(* now or before the salt was introduced.                                  *)
(***************************************************************************)

Hashes  == [db : Nat, memory : Nat]
Keys    == Nat \X Nat
Secret  == [text : Nat, keys : Seq(Keys)]
Engine  == [at : {"down", "starting", "up"}, key : Keys, legacy : Keys, mailer : Secret]
Request == [at : {"none", "save", "configure", "upsert", "update", "read", "rewrite"},
            old : Nat, new : Nat, password : Secret]
Mailed  == [requests : Nat, faults : Nat, fresh : Nat, typed : Nat,
            blank : BOOLEAN, changed : BOOLEAN, lost : BOOLEAN, crossed : BOOLEAN]

SmtpTypes ==
    /\ admin \in Hashes
    /\ salt \in Hashes
    /\ smtp \in Secret
    /\ engine \in Engine
    /\ requests \in [Clients -> Request]
    /\ mailed \in Mailed

\* Requests need the server, and are one at a time unless two have crossed.
OneRequest ==
    /\ engine.at # "up" => Idle
    /\ ~mailed.crossed =>
          \A c, d \in Clients :
             requests[c] # NoRequest /\ requests[d] # NoRequest => c = d

\* The hash in memory is the stored one, but between the two writes of a change.
AdminIsStored ==
    ~mailed.crossed /\ ~mailed.lost =>
       /\ \A c \in Clients : requests[c].at = "update" => admin.db = requests[c].new
       /\ engine.at # "down" /\ admin.db # 0 /\ (\A c \in Clients : requests[c].at # "update") =>
             admin.memory = admin.db

USE DEF Clients

-----------------------------------------------------------------------------
(* Passwords and keys *)

\* A password that was encrypted once.
Sealed(t, k) == [text |-> t, keys |-> <<k>>]

\* Encrypting a password that is plain gives it one layer of the key.
LEMMA EncryptText ==
  ASSUME NEW t, NEW k
  PROVE  Encrypt(Text(t), k) = Sealed(t, k)
BY DEF Encrypt, Text, Sealed

\* A layer is taken off by the key that put it on, and by no other one.
LEMMA DecryptSealed ==
  ASSUME NEW t, NEW k
  PROVE  /\ Decrypt(Sealed(t, k)) = Text(t)
         /\ \A key : Decrypts(Sealed(t, k), key) <=> k = key
<1>1. Len(<<k>>) = 1 /\ <<k>>[1] = k /\ <<k>> # <<>>
  OBVIOUS
<1>2. SubSeq(<<k>>, 1, 0) = <<>>
  OBVIOUS
<1>3. QED
  BY <1>1, <1>2 DEF Decrypt, Decrypts, Sealed, Text

\* Encrypting adds a layer to a secret.
LEMMA EncryptKeepsSecret ==
  ASSUME NEW p \in Secret, NEW k \in Keys
  PROVE  Encrypt(p, k) \in Secret
BY DEF Encrypt, Secret

\* Decrypting takes a layer off a secret.
LEMMA DecryptKeepsSecret ==
  ASSUME NEW p \in Secret, NEW k, Decrypts(p, k)
  PROVE  Decrypt(p) \in Secret
<1>1. p.keys \in Seq(Keys) /\ p.keys # <<>>
  BY DEF Secret, Decrypts
<1>2. SubSeq(p.keys, 1, Len(p.keys) - 1) \in Seq(Keys)
  BY <1>1
<1>3. QED
  BY <1>2 DEF Decrypt, Secret

\* Deriving a key from a hash and the salt in memory.
LEMMA KeysAreDerived ==
  ASSUME SmtpTypes, NEW h \in Nat
  PROVE  DeriveEncryptionKey(h) \in Keys /\ DeriveLegacyEncryptionKey(h) \in Keys
BY DEF SmtpTypes, Hashes, Keys, DeriveEncryptionKey, DeriveLegacyEncryptionKey

\* What ConfigureSMTP does to the engine and to the stored password.
LEMMA ConfigureKeepsTypes ==
  ASSUME NEW e \in Engine, NEW p \in Secret
  PROVE  /\ ConfigureSMTP(e, p) \in Engine /\ Migrated(e, p) \in Secret
         /\ ConfigureSMTP(e, p).at = e.at
         /\ ConfigureSMTP(e, p).key = e.key /\ ConfigureSMTP(e, p).legacy = e.legacy
<1>1. CASE Decrypts(p, e.key) \/ Decrypts(p, e.legacy)
  <2>1. Decrypt(p) \in Secret
    BY <1>1, DecryptKeepsSecret
  <2>2. ConfigureSMTP(e, p) = [e EXCEPT !.mailer = Decrypt(p)]
    BY <1>1 DEF ConfigureSMTP
  <2>3. e.key \in Keys
    BY DEF Engine
  <2>4. Encrypt(Decrypt(p), e.key) \in Secret
    BY <2>1, <2>3, EncryptKeepsSecret
  <2>5. Migrated(e, p) \in Secret
    BY <2>4 DEF Migrated
  <2> HIDE DEF Secret
  <2>6. QED
    BY <2>1, <2>2, <2>5 DEF Engine
<1>2. CASE ~(Decrypts(p, e.key) \/ Decrypts(p, e.legacy))
  <2>1. ConfigureSMTP(e, p) = [e EXCEPT !.mailer = p] /\ Migrated(e, p) = p
    BY <1>2 DEF ConfigureSMTP, Migrated
  <2>2. QED
    BY <2>1 DEF Engine
<1>3. QED
  BY <1>1, <1>2

\* A client without a request, and the password that is not there, are among the
\* values of the model.
LEMMA NoRequestIsOne == NoRequest \in Request /\ NoRequest.at = "none" /\ NoPassword \in Secret
<1>1. NoPassword \in Secret
  BY DEF NoPassword, Text, Secret
<1>2. QED
  BY <1>1 DEF NoRequest, Request

\* A step of one client: the others' requests stay.
LEMMA OneClientMoves ==
  ASSUME SmtpTypes, NEW c \in Clients, NEW r \in Request, requests' = [requests EXCEPT ![c] = r]
  PROVE  /\ requests' \in [Clients -> Request] /\ requests'[c] = r
         /\ \A d \in Clients : d # c => requests'[d] = requests[d]
BY DEF SmtpTypes

\* A request that comes to its next stage is a request.
LEMMA RequestMovesOn ==
  ASSUME SmtpTypes, NEW c \in Clients,
         NEW at \in {"save", "configure", "upsert", "update", "read", "rewrite"},
         requests' = [requests EXCEPT ![c].at = at]
  PROVE  /\ [requests[c] EXCEPT !.at = at] \in Request
         /\ requests' = [requests EXCEPT ![c] = [requests[c] EXCEPT !.at = at]]
<1>1. requests[c] \in Request
  BY DEF SmtpTypes
<1>2. QED
  BY <1>1 DEF Request

\* The types hold before the first start.
LEMMA InitSmtpTypes == SmtpInit => SmtpTypes
<1> SUFFICES ASSUME SmtpInit PROVE SmtpTypes
  OBVIOUS
<1>1. NoKey \in Keys
  BY DEF NoKey, Keys
<1>2. engine \in Engine
  BY <1>1, NoRequestIsOne DEF SmtpInit, Engine
<1>3. QED
  BY <1>2, NoRequestIsOne DEF SmtpInit, SmtpTypes, Hashes, Mailed

\* Every step keeps the types.
LEMMA SmtpTypesPreserved ==
  ASSUME SmtpTypes, [SmtpNext]_smtpVars
  PROVE  SmtpTypes'
<1>1. /\ admin \in Hashes /\ salt \in Hashes /\ smtp \in Secret /\ engine \in Engine
      /\ requests \in [Clients -> Request] /\ mailed \in Mailed
      /\ Failed \in Mailed /\ Fresh \in Nat
  BY DEF SmtpTypes, Failed, Mailed, Fresh
<1>2. CASE StartStore
  <2>1. PICK read, stored, found, put \in BOOLEAN :
          /\ ~(read /\ stored /\ found /\ put) => MailFault
          /\ LET kept == read /\ salt.db # 0
                 known == found /\ admin.db # 0
             IN /\ salt' = IF kept THEN [salt EXCEPT !.memory = salt.db]
                           ELSE IF stored THEN [db |-> Fresh, memory |-> Fresh]
                           ELSE [salt EXCEPT !.memory = 0]
                /\ admin' = IF known THEN [admin EXCEPT !.memory = admin.db]
                            ELSE [db |-> IF put THEN 1 ELSE admin.db, memory |-> 1]
                /\ mailed' = [mailed EXCEPT
                      !.fresh = IF kept THEN @ ELSE Fresh,
                      !.faults = IF read /\ stored /\ found /\ put THEN @ ELSE @ + 1,
                      !.lost = @ \/ (~read /\ salt.db # 0) \/ (~found /\ admin.db # 0)]
    BY <1>2, Zenon DEF StartStore
  <2>2. salt' \in Hashes /\ admin' \in Hashes
    BY <1>1, <2>1 DEF Hashes
  <2>3. mailed' \in Mailed
    <3> DEFINE lost == mailed.lost \/ (~read /\ salt.db # 0) \/ (~found /\ admin.db # 0)
               fresh == IF read /\ salt.db # 0 THEN mailed.fresh ELSE Fresh
               faults == IF read /\ stored /\ found /\ put THEN mailed.faults ELSE mailed.faults + 1
    <3>1. mailed' = [mailed EXCEPT !.fresh = fresh, !.faults = faults, !.lost = lost]
      BY <2>1, Zenon
    <3>2. lost \in BOOLEAN /\ fresh \in Nat /\ faults \in Nat
      BY <1>1 DEF Mailed
    <3> HIDE DEF lost, fresh, faults
    <3>3. QED
      BY <1>1, <3>1, <3>2 DEF Mailed
  <2>4. engine' \in Engine
    BY <1>1, <1>2 DEF StartStore, Engine
  <2>5. UNCHANGED <<smtp, requests>>
    BY <1>2 DEF StartStore
  <2>6. QED
    BY <1>1, <2>2, <2>3, <2>4, <2>5 DEF SmtpTypes
<1>3. CASE StartEngine
  <2> DEFINE e == [engine EXCEPT !.at = "up", !.key = DeriveEncryptionKey(admin.memory),
                                 !.legacy = DeriveLegacyEncryptionKey(admin.memory)]
  <2>1. admin.memory \in Nat
    BY <1>1 DEF Hashes
  <2>2. e \in Engine
    BY <1>1, <2>1, KeysAreDerived DEF Engine
  <2>3. engine' = ConfigureSMTP(e, smtp) /\ smtp' \in {smtp, Migrated(e, smtp)}
        /\ mailed' \in {mailed, Failed} /\ UNCHANGED <<admin, salt, requests>>
    BY <1>3 DEF StartEngine
  <2> HIDE DEF e
  <2>4. QED
    BY <1>1, <2>2, <2>3, ConfigureKeepsTypes DEF SmtpTypes
<1>4. CASE StopDaemon
  <2>1. engine' \in Engine
    BY <1>4, NoRequestIsOne DEF StopDaemon, NoKey, Keys, Engine
  <2>2. admin' \in Hashes /\ salt' \in Hashes
    BY <1>1, <1>4 DEF StopDaemon, Hashes
  <2>3. mailed' \in Mailed /\ smtp' = smtp /\ requests' \in [Clients -> Request]
    BY <1>1, <1>4, NoRequestIsOne DEF StopDaemon
  <2>4. QED
    BY <1>1, <2>1, <2>2, <2>3 DEF SmtpTypes
\* A request that begins.
<1>5. ASSUME NEW c \in Clients, NEW r \in Request, NEW sofar \in Mailed, Requested(c, r, sofar),
             UNCHANGED <<admin, salt, smtp, engine>>
      PROVE  SmtpTypes'
  <2>1. requests' \in [Clients -> Request]
    BY <1>5, OneClientMoves DEF Requested
  <2>2. mailed' \in Mailed
    <3> DEFINE crossed == sofar.crossed \/ ~Idle
    <3>1. mailed' = [sofar EXCEPT !.requests = sofar.requests + 1, !.crossed = crossed]
      BY <1>5, Zenon DEF Requested
    <3>2. crossed \in BOOLEAN
      BY <1>5 DEF Mailed
    <3>3. sofar.requests + 1 \in Nat
      BY <1>5 DEF Mailed
    <3> HIDE DEF crossed
    <3>4. QED
      BY <1>5, <3>1, <3>2, <3>3 DEF Mailed
  <2>3. QED
    BY <1>1, <1>5, <2>1, <2>2 DEF SmtpTypes
<1>6. ASSUME NEW c \in Clients, SaveSmtp(c)
      PROVE  SmtpTypes'
  <2>1. PICK typed \in BOOLEAN, unread \in BOOLEAN :
          LET p == IF typed THEN Text(Fresh) ELSE IF unread THEN NoPassword ELSE smtp
          IN Requested(c, [at |-> "save", old |-> 0, new |-> IF typed THEN Fresh ELSE 0,
                           password |-> IF p = NoPassword THEN p
                                        ELSE Encrypt(p, DeriveEncryptionKey(admin.memory))],
                       [mailed EXCEPT !.fresh = IF typed THEN Fresh ELSE @,
                                      !.blank = @ \/ ~typed,
                                      !.faults = IF unread THEN @ + 1 ELSE @])
    BY <1>6 DEF SaveSmtp
  <2> DEFINE p == IF typed THEN Text(Fresh) ELSE IF unread THEN NoPassword ELSE smtp
             q == IF p = NoPassword THEN p ELSE Encrypt(p, DeriveEncryptionKey(admin.memory))
             r == [at |-> "save", old |-> 0, new |-> IF typed THEN Fresh ELSE 0, password |-> q]
             sofar == [mailed EXCEPT !.fresh = IF typed THEN Fresh ELSE @,
                                    !.blank = @ \/ ~typed,
                                    !.faults = IF unread THEN @ + 1 ELSE @]
  <2>2. p \in Secret
    <3>1. Text(Fresh) \in Secret
      BY <1>1 DEF Text, Secret
    <3>2. QED
      BY <1>1, <3>1, NoRequestIsOne
  <2>3. q \in Secret
    <3>1. admin.memory \in Nat
      BY <1>1 DEF Hashes
    <3>2. QED
      BY <2>2, <3>1, KeysAreDerived, EncryptKeepsSecret
  <2>4. r \in Request
    <3> HIDE DEF q
    <3>1. QED
      BY <1>1, <2>3 DEF Request
  <2>5. sofar \in Mailed
    <3> DEFINE fresh == IF typed THEN Fresh ELSE mailed.fresh
               blank == mailed.blank \/ ~typed
               faults == IF unread THEN mailed.faults + 1 ELSE mailed.faults
    <3>1. fresh \in Nat /\ blank \in BOOLEAN /\ faults \in Nat
      BY <1>1 DEF Mailed
    <3>2. sofar = [mailed EXCEPT !.fresh = fresh, !.blank = blank, !.faults = faults]
      BY Zenon
    <3> HIDE DEF sofar, fresh, blank, faults
    <3>3. QED
      BY <1>1, <3>1, <3>2 DEF Mailed
  <2>6. Requested(c, r, sofar)
    BY <2>1
  <2> HIDE DEF r, sofar
  <2>7. QED
    BY <1>5, <1>6, <2>4, <2>5, <2>6 DEF SaveSmtp
<1>7. ASSUME NEW c \in Clients, WriteSmtp(c)
      PROVE  SmtpTypes'
  <2>1. requests' \in [Clients -> Request]
    BY <1>7, RequestMovesOn, OneClientMoves, NoRequestIsOne DEF WriteSmtp
  <2>2. requests[c].password \in Secret /\ requests[c].new \in Nat
    BY <1>1 DEF Request
  <2>3. mailed' \in Mailed /\ smtp' \in Secret
    BY <1>1, <1>7, <2>2 DEF WriteSmtp, Mailed
  <2>4. QED
    BY <1>1, <1>7, <2>1, <2>3 DEF WriteSmtp, SmtpTypes
<1>8. ASSUME NEW c \in Clients, Reconfigure(c)
      PROVE  SmtpTypes'
  <2>1. requests' \in [Clients -> Request]
    BY <1>8, OneClientMoves, NoRequestIsOne DEF Reconfigure
  <2>2. engine' \in Engine /\ smtp' \in Secret /\ mailed' \in Mailed
    BY <1>1, <1>8, ConfigureKeepsTypes DEF Reconfigure
  <2>3. QED
    BY <1>1, <1>8, <2>1, <2>2 DEF Reconfigure, SmtpTypes
<1>9. ASSUME NEW c \in Clients, ChangePassword(c)
      PROVE  SmtpTypes'
  <2> DEFINE r == [NoRequest EXCEPT !.at = "upsert", !.old = admin.memory, !.new = Fresh]
             sofar == [mailed EXCEPT !.fresh = Fresh]
  <2>1. r \in Request
    BY <1>1, NoRequestIsOne DEF Request, Hashes
  <2>2. sofar \in Mailed
    BY <1>1 DEF Mailed
  <2>3. Requested(c, r, sofar)
    BY <1>9 DEF ChangePassword
  <2> HIDE DEF r, sofar
  <2>4. QED
    BY <1>5, <1>9, <2>1, <2>2, <2>3 DEF ChangePassword
<1>10. ASSUME NEW c \in Clients, UpsertUser(c)
      PROVE  SmtpTypes'
  <2>1. requests' \in [Clients -> Request]
    BY <1>10, RequestMovesOn, OneClientMoves, NoRequestIsOne DEF UpsertUser
  <2>2. requests[c].new \in Nat
    BY <1>1 DEF Request
  <2>3. admin' \in Hashes
    BY <1>1, <1>10, <2>2 DEF UpsertUser, Hashes
  <2>4. mailed' \in Mailed
    BY <1>1, <1>10 DEF UpsertUser, Mailed
  <2>5. QED
    BY <1>1, <1>10, <2>1, <2>3, <2>4 DEF UpsertUser, SmtpTypes
<1>11. ASSUME NEW c \in Clients, UpdatePassword(c)
       PROVE  SmtpTypes'
  <2>1. requests' \in [Clients -> Request]
    BY <1>11, RequestMovesOn, OneClientMoves DEF UpdatePassword
  <2>2. requests[c].new \in Nat
    BY <1>1 DEF Request
  <2>3. admin' \in Hashes
    BY <1>1, <1>11, <2>2 DEF UpdatePassword, Hashes
  <2>4. QED
    BY <1>1, <1>11, <2>1, <2>3 DEF UpdatePassword, SmtpTypes
<1>12. ASSUME NEW c \in Clients, ReEncrypt(c)
       PROVE  SmtpTypes'
  <2>1. requests[c] \in Request /\ requests[c].new \in Nat
    BY <1>1 DEF Request
  <2>2. Encrypt(smtp, DeriveEncryptionKey(requests[c].new)) \in Secret
    BY <1>1, <2>1, KeysAreDerived, EncryptKeepsSecret
  <2> DEFINE q == Encrypt(smtp, DeriveEncryptionKey(requests[c].new))
  <2>3. requests' = [requests EXCEPT ![c] =
          IF smtp = NoPassword THEN NoRequest
          ELSE [requests[c] EXCEPT !.at = "rewrite", !.password = q]]
    BY <1>12 DEF ReEncrypt
  <2> HIDE DEF q
  <2>4. [requests[c] EXCEPT !.at = "rewrite", !.password = q] \in Request
    BY <2>1, <2>2 DEF Request, q
  <2>5. requests' \in [Clients -> Request]
    BY <1>1, <2>3, <2>4, NoRequestIsOne
  <2>6. QED
    BY <1>1, <1>12, <2>5 DEF ReEncrypt, SmtpTypes
<1>13. ASSUME NEW c \in Clients, Rewrite(c)
       PROVE  SmtpTypes'
  <2>1. requests' \in [Clients -> Request]
    BY <1>13, OneClientMoves, NoRequestIsOne DEF Rewrite
  <2>2. requests[c].password \in Secret
    BY <1>1 DEF Request
  <2>3. QED
    BY <1>1, <1>13, <2>1, <2>2 DEF Rewrite, SmtpTypes
<1>14. CASE UNCHANGED smtpVars
  BY <1>14 DEF smtpVars, SmtpTypes
<1>15. QED
  BY <1>2, <1>3, <1>4, <1>6, <1>7, <1>8, <1>9, <1>10, <1>11, <1>12, <1>13, <1>14 DEF SmtpNext

-----------------------------------------------------------------------------
(* The steps, as the invariants see them *)

\* A request that begins crosses another one, or is alone.
LEMMA RequestBegins ==
  ASSUME SmtpTypes, NEW c \in Clients, NEW r \in Request, NEW sofar \in Mailed, Requested(c, r, sofar)
  PROVE  /\ engine.at = "up" /\ requests[c] = NoRequest
         /\ requests'[c] = r /\ \A d \in Clients : d # c => requests'[d] = requests[d]
         /\ mailed'.typed = sofar.typed /\ mailed'.blank = sofar.blank
         /\ mailed'.changed = sofar.changed /\ mailed'.lost = sofar.lost
         /\ ~mailed'.crossed => ~sofar.crossed /\ Idle
<1>1. engine.at = "up" /\ requests[c] = NoRequest /\ requests' = [requests EXCEPT ![c] = r]
  BY DEF Requested
<1> DEFINE crossed == sofar.crossed \/ ~Idle
<1>2. mailed' = [sofar EXCEPT !.requests = sofar.requests + 1, !.crossed = crossed]
  BY Zenon DEF Requested
<1>3. mailed'.crossed = crossed
  <2> HIDE DEF crossed
  <2>1. QED
    BY <1>2 DEF Mailed
<1>4. ~mailed'.crossed => ~sofar.crossed /\ Idle
  BY <1>3, Zenon
<1> HIDE DEF crossed
<1>5. /\ mailed'.typed = sofar.typed /\ mailed'.blank = sofar.blank
      /\ mailed'.changed = sofar.changed /\ mailed'.lost = sofar.lost
  BY <1>2 DEF Mailed
<1>6. QED
  BY <1>1, <1>4, <1>5, OneClientMoves

\* A save: of a password that was typed, sealed with the key of now, or of what
\* is there with the field left blank.
LEMMA SaveBegins ==
  ASSUME SmtpTypes, NEW c \in Clients, SaveSmtp(c)
  PROVE  /\ engine.at = "up" /\ requests[c] = NoRequest /\ UNCHANGED <<admin, salt, smtp, engine>>
         /\ requests'[c].at = "save"
         /\ \A d \in Clients : d # c => requests'[d] = requests[d]
         /\ mailed'.typed = mailed.typed
         /\ mailed'.changed = mailed.changed /\ mailed'.lost = mailed.lost
         /\ ~mailed'.crossed => ~mailed.crossed /\ Idle
         /\ mailed.blank => mailed'.blank
         /\ \/ requests'[c].new = 0 /\ mailed'.blank
            \/ /\ requests'[c].new # 0
               /\ requests'[c].password =
                     Sealed(requests'[c].new, DeriveEncryptionKey(admin.memory))
<1>1. /\ admin \in Hashes /\ smtp \in Secret /\ mailed \in Mailed /\ Fresh \in Nat /\ Fresh # 0
  BY DEF SmtpTypes, Mailed, Fresh
<1>2. PICK typed \in BOOLEAN, unread \in BOOLEAN :
        LET p == IF typed THEN Text(Fresh) ELSE IF unread THEN NoPassword ELSE smtp
        IN Requested(c, [at |-> "save", old |-> 0, new |-> IF typed THEN Fresh ELSE 0,
                         password |-> IF p = NoPassword THEN p
                                      ELSE Encrypt(p, DeriveEncryptionKey(admin.memory))],
                     [mailed EXCEPT !.fresh = IF typed THEN Fresh ELSE @,
                                    !.blank = @ \/ ~typed,
                                    !.faults = IF unread THEN @ + 1 ELSE @])
  BY DEF SaveSmtp
<1> DEFINE p == IF typed THEN Text(Fresh) ELSE IF unread THEN NoPassword ELSE smtp
           q == IF p = NoPassword THEN p ELSE Encrypt(p, DeriveEncryptionKey(admin.memory))
           r == [at |-> "save", old |-> 0, new |-> IF typed THEN Fresh ELSE 0, password |-> q]
           fresh == IF typed THEN Fresh ELSE mailed.fresh
           blank == mailed.blank \/ ~typed
           faults == IF unread THEN mailed.faults + 1 ELSE mailed.faults
           sofar == [mailed EXCEPT !.fresh = fresh, !.blank = blank, !.faults = faults]
<1>3. q \in Secret
  <2>1. Text(Fresh) \in Secret
    BY <1>1 DEF Text, Secret
  <2>2. p \in Secret
    BY <1>1, <2>1, NoRequestIsOne
  <2>3. admin.memory \in Nat
    BY <1>1 DEF Hashes
  <2>4. QED
    BY <2>2, <2>3, KeysAreDerived, EncryptKeepsSecret
<1>4. typed => q = Sealed(Fresh, DeriveEncryptionKey(admin.memory))
  <2>1. ASSUME typed PROVE p = Text(Fresh) /\ p # NoPassword
    BY <1>1, <2>1 DEF Text, NoPassword
  <2>2. QED
    BY <2>1, EncryptText
<1>5. Requested(c, r, sofar)
  BY <1>2, Zenon
<1>6. fresh \in Nat /\ blank \in BOOLEAN /\ faults \in Nat
  BY <1>1 DEF Mailed
<1>7. (mailed.blank => blank) /\ (~typed => blank)
  BY Zenon
<1> HIDE DEF fresh, blank, faults
<1>8. /\ sofar \in Mailed /\ sofar.typed = mailed.typed /\ sofar.blank = blank
      /\ sofar.changed = mailed.changed /\ sofar.lost = mailed.lost /\ sofar.crossed = mailed.crossed
  BY <1>1, <1>6 DEF Mailed
<1> HIDE DEF q
<1>9. r \in Request
  BY <1>1, <1>3 DEF Request
<1>10. r.at = "save" /\ r.new = (IF typed THEN Fresh ELSE 0) /\ r.password = q
  OBVIOUS
<1> HIDE DEF r, sofar
<1>11. /\ engine.at = "up" /\ requests[c] = NoRequest
       /\ requests'[c] = r /\ \A d \in Clients : d # c => requests'[d] = requests[d]
       /\ mailed'.typed = sofar.typed /\ mailed'.blank = sofar.blank
       /\ mailed'.changed = sofar.changed /\ mailed'.lost = sofar.lost
       /\ ~mailed'.crossed => ~sofar.crossed /\ Idle
  BY <1>5, <1>8, <1>9, RequestBegins
<1>12. UNCHANGED <<admin, salt, smtp, engine>>
  BY DEF SaveSmtp
<1>13. CASE typed
  BY <1>1, <1>4, <1>7, <1>8, <1>10, <1>11, <1>12, <1>13
<1>14. CASE ~typed
  BY <1>7, <1>8, <1>10, <1>11, <1>12, <1>14
<1>15. QED
  BY <1>13, <1>14

\* A change of the password that begins: its new hash is on its way, and nothing
\* else has changed.
LEMMA ChangeBegins ==
  ASSUME SmtpTypes, NEW c \in Clients, ChangePassword(c)
  PROVE  /\ engine.at = "up" /\ requests[c] = NoRequest /\ UNCHANGED <<admin, salt, smtp, engine>>
         /\ requests'[c].at = "upsert" /\ \A d \in Clients : d # c => requests'[d] = requests[d]
         /\ mailed'.typed = mailed.typed /\ mailed'.blank = mailed.blank
         /\ mailed'.changed = mailed.changed /\ mailed'.lost = mailed.lost
         /\ ~mailed'.crossed => ~mailed.crossed /\ Idle
<1>1. /\ admin \in Hashes /\ mailed \in Mailed /\ Fresh \in Nat
  BY DEF SmtpTypes, Mailed, Fresh
<1> DEFINE r == [NoRequest EXCEPT !.at = "upsert", !.old = admin.memory, !.new = Fresh]
           sofar == [mailed EXCEPT !.fresh = Fresh]
<1>2. r \in Request /\ r.at = "upsert"
  BY <1>1, NoRequestIsOne DEF Request, Hashes
<1>3. /\ sofar \in Mailed /\ sofar.typed = mailed.typed /\ sofar.blank = mailed.blank
      /\ sofar.changed = mailed.changed /\ sofar.lost = mailed.lost /\ sofar.crossed = mailed.crossed
  BY <1>1 DEF Mailed
<1>4. Requested(c, r, sofar) /\ UNCHANGED <<admin, salt, smtp, engine>>
  BY DEF ChangePassword
<1> HIDE DEF r, sofar
<1>5. QED
  BY <1>2, <1>3, <1>4, RequestBegins

\* A request that goes on: what the history keeps, and what it goes on to.
GoesOn(c) ==
    \/ WriteSmtp(c) \/ Reconfigure(c) \/ UpsertUser(c)
    \/ UpdatePassword(c) \/ ReEncrypt(c) \/ Rewrite(c)

\* A request that goes on belongs to a client that has one; it ends, or comes to a
\* later stage, and the others keep theirs.
LEMMA RequestGoesOn ==
  ASSUME SmtpTypes, NEW c \in Clients, GoesOn(c)
  PROVE  /\ requests[c].at # "none" /\ requests[c] # NoRequest
         /\ requests' \in [Clients -> Request]
         /\ \A d \in Clients : d # c => requests'[d] = requests[d]
         /\ requests'[c].at \in {"none", "configure", "update", "read", "rewrite"}
         /\ requests'[c].at = "none" => requests'[c] = NoRequest
         /\ requests'[c].at = "update" => UpsertUser(c) /\ requests'[c].new = requests[c].new
         /\ mailed'.lost = mailed.lost /\ mailed'.crossed = mailed.crossed
         /\ engine'.at = engine.at /\ salt' = salt
<1>1. /\ mailed \in Mailed /\ requests[c] \in Request
  BY DEF SmtpTypes
<1>2. Failed \in Mailed /\ Failed.lost = mailed.lost /\ Failed.crossed = mailed.crossed
  BY <1>1 DEF Failed, Mailed
<1>3. requests[c].at # "none" /\ requests[c] # NoRequest
  BY NoRequestIsOne DEF GoesOn, WriteSmtp, Reconfigure, UpsertUser, UpdatePassword, ReEncrypt, Rewrite
<1>4. ASSUME NEW r \in Request, requests' = [requests EXCEPT ![c] = r],
             r.at \in {"none", "configure", "update", "read", "rewrite"},
             r.at = "none" => r = NoRequest,
             r.at = "update" => UpsertUser(c) /\ r.new = requests[c].new
      PROVE  /\ requests' \in [Clients -> Request]
             /\ \A d \in Clients : d # c => requests'[d] = requests[d]
             /\ requests'[c].at \in {"none", "configure", "update", "read", "rewrite"}
             /\ requests'[c].at = "none" => requests'[c] = NoRequest
             /\ requests'[c].at = "update" => UpsertUser(c) /\ requests'[c].new = requests[c].new
  BY <1>4, OneClientMoves
<1>5. ASSUME NEW at \in {"configure", "update", "read"}, requests' = [requests EXCEPT ![c].at = at],
             at = "update" => UpsertUser(c)
      PROVE  \E r \in Request : /\ requests' = [requests EXCEPT ![c] = r]
                                /\ r.at = at /\ r.new = requests[c].new
  <2>1. [requests[c] EXCEPT !.at = at].at = at /\ [requests[c] EXCEPT !.at = at].new = requests[c].new
    BY <1>1 DEF Request
  <2>2. QED
    BY <1>5, <2>1, RequestMovesOn
<1>6. CASE WriteSmtp(c)
  <2>1. /\ mailed'.lost = mailed.lost /\ mailed'.crossed = mailed.crossed
        /\ engine' = engine /\ salt' = salt
    BY <1>1, <1>2, <1>6 DEF WriteSmtp, Mailed
  <2>2. \/ requests' = [requests EXCEPT ![c].at = "configure"]
        \/ requests' = [requests EXCEPT ![c] = NoRequest]
    BY <1>6 DEF WriteSmtp
  <2>3. QED
    BY <1>3, <1>4, <1>5, <2>1, <2>2, NoRequestIsOne
<1>7. CASE Reconfigure(c)
  <2>1. mailed'.lost = mailed.lost /\ mailed'.crossed = mailed.crossed /\ salt' = salt
    BY <1>1, <1>2, <1>7 DEF Reconfigure
  <2>2. engine'.at = engine.at
    BY <1>7, ConfigureKeepsTypes DEF Reconfigure, SmtpTypes
  <2>3. requests' = [requests EXCEPT ![c] = NoRequest]
    BY <1>7 DEF Reconfigure
  <2>4. QED
    BY <1>3, <1>4, <2>1, <2>2, <2>3, NoRequestIsOne
<1>8. CASE UpsertUser(c)
  <2>1. /\ mailed'.lost = mailed.lost /\ mailed'.crossed = mailed.crossed
        /\ engine' = engine /\ salt' = salt
    BY <1>1, <1>2, <1>8 DEF UpsertUser, Mailed
  <2>2. \/ requests' = [requests EXCEPT ![c].at = "update"]
        \/ requests' = [requests EXCEPT ![c] = NoRequest]
    BY <1>8 DEF UpsertUser
  <2>3. QED
    BY <1>3, <1>8, <1>4, <1>5, <2>1, <2>2, NoRequestIsOne
<1>9. CASE UpdatePassword(c)
  <2>1. mailed' = mailed /\ engine' = engine /\ salt' = salt
    BY <1>9 DEF UpdatePassword
  <2>2. requests' = [requests EXCEPT ![c].at = "read"]
    BY <1>9 DEF UpdatePassword
  <2>3. QED
    BY <1>3, <1>4, <1>5, <2>1, <2>2
<1>10. CASE ReEncrypt(c)
  <2> DEFINE q == Encrypt(smtp, DeriveEncryptionKey(requests[c].new))
             r == IF smtp = NoPassword THEN NoRequest
                  ELSE [requests[c] EXCEPT !.at = "rewrite", !.password = q]
  <2>1. requests[c].new \in Nat /\ smtp \in Secret
    BY <1>1 DEF Request, SmtpTypes
  <2>2. q \in Secret
    BY <2>1, KeysAreDerived, EncryptKeepsSecret
  <2>3. requests' = [requests EXCEPT ![c] = r] /\ UNCHANGED <<engine, salt, mailed>>
    BY <1>10 DEF ReEncrypt
  <2> HIDE DEF q
  <2>4. r \in Request /\ r.at \in {"none", "rewrite"} /\ (r.at = "none" => r = NoRequest)
    BY <1>1, <2>2, NoRequestIsOne DEF Request
  <2> HIDE DEF r
  <2>5. QED
    BY <1>3, <1>4, <2>3, <2>4
<1>11. CASE Rewrite(c)
  <2>1. /\ mailed'.lost = mailed.lost /\ mailed'.crossed = mailed.crossed
        /\ engine' = engine /\ salt' = salt
    BY <1>1, <1>2, <1>11 DEF Rewrite
  <2>2. requests' = [requests EXCEPT ![c] = NoRequest]
    BY <1>11 DEF Rewrite
  <2>3. QED
    BY <1>3, <1>4, <2>1, <2>2, NoRequestIsOne
<1>12. QED
  BY <1>6, <1>7, <1>8, <1>9, <1>10, <1>11 DEF GoesOn

\* What the start of the daemon makes of hash and salt, if none that was there was
\* lost: the hash is the stored one, or the first one; the salt is kept, or new.
LEMMA StoreStarts ==
  ASSUME SmtpTypes, StartStore
  PROVE  /\ engine.at = "down" /\ engine'.at = "starting" /\ UNCHANGED <<smtp, requests>>
         /\ mailed'.typed = mailed.typed /\ mailed'.blank = mailed.blank
         /\ mailed'.changed = mailed.changed /\ mailed'.crossed = mailed.crossed
         /\ ~mailed'.lost =>
               /\ ~mailed.lost
               /\ admin'.db = 0 \/ admin'.memory = admin'.db
               /\ admin.db \in {0, 1} => admin'.db \in {0, 1} /\ admin'.memory = 1
               /\ salt'.memory = salt'.db
               /\ salt'.db = salt.db \/ salt.db = 0
<1>1. admin \in Hashes /\ salt \in Hashes /\ mailed \in Mailed /\ engine \in Engine /\ Fresh \in Nat
  BY DEF SmtpTypes, Mailed, Fresh
<1>2. PICK read, stored, found, put \in BOOLEAN :
        /\ ~(read /\ stored /\ found /\ put) => MailFault
        /\ LET kept == read /\ salt.db # 0
               known == found /\ admin.db # 0
           IN /\ salt' = IF kept THEN [salt EXCEPT !.memory = salt.db]
                         ELSE IF stored THEN [db |-> Fresh, memory |-> Fresh]
                         ELSE [salt EXCEPT !.memory = 0]
              /\ admin' = IF known THEN [admin EXCEPT !.memory = admin.db]
                          ELSE [db |-> IF put THEN 1 ELSE admin.db, memory |-> 1]
              /\ mailed' = [mailed EXCEPT
                    !.fresh = IF kept THEN @ ELSE Fresh,
                    !.faults = IF read /\ stored /\ found /\ put THEN @ ELSE @ + 1,
                    !.lost = @ \/ (~read /\ salt.db # 0) \/ (~found /\ admin.db # 0)]
  BY Zenon DEF StartStore
<1> DEFINE lost == mailed.lost \/ (~read /\ salt.db # 0) \/ (~found /\ admin.db # 0)
           fresh == IF read /\ salt.db # 0 THEN mailed.fresh ELSE Fresh
           faults == IF read /\ stored /\ found /\ put THEN mailed.faults ELSE mailed.faults + 1
<1>3. mailed' = [mailed EXCEPT !.fresh = fresh, !.faults = faults, !.lost = lost]
  BY <1>2, Zenon
<1>4. ~lost => ~mailed.lost /\ (salt.db # 0 => read) /\ (admin.db # 0 => found)
  BY Zenon
<1>5. /\ mailed'.typed = mailed.typed /\ mailed'.blank = mailed.blank /\ mailed'.lost = lost
      /\ mailed'.changed = mailed.changed /\ mailed'.crossed = mailed.crossed
  <2> HIDE DEF lost, fresh, faults
  <2>1. QED
    BY <1>1, <1>3 DEF Mailed
<1> HIDE DEF lost
<1>6. engine.at = "down" /\ engine'.at = "starting" /\ UNCHANGED <<smtp, requests>>
  BY <1>1 DEF StartStore, Engine
<1>7. ASSUME ~mailed'.lost
      PROVE  /\ admin'.db = 0 \/ admin'.memory = admin'.db
             /\ admin.db \in {0, 1} => admin'.db \in {0, 1} /\ admin'.memory = 1
  <2>1. admin.db # 0 => found
    BY <1>4, <1>5, <1>7
  <2>2. admin' = IF found /\ admin.db # 0 THEN [admin EXCEPT !.memory = admin.db]
                 ELSE [db |-> IF put THEN 1 ELSE admin.db, memory |-> 1]
    BY <1>2, Zenon
  <2>3. CASE admin.db # 0
    BY <1>1, <2>1, <2>2, <2>3 DEF Hashes
  <2>4. CASE admin.db = 0
    BY <2>2, <2>4
  <2>5. QED
    BY <2>3, <2>4
<1>8. ASSUME ~mailed'.lost
      PROVE  salt'.memory = salt'.db /\ (salt'.db = salt.db \/ salt.db = 0)
  <2>1. salt.db # 0 => read
    BY <1>4, <1>5, <1>8
  <2>2. salt' = IF read /\ salt.db # 0 THEN [salt EXCEPT !.memory = salt.db]
                ELSE IF stored THEN [db |-> Fresh, memory |-> Fresh]
                ELSE [salt EXCEPT !.memory = 0]
    BY <1>2, Zenon
  <2>3. CASE salt.db # 0
    BY <1>1, <2>1, <2>2, <2>3 DEF Hashes
  <2>4. CASE salt.db = 0
    BY <1>1, <2>2, <2>4 DEF Hashes
  <2>5. QED
    BY <2>3, <2>4
<1>9. ~mailed'.lost => ~mailed.lost
  BY <1>4, <1>5
<1>10. QED
  BY <1>5, <1>6, <1>7, <1>8, <1>9

\* The steps of the system, those of a request that goes on taken together.
LEMMA SmtpStep ==
  ASSUME [SmtpNext]_smtpVars
  PROVE  \/ StartStore \/ StartEngine \/ StopDaemon
         \/ \E c \in Clients : SaveSmtp(c) \/ ChangePassword(c) \/ GoesOn(c)
         \/ UNCHANGED smtpVars
BY DEF SmtpNext, GoesOn

-----------------------------------------------------------------------------
(* The admin's password *)

\* As long as no request has crossed another one, at most one is at work.
LEMMA OneRequestKept ==
  ASSUME SmtpTypes, OneRequest, [SmtpNext]_smtpVars
  PROVE  OneRequest'
<1>1. CASE StartStore \/ StartEngine \/ StopDaemon
  <2>1. Idle'
    <3>1. CASE StopDaemon
      BY <3>1 DEF StopDaemon, Idle
    <3>2. CASE StartStore \/ StartEngine
      BY <3>2 DEF StartStore, StartEngine, OneRequest, Idle
    <3>3. QED
      BY <1>1, <3>1, <3>2
  <2>2. QED
    BY <2>1 DEF OneRequest, Idle
<1>2. ASSUME NEW c \in Clients, SaveSmtp(c) \/ ChangePassword(c)
      PROVE  OneRequest'
  <2>1. /\ engine.at = "up" /\ engine' = engine
        /\ \A d \in Clients : d # c => requests'[d] = requests[d]
        /\ ~mailed'.crossed => Idle
    BY <1>2, SaveBegins, ChangeBegins
  <2>2. QED
    BY <2>1 DEF OneRequest, Idle
<1>3. ASSUME NEW c \in Clients, GoesOn(c)
      PROVE  OneRequest'
  <2>1. /\ requests[c] # NoRequest /\ engine'.at = engine.at
        /\ \A d \in Clients : d # c => requests'[d] = requests[d]
        /\ mailed'.crossed = mailed.crossed
    BY <1>3, RequestGoesOn
  <2>2. QED
    BY <2>1 DEF OneRequest, Idle
<1>4. CASE UNCHANGED smtpVars
  BY <1>4 DEF smtpVars, OneRequest, Idle
<1>5. QED
  BY <1>1, <1>2, <1>3, <1>4, SmtpStep

\* Every step keeps the admin's hash in the database and in memory the same,
\* wherever a request has come to.
LEMMA AdminIsStoredKept ==
  ASSUME SmtpTypes, OneRequest, AdminIsStored, [SmtpNext]_smtpVars
  PROVE  AdminIsStored'
<1>1. admin \in Hashes /\ mailed \in Mailed /\ requests \in [Clients -> Request]
  BY DEF SmtpTypes
<1>2. CASE StartStore
  <2>1. ~mailed'.lost => admin'.db = 0 \/ admin'.memory = admin'.db
    BY <1>2, StoreStarts
  <2>2. Idle'
    BY <1>2 DEF StartStore, OneRequest, Idle
  <2>3. QED
    BY <2>1, <2>2, NoRequestIsOne DEF AdminIsStored, Idle
<1>3. CASE StartEngine
  <2>1. /\ UNCHANGED <<admin, requests>> /\ engine.at = "starting"
        /\ mailed'.lost = mailed.lost /\ mailed'.crossed = mailed.crossed
    BY <1>1, <1>3 DEF StartEngine, Failed, Mailed
  <2>2. QED
    BY <2>1 DEF AdminIsStored
<1>4. CASE StopDaemon
  <2>1. Idle' /\ engine'.at = "down"
    BY <1>4 DEF StopDaemon, Idle
  <2>2. QED
    BY <2>1, NoRequestIsOne DEF AdminIsStored, Idle
<1>5. ASSUME NEW c \in Clients, SaveSmtp(c) \/ ChangePassword(c)
      PROVE  AdminIsStored'
  <2>1. /\ UNCHANGED <<admin, engine>>
        /\ requests[c] = NoRequest /\ requests'[c].at \in {"save", "upsert"}
        /\ \A d \in Clients : d # c => requests'[d] = requests[d]
        /\ mailed'.lost = mailed.lost /\ (~mailed'.crossed => ~mailed.crossed)
    BY <1>5, SaveBegins, ChangeBegins
  <2>2. \A d \in Clients : requests'[d].at = "update" => requests'[d] = requests[d]
    BY <2>1
  <2>3. \A d \in Clients : requests[d].at = "update" => requests'[d] = requests[d]
    BY <2>1, NoRequestIsOne
  <2>4. QED
    BY <2>1, <2>2, <2>3 DEF AdminIsStored
<1>6. ASSUME NEW c \in Clients, GoesOn(c)
      PROVE  AdminIsStored'
  <2>1. /\ requests[c] # NoRequest /\ requests[c].at # "none"
        /\ \A d \in Clients : d # c => requests'[d] = requests[d]
        /\ requests'[c].at = "update" => UpsertUser(c) /\ requests'[c].new = requests[c].new
        /\ mailed'.lost = mailed.lost /\ mailed'.crossed = mailed.crossed
        /\ engine'.at = engine.at
    BY <1>6, RequestGoesOn
  <2> SUFFICES ASSUME ~mailed.crossed, ~mailed.lost
               PROVE  AdminIsStored'
    BY <2>1 DEF AdminIsStored
  <2>2. \A d \in Clients : d # c => requests[d] = NoRequest /\ requests'[d].at = "none"
    BY <2>1, NoRequestIsOne DEF OneRequest
  <2>3. CASE UpsertUser(c) /\ requests'[c].at = "update"
    <3>1. admin'.db = requests[c].new \/ admin' = admin
      BY <1>1, <2>3 DEF UpsertUser, Hashes
    <3>2. CASE admin'.db = requests[c].new
      BY <2>1, <2>2, <2>3, <3>2 DEF AdminIsStored
    <3>3. CASE requests' = [requests EXCEPT ![c] = NoRequest]
      BY <2>3, <3>3, OneClientMoves, NoRequestIsOne
    <3>4. QED
      BY <1>1, <2>3, <3>2, <3>3 DEF UpsertUser, Hashes
  <2>4. CASE UpsertUser(c) /\ requests'[c].at # "update"
    <3>1. requests[c].at = "upsert"
      BY <2>4 DEF UpsertUser
    <3>2. admin' = admin
      <4>1. CASE requests' = [requests EXCEPT ![c].at = "update"]
        BY <1>1, <2>4, <4>1 DEF Request
      <4>2. QED
        BY <2>4, <4>1 DEF UpsertUser
    <3>3. QED
      BY <2>1, <2>2, <2>4, <3>1, <3>2, NoRequestIsOne DEF AdminIsStored
  <2>5. CASE UpdatePassword(c)
    <3>1. admin'.memory = requests[c].new /\ admin'.db = admin.db /\ requests[c].at = "update"
      BY <1>1, <2>5 DEF UpdatePassword, Hashes
    <3>2. admin.db = requests[c].new
      BY <3>1 DEF AdminIsStored
    <3>3. requests'[c].at = "read"
      BY <1>1, <2>5 DEF UpdatePassword, Request
    <3>4. QED
      BY <2>2, <3>1, <3>2, <3>3 DEF AdminIsStored
  <2>6. CASE WriteSmtp(c) \/ Reconfigure(c) \/ ReEncrypt(c) \/ Rewrite(c)
    <3>1. admin' = admin /\ requests[c].at # "update" /\ ~UpsertUser(c)
      BY <2>6 DEF WriteSmtp, Reconfigure, ReEncrypt, Rewrite, UpsertUser
    <3>2. requests'[c].at # "update"
      BY <2>1, <3>1
    <3>3. QED
      BY <2>1, <2>2, <3>1, <3>2, NoRequestIsOne DEF AdminIsStored
  <2>7. QED
    BY <1>6, <2>3, <2>4, <2>5, <2>6 DEF GoesOn
<1>7. CASE UNCHANGED smtpVars
  BY <1>7 DEF smtpVars, AdminIsStored
<1>8. QED
  BY <1>2, <1>3, <1>4, <1>5, <1>6, <1>7, SmtpStep

\* The invariant that AdminKeepsPassword follows from.
LEMMA AdminInvariant == SmtpSpec => [](SmtpTypes /\ OneRequest /\ AdminIsStored)
<1>1. SmtpInit => OneRequest /\ AdminIsStored
  BY NoRequestIsOne DEF SmtpInit, OneRequest, AdminIsStored, Idle
<1>2. SmtpTypes /\ OneRequest /\ AdminIsStored /\ [SmtpNext]_smtpVars
        => (SmtpTypes /\ OneRequest /\ AdminIsStored)'
  BY SmtpTypesPreserved, OneRequestKept, AdminIsStoredKept
<1>3. QED
  BY <1>1, <1>2, InitSmtpTypes, PTL DEF SmtpSpec

\* The password that lets the admin in does so after any restart, whatever failed
\* between the two writes of a change and whenever the daemon crashed, but for
\* changes that overlapped and hashes that could not be read.
THEOREM AdminAlwaysKeepsPassword == SmtpSpec => []AdminKeepsPassword
<1>1. OneRequest /\ AdminIsStored => AdminKeepsPassword
  BY NoRequestIsOne DEF AdminIsStored, AdminKeepsPassword, Idle
<1>2. QED
  BY <1>1, AdminInvariant, PTL

-----------------------------------------------------------------------------
(* The password of the mail server *)

\* Nothing happened that the property excepts.
Untroubled == ~mailed.crossed /\ ~mailed.lost /\ ~mailed.changed

\* The admin's first hash is in use, the salt is the stored one, and so are the
\* keys of the engine; nobody re-encrypts.
KeysOfFirstHash ==
    Untroubled =>
       /\ admin.db \in {0, 1}
       /\ engine.at # "down" => admin.memory = 1 /\ salt.memory = salt.db
       /\ engine.at = "up" => engine.key = <<1, salt.memory>> /\ engine.legacy = <<1, 0>>
       /\ \A c \in Clients : requests[c].at \notin {"update", "read", "rewrite"}

\* The password on its way to the setting, in the setting, and in the mailer.
PasswordOnItsWay ==
    Untroubled => \A c \in Clients :
       requests[c].at = "save" =>
          \/ requests[c].new = 0 /\ mailed.blank
          \/ requests[c].new # 0 /\ requests[c].password = Sealed(requests[c].new, <<1, salt.memory>>)

PasswordIsSealed ==
    Untroubled /\ ~mailed.blank =>
       \/ mailed.typed = 0 /\ smtp = NoPassword
       \/ smtp \in {Sealed(mailed.typed, <<1, 0>>), Sealed(mailed.typed, <<1, salt.db>>)}

PasswordIsPresented ==
    Untroubled /\ ~mailed.blank /\ engine.at = "up" /\ (\A c \in Clients : requests[c].at # "configure")
       => engine.mailer = Text(mailed.typed)

PasswordInv ==
    SmtpTypes /\ OneRequest /\ KeysOfFirstHash /\ PasswordOnItsWay /\ PasswordIsSealed /\ PasswordIsPresented

\* An engine with the keys of now gets at the password that was typed, and saves
\* it again with a key that it has.
LEMMA EngineOpensSealed ==
  ASSUME NEW e \in Engine, NEW t \in Nat, NEW s \in Nat, NEW p,
         e.key = <<1, s>>, e.legacy = <<1, 0>>,
         \/ t = 0 /\ p = NoPassword
         \/ p \in {Sealed(t, <<1, 0>>), Sealed(t, <<1, s>>)}
  PROVE  /\ ConfigureSMTP(e, p).mailer = Text(t)
         /\ Migrated(e, p) \in {p, Sealed(t, <<1, s>>)}
<1>1. ASSUME NEW q PROVE [e EXCEPT !.mailer = q].mailer = q
  BY DEF Engine
<1>2. CASE t = 0 /\ p = NoPassword
  <2>1. \A k : ~Decrypts(NoPassword, k)
    BY DEF Decrypts, NoPassword, Text
  <2>2. ConfigureSMTP(e, p) = [e EXCEPT !.mailer = p] /\ Migrated(e, p) = p
    BY <1>2, <2>1 DEF ConfigureSMTP, Migrated
  <2>3. p = Text(t)
    BY <1>2 DEF NoPassword
  <2>4. QED
    BY <1>1, <2>2, <2>3
<1>3. ASSUME NEW k \in {e.key, e.legacy}, p = Sealed(t, k)
      PROVE  /\ ConfigureSMTP(e, p).mailer = Text(t)
             /\ Migrated(e, p) \in {p, Sealed(t, e.key)}
  <2>1. Decrypt(p) = Text(t) /\ (Decrypts(p, e.key) \/ Decrypts(p, e.legacy))
    BY <1>3, DecryptSealed
  <2>2. ConfigureSMTP(e, p) = [e EXCEPT !.mailer = Text(t)]
    BY <2>1 DEF ConfigureSMTP
  <2>3. Migrated(e, p) \in {p, Encrypt(Text(t), e.key)}
    BY <2>1 DEF Migrated
  <2>4. QED
    BY <1>1, <2>2, <2>3, EncryptText
<1>4. QED
  BY <1>2, <1>3

\* The start of the store, of the engine, and the stop of the daemon keep the
\* password that was typed within reach of the engine.
LEMMA PasswordStarts ==
  ASSUME PasswordInv, StartStore \/ StartEngine \/ StopDaemon, SmtpTypes', OneRequest'
  PROVE  PasswordInv'
<1>1. /\ mailed \in Mailed /\ engine \in Engine /\ admin \in Hashes /\ salt \in Hashes /\ smtp \in Secret
  BY DEF PasswordInv, SmtpTypes
<1>2. CASE StartStore
  <2>1. Untroubled' => Untroubled
    BY <1>2, StoreStarts DEF Untroubled, PasswordInv
  <2> SUFFICES ASSUME Untroubled' PROVE PasswordInv'
    BY DEF PasswordInv, KeysOfFirstHash, PasswordOnItsWay, PasswordIsSealed, PasswordIsPresented
  <2>2. /\ engine.at = "down" /\ engine'.at = "starting" /\ UNCHANGED <<smtp, requests>>
        /\ mailed'.typed = mailed.typed /\ mailed'.blank = mailed.blank
        /\ admin.db \in {0, 1} => admin'.db \in {0, 1} /\ admin'.memory = 1
        /\ salt'.memory = salt'.db
        /\ salt'.db = salt.db \/ salt.db = 0
    BY <1>2, StoreStarts DEF Untroubled, PasswordInv
  <2>3. \A c \in Clients : requests[c].at = "none"
    BY <2>2, NoRequestIsOne DEF PasswordInv, OneRequest, Idle
  <2>4. KeysOfFirstHash' /\ PasswordOnItsWay' /\ PasswordIsPresented'
    BY <2>1, <2>2, <2>3 DEF PasswordInv, KeysOfFirstHash, PasswordOnItsWay, PasswordIsPresented
  <2>5. PasswordIsSealed'
    BY <2>1, <2>2 DEF PasswordInv, PasswordIsSealed
  <2>6. QED
    BY <2>4, <2>5 DEF PasswordInv
<1>3. CASE StartEngine
  <2> DEFINE key == DeriveEncryptionKey(admin.memory)
             legacy == DeriveLegacyEncryptionKey(admin.memory)
             e == [engine EXCEPT !.at = "up", !.key = key, !.legacy = legacy]
  <2>1. /\ engine.at = "starting" /\ engine' = ConfigureSMTP(e, smtp)
        /\ smtp' \in {smtp, Migrated(e, smtp)} /\ UNCHANGED <<admin, salt, requests>>
        /\ mailed' \in {mailed, Failed}
    BY <1>3 DEF StartEngine
  <2>2. /\ mailed'.typed = mailed.typed /\ mailed'.blank = mailed.blank
        /\ mailed'.lost = mailed.lost /\ mailed'.changed = mailed.changed
        /\ mailed'.crossed = mailed.crossed
    BY <1>1, <2>1 DEF Failed, Mailed
  <2> SUFFICES ASSUME Untroubled, Untroubled' PROVE PasswordInv'
    BY <2>2 DEF Untroubled, PasswordInv, KeysOfFirstHash, PasswordOnItsWay, PasswordIsSealed,
                PasswordIsPresented
  <2>3. admin.memory = 1 /\ salt.memory = salt.db /\ salt.db \in Nat
    BY <1>1, <2>1 DEF PasswordInv, KeysOfFirstHash, Hashes
  <2>4. key = <<1, salt.memory>> /\ legacy = <<1, 0>>
    BY <2>3 DEF DeriveEncryptionKey, DeriveLegacyEncryptionKey
  <2>5. key \in Keys /\ legacy \in Keys
    BY <2>3, KeysAreDerived DEF PasswordInv
  <2> HIDE DEF key, legacy
  <2>6. /\ e \in Engine /\ e.key = <<1, salt.memory>> /\ e.legacy = <<1, 0>> /\ e.at = "up"
    BY <1>1, <2>4, <2>5 DEF Engine
  <2> HIDE DEF e
  <2>7. engine'.at = "up" /\ engine'.key = <<1, salt.memory>> /\ engine'.legacy = <<1, 0>>
    BY <1>1, <2>1, <2>6, ConfigureKeepsTypes
  <2>8. \A c \in Clients : requests[c].at = "none"
    BY <2>1, NoRequestIsOne DEF PasswordInv, OneRequest, Idle
  <2>9. KeysOfFirstHash' /\ PasswordOnItsWay'
    BY <2>1, <2>3, <2>7, <2>8 DEF PasswordInv, KeysOfFirstHash, PasswordOnItsWay
  <2>10. ASSUME ~mailed.blank
        PROVE  /\ engine'.mailer = Text(mailed.typed)
               /\ \/ mailed.typed = 0 /\ smtp' = NoPassword
                  \/ smtp' \in {Sealed(mailed.typed, <<1, 0>>), Sealed(mailed.typed, <<1, salt.db>>)}
    <3>1. \/ mailed.typed = 0 /\ smtp = NoPassword
          \/ smtp \in {Sealed(mailed.typed, <<1, 0>>), Sealed(mailed.typed, <<1, salt.db>>)}
      BY <2>10 DEF PasswordInv, PasswordIsSealed
    <3>2. mailed.typed \in Nat
      BY <1>1 DEF Mailed
    <3>3. /\ ConfigureSMTP(e, smtp).mailer = Text(mailed.typed)
          /\ Migrated(e, smtp) \in {smtp, Sealed(mailed.typed, <<1, salt.db>>)}
      BY <2>3, <2>6, <3>1, <3>2, EngineOpensSealed
    <3>4. QED
      BY <2>1, <3>1, <3>3
  <2>11. QED
    BY <2>1, <2>2, <2>9, <2>10 DEF PasswordInv, PasswordIsSealed, PasswordIsPresented
<1>4. CASE StopDaemon
  <2>1. /\ engine'.at = "down" /\ smtp' = smtp /\ \A c \in Clients : requests'[c] = NoRequest
    BY <1>4 DEF StopDaemon
  <2>2. admin'.db = admin.db /\ salt'.db = salt.db
    BY <1>1, <1>4 DEF StopDaemon, Hashes
  <2>3. /\ mailed'.typed = mailed.typed /\ mailed'.blank = mailed.blank
        /\ mailed'.lost = mailed.lost /\ mailed'.changed = mailed.changed
        /\ mailed'.crossed = mailed.crossed
    BY <1>1, <1>4 DEF StopDaemon, Failed, Mailed
  <2>4. QED
    BY <2>1, <2>2, <2>3, NoRequestIsOne
       DEF Untroubled, PasswordInv, KeysOfFirstHash, PasswordOnItsWay, PasswordIsSealed,
           PasswordIsPresented
<1>5. QED
  BY <1>2, <1>3, <1>4

\* A request that begins keeps it, and carries a password sealed with the key of now.
LEMMA PasswordRequested ==
  ASSUME PasswordInv, NEW c \in Clients, SaveSmtp(c) \/ ChangePassword(c), SmtpTypes', OneRequest'
  PROVE  PasswordInv'
<1>1. /\ engine.at = "up" /\ requests[c] = NoRequest /\ UNCHANGED <<admin, salt, smtp, engine>>
      /\ requests'[c].at \in {"save", "upsert"}
      /\ \A d \in Clients : d # c => requests'[d] = requests[d]
      /\ mailed'.typed = mailed.typed /\ (mailed.blank => mailed'.blank)
      /\ mailed'.changed = mailed.changed /\ mailed'.lost = mailed.lost
      /\ ~mailed'.crossed => ~mailed.crossed /\ Idle
  BY SaveBegins, ChangeBegins DEF PasswordInv
<1> SUFFICES ASSUME Untroubled' PROVE PasswordInv'
  BY DEF PasswordInv, KeysOfFirstHash, PasswordOnItsWay, PasswordIsSealed, PasswordIsPresented
<1>2. Untroubled /\ \A d \in Clients : requests[d].at = "none"
  BY <1>1, NoRequestIsOne DEF Untroubled, Idle
<1>3. \A d \in Clients : d # c => requests'[d].at = "none"
  BY <1>1, <1>2
<1>4. KeysOfFirstHash' /\ PasswordIsSealed'
  BY <1>1, <1>2, <1>3 DEF PasswordInv, KeysOfFirstHash, PasswordIsSealed
<1>5. PasswordIsPresented'
  BY <1>1, <1>2, <1>3 DEF PasswordInv, PasswordIsPresented
<1>6. PasswordOnItsWay'
  <2>1. CASE SaveSmtp(c)
    <3>1. \/ requests'[c].new = 0 /\ mailed'.blank
          \/ /\ requests'[c].new # 0
             /\ requests'[c].password = Sealed(requests'[c].new, DeriveEncryptionKey(admin.memory))
      BY <2>1, SaveBegins DEF PasswordInv
    <3>2. DeriveEncryptionKey(admin.memory) = <<1, salt.memory>>
      BY <1>1, <1>2 DEF PasswordInv, KeysOfFirstHash, DeriveEncryptionKey
    <3>3. QED
      BY <1>1, <1>3, <3>1, <3>2 DEF PasswordOnItsWay
  <2>2. CASE ChangePassword(c)
    BY <1>3, <2>2, ChangeBegins DEF PasswordInv, PasswordOnItsWay
  <2>3. QED
    BY <2>1, <2>2
<1>7. QED
  BY <1>4, <1>5, <1>6 DEF PasswordInv

\* A request that goes on brings it to the setting, and from there to the mailer.
LEMMA PasswordGoesOn ==
  ASSUME PasswordInv, NEW c \in Clients, GoesOn(c), SmtpTypes', OneRequest'
  PROVE  PasswordInv'
<1>1. /\ mailed \in Mailed /\ engine \in Engine /\ smtp \in Secret /\ requests[c] \in Request
      /\ admin \in Hashes /\ requests \in [Clients -> Request]
      /\ Failed.typed = mailed.typed /\ Failed.blank = mailed.blank
      /\ Failed.changed = mailed.changed
  BY DEF PasswordInv, SmtpTypes, Failed, Mailed
<1>2. /\ requests[c].at # "none" /\ requests[c] # NoRequest
      /\ \A d \in Clients : d # c => requests'[d] = requests[d]
      /\ requests'[c].at \in {"none", "configure", "update", "read", "rewrite"}
      /\ requests'[c].at = "update" => UpsertUser(c)
      /\ mailed'.lost = mailed.lost /\ mailed'.crossed = mailed.crossed
      /\ engine'.at = engine.at /\ salt' = salt
  BY RequestGoesOn DEF PasswordInv
<1> SUFFICES ASSUME Untroubled' PROVE PasswordInv'
  BY DEF PasswordInv, KeysOfFirstHash, PasswordOnItsWay, PasswordIsSealed, PasswordIsPresented
<1>3. ~mailed.crossed /\ ~mailed.lost /\ ~mailed'.changed
  BY <1>2 DEF Untroubled
<1>4. \A d \in Clients : d # c => requests[d] = NoRequest /\ requests'[d].at = "none"
  BY <1>2, <1>3, NoRequestIsOne DEF PasswordInv, OneRequest
<1>5. engine.at = "up"
  BY <1>2 DEF PasswordInv, OneRequest, Idle
<1>6. CASE WriteSmtp(c)
  <2>1. /\ requests[c].at = "save" /\ UNCHANGED <<admin, salt, engine>>
        /\ \/ /\ smtp' = requests[c].password
              /\ requests' = [requests EXCEPT ![c].at = "configure"]
              /\ mailed' = IF requests[c].new = 0 THEN mailed
                           ELSE [mailed EXCEPT !.typed = requests[c].new, !.blank = FALSE]
           \/ /\ requests' = [requests EXCEPT ![c] = NoRequest]
              /\ mailed' = Failed /\ UNCHANGED smtp
    BY <1>6 DEF WriteSmtp
  <2>2. mailed'.changed = mailed.changed
    BY <1>1, <2>1 DEF Mailed
  <2>3. Untroubled
    BY <1>3, <2>2 DEF Untroubled
  <2>4. \/ requests[c].new = 0 /\ mailed.blank
        \/ requests[c].new # 0 /\ requests[c].password = Sealed(requests[c].new, <<1, salt.memory>>)
    BY <2>1, <2>3 DEF PasswordInv, PasswordOnItsWay
  <2>5. CASE /\ smtp' = requests[c].password
             /\ requests' = [requests EXCEPT ![c].at = "configure"]
             /\ mailed' = IF requests[c].new = 0 THEN mailed
                          ELSE [mailed EXCEPT !.typed = requests[c].new, !.blank = FALSE]
    <3>1. requests'[c].at = "configure"
      BY <1>1, <2>5 DEF Request
    <3>2. KeysOfFirstHash' /\ PasswordOnItsWay' /\ PasswordIsPresented'
      BY <1>4, <2>1, <2>3, <3>1
         DEF PasswordInv, KeysOfFirstHash, PasswordOnItsWay, PasswordIsPresented
    <3>3. ~mailed'.blank => requests[c].new # 0 /\ mailed'.typed = requests[c].new
      BY <1>1, <2>4, <2>5 DEF Mailed
    <3>4. salt.memory = salt.db
      BY <1>5, <2>3 DEF PasswordInv, KeysOfFirstHash
    <3>5. PasswordIsSealed'
      BY <2>1, <2>4, <2>5, <3>3, <3>4 DEF PasswordIsSealed
    <3>6. QED
      BY <3>2, <3>5 DEF PasswordInv
  <2>6. CASE /\ requests' = [requests EXCEPT ![c] = NoRequest]
             /\ mailed' = Failed /\ UNCHANGED smtp
    <3>1. requests'[c] = NoRequest
      BY <1>1, <2>6
    <3>2. \A d \in Clients : requests'[d].at = "none" /\ requests[d].at # "configure"
      BY <1>4, <2>1, <3>1, NoRequestIsOne
    <3>3. QED
      BY <1>1, <2>1, <2>3, <2>6, <3>2
         DEF PasswordInv, KeysOfFirstHash, PasswordOnItsWay, PasswordIsSealed, PasswordIsPresented
  <2>7. QED
    BY <2>1, <2>5, <2>6
<1>7. CASE Reconfigure(c)
  <2>1. /\ requests[c].at = "configure" /\ UNCHANGED <<admin, salt>>
        /\ engine' = ConfigureSMTP(engine, smtp) /\ smtp' \in {smtp, Migrated(engine, smtp)}
        /\ mailed' \in {mailed, Failed} /\ requests' = [requests EXCEPT ![c] = NoRequest]
    BY <1>7 DEF Reconfigure
  <2>2. /\ mailed'.typed = mailed.typed /\ mailed'.blank = mailed.blank
        /\ mailed'.changed = mailed.changed
    BY <1>1, <2>1
  <2>3. Untroubled
    BY <1>3, <2>2 DEF Untroubled
  <2>4. /\ engine.key = <<1, salt.memory>> /\ engine.legacy = <<1, 0>> /\ salt.memory = salt.db
    BY <1>5, <2>3 DEF PasswordInv, KeysOfFirstHash
  <2>5. engine'.key = engine.key /\ engine'.legacy = engine.legacy
    BY <1>1, <2>1, ConfigureKeepsTypes
  <2>6. \A d \in Clients : requests'[d].at = "none"
    BY <1>1, <1>4, <2>1, NoRequestIsOne
  <2>7. KeysOfFirstHash' /\ PasswordOnItsWay'
    BY <1>2, <2>1, <2>3, <2>5, <2>6 DEF PasswordInv, KeysOfFirstHash, PasswordOnItsWay
  <2>8. ASSUME ~mailed.blank
        PROVE  /\ engine'.mailer = Text(mailed.typed)
               /\ \/ mailed.typed = 0 /\ smtp' = NoPassword
                  \/ smtp' \in {Sealed(mailed.typed, <<1, 0>>), Sealed(mailed.typed, <<1, salt.db>>)}
    <3>1. \/ mailed.typed = 0 /\ smtp = NoPassword
          \/ smtp \in {Sealed(mailed.typed, <<1, 0>>), Sealed(mailed.typed, <<1, salt.db>>)}
      BY <2>3, <2>8 DEF PasswordInv, PasswordIsSealed
    <3>2. mailed.typed \in Nat /\ salt.db \in Nat
      BY <1>1 DEF Mailed, PasswordInv, SmtpTypes, Hashes
    <3>3. /\ ConfigureSMTP(engine, smtp).mailer = Text(mailed.typed)
          /\ Migrated(engine, smtp) \in {smtp, Sealed(mailed.typed, <<1, salt.db>>)}
      BY <1>1, <2>4, <3>1, <3>2, EngineOpensSealed
    <3>4. QED
      BY <2>1, <3>1, <3>3
  <2>9. QED
    BY <2>1, <2>2, <2>7, <2>8 DEF PasswordInv, PasswordIsSealed, PasswordIsPresented
<1>8. CASE UpsertUser(c)
  <2>1. /\ requests[c].at = "upsert" /\ UNCHANGED <<salt, smtp, engine>>
        /\ \/ mailed' = [mailed EXCEPT !.changed = TRUE]
           \/ /\ requests' = [requests EXCEPT ![c] = NoRequest]
              /\ mailed' = Failed /\ UNCHANGED admin
    BY <1>8 DEF UpsertUser
  <2>2. /\ requests' = [requests EXCEPT ![c] = NoRequest]
        /\ mailed' = Failed /\ UNCHANGED admin
    BY <1>1, <1>3, <2>1 DEF Mailed
  <2>3. Untroubled
    BY <1>1, <1>3, <2>2 DEF Untroubled
  <2>4. \A d \in Clients : requests'[d].at = "none" /\ requests[d].at # "configure"
    BY <1>1, <1>4, <2>1, <2>2, NoRequestIsOne
  <2>5. QED
    BY <1>1, <2>1, <2>2, <2>3, <2>4
       DEF PasswordInv, KeysOfFirstHash, PasswordOnItsWay, PasswordIsSealed, PasswordIsPresented
\* There was no change of the admin's password.
<1>9. CASE UpdatePassword(c) \/ ReEncrypt(c) \/ Rewrite(c)
  <2>1. requests[c].at \in {"update", "read", "rewrite"} /\ mailed'.changed = mailed.changed
    BY <1>1, <1>9 DEF UpdatePassword, ReEncrypt, Rewrite
  <2>2. Untroubled
    BY <1>3, <2>1 DEF Untroubled
  <2>3. QED
    BY <2>1, <2>2 DEF PasswordInv, KeysOfFirstHash
<1>10. QED
  BY <1>6, <1>7, <1>8, <1>9 DEF GoesOn

\* A password that was typed in and saved is the one the mailer presents, then and
\* after any restarts, with or without a salt at each of them, until a save leaves
\* it blank or the admin's password is changed, but for what could not be read and
\* for requests that overlapped.
THEOREM TypedPasswordIsAlwaysPresented == SmtpSpec => []TypedPasswordIsPresented
<1>1. SmtpInit => PasswordInv
  <2> SUFFICES ASSUME SmtpInit PROVE PasswordInv
    OBVIOUS
  <2>1. SmtpTypes /\ OneRequest
    BY InitSmtpTypes DEF SmtpInit, OneRequest, Idle
  <2>2. QED
    BY <2>1, NoRequestIsOne DEF SmtpInit, PasswordInv, KeysOfFirstHash, PasswordOnItsWay,
                                PasswordIsSealed, PasswordIsPresented
<1>2. PasswordInv /\ [SmtpNext]_smtpVars => PasswordInv'
  <2> SUFFICES ASSUME PasswordInv, [SmtpNext]_smtpVars PROVE PasswordInv'
    OBVIOUS
  <2>1. SmtpTypes' /\ OneRequest'
    BY SmtpTypesPreserved, OneRequestKept DEF PasswordInv
  <2>2. CASE UNCHANGED smtpVars
    BY <2>1, <2>2 DEF smtpVars, PasswordInv, KeysOfFirstHash, PasswordOnItsWay, PasswordIsSealed,
                      PasswordIsPresented, Untroubled
  <2>3. QED
    BY <2>1, <2>2, SmtpStep, PasswordStarts, PasswordRequested, PasswordGoesOn
<1>3. PasswordInv => TypedPasswordIsPresented
  BY NoRequestIsOne DEF PasswordInv, PasswordIsPresented, TypedPasswordIsPresented, Presented,
                        Untroubled, Idle
<1>4. QED
  BY <1>1, <1>2, <1>3, PTL DEF SmtpSpec

-----------------------------------------------------------------------------
(***************************************************************************)
(* The profiles of Codex.  That an identity has one row is kept by looking *)
(* a row up by identity before anything is written.  It is inductive for   *)
(* the table as a whole, deleted rows included, together with the names,   *)
(* of which each has one row: a command that found none writes the first   *)
(* row of the identity, or the one of its own name, unless the history of  *)
(* the race says that another name got one meanwhile; no other write gives *)
(* a row an identity that it had not.                                      *)
(***************************************************************************)

\* A row, what is read of one, a command, and the agents and the manager.
AccountRow == [name : Names, external : Identities \cup {NoIdentity}, deleted : BOOLEAN]
RowRead == [id : Nat, name : Names, deleted : BOOLEAN]
ProfileCommand == [op : {"none", "save", "delete"}, name : Names,
                   identity : Identities \cup {NoIdentity}, looked : BOOLEAN, row : RowRead]
ProfileAgent == [identity : Identities \cup {NoIdentity}, row : Nat]
ProfileAgents == [map : [Names -> ProfileAgent], ending : [Names -> Nat],
                  forgotten : SUBSET ProfileAgent,
                  refreshing : SUBSET (Names \X Identities), written : SUBSET Names,
                  missed : SUBSET Names]

\* A file in hand; an agent is started for an account only.
ProfileHand ==
    {h \in [at : {"none", "read", "start", "remember"}, op : {"none", "load", "scan"},
            name : Names, identity : Identities \cup {NoIdentity}, changed : BOOLEAN] :
       h.at = "start" => h.identity \in Identities}
ProfileManager == [at : {"down", "load", "up"}, todo : SUBSET Names, hand : ProfileHand,
                   edits : Nat, faults : Nat, raced : BOOLEAN]

\* Every agent has a row.
AgentsHaveRows(as, rs) == \A n \in Names : as.map[n] = NoAgent \/ as.map[n].row \in DOMAIN rs

\* A name has one row, as the table's UNIQUE(provider, name) demands: no write of
\* the code goes against it, and none is refused for it.
DistinctNames(rs) == \A i, j \in DOMAIN rs : rs[i].name = rs[j].name => i = j

ProfileTypes ==
    /\ files \in [Names -> Identities \cup {NoIdentity}]
    /\ rows \in Seq(AccountRow) /\ DistinctNames(rows)
    /\ scans \in [known : SUBSET Names, newer : SUBSET Names]
    /\ agents \in ProfileAgents /\ AgentsHaveRows(agents, rows)
    /\ command \in ProfileCommand
    /\ command.op = "save" => command.identity \in Identities
    /\ command.row # NoRow => command.row.id \in DOMAIN rows
    /\ manager \in ProfileManager

\* Each identity has one row at most, deleted or not.
OneRowEach(rs) == \A x \in Identities : \A i, j \in RowsOf(rs, x) : i = j

\* What is done to the table leaves it with one row for each name and identity.
Keeps(rs, rt) ==
    /\ DistinctNames(rs) => DistinctNames(rt)
    /\ DistinctNames(rs) /\ OneRowEach(rs) => OneRowEach(rt)

\* The rows keep their identities; there may be more of them, without one.
Enlarges(rs, rt) ==
    /\ rt \in Seq(AccountRow) /\ Len(rs) <= Len(rt)
    /\ \A i \in DOMAIN rt : rt[i].external = IF i \in DOMAIN rs THEN rs[i].external
                                             ELSE NoIdentity

LEMMA ProfileConstants ==
    /\ "default" \in Names
    /\ NoIdentity \notin Identities
    /\ NoRow \in RowRead /\ NoRow.id = 0
    /\ NoAgent \in ProfileAgent
    /\ NoCommand \in ProfileCommand /\ NoCommand.op = "none" /\ NoCommand.row = NoRow
    /\ NoHand \in ProfileHand
    /\ NoAgents \in ProfileAgents /\ \A n \in Names : NoAgents.map[n] = NoAgent
<1>1. "default" \in Names /\ NoIdentity \notin Identities
  BY ProfilesAssumption DEF NoIdentity
<1>2. NoRow \in RowRead /\ NoRow.id = 0
  BY <1>1 DEF NoRow, RowRead
<1>3. NoAgent \in ProfileAgent
  BY DEF NoAgent, ProfileAgent
<1>4. NoCommand \in ProfileCommand /\ NoCommand.op = "none" /\ NoCommand.row = NoRow
  <2> HIDE DEF NoRow
  <2> QED BY <1>1, <1>2 DEF NoCommand, ProfileCommand
<1>5. NoHand \in ProfileHand
  BY <1>1 DEF NoHand, ProfileHand
<1>6. NoAgents \in ProfileAgents /\ \A n \in Names : NoAgents.map[n] = NoAgent
  <2> HIDE DEF NoAgent
  <2> QED BY <1>3 DEF NoAgents, ProfileAgents
<1> QED BY <1>1, <1>2, <1>3, <1>4, <1>5, <1>6

\* The order of the naturals is well-founded: a set of ids has a lowest.
ProfileIdsBelow == {p \in Nat \X Nat : p[1] < p[2]}

LEMMA LowestIsMember ==
    ASSUME NEW ids \in SUBSET Nat, ids # {}
    PROVE  Lowest(ids) \in ids
<1>1. IsWellFoundedOn(ProfileIdsBelow, Nat)
  BY NatLessThanWellFounded DEF OpToRel, ProfileIdsBelow
<1>2. PICK id \in ids : \A other \in ids : ~(<<other, id>> \in ProfileIdsBelow)
  BY <1>1, WFMin
<1>3. \A other \in ids : id <= other
  <2> TAKE other \in ids
  <2>1. id \in Nat /\ other \in Nat
    OBVIOUS
  <2>2. ~(<<other, id>> \in ProfileIdsBelow)
    BY <1>2
  <2> QED BY <2>1, <2>2 DEF ProfileIdsBelow
<1> QED BY <1>3 DEF Lowest

LEMMA ReadRowIsARow ==
    ASSUME NEW rs \in Seq(AccountRow), NEW x \in Identities
    PROVE  /\ ReadRow(rs, x) \in RowRead
           /\ ReadRow(rs, x) = NoRow => RowsOf(rs, x) = {}
           /\ ReadRow(rs, x) # NoRow => ReadRow(rs, x).id \in DOMAIN rs
<1>1. CASE RowsOf(rs, x) = {}
  BY <1>1, ProfileConstants DEF ReadRow
<1>2. CASE RowsOf(rs, x) # {}
  <2> DEFINE id == Lowest(RowsOf(rs, x))
  <2>1. RowsOf(rs, x) \in SUBSET Nat /\ RowsOf(rs, x) \subseteq DOMAIN rs
    BY DEF RowsOf
  <2>2. id \in DOMAIN rs
    BY <1>2, <2>1, LowestIsMember
  <2> HIDE DEF id
  <2>3. ReadRow(rs, x) = [id |-> id, name |-> rs[id].name, deleted |-> rs[id].deleted]
    BY <1>2 DEF ReadRow, id
  <2>4. id \in 1 .. Len(rs) /\ rs[id] \in AccountRow
    BY <2>2
  <2>5. ReadRow(rs, x).id = id /\ ReadRow(rs, x) \in RowRead
    BY <2>3, <2>4 DEF RowRead, AccountRow
  <2> QED BY <2>4, <2>5, ProfileConstants
<1> QED BY <1>1, <1>2

\* A table whose rows are those of another one, but for their names and marks.
LEMMA SameIdentities ==
    ASSUME NEW rs \in Seq(AccountRow), NEW rt, rt = [i \in DOMAIN rs |-> rt[i]],
           \A i \in DOMAIN rs : rt[i] \in AccountRow /\ rt[i].external = rs[i].external
    PROVE  rt \in Seq(AccountRow) /\ Len(rt) = Len(rs) /\ (OneRowEach(rs) => OneRowEach(rt))
<1>1. DOMAIN rs = 1 .. Len(rs) /\ Len(rs) \in Nat /\ DOMAIN rt = DOMAIN rs
  OBVIOUS
<1>2. rt \in [1 .. Len(rs) -> AccountRow]
  BY <1>1
<1>3. rt \in Seq(AccountRow) /\ Len(rt) = Len(rs)
  BY <1>1, <1>2
<1>4. OneRowEach(rs) => OneRowEach(rt)
  BY <1>1 DEF OneRowEach, RowsOf
<1> QED BY <1>3, <1>4

LEMMA GetOrCreateExtends ==
    ASSUME NEW rs \in Seq(AccountRow), NEW name \in Names
    PROVE  LET found == GetOrCreateProviderAccount(rs, name)
           IN  /\ Enlarges(rs, found.rows)
               /\ found.id \in DOMAIN found.rows
               /\ NameTaken(rs, name) => found.id \in DOMAIN rs /\ rs[found.id].name = name
               /\ DistinctNames(rs) => DistinctNames(found.rows)
<1> DEFINE found == GetOrCreateProviderAccount(rs, name)
<1>1. CASE NameTaken(rs, name)
  <2> DEFINE id == RowNamed(rs, name)
             r  == [rs[id] EXCEPT !.deleted = FALSE]
             rt == [rs EXCEPT ![id] = r]
  <2>1. id \in DOMAIN rs /\ rs[id].name = name
    BY <1>1 DEF NameTaken, RowNamed
  <2> HIDE DEF id
  <2>2. r \in AccountRow /\ r.external = rs[id].external /\ r.name = rs[id].name
    <3>1. rs[id] \in AccountRow
      BY <2>1
    <3> QED BY <3>1 DEF AccountRow
  <2> HIDE DEF r
  <2>3. rt \in Seq(AccountRow) /\ Len(rt) = Len(rs)
    BY <2>1, <2>2
  <2>4. Enlarges(rs, rt)
    BY <2>1, <2>2, <2>3 DEF Enlarges
  <2>5. found.rows = rt /\ found.id = id
    BY <1>1 DEF GetOrCreateProviderAccount, Found, id, r
  <2>6. DistinctNames(rs) => DistinctNames(rt)
    BY <2>1, <2>2, <2>3 DEF DistinctNames
  <2> QED BY <2>1, <2>3, <2>4, <2>5, <2>6
<1>2. CASE ~NameTaken(rs, name) /\ Len(rs) = 1 /\ rs[1].name = "default"
  <2> DEFINE r  == [rs[1] EXCEPT !.name = name]
             rt == [rs EXCEPT ![1] = r]
  <2>1. 1 \in DOMAIN rs
    BY <1>2
  <2>2. r \in AccountRow /\ r.external = rs[1].external
    <3>1. rs[1] \in AccountRow
      BY <2>1
    <3> QED BY <3>1 DEF AccountRow
  <2> HIDE DEF r
  <2>3. rt \in Seq(AccountRow) /\ Len(rt) = Len(rs)
    BY <2>1, <2>2
  <2>4. Enlarges(rs, rt)
    BY <2>1, <2>2, <2>3 DEF Enlarges
  <2>5. found.rows = rt /\ found.id = 1
    BY <1>2 DEF GetOrCreateProviderAccount, Found, r
  <2>6. DistinctNames(rt)
    BY <1>2, <2>3 DEF DistinctNames
  <2> QED BY <1>2, <2>1, <2>3, <2>4, <2>5, <2>6
<1>3. CASE ~NameTaken(rs, name) /\ ~(Len(rs) = 1 /\ rs[1].name = "default")
  <2> DEFINE r  == [name |-> name, external |-> NoIdentity, deleted |-> FALSE]
             rt == Append(rs, r)
  <2>1. r \in AccountRow /\ r.external = NoIdentity /\ r.name = name
    BY DEF AccountRow
  <2> HIDE DEF r
  <2>2. rt \in Seq(AccountRow) /\ Len(rt) = Len(rs) + 1
    BY <2>1
  <2>3. Enlarges(rs, rt)
    BY <2>1, <2>2 DEF Enlarges
  <2>4. found.rows = rt /\ found.id = Len(rs) + 1
    BY <1>3 DEF GetOrCreateProviderAccount, Found, r
  <2>5. DistinctNames(rs) => DistinctNames(rt)
    BY <1>3, <2>1, <2>2 DEF DistinctNames, NameTaken
  <2> QED BY <1>3, <2>2, <2>3, <2>4, <2>5
<1> QED BY <1>1, <1>2, <1>3

LEMMA WriteRowKeepsRows ==
    ASSUME NEW rs \in Seq(AccountRow), NEW row \in RowRead, NEW name \in Names, NEW x \in Identities,
           row # NoRow => row.id \in DOMAIN rs
    PROVE  /\ WriteRow(rs, row, name, x).rows \in Seq(AccountRow)
           /\ Len(rs) <= Len(WriteRow(rs, row, name, x).rows)
           /\ WriteRow(rs, row, name, x).id \in DOMAIN WriteRow(rs, row, name, x).rows
           /\ DistinctNames(rs) => DistinctNames(WriteRow(rs, row, name, x).rows)
           /\ /\ DistinctNames(rs) /\ OneRowEach(rs)
              /\ row = NoRow => \A i \in RowsOf(rs, x) : rs[i].name = name
              => OneRowEach(WriteRow(rs, row, name, x).rows)
<1> DEFINE written == WriteRow(rs, row, name, x)
<1>1. CASE row = NoRow
  <2> DEFINE found == GetOrCreateProviderAccount(rs, name)
             r  == [found.rows[found.id] EXCEPT !.external = x]
             rt == [found.rows EXCEPT ![found.id] = r]
  <2>1. /\ Enlarges(rs, found.rows) /\ found.id \in DOMAIN found.rows
        /\ NameTaken(rs, name) => found.id \in DOMAIN rs /\ rs[found.id].name = name
        /\ DistinctNames(rs) => DistinctNames(found.rows)
    BY GetOrCreateExtends
  <2>2. written.rows = rt /\ written.id = found.id
    <3>1. written = [found EXCEPT !.rows[found.id].external = x]
      BY <1>1 DEF WriteRow, WithExternal
    <3>2. found = [rows |-> found.rows, id |-> found.id]
      BY DEF GetOrCreateProviderAccount, Found
    <3> HIDE DEF found
    <3> QED BY <3>1, <3>2
  <2> HIDE DEF found
  <2>3. r \in AccountRow /\ r.external = x /\ r.name = found.rows[found.id].name
    <3>1. found.rows[found.id] \in AccountRow
      BY <2>1 DEF Enlarges
    <3> QED BY <3>1 DEF AccountRow
  <2> HIDE DEF r
  <2>4. rt \in Seq(AccountRow) /\ Len(rt) = Len(found.rows) /\ DOMAIN rt = DOMAIN found.rows
    BY <2>1, <2>3 DEF Enlarges
  <2>5. \A i \in DOMAIN rt : rt[i].external =
           IF i = found.id THEN x ELSE IF i \in DOMAIN rs THEN rs[i].external ELSE NoIdentity
    BY <2>1, <2>3, <2>4 DEF Enlarges
  <2>6. ASSUME DistinctNames(rs), OneRowEach(rs), \A i \in RowsOf(rs, x) : rs[i].name = name
        PROVE  OneRowEach(rt)
    <3> SUFFICES ASSUME NEW y \in Identities, NEW i \in RowsOf(rt, y), NEW j \in RowsOf(rt, y)
                 PROVE  i = j
      BY DEF OneRowEach
    <3>1. i \in DOMAIN rt /\ j \in DOMAIN rt /\ rt[i].external = y /\ rt[j].external = y
      BY DEF RowsOf
    <3>2. CASE y = x
      <4>1. ASSUME NEW k \in RowsOf(rt, x) PROVE k = found.id
        <5>1. SUFFICES ASSUME k # found.id PROVE FALSE
          OBVIOUS
        <5>2. k \in DOMAIN rt /\ rt[k].external = x
          BY DEF RowsOf
        <5>3. k \in DOMAIN rs /\ rs[k].external = x
          BY <2>5, <5>1, <5>2, ProfileConstants
        <5>4. rs[k].name = name
          BY <2>6, <5>3 DEF RowsOf
        <5>5. found.id \in DOMAIN rs /\ rs[found.id].name = name
          BY <2>1, <5>3, <5>4 DEF NameTaken
        <5> QED BY <2>6, <5>1, <5>3, <5>4, <5>5 DEF DistinctNames
      <4> QED BY <3>2, <4>1
    <3>3. CASE y # x
      BY <2>5, <2>6, <3>1, <3>3, ProfileConstants DEF RowsOf, OneRowEach
    <3> QED BY <3>2, <3>3
  <2>7. DistinctNames(rs) => DistinctNames(rt)
    BY <2>1, <2>3, <2>4 DEF DistinctNames
  <2> QED BY <1>1, <2>1, <2>2, <2>4, <2>6, <2>7 DEF Enlarges
<1>2. CASE row # NoRow
  <2> DEFINE taken == \E other \in DOMAIN rs \ {row.id} : rs[other].name = name
             rename(id) == id = row.id /\ row.name # name /\ ~taken
             renamed == [id \in DOMAIN rs |-> [rs[id] EXCEPT !.name =
                           IF id = row.id /\ row.name # name /\ ~taken THEN name ELSE @]]
             restored(id) == row.deleted /\ renamed[id].name = IF taken THEN row.name ELSE name
             rt == [id \in DOMAIN rs |->
                      [renamed[id] EXCEPT !.deleted = @ /\ ~restored(id)]]
  <2>1. written.rows = rt /\ written.id = row.id
    BY <1>2 DEF WriteRow, Found
  <2>2. \A id \in DOMAIN rs :
           /\ renamed[id] \in AccountRow /\ renamed[id].external = rs[id].external
           /\ renamed[id].name = IF id = row.id /\ row.name # name /\ ~taken THEN name
                                 ELSE rs[id].name
    <3> HIDE DEF taken
    <3> TAKE id \in DOMAIN rs
    <3>1. rs[id] \in AccountRow
      OBVIOUS
    <3> QED BY <3>1 DEF AccountRow
  <2>3. \A id \in DOMAIN rs : restored(id) \in BOOLEAN
    OBVIOUS
  <2> HIDE DEF renamed, restored
  <2>4. \A id \in DOMAIN rs :
           rt[id] \in AccountRow /\ rt[id].external = rs[id].external /\ rt[id].name = renamed[id].name
    BY <2>2, <2>3 DEF AccountRow
  <2>5. rt = [id \in DOMAIN rs |-> rt[id]]
    OBVIOUS
  <2> HIDE DEF rt
  <2>6. rt \in Seq(AccountRow) /\ Len(rt) = Len(rs) /\ (OneRowEach(rs) => OneRowEach(rt))
    BY <2>4, <2>5, SameIdentities
  <2>7. DistinctNames(rs) => DistinctNames(rt)
    BY <1>2, <2>2, <2>4, <2>5 DEF DistinctNames
  <2> QED BY <1>2, <2>1, <2>6, <2>7
<1> QED BY <1>1, <1>2

\* Marking rows as deleted leaves their identities alone.
LEMMA MarkingKeepsRows ==
    ASSUME NEW rs \in Seq(AccountRow), NEW marks \in [DOMAIN rs -> BOOLEAN], NEW rt,
           rt = [id \in DOMAIN rs |-> [rs[id] EXCEPT !.deleted = marks[id]]]
    PROVE  rt \in Seq(AccountRow) /\ Len(rt) = Len(rs) /\ Keeps(rs, rt)
<1>1. ASSUME NEW id \in DOMAIN rs
      PROVE  rt[id] \in AccountRow /\ rt[id].external = rs[id].external /\ rt[id].name = rs[id].name
  <2>1. rs[id] \in AccountRow /\ marks[id] \in BOOLEAN
    OBVIOUS
  <2>2. rt[id] = [rs[id] EXCEPT !.deleted = marks[id]]
    OBVIOUS
  <2> QED BY <2>1, <2>2 DEF AccountRow
<1>2. rt = [id \in DOMAIN rs |-> rt[id]]
  OBVIOUS
<1>3. rt \in Seq(AccountRow) /\ Len(rt) = Len(rs) /\ (OneRowEach(rs) => OneRowEach(rt))
  BY <1>1, <1>2, SameIdentities
<1>4. DistinctNames(rs) => DistinctNames(rt)
  BY <1>1, <1>2 DEF DistinctNames
<1> QED BY <1>3, <1>4 DEF Keeps

LEMMA DeletingKeepsRows ==
    ASSUME NEW rs \in Seq(AccountRow), NEW name
    PROVE  LET rt == MarkProviderAccountDeleted(rs, name)
           IN  rt \in Seq(AccountRow) /\ Len(rt) = Len(rs) /\ Keeps(rs, rt)
<1> DEFINE marks == [id \in DOMAIN rs |-> rs[id].deleted \/ (rs[id].name = name)]
<1>1. marks \in [DOMAIN rs -> BOOLEAN]
  OBVIOUS
<1>2. MarkProviderAccountDeleted(rs, name) =
         [id \in DOMAIN rs |-> [rs[id] EXCEPT !.deleted = marks[id]]]
  BY DEF MarkProviderAccountDeleted
<1> HIDE DEF marks
<1> QED BY <1>1, <1>2, MarkingKeepsRows

LEMMA OrphansKeepRows ==
    ASSUME NEW rs \in Seq(AccountRow), NEW as
    PROVE  LET rt == OrphansDeleted(rs, as)
           IN  rt \in Seq(AccountRow) /\ Len(rt) = Len(rs) /\ Keeps(rs, rt)
<1> DEFINE marks == [id \in DOMAIN rs |-> rs[id].deleted
                       \/ (as.map[rs[id].name] = NoAgent /\ files[rs[id].name] = NoIdentity)]
<1>1. marks \in [DOMAIN rs -> BOOLEAN]
  OBVIOUS
<1>2. OrphansDeleted(rs, as) =
         [id \in DOMAIN rs |-> [rs[id] EXCEPT !.deleted = marks[id]]]
  BY DEF OrphansDeleted
<1> HIDE DEF marks
<1> QED BY <1>1, <1>2, MarkingKeepsRows

LEMMA MergingKeepsRows ==
    ASSUME NEW rs \in Seq(AccountRow)
    PROVE  LET rt == Deduplicated(rs)
           IN  rt \in Seq(AccountRow) /\ Len(rt) = Len(rs) /\ Keeps(rs, rt)
<1> DEFINE marks == [id \in DOMAIN rs |-> rs[id].deleted
                       \/ (rs[id].external \in Identities /\ Target(rs, rs[id].external) # id)]
<1>1. marks \in [DOMAIN rs -> BOOLEAN]
  OBVIOUS
<1>2. Deduplicated(rs) = [id \in DOMAIN rs |-> [rs[id] EXCEPT !.deleted = marks[id]]]
  BY DEF Deduplicated
<1> HIDE DEF marks
<1> QED BY <1>1, <1>2, MarkingKeepsRows

\* The query and the writes at once, as the daemon is modelled.
LEMMA ByExternalIDKeepsRows ==
    ASSUME NEW rs \in Seq(AccountRow), NEW name \in Names, NEW x \in Identities
    PROVE  LET found == GetOrCreateProviderAccountByExternalID(rs, name, x)
           IN  /\ found.rows \in Seq(AccountRow)
               /\ Len(rs) <= Len(found.rows)
               /\ found.id \in DOMAIN found.rows
               /\ Keeps(rs, found.rows)
<1> DEFINE row == ReadRow(rs, x)
           found == WriteRow(rs, row, name, x)
<1>1. /\ row \in RowRead
      /\ row # NoRow => row.id \in DOMAIN rs
      /\ row = NoRow => \A i \in RowsOf(rs, x) : rs[i].name = name
  BY ReadRowIsARow
<1> HIDE DEF row
<1>2. /\ found.rows \in Seq(AccountRow) /\ Len(rs) <= Len(found.rows) /\ found.id \in DOMAIN found.rows
      /\ DistinctNames(rs) => DistinctNames(found.rows)
      /\ DistinctNames(rs) /\ OneRowEach(rs) => OneRowEach(found.rows)
  BY <1>1, WriteRowKeepsRows
<1> QED BY <1>2 DEF GetOrCreateProviderAccountByExternalID, Keeps, row

-----------------------------------------------------------------------------
(* The agents *)

LEMMA StoppedAgents ==
    ASSUME NEW as \in ProfileAgents, NEW rs, AgentsHaveRows(as, rs), NEW name \in Names
    PROVE  Stopped(as, name) \in ProfileAgents /\ AgentsHaveRows(Stopped(as, name), rs)
<1>1. CASE as.map[name] = NoAgent
  BY <1>1 DEF Stopped
<1>2. CASE as.map[name] # NoAgent
  <2>1. Stopped(as, name) =
          [as EXCEPT !.map[name] = NoAgent, !.ending[name] = @ + 1,
                     !.refreshing = {r \in @ : r[1] # name}]
    BY <1>2 DEF Stopped
  <2> DEFINE ms == [as.map EXCEPT ![name] = NoAgent]
             e  == as.ending[name] + 1
             fs == {r \in as.refreshing : r[1] # name}
  <2>2. ms \in [Names -> ProfileAgent] /\ \A n \in Names : ms[n] = IF n = name THEN NoAgent ELSE as.map[n]
    BY ProfileConstants DEF ProfileAgents
  <2>3. e \in Nat
    <3>1. as.ending \in [Names -> Nat]
      BY DEF ProfileAgents
    <3>2. PICK k \in Nat : as.ending[name] = k
      BY <3>1
    <3> QED BY <3>2
  <2>4. fs \in SUBSET (Names \X Identities)
    BY DEF ProfileAgents
  <2>5. Stopped(as, name) \in ProfileAgents
    <3> HIDE DEF ms, e, fs
    <3>1. [as EXCEPT !.map[name] = NoAgent, !.ending[name] = e, !.refreshing = fs] \in ProfileAgents
      BY <2>3, <2>4, ProfileConstants DEF ProfileAgents
    <3> QED BY <2>1, <3>1 DEF e, fs
  <2>6. Stopped(as, name).map = ms
    BY <2>1 DEF ProfileAgents
  <2> HIDE DEF ms
  <2> QED BY <2>2, <2>5, <2>6 DEF AgentsHaveRows
<1> QED BY <1>1, <1>2

LEMMA MissedAgents ==
    ASSUME NEW as \in ProfileAgents, NEW rs, AgentsHaveRows(as, rs), NEW name \in Names
    PROVE  Missed(as, name) \in ProfileAgents /\ AgentsHaveRows(Missed(as, name), rs)
<1>1. Missed(as, name) \in ProfileAgents /\ Missed(as, name).map = as.map
  BY DEF Missed, ProfileAgents
<1> QED BY <1>1 DEF AgentsHaveRows

-----------------------------------------------------------------------------
(* The steps *)

\* The profiles' part of the invariant.
ProfilesInv ==
    /\ ProfileTypes
    /\ ~Legacy /\ ~manager.raced => OneRowEach(rows)

LEMMA ProfilesStart ==
    ASSUME ProfilesInit
    PROVE  ProfilesInv
<1> DEFINE r == [name |-> "default", external |-> NoIdentity, deleted |-> FALSE]
<1>1. r \in AccountRow /\ r.external = NoIdentity
  BY ProfileConstants DEF AccountRow
<1>2. rows \in Seq(AccountRow) /\ DistinctNames(rows) /\ (~Legacy => OneRowEach(rows))
  <2>1. ASSUME rows # <<r>>
        PROVE  Legacy /\ rows \in Seq(AccountRow) /\ DistinctNames(rows)
    <3>1. PICK x \in Identities, m \in Names \ {"default"}, n \in Names \ {"default"},
               gone \in BOOLEAN :
             /\ Legacy /\ m # n
             /\ rows = <<[name |-> "default", external |-> NoIdentity, deleted |-> TRUE],
                         [name |-> m, external |-> x, deleted |-> gone],
                         [name |-> n, external |-> x, deleted |-> FALSE]>>
      BY <2>1 DEF ProfilesInit
    <3> DEFINE r1 == [name |-> "default", external |-> NoIdentity, deleted |-> TRUE]
               r2 == [name |-> m, external |-> x, deleted |-> gone]
               r3 == [name |-> n, external |-> x, deleted |-> FALSE]
    <3>2. /\ r1 \in AccountRow /\ r2 \in AccountRow /\ r3 \in AccountRow
          /\ r1.name = "default" /\ r2.name = m /\ r3.name = n
      BY ProfileConstants DEF AccountRow
    <3> HIDE DEF r1, r2, r3
    <3>3. rows = <<r1, r2, r3>>
      BY <3>1 DEF r1, r2, r3
    <3>4. <<r1, r2, r3>> \in Seq(AccountRow)
      BY <3>2
    <3>5. /\ DOMAIN <<r1, r2, r3>> = 1 .. 3
          /\ <<r1, r2, r3>>[1] = r1 /\ <<r1, r2, r3>>[2] = r2 /\ <<r1, r2, r3>>[3] = r3
      OBVIOUS
    <3>6. DistinctNames(<<r1, r2, r3>>)
      <4> SUFFICES ASSUME NEW i \in 1 .. 3, NEW j \in 1 .. 3,
                          <<r1, r2, r3>>[i].name = <<r1, r2, r3>>[j].name
                   PROVE  i = j
        BY <3>5 DEF DistinctNames
      <4>1. i \in {1, 2, 3} /\ j \in {1, 2, 3}
        OBVIOUS
      <4> QED BY <3>1, <3>2, <3>5, <4>1
    <3> QED BY <3>1, <3>3, <3>4, <3>6
  <2>2. CASE rows = <<r>>
    <3> HIDE DEF r
    <3>1. rows \in Seq(AccountRow) /\ Len(rows) = 1 /\ \A i \in DOMAIN rows : rows[i] = r
      BY <1>1, <2>2
    <3>2. OneRowEach(rows) /\ DistinctNames(rows)
      BY <1>1, <3>1, ProfileConstants DEF OneRowEach, RowsOf, DistinctNames
    <3> QED BY <3>1, <3>2
  <2> QED BY <2>1, <2>2
<1>3. files \in [Names -> Identities \cup {NoIdentity}]
  BY DEF ProfilesInit
<1>4. scans \in [known : SUBSET Names, newer : SUBSET Names]
  BY DEF ProfilesInit
<1>5. agents \in ProfileAgents /\ AgentsHaveRows(agents, rows)
  BY ProfileConstants DEF ProfilesInit, AgentsHaveRows
<1>6. command = NoCommand
  BY DEF ProfilesInit
<1>7. manager \in ProfileManager
  BY ProfileConstants DEF ProfilesInit, ProfileManager
<1> QED BY <1>2, <1>3, <1>4, <1>5, <1>6, <1>7, ProfileConstants
        DEF ProfilesInv, ProfileTypes

\* The manager takes another file in hand, or goes on with the one it has.
LEMMA HandChanges ==
    ASSUME ProfilesInv, NEW h \in ProfileHand
    PROVE  [manager EXCEPT !.hand = h] \in ProfileManager
           /\ [manager EXCEPT !.hand = h].raced = manager.raced
BY DEF ProfilesInv, ProfileTypes, ProfileManager

LEMMA HandInMotion ==
    ASSUME ProfilesInv
    PROVE  /\ manager.hand \in ProfileHand
           /\ [manager.hand EXCEPT !.at = "remember"] \in ProfileHand
BY DEF ProfilesInv, ProfileTypes, ProfileManager, ProfileHand

\* The file of a profile is written to while the scanner may have it in hand.
LEMMA WrittenInHand ==
    ASSUME ProfilesInv, NEW name \in Names
    PROVE  \E h \in ProfileHand :
              /\ h = [manager.hand EXCEPT !.changed = @ \/ InHand(name)]
              /\ [manager EXCEPT !.hand.changed = @ \/ InHand(name)] = [manager EXCEPT !.hand = h]
              /\ \A k : [manager EXCEPT !.edits = k, !.hand.changed = @ \/ InHand(name)]
                          = [manager EXCEPT !.edits = k, !.hand = h]
<1> DEFINE b == manager.hand.changed \/ InHand(name)
           h == [manager.hand EXCEPT !.changed = b]
<1>1. manager \in ProfileManager /\ manager.hand \in ProfileHand /\ b \in BOOLEAN
  BY DEF ProfilesInv, ProfileTypes, ProfileManager, ProfileHand, InHand
<1>2. /\ h = [manager.hand EXCEPT !.changed = @ \/ InHand(name)]
      /\ [manager EXCEPT !.hand.changed = @ \/ InHand(name)] = [manager EXCEPT !.hand = h]
      /\ \A k : [manager EXCEPT !.edits = k, !.hand.changed = @ \/ InHand(name)]
                  = [manager EXCEPT !.edits = k, !.hand = h]
  BY <1>1 DEF ProfileManager, ProfileHand
<1> HIDE DEF b
<1>3. h \in ProfileHand
  BY <1>1 DEF ProfileHand
<1> QED BY <1>2, <1>3

\* A step that leaves the table alone.
LEMMA RowsUnchanged ==
    ASSUME ProfilesInv, UNCHANGED rows, manager'.raced = manager.raced,
           files' \in [Names -> Identities \cup {NoIdentity}],
           scans' \in [known : SUBSET Names, newer : SUBSET Names],
           agents' \in ProfileAgents, AgentsHaveRows(agents', rows),
           command' \in ProfileCommand, command'.op = "save" => command'.identity \in Identities,
           command'.row # NoRow => command'.row.id \in DOMAIN rows, manager' \in ProfileManager
    PROVE  ProfilesInv'
<1>1. rows' \in Seq(AccountRow) /\ Len(rows') = Len(rows) /\ DistinctNames(rows)'
  BY DEF ProfilesInv, ProfileTypes, DistinctNames
<1>2. AgentsHaveRows(agents, rows)'
  BY DEF AgentsHaveRows
<1>3. ProfileTypes'
  BY <1>1, <1>2 DEF ProfileTypes
<1>4. (~Legacy /\ ~manager.raced => OneRowEach(rows))'
  BY DEF ProfilesInv, OneRowEach, RowsOf
<1> QED BY <1>3, <1>4 DEF ProfilesInv

\* A step of the manager that starts agents or marks rows.
LEMMA RowsOfTheManager ==
    ASSUME ProfilesInv, UNCHANGED <<files, command>>,
           rows' \in Seq(AccountRow), Len(rows) <= Len(rows'), Keeps(rows, rows'),
           scans' \in [known : SUBSET Names, newer : SUBSET Names],
           agents' \in ProfileAgents, AgentsHaveRows(agents', rows'),
           manager' \in ProfileManager, manager'.raced = manager.raced
    PROVE  ProfilesInv'
<1>1. /\ Len(rows) \in Nat /\ Len(rows') \in Nat
      /\ DOMAIN rows = 1 .. Len(rows) /\ DOMAIN rows' = 1 .. Len(rows')
  BY DEF ProfilesInv, ProfileTypes
<1>2. command'.row # NoRow => command'.row.id \in DOMAIN rows'
  BY <1>1 DEF ProfilesInv, ProfileTypes
<1>3. AgentsHaveRows(agents, rows)'
  BY DEF AgentsHaveRows
<1>4. DistinctNames(rows)'
  BY DEF ProfilesInv, ProfileTypes, Keeps, DistinctNames
<1>5. ProfileTypes'
  BY <1>2, <1>3, <1>4 DEF ProfilesInv, ProfileTypes
<1>6. (~Legacy /\ ~manager.raced => OneRowEach(rows))'
  BY DEF ProfilesInv, ProfileTypes, Keeps, OneRowEach, RowsOf
<1> QED BY <1>5, <1>6 DEF ProfilesInv

LEMMA EditKeeps ==
    ASSUME ProfilesInv, NEW op \in {"save", "delete"}, NEW name \in Names,
           NEW x \in Identities \cup {NoIdentity}, op = "save" => x \in Identities,
           Edit(op, name, x)
    PROVE  ProfilesInv'
<1>1. command' \in ProfileCommand /\ command'.op = op /\ command'.identity = x /\ command'.row = NoRow
  <2> DEFINE c == NoCommand
  <2>1. c \in ProfileCommand /\ c.row = NoRow /\ command' = [c EXCEPT !.op = op, !.name = name, !.identity = x]
    BY ProfileConstants DEF Edit
  <2> HIDE DEF c
  <2> QED BY <2>1 DEF ProfileCommand
<1>2. manager' \in ProfileManager /\ manager'.raced = manager.raced
  <2> DEFINE k == manager.edits + 1
  <2>1. k \in Nat /\ manager \in ProfileManager
    BY DEF ProfilesInv, ProfileTypes, ProfileManager
  <2>2. PICK h \in ProfileHand : manager' = [manager EXCEPT !.edits = k, !.hand = h]
    BY <2>1, WrittenInHand DEF Edit
  <2> HIDE DEF k
  <2> QED BY <2>1, <2>2 DEF ProfileManager
<1>3. files' \in [Names -> Identities \cup {NoIdentity}]
  BY DEF Edit, ProfilesInv, ProfileTypes
<1>4. scans' \in [known : SUBSET Names, newer : SUBSET Names]
  BY DEF Edit, ProfilesInv, ProfileTypes
<1>5. rows' = rows /\ agents' = agents /\ agents \in ProfileAgents /\ AgentsHaveRows(agents, rows)
  BY DEF Edit, ProfilesInv, ProfileTypes
<1> QED BY <1>1, <1>2, <1>3, <1>4, <1>5, RowsUnchanged

LEMMA MissDatabaseKeeps ==
    ASSUME ProfilesInv, MissDatabase
    PROVE  ProfilesInv'
<1>1. command' \in ProfileCommand /\ command'.op = "none" /\ command'.row = NoRow
  BY ProfileConstants DEF MissDatabase
<1> QED BY <1>1, RowsUnchanged DEF MissDatabase, ProfilesInv, ProfileTypes

LEMMA LookUpRowKeeps ==
    ASSUME ProfilesInv, LookUpRow
    PROVE  ProfilesInv'
<1> DEFINE row == ReadRow(rows, command.identity)
<1>1. row \in RowRead /\ (row # NoRow => row.id \in DOMAIN rows)
  BY ReadRowIsARow DEF ProfilesInv, ProfileTypes, LookUpRow
<1> HIDE DEF row
<1>2. /\ command' \in ProfileCommand /\ command'.op = command.op
      /\ command'.identity = command.identity /\ command'.row = row
  BY <1>1 DEF LookUpRow, ProfilesInv, ProfileTypes, ProfileCommand, row
<1> QED BY <1>1, <1>2, RowsUnchanged DEF LookUpRow, ProfilesInv, ProfileTypes

\* The history of the race is what says that an identity which had no row when it
\* was looked up has none, or the one of this name, when it is given one.
LEMMA SaveRowKeeps ==
    ASSUME ProfilesInv, SaveRow
    PROVE  ProfilesInv'
<1>1. /\ rows \in Seq(AccountRow) /\ DistinctNames(rows)
      /\ command.row \in RowRead /\ command.name \in Names
      /\ command.identity \in Identities
      /\ command.row # NoRow => command.row.id \in DOMAIN rows
  BY DEF ProfilesInv, ProfileTypes, ProfileCommand, SaveRow
<1>2. /\ rows' \in Seq(AccountRow) /\ Len(rows) <= Len(rows')
      /\ DistinctNames(rows')
      /\ /\ OneRowEach(rows)
         /\ command.row = NoRow =>
               \A id \in RowsOf(rows, command.identity) : rows[id].name = command.name
         => OneRowEach(rows')
  BY <1>1, WriteRowKeepsRows DEF SaveRow
<1>3. /\ manager' \in ProfileManager
      /\ ~manager'.raced => ~manager.raced
           /\ (command.row = NoRow =>
                 \A id \in RowsOf(rows, command.identity) : rows[id].name = command.name)
  <2>1. manager \in ProfileManager
    BY DEF ProfilesInv, ProfileTypes
  <2> QED BY <2>1 DEF SaveRow, ProfileManager
<1>4. (~Legacy /\ ~manager.raced => OneRowEach(rows))'
  BY <1>2, <1>3 DEF ProfilesInv, OneRowEach, RowsOf
<1>5. AgentsHaveRows(agents, rows)'
  <2>1. /\ Len(rows) \in Nat /\ Len(rows') \in Nat
        /\ DOMAIN rows = 1 .. Len(rows) /\ DOMAIN rows' = 1 .. Len(rows')
    BY <1>1, <1>2
  <2> QED BY <1>2, <2>1 DEF ProfilesInv, ProfileTypes, AgentsHaveRows, SaveRow
<1>6. command' \in ProfileCommand /\ command'.op = "none" /\ command'.row = NoRow
  BY ProfileConstants DEF SaveRow
<1>7. ProfileTypes'
  BY <1>2, <1>3, <1>5, <1>6 DEF ProfilesInv, ProfileTypes, SaveRow, DistinctNames
<1> QED BY <1>4, <1>7 DEF ProfilesInv

LEMMA DeleteRowKeeps ==
    ASSUME ProfilesInv, DeleteRow
    PROVE  ProfilesInv'
<1>1. /\ rows' \in Seq(AccountRow) /\ Len(rows') = Len(rows) /\ Keeps(rows, rows')
      /\ rows \in Seq(AccountRow)
  BY DeletingKeepsRows DEF DeleteRow, ProfilesInv, ProfileTypes
<1>2. DOMAIN rows' = DOMAIN rows
  BY <1>1
<1>3. command' \in ProfileCommand /\ command'.op = "none" /\ command'.row = NoRow
  BY ProfileConstants DEF DeleteRow
<1>4. AgentsHaveRows(agents, rows)'
  BY <1>2 DEF AgentsHaveRows, DeleteRow, ProfilesInv, ProfileTypes
<1>5. ProfileTypes'
  BY <1>1, <1>3, <1>4 DEF ProfilesInv, ProfileTypes, DeleteRow, DistinctNames, Keeps
<1>6. (~Legacy /\ ~manager.raced => OneRowEach(rows))'
  BY <1>1 DEF ProfilesInv, ProfileTypes, DeleteRow, OneRowEach, RowsOf, Keeps
<1> QED BY <1>5, <1>6 DEF ProfilesInv

LEMMA ExitKeeps ==
    ASSUME ProfilesInv, NEW name \in Names, Exit(name)
    PROVE  ProfilesInv'
<1>1. agents \in ProfileAgents /\ AgentsHaveRows(agents, rows)
  BY DEF ProfilesInv, ProfileTypes
<1>2. PICK k \in Nat : agents.ending[name] - 1 = k
  <2>1. PICK j \in Nat : agents.ending[name] = j
    BY <1>1 DEF ProfileAgents
  <2>2. j > 0
    BY <2>1 DEF Exit
  <2>3. j - 1 \in Nat
    BY <2>2
  <2> QED BY <2>1, <2>3
<1>3. agents.map[name] \in ProfileAgent
  BY <1>1 DEF ProfileAgents
<1> DEFINE left == {agents.map[name]} \ {NoAgent}
<1>4. left \subseteq ProfileAgent
  BY <1>3
<1>5. agents' = [agents EXCEPT !.ending[name] = k, !.map[name] = NoAgent,
                               !.forgotten = @ \cup left]
  BY <1>2 DEF Exit
<1> HIDE DEF left
<1>6. agents' \in ProfileAgents
  BY <1>1, <1>2, <1>4, <1>5, ProfileConstants DEF ProfileAgents
<1>7. \A n \in Names : agents'.map[n] = IF n = name THEN NoAgent ELSE agents.map[n]
  BY <1>1, <1>5 DEF ProfileAgents
<1>8. AgentsHaveRows(agents', rows)
  BY <1>1, <1>7 DEF AgentsHaveRows
<1> QED BY <1>6, <1>8, RowsUnchanged DEF Exit, ProfilesInv, ProfileTypes

LEMMA BeginRefreshKeeps ==
    ASSUME ProfilesInv, NEW name \in Names, BeginRefresh(name)
    PROVE  ProfilesInv'
<1>1. agents \in ProfileAgents /\ AgentsHaveRows(agents, rows) /\ files[name] \in Identities
  BY DEF ProfilesInv, ProfileTypes, BeginRefresh
<1>2. agents' \in ProfileAgents /\ agents'.map = agents.map
  BY <1>1 DEF BeginRefresh, ProfileAgents
<1>3. AgentsHaveRows(agents', rows)
  BY <1>1, <1>2 DEF AgentsHaveRows
<1>4. manager' \in ProfileManager /\ manager'.raced = manager.raced
  <2>1. manager \in ProfileManager /\ manager.edits + 1 \in Nat
    BY DEF ProfilesInv, ProfileTypes, ProfileManager
  <2> QED BY <2>1 DEF BeginRefresh, ProfileManager
<1> QED BY <1>2, <1>3, <1>4, RowsUnchanged DEF BeginRefresh, ProfilesInv, ProfileTypes

LEMMA RememberedScans ==
    ASSUME ProfilesInv, NEW name \in Names
    PROVE  Remembered(name) \in [known : SUBSET Names, newer : SUBSET Names]
BY DEF ProfilesInv, ProfileTypes, Remembered

LEMMA SaveProfileTokensKeeps ==
    ASSUME ProfilesInv, NEW name \in Names, NEW x \in Identities, SaveProfileTokens(name, x)
    PROVE  ProfilesInv'
<1>1. agents \in ProfileAgents /\ AgentsHaveRows(agents, rows)
  BY DEF ProfilesInv, ProfileTypes
<1>2. agents' \in ProfileAgents /\ agents'.map = agents.map
  <2> DEFINE waiting == agents.refreshing \ {<<name, x>>}
             written == agents.written \cup {name}
  <2>1. waiting \in SUBSET (Names \X Identities) /\ written \in SUBSET Names
    BY <1>1 DEF ProfileAgents
  <2>2. \/ agents' = [agents EXCEPT !.refreshing = waiting]
        \/ agents' = [agents EXCEPT !.refreshing = waiting, !.written = written]
    BY DEF SaveProfileTokens
  <2> HIDE DEF waiting, written
  <2>3. CASE agents' = [agents EXCEPT !.refreshing = waiting]
    BY <1>1, <2>1, <2>3 DEF ProfileAgents
  <2>4. CASE agents' = [agents EXCEPT !.refreshing = waiting, !.written = written]
    BY <1>1, <2>1, <2>4 DEF ProfileAgents
  <2> QED BY <2>2, <2>3, <2>4
<1>3. AgentsHaveRows(agents', rows)
  BY <1>1, <1>2 DEF AgentsHaveRows
<1>4. files' \in [Names -> Identities \cup {NoIdentity}]
  <2>1. files \in [Names -> Identities \cup {NoIdentity}]
    BY DEF ProfilesInv, ProfileTypes
  <2>2. CASE files[name] = NoIdentity
    BY <2>1, <2>2 DEF SaveProfileTokens
  <2>3. CASE files[name] # NoIdentity
    <3> DEFINE y == files[name]
               z == [workspace |-> y.workspace,
                     user |-> IF x.user = NoUser THEN y.user ELSE x.user]
    <3>1. y \in Identities
      BY <2>1, <2>3
    <3>2. z \in Identities
      BY <3>1, ProfilesAssumption
    <3>3. [y EXCEPT !.user = IF x.user = NoUser THEN @ ELSE x.user] = z
      BY <3>1, ProfilesAssumption
    <3> HIDE DEF y, z
    <3>4. files' = [files EXCEPT ![name] = z]
      BY <2>3, <3>3 DEF SaveProfileTokens, y
    <3> QED BY <2>1, <3>2, <3>4
  <2> QED BY <2>2, <2>3
<1>5. scans' \in [known : SUBSET Names, newer : SUBSET Names]
  BY DEF SaveProfileTokens, ProfilesInv, ProfileTypes
<1>6. manager' \in ProfileManager /\ manager'.raced = manager.raced
  <2>1. PICK h \in ProfileHand : \/ manager' = manager
                                 \/ manager' = [manager EXCEPT !.hand = h]
    BY WrittenInHand, ProfileConstants DEF SaveProfileTokens
  <2>2. CASE manager' = manager
    BY <2>2 DEF ProfilesInv, ProfileTypes
  <2>3. CASE manager' = [manager EXCEPT !.hand = h]
    BY <2>3, HandChanges
  <2> QED BY <2>1, <2>2, <2>3
<1> QED BY <1>2, <1>3, <1>4, <1>5, <1>6, RowsUnchanged
        DEF SaveProfileTokens, ProfilesInv, ProfileTypes

LEMMA RememberTokensKeeps ==
    ASSUME ProfilesInv, NEW name \in Names, RememberTokens(name)
    PROVE  ProfilesInv'
<1> DEFINE as == [agents EXCEPT !.written = @ \ {name}]
<1>1. as \in ProfileAgents /\ as.map = agents.map /\ AgentsHaveRows(agents, rows)
  BY DEF ProfilesInv, ProfileTypes, ProfileAgents
<1>2. agents' \in {as, Missed(as, name)}
  BY DEF RememberTokens
<1> HIDE DEF as
<1>3. AgentsHaveRows(as, rows)
  BY <1>1 DEF AgentsHaveRows
<1>4. agents' \in ProfileAgents /\ AgentsHaveRows(agents', rows)
  BY <1>1, <1>2, <1>3, MissedAgents
<1>5. scans' \in [known : SUBSET Names, newer : SUBSET Names]
  BY RememberedScans DEF RememberTokens, ProfilesInv, ProfileTypes
<1> QED BY <1>4, <1>5, RowsUnchanged DEF RememberTokens, ProfilesInv, ProfileTypes

LEMMA BootKeeps ==
    ASSUME ProfilesInv, Boot
    PROVE  ProfilesInv'
<1>1. manager' \in ProfileManager /\ manager'.raced = manager.raced
  BY DEF ProfilesInv, ProfileTypes, Boot, ProfileManager, Profiles
<1> QED BY <1>1, RowsUnchanged DEF Boot, ProfilesInv, ProfileTypes

LEMMA LoadProfileKeeps ==
    ASSUME ProfilesInv, NEW name \in Names, LoadProfile(name)
    PROVE  ProfilesInv'
<1> DEFINE h == IF files[name] = NoIdentity THEN NoHand
                ELSE [NoHand EXCEPT !.at = "start", !.op = "load",
                                    !.name = name, !.identity = files[name]]
<1>1. h \in ProfileHand
  <2>1. files[name] \in Identities \cup {NoIdentity}
    BY DEF ProfilesInv, ProfileTypes
  <2> QED BY <2>1, ProfileConstants DEF ProfileHand
<1>2. manager \in ProfileManager /\ manager' = [manager EXCEPT !.todo = @ \ {name}, !.hand = h]
  BY DEF LoadProfile, ProfilesInv, ProfileTypes
<1> HIDE DEF h
<1>3. manager' \in ProfileManager /\ manager'.raced = manager.raced
  BY <1>1, <1>2 DEF ProfileManager
<1> QED BY <1>3, RowsUnchanged DEF LoadProfile, ProfilesInv, ProfileTypes

LEMMA ScanProfileKeeps ==
    ASSUME ProfilesInv, NEW name \in Names, ScanProfile(name)
    PROVE  ProfilesInv'
<1> DEFINE h == [NoHand EXCEPT !.at = "read", !.op = "scan", !.name = name]
<1>1. h \in ProfileHand
  BY ProfileConstants DEF ProfileHand
<1>2. manager' = [manager EXCEPT !.hand = h]
  BY DEF ScanProfile, ScanIf
<1> HIDE DEF h
<1>3. manager' \in ProfileManager /\ manager'.raced = manager.raced
  BY <1>1, <1>2, HandChanges
<1>4. agents \in ProfileAgents /\ AgentsHaveRows(agents, rows)
  BY DEF ProfilesInv, ProfileTypes
<1>5. agents' \in ProfileAgents /\ AgentsHaveRows(agents', rows)
  BY <1>4, StoppedAgents DEF ScanProfile, ScanIf
<1> QED BY <1>3, <1>5, RowsUnchanged DEF ScanProfile, ScanIf, ProfilesInv, ProfileTypes

LEMMA ReadProfileKeeps ==
    ASSUME ProfilesInv, ReadProfile
    PROVE  ProfilesInv'
<1> DEFINE x == files[manager.hand.name]
           h == [manager.hand EXCEPT !.at = IF x = NoIdentity THEN "remember" ELSE "start",
                                     !.identity = x]
<1>1. manager \in ProfileManager /\ manager.hand \in ProfileHand
      /\ x \in Identities \cup {NoIdentity}
  BY DEF ProfilesInv, ProfileTypes, ProfileManager, ProfileHand
<1>2. manager' = [manager EXCEPT !.hand = h]
  BY <1>1 DEF ReadProfile, ProfileManager
<1> HIDE DEF x
<1>3. h \in ProfileHand
  BY <1>1 DEF ProfileHand
<1> HIDE DEF h
<1>4. manager' \in ProfileManager /\ manager'.raced = manager.raced
  BY <1>2, <1>3, HandChanges
<1> QED BY <1>4, RowsUnchanged DEF ReadProfile, ProfilesInv, ProfileTypes

LEMMA KeepAgentKeeps ==
    ASSUME ProfilesInv, KeepAgent
    PROVE  ProfilesInv'
<1> DEFINE h == [manager.hand EXCEPT !.at = "remember"]
<1>1. manager \in ProfileManager /\ h \in ProfileHand /\ manager.hand.name \in Names
  BY HandInMotion DEF ProfilesInv, ProfileTypes, ProfileHand
<1>2. manager' = [manager EXCEPT !.hand = h]
  BY <1>1 DEF KeepAgent, ProfileManager
<1> HIDE DEF h
<1>3. manager' \in ProfileManager /\ manager'.raced = manager.raced
  BY <1>1, <1>2, HandChanges
<1>4. agents' \in ProfileAgents /\ AgentsHaveRows(agents', rows)
  <2>1. agents' \in {agents, Missed(agents, manager.hand.name)}
    BY DEF KeepAgent
  <2> QED BY <1>1, <2>1, MissedAgents DEF ProfilesInv, ProfileTypes
<1> QED BY <1>3, <1>4, RowsUnchanged DEF KeepAgent, ProfilesInv, ProfileTypes

\* The row of the profile is looked up or made.
LEMMA StartProfileKeeps ==
    ASSUME ProfilesInv, StartProfile
    PROVE  ProfilesInv'
<1> DEFINE name  == manager.hand.name
           x     == manager.hand.identity
           found == GetOrCreateProviderAccountByExternalID(rows, name, x)
           a     == [identity |-> x, row |-> found.id]
           h     == [manager.hand EXCEPT !.at = "remember"]
<1>1. manager \in ProfileManager /\ h \in ProfileHand /\ name \in Names /\ x \in Identities
  BY HandInMotion DEF StartProfile, ProfileHand, ProfilesInv, ProfileTypes
<1>2. /\ rows \in Seq(AccountRow) /\ Len(rows) \in Nat /\ DOMAIN rows = 1 .. Len(rows)
      /\ agents \in ProfileAgents /\ AgentsHaveRows(agents, rows)
  BY DEF ProfilesInv, ProfileTypes
<1>3. manager' = [manager EXCEPT !.hand = h]
  BY <1>1 DEF StartProfile, ProfileManager
<1>4. rows' = found.rows /\ agents' = [agents EXCEPT !.map[name] = a, !.missed = @ \ {name}]
  BY DEF StartProfile
<1>5. /\ found.rows \in Seq(AccountRow) /\ Len(rows) <= Len(found.rows)
      /\ found.id \in DOMAIN found.rows /\ Keeps(rows, found.rows)
  BY <1>1, <1>2, ByExternalIDKeepsRows
<1> HIDE DEF name, x, h, found
<1>6. manager' \in ProfileManager /\ manager'.raced = manager.raced
  BY <1>1, <1>3, HandChanges
<1>7. a \in ProfileAgent /\ a.row = found.id
  BY <1>1, <1>5 DEF ProfileAgent
<1> HIDE DEF a
<1>8. agents' \in ProfileAgents
  BY <1>1, <1>2, <1>4, <1>7 DEF ProfileAgents
<1>9. \A n \in Names : agents'.map[n] = IF n = name THEN a ELSE agents.map[n]
  BY <1>1, <1>2, <1>4 DEF ProfileAgents
<1>10. DOMAIN rows \subseteq DOMAIN found.rows
  BY <1>2, <1>5
<1>11. AgentsHaveRows(agents', rows')
  BY <1>2, <1>4, <1>5, <1>7, <1>9, <1>10 DEF AgentsHaveRows
<1>12. rows' \in Seq(AccountRow) /\ Len(rows) <= Len(rows') /\ Keeps(rows, rows')
  BY <1>4, <1>5
<1> QED BY <1>6, <1>8, <1>11, <1>12, RowsOfTheManager DEF StartProfile, ProfilesInv, ProfileTypes

LEMMA FailToStartKeeps ==
    ASSUME ProfilesInv, FailToStart
    PROVE  ProfilesInv'
<1> DEFINE h == IF manager.hand.op = "load" THEN NoHand
                ELSE [manager.hand EXCEPT !.at = "remember"]
           k == manager.faults + 1
<1>1. /\ manager \in ProfileManager /\ h \in ProfileHand /\ manager.hand.name \in Names
      /\ k \in Nat
  BY HandInMotion, ProfileConstants DEF ProfilesInv, ProfileTypes, ProfileManager, ProfileHand
<1>2. manager' = [manager EXCEPT !.faults = k, !.hand = h]
  BY <1>1 DEF FailToStart, ProfileManager
<1> HIDE DEF h, k
<1>3. manager' \in ProfileManager /\ manager'.raced = manager.raced
  BY <1>1, <1>2 DEF ProfileManager
<1>4. agents' \in ProfileAgents /\ AgentsHaveRows(agents', rows)
  <2>1. agents' \in {agents, Missed(agents, manager.hand.name)}
    BY DEF FailToStart
  <2> QED BY <1>1, <2>1, MissedAgents DEF ProfilesInv, ProfileTypes
<1> QED BY <1>3, <1>4, RowsUnchanged DEF FailToStart, ProfilesInv, ProfileTypes

LEMMA RememberProfileKeeps ==
    ASSUME ProfilesInv, RememberProfile
    PROVE  ProfilesInv'
<1> DEFINE name == manager.hand.name
<1>1. name \in Names
  BY HandInMotion DEF ProfileHand
<1>2. manager' \in ProfileManager /\ manager'.raced = manager.raced
  BY ProfileConstants, HandChanges DEF RememberProfile
<1>3. agents' \in ProfileAgents /\ AgentsHaveRows(agents', rows)
  <2>1. agents' \in {agents, Missed(agents, name)}
    BY DEF RememberProfile
  <2> QED BY <1>1, <2>1, MissedAgents DEF ProfilesInv, ProfileTypes
<1>4. scans' \in [known : SUBSET Names, newer : SUBSET Names]
  <2> DEFINE s == Remembered(name)
             c == IF manager.hand.changed THEN {name} ELSE {}
  <2>1. s \in [known : SUBSET Names, newer : SUBSET Names] /\ c \in SUBSET Names
    BY <1>1, RememberedScans
  <2>2. scans' = scans \/ scans' = s \/ scans' = [s EXCEPT !.newer = @ \cup c]
    BY DEF RememberProfile
  <2> HIDE DEF s, c
  <2> QED BY <2>1, <2>2 DEF ProfilesInv, ProfileTypes
<1> QED BY <1>2, <1>3, <1>4, RowsUnchanged DEF RememberProfile, ProfilesInv, ProfileTypes

LEMMA ScanDeletionKeeps ==
    ASSUME ProfilesInv, NEW name \in Names, ScanDeletion(name)
    PROVE  ProfilesInv'
<1>1. manager' \in ProfileManager /\ manager'.raced = manager.raced
  BY DEF ProfilesInv, ProfileTypes, ScanDeletion
<1>2. /\ rows' \in Seq(AccountRow) /\ Len(rows') = Len(rows) /\ Keeps(rows, rows')
      /\ rows \in Seq(AccountRow)
  BY DeletingKeepsRows DEF ScanDeletion, ProfilesInv, ProfileTypes
<1>3. DOMAIN rows' = DOMAIN rows /\ Len(rows) <= Len(rows')
  BY <1>2
<1>4. agents' \in ProfileAgents /\ AgentsHaveRows(agents', rows)
  BY StoppedAgents DEF ScanDeletion, ProfilesInv, ProfileTypes
<1>5. AgentsHaveRows(agents', rows')
  BY <1>3, <1>4 DEF AgentsHaveRows
<1>6. scans' \in [known : SUBSET Names, newer : SUBSET Names]
  BY DEF ScanDeletion, ProfilesInv, ProfileTypes
<1> QED BY <1>1, <1>2, <1>3, <1>4, <1>5, <1>6, RowsOfTheManager DEF ScanDeletion

LEMMA SettleKeeps ==
    ASSUME ProfilesInv, Settle
    PROVE  ProfilesInv'
<1>1. manager' \in ProfileManager /\ manager'.raced = manager.raced
  BY DEF ProfilesInv, ProfileTypes, Settle, ProfileManager
<1>2. PICK started \in {[rows |-> rows, agents |-> agents]}
                          \cup {DefaultStarted(x) : x \in Identities} :
        /\ agents' = started.agents
        /\ rows' = Deduplicated(OrphansDeleted(started.rows, started.agents))
  BY DEF Settle
<1>3. rows \in Seq(AccountRow) /\ agents \in ProfileAgents /\ AgentsHaveRows(agents, rows) /\ Len(rows) \in Nat
  BY DEF ProfilesInv, ProfileTypes
<1>4. /\ started.rows \in Seq(AccountRow) /\ Len(rows) <= Len(started.rows)
      /\ started.agents \in ProfileAgents /\ AgentsHaveRows(started.agents, started.rows)
      /\ Keeps(rows, started.rows)
  <2>1. CASE started = [rows |-> rows, agents |-> agents]
    BY <1>3, <2>1 DEF Keeps
  <2>2. ASSUME NEW x \in Identities, started = DefaultStarted(x)
        PROVE  /\ started.rows \in Seq(AccountRow) /\ Len(rows) <= Len(started.rows)
               /\ started.agents \in ProfileAgents /\ AgentsHaveRows(started.agents, started.rows)
               /\ Keeps(rows, started.rows)
    <3> DEFINE found == GetOrCreateProviderAccountByExternalID(rows, "default", x)
               a == [identity |-> x, row |-> found.id]
    <3>1. /\ found.rows \in Seq(AccountRow) /\ Len(rows) <= Len(found.rows)
          /\ found.id \in DOMAIN found.rows /\ Keeps(rows, found.rows)
      BY <1>3, ByExternalIDKeepsRows, ProfileConstants
    <3>2. started.rows = found.rows /\ started.agents = [agents EXCEPT !.map["default"] = a]
      BY <2>2 DEF DefaultStarted
    <3> HIDE DEF found
    <3>3. a \in ProfileAgent /\ a.row = found.id
      BY <3>1 DEF ProfileAgent
    <3> HIDE DEF a
    <3>4. started.agents \in ProfileAgents
      <4>1. [agents EXCEPT !.map["default"] = a] \in ProfileAgents
        BY <1>3, <3>3, ProfileConstants DEF ProfileAgents
      <4> QED BY <3>2, <4>1
    <3>5. \A n \in Names : started.agents.map[n] = IF n = "default" THEN a ELSE agents.map[n]
      BY <1>3, <3>2 DEF ProfileAgents
    <3>6. DOMAIN rows \subseteq DOMAIN found.rows
      BY <1>3, <3>1
    <3>7. AgentsHaveRows(started.agents, started.rows)
      BY <1>3, <3>1, <3>2, <3>3, <3>5, <3>6 DEF AgentsHaveRows
    <3> QED BY <3>1, <3>2, <3>4, <3>7
  <2> QED BY <1>2, <2>1, <2>2
<1> DEFINE rs == OrphansDeleted(started.rows, started.agents)
<1>5. /\ rs \in Seq(AccountRow) /\ Len(rs) = Len(started.rows)
      /\ Keeps(started.rows, rs)
  BY <1>4, OrphansKeepRows
<1> HIDE DEF rs
<1>6. /\ rows' \in Seq(AccountRow) /\ Len(rows') = Len(rs)
      /\ Keeps(rs, rows')
  BY <1>2, <1>5, MergingKeepsRows DEF rs
<1>7. DOMAIN rows' = DOMAIN started.rows /\ Len(rows) <= Len(rows')
  BY <1>4, <1>5, <1>6
<1>8. agents' \in ProfileAgents /\ AgentsHaveRows(agents', rows')
  BY <1>2, <1>4, <1>7 DEF AgentsHaveRows
<1>9. scans' \in [known : SUBSET Names, newer : SUBSET Names]
  BY DEF Settle, ProfilesInv, ProfileTypes
<1>10. Keeps(rows, rows')
  BY <1>4, <1>5, <1>6 DEF Keeps
<1> QED BY <1>1, <1>6, <1>7, <1>8, <1>9, <1>10, RowsOfTheManager DEF Settle

LEMMA EndDaemonKeeps ==
    ASSUME ProfilesInv, EndDaemon
    PROVE  ProfilesInv'
<1>1. manager' \in ProfileManager /\ manager'.raced = manager.raced
  BY ProfileConstants DEF ProfilesInv, ProfileTypes, EndDaemon, ProfileManager
<1>2. agents' \in ProfileAgents /\ \A n \in Names : agents'.map[n] = NoAgent
  BY ProfileConstants DEF EndDaemon
<1>3. AgentsHaveRows(agents', rows)
  BY <1>2 DEF AgentsHaveRows
<1>4. scans' \in [known : SUBSET Names, newer : SUBSET Names]
  BY DEF EndDaemon
<1> QED BY <1>1, <1>2, <1>3, <1>4, RowsUnchanged DEF EndDaemon, ProfilesInv, ProfileTypes

-----------------------------------------------------------------------------
(* The theorems *)

LEMMA ProfilesStep ==
    ASSUME ProfilesInv, ProfilesNext
    PROVE  ProfilesInv'
<1>1. ASSUME ManagerSteps PROVE ProfilesInv'
  BY <1>1, SettleKeeps, LoadProfileKeeps, ScanProfileKeeps, ScanDeletionKeeps,
     ReadProfileKeeps, KeepAgentKeeps, StartProfileKeeps, FailToStartKeeps,
     RememberProfileKeeps DEF ManagerSteps
<1>2. ASSUME OtherSteps PROVE ProfilesInv'
  BY <1>2, LookUpRowKeeps, SaveRowKeeps, DeleteRowKeeps, MissDatabaseKeeps, ExitKeeps,
     SaveProfileTokensKeeps, RememberTokensKeeps DEF OtherSteps
<1>3. ASSUME ProfileEdits PROVE ProfilesInv'
  <2>1. ASSUME NEW n \in Names, NEW x \in Identities, Save(n, x) \/ WebRefresh(n, x)
        PROVE  ProfilesInv'
    <3>1. Edit("save", n, x)
      BY <2>1 DEF Save, WebRefresh
    <3> QED BY <3>1, EditKeeps
  <2>2. ASSUME NEW n \in Names, Delete(n) PROVE ProfilesInv'
    <3>1. Edit("delete", n, NoIdentity)
      BY <2>2 DEF Delete
    <3> QED BY <3>1, EditKeeps
  <2>3. ASSUME NEW n \in Names, BeginRefresh(n) PROVE ProfilesInv'
    BY <2>3, BeginRefreshKeeps
  <2>4. CASE Boot
    BY <2>4, BootKeeps
  <2>5. CASE EndDaemon
    BY <2>5, EndDaemonKeeps
  <2> QED BY <1>3, <2>1, <2>2, <2>3, <2>4, <2>5 DEF ProfileEdits
<1> QED BY <1>1, <1>2, <1>3 DEF ProfilesNext

LEMMA ProfilesStutter ==
    ASSUME ProfilesInv, UNCHANGED profileVars
    PROVE  ProfilesInv'
BY DEF profileVars, ProfilesInv, ProfileTypes, DistinctNames, AgentsHaveRows, OneRowEach, RowsOf

LEMMA ProfilesAlways == ProfilesSpec => []ProfilesInv
<1>1. ProfilesInit => ProfilesInv
  BY ProfilesStart
<1>2. ProfilesInv /\ [ProfilesNext]_profileVars => ProfilesInv'
  BY ProfilesStep, ProfilesStutter
<1> QED BY <1>1, <1>2, PTL DEF ProfilesSpec

\* The profiles, their rows and the agents are of the right kinds, and an agent
\* in the map has a row of the table, whatever older versions have left in it.
THEOREM ProfilesTypeCorrect == ProfilesSpec => []ProfilesTypeOK
<1>1. ProfilesInv => ProfilesTypeOK
  BY DEF ProfilesInv, ProfileTypes, ProfilesTypeOK, AccountRow, ProfileManager, ProfileHand,
         AgentsHaveRows
<1> QED BY <1>1, ProfilesAlways, PTL

\* Where the table had no two rows of one identity to begin with, an identity
\* never has, unless a command and the daemon, under two names, raced for its
\* first.
THEOREM IdentityAlwaysHasOneRow == ASSUME ~Legacy PROVE ProfilesSpec => []IdentityHasOneRow
<1>1. ProfilesInv => IdentityHasOneRow
  BY DEF ProfilesInv, IdentityHasOneRow, OneRowEach
<1> QED BY <1>1, ProfilesAlways, PTL
=============================================================================
