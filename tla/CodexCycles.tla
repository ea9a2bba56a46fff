---------------------------- MODULE CodexCycles ----------------------------
(***************************************************************************)
(* From a fetched Codex usage to the alert it raises: the end of the poll  *)
(* of internal/agent/codex_agent.go, the reset cycles of                   *)
(* internal/tracker/codex_tracker.go, and the notification log of          *)
(* internal/notify/notify.go, for one quota.                               *)
(*                                                                         *)
(* Every account has an agent of its own; all of them share one tracker,   *)
(* one notification engine and one database.  An action ends at a call of  *)
(* the store or at a delivery, where other agents, a crash or a failure    *)
(* come in between.                                                        *)
(*                                                                         *)
(* Time is a counter.  Grace, Shift and Drop stand for the 2 minutes, the  *)
(* 60 minutes and the 2 points of utilization of the reset detection.      *)
(***************************************************************************)
EXTENDS Integers

CONSTANTS
    Accounts,        \* database accounts with an agent
    Default,         \* the account that alerts name when they name none
    Utils,           \* utilizations the API reports
    Warning,         \* thresholds
    Critical,
    Grace, Shift, Drop,
    Ahead,           \* how far ahead of the capture a reported reset may be
    MaxTime,         \* bound: the last moment of a run
    NotifyReset,     \* whether resets are announced
    Faults           \* which faults occur, out of those of FaultKinds

FaultKinds == {"store", "delivery", "crash", "channels", "absent"}

ASSUME CyclesAssumption ==
    /\ Default \in Accounts
    /\ Utils \subseteq Nat
    /\ Warning \in Nat /\ Critical \in Nat
    /\ Grace \in Nat /\ Shift \in Nat /\ Drop \in Nat
    /\ Ahead \subseteq Nat \ {0}
    /\ MaxTime \in Nat
    /\ NotifyReset \in BOOLEAN
    /\ Faults \subseteq FaultKinds

VARIABLES
    now,
    job,        \* per account: where its agent is, and the sample in hand
    row,        \* per account: the active row of codex_reset_cycles
    last,       \* per account: the row closed last
    memory,     \* per account: lastValues, lastResets and hasLast
    log,        \* per notification key: the types logged
    channels,   \* a mailer or a push sender is configured
    high,       \* history: the highest sample processed for the active row
    sent,       \* history: alerts delivered since the active row was created
    unlogged    \* history: types delivered whose log entry was not written

tracking == <<row, last, memory, high>>
alerting == <<log, sent, unlogged>>
vars     == <<now, job, tracking, alerting, channels>>

Unknown == -1
Types   == {"reset", "warning", "critical"}

\* Where an agent is: between polls; about to make the store call of that name
\* in processQuota; in onReset; in notifier.Check; delivering an alert; about
\* to log it.
Points == {"idle", "query", "create", "setPeak", "close", "recreate", "resetPeak",
           "move", "update", "onReset", "check", "send", "log"}

Sample == [util : Utils, resetsAt : Int, at : 0 .. MaxTime]
Job    == [pc : Points, util : Int, resetsAt : Int, at : 0 .. MaxTime,
           type : Types, key : Accounts]
Row    == [open : BOOLEAN, start : 0 .. MaxTime, resetsAt : Int, peak : Int]

NoRow   == [open |-> FALSE, start |-> 0, resetsAt |-> Unknown, peak |-> 0]
NoJob   == [pc |-> "idle", util |-> 0, resetsAt |-> Unknown, at |-> 0,
            type |-> "reset", key |-> Default]
Nothing == [has |-> FALSE, util |-> Unknown, resetsAt |-> Unknown]

TypeOK ==
    /\ now \in 0 .. MaxTime
    /\ job \in [Accounts -> Job]
    /\ row \in [Accounts -> Row]
    /\ last \in [Accounts -> [start : Int, end : Int, peak : Int, high : Int]]
    /\ memory \in [Accounts -> [has : BOOLEAN, util : Int, resetsAt : Int]]
    /\ log \in [Accounts -> SUBSET Types]
    /\ channels \in BOOLEAN
    /\ high \in [Accounts -> Int]
    /\ sent \in [Accounts -> [Types -> 0 .. 2]]
    /\ unlogged \in [Accounts -> SUBSET Types]

Init ==
    /\ now = 0
    /\ job = [a \in Accounts |-> NoJob]
    /\ row = [a \in Accounts |-> NoRow]
    /\ last = [a \in Accounts |-> [start |-> 0, end |-> 0, peak |-> 0, high |-> 0]]
    /\ memory = [a \in Accounts |-> Nothing]
    /\ log = [a \in Accounts |-> {}]
    /\ channels = TRUE
    /\ high = [a \in Accounts |-> 0]
    /\ sent = [a \in Accounts |-> [t \in Types |-> 0]]
    /\ unlogged = [a \in Accounts |-> {}]

Larger(x, y) == IF x > y THEN x ELSE y
Apart(x, y)  == IF x > y THEN x - y ELSE y - x

At(a, point)   == job[a].pc = point

\* The agent goes on with its sample, or has no more use for it.
Goto(a, point) ==
    job' = [job EXCEPT ![a] = IF point = "idle" THEN NoJob ELSE [@ EXCEPT !.pc = point]]

-----------------------------------------------------------------------------
(* The tracker *)

\* A bug to detect: the sample is stamped with the moment after its capture.
PollStampedLate(a) ==
    /\ At(a, "idle")
    /\ \E u \in Utils, r \in {Unknown} \cup {now + d : d \in Ahead} :
         job' = [job EXCEPT ![a] = [NoJob EXCEPT !.pc = "query", !.util = u,
                                                 !.resetsAt = r, !.at = now + 1]]
    /\ UNCHANGED <<now, tracking, alerting, channels>>

\* The agent has fetched and stored a snapshot; Process begins.
Poll(a) ==
    /\ At(a, "idle")
    /\ \E u \in Utils, r \in {Unknown} \cup {now + d : d \in Ahead} :
         job' = [job EXCEPT ![a] = [NoJob EXCEPT !.pc = "query", !.util = u,
                                                 !.resetsAt = r, !.at = now]]
    /\ UNCHANGED <<now, tracking, alerting, channels>>

\* A snapshot without this quota: Process handles the other quotas only.
PollWithoutQuota(a) ==
    /\ "absent" \in Faults
    /\ At(a, "idle")
    /\ memory' = [memory EXCEPT ![a].has = TRUE]
    /\ UNCHANGED <<now, job, row, last, high, alerting, channels>>

\* A store call inside Process fails: Process returns, poll logs the error and
\* goes on to the alerts.  So does an error in a quota before this one.
StoreFails(a) ==
    /\ "store" \in Faults
    /\ job[a].pc \in {"query", "create", "setPeak", "close", "recreate", "resetPeak",
                      "move", "update"}
    /\ Goto(a, "check")
    /\ UNCHANGED <<now, tracking, alerting, channels>>

\* The stored reset time has passed.
ResetByTime(a) ==
    row[a].resetsAt # Unknown /\ job[a].at > row[a].resetsAt + Grace

\* The reported reset time has moved far, and the utilization has dropped.
ResetByApi(a) ==
    LET reference == IF memory[a].resetsAt # Unknown THEN memory[a].resetsAt
                                                     ELSE row[a].resetsAt
    IN /\ job[a].resetsAt # Unknown
       /\ row[a].resetsAt # Unknown
       /\ Apart(job[a].resetsAt, reference) > Shift
       /\ memory[a].has
       /\ memory[a].util # Unknown
       /\ job[a].util + Drop < memory[a].util

ResetDetected(a) == ResetByTime(a) \/ ResetByApi(a)

\* QueryActiveCodexCycle, and the branch that processQuota takes.
Query(a) ==
    /\ At(a, "query")
    /\ Goto(a, IF ~row[a].open THEN "create"
               ELSE IF ResetDetected(a) THEN "close"
               ELSE IF job[a].resetsAt # Unknown THEN "move"
               ELSE "update")
    /\ UNCHANGED <<now, tracking, alerting, channels>>

\* CreateCodexCycle: the first row of the quota, or the one after a reset.
Create(a) ==
    /\ job[a].pc \in {"create", "recreate"}
    /\ row' = [row EXCEPT ![a] = [open |-> TRUE, start |-> job[a].at,
                                  resetsAt |-> job[a].resetsAt, peak |-> 0]]
    /\ Goto(a, IF At(a, "create") THEN "setPeak" ELSE "resetPeak")
    /\ high' = [high EXCEPT ![a] = 0]
    /\ sent' = [sent EXCEPT ![a] = [t \in Types |-> 0]]
    /\ unlogged' = [unlogged EXCEPT ![a] = {}]
    /\ UNCHANGED <<now, last, memory, log, channels>>

\* The end of processQuota, which remembers the sample.  Process then notes
\* that there is one, unless a later quota of the snapshot fails.
Remember(a) ==
    \E has \in {TRUE} \cup (IF "store" \in Faults THEN {memory[a].has} ELSE {}) :
        memory' = [memory EXCEPT ![a] =
          [has |-> has, util |-> job[a].util,
           resetsAt |-> IF job[a].resetsAt # Unknown THEN job[a].resetsAt ELSE @.resetsAt]]

\* UpdateCodexCycle on the new row, and the end of Process, after onReset when
\* the row follows a reset.
SetPeak(a) ==
    /\ job[a].pc \in {"setPeak", "resetPeak"}
    /\ row' = [row EXCEPT ![a].peak = job[a].util]
    /\ Remember(a)
    /\ high' = [high EXCEPT ![a] = job[a].util]
    /\ Goto(a, IF At(a, "setPeak") THEN "check" ELSE "onReset")
    /\ UNCHANGED <<now, last, alerting, channels>>

\* The peak that processQuota computes for the active row: the sample counts
\* when an earlier one is remembered, or in the first Process of the process.
NewPeak(a) ==
    IF memory[a].has /\ memory[a].util = Unknown
    THEN row[a].peak ELSE Larger(row[a].peak, job[a].util)

\* A bug to detect: the cycle ends when its reset is noticed, or was due,
\* whichever is later.
CloseLate(a) ==
    /\ At(a, "close")
    /\ last' = [last EXCEPT ![a] =
          [start |-> row[a].start, peak |-> row[a].peak, high |-> high[a],
           end   |-> Larger(job[a].at, row[a].resetsAt)]]
    /\ row' = [row EXCEPT ![a] = NoRow]
    /\ Goto(a, "recreate")
    /\ UNCHANGED <<now, memory, high, alerting, channels>>

\* CloseCodexCycle: the cycle ends at its reset time when that has passed.  The
\* sample that shows the reset still counts for the row that it closes.
Close(a) ==
    /\ At(a, "close")
    /\ LET due == row[a].resetsAt # Unknown /\ job[a].at > row[a].resetsAt
           known == memory[a].has /\ memory[a].util # Unknown
       IN last' = [last EXCEPT ![a] =
            [start |-> row[a].start,
             end   |-> IF due THEN row[a].resetsAt ELSE job[a].at,
             peak  |-> IF known THEN Larger(row[a].peak, job[a].util) ELSE row[a].peak,
             high  |-> high[a]]]
    /\ row' = [row EXCEPT ![a] = NoRow]
    /\ Goto(a, "recreate")
    /\ UNCHANGED <<now, memory, high, alerting, channels>>

\* UpdateCodexCycleResetsAt.
Move(a) ==
    /\ At(a, "move")
    /\ row' = [row EXCEPT ![a].resetsAt = job[a].resetsAt]
    /\ memory' = [memory EXCEPT ![a].resetsAt = job[a].resetsAt]
    /\ Goto(a, "update")
    /\ UNCHANGED <<now, last, high, alerting, channels>>

\* A bug to detect: the first sample after a restart does not count.
UpdateRememberedOnly(a) ==
    /\ At(a, "update")
    /\ row' = [row EXCEPT ![a].peak = IF memory[a].has THEN NewPeak(a) ELSE @]
    /\ Remember(a)
    /\ high' = [high EXCEPT ![a] = Larger(@, job[a].util)]
    /\ Goto(a, "check")
    /\ UNCHANGED <<now, last, alerting, channels>>

\* UpdateCodexCycle in the middle of a cycle, and the end of Process.
Update(a) ==
    /\ At(a, "update")
    /\ row' = [row EXCEPT ![a].peak = NewPeak(a)]
    /\ Remember(a)
    /\ high' = [high EXCEPT ![a] = Larger(@, job[a].util)]
    /\ Goto(a, "check")
    /\ UNCHANGED <<now, last, alerting, channels>>

-----------------------------------------------------------------------------
(* The notification engine *)

\* sendNotification: an alert of a type that the key's log has is not sent.
Raise(a, type, key, otherwise) ==
    IF type \in log'[key] THEN Goto(a, otherwise)
    ELSE job' = [job EXCEPT ![a].pc = "send", ![a].type = type, ![a].key = key]

\* A bug to detect: the reset is announced and the log of the cycle kept.
OnResetKeepsLog(a) ==
    /\ At(a, "onReset")
    /\ UNCHANGED log
    /\ IF channels /\ NotifyReset THEN Raise(a, "reset", Default, "check")
                                 ELSE Goto(a, "check")
    /\ UNCHANGED <<now, tracking, sent, unlogged, channels>>

\* Check with ResetOccurred, called back by the tracker.  The callback names
\* no account, so the log that is cleared is that of the default one.
OnReset(a) ==
    /\ At(a, "onReset")
    /\ IF ~channels
       THEN Goto(a, "check") /\ UNCHANGED log
       ELSE /\ \/ log' = [log EXCEPT ![Default] = {}]
               \/ "store" \in Faults /\ UNCHANGED log
            /\ IF NotifyReset THEN Raise(a, "reset", Default, "check")
                              ELSE Goto(a, "check")
    /\ UNCHANGED <<now, tracking, sent, unlogged, channels>>

\* Check of the sample: critical before warning.
Check(a) ==
    /\ At(a, "check")
    /\ UNCHANGED log
    /\ IF channels /\ job[a].util >= Critical THEN Raise(a, "critical", a, "idle")
       ELSE IF channels /\ job[a].util >= Warning THEN Raise(a, "warning", a, "idle")
       ELSE Goto(a, "idle")
    /\ UNCHANGED <<now, tracking, sent, unlogged, channels>>

\* Where an agent goes after an alert: from the callback to the check of the
\* sample, from there to the end of the poll.
AfterAlert(a) == IF job[a].type = "reset" THEN "check" ELSE "idle"

\* At least one channel delivers the alert.
Send(a) ==
    /\ At(a, "send")
    /\ sent' = [sent EXCEPT ![a][job[a].type] = IF @ < 2 THEN @ + 1 ELSE 2]
    /\ Goto(a, "log")
    /\ UNCHANGED <<now, tracking, log, unlogged, channels>>

\* No channel does, or the log could not be read.
SendFails(a) ==
    /\ "delivery" \in Faults
    /\ At(a, "send")
    /\ Goto(a, AfterAlert(a))
    /\ UNCHANGED <<now, tracking, alerting, channels>>

\* A bug to detect: a delivered alert is not logged.
LogNothing(a) ==
    /\ At(a, "log")
    /\ Goto(a, AfterAlert(a))
    /\ UNCHANGED <<now, tracking, alerting, channels>>

\* UpsertNotificationLog
Log(a) ==
    /\ At(a, "log")
    /\ log' = [log EXCEPT ![job[a].key] = @ \cup {job[a].type}]
    /\ Goto(a, AfterAlert(a))
    /\ UNCHANGED <<now, tracking, sent, unlogged, channels>>

\* UpsertNotificationLog fails.
LogFails(a) ==
    /\ "store" \in Faults
    /\ At(a, "log")
    /\ unlogged' = [unlogged EXCEPT ![a] = @ \cup {job[a].type}]
    /\ Goto(a, AfterAlert(a))
    /\ UNCHANGED <<now, tracking, log, sent, channels>>

-----------------------------------------------------------------------------

Tick ==
    /\ now < MaxTime
    /\ now' = now + 1
    /\ UNCHANGED <<job, tracking, alerting, channels>>

\* The user removes or restores the delivery channels in the settings.
SetChannels ==
    /\ "channels" \in Faults
    /\ channels' = ~channels
    /\ UNCHANGED <<now, job, tracking, alerting>>

\* The daemon dies and starts again with an empty tracker.
Crash ==
    /\ "crash" \in Faults
    /\ job' = [a \in Accounts |-> NoJob]
    /\ memory' = [a \in Accounts |-> Nothing]
    /\ unlogged' = [a \in Accounts |->
          unlogged[a] \cup (IF At(a, "log") THEN {job[a].type} ELSE {})]
    /\ UNCHANGED <<now, row, last, high, log, sent, channels>>

TrackerStep(a) ==
    \/ StoreFails(a)
    \/ Query(a) \/ Create(a) \/ SetPeak(a) \/ Close(a) \/ Move(a) \/ Update(a)
AlertStep(a) ==
    \/ OnReset(a) \/ Check(a) \/ Send(a) \/ SendFails(a) \/ Log(a) \/ LogFails(a)

Next ==
    \/ \E a \in Accounts :
         Poll(a) \/ PollWithoutQuota(a) \/ TrackerStep(a) \/ AlertStep(a)
    \/ Tick \/ SetChannels \/ Crash

Spec == Init /\ [][Next]_vars

-----------------------------------------------------------------------------
(* Properties *)

\* The cycles of a quota do not overlap and are in order: a closed one ends no
\* earlier than it started, and the active one starts no earlier than the one
\* before it ended, although an end is the reported reset time and a start is
\* the time of a capture.
CyclesInOrder ==
    \A a \in Accounts :
        /\ last[a].start <= last[a].end
        /\ row[a].open => last[a].end <= row[a].start

\* No sample is lost: once it is processed, the peak of its cycle covers it,
\* across restarts and failed writes, and after the cycle is closed.
PeakCoversSamples ==
    \A a \in Accounts :
        /\ row[a].open => row[a].peak >= high[a]
        /\ last[a].peak >= last[a].high

\* The comment of sendNotification: "Each provider+quota+type combination fires
\* at most once per cycle", except when the entry that would stop the second
\* alert could not be written.
AtMostOncePerCycle ==
    \A a \in Accounts, t \in Types : sent[a][t] > 1 => t \in unlogged[a]

\* The comment of sendNotification: "The notification_log entry is cleared on
\* quota reset".  Between polls, what the log of an account holds was sent in
\* its active cycle, so that no entry of an earlier one holds an alert back.
LogIsOfThisCycle ==
    \A a \in Accounts :
        At(a, "idle") => \A t \in log[a] \ {"reset"} : sent[a][t] > 0
=============================================================================
