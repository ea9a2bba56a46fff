--------------------------- MODULE UsageSessions ---------------------------
(***************************************************************************)
(* Usage sessions of one provider: internal/agent/session_manager.go, the  *)
(* rows of the sessions table it writes through internal/store/store.go,   *)
(* and the polling loops of internal/agent/agent.go that drive it.         *)
(*                                                                         *)
(* A run is one call of Run.  AgentManager cancels a run without waiting   *)
(* for it and hands the same agent, and so the same SessionManager, to the *)
(* next one, so the loops of two runs may overlap; a SessionManager has no *)
(* lock.  An action ends where a call of the store begins, with the        *)
(* arguments of the call, and the next one is the call and what follows.   *)
(*                                                                         *)
(* Sessions are numbered in the order in which their identifiers are       *)
(* drawn.  Usage is one number, and the time since the last activity       *)
(* stops counting once it exceeds the idle timeout.                        *)
(***************************************************************************)
EXTENDS Naturals

CONSTANTS
    Runs,          \* runs that may be there at a time
    Overlap,       \* a run may start before the one cancelled before it is gone
    Usage,         \* usage values the API reports
    Timeout,       \* idleTimeout
    MaxSessions,   \* bound: sessions begun in all
    MaxCount,      \* bound: snapshots counted for a session
    StoreFails,    \* writes to the sessions table may fail
    Crashes        \* the daemon may be killed

ASSUME SessionsAssumption ==
    /\ Overlap \in BOOLEAN
    /\ Usage \subseteq Nat
    /\ Timeout \in Nat
    /\ MaxSessions \in Nat
    /\ MaxCount \in Nat
    /\ StoreFails \in BOOLEAN
    /\ Crashes \in BOOLEAN

VARIABLES
    booted,      \* main has closed the sessions of the previous process
    run,         \* where each run is
    issued,      \* identifiers drawn so far
    row,         \* the sessions table
    session,     \* sessionID
    idle,        \* time since lastActivityTime
    prev,        \* prevValues, none before the first poll
    unclosed,    \* history: open rows whose closing failed
    missed       \* history: rows that missed a maximum

manager == <<issued, session, idle, prev>>
table   == <<row, unclosed, missed>>
vars    == <<booted, run, manager, table>>

NoSession == 0
Sessions  == 1 .. MaxSessions
Unknown   == {}

\* A run is not there; in the select of its loop; in a poll before ReportPoll;
\* or in a call of the store, for the session and the usage it was given.
Points == {"absent", "select", "poll", "create", "increment", "max", "close", "exit"}
Run    == [pc : Points, cancelled : BOOLEAN, usage : Usage \cup {0},
           id : Sessions \cup {NoSession}]
Absent == [pc |-> "absent", cancelled |-> FALSE, usage |-> 0, id |-> NoSession]

Row   == [state : {"none", "open", "closed"}, max : Usage \cup {0}, count : 0 .. MaxCount]
NoRow == [state |-> "none", max |-> 0, count |-> 0]

TypeOK ==
    /\ booted \in BOOLEAN
    /\ run \in [Runs -> Run]
    /\ issued \in 0 .. MaxSessions
    /\ row \in [Sessions -> Row]
    /\ session \in 0 .. issued
    /\ idle \in 0 .. (Timeout + 1)
    /\ prev \in {Unknown} \cup {{u} : u \in Usage}
    /\ unclosed \subseteq Sessions
    /\ missed \subseteq Sessions

Init ==
    /\ booted = FALSE
    /\ run = [r \in Runs |-> Absent]
    /\ issued = 0
    /\ row = [s \in Sessions |-> NoRow]
    /\ session = NoSession
    /\ idle = 0
    /\ prev = Unknown
    /\ unclosed = {}
    /\ missed = {}

Goto(r, point) ==
    run' = [run EXCEPT ![r] = [Absent EXCEPT !.pc = point, !.cancelled = run[r].cancelled]]
Call(r, point, s) == run' = [run EXCEPT ![r].pc = point, ![r].id = s]
Open(s) == s \in Sessions /\ row[s].state = "open"

-----------------------------------------------------------------------------
(* The polling loop *)

\* CloseOrphanedSessions, before any agent is started.
Boot ==
    /\ ~booted
    /\ booted' = TRUE
    /\ \/ /\ row' = [s \in Sessions |->
                       IF Open(s) THEN [row[s] EXCEPT !.state = "closed"] ELSE row[s]]
          /\ unclosed' = {}
       \/ /\ StoreFails
          /\ UNCHANGED row
          /\ unclosed' = {s \in Sessions : Open(s)}
    /\ UNCHANGED <<run, manager, missed>>

\* Run polls at once.  The manager starts it when no run is tracked.
StartRun(r) ==
    /\ booted
    /\ run[r].pc = "absent"
    /\ \A q \in Runs : run[q].pc = "absent" \/ (Overlap /\ run[q].cancelled)
    /\ run' = [run EXCEPT ![r] = [Absent EXCEPT !.pc = "poll"]]
    /\ UNCHANGED <<booted, manager, table>>

\* The manager cancels the context of the run and does not wait.
CancelRun(r) ==
    /\ run[r].pc # "absent"
    /\ ~run[r].cancelled
    /\ run' = [run EXCEPT ![r].cancelled = TRUE]
    /\ UNCHANGED <<booted, manager, table>>

\* The ticker fires.  A cancelled run may still take this case of the select.
NextPoll(r) ==
    /\ run[r].pc = "select"
    /\ Goto(r, "poll")
    /\ UNCHANGED <<booted, manager, table>>

\* Polling is disabled, the fetch fails or the snapshot cannot be stored: the
\* session manager hears nothing of this poll.
PollWithoutReport(r) ==
    /\ run[r].pc = "poll"
    /\ Goto(r, "select")
    /\ UNCHANGED <<booted, manager, table>>

\* Run returns, and its deferred call closes the session if there is one.
ReturnFromRun(r) ==
    /\ run[r].pc = "select"
    /\ run[r].cancelled
    /\ IF session = NoSession
       THEN run' = [run EXCEPT ![r] = Absent]
       ELSE Call(r, "exit", session)
    /\ UNCHANGED <<booted, manager, table>>

-----------------------------------------------------------------------------
(* ReportPoll and Close *)

\* The first poll is the baseline.
ReportBaseline(r) ==
    /\ run[r].pc = "poll"
    /\ prev = Unknown
    /\ \E u \in Usage : prev' = {u}
    /\ Goto(r, "select")
    /\ UNCHANGED <<booted, issued, session, idle, table>>

\* A bug to detect: the new values are appended to the old ones.
ReportChangeAppends(r) ==
    /\ run[r].pc = "poll"
    /\ session = NoSession /\ issued < MaxSessions
    /\ \E u \in Usage \ prev :
         /\ prev' = prev \cup {u}
         /\ run' = [run EXCEPT ![r] = [@ EXCEPT !.pc = "create", !.usage = u, !.id = issued + 1]]
    /\ issued' = issued + 1
    /\ session' = issued'
    /\ idle' = 0
    /\ UNCHANGED <<booted, table>>

\* Usage has changed: a session begins, or the active one goes on.
ReportChange(r) ==
    /\ run[r].pc = "poll"
    /\ prev # Unknown
    /\ IF session = NoSession
       THEN issued < MaxSessions /\ issued' = issued + 1 /\ session' = issued + 1
       ELSE UNCHANGED <<issued, session>>
    /\ \E u \in Usage \ prev :
         /\ prev' = {u}
         /\ run' = [run EXCEPT ![r] =
                      [@ EXCEPT !.pc = IF session = NoSession THEN "create" ELSE "increment",
                                !.usage = u, !.id = session']]
    /\ idle' = 0
    /\ UNCHANGED <<booted, table>>

\* A bug to detect: every poll counts as activity.
ReportNoChangeAsActivity(r) ==
    /\ run[r].pc = "poll"
    /\ prev # Unknown
    /\ Goto(r, "select")
    /\ idle' = 0
    /\ UNCHANGED <<booted, issued, session, prev, table>>

\* Usage has not changed: an active session is counted, or has been idle for
\* too long and ends.
ReportNoChange(r) ==
    /\ run[r].pc = "poll"
    /\ \E u \in prev :
         IF session = NoSession
         THEN Goto(r, "select")
         ELSE run' = [run EXCEPT ![r] =
                       [@ EXCEPT !.pc = IF idle > Timeout THEN "close" ELSE "increment",
                                 !.usage = u, !.id = session]]
    /\ UNCHANGED <<booted, manager, table>>

\* A bug to detect: the report that creates a session is not counted for it.
CreateOnly(r) ==
    /\ run[r].pc = "create"
    /\ row' = [row EXCEPT ![run[r].id] = [NoRow EXCEPT !.state = "open"]]
    /\ Goto(r, "select")
    /\ UNCHANGED <<booted, manager, unclosed, missed>>

\* CreateSession.  When it fails the manager forgets the session it drew.
Create(r) ==
    /\ run[r].pc = "create"
    /\ \/ /\ row' = [row EXCEPT ![run[r].id] = [NoRow EXCEPT !.state = "open"]]
          /\ Call(r, "increment", session)
          /\ UNCHANGED session
       \/ /\ StoreFails
          /\ session' = NoSession
          /\ Goto(r, "select")
          /\ UNCHANGED row
    /\ UNCHANGED <<booted, issued, idle, prev, unclosed, missed>>

\* The UPDATE of IncrementSnapshotCount and that of UpdateSessionMaxRequests
\* find a row, open or closed.
HasRow(s) == s \in Sessions /\ row[s].state # "none"

\* IncrementSnapshotCount; an error is only logged.
Increment(r) ==
    /\ run[r].pc = "increment"
    /\ LET s == run[r].id IN
       \/ row' = IF HasRow(s) /\ row[s].count < MaxCount
                 THEN [row EXCEPT ![s].count = @ + 1] ELSE row
       \/ StoreFails /\ UNCHANGED row
    /\ Call(r, "max", session)
    /\ UNCHANGED <<booted, manager, unclosed, missed>>

\* UpdateSessionMaxRequests; an error is only logged.
UpdateMax(r) ==
    /\ run[r].pc = "max"
    /\ LET s == run[r].id IN
       \/ /\ row' = IF HasRow(s) /\ row[s].max < run[r].usage
                    THEN [row EXCEPT ![s].max = run[r].usage] ELSE row
          /\ UNCHANGED missed
       \/ /\ StoreFails
          /\ missed' = missed \cup ({s} \ {NoSession})
          /\ UNCHANGED row
    /\ Goto(r, "select")
    /\ UNCHANGED <<booted, manager, unclosed>>

\* Where a run goes once it has closed the session.
AfterClose(r) ==
    IF run[r].pc = "exit" THEN run' = [run EXCEPT ![r] = Absent] ELSE Goto(r, "select")

\* CloseSession of the store
EndRow(s) == row' = IF HasRow(s) THEN [row EXCEPT ![s].state = "closed"] ELSE row

\* A bug to detect: the session is closed and not forgotten.
CloseAndKeep(r) ==
    /\ run[r].pc \in {"close", "exit"}
    /\ EndRow(run[r].id)
    /\ AfterClose(r)
    /\ UNCHANGED <<booted, manager, unclosed, missed>>

\* A bug to detect: the session is forgotten and not closed.
ForgetOnly(r) ==
    /\ run[r].pc \in {"close", "exit"}
    /\ session' = NoSession
    /\ AfterClose(r)
    /\ UNCHANGED <<booted, issued, idle, prev, table>>

\* closeSession: the manager forgets the session it then has, whether or not
\* CloseSession succeeded.
CloseSession(r) ==
    /\ run[r].pc \in {"close", "exit"}
    /\ \/ EndRow(run[r].id) /\ UNCHANGED unclosed
       \/ /\ StoreFails
          /\ unclosed' = unclosed \cup {s \in {run[r].id} : Open(s)}
          /\ UNCHANGED row
    /\ session' = NoSession
    /\ AfterClose(r)
    /\ UNCHANGED <<booted, issued, idle, prev, missed>>

-----------------------------------------------------------------------------

Tick ==
    /\ session # NoSession
    /\ idle <= Timeout
    /\ idle' = idle + 1
    /\ UNCHANGED <<booted, run, issued, session, prev, table>>

\* The process is killed, or main closes the database before the runs are
\* gone; the next process starts.
Crash ==
    /\ Crashes
    /\ booted
    /\ booted' = FALSE
    /\ run' = [r \in Runs |-> Absent]
    /\ session' = NoSession
    /\ idle' = 0
    /\ prev' = Unknown
    /\ UNCHANGED <<issued, table>>

Poll(r) ==
    \/ PollWithoutReport(r)
    \/ ReportBaseline(r) \/ ReportChange(r) \/ ReportNoChange(r)
Write(r) == Create(r) \/ Increment(r) \/ UpdateMax(r) \/ CloseSession(r)

RunStep(r) == NextPoll(r) \/ ReturnFromRun(r) \/ Poll(r) \/ Write(r)

Next ==
    \/ Boot
    \/ \E r \in Runs : StartRun(r) \/ CancelRun(r) \/ RunStep(r)
    \/ Tick
    \/ Crash

Spec == Init /\ [][Next]_vars

\* A loop runs on and time passes.  Whether a poll reports anything is not ours
\* to promise.
FairSpec ==
    /\ Spec
    /\ WF_vars(Tick)
    /\ \A r \in Runs : WF_vars(RunStep(r))

-----------------------------------------------------------------------------
(* Properties *)

\* An open row is the session the manager has, or one whose closing failed: a
\* provider has at most one open session unless the database fails, whatever
\* crash, stop or restart comes between.  The comment "Ensure any active session
\* is closed on exit" of Run claims as much of overlapping runs too.
OpenSessionIsTracked ==
    booted => \A s \in Sessions : Open(s) => s = session \/ s \in unclosed

\* A closed session is final: nothing is counted for it afterwards, and it is
\* not opened again.
ClosedIsFinal ==
    [][\A s \in Sessions : row[s].state = "closed" => row'[s] = row[s]]_vars

\* Between polls, the row of the session the manager has is open, and its maximum
\* covers the usage last reported, unless the write of one was lost.
MaxCoversUsage ==
    \A r \in Runs :
        run[r].pc = "select" /\ session # NoSession =>
            Open(session) /\ (session \in missed \/ \A u \in prev : row[session].max >= u)

\* The comment of SessionManager: a session "closes after an idle timeout with
\* no further changes".  If usage stops changing while polls go on to report it,
\* the session ends and none begins.
UsageChanges == \E r \in Runs : ReportChange(r)
UsageRests   == \E r \in Runs : ReportNoChange(r)

IdleSessionEnds ==
    <>[][~UsageChanges]_vars /\ []<><<UsageRests>>_vars => <>[](session = NoSession)
=============================================================================
