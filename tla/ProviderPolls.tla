---------------------------- MODULE ProviderPolls ----------------------------
(***************************************************************************)
(* The second half of poll, which the agents of internal/agent share: the  *)
(* snapshot that was fetched is stored, the tracker processes it, and the  *)
(* notifier is asked to alert.  The session manager, asked last, is in     *)
(* UsageSessions.  With it, the retention agent, which deletes old         *)
(* snapshots.                                                              *)
(*                                                                         *)
(* The provider is the only one of the installation.  Alerts are of one    *)
(* type, and the channel delivers them; CodexCycles has the channels.      *)
(***************************************************************************)
EXTENDS ProviderTrackers

CONSTANTS
    AlertAt,        \* used units at which the notifier alerts
    Grouped,        \* providers whose alerts are about a group of models: Antigravity,
                    \* and MiniMax as long as its models report the same quota
    Retention       \* ticks for which snapshots are kept: 100 days

ASSUME PollsAssumption ==
    /\ AlertAt \in 1 .. Cap /\ Retention \in Nat \ {0}
    /\ Grouped \in {{"antigravity"}, {"antigravity", "minimax"}}

VARIABLES
    snapshots,  \* the stored snapshots of the provider, oldest first
    alerts      \* the notification log of the quota, and history

PollVars == <<kind, rows, memory, quota, now, polled, faults, restarts, snapshots, alerts>>

\* has: the quota is in the snapshot.  row: history, the cycle that the tracker
\* counted it for.
Snapshot == [time : 1 .. MaxTime, used : 0 .. Cap, has : BOOLEAN, row : 0 .. MaxTime]

\* sent: history, the cycle the last alert was sent in.  missed: history, a cycle
\* was closed and the notifier was not told.
Alerts == [logged : BOOLEAN, sent : 0 .. MaxTime, missed : BOOLEAN]

PollsTypeOK ==
    /\ TrackerTypeOK
    /\ snapshots \in Seq(Snapshot)
    /\ alerts \in Alerts

PollsInit ==
    /\ TrackerInit
    /\ snapshots = <<>>
    /\ alerts = [logged |-> FALSE, sent |-> 0, missed |-> FALSE]

-----------------------------------------------------------------------------
(* What the polls of the agents do differently: whether a snapshot that      *)
(* could not be stored ends the poll, and what the notifier is asked about.  *)

Pipeline(unstored, alerted) == [unstored |-> unstored, alerted |-> alerted]

SyntheticPoll   == Pipeline("ends", TRUE)
AnthropicPoll   == Pipeline("ends", TRUE)
CopilotPoll     == Pipeline("goes on", TRUE)
ZaiPoll         == Pipeline("ends", TRUE)
AntigravityPoll == Pipeline("goes on", TRUE)
GeminiPoll      == Pipeline("ends", TRUE)
CodexPoll       == Pipeline("ends", TRUE)
ArkPoll         == Pipeline("ends", TRUE)
OpenCodePoll    == Pipeline("ends", TRUE)
CursorPoll      == Pipeline("goes on", TRUE)
GrokPoll        == Pipeline("ends", TRUE)
KimiPoll        == Pipeline("ends", TRUE)
MiniMaxPoll     == Pipeline("goes on", TRUE)
OpenRouterPoll  == Pipeline("ends", TRUE)
MoonshotPoll    == Pipeline("ends", FALSE)
DeepSeekPoll    == Pipeline("ends", FALSE)

Pipelines ==
    [k \in AllKinds |->
        CASE k = "synthetic"   -> SyntheticPoll
          [] k = "anthropic"   -> AnthropicPoll
          [] k = "copilot"     -> CopilotPoll
          [] k \in {"zai tokens", "zai time"} -> ZaiPoll
          [] k = "antigravity" -> AntigravityPoll
          [] k = "gemini"      -> GeminiPoll
          [] k = "codex"       -> CodexPoll
          [] k = "ark"         -> ArkPoll
          [] k = "opencode"    -> OpenCodePoll
          [] k = "cursor"      -> CursorPoll
          [] k = "grok"        -> GrokPoll
          [] k = "kimi"        -> KimiPoll
          [] k = "minimax"     -> MiniMaxPoll
          [] k = "openrouter"  -> OpenRouterPoll
          [] k = "moonshot"    -> MoonshotPoll
          [] k = "deepseek"    -> DeepSeekPoll]

\* The tables of snapshots: the values are columns of the row, or rows of a
\* second table that refer to it and go with it, or are deleted before it, or
\* stand in the way of its deletion.
SyntheticSnapshots   == "columns"
AnthropicSnapshots   == "refer"
CopilotSnapshots     == "refer"
ZaiSnapshots         == "columns"
AntigravitySnapshots == "refer"
GeminiSnapshots      == "refer"
CodexSnapshots       == "refer"
ArkSnapshots         == "deleted first"
OpenCodeSnapshots    == "refer"
CursorSnapshots      == "refer"
GrokSnapshots        == "refer"
KimiSnapshots        == "refer"
MiniMaxSnapshots     == "go along"
OpenRouterSnapshots  == "columns"
MoonshotSnapshots    == "columns"
DeepSeekSnapshots    == "columns"

Values ==
    [k \in AllKinds |->
        CASE k = "synthetic"   -> SyntheticSnapshots
          [] k = "anthropic"   -> AnthropicSnapshots
          [] k = "copilot"     -> CopilotSnapshots
          [] k \in {"zai tokens", "zai time"} -> ZaiSnapshots
          [] k = "antigravity" -> AntigravitySnapshots
          [] k = "gemini"      -> GeminiSnapshots
          [] k = "codex"       -> CodexSnapshots
          [] k = "ark"         -> ArkSnapshots
          [] k = "opencode"    -> OpenCodeSnapshots
          [] k = "cursor"      -> CursorSnapshots
          [] k = "grok"        -> GrokSnapshots
          [] k = "kimi"        -> KimiSnapshots
          [] k = "minimax"     -> MiniMaxSnapshots
          [] k = "openrouter"  -> OpenRouterSnapshots
          [] k = "moonshot"    -> MoonshotSnapshots
          [] k = "deepseek"    -> DeepSeekSnapshots]

-----------------------------------------------------------------------------
(* A poll whose fetch was answered *)

\* The snapshot is stored, in one transaction.
Stored(used, has, row) ==
    snapshots' = Append(snapshots, [time |-> now, used |-> used, has |-> has, row |-> row])

\* A reset of this sample closes a cycle.
Resets(s) == OpenRows # {} /\ Reset(rows[ActiveRow], memory, s)

\* This step closes a cycle.
Closes == \E i \in OpenRows : rows'[i].end # None

\* The cycle that is open after this step, or that will be the first.
CurrentCycle == Higher(1, Len(rows'))

\* A bug to detect: the log is cleared only while the quota is under the threshold.
ClearedLater(s) == IF Resets(s) /\ s.used < AlertAt THEN FALSE ELSE alerts.logged

\* onReset clears the log of the quota that was reset, which is not the log that
\* the alerts of a group are kept in.
Cleared(s) == IF Resets(s) /\ kind \notin Grouped THEN FALSE ELSE alerts.logged

\* Check: over the threshold an alert that is not in the log is sent and logged.
\* A snapshot from the status line of Claude Code is not checked.
Checked(s, checks) ==
    LET sends == checks /\ s.used >= AlertAt /\ ~Cleared(s) IN
    alerts' = [alerts EXCEPT !.logged = Cleared(s) \/ sends,
                             !.sent = IF sends THEN CurrentCycle ELSE @]
Checks ==
    IF ~Pipelines[kind].alerted THEN {FALSE}
    ELSE IF kind = "anthropic" THEN BOOLEAN
    ELSE {TRUE}

PollStores(s, complete) ==
    /\ Process(s, complete)
    /\ Stored(s.used, TRUE, Len(rows'))
    /\ \E checks \in Checks : Checked(s, checks)

\* The insert fails: most polls end here, some go on to the tracker.
PollEnds ==
    /\ ~polled
    /\ Pipelines[kind].unstored = "ends"
    /\ faults + restarts < MaxFaults
    /\ polled' = TRUE
    /\ faults' = faults + 1
    /\ UNCHANGED <<kind, rows, memory, quota, now, restarts, snapshots, alerts>>
PollGoesOn(s) ==
    /\ Pipelines[kind].unstored = "goes on"
    /\ faults + restarts < MaxFaults
    /\ Processed(s, TRUE)
    /\ faults' = faults + 1
    /\ \E checks \in Checks : Checked(s, checks)
    /\ UNCHANGED snapshots

\* The tracker fails, and the notifier is asked all the same.  If the failure is
\* between the close of a cycle and the end of the reset, onReset is not called.
PollTrackerFails(s) ==
    /\ ProcessFails(s)
    /\ Stored(s.used, TRUE, 0)
    /\ \E checks \in Checks :
          LET sends == checks /\ s.used >= AlertAt /\ ~alerts.logged IN
          alerts' = [alerts EXCEPT !.logged = @ \/ sends,
                                   !.sent = IF sends THEN CurrentCycle ELSE @,
                                   !.missed = @ \/ Closes]

PollWithoutQuota ==
    /\ Absent
    /\ Stored(0, FALSE, 0)
    /\ UNCHANGED alerts

\* Nothing tells the notifier that the cycle of a model that left was closed.
PollWithoutUse(listed, othersUsed) ==
    /\ ModelUnused(listed, othersUsed)
    /\ Stored(0, listed, 0)
    /\ alerts' = [alerts EXCEPT !.missed = @ \/ Closes]

\* A crash during the poll comes after the insert and before the check.
RestartPolls ==
    /\ RestartTracker
    /\ IF polled' = polled
       THEN UNCHANGED <<snapshots, alerts>>
       ELSE /\ Stored(quota.used, TRUE, 0)
            /\ alerts' = [alerts EXCEPT !.missed = @ \/ Closes]

-----------------------------------------------------------------------------
(* Retention *)

Old(snapshot) == snapshot.time < now - Retention

\* PruneSnapshotsOlderThan is one transaction, which fails where a value refers to
\* a snapshot.  Foreign keys are enforced on the connection that was opened first
\* only; on the other one the values stay behind.  Old snapshots come first.
AfterPrune(enforced) ==
    IF enforced /\ Values[kind] = "refer"
         /\ \E i \in DOMAIN snapshots : Old(snapshots[i]) /\ snapshots[i].has
    THEN snapshots
    ELSE LET old == Cardinality({i \in DOMAIN snapshots : Old(snapshots[i])})
         IN  SubSeq(snapshots, old + 1, Len(snapshots))

Prune(enforced) ==
    /\ \E i \in DOMAIN snapshots : Old(snapshots[i])
    /\ snapshots' = AfterPrune(enforced)
    /\ UNCHANGED <<kind, rows, memory, quota, now, polled, faults, restarts, alerts>>

PollsTick == Tick /\ UNCHANGED <<snapshots, alerts>>
PollsHorizon == Horizon /\ UNCHANGED <<snapshots, alerts>>

PollsNext ==
    \/ PollsTick \/ PollsHorizon
    \/ \E s \in Sample, complete \in BOOLEAN : PollStores(s, complete)
    \/ PollEnds
    \/ \E s \in Sample : PollGoesOn(s)
    \/ \E s \in Sample : PollTrackerFails(s)
    \/ PollWithoutQuota
    \/ \E listed, othersUsed \in BOOLEAN : PollWithoutUse(listed, othersUsed)
    \/ RestartPolls
    \/ \E enforced \in BOOLEAN : Prune(enforced)

PollsSpec == PollsInit /\ [][PollsNext]_PollVars

-----------------------------------------------------------------------------
(* Properties *)

\* The comment of sendNotification: "Each provider+quota+type combination fires at
\* most once per cycle.  The notification_log entry is cleared on quota reset".
\* Unless a reset was cut short, what the log of a quota holds was sent in the cycle
\* that is open, though the tracker, the agent and the engine each do a part of it.
AlertIsOfThisCycle ==
    kind \notin Grouped /\ ~alerts.missed /\ alerts.logged => alerts.sent = Higher(1, Len(rows))

\* The same of every quota.
EveryAlertIsOfThisCycle ==
    ~alerts.missed /\ alerts.logged => alerts.sent = Higher(1, Len(rows))

\* The comment of PruneSnapshotsOlderThan: it "deletes all provider snapshots whose
\* captured_at is before cutoff".  A run of the retention agent would leave none of
\* those, on whichever connection.
PruneDeletesOld ==
    \A enforced \in BOOLEAN : \A s \in ToSet(AfterPrune(enforced)) : ~Old(s)
=============================================================================
