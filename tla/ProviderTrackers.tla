-------------------------- MODULE ProviderTrackers --------------------------
(***************************************************************************)
(* The trackers of internal/tracker that turn the snapshots of a provider  *)
(* into usage cycles.  The one of Codex is here for a single account and   *)
(* between two of its calls; CodexCycles has the calls.                    *)
(*                                                                         *)
(* They share one shape and differ in four rules: what tells that a quota  *)
(* was reset, which statistics of the old cycle are written when it is     *)
(* closed, when a sample of the same cycle is written, and what the        *)
(* summary adds up.  The shape is the action Process; each provider has    *)
(* its rules, named after it.  One quota of one provider is followed: the  *)
(* trackers share no state, and each is called by the loop of one agent.   *)
(*                                                                         *)
(* A tick stands for the time between two polls.  Used units stand for     *)
(* requests, percent or currency; a unit is more than the 0.1 and 0.02 by  *)
(* which a remaining fraction must rise, and the 2 percent by which the    *)
(* utilization of Codex must fall, to count as a reset.                    *)
(***************************************************************************)
EXTENDS Integers, FiniteSets, SequencesExt

CONSTANTS
    Kinds,        \* the trackers that are looked at
    Grace,        \* ticks by which a stored reset must have passed: 2 minutes
    Drift,        \* ticks by which a reported reset may move: 10 minutes
    WideDrift,    \* the same for Ark, OpenCode (90 minutes), Gemini and Codex (60)
    Hour,         \* ticks in an hour, which Synthetic truncates to
    Window,       \* ticks from one reset to the next
    Cap,          \* limit of the quota, and the balance after a recharge
    MaxTime,      \* bound: ticks
    MaxFaults     \* bound: store calls that fail, and restarts

AllKinds ==
    {"synthetic", "anthropic", "copilot", "zai tokens", "zai time", "antigravity",
     "gemini", "codex", "ark", "opencode", "cursor", "grok", "kimi", "minimax",
     "openrouter", "moonshot", "deepseek"}

ASSUME TrackersAssumption ==
    /\ Kinds \subseteq AllKinds
    /\ Grace \in Nat /\ Drift \in Nat \ {0} /\ WideDrift \in Nat \ {0}
    /\ Hour \in Nat \ {0} /\ Window \in Nat \ {0} /\ Cap \in Nat \ {0}
    /\ WideDrift + 1 < Window /\ Drift + 1 < Window /\ Hour <= Window
    /\ MaxTime \in Nat \ {0} /\ MaxFaults \in Nat

VARIABLES
    kind,       \* the provider this behaviour is about
    rows,       \* the reset cycles of the quota, in the order of their creation
    memory,     \* what the tracker remembers of the last snapshot
    quota,      \* the provider's side: window, reset, used units, units ever used;
                \* whether the reset it tells rolls on with the time
    now,        \* the time
    polled,     \* the agent has polled at this tick
    faults,     \* history: polls that a store call ended early
    restarts    \* history: restarts of the daemon

TrackerVars == <<kind, rows, memory, quota, now, polled, faults, restarts>>

None == 0       \* no reset reported, and the end of an open cycle

\* Providers that report a reset, and the ones whose report may move a little.
NoReset == {"zai time", "grok", "openrouter", "moonshot", "deepseek"}
Jitters == {"anthropic", "antigravity", "gemini", "codex", "ark", "opencode", "cursor", "minimax"}
Balance == {"moonshot", "deepseek"}

\* Trackers with one variable for the last value, instead of a map that may
\* have no entry for a quota.
OneValue == {"synthetic", "zai tokens", "zai time"} \cup {"openrouter", "moonshot", "deepseek"}

Forgotten == [has |-> FALSE, known |-> FALSE, used |-> 0, resets |-> None]

Row == [start : 1 .. MaxTime, end : 0 .. MaxTime, resets : 0 .. MaxTime + Window + 1,
        peak : 0 .. Cap, delta : Nat, top : 0 .. Cap, windows : SUBSET (1 .. MaxTime)]

TrackerTypeOK ==
    /\ kind \in Kinds
    /\ rows \in Seq(Row)
    /\ memory \in [has : BOOLEAN, known : BOOLEAN, used : 0 .. Cap, resets : 0 .. MaxTime + Window + 1]
    /\ quota.used \in 0 .. Cap /\ quota.ever \in 0 .. Cap * MaxTime
    /\ now \in 1 .. MaxTime
    /\ polled \in BOOLEAN
    /\ faults + restarts \in 0 .. MaxFaults

TrackerInit ==
    /\ kind \in Kinds
    /\ rows = <<>>
    /\ memory = Forgotten
    /\ \E rolls \in IF kind = "synthetic" THEN BOOLEAN ELSE {FALSE} :
         quota = [window |-> 1, reset |-> Window, used |-> 0, ever |-> 0, rolls |-> rolls]
    /\ now = 1
    /\ polled = FALSE
    /\ faults = 0 /\ restarts = 0

-----------------------------------------------------------------------------
(* The provider, as its answers show it *)

\* Time passes and units are used; at its reset time a new window begins.
Tick ==
    /\ now < MaxTime
    /\ now' = now + 1
    /\ polled' = FALSE
    /\ \E units \in 0 .. Cap :
         IF now + 1 < quota.reset
         THEN /\ quota.used + units <= Cap
              /\ quota' = [quota EXCEPT !.used = @ + units, !.ever = @ + units]
         ELSE quota' = [quota EXCEPT !.window = @ + 1, !.reset = @ + Window,
                                     !.used = units, !.ever = @ + units]
    /\ UNCHANGED <<kind, rows, memory, faults, restarts>>

\* The end of the bound on time.
Horizon == now = MaxTime /\ polled /\ UNCHANGED TrackerVars

\* What a snapshot may say of the reset; a quota that is not in use may have none.
\* Of some quotas Synthetic says "now + 1 hour", which moves with every poll.
Reported ==
    IF kind \in NoReset THEN {None}
    ELSE IF quota.rolls THEN {now + Hour}
    ELSE {quota.reset}
           \cup (IF kind \in Jitters THEN {quota.reset + 1} ELSE {})
           \cup (IF kind \in Jitters /\ quota.used = 0 THEN {None} ELSE {})

Sample == [used : {quota.used}, resets : Reported]

-----------------------------------------------------------------------------
(* What tells that a quota was reset.  c is the active cycle, m the memory,  *)
(* s the sample.                                                             *)

Apart(a, b) == IF a < b THEN b - a ELSE a - b
Passed(c, grace) == c.resets # None /\ now > c.resets + grace
Moved(c, s, tolerance) ==
    s.resets # None /\ (c.resets = None \/ Apart(s.resets, c.resets) > tolerance)
Risen(m, s) == m.known /\ s.used < m.used
Money(used) == Cap - used

SyntheticReset(c, m, s) ==
    Passed(c, Grace) \/ c.resets \div Hour # s.resets \div Hour

\* A bug to detect: only the reset time in memory is looked at.
RememberedReset(c, m, s) == m.known /\ m.resets # None /\ s.resets # m.resets

AnthropicReset(c, m, s) == Passed(c, Grace) \/ Moved(c, s, Drift)
CursorReset(c, m, s)    == Passed(c, Grace) \/ Moved(c, s, Drift)
ZaiTokensReset(c, m, s) == Passed(c, Grace) \/ Moved(c, s, 0)

\* A stored reset that has passed says nothing while a later one is reported.
ArkReset(c, m, s) ==
    \/ Passed(c, Grace) /\ ~(s.resets # None /\ s.resets > now)
    \/ Moved(c, s, WideDrift)
OpenCodeReset(c, m, s) ==
    \/ Passed(c, Grace) /\ ~(s.resets # None /\ s.resets > now)
    \/ Moved(c, s, WideDrift)

CopilotReset(c, m, s) ==
    \/ m.known /\ m.resets # None /\ s.resets # None /\ s.resets # m.resets
    \/ Passed(c, 0) /\ Risen(m, s)
AntigravityReset(c, m, s) ==
    \/ s.resets # None /\ m.resets # None /\ Apart(s.resets, m.resets) > Drift
    \/ m.has /\ Risen(m, s)
    \/ Passed(c, 0) /\ Risen(m, s)
GeminiReset(c, m, s) ==
    LET reference == IF m.resets # None THEN m.resets ELSE c.resets IN
    \/ Passed(c, Grace)
    \/ /\ s.resets # None /\ c.resets # None
       /\ Apart(s.resets, reference) > WideDrift
       /\ m.has /\ Risen(m, s)
CodexReset(c, m, s) ==
    LET reference == IF m.resets # None THEN m.resets ELSE c.resets IN
    \/ Passed(c, Grace)
    \/ /\ s.resets # None /\ c.resets # None
       /\ Apart(s.resets, reference) > WideDrift
       /\ m.has /\ Risen(m, s)
MiniMaxReset(c, m, s) ==
    \/ s.resets # None /\ m.resets # None /\ Apart(s.resets, m.resets) > Drift
    \/ m.has /\ m.known /\ m.used > 0 /\ s.used < (m.used * 6) \div 10

\* A value of a quota that the map does not have reads as zero.
Halved(m, s)     == m.has /\ m.used > 0 /\ 2 * s.used < m.used
Recharged(m, s)  ==
    m.has /\ IF Money(m.used) > 0 THEN 2 * Money(s.used) >= 3 * Money(m.used)
                                  ELSE Money(s.used) > 0

ZaiTimeReset(c, m, s)    == Halved(m, s)
GrokReset(c, m, s)       == Halved(m, s)
KimiReset(c, m, s) ==
    \/ Halved(m, s)
    \/ /\ s.resets # None /\ m.resets # None /\ s.resets > m.resets
       /\ \/ s.used = 0
          \/ m.has /\ s.used < m.used
OpenRouterReset(c, m, s) == Halved(m, s)
MoonshotReset(c, m, s)   == Recharged(m, s)
DeepSeekReset(c, m, s)   == Recharged(m, s)

Reset(c, m, s) ==
    CASE kind = "synthetic"   -> SyntheticReset(c, m, s)
      [] kind = "anthropic"   -> AnthropicReset(c, m, s)
      [] kind = "copilot"     -> CopilotReset(c, m, s)
      [] kind = "zai tokens"  -> ZaiTokensReset(c, m, s)
      [] kind = "zai time"    -> ZaiTimeReset(c, m, s)
      [] kind = "antigravity" -> AntigravityReset(c, m, s)
      [] kind = "gemini"      -> GeminiReset(c, m, s)
      [] kind = "codex"       -> CodexReset(c, m, s)
      [] kind = "ark"         -> ArkReset(c, m, s)
      [] kind = "opencode"    -> OpenCodeReset(c, m, s)
      [] kind = "cursor"      -> CursorReset(c, m, s)
      [] kind = "grok"        -> GrokReset(c, m, s)
      [] kind = "kimi"        -> KimiReset(c, m, s)
      [] kind = "minimax"     -> MiniMaxReset(c, m, s)
      [] kind = "openrouter"  -> OpenRouterReset(c, m, s)
      [] kind = "moonshot"    -> MoonshotReset(c, m, s)
      [] kind = "deepseek"    -> DeepSeekReset(c, m, s)

-----------------------------------------------------------------------------
(* What is written.  A closed cycle ends at the stored reset if that has     *)
(* passed, or at the capture; it is closed with statistics that do or do not *)
(* count the sample; a sample of the same cycle is written always, unless    *)
(* the tracker has a last snapshot without it, or never.                     *)

Rule(ends, counts, same) == [ends |-> ends, counts |-> counts, same |-> same]

SyntheticRule   == Rule("reset", {"delta"}, "always")
AnthropicRule   == Rule("reset", {"delta", "peak"}, "always")
CopilotRule     == Rule("reset", {}, "always")
ZaiTokensRule   == Rule("reset", {"delta", "peak"}, "always")
ZaiTimeRule     == Rule("capture", {}, "always")
AntigravityRule == Rule("reset", {}, "always")
GeminiRule      == Rule("reset", {"delta", "peak"}, "if known")
CodexRule       == Rule("reset", {"delta", "peak"}, "if known")
ArkRule         == Rule("reset", {"delta", "peak"}, "always")
OpenCodeRule    == Rule("reset", {"delta", "peak"}, "always")
CursorRule      == Rule("reset", {"delta", "peak"}, "always")
GrokRule        == Rule("capture", {}, "never")
KimiRule        == Rule("capture", {}, "never")
MiniMaxRule     == Rule("reset", {}, "always")
OpenRouterRule  == Rule("capture", {}, "always")
MoonshotRule    == Rule("capture", {}, "always")
DeepSeekRule    == Rule("capture", {}, "always")

Rules ==
    [k \in AllKinds |->
        CASE k = "synthetic"   -> SyntheticRule
          [] k = "anthropic"   -> AnthropicRule
          [] k = "copilot"     -> CopilotRule
          [] k = "zai tokens"  -> ZaiTokensRule
          [] k = "zai time"    -> ZaiTimeRule
          [] k = "antigravity" -> AntigravityRule
          [] k = "gemini"      -> GeminiRule
          [] k = "codex"       -> CodexRule
          [] k = "ark"         -> ArkRule
          [] k = "opencode"    -> OpenCodeRule
          [] k = "cursor"      -> CursorRule
          [] k = "grok"        -> GrokRule
          [] k = "kimi"        -> KimiRule
          [] k = "minimax"     -> MiniMaxRule
          [] k = "openrouter"  -> OpenRouterRule
          [] k = "moonshot"    -> MoonshotRule
          [] k = "deepseek"    -> DeepSeekRule]

\* A bug to detect: what is measured is added to what was measured before.
AddedMeasure(s) == s.used + memory.used

\* What a cycle records of a sample.
Measure(s) == IF kind \in Balance THEN Money(s.used) ELSE s.used
Higher(a, b) == IF a > b THEN a ELSE b

\* A bug to detect: a value that is not known counts as zero.
SpentSinceZero(m, s) == IF s.used > m.used THEN s.used - m.used ELSE 0

Spent(m, s) == IF m.has /\ m.known /\ s.used > m.used THEN s.used - m.used ELSE 0

\* Grok stores no reset time.
NewRow(s) ==
    [start |-> now, end |-> None, resets |-> IF kind = "grok" THEN None ELSE s.resets,
     peak |-> 0, delta |-> 0, top |-> 0, windows |-> {}]

\* History: a sample that was processed belongs to the cycle.
Noted(c, s) ==
    [c EXCEPT !.top = Higher(@, Measure(s)),
              !.windows = IF s.used > 0 THEN @ \cup {quota.window} ELSE @]

\* A bug to detect: a cycle ends at its stored reset even if that is to come.
ClosedAtReset(c, m, s) == [c EXCEPT !.end = IF c.resets # None THEN c.resets ELSE now]

Closed(c, m, s) ==
    LET rule == Rules[kind] IN
    [c EXCEPT
       !.end   = IF rule.ends = "reset" /\ Passed(c, 0) THEN c.resets ELSE now,
       !.delta = IF "delta" \in rule.counts THEN @ + Spent(m, s) ELSE @,
       !.peak  = IF "peak" \in rule.counts /\ m.has /\ m.known THEN Higher(@, Measure(s)) ELSE @]

\* A bug to detect: the latest value takes the place of the peak.
UpdatedToLatest(c, m, s) == [c EXCEPT !.peak = Measure(s), !.delta = @ + Spent(m, s)]

Updated(c, m, s) ==
    LET rule == Rules[kind]
        written == /\ rule.same # "never"
                   /\ ~(rule.same = "if known" /\ m.has /\ ~m.known)
    IN  IF written
        THEN [c EXCEPT !.peak = Higher(@, Measure(s)), !.delta = @ + Spent(m, s)]
        ELSE c

-----------------------------------------------------------------------------
(* The tables of cycles.  Close and Update write every open row of the quota,  *)
(* or the row with the id that was read; the active cycle is the newest open   *)
(* row, or the first that is found; the history is the closed rows.            *)

Table(writes, picks) == [writes |-> writes, picks |-> picks]

SyntheticTable   == Table("open rows", "first")
AnthropicTable   == Table("open rows", "first")
CopilotTable     == Table("open rows", "first")
ZaiTable         == Table("open rows", "first")
AntigravityTable == Table("open rows", "newest")
GeminiTable      == Table("open rows", "first")
CodexTable       == Table("open rows", "first")
ArkTable         == Table("open rows", "first")
OpenCodeTable    == Table("open rows", "first")
CursorTable      == Table("open rows", "first")
GrokTable        == Table("row", "newest")
KimiTable        == Table("row", "newest")
MiniMaxTable     == Table("open rows", "newest")
OpenRouterTable  == Table("open rows", "first")
MoonshotTable    == Table("open rows", "first")
DeepSeekTable    == Table("open rows", "first")

Tables ==
    [k \in AllKinds |->
        CASE k = "synthetic"   -> SyntheticTable
          [] k = "anthropic"   -> AnthropicTable
          [] k = "copilot"     -> CopilotTable
          [] k \in {"zai tokens", "zai time"} -> ZaiTable
          [] k = "antigravity" -> AntigravityTable
          [] k = "gemini"      -> GeminiTable
          [] k = "codex"       -> CodexTable
          [] k = "ark"         -> ArkTable
          [] k = "opencode"    -> OpenCodeTable
          [] k = "cursor"      -> CursorTable
          [] k = "grok"        -> GrokTable
          [] k = "kimi"        -> KimiTable
          [] k = "minimax"     -> MiniMaxTable
          [] k = "openrouter"  -> OpenRouterTable
          [] k = "moonshot"    -> MoonshotTable
          [] k = "deepseek"    -> DeepSeekTable]

OpenRows == {i \in DOMAIN rows : rows[i].end = None}
ActiveRow ==
    CHOOSE i \in OpenRows :
        \A j \in OpenRows : IF Tables[kind].picks = "newest" THEN i >= j ELSE i <= j

\* The table once c is written over the active cycle.
Written(c) ==
    [i \in DOMAIN rows |->
        IF i = ActiveRow THEN c
        ELSE IF Tables[kind].writes = "open rows" /\ i \in OpenRows
        THEN [rows[i] EXCEPT !.end = c.end, !.resets = c.resets, !.peak = c.peak, !.delta = c.delta]
        ELSE rows[i]]

\* Trackers that write the reset time of a sample to the open cycle.
Movers == {"gemini", "codex"}

\* The table after each of the store calls that Process makes.
Opened(before, s) ==
    LET row == [NewRow(s) EXCEPT !.peak = Measure(s)]
    IN  IF kind \in {"grok", "kimi"}
        THEN <<Append(before, Noted(row, s))>>
        ELSE <<Append(before, NewRow(s)), Append(before, Noted(row, s))>>
StoreCalls(s) ==
    IF OpenRows = {} THEN Opened(rows, s)
    ELSE LET c == rows[ActiveRow]
             closed == Written(Closed(c, memory, s))
             moved  == [c EXCEPT !.resets = IF s.resets # None THEN s.resets ELSE @]
         IN  IF Reset(c, memory, s) THEN <<closed>> \o Opened(closed, s)
             ELSE IF kind \in Movers
             THEN <<Written(moved), Written(Noted(Updated(moved, memory, s), s))>>
             ELSE <<Written(Noted(Updated(c, memory, s), s))>>

-----------------------------------------------------------------------------
(* Process *)

Remembered(s, complete) ==
    [has |-> memory.has \/ complete, known |-> TRUE, used |-> s.used,
     resets |-> IF s.resets # None THEN s.resets ELSE memory.resets]

\* The quota is processed; the snapshot is complete unless a later quota of it
\* fails, and only then does the tracker take it for a last snapshot.
Processed(s, complete) ==
    /\ ~polled
    /\ rows' = Last(StoreCalls(s))
    /\ memory' = Remembered(s, complete)
    /\ polled' = TRUE
    /\ UNCHANGED <<kind, quota, now, restarts>>

Process(s, complete) ==
    /\ complete \/ faults + restarts < MaxFaults
    /\ Processed(s, complete)
    /\ faults' = IF complete THEN faults ELSE faults + 1

\* A store call fails: the calls before it stand and nothing is remembered, but
\* for the reset time that Gemini and Codex move.
ProcessFails(s) ==
    /\ ~polled
    /\ faults + restarts < MaxFaults
    /\ \E i \in 0 .. (Len(StoreCalls(s)) - 1) :
         /\ rows' = IF i = 0 THEN rows ELSE StoreCalls(s)[i]
         /\ memory' = IF kind \in Movers /\ OpenRows # {} /\ ~Reset(rows[ActiveRow], memory, s)
                         /\ i = 1 /\ s.resets # None
                      THEN [memory EXCEPT !.resets = s.resets] ELSE memory
    /\ polled' = TRUE
    /\ faults' = faults + 1
    /\ UNCHANGED <<kind, quota, now, restarts>>

\* A snapshot without the quota.
Absent ==
    /\ ~polled
    /\ kind \notin OneValue /\ kind # "minimax"
    /\ memory' = [memory EXCEPT !.has = TRUE]
    /\ polled' = TRUE
    /\ UNCHANGED <<kind, rows, quota, now, faults, restarts>>

\* A model of MiniMax that is listed with no units, or not at all.  The cycles
\* of models that are not in use are closed if any model is.
ModelUnused(listed, othersUsed) ==
    /\ ~polled
    /\ kind = "minimax"
    /\ memory' = [memory EXCEPT !.has = @ \/ listed]
    /\ rows' = IF othersUsed /\ OpenRows # {}
               THEN Written([rows[ActiveRow] EXCEPT !.end = now]) ELSE rows
    /\ polled' = TRUE
    /\ UNCHANGED <<kind, quota, now, faults, restarts>>

\* The daemon stops, or is killed between two store calls, and starts again.
RestartTracker ==
    /\ faults + restarts < MaxFaults
    /\ \/ UNCHANGED <<rows, polled>>
       \/ /\ ~polled
          /\ \/ UNCHANGED rows
             \/ \E s \in Sample : \E i \in DOMAIN StoreCalls(s) : rows' = StoreCalls(s)[i]
          /\ polled' = TRUE
    /\ memory' = Forgotten
    /\ restarts' = restarts + 1
    /\ UNCHANGED <<kind, quota, now, faults>>

TrackerNext ==
    \/ Tick \/ Horizon
    \/ \E s \in Sample, complete \in BOOLEAN : Process(s, complete)
    \/ \E s \in Sample : ProcessFails(s)
    \/ Absent
    \/ \E listed, othersUsed \in BOOLEAN : ModelUnused(listed, othersUsed)
    \/ RestartTracker

TrackerSpec == TrackerInit /\ [][TrackerNext]_TrackerVars

-----------------------------------------------------------------------------
(* What UsageSummary tells the dashboard of a quota; rates and projections   *)
(* are left out.  The peak is that of a cycle, or what a closed cycle spent. *)

Largest(S) == CHOOSE x \in S \cup {0} : \A y \in S \cup {0} : x >= y
TotalTracked(table) ==
    LET sum[i \in 0 .. Len(table)] == IF i = 0 THEN 0 ELSE sum[i - 1] + table[i].delta
    IN  sum[Len(table)]

ByPeak == [total |-> TotalTracked(rows), peak |-> Largest({row.peak : row \in ToSet(rows)})]
History == {row \in ToSet(rows) : row.end # None}
ByDelta ==
    [total |-> TotalTracked(rows),
     peak  |-> Largest({row.delta : row \in History})]

SyntheticSummary   == ByDelta
AnthropicSummary   == ByPeak
CopilotSummary     == ByPeak
ZaiSummary         == ByDelta
AntigravitySummary == ByPeak
GeminiSummary      == ByPeak
CodexSummary       == ByPeak
ArkSummary         == ByPeak
OpenCodeSummary    == ByPeak
CursorSummary      == ByPeak
GrokSummary        == ByPeak
KimiSummary        == ByPeak
MiniMaxSummary     == ByPeak
OpenRouterSummary  == ByDelta
MoonshotSummary    == ByDelta
DeepSeekSummary    == ByDelta

UsageSummary ==
    CASE kind = "synthetic"   -> SyntheticSummary
      [] kind = "anthropic"   -> AnthropicSummary
      [] kind = "copilot"     -> CopilotSummary
      [] kind \in {"zai tokens", "zai time"} -> ZaiSummary
      [] kind = "antigravity" -> AntigravitySummary
      [] kind = "gemini"      -> GeminiSummary
      [] kind = "codex"       -> CodexSummary
      [] kind = "ark"         -> ArkSummary
      [] kind = "opencode"    -> OpenCodeSummary
      [] kind = "cursor"      -> CursorSummary
      [] kind = "grok"        -> GrokSummary
      [] kind = "kimi"        -> KimiSummary
      [] kind = "minimax"     -> MiniMaxSummary
      [] kind = "openrouter"  -> OpenRouterSummary
      [] kind = "moonshot"    -> MoonshotSummary
      [] kind = "deepseek"    -> DeepSeekSummary

-----------------------------------------------------------------------------
(* Properties *)

\* The cycles of a quota do not overlap, whatever store call failed and however
\* often the daemon was killed between two of them: each ends after it starts,
\* no later than the next one starts, and only the last may be open.
CyclesTile ==
    \A i \in DOMAIN rows :
        /\ rows[i].end # None => rows[i].start <= rows[i].end
        /\ i < Len(rows) => rows[i].end # None /\ rows[i].end <= rows[i + 1].start

\* A tracker that decides by the reset time stored with the cycle, and allows for
\* the jitter of the reported one, loses no reset, though the daemon be restarted
\* or polls fail: no cycle holds usage of two windows of the provider, and no
\* window is cut in two.  Not so the one of Synthetic.
Durable == {"anthropic", "zai tokens", "ark", "opencode", "cursor"}
CyclesAreWindows ==
    kind \in Durable =>
        /\ \A i \in DOMAIN rows : Cardinality(rows[i].windows) <= 1
        /\ \A i, j \in DOMAIN rows : i # j => rows[i].windows \cap rows[j].windows = {}

\* What the comment in the tracker of Synthetic says: a comparison at the precision
\* of an hour passes over a renewal time that moves with the polls.  False: it
\* moves from one hour into the next, and the window is cut in two.
DriftIsIgnored ==
    kind = "synthetic" =>
        \A i, j \in DOMAIN rows : i # j => rows[i].windows \cap rows[j].windows = {}

\* The stored peak of a cycle covers every sample that was processed as part of
\* it, whatever failed.  Grok and Kimi store the first sample of a cycle only, and
\* Gemini and Codex pass over the first sample of a quota that was missing before.
PeakIsRecorded ==
    kind \notin {"grok", "kimi", "gemini", "codex"} =>
        \A i \in DOMAIN rows : rows[i].peak >= rows[i].top

\* What the comment in the Grok tracker says: the peak is written when the cycle
\* is closed.
ClosedCycleHasPeak ==
    \A i \in DOMAIN rows : rows[i].end # None => rows[i].peak >= rows[i].top

\* The summary never adds up to more than what was used.  A tracker that counts
\* the sample that shows a reset for the cycle it closes counts it once more when
\* the last store call of the reset fails.
SummaryIsConsumption ==
    ~("delta" \in Rules[kind].counts /\ faults > 0) => UsageSummary.total <= quota.ever
=============================================================================
