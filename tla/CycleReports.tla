---------------------------- MODULE CycleReports ----------------------------
(***************************************************************************)
(* What the dashboard shows of the cycles and snapshots of one quota: the  *)
(* overview of cycles, the list of cycles, the chart and the log, that is  *)
(* the handlers CycleOverview, Cycles, History and LoggingHistory of       *)
(* internal/web with the queries of internal/store under them.             *)
(*                                                                         *)
(* A report is an operator on the tables, evaluated in every state that    *)
(* the polls reach.  The values of the other quotas of a snapshot are left *)
(* out: what counts is which snapshot they are taken from.  Each provider  *)
(* has its rules, as in ProviderTrackers.                                  *)
(***************************************************************************)
EXTENDS ProviderPolls

CONSTANTS
    DefaultLimit,   \* rows of an overview that has no parameter for it: 50
    ListLimit,      \* rows of a list of cycles: 200, or 50
    ChartPoints,    \* maxChartPoints, the 200 snapshots of a short chart, and the
                    \* 50 in which a current value is looked for
    RangeBack       \* ticks that a chart, a log or a series goes back

ASSUME ReportsAssumption ==
    /\ DefaultLimit \in Nat \ {0, 1} /\ ListLimit \in Nat \ {0, 1}
    /\ ChartPoints \in Nat \ {0} /\ RangeBack \in Nat

Smaller(a, b) == IF a < b THEN a ELSE b
Firsts(seq, limit) == SubSeq(seq, 1, Smaller(limit, Len(seq)))
Lasts(seq, limit)  == SubSeq(seq, Higher(1, Len(seq) - limit + 1), Len(seq))

\* The entries of seq at some of its places, in their order.
EntriesAt(seq, places) ==
    LET kept[n \in 0 .. Len(seq)] ==
            IF n = 0 THEN <<>>
            ELSE IF n \in places THEN Append(kept[n - 1], seq[n]) ELSE kept[n - 1]
    IN  kept[Len(seq)]

\* Those that have the quota.
WithQuota(seq) == EntriesAt(seq, {n \in DOMAIN seq : seq[n].has})

-----------------------------------------------------------------------------
(* Queries.  Cycles are named by their place in rows, which is the order of  *)
(* their starts.                                                             *)

Newest == [n \in DOMAIN rows |-> Len(rows) + 1 - n]
ClosedCycles == EntriesAt(Newest, {n \in DOMAIN Newest : rows[Newest[n]].end # None})
ActiveCycle == IF OpenRows = {} THEN <<>> ELSE <<ActiveRow>>

\* QueryXCycleHistory: a limit of zero is none.
CycleHistory(limit) == IF limit > 0 THEN Firsts(ClosedCycles, limit) ELSE ClosedCycles

\* A bug to detect: the end of a closed cycle, which is the capture time of the
\* first sample of the next one, belongs to it.
SnapshotsToEnd(i) ==
    {s \in DOMAIN snapshots :
        /\ snapshots[s].has
        /\ rows[i].start <= snapshots[s].time
        /\ rows[i].end # None => snapshots[s].time <= rows[i].end}

\* The snapshots from the start of a cycle up to its end, or to this minute.
SnapshotsWithin(i) ==
    {s \in DOMAIN snapshots :
        /\ snapshots[s].has
        /\ rows[i].start <= snapshots[s].time
        /\ rows[i].end # None => snapshots[s].time < rows[i].end}

\* QueryXRange: the newest ones of a range, oldest first.
InRange(range) ==
    EntriesAt(snapshots, {s \in DOMAIN snapshots : now - range <= snapshots[s].time})

\* A bug to detect: the limit cuts the newest off.
RangeOldest(range, limit) == Firsts(InRange(range), limit)

RangeQuery(range, limit) == Lasts(InRange(range), limit)

-----------------------------------------------------------------------------
(* The overview: which cycles, and which snapshot is shown with a cycle      *)

Overview(cycles, crossQuotas) == [cycles |-> cycles, crossQuotas |-> crossQuotas]

SyntheticOverview   == Overview("limit", "peak")
AnthropicOverview   == Overview("limit", "peak")
CopilotOverview     == Overview("limit", "peak")
ZaiOverview         == Overview("limit", "peak")
AntigravityOverview == Overview("cut", "at start or end")
GeminiOverview      == Overview("none", "none")
CodexOverview       == Overview("limit", "peak")
ArkOverview         == Overview("default", "peak")
OpenCodeOverview    == Overview("default", "peak")
CursorOverview      == Overview("default", "peak")
GrokOverview        == Overview("newest", "none")
KimiOverview        == Overview("newest", "none")
MiniMaxOverview     == Overview("cut", "latest or at end")
OpenRouterOverview  == Overview("besides", "none")
MoonshotOverview    == Overview("besides", "none")
DeepSeekOverview    == Overview("besides", "none")

Overviews ==
    [k \in AllKinds |->
        CASE k = "synthetic"   -> SyntheticOverview
          [] k = "anthropic"   -> AnthropicOverview
          [] k = "copilot"     -> CopilotOverview
          [] k \in {"zai tokens", "zai time"} -> ZaiOverview
          [] k = "antigravity" -> AntigravityOverview
          [] k = "gemini"      -> GeminiOverview
          [] k = "codex"       -> CodexOverview
          [] k = "ark"         -> ArkOverview
          [] k = "opencode"    -> OpenCodeOverview
          [] k = "cursor"      -> CursorOverview
          [] k = "grok"        -> GrokOverview
          [] k = "kimi"        -> KimiOverview
          [] k = "minimax"     -> MiniMaxOverview
          [] k = "openrouter"  -> OpenRouterOverview
          [] k = "moonshot"    -> MoonshotOverview
          [] k = "deepseek"    -> DeepSeekOverview]

\* A bug to detect: the active cycle is not counted against the limit.
ActiveFirstUncounted(limit) == ActiveCycle \o CycleHistory(limit)

\* The active cycle, and closed ones up to the limit.
ActiveFirst(limit) == ActiveCycle \o CycleHistory(limit - Len(ActiveCycle))

\* The overview in the view of all providers, which has its own code for each.
OverviewBoth ==
    CASE kind \in {"synthetic", "zai tokens", "zai time", "anthropic", "copilot", "codex"} ->
            "limit"
      [] kind \in {"openrouter", "moonshot", "deepseek"} -> "besides"
      [] OTHER -> "none"

\* CycleOverview with a limit of the request, which some handlers do not read.
OverviewCycles(cycles, limit) ==
    CASE cycles = "limit"   -> ActiveFirst(limit)
      [] cycles = "cut"     -> Firsts(ActiveCycle \o CycleHistory(limit), limit)
      [] cycles = "default" -> ActiveFirst(DefaultLimit)
      [] cycles = "besides" -> ActiveCycle \o CycleHistory(DefaultLimit)
      [] cycles = "newest"  -> Firsts(Newest, DefaultLimit)
      [] cycles = "none"    -> <<>>

Latest == IF snapshots = <<>> THEN {} ELSE {Len(snapshots)}
AtOrBefore(time) ==
    LET before == {s \in DOMAIN snapshots : snapshots[s].time <= time}
    IN  IF before = {} THEN Latest ELSE {Largest(before)}
Peaks(S) == {s \in S : \A t \in S : snapshots[t].used <= snapshots[s].used}

\* The snapshots that the query may take the values shown with cycle i from.
CrossQuotas(i) ==
    CASE Overviews[kind].crossQuotas = "peak" -> Peaks(SnapshotsWithin(i))
      [] Overviews[kind].crossQuotas = "latest or at end" ->
            IF rows[i].end = None THEN Latest ELSE AtOrBefore(rows[i].end)
      [] Overviews[kind].crossQuotas = "at start or end" ->
            AtOrBefore(IF rows[i].end = None THEN rows[i].start ELSE rows[i].end)
      [] Overviews[kind].crossQuotas = "none" -> {}

-----------------------------------------------------------------------------
(* The list of cycles: the stored ones, or the samples of a range each as a  *)
(* cycle of its own                                                          *)

SyntheticCycles   == "stored"
AnthropicCycles   == "series"
CopilotCycles     == "series"
ZaiCycles         == "stored"
AntigravityCycles == "stored"
GeminiCycles      == "samples"
CodexCycles       == "stored"
ArkCycles         == "stored"
OpenCodeCycles    == "stored"
CursorCycles      == "stored"
GrokCycles        == "none"
KimiCycles        == "none"
MiniMaxCycles     == "series"
OpenRouterCycles  == "stored"
MoonshotCycles    == "stored"
DeepSeekCycles    == "stored"

Lists ==
    [k \in AllKinds |->
        CASE k = "synthetic"   -> SyntheticCycles
          [] k = "anthropic"   -> AnthropicCycles
          [] k = "copilot"     -> CopilotCycles
          [] k \in {"zai tokens", "zai time"} -> ZaiCycles
          [] k = "antigravity" -> AntigravityCycles
          [] k = "gemini"      -> GeminiCycles
          [] k = "codex"       -> CodexCycles
          [] k = "ark"         -> ArkCycles
          [] k = "opencode"    -> OpenCodeCycles
          [] k = "cursor"      -> CursorCycles
          [] k = "grok"        -> GrokCycles
          [] k = "kimi"        -> KimiCycles
          [] k = "minimax"     -> MiniMaxCycles
          [] k = "openrouter"  -> OpenRouterCycles
          [] k = "moonshot"    -> MoonshotCycles
          [] k = "deepseek"    -> DeepSeekCycles]

Entry(start, end, peak, delta) == [start |-> start, end |-> end, peak |-> peak, delta |-> delta]

\* A bug to detect: what a reset takes away is listed as used.
DropsListed(points, n) ==
    IF n = 1 THEN 0 ELSE Apart(points[n].used, points[n - 1].used)

\* Only a rise since the sample before counts.
RiseListed(points, n) ==
    IF n > 1 /\ points[n].used > points[n - 1].used
    THEN points[n].used - points[n - 1].used ELSE 0

Series ==
    LET points == WithQuota(InRange(RangeBack))
    IN  Reverse([n \in DOMAIN points |->
            Entry(points[n].time, IF n < Len(points) THEN points[n + 1].time ELSE None,
                  points[n].used, RiseListed(points, n))])
StoredCycles ==
    LET listed == ActiveCycle \o CycleHistory(ListLimit)
    IN  [n \in DOMAIN listed |->
            Entry(rows[listed[n]].start, rows[listed[n]].end,
                  rows[listed[n]].peak, rows[listed[n]].delta)]
Samples ==
    LET points == WithQuota(RangeQuery(RangeBack, ListLimit))
    IN  Reverse([n \in DOMAIN points |-> Entry(points[n].time, None, points[n].used, 0)])

\* The list in the view of all providers.
CyclesBoth ==
    IF kind \in {"synthetic", "zai tokens", "zai time", "anthropic", "codex", "antigravity",
                 "minimax", "openrouter", "moonshot", "deepseek"}
    THEN "stored" ELSE "none"

Cycles(list) ==
    CASE list = "stored"  -> StoredCycles
      [] list = "series"  -> Series
      [] list = "samples" -> Samples
      [] list = "none"    -> <<>>

-----------------------------------------------------------------------------
(* The current value of a quota is of the latest snapshot, or of the newest   *)
(* one that has the quota, in a range or among the last ones                  *)

SyntheticCurrent   == "latest"
AnthropicCurrent   == "of the last"
CopilotCurrent     == "latest"
ZaiCurrent         == "latest"
AntigravityCurrent == "latest"
GeminiCurrent      == "latest"
CodexCurrent       == "latest"
ArkCurrent         == "latest"
OpenCodeCurrent    == "latest"
CursorCurrent      == "latest"
GrokCurrent        == "of the range"
KimiCurrent        == "of the range"
MiniMaxCurrent     == "latest"
OpenRouterCurrent  == "latest"
MoonshotCurrent    == "latest"
DeepSeekCurrent    == "latest"

Currents ==
    [k \in AllKinds |->
        CASE k = "synthetic"   -> SyntheticCurrent
          [] k = "anthropic"   -> AnthropicCurrent
          [] k = "copilot"     -> CopilotCurrent
          [] k \in {"zai tokens", "zai time"} -> ZaiCurrent
          [] k = "antigravity" -> AntigravityCurrent
          [] k = "gemini"      -> GeminiCurrent
          [] k = "codex"       -> CodexCurrent
          [] k = "ark"         -> ArkCurrent
          [] k = "opencode"    -> OpenCodeCurrent
          [] k = "cursor"      -> CursorCurrent
          [] k = "grok"        -> GrokCurrent
          [] k = "kimi"        -> KimiCurrent
          [] k = "minimax"     -> MiniMaxCurrent
          [] k = "openrouter"  -> OpenRouterCurrent
          [] k = "moonshot"    -> MoonshotCurrent
          [] k = "deepseek"    -> DeepSeekCurrent]

\* A bug to detect: the snapshots are gone through from the oldest on.
FirstOf(S) == {s \in S : \A t \in S : s <= t}

NewestOf(S) == {s \in S : \A t \in S : t <= s}

\* The snapshot whose value is shown, if there is one.
Current ==
    LET looked ==
            CASE Currents[kind] = "latest"       -> Latest
              [] Currents[kind] = "of the last"  ->
                    {s \in DOMAIN snapshots : s >= Len(snapshots) - ChartPoints}
              [] Currents[kind] = "of the range" ->
                    {s \in DOMAIN snapshots : now - RangeBack <= snapshots[s].time}
    IN  NewestOf({s \in looked : snapshots[s].has})

-----------------------------------------------------------------------------
(* The chart: the snapshots of a range, of which some are left out if there  *)
(* are many; with or without the snapshots that have no quotas; or the       *)
(* newest ones                                                               *)

SyntheticChart   == "sampled"
AnthropicChart   == "sampled"
CopilotChart     == "sampled"
ZaiChart         == "sampled"
AntigravityChart == "stepped"
GeminiChart      == "quotas"
CodexChart       == "sampled"
ArkChart         == "newest"
OpenCodeChart    == "newest"
CursorChart      == "newest"
GrokChart        == "quotas"
KimiChart        == "quotas"
MiniMaxChart     == "sampled"
OpenRouterChart  == "sampled"
MoonshotChart    == "sampled"
DeepSeekChart    == "sampled"

Charts ==
    [k \in AllKinds |->
        CASE k = "synthetic"   -> SyntheticChart
          [] k = "anthropic"   -> AnthropicChart
          [] k = "copilot"     -> CopilotChart
          [] k \in {"zai tokens", "zai time"} -> ZaiChart
          [] k = "antigravity" -> AntigravityChart
          [] k = "gemini"      -> GeminiChart
          [] k = "codex"       -> CodexChart
          [] k = "ark"         -> ArkChart
          [] k = "opencode"    -> OpenCodeChart
          [] k = "cursor"      -> CursorChart
          [] k = "grok"        -> GrokChart
          [] k = "kimi"        -> KimiChart
          [] k = "minimax"     -> MiniMaxChart
          [] k = "openrouter"  -> OpenRouterChart
          [] k = "moonshot"    -> MoonshotChart
          [] k = "deepseek"    -> DeepSeekChart]

\* The loop of Antigravity: the last one may be left out.
PlottedStep(n, step) == {i \in 1 .. n : (i - 1) % step = 0}

\* downsampleStep and the loops around it: the first, the last and some between.
DownsampleStep(n) == IF n <= ChartPoints THEN 1 ELSE (n + ChartPoints - 1) \div ChartPoints
Plotted(n, step) == {i \in 1 .. n : i \in {1, n} \/ (i - 1) % step = 0}

\* The chart in the view of all providers: each chart has a loop of its own there.
HistoryBoth == IF kind = "antigravity" THEN "sampled" ELSE Charts[kind]

Chart(rule) ==
    LET all    == InRange(RangeBack)
        points == IF rule = "quotas" THEN WithQuota(all) ELSE all
        step   == DownsampleStep(Len(points))
        plots  == IF rule = "stepped" THEN PlottedStep(Len(points), step)
                  ELSE Plotted(Len(points), step)
    IN  IF rule = "newest" THEN RangeQuery(RangeBack, ChartPoints)
        ELSE EntriesAt(points, plots)

-----------------------------------------------------------------------------
(* The log: the newest snapshots of a range up to a limit, each with the      *)
(* change since the one before                                                *)

SyntheticLog   == "newest first"
AnthropicLog   == "newest first"
CopilotLog     == "newest first"
ZaiLog         == "newest first"
AntigravityLog == "newest first"
GeminiLog      == "newest first"
CodexLog       == "newest first"
ArkLog         == "newest first"
OpenCodeLog    == "newest first"
CursorLog      == "newest first"
GrokLog        == "newest first"
KimiLog        == "newest first"
MiniMaxLog     == "newest first"
OpenRouterLog  == "oldest first"
MoonshotLog    == "oldest first"
DeepSeekLog    == "oldest first"

Logs ==
    [k \in AllKinds |->
        CASE k = "synthetic"   -> SyntheticLog
          [] k = "anthropic"   -> AnthropicLog
          [] k = "copilot"     -> CopilotLog
          [] k \in {"zai tokens", "zai time"} -> ZaiLog
          [] k = "antigravity" -> AntigravityLog
          [] k = "gemini"      -> GeminiLog
          [] k = "codex"       -> CodexLog
          [] k = "ark"         -> ArkLog
          [] k = "opencode"    -> OpenCodeLog
          [] k = "cursor"      -> CursorLog
          [] k = "grok"        -> GrokLog
          [] k = "kimi"        -> KimiLog
          [] k = "minimax"     -> MiniMaxLog
          [] k = "openrouter"  -> OpenRouterLog
          [] k = "moonshot"    -> MoonshotLog
          [] k = "deepseek"    -> DeepSeekLog]

Log(limit) ==
    LET points  == WithQuota(RangeQuery(RangeBack, limit))
        entries == [n \in DOMAIN points |->
                       [time  |-> points[n].time, percent |-> points[n].used,
                        delta |-> IF n = 1 THEN 0 ELSE points[n].used - points[n - 1].used]]
    IN  IF Logs[kind] = "oldest first" THEN entries ELSE Reverse(entries)

-----------------------------------------------------------------------------
(* Properties *)

Counted(s, i) ==
    \/ snapshots[s].row = i
    \/ snapshots[s].row = 0 /\ faults + restarts > 0

\* The comment in the queries of the overview: the end of a cycle is "exclusive, as
\* it's the first snapshot of NEW cycle".  The values shown with a cycle are of a
\* sample that the tracker counted for this cycle, whichever rule the tracker has
\* for resets and for the time a cycle is closed at.
OverviewShowsItsCycle ==
    Overviews[kind].crossQuotas = "peak" =>
        \A i \in DOMAIN rows : \A s \in CrossQuotas(i) : Counted(s, i)

\* The comment of CycleOverviewRow: "a single cycle with cross-quota data at peak
\* time", of every provider.
EveryOverviewShowsItsCycle ==
    \A i \in DOMAIN rows : \A s \in CrossQuotas(i) :
        snapshots[s].has => Counted(s, i)

\* The most rows that an overview has.
Most(cycles, limit) ==
    CASE cycles \in {"limit", "cut"} -> limit
      [] cycles = "besides" -> DefaultLimit + Len(ActiveCycle)
      [] cycles = "none" -> 0
      [] OTHER -> DefaultLimit

\* An overview is the newest cycles, each once and in order, and no more of them than
\* asked for; a limit of one is left to OverviewIsBounded.  A list of stored cycles
\* begins with the same one.  No list adds up to more usage than there was, but for
\* what a tracker or a model of MiniMax that is listed without units counted twice.
CyclesAgree ==
    /\ \A cycles \in {Overviews[kind].cycles, OverviewBoth}, limit \in 2 .. Len(rows) + 1 :
          OverviewCycles(cycles, limit) = Firsts(Newest, Most(cycles, limit))
    /\ \A list \in {Lists[kind], CyclesBoth} :
          LET cycles == Cycles(list) IN
          /\ list = "stored" =>
                /\ rows # <<>> => cycles[1].start = Last(rows).start
                /\ ("delta" \in Rules[kind].counts => faults = 0) => TotalTracked(cycles) <= quota.ever
          /\ list = "series" /\ (kind = "minimax" => \A s \in ToSet(InRange(RangeBack)) :
                                                        s.has => s.row # 0) =>
                TotalTracked(cycles) <= quota.ever

\* The comment of parseCycleOverviewLimit: "Caps at 500 to prevent unbounded
\* queries."  No limit of the request gives more rows than that limit.
OverviewIsBounded ==
    \A limit \in 1 .. Len(rows) :
        Overviews[kind].cycles = "limit" => Len(OverviewCycles("limit", limit)) <= limit

\* The value shown as current is of the cycle shown as active, though a poll that
\* brings the quota back may be long after the one that it is taken from, and the
\* comment of latestGrokSnapshot has it fall back to "keep the card/insights
\* populated".  Only a poll that was cut short may part the two.
CurrentIsOfActiveCycle ==
    \A s \in Current : snapshots[s].row # 0 /\ faults + restarts = 0 =>
        /\ snapshots[s].row = Len(rows)
        /\ OpenRows # {} /\ ActiveRow = Len(rows)

\* The charts, the log and the series of a quota end with the same sample, the newest
\* one, though each cuts the range in its own way; but for the chart of Antigravity in
\* its own view, which may leave it out.  A chart has one point more than the target at
\* most.
SamplesAgree ==
    LET shown == WithQuota(InRange(RangeBack)) IN
    shown # <<>> =>
        /\ \A rule \in {Charts[kind], HistoryBoth} :
              /\ Len(Chart(rule)) <= ChartPoints + 1
              /\ Last(snapshots).has /\ rule # "stepped" =>
                    Last(Chart(rule)).time = Last(shown).time
        /\ \A limit \in 1 .. 2 : Last(snapshots).has =>
              Last(shown).time = IF Logs[kind] = "oldest first"
                                 THEN Last(Log(limit)).time ELSE Log(limit)[1].time
        /\ Lists[kind] = "series" => Series[1].start = Last(shown).time

\* What the dashboard shows of a quota in several places is the same, in the view of
\* its provider and in the one of all providers, though nearly each place has a query
\* and a loop of its own.
ReportsAgree == SamplesAgree /\ CyclesAgree
=============================================================================
