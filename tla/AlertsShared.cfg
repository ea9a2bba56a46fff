\* False of the two providers of Grouped, whose tracker and agent name a
\* quota to the notification engine by different keys.
SPECIFICATION PollsSpec
CONSTANTS
    Kinds <- MCShared
    Grace = 0
    Drift = 1
    WideDrift = 1
    Hour = 2
    Window = 3
    Cap = 1
    MaxTime = 5
    MaxFaults = 1
    AlertAt = 1
    Grouped = {"antigravity", "minimax"}
    Retention = 3
    DefaultLimit = 2
    ListLimit = 2
    ChartPoints = 2
    RangeBack = 3
INVARIANT EveryAlertIsOfThisCycle
