\* Every provider but Ark, whose polls and reports are those of OpenCode.
SPECIFICATION PollsSpec
CONSTANTS
    Kinds <- MCKinds
    Grace = 0
    Drift = 1
    WideDrift = 1
    Hour = 2
    Window = 3
    Cap = 1
    MaxTime = 5
    MaxFaults = 1
    AlertAt = 1
    Grouped = {"antigravity"}
    Retention = 3
    DefaultLimit = 2
    ListLimit = 2
    ChartPoints = 2
    RangeBack = 3
CONSTRAINT FewGaps
INVARIANTS AlertIsOfThisCycle OverviewShowsItsCycle CurrentIsOfActiveCycle ReportsAgree
