\* Every provider.
SPECIFICATION TrackerSpec
CONSTANTS
    Kinds <- MCKinds
    Grace = 0
    Drift = 1
    WideDrift = 2
    Hour = 2
    Window = 4
    Cap = 2
    MaxTime = 7
    MaxFaults = 1
INVARIANTS CyclesTile CyclesAreWindows PeakIsRecorded SummaryIsConsumption
