\* False: the peak of a cycle is kept in memory, and not written at the reset.
SPECIFICATION TrackerSpec
CONSTANTS
    Kinds <- MCGrok
    Grace = 0
    Drift = 1
    WideDrift = 2
    Hour = 2
    Window = 4
    Cap = 2
    MaxTime = 7
    MaxFaults = 0
INVARIANT ClosedCycleHasPeak
