\* False: the renewal time of Synthetic moves from one hour into the next.
SPECIFICATION TrackerSpec
CONSTANTS
    Kinds <- MCSynthetic
    Grace = 0
    Drift = 1
    WideDrift = 2
    Hour = 2
    Window = 4
    Cap = 2
    MaxTime = 7
    MaxFaults = 0
INVARIANT DriftIsIgnored
