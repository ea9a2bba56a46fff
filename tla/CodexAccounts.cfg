\* False with two accounts, though nothing fails: the reset of one clears the
\* log of the default one (main.go:1613).
SPECIFICATION Spec
CONSTANTS
    Accounts = {1, 2}
    Default = 1
    Utils = {2, 4}
    Warning = 2
    Critical = 4
    Grace = 0
    Shift = 1
    Drop = 1
    Ahead = {1, 2}
    MaxTime = 2
    NotifyReset = FALSE
    Faults = {}
INVARIANTS
    AtMostOncePerCycle
