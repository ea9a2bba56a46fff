\* False when channels are removed and restored: a reset that is noticed in
\* between leaves the log (internal/notify/notify.go:417).
SPECIFICATION Spec
CONSTANTS
    Accounts = {1}
    Default = 1
    Utils = {2, 4}
    Warning = 2
    Critical = 4
    Grace = 0
    Shift = 1
    Drop = 1
    Ahead = {1, 2}
    MaxTime = 2
    NotifyReset = FALSE
    Faults = {"channels"}
INVARIANTS
    LogIsOfThisCycle
