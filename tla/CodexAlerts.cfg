\* The alerts of one account.
SPECIFICATION Spec
CONSTANTS
    Accounts = {1}
    Default = 1
    Utils = {2, 4}
    Warning = 2
    Critical = 4
    Grace = 0
    Shift = 1
    Drop = 1
    Ahead = {1, 3}
    MaxTime = 3
    NotifyReset = TRUE
    Faults = {"delivery", "absent"}
INVARIANTS
    LogIsOfThisCycle
