\* One account, and everything that may fail except a quota that is missing
\* from a snapshot.
SPECIFICATION Spec
CONSTANTS
    Accounts = {1}
    Default = 1
    Utils = {2, 4}
    Warning = 4
    Critical = 4
    Grace = 0
    Shift = 1
    Drop = 1
    Ahead = {1, 3}
    MaxTime = 2
    NotifyReset = FALSE
    Faults = {"store", "crash", "channels"}
INVARIANTS
    CyclesInOrder
    AtMostOncePerCycle
