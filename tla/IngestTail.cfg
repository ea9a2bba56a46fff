\* Files that are replaced come back shorter than they were read.
SPECIFICATION IngestFairSpec
CONSTANTS
    NFiles = 2
    Events = {a}
    MaxRead = 2
    MaxPartial = 2
    MaxPerScan = 1
    MaxAlerts = 1
    Regrow = FALSE
    MaxBytes <- MCBytes
    MaxReplaced = 1
    MaxFaults = 1
INVARIANTS
    CursorCoversDealtLines
PROPERTIES
    KeepsLedger
    LinesAreDealtWith
