\* False when a file is truncated and has grown past the old offset between
\* two scans (internal/agent/api_integrations_ingest_agent.go:152).
SPECIFICATION IngestFairSpec
CONSTANTS
    NFiles = 2
    Events = {a}
    MaxRead = 2
    MaxPartial = 2
    MaxPerScan = 1
    MaxAlerts = 1
    Regrow = TRUE
    MaxBytes <- MCBytes
    MaxReplaced = 1
    MaxFaults = 1
PROPERTY
    LinesAreDealtWith
