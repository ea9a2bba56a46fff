\* Cursor alone; Services.cfg has it beside Gemini and Codex.
SPECIFICATION CursorSpec
CONSTANTS
    CursorMaxAuthFailures = 2
    MaxCursorTokens = 3
    MaxCursorFaults = 1
INVARIANTS
    CursorTypeOK
    StoredRefreshIsUnspent
PROPERTIES
    CursorResumes
