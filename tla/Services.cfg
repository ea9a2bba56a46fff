\* Gemini, Cursor and Codex, one to a behaviour.
SPECIFICATION ServicesSpec
CONSTANTS
    MaxGeminiAuthFailures = 2
    MaxGeminiTokens = 3
    MaxGeminiLogins = 2
    MaxGeminiFaults = 1
    CursorMaxAuthFailures = 2
    MaxCursorTokens = 3
    MaxCursorFaults = 1
    MaxCodexAuthFailures = 2
    MaxPairs = 3
    MaxCodexFaults = 2
INVARIANTS
    PauseIsEarned
    ForeignTokenIsShadowed
    StoredRefreshIsUnspent
    ProfileUsesOwnAccount
PROPERTIES
    NewCredentialsResume
    CursorResumes
    CodexLoginResumes
