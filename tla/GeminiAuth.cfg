\* Gemini alone, with a token more than in Services.cfg.
SPECIFICATION GeminiSpec
CONSTANTS
    MaxGeminiAuthFailures = 2
    MaxGeminiTokens = 4
    MaxGeminiLogins = 2
    MaxGeminiFaults = 1
INVARIANTS
    GeminiTypeOK
    PauseIsEarned
    ForeignTokenIsShadowed
PROPERTIES
    NewCredentialsResume
