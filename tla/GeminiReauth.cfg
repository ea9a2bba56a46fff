\* False: the tokens that onWatch keeps in its settings table hide those of
\* the file that the command line writes (docs/GEMINI_SETUP.md:95).
SPECIFICATION GeminiSpec
CONSTANTS
    MaxGeminiAuthFailures = 2
    MaxGeminiTokens = 4
    MaxGeminiLogins = 2
    MaxGeminiFaults = 1

PROPERTIES
    ReauthenticationResumes
