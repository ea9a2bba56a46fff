\* The credentials file alone; AnthropicAuthDowngrade.cfg has the keyring.
SPECIFICATION FairSpec
CONSTANTS
    HasKeyring = FALSE
    MaxPairs = 4
    MaxAuthFailures = 2
    MaxOAuthFailures = 2
    OAuthFailBound = 2
    AuthBase = 1
    AuthMax = 2
    AttemptCap = 2
    OAuthBase = 2
    OAuthMax = 3
    RetryAfters = {1}
    ApiPollCycle = 2
INVARIANTS
    SpentPairIsKnown
PROPERTIES
    ScheduleKept
    RereadNeverDowngrades
    RecoveryIsAttempted
