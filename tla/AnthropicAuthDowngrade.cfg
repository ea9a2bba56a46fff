\* A keyring whose write may fail, and no file: the save counts as a success.
SPECIFICATION Spec
CONSTANTS
    HasKeyring = TRUE
    MaxPairs = 3
    MaxAuthFailures = 2
    MaxOAuthFailures = 2
    OAuthFailBound = 2
    AuthBase = 1
    AuthMax = 2
    AttemptCap = 2
    OAuthBase = 1
    OAuthMax = 2
    RetryAfters = {2}
    ApiPollCycle = 2
PROPERTIES
    RereadNeverDowngrades
