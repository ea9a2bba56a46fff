\* Two handlers and main over two registered keys, one of whose loops may end
\* early, and one key that is not registered.
SPECIFICATION FairSpec
CONSTANTS
    Providers = {codex, ingest, unknown}
    Registered = {codex, ingest}
    QuitsEarly = {ingest}
    Handlers = {h1, h2}
    Main = main
    MaxRuns = 3
INVARIANTS
    TrackedRunIsPresent
    ForgottenOnlyByEarlierExit
PROPERTIES
    StoppedRunExits
