\* False: the end of an older run deletes the entry of a live one
\* (internal/agent/manager.go:97).
SPECIFICATION Spec
CONSTANTS
    Providers = {codex}
    Registered = {codex}
    QuitsEarly = {}
    Handlers = {h1}
    Main = main
    MaxRuns = 2
INVARIANT IsRunningIsTruthful
