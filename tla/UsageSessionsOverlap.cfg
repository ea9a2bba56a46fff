\* False with two loops of one agent, though nothing fails: the deferred Close
\* of the old one forgets the session of the new one (internal/agent/agent.go:67).
CONSTANTS
    Runs = {r1, r2}
    Overlap = TRUE
    Usage = {1, 2}
    Timeout = 1
    MaxSessions = 2
    MaxCount = 1
    StoreFails = FALSE
    Crashes = FALSE
SPECIFICATION Spec
INVARIANTS
    OpenSessionIsTracked
