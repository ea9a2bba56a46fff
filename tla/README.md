# A TLA+ model of onWatch

onWatch (`src/server/`) is a Go daemon that polls the quota APIs of AI coding
services, stores what they report in SQLite, groups it into reset cycles and
usage sessions, raises alerts, and serves a dashboard. This directory holds a
TLA+ model of the parts of it that are hard to test, the TLC runs that check
the model on small instances, and proofs, checked by TLAPS, of what holds for
every instance.

Paths below are relative to `src/server/` unless they start with `src/` or
`docs/`, which is `src/server/docs/`.

## The system

One process runs

- a **poll loop** per provider (`internal/agent/*_agent.go`), and per account
  for Codex and MiniMax: get a token, fetch, insert a snapshot, hand it to a
  tracker, check alert thresholds, report to the session manager, wait for the
  ticker;
- two more loops, the **ingestion** of usage events that other programs append
  to files, and the **retention** of snapshots;
- the **HTTP server** (`internal/web`), whose handlers start and stop loops,
  change settings and answer queries;
- **main** (`main.go`), which wires everything at boot and takes it down on a
  signal;

and all of them share one SQLite database (`internal/store`), one notification
engine (`internal/notify`) and one tracker per provider (`internal/tracker`).
Outside the process are the usage APIs, the OAuth servers, the tools whose
tokens onWatch uses and refreshes (Claude Code, Gemini CLI, Cursor, Codex,
OpenCode), the user, the commands of onWatch itself and other daemons.

### Inventory

| Component | State | Operations | Hard behaviour | What makes it correct |
|---|---|---|---|---|
| Agent registry, `internal/agent/manager.go` | `running`, a map from key to CancelFunc | Start, Stop, StopAll, IsRunning, the goroutine of a run | factories run outside the lock; goroutines delete by key; shutdown races with handlers | at most one tracked loop per key, no live loop forgotten, a stopped loop ends |
| Anthropic authorisation, `internal/agent/anthropic_agent.go`, `internal/api/anthropic_*.go` | token in memory, superseded token, failure counts, auth pause, OAuth backoff; credentials in a keyring and a file | poll, proactive refresh, re-read, 429 bypass, recovery, save | one-time refresh tokens; writes that fail in part; Claude Code refreshes the same pair; crashes | a paused agent recovers by itself and does not hammer; no downgrade to a spent token |
| Gemini, Cursor and Codex authorisation, `internal/agent/*_agent.go`, `internal/api/*` | last and failed token, failure count, pause; files, databases, keyrings and the settings table | poll, refresh, retry, save | several sources merged field by field; rotation; lost answers; logins of other accounts | no pause without its failures or beyond a login; no spent token presented; no token of another account |
| Codex cycles, `internal/tracker/codex_tracker.go` | the active row per account and quota; last values and resets in memory | Process, close, create, update | a reset is three writes; a reset time moves; restarts lose the memory | cycles do not overlap |
| Other trackers, `internal/tracker/*.go` | the same per quota | Process, the usage summary | each has its own rules of reset, peak and total | cycles follow the windows of the provider, keep their peaks, add up to what was used |
| Poll loops, `internal/agent/*_agent.go`; Notification engine, `internal/notify/notify.go` | snapshots, `notification_log`, mailer, push sender | poll, Check, sendNotification, Reload | delivery fails; the log write fails; channels come and go; tracker and agent name quotas independently | one alert per cycle, none held back by an older cycle |
| Usage sessions, `internal/agent/session_manager.go`, `agent.go` | current session, last activity, previous values; table `sessions` | ReportPoll, Close, CloseOrphanedSessions | three writes per report; loops that overlap; kills | one open session per provider, maxima that cover, idle ones end |
| Web reports, `internal/web/*handlers.go`, queries of `internal/store` | none | current value, cycles, overview, chart, log, series, per provider and of all | each provider and each view has its own queries, ranges and limits | the views agree with each other and with the tracker |
| Snapshot retention, `internal/agent/snapshot_retention_agent.go` | none | prune | one transaction over all tables | - |
| API integrations ingest, `internal/agent/api_integrations_ingest_agent.go` | cursor and partial line per file; events; alerts | scan, read, insert, save, prune | crash between insert and cursor; truncation; oversized lines | every line is dealt with in order, every event counted once |
| Codex account agents and profiles CLI, `internal/agent/codex_agent_manager.go`, `codex_profiles.go`, `internal/store/codex_store.go` | profile files, account rows, instances by name, file times | scan, start, stop, save, delete, restore, merge | check then insert; deletion by name; rows found by identity, name or neither | one row per identity; each profile polled for its account |
| MiniMax account agents, `internal/agent/minimax_agent_manager.go` | instances, reload lock | Run, Reload, create, update, delete | reloads, ends of agents and changes at the same time | an account is polled with the key it has |
| Provider settings, `internal/web/handlers.go`, `internal/config` | one JSON setting, keys, clients | ToggleProvider, UpdateSettings, ReloadProviders | read-modify-write without a lock; three ways to start and stop agents | agents match switches; the typed key is loaded |
| Mail settings and the admin password, `internal/web/handlers.go`, `internal/notify`, `main.go` | hash in memory and in the database, salt, encrypted setting, keys of the engine | save, change of password, start | hash, memory and secrets are written one after the other; two kinds of key | the mailer presents the typed password; the admin's password survives |
| Daemon lifecycle and updater, `main.go`, `internal/update/update.go` | PID file, port, binary | start, stop, update, shutdown | a new daemon waits half a second for an old one that may take five | the PID file names the server; an update takes over |
| Store, `internal/store` | the database | see their callers | | |
| API clients | none | requests, parsing | | |
| Web sessions and login limiter, `internal/web/middleware.go` | token cache, failed logins | | | |
| Generic adapter, `internal/generic` | platforms as one JSON setting | upsert, delete, poll | read-modify-write | no platform lost |
| Menubar, metrics, service, setup | | | | |

`PROJECT.json` lists the same components with what is modelled of each, and the
hazards of the code, each at its line.

### How they interact

- A handler calls `AgentManager.Start/Stop`; the manager launches or cancels
  `Run`. The factory returns the *same* agent each time, so the tracker, the
  session manager and the credentials of an agent outlive its runs.
- `poll` calls the tracker synchronously; the tracker calls back `onReset`,
  which calls `NotificationEngine.Check`; `poll` then calls `Check` for the
  sample and `ReportPoll` for the session.
- The managers of Codex and MiniMax are registered loops themselves, and run the
  agents of their accounts. Codex's learns of a change from the times of files
  that the command line writes; MiniMax's is told by the handlers.
- Agents and handlers meet only in the database, the managers' maps and the
  engine's configuration. Every store call is one SQLite statement or
  transaction; nothing spans two calls. The modules take their atomic steps
  from this: **an action ends where the code calls the store, the file system
  or the network, or releases a lock.**
- Commands and daemons meet in the PID file, the port and the binary.

## Modules

Each module has its state in records named after the code's types, an `Init`,
one action per handler or step, `Next`, a specification, the properties and, last,
those properties that the code does not have.

| Module | Models | State | Actions |
|---|---|---|---|
| `AgentManager` | `manager.go` with its callers | `running` is the map; `run` the goroutines; `call` the program counter of each caller; `shutdown` | one per critical section: `BeginStart`, `FactoryFails`, `CommitStart`, `Stop`, `StopAll`, `Cancel`, `RunReturns`, `Exit` |
| `AnthropicAuth` | `AnthropicAgent.poll` up to the insert, OAuth refresh, credential stores, Claude Code, the user | the agent's fields by their names (`lastToken`, `superseded`, `auth`, `oauth`, `cycle`), `pc`/`why` for the place in the poll, `file`/`keyring`, `minted`/`spent` for the OAuth server | one per stretch of `poll` between two calls to the outside, one per kind of answer |
| `GeminiAuth` | the same half of `gemini_agent.go`; the settings table before the environment before the file of the CLI, merged field by field | `gemini` the agent, `gpoll` the place in the poll, `gtable`, `genv`, `gfile` the sources, `google` the tokens issued | `Read`, refresh before the fetch, fetch, recovery, retry; the CLI logs in and refreshes; tokens age |
| `CursorAuth` | the same of `cursor_agent.go`; the editor's SQLite file and the keyring | `cursor`, `cpoll`, `csqlite`, `ckeyring`, `cserver` | the poll as above; two saves that may each fail; the editor and the CLI |
| `CodexAuth` | the same of `codex_agent.go` for the default agent and for that of a profile | `role`, `codex` the agent, `stores` (auth.json, OpenCode's, the profile's), `pairs` | refresh, save to the profile, fallback on the machine's login; logins of other accounts |
| `CodexCycles` | the end of `CodexAgent.poll`, `CodexTracker`, `Check`/`sendNotification` | `row`/`last` for the cycle table, `memory` for the tracker's maps, `log` for `notification_log`, `channels`; one job per account | one per store call and per delivery, and their failures |
| `ProviderTrackers` | the trackers of all 16 providers (`AllKinds` lists 17, Z.ai having two quotas) | `rows` the cycle table, `memory` the maps, `quota` the provider | one `Process`, with a table of rules: what tells a reset, what is written when; store failures within it; restart |
| `ProviderPolls` | the end of every `poll`: snapshot, tracker, notification; the retention agent | adds `snapshots` and `alerts` | `Poll`, its failures, `PollWithoutQuota`, `Prune`, `RestartPolls` |
| `CycleReports` | the read side: overview, cycles, chart, log, current value, and the queries under them | none of its own | operators on the tables, evaluated in every state of `ProviderPolls` |
| `UsageSessions` | `SessionManager`, `Agent.Run`, table `sessions` | the manager's fields, `row` for the table, one record per run of the loop | one per store call, the select of the loop, boot, kill |
| `IngestLedger` | what ingestion promises | `lines`, `dealt`, `written`, `counted` | `WriteLine`, `Deal`, `DealLate`, `Replace` |
| `IngestTail` | the ingest agent, its tables, and the writers | `file` as bytes, `cursor` with offset and partial line, `rows` the events, `place` and `work` in the scan | `Scan`, `Stat`, `Read` of at most `MaxRead` bytes, `Insert`, `Report`, `Save`, `Prune` and their failures; replacement and restart between any two |
| `CodexProfiles` | profile files, rows of `provider_accounts`, the manager's instances | `files`, `rows`, `scans` the remembered file times, `agents`, `command`, `manager` with the file it has in hand | for each file the reading of it, the start of its agent (or its failure) and the remembering of its time, at the start of the daemon and in a scan; the end of an agent; save, refresh and delete, with the query for a row and the writes after it as two steps |
| `MiniMaxAccounts` | accounts, handlers, manager | `accounts`, `instances`, `threads` (runs and requests), `reloadMu`, `ctx`, `registry` | lock, stop all, wait, query, start one, unlock, answer |
| `ProviderControl` | switches and keys of three kinds of providers | `dotenv`, `logins`, `settings`, `visibility`, `daemon` (configuration, clients, running agents), `pages` (requests under way) | the steps of a toggle, a save and a reload; edits of `.env`, logins, restarts |
| `SmtpSettings` | the two passwords, the salt and both keys | `admin`, `salt`, `smtp`, `engine`, `requests` | the writes of a save and of a change of password; start in steps; failures, crash |
| `DaemonLifecycle` | commands and daemons on one machine | `procs` with the place each has reached, `pidFile`, `port`, `disk` | start, stop the previous instance, half a second, PID file, bind, shutdown, update |
| `MCServices`, `MCSettings` | compose the modules above for TLC | `scene` | - |
| `MCTrackers`, `MCReports`, `MCIngest` | instances | - | - |
| `AgentManagerProofs`, `AnthropicAuthProofs`, `CodexCyclesProofs`, `ProviderControlProofs` | - | - | theorems and proofs about the module of that name |
| `UsageProofs`, `ServicesProofs`, `TrackersProofs`, `SettingsProofs` | - | - | theorems and proofs about `IngestTail` (with its refinement of `IngestLedger`), `UsageSessions`; `GeminiAuth`, `CursorAuth`, `CodexAuth`; `ProviderTrackers`, `ProviderPolls`, `CycleReports`; `CodexProfiles`, `DaemonLifecycle`, `MiniMaxAccounts`, `SmtpSettings` |

How they are composed:

- `ProviderTrackers`, `ProviderPolls` and `CycleReports` extend one another: the
  snapshots and alerts of a poll are made of the steps of the tracker, and the
  reports read what both have written. A fault in the middle of a reset is
  therefore seen by the alert and by each view.
- `CodexCycles` joins tracker and engine at the grain of single store calls,
  because their interplay (the callback, the log) is where its properties live.
- `UsageSessions` takes from `AgentManager` what it allows, namely that a
  cancelled run may still be there when the next one starts (`Overlap`).
- `MiniMaxAccounts` takes the same of the manager's own `Run` (`Overlap`).
- In `MCServices` and `MCSettings` the parts share no state. Each behaviour is
  about one of them, the `scene`; the specification is their disjunction, so a
  run checks each part in full, under its own fairness.

What the data is reduced to:

- A token or a pair is the number under which the server issued it. That is
  enough to say "older", "spent", "of that login" and "the same as in memory".
  Expiry is the ageing of the oldest ones.
- Utilizations are a few numbers, time is a counter or a countdown, and the
  durations of the code are parameters whose order is what matters. A tick of
  `ProviderTrackers` is the time between two polls.
- One quota: quotas do not share state, except the trackers' flags for "seen
  before", which a snapshot without the quota sets (`PollWithoutQuota`), and the
  groups of models that MiniMax and Antigravity alert about (`Grouped`).
- A line of an ingest file is two bytes and a newline, so that it can be cut;
  padding makes lines that are no events or are too long.
- A key is a pair of a hash and a salt; a ciphertext is the text and the keys it
  was encrypted with.
- History variables (`lost`, `high`, `last`, `sent`, `unlogged`, `ghistory`,
  `past`, `asked`, `mailed` and the like) are read by properties and bounds only.
  They state exceptions precisely: an alert is sent twice only if *its own* log
  entry was lost.

Definitions preceded by "A bug to detect" are not part of any specification.
Each is a faulty form of the definition after it, of the kind a change to the
code could introduce, and shows that the property it is paired with in
`PROJECT.json` would notice.

## Runs

| Run | Configuration | Shows |
|---|---|---|
| `agent_manager` | 3 keys (one unregistered, one whose loop may end early), 2 handlers and main, 3 runs; 82,537 states | `TrackedRunIsPresent`, `ForgottenOnlyByEarlierExit`, `StoppedRunExits` |
| `anthropic_auth` | file only; 4 pairs, 2 failures to a pause; 1,514,184 states | `SpentPairIsKnown`, `ScheduleKept`, `RereadNeverDowngrades`, `RecoveryIsAttempted` |
| `anthropic_auth_downgrade` | keyring; 3 pairs | **violated**: `RereadNeverDowngrades` |
| `codex_cycles` | 1 account, store failures, crashes, channels that come and go; 1,266,472 states | `CyclesInOrder`, `AtMostOncePerCycle` |
| `codex_alerts` | 1 account, failing deliveries, quota missing from snapshots, announced resets; 72,768 states | `LogIsOfThisCycle` |
| `usage_sessions` | 1 loop at a time, failing writes, kills; 184,623 states | `OpenSessionIsTracked`, `MaxCoversUsage`, `IdleSessionEnds` |
| `ingest` | 2 files of 5 and 2 bytes, one replacement, one failure; restarts; 545,648 states | `KeepsLedger` (the refinement of `IngestLedger`), `CursorCoversDealtLines`, `LinesAreDealtWith` |
| `trackers` | every provider; 7 ticks, windows of 4, one failure, restarts; 3,234,704 states | `CyclesTile`, `CyclesAreWindows`, `PeakIsRecorded`, `SummaryIsConsumption` |
| `reports` | every provider but Ark; 5 ticks, windows of 3, one failure, restarts, pruning, `MaxGaps = 1`; 1,732,542 states | `AlertIsOfThisCycle`, `OverviewShowsItsCycle`, `CurrentIsOfActiveCycle`, `ReportsAgree` |
| `services` | Gemini, Cursor, Codex: 3 tokens each, 2 failures to a pause, one fault (Codex two); 628,007 states | `PauseIsEarned`, `ForeignTokenIsShadowed`, `StoredRefreshIsUnspent`, `ProfileUsesOwnAccount`, `NewCredentialsResume`, `CursorResumes`, `CodexLoginResumes` |
| `settings` | profiles, accounts, switches, passwords, daemon; 778,947 states | `IdentityHasOneRow`, `ProfileIsPolled`, `AgentsFollowAccounts`, `AccountIsPolled`, `AgentsMatchSwitches`, `TypedPasswordIsPresented`, `AdminKeepsPassword`, `PIDFileNamesServer`, `UpdateTakesOver` |
| `smtp_password` | as `settings` | **violated**: `BlankKeepsPassword` |

No run stops early. A run of `settings` allows the daemon to rest once there are
no more commands (`DaemonRests`); no configuration switches the deadlock check
off. The type invariants are not in the runs: TLC was given each of them by hand under the
same configurations, and they are proved where there is a proof module.

### Bounds, and why they are enough

- `AgentManager`: three runs allow the longest pattern the code has: a run, its
  replacement, and the replacement of that one while the first is still ending.
  Two handlers are two callers inside `Start` or `Stop` of one key.
- `AnthropicAuth`: four pairs are the stored one, the ones refreshed from it and
  from its successor, and the one Claude Code or the user writes meanwhile. With
  three, the answer to the refresh of a pair that is not the marked one cannot be
  lost. Failure limits of two distinguish the first failure, the last and the
  ones between; the OAuth count is bounded (`OAuthFailBound`), and past that bound
  the refresh is not seen to fail in a counted way. `ApiPollCycle` is 2. Delays
  are 1 to 3 units, so that base, capped and server-given delays occur.
- `CodexCycles`: two utilizations, a low and a high one; a reset time one step
  ahead (it passes) or three ahead (it moves by more than `Shift`); two or three
  moments. `codex_cycles` has `Warning = Critical` since a second threshold only
  repeats the first; `codex_alerts` separates them. The model assumes that an API
  reports resets in the future, which is where `CyclesInOrder` could fail
  otherwise.
- `UsageSessions`: two sessions and three usage values (rise, fall, no change),
  a timeout of one unit, so that a session is active, idle within the timeout and
  idle past it. `MaxCount` saturates the snapshot count.
- `IngestTail`: five bytes are an event and a padded line, or an event cut by two
  reads; reads of two bytes end in the middle of a line; `MaxPartial = 2` makes a
  padded line too long. The second file is there so that a scan is interrupted
  between two files and `MaxPerScan` binds.
- `ProviderTrackers`: seven ticks are a window of four, the reset and most of
  the next one; a window may be missed while the daemon is down. `Drift` is the
  jitter of a reported reset below the tolerances, `WideDrift` that below the
  hour which some trackers allow, `Hour` the limit itself. The reset that Synthetic
  reports stands or, of other quotas, rolls: it is always an `Hour` ahead. `Cap = 2` tells first
  use, more use, less use and none apart. `Reports.cfg` has windows of three and
  five ticks, which leaves room for two resets and a retention of three. It leaves out
  Ark, whose behaviours are those of OpenCode in which no prune is refused, and keeps
  to states in which at most one stored snapshot is without the quota (`FewGaps`).
- `GeminiAuth`, `CursorAuth`, `CodexAuth`: three tokens are the one in use, the one
  refreshed and the one of another tool or login; two failures to a pause. Codex has
  two faults, since its failed refreshes lead to a pause of their own.
- `CodexProfiles`: three names, one of them `default`, two identities of one
  workspace, one profile at most before the daemon is first started, two edits of the
  files and one agent that fails to start: a save that replaces, a deletion with a
  save under another name, an edit while the file is in the hands of the start or of
  a scan, a second edit after it.
- `MiniMaxAccounts`, `SmtpSettings`, `ProviderControl`, `DaemonLifecycle`: two or
  three requests, changes or commands and one failure each; a further one repeats
  a state that has been left, as the larger runs below confirm.

Larger instances that were run by hand (safety only, without a violation):

| Module | Bounds | Distinct states |
|---|---|---|
| `GeminiAuth` | `GeminiAuth.cfg`, 4 tokens | 391,140 |
| `CursorAuth` | 4 tokens, 2 faults (in the scene of `services`) | 6,648,073 |
| `CodexAuth` | 4 pairs, 2 faults (in the scene of `services`) | 3,027,488 |
| `CodexProfiles` | 3 edits, no profile before the first start (in the scene of `settings`) | 512,473 |
| `CodexProfiles` | 3 edits, one profile before it | 848,184 |
| `DaemonLifecycle` | 3 commands, 1 fault | 934,410 |
| `ProviderControl` | 3 changes, 2 edits of keys, 1 fault | 12,168,307 |

Symmetry is not used.

### Fairness

- `AgentManager`: a caller in `Stop` and a goroutine of a run go on
  (`WF` on each): there is nothing to block on but short critical sections, and
  every `Run` selects on its context. Requests are not fair.
- `AnthropicAuth`, `GeminiAuth`, `CursorAuth`, `CodexAuth`: the agent goes on
  (`WF`): the ticker fires, and every call to the outside has a timeout. Which
  answer comes is not fair. In `AnthropicAuth`, time passes. Users, tools and
  servers owe nothing.
- `UsageSessions`: a loop goes on and time passes. That a poll reports is
  assumed by `IdleSessionEnds` itself, not by the specification.
- `IngestTail`: the agent's next step, whichever it is (`WF` on their
  disjunction): the ticker fires, and a failed call is tried again at the next
  tick. Failures are bounded (`MaxFaults`), so it is not assumed of any step that
  it succeeds.
- `CodexProfiles`: the start of the manager and its scanner go on (`ManagerSteps`),
  and so do agents that are ending and requests that have begun (`OtherSteps`); the
  number of agents that fail to start is bounded.
- `MiniMaxAccounts`: the manager's run, requests that have begun, and agents that
  were cancelled go on; new requests owe nothing.
- `DaemonLifecycle`: processes go on; commands and crashes owe nothing.
- `ProviderTrackers`, `ProviderPolls`, `CodexCycles`, `SmtpSettings` and
  `ProviderControl` have safety properties only.

One timing assumption is stated as such: `HalfSecond` of `DaemonLifecycle`, that a
signalled daemon closes its listener within the 500 ms that the next one sleeps.
The model keeps the other side: the rest of its shutdown, up to five seconds,
may take longer.

### What is assumed of requests

`MiniMaxAccounts` is checked with `Overlap = FALSE`: the registry does not start
the manager's `Run` while the one before it or a reload is at work.
`ProviderControl` is checked with one page (`WebClients = {"tab"}`).
`TypedPasswordIsPresented` and `AdminKeepsPassword` except overlapping changes.
`ProfileIsPolled` excepts four cases in which the remembered time of a file hides an
edit, and counts an instance that was overwritten in the map, and goes on, as one that
polls. `CyclesAreWindows` is about the trackers that decide by the stored reset and
allow for jitter; Synthetic's is not one of them. `TypedKeyIsLoaded`
is about starts and reloads that could read the settings.
`IdentityHasOneRow` excepts a race: a command that finds no row of an identity, and
a daemon that makes one under another name before the command does. `CodexProfiles`
is checked with `Legacy = FALSE`, a table without two rows of one identity.
The code guarantees none of these; what happens without them is listed below.

### The refinement

`IngestTail` implements `IngestLedger`: under the mapping at its end, `lines` are
the complete lines of the file, `dealt` how many of them were inserted or reported
once, `written` the events ever written, `counted` those that are, or before
pruning were, rows. `KeepsLedger` is the ledger's specification, checked as a
property of the run `ingest`. A read cut in the middle of a line, a failed insert,
a restart before the cursor is saved all map to stuttering. An insert of a line
that was dealt with before is `DealLate`: because of the fingerprint it changes
nothing, unless the row of its event has been pruned meanwhile.

It is proved as well (`UsageProofs!IngestKeepsLedger`), for files, limits, faults
and replacements in any number, where a replaced file comes back shorter than it was
read (`~Regrow`). What has to be shown is that the agent, which splits what one read
brings after what was left of the last, sees the lines the file has. `Split` is a
recursive function of the bytes for that purpose (a definition the prover has), and
the argument goes in three stages:

1. About sequences of bytes alone: what `Split` makes of one byte more
   (`SplitNone`, `LastByte` and the lemmas by them), and from it `Join`: split what is
   left of the bytes before an offset together with the bytes after it, and the lines
   and the rest are those of the file, from the line at that offset on. The library's
   induction takes operators, so each such lemma looks at the lowest length at which
   it does not hold. `Alike` says what "those of the file" is: equal, but for the
   length of padding, of which the agent keeps `MaxPartial` bytes at most, that is,
   cuts the too long line as the code does.
2. `IngestInv`, the inductive invariant: what is between two newlines is padding or
   an event that was written (`FileOK`); the partial line that is stored, or in hand,
   is what is left of the bytes before its offset, unless the file was replaced, and
   then the file is shorter than the offset, which the next scan notices (`StateOK`);
   the lines before a stored offset have been dealt with (`LinesCovered`); the lines
   in hand are the last ones before the offset read up to (`HandOK`).
3. One lemma per step: what a byte that is written, an insert, a report, a
   replacement or a pruning does to the ledger, and that it sees nothing of the rest
   (`OthersStand`).

A file that has grown past the old offset could complete a partial line of the old
one with bytes of its own, and the result would be neither's; hence the hypothesis.

### What the violations show

Two runs contradict a comment of the code, quoted in `PROJECT.json`:

1. *The re-read goes back to a spent token.* When the keyring write fails and
   there is no credentials file (the normal case on macOS), the save reports
   success (`anthropic_token_unix.go:237`), so nothing is remembered as
   superseded.
2. *A blank password field does not keep the password.* The kept value is a
   ciphertext; the check for one looks for a prefix that the encryption never
   writes, so it is encrypted again, and decrypted only once
   (`internal/web/handlers.go:6817`).

Other statements that the code does not fulfil are in the modules too, each with a
configuration to see it by hand, `tlc -config <cfg> <module>`:

| Configuration, module | Property | What happens |
|---|---|---|
| `AgentManagerTruth.cfg`, `AgentManager` | `IsRunningIsTruthful` (comment, `manager.go:134`) | Stop then Start of one key: the goroutine of the first run ends and deletes the entry of the second (`manager.go:97`). The second loop goes on, cannot be stopped, and a further Start adds a third. |
| `CodexAccounts.cfg`, `CodexCycles` | `AtMostOncePerCycle` (comment, `notify.go:507`) | The Codex reset callback (`main.go:1613`) names no account, so the reset of one account clears the log of the default one. |
| `CodexChannels.cfg`, `CodexCycles` | `LogIsOfThisCycle` | A reset noticed while no channel is configured does not clear the log (`notify.go:417`): an alert of the next cycle is held back. The same happens if the daemon dies, or the new row cannot be created, between closing a cycle and the callback. |
| `UsageSessionsOverlap.cfg`, `UsageSessions` | `OpenSessionIsTracked` | Two loops of one restarted provider share a session manager: the deferred `Close` of the old one (`agent.go:67`) forgets the session of the new one before its row exists (`session_manager.go:134`). |
| `IngestRegrow.cfg`, `MCIngest` | `LinesAreDealtWith` (`docs/API_INTEGRATIONS_SETUP.md:243`) | A file that was truncated and has grown past the old offset between two scans is read from the middle (`api_integrations_ingest_agent.go:152`). |
| `GeminiReauth.cfg`, `GeminiAuth` | `ReauthenticationResumes` (`docs/GEMINI_SETUP.md:95`) | The tokens that onWatch has saved to its settings table come before the file of the CLI, so the new login is not seen. |
| `TrackersSynthetic.cfg`, `MCTrackers` | `DriftIsIgnored` (comment, `tracker.go:113`) | The renewal time that Synthetic gives as "now + 1 hour" is compared at the precision of an hour. It moves with every poll, so from one hour into the next, and there the tracker sees a reset: one window is cut in two. |
| `TrackersGrok.cfg`, `MCTrackers` | `ClosedCycleHasPeak` (comment in `grok_tracker.go`) | The peak of a cycle is kept in memory, and not written at the reset. |
| `AlertsShared.cfg`, `MCReports` | `EveryAlertIsOfThisCycle` | Antigravity, and MiniMax while its models share a quota: alerts are logged by group, cleared by model. |
| `Retention.cfg`, `MCReports` | `PruneDeletesOld` (comment, `snapshot_retention.go`) | A table whose rows are referred to refuses, and the transaction deletes nothing. |
| `OverviewPeaks.cfg`, `MCReports` | `EveryOverviewShowsItsCycle` | MiniMax and Antigravity show the values at the end of a cycle, which are of the next one. |
| `OverviewLimit.cfg`, `MCReports` | `OverviewIsBounded` (comment of `parseCycleOverviewLimit`) | With a limit of one, the query for closed cycles gets a limit of zero, which is none. |

With the constants of `Settings.cfg` or `Services.cfg` and one property put in place
of the listed ones, TLC also finds violated:

- `RefreshedPairIsKept` (`CodexAuth`): as soon as its ID token is about to expire,
  a profile's file gets the tokens of auth.json, used or not.
- `IdentityIsShownOnce` (`CodexProfiles`; comment, `codex_store.go:956`: "This ensures
  one DB row per real provider account"): someone logs in to Codex and saves the
  profile while the daemon starts without one. Both find no row; the daemon gives the
  identity one named `default`, the command another. With `Legacy = TRUE` a row that
  was merged into another keeps its identity, and the next start of the profile finds
  it first and brings it back.
- `EveryProfileIsPolled`, `DeletedProfileRests`, `OrphansHaveNoAgent`,
  `RowKeepsItsIdentity` (`CodexProfiles`). The first fails in four ways, which
  `ProfileIsPolled` excuses one by one (`agents.missed`): the scanner remembers the
  time of a file whose agent it failed to start (`codex_agent_manager.go:709`; the
  start of the daemon does not, `:192`); the start reads the time of a file after its
  contents (`:197`, `:208`), so that an edit in between counts as seen; an agent that
  saves new tokens remembers the time of the file (`:561`), and an edit with it;
  and a file that was deleted before the start could read its time leaves an agent
  whose name no scan knows, which is kept when the profile is saved anew (`:229`). The
  others: an instance that is overwritten in the map is
  never cancelled; a row that keeps an old name is taken for an orphan at the
  next start; a name passes to another account together with its row.
- `OneAgentPerAccount`, `ReloadIsAnswered` (`MiniMaxAccounts`, `Overlap = TRUE`): the
  load of the run and a reload both start an agent, one of which is lost, and the
  next reload waits for it for ever.
- `EveryAgentMatchesSwitch`, `LoadedKeyIsUsed`, `ReloadKeepsGemini`
  (`ProviderControl`): the switch of one account of Codex stops the agents of all;
  a reload applies a key to the configuration while the client goes on with the
  old one (`handlers.go:1495`, where `docs/MINIMAX_SETUP.md:34` says "You can apply
  the new key without full restart"); a reload stops Gemini where a login had it
  started. `TypedKeyIsLoaded` needs that the start or the reload could read the
  settings: if it could not, they are not applied and the daemon goes on without the
  typed key (`handlers.go:1499`). With a second page, `AgentsMatchSwitches` fails, since one of two
  toggles at the same time is lost.
- `ChangeKeepsPassword` (`SmtpSettings`): the re-encryption after a change of the
  admin's password does not decrypt before, and the engine goes on with the
  old key.
- `BinaryIsLeft` (`DaemonLifecycle`): the old binary is removed, the new one cannot
  take its place, and the clean-up deletes it.

With the fault `absent`, `PeakCoversSamples` of `CodexCycles` fails: after a
restart, the first sample of a quota that was missing from the first snapshot does
not count for the peak (`codex_tracker.go:190`). And `ReportsAgree` leaves one
difference out: Antigravity's own chart may lack the newest sample while the view
of all providers has it.

## Proofs

All for every value of the constants, under the assumption each module states
(`ManagerAssumption`, `AuthAssumption`, `CyclesAssumption`, `SessionsAssumption`,
`GeminiAssumption` and so on: the constants are of their types, bounds are naturals,
a reported reset lies in the future). What is assumed besides is in the theorem:

- the theorems about sessions, except `TypeCorrect`, assume `~Overlap`: that no run
  starts before the one cancelled before it is gone. `UsageSessionsOverlap.cfg`
  shows what happens without it;
- `IdentityAlwaysHasOneRow` assumes `~Legacy`: that the table has no two rows of one
  identity to begin with, as an older version could leave it;
- the theorems about spent pairs assume `~HasKeyring`; the run
  `anthropic_auth_downgrade` shows what happens with one;
- the theorems about alerts assume `OneAccount`, which `CodexAccounts.cfg` shows to be
  needed, and the second of them a store that does not fail, no crash and channels
  that stay, for the reason given with `CodexChannels.cfg`;
- `AgentsAlwaysMatchSwitches` assumes `OnePage`;
- `NoEventIsEverTorn` and `IngestKeepsLedger` assume `~Regrow`, for the reason given
  with `IngestRegrow.cfg`; `IngestTypeCorrect` and `CursorAlwaysCoversDealtLines` hold
  of regrown files too. `IngestAssumption` has besides the types of the constants that
  the mark of an invalid line is no event;
- the theorems about MiniMax assume `~Overlap`: that the registry neither starts nor
  stops the manager in the midst of a request, nor starts it anew before its run has
  ended. The properties that fail otherwise are under Findings;
- `TrackersAssumption` says of the tolerances that they are positive and shorter than
  a window, and nothing else: the theorems hold for any two of them.

| Theorem | Property | Inductive invariant |
|---|---|---|
| `AgentManagerProofs!TypeCorrect`, `TrackedRunsArePresent`, `OnlyEarlierExitsForget`, `EntriesAreNotReplaced` | `TypeOK`, `TrackedRunIsPresent`, `ForgottenOnlyByEarlierExit`, `EntryNeverReplaced` | `TypeOK`, the entry of a key is a run of that key that is not cancelled, not being stopped and not gone; a run held by a canceller was launched (`HeldRunsAreLaunched`); the entry is the latest run of its key (`TrackedRunIsNewest`). `ForgottenOnlyByEarlierExit` needs the order in which runs are launched: the exit that removes an entry is that of another run, and the entry belongs to the latest one |
| `AnthropicAuthProofs!TypeCorrect`, `PausedAgentHasDeadline`, `PausedAgentDoesNotFetch`, `ScheduleIsKept` | `TypeOK`, `PausedHasDeadline`, `NoFetchWhilePaused`, `ScheduleKept` | `TypeOK` and, for the second and third, what holds at each point of the poll: between the pause check and the fetch nothing but a refresh made for that poll may pause, and a failed one ends the poll |
| `AnthropicAuthProofs!SpentPairsAreKnown`, `RereadKeepsSuccessor` | `SpentPairIsKnown`, `RereadNeverDowngrades` | `SpentInv`: the stored pair and the pair in hand were issued and the marked one is spent (`PairsAreIssued`); while a pair is refreshed or saved, the stored one is not the marked one unless it is the one in hand (`MarkIsOfAnother`), so that a save that fails never overwrites the mark of a pair that is still stored. The second theorem looks at one step: a spent pair that is stored is the marked one, which the re-read skips, or lost |
| `ServicesProofs!GeminiTypesAreKept`, `PauseIsAlwaysEarned` | `GeminiTypeOK`, `PauseIsEarned` | `CountIsBehind`, `PausedRests`: the agent's counter never exceeds the refusals of Google and lags by one while a refused poll is at its refresh or retry; a paused agent is not in those places |
| `ServicesProofs!ForeignTokenIsAlwaysShadowed` | `ForeignTokenIsShadowed` | `TableHoldsForeignGrant`: as long as no write has failed, beside a file whose access token is of another grant than its refresh token, the table holds that grant, and the table comes first |
| `CodexCyclesProofs!TypeCorrect`, `CyclesAreInOrder` | `TypeOK`, `CyclesInOrder` | `TypeOK`, `SampleInHand` (a job past the poll has a real sample), `Stamps` (captures and stored times are not in the future, a stored reset is after the start of its row) and `InOrder` (the row and the job of an account start after the end of the row closed last) |
| `CodexCyclesProofs!AlertsOncePerCycle`, `LogIsAlwaysOfThisCycle` | `AtMostOncePerCycle`, `LogIsOfThisCycle` | `SentIsLogged`: what was sent in the cycle is in the log, unless the entry is known to be unwritten, or is the one being written by the job; `LoggedIsSent`: what is in the log was sent in the cycle, except from the end of a cycle to the callback that clears it |
| `UsageProofs!IngestTypeCorrect`, `CursorAlwaysCoversDealtLines`, `NoEventIsEverTorn` | `IngestTypeOK`, `CursorCoversDealtLines`, `NoEventIsTorn` | `IngestInv`, of each file and of the one the agent is in (`EachFile`, `InHand`). That the cursor covers dealt lines is not inductive: a save stores the offset read up to, and only `HandOK` says that the lines before it are the ones done and those still in hand |
| `UsageProofs!IngestKeepsLedger` | `KeepsLedger` | `IngestInv` before and after the step, and the lemmas of *The refinement* |
| `UsageProofs!TypeCorrect`, `OpenSessionsAreTracked`, `MaxCovers`, `ClosedSessionsAreFinal` | `TypeOK`, `OpenSessionIsTracked`, `MaxCoversUsage`, `ClosedIsFinal` | `TypeOK` and `SingleRun`: one run at most, and one while the manager has a session; a run in a store call names that session and the usage reported last; the row of the session does not exist before `create` and is open at every later point; a number that was not drawn has no row |
| `ServicesProofs!CursorTypeCorrect`, `CursorRefreshUnspent` | `CursorTypes`, `StoredRefreshIsUnspent` | `CursorFailuresLeft`: an agent that may be refused once more has refusals left, so that its counter stays within the limit; `BothUnspent`: neither store holds a refresh token that was spent, the keyring being empty where there is none (`NoKeyringIsEmpty`) |
| `ServicesProofs!CodexTypeCorrect`, `CodexProfileOwn` | `CodexTypes`, `ProfileUsesOwnAccount` | beside the agent of a profile every file is labelled with the account its pair is of (`FilesAreLabelled`: only the default agent writes a pair next to another account's id), and what the agent holds or is about to refresh is of its own (`AgentHoldsOwn`) |
| `TrackersProofs!TrackerInvariant`, `TrackerCyclesTile`, `TrackerCyclesAreWindows`, `TrackerPeakIsRecorded` | `CyclesTile`, `CyclesAreWindows`, `PeakIsRecorded` | `TrackerInv`, of which the table's part is shown of the table after each store call: the cycles do not overlap and only the last may be open (`TableOK`), and the reset stored with an open cycle is that of the window it counts, the present one or one that is over (`WindowOK`) |
| `TrackersProofs!TrackerSummaryIsConsumption` | `SummaryIsConsumption` | `RoomInv`: the total of the table and what no poll has seen yet (`Unseen`) are together no more than what was ever used. The property alone is not inductive: a poll may add all that was used since the value in memory. That the total, which is defined by recursion over the cycles, grows by what a store call adds to one row (`AppendTotal`, `ReplacedTotal`) is shown with the lowest cycle of which it does not hold (`SumExists`, `SameSum`), for the library's induction takes operators |
| `TrackersProofs!PollsInvariant`, `PollsAlertIsOfThisCycle`, `PollsOverviewShowsItsCycle`, `PollsCurrentIsOfActiveCycle` | `AlertIsOfThisCycle`, `OverviewShowsItsCycle`, `CurrentIsOfActiveCycle` | `PollsInv`: a snapshot is no older than its cycle and older than every later one (`SnapshotsOK`), and unless a reset was cut short a cycle is open and the log is of it (`AlertsOK`). The current value needs besides that the snapshots are in order and the newest one with the quota was counted for the last cycle (`CurrentOK`) |
| `TrackersProofs!PollsReportsAgree` | `ReportsAgree` | `ReportsInv`, `RoomInv` and `SpendInv`: there is an account of what had ever been used when each snapshot was stored (`Spends`), such that between two snapshots, and since the last, no more was used than its difference. The difference of two samples alone does not say so, for a reset takes use away and the retention deletes snapshots; of the stored values, only those that were read count (`Tracked`). What the reports keep of a table (`EntriesAt`, a recursive function, for the prover has no definition of `SelectSeq`) is then named by increasing places (`EntriesNamed`): a total is below the way of the account (`TotalBelow`, `SeriesBelow`), the kept places of a chart are a step apart, so that there are one more than the target at most (`FewKept`, `StepCovers`), and the last place is kept (`LastKept`) |
| `SettingsProofs!DaemonTypeCorrect`, `PIDFileAlwaysNamesServer` | `DaemonTypeOK`, `PIDFileNamesServer` | `DaemonInv`: one process at most is a command or does an update (`OneBusy`); who is about to listen or serves is named in the file, or is the child that its parent is about to write down (`BootsOK`, `ServesOK`); whoever is leaving and still named in the file was asked to by a command that will write it anew (`LeavingOK`, `RemovingOK`) |
| `SettingsProofs!MiniMaxTypeCorrect`, `MiniMaxAgentsFollowAccounts` | `MiniMaxTypeOK`, `AgentsFollowAccounts` | `MiniMaxInv`: one thread at most loads accounts, and a reload does so only under the lock and with a manager that runs (`RunsInTurn`, `ReloadsInTurn`); an account has one agent at most, of the run the manager has (`SlotsOK`); no agent is left when the rows are read, and none of the account that is started next (`PlacesOK`); a key in an agent's hands or on the list to start is the account's unless a request has yet to have the rows read (`KeysOK`) |
| `SettingsProofs!AdminAlwaysKeepsPassword` | `AdminKeepsPassword` | `OneRequest` and `AdminIsStored`: of two hashes the one in memory lags at one place of one request only |
| `SettingsProofs!TypedPasswordIsAlwaysPresented` | `TypedPasswordIsPresented` | `KeysOfFirstHash`, `PasswordOnItsWay`, `PasswordIsSealed`, `PasswordIsPresented`: through the steps of a save, of a start that finds a salt or makes one, and of a migration, the stored password was encrypted once, with the key or with the legacy key that the engine has then |
| `SettingsProofs!ProfilesTypeCorrect`, `IdentityAlwaysHasOneRow` | `ProfilesTypeOK`, `IdentityHasOneRow` | `ProfilesInv`: the table has one row for each name (`DistinctNames`), and one for each identity, deleted rows included (`OneRowEach`), unless the race has happened; a row that a command has read is still there when it writes, and what the manager has in hand is a profile (`ProfileHand`). The merge of rows is not needed for it, only for what older versions left |
| `ProviderControlProofs!AgentsAlwaysMatchSwitches` | `AgentsMatchSwitches` | `StageInv`: at each stage of a request, which providers may be out of line: for a toggle the one it is about, for a save or a reload those its loop has not come to; `KeyIsFound`, that a toggle which switches on has found a key |
| `ProviderControlProofs!TypedKeyIsAlwaysLoaded` | `TypedKeyIsLoaded` | `KeyInv`: but for a reload that is between `.env` and the settings, a daemon that could read the settings last (`asked.loaded`) has the typed key in its configuration, with any number of pages |

The invariants are not inductive as they stand: `CyclesInOrder`, for one, says
nothing of the sample an agent has in hand, whose capture time becomes the end
of one cycle and the start of the next two store calls later;
`OpenSessionIsTracked` does not say that the session whose creation failed has no
row, which is why forgetting it leaves nothing open; `AgentsMatchSwitches` speaks of
a daemon without requests, and nearly every step is of one. Each proof has one step
or lemma per action; the leaves name the facts they use.

Only model-checked:

- liveness (`StoppedRunExits`, `RecoveryIsAttempted`, `IdleSessionEnds`,
  `LinesAreDealtWith`, `NewCredentialsResume`, `CursorResumes`,
  `CodexLoginResumes`, `ProfileIsPolled`, `AccountIsPolled`, `UpdateTakesOver`), since
  fairness and `ENABLED` are out of the prover's reach.

Every invariant and every action property of a passing run is proved.

`PausedHasDeadline`, `NoFetchWhilePaused`, `EntryNeverReplaced`, `ClosedIsFinal`,
`NoEventIsTorn` and `TypedKeyIsLoaded` are proved and not in a run: they say less of small instances
than the properties of the same runs that are.

## Not modelled

- **Web sessions and login limiter** (`internal/web/middleware.go`): the
  authentication of the dashboard is left out; of it only the storage of the
  admin's hash is in `SmtpSettings`.
- **Generic adapter** (`internal/generic`): platforms in one JSON setting that
  handlers rewrite without a lock, without cycles or alerts. `ProviderControl`
  shows this hazard for the visibility setting.
- **API clients**: requests and parsing, pure I/O. What answers there can be is
  the environment's choice in the modules.
- **Menubar, metrics, service, setup, front end**: operating system integration and
  display, without state of their own that the rest reads.
- **Schema and migrations** (`internal/store`): straight-line SQL run before
  anything else starts.
- **Formatting and insights** of the reports: no state; the reports are modelled up
  to which cycle and which snapshot a place shows.
- The Windows and macOS variants of credential stores beyond "a store that may
  fail", the statusline file format of Claude Code, system alerts, overrides of
  thresholds, push subscriptions, the starter pings of Codex.

Hazards of the code that no property is about, beside those noted in `PROJECT.json`:
a `Start` in its factory while `StopAll` empties the map launches a loop after the
shutdown (`manager.go:88`; the process exits then); concurrent writes to the unlocked
maps of the Codex tracker by several accounts (`codex_tracker.go:84`), which the Go
runtime ends with a crash; and a session that stays open while polling is
disabled, since only a report looks at the idle timeout (`agent.go:95`).
