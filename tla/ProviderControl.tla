--------------------------- MODULE ProviderControl ---------------------------
(***************************************************************************)
(* Which providers the daemon polls.  The keys come from .env, from what   *)
(* the user has typed into the settings, and from the logins of other      *)
(* tools; the clients are built from them once, when the daemon starts     *)
(* (main.go, config.go).  The switches of the providers are kept in the    *)
(* setting "provider_visibility", which the dashboard changes one by one   *)
(* (ToggleProvider) or as a whole (UpdateSettings), and which a reload     *)
(* brings the agents in line with (ReloadProviders).                       *)
(*                                                                         *)
(* A provider stands for its kind: "zai" has a key in .env or in the       *)
(* settings, "gemini" is switched on by .env or by a login that is found,  *)
(* "codex" has a token in .env or a login, and accounts with switches of   *)
(* their own.  Keys are numbers, 0 is none.                                *)
(***************************************************************************)
EXTENDS Integers, FiniteSets

CONSTANTS
    WebClients,         \* pages of the dashboard
    MaxChanges,         \* bound: what the pages ask for
    MaxKeyEdits,        \* bound: edits of .env, logins and logouts
    MaxControlFaults    \* bound: calls of the database that fail; those of a start are one

ASSUME ProviderControlAssumption ==
    MaxChanges \in Nat /\ MaxKeyEdits \in Nat /\ MaxControlFaults \in Nat

VARIABLES
    dotenv,     \* the key of each provider in .env
    logins,     \* the token that is found on the disk
    settings,   \* the key in the setting "provider_settings"
    visibility, \* the setting "provider_visibility": a switch, or "unset"
    daemon,     \* the process: its environment, configuration, clients, agents
    pages,      \* what each page shows, and its request
    asked       \* history, and the numbers given out so far

controlVars == <<dotenv, logins, settings, visibility, daemon, pages, asked>>

Providers == {"zai", "gemini", "codex"}
Typed == {"zai"}                \* with a key in the settings
Detected == {"gemini", "codex"} \* with a login that is looked for
Switches == Providers \cup {"codex:2"}
Base(key) == IF key = "codex:2" THEN "codex" ELSE key

None == [p \in Providers |-> 0]
Untouched == [k \in Switches |-> "unset"]
NoDaemon == [up |-> FALSE, environ |-> None, config |-> None, clients |-> None, running |-> {}]
NoAsk == [at |-> "none", key |-> "zai", polling |-> "unset", vis |-> Untouched, todo |-> {}]

ControlInit ==
    /\ dotenv = None /\ logins = None /\ settings = None
    /\ visibility = Untouched
    /\ daemon = NoDaemon
    /\ pages = [c \in WebClients |-> [shown |-> Untouched, ask |-> NoAsk]]
    /\ asked = [changes |-> 0, edits |-> 0, faults |-> 0, keys |-> 0,
                broken |-> FALSE, loaded |-> FALSE]

Enabled(p, vis) == vis[p] # "off"
Configured(p) == daemon.config[p] # 0 \/ (p = "codex" /\ logins[p] # 0)
NoneAsked == \A c \in WebClients : pages[c].ask = NoAsk
FaultLeft == asked.faults < MaxControlFaults

\* The variables outside the daemon and its pages.
kept == <<dotenv, logins, settings, visibility>>

-----------------------------------------------------------------------------
(* Keys *)

\* A bug to detect: .env goes before the settings.
EnvironmentFirst(env, saved) == [p \in Providers |-> IF env[p] # 0 THEN env[p] ELSE saved[p]]

\* ApplyProviderSettingsFromDB: what is saved goes before .env.
ApplyProviderSettings(env, saved) ==
    [p \in Providers |-> IF saved[p] # 0 THEN saved[p] ELSE env[p]]

\* godotenv.Load sets what the environment of the process does not have yet.
LoadEnv(environ) == [p \in Providers |-> IF environ[p] # 0 THEN environ[p] ELSE dotenv[p]]

Preflight(env) == [p \in Providers |-> IF env[p] = 0 /\ p \in Detected THEN logins[p] ELSE env[p]]

\* main: load the configuration, look for logins, apply the settings, build
\* clients and agents, and start those that are switched on.  Settings that
\* cannot be read are not applied; the switches are read once for each provider,
\* and one that cannot be read is taken to be on.
StartControl ==
    /\ ~daemon.up
    /\ \E failed \in SUBSET ({"settings"} \cup Providers) :
          LET env == LoadEnv(None)
              found == Preflight(env)
              config == IF "settings" \in failed THEN found
                        ELSE ApplyProviderSettings(found, settings)
          IN  /\ failed # {} => FaultLeft
              /\ daemon' = [up |-> TRUE, environ |-> env, config |-> config, clients |-> config,
                            running |-> {p \in Providers :
                               config[p] # 0 /\ (p \in failed \/ Enabled(p, visibility))}]
              /\ asked' = [asked EXCEPT !.faults = IF failed = {} THEN @ ELSE @ + 1,
                                        !.broken = failed \cap Providers # {},
                                        !.loaded = "settings" \notin failed]
    /\ UNCHANGED <<kept, pages>>

StopControl ==
    /\ daemon.up /\ NoneAsked
    /\ daemon' = NoDaemon
    /\ asked' = [asked EXCEPT !.broken = FALSE]
    /\ UNCHANGED <<kept, pages>>

EditKeys ==
    /\ asked.edits < MaxKeyEdits
    /\ \E new \in {0, asked.keys + 1} :
          /\ \/ \E p \in Providers : dotenv' = [dotenv EXCEPT ![p] = new] /\ UNCHANGED logins
             \/ \E p \in Detected : logins' = [logins EXCEPT ![p] = new] /\ UNCHANGED dotenv
          /\ asked' = [asked EXCEPT !.edits = @ + 1, !.keys = IF new = 0 THEN @ ELSE new]
    /\ UNCHANGED <<settings, visibility, daemon, pages>>

-----------------------------------------------------------------------------
(* Agents *)

\* AgentManager.Start: an error when main has registered no factory.
StartedAgent(p) ==
    IF daemon.clients[p] = 0 THEN daemon
    ELSE [daemon EXCEPT !.running = @ \cup {p}]

StoppedAgent(p) == [daemon EXCEPT !.running = @ \ {p}]

\* A bug to detect: what is off is not stopped.
StartOnly(p, vis) ==
    IF Enabled(p, vis) /\ Configured(p) THEN StartedAgent(p) ELSE daemon

\* The loop over the providers of ReloadProviders and UpdateSettings.
Reconciled(p, vis) ==
    IF Enabled(p, vis) /\ Configured(p) THEN StartedAgent(p) ELSE StoppedAgent(p)

-----------------------------------------------------------------------------
(* Requests *)

Asks(c, at) == pages[c].ask.at = at
Ask(c, ask) == pages' = [pages EXCEPT ![c].ask = ask]
GoOn(c, at) == pages' = [pages EXCEPT ![c].ask.at = at]
Answer200(c) == Ask(c, NoAsk)

\* A request that fails after it has changed something.
Fail(c) ==
    /\ FaultLeft
    /\ asked' = [asked EXCEPT !.faults = @ + 1, !.broken = TRUE]
    /\ Answer200(c)

\* GetSettings
View(c) ==
    /\ daemon.up /\ Asks(c, "none")
    /\ pages' = [pages EXCEPT ![c].shown = visibility]
    /\ UNCHANGED <<kept, daemon, asked>>

Request(c) ==
    /\ daemon.up /\ Asks(c, "none") /\ asked.changes < MaxChanges
    /\ asked' = [asked EXCEPT !.changes = @ + 1]
    /\ \/ \E key \in Switches, polling \in {"on", "off", "unset"} :
             Ask(c, [NoAsk EXCEPT !.at = "toggle", !.key = key, !.polling = polling])
       \/ \E key \in Switches, polling \in {"on", "off"} :
             Ask(c, [NoAsk EXCEPT !.at = "replace",
                        !.vis = [pages[c].shown EXCEPT ![key] = polling]])
       \/ Ask(c, [NoAsk EXCEPT !.at = "type"])
       \/ Ask(c, [NoAsk EXCEPT !.at = "load"])
    /\ UNCHANGED <<kept, daemon>>

\* ToggleProvider: a provider with no key is looked for (tryAutoDetect) before
\* it is switched on.
Toggle(c) ==
    /\ Asks(c, "toggle")
    /\ LET p == Base(pages[c].ask.key)
           found == p \in Detected /\ logins[p] # 0
       IN IF pages[c].ask.polling # "on" \/ Configured(p)
          THEN GoOn(c, "read") /\ UNCHANGED daemon
          ELSE IF found THEN /\ GoOn(c, "read")
                             /\ daemon' = [daemon EXCEPT !.config[p] = logins[p]]
          ELSE Answer200(c) /\ UNCHANGED daemon
    /\ UNCHANGED <<kept, asked>>

\* setProviderVisibility: the switches are read, and one is changed; a
\* provider that is not listed is listed as on.  If they cannot be read they
\* are all taken to be unset.
Changed(vis, ask) ==
    [vis EXCEPT ![ask.key] = IF ask.polling # "unset" THEN ask.polling
                             ELSE IF @ = "unset" THEN "on" ELSE @]

ReadVisibility(c) ==
    /\ Asks(c, "read")
    /\ \/ /\ Ask(c, [pages[c].ask EXCEPT !.at = "save", !.vis = Changed(visibility, pages[c].ask)])
          /\ UNCHANGED asked
       \/ /\ FaultLeft
          /\ asked' = [asked EXCEPT !.faults = @ + 1, !.broken = TRUE]
          /\ Ask(c, [pages[c].ask EXCEPT !.at = "save", !.vis = Changed(Untouched, pages[c].ask)])
    /\ UNCHANGED <<kept, daemon>>

SaveVisibility(c) ==
    /\ Asks(c, "save")
    /\ \/ /\ visibility' = pages[c].ask.vis
          /\ GoOn(c, "agent")
          /\ UNCHANGED asked
       \/ Fail(c) /\ UNCHANGED visibility
    /\ UNCHANGED <<dotenv, logins, settings, daemon>>

ToggleAgent(c) ==
    /\ Asks(c, "agent")
    /\ LET ask == pages[c].ask
       IN daemon' = IF ask.polling = "on" THEN StartedAgent(Base(ask.key))
                    ELSE IF ask.polling = "off" THEN StoppedAgent(Base(ask.key))
                    ELSE daemon
    /\ Answer200(c)
    /\ UNCHANGED <<kept, asked>>

\* UpdateSettings, provider_visibility: all the switches are those of the page.
ReplaceVisibility(c) ==
    /\ Asks(c, "replace")
    /\ \/ /\ visibility' = pages[c].ask.vis
          /\ Ask(c, [pages[c].ask EXCEPT !.at = "reconcile", !.todo = Providers])
          /\ UNCHANGED asked
       \/ Fail(c) /\ UNCHANGED visibility
    /\ UNCHANGED <<dotenv, logins, settings, daemon>>

Reconcile(c) ==
    /\ Asks(c, "reconcile")
    /\ \E p \in pages[c].ask.todo :
          /\ daemon' = Reconciled(p, pages[c].ask.vis)
          /\ IF pages[c].ask.todo = {p} THEN Answer200(c)
             ELSE pages' = [pages EXCEPT ![c].ask.todo = @ \ {p}]
    /\ UNCHANGED <<kept, asked>>

\* UpdateSettings, provider_settings: a key that is not sent is left as it is,
\* and one that is sent empty is cleared.
TypeKey(c) ==
    /\ Asks(c, "type")
    /\ \E p \in Typed, new \in {0, asked.keys + 1} :
          /\ settings' = [settings EXCEPT ![p] = new]
          /\ asked' = [asked EXCEPT !.keys = IF new = 0 THEN @ ELSE new, !.loaded = FALSE]
    /\ Answer200(c)
    /\ UNCHANGED <<dotenv, logins, visibility, daemon>>

\* ReloadProviders.  applyProviderConfig takes what .env gives, and no login.
LoadConfig(c) ==
    /\ Asks(c, "load")
    /\ LET env == LoadEnv(daemon.environ)
       IN daemon' = [daemon EXCEPT !.environ = env, !.config = env]
    /\ GoOn(c, "apply")
    /\ UNCHANGED <<kept, asked>>

\* Settings that cannot be read are not applied, and the reload goes on.
ApplySettings(c) ==
    /\ Asks(c, "apply")
    /\ \/ /\ daemon' = [daemon EXCEPT !.config = ApplyProviderSettings(@, settings)]
          /\ asked' = [asked EXCEPT !.loaded = TRUE]
       \/ /\ FaultLeft
          /\ asked' = [asked EXCEPT !.faults = @ + 1, !.loaded = FALSE]
          /\ UNCHANGED daemon
    /\ GoOn(c, "list")
    /\ UNCHANGED kept

\* The switches are read; if that fails they are all taken to be unset.
ListSwitches(c) ==
    /\ Asks(c, "list")
    /\ \/ /\ Ask(c, [NoAsk EXCEPT !.at = "reconcile", !.vis = visibility, !.todo = Providers])
          /\ UNCHANGED asked
       \/ /\ FaultLeft
          /\ asked' = [asked EXCEPT !.faults = @ + 1, !.broken = TRUE]
          /\ Ask(c, [NoAsk EXCEPT !.at = "reconcile", !.vis = Untouched, !.todo = Providers])
    /\ UNCHANGED <<kept, daemon>>

-----------------------------------------------------------------------------
ControlNext ==
    \/ StartControl
    \/ StopControl
    \/ EditKeys
    \/ \E c \in WebClients :
          \/ View(c) \/ Request(c)
          \/ Toggle(c) \/ ReadVisibility(c) \/ SaveVisibility(c) \/ ToggleAgent(c)
          \/ ReplaceVisibility(c) \/ Reconcile(c)
          \/ TypeKey(c)
          \/ LoadConfig(c) \/ ApplySettings(c) \/ ListSwitches(c)

\* Every property is about what may happen: nothing here has to.
ControlSpec == ControlInit /\ [][ControlNext]_controlVars

-----------------------------------------------------------------------------
(* Properties *)

AgentsMatch(p) ==
    daemon.up /\ NoneAsked /\ ~asked.broken =>
       (p \in daemon.running <=>
           daemon.clients[p] # 0 /\ Enabled(p, visibility) /\ Configured(p))

\* Whatever the sequence of toggles, saved switches, reloads and restarts, a
\* provider without accounts of its own has an agent at work just when its
\* switch is on, the daemon has a key for it and has built its client.  It is
\* about three handlers that each bring the agents in line in their own way.
\* It holds for requests one at a time, after no call of the database failed.
AgentsMatchSwitches == \A p \in Providers \ {"codex"} : AgentsMatch(p)

\* After a start or a reload that could read the settings, the key that was typed
\* into them is the one that the daemon is configured with, whatever is in .env
\* (ApplyProviderSettingsFromDB, "the UI to override .env values").
TypedKeyIsLoaded ==
    daemon.up /\ NoneAsked /\ asked.loaded =>
       \A p \in Typed : settings[p] # 0 => daemon.config[p] = settings[p]

\* False, with requests one at a time: the switch of an account of Codex that
\* is turned off stops the agents of all its accounts.
EveryAgentMatchesSwitch == \A p \in Providers : AgentsMatch(p)

\* False: a reload applies the key to the configuration, but the client that
\* was built at the start goes on with the old one.
LoadedKeyIsUsed ==
    daemon.up /\ NoneAsked /\ asked.loaded =>
       \A p \in Typed : settings[p] # 0 => daemon.clients[p] = settings[p]

\* False: a reload does not look for logins, and stops Gemini where a login
\* had it started.
ReloadKeepsGemini ==
    daemon.up /\ NoneAsked /\ ~asked.broken /\ daemon.clients["gemini"] # 0 =>
       ("gemini" \in daemon.running <=> Enabled("gemini", visibility))
=============================================================================
