----------------------- MODULE ProviderControlProofs ------------------------
(***************************************************************************)
(* AgentsMatchSwitches, for a dashboard of one page, any number of         *)
(* changes, edits of keys and failed calls of the database; and            *)
(* TypedKeyIsLoaded, for any number of pages.                              *)
(*                                                                         *)
(* A request changes the setting first and the agents after it, so that    *)
(* the property does not hold while one is at work.  The invariant says of *)
(* every stage of a request which providers may be out of line:            *)
(* a toggle leaves out of line the provider it is about and no other one,  *)
(* a saved page or a reload those that its loop has not come to yet.       *)
(***************************************************************************)
EXTENDS ProviderControl, TLAPS

(* Types *)

Setting == {"on", "off", "unset"}
KeyTable == [Providers -> Nat]
SwitchTable == [Switches -> Setting]
Stages == {"none", "toggle", "read", "save", "agent", "replace", "reconcile", "type",
           "load", "apply", "list"}
AskShape == [at : Stages, key : Switches, polling : Setting, vis : SwitchTable,
             todo : SUBSET Providers]
DaemonShape == [up : BOOLEAN, environ : KeyTable, config : KeyTable, clients : KeyTable,
                running : SUBSET Providers]
PageShape == [shown : SwitchTable, ask : AskShape]
AskedShape == [changes : Nat, edits : Nat, faults : Nat, keys : Nat,
               broken : BOOLEAN, loaded : BOOLEAN]

ControlTypes ==
    /\ dotenv \in KeyTable /\ logins \in KeyTable /\ settings \in KeyTable
    /\ visibility \in SwitchTable
    /\ daemon \in DaemonShape
    /\ pages \in [WebClients -> PageShape]
    /\ asked \in AskedShape

-----------------------------------------------------------------------------
(* The invariant *)

Plain == Providers \ {"codex"}

\* The provider has an agent at work just when it should have one.
InLine(p) ==
    p \in daemon.running <=> daemon.clients[p] # 0 /\ Enabled(p, visibility) /\ Configured(p)

\* Where a request has come to, and what is in line there.
StageInv(ask) ==
    CASE ask.at \in {"none", "toggle", "replace", "type", "load"} -> \A p \in Plain : InLine(p)
      [] ask.at = "read" ->
            \A p \in Plain : (p = ask.key /\ ask.polling = "on") \/ InLine(p)
      [] ask.at = "save" ->
            /\ \A p \in Plain : (p = ask.key /\ ask.polling = "on") \/ InLine(p)
            /\ \A p \in Plain : p # ask.key => (Enabled(p, ask.vis) <=> Enabled(p, visibility))
            /\ IF ask.polling = "unset"
               THEN Enabled(ask.key, ask.vis) <=> Enabled(ask.key, visibility)
               ELSE ask.vis[ask.key] = ask.polling
      [] ask.at = "agent" ->
            /\ \A p \in Plain : (p = ask.key /\ ask.polling # "unset") \/ InLine(p)
            /\ ask.polling # "unset" => visibility[ask.key] = ask.polling
      [] ask.at = "reconcile" ->
            /\ ask.vis = visibility
            /\ \A p \in Plain : p \in ask.todo \/ InLine(p)
      [] OTHER -> TRUE

\* A toggle that switches on has found a key for its provider.
KeyIsFound(ask) ==
    ask.at \in {"read", "save", "agent"} /\ ask.polling = "on" /\ ask.key \in Plain =>
        Configured(ask.key)

SwitchInv ==
    /\ \A p \in daemon.running : daemon.clients[p] # 0
    /\ ~daemon.up => NoneAsked
    /\ daemon.up /\ ~asked.broken =>
          \A c \in WebClients : StageInv(pages[c].ask) /\ KeyIsFound(pages[c].ask)

\* One page of the dashboard.
OnePage == \E c : WebClients = {c}

-----------------------------------------------------------------------------
(* Types *)

\* The values that the model writes down are of their types.
LEMMA FirstValues ==
  /\ None \in KeyTable /\ Untouched \in SwitchTable
  /\ NoAsk \in AskShape /\ NoAsk.at = "none" /\ NoDaemon \in DaemonShape
  /\ \A key \in Switches : Base(key) \in Providers
<1>1. None \in KeyTable /\ Untouched \in SwitchTable
  BY DEF None, Untouched, KeyTable, SwitchTable, Setting
<1>2. "zai" \in Switches
  BY DEF Switches, Providers
<1>3. QED
  BY <1>1, <1>2 DEF NoAsk, AskShape, Stages, Setting, NoDaemon, DaemonShape, Base, Switches, Providers

\* The tables of keys that a start or a reload makes.
LEMMA KeysAreMerged ==
  ASSUME ControlTypes, NEW env \in KeyTable
  PROVE  /\ LoadEnv(env) \in KeyTable
         /\ ApplyProviderSettings(env, settings) \in KeyTable
         /\ Preflight(env) \in KeyTable
BY DEF ControlTypes, KeyTable, LoadEnv, ApplyProviderSettings, Preflight

\* An answer or a stage of one page: the other pages keep theirs.
LEMMA OnePageMoves ==
  ASSUME ControlTypes, NEW c \in WebClients, NEW ask \in AskShape, Ask(c, ask)
  PROVE  /\ pages' \in [WebClients -> PageShape] /\ pages'[c].ask = ask
         /\ \A d \in WebClients : d # c => pages'[d] = pages[d]
<1>1. pages[c] \in PageShape
  BY DEF ControlTypes
<1>2. [pages[c] EXCEPT !.ask = ask] \in PageShape /\ [pages[c] EXCEPT !.ask = ask].ask = ask
  BY <1>1 DEF PageShape
<1>3. pages' = [pages EXCEPT ![c] = [pages[c] EXCEPT !.ask = ask]]
  BY DEF Ask
<1>4. QED
  BY <1>2, <1>3 DEF ControlTypes

\* The request of a page is one, and stays one at another stage.
LEMMA AskIsOne ==
  ASSUME ControlTypes, NEW c \in WebClients
  PROVE  /\ pages[c].ask \in AskShape /\ pages[c].shown \in SwitchTable
         /\ \A at \in Stages :
               /\ [pages[c].ask EXCEPT !.at = at] \in AskShape
               /\ GoOn(c, at) <=> Ask(c, [pages[c].ask EXCEPT !.at = at])
<1>1. pages[c] \in PageShape /\ pages \in [WebClients -> PageShape]
  BY DEF ControlTypes
<1>2. pages[c].ask \in AskShape /\ pages[c].shown \in SwitchTable
  BY <1>1 DEF PageShape
<1>3. ASSUME NEW at \in Stages
      PROVE  /\ [pages[c].ask EXCEPT !.at = at] \in AskShape
             /\ GoOn(c, at) <=> Ask(c, [pages[c].ask EXCEPT !.at = at])
  <2>1. [pages[c].ask EXCEPT !.at = at] \in AskShape
    BY <1>2 DEF AskShape
  <2>2. QED
    BY <2>1 DEF GoOn, Ask
<1>4. QED
  BY <1>2, <1>3

\* Switching a provider on or off changes the agents and nothing else.
LEMMA AgentsOfDaemon ==
  ASSUME ControlTypes, NEW p \in Providers
  PROVE  /\ StartedAgent(p) \in DaemonShape /\ StoppedAgent(p) \in DaemonShape
         /\ \A d \in {StartedAgent(p), StoppedAgent(p)} :
               d.up = daemon.up /\ d.environ = daemon.environ
               /\ d.config = daemon.config /\ d.clients = daemon.clients
         /\ StoppedAgent(p).running = daemon.running \ {p}
         /\ StartedAgent(p).running =
               IF daemon.clients[p] = 0 THEN daemon.running ELSE daemon.running \cup {p}
BY DEF ControlTypes, DaemonShape, StartedAgent, StoppedAgent

\* What the daemon may take over into its configuration.
LEMMA ConfigOfDaemon ==
  ASSUME ControlTypes, NEW environ \in KeyTable, NEW config \in KeyTable
  PROVE  /\ [daemon EXCEPT !.environ = environ, !.config = config] \in DaemonShape
         /\ [daemon EXCEPT !.config = config] \in DaemonShape
BY DEF ControlTypes, DaemonShape

\* A history with a change, an edit, a key, a fault more, or other marks.
LEMMA AskedIsCounted ==
  ASSUME ControlTypes, NEW new \in Nat, NEW broken \in BOOLEAN, NEW loaded \in BOOLEAN
  PROVE  /\ [asked EXCEPT !.changes = @ + 1] \in AskedShape
         /\ [asked EXCEPT !.edits = @ + 1, !.keys = new] \in AskedShape
         /\ [asked EXCEPT !.keys = new, !.loaded = loaded] \in AskedShape
         /\ [asked EXCEPT !.faults = @ + 1, !.broken = broken] \in AskedShape
         /\ [asked EXCEPT !.faults = @ + 1, !.loaded = loaded] \in AskedShape
         /\ \A n \in {asked.faults, asked.faults + 1} :
               [asked EXCEPT !.faults = n, !.broken = broken, !.loaded = loaded] \in AskedShape
         /\ [asked EXCEPT !.broken = broken] \in AskedShape
         /\ [asked EXCEPT !.loaded = loaded] \in AskedShape
<1>1. /\ asked \in AskedShape /\ asked.changes + 1 \in Nat /\ asked.edits + 1 \in Nat
      /\ asked.faults \in Nat /\ asked.faults + 1 \in Nat
  BY DEF ControlTypes, AskedShape
<1>2. \A n \in Nat : [asked EXCEPT !.changes = n] \in AskedShape
  BY <1>1 DEF AskedShape
<1>3. \A n \in Nat : [asked EXCEPT !.edits = n, !.keys = new] \in AskedShape
  BY <1>1 DEF AskedShape
<1>4. [asked EXCEPT !.keys = new, !.loaded = loaded] \in AskedShape
  BY <1>1 DEF AskedShape
<1>5. \A n \in Nat : [asked EXCEPT !.faults = n, !.broken = broken] \in AskedShape
  BY <1>1 DEF AskedShape
<1>6. \A n \in Nat : /\ [asked EXCEPT !.faults = n, !.loaded = loaded] \in AskedShape
                    /\ [asked EXCEPT !.faults = n, !.broken = broken, !.loaded = loaded] \in AskedShape
  BY <1>1 DEF AskedShape
<1>7. [asked EXCEPT !.broken = broken] \in AskedShape
  BY <1>1 DEF AskedShape
<1>8. [asked EXCEPT !.loaded = loaded] \in AskedShape
  BY <1>1 DEF AskedShape
<1>9. QED
  BY <1>1, <1>2, <1>3, <1>4, <1>5, <1>6, <1>7, <1>8


\* The types hold before the first start.
LEMMA InitControlTypes == ControlInit => ControlTypes
<1> SUFFICES ASSUME ControlInit PROVE ControlTypes
  OBVIOUS
<1>1. [shown |-> Untouched, ask |-> NoAsk] \in PageShape
  BY FirstValues DEF PageShape
<1>2. asked \in AskedShape
  BY DEF ControlInit, AskedShape
<1>3. QED
  BY <1>1, <1>2, FirstValues DEF ControlInit, ControlTypes

\* A request that asks for something new is one.
LEMMA NewAsks ==
  ASSUME ControlTypes, NEW c \in WebClients
  PROVE  /\ \A key \in Switches, polling \in Setting :
               /\ [NoAsk EXCEPT !.at = "toggle", !.key = key, !.polling = polling] \in AskShape
               /\ [NoAsk EXCEPT !.at = "replace",
                      !.vis = [pages[c].shown EXCEPT ![key] = polling]] \in AskShape
         /\ [NoAsk EXCEPT !.at = "type"] \in AskShape
         /\ [NoAsk EXCEPT !.at = "load"] \in AskShape
<1>1. ASSUME NEW key \in Switches, NEW polling \in Setting
      PROVE  /\ [NoAsk EXCEPT !.at = "toggle", !.key = key, !.polling = polling] \in AskShape
             /\ [NoAsk EXCEPT !.at = "replace",
                    !.vis = [pages[c].shown EXCEPT ![key] = polling]] \in AskShape
  <2>1. [NoAsk EXCEPT !.at = "toggle", !.key = key, !.polling = polling] \in AskShape
    BY FirstValues DEF AskShape, Stages
  <2>2. [pages[c].shown EXCEPT ![key] = polling] \in SwitchTable
    BY AskIsOne DEF SwitchTable
  <2>3. \A vis \in SwitchTable : [NoAsk EXCEPT !.at = "replace", !.vis = vis] \in AskShape
    BY FirstValues DEF AskShape, Stages
  <2>4. QED
    BY <2>1, <2>2, <2>3
<1>2. [NoAsk EXCEPT !.at = "type"] \in AskShape /\ [NoAsk EXCEPT !.at = "load"] \in AskShape
  BY FirstValues DEF AskShape, Stages
<1>3. QED
  BY <1>1, <1>2

\* What setProviderVisibility and the loop over the providers make of a request.
LEMMA AskChanges ==
  ASSUME ControlTypes, NEW c \in WebClients, NEW vis \in SwitchTable, NEW p
  PROVE  /\ Changed(vis, pages[c].ask) \in SwitchTable
         /\ [pages[c].ask EXCEPT !.at = "save", !.vis = vis] \in AskShape
         /\ [pages[c].ask EXCEPT !.at = "reconcile", !.todo = Providers] \in AskShape
         /\ [NoAsk EXCEPT !.at = "reconcile", !.vis = vis, !.todo = Providers] \in AskShape
         /\ [pages[c].ask EXCEPT !.todo = @ \ {p}] \in AskShape
<1>1. pages[c].ask \in AskShape /\ NoAsk \in AskShape
  BY AskIsOne, FirstValues
<1>2. Changed(vis, pages[c].ask) \in SwitchTable
  BY <1>1 DEF Changed, AskShape, SwitchTable, Setting
<1>3. QED
  BY <1>1, <1>2 DEF AskShape, Stages

\* Every step of a page keeps the types.
LEMMA PageKeepsTypes ==
  ASSUME ControlTypes, NEW c \in WebClients,
         \/ View(c) \/ Request(c) \/ Toggle(c) \/ ReadVisibility(c) \/ SaveVisibility(c)
         \/ ToggleAgent(c) \/ ReplaceVisibility(c) \/ Reconcile(c) \/ TypeKey(c)
         \/ LoadConfig(c) \/ ApplySettings(c) \/ ListSwitches(c)
  PROVE  ControlTypes'
<1> DEFINE ask == pages[c].ask
<1>0. /\ ask \in AskShape /\ ask.key \in Switches /\ ask.vis \in SwitchTable
      /\ NoAsk \in AskShape /\ Untouched \in SwitchTable
      /\ daemon \in DaemonShape /\ daemon.config \in KeyTable /\ daemon.environ \in KeyTable
      /\ visibility \in SwitchTable /\ asked \in AskedShape /\ pages \in [WebClients -> PageShape]
      /\ dotenv \in KeyTable /\ logins \in KeyTable /\ settings \in KeyTable
  BY AskIsOne, FirstValues DEF ControlTypes, AskShape, DaemonShape
<1>a. [asked EXCEPT !.faults = @ + 1, !.broken = TRUE] \in AskedShape
  BY AskedIsCounted
<1>b. ASSUME NEW new \in AskShape, Ask(c, new) PROVE pages' \in [WebClients -> PageShape]
  BY <1>b, OnePageMoves
<1>c. ASSUME NEW at \in Stages, GoOn(c, at) PROVE pages' \in [WebClients -> PageShape]
  BY <1>b, <1>c, AskIsOne
<1>d. Answer200(c) => pages' \in [WebClients -> PageShape]
  BY <1>0, <1>b DEF Answer200
<1>e. Fail(c) => pages' \in [WebClients -> PageShape] /\ asked' \in AskedShape
  BY <1>a, <1>d DEF Fail
<1>f. "read" \in Stages /\ "agent" \in Stages /\ "apply" \in Stages /\ "list" \in Stages
  BY DEF Stages
<1>1. CASE View(c)
  <2>1. [pages[c] EXCEPT !.shown = visibility] \in PageShape
    BY <1>0, AskIsOne DEF PageShape
  <2>2. pages' = [pages EXCEPT ![c] = [pages[c] EXCEPT !.shown = visibility]]
    BY <1>1 DEF View
  <2>3. QED
    BY <1>0, <1>1, <2>1, <2>2 DEF View, ControlTypes, kept
<1>2. CASE Request(c)
  <2>1. asked' \in AskedShape
    BY <1>2, AskedIsCounted DEF Request
  <2>2. pages' \in [WebClients -> PageShape]
    BY <1>2, <1>b, NewAsks DEF Request, Setting
  <2>3. QED
    BY <1>0, <1>2, <2>1, <2>2 DEF Request, ControlTypes, kept
<1>3. CASE Toggle(c)
  <2> DEFINE p == Base(ask.key)
  <2>1. p \in Providers /\ [daemon.config EXCEPT ![p] = logins[p]] \in KeyTable
    BY <1>0, FirstValues DEF KeyTable
  <2>2. [daemon EXCEPT !.config[p] = logins[p]] \in DaemonShape
    <3>1. [daemon EXCEPT !.config = [daemon.config EXCEPT ![p] = logins[p]]] \in DaemonShape
      BY <1>0, <2>1, ConfigOfDaemon
    <3>2. QED
      BY <1>0, <3>1
  <2>3. daemon' \in {daemon, [daemon EXCEPT !.config[p] = logins[p]]}
    BY <1>3 DEF Toggle
  <2>4. pages' \in [WebClients -> PageShape]
    BY <1>3, <1>c, <1>d, <1>f DEF Toggle
  <2>5. QED
    BY <1>0, <1>3, <2>2, <2>3, <2>4 DEF Toggle, ControlTypes, kept
<1>4. CASE ReadVisibility(c)
  <2>1. asked' \in AskedShape
    BY <1>0, <1>4, <1>a DEF ReadVisibility
  <2>2. \E vis \in SwitchTable : Ask(c, [ask EXCEPT !.at = "save", !.vis = vis])
    BY <1>0, <1>4, AskChanges DEF ReadVisibility
  <2>3. pages' \in [WebClients -> PageShape]
    BY <1>b, <2>2, AskChanges
  <2>4. QED
    BY <1>0, <1>4, <2>1, <2>3 DEF ReadVisibility, ControlTypes, kept
<1>5. CASE SaveVisibility(c)
  <2>1. visibility' \in SwitchTable /\ asked' \in AskedShape
    BY <1>0, <1>5, <1>e DEF SaveVisibility
  <2>2. pages' \in [WebClients -> PageShape]
    BY <1>5, <1>c, <1>e, <1>f DEF SaveVisibility
  <2>3. QED
    BY <1>0, <1>5, <2>1, <2>2 DEF SaveVisibility, ControlTypes
<1>6. CASE ToggleAgent(c)
  <2>1. daemon' \in DaemonShape
    BY <1>0, <1>6, FirstValues, AgentsOfDaemon DEF ToggleAgent
  <2>2. pages' \in [WebClients -> PageShape]
    BY <1>6, <1>d DEF ToggleAgent
  <2>3. QED
    BY <1>0, <1>6, <2>1, <2>2 DEF ToggleAgent, ControlTypes, kept
<1>7. CASE ReplaceVisibility(c)
  <2>1. visibility' \in SwitchTable /\ asked' \in AskedShape
    BY <1>0, <1>7, <1>e DEF ReplaceVisibility
  <2>2. pages' \in [WebClients -> PageShape]
    BY <1>0, <1>7, <1>b, <1>e, AskChanges DEF ReplaceVisibility
  <2>3. QED
    BY <1>0, <1>7, <2>1, <2>2 DEF ReplaceVisibility, ControlTypes
<1>8. CASE Reconcile(c)
  <2>1. PICK p \in ask.todo :
           /\ daemon' = Reconciled(p, ask.vis)
           /\ IF ask.todo = {p} THEN Answer200(c)
              ELSE pages' = [pages EXCEPT ![c].ask.todo = @ \ {p}]
    BY <1>8 DEF Reconcile
  <2>2. p \in Providers
    BY <1>0, <2>1 DEF AskShape
  <2>3. daemon' \in DaemonShape
    BY <2>1, <2>2, AgentsOfDaemon DEF Reconciled
  <2>4. Answer200(c) \/ Ask(c, [ask EXCEPT !.todo = @ \ {p}])
    BY <1>0, <2>1 DEF Ask
  <2>5. pages' \in [WebClients -> PageShape]
    BY <1>0, <1>b, <1>d, <2>4, AskChanges
  <2>6. QED
    BY <1>0, <1>8, <2>3, <2>5 DEF Reconcile, ControlTypes, kept
<1>9. CASE TypeKey(c)
  <2>1. PICK p \in Typed, new \in {0, asked.keys + 1} :
           /\ settings' = [settings EXCEPT ![p] = new]
           /\ asked' = [asked EXCEPT !.keys = IF new = 0 THEN @ ELSE new, !.loaded = FALSE]
    BY <1>9 DEF TypeKey
  <2>2. new \in Nat /\ asked.keys \in Nat
    BY <1>0, <2>1 DEF AskedShape
  <2> DEFINE keys == IF new = 0 THEN asked.keys ELSE new
  <2>3. keys \in Nat
    BY <2>2
  <2>4. asked' = [asked EXCEPT !.keys = keys, !.loaded = FALSE]
    BY <1>0, <2>1
  <2> HIDE DEF keys
  <2>5. asked' \in AskedShape
    BY <2>3, <2>4, AskedIsCounted
  <2>6. settings' \in KeyTable
    BY <1>0, <2>1, <2>2 DEF KeyTable
  <2>7. pages' \in [WebClients -> PageShape]
    BY <1>9, <1>d DEF TypeKey
  <2>8. QED
    BY <1>0, <1>9, <2>5, <2>6, <2>7 DEF TypeKey, ControlTypes
<1>10. CASE LoadConfig(c)
  <2>1. daemon' \in DaemonShape
    BY <1>0, <1>10, KeysAreMerged, ConfigOfDaemon DEF LoadConfig
  <2>2. pages' \in [WebClients -> PageShape]
    BY <1>10, <1>c, <1>f DEF LoadConfig
  <2>3. QED
    BY <1>0, <1>10, <2>1, <2>2 DEF LoadConfig, ControlTypes, kept
<1>11. CASE ApplySettings(c)
  <2>1. \/ daemon' = [daemon EXCEPT !.config = ApplyProviderSettings(daemon.config, settings)]
        \/ daemon' = daemon
    BY <1>0, <1>11 DEF ApplySettings
  <2>2. daemon' \in DaemonShape
    BY <1>0, <2>1, KeysAreMerged, ConfigOfDaemon
  <2>3. asked' \in AskedShape
    BY <1>11, AskedIsCounted DEF ApplySettings
  <2>4. pages' \in [WebClients -> PageShape]
    BY <1>11, <1>c, <1>f DEF ApplySettings
  <2>5. QED
    BY <1>0, <1>11, <2>2, <2>3, <2>4 DEF ApplySettings, ControlTypes, kept
<1>12. CASE ListSwitches(c)
  <2>1. asked' \in AskedShape
    BY <1>0, <1>12, <1>a DEF ListSwitches
  <2>2. pages' \in [WebClients -> PageShape]
    BY <1>0, <1>12, <1>b, AskChanges DEF ListSwitches
  <2>3. QED
    BY <1>0, <1>12, <2>1, <2>2 DEF ListSwitches, ControlTypes, kept
<1>13. QED
  BY <1>1, <1>2, <1>3, <1>4, <1>5, <1>6, <1>7, <1>8, <1>9, <1>10, <1>11, <1>12

\* Every step keeps the types.
LEMMA ControlTypesPreserved ==
  ASSUME ControlTypes, [ControlNext]_controlVars
  PROVE  ControlTypes'
<1>1. CASE StartControl
  <2>0. PICK failed \in SUBSET ({"settings"} \cup Providers) :
          LET env == LoadEnv(None)
              found == Preflight(env)
              config == IF "settings" \in failed THEN found
                        ELSE ApplyProviderSettings(found, settings)
          IN  /\ daemon' = [up |-> TRUE, environ |-> env, config |-> config, clients |-> config,
                            running |-> {p \in Providers :
                               config[p] # 0 /\ (p \in failed \/ Enabled(p, visibility))}]
              /\ asked' = [asked EXCEPT !.faults = IF failed = {} THEN @ ELSE @ + 1,
                                        !.broken = failed \cap Providers # {},
                                        !.loaded = "settings" \notin failed]
    BY <1>1 DEF StartControl
  <2> DEFINE env == LoadEnv(None)
             found == Preflight(env)
             config == IF "settings" \in failed THEN found ELSE ApplyProviderSettings(found, settings)
             running == {p \in Providers : config[p] # 0 /\ (p \in failed \/ Enabled(p, visibility))}
             faults == IF failed = {} THEN asked.faults ELSE asked.faults + 1
             broken == failed \cap Providers # {}
             loaded == "settings" \notin failed
  <2>1. env \in KeyTable /\ config \in KeyTable /\ running \in SUBSET Providers
    BY FirstValues, KeysAreMerged
  <2>2. daemon' = [up |-> TRUE, environ |-> env, config |-> config, clients |-> config,
                   running |-> running]
    BY <2>0
  <2>3. asked' = [asked EXCEPT !.faults = faults, !.broken = broken, !.loaded = loaded]
    BY <2>0 DEF ControlTypes, AskedShape
  <2>4. faults \in {asked.faults, asked.faults + 1} /\ broken \in BOOLEAN /\ loaded \in BOOLEAN
    OBVIOUS
  <2> HIDE DEF env, found, config, running, faults, broken, loaded
  <2>5. daemon' \in DaemonShape
    BY <2>1, <2>2 DEF DaemonShape
  <2>6. asked' \in AskedShape
    BY <2>3, <2>4, AskedIsCounted
  <2>7. QED
    BY <1>1, <2>5, <2>6 DEF StartControl, ControlTypes, kept
<1>2. CASE StopControl
  <2>1. daemon' \in DaemonShape /\ asked' \in AskedShape
    BY <1>2, FirstValues, AskedIsCounted DEF StopControl
  <2>2. QED
    BY <1>2, <2>1 DEF StopControl, ControlTypes, kept
<1>3. CASE EditKeys
  <2>1. PICK new \in {0, asked.keys + 1} :
          /\ \/ \E p \in Providers : dotenv' = [dotenv EXCEPT ![p] = new] /\ UNCHANGED logins
             \/ \E p \in Detected : logins' = [logins EXCEPT ![p] = new] /\ UNCHANGED dotenv
          /\ asked' = [asked EXCEPT !.edits = @ + 1, !.keys = IF new = 0 THEN @ ELSE new]
    BY <1>3 DEF EditKeys
  <2>2. new \in Nat /\ asked \in AskedShape /\ asked.keys \in Nat
    BY <2>1 DEF ControlTypes, AskedShape
  <2> DEFINE keys == IF new = 0 THEN asked.keys ELSE new
  <2>3. keys \in Nat
    BY <2>2
  <2>4. asked' = [asked EXCEPT !.edits = @ + 1, !.keys = keys]
    BY <2>1, <2>2
  <2> HIDE DEF keys
  <2>5. asked' \in AskedShape
    BY <2>3, <2>4, AskedIsCounted
  <2>6. dotenv' \in KeyTable /\ logins' \in KeyTable
    BY <2>1, <2>2 DEF ControlTypes, KeyTable
  <2>7. QED
    BY <1>3, <2>5, <2>6 DEF EditKeys, ControlTypes
<1>4. CASE UNCHANGED controlVars
  BY <1>4 DEF controlVars, ControlTypes
<1>5. QED
  BY <1>1, <1>2, <1>3, <1>4, PageKeepsTypes DEF ControlNext


-----------------------------------------------------------------------------
(* Agents and switches *)

\* Every step of the only page keeps the invariant.
LEMMA PageKeepsSwitches ==
  ASSUME ControlTypes, ControlTypes', OnePage, SwitchInv, NEW c \in WebClients,
         \/ View(c) \/ Request(c) \/ Toggle(c) \/ ReadVisibility(c) \/ SaveVisibility(c)
         \/ ToggleAgent(c) \/ ReplaceVisibility(c) \/ Reconcile(c) \/ TypeKey(c)
         \/ LoadConfig(c) \/ ApplySettings(c) \/ ListSwitches(c)
  PROVE  SwitchInv'
<1> DEFINE ask == pages[c].ask
           new == pages'[c].ask
<1>0. /\ ask \in AskShape /\ ask.key \in Switches /\ ask.polling \in Setting
      /\ ask.vis \in SwitchTable /\ ask.todo \subseteq Providers
      /\ NoAsk \in AskShape /\ NoAsk.at = "none"
      /\ daemon \in DaemonShape /\ daemon.config \in KeyTable /\ daemon.clients \in KeyTable
      /\ daemon.running \subseteq Providers
      /\ visibility \in SwitchTable /\ asked \in AskedShape /\ pages \in [WebClients -> PageShape]
  BY AskIsOne, FirstValues DEF ControlTypes, AskShape, DaemonShape
<1>up. daemon.up
  BY <1>0 DEF SwitchInv, NoneAsked, View, Request, Toggle, ReadVisibility, SaveVisibility, ToggleAgent,
              ReplaceVisibility, Reconcile, TypeKey, LoadConfig, ApplySettings, ListSwitches, Asks
<1>pl. /\ \A p \in Plain : (Configured(p) <=> daemon.config[p] # 0)
       /\ \A p \in Plain : (Configured(p)' <=> daemon'.config[p] # 0)
  BY DEF Plain, Configured
<1> SUFFICES /\ \A p \in daemon'.running : daemon'.clients[p] # 0
             /\ daemon'.up
             /\ ~asked'.broken => StageInv(pages[c].ask)' /\ KeyIsFound(pages[c].ask)'
  BY DEF SwitchInv, OnePage
<1>i. /\ \A p \in daemon.running : daemon.clients[p] # 0
      /\ ~asked.broken => StageInv(ask) /\ KeyIsFound(ask)
  BY <1>up DEF SwitchInv
<1>b. ASSUME NEW r \in AskShape, Ask(c, r) PROVE new = r
  BY <1>b, OnePageMoves
<1>c. ASSUME NEW at \in Stages, GoOn(c, at) PROVE new = [ask EXCEPT !.at = at]
  BY <1>b, <1>c, AskIsOne
<1>d. Answer200(c) => new = NoAsk
  BY <1>0, <1>b DEF Answer200
<1>e. Fail(c) => asked'.broken
  BY <1>0 DEF Fail, AskedShape
<1>f. "read" \in Stages /\ "agent" \in Stages /\ "apply" \in Stages /\ "list" \in Stages
  BY DEF Stages
<1> DEFINE Lined == \A p \in Plain : InLine(p)
\* Between two requests, and before one has changed anything.
<1>g. ASSUME ~asked.broken, ask.at \in {"none", "toggle", "replace", "type", "load"}
      PROVE  Lined
  BY <1>i, <1>g DEF StageInv
<1>h. ASSUME UNCHANGED <<daemon, visibility>>
      PROVE  \A p \in Plain : (InLine(p)' <=> InLine(p))
  BY <1>h, <1>pl DEF InLine, Enabled
<1>j. ASSUME \A p \in Plain : InLine(p)',
             new.at \in {"none", "toggle", "replace", "type", "load"}
      PROVE  StageInv(pages[c].ask)' /\ KeyIsFound(pages[c].ask)'
  BY <1>j DEF StageInv, KeyIsFound
<1>1. CASE View(c)
  <2>1. new = ask /\ ask.at = "none"
    BY <1>0, <1>1 DEF View, Asks, PageShape
  <2>2. QED
    BY <1>1, <2>1, <1>up, <1>i, <1>g, <1>h, <1>j DEF View, kept
<1>2. CASE Request(c)
  <2>1. ask.at = "none" /\ UNCHANGED <<kept, daemon>>
    BY <1>2 DEF Request, Asks
  <2>2. asked'.broken = asked.broken
    BY <1>0, <1>2 DEF Request, AskedShape
  <2>3. new.at \in {"toggle", "replace", "type", "load"}
    <3>1. \/ \E key \in Switches, polling \in Setting :
                new = [NoAsk EXCEPT !.at = "toggle", !.key = key, !.polling = polling]
          \/ \E key \in Switches, polling \in Setting :
                new = [NoAsk EXCEPT !.at = "replace",
                          !.vis = [pages[c].shown EXCEPT ![key] = polling]]
          \/ new = [NoAsk EXCEPT !.at = "type"]
          \/ new = [NoAsk EXCEPT !.at = "load"]
      BY <1>2, <1>b, NewAsks DEF Request, Setting
    <3>2. QED
      BY <1>0, <3>1 DEF AskShape
  <2>4. QED
    BY <2>1, <2>2, <2>3, <1>up, <1>i, <1>g, <1>h, <1>j DEF kept
<1>3. CASE Toggle(c)
  <2> DEFINE p == Base(ask.key)
  <2>1. /\ ask.at = "toggle" /\ UNCHANGED <<kept, asked>>
        /\ \/ new = NoAsk /\ daemon' = daemon
           \/ /\ new = [ask EXCEPT !.at = "read"]
              /\ \/ (ask.polling # "on" \/ Configured(p)) /\ daemon' = daemon
                 \/ /\ daemon' = [daemon EXCEPT !.config[p] = logins[p]]
                    /\ ask.polling = "on" /\ logins[p] # 0
    BY <1>3, <1>c, <1>d, <1>f DEF Toggle, Asks
  <2>2. p \in Providers /\ (ask.key \in Plain => p = ask.key) /\ (p \in Plain => p = ask.key)
    BY <1>0 DEF Base, Plain, Switches, Providers
  <2>3. CASE /\ daemon' = daemon
             /\ \/ new = NoAsk
                \/ new = [ask EXCEPT !.at = "read"] /\ (ask.polling # "on" \/ Configured(p))
    <3>1. CASE new = NoAsk
      BY <3>1, <2>1, <2>3, <1>0, <1>up, <1>i, <1>g, <1>h, <1>j DEF kept
    <3>2. CASE new = [ask EXCEPT !.at = "read"] /\ (ask.polling # "on" \/ Configured(p))
      <4>1. new.at = "read" /\ new.polling = ask.polling /\ new.key = ask.key
        BY <1>0, <3>2 DEF AskShape
      <4>2. ~asked.broken => \A q \in Plain : InLine(q)'
        BY <2>1, <2>3, <1>g, <1>h DEF kept
      <4>3. ask.key \in Plain /\ ask.polling = "on" => Configured(ask.key)'
        BY <2>2, <2>3, <3>2, <1>pl
      <4>4. QED
        BY <2>1, <2>3, <4>1, <4>2, <4>3, <1>up, <1>i DEF StageInv, KeyIsFound
    <3>3. QED
      BY <2>3, <3>1, <3>2
  <2>4. CASE /\ daemon' = [daemon EXCEPT !.config[p] = logins[p]]
             /\ ask.polling = "on" /\ logins[p] # 0
             /\ new = [ask EXCEPT !.at = "read"]
    <3>1. new.at = "read" /\ new.polling = "on" /\ new.key = ask.key
      BY <1>0, <2>4 DEF AskShape
    <3>2. /\ daemon'.up = daemon.up /\ daemon'.running = daemon.running
          /\ daemon'.clients = daemon.clients /\ daemon'.config[p] = logins[p]
          /\ \A q \in Providers : q # p => daemon'.config[q] = daemon.config[q]
      BY <1>0, <2>2, <2>4 DEF DaemonShape, KeyTable
    <3>3. ~asked.broken => \A q \in Plain : q = ask.key \/ InLine(q)'
      BY <2>1, <2>2, <3>2, <1>g, <1>pl DEF InLine, Enabled, kept, Plain
    <3>4. ask.key \in Plain => Configured(ask.key)'
      BY <2>2, <2>4, <3>2, <1>pl
    <3>5. QED
      BY <2>1, <3>1, <3>2, <3>3, <3>4, <1>up, <1>i DEF StageInv, KeyIsFound
  <2>5. QED
    BY <2>1, <2>3, <2>4
<1>4. CASE ReadVisibility(c)
  <2>1. /\ ask.at = "read" /\ UNCHANGED <<kept, daemon>>
        /\ \/ /\ new = [ask EXCEPT !.at = "save", !.vis = Changed(visibility, ask)]
              /\ asked' = asked
           \/ asked'.broken
    BY <1>0, <1>4, <1>b, AskChanges DEF ReadVisibility, Asks, AskedShape
  <2>2. CASE asked' = asked /\ new = [ask EXCEPT !.at = "save", !.vis = Changed(visibility, ask)]
    <3>1. /\ new.at = "save" /\ new.vis = Changed(visibility, ask)
          /\ new.key = ask.key /\ new.polling = ask.polling
      BY <1>0, <2>2 DEF AskShape
    <3>2. /\ \A q \in Switches : q # ask.key => new.vis[q] = visibility[q]
          /\ ask.polling # "unset" => new.vis[ask.key] = ask.polling
          /\ ask.polling = "unset" =>
                (new.vis[ask.key] # "off" <=> visibility[ask.key] # "off")
      BY <1>0, <3>1 DEF Changed, SwitchTable, Setting
    <3>3. \A p \in Plain : p \in Switches
      BY DEF Plain, Switches
    <3>4. ~asked.broken =>
             /\ \A q \in Plain : (q = ask.key /\ ask.polling = "on") \/ InLine(q)'
             /\ KeyIsFound(ask)
      BY <2>1, <1>i, <1>h DEF StageInv, kept
    <3>5. visibility' = visibility /\ (ask.key \in Plain => (Configured(ask.key)' <=> Configured(ask.key)))
      BY <2>1, <3>1, <1>pl DEF kept
    <3>6. QED
      BY <2>1, <2>2, <3>1, <3>2, <3>3, <3>4, <3>5, <1>up, <1>i DEF StageInv, KeyIsFound, Enabled
  <2>3. QED
    BY <2>1, <2>2, <1>up, <1>i
<1>5. CASE SaveVisibility(c)
  <2>1. /\ ask.at = "save" /\ UNCHANGED <<dotenv, logins, settings, daemon>>
        /\ \/ /\ visibility' = ask.vis /\ new = [ask EXCEPT !.at = "agent"]
              /\ asked' = asked
           \/ asked'.broken
    BY <1>5, <1>c, <1>e, <1>f DEF SaveVisibility, Asks
  <2>2. CASE visibility' = ask.vis /\ new = [ask EXCEPT !.at = "agent"] /\ asked' = asked
    <3>1. new.at = "agent" /\ new.key = ask.key /\ new.polling = ask.polling
      BY <1>0, <2>2 DEF AskShape
    <3>2. ~asked.broken =>
             \A q \in Plain : (q = ask.key /\ ask.polling # "unset") \/ InLine(q)'
      BY <2>1, <2>2, <1>i, <1>pl DEF StageInv, InLine, Enabled
    <3>3. ~asked.broken => (ask.polling # "unset" => visibility'[ask.key] = ask.polling)
      BY <2>1, <2>2, <1>i DEF StageInv
    <3>4. ~asked.broken => KeyIsFound(ask)
      BY <1>i
    <3>5. ask.key \in Plain => (Configured(ask.key)' <=> Configured(ask.key))
      BY <2>1, <3>1, <1>pl
    <3>6. QED
      BY <2>1, <2>2, <3>1, <3>2, <3>3, <3>4, <3>5, <1>up, <1>i DEF StageInv, KeyIsFound
  <2>3. QED
    BY <2>1, <2>2, <1>up, <1>i
<1>6. CASE ToggleAgent(c)
  <2> DEFINE p == Base(ask.key)
  <2>1. /\ ask.at = "agent" /\ UNCHANGED <<kept, asked>> /\ new = NoAsk
        /\ daemon' = IF ask.polling = "on" THEN StartedAgent(p)
                     ELSE IF ask.polling = "off" THEN StoppedAgent(p) ELSE daemon
    BY <1>6, <1>d DEF ToggleAgent, Asks
  <2>2. p \in Providers /\ (p \in Plain => p = ask.key) /\ (ask.key \in Plain => p = ask.key)
    BY <1>0 DEF Base, Plain, Switches, Providers
  <2>3. /\ daemon'.up = daemon.up /\ daemon'.config = daemon.config /\ daemon'.clients = daemon.clients
        /\ daemon'.running = IF ask.polling = "on"
                             THEN IF daemon.clients[p] = 0 THEN daemon.running
                                  ELSE daemon.running \cup {p}
                             ELSE IF ask.polling = "off" THEN daemon.running \ {p}
                             ELSE daemon.running
    BY <2>1, <2>2, AgentsOfDaemon
  <2>4. \A q \in daemon'.running : daemon'.clients[q] # 0
    BY <2>3, <1>i
  <2>5. ASSUME ~asked.broken, NEW q \in Plain PROVE InLine(q)'
    <3>0. /\ (q = ask.key /\ ask.polling # "unset") \/ InLine(q)
          /\ ask.polling # "unset" => visibility[ask.key] = ask.polling
          /\ ask.polling = "on" /\ ask.key \in Plain => Configured(ask.key)
      BY <2>1, <2>5, <1>i DEF StageInv, KeyIsFound
    <3>1. CASE q # p \/ ask.polling = "unset"
      <4>1. q \in daemon'.running <=> q \in daemon.running
        BY <2>3, <3>1
      <4>2. InLine(q)
        BY <2>2, <3>0, <3>1
      <4>3. QED
        BY <2>1, <2>3, <4>1, <4>2, <1>pl DEF InLine, Enabled, kept
    <3>2. CASE q = p /\ ask.polling = "on"
      <4>1. q \in daemon'.running <=> daemon.clients[q] # 0
        BY <2>3, <3>2, <1>i
      <4>2. visibility'[q] = "on" /\ daemon'.config[q] # 0
        BY <2>1, <2>2, <2>3, <3>0, <3>2, <1>pl DEF kept
      <4>3. QED
        BY <2>3, <4>1, <4>2, <1>pl DEF InLine, Enabled
    <3>3. CASE q = p /\ ask.polling = "off"
      BY <2>1, <2>2, <2>3, <3>0, <3>3 DEF InLine, Enabled, kept
    <3>4. QED
      BY <3>1, <3>2, <3>3, <1>0 DEF Setting
  <2>6. QED
    BY <2>1, <2>3, <2>4, <2>5, <1>0, <1>up, <1>j
<1>7. CASE ReplaceVisibility(c)
  <2>1. /\ ask.at = "replace" /\ UNCHANGED <<dotenv, logins, settings, daemon>>
        /\ \/ /\ visibility' = ask.vis
              /\ new = [ask EXCEPT !.at = "reconcile", !.todo = Providers]
              /\ asked' = asked
           \/ asked'.broken
    BY <1>0, <1>7, <1>b, <1>e, AskChanges DEF ReplaceVisibility, Asks
  <2>2. CASE visibility' = ask.vis /\ new = [ask EXCEPT !.at = "reconcile", !.todo = Providers]
    <3>1. new.at = "reconcile" /\ new.vis = ask.vis /\ new.todo = Providers
      BY <1>0, <2>2 DEF AskShape
    <3>2. QED
      BY <2>1, <2>2, <3>1, <1>up, <1>i DEF StageInv, KeyIsFound, Plain
  <2>3. QED
    BY <2>1, <2>2, <1>up, <1>i
<1>8. CASE Reconcile(c)
  <2>1. PICK p \in ask.todo :
           /\ daemon' = Reconciled(p, ask.vis)
           /\ IF ask.todo = {p} THEN Answer200(c)
              ELSE pages' = [pages EXCEPT ![c].ask.todo = @ \ {p}]
    BY <1>8 DEF Reconcile
  <2>2. ask.at = "reconcile" /\ UNCHANGED <<kept, asked>> /\ p \in Providers
    BY <1>0, <1>8, <2>1 DEF Reconcile, Asks
  <2>3. /\ daemon'.up = daemon.up /\ daemon'.config = daemon.config /\ daemon'.clients = daemon.clients
        /\ daemon'.running = IF Enabled(p, ask.vis) /\ Configured(p)
                             THEN IF daemon.clients[p] = 0 THEN daemon.running
                                  ELSE daemon.running \cup {p}
                             ELSE daemon.running \ {p}
    BY <2>1, <2>2, AgentsOfDaemon DEF Reconciled
  <2>4. \A q \in daemon'.running : daemon'.clients[q] # 0
    BY <2>3, <1>i
  <2>5. ~asked.broken => ask.vis = visibility /\ \A q \in Plain : q \in ask.todo \/ InLine(q)
    BY <2>2, <1>i DEF StageInv
  <2>6. ASSUME ~asked.broken, NEW q \in Plain, q \notin ask.todo \ {p} PROVE InLine(q)'
    <3>1. CASE q = p
      <4>1. visibility' = ask.vis
        BY <2>2, <2>5, <2>6 DEF kept
      <4>2. QED
        BY <2>3, <3>1, <4>1, <1>i, <1>pl DEF InLine, Enabled
    <3>2. CASE q # p
      <4>1. InLine(q) /\ (q \in daemon'.running <=> q \in daemon.running)
        BY <2>3, <2>5, <2>6, <3>2
      <4>2. QED
        BY <2>2, <2>3, <4>1, <1>pl DEF InLine, Enabled, kept
    <3>3. QED
      BY <3>1, <3>2
  <2>7. CASE Answer200(c) /\ ask.todo = {p}
    BY <2>2, <2>3, <2>4, <2>6, <2>7, <1>0, <1>d, <1>up, <1>j
  <2>8. CASE pages' = [pages EXCEPT ![c].ask.todo = @ \ {p}]
    <3>1. Ask(c, [ask EXCEPT !.todo = @ \ {p}])
      BY <1>0, <2>8 DEF Ask
    <3>2. new = [ask EXCEPT !.todo = @ \ {p}]
      BY <3>1, <1>0, <1>b, AskChanges
    <3>3. new.at = "reconcile" /\ new.vis = ask.vis /\ new.todo = ask.todo \ {p}
      BY <1>0, <2>2, <3>2 DEF AskShape
    <3>4. QED
      BY <2>2, <2>3, <2>4, <2>5, <2>6, <3>3, <1>up DEF StageInv, KeyIsFound, kept
  <2>9. QED
    BY <2>1, <2>7, <2>8
<1>9. CASE TypeKey(c)
  <2>1. new = NoAsk /\ UNCHANGED <<daemon, visibility>> /\ ask.at = "type"
    BY <1>9, <1>d DEF TypeKey, Asks
  <2>2. asked'.broken = asked.broken
    BY <1>0, <1>9 DEF TypeKey, AskedShape
  <2>3. QED
    BY <2>1, <2>2, <1>0, <1>up, <1>i, <1>g, <1>h, <1>j
<1>10. CASE LoadConfig(c)
  <2>1. /\ new = [ask EXCEPT !.at = "apply"]
        /\ daemon'.up = daemon.up /\ daemon'.clients = daemon.clients
        /\ daemon'.running = daemon.running
    BY <1>0, <1>10, <1>c, <1>f DEF LoadConfig, DaemonShape
  <2>2. new.at = "apply"
    BY <1>0, <2>1 DEF AskShape
  <2>3. QED
    BY <2>1, <2>2, <1>up, <1>i DEF StageInv, KeyIsFound
<1>11. CASE ApplySettings(c)
  <2>1. /\ new = [ask EXCEPT !.at = "list"]
        /\ daemon'.up = daemon.up /\ daemon'.clients = daemon.clients
        /\ daemon'.running = daemon.running
    BY <1>0, <1>11, <1>c, <1>f DEF ApplySettings, DaemonShape
  <2>2. new.at = "list"
    BY <1>0, <2>1 DEF AskShape
  <2>3. QED
    BY <2>1, <2>2, <1>up, <1>i DEF StageInv, KeyIsFound
<1>12. CASE ListSwitches(c)
  <2>1. /\ UNCHANGED <<kept, daemon>>
        /\ \/ new = [NoAsk EXCEPT !.at = "reconcile", !.vis = visibility, !.todo = Providers]
           \/ asked'.broken
    BY <1>0, <1>12, <1>b, AskChanges DEF ListSwitches, AskedShape
  <2>2. CASE new = [NoAsk EXCEPT !.at = "reconcile", !.vis = visibility, !.todo = Providers]
    <3>1. new.at = "reconcile" /\ new.vis = visibility /\ new.todo = Providers
      BY <1>0, <2>2 DEF AskShape
    <3>2. QED
      BY <2>1, <3>1, <1>up, <1>i DEF StageInv, KeyIsFound, Plain, kept
  <2>3. QED
    BY <2>1, <2>2, <1>up, <1>i
<1>13. QED
  BY <1>1, <1>2, <1>3, <1>4, <1>5, <1>6, <1>7, <1>8, <1>9, <1>10, <1>11, <1>12


\* Every step keeps the invariant: a start brings every agent in line, a stop
\* and the edits of keys leave nothing to be in line with.
LEMMA SwitchesKept ==
  ASSUME ControlTypes, ControlTypes', OnePage, SwitchInv, [ControlNext]_controlVars
  PROVE  SwitchInv'
<1>pl. \A p \in Plain : (Configured(p)' <=> daemon'.config[p] # 0)
  BY DEF Plain, Configured
<1>1. CASE StartControl
  <2>1. /\ ~daemon.up /\ NoneAsked /\ UNCHANGED <<kept, pages>>
        /\ daemon'.config = daemon'.clients
        /\ \A p \in daemon'.running : daemon'.clients[p] # 0
        /\ \/ asked'.broken
           \/ daemon'.running = {p \in Providers : daemon'.config[p] # 0 /\ Enabled(p, visibility)}
    <3>1. PICK failed \in SUBSET ({"settings"} \cup Providers) :
             /\ daemon'.running = {p \in Providers :
                   daemon'.config[p] # 0 /\ (p \in failed \/ Enabled(p, visibility))}
             /\ daemon'.config = daemon'.clients
             /\ asked'.broken = (failed \cap Providers # {})
      BY <1>1 DEF StartControl, ControlTypes, AskedShape
    <3>2. failed \cap Providers = {} => \A p \in Providers : p \notin failed
      OBVIOUS
    <3>3. QED
      BY <1>1, <3>1, <3>2 DEF StartControl, SwitchInv
  <2>2. asked'.broken \/ \A p \in Plain : InLine(p)'
    BY <2>1, <1>pl DEF InLine, Enabled, kept, Plain
  <2>3. \A c \in WebClients : pages'[c].ask = NoAsk /\ NoAsk.at = "none"
    BY <2>1, FirstValues DEF NoneAsked
  <2>4. NoneAsked'
    BY <2>1 DEF NoneAsked
  <2>5. QED
    BY <2>1, <2>2, <2>3, <2>4 DEF SwitchInv, StageInv, KeyIsFound
<1>2. CASE StopControl
  <2>1. NoneAsked /\ pages' = pages /\ ~daemon'.up /\ daemon'.running = {}
    BY <1>2 DEF StopControl, NoDaemon
  <2>2. QED
    BY <2>1 DEF SwitchInv, NoneAsked
<1>3. CASE EditKeys \/ UNCHANGED controlVars
  <2>1. UNCHANGED <<visibility, daemon, pages>> /\ asked'.broken = asked.broken
    BY <1>3 DEF EditKeys, controlVars, ControlTypes, AskedShape
  <2>2. \A p \in Plain : (InLine(p)' <=> InLine(p)) /\ (Configured(p)' <=> Configured(p))
    BY <2>1 DEF InLine, Enabled, Configured, Plain
  <2>3. ASSUME NEW c \in WebClients, StageInv(pages[c].ask), KeyIsFound(pages[c].ask)
        PROVE  StageInv(pages[c].ask)' /\ KeyIsFound(pages[c].ask)'
    BY <2>1, <2>2, <2>3 DEF StageInv, KeyIsFound, Enabled
  <2>4. QED
    BY <2>1, <2>3 DEF SwitchInv, NoneAsked
<1>4. QED
  BY <1>1, <1>2, <1>3, PageKeepsSwitches DEF ControlNext

\* Whatever the sequence of toggles, saved pages, reloads and restarts, a provider
\* without accounts of its own has an agent at work just when its switch is on,
\* there is a key for it and its client was built: for one page of the dashboard
\* and as long as no call of the database has failed since the start.
THEOREM AgentsAlwaysMatchSwitches ==
  ASSUME OnePage
  PROVE  ControlSpec => []AgentsMatchSwitches
<1>1. ControlInit => SwitchInv
  BY DEF ControlInit, SwitchInv, NoDaemon, NoneAsked
<1>2. ControlTypes /\ SwitchInv /\ [ControlNext]_controlVars => (ControlTypes /\ SwitchInv)'
  BY OnePage, ControlTypesPreserved, SwitchesKept
<1>3. SwitchInv => AgentsMatchSwitches
  <2> SUFFICES ASSUME SwitchInv, NEW p \in Providers \ {"codex"},
                      daemon.up, NoneAsked, ~asked.broken
               PROVE  InLine(p)
    BY DEF AgentsMatchSwitches, AgentsMatch, InLine
  <2>1. PICK c \in WebClients : TRUE
    BY OnePage DEF OnePage
  <2>2. QED
    BY <2>1, FirstValues DEF SwitchInv, NoneAsked, StageInv, Plain
<1>4. QED
  BY <1>1, <1>2, <1>3, InitControlTypes, PTL DEF ControlSpec

-----------------------------------------------------------------------------
(* Keys *)

\* Where a reload has not stopped between .env and the settings, the daemon has
\* the key that was typed.
KeyInv ==
    daemon.up /\ asked.loaded /\ (\A c \in WebClients : pages[c].ask.at # "apply") =>
       \A p \in Typed : settings[p] # 0 => daemon.config[p] = settings[p]

\* Every step keeps it: a login is no key of a provider whose key is typed.
LEMMA KeyKept ==
  ASSUME ControlTypes, KeyInv, [ControlNext]_controlVars
  PROVE  KeyInv'
<1>0. /\ daemon \in DaemonShape /\ daemon.config \in KeyTable /\ asked \in AskedShape
      /\ Typed \subseteq Providers /\ settings \in KeyTable
      /\ \A p \in Detected : p \notin Typed
  BY DEF ControlTypes, DaemonShape, Typed, Providers, Detected
<1>1. CASE StartControl
  <2>1. /\ settings' = settings
        /\ asked'.loaded => \E env : daemon'.config = ApplyProviderSettings(env, settings)
    <3>1. PICK failed \in SUBSET ({"settings"} \cup Providers) :
             LET env == LoadEnv(None)
                 found == Preflight(env)
                 config == IF "settings" \in failed THEN found
                           ELSE ApplyProviderSettings(found, settings)
             IN  /\ daemon' = [up |-> TRUE, environ |-> env, config |-> config, clients |-> config,
                               running |-> {p \in Providers :
                                  config[p] # 0 /\ (p \in failed \/ Enabled(p, visibility))}]
                 /\ asked' = [asked EXCEPT !.faults = IF failed = {} THEN @ ELSE @ + 1,
                                           !.broken = failed \cap Providers # {},
                                           !.loaded = "settings" \notin failed]
      BY <1>1 DEF StartControl
    <3>2. asked'.loaded => "settings" \notin failed
      BY <1>0, <3>1 DEF AskedShape
    <3>3. asked'.loaded => daemon'.config = ApplyProviderSettings(Preflight(LoadEnv(None)), settings)
      BY <3>1, <3>2
    <3>4. QED
      BY <1>1, <3>3 DEF StartControl, kept
  <2>2. QED
    BY <1>0, <2>1 DEF KeyInv, ApplyProviderSettings
<1>2. CASE StopControl
  BY <1>2 DEF StopControl, NoDaemon, KeyInv
<1>3. CASE EditKeys \/ UNCHANGED controlVars
  <2>1. UNCHANGED <<settings, daemon, pages>> /\ asked'.loaded = asked.loaded
    BY <1>0, <1>3 DEF EditKeys, controlVars, AskedShape
  <2>2. QED
    BY <2>1 DEF KeyInv
<1>4. ASSUME NEW c \in WebClients,
             \/ View(c) \/ Request(c) \/ Toggle(c) \/ ReadVisibility(c) \/ SaveVisibility(c)
             \/ ToggleAgent(c) \/ ReplaceVisibility(c) \/ Reconcile(c) \/ TypeKey(c)
             \/ LoadConfig(c) \/ ApplySettings(c) \/ ListSwitches(c)
      PROVE  KeyInv'
  <2> DEFINE ask == pages[c].ask
  <2>0. /\ ask \in AskShape /\ NoAsk \in AskShape /\ pages \in [WebClients -> PageShape]
        /\ pages[c] \in PageShape
    BY AskIsOne, FirstValues DEF ControlTypes
  <2>b. ASSUME NEW r \in AskShape, Ask(c, r)
        PROVE  pages'[c].ask = r /\ \A d \in WebClients : d # c => pages'[d] = pages[d]
    BY <2>b, OnePageMoves
  <2>c. ASSUME NEW at \in Stages, GoOn(c, at)
        PROVE  pages'[c].ask = [ask EXCEPT !.at = at] /\ \A d \in WebClients : d # c => pages'[d] = pages[d]
    BY <2>b, <2>c, AskIsOne
  <2>f. "apply" \in Stages /\ "list" \in Stages
    BY DEF Stages
  <2>1. CASE TypeKey(c)
    BY <1>0, <2>1 DEF TypeKey, KeyInv, AskedShape
  <2>2. CASE LoadConfig(c)
    <3>1. pages'[c].ask.at = "apply"
      BY <2>0, <2>2, <2>c, <2>f DEF LoadConfig, AskShape
    <3>2. QED
      BY <3>1 DEF KeyInv
  <2>3. CASE ApplySettings(c)
    <3>1. /\ settings' = settings
          /\ asked'.loaded => daemon'.config = ApplyProviderSettings(daemon.config, settings)
      BY <1>0, <2>3 DEF ApplySettings, kept, DaemonShape, AskedShape
    <3>2. QED
      BY <1>0, <3>1 DEF KeyInv, ApplyProviderSettings
  <2>4. CASE \/ View(c) \/ Request(c) \/ Toggle(c) \/ ReadVisibility(c) \/ SaveVisibility(c)
             \/ ToggleAgent(c) \/ ReplaceVisibility(c) \/ Reconcile(c) \/ ListSwitches(c)
    <3>1. settings' = settings /\ asked'.loaded = asked.loaded
      BY <1>0, <2>4 DEF View, Request, Toggle, ReadVisibility, SaveVisibility, ToggleAgent,
                        ReplaceVisibility, Reconcile, ListSwitches, Fail, kept, AskedShape
    <3>2. \A d \in WebClients : pages[d].ask.at = "apply" => pages'[d].ask.at = "apply"
      <4>1. ask.at # "apply" \/ View(c)
        BY <2>4 DEF Request, Toggle, ReadVisibility, SaveVisibility, ToggleAgent,
                    ReplaceVisibility, Reconcile, ListSwitches, Asks
      <4>2. \A d \in WebClients : d # c => pages'[d] = pages[d]
        BY <2>0, <2>4 DEF View, Request, Toggle, ReadVisibility, SaveVisibility, ToggleAgent,
               ReplaceVisibility, Reconcile, ListSwitches, Fail, Ask, GoOn, Answer200
      <4>3. View(c) => pages'[c].ask = ask
        BY <2>0 DEF View, PageShape
      <4>4. QED
        BY <4>1, <4>2, <4>3
    <3>3. /\ daemon'.up = daemon.up
          /\ \A p \in Typed : daemon'.config[p] = daemon.config[p]
      <4>1. CASE Toggle(c)
        <5>1. \/ daemon' = daemon
              \/ \E p \in Detected : daemon' = [daemon EXCEPT !.config[p] = logins[p]]
          BY <4>1 DEF Toggle
        <5>2. QED
          BY <1>0, <5>1 DEF DaemonShape, KeyTable
      <4>2. CASE ToggleAgent(c)
        <5>1. Base(ask.key) \in Providers
          BY <2>0, FirstValues DEF AskShape
        <5>2. QED
          BY <4>2, <5>1, AgentsOfDaemon DEF ToggleAgent
      <4>3. CASE Reconcile(c)
        <5>1. \E p \in Providers : daemon' \in {StartedAgent(p), StoppedAgent(p)}
          BY <2>0, <4>3 DEF Reconcile, Reconciled, AskShape
        <5>2. QED
          BY <5>1, AgentsOfDaemon
      <4>4. CASE \/ View(c) \/ Request(c) \/ ReadVisibility(c) \/ SaveVisibility(c)
                 \/ ReplaceVisibility(c) \/ ListSwitches(c)
        BY <4>4 DEF View, Request, ReadVisibility, SaveVisibility, ReplaceVisibility, ListSwitches
      <4>5. QED
        BY <2>4, <4>1, <4>2, <4>3, <4>4
    <3>4. QED
      BY <1>0, <3>1, <3>2, <3>3 DEF KeyInv
  <2>5. QED
    BY <1>4, <2>1, <2>2, <2>3, <2>4
<1>5. QED
  BY <1>1, <1>2, <1>3, <1>4 DEF ControlNext

\* The key that was typed into the settings is the one the daemon is configured with
\* after every start and reload that could read the settings, whatever .env and the
\* logins hold and however many pages are at work.
THEOREM TypedKeyIsAlwaysLoaded == ControlSpec => []TypedKeyIsLoaded
<1>1. ControlInit => KeyInv
  BY DEF ControlInit, KeyInv, NoDaemon
<1>2. ControlTypes /\ KeyInv /\ [ControlNext]_controlVars => (ControlTypes /\ KeyInv)'
  BY ControlTypesPreserved, KeyKept
<1>3. KeyInv => TypedKeyIsLoaded
  BY FirstValues DEF KeyInv, TypedKeyIsLoaded, NoneAsked
<1>4. QED
  BY <1>1, <1>2, <1>3, InitControlTypes, PTL DEF ControlSpec

=============================================================================
