------------------------------ MODULE MCSettings ------------------------------
(***************************************************************************)
(* What the user changes while the daemon runs, for TLC: the profiles of   *)
(* Codex, the accounts of MiniMax, the switches and keys of the providers, *)
(* the password of the mail server, and the daemon itself, which commands  *)
(* start, stop and update.  The parts share no state: every behaviour is   *)
(* about one of them, the scene, and leaves the state of the others alone. *)
(***************************************************************************)
EXTENDS CodexProfiles, DaemonLifecycle, SmtpSettings, MiniMaxAccounts, ProviderControl

VARIABLE scene

settingsVars == <<scene, profileVars, daemonVars, smtpVars, minimaxVars, controlVars>>

\* Two users of one workspace.
MCIdentities == {[workspace |-> 1, user |-> 1], [workspace |-> 1, user |-> 2]}

\* Where a part may begin in several ways, the other scenes take one of them; there
\* is one profile at most before the daemon is first started.
SettingsInit ==
    /\ scene \in {"profiles", "daemon", "smtp", "minimax", "control"}
    /\ ProfilesInit /\ DaemonInit /\ SmtpInit /\ MiniMaxInit /\ ControlInit
    /\ Profiles \subseteq IF scene = "profiles" THEN {"a"} ELSE {}
    /\ scene # "minimax" => accounts[1] = [name |-> "default", key |-> 0, gone |-> FALSE]

Scene(name) == scene = name /\ UNCHANGED scene

InProfiles == Scene("profiles") /\ UNCHANGED <<daemonVars, smtpVars, minimaxVars, controlVars>>
InDaemon == Scene("daemon") /\ UNCHANGED <<profileVars, smtpVars, minimaxVars, controlVars>>
InSmtp == Scene("smtp") /\ UNCHANGED <<profileVars, daemonVars, minimaxVars, controlVars>>
InMiniMax == Scene("minimax") /\ UNCHANGED <<profileVars, daemonVars, smtpVars, controlVars>>
InControl == Scene("control") /\ UNCHANGED <<profileVars, daemonVars, smtpVars, minimaxVars>>

\* With no more commands to come, the daemon serves, or is down, for good.
DaemonRests == Quiet /\ UNCHANGED daemonVars

SettingsNext ==
    \/ InProfiles /\ (ManagerSteps \/ OtherSteps \/ ProfileEdits)
    \/ InDaemon /\ (DaemonSteps \/ DaemonOutside \/ DaemonRests)
    \/ InSmtp /\ SmtpNext
    \/ InMiniMax /\ (MiniMaxSteps \/ MiniMaxOutside)
    \/ InControl /\ ControlNext

SettingsSpec ==
    /\ SettingsInit
    /\ [][SettingsNext]_settingsVars
    /\ WF_settingsVars(InProfiles /\ ManagerSteps)
    /\ WF_settingsVars(InProfiles /\ OtherSteps)
    /\ WF_settingsVars(InDaemon /\ DaemonSteps)
    /\ WF_settingsVars(InMiniMax /\ MiniMaxSteps)
=============================================================================
