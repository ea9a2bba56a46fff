\* Profiles, accounts, switches, passwords and the daemon, one to a behaviour.
SPECIFICATION SettingsSpec
CONSTANTS
    Names = {"default", "a", "b"}
    Identities <- MCIdentities
    MaxEdits = 2
    MaxStartFaults = 1
    Legacy = FALSE
    MaxCommands = 2
    MaxDaemonFaults = 1
    MaxMailRequests = 3
    MaxMailFaults = 1
    MaxAccountRequests = 2
    MaxAccountFaults = 1
    Overlap = FALSE
    WebClients = {"tab"}
    MaxChanges = 2
    MaxKeyEdits = 1
    MaxControlFaults = 1
INVARIANTS
    IdentityHasOneRow
    AgentsFollowAccounts
    AgentsMatchSwitches
    TypedPasswordIsPresented
    AdminKeepsPassword
    PIDFileNamesServer
PROPERTIES
    ProfileIsPolled
    AccountIsPolled
    UpdateTakesOver
