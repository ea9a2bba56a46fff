\* The password of the SMTP settings is kept when its field is left blank.
SPECIFICATION SettingsSpec
CONSTANTS
    Names = {"default", "a", "b"}
    Identities <- MCIdentities
    MaxEdits = 2
    MaxStartFaults = 1
    Legacy = FALSE
    MaxCommands = 2
    MaxDaemonFaults = 1
    MaxMailRequests = 3
    MaxMailFaults = 1
    MaxAccountRequests = 2
    MaxAccountFaults = 1
    Overlap = FALSE
    WebClients = {"tab"}
    MaxChanges = 2
    MaxKeyEdits = 1
    MaxControlFaults = 1
INVARIANTS
    BlankKeepsPassword
