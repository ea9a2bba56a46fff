---------------------------- MODULE CodexProfiles ----------------------------
(***************************************************************************)
(* Codex profiles: the files that the command line (codex_profiles.go) and *)
(* the dashboard (internal/web/handlers.go) write, the provider_accounts   *)
(* rows that stand for them (internal/store/codex_store.go), and the       *)
(* agents that internal/agent/codex_agent_manager.go runs for them.        *)
(*                                                                         *)
(* An identity is a workspace and a user of it; the user is NoUser when    *)
(* the ID token does not tell.  It is at once what a profile file says and *)
(* the external_id of its row.  Profiles that hold only an API key, which  *)
(* have no account, are left out.                                          *)
(***************************************************************************)
EXTENDS Integers, Sequences

CONSTANTS
    Names,        \* profile names; "default" is the unsaved profile
    Identities,   \* records [workspace, user]
    Legacy,       \* whether an older version may have left duplicate rows
    MaxEdits,     \* bound: saves, refreshes, deletions and new tokens
    MaxStartFaults \* bound: starts of an agent that fail

NoUser == 0
NoIdentity == [workspace |-> 0, user |-> NoUser]

ASSUME ProfilesAssumption ==
    /\ "default" \in Names
    /\ Identities \subseteq [workspace : Nat \ {0}, user : Nat]
    \* a token may be written into the profile of another user of a workspace
    /\ \A x, y \in Identities : [workspace |-> x.workspace, user |-> y.user] \in Identities
    /\ Legacy \in BOOLEAN
    /\ MaxEdits \in Nat /\ MaxStartFaults \in Nat

VARIABLES
    files,      \* the identity in the file of each profile, or NoIdentity
    rows,       \* provider_accounts: the id is the index
    scans,      \* lastScanProfiles: which names it has, which files are newer
    agents,     \* the instances map, the agents outside it, and what they write
    command,    \* the command or request that is not through with the database
    manager     \* where the manager is, and the file it has in hand; a history of
                \* the edits, the faults, and of a race

profileVars == <<files, rows, scans, agents, command, manager>>

NoAgent == [identity |-> NoIdentity, row |-> 0]
NoRow == [id |-> 0, name |-> "default", deleted |-> FALSE]
NoCommand == [op |-> "none", name |-> "default", identity |-> NoIdentity,
              looked |-> FALSE, row |-> NoRow]

\* Whether a file in hand was written to since its time was read.
NoHand == [at |-> "none", op |-> "none", name |-> "default", identity |-> NoIdentity,
           changed |-> FALSE]

\* No agent runs, and none writes.
NoAgents == [map |-> [n \in Names |-> NoAgent], ending |-> [n \in Names |-> 0],
             forgotten |-> {}, refreshing |-> {}, written |-> {}, missed |-> {}]

\* listCodexProfiles
Profiles == {n \in Names : files[n] # NoIdentity}

\* isDuplicateCodexProfile
Duplicate(x, y) ==
    IF x.user # NoUser /\ y.user # NoUser THEN x = y
    ELSE x.user # NoUser /\ x.user = y.user

\* Profiles may have been saved without the daemon and its database.  The
\* migration has put in the row of the default account; an older version may
\* have left two rows of one account.
ProfilesInit ==
    /\ files \in [Names -> Identities \cup {NoIdentity}]
    /\ files["default"] = NoIdentity
    /\ \A m, n \in Profiles : m # n => ~Duplicate(files[m], files[n])
    /\ \/ rows = <<[name |-> "default", external |-> NoIdentity, deleted |-> FALSE]>>
       \/ \E x \in Identities, m, n \in Names \ {"default"}, gone \in BOOLEAN :
             /\ Legacy /\ m # n
             /\ rows = <<[name |-> "default", external |-> NoIdentity, deleted |-> TRUE],
                         [name |-> m, external |-> x, deleted |-> gone],
                         [name |-> n, external |-> x, deleted |-> FALSE]>>
    /\ scans = [known |-> {}, newer |-> {}]
    /\ agents = NoAgents
    /\ command = NoCommand
    /\ manager = [at |-> "down", todo |-> {}, hand |-> NoHand, edits |-> 0, faults |-> 0,
                  raced |-> FALSE]

-----------------------------------------------------------------------------
(* The rows of provider_accounts *)

NameTaken(rs, name) == \E id \in DOMAIN rs : rs[id].name = name
RowNamed(rs, name) == CHOOSE id \in DOMAIN rs : rs[id].name = name
RowsOf(rs, x) == {id \in DOMAIN rs : rs[id].external = x}
Lowest(ids) == CHOOSE id \in ids : \A other \in ids : id <= other

\* A result: the rows afterwards and the row that was asked for.
Found(rs, id) == [rows |-> rs, id |-> id]

\* The sole row, if it is that of the default account, is given a new name to
\* keep its history; whether it was deleted is not looked at.
GetOrCreateProviderAccount(rs, name) ==
    IF NameTaken(rs, name)
    THEN Found([rs EXCEPT ![RowNamed(rs, name)].deleted = FALSE], RowNamed(rs, name))
    ELSE IF Len(rs) = 1 /\ rs[1].name = "default"
    THEN Found([rs EXCEPT ![1].name = name], 1)
    ELSE Found(Append(rs, [name |-> name, external |-> NoIdentity, deleted |-> FALSE]),
               Len(rs) + 1)

WithExternal(found, x) == [found EXCEPT !.rows[found.id].external = x]

\* A bug to detect: the row is looked up by its name only.
ReadNoRow(rs, x) == NoRow

\* The row of an identity as it is read: of several, which older versions may
\* have left, the first.
ReadRow(rs, x) ==
    IF RowsOf(rs, x) = {} THEN NoRow
    ELSE LET id == Lowest(RowsOf(rs, x))
         IN [id |-> id, name |-> rs[id].name, deleted |-> rs[id].deleted]

\* What is written after it.  The row follows the profile's name unless that is
\* taken, and is active again; without one the row of the name is given the
\* identity.
WriteRow(rs, row, name, x) ==
    LET taken   == \E other \in DOMAIN rs \ {row.id} : rs[other].name = name
        renamed == [id \in DOMAIN rs |-> [rs[id] EXCEPT !.name =
                      IF id = row.id /\ row.name # name /\ ~taken THEN name ELSE @]]
        restored(id) == row.deleted /\ renamed[id].name = IF taken THEN row.name ELSE name
    IN  IF row = NoRow THEN WithExternal(GetOrCreateProviderAccount(rs, name), x)
        ELSE Found([id \in DOMAIN rs |-> [renamed[id] EXCEPT !.deleted = @ /\ ~restored(id)]],
                   row.id)

GetOrCreateProviderAccountByExternalID(rs, name, x) ==
    WriteRow(rs, ReadRow(rs, x), name, x)

MarkProviderAccountDeleted(rs, name) ==
    [id \in DOMAIN rs |-> [rs[id] EXCEPT !.deleted = @ \/ (rs[id].name = name)]]

\* DeduplicateProviderAccounts and MergeCodexAccountData: of the rows of an
\* identity an active one, of those the lowest, stays.
Target(rs, x) ==
    LET active == {id \in RowsOf(rs, x) : ~rs[id].deleted}
    IN IF active = {} THEN Lowest(RowsOf(rs, x)) ELSE Lowest(active)
Deduplicated(rs) ==
    [id \in DOMAIN rs |->
       [rs[id] EXCEPT !.deleted =
          @ \/ (rs[id].external \in Identities /\ Target(rs, rs[id].external) # id)]]

-----------------------------------------------------------------------------
(* The command line and the dashboard.  A profile is written or removed     *)
(* first and its row is brought in line after that.                         *)

\* The scanner has read the time of the file and is not through with it.
InHand(name) == manager.hand.op = "scan" /\ manager.hand.name = name

Edit(op, name, x) ==
    /\ command = NoCommand
    /\ manager.edits < MaxEdits
    /\ manager' = [manager EXCEPT !.edits = @ + 1, !.hand.changed = @ \/ InHand(name)]
    /\ files' = [files EXCEPT ![name] = x]
    /\ scans' = [scans EXCEPT !.newer = @ \cup {name}]
    /\ command' = [NoCommand EXCEPT !.op = op, !.name = name, !.identity = x]
    /\ UNCHANGED <<rows, agents>>

\* codexProfileSave and codexProfileRefresh of the command line, which may
\* turn a profile over to another account; the dashboard saves new names only.
Save(name, x) ==
    /\ \A other \in Profiles \ {name} : ~Duplicate(files[other], x)
    /\ Edit("save", name, x)

\* The dashboard's refresh compares the workspaces, and no other profiles.
WebRefresh(name, x) ==
    /\ manager.at = "up"
    /\ name \in Profiles /\ files[name].workspace = x.workspace
    /\ Edit("save", name, x)

Delete(name) ==
    /\ name \in Profiles
    /\ Edit("delete", name, NoIdentity)

\* withProfileDB is best effort: the command may fail to open the database.
MissDatabase ==
    /\ command # NoCommand
    /\ command' = NoCommand
    /\ UNCHANGED <<files, rows, scans, agents, manager>>

\* A command and the daemon, or a request and the scanner, use the table at the
\* same time: between the query for the row and what is written after it the
\* other may have written.
LookUpRow ==
    /\ command.op = "save" /\ ~command.looked
    /\ command' = [command EXCEPT !.looked = TRUE, !.row = ReadRow(rows, command.identity)]
    /\ UNCHANGED <<files, rows, scans, agents, manager>>

\* "raced" is a history of the identity having got a row of another name since
\* it had none.
SaveRow ==
    /\ command.op = "save" /\ command.looked
    /\ command' = NoCommand
    /\ rows' = WriteRow(rows, command.row, command.name, command.identity).rows
    /\ manager' = [manager EXCEPT !.raced =
                      @ \/ /\ command.row = NoRow
                           /\ \E id \in RowsOf(rows, command.identity) :
                                 rows[id].name # command.name]
    /\ UNCHANGED <<files, scans, agents>>

DeleteRow ==
    /\ command.op = "delete"
    /\ command' = NoCommand
    /\ rows' = MarkProviderAccountDeleted(rows, command.name)
    /\ UNCHANGED <<files, scans, agents, manager>>

-----------------------------------------------------------------------------
(* The agents *)

\* The time of a file is put into lastScanProfiles.
Remembered(name) == [known |-> scans.known \cup {name}, newer |-> scans.newer \ {name}]

\* A history: the time of a file is remembered, or will be, although its agent is
\* not the one that the file asks for.
Missed(as, name) == [as EXCEPT !.missed = @ \cup {name}]

\* stopAgent: the agent leaves the map at once and ends later.
Stopped(as, name) ==
    IF as.map[name] = NoAgent THEN as
    ELSE [as EXCEPT !.map[name] = NoAgent, !.ending[name] = @ + 1,
                    !.refreshing = {r \in @ : r[1] # name}]

\* The end of a run deletes the entry of its name, whosever it is by then.
Exit(name) ==
    /\ agents.ending[name] > 0
    /\ agents' = [agents EXCEPT !.ending[name] = @ - 1, !.map[name] = NoAgent,
                                !.forgotten = @ \cup ({agents.map[name]} \ {NoAgent})]
    /\ UNCHANGED <<files, rows, scans, command, manager>>

\* The agent reads the tokens of its profile and asks for new ones ...
BeginRefresh(name) ==
    /\ name # "default" /\ agents.map[name] # NoAgent /\ files[name] # NoIdentity
    /\ manager.edits < MaxEdits
    /\ manager' = [manager EXCEPT !.edits = @ + 1]
    /\ agents' = [agents EXCEPT !.refreshing = @ \cup {<<name, files[name]>>}]
    /\ UNCHANGED <<files, rows, scans, command>>

\* ... saveTokensToProfile puts them into whatever file there is by then, the
\* user's id with them ...
SaveProfileTokens(name, x) ==
    /\ <<name, x>> \in agents.refreshing
    /\ IF files[name] = NoIdentity
       THEN /\ agents' = [agents EXCEPT !.refreshing = @ \ {<<name, x>>}]
            /\ UNCHANGED <<files, scans, manager>>
       ELSE /\ agents' = [agents EXCEPT !.refreshing = @ \ {<<name, x>>},
                                        !.written = @ \cup {name}]
            /\ files' = [files EXCEPT ![name].user = IF x.user = NoUser THEN @ ELSE x.user]
            /\ scans' = [scans EXCEPT !.newer = @ \cup {name}]
            /\ manager' = [manager EXCEPT !.hand.changed = @ \/ InHand(name)]
    /\ UNCHANGED <<rows, command>>

\* ... and then the time of the file is remembered as seen: a change of it that
\* has yet to be scanned is hidden.
RememberTokens(name) ==
    /\ name \in agents.written
    /\ LET as == [agents EXCEPT !.written = @ \ {name}]
       IN  IF files[name] = NoIdentity THEN agents' = as /\ UNCHANGED scans
           ELSE /\ scans' = Remembered(name)
                /\ agents' = IF name \in scans.newer /\ as.map[name].identity # files[name]
                             THEN Missed(as, name) ELSE as
    /\ UNCHANGED <<files, rows, command, manager>>

-----------------------------------------------------------------------------
(* The manager.  The files are read one after the other, when the daemon starts *)
(* and then by the scanner; "hand" is the file that it has before it.           *)

Boot ==
    /\ manager.at = "down"
    /\ manager' = [manager EXCEPT !.at = "load",
                                  !.todo = Profiles]
    /\ UNCHANGED <<files, rows, scans, agents, command>>

\* One file of loadAndStartProfiles is read; it may be gone since the directory was.
LoadProfile(name) ==
    /\ manager.at = "load" /\ manager.hand = NoHand /\ name \in manager.todo
    /\ manager' = [manager EXCEPT !.todo = @ \ {name},
                      !.hand = IF files[name] = NoIdentity THEN NoHand
                               ELSE [NoHand EXCEPT !.at = "start", !.op = "load",
                                                   !.name = name, !.identity = files[name]]]
    /\ UNCHANGED <<files, rows, scans, agents, command>>

\* The time of a file that is new or was modified is read, by a rule that is given,
\* and the agent for what it said before is stopped.
ScanIf(due, name) ==
    /\ manager.at = "up" /\ manager.hand = NoHand
    /\ files[name] # NoIdentity /\ due
    /\ manager' = [manager EXCEPT !.hand = [NoHand EXCEPT !.at = "read", !.op = "scan",
                                                          !.name = name]]
    /\ agents' = IF name \in scans.known THEN Stopped(agents, name) ELSE agents
    /\ UNCHANGED <<files, rows, scans, command>>

\* A bug to detect: files that are known already are passed over.
ScanNewProfile(name) == ScanIf(name \notin scans.known, name)

\* One file of scanForProfileChanges.
ScanProfile(name) == ScanIf(name \notin scans.known \/ name \in scans.newer, name)

\* loadAndStartProfile reads the file that the scanner saw, unless it is gone.
ReadProfile ==
    /\ manager.hand.at = "read"
    /\ LET x == files[manager.hand.name]
       IN  manager' = [manager EXCEPT !.hand.at = IF x = NoIdentity THEN "remember" ELSE "start",
                                      !.hand.identity = x]
    /\ UNCHANGED <<files, rows, scans, agents, command>>

\* There is an agent of that name, for whatever account.
KeepAgent ==
    LET hand == manager.hand IN
    /\ hand.at = "start" /\ agents.map[hand.name] # NoAgent
    /\ agents' = IF agents.map[hand.name].identity # hand.identity
                 THEN Missed(agents, hand.name) ELSE agents
    /\ manager' = [manager EXCEPT !.hand.at = "remember"]
    /\ UNCHANGED <<files, rows, scans, command>>

\* startAgentForProfile
StartProfile ==
    LET hand == manager.hand
        found == GetOrCreateProviderAccountByExternalID(rows, hand.name, hand.identity) IN
    /\ hand.at = "start" /\ agents.map[hand.name] = NoAgent
    /\ rows' = found.rows
    /\ agents' = [agents EXCEPT !.map[hand.name] = [identity |-> hand.identity, row |-> found.id],
                                !.missed = @ \ {hand.name}]
    /\ manager' = [manager EXCEPT !.hand.at = "remember"]
    /\ UNCHANGED <<files, scans, command>>

\* It fails when the rows cannot be read: the start of the daemon leaves the file to
\* the scanner, and the scanner remembers its time all the same.
FailToStart ==
    LET hand == manager.hand IN
    /\ hand.at = "start" /\ agents.map[hand.name] = NoAgent
    /\ manager.faults < MaxStartFaults
    /\ manager' = [manager EXCEPT !.faults = @ + 1,
                      !.hand = IF hand.op = "load" THEN NoHand ELSE [@ EXCEPT !.at = "remember"]]
    /\ agents' = IF hand.op = "load" THEN agents ELSE Missed(agents, hand.name)
    /\ UNCHANGED <<files, rows, scans, command>>

\* The start of the daemon reads the time of the file only now, so that a change
\* since the file was read is hidden; the scanner remembers the time it has read.
RememberProfile ==
    LET hand == manager.hand IN
    /\ hand.at = "remember"
    /\ manager' = [manager EXCEPT !.hand = NoHand]
    /\ \/ /\ hand.op = "load" /\ files[hand.name] = NoIdentity
          /\ UNCHANGED <<scans, agents>>
       \/ /\ hand.op = "load" /\ files[hand.name] # NoIdentity
          /\ scans' = Remembered(hand.name)
          /\ agents' = IF files[hand.name] # hand.identity THEN Missed(agents, hand.name)
                       ELSE agents
       \/ /\ hand.op = "scan"
          /\ scans' = [Remembered(hand.name) EXCEPT
                          !.newer = @ \cup IF hand.changed THEN {hand.name} ELSE {}]
          /\ UNCHANGED agents
    /\ UNCHANGED <<files, rows, command>>

\* markOrphanedAccountsDeleted goes by the names of the rows.
OrphansDeleted(rs, as) ==
    [id \in DOMAIN rs |->
       [rs[id] EXCEPT !.deleted =
          @ \/ (as.map[rs[id].name] = NoAgent /\ files[rs[id].name] = NoIdentity)]]

\* startDefaultAgent, for whoever is logged in to Codex.
DefaultStarted(x) ==
    LET found == GetOrCreateProviderAccountByExternalID(rows, "default", x)
    IN  [rows   |-> found.rows,
         agents |-> [agents EXCEPT !.map["default"] = [identity |-> x, row |-> found.id]]]

\* The rest of Run: the default agent if there is no other and someone is
\* logged in, orphans, duplicates, and the scanner starts.
Settle ==
    /\ manager.at = "load" /\ manager.hand = NoHand /\ manager.todo = {}
    /\ manager' = [manager EXCEPT !.at = "up"]
    /\ \E started \in {[rows |-> rows, agents |-> agents]}
                     \cup IF \A n \in Names : agents.map[n] = NoAgent
                          THEN {DefaultStarted(x) : x \in Identities} ELSE {} :
          /\ agents' = started.agents
          /\ rows' = Deduplicated(OrphansDeleted(started.rows, started.agents))
    /\ UNCHANGED <<files, scans, command>>

\* scanForProfileChanges at an agent whose file is gone.
ScanDeletion(name) ==
    /\ manager.at = "up" /\ manager.hand = NoHand /\ name # "default"
    /\ agents.map[name] # NoAgent /\ files[name] = NoIdentity
    /\ agents' = Stopped(agents, name)
    /\ scans' = [scans EXCEPT !.known = @ \ {name}]
    /\ rows' = MarkProviderAccountDeleted(rows, name)
    /\ UNCHANGED <<files, command, manager>>

\* The daemon is stopped or killed.
EndDaemon ==
    /\ manager.at # "down"
    /\ manager' = [manager EXCEPT !.at = "down", !.todo = {}, !.hand = NoHand]
    /\ scans' = [known |-> {}, newer |-> {}]
    /\ agents' = NoAgents
    /\ UNCHANGED <<files, rows, command>>

\* What the manager does once it is started.
ManagerSteps ==
    \/ Settle \/ ReadProfile \/ KeepAgent \/ StartProfile \/ FailToStart \/ RememberProfile
    \/ \E n \in Names : LoadProfile(n) \/ ScanProfile(n) \/ ScanDeletion(n)

\* What is under way comes to an end.
OtherSteps ==
    \/ LookUpRow
    \/ SaveRow
    \/ DeleteRow
    \/ MissDatabase
    \/ \E n \in Names : Exit(n) \/ RememberTokens(n) \/ \E x \in Identities : SaveProfileTokens(n, x)

ProfileEdits ==
    \/ \E n \in Names, x \in Identities : Save(n, x) \/ WebRefresh(n, x)
    \/ \E n \in Names : Delete(n) \/ BeginRefresh(n)
    \/ Boot
    \/ EndDaemon

ProfilesNext == ManagerSteps \/ OtherSteps \/ ProfileEdits

ProfilesSpec ==
    /\ ProfilesInit
    /\ [][ProfilesNext]_profileVars
    /\ WF_profileVars(ManagerSteps)
    /\ WF_profileVars(OtherSteps)

-----------------------------------------------------------------------------
(* Properties *)

ProfilesTypeOK ==
    /\ files \in [Names -> Identities \cup {NoIdentity}]
    /\ rows \in Seq([name : Names, external : Identities \cup {NoIdentity}, deleted : BOOLEAN])
    /\ scans.known \subseteq Names /\ scans.newer \subseteq Names
    /\ \A n \in Names : agents.map[n] = NoAgent \/ agents.map[n].row \in DOMAIN rows
    /\ manager.at \in {"down", "load", "up"} /\ manager.raced \in BOOLEAN
    /\ manager.hand \in [at : {"none", "read", "start", "remember"}, op : {"none", "load", "scan"},
                        name : Names, identity : Identities \cup {NoIdentity}, changed : BOOLEAN]

\* "One DB row per real provider account, regardless of how many profile names
\* point to it": no save, refresh, deletion or start of an agent, in whatever
\* order and under whatever names, and no edit of the table between the query
\* for a row and what is written after it, gives an identity a second row, be
\* it a deleted one that a later profile brings back.  Except where a command
\* and the daemon, for two profiles, look for the first one at the same time.
IdentityHasOneRow ==
    ~manager.raced => \A x \in Identities : \A i, j \in RowsOf(rows, x) : i = j

\* What the dashboard shows is one row at least once the daemon is up, which
\* merges the others.  False: after such a race, and also where an older version
\* has left two rows, since the one that is merged keeps the identity and is
\* the one that the next profile finds.
IdentityIsShownOnce ==
    manager.at = "up" =>
       \A x \in Identities : \A i, j \in RowsOf(rows, x) :
          ~rows[i].deleted /\ ~rows[j].deleted => i = j

\* What is polled under a name, by an agent that the manager knows or forgot.
Polls(name, x) ==
    \/ agents.map[name].identity = x
    \/ \E a \in agents.forgotten : a.identity = x

\* The promise of the command line: a running daemon comes to poll each profile
\* for the account that its file names last, and goes on to do so.  Except where
\* the time of the file was remembered although the scanner failed to start the
\* agent, the file was edited while the daemon that starts had it in hand, new
\* tokens hid the edit, or an agent was left of a file that was deleted.
ProfileIsPolled ==
    <>[](manager.at = "up") =>
       <>[](\A n \in Names \ {"default"} :
               files[n] # NoIdentity => Polls(n, files[n]) \/ n \in agents.missed)

\* The same without the exceptions.  False, for each of them.
EveryProfileIsPolled ==
    <>[](manager.at = "up") =>
       <>[](\A n \in Names \ {"default"} : files[n] # NoIdentity => Polls(n, files[n]))

\* The history that is kept under a row is of one account: a row that has been
\* given an identity keeps it.  False: a name is turned over to another account
\* together with its row, and the first profile takes the default one.
RowKeepsItsIdentity ==
    [][\A id \in DOMAIN rows :
          rows[id].external # NoIdentity => rows'[id].external = rows[id].external
      ]_profileVars

\* A profile that is deleted is in the end not polled any more.  False: an agent
\* whose entry in the map was overwritten by a second start goes on for good.
DeletedProfileRests ==
    <>[](manager.at = "up" => agents.forgotten = {})

\* The rows that the manager takes for orphans when it starts have no agent.
\* False: the row of an identity keeps an old name when another row has that of
\* its profile, and an old name has neither an agent nor a file.
OrphansHaveNoAgent ==
    [][manager.at = "load" /\ manager'.at = "up" =>
         \A n \in Names :
            LET agent == agents.map[n]
            IN agent # NoAgent /\ ~rows[agent.row].deleted => ~rows'[agent.row].deleted
      ]_profileVars
=============================================================================
