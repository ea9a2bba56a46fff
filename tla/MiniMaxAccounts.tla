--------------------------- MODULE MiniMaxAccounts ---------------------------
(***************************************************************************)
(* The accounts of MiniMax.  The dashboard adds, changes and deletes them  *)
(* in the database and has the manager reload (minimaxAccountCreate,       *)
(* Update, Delete); the manager runs one agent per account that has a key  *)
(* (MiniMaxAgentManager).  The registry starts and stops the manager's     *)
(* Run, always of the one manager the daemon has.                          *)
(*                                                                         *)
(* A run of the manager and a request of the dashboard are threads, which  *)
(* share stopAllAgents and loadAndStartAccounts.  Of an account's metadata *)
(* the key is kept; the region stands for a change of what is not the key. *)
(* The map of instances is the flag `mapped` of the agents.                *)
(***************************************************************************)
EXTENDS Integers, FiniteSets

CONSTANTS
    MaxAccountRequests,     \* bound: changes the dashboard asks for
    MaxAccountFaults,       \* bound: calls of the database that fail
    Overlap                 \* whether the manager starts and stops in the midst of
                            \* a request, and starts anew before its run has ended

ASSUME MiniMaxAssumption ==
    MaxAccountRequests \in Nat /\ MaxAccountFaults \in Nat /\ Overlap \in BOOLEAN

VARIABLES
    accounts,       \* the account of each id, or NoAccount
    instances,     \* the agent in each slot, or NoInstance
    threads,    \* runs of the manager and requests of the dashboard
    reloadMu,   \* the request that holds the lock of Reload, or "free"
    ctx,        \* the run whose context the manager holds, or "none"
    registry,   \* the run the registry has, or "none"
    seen        \* history, and the numbers given out so far

minimaxVars == <<accounts, instances, threads, reloadMu, ctx, registry, seen>>

AccountIds == {1, 2}
AccountNames == {"default", "work"}
ManagerRuns == {"run", "rerun"}
AccountClients == {"tab", "window"}
Threads == ManagerRuns \cup AccountClients
Slots == 1..4

NoAccount == [name |-> "", key |-> 0, gone |-> TRUE]
NoInstance == [account |-> 0, key |-> 0, parent |-> "none", mapped |-> FALSE,
            cancelled |-> FALSE, live |-> FALSE]
NoThread == [at |-> "none", op |-> "", on |-> 0, key |-> 0, todo |-> {},
             cancelled |-> FALSE, wrote |-> FALSE]

\* The database holds "default" from its migration on, with the key of .env
\* when main has seeded it.
MiniMaxInit ==
    /\ \E key \in {0, 1}, gone \in BOOLEAN :
          accounts = [i \in AccountIds |->
                     IF i = 1 THEN [name |-> "default", key |-> key, gone |-> gone]
                     ELSE NoAccount]
    /\ instances = [s \in Slots |-> NoInstance]
    /\ threads = [t \in Threads |-> NoThread]
    /\ reloadMu = "free"
    /\ ctx = "none"
    /\ registry = "none"
    /\ seen = [requests |-> 0, faults |-> 0, keys |-> 1, unloaded |-> {}]

Active(i) == ~accounts[i].gone /\ accounts[i].key # 0
ContextDone(r) == r = "none" \/ threads[r].cancelled \/ threads[r].at = "done"
AgentStops(g) == g.cancelled \/ ContextDone(g.parent)
NoneUnderway == \A c \in AccountClients : threads[c] = NoThread
NoRunMoves == \A r \in ManagerRuns : threads[r].at \in {"none", "serve", "done"}

AtLine(t, at, line) == threads[t].at = at /\ threads' = [threads EXCEPT ![t].at = line]

DBFault ==
    /\ seen.faults < MaxAccountFaults
    /\ seen' = [seen EXCEPT !.faults = @ + 1]

-----------------------------------------------------------------------------
(* The agents *)

\* A bug to detect: the agents stay in the map.
CancelAll ==
    instances' = [s \in Slots |-> IF instances[s].mapped THEN [instances[s] EXCEPT !.cancelled = TRUE]
                               ELSE instances[s]]

\* stopAllAgents: the map is emptied and its agents are cancelled.
TakeAll ==
    instances' = [s \in Slots |->
                  IF ~instances[s].mapped THEN instances[s]
                  ELSE IF instances[s].live
                  THEN [instances[s] EXCEPT !.mapped = FALSE, !.cancelled = TRUE]
                  ELSE NoInstance]

StopAllAgents(t) ==
    /\ AtLine(t, "stop", "wait")
    /\ TakeAll
    /\ UNCHANGED <<accounts, reloadMu, ctx, registry, seen>>

\* It waits for every agent that runs, the ones it did not cancel included.
AgentsEnded(t) ==
    /\ \A s \in Slots : ~instances[s].live
    /\ AtLine(t, "wait", IF t \in ManagerRuns THEN "done" ELSE "query")
    /\ registry' = IF t \in ManagerRuns THEN "none" ELSE registry
    /\ UNCHANGED <<accounts, instances, reloadMu, ctx, seen>>

\* loadAndStartAccounts
QueryAccounts(t) ==
    /\ threads[t].at = "query"
    /\ \/ /\ threads' = [threads EXCEPT ![t].at = "start",
                            ![t].todo = {<<i, accounts[i].key>> : i \in {j \in AccountIds : Active(j)}}]
          /\ seen' = [seen EXCEPT !.unloaded = {}]
       \/ /\ seen.faults < MaxAccountFaults
          /\ threads' = [threads EXCEPT ![t].at = "start"]
          /\ seen' = [seen EXCEPT !.faults = @ + 1, !.unloaded = AccountIds]
    /\ UNCHANGED <<accounts, instances, reloadMu, ctx, registry>>

NextToStart(t) ==
    CHOOSE a \in threads[t].todo : \A b \in threads[t].todo : a[1] <= b[1]

\* startAgentForAccount: an account whose agent is in the map is left alone.
CheckInstance(t) ==
    /\ threads[t].at = "start" /\ threads[t].todo # {}
    /\ LET a == NextToStart(t)
       IN threads' = IF \E s \in Slots : instances[s].mapped /\ instances[s].account = a[1]
                     THEN [threads EXCEPT ![t].todo = @ \ {a}]
                     ELSE [threads EXCEPT ![t].at = "launch"]
    /\ UNCHANGED <<accounts, instances, reloadMu, ctx, registry, seen>>

Unmapped(g, i) ==
    IF g.account # i \/ ~g.mapped THEN g
    ELSE IF g.live THEN [g EXCEPT !.mapped = FALSE] ELSE NoInstance

\* The agent's context is derived from the one the manager holds by now.
LaunchAgent(t) ==
    /\ threads[t].at = "launch"
    /\ LET a == NextToStart(t)
           free == CHOOSE s \in Slots : instances[s] = NoInstance
       IN /\ instances' = [s \in Slots |->
                IF s = free
                THEN [account |-> a[1], key |-> a[2], parent |-> ctx,
                      mapped |-> TRUE, cancelled |-> FALSE, live |-> TRUE]
                ELSE Unmapped(instances[s], a[1])]
          /\ threads' = [threads EXCEPT ![t].at = "start", ![t].todo = @ \ {a}]
    /\ UNCHANGED <<accounts, reloadMu, ctx, registry, seen>>

\* MiniMaxAgent.Run returns.
AgentEnds(s) ==
    /\ instances[s].live /\ AgentStops(instances[s])
    /\ instances' = [instances EXCEPT ![s] = IF @.mapped THEN [@ EXCEPT !.live = FALSE] ELSE NoInstance]
    /\ UNCHANGED <<accounts, threads, reloadMu, ctx, registry, seen>>

-----------------------------------------------------------------------------
(* MiniMaxAgentManager.Run *)

\* The registry starts the manager when it has no run of it.
StartManager(r) ==
    /\ registry = "none"
    /\ AtLine(r, "none", "query")
    /\ r = "rerun" => threads["run"].at \in {"done"} \cup IF Overlap THEN {"start", "serve"} ELSE {}
    /\ Overlap \/ NoneUnderway
    /\ registry' = r
    /\ ctx' = r
    /\ UNCHANGED <<accounts, instances, reloadMu, seen>>

RunServes(r) ==
    /\ threads[r].todo = {}
    /\ AtLine(r, "start", "serve")
    /\ UNCHANGED <<accounts, instances, reloadMu, ctx, registry, seen>>

\* The registry cancels the run and does not wait for its end.
StopManager ==
    /\ registry # "none"
    /\ Overlap \/ NoneUnderway
    /\ threads' = [threads EXCEPT ![registry].cancelled = TRUE]
    /\ registry' = "none"
    /\ UNCHANGED <<accounts, instances, reloadMu, ctx, seen>>

RunStops(r) ==
    /\ threads[r].cancelled
    /\ AtLine(r, "serve", "stop")
    /\ UNCHANGED <<accounts, instances, reloadMu, ctx, registry, seen>>

-----------------------------------------------------------------------------
(* Reload *)

\* A bug to detect: reloads are not kept apart.
LockNothing(c) == TRUE

LockReload(c) == reloadMu = "free"

Answer(c) == threads' = [threads EXCEPT ![c] = NoThread]

\* A bug to detect: the agents that run are kept and only new ones started.
ReloadAdds(c) ==
    /\ LockReload(c)
    /\ IF ContextDone(ctx) THEN AtLine(c, "lock", "start") ELSE AtLine(c, "lock", "query")
    /\ reloadMu' = c
    /\ UNCHANGED <<accounts, instances, ctx, registry, seen>>

\* A manager that does not run is left alone.
Reload(c) ==
    /\ LockReload(c)
    /\ IF ContextDone(ctx) THEN AtLine(c, "lock", "start") ELSE AtLine(c, "lock", "stop")
    /\ reloadMu' = c
    /\ UNCHANGED <<accounts, instances, ctx, registry, seen>>

ReloadEnds(c) ==
    /\ threads[c].at = "start" /\ threads[c].todo = {}
    /\ Answer(c)
    /\ reloadMu' = IF reloadMu = c THEN "free" ELSE reloadMu
    /\ UNCHANGED <<accounts, instances, ctx, registry, seen>>

-----------------------------------------------------------------------------
(* The requests of the dashboard *)

\* A request that ends in an error leaves what it wrote, and does not reload.
Refuse(c, spent) ==
    /\ spent => seen.faults < MaxAccountFaults
    /\ seen' = [seen EXCEPT !.faults = IF spent THEN @ + 1 ELSE @,
                            !.unloaded = IF threads[c].wrote THEN @ \cup {threads[c].on} ELSE @]
    /\ Answer(c)
    /\ UNCHANGED accounts

AskForAccount(c) ==
    /\ threads[c] = NoThread
    /\ seen.requests < MaxAccountRequests
    /\ Overlap \/ NoRunMoves
    /\ \E op \in {"create", "update", "delete"} :
          threads' = [threads EXCEPT ![c].at = "row", ![c].op = op]
    /\ seen' = [seen EXCEPT !.requests = @ + 1]
    /\ UNCHANGED <<accounts, instances, reloadMu, ctx, registry>>

\* CreateOrRestoreProviderAccount: a name that is known has its row restored.
\* That the name is unique makes the lookup and the insertion one step.
CreateOrRestoreProviderAccount(c, name) ==
    \E i \in AccountIds :
       /\ \/ accounts[i].name = name
          \/ /\ \A j \in AccountIds : accounts[j].name # name
             /\ accounts[i] = NoAccount
       /\ accounts' = [accounts EXCEPT ![i].name = name, ![i].gone = FALSE]
       /\ threads' = [threads EXCEPT ![c].at = "metadata", ![c].on = i,
                                     ![c].wrote = accounts[i].gone]

CreateAccount(c) ==
    /\ threads[c].at = "row" /\ threads[c].op = "create"
    /\ \/ \E name \in AccountNames : CreateOrRestoreProviderAccount(c, name)
          /\ UNCHANGED seen
       \/ Refuse(c, TRUE)
    /\ UNCHANGED <<instances, reloadMu, ctx, registry>>

\* The other two read the account first.
GetAccount(c) ==
    /\ threads[c].at = "row" /\ threads[c].op # "create"
    /\ \/ \E i \in AccountIds :
             /\ accounts[i] # NoAccount
             /\ threads' = [threads EXCEPT ![c].on = i, ![c].key = accounts[i].key,
                   ![c].at = IF threads[c].op = "update" THEN "restore" ELSE "delete"]
             /\ UNCHANGED <<accounts, seen>>
       \/ Refuse(c, FALSE)
    /\ UNCHANGED <<instances, reloadMu, ctx, registry>>

RestoreAccount(c) ==
    /\ threads[c].at = "restore"
    /\ \/ /\ \/ UNCHANGED accounts
             \/ accounts' = [accounts EXCEPT ![threads[c].on].gone = FALSE]
          /\ threads' = [threads EXCEPT ![c].at = "rename", ![c].wrote = accounts' # accounts]
          /\ UNCHANGED seen
       \/ Refuse(c, TRUE)
    /\ UNCHANGED <<instances, reloadMu, ctx, registry>>

\* A name that another account has is refused by the database.
RenameAccount(c) ==
    /\ threads[c].at = "rename"
    /\ \/ /\ \/ UNCHANGED accounts
             \/ \E name \in AccountNames :
                   /\ \A j \in AccountIds \ {threads[c].on} : accounts[j].name # name
                   /\ accounts' = [accounts EXCEPT ![threads[c].on].name = name]
          /\ AtLine(c, "rename", "metadata")
          /\ UNCHANGED seen
       \/ Refuse(c, FALSE)
    /\ UNCHANGED <<instances, reloadMu, ctx, registry>>

\* What is asked for is a key, only another region, or neither.  A new
\* account's metadata is what was asked for; an update's is what it read, with
\* that put over it.
SaveMetadata(c) ==
    /\ threads[c].at = "metadata"
    /\ \/ \E key \in {0, seen.keys + 1} :
             /\ accounts' = [accounts EXCEPT ![threads[c].on].key =
                            IF key = 0 /\ threads[c].op = "update" THEN threads[c].key ELSE key]
             /\ seen' = [seen EXCEPT !.keys = IF key = 0 THEN @ ELSE key]
             /\ AtLine(c, "metadata", "lock")
       \/ AtLine(c, "metadata", "lock") /\ UNCHANGED <<accounts, seen>>
       \/ /\ threads[c].op = "create" /\ DBFault
          /\ AtLine(c, "metadata", "lock") /\ UNCHANGED accounts
       \/ Refuse(c, FALSE)
       \/ threads[c].op = "update" /\ Refuse(c, TRUE)
    /\ UNCHANGED <<instances, reloadMu, ctx, registry>>

DeleteAccount(c) ==
    /\ threads[c].at = "delete"
    /\ \/ /\ accounts' = [accounts EXCEPT ![threads[c].on].gone = TRUE]
          /\ AtLine(c, "delete", "lock")
          /\ UNCHANGED seen
       \/ Refuse(c, TRUE)
    /\ UNCHANGED <<instances, reloadMu, ctx, registry>>

\* minimaxAccountsList only reads.
ListAccounts == UNCHANGED minimaxVars

-----------------------------------------------------------------------------
MiniMaxThread(t) ==
    \/ StopAllAgents(t)
    \/ AgentsEnded(t)
    \/ QueryAccounts(t)
    \/ CheckInstance(t)
    \/ LaunchAgent(t)

MiniMaxRequest(c) ==
    \/ Reload(c)
    \/ ReloadEnds(c)
    \/ CreateAccount(c)
    \/ GetAccount(c)
    \/ RestoreAccount(c)
    \/ RenameAccount(c)
    \/ SaveMetadata(c)
    \/ DeleteAccount(c)

\* What goes on by itself once begun.
MiniMaxSteps ==
    \/ \E t \in Threads : MiniMaxThread(t)
    \/ \E s \in Slots : AgentEnds(s)
    \/ \E r \in ManagerRuns : RunServes(r) \/ RunStops(r)
    \/ \E c \in AccountClients : MiniMaxRequest(c)

\* What the user and the registry begin.
MiniMaxOutside ==
    \/ \E r \in ManagerRuns : StartManager(r)
    \/ StopManager
    \/ \E c \in AccountClients : AskForAccount(c)
    \/ ListAccounts

MiniMaxNext == MiniMaxSteps \/ MiniMaxOutside

MiniMaxSpec == MiniMaxInit /\ [][MiniMaxNext]_minimaxVars /\ WF_minimaxVars(MiniMaxSteps)

-----------------------------------------------------------------------------
(* Properties *)

Underway(i) ==
    \E c \in AccountClients :
       threads[c].on = i /\ threads[c].at \notin {"none", "start", "launch"}

\* An agent that goes on polling is the only one of its account, and polls
\* with the key the account has, unless the request that changed the account
\* is still underway: a reload never leaves an agent that was started from
\* rows older than its own.  It needs that reloads exclude one another, that
\* the agents have ended before the rows are read, and that every change is
\* written before its reload.  It is about startAgentForAccount, which leaves
\* an account alone that has an agent.  It does not hold with Overlap, where
\* the run loads or stops the agents during a reload, nor after a change that
\* is answered by an error.
AgentsFollowAccounts ==
    \A s \in Slots : instances[s].live /\ ~AgentStops(instances[s]) =>
       LET i == instances[s].account IN
       /\ \A u \in Slots \ {s} :
             instances[u].live /\ instances[u].account = i => AgentStops(instances[u])
       /\ (Active(i) /\ instances[s].key = accounts[i].key) \/ Underway(i) \/ i \in seen.unloaded

\* Once the changes have been answered, an account with a key is polled with
\* that key as long as the manager runs (Reload, hot reload of accounts).
AccountIsPolled ==
    \A i \in AccountIds :
       <>[](\/ ~Active(i) \/ ContextDone(ctx) \/ i \in seen.unloaded
            \/ \E s \in Slots : /\ instances[s].live /\ ~AgentStops(instances[s])
                                /\ instances[s].account = i /\ instances[s].key = accounts[i].key)

\* False with Overlap: the load of the run and a reload each find no agent in
\* the map and start one, and the one that is overwritten is never cancelled.
OneAgentPerAccount ==
    \A s, u \in Slots :
       (/\ instances[s].live /\ ~AgentStops(instances[s])
        /\ instances[u].live /\ ~AgentStops(instances[u])
        /\ instances[s].account = instances[u].account) => s = u

\* False with Overlap: a reload waits for an agent that nobody cancels, and
\* keeps the lock, so that the accounts are never reloaded again.
ReloadIsAnswered == \A c \in AccountClients : []<>(threads[c].at # "wait")
=============================================================================
