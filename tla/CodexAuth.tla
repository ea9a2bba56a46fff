------------------------------ MODULE CodexAuth ------------------------------
(***************************************************************************)
(* The tokens of a Codex agent (internal/agent/codex_agent.go) and the     *)
(* stores it reads and writes: auth.json of Codex and of OpenCode for the   *)
(* default agent (internal/api/codex_credentials.go), the profile's file   *)
(* and auth.json for the agent of a profile                                *)
(* (internal/agent/codex_agent_manager.go).                                *)
(*                                                                         *)
(* A login or a refresh issues a pair of an access and a refresh token; a  *)
(* refresh token can be used once.  The age of a pair says how far it has  *)
(* come: 1 is when the ID token that came with it is about to expire, 2    *)
(* when the access token is, and 3 when the access token has expired.  A   *)
(* profile goes by the ID token, the auth stores by the access token.       *)
(***************************************************************************)
EXTENDS Integers, Sequences

CONSTANTS
    MaxCodexAuthFailures,   \* maxCodexAuthFailures
    MaxPairs,               \* bound: pairs, beyond which nobody logs in and none ages
    MaxCodexFaults          \* bound: calls that fail and answers that get lost

ASSUME CodexAuthAssumption ==
    /\ MaxCodexAuthFailures \in Nat \ {0}
    /\ MaxPairs \in Nat \ {0} /\ MaxCodexFaults \in Nat

VARIABLES
    role,       \* the agent: "default", or that of a profile, "named"
    pairs,      \* the pairs issued: account, age, whether refreshed
    stores,     \* the pair in each file, or 0, and the account_id next to it
    codex,      \* the agent
    refreshed   \* history: the pair that the agent got and saved last, or 0

codexVars == <<role, pairs, stores, codex, refreshed>>

Own == 1        \* the account of the profile
CodexAccounts == {Own, 2}
NoFile == [pair |-> 0, account |-> 0]
File(n, account) == [pair |-> n, account |-> account]
Issued(account) == [account |-> account, age |-> 0, spent |-> FALSE]

CodexInit ==
    /\ role \in {"default", "named"}
    /\ pairs = <<Issued(Own)>>
    /\ \E source \in {"codex", "opencode"} :
          stores = [codex    |-> IF source = "codex" THEN File(1, Own) ELSE NoFile,
                   opencode |-> IF source = "opencode" THEN File(1, Own) ELSE NoFile,
                   profile  |-> IF role = "named" THEN File(1, Own) ELSE NoFile]
    /\ codex = [at |-> "idle", creds |-> 0, token |-> 1, last |-> 0, paused |-> FALSE,
                failed |-> 0, auth |-> 0, proactive |-> 0, faults |-> 0]
    /\ refreshed = 0

Age(n) == pairs[n].age

-----------------------------------------------------------------------------
(* Reading and writing credentials *)

\* DetectCodexCredentials: OpenCode's file counts only without Codex's.
Source == IF stores.codex # NoFile THEN "codex" ELSE "opencode"
DetectCodexCredentials == stores[Source]

\* A bug to detect: the account is not compared.
UseAnySystemCreds(system) == system # NoFile

\* For a profile: of the same account.  That the tokens differ, or that an
\* access token outlives its own ID token, is enough besides: whether the
\* profile's tokens are the newer ones is not asked.
ShouldUseSystemCreds(system) == system # NoFile /\ system.account = stores.profile.account

\* A profile's tokens that are about to expire, by the ID token, are replaced
\* by the system's.
FromSystem ==
    /\ role = "named" /\ Age(stores.profile.pair) >= 1
    /\ ShouldUseSystemCreds(DetectCodexCredentials)

Consulted ==
    IF FromSystem THEN [stores EXCEPT !.profile.pair = DetectCodexCredentials.pair] ELSE stores
CodexCredentials == IF role = "named" THEN Consulted.profile.pair ELSE DetectCodexCredentials.pair
IsExpiringSoon == Age(CodexCredentials) >= (IF role = "named" /\ ~FromSystem THEN 1 ELSE 2)

\* The default agent writes to the source it finds when it writes.  The
\* account_id of the file stays.
SavedFiles(n) ==
    IF role = "named" THEN [stores EXCEPT !.profile.pair = n]
    ELSE [stores EXCEPT ![Source].pair = n]

-----------------------------------------------------------------------------
(* A poll *)

Paused(c, n) == [c EXCEPT !.paused = TRUE, !.failed = n]
Resumed(c) == [c EXCEPT !.paused = FALSE, !.auth = 0, !.failed = 0]
Fault(c) == [c EXCEPT !.faults = @ + 1]
MayFail == codex.faults < MaxCodexFaults

\* The start of a poll: tokens that expire soon are refreshed, if it is allowed.
BeginPoll ==
    /\ codex.at = "idle"
    /\ stores' = Consulted
    /\ codex' = [codex EXCEPT !.creds = CodexCredentials,
                              !.at = IF IsExpiringSoon THEN "refresh" ELSE "read"]
    /\ UNCHANGED <<role, pairs, refreshed>>

RefreshDisabled ==
    /\ codex.at = "refresh"
    /\ codex' = [codex EXCEPT !.at = "read"]
    /\ UNCHANGED <<role, pairs, stores, refreshed>>

\* RefreshCodexToken.  The new pair is in use only once it is saved.
RefreshSucceeds ==
    /\ codex.at = "refresh" /\ ~pairs[codex.creds].spent
    /\ LET n == Len(pairs) + 1
           c == [codex EXCEPT !.at = "read", !.proactive = 0]
           installed == [c EXCEPT !.token = n, !.last = n]
       IN /\ pairs' = Append([pairs EXCEPT ![codex.creds].spent = TRUE],
                             Issued(pairs[codex.creds].account))
          /\ \/ /\ stores' = SavedFiles(n)
                /\ codex' = IF c.paused THEN Resumed(installed) ELSE installed
                /\ refreshed' = n
             \/ /\ MayFail /\ codex' = Fault(c)
                /\ UNCHANGED <<stores, refreshed>>
    /\ UNCHANGED role

RefreshReused ==
    /\ codex.at = "refresh" /\ pairs[codex.creds].spent
    /\ codex' = [Paused(codex, codex.creds) EXCEPT !.at = "read"]
    /\ UNCHANGED <<role, pairs, stores, refreshed>>

\* The call fails, or only its answer is lost.
RefreshFails ==
    /\ codex.at = "refresh" /\ MayFail
    /\ LET failures == codex.proactive + 1
           c == [Fault(codex) EXCEPT !.at = "read", !.proactive = failures]
       IN codex' = IF failures >= MaxCodexAuthFailures THEN Paused(c, codex.creds) ELSE c
    /\ \E lost \in BOOLEAN : pairs' = [pairs EXCEPT ![codex.creds].spent = @ \/ lost]
    /\ UNCHANGED <<role, stores, refreshed>>

\* A bug to detect: only a successful refresh lifts a pause.
TokenRefreshKeepsPause(c, n) == [c EXCEPT !.token = n, !.last = n]

\* The token is read again; new credentials lift a pause.
TokenRefresh(c, n) ==
    LET installed == [c EXCEPT !.token = n, !.last = n]
    IN IF n = c.last THEN c
       ELSE IF c.paused /\ n # c.failed THEN Resumed(installed) ELSE installed

ReadToken ==
    /\ codex.at = "read"
    /\ stores' = Consulted
    /\ LET c == TokenRefresh(codex, CodexCredentials)
       IN codex' = [c EXCEPT !.at = IF c.paused THEN "idle" ELSE "fetch", !.creds = 0]
    /\ UNCHANGED <<role, pairs, refreshed>>

\* FetchUsage, and once more after an authorisation error.
Fetch ==
    /\ codex.at = "fetch"
    /\ \/ Age(codex.token) < 3 /\ codex' = [codex EXCEPT !.at = "idle", !.auth = 0]
       \/ Age(codex.token) = 3 /\ codex' = [codex EXCEPT !.at = "retry"]
       \/ MayFail /\ codex' = [Fault(codex) EXCEPT !.at = "idle"]
    /\ UNCHANGED <<role, pairs, stores, refreshed>>

RetryFetch ==
    /\ codex.at = "retry"
    /\ stores' = Consulted
    /\ LET n == CodexCredentials
           c == [codex EXCEPT !.at = "idle", !.token = n, !.last = n]
           failed == [c EXCEPT !.auth = @ + 1]
       IN \/ Age(n) < 3 /\ codex' = [c EXCEPT !.auth = 0]
          \/ /\ Age(n) = 3
             /\ codex' = IF failed.auth >= MaxCodexAuthFailures THEN Paused(failed, n) ELSE failed
          \/ MayFail /\ codex' = Fault(c)
    /\ UNCHANGED <<role, pairs, refreshed>>

-----------------------------------------------------------------------------
(* Outside the agent *)

\* The user logs in with Codex or OpenCode.
Login(source, account) ==
    /\ Len(pairs) < MaxPairs
    /\ pairs' = Append(pairs, Issued(account))
    /\ stores' = [stores EXCEPT ![source] = File(Len(pairs) + 1, account)]
    /\ UNCHANGED <<role, codex, refreshed>>

\* Codex or OpenCode refreshes its own tokens.
ProgramRefreshes(source) ==
    /\ stores[source] # NoFile /\ ~pairs[stores[source].pair].spent /\ Len(pairs) < MaxPairs
    /\ LET n == stores[source].pair
       IN pairs' = Append([pairs EXCEPT ![n].spent = TRUE], Issued(pairs[n].account))
    /\ stores' = [stores EXCEPT ![source].pair = Len(pairs) + 1]
    /\ UNCHANGED <<role, codex, refreshed>>

\* Time passes; what was issued first ages first.
Expire(n) ==
    /\ Len(pairs) < MaxPairs /\ Age(n) < 3 /\ \A m \in 1 .. n - 1 : Age(m) > Age(n)
    /\ pairs' = [pairs EXCEPT ![n].age = @ + 1]
    /\ UNCHANGED <<role, stores, codex, refreshed>>

CodexSteps ==
    \/ BeginPoll \/ RefreshSucceeds \/ RefreshReused \/ RefreshFails
    \/ ReadToken \/ Fetch \/ RetryFetch

CodexOutside ==
    \/ RefreshDisabled
    \/ \E source \in {"codex", "opencode"} :
          ProgramRefreshes(source) \/ \E account \in CodexAccounts : Login(source, account)
    \/ \E n \in DOMAIN pairs : Expire(n)

CodexNext == CodexSteps \/ CodexOutside

\* The ticker starts the next poll and every call has a timeout.
CodexSpec == CodexInit /\ [][CodexNext]_codexVars /\ WF_codexVars(CodexSteps)

-----------------------------------------------------------------------------
(* Properties *)

CodexTypeOK ==
    /\ role \in {"default", "named"}
    /\ pairs \in Seq([account : CodexAccounts, age : 0 .. 3, spent : BOOLEAN])
    /\ \A name \in DOMAIN stores : stores[name] = NoFile \/ stores[name].pair \in DOMAIN pairs
    /\ codex.at \in {"idle", "refresh", "read", "fetch", "retry"}
    /\ codex.token \in DOMAIN pairs /\ {codex.creds, codex.failed} \subseteq 0 .. Len(pairs)

\* The agent of a profile uses, and keeps in its file, tokens of the account of
\* the profile only, whoever logs in on the machine and whenever.
ProfileUsesOwnAccount ==
    role = "named" => \A n \in {codex.token, stores.profile.pair} : pairs[n].account = Own

\* Whatever has happened to an agent, it is not paused for good beside
\* credentials that nobody has refused yet: those of a new login, or those that
\* Codex has refreshed itself.
CodexLoginResumes ==
    <>[](Age(CodexCredentials) = 0 /\ ~pairs[CodexCredentials].spent => ~codex.paused)

\* The refresh token that the agent got and saved to its profile is not given up
\* for a used one while it is good.  False: as soon as its ID token is about to
\* expire, the file gets the tokens of auth.json, if they were used or not.
RefreshedPairIsKept ==
    [][role = "named" /\ stores.profile.pair = refreshed /\ refreshed # 0 =>
          \/ stores'.profile.pair = refreshed
          \/ pairs[refreshed].spent
          \/ ~pairs[stores'.profile.pair].spent
      ]_codexVars
=============================================================================
