------------------------------ MODULE CursorAuth ------------------------------
(***************************************************************************)
(* The authorisation half of internal/agent/cursor_agent.go, and the two   *)
(* stores it shares with the Cursor editor (the SQLite file state.vscdb)   *)
(* and the Cursor CLI (the keychain or the Linux keyring).                 *)
(*                                                                         *)
(* Access tokens are numbered as Cursor issues them and age in that order. *)
(* A refresh answers with an access token and, when it rotates, with a new *)
(* refresh token of the same number; the refresh token presented is then   *)
(* spent.  A store keeps the two in separate entries.                      *)
(*                                                                         *)
(* An action is the code of poll between two calls to Cursor.              *)
(***************************************************************************)
EXTENDS Integers, Sequences

CONSTANTS
    CursorMaxAuthFailures,  \* cursorMaxAuthFailures
    MaxCursorTokens,        \* bound: access tokens issued in all
    MaxCursorFaults         \* bound: failed writes and lost answers

ASSUME CursorAssumption ==
    /\ CursorMaxAuthFailures \in Nat \ {0}
    /\ MaxCursorTokens \in Nat \ {0}
    /\ MaxCursorFaults \in Nat

VARIABLES
    cursor,     \* the agent's fields and the client's token
    cpoll,      \* where the poll is, and the refresh token it presents
    csqlite,    \* state.vscdb
    ckeyring,   \* the keychain or keyring
    cserver,    \* the owners of the issued tokens, their ages, spent refresh tokens
    callowed,   \* the auto_refresh_tokens setting
    chistory    \* whether there is a keyring; history: faults, rotations by others

cursorVars == <<cursor, cpoll, csqlite, ckeyring, cserver, callowed, chistory>>

Absent == 0
CursorTokens == 0 .. MaxCursorTokens
CursorPair   == [access : CursorTokens, refresh : CursorTokens]
Accounts     == {"free", "paid"}

CursorTypeOK ==
    /\ cursor \in [client : CursorTokens, last : CursorTokens, failed : CursorTokens,
                   fails : 0 .. CursorMaxAuthFailures, paused : BOOLEAN]
    /\ cpoll \in [at : {"idle", "refresh", "fetch", "recover", "refetch"},
                  refresh : CursorTokens]
    /\ csqlite \in CursorPair
    /\ ckeyring \in CursorPair
    /\ cserver.owners \in Seq(Accounts) /\ Len(cserver.owners) <= MaxCursorTokens
    /\ cserver.dead <= cserver.soon /\ cserver.soon <= Len(cserver.owners)
    /\ cserver.spent \subseteq 1 .. Len(cserver.owners)
    /\ callowed \in BOOLEAN
    /\ chistory \in [keyring : BOOLEAN, faults : 0 .. MaxCursorFaults, rotated : BOOLEAN]

IsPresent(pair) == pair.access # Absent \/ pair.refresh # Absent

\* The token of the client is read at the start of the process.
NewCursorAgent(token) ==
    [client |-> token, last |-> Absent, failed |-> Absent, fails |-> 0, paused |-> FALSE]
CursorIdle == [at |-> "idle", refresh |-> Absent]

\* The user has logged in to the editor or to the CLI.
CursorInit ==
    /\ \E pair \in [1 .. 2 -> BOOLEAN] :
          /\ csqlite = [access |-> IF pair[1] THEN 1 ELSE 0, refresh |-> IF pair[1] THEN 1 ELSE 0]
          /\ ckeyring = [access |-> IF pair[2] THEN 1 ELSE 0, refresh |-> IF pair[2] THEN 1 ELSE 0]
          /\ pair[1] \/ pair[2]
    /\ cserver = [owners |-> <<"paid">>, soon |-> 0, dead |-> 0, spent |-> {}]
    /\ cursor = NewCursorAgent(1)
    /\ cpoll = CursorIdle
    /\ callowed = TRUE
    /\ \E keyring \in BOOLEAN :
          /\ IsPresent(ckeyring) => keyring
          /\ chistory = [keyring |-> keyring, faults |-> 0, rotated |-> FALSE]

-----------------------------------------------------------------------------
(* The stores *)

OwnerOf(token) == IF token = Absent THEN "nobody" ELSE cserver.owners[token]

\* stripeMembershipType is the editor's: of the account it is logged in to.
DifferentSubjects ==
    /\ csqlite.access # Absent /\ ckeyring.access # Absent
    /\ OwnerOf(csqlite.access) # OwnerOf(ckeyring.access)

\* detectCursorAuthPlatform
StoredPair ==
    IF ~IsPresent(csqlite) THEN ckeyring
    ELSE IF IsPresent(ckeyring) /\ OwnerOf(csqlite.access) = "free" /\ DifferentSubjects
         THEN ckeyring
    ELSE csqlite

\* NeedsCursorRefresh
NeedsRefresh(pair) == pair.access = Absent \/ pair.access <= cserver.soon
MayRefresh(pair) == NeedsRefresh(pair) /\ pair.refresh # Absent

\* The entries of one store after a write: none, either or both arrived.  An
\* empty refresh token is not written.
Written(pair, access, refresh) ==
    { [access  |-> IF a THEN access ELSE pair.access,
       refresh |-> IF r /\ refresh # Absent THEN refresh ELSE pair.refresh] :
          a, r \in BOOLEAN }
Whole(pair, access, refresh) ==
    [access |-> access, refresh |-> IF refresh # Absent THEN refresh ELSE pair.refresh]

\* writeCursorCredentials writes state.vscdb when it exists and the keyring,
\* and is content when each of the two tokens arrived in one of them.
Saved(access, refresh) ==
    /\ csqlite'.access = access \/ ckeyring'.access = access
    /\ refresh = Absent \/ csqlite'.refresh = refresh \/ ckeyring'.refresh = refresh

SaveCursorTokens(access, refresh) ==
    \E s \in Written(csqlite, access, refresh), k \in Written(ckeyring, access, refresh) :
       LET complete == /\ chistory.keyring => k = Whole(ckeyring, access, refresh)
                       /\ IsPresent(csqlite) => s = Whole(csqlite, access, refresh)
       IN /\ csqlite' = IF IsPresent(csqlite) THEN s ELSE csqlite
          /\ ckeyring' = IF chistory.keyring THEN k ELSE ckeyring
          /\ complete \/ chistory.faults < MaxCursorFaults
          /\ chistory' = IF complete THEN chistory ELSE [chistory EXCEPT !.faults = @ + 1]

-----------------------------------------------------------------------------
(* The poll *)

\* A bug to detect: only a token that was not used before ends the pause.
LiftedIfNew(a) ==
    IF a.paused /\ StoredPair.access \notin {Absent, a.last}
    THEN [a EXCEPT !.paused = FALSE, !.fails = 0, !.client = StoredPair.access]
    ELSE a

\* The pause ends when a token is stored that has not failed.
Lifted(a) ==
    IF a.paused /\ StoredPair.access \notin {Absent, a.failed}
    THEN [a EXCEPT !.paused = FALSE, !.fails = 0, !.client = StoredPair.access]
    ELSE a

\* The stored token is taken over when it is new and has not failed.
TakenOver(a, token) ==
    IF token \notin {Absent, a.failed, a.last}
    THEN [a EXCEPT !.client = token, !.last = token]
    ELSE a

\* A paused agent whose token is unchanged ends the poll.
BeginCursorPoll ==
    /\ cpoll.at = "idle"
    /\ LET lifted == Lifted(cursor)
           refresh == MayRefresh(StoredPair) /\ callowed
       IN /\ ~lifted.paused
          /\ cursor' = IF refresh THEN lifted ELSE TakenOver(lifted, StoredPair.access)
          /\ cpoll' = IF refresh THEN [at |-> "refresh", refresh |-> StoredPair.refresh]
                                 ELSE [CursorIdle EXCEPT !.at = "fetch"]
    /\ UNCHANGED <<csqlite, ckeyring, cserver, callowed, chistory>>

\* Cursor answers with a token and may rotate the refresh token.
CursorIssues(rotate) ==
    /\ Len(cserver.owners) < MaxCursorTokens
    /\ cpoll.refresh \notin cserver.spent
    /\ cserver' = [cserver EXCEPT
                      !.owners = Append(@, OwnerOf(cpoll.refresh)),
                      !.spent = IF rotate THEN @ \cup {cpoll.refresh} ELSE @]

\* A bug to detect: the refresh token of the answer is dropped.
CursorRefreshedHalf ==
    /\ cpoll.at \in {"refresh", "recover"}
    /\ \E rotate \in BOOLEAN :
          LET access == Len(cserver.owners) + 1
          IN /\ CursorIssues(rotate)
             /\ SaveCursorTokens(access, Absent)
             /\ cursor' = [cursor EXCEPT !.client = access, !.last = access, !.failed = Absent]
             /\ cpoll' = [CursorIdle EXCEPT !.at = IF cpoll.at = "refresh" THEN "fetch" ELSE "refetch"]
    /\ UNCHANGED callowed

\* A failed refresh goes on with the stored token before the poll, and pauses
\* after the last auth failure allowed.
RefreshGivesUp(a) ==
    IF cpoll.at = "refresh"
    THEN cursor' = TakenOver(a, StoredPair'.access) /\ cpoll' = [CursorIdle EXCEPT !.at = "fetch"]
    ELSE cursor' = [a EXCEPT !.paused = TRUE] /\ cpoll' = CursorIdle

\* refreshToken and applyRefreshedCredentials: the answer is installed when it
\* could be saved, and thrown away otherwise.
CursorRefreshed ==
    /\ cpoll.at \in {"refresh", "recover"}
    /\ \E rotate \in BOOLEAN :
          LET access  == Len(cserver.owners) + 1
              refresh == IF rotate THEN access ELSE Absent
          IN /\ CursorIssues(rotate)
             /\ SaveCursorTokens(access, refresh)
             /\ IF Saved(access, refresh)
                THEN /\ cursor' = [cursor EXCEPT !.client = access, !.last = access,
                                                 !.failed = Absent]
                     /\ cpoll' = [CursorIdle EXCEPT !.at =
                                     IF cpoll.at = "refresh" THEN "fetch" ELSE "refetch"]
                ELSE RefreshGivesUp(cursor)
    /\ UNCHANGED callowed

\* A network error, or an HTTP error; the answer of a rotation may be lost.
CursorRefreshFails ==
    /\ cpoll.at \in {"refresh", "recover"}
    /\ \/ UNCHANGED <<cserver, chistory>>
       \/ /\ CursorIssues(TRUE)
          /\ chistory.faults < MaxCursorFaults
          /\ chistory' = [chistory EXCEPT !.faults = @ + 1]
    /\ UNCHANGED <<csqlite, ckeyring, callowed>>
    /\ RefreshGivesUp(cursor)

\* ShouldLogout pauses, and the poll goes on all the same.
SessionExpired ==
    /\ cpoll.at \in {"refresh", "recover"}
    /\ UNCHANGED <<csqlite, ckeyring, cserver, callowed, chistory>>
    /\ RefreshGivesUp([cursor EXCEPT !.paused = TRUE])

CursorAnswers ==
    /\ cpoll.at \in {"fetch", "refetch"}
    /\ cursor.client > cserver.dead
    /\ cursor' = [cursor EXCEPT !.fails = 0, !.paused = FALSE]
    /\ cpoll' = CursorIdle
    /\ UNCHANGED <<csqlite, ckeyring, cserver, callowed, chistory>>

\* 401 or 403.
CursorRefuses ==
    /\ cpoll.at = "fetch"
    /\ LET counted == [cursor EXCEPT !.fails = @ + 1, !.failed = cursor.client]
           last    == counted.fails >= CursorMaxAuthFailures
           recover == last /\ callowed /\ StoredPair.refresh # Absent
       IN /\ cursor' = IF last /\ ~recover THEN [counted EXCEPT !.paused = TRUE] ELSE counted
          /\ cpoll' = IF recover THEN [at |-> "recover", refresh |-> StoredPair.refresh]
                                 ELSE CursorIdle
    /\ UNCHANGED <<csqlite, ckeyring, cserver, callowed, chistory>>

\* The fetch after the recovery fails in any way.
RefetchFails ==
    /\ cpoll.at = "refetch"
    /\ cursor' = [cursor EXCEPT !.paused = TRUE]
    /\ cpoll' = CursorIdle
    /\ UNCHANGED <<csqlite, ckeyring, cserver, callowed, chistory>>

CursorFetchFails ==
    /\ cpoll.at = "fetch"
    /\ cpoll' = CursorIdle
    /\ UNCHANGED <<cursor, csqlite, ckeyring, cserver, callowed, chistory>>

-----------------------------------------------------------------------------
(* The editor, the CLI, time and the service manager *)

CursorTokensAge ==
    /\ \/ cserver.soon < Len(cserver.owners) /\ cserver' = [cserver EXCEPT !.soon = @ + 1]
       \/ cserver.dead < cserver.soon /\ cserver' = [cserver EXCEPT !.dead = @ + 1]
    /\ UNCHANGED <<cursor, cpoll, csqlite, ckeyring, callowed, chistory>>

\* The user logs in to the editor or the CLI with one of two accounts.
CursorLogin ==
    /\ Len(cserver.owners) < MaxCursorTokens
    /\ LET n == Len(cserver.owners) + 1
           new == [access |-> n, refresh |-> n]
       IN /\ \E account \in Accounts :
                cserver' = [cserver EXCEPT !.owners = Append(@, account)]
          /\ \/ csqlite' = new /\ UNCHANGED ckeyring
             \/ chistory.keyring /\ ckeyring' = new /\ UNCHANGED csqlite
    /\ UNCHANGED <<cursor, cpoll, callowed, chistory>>

\* The editor or the CLI rotates the pair of its own store.
ToolRotates ==
    /\ Len(cserver.owners) < MaxCursorTokens
    /\ LET n == Len(cserver.owners) + 1
           new == [access |-> n, refresh |-> n]
           rotate(pair) ==
               /\ pair.refresh \notin cserver.spent \cup {Absent}
               /\ cserver' = [cserver EXCEPT !.owners = Append(@, OwnerOf(pair.refresh)),
                                             !.spent = @ \cup {pair.refresh}]
       IN \/ rotate(csqlite) /\ csqlite' = new /\ UNCHANGED ckeyring
          \/ rotate(ckeyring) /\ ckeyring' = new /\ UNCHANGED csqlite
    /\ chistory' = [chistory EXCEPT !.rotated = TRUE]
    /\ UNCHANGED <<cursor, cpoll, callowed>>

ToggleCursorRefresh ==
    /\ callowed' = ~callowed
    /\ UNCHANGED <<cursor, cpoll, csqlite, ckeyring, cserver, chistory>>

RestartCursor ==
    /\ cursor' = NewCursorAgent(StoredPair.access)
    /\ cpoll' = CursorIdle
    /\ UNCHANGED <<csqlite, ckeyring, cserver, callowed, chistory>>

CursorPoll ==
    \/ BeginCursorPoll
    \/ CursorRefreshed \/ CursorRefreshFails \/ SessionExpired
    \/ CursorAnswers \/ CursorRefuses \/ RefetchFails \/ CursorFetchFails

CursorOutside ==
    \/ CursorTokensAge
    \/ CursorLogin \/ ToolRotates \/ ToggleCursorRefresh
    \/ RestartCursor

CursorNext == CursorPoll \/ CursorOutside

\* The ticker starts the next poll and every call to Cursor has a timeout.
CursorSpec == CursorInit /\ [][CursorNext]_cursorVars /\ WF_cursorVars(CursorPoll)

-----------------------------------------------------------------------------
(* Properties *)

\* The refresh token that the agent would present next is not spent, unless a
\* write failed, an answer was lost or another program rotated a pair: each
\* refresh token is presented once although two stores hold copies of it.
StoredRefreshIsUnspent ==
    StoredPair.refresh \in cserver.spent => chistory.faults > 0 \/ chistory.rotated

\* A pause does not outlast the storing of a token that has not failed: the
\* agent resumes, or it has tried the stored token and that failed as well.
CursorResumes ==
    cursor.paused /\ StoredPair.access \notin {Absent, cursor.failed}
        ~> ~cursor.paused \/ StoredPair.access = cursor.failed
=============================================================================
