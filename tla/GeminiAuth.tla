------------------------------ MODULE GeminiAuth ------------------------------
(***************************************************************************)
(* The authorisation half of internal/agent/gemini_agent.go: which access  *)
(* token a poll uses, and when the agent refreshes it, pauses and resumes. *)
(*                                                                         *)
(* A login gives a grant, the long-lived refresh token, which Google never *)
(* rotates.  A refresh gives an access token of the grant; access tokens   *)
(* are numbered as they are issued, and age in that order.  Credentials    *)
(* have three sources, merged field by field: the settings table before    *)
(* GEMINI_REFRESH_TOKEN before the file that the Gemini CLI writes too.    *)
(*                                                                         *)
(* An action is the code of poll between two calls to Google.  The poll    *)
(* after the fetch is in ProviderPolls.  The lookup of the tier, which     *)
(* changes none of this state, is left out.                                *)
(***************************************************************************)
EXTENDS Integers, Sequences

CONSTANTS
    MaxGeminiAuthFailures,  \* maxGeminiAuthFailures
    MaxGeminiTokens,        \* bound: access tokens issued in all
    MaxGeminiLogins,        \* bound: grants
    MaxGeminiFaults         \* bound: failed writes of the file or the table

ASSUME GeminiAssumption ==
    /\ MaxGeminiAuthFailures \in Nat \ {0}
    /\ MaxGeminiTokens \in Nat \ {0}
    /\ MaxGeminiLogins \in Nat \ {0}
    /\ MaxGeminiFaults \in Nat

VARIABLES
    gemini,     \* the agent's fields: lastToken, authFailCount and so on
    gpoll,      \* where the poll is, and the credentials it has read
    gtable,     \* the setting gemini_tokens
    gfile,      \* ~/.gemini/oauth_creds.json
    genv,       \* the grant in GEMINI_REFRESH_TOKEN
    google,     \* issued tokens with their grants, ages, revoked grants
    gallowed,   \* the auto_refresh_tokens setting
    ghistory    \* history: refusals since the last answer, failed writes

geminiVars == <<gemini, gpoll, gtable, gfile, genv, google, gallowed, ghistory>>

NoToken == 0
GeminiTokens == 1 .. MaxGeminiTokens
GeminiGrants == 1 .. MaxGeminiLogins
Credentials  == [access : {NoToken} \cup GeminiTokens, refresh : {NoToken} \cup GeminiGrants]
NoCredentials == [access |-> NoToken, refresh |-> NoToken]

GeminiTypeOK ==
    /\ gemini \in [last : {NoToken} \cup GeminiTokens, failed : {NoToken} \cup GeminiTokens,
                   fails : 0 .. MaxGeminiAuthFailures, paused : BOOLEAN]
    /\ gpoll \in [at : {"idle", "proactive", "fetch", "recovery", "retry"}, read : Credentials]
    /\ gtable \in Credentials
    /\ gfile \in Credentials
    /\ genv \in {NoToken} \cup GeminiGrants
    /\ google.issued \in Seq(GeminiGrants) /\ Len(google.issued) <= MaxGeminiTokens
    /\ google.dead <= google.soon /\ google.soon <= Len(google.issued)
    /\ google.revoked \subseteq GeminiGrants
    /\ google.grants \in GeminiGrants
    /\ gallowed \in BOOLEAN
    /\ ghistory \in [refusals : 0 .. MaxGeminiAuthFailures, faults : 0 .. MaxGeminiFaults]

NewGeminiAgent == [last |-> NoToken, failed |-> NoToken, fails |-> 0, paused |-> FALSE]
Between == [at |-> "idle", read |-> NoCredentials]

\* A workstation with the CLI's file, or a container with the variable.
GeminiInit ==
    /\ gemini = NewGeminiAgent
    /\ gpoll = Between
    /\ gtable = NoCredentials
    /\ \/ genv = NoToken /\ gfile = [access |-> 1, refresh |-> 1]
       \/ genv = 1 /\ gfile = NoCredentials
    /\ google = [issued |-> <<1>>, soon |-> 0, dead |-> 0, revoked |-> {}, grants |-> 1]
    /\ gallowed = TRUE
    /\ ghistory = [refusals |-> 0, faults |-> 0]

-----------------------------------------------------------------------------
(* Credentials *)

First(x, y) == IF x # NoToken THEN x ELSE y

\* detectGeminiCredentialsFromFile: without an access token there is no file.
FileCredentials == IF gfile.access = NoToken THEN NoCredentials ELSE gfile

\* A bug to detect: the refresh token of the file is preferred.
MergedFromFile ==
    [access  |-> First(gtable.access, FileCredentials.access),
     refresh |-> First(FileCredentials.refresh, First(genv, gtable.refresh))]

\* DetectGeminiCredentials and mergeGeminiCredentials.
Merged ==
    [access  |-> First(gtable.access, FileCredentials.access),
     refresh |-> First(gtable.refresh, First(genv, FileCredentials.refresh))]

\* The expiry is stored next to the access token, so it comes from its source.
ExpiringSoon(token) == token # NoToken /\ token <= google.soon

\* What Google says of a token and of a grant.
Valid(token) ==
    token # NoToken /\ token > google.dead /\ google.issued[token] \notin google.revoked
Refreshable(grant) == grant # NoToken /\ grant \notin google.revoked

Issue(grant) ==
    /\ Len(google.issued) < MaxGeminiTokens
    /\ google' = [google EXCEPT !.issued = Append(@, grant)]
NewToken == Len(google.issued) + 1

\* The end of a pause.
Unpaused(a) == [a EXCEPT !.paused = FALSE, !.fails = 0, !.failed = NoToken]

\* A bug to detect: the token is taken over and the pause is left on.
AdoptPaused(a, token) ==
    IF token \in {NoToken, a.last} THEN a ELSE [a EXCEPT !.last = token]

\* "Check if credentials changed on disk".
Adopt(a, token) ==
    IF token \in {NoToken, a.last} THEN a
    ELSE IF a.paused /\ token # a.failed THEN [Unpaused(a) EXCEPT !.last = token]
    ELSE [a EXCEPT !.last = token]

\* WriteGeminiCredentials keeps the refresh token of the file; saveTokensToDB
\* writes the pair.  Either may fail, and poll goes on.
SaveTokens(token, grant) ==
    \E fileOK, tableOK \in BOOLEAN :
       LET failures == (IF fileOK THEN 0 ELSE 1) + (IF tableOK THEN 0 ELSE 1)
       IN /\ ghistory.faults + failures <= MaxGeminiFaults
          /\ ghistory' = [ghistory EXCEPT !.faults = @ + failures]
          /\ gfile' = IF fileOK THEN [gfile EXCEPT !.access = token] ELSE gfile
          /\ gtable' = IF tableOK THEN [access |-> token, refresh |-> grant] ELSE gtable

-----------------------------------------------------------------------------
(* The poll *)

\* A paused agent ends the poll here.
ToFetch(a) == gpoll' = IF a.paused THEN Between ELSE [Between EXCEPT !.at = "fetch"]

ReadCredentials ==
    /\ gpoll.at = "idle"
    /\ ~(ExpiringSoon(Merged.access) /\ Merged.refresh # NoToken /\ gallowed)
    /\ gemini' = Adopt(gemini, Merged.access)
    /\ ToFetch(gemini')
    /\ UNCHANGED <<gtable, gfile, genv, google, gallowed, ghistory>>

BeginProactiveRefresh ==
    /\ gpoll.at = "idle"
    /\ ExpiringSoon(Merged.access) /\ Merged.refresh # NoToken /\ gallowed
    /\ gpoll' = [at |-> "proactive", read |-> Merged]
    /\ UNCHANGED <<gemini, gtable, gfile, genv, google, gallowed, ghistory>>

\* The new token is saved and installed and lifts the pause.  The credentials
\* read before the refresh are then compared with it, differ, and are installed
\* again: this poll fetches with the old token.
ProactivelyRefreshed ==
    /\ gpoll.at = "proactive"
    /\ Refreshable(gpoll.read.refresh)
    /\ Issue(gpoll.read.refresh)
    /\ SaveTokens(NewToken, gpoll.read.refresh)
    /\ LET refreshed == IF gemini.paused THEN Unpaused(gemini) ELSE gemini
       IN gemini' = Adopt([refreshed EXCEPT !.last = NewToken], gpoll.read.access)
    /\ ToFetch(gemini')
    /\ UNCHANGED <<genv, gallowed>>

ProactiveRefreshFails ==
    /\ gpoll.at = "proactive"
    /\ gemini' = Adopt(gemini, gpoll.read.access)
    /\ ToFetch(gemini')
    /\ UNCHANGED <<gtable, gfile, genv, google, gallowed, ghistory>>

\* The fetch, or the one after a recovery, is answered.
FetchAnswered ==
    /\ gpoll.at \in {"fetch", "retry"}
    /\ Valid(gemini.last)
    /\ gemini' = [gemini EXCEPT !.fails = 0]
    /\ gpoll' = Between
    /\ ghistory' = [ghistory EXCEPT !.refusals = 0]
    /\ UNCHANGED <<gtable, gfile, genv, google, gallowed>>

\* Another error than 401 and 403, or the end of the context.
FetchFails ==
    /\ gpoll.at \in {"fetch", "retry"}
    /\ gpoll' = Between
    /\ UNCHANGED <<gemini, gtable, gfile, genv, google, gallowed, ghistory>>

Refused(h) ==
    [h EXCEPT !.refusals = IF @ < MaxGeminiAuthFailures THEN @ + 1 ELSE @]

\* 401 or 403: refresh, unless the setting or a missing refresh token forbids.
FetchRefused ==
    /\ gpoll.at = "fetch"
    /\ ghistory' = Refused(ghistory)
    /\ gpoll' = IF gallowed /\ Merged.refresh # NoToken
                THEN [at |-> "recovery", read |-> Merged] ELSE Between
    /\ UNCHANGED <<gemini, gtable, gfile, genv, google, gallowed>>

Recovered ==
    /\ gpoll.at = "recovery"
    /\ Refreshable(gpoll.read.refresh)
    /\ Issue(gpoll.read.refresh)
    /\ SaveTokens(NewToken, gpoll.read.refresh)
    /\ gemini' = [gemini EXCEPT !.last = NewToken]
    /\ gpoll' = [Between EXCEPT !.at = "retry"]
    /\ UNCHANGED <<genv, gallowed>>

\* authFailCount++ and the pause at its limit.
CountFailure(a) ==
    [a EXCEPT !.fails = @ + 1, !.paused = @ \/ a.fails + 1 >= MaxGeminiAuthFailures]

\* The pause does not record the token it is about.
RecoveryFails ==
    /\ gpoll.at = "recovery"
    /\ gemini' = CountFailure(gemini)
    /\ gpoll' = Between
    /\ UNCHANGED <<gtable, gfile, genv, google, gallowed, ghistory>>

\* A bug to detect: a first refusal counts, although a refresh mends it.
RetryRefusedTwice ==
    /\ gpoll.at = "retry"
    /\ gemini' = CountFailure(CountFailure(gemini))
    /\ gpoll' = Between
    /\ UNCHANGED <<gtable, gfile, genv, google, gallowed, ghistory>>

RetryRefused ==
    /\ gpoll.at = "retry"
    /\ LET counted == CountFailure(gemini)
       IN gemini' = IF counted.fails >= MaxGeminiAuthFailures
                    THEN [counted EXCEPT !.failed = gemini.last] ELSE counted
    /\ gpoll' = Between
    /\ UNCHANGED <<gtable, gfile, genv, google, gallowed, ghistory>>

-----------------------------------------------------------------------------
(* Google, the CLI, the user and the service manager *)

TokensAge ==
    /\ \/ google.soon < Len(google.issued) /\ google' = [google EXCEPT !.soon = @ + 1]
       \/ google.dead < google.soon /\ google' = [google EXCEPT !.dead = @ + 1]
    /\ UNCHANGED <<gemini, gpoll, gtable, gfile, genv, gallowed, ghistory>>

RevokeGrant ==
    /\ google' = [google EXCEPT !.revoked = @ \cup {google.grants}]
    /\ google' # google
    /\ UNCHANGED <<gemini, gpoll, gtable, gfile, genv, gallowed, ghistory>>

\* The CLI writes both fields after a login, the access token after a refresh.
CLILogin ==
    /\ google.grants < MaxGeminiLogins
    /\ Len(google.issued) < MaxGeminiTokens
    /\ google' = [google EXCEPT !.grants = @ + 1, !.issued = Append(@, google.grants + 1)]
    /\ gfile' = [access |-> NewToken, refresh |-> google.grants + 1]
    /\ UNCHANGED <<gemini, gpoll, gtable, genv, gallowed, ghistory>>

CLIRefreshes ==
    /\ Refreshable(gfile.refresh)
    /\ Issue(gfile.refresh)
    /\ gfile' = [gfile EXCEPT !.access = NewToken]
    /\ UNCHANGED <<gemini, gpoll, gtable, genv, gallowed, ghistory>>

ToggleGeminiRefresh ==
    /\ gallowed' = ~gallowed
    /\ UNCHANGED <<gemini, gpoll, gtable, gfile, genv, google, ghistory>>

\* The file and the settings table survive, the agent does not.
RestartGemini ==
    /\ gemini' = NewGeminiAgent
    /\ gpoll' = Between
    /\ UNCHANGED <<gtable, gfile, genv, google, gallowed>>
    /\ ghistory' = [ghistory EXCEPT !.refusals = 0]

GeminiPoll ==
    \/ ReadCredentials
    \/ BeginProactiveRefresh \/ ProactivelyRefreshed \/ ProactiveRefreshFails
    \/ FetchAnswered \/ FetchFails \/ FetchRefused
    \/ Recovered \/ RecoveryFails \/ RetryRefused

GeminiOutside ==
    \/ TokensAge \/ RevokeGrant
    \/ CLILogin \/ CLIRefreshes \/ ToggleGeminiRefresh
    \/ RestartGemini

GeminiNext == GeminiPoll \/ GeminiOutside

\* The ticker starts the next poll and every call to Google has a timeout.
GeminiSpec == GeminiInit /\ [][GeminiNext]_geminiVars /\ WF_geminiVars(GeminiPoll)

-----------------------------------------------------------------------------
(* Properties *)

\* Polling pauses only after maxGeminiAuthFailures polls in which Google
\* refused a token, with no answered fetch among them: the counter is reset at
\* three places and counted at two, on both sides of the refresh.
PauseIsEarned == gemini.paused => ghistory.refusals >= MaxGeminiAuthFailures

\* The agent puts into the CLI's file an access token of another login than the
\* file's refresh token only while a source of higher priority hides the file
\* from it, or when the table could not be written.
ForeignTokenIsShadowed ==
    gfile.access # NoToken /\ gfile.refresh # NoToken
      /\ google.issued[gfile.access] # gfile.refresh
        => Merged.refresh # gfile.refresh \/ ghistory.faults > 0

\* Credentials that the agent can read and has not used lift the pause.
NewCredentialsResume ==
    gemini.paused /\ Merged.access \notin {NoToken, gemini.last, gemini.failed}
        ~> ~gemini.paused

\* docs/GEMINI_SETUP.md, after "Re-authenticate via the Gemini CLI": "onWatch
\* will automatically detect the new credentials and resume polling."
ReauthenticationResumes ==
    gemini.paused /\ gfile.access > gemini.last /\ google.issued[gfile.access] = google.grants
        ~> ~gemini.paused
=============================================================================
