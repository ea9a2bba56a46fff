--------------------------- MODULE AnthropicAuth ---------------------------
(***************************************************************************)
(* How the Anthropic agent keeps itself authorised: the poll of            *)
(* internal/agent/anthropic_agent.go from its first line to the line that  *)
(* stores a snapshot, with the OAuth refresh of internal/api and the       *)
(* credential stores that Claude Code and the user write as well.          *)
(*                                                                         *)
(* A token pair is an access token and its one-time refresh token.  Pairs  *)
(* are numbered in the order in which the OAuth server issues them, so a   *)
(* pair stands for its access token too and "older" is "smaller".          *)
(*                                                                         *)
(* An action is the code of poll between two points where the outside      *)
(* world is asked: the credential store, the OAuth endpoint, the usage     *)
(* API.  What these answer is the environment's choice.  The deadlines     *)
(* authRetryAt and rateLimitResumeAt count down in units of time.          *)
(* A poll that pollingCheck or a failing snapshot insert ends changes none *)
(* of this state and is a stuttering step.                                 *)
(***************************************************************************)
EXTENDS Integers

CONSTANTS
    HasKeyring,        \* an OS keyring, read before the credentials file
    MaxPairs,          \* bound: pairs the OAuth server issues in all
    MaxAuthFailures,   \* maxAuthFailures
    MaxOAuthFailures,  \* maxRateLimitFailures
    OAuthFailBound,    \* bound: values of rateLimitFailCount
    AuthBase,          \* authPausedRetryInterval
    AuthMax,           \* authPausedRetryMaxInterval
    AttemptCap,        \* an attempt from which the retry delay is AuthMax
    OAuthBase,         \* rateLimitBaseBackoff
    OAuthMax,          \* rateLimitMaxBackoff, and the longest Retry-After
    RetryAfters,       \* Retry-After values of the OAuth server
    ApiPollCycle       \* apiPollCycleInterval

ASSUME AuthAssumption ==
    /\ HasKeyring \in BOOLEAN
    /\ MaxPairs \in Nat \ {0}
    /\ MaxAuthFailures \in Nat \ {0}
    /\ MaxOAuthFailures \in Nat \ {0}
    /\ OAuthFailBound \in Nat \ {0}
    /\ AuthBase \in Nat \ {0} /\ AuthMax \in Nat \ {0} /\ AttemptCap \in Nat \ {0}
    /\ OAuthBase \in Nat \ {0} /\ OAuthMax \in Nat \ {0}
    /\ RetryAfters \subseteq 1 .. OAuthMax
    /\ ApiPollCycle \in Nat \ {0}

VARIABLES
    pc, why,        \* where the poll is, and on whose behalf
    held,           \* creds: the pair it has read in order to refresh it
    fresh,          \* newTokens: the pair the OAuth server answered with
    retryToken,     \* the token of the forced re-read
    lastToken,      \* lastToken, which is also the client's
    superseded,     \* supersededToken
    auth,           \* the auth failure and pause fields
    oauth,          \* the OAuth rate limit fields
    cycle,          \* pollCycleCount modulo ApiPollCycle
    file, keyring,  \* the credentials on disk and in the keyring
    minted, spent,  \* the OAuth server: pairs issued, refresh tokens used
    cc,             \* Claude Code is running
    allowed,        \* the auto_refresh_tokens setting
    lost            \* history: spent pairs whose successor nobody holds

memory  == <<pc, why, held, fresh, retryToken, lastToken, superseded, auth, oauth, cycle>>
world   == <<file, keyring, minted, spent, cc, allowed, lost>>
vars    == <<memory, world>>

None       == 0
NoDeadline == -1
Pairs      == 1 .. MaxPairs
PairOrNone == 0 .. MaxPairs

\* The points of a poll: between two polls, before the proactive refresh,
\* inside RefreshAnthropicToken, inside applyRefreshedTokens, before the
\* credential re-read, before the pause check, inside FetchQuotas.
Points == {"idle", "proactive", "refresh", "save", "reread", "gate", "fetch"}

\* A refresh and its save are made before the poll, to bypass a 429, to recover
\* from auth failures, or to leave the pause.  A fetch is the first one of the
\* poll, the retry after the forced re-read, the retry of the 429 bypass, or
\* the one after the recovery.
Reasons == {"none", "proactive", "bypass", "recovery", "retry",
            "first", "forced", "bypassed", "recovered"}

Auth  == [failCount   : 0 .. MaxAuthFailures,
          paused      : BOOLEAN,
          failedToken : PairOrNone,
          retryIn     : NoDeadline .. AuthMax,
          retryCount  : 0 .. AttemptCap]
OAuth == [failCount : 0 .. OAuthFailBound, paused : BOOLEAN, resumeIn : 0 .. OAuthMax]

TypeOK ==
    /\ pc \in Points
    /\ why \in Reasons
    /\ held \in PairOrNone
    /\ fresh \in PairOrNone
    /\ retryToken \in PairOrNone
    /\ lastToken \in PairOrNone
    /\ superseded \in PairOrNone
    /\ auth \in Auth
    /\ oauth \in OAuth
    /\ cycle \in 0 .. (ApiPollCycle - 1)
    /\ file \in PairOrNone
    /\ keyring \in PairOrNone
    /\ minted \in Pairs
    /\ spent \subseteq Pairs
    /\ lost \subseteq Pairs
    /\ cc \in BOOLEAN
    /\ allowed \in BOOLEAN

\* resumeAuth: the auth fields once the credentials are known good.
Resumed == [failCount |-> 0, paused |-> FALSE, failedToken |-> None,
            retryIn |-> NoDeadline, retryCount |-> 0]
NoBackoff == [failCount |-> 0, paused |-> FALSE, resumeIn |-> 0]

Fresh ==
    /\ pc = "idle" /\ why = "none"
    /\ held = None /\ fresh = None /\ retryToken = None
    /\ lastToken = None /\ superseded = None
    /\ auth = Resumed
    /\ oauth = NoBackoff
    /\ cycle = 0

\* The user has logged in once.  On macOS Claude Code keeps no file.
Init ==
    /\ Fresh
    /\ keyring = (IF HasKeyring THEN 1 ELSE None)
    /\ file \in (IF HasKeyring THEN {None, 1} ELSE {1})
    /\ minted = 1
    /\ spent = {}
    /\ cc \in BOOLEAN
    /\ allowed = TRUE
    /\ lost = {}

-----------------------------------------------------------------------------
(* The helpers of the agent *)

\* What DetectAnthropicToken and DetectAnthropicCredentials read.
Stored == IF keyring # None THEN keyring ELSE file

PowersOfTwo == <<1, 2, 4, 8, 16, 32, 64, 128, 256, 512, 1024>>
Shift(n) == IF n - 1 > 10 THEN 10 ELSE n - 1

\* A bug to detect: the doubling is not capped.
UncappedBackoff(base, cap, n) ==
    IF n = 0 THEN base ELSE base * PowersOfTwo[Shift(n) + 1]

\* rateLimitBackoff and authRetryBackoff: base doubled n - 1 times, at most cap.
Backoff(base, cap, n) ==
    LET doubled == base * PowersOfTwo[Shift(n) + 1]
        wanted  == IF n = 0 THEN base ELSE doubled
    IN IF wanted > cap THEN cap ELSE wanted

\* A bug to detect: the pause has no deadline for a recovery attempt.
PauseWithoutDeadline(a, token) ==
    [a EXCEPT !.paused = TRUE, !.failedToken = token]

\* pauseAuth
PauseAuth(a, token) ==
    [a EXCEPT !.paused = TRUE,
              !.failedToken = token,
              !.retryIn = IF @ = NoDeadline THEN Backoff(AuthBase, AuthMax, 0) ELSE @]

\* A bug to detect: the recovery attempt restarts the schedule.
RecoveredAfresh(a) == Resumed

\* The end of tryPausedAuthRecovery: resumeAuth, but the schedule is kept.
Recovered(a) == [Resumed EXCEPT !.retryIn = a.retryIn, !.retryCount = a.retryCount]

\* noteOAuthRefreshFailure for a 429: the server's Retry-After or the backoff.
RateLimit(o, delay) ==
    [o EXCEPT !.failCount = @ + 1, !.paused = TRUE, !.resumeIn = delay]

Decayed(o) == [o EXCEPT !.failCount = IF @ > 0 THEN @ - 1 ELSE 0]

InBackoff == oauth.paused /\ oauth.resumeIn > 0

\* The guards of tryOAuthRecovery.
CanRecover == allowed /\ ~cc /\ ~InBackoff /\ Stored # None

Least(x, y) == IF x < y THEN x ELSE y

-----------------------------------------------------------------------------
(* Before the fetch *)

\* A fresh statusline is stored without calling the API; each ApiPollCycle-th
\* one goes on to the API all the same.
StatuslinePoll ==
    /\ pc = "idle"
    /\ cycle' = (cycle + 1) % ApiPollCycle
    /\ oauth' = Decayed(oauth)
    /\ pc' = IF cycle' = 0 THEN "proactive" ELSE "idle"
    /\ UNCHANGED <<why, held, fresh, retryToken, lastToken, superseded, auth, world>>

\* No statusline, or a stale or invalid one.
ApiPoll ==
    /\ pc = "idle"
    /\ pc' = "proactive"
    /\ UNCHANGED <<why, held, fresh, retryToken, lastToken, superseded, auth, oauth, cycle, world>>

\* The stored token is not about to expire, or a guard refuses the refresh.
SkipProactive ==
    /\ pc = "proactive"
    /\ pc' = "reread"
    /\ UNCHANGED <<why, held, fresh, retryToken, lastToken, superseded, auth, oauth, cycle, world>>

BeginRefresh(reason) == pc' = "refresh" /\ why' = reason /\ held' = Stored

\* The stored token expires soon.  A superseded one is not refreshed again.
ProactiveRefresh ==
    /\ pc = "proactive"
    /\ ~auth.paused
    /\ Stored # None
    /\ allowed
    /\ Stored # superseded
    /\ ~cc
    /\ ~InBackoff
    /\ BeginRefresh("proactive")
    /\ UNCHANGED <<fresh, retryToken, lastToken, superseded, auth, oauth, cycle, world>>

\* The re-read before the fetch.  A stored token that differs from the one in
\* memory is installed and lifts the pause and the OAuth backoff; a superseded
\* one is ignored.
Reread ==
    /\ pc = "reread"
    /\ LET newToken == IF Stored # None /\ Stored = superseded THEN lastToken ELSE Stored
           changed  == newToken # None /\ newToken # lastToken
       IN /\ lastToken' = IF changed THEN newToken ELSE lastToken
          /\ auth' = IF changed /\ auth.paused /\ newToken # auth.failedToken
                     THEN Resumed ELSE auth
          /\ oauth' = IF changed /\ oauth.paused THEN NoBackoff ELSE oauth
    /\ pc' = "gate"
    /\ UNCHANGED <<why, held, fresh, retryToken, superseded, cycle, world>>

\* The pause is off: on to the fetch.
PassGate ==
    /\ pc = "gate"
    /\ ~auth.paused
    /\ pc' = "fetch"
    /\ why' = "first"
    /\ UNCHANGED <<held, fresh, retryToken, lastToken, superseded, auth, oauth, cycle, world>>

\* tryPausedAuthRecovery before the deadline.
WaitAtGate ==
    /\ pc = "gate"
    /\ auth.paused
    /\ auth.retryIn # 0
    /\ pc' = "idle"
    /\ UNCHANGED <<why, held, fresh, retryToken, lastToken, superseded, auth, oauth, cycle, world>>

\* A bug to detect: an attempt that cannot be made falls through to the fetch.
RetryAtGateFallingThrough ==
    /\ pc = "gate"
    /\ auth.paused
    /\ auth.retryIn = 0
    /\ LET attempt == Least(auth.retryCount + 1, AttemptCap)
       IN auth' = [auth EXCEPT !.retryCount = attempt,
                               !.retryIn = Backoff(AuthBase, AuthMax, attempt)]
    /\ IF CanRecover
       THEN BeginRefresh("retry")
       ELSE pc' = "fetch" /\ why' = "first" /\ UNCHANGED held
    /\ UNCHANGED <<fresh, retryToken, lastToken, superseded, oauth, cycle, world>>

\* tryPausedAuthRecovery at the deadline: the next attempt is scheduled first,
\* whatever becomes of this one.
RetryAtGate ==
    /\ pc = "gate"
    /\ auth.paused
    /\ auth.retryIn = 0
    /\ LET attempt == Least(auth.retryCount + 1, AttemptCap)
       IN auth' = [auth EXCEPT !.retryCount = attempt,
                               !.retryIn = Backoff(AuthBase, AuthMax, attempt)]
    /\ IF CanRecover
       THEN BeginRefresh("retry")
       ELSE pc' = "idle" /\ UNCHANGED <<why, held>>
    /\ UNCHANGED <<fresh, retryToken, lastToken, superseded, oauth, cycle, world>>

-----------------------------------------------------------------------------
(* The OAuth refresh and its save *)

\* The server spends the refresh token and issues the next pair.
Mint ==
    /\ minted < MaxPairs
    /\ held \notin spent
    /\ minted' = minted + 1
    /\ spent' = spent \cup {held}

RefreshSucceeds ==
    /\ pc = "refresh"
    /\ Mint
    /\ fresh' = minted + 1
    /\ oauth' = NoBackoff
    /\ pc' = "save"
    /\ UNCHANGED <<why, held, retryToken, lastToken, superseded, auth, cycle,
                   file, keyring, cc, allowed, lost>>

\* Where a poll goes once its refresh has failed.
AfterFailedRefresh ==
    /\ pc' = IF why = "proactive" THEN "reread" ELSE "idle"
    /\ why' = "none"
    /\ held' = None
    /\ retryToken' = None

\* A recovery that failed for another reason than invalid_grant pauses too.
PausedByFailedRecovery ==
    IF why = "recovery" THEN PauseAuth(auth, retryToken) ELSE auth

RefreshRateLimited ==
    /\ pc = "refresh"
    /\ oauth.failCount < OAuthFailBound
    /\ \E delay \in RetryAfters \cup {Backoff(OAuthBase, OAuthMax, oauth.failCount + 1)} :
         oauth' = RateLimit(oauth, delay)
    /\ auth' = PausedByFailedRecovery
    /\ AfterFailedRefresh
    /\ UNCHANGED <<fresh, lastToken, superseded, cycle, world>>

\* invalid_grant: the refresh token is spent, revoked or expired.
RefreshInvalidGrant ==
    /\ pc = "refresh"
    /\ auth' = PauseAuth([auth EXCEPT !.failCount = MaxAuthFailures], lastToken)
    /\ AfterFailedRefresh
    /\ UNCHANGED <<fresh, lastToken, superseded, oauth, cycle, world>>

\* Any other failure.  Only the 429 bypass counts it.
NoteOtherFailure ==
    LET counted == oauth.failCount + 1
        delay   == Backoff(OAuthBase, OAuthMax, counted)
    IN oauth' = IF why # "bypass" THEN oauth
                ELSE IF counted >= MaxOAuthFailures THEN RateLimit(oauth, delay)
                ELSE [oauth EXCEPT !.failCount = counted]

RefreshFails ==
    /\ pc = "refresh"
    /\ oauth.failCount < OAuthFailBound
    /\ NoteOtherFailure
    /\ auth' = PausedByFailedRecovery
    /\ AfterFailedRefresh
    /\ UNCHANGED <<fresh, lastToken, superseded, cycle, world>>

\* The server has spent the token, and its answer does not arrive.
RefreshAnswerLost ==
    /\ pc = "refresh"
    /\ oauth.failCount < OAuthFailBound
    /\ Mint
    /\ lost' = lost \cup {held}
    /\ NoteOtherFailure
    /\ auth' = PausedByFailedRecovery
    /\ AfterFailedRefresh
    /\ UNCHANGED <<fresh, lastToken, superseded, cycle, file, keyring, cc, allowed>>

\* Where a poll goes once the new pair is in memory.
AfterSave ==
    /\ pc' = IF why = "proactive" THEN "reread" ELSE "fetch"
    /\ why' = CASE why = "proactive" -> "none"
                [] why = "bypass"    -> "bypassed"
                [] why = "recovery"  -> "recovered"
                [] OTHER             -> "first"
    /\ auth' = CASE why = "retry" -> Recovered(auth)
                 [] why = "proactive" /\ auth.paused -> Resumed
                 [] OTHER -> auth
    /\ lastToken' = fresh
    /\ held' = None
    /\ fresh' = None

\* writeCredentialsToKeychain or writeCredentialsToLinuxKeyring: an existing
\* entry is rewritten, or kept when that fails, or gone when the Keychain's
\* delete succeeds and its add does not.  The error is ignored.
WriteKeyring ==
    keyring' \in (IF keyring = None THEN {None} ELSE {fresh, keyring, None})

\* writeCredentialsToFile reports success when there is no file to rewrite.
FileWritten == file' = IF file = None THEN None ELSE fresh
FileFails   == file # None /\ UNCHANGED file

\* A bug to detect: a failed save is not remembered.
SaveForgotten ==
    /\ pc = "save"
    /\ WriteKeyring
    /\ FileWritten \/ FileFails
    /\ superseded' = None
    /\ AfterSave
    /\ UNCHANGED <<retryToken, oauth, cycle, minted, spent, cc, allowed, lost>>

\* applyRefreshedTokens and what its callers do next: the pair is installed in
\* memory whether it was saved or not.
Save ==
    /\ pc = "save"
    /\ WriteKeyring
    /\ \/ FileWritten /\ superseded' = None
       \/ FileFails /\ superseded' = held
    /\ AfterSave
    /\ UNCHANGED <<retryToken, oauth, cycle, minted, spent, cc, allowed, lost>>

-----------------------------------------------------------------------------
(* The fetch *)

EndPoll == pc' = "idle" /\ why' = "none" /\ retryToken' = None

\* Past processResponse.  Only the first fetch decays the OAuth backoff.
FetchSucceeds ==
    /\ pc = "fetch"
    /\ auth' = [auth EXCEPT !.failCount = 0, !.retryCount = 0, !.retryIn = NoDeadline,
                            !.failedToken = IF why = "recovered" THEN None ELSE @]
    /\ oauth' = IF why = "first" THEN Decayed(oauth) ELSE oauth
    /\ EndPoll
    /\ UNCHANGED <<held, fresh, lastToken, superseded, cycle, world>>

\* The context is cancelled, or the first fetch, the retry of the bypass or the
\* retry of the forced re-read fails in a way poll only logs.
FetchAbandoned ==
    /\ pc = "fetch"
    /\ EndPoll
    /\ UNCHANGED <<held, fresh, lastToken, superseded, auth, oauth, cycle, world>>

\* The fetch after the recovery refresh fails in any way.
RecoveredFetchFails ==
    /\ pc = "fetch" /\ why = "recovered"
    /\ auth' = PauseAuth(auth, retryToken)
    /\ EndPoll
    /\ UNCHANGED <<held, fresh, lastToken, superseded, oauth, cycle, world>>

\* The usage API answers 429: refresh to get a fresh rate limit window, unless
\* the OAuth backoff, the setting or Claude Code forbids it.
FetchRateLimited ==
    /\ pc = "fetch" /\ why = "first"
    /\ oauth' = IF oauth.paused /\ ~InBackoff
                THEN [Decayed(oauth) EXCEPT !.paused = FALSE] ELSE oauth
    /\ IF CanRecover
       THEN BeginRefresh("bypass") /\ UNCHANGED retryToken
       ELSE EndPoll /\ UNCHANGED held
    /\ UNCHANGED <<fresh, lastToken, superseded, auth, cycle, world>>

\* 401 or 403: the stored token is read again and used whatever it is.
FetchUnauthorized ==
    /\ pc = "fetch" /\ why = "first"
    /\ lastToken' = Stored
    /\ IF Stored # None
       THEN why' = "forced" /\ retryToken' = Stored /\ UNCHANGED pc
       ELSE EndPoll
    /\ UNCHANGED <<held, fresh, superseded, auth, oauth, cycle, world>>

\* The retry is unauthorised as well.  The last failure allowed tries one OAuth
\* refresh before it pauses.
RetryUnauthorized ==
    /\ pc = "fetch" /\ why = "forced"
    /\ LET failures == Least(auth.failCount + 1, MaxAuthFailures)
           counted  == [auth EXCEPT !.failCount = failures]
       IN \/ /\ failures < MaxAuthFailures
             /\ auth' = counted
             /\ EndPoll
             /\ UNCHANGED held
          \/ /\ failures = MaxAuthFailures
             /\ CanRecover
             /\ auth' = counted
             /\ BeginRefresh("recovery")
             /\ UNCHANGED retryToken
          \/ /\ failures = MaxAuthFailures
             /\ ~CanRecover
             /\ auth' = PauseAuth(counted, retryToken)
             /\ EndPoll
             /\ UNCHANGED held
    /\ UNCHANGED <<fresh, lastToken, superseded, oauth, cycle, world>>

-----------------------------------------------------------------------------
(* Time, Claude Code, the user, and crashes *)

CountDown(n) == IF n > 0 THEN n - 1 ELSE n

Tick ==
    /\ auth.retryIn > 0 \/ oauth.resumeIn > 0
    /\ auth' = [auth EXCEPT !.retryIn = CountDown(@)]
    /\ oauth' = [oauth EXCEPT !.resumeIn = CountDown(@)]
    /\ UNCHANGED <<pc, why, held, fresh, retryToken, lastToken, superseded, cycle, world>>

StartOrQuitClaudeCode ==
    /\ cc' = ~cc
    /\ UNCHANGED <<memory, file, keyring, minted, spent, allowed, lost>>

ToggleSetting ==
    /\ allowed' = ~allowed
    /\ UNCHANGED <<memory, file, keyring, minted, spent, cc, lost>>

\* Claude Code and "claude auth" write the primary store.
WriteByClaudeCode ==
    /\ minted < MaxPairs
    /\ minted' = minted + 1
    /\ IF HasKeyring
       THEN keyring' = minted + 1 /\ UNCHANGED file
       ELSE file' = minted + 1 /\ UNCHANGED keyring

\* Claude Code refreshes the pair it has stored.
ClaudeCodeRotates ==
    /\ cc
    /\ Stored # None
    /\ Stored \notin spent
    /\ WriteByClaudeCode
    /\ spent' = spent \cup {Stored}
    /\ UNCHANGED <<memory, cc, allowed, lost>>

\* The user authenticates anew.
Login ==
    /\ WriteByClaudeCode
    /\ UNCHANGED <<memory, spent, cc, allowed, lost>>

\* The process dies and starts again: what only its memory held is gone.
Crash ==
    /\ pc' = "idle" /\ why' = "none"
    /\ held' = None /\ fresh' = None /\ retryToken' = None
    /\ lastToken' = None /\ superseded' = None
    /\ auth' = Resumed
    /\ oauth' = NoBackoff
    /\ cycle' = 0
    /\ lost' = lost \cup (IF pc = "save" THEN {held} ELSE {})
                    \cup (IF superseded # None THEN {superseded} ELSE {})
    /\ UNCHANGED <<file, keyring, minted, spent, cc, allowed>>

BeforeFetch ==
    \/ StatuslinePoll \/ ApiPoll
    \/ SkipProactive \/ ProactiveRefresh
    \/ Reread
    \/ PassGate \/ WaitAtGate \/ RetryAtGate
Refreshing ==
    \/ RefreshSucceeds \/ RefreshRateLimited \/ RefreshInvalidGrant
    \/ RefreshFails \/ RefreshAnswerLost
    \/ Save
Fetching ==
    \/ FetchSucceeds \/ FetchAbandoned \/ RecoveredFetchFails
    \/ FetchRateLimited \/ FetchUnauthorized \/ RetryUnauthorized
AgentStep == BeforeFetch \/ Refreshing \/ Fetching

OutsideStep ==
    \/ StartOrQuitClaudeCode \/ ToggleSetting
    \/ ClaudeCodeRotates \/ Login
    \/ Crash

Next == AgentStep \/ Tick \/ OutsideStep

Spec == Init /\ [][Next]_vars

\* The ticker starts the next poll, every call to the outside has a timeout,
\* and time passes.
FairSpec == Spec /\ WF_vars(AgentStep) /\ WF_vars(Tick)

-----------------------------------------------------------------------------
(* Properties *)

\* Issue 111: polling that is paused always has a time at which the agent tries
\* to recover by itself.  The deadline is set, kept, replaced and cleared in
\* pauseAuth, tryPausedAuthRecovery, resumeAuth and processResponse.
PausedHasDeadline == auth.paused => auth.retryIn # NoDeadline

\* A paused agent does not call the usage API, not even when the refresh that
\* paused it was made for a fetch of the same poll.
NoFetchWhilePaused == pc = "fetch" => ~auth.paused

\* The escalating retry delay starts over only after a successful fetch, with
\* credentials that changed, or in a new process: the comment at the end of
\* tryPausedAuthRecovery.
ScheduleKept ==
    [][auth'.retryCount < auth.retryCount =>
          \/ pc = "fetch" /\ pc' = "idle"
          \/ pc = "reread" /\ lastToken' # lastToken
          \/ Fresh']_vars

\* While the stored pair is spent, the agent still has its successor to save,
\* or knows that it is superseded, or the successor is lost for good.
SpentPairIsKnown ==
    Stored # None /\ Stored \in spent =>
        \/ pc = "save" /\ held = Stored
        \/ superseded = Stored
        \/ Stored \in lost

\* The comment of applyRefreshedTokens: "The superseded on-disk access token is
\* recorded so the pre-poll credential re-read does not immediately downgrade
\* back to it - that downgrade would leave the agent polling with a dead token
\* and a dead refresh token".  A spent pair whose successor nobody holds is as
\* good as any other: there is nothing to go on with until the next login.
RereadNeverDowngrades ==
    [][pc = "reread" /\ pc' = "gate" /\ lastToken' < lastToken
          => lastToken' \notin spent \/ lastToken' \in lost]_vars

\* With Claude Code gone, refreshing allowed and credentials stored, a paused
\* agent gets to a refresh attempt again and again, or is not paused.
RecoveryIsAttempted ==
    <>[](~cc /\ allowed /\ Stored # None) => []<>(~auth.paused \/ pc = "refresh")
=============================================================================
