------------------------ MODULE AnthropicAuthProofs ------------------------
(***************************************************************************)
(* Proofs about AnthropicAuth, for every number of pairs, every threshold  *)
(* and every backoff schedule: polling that is paused always has a         *)
(* deadline, and a paused agent never fetches.  Without a keyring, a spent *)
(* pair is known to be spent, and never returned to.                       *)
(*                                                                         *)
(* Neither invariant is inductive alone.  A successful fetch clears the    *)
(* deadline, so the first needs the second; a save leads to a fetch        *)
(* without looking at the pause, so the second needs to know that a        *)
(* refresh made for a fetch of this poll found the agent not paused.       *)
(***************************************************************************)
EXTENDS AnthropicAuth, TLAPS

\* A refresh in flight has a pair and one of four reasons, and only the retry of
\* a paused agent is made while it is paused.
RefreshHasReason ==
    pc \in {"refresh", "save"} =>
        /\ held # None
        /\ why \in {"proactive", "bypass", "recovery", "retry"}
        /\ why # "retry" => ~auth.paused

IInv == TypeOK /\ PausedHasDeadline /\ NoFetchWhilePaused /\ RefreshHasReason

-----------------------------------------------------------------------------
(* The helpers *)

\* The powers are positive.
LEMMA PowersPositive ==
    ASSUME NEW i \in 1 .. 11
    PROVE  PowersOfTwo[i] \in Nat \ {0}
  BY DEF PowersOfTwo

\* Both backoffs are at least one unit of time and at most their cap.
LEMMA BackoffInRange ==
    ASSUME NEW base \in Nat \ {0}, NEW cap \in Nat \ {0}, NEW n \in Nat
    PROVE  Backoff(base, cap, n) \in 1 .. cap
  <1>1. CASE n = 0
    BY <1>1 DEF Backoff
  <1>2. CASE n # 0
    <2>1. Shift(n) + 1 \in 1 .. 11
      BY <1>2 DEF Shift
    <2>2. PICK p \in Nat \ {0} : p = PowersOfTwo[Shift(n) + 1]
      BY <2>1, PowersPositive
    <2>3. base * p \in Nat \ {0}
      OBVIOUS
    <2>4. Backoff(base, cap, n) = IF base * p > cap THEN cap ELSE base * p
      BY <1>2, <2>2 DEF Backoff
    <2> QED
      BY <2>3, <2>4
  <1> QED
    BY <1>1, <1>2

\* pauseAuth pauses, leaves a deadline and keeps the attempt count.
LEMMA PauseAuthFacts ==
    ASSUME NEW a \in Auth, NEW token \in PairOrNone
    PROVE  /\ PauseAuth(a, token) \in Auth
           /\ PauseAuth(a, token).retryIn # NoDeadline
           /\ PauseAuth(a, token).retryCount = a.retryCount
  <1> DEFINE first == Backoff(AuthBase, AuthMax, 0)
  <1>1. first \in 1 .. AuthMax
    BY AuthAssumption, BackoffInRange
  <1> DEFINE d == IF a.retryIn = NoDeadline THEN first ELSE a.retryIn
             b == [a EXCEPT !.paused = TRUE, !.failedToken = token, !.retryIn = d]
  <1>2. PauseAuth(a, token) = b
    BY Zenon DEF PauseAuth
  <1>3. a.retryIn \in NoDeadline .. AuthMax
    BY DEF Auth
  <1>4. d \in 0 .. AuthMax
    <2> HIDE DEF first
    <2> QED
      BY <1>1, <1>3, AuthAssumption DEF NoDeadline
  <1> HIDE DEF d
  <1>5. d \in NoDeadline .. AuthMax /\ d # NoDeadline
    BY <1>4, AuthAssumption DEF NoDeadline
  <1>6. b \in Auth /\ b.retryIn = d /\ b.retryCount = a.retryCount
    BY <1>5 DEF Auth
  <1> QED
    BY <1>2, <1>5, <1>6, Zenon

\* resumeAuth clears the pause.
LEMMA ResumedFacts == Resumed \in Auth /\ ~Resumed.paused
  <1>1. 0 \in 0 .. MaxAuthFailures /\ None \in PairOrNone
          /\ NoDeadline \in NoDeadline .. AuthMax /\ 0 \in 0 .. AttemptCap
    BY AuthAssumption DEF NoDeadline, None, PairOrNone
  <1> QED
    BY <1>1 DEF Resumed, Auth

\* So does the resume that keeps the schedule.
LEMMA RecoveredFacts ==
    ASSUME NEW a \in Auth
    PROVE  /\ Recovered(a) \in Auth
           /\ ~Recovered(a).paused
           /\ Recovered(a).retryCount = a.retryCount
  <1>1. a.retryIn \in NoDeadline .. AuthMax /\ a.retryCount \in 0 .. AttemptCap
    BY DEF Auth
  <1> DEFINE r == [Resumed EXCEPT !.retryIn = a.retryIn, !.retryCount = a.retryCount]
  <1>2. r \in Auth /\ ~r.paused /\ r.retryCount = a.retryCount
    BY <1>1, ResumedFacts DEF Auth
  <1> QED
    BY <1>2, Zenon DEF Recovered

\* The OAuth backoff stays within its bounds.
LEMMA OAuthFacts ==
    /\ NoBackoff \in OAuth
    /\ \A o \in OAuth : Decayed(o) \in OAuth
    /\ \A o \in OAuth, delay \in 1 .. OAuthMax :
          o.failCount < OAuthFailBound => RateLimit(o, delay) \in OAuth
  <1>1. NoBackoff \in OAuth
    BY AuthAssumption DEF NoBackoff, OAuth
  <1>2. ASSUME NEW o \in OAuth PROVE Decayed(o) \in OAuth
    <2> DEFINE n == IF o.failCount > 0 THEN o.failCount - 1 ELSE 0
    <2>1. n \in 0 .. OAuthFailBound
      BY AuthAssumption DEF OAuth
    <2> HIDE DEF n
    <2>2. [o EXCEPT !.failCount = n] \in OAuth
      BY <2>1 DEF OAuth
    <2> QED
      BY <2>2, Zenon DEF Decayed, n
  <1>3. ASSUME NEW o \in OAuth, NEW delay \in 1 .. OAuthMax,
               o.failCount < OAuthFailBound
        PROVE  RateLimit(o, delay) \in OAuth
    <2>1. o.failCount + 1 \in 0 .. OAuthFailBound /\ delay \in 0 .. OAuthMax
      BY <1>3, AuthAssumption DEF OAuth
    <2> QED
      BY <2>1 DEF RateLimit, OAuth
  <1> QED
    BY <1>1, <1>2, <1>3

\* Whatever a failed refresh does to the auth fields, a pause has a deadline.
LEMMA FailedRecoveryFacts ==
    ASSUME TypeOK, PausedHasDeadline
    PROVE  /\ PausedByFailedRecovery \in Auth
           /\ PausedByFailedRecovery.paused =>
                PausedByFailedRecovery.retryIn # NoDeadline
           /\ PausedByFailedRecovery.retryCount = auth.retryCount
  BY PauseAuthFacts DEF TypeOK, PausedHasDeadline, PausedByFailedRecovery

\* A failure that only the bypass counts keeps the OAuth fields in bounds.
LEMMA OtherFailureTyped ==
    ASSUME TypeOK, NoteOtherFailure, oauth.failCount < OAuthFailBound
    PROVE  oauth' \in OAuth
  <1>1. oauth \in OAuth /\ oauth.failCount + 1 \in Nat
    BY DEF TypeOK, OAuth
  <1>2. Backoff(OAuthBase, OAuthMax, oauth.failCount + 1) \in 1 .. OAuthMax
    BY <1>1, AuthAssumption, BackoffInRange
  <1>3. RateLimit(oauth, Backoff(OAuthBase, OAuthMax, oauth.failCount + 1)) \in OAuth
    BY <1>1, <1>2, OAuthFacts
  <1>4. [oauth EXCEPT !.failCount = oauth.failCount + 1] \in OAuth
    BY <1>1, AuthAssumption DEF OAuth
  <1> QED
    BY <1>1, <1>3, <1>4, Zenon DEF NoteOtherFailure

\* A recovery attempt schedules the next one.
LEMMA AttemptFacts ==
    ASSUME NEW a \in Auth
    PROVE  LET attempt == Least(a.retryCount + 1, AttemptCap)
               next    == [a EXCEPT !.retryCount = attempt,
                                    !.retryIn = Backoff(AuthBase, AuthMax, attempt)]
           IN /\ next \in Auth
              /\ next.retryIn # NoDeadline
              /\ next.retryCount >= a.retryCount
  <1> DEFINE attempt == Least(a.retryCount + 1, AttemptCap)
             delay   == Backoff(AuthBase, AuthMax, attempt)
  <1>1. attempt \in 0 .. AttemptCap /\ attempt >= a.retryCount
    BY AuthAssumption DEF Auth, Least
  <1> HIDE DEF attempt
  <1>2. delay \in 1 .. AuthMax
    BY <1>1, AuthAssumption, BackoffInRange
  <1> HIDE DEF delay
  <1>3. delay \in NoDeadline .. AuthMax /\ delay # NoDeadline
    BY <1>2, AuthAssumption DEF NoDeadline
  <1> DEFINE next == [a EXCEPT !.retryCount = attempt, !.retryIn = delay]
  <1>4. next \in Auth /\ next.retryIn = delay /\ next.retryCount = attempt
    BY <1>1, <1>3 DEF Auth
  <1> QED
    BY <1>1, <1>3, <1>4 DEF attempt, delay

\* A counted auth failure keeps the fields in bounds and the deadline as it is.
LEMMA CountedFacts ==
    ASSUME NEW a \in Auth
    PROVE  LET counted == [a EXCEPT !.failCount = Least(a.failCount + 1, MaxAuthFailures)]
           IN /\ counted \in Auth
              /\ counted.paused = a.paused
              /\ counted.retryIn = a.retryIn
              /\ counted.retryCount = a.retryCount
  <1>1. Least(a.failCount + 1, MaxAuthFailures) \in 0 .. MaxAuthFailures
    BY AuthAssumption DEF Auth, Least
  <1> QED
    BY <1>1 DEF Auth

\* Time brings the deadlines closer and removes none.
LEMMA TickFacts ==
    ASSUME NEW a \in Auth, NEW o \in OAuth
    PROVE  LET aNext == [a EXCEPT !.retryIn = CountDown(a.retryIn)]
           IN /\ aNext \in Auth
              /\ aNext.paused = a.paused
              /\ aNext.retryCount = a.retryCount
              /\ a.retryIn # NoDeadline => aNext.retryIn # NoDeadline
              /\ [o EXCEPT !.resumeIn = CountDown(o.resumeIn)] \in OAuth
  <1>1. CountDown(a.retryIn) \in NoDeadline .. AuthMax
    BY AuthAssumption DEF Auth, CountDown, NoDeadline
  <1>2. a.retryIn # NoDeadline => CountDown(a.retryIn) # NoDeadline
    BY AuthAssumption DEF Auth, CountDown, NoDeadline
  <1>3. CountDown(o.resumeIn) \in 0 .. OAuthMax
    BY AuthAssumption DEF OAuth, CountDown
  <1>4. [o EXCEPT !.resumeIn = CountDown(o.resumeIn)] \in OAuth
    BY <1>3 DEF OAuth
  <1> QED
    BY <1>1, <1>2, <1>4 DEF Auth

\* The stored pair is a pair or none.
LEMMA StoredTyped ==
    TypeOK => Stored \in PairOrNone
  BY DEF TypeOK, Stored

-----------------------------------------------------------------------------
(* The inductive invariant *)

LEMMA InitIInv == Init => IInv
  BY AuthAssumption, ResumedFacts, OAuthFacts
  DEF Init, Fresh, IInv, TypeOK, PausedHasDeadline, NoFetchWhilePaused,
      RefreshHasReason, Points, Reasons, PairOrNone, Pairs, None

\* The points and reasons that actions name are points and reasons, and 0 is a
\* pair or none.
LEMMA Constants ==
    /\ None \in PairOrNone
    /\ Pairs \subseteq PairOrNone
    /\ 0 \in 0 .. (ApiPollCycle - 1)
  BY AuthAssumption DEF None, PairOrNone, Pairs

\* The steps before the fetch keep the types.
LEMMA BeforeFetchTyped == TypeOK /\ BeforeFetch => TypeOK'
  <1> SUFFICES ASSUME TypeOK, BeforeFetch PROVE TypeOK'
    OBVIOUS
  <1> USE DEF TypeOK, Points, Reasons, world
  <1>1. Stored \in PairOrNone
    BY StoredTyped
  <1>2. CASE StatuslinePoll
    <2>1. (cycle + 1) % ApiPollCycle \in 0 .. (ApiPollCycle - 1)
      BY AuthAssumption
    <2> QED
      BY <1>2, <2>1, OAuthFacts DEF StatuslinePoll
  <1>3. CASE ApiPoll
    BY <1>3 DEF ApiPoll
  <1>4. CASE SkipProactive
    BY <1>4 DEF SkipProactive
  <1>5. CASE ProactiveRefresh
    BY <1>1, <1>5 DEF ProactiveRefresh, BeginRefresh
  <1>6. CASE Reread
    BY <1>1, <1>6, ResumedFacts, OAuthFacts DEF Reread
  <1>7. CASE PassGate
    BY <1>7 DEF PassGate
  <1>8. CASE WaitAtGate
    BY <1>8 DEF WaitAtGate
  <1>9. CASE RetryAtGate
    <2>1. auth' \in Auth
      BY <1>9, AttemptFacts DEF RetryAtGate
    <2> QED
      BY <1>1, <1>9, <2>1 DEF RetryAtGate, BeginRefresh
  <1> QED
    BY <1>2, <1>3, <1>4, <1>5, <1>6, <1>7, <1>8, <1>9 DEF BeforeFetch

\* So do the refresh and its save.
LEMMA RefreshingTyped == IInv /\ Refreshing => TypeOK'
  <1> SUFFICES ASSUME IInv, Refreshing PROVE TypeOK'
    OBVIOUS
  <1> USE DEF IInv, TypeOK, Points, Reasons, world
  <1>1. ASSUME pc = "refresh", Mint
        PROVE  /\ held \in Pairs /\ minted' \in Pairs
               /\ spent' \subseteq Pairs /\ minted + 1 \in PairOrNone
    <2>1. held \in Pairs
      BY <1>1, AuthAssumption DEF RefreshHasReason, Pairs, PairOrNone, None
    <2>2. minted + 1 \in Pairs
      BY <1>1, AuthAssumption DEF Mint, Pairs
    <2> QED
      BY <1>1, <2>1, <2>2, Constants DEF Mint
  <1>2. PausedByFailedRecovery \in Auth
    BY FailedRecoveryFacts
  <1>3. AfterFailedRefresh =>
          pc' \in Points /\ why' \in Reasons /\ held' \in PairOrNone /\ retryToken' \in PairOrNone
    BY Constants DEF AfterFailedRefresh
  <1>4. CASE RefreshSucceeds
    BY <1>1, <1>4, OAuthFacts, Constants DEF RefreshSucceeds
  <1>5. CASE RefreshRateLimited
    <2>1. oauth' \in OAuth
      <3>1. oauth.failCount + 1 \in Nat /\ oauth.failCount < OAuthFailBound
        BY <1>5 DEF RefreshRateLimited, OAuth
      <3>2. PICK delay \in RetryAfters \cup {Backoff(OAuthBase, OAuthMax, oauth.failCount + 1)} :
              oauth' = RateLimit(oauth, delay)
        BY <1>5 DEF RefreshRateLimited
      <3>3. delay \in 1 .. OAuthMax
        BY <3>1, AuthAssumption, BackoffInRange
      <3> QED
        BY <3>1, <3>2, <3>3, OAuthFacts
    <2> QED
      BY <1>2, <1>3, <1>5, <2>1 DEF RefreshRateLimited
  <1>6. CASE RefreshInvalidGrant
    <2> DEFINE failed == [auth EXCEPT !.failCount = MaxAuthFailures]
    <2>1. failed \in Auth
      BY AuthAssumption DEF Auth
    <2>2. PauseAuth(failed, lastToken) \in Auth
      BY <2>1, PauseAuthFacts
    <2> QED
      BY <1>3, <1>6, <2>2 DEF RefreshInvalidGrant
  <1>7. CASE RefreshFails
    BY <1>2, <1>3, <1>7, OtherFailureTyped DEF RefreshFails
  <1>8. CASE RefreshAnswerLost
    <2>1. oauth' \in OAuth
      BY <1>8, OtherFailureTyped DEF RefreshAnswerLost
    <2> QED
      BY <1>1, <1>2, <1>3, <1>8, <2>1 DEF RefreshAnswerLost
  <1>9. CASE Save
    <2>1. auth' \in Auth
      BY <1>9, ResumedFacts, RecoveredFacts DEF Save, AfterSave
    <2>2. pc' \in Points /\ why' \in Reasons
      BY <1>9 DEF Save, AfterSave
    <2>3. keyring' \in PairOrNone /\ file' \in PairOrNone
      BY <1>9, Constants DEF Save, WriteKeyring, FileWritten, FileFails
    <2>4. superseded' \in PairOrNone
      BY <1>9, Constants DEF Save
    <2> QED
      BY <1>9, <2>1, <2>2, <2>3, <2>4, Constants DEF Save, AfterSave
  <1> QED
    BY <1>4, <1>5, <1>6, <1>7, <1>8, <1>9 DEF Refreshing

\* So does the fetch.
LEMMA FetchingTyped == IInv /\ Fetching => TypeOK'
  <1> SUFFICES ASSUME IInv, Fetching PROVE TypeOK'
    OBVIOUS
  <1> USE DEF IInv, TypeOK, Points, Reasons, world
  <1>1. Stored \in PairOrNone
    BY StoredTyped
  <1>2. EndPoll => pc' \in Points /\ why' \in Reasons /\ retryToken' \in PairOrNone
    BY Constants DEF EndPoll
  <1>3. CASE FetchSucceeds
    <2> DEFINE t == IF why = "recovered" THEN None ELSE auth.failedToken
               a == [auth EXCEPT !.failCount = 0, !.retryCount = 0,
                                 !.retryIn = NoDeadline, !.failedToken = t]
    <2>1. t \in PairOrNone /\ 0 \in 0 .. MaxAuthFailures /\ 0 \in 0 .. AttemptCap
            /\ NoDeadline \in NoDeadline .. AuthMax
      BY Constants, AuthAssumption DEF Auth, NoDeadline
    <2> HIDE DEF t
    <2>2. a \in Auth
      BY <2>1 DEF Auth
    <2>3. auth' = a
      BY <1>3, Zenon DEF FetchSucceeds, t
    <2> QED
      BY <1>2, <1>3, <2>2, <2>3, OAuthFacts DEF FetchSucceeds
  <1>4. CASE FetchAbandoned
    BY <1>2, <1>4 DEF FetchAbandoned
  <1>5. CASE RecoveredFetchFails
    BY <1>2, <1>5, PauseAuthFacts DEF RecoveredFetchFails
  <1>6. CASE FetchRateLimited
    <2>1. oauth' \in OAuth
      <3>1. Decayed(oauth) \in OAuth
        BY OAuthFacts
      <3>2. [Decayed(oauth) EXCEPT !.paused = FALSE] \in OAuth
        BY <3>1 DEF OAuth
      <3> QED
        BY <1>6, <3>2 DEF FetchRateLimited
    <2> QED
      BY <1>1, <1>2, <1>6, <2>1 DEF FetchRateLimited, BeginRefresh
  <1>7. CASE FetchUnauthorized
    BY <1>1, <1>2, <1>7 DEF FetchUnauthorized
  <1>8. CASE RetryUnauthorized
    <2> DEFINE counted ==
          [auth EXCEPT !.failCount = Least(auth.failCount + 1, MaxAuthFailures)]
    <2>1. auth' \in Auth
      <3>1. counted \in Auth
        BY CountedFacts
      <3>2. auth' = counted \/ auth' = PauseAuth(counted, retryToken)
        BY <1>8 DEF RetryUnauthorized
      <3> HIDE DEF counted
      <3> QED
        BY <3>1, <3>2, PauseAuthFacts
    <2> HIDE DEF counted
    <2> QED
      BY <1>1, <1>2, <1>8, <2>1 DEF RetryUnauthorized, BeginRefresh
  <1> QED
    BY <1>3, <1>4, <1>5, <1>6, <1>7, <1>8 DEF Fetching

\* And so do time and the outside world.
LEMMA OutsideTyped == IInv /\ (Tick \/ OutsideStep) => TypeOK'
  <1> SUFFICES ASSUME IInv, Tick \/ OutsideStep PROVE TypeOK'
    OBVIOUS
  <1> USE DEF IInv, TypeOK, memory, world
  <1>1. Stored \in PairOrNone
    BY StoredTyped
  <1>2. WriteByClaudeCode =>
          minted' \in Pairs /\ file' \in PairOrNone /\ keyring' \in PairOrNone
    <2>1. minted < MaxPairs => minted + 1 \in Pairs
      BY AuthAssumption DEF Pairs
    <2> QED
      BY <2>1, Constants DEF WriteByClaudeCode
  <1>3. CASE Tick
    BY <1>3, TickFacts DEF Tick
  <1>4. CASE StartOrQuitClaudeCode
    BY <1>4 DEF StartOrQuitClaudeCode
  <1>5. CASE ToggleSetting
    BY <1>5 DEF ToggleSetting
  <1>6. CASE ClaudeCodeRotates
    <2>1. Stored \in Pairs
      BY <1>1, <1>6, AuthAssumption DEF ClaudeCodeRotates, Pairs, PairOrNone, None
    <2> QED
      BY <1>2, <1>6, <2>1 DEF ClaudeCodeRotates
  <1>7. CASE Login
    BY <1>2, <1>7 DEF Login
  <1>8. CASE Crash
    <2>1. lost' \subseteq Pairs
      <3>1. pc = "save" => held \in Pairs
        BY AuthAssumption DEF RefreshHasReason, Pairs, PairOrNone, None
      <3>2. superseded # None => superseded \in Pairs
        BY AuthAssumption DEF Pairs, PairOrNone, None
      <3> QED
        BY <1>8, <3>1, <3>2 DEF Crash
    <2> QED
      BY <1>8, <2>1, Constants, ResumedFacts, OAuthFacts DEF Crash, Points, Reasons
  <1> QED
    BY <1>3, <1>4, <1>5, <1>6, <1>7, <1>8 DEF OutsideStep

-----------------------------------------------------------------------------
(* The pause *)

\* The conjuncts of IInv beyond the types.
Safe == PausedHasDeadline /\ NoFetchWhilePaused /\ RefreshHasReason

\* No step before the fetch leaves a pause without a deadline, fetches while
\* paused, or refreshes without a reason.
LEMMA BeforeFetchSafe == IInv /\ BeforeFetch => Safe'
  <1> SUFFICES ASSUME IInv, BeforeFetch PROVE Safe'
    OBVIOUS
  <1> USE DEF IInv, Safe, PausedHasDeadline, NoFetchWhilePaused, RefreshHasReason, world
  <1>1. auth \in Auth
    BY DEF TypeOK
  <1>2. CASE StatuslinePoll
    BY <1>2 DEF StatuslinePoll
  <1>3. CASE ApiPoll
    BY <1>3 DEF ApiPoll
  <1>4. CASE SkipProactive
    BY <1>4 DEF SkipProactive
  <1>5. CASE ProactiveRefresh
    BY <1>5 DEF ProactiveRefresh, BeginRefresh
  <1>6. CASE Reread
    BY <1>6, ResumedFacts DEF Reread
  <1>7. CASE PassGate
    BY <1>7 DEF PassGate
  <1>8. CASE WaitAtGate
    BY <1>8 DEF WaitAtGate
  <1>9. CASE RetryAtGate
    <2>1. auth'.retryIn # NoDeadline
      BY <1>1, <1>9, AttemptFacts DEF RetryAtGate
    <2> QED
      BY <1>9, <2>1 DEF RetryAtGate, BeginRefresh, CanRecover
  <1> QED
    BY <1>2, <1>3, <1>4, <1>5, <1>6, <1>7, <1>8, <1>9 DEF BeforeFetch

\* Nor does a refresh or its save: a refresh made for a fetch of this poll found
\* the agent not paused, and the retry of a paused agent resumes it.
LEMMA RefreshingSafe == IInv /\ Refreshing => Safe'
  <1> SUFFICES ASSUME IInv, Refreshing PROVE Safe'
    OBVIOUS
  <1> USE DEF IInv, Safe, PausedHasDeadline, NoFetchWhilePaused, RefreshHasReason, world
  <1>1. auth \in Auth /\ retryToken \in PairOrNone /\ lastToken \in PairOrNone
    BY DEF TypeOK
  <1>2. PausedByFailedRecovery.paused => PausedByFailedRecovery.retryIn # NoDeadline
    BY FailedRecoveryFacts
  <1>3. CASE RefreshSucceeds
    BY <1>3 DEF RefreshSucceeds
  <1>4. CASE RefreshRateLimited
    BY <1>2, <1>4 DEF RefreshRateLimited, AfterFailedRefresh
  <1>5. CASE RefreshInvalidGrant
    <2> DEFINE failed == [auth EXCEPT !.failCount = MaxAuthFailures]
    <2>1. failed \in Auth
      BY <1>1, AuthAssumption DEF Auth
    <2> HIDE DEF failed
    <2>2. PauseAuth(failed, lastToken).retryIn # NoDeadline
      BY <1>1, <2>1, PauseAuthFacts
    <2>3. auth'.retryIn # NoDeadline
      BY <1>5, <2>2 DEF RefreshInvalidGrant, failed
    <2> QED
      BY <1>5, <2>3 DEF RefreshInvalidGrant, AfterFailedRefresh
  <1>6. CASE RefreshFails
    BY <1>2, <1>6 DEF RefreshFails, AfterFailedRefresh
  <1>7. CASE RefreshAnswerLost
    BY <1>2, <1>7 DEF RefreshAnswerLost, AfterFailedRefresh
  <1>8. CASE Save
    <2>1. ~auth'.paused
      BY <1>1, <1>8, ResumedFacts, RecoveredFacts DEF Save, AfterSave
    <2> QED
      BY <1>8, <2>1 DEF Save, AfterSave
  <1> QED
    BY <1>3, <1>4, <1>5, <1>6, <1>7, <1>8 DEF Refreshing

\* Nor does a fetch, which clears the deadline of an agent that is not paused.
LEMMA FetchingSafe == IInv /\ Fetching => Safe'
  <1> SUFFICES ASSUME IInv, Fetching PROVE Safe'
    OBVIOUS
  <1> USE DEF IInv, Safe, PausedHasDeadline, NoFetchWhilePaused, RefreshHasReason, world
  <1>1. auth \in Auth /\ retryToken \in PairOrNone
    BY DEF TypeOK
  <1>2. CASE FetchSucceeds
    <2>1. auth'.paused = auth.paused
      BY <1>1, <1>2 DEF FetchSucceeds, Auth
    <2> QED
      BY <1>2, <2>1 DEF FetchSucceeds, EndPoll
  <1>3. CASE FetchAbandoned
    BY <1>3 DEF FetchAbandoned, EndPoll
  <1>4. CASE RecoveredFetchFails
    <2>1. auth'.retryIn # NoDeadline
      BY <1>1, <1>4, PauseAuthFacts DEF RecoveredFetchFails
    <2> QED
      BY <1>4, <2>1 DEF RecoveredFetchFails, EndPoll
  <1>5. CASE FetchRateLimited
    BY <1>5 DEF FetchRateLimited, BeginRefresh, EndPoll, CanRecover
  <1>6. CASE FetchUnauthorized
    BY <1>6 DEF FetchUnauthorized, EndPoll
  <1>7. CASE RetryUnauthorized
    <2> DEFINE counted ==
          [auth EXCEPT !.failCount = Least(auth.failCount + 1, MaxAuthFailures)]
    <2>1. counted \in Auth /\ counted.paused = auth.paused
      BY <1>1, CountedFacts
    <2>2. \/ auth' = counted /\ EndPoll
          \/ auth' = counted /\ BeginRefresh("recovery") /\ CanRecover
          \/ auth' = PauseAuth(counted, retryToken) /\ EndPoll
      BY <1>7 DEF RetryUnauthorized
    <2> HIDE DEF counted
    <2>3. PauseAuth(counted, retryToken).retryIn # NoDeadline
      BY <1>1, <2>1, PauseAuthFacts
    <2> QED
      BY <1>7, <2>1, <2>2, <2>3 DEF RetryUnauthorized, BeginRefresh, EndPoll, CanRecover
  <1> QED
    BY <1>2, <1>3, <1>4, <1>5, <1>6, <1>7 DEF Fetching

\* Nor do time and the outside world.
LEMMA OutsideSafe == IInv /\ (Tick \/ OutsideStep) => Safe'
  <1> SUFFICES ASSUME IInv, Tick \/ OutsideStep PROVE Safe'
    OBVIOUS
  <1> USE DEF IInv, Safe, PausedHasDeadline, NoFetchWhilePaused, RefreshHasReason,
              memory, world
  <1>1. auth \in Auth /\ oauth \in OAuth
    BY DEF TypeOK
  <1>2. CASE Tick
    <2>1. /\ auth'.paused = auth.paused
          /\ auth.retryIn # NoDeadline => auth'.retryIn # NoDeadline
      BY <1>1, <1>2, TickFacts DEF Tick
    <2> QED
      BY <1>2, <2>1 DEF Tick
  <1>3. CASE StartOrQuitClaudeCode
    BY <1>3 DEF StartOrQuitClaudeCode
  <1>4. CASE ToggleSetting
    BY <1>4 DEF ToggleSetting
  <1>5. CASE ClaudeCodeRotates
    BY <1>5 DEF ClaudeCodeRotates
  <1>6. CASE Login
    BY <1>6 DEF Login
  <1>7. CASE Crash
    BY <1>7, ResumedFacts DEF Crash
  <1> QED
    BY <1>2, <1>3, <1>4, <1>5, <1>6, <1>7 DEF OutsideStep

\* The inductive step.
LEMMA Inductive == IInv /\ [Next]_vars => IInv'
  <1> SUFFICES ASSUME IInv, [Next]_vars PROVE IInv'
    OBVIOUS
  <1>1. CASE BeforeFetch
    BY <1>1, BeforeFetchTyped, BeforeFetchSafe DEF IInv, Safe
  <1>2. CASE Refreshing
    BY <1>2, RefreshingTyped, RefreshingSafe DEF IInv, Safe
  <1>3. CASE Fetching
    BY <1>3, FetchingTyped, FetchingSafe DEF IInv, Safe
  <1>4. CASE Tick \/ OutsideStep
    BY <1>4, OutsideTyped, OutsideSafe DEF IInv, Safe
  <1>5. CASE UNCHANGED vars
    BY <1>5 DEF IInv, TypeOK, PausedHasDeadline, NoFetchWhilePaused, RefreshHasReason,
                Stored, vars, memory, world
  <1> QED
    BY <1>1, <1>2, <1>3, <1>4, <1>5 DEF Next, AgentStep

-----------------------------------------------------------------------------
(* The escalating schedule *)

\* A step that keeps the attempt count or adds to it, or that may reset it.
KeepsSchedule ==
    auth'.retryCount < auth.retryCount =>
        \/ pc = "fetch" /\ pc' = "idle"
        \/ pc = "reread" /\ lastToken' # lastToken
        \/ Fresh'

\* A fetch resets the attempt count only at the end of the poll.
LEMMA StepsOfFetchKeepSchedule ==
    IInv /\ Fetching =>
        (pc = "fetch" /\ pc' = "idle") \/ auth'.retryCount = auth.retryCount
  <1> SUFFICES ASSUME IInv, Fetching
               PROVE  (pc = "fetch" /\ pc' = "idle") \/ auth'.retryCount = auth.retryCount
    OBVIOUS
  <1> USE DEF EndPoll
  <1>1. CASE RetryUnauthorized
    <2> DEFINE counted ==
          [auth EXCEPT !.failCount = Least(auth.failCount + 1, MaxAuthFailures)]
    <2>1. counted.retryCount = auth.retryCount
      BY CountedFacts DEF IInv, TypeOK
    <2>2. pc = "fetch" /\ (auth' = counted \/ pc' = "idle")
      BY <1>1 DEF RetryUnauthorized
    <2> HIDE DEF counted
    <2> QED
      BY <2>1, <2>2
  <1>2. CASE ~RetryUnauthorized
    BY <1>2
    DEF Fetching, FetchSucceeds, FetchAbandoned, RecoveredFetchFails, FetchRateLimited,
        FetchUnauthorized
  <1> QED
    BY <1>1, <1>2

\* Only a successful fetch, credentials that changed and a crash reset it.
LEMMA StepKeepsSchedule == IInv /\ [Next]_vars => KeepsSchedule
  <1> SUFFICES ASSUME IInv, [Next]_vars PROVE KeepsSchedule
    OBVIOUS
  <1> USE DEF KeepsSchedule, memory, world
  <1>1. /\ auth \in Auth /\ oauth \in OAuth
        /\ retryToken \in PairOrNone /\ lastToken \in PairOrNone
        /\ auth.retryCount \in Int
    BY DEF IInv, TypeOK, Auth
  <1>2. CASE auth'.retryCount >= auth.retryCount /\ auth'.retryCount \in Int
    BY <1>1, <1>2
  <1>3. CASE UNCHANGED auth
    BY <1>1, <1>2, <1>3
  <1>4. PausedByFailedRecovery.retryCount = auth.retryCount
    BY FailedRecoveryFacts DEF IInv
  <1>5. CASE BeforeFetch
    <2>1. CASE Reread
      BY <1>1, <2>1 DEF Reread
    <2>2. CASE RetryAtGate
      <3>1. auth'.retryCount >= auth.retryCount /\ auth' \in Auth
        BY <1>1, <2>2, AttemptFacts DEF RetryAtGate
      <3> QED
        BY <1>1, <3>1 DEF Auth
    <2> QED
      BY <1>3, <1>5, <2>1, <2>2
      DEF BeforeFetch, StatuslinePoll, ApiPoll, SkipProactive, ProactiveRefresh,
          PassGate, WaitAtGate
  <1>6. CASE Refreshing
    <2>1. CASE RefreshInvalidGrant
      <3> DEFINE failed == [auth EXCEPT !.failCount = MaxAuthFailures]
      <3>1. failed \in Auth /\ failed.retryCount = auth.retryCount
        BY <1>1, AuthAssumption DEF Auth
      <3>2. auth' = PauseAuth(failed, lastToken)
        BY <2>1 DEF RefreshInvalidGrant
      <3> HIDE DEF failed
      <3> QED
        BY <1>1, <3>1, <3>2, PauseAuthFacts
    <2>2. CASE Save
      <3>1. auth' = auth \/ auth' = Recovered(auth)
        <4>1. why = "proactive" => ~auth.paused
          BY <2>2 DEF Save, IInv, RefreshHasReason
        <4> QED
          BY <2>2, <4>1 DEF Save, AfterSave
      <3> QED
        BY <1>1, <3>1, RecoveredFacts
    <2> QED
      BY <1>1, <1>3, <1>4, <1>6, <2>1, <2>2
      DEF Refreshing, RefreshSucceeds, RefreshRateLimited, RefreshFails, RefreshAnswerLost
  <1>7. CASE Fetching
    BY <1>1, <1>3, <1>7, StepsOfFetchKeepSchedule
  <1>8. CASE Tick
    BY <1>1, <1>8, TickFacts DEF Tick
  <1>9. CASE OutsideStep
    BY <1>3, <1>9
    DEF OutsideStep, StartOrQuitClaudeCode, ToggleSetting, ClaudeCodeRotates, Login,
        Crash, Fresh
  <1>10. CASE UNCHANGED vars
    BY <1>3, <1>10 DEF vars
  <1> QED
    BY <1>5, <1>6, <1>7, <1>8, <1>9, <1>10 DEF Next, AgentStep

-----------------------------------------------------------------------------
(* Theorems *)

LEMMA Invariance == Spec => []IInv
  BY InitIInv, Inductive, PTL DEF Spec

\* Every field of the agent, its two backoffs included, keeps its range.
THEOREM TypeCorrect == Spec => []TypeOK
  BY Invariance, PTL DEF IInv

\* Issue 111: an agent that has paused its polling always has a time at which it
\* tries to recover, whatever the OAuth server, the usage API, Claude Code and
\* the user have done.
THEOREM PausedAgentHasDeadline == Spec => []PausedHasDeadline
  BY Invariance, PTL DEF IInv

\* A paused agent does not call the usage API.
THEOREM PausedAgentDoesNotFetch == Spec => []NoFetchWhilePaused
  BY Invariance, PTL DEF IInv

\* The escalation of the retry delay survives a recovery that does not hold.
THEOREM ScheduleIsKept == Spec => ScheduleKept
  <1>1. IInv /\ [Next]_vars => [KeepsSchedule]_vars
    BY StepKeepsSchedule
  <1> QED
    BY <1>1, Invariance, PTL DEF Spec, ScheduleKept, KeepsSchedule

-----------------------------------------------------------------------------
(* Spent pairs, without a keyring: the write of one may fail unseen.  What   *)
(* must be shown is that a save which fails never overwrites the mark of a   *)
(* pair that is still stored: the pair it would take the place of was spent, *)
(* so that the refresh of it could not have succeeded.                       *)

\* The pairs there are, and those that the agent has in hand.
PairsAreIssued ==
    /\ keyring = None
    /\ file \in 1 .. minted
    /\ spent \subseteq 1 .. minted
    /\ superseded # None => superseded \in spent
    /\ pc \in {"refresh", "save"} => held \in 1 .. minted

\* The pair that is marked is no longer stored once another one is refreshed.
MarkIsOfAnother ==
    /\ pc = "refresh" => file = held \/ file # superseded
    /\ pc = "save" =>
          /\ file # superseded
          /\ held \in spent
          /\ fresh \in (1 .. minted) \ spent
          /\ fresh # file

SpentInv == PairsAreIssued /\ MarkIsOfAnother /\ SpentPairIsKnown

\* It holds when the user has logged in for the first time.
LEMMA InitSpent == ~HasKeyring /\ Init => SpentInv
  BY DEF Init, Fresh, SpentInv, PairsAreIssued, MarkIsOfAnother, SpentPairIsKnown, Stored, None

\* Every step keeps it.
LEMMA SpentKept ==
    ASSUME ~HasKeyring, TypeOK, SpentInv, [Next]_vars
    PROVE  SpentInv'
  <1> USE DEF SpentInv, PairsAreIssued, MarkIsOfAnother, SpentPairIsKnown, Stored, None
  <1>0. /\ minted \in Nat \ {0} /\ minted + 1 \in Nat
        /\ 1 .. minted \subseteq 1 .. (minted + 1)
        /\ minted + 1 \in 1 .. (minted + 1) /\ minted + 1 \notin 1 .. minted
    BY DEF TypeOK, Pairs
  <1>1. CASE BeforeFetch
    <2>1. UNCHANGED <<file, keyring, minted, spent, lost, superseded, fresh>>
      BY <1>1 DEF BeforeFetch, StatuslinePoll, ApiPoll, SkipProactive, ProactiveRefresh, Reread,
                  PassGate, WaitAtGate, RetryAtGate, world
    <2>2. /\ pc \notin {"refresh", "save"} /\ pc' # "save"
          /\ pc' = "refresh" => held' = Stored
      BY <1>1 DEF BeforeFetch, StatuslinePoll, ApiPoll, SkipProactive, ProactiveRefresh, Reread,
                  PassGate, WaitAtGate, RetryAtGate, BeginRefresh
    <2> QED
      BY <2>1, <2>2
  <1>2. CASE RefreshSucceeds
    <2>1. /\ pc = "refresh" /\ pc' = "save" /\ held \notin spent /\ held' = held
          /\ minted' = minted + 1 /\ spent' = spent \cup {held} /\ fresh' = minted + 1
          /\ UNCHANGED <<file, keyring, superseded, lost>>
      BY <1>2 DEF RefreshSucceeds, Mint
    <2>2. file # superseded
      BY <2>1
    <2>3. fresh' \in (1 .. minted') \ spent' /\ fresh' # file'
      BY <1>0, <2>1
    <2>4. PairsAreIssued'
      <3>1. held \in 1 .. minted /\ held \in 1 .. (minted + 1)
        BY <1>0, <2>1
      <3>2. file' \in 1 .. (minted + 1) /\ spent' \subseteq 1 .. (minted + 1)
        BY <1>0, <2>1, <3>1
      <3> QED
        BY <2>1, <3>1, <3>2
    <2> QED
      BY <2>1, <2>2, <2>3, <2>4
  <1>3. CASE RefreshAnswerLost
    <2>1. /\ pc = "refresh" /\ pc' \notin {"refresh", "save"}
          /\ minted' = minted + 1 /\ spent' = spent \cup {held} /\ lost' = lost \cup {held}
          /\ UNCHANGED <<file, keyring, superseded>>
      BY <1>3 DEF RefreshAnswerLost, Mint, AfterFailedRefresh
    <2>2. file' \in 1 .. (minted + 1) /\ spent' \subseteq 1 .. (minted + 1)
      BY <1>0, <2>1
    <2> QED
      BY <2>1, <2>2
  <1>4. CASE RefreshRateLimited \/ RefreshInvalidGrant \/ RefreshFails
    <2>1. /\ pc = "refresh" /\ pc' \notin {"refresh", "save"}
          /\ UNCHANGED <<file, keyring, superseded, minted, spent, lost>>
      BY <1>4 DEF RefreshRateLimited, RefreshInvalidGrant, RefreshFails, AfterFailedRefresh, world
    <2> QED
      BY <2>1
  <1>5. CASE Save
    <2>1. /\ pc = "save" /\ pc' \notin {"refresh", "save"}
          /\ keyring' = None /\ UNCHANGED <<minted, spent, lost>>
          /\ \/ file' = fresh /\ superseded' = None
             \/ file' = file /\ superseded' = held
      BY <1>5 DEF Save, WriteKeyring, FileWritten, FileFails, AfterSave
    <2>2. CASE file' = fresh /\ superseded' = None
      BY <2>1, <2>2
    <2>3. CASE file' = file /\ superseded' = held
      BY <2>1, <2>3
    <2> QED
      BY <2>1, <2>2, <2>3
  <1>6. CASE Fetching
    <2>1. UNCHANGED <<file, keyring, minted, spent, lost, superseded, fresh>>
      BY <1>6 DEF Fetching, FetchSucceeds, FetchAbandoned, RecoveredFetchFails, FetchRateLimited,
                  FetchUnauthorized, RetryUnauthorized, world
    <2>2. /\ pc = "fetch" /\ pc' # "save"
          /\ pc' = "refresh" => held' = Stored
      BY <1>6 DEF Fetching, FetchSucceeds, FetchAbandoned, RecoveredFetchFails, FetchRateLimited,
                  FetchUnauthorized, RetryUnauthorized, BeginRefresh, EndPoll
    <2> QED
      BY <2>1, <2>2
  <1>7. CASE ClaudeCodeRotates \/ Login
    <2>1. /\ UNCHANGED <<pc, held, fresh, superseded, keyring, lost>>
          /\ minted' = minted + 1 /\ file' = minted + 1
          /\ spent' = spent \/ spent' = spent \cup {file}
      BY <1>7 DEF ClaudeCodeRotates, Login, WriteByClaudeCode, memory
    <2>2. file' \notin spent' /\ file' # superseded'
      BY <1>0, <2>1
    <2>3. file' \in 1 .. (minted + 1) /\ spent' \subseteq 1 .. (minted + 1)
      BY <1>0, <2>1
    <2>4. pc \in {"refresh", "save"} => held \in 1 .. (minted + 1)
      BY <1>0
    <2>5. pc = "save" => fresh \in (1 .. (minted + 1)) \ spent' /\ fresh # file' /\ held \in spent'
      BY <1>0, <2>1
    <2> QED
      BY <2>1, <2>2, <2>3, <2>4, <2>5
  <1>8. CASE Crash
    <2>1. /\ UNCHANGED <<file, keyring, minted, spent>>
          /\ pc' = "idle" /\ superseded' = None
          /\ lost' = lost \cup (IF pc = "save" THEN {held} ELSE {})
                          \cup (IF superseded # None THEN {superseded} ELSE {})
      BY <1>8 DEF Crash
    <2> QED
      BY <2>1
  <1>9. CASE Tick \/ StartOrQuitClaudeCode \/ ToggleSetting \/ UNCHANGED vars
    <2>1. UNCHANGED <<pc, held, fresh, superseded, file, keyring, minted, spent, lost>>
      BY <1>9 DEF Tick, StartOrQuitClaudeCode, ToggleSetting, vars, memory, world
    <2> QED
      BY <2>1
  <1> QED
    BY <1>1, <1>2, <1>3, <1>4, <1>5, <1>6, <1>7, <1>8, <1>9
    DEF Next, AgentStep, Refreshing, OutsideStep

\* The invariant that both theorems about spent pairs follow from.
LEMMA SpentInvariant == ~HasKeyring => (Spec => [](TypeOK /\ SpentInv))
  <1> SUFFICES ASSUME ~HasKeyring PROVE Spec => [](TypeOK /\ SpentInv)
    OBVIOUS
  <1>1. Init => SpentInv
    BY InitSpent
  <1>2. TypeOK /\ SpentInv /\ [Next]_vars => SpentInv'
    BY SpentKept
  <1> QED
    BY <1>1, <1>2, TypeCorrect, PTL DEF Spec

\* Where there is no keyring, as long as a spent pair is stored its successor is
\* about to be saved, or the agent knows that the pair is superseded, or nobody
\* holds the successor any more: whatever write fails, whatever answer is lost,
\* whenever the daemon dies and Claude Code or the user write the file.
THEOREM SpentPairsAreKnown == ~HasKeyring => (Spec => []SpentPairIsKnown)
  <1>1. SpentInv => SpentPairIsKnown
    BY DEF SpentInv
  <1> QED
    BY <1>1, SpentInvariant, PTL

\* Where there is no keyring, the re-read before a poll never goes back to a
\* spent pair as long as somebody holds its successor.
THEOREM RereadKeepsSuccessor == ~HasKeyring => (Spec => RereadNeverDowngrades)
  <1> DEFINE Kept == pc = "reread" /\ pc' = "gate" /\ lastToken' < lastToken
                        => lastToken' \notin spent \/ lastToken' \in lost
  <1>1. TypeOK /\ SpentInv /\ [Next]_vars => [Kept]_vars
    <2> SUFFICES ASSUME TypeOK, SpentInv, [Next]_vars, pc = "reread", pc' = "gate",
                        lastToken' < lastToken
                 PROVE  lastToken' \notin spent \/ lastToken' \in lost
      OBVIOUS
    <2>1. Reread
      BY DEF Next, AgentStep, BeforeFetch, StatuslinePoll, ApiPoll, SkipProactive,
             ProactiveRefresh, PassGate, WaitAtGate, RetryAtGate, BeginRefresh,
             Refreshing, RefreshSucceeds, RefreshRateLimited, RefreshInvalidGrant, RefreshFails,
             RefreshAnswerLost, Save, Fetching, FetchSucceeds, FetchAbandoned,
             RecoveredFetchFails, FetchRateLimited, FetchUnauthorized, RetryUnauthorized,
             Tick, OutsideStep, StartOrQuitClaudeCode, ToggleSetting, ClaudeCodeRotates, Login,
             Crash, vars, memory
    <2>2. lastToken' = Stored /\ Stored # superseded
      BY <2>1 DEF Reread, TypeOK, PairOrNone
    <2> QED
      BY <2>2 DEF SpentInv, PairsAreIssued, SpentPairIsKnown, Stored, None
  <1> QED
    BY <1>1, SpentInvariant, PTL DEF Spec, RereadNeverDowngrades
=============================================================================
