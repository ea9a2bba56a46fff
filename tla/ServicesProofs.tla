----------------------------- MODULE ServicesProofs -----------------------------
(***************************************************************************)
(* Machine-checked proofs about the agents that keep the tokens of other   *)
(* tools, GeminiAuth, CursorAuth and CodexAuth, for every number of        *)
(* tokens, logins, pairs and failures, and for every value of the limits   *)
(* on failed authorisations.                                               *)
(*                                                                         *)
(* Gemini: that a pause is earned relates the agent's counter to the       *)
(* refusals of Google.  It is inductive once the order of the two is       *)
(* known: a refusal is counted by Google before it is by the agent, and in *)
(* between the poll is at "recovery" or "retry", where the agent is still  *)
(* behind.                                                                 *)
(*                                                                         *)
(* Cursor: which of the two stores counts changes with the accounts in     *)
(* them, so that the stored refresh token is unspent is inductive only for *)
(* both stores at once.                                                    *)
(*                                                                         *)
(* Codex: that a profile keeps to its own account needs the labels of the  *)
(* shared files to be right, which holds beside the agent of a profile and *)
(* not beside the default one: that writes to whichever file it finds.     *)
(***************************************************************************)
EXTENDS GeminiAuth, CursorAuth, CodexAuth, TLAPS


AgentShape == [last : {NoToken} \cup GeminiTokens, failed : {NoToken} \cup GeminiTokens,
               fails : 0 .. MaxGeminiAuthFailures, paused : BOOLEAN]

PollShape == [at : {"idle", "proactive", "fetch", "recovery", "retry"}, read : Credentials]

GoogleShape == [issued : Seq(GeminiGrants), soon : Int, dead : Int,
                revoked : SUBSET GeminiGrants, grants : GeminiGrants]

HistoryShape == [refusals : 0 .. MaxGeminiAuthFailures, faults : 0 .. MaxGeminiFaults]

AgentOK == gemini \in AgentShape
PollOK  == gpoll \in PollShape
FilesOK == gtable \in Credentials /\ gfile \in Credentials /\ genv \in {NoToken} \cup GeminiGrants
GoogleOK ==
    /\ google \in GoogleShape
    /\ google.dead <= google.soon /\ google.soon <= Len(google.issued)
    /\ Len(google.issued) <= MaxGeminiTokens
HistoryOK == ghistory \in HistoryShape /\ gallowed \in BOOLEAN
FileTokenIsIssued == gfile.access <= Len(google.issued)

GeminiTypes == AgentOK /\ PollOK /\ FilesOK /\ GoogleOK /\ HistoryOK /\ FileTokenIsIssued

\* The agent never counts more refusals than there were, and is one behind
\* while it tries to mend the last one.
CountIsBehind ==
    /\ gemini.fails <= ghistory.refusals
    /\ gpoll.at \in {"recovery", "retry"} => gemini.fails < ghistory.refusals

\* A paused agent does not get as far as the fetch, and one that is not paused
\* has failures left.
PausedRests ==
    /\ gemini.paused => gpoll.at \notin {"fetch", "recovery", "retry"}
    /\ ~gemini.paused => gemini.fails < MaxGeminiAuthFailures

PauseInv == CountIsBehind /\ PausedRests /\ PauseIsEarned

\* Where the file holds a token of another grant, the table holds that grant.
TableHoldsForeignGrant ==
    /\ gfile.access # NoToken /\ gfile.refresh # NoToken
    /\ google.issued[gfile.access] # gfile.refresh
    /\ ghistory.faults = 0
    => gtable.refresh # NoToken /\ gtable.refresh = google.issued[gfile.access]

USE DEF NoToken, GeminiTokens, GeminiGrants

-----------------------------------------------------------------------------
(* Types *)

\* What poll reads is made of what the three sources hold.
LEMMA MergedIsCredentials ==
  ASSUME FilesOK
  PROVE  Merged \in Credentials
BY DEF FilesOK, Merged, First, FileCredentials, Credentials, NoCredentials

\* An agent between two polls, or at a later stage with nothing read, is in the
\* shape of a poll.
LEMMA BetweenPolls ==
  /\ Between \in PollShape /\ Between.at = "idle"
  /\ [Between EXCEPT !.at = "fetch"] \in PollShape
  /\ [Between EXCEPT !.at = "fetch"].at = "fetch"
  /\ [Between EXCEPT !.at = "retry"] \in PollShape
  /\ [Between EXCEPT !.at = "retry"].at = "retry"
BY DEF Between, PollShape, Credentials, NoCredentials

\* Taking over a token keeps the shape of the agent, its counter or a fresh one.
LEMMA AdoptKeepsShape ==
  ASSUME NEW a \in AgentShape, NEW token \in {NoToken} \cup GeminiTokens
  PROVE  /\ Adopt(a, token) \in AgentShape
         /\ \/ Adopt(a, token).fails = a.fails /\ Adopt(a, token).paused = a.paused
            \/ Adopt(a, token).fails = 0 /\ Adopt(a, token).paused = FALSE
<1> USE DEF AgentShape
<1>1. [a EXCEPT !.last = token] \in AgentShape
  OBVIOUS
<1>2. 0 \in 0 .. MaxGeminiAuthFailures
  BY GeminiAssumption DEF GeminiAssumption
<1>3. Unpaused(a) \in AgentShape /\ Unpaused(a).fails = 0 /\ Unpaused(a).paused = FALSE
  BY <1>2 DEF Unpaused
<1>4. [Unpaused(a) EXCEPT !.last = token] \in AgentShape
  BY <1>3
<1>5. [a EXCEPT !.last = token].fails = a.fails /\ [a EXCEPT !.last = token].paused = a.paused
  OBVIOUS
<1>6. /\ [Unpaused(a) EXCEPT !.last = token].fails = 0
      /\ [Unpaused(a) EXCEPT !.last = token].paused = FALSE
  BY <1>3
<1>7. Adopt(a, token) \in {a, [a EXCEPT !.last = token], [Unpaused(a) EXCEPT !.last = token]}
  BY DEF Adopt
<1>8. QED
  BY <1>1, <1>4, <1>5, <1>6, <1>7

\* Issuing a token appends it; what was issued before stays.
LEMMA IssueAppends ==
  ASSUME GoogleOK, NEW grant \in GeminiGrants, Len(google.issued) < MaxGeminiTokens,
         NEW g, g = [google EXCEPT !.issued = Append(@, grant)]
  PROVE  /\ g \in GoogleShape
         /\ Len(g.issued) = Len(google.issued) + 1 /\ Len(g.issued) <= MaxGeminiTokens
         /\ g.dead = google.dead /\ g.soon = google.soon
         /\ g.dead <= g.soon /\ g.soon <= Len(g.issued)
         /\ g.grants = google.grants /\ g.revoked = google.revoked
         /\ g.issued[NewToken] = grant
         /\ \A i \in 1 .. Len(google.issued) : g.issued[i] = google.issued[i]
         /\ NewToken \in GeminiTokens /\ NewToken = Len(g.issued)
<1>1. google \in GoogleShape /\ google.issued \in Seq(GeminiGrants)
  BY DEF GoogleOK, GoogleShape
<1>2. g.issued = Append(google.issued, grant) /\ Len(google.issued) \in Nat
  BY <1>1 DEF GoogleShape
<1>3. /\ g.issued \in Seq(GeminiGrants) /\ Len(g.issued) = Len(google.issued) + 1
      /\ g.issued[Len(google.issued) + 1] = grant
      /\ \A i \in 1 .. Len(google.issued) : g.issued[i] = google.issued[i]
  BY <1>1, <1>2
<1>4. g \in GoogleShape
  BY <1>1, <1>2, <1>3 DEF GoogleShape
<1>5. /\ g.dead = google.dead /\ g.soon = google.soon
      /\ g.grants = google.grants /\ g.revoked = google.revoked
      /\ google.dead \in Int /\ google.soon \in Int
  BY <1>1 DEF GoogleShape
<1>6. NewToken \in GeminiTokens /\ NewToken = Len(g.issued) /\ Len(g.issued) <= MaxGeminiTokens
  BY <1>2, <1>3, GeminiAssumption DEF NewToken, GeminiAssumption
<1>7. QED
  BY <1>2, <1>3, <1>4, <1>5, <1>6 DEF NewToken, GoogleOK

\* A refresh with a grant that Google accepts: the token is issued, and the file
\* and the table take it up or not.
LEMMA RefreshKeepsTypes ==
  ASSUME GeminiTypes, Refreshable(gpoll.read.refresh), Issue(gpoll.read.refresh),
         SaveTokens(NewToken, gpoll.read.refresh), UNCHANGED <<genv, gallowed>>
  PROVE  /\ gpoll.read.refresh \in GeminiGrants /\ NewToken \in GeminiTokens
         /\ FilesOK' /\ GoogleOK' /\ HistoryOK' /\ FileTokenIsIssued'
         /\ ghistory'.refusals = ghistory.refusals
<1> DEFINE grant == gpoll.read.refresh
<1>1. grant \in GeminiGrants
  BY DEF GeminiTypes, PollOK, PollShape, Refreshable, Credentials
<1>2. Len(google.issued) < MaxGeminiTokens /\ google' = [google EXCEPT !.issued = Append(@, grant)]
  BY DEF Issue
<1>3. GoogleOK
  BY DEF GeminiTypes
<1> HIDE DEF grant
<1>4. /\ GoogleOK' /\ NewToken \in GeminiTokens
      /\ NewToken = Len(google'.issued) /\ NewToken = Len(google.issued) + 1
  BY <1>1, <1>2, <1>3, IssueAppends DEF GoogleOK, NewToken
<1>5. PICK fileOK \in BOOLEAN, tableOK \in BOOLEAN :
         /\ ghistory.faults + ((IF fileOK THEN 0 ELSE 1) + (IF tableOK THEN 0 ELSE 1)) <= MaxGeminiFaults
         /\ ghistory' = [ghistory EXCEPT !.faults = @ + ((IF fileOK THEN 0 ELSE 1)
                                                        + (IF tableOK THEN 0 ELSE 1))]
         /\ gfile' = IF fileOK THEN [gfile EXCEPT !.access = NewToken] ELSE gfile
         /\ gtable' = IF tableOK THEN [access |-> NewToken, refresh |-> grant] ELSE gtable
  BY DEF SaveTokens, grant
<1>6. /\ gfile \in Credentials /\ gtable \in Credentials /\ ghistory \in HistoryShape
      /\ gfile.access <= Len(google.issued) /\ Len(google.issued) \in Nat
  BY <1>3 DEF GeminiTypes, FilesOK, HistoryOK, FileTokenIsIssued, GoogleOK, GoogleShape
<1>7. /\ gfile' \in Credentials /\ gtable' \in Credentials /\ gfile'.access <= NewToken
  BY <1>1, <1>4, <1>5, <1>6 DEF Credentials
<1>8. ghistory' \in HistoryShape /\ ghistory'.refusals = ghistory.refusals
  BY <1>5, <1>6, GeminiAssumption DEF HistoryShape, GeminiAssumption
<1>9. FilesOK' /\ HistoryOK' /\ FileTokenIsIssued'
  BY <1>4, <1>7, <1>8 DEF GeminiTypes, FilesOK, HistoryOK, FileTokenIsIssued
<1>10. QED
  BY <1>1, <1>4, <1>8, <1>9 DEF grant

\* The types hold at the start.
LEMMA InitTypes == GeminiInit => GeminiTypes
<1> SUFFICES ASSUME GeminiInit PROVE GeminiTypes
  OBVIOUS
<1>0. /\ MaxGeminiAuthFailures \in Nat /\ MaxGeminiFaults \in Nat
      /\ MaxGeminiTokens \in Nat \ {0} /\ MaxGeminiLogins \in Nat \ {0}
  BY GeminiAssumption DEF GeminiAssumption
<1>1. <<1>> \in Seq(GeminiGrants) /\ Len(<<1>>) = 1
  BY <1>0
<1>2. AgentOK /\ PollOK
  BY <1>0, BetweenPolls DEF GeminiInit, AgentOK, AgentShape, NewGeminiAgent, PollOK
<1>3. FilesOK /\ gfile.access \in {0, 1}
  BY <1>0 DEF GeminiInit, FilesOK, Credentials, NoCredentials
<1>4. GoogleOK
  <2>1. google = [issued |-> <<1>>, soon |-> 0, dead |-> 0, revoked |-> {}, grants |-> 1]
    BY DEF GeminiInit
  <2>2. google \in GoogleShape
    BY <1>0, <1>1, <2>1 DEF GoogleShape
  <2>3. QED
    BY <1>0, <1>1, <2>1, <2>2 DEF GoogleOK
<1>5. HistoryOK
  BY <1>0 DEF GeminiInit, HistoryOK, HistoryShape
<1>6. FileTokenIsIssued
  BY <1>1, <1>3 DEF GeminiInit, FileTokenIsIssued
<1>7. QED
  BY <1>2, <1>3, <1>4, <1>5, <1>6 DEF GeminiTypes

\* Every step keeps the types, the order of the tokens that have ended, and that the
\* file holds no token that was not issued.
LEMMA TypesPreserved ==
  ASSUME GeminiTypes, PauseInv, [GeminiNext]_geminiVars
  PROVE  GeminiTypes'
<1>0. AgentOK /\ PollOK /\ FilesOK /\ GoogleOK /\ HistoryOK /\ FileTokenIsIssued /\ Merged \in Credentials
  BY MergedIsCredentials DEF GeminiTypes
<1>1. CASE ReadCredentials \/ ProactiveRefreshFails
  <2>1. PICK token \in {NoToken} \cup GeminiTokens : gemini' = Adopt(gemini, token)
    BY <1>0, <1>1 DEF ReadCredentials, ProactiveRefreshFails, PollOK, PollShape, Credentials
  <2>2. AgentOK'
    BY <1>0, <2>1, AdoptKeepsShape DEF AgentOK
  <2>3. PollOK'
    BY <1>1, BetweenPolls DEF ReadCredentials, ProactiveRefreshFails, ToFetch, PollOK
  <2>4. FilesOK' /\ GoogleOK' /\ HistoryOK' /\ FileTokenIsIssued'
    BY <1>0, <1>1 DEF ReadCredentials, ProactiveRefreshFails, FilesOK, GoogleOK, HistoryOK,
                      FileTokenIsIssued
  <2>5. QED
    BY <2>2, <2>3, <2>4 DEF GeminiTypes
<1>2. CASE BeginProactiveRefresh
  <2>1. PollOK'
    BY <1>0, <1>2 DEF BeginProactiveRefresh, PollOK, PollShape
  <2>2. AgentOK' /\ FilesOK' /\ GoogleOK' /\ HistoryOK' /\ FileTokenIsIssued'
    BY <1>0, <1>2 DEF BeginProactiveRefresh, AgentOK, FilesOK, GoogleOK, HistoryOK,
                      FileTokenIsIssued
  <2>3. QED
    BY <2>1, <2>2 DEF GeminiTypes
<1>3. CASE ProactivelyRefreshed
  <2>1. FilesOK' /\ GoogleOK' /\ HistoryOK' /\ FileTokenIsIssued' /\ NewToken \in GeminiTokens
    BY <1>3, RefreshKeepsTypes DEF ProactivelyRefreshed
  <2> DEFINE restored == IF gemini.paused THEN Unpaused(gemini) ELSE gemini
             a == [restored EXCEPT !.last = NewToken]
  <2>2. a \in AgentShape
    <3>1. restored \in AgentShape
      <4>1. 0 \in 0 .. MaxGeminiAuthFailures
        BY GeminiAssumption DEF GeminiAssumption
      <4>2. QED
        BY <1>0, <4>1 DEF AgentOK, AgentShape, Unpaused
    <3>2. QED
      BY <2>1, <3>1 DEF AgentShape
  <2>3. gemini' = Adopt(a, gpoll.read.access)
    BY <1>3 DEF ProactivelyRefreshed
  <2>4. gpoll.read.access \in {NoToken} \cup GeminiTokens
    BY <1>0 DEF PollOK, PollShape, Credentials
  <2> HIDE DEF a
  <2>5. AgentOK'
    BY <2>2, <2>3, <2>4, AdoptKeepsShape DEF AgentOK
  <2>6. PollOK'
    BY <1>3, BetweenPolls DEF ProactivelyRefreshed, ToFetch, PollOK
  <2>7. QED
    BY <2>1, <2>5, <2>6 DEF GeminiTypes
<1>4. CASE FetchAnswered \/ FetchFails
  <2>1. AgentOK' /\ HistoryOK'
    <3>1. 0 \in 0 .. MaxGeminiAuthFailures
      BY GeminiAssumption DEF GeminiAssumption
    <3>2. QED
      BY <1>0, <1>4, <3>1 DEF FetchAnswered, FetchFails, AgentOK, AgentShape, HistoryOK, HistoryShape
  <2>2. PollOK'
    BY <1>4, BetweenPolls DEF FetchAnswered, FetchFails, PollOK
  <2>3. FilesOK' /\ GoogleOK' /\ FileTokenIsIssued'
    BY <1>0, <1>4 DEF FetchAnswered, FetchFails, FilesOK, GoogleOK, FileTokenIsIssued
  <2>4. QED
    BY <2>1, <2>2, <2>3 DEF GeminiTypes
<1>5. CASE FetchRefused
  <2>1. HistoryOK'
    <3>1. ghistory \in HistoryShape /\ MaxGeminiAuthFailures \in Nat
      BY <1>0, GeminiAssumption DEF HistoryOK, GeminiAssumption
    <3>2. Refused(ghistory) \in HistoryShape
      BY <3>1 DEF Refused, HistoryShape
    <3>3. QED
      BY <1>0, <1>5, <3>2 DEF FetchRefused, HistoryOK
  <2>2. PollOK'
    BY <1>0, <1>5, BetweenPolls DEF FetchRefused, PollOK, PollShape
  <2>3. AgentOK' /\ FilesOK' /\ GoogleOK' /\ FileTokenIsIssued'
    BY <1>0, <1>5 DEF FetchRefused, AgentOK, FilesOK, GoogleOK, FileTokenIsIssued
  <2>4. QED
    BY <2>1, <2>2, <2>3 DEF GeminiTypes
<1>6. CASE Recovered
  <2>1. FilesOK' /\ GoogleOK' /\ HistoryOK' /\ FileTokenIsIssued' /\ NewToken \in GeminiTokens
    BY <1>6, RefreshKeepsTypes DEF Recovered
  <2>2. AgentOK'
    BY <1>0, <1>6, <2>1 DEF Recovered, AgentOK, AgentShape
  <2>3. PollOK'
    BY <1>6, BetweenPolls DEF Recovered, PollOK
  <2>4. QED
    BY <2>1, <2>2, <2>3 DEF GeminiTypes
<1>7. CASE RecoveryFails \/ RetryRefused
  <2>1. gemini.fails + 1 \in 0 .. MaxGeminiAuthFailures
    <3>1. gpoll.at \in {"recovery", "retry"}
      BY <1>7 DEF RecoveryFails, RetryRefused
    <3>2. gemini.fails < ghistory.refusals
      BY <3>1 DEF PauseInv, CountIsBehind
    <3>3. gemini.fails \in Nat /\ ghistory.refusals \in 0 .. MaxGeminiAuthFailures
      BY <1>0 DEF AgentOK, AgentShape, HistoryOK, HistoryShape
    <3>4. QED
      BY <3>2, <3>3, GeminiAssumption DEF GeminiAssumption
  <2>2. CountFailure(gemini) \in AgentShape
    BY <1>0, <2>1 DEF CountFailure, AgentOK, AgentShape
  <2>3. AgentOK'
    BY <1>0, <1>7, <2>2 DEF RecoveryFails, RetryRefused, AgentOK, AgentShape
  <2>4. PollOK'
    BY <1>7, BetweenPolls DEF RecoveryFails, RetryRefused, PollOK
  <2>5. FilesOK' /\ GoogleOK' /\ HistoryOK' /\ FileTokenIsIssued'
    BY <1>0, <1>7 DEF RecoveryFails, RetryRefused, FilesOK, GoogleOK, HistoryOK, FileTokenIsIssued
  <2>6. QED
    BY <2>3, <2>4, <2>5 DEF GeminiTypes
<1>8. CASE TokensAge \/ RevokeGrant
  <2>1. google' \in GoogleShape /\ google'.issued = google.issued
    BY <1>0, <1>8 DEF TokensAge, RevokeGrant, GoogleOK, GoogleShape
  <2>2. google'.dead <= google'.soon /\ google'.soon <= Len(google.issued)
    <3>1. /\ google.dead \in Int /\ google.soon \in Int /\ Len(google.issued) \in Nat
          /\ google \in GoogleShape
      BY <1>0 DEF GoogleOK, GoogleShape
    <3>2. QED
      BY <1>0, <1>8, <3>1 DEF TokensAge, RevokeGrant, GoogleOK, GoogleShape
  <2>3. GoogleOK' /\ FileTokenIsIssued'
    BY <1>0, <1>8, <2>1, <2>2 DEF TokensAge, RevokeGrant, GoogleOK, FileTokenIsIssued
  <2>4. AgentOK' /\ PollOK' /\ FilesOK' /\ HistoryOK'
    BY <1>0, <1>8 DEF TokensAge, RevokeGrant, AgentOK, PollOK, FilesOK, HistoryOK
  <2>5. QED
    BY <2>3, <2>4 DEF GeminiTypes
<1>9. CASE CLILogin
  <2> DEFINE g == [google EXCEPT !.issued = Append(@, google.grants + 1)]
  <2>1. google.grants + 1 \in GeminiGrants /\ Len(google.issued) < MaxGeminiTokens
    BY <1>0, <1>9, GeminiAssumption DEF CLILogin, GoogleOK, GoogleShape, GeminiAssumption
  <2>2. /\ g \in GoogleShape /\ Len(g.issued) <= MaxGeminiTokens
        /\ g.dead <= g.soon /\ g.soon <= Len(g.issued)
        /\ NewToken \in GeminiTokens /\ NewToken = Len(g.issued)
    BY <1>0, <2>1, IssueAppends
  <2>3. google' = [g EXCEPT !.grants = google.grants + 1]
    BY <1>9 DEF CLILogin
  <2> HIDE DEF g
  <2>4. GoogleOK' /\ google'.issued = g.issued
    BY <2>1, <2>2, <2>3 DEF GoogleOK, GoogleShape
  <2>5. gfile' = [access |-> NewToken, refresh |-> google.grants + 1]
    BY <1>9 DEF CLILogin
  <2>6. FilesOK' /\ FileTokenIsIssued'
    <3>1. gfile'.access = Len(google'.issued) /\ Len(google'.issued) \in Nat
      BY <2>2, <2>4, <2>5 DEF GoogleShape
    <3>2. QED
      BY <1>0, <1>9, <2>1, <2>2, <2>5, <3>1 DEF CLILogin, FilesOK, Credentials, FileTokenIsIssued
  <2>7. AgentOK' /\ PollOK' /\ HistoryOK'
    BY <1>0, <1>9 DEF CLILogin, AgentOK, PollOK, HistoryOK
  <2>8. QED
    BY <2>4, <2>6, <2>7 DEF GeminiTypes
<1>10. CASE CLIRefreshes
  <2>1. /\ gfile.refresh \in GeminiGrants /\ Len(google.issued) < MaxGeminiTokens
        /\ google' = [google EXCEPT !.issued = Append(@, gfile.refresh)]
    BY <1>0, <1>10 DEF CLIRefreshes, Refreshable, Issue, FilesOK, Credentials
  <2>2. /\ google' \in GoogleShape /\ Len(google'.issued) <= MaxGeminiTokens
        /\ google'.dead <= google'.soon /\ google'.soon <= Len(google'.issued)
        /\ NewToken \in GeminiTokens /\ NewToken = Len(google'.issued)
    BY <1>0, <2>1, IssueAppends
  <2>3. GoogleOK'
    BY <2>2 DEF GoogleOK
  <2>4. gfile' \in Credentials /\ gfile'.access = NewToken
    BY <1>0, <1>10, <2>2 DEF CLIRefreshes, FilesOK, Credentials
  <2>5. FilesOK' /\ FileTokenIsIssued'
    BY <1>0, <1>10, <2>2, <2>4 DEF CLIRefreshes, FilesOK, FileTokenIsIssued
  <2>6. AgentOK' /\ PollOK' /\ HistoryOK'
    BY <1>0, <1>10 DEF CLIRefreshes, AgentOK, PollOK, HistoryOK
  <2>7. QED
    BY <2>3, <2>5, <2>6 DEF GeminiTypes
<1>11. CASE ToggleGeminiRefresh
  BY <1>0, <1>11 DEF ToggleGeminiRefresh, GeminiTypes, AgentOK, PollOK, FilesOK, GoogleOK, HistoryOK,
                     FileTokenIsIssued
<1>12. CASE RestartGemini
  <2>1. 0 \in 0 .. MaxGeminiAuthFailures
    BY GeminiAssumption DEF GeminiAssumption
  <2>2. AgentOK' /\ HistoryOK'
    BY <1>0, <1>12, <2>1 DEF RestartGemini, NewGeminiAgent, AgentOK, AgentShape, HistoryOK, HistoryShape
  <2>3. PollOK'
    BY <1>12, BetweenPolls DEF RestartGemini, PollOK
  <2>4. FilesOK' /\ GoogleOK' /\ FileTokenIsIssued'
    BY <1>0, <1>12 DEF RestartGemini, FilesOK, GoogleOK, FileTokenIsIssued
  <2>5. QED
    BY <2>2, <2>3, <2>4 DEF GeminiTypes
<1>13. CASE UNCHANGED geminiVars
  BY <1>0, <1>13 DEF geminiVars, GeminiTypes, AgentOK, PollOK, FilesOK, GoogleOK, HistoryOK,
                     FileTokenIsIssued
<1>14. QED
  BY <1>1, <1>2, <1>3, <1>4, <1>5, <1>6, <1>7, <1>8, <1>9, <1>10, <1>11, <1>12, <1>13
     DEF GeminiNext, GeminiPoll, GeminiOutside

-----------------------------------------------------------------------------
(* The pause *)

\* Every step keeps the count of the agent behind the refusals.
LEMMA PausePreserved ==
  ASSUME GeminiTypes, PauseInv, [GeminiNext]_geminiVars
  PROVE  PauseInv'
<1>0. /\ gemini \in AgentShape /\ gpoll \in PollShape /\ ghistory \in HistoryShape
      /\ gpoll.read \in Credentials /\ Merged \in Credentials
      /\ MaxGeminiAuthFailures \in Nat \ {0}
  BY MergedIsCredentials, GeminiAssumption
     DEF GeminiTypes, AgentOK, PollOK, PollShape, HistoryOK, GeminiAssumption
<1>00. gemini.fails \in Nat /\ gemini.paused \in BOOLEAN /\ ghistory.refusals \in Nat
  BY <1>0 DEF AgentShape, HistoryShape
<1> USE DEF PauseInv, CountIsBehind, PausedRests, PauseIsEarned
\* An agent that takes over a token: it keeps its counter and its pause, or
\* loses both, and gets to the fetch without a pause only.
<1>a. ASSUME NEW a \in AgentShape, NEW token \in {NoToken} \cup GeminiTokens,
             \/ a.fails = gemini.fails /\ a.paused = gemini.paused
             \/ a.fails = 0 /\ a.paused = FALSE,
             gemini' = Adopt(a, token), ToFetch(gemini'),
             ghistory'.refusals = ghistory.refusals
      PROVE  PauseInv'
  <2>1. \/ gemini'.fails = gemini.fails /\ gemini'.paused = gemini.paused
        \/ gemini'.fails = 0 /\ gemini'.paused = FALSE
    BY <1>a, AdoptKeepsShape
  <2>2. gpoll'.at = IF gemini'.paused THEN "idle" ELSE "fetch"
    BY <1>a, BetweenPolls DEF ToFetch
  <2>3. QED
    BY <1>0, <1>00, <1>a, <2>1, <2>2
<1>1. CASE ReadCredentials \/ ProactiveRefreshFails
  <2>1. PICK token \in {NoToken} \cup GeminiTokens : gemini' = Adopt(gemini, token)
    BY <1>0, <1>1 DEF ReadCredentials, ProactiveRefreshFails, Credentials
  <2>2. ToFetch(gemini') /\ ghistory' = ghistory
    BY <1>1 DEF ReadCredentials, ProactiveRefreshFails
  <2>3. QED
    BY <1>0, <1>a, <2>1, <2>2
<1>2. CASE BeginProactiveRefresh
  <2>1. gpoll.at = "idle" /\ gpoll'.at = "proactive" /\ gemini' = gemini /\ ghistory' = ghistory
    BY <1>2 DEF BeginProactiveRefresh
  <2>2. QED
    BY <1>0, <2>1
<1>3. CASE ProactivelyRefreshed
  <2> DEFINE restored == IF gemini.paused THEN Unpaused(gemini) ELSE gemini
             a == [restored EXCEPT !.last = NewToken]
  <2>1. NewToken \in GeminiTokens /\ ghistory'.refusals = ghistory.refusals
    BY <1>3, RefreshKeepsTypes DEF ProactivelyRefreshed
  <2>2. /\ restored \in AgentShape
        /\ \/ restored.fails = gemini.fails /\ restored.paused = gemini.paused
           \/ restored.fails = 0 /\ restored.paused = FALSE
    <3>1. Unpaused(gemini).fails = 0 /\ Unpaused(gemini).paused = FALSE
      BY <1>0 DEF Unpaused, AgentShape
    <3>2. Unpaused(gemini) \in AgentShape
      <4>1. 0 \in 0 .. MaxGeminiAuthFailures
        BY <1>0
      <4>2. QED
        BY <1>0, <4>1 DEF Unpaused, AgentShape
    <3>3. QED
      BY <1>0, <3>1, <3>2
  <2>3. /\ a \in AgentShape
        /\ \/ a.fails = gemini.fails /\ a.paused = gemini.paused
           \/ a.fails = 0 /\ a.paused = FALSE
    BY <2>1, <2>2 DEF AgentShape
  <2>4. gemini' = Adopt(a, gpoll.read.access) /\ ToFetch(gemini')
    BY <1>3 DEF ProactivelyRefreshed
  <2>5. gpoll.read.access \in {NoToken} \cup GeminiTokens
    BY <1>0 DEF Credentials
  <2> HIDE DEF a
  <2>6. QED
    BY <1>a, <2>1, <2>3, <2>4, <2>5
<1>4. CASE FetchAnswered
  <2>1. /\ gpoll.at \in {"fetch", "retry"} /\ gpoll'.at = "idle"
        /\ gemini'.fails = 0 /\ gemini'.paused = gemini.paused /\ ghistory'.refusals = 0
    BY <1>0, <1>4, BetweenPolls DEF FetchAnswered, AgentShape, HistoryShape
  <2>2. QED
    BY <1>0, <1>00, <2>1
<1>5. CASE FetchFails
  <2>1. gpoll'.at = "idle" /\ gemini' = gemini /\ ghistory' = ghistory
    BY <1>5, BetweenPolls DEF FetchFails
  <2>2. QED
    BY <1>0, <1>00, <2>1
<1>6. CASE FetchRefused
  <2>1. gpoll.at = "fetch" /\ gemini' = gemini /\ gpoll'.at \in {"recovery", "idle"}
    BY <1>6, BetweenPolls DEF FetchRefused
  <2>2. ghistory'.refusals = IF ghistory.refusals < MaxGeminiAuthFailures
                             THEN ghistory.refusals + 1 ELSE ghistory.refusals
    BY <1>0, <1>6 DEF FetchRefused, Refused, HistoryShape
  <2>3. QED
    BY <1>0, <1>00, <2>1, <2>2
<1>7. CASE Recovered
  <2>1. ghistory'.refusals = ghistory.refusals
    BY <1>7, RefreshKeepsTypes DEF Recovered
  <2>2. gemini'.fails = gemini.fails /\ gemini'.paused = gemini.paused
    BY <1>0, <1>7 DEF Recovered, AgentShape
  <2>3. gpoll.at = "recovery" /\ gpoll'.at = "retry"
    BY <1>7, BetweenPolls DEF Recovered
  <2>4. QED
    BY <1>0, <1>00, <2>1, <2>2, <2>3
<1>8. CASE RecoveryFails \/ RetryRefused
  <2>1. /\ gemini'.fails = gemini.fails + 1
        /\ gemini'.paused <=> (gemini.paused \/ gemini.fails + 1 >= MaxGeminiAuthFailures)
    BY <1>0, <1>8 DEF RecoveryFails, RetryRefused, CountFailure, AgentShape
  <2>2. gpoll.at \in {"recovery", "retry"} /\ gpoll'.at = "idle" /\ ghistory' = ghistory
    BY <1>8, BetweenPolls DEF RecoveryFails, RetryRefused
  <2>3. gemini.fails < ghistory.refusals /\ ~gemini.paused
    BY <1>00, <2>2
  <2>4. gemini'.paused <=> gemini.fails + 1 >= MaxGeminiAuthFailures
    BY <2>1, <2>3
  <2>5. gemini'.fails <= ghistory'.refusals
    BY <1>00, <2>1, <2>2, <2>3
  <2>6. ~gemini'.paused => gemini'.fails < MaxGeminiAuthFailures
    BY <1>0, <1>00, <2>1, <2>4
  <2>7. gemini'.paused => ghistory'.refusals >= MaxGeminiAuthFailures
    BY <1>0, <1>00, <2>2, <2>3, <2>4
  <2>8. QED
    BY <2>2, <2>5, <2>6, <2>7
<1>9. CASE TokensAge \/ RevokeGrant \/ CLILogin \/ CLIRefreshes \/ ToggleGeminiRefresh
  BY <1>9 DEF TokensAge, RevokeGrant, CLILogin, CLIRefreshes, ToggleGeminiRefresh
<1>10. CASE RestartGemini
  <2>1. /\ gemini'.fails = 0 /\ gemini'.paused = FALSE /\ gpoll'.at = "idle"
        /\ ghistory'.refusals = 0
    BY <1>0, <1>10, BetweenPolls DEF RestartGemini, NewGeminiAgent, HistoryShape
  <2>2. QED
    BY <1>0, <2>1
<1>11. CASE UNCHANGED geminiVars
  BY <1>11 DEF geminiVars
<1>12. QED
  BY <1>1, <1>2, <1>3, <1>4, <1>5, <1>6, <1>7, <1>8, <1>9, <1>10, <1>11
     DEF GeminiNext, GeminiPoll, GeminiOutside

\* The invariant that the first two theorems follow from.
LEMMA GeminiInvariant == GeminiSpec => [](GeminiTypes /\ PauseInv)
<1>1. GeminiInit => GeminiTypes /\ PauseInv
  <2>1. GeminiInit => PauseInv
    BY GeminiAssumption DEF GeminiAssumption, GeminiInit, PauseInv, CountIsBehind, PausedRests,
                            PauseIsEarned, NewGeminiAgent, Between
  <2>2. QED
    BY <2>1, InitTypes
<1>2. GeminiTypes /\ PauseInv /\ [GeminiNext]_geminiVars => (GeminiTypes /\ PauseInv)'
  BY TypesPreserved, PausePreserved
<1>3. QED
  BY <1>1, <1>2, PTL DEF GeminiSpec

\* Every variable has its type: no counter exceeds its limit, and no token or
\* grant is one that was never given out.
THEOREM GeminiTypesAreKept == GeminiSpec => []GeminiTypeOK
<1>1. GeminiTypes => GeminiTypeOK
  BY DEF GeminiTypes, GeminiTypeOK, AgentOK, AgentShape, PollOK, PollShape, FilesOK, GoogleOK,
         GoogleShape, HistoryOK, HistoryShape
<1>2. QED
  BY <1>1, GeminiInvariant, PTL

\* Polling pauses only after maxGeminiAuthFailures polls in which Google
\* refused a token, with no answered fetch among them, whatever other tools do
\* to the credentials meanwhile.
THEOREM PauseIsAlwaysEarned == GeminiSpec => []PauseIsEarned
BY GeminiInvariant, PTL DEF PauseInv

-----------------------------------------------------------------------------
(* Tokens of another login *)

\* Every step keeps the grant of another login in the table; the agent's refresh
\* and a login of the user are the two that write it.
LEMMA ForeignGrantPreserved ==
  ASSUME GeminiTypes, TableHoldsForeignGrant, [GeminiNext]_geminiVars
  PROVE  TableHoldsForeignGrant'
<1>0. /\ gfile \in Credentials /\ gtable \in Credentials /\ gpoll.read \in Credentials
      /\ google \in GoogleShape /\ GoogleOK /\ ghistory \in HistoryShape
      /\ gfile.access \in 0 .. Len(google.issued) /\ ghistory.faults \in Nat
  BY DEF GeminiTypes, FilesOK, PollOK, PollShape, GoogleOK, GoogleShape, HistoryOK, HistoryShape,
         FileTokenIsIssued, Credentials
<1> USE DEF TableHoldsForeignGrant
\* A refresh by the agent: both writes succeed, or a fault is counted.
<1>1. CASE ProactivelyRefreshed \/ Recovered
  <2> DEFINE grant == gpoll.read.refresh
  <2>1. /\ grant \in GeminiGrants /\ Len(google.issued) < MaxGeminiTokens
        /\ google' = [google EXCEPT !.issued = Append(@, grant)]
        /\ SaveTokens(NewToken, grant)
    BY <1>0, <1>1 DEF ProactivelyRefreshed, Recovered, Refreshable, Issue, Credentials
  <2>2. google'.issued[NewToken] = grant
    BY <1>0, <2>1, IssueAppends
  <2>3. PICK fileOK \in BOOLEAN, tableOK \in BOOLEAN :
           /\ ghistory' = [ghistory EXCEPT !.faults = @ + ((IF fileOK THEN 0 ELSE 1)
                                                          + (IF tableOK THEN 0 ELSE 1))]
           /\ gfile' = IF fileOK THEN [gfile EXCEPT !.access = NewToken] ELSE gfile
           /\ gtable' = IF tableOK THEN [access |-> NewToken, refresh |-> grant] ELSE gtable
    BY <2>1 DEF SaveTokens
  <2>4. CASE fileOK /\ tableOK
    <3>1. gfile'.access = NewToken
      BY <1>0, <2>3, <2>4 DEF Credentials
    <3>2. gtable'.refresh = grant /\ grant # NoToken
      BY <2>1, <2>3, <2>4
    <3>3. QED
      BY <2>2, <3>1, <3>2
  <2>5. CASE ~(fileOK /\ tableOK)
    <3>1. ghistory'.faults = ghistory.faults + ((IF fileOK THEN 0 ELSE 1) + (IF tableOK THEN 0 ELSE 1))
      BY <1>0, <2>3 DEF HistoryShape
    <3>2. ghistory'.faults # 0
      BY <1>0, <2>5, <3>1
    <3>3. QED
      BY <3>2
  <2>6. QED
    BY <2>4, <2>5
\* The CLI writes a token of the grant that is in the file.
<1>2. CASE CLILogin
  <2> DEFINE g == [google EXCEPT !.issued = Append(@, google.grants + 1)]
  <2>1. google.grants + 1 \in GeminiGrants /\ Len(google.issued) < MaxGeminiTokens
    BY <1>0, <1>2, GeminiAssumption DEF CLILogin, GoogleShape, GeminiAssumption
  <2>2. g.issued[NewToken] = google.grants + 1
    BY <1>0, <2>1, IssueAppends
  <2>3. google'.issued = g.issued
    BY <1>0, <1>2 DEF CLILogin, GoogleShape
  <2>4. gfile' = [access |-> NewToken, refresh |-> google.grants + 1]
    BY <1>2 DEF CLILogin
  <2>5. QED
    BY <2>2, <2>3, <2>4
<1>3. CASE CLIRefreshes
  <2>1. /\ gfile.refresh \in GeminiGrants /\ Len(google.issued) < MaxGeminiTokens
        /\ google' = [google EXCEPT !.issued = Append(@, gfile.refresh)]
    BY <1>0, <1>3 DEF CLIRefreshes, Refreshable, Issue, Credentials
  <2>2. google'.issued[NewToken] = gfile.refresh
    BY <1>0, <2>1, IssueAppends
  <2>3. gfile'.access = NewToken /\ gfile'.refresh = gfile.refresh
    BY <1>0, <1>3 DEF CLIRefreshes, Credentials
  <2>4. QED
    BY <2>2, <2>3
<1>4. CASE TokensAge \/ RevokeGrant
  <2>1. google'.issued = google.issued
    BY <1>0, <1>4 DEF TokensAge, RevokeGrant, GoogleShape
  <2>2. QED
    BY <1>4, <2>1 DEF TokensAge, RevokeGrant
<1>5. CASE FetchAnswered \/ FetchRefused \/ RestartGemini
  <2>1. ghistory'.faults = ghistory.faults
    BY <1>0, <1>5 DEF FetchAnswered, FetchRefused, RestartGemini, Refused, HistoryShape
  <2>2. QED
    BY <1>5, <2>1 DEF FetchAnswered, FetchRefused, RestartGemini
<1>6. CASE \/ ReadCredentials \/ BeginProactiveRefresh \/ ProactiveRefreshFails
           \/ FetchFails \/ RecoveryFails \/ RetryRefused \/ ToggleGeminiRefresh
           \/ UNCHANGED geminiVars
  BY <1>6 DEF ReadCredentials, BeginProactiveRefresh, ProactiveRefreshFails, FetchFails,
              RecoveryFails, RetryRefused, ToggleGeminiRefresh, geminiVars
<1>7. QED
  BY <1>1, <1>2, <1>3, <1>4, <1>5, <1>6 DEF GeminiNext, GeminiPoll, GeminiOutside

\* The agent puts an access token of another login into the CLI's file only
\* while the file is hidden from it, or when a write has failed.
THEOREM ForeignTokenIsAlwaysShadowed == GeminiSpec => []ForeignTokenIsShadowed
<1>1. GeminiInit => TableHoldsForeignGrant
  BY DEF GeminiInit, TableHoldsForeignGrant, NoCredentials
<1>2. GeminiTypes /\ TableHoldsForeignGrant /\ [GeminiNext]_geminiVars => TableHoldsForeignGrant'
  BY ForeignGrantPreserved
<1>3. GeminiTypes /\ TableHoldsForeignGrant => ForeignTokenIsShadowed
  <2> SUFFICES ASSUME GeminiTypes, TableHoldsForeignGrant PROVE ForeignTokenIsShadowed
    OBVIOUS
  <2>1. ghistory.faults \in Nat
    BY DEF GeminiTypes, HistoryOK, HistoryShape
  <2>2. QED
    BY <2>1 DEF TableHoldsForeignGrant, ForeignTokenIsShadowed, Merged, First
<1>4. QED
  BY <1>1, <1>2, <1>3, GeminiInvariant, PTL DEF GeminiSpec


-----------------------------------------------------------------------------
(* Cursor: types *)

CursorShape == [client : CursorTokens, last : CursorTokens, failed : CursorTokens,
                fails : 0 .. CursorMaxAuthFailures, paused : BOOLEAN]
CursorPollShape == [at : {"idle", "refresh", "fetch", "recover", "refetch"},
                    refresh : CursorTokens]
CursorServerShape == [owners : Seq(Accounts), soon : Int, dead : Int, spent : SUBSET Nat]
CursorHistoryShape == [keyring : BOOLEAN, faults : 0 .. MaxCursorFaults, rotated : BOOLEAN]

CursorServerOK ==
    /\ cserver \in CursorServerShape
    /\ cserver.dead <= cserver.soon /\ cserver.soon <= Len(cserver.owners)
    /\ Len(cserver.owners) <= MaxCursorTokens
    /\ cserver.spent \subseteq 1 .. Len(cserver.owners)

\* Tokens are those that Cursor has issued.
CursorKnown(token) == token \in 0 .. Len(cserver.owners)

CursorStoresOK ==
    /\ csqlite \in CursorPair /\ CursorKnown(csqlite.access) /\ CursorKnown(csqlite.refresh)
    /\ ckeyring \in CursorPair /\ CursorKnown(ckeyring.access) /\ CursorKnown(ckeyring.refresh)

CursorPollOK ==
    /\ cpoll \in CursorPollShape /\ CursorKnown(cpoll.refresh)
    /\ cpoll.at \in {"refresh", "recover"} => cpoll.refresh # Absent

CursorAgentOK == cursor \in CursorShape /\ callowed \in BOOLEAN
CursorHistoryOK == chistory \in CursorHistoryShape

CursorTypes ==
    /\ CursorAgentOK /\ CursorPollOK /\ CursorStoresOK /\ CursorServerOK /\ CursorHistoryOK

\* An agent that may be refused has refusals left, so its counter is bounded.
CursorFailuresLeft ==
    /\ cpoll.at \in {"refresh", "fetch"} => cursor.fails < CursorMaxAuthFailures
    /\ cpoll.at = "idle" /\ ~cursor.paused => cursor.fails < CursorMaxAuthFailures

NoKeyringIsEmpty == ~chistory.keyring => ~IsPresent(ckeyring)

BothUnspent ==
    chistory.faults = 0 /\ ~chistory.rotated =>
        csqlite.refresh \notin cserver.spent /\ ckeyring.refresh \notin cserver.spent

CursorInv == CursorTypes /\ CursorFailuresLeft /\ NoKeyringIsEmpty /\ BothUnspent

\* A refresh is answered with the next token; the number of the answer has not
\* been spent, and what is spent besides is what was presented.
LEMMA CursorIssueKeepsTypes ==
  ASSUME CursorTypes, NEW rotate \in BOOLEAN, cpoll.refresh # Absent, CursorIssues(rotate)
  PROVE  /\ CursorServerOK' /\ Len(cserver.owners) + 1 \in CursorTokens
         /\ Len(cserver.owners) \in Nat
         /\ Len(cserver'.owners) = Len(cserver.owners) + 1
         /\ Len(cserver.owners) + 1 \notin cserver'.spent
         /\ cserver'.spent = IF rotate THEN cserver.spent \cup {cpoll.refresh} ELSE cserver.spent
<1> USE DEF CursorTypes, CursorServerOK, CursorServerShape, CursorPollOK, CursorKnown, Absent
<1>1. cpoll.refresh \in 1 .. Len(cserver.owners) /\ Len(cserver.owners) \in Nat
  BY DEF CursorPollShape, CursorTokens
<1>2. OwnerOf(cpoll.refresh) \in Accounts
  BY <1>1 DEF OwnerOf
<1>3. /\ cserver'.owners = Append(cserver.owners, OwnerOf(cpoll.refresh))
      /\ cserver'.spent = IF rotate THEN cserver.spent \cup {cpoll.refresh} ELSE cserver.spent
      /\ cserver'.soon = cserver.soon /\ cserver'.dead = cserver.dead
      /\ Len(cserver.owners) < MaxCursorTokens
      /\ cserver' \in [owners : {cserver'.owners}, soon : Int, dead : Int, spent : {cserver'.spent}]
  BY DEF CursorIssues
<1>4. cserver'.owners \in Seq(Accounts) /\ Len(cserver'.owners) = Len(cserver.owners) + 1
  BY <1>2, <1>3
<1>5. cserver'.spent \subseteq 1 .. Len(cserver.owners)
  BY <1>1, <1>3
<1>6. cserver' \in CursorServerShape
  <2>1. cserver'.spent \in SUBSET Nat
    BY <1>1, <1>5
  <2>2. QED
    BY <1>3, <1>4, <2>1
<1>7. Len(cserver.owners) + 1 \in CursorTokens
  BY <1>1, <1>3, CursorAssumption DEF CursorAssumption, CursorTokens
<1>8. /\ cserver'.dead <= cserver'.soon /\ cserver'.soon <= Len(cserver'.owners)
      /\ Len(cserver'.owners) <= MaxCursorTokens
  BY <1>1, <1>3, <1>4, CursorAssumption DEF CursorAssumption
<1>9. cserver'.spent \subseteq 1 .. Len(cserver'.owners) /\ Len(cserver.owners) + 1 \notin cserver'.spent
  BY <1>1, <1>4, <1>5
<1>10. QED
  BY <1>1, <1>3, <1>4, <1>6, <1>7, <1>8, <1>9

\* Of a write, each entry of a store holds what was written or what it held.
\* Unless a write failed, a store that exists holds a rotated refresh token.
LEMMA SaveMixesEntries ==
  ASSUME CursorTypes, NoKeyringIsEmpty, NEW access \in CursorTokens, NEW refresh \in CursorTokens,
         SaveCursorTokens(access, refresh)
  PROVE  /\ csqlite' \in CursorPair /\ ckeyring' \in CursorPair
         /\ csqlite'.access \in {csqlite.access, access}
         /\ ckeyring'.access \in {ckeyring.access, access}
         /\ csqlite'.refresh \in {csqlite.refresh, refresh}
         /\ ckeyring'.refresh \in {ckeyring.refresh, refresh}
         /\ NoKeyringIsEmpty' /\ CursorHistoryOK'
         /\ chistory'.rotated = chistory.rotated /\ chistory'.faults >= chistory.faults
         /\ chistory'.faults = 0 /\ refresh # Absent =>
               /\ csqlite'.refresh \in {Absent, refresh}
               /\ ckeyring'.refresh \in {Absent, refresh}
         /\ refresh = Absent => csqlite'.refresh = csqlite.refresh /\ ckeyring'.refresh = ckeyring.refresh
<1> USE DEF CursorPair, Absent
<1>1. PICK s \in Written(csqlite, access, refresh), k \in Written(ckeyring, access, refresh) :
         LET complete == /\ chistory.keyring => k = Whole(ckeyring, access, refresh)
                         /\ IsPresent(csqlite) => s = Whole(csqlite, access, refresh)
         IN /\ csqlite' = IF IsPresent(csqlite) THEN s ELSE csqlite
            /\ ckeyring' = IF chistory.keyring THEN k ELSE ckeyring
            /\ complete \/ chistory.faults < MaxCursorFaults
            /\ chistory' = IF complete THEN chistory ELSE [chistory EXCEPT !.faults = @ + 1]
  BY DEF SaveCursorTokens
<1>2. csqlite \in CursorPair /\ ckeyring \in CursorPair /\ chistory \in CursorHistoryShape
  BY DEF CursorTypes, CursorStoresOK, CursorHistoryOK
<1>3. \A pair \in CursorPair : \A p \in Written(pair, access, refresh) :
         /\ p \in CursorPair
         /\ p.access \in {pair.access, access} /\ p.refresh \in {pair.refresh, refresh}
         /\ refresh = Absent => p.refresh = pair.refresh
  BY DEF Written
<1>4. \A pair \in CursorPair :
         refresh # Absent => Whole(pair, access, refresh).refresh = refresh
  BY DEF Whole
<1>5. /\ csqlite' \in CursorPair /\ ckeyring' \in CursorPair
      /\ csqlite'.access \in {csqlite.access, access}
      /\ ckeyring'.access \in {ckeyring.access, access}
      /\ csqlite'.refresh \in {csqlite.refresh, refresh}
      /\ ckeyring'.refresh \in {ckeyring.refresh, refresh}
      /\ refresh = Absent => csqlite'.refresh = csqlite.refresh /\ ckeyring'.refresh = ckeyring.refresh
  BY <1>1, <1>2, <1>3
<1>6. /\ CursorHistoryOK' /\ chistory'.rotated = chistory.rotated
      /\ chistory'.keyring = chistory.keyring /\ chistory'.faults >= chistory.faults
  <2>1. CASE chistory' = chistory
    BY <2>1, <1>2, CursorAssumption DEF CursorHistoryShape, CursorHistoryOK, CursorAssumption
  <2>2. CASE chistory' = [chistory EXCEPT !.faults = @ + 1] /\ chistory.faults < MaxCursorFaults
    BY <2>2, <1>2, CursorAssumption DEF CursorHistoryShape, CursorHistoryOK, CursorAssumption
  <2>3. QED
    BY <1>1, <2>1, <2>2
<1>7. NoKeyringIsEmpty'
  BY <1>1, <1>6 DEF NoKeyringIsEmpty, IsPresent
<1>8. ASSUME chistory'.faults = 0, refresh # Absent
      PROVE  csqlite'.refresh \in {Absent, refresh} /\ ckeyring'.refresh \in {Absent, refresh}
  <2>1. chistory.faults \in Nat
    BY <1>2, CursorAssumption DEF CursorHistoryShape, CursorAssumption
  <2>2. chistory' # [chistory EXCEPT !.faults = @ + 1]
    BY <1>2, <1>8, <2>1 DEF CursorHistoryShape
  <2>3. /\ chistory.keyring => k = Whole(ckeyring, access, refresh)
        /\ IsPresent(csqlite) => s = Whole(csqlite, access, refresh)
    BY <1>1, <2>2
  <2>4. csqlite'.refresh \in {Absent, refresh}
    BY <1>1, <1>2, <1>4, <1>8, <2>3 DEF IsPresent
  <2>5. ckeyring'.refresh \in {Absent, refresh}
    BY <1>1, <1>2, <1>4, <1>8, <2>3 DEF IsPresent, NoKeyringIsEmpty
  <2>6. QED
    BY <2>4, <2>5
<1>9. QED
  BY <1>5, <1>6, <1>7, <1>8

\* Tokens that were known stay known when more are issued.
LEMMA MoreAreKnown ==
  ASSUME CursorTypes, Len(cserver'.owners) \in Nat, Len(cserver'.owners) >= Len(cserver.owners)
  PROVE  /\ \A token : CursorKnown(token) => CursorKnown(token)'
         /\ Len(cserver.owners) \in Nat
BY DEF CursorKnown, CursorTypes, CursorServerOK, CursorServerShape

\* What is stored, and what the agent takes from it, are tokens.
LEMMA StoredPairIsKnown ==
  ASSUME CursorTypes
  PROVE  /\ StoredPair \in {csqlite, ckeyring} /\ StoredPair \in CursorPair
         /\ StoredPair.access \in CursorTokens /\ StoredPair.refresh \in CursorTokens
         /\ CursorKnown(StoredPair.access) /\ CursorKnown(StoredPair.refresh)
BY DEF StoredPair, CursorTypes, CursorStoresOK, CursorPair

\* Lifting a pause resets the counter, and taking over a token leaves it.
LEMMA CursorAdoptKeepsShape ==
  ASSUME NEW a \in CursorShape, NEW token \in CursorTokens, CursorTypes
  PROVE  /\ TakenOver(a, token) \in CursorShape
         /\ TakenOver(a, token).fails = a.fails /\ TakenOver(a, token).paused = a.paused
         /\ Lifted(a) \in CursorShape
         /\ Lifted(a).fails = 0 \/ (Lifted(a).fails = a.fails /\ Lifted(a).paused = a.paused)
<1>1. StoredPair.access \in CursorTokens /\ 0 \in 0 .. CursorMaxAuthFailures
  BY StoredPairIsKnown, CursorAssumption DEF CursorAssumption
<1>2. QED
  BY <1>1 DEF TakenOver, Lifted, CursorShape

\* Giving up a refresh keeps the shape of the agent and ends its refresh.
LEMMA GivingUpKeepsTypes ==
  ASSUME CursorTypes, CursorFailuresLeft, NEW a \in CursorShape, a.fails = cursor.fails,
         cpoll.at \in {"refresh", "recover"}, StoredPair'.access \in CursorTokens,
         RefreshGivesUp(a)
  PROVE  /\ cursor' \in CursorShape /\ cpoll' \in CursorPollShape /\ CursorFailuresLeft'
         /\ cpoll'.at \in {"fetch", "idle"} /\ cpoll'.refresh = Absent
<1> USE DEF CursorFailuresLeft, RefreshGivesUp, CursorIdle, Absent
<1>1. Absent \in CursorTokens
  BY CursorAssumption DEF CursorAssumption, CursorTokens
<1>2. CASE cpoll.at = "refresh"
  <2>1. /\ TakenOver(a, StoredPair'.access) \in CursorShape
        /\ TakenOver(a, StoredPair'.access).fails = a.fails
    BY CursorAdoptKeepsShape
  <2>2. QED
    BY <1>1, <1>2, <2>1 DEF CursorPollShape
<1>3. CASE cpoll.at # "refresh"
  <2>1. cursor' = [a EXCEPT !.paused = TRUE] /\ cpoll' = CursorIdle
    BY <1>3
  <2>2. cursor' \in CursorShape /\ cursor'.paused = TRUE
    BY <2>1 DEF CursorShape
  <2>3. cpoll' \in CursorPollShape /\ cpoll'.at = "idle" /\ cpoll'.refresh = Absent
    BY <1>1, <2>1 DEF CursorPollShape
  <2>4. QED
    BY <2>2, <2>3
<1>4. QED
  BY <1>2, <1>3

-----------------------------------------------------------------------------
(* Cursor: the agent starts well *)

\* The first state satisfies the invariant.
LEMMA CursorInitInv == CursorInit => CursorInv
<1> SUFFICES ASSUME CursorInit PROVE CursorInv
  OBVIOUS
<1> USE CursorAssumption DEF CursorAssumption, CursorInit, Absent
<1>1. 0 \in CursorTokens /\ 1 \in CursorTokens
  BY DEF CursorTokens
<1>2. cserver.owners = <<"paid">> /\ cserver.owners \in Seq(Accounts) /\ Len(cserver.owners) = 1
  BY DEF Accounts
<1>3. CursorServerOK
  BY <1>2 DEF CursorServerOK, CursorServerShape
<1>4. CursorStoresOK
  BY <1>1, <1>2 DEF CursorStoresOK, CursorPair, CursorKnown
<1>5. CursorPollOK /\ CursorAgentOK /\ CursorFailuresLeft
  BY <1>1, <1>2 DEF CursorPollOK, CursorAgentOK, CursorIdle, CursorKnown, NewCursorAgent,
       CursorPollShape, CursorShape, CursorFailuresLeft
<1>6. CursorHistoryOK /\ NoKeyringIsEmpty
  BY DEF CursorHistoryOK, CursorHistoryShape, NoKeyringIsEmpty, IsPresent
<1>7. BothUnspent
  BY DEF BothUnspent
<1>8. QED
  BY <1>3, <1>4, <1>5, <1>6, <1>7 DEF CursorInv, CursorTypes

-----------------------------------------------------------------------------
(* Cursor: the steps *)

\* The poll up to the first call.
LEMMA BeginCursorPollInv ==
  ASSUME CursorInv, BeginCursorPoll
  PROVE  CursorInv'
<1> USE DEF CursorInv
<1>1. /\ cpoll.at = "idle" /\ ~Lifted(cursor).paused
      /\ cursor' \in {Lifted(cursor), TakenOver(Lifted(cursor), StoredPair.access)}
      /\ \/ cpoll' = [at |-> "refresh", refresh |-> StoredPair.refresh] /\ StoredPair.refresh # Absent
         \/ cpoll' = [CursorIdle EXCEPT !.at = "fetch"]
      /\ UNCHANGED <<csqlite, ckeyring, cserver, callowed, chistory>>
  BY DEF BeginCursorPoll, MayRefresh
<1>2. /\ StoredPair.access \in CursorTokens /\ StoredPair.refresh \in CursorTokens
      /\ CursorKnown(StoredPair.refresh)
  BY StoredPairIsKnown
<1>3. /\ Lifted(cursor) \in CursorShape
      /\ Lifted(cursor).fails = 0 \/ Lifted(cursor).fails = cursor.fails
      /\ Lifted(cursor).paused = cursor.paused \/ Lifted(cursor).fails = 0
  BY <1>2, CursorAdoptKeepsShape DEF CursorTypes, CursorAgentOK
<1>4. /\ cursor' \in CursorShape /\ cursor'.fails = Lifted(cursor).fails
  BY <1>1, <1>2, <1>3, CursorAdoptKeepsShape
<1>5. cursor'.fails < CursorMaxAuthFailures
  BY <1>1, <1>3, <1>4, CursorAssumption DEF CursorFailuresLeft, CursorAssumption
<1>6. Absent \in CursorTokens /\ CursorKnown(Absent)
  BY CursorAssumption DEF CursorAssumption, CursorTokens, Absent, CursorKnown, CursorTypes,
     CursorServerOK, CursorServerShape
<1>7. cpoll' \in CursorPollShape /\ CursorPollOK' /\ cpoll'.at \in {"refresh", "fetch"}
  BY <1>1, <1>2, <1>6 DEF CursorPollOK, CursorPollShape, CursorKnown, CursorIdle
<1>8. CursorTypes'
  BY <1>1, <1>4, <1>7 DEF CursorTypes, CursorAgentOK, CursorStoresOK, CursorServerOK,
     CursorHistoryOK, CursorKnown
<1>9. CursorFailuresLeft'
  BY <1>5, <1>7 DEF CursorFailuresLeft
<1>10. NoKeyringIsEmpty' /\ BothUnspent'
  BY <1>1 DEF NoKeyringIsEmpty, BothUnspent, IsPresent
<1>11. QED
  BY <1>8, <1>9, <1>10

\* The answer to a refresh.  A rotation spends the token presented, and both
\* stores get the new one when nothing fails.
LEMMA CursorRefreshedInv ==
  ASSUME CursorInv, CursorRefreshed
  PROVE  CursorInv'
<1> USE DEF CursorInv
<1> DEFINE access == Len(cserver.owners) + 1
<1>1. PICK rotate \in BOOLEAN :
         /\ CursorIssues(rotate)
         /\ SaveCursorTokens(access, IF rotate THEN access ELSE Absent)
         /\ IF Saved(access, IF rotate THEN access ELSE Absent)
            THEN /\ cursor' = [cursor EXCEPT !.client = access, !.last = access, !.failed = Absent]
                 /\ cpoll' = [CursorIdle EXCEPT !.at =
                                 IF cpoll.at = "refresh" THEN "fetch" ELSE "refetch"]
            ELSE RefreshGivesUp(cursor)
  BY DEF CursorRefreshed
<1> DEFINE refresh == IF rotate THEN access ELSE Absent
<1>2. cpoll.at \in {"refresh", "recover"} /\ cpoll.refresh # Absent /\ callowed' = callowed
  BY DEF CursorRefreshed, CursorTypes, CursorPollOK
<1>3. /\ CursorServerOK' /\ access \in CursorTokens /\ Len(cserver.owners) \in Nat
      /\ Len(cserver'.owners) = access /\ access \notin cserver'.spent
      /\ cserver'.spent = IF rotate THEN cserver.spent \cup {cpoll.refresh} ELSE cserver.spent
  BY <1>1, <1>2, CursorIssueKeepsTypes
<1>4. Absent \in CursorTokens /\ refresh \in CursorTokens
  BY <1>3, CursorAssumption DEF CursorTokens, Absent, CursorAssumption
<1>5. /\ csqlite' \in CursorPair /\ ckeyring' \in CursorPair
      /\ csqlite'.access \in {csqlite.access, access}
      /\ ckeyring'.access \in {ckeyring.access, access}
      /\ csqlite'.refresh \in {csqlite.refresh, refresh}
      /\ ckeyring'.refresh \in {ckeyring.refresh, refresh}
      /\ NoKeyringIsEmpty' /\ CursorHistoryOK'
      /\ chistory'.rotated = chistory.rotated /\ chistory'.faults >= chistory.faults
      /\ chistory'.faults = 0 /\ refresh # Absent =>
            /\ csqlite'.refresh \in {Absent, refresh}
            /\ ckeyring'.refresh \in {Absent, refresh}
      /\ refresh = Absent => csqlite'.refresh = csqlite.refresh /\ ckeyring'.refresh = ckeyring.refresh
  <2> HIDE DEF access, refresh
  <2>1. SaveCursorTokens(access, refresh)
    BY <1>1 DEF refresh
  <2>2. QED
    BY <1>3, <1>4, <2>1, SaveMixesEntries
<1>6. /\ \A token \in {access, refresh, Absent} : CursorKnown(token)'
      /\ \A token : CursorKnown(token) => CursorKnown(token)'
  BY <1>3, MoreAreKnown DEF CursorKnown, Absent
<1>7. CursorStoresOK'
  BY <1>5, <1>6 DEF CursorStoresOK, CursorKnown, CursorTypes
<1>8. StoredPair'.access \in CursorTokens
  BY <1>5 DEF StoredPair, CursorPair
<1>9. cursor \in CursorShape
  BY DEF CursorTypes, CursorAgentOK
<1>10. cursor' \in CursorShape /\ cpoll' \in CursorPollShape /\ CursorFailuresLeft' /\ CursorPollOK'
  <2>1. CASE Saved(access, refresh)
    <3>1. /\ cursor' = [cursor EXCEPT !.client = access, !.last = access, !.failed = Absent]
          /\ cpoll' = [CursorIdle EXCEPT !.at = IF cpoll.at = "refresh" THEN "fetch" ELSE "refetch"]
      BY <1>1, <2>1
    <3>2. cursor' \in CursorShape /\ cursor'.fails = cursor.fails
      BY <1>3, <1>4, <1>9, <3>1 DEF CursorShape
    <3>3. /\ cpoll' \in CursorPollShape /\ cpoll'.refresh = Absent
          /\ cpoll'.at = IF cpoll.at = "refresh" THEN "fetch" ELSE "refetch"
      BY <1>4, <3>1 DEF CursorIdle, CursorPollShape
    <3>4. CursorFailuresLeft'
      BY <1>2, <3>2, <3>3 DEF CursorFailuresLeft
    <3>5. CursorPollOK'
      BY <1>6, <3>3 DEF CursorPollOK, CursorKnown
    <3>6. QED
      BY <3>2, <3>3, <3>4, <3>5
  <2>2. CASE ~Saved(access, refresh)
    <3>1. /\ cursor' \in CursorShape /\ cpoll' \in CursorPollShape /\ CursorFailuresLeft'
          /\ cpoll'.at \in {"fetch", "idle"} /\ cpoll'.refresh = Absent
      BY <1>1, <1>2, <1>8, <1>9, <2>2, GivingUpKeepsTypes
    <3>2. QED
      BY <1>6, <3>1 DEF CursorPollOK, CursorKnown
  <2>3. QED
    BY <2>1, <2>2
<1>11. CursorTypes'
  BY <1>2, <1>3, <1>5, <1>7, <1>10 DEF CursorTypes, CursorAgentOK
<1>12. BothUnspent'
  <2>1. SUFFICES ASSUME chistory'.faults = 0, ~chistory'.rotated
                 PROVE  csqlite'.refresh \notin cserver'.spent /\ ckeyring'.refresh \notin cserver'.spent
    BY DEF BothUnspent
  <2>2. CASE rotate
    <3>1. refresh = access /\ refresh # Absent
      BY <1>3, <2>2 DEF Absent
    <3>2. Absent \notin cserver'.spent
      BY <1>3 DEF CursorServerOK, Absent
    <3>3. QED
      BY <1>3, <1>5, <2>1, <3>1, <3>2
  <2>3. CASE ~rotate
    <3>1. chistory.faults = 0 /\ ~chistory.rotated
      BY <1>5, <2>1, CursorAssumption DEF CursorTypes, CursorHistoryOK, CursorHistoryShape, CursorAssumption
    <3>2. QED
      BY <1>3, <1>5, <2>3, <3>1 DEF BothUnspent
  <2>4. QED
    BY <2>2, <2>3
<1>13. QED
  BY <1>5, <1>10, <1>11, <1>12

\* A refresh that fails; when its answer is lost, a fault is on record.
LEMMA CursorRefreshFailsInv ==
  ASSUME CursorInv, CursorRefreshFails
  PROVE  CursorInv'
<1> USE DEF CursorInv
<1>1. /\ cpoll.at \in {"refresh", "recover"} /\ RefreshGivesUp(cursor) /\ cpoll.refresh # Absent
      /\ UNCHANGED <<csqlite, ckeyring, callowed>>
  BY DEF CursorRefreshFails, CursorTypes, CursorPollOK
<1>2. StoredPair'.access \in CursorTokens /\ cursor \in CursorShape
  BY <1>1 DEF StoredPair, CursorTypes, CursorStoresOK, CursorPair, CursorAgentOK
<1>3. /\ cursor' \in CursorShape /\ cpoll' \in CursorPollShape /\ CursorFailuresLeft'
      /\ cpoll'.at \in {"fetch", "idle"} /\ cpoll'.refresh = Absent
  BY <1>1, <1>2, GivingUpKeepsTypes
<1>4. /\ CursorServerOK' /\ CursorHistoryOK' /\ Len(cserver'.owners) \in Nat
      /\ Len(cserver'.owners) >= Len(cserver.owners)
      /\ chistory'.keyring = chistory.keyring
      /\ chistory'.faults # 0 \/ UNCHANGED <<cserver, chistory>>
  <2>1. CASE UNCHANGED <<cserver, chistory>>
    BY <2>1 DEF CursorTypes, CursorServerOK, CursorHistoryOK, CursorServerShape
  <2>2. CASE /\ CursorIssues(TRUE) /\ chistory.faults < MaxCursorFaults
             /\ chistory' = [chistory EXCEPT !.faults = @ + 1]
    <3>1. /\ CursorServerOK' /\ Len(cserver.owners) \in Nat
          /\ Len(cserver'.owners) = Len(cserver.owners) + 1
      BY <1>1, <2>2, CursorIssueKeepsTypes
    <3>2. CursorHistoryOK' /\ chistory'.faults # 0 /\ chistory'.keyring = chistory.keyring
      BY <2>2, CursorAssumption DEF CursorTypes, CursorHistoryOK, CursorHistoryShape, CursorAssumption
    <3>3. QED
      BY <3>1, <3>2
  <2>3. QED
    BY <2>1, <2>2 DEF CursorRefreshFails
<1>5. (\A token : CursorKnown(token) => CursorKnown(token)') /\ CursorKnown(Absent)'
  BY <1>4, MoreAreKnown DEF CursorKnown, Absent
<1>6. CursorTypes'
  BY <1>1, <1>3, <1>4, <1>5 DEF CursorTypes, CursorAgentOK, CursorPollOK, CursorStoresOK
<1>7. NoKeyringIsEmpty'
  BY <1>1, <1>4 DEF NoKeyringIsEmpty, IsPresent
<1>8. BothUnspent'
  BY <1>1, <1>4 DEF BothUnspent
<1>9. QED
  BY <1>3, <1>6, <1>7, <1>8

\* A step that leaves the stores, the tokens and the history alone.
LEMMA CursorAgentStepInv ==
  ASSUME CursorInv, cursor' \in CursorShape, cpoll' \in CursorPollShape, CursorFailuresLeft',
         CursorKnown(cpoll'.refresh), cpoll'.at \in {"refresh", "recover"} => cpoll'.refresh # Absent,
         callowed' \in BOOLEAN, UNCHANGED <<csqlite, ckeyring, cserver, chistory>>
  PROVE  CursorInv'
BY DEF CursorInv, CursorTypes, CursorAgentOK, CursorPollOK, CursorStoresOK, CursorServerOK,
       CursorHistoryOK, CursorKnown, NoKeyringIsEmpty, IsPresent, BothUnspent

\* The other steps of the poll.
LEMMA CursorPollInv ==
  ASSUME CursorInv, CursorPoll
  PROVE  CursorInv'
<1> USE DEF CursorInv
<1>1. /\ cursor \in CursorShape /\ callowed \in BOOLEAN /\ CursorFailuresLeft
      /\ cpoll \in CursorPollShape
      /\ StoredPair.access \in CursorTokens /\ StoredPair.refresh \in CursorTokens
      /\ CursorKnown(StoredPair.refresh)
  BY StoredPairIsKnown DEF CursorTypes, CursorAgentOK, CursorPollOK
<1>2. Absent \in CursorTokens /\ CursorKnown(Absent) /\ 0 \in 0 .. CursorMaxAuthFailures
  BY CursorAssumption DEF CursorAssumption, CursorTokens, Absent, CursorKnown, CursorTypes,
     CursorServerOK, CursorServerShape
<1>3. /\ CursorIdle \in CursorPollShape /\ CursorIdle.at = "idle" /\ CursorIdle.refresh = Absent
  BY <1>2 DEF CursorIdle, CursorPollShape
<1>4. CASE SessionExpired
  <2> DEFINE a == [cursor EXCEPT !.paused = TRUE]
  <2>1. a \in CursorShape /\ a.fails = cursor.fails
    BY <1>1 DEF CursorShape
  <2>2. /\ cpoll.at \in {"refresh", "recover"} /\ RefreshGivesUp(a)
        /\ UNCHANGED <<csqlite, ckeyring, cserver, callowed, chistory>>
    BY <1>4 DEF SessionExpired
  <2>3. StoredPair'.access \in CursorTokens
    BY <1>1, <2>2 DEF StoredPair, IsPresent, DifferentSubjects, OwnerOf
  <2>4. /\ cursor' \in CursorShape /\ cpoll' \in CursorPollShape /\ CursorFailuresLeft'
        /\ cpoll'.at \in {"fetch", "idle"} /\ cpoll'.refresh = Absent
    BY <2>1, <2>2, <2>3, GivingUpKeepsTypes
  <2>5. QED
    BY <1>1, <1>2, <2>2, <2>4, CursorAgentStepInv
<1>5. CASE CursorAnswers
  <2>1. cursor' \in CursorShape /\ cursor'.fails = 0
    BY <1>1, <1>2, <1>5 DEF CursorAnswers, CursorShape
  <2>2. CursorFailuresLeft'
    BY <2>1, CursorAssumption DEF CursorFailuresLeft, CursorAssumption
  <2>3. cpoll' = CursorIdle /\ UNCHANGED <<csqlite, ckeyring, cserver, callowed, chistory>>
    BY <1>5 DEF CursorAnswers
  <2>4. QED
    BY <1>1, <1>2, <1>3, <2>1, <2>2, <2>3, CursorAgentStepInv
<1>6. CASE CursorRefuses
  <2> DEFINE counted == [cursor EXCEPT !.fails = @ + 1, !.failed = cursor.client]
             last    == counted.fails >= CursorMaxAuthFailures
             recover == last /\ callowed /\ StoredPair.refresh # Absent
  <2>1. cpoll.at = "fetch" /\ cursor.fails < CursorMaxAuthFailures
    BY <1>1, <1>6 DEF CursorRefuses, CursorFailuresLeft
  <2>2. counted \in CursorShape /\ counted.fails \in 0 .. CursorMaxAuthFailures
    <3>1. cursor.fails + 1 \in 0 .. CursorMaxAuthFailures
      BY <1>1, <2>1, CursorAssumption DEF CursorShape, CursorAssumption
    <3>2. QED
      BY <1>1, <3>1 DEF CursorShape
  <2>3. /\ cursor' = IF last /\ ~recover THEN [counted EXCEPT !.paused = TRUE] ELSE counted
        /\ cpoll' = IF recover THEN [at |-> "recover", refresh |-> StoredPair.refresh] ELSE CursorIdle
        /\ UNCHANGED <<csqlite, ckeyring, cserver, callowed, chistory>>
    BY <1>6 DEF CursorRefuses
  <2> HIDE DEF counted
  <2>4. /\ cursor' \in CursorShape
        /\ cursor'.paused \/ recover \/ ~last
        /\ cursor' = counted \/ cursor'.paused
    BY <2>2, <2>3 DEF CursorShape
  <2>5. /\ cpoll' \in CursorPollShape /\ CursorKnown(cpoll'.refresh)
        /\ cpoll'.at \in {"recover", "idle"} /\ (cpoll'.at = "recover" <=> recover)
        /\ cpoll'.at = "recover" => cpoll'.refresh # Absent
    BY <1>1, <1>2, <1>3, <2>3 DEF CursorPollShape
  <2>6. counted.fails \in Nat /\ CursorMaxAuthFailures \in Nat
    BY <2>2, CursorAssumption DEF CursorAssumption
  <2>7. CursorFailuresLeft'
    BY <2>4, <2>5, <2>6 DEF CursorFailuresLeft
  <2>8. QED
    BY <1>1, <2>3, <2>4, <2>5, <2>7, CursorAgentStepInv
<1>7. CASE RefetchFails
  <2>1. cursor' \in CursorShape /\ cursor'.paused = TRUE
    BY <1>1, <1>7 DEF RefetchFails, CursorShape
  <2>2. cpoll' = CursorIdle /\ UNCHANGED <<csqlite, ckeyring, cserver, callowed, chistory>>
    BY <1>7 DEF RefetchFails
  <2>3. CursorFailuresLeft'
    BY <1>3, <2>1, <2>2 DEF CursorFailuresLeft
  <2>4. QED
    BY <1>1, <1>2, <1>3, <2>1, <2>2, <2>3, CursorAgentStepInv
<1>8. CASE CursorFetchFails
  <2>1. /\ cpoll.at = "fetch" /\ cpoll' = CursorIdle
        /\ UNCHANGED <<cursor, csqlite, ckeyring, cserver, callowed, chistory>>
    BY <1>8 DEF CursorFetchFails
  <2>2. CursorFailuresLeft'
    BY <1>1, <1>3, <2>1 DEF CursorFailuresLeft
  <2>3. QED
    BY <1>1, <1>2, <1>3, <2>1, <2>2, CursorAgentStepInv
<1>9. QED
  BY <1>4, <1>5, <1>6, <1>7, <1>8, BeginCursorPollInv, CursorRefreshedInv, CursorRefreshFailsInv
     DEF CursorPoll

\* Another program takes a number for its tokens.
LEMMA CursorOutsideIssues ==
  ASSUME CursorTypes, NEW account \in Accounts, NEW spends \in SUBSET (1 .. Len(cserver.owners)),
         Len(cserver.owners) < MaxCursorTokens,
         cserver' = [cserver EXCEPT !.owners = Append(@, account), !.spent = @ \cup spends]
  PROVE  /\ CursorServerOK' /\ Len(cserver.owners) \in Nat
         /\ Len(cserver'.owners) = Len(cserver.owners) + 1
         /\ cserver'.spent = cserver.spent \cup spends
         /\ Len(cserver.owners) + 1 \in CursorTokens
<1> USE DEF CursorTypes, CursorServerOK, CursorServerShape
<1>1. /\ Len(cserver.owners) \in Nat /\ cserver'.owners = Append(cserver.owners, account)
      /\ cserver'.spent = cserver.spent \cup spends
      /\ cserver'.soon = cserver.soon /\ cserver'.dead = cserver.dead
      /\ cserver' \in [owners : {cserver'.owners}, soon : Int, dead : Int, spent : {cserver'.spent}]
  <2>1. cserver \in CursorServerShape /\ cserver.owners \in Seq(Accounts)
    OBVIOUS
  <2>2. Len(cserver.owners) \in Nat
    BY <2>1
  <2>3. QED
    BY <2>1, <2>2
<1>2. cserver'.owners \in Seq(Accounts) /\ Len(cserver'.owners) = Len(cserver.owners) + 1
  BY <1>1
<1>3. cserver'.spent \subseteq 1 .. Len(cserver'.owners) /\ cserver'.spent \in SUBSET Nat
  BY <1>1, <1>2
<1>4. cserver' \in CursorServerShape
  BY <1>1, <1>2, <1>3
<1>5. QED
  BY <1>1, <1>2, <1>3, <1>4, CursorAssumption DEF CursorAssumption, CursorTokens

\* What goes on outside the agent, and its restart.
LEMMA CursorOutsideInv ==
  ASSUME CursorInv, CursorOutside
  PROVE  CursorInv'
<1> USE DEF CursorInv
<1>1. /\ CursorTypes /\ CursorAgentOK /\ CursorPollOK /\ CursorStoresOK /\ CursorServerOK
      /\ CursorHistoryOK
  BY DEF CursorTypes
<1>2. CASE CursorTokensAge
  <2>1. /\ cserver'.owners = cserver.owners /\ cserver'.spent = cserver.spent
        /\ CursorServerOK' /\ UNCHANGED <<cursor, cpoll, csqlite, ckeyring, callowed, chistory>>
    BY <1>1, <1>2 DEF CursorTokensAge, CursorServerOK, CursorServerShape
  <2>2. QED
    BY <1>1, <2>1 DEF CursorTypes, CursorAgentOK, CursorPollOK, CursorStoresOK, CursorHistoryOK,
       CursorKnown, CursorFailuresLeft, NoKeyringIsEmpty, IsPresent, BothUnspent
<1>3. CASE CursorLogin
  <2> DEFINE n == Len(cserver.owners) + 1
  <2>1. PICK account \in Accounts : cserver' = [cserver EXCEPT !.owners = Append(@, account)]
    BY <1>3 DEF CursorLogin
  <2>2. /\ Len(cserver.owners) < MaxCursorTokens
        /\ \/ csqlite' = [access |-> n, refresh |-> n] /\ UNCHANGED ckeyring
           \/ chistory.keyring /\ ckeyring' = [access |-> n, refresh |-> n] /\ UNCHANGED csqlite
        /\ UNCHANGED <<cursor, cpoll, callowed, chistory>>
    BY <1>3 DEF CursorLogin
  <2>3. cserver' = [cserver EXCEPT !.owners = Append(@, account), !.spent = @ \cup {}]
    BY <1>1, <2>1 DEF CursorServerOK, CursorServerShape
  <2>4. /\ CursorServerOK' /\ Len(cserver.owners) \in Nat /\ Len(cserver'.owners) = n
        /\ cserver'.spent = cserver.spent /\ n \in CursorTokens
    <3>1. {} \in SUBSET (1 .. Len(cserver.owners)) /\ cserver.spent \cup {} = cserver.spent
      OBVIOUS
    <3>2. QED
      BY <1>1, <2>2, <2>3, <3>1, CursorOutsideIssues
  <2>5. /\ \A token : CursorKnown(token) => CursorKnown(token)'
        /\ \A token \in {n} : CursorKnown(token)'
    BY <1>1, <2>4, MoreAreKnown DEF CursorKnown
  <2>6. n \notin cserver'.spent
    BY <1>1, <2>4 DEF CursorServerOK
  <2> HIDE DEF n
  <2>7. CursorTypes' /\ CursorFailuresLeft'
    BY <1>1, <2>2, <2>4, <2>5 DEF CursorTypes, CursorAgentOK, CursorPollOK, CursorStoresOK,
       CursorHistoryOK, CursorPair, CursorFailuresLeft
  <2>8. NoKeyringIsEmpty' /\ BothUnspent'
    BY <2>2, <2>4, <2>6 DEF NoKeyringIsEmpty, IsPresent, BothUnspent
  <2>9. QED
    BY <2>7, <2>8
<1>4. CASE ToolRotates
  <2> DEFINE n == Len(cserver.owners) + 1
  <2>1. PICK pair \in {csqlite, ckeyring} :
           /\ pair.refresh \notin cserver.spent \cup {Absent}
           /\ cserver' = [cserver EXCEPT !.owners = Append(@, OwnerOf(pair.refresh)),
                                         !.spent = @ \cup {pair.refresh}]
    BY <1>4 DEF ToolRotates
  <2>2. /\ Len(cserver.owners) < MaxCursorTokens
        /\ \/ csqlite' = [access |-> n, refresh |-> n] /\ UNCHANGED ckeyring
           \/ /\ ckeyring' = [access |-> n, refresh |-> n] /\ UNCHANGED csqlite
              /\ ckeyring.refresh # Absent
        /\ chistory' = [chistory EXCEPT !.rotated = TRUE] /\ UNCHANGED <<cursor, cpoll, callowed>>
    BY <1>4 DEF ToolRotates
  <2>3. pair.refresh \in 1 .. Len(cserver.owners) /\ OwnerOf(pair.refresh) \in Accounts
    BY <1>1, <2>1 DEF CursorStoresOK, CursorKnown, CursorPair, CursorTokens, Absent, OwnerOf,
       CursorServerOK, CursorServerShape
  <2>4. /\ CursorServerOK' /\ Len(cserver.owners) \in Nat /\ Len(cserver'.owners) = n
        /\ n \in CursorTokens
    <3>1. {pair.refresh} \in SUBSET (1 .. Len(cserver.owners))
      BY <2>3
    <3>2. QED
      BY <1>1, <2>1, <2>2, <2>3, <3>1, CursorOutsideIssues
  <2>5. /\ \A token : CursorKnown(token) => CursorKnown(token)'
        /\ \A token \in {n} : CursorKnown(token)'
    BY <1>1, <2>4, MoreAreKnown DEF CursorKnown
  <2>6. CursorHistoryOK' /\ chistory'.rotated /\ chistory'.keyring = chistory.keyring
    BY <1>1, <2>2 DEF CursorHistoryOK, CursorHistoryShape
  <2> HIDE DEF n
  <2>7. CursorTypes' /\ CursorFailuresLeft'
    BY <1>1, <2>2, <2>4, <2>5, <2>6 DEF CursorTypes, CursorAgentOK, CursorPollOK, CursorStoresOK,
       CursorPair, CursorFailuresLeft
  <2>8. NoKeyringIsEmpty' /\ BothUnspent'
    BY <2>2, <2>6 DEF NoKeyringIsEmpty, IsPresent, BothUnspent
  <2>9. QED
    BY <2>7, <2>8
<1>5. CASE ToggleCursorRefresh
  <2>1. callowed' \in BOOLEAN /\ UNCHANGED <<cursor, cpoll, csqlite, ckeyring, cserver, chistory>>
    BY <1>5 DEF ToggleCursorRefresh
  <2>2. CursorFailuresLeft'
    BY <2>1 DEF CursorFailuresLeft
  <2>3. QED
    BY <1>1, <2>1, <2>2, CursorAgentStepInv DEF CursorAgentOK, CursorPollOK
<1>6. CASE RestartCursor
  <2>1. /\ cursor' = NewCursorAgent(StoredPair.access) /\ cpoll' = CursorIdle
        /\ UNCHANGED <<csqlite, ckeyring, cserver, callowed, chistory>>
    BY <1>6 DEF RestartCursor
  <2>2. StoredPair.access \in CursorTokens /\ Absent \in CursorTokens /\ CursorKnown(Absent)
    BY <1>1, StoredPairIsKnown, CursorAssumption DEF CursorAssumption, CursorTokens, Absent,
       CursorKnown, CursorServerOK, CursorServerShape
  <2>3. cursor' \in CursorShape /\ cursor'.fails = 0
    BY <2>1, <2>2, CursorAssumption DEF CursorAssumption, NewCursorAgent, CursorShape
  <2>4. cpoll' \in CursorPollShape /\ cpoll'.refresh = Absent /\ cpoll'.at = "idle"
    BY <2>1, <2>2 DEF CursorIdle, CursorPollShape
  <2>5. CursorFailuresLeft'
    BY <2>3, CursorAssumption DEF CursorFailuresLeft, CursorAssumption
  <2>6. QED
    BY <1>1, <2>1, <2>2, <2>3, <2>4, <2>5, CursorAgentStepInv DEF CursorAgentOK
<1>7. QED
  BY <1>2, <1>3, <1>4, <1>5, <1>6 DEF CursorOutside

-----------------------------------------------------------------------------
(* Cursor: the theorems *)

\* The invariant holds throughout.
LEMMA CursorInvAlways == CursorSpec => []CursorInv
<1>1. CursorInv /\ UNCHANGED cursorVars => CursorInv'
  BY DEF CursorInv, CursorTypes, CursorAgentOK, CursorPollOK, CursorStoresOK, CursorServerOK,
     CursorHistoryOK, CursorKnown, CursorFailuresLeft, NoKeyringIsEmpty, IsPresent, BothUnspent,
     cursorVars
<1>2. CursorInv /\ [CursorNext]_cursorVars => CursorInv'
  BY <1>1, CursorPollInv, CursorOutsideInv DEF CursorNext
<1>3. QED
  BY <1>2, CursorInitInv, PTL DEF CursorSpec

\* The agent's fields, the poll, the two stores and what Cursor has issued have
\* their types; the counter of refusals stays within cursorMaxAuthFailures.
THEOREM CursorTypeCorrect == CursorSpec => []CursorTypeOK
<1>1. CursorInv => CursorTypeOK
  BY DEF CursorInv, CursorTypes, CursorAgentOK, CursorPollOK, CursorStoresOK, CursorServerOK,
     CursorHistoryOK, CursorTypeOK, CursorShape, CursorPollShape, CursorServerShape,
     CursorHistoryShape
<1>2. QED
  BY <1>1, CursorInvAlways, PTL

\* Neither store keeps a refresh token that the agent has spent, so the one it
\* presents next is good, although logins, rotations and restarts fall between
\* its reading the token and the answer.
THEOREM CursorRefreshUnspent == CursorSpec => []StoredRefreshIsUnspent
<1>1. CursorInv => StoredRefreshIsUnspent
  <2>1. SUFFICES ASSUME CursorInv, chistory.faults = 0, ~chistory.rotated
                 PROVE  StoredPair.refresh \notin cserver.spent
    BY CursorAssumption DEF StoredRefreshIsUnspent, CursorInv, CursorTypes, CursorHistoryOK,
       CursorHistoryShape, CursorAssumption
  <2>2. StoredPair \in {csqlite, ckeyring}
    BY <2>1, StoredPairIsKnown DEF CursorInv
  <2>3. QED
    BY <2>1, <2>2 DEF CursorInv, BothUnspent
<1>2. QED
  BY <1>1, CursorInvAlways, PTL


-----------------------------------------------------------------------------
(* Codex: types *)

CodexPairs == [account : CodexAccounts, age : 0 .. 3, spent : BOOLEAN]
CodexFiles == [pair : Nat, account : Nat]
CodexStores == [codex : CodexFiles, opencode : CodexFiles, profile : CodexFiles]
CodexShape == [at : {"idle", "refresh", "read", "fetch", "retry"}, creds : Nat, token : Nat,
               last : Nat, paused : BOOLEAN, failed : Nat, auth : Nat, proactive : Nat,
               faults : Nat]

\* A file is missing or holds a pair that was issued; one of the two files that
\* the default agent reads exists, and that of a profile is the profile's.
CodexFilesOK ==
    /\ stores \in CodexStores
    /\ \A name \in {"codex", "opencode", "profile"} :
          stores[name] = NoFile \/ stores[name].pair \in 1 .. Len(pairs)
    /\ stores.codex # NoFile \/ stores.opencode # NoFile
    /\ role = "named" => stores.profile # NoFile /\ stores.profile.account = Own

CodexAgentOK ==
    /\ codex \in CodexShape
    /\ codex.token \in 1 .. Len(pairs)
    /\ codex.creds \in 0 .. Len(pairs) /\ codex.failed \in 0 .. Len(pairs)
    /\ codex.at = "refresh" => codex.creds # 0

CodexTypes ==
    /\ role \in {"default", "named"} /\ pairs \in Seq(CodexPairs)
    /\ CodexFilesOK /\ CodexAgentOK /\ refreshed \in 0 .. Len(pairs)

\* Beside the agent of a profile, the account_id of a file is that of its pair:
\* the default agent alone writes a pair next to another account's id.
FilesAreLabelled ==
    \A name \in {"codex", "opencode", "profile"} :
       stores[name] # NoFile => pairs[stores[name].pair].account = stores[name].account

\* What the agent of a profile holds, and is about to refresh, is its own.
AgentHoldsOwn ==
    /\ pairs[codex.token].account = Own
    /\ codex.at = "refresh" => pairs[codex.creds].account = Own

CodexInv == CodexTypes /\ (role = "named" => FilesAreLabelled /\ AgentHoldsOwn)

\* Pairs are issued and age, and are used up; whose they are never changes.
PairsGrow ==
    /\ pairs' \in Seq(CodexPairs) /\ Len(pairs') \in Nat /\ Len(pairs') >= Len(pairs)
    /\ \A n \in 1 .. Len(pairs) : pairs'[n].account = pairs[n].account

\* To change a pair in its age or its use is to grow.
LEMMA ChangedPairGrows ==
  ASSUME pairs \in Seq(CodexPairs), NEW n \in 1 .. Len(pairs), NEW p \in CodexPairs,
         p.account = pairs[n].account, pairs' = [pairs EXCEPT ![n] = p]
  PROVE  PairsGrow /\ Len(pairs') = Len(pairs)
<1>1. Len(pairs') = Len(pairs) /\ Len(pairs) \in Nat /\ pairs' \in Seq(CodexPairs)
  OBVIOUS
<1>2. \A m \in 1 .. Len(pairs) : pairs'[m].account = pairs[m].account
  OBVIOUS
<1>3. QED
  BY <1>1, <1>2 DEF PairsGrow

\* To use up a pair and issue the next one for the same account is to grow.
LEMMA RotatedPairGrows ==
  ASSUME pairs \in Seq(CodexPairs), NEW n \in 1 .. Len(pairs), NEW account \in CodexAccounts,
         pairs' \in {Append(pairs, Issued(account)),
                     Append([pairs EXCEPT ![n].spent = TRUE], Issued(account))}
  PROVE  /\ PairsGrow /\ Len(pairs') = Len(pairs) + 1
         /\ pairs'[Len(pairs) + 1].account = account
<1>1. Issued(account) \in CodexPairs /\ Issued(account).account = account
  BY DEF Issued, CodexPairs
<1> DEFINE spent == [pairs EXCEPT ![n].spent = TRUE]
<1>2. /\ spent \in Seq(CodexPairs) /\ Len(spent) = Len(pairs) /\ Len(pairs) \in Nat
      /\ \A m \in 1 .. Len(pairs) : spent[m].account = pairs[m].account
  <2>1. [pairs[n] EXCEPT !.spent = TRUE] \in CodexPairs
    <3>1. pairs[n] \in CodexPairs
      OBVIOUS
    <3>2. QED
      BY <3>1 DEF CodexPairs
  <2>2. spent \in Seq(CodexPairs) /\ Len(spent) = Len(pairs) /\ Len(pairs) \in Nat
    BY <2>1
  <2>3. ASSUME NEW m \in 1 .. Len(pairs)
        PROVE  spent[m].account = pairs[m].account
    <3>1. pairs[m] \in CodexPairs
      OBVIOUS
    <3>2. CASE m = n
      BY <3>1, <3>2 DEF CodexPairs
    <3>3. CASE m # n
      BY <3>3
    <3>4. QED
      BY <3>2, <3>3
  <2>4. QED
    BY <2>2, <2>3
<1> HIDE DEF spent
<1>3. \A old \in {pairs, spent} :
         /\ old \in Seq(CodexPairs) /\ Len(old) = Len(pairs)
         /\ \A m \in 1 .. Len(pairs) : old[m].account = pairs[m].account
  BY <1>2
<1>4. PICK old \in {pairs, spent} : pairs' = Append(old, Issued(account))
  BY DEF spent
<1>5. /\ pairs' \in Seq(CodexPairs) /\ Len(pairs') = Len(pairs) + 1
      /\ pairs'[Len(pairs) + 1] = Issued(account)
      /\ \A m \in 1 .. Len(pairs) : pairs'[m] = old[m]
  BY <1>1, <1>2, <1>3, <1>4
<1>6. QED
  BY <1>1, <1>2, <1>3, <1>5 DEF PairsGrow

\* A call that failed is counted, and nothing else changes.
LEMMA FaultKeepsShape ==
  ASSUME NEW c \in CodexShape
  PROVE  /\ Fault(c) \in CodexShape
         /\ Fault(c).at = c.at /\ Fault(c).token = c.token /\ Fault(c).creds = c.creds
         /\ Fault(c).failed = c.failed /\ Fault(c).proactive = c.proactive
<1>1. c.faults + 1 \in Nat
  BY DEF CodexShape
<1>2. QED
  BY <1>1 DEF Fault, CodexShape

\* What the agent reads is a pair that was issued, and the profile's own for the
\* agent of a profile; what it copies into the profile is the profile's own.
LEMMA CredentialsAreOwn ==
  ASSUME CodexInv
  PROVE  /\ CodexCredentials \in 1 .. Len(pairs)
         /\ role = "named" => pairs[CodexCredentials].account = Own
         /\ Consulted \in CodexStores
         /\ Consulted.codex = stores.codex /\ Consulted.opencode = stores.opencode
         /\ Consulted.profile.account = stores.profile.account
         /\ Consulted.profile.pair \in {stores.profile.pair, DetectCodexCredentials.pair}
         /\ role = "named" => Consulted.profile.pair = CodexCredentials
         /\ role # "named" => Consulted = stores
<1> USE DEF CodexInv, CodexTypes, CodexFilesOK, CodexStores, CodexFiles
<1>1. /\ DetectCodexCredentials \in {stores.codex, stores.opencode}
      /\ DetectCodexCredentials \in CodexFiles /\ DetectCodexCredentials # NoFile
      /\ DetectCodexCredentials.pair \in 1 .. Len(pairs)
      /\ role = "named" => pairs[DetectCodexCredentials.pair].account = DetectCodexCredentials.account
  BY DEF DetectCodexCredentials, Source, FilesAreLabelled
<1>2. CASE FromSystem
  <2>1. role = "named" /\ DetectCodexCredentials.account = Own
    BY <1>2 DEF FromSystem, ShouldUseSystemCreds
  <2>2. Consulted = [stores EXCEPT !.profile.pair = DetectCodexCredentials.pair]
    BY <1>2 DEF Consulted
  <2>3. CodexCredentials = DetectCodexCredentials.pair
    BY <2>1, <2>2 DEF CodexCredentials
  <2>4. QED
    BY <1>1, <2>1, <2>2, <2>3
<1>3. CASE ~FromSystem
  <2>1. Consulted = stores
    BY <1>3 DEF Consulted
  <2>2. role = "named" => CodexCredentials = stores.profile.pair
    BY <2>1 DEF CodexCredentials
  <2>3. role # "named" => CodexCredentials = DetectCodexCredentials.pair
    BY DEF CodexCredentials
  <2>4. role = "named" =>
           stores.profile.pair \in 1 .. Len(pairs) /\ pairs[stores.profile.pair].account = Own
    BY DEF FilesAreLabelled
  <2>5. QED
    BY <1>1, <2>1, <2>2, <2>3, <2>4
<1>4. QED
  BY <1>2, <1>3

\* The invariant of the files is kept when the profile is brought up to date.
LEMMA ConsultedKeepsFiles ==
  ASSUME CodexInv, stores' = Consulted, UNCHANGED <<role, pairs>>
  PROVE  CodexFilesOK' /\ (role = "named" => FilesAreLabelled')
<1>1. /\ CodexCredentials \in 1 .. Len(pairs)
      /\ role = "named" => pairs[CodexCredentials].account = Own
      /\ stores' \in CodexStores
      /\ stores'.codex = stores.codex /\ stores'.opencode = stores.opencode
      /\ stores'.profile.account = stores.profile.account
      /\ role = "named" => stores'.profile.pair = CodexCredentials
      /\ role # "named" => stores' = stores
  BY CredentialsAreOwn
<1>2. role # "named" => CodexFilesOK'
  BY <1>1 DEF CodexInv, CodexTypes, CodexFilesOK
<1>3. ASSUME role = "named" PROVE CodexFilesOK' /\ FilesAreLabelled'
  <2>1. stores'.profile.account = Own /\ stores'.profile # NoFile
    BY <1>1, <1>3 DEF CodexInv, CodexTypes, CodexFilesOK, NoFile, Own
  <2>2. \A name \in {"codex", "opencode"} : stores'[name] = stores[name]
    BY <1>1
  <2>3. CodexFilesOK'
    BY <1>1, <1>3, <2>1, <2>2 DEF CodexInv, CodexTypes, CodexFilesOK
  <2>4. FilesAreLabelled'
    BY <1>1, <1>3, <2>1, <2>2 DEF CodexInv, FilesAreLabelled
  <2>5. QED
    BY <2>3, <2>4
<1>4. QED
  BY <1>2, <1>3

\* The agent's side of the invariant where pairs may have been issued.
LEMMA CodexAgentStays ==
  ASSUME CodexInv, PairsGrow, UNCHANGED <<role, codex>>
  PROVE  CodexAgentOK' /\ (role = "named" => AgentHoldsOwn')
<1>1. Len(pairs) \in Nat
  BY DEF CodexInv, CodexTypes
<1>2. CodexAgentOK'
  BY <1>1 DEF CodexInv, CodexTypes, CodexAgentOK, PairsGrow, CodexShape
<1>3. role = "named" => AgentHoldsOwn'
  BY <1>1 DEF CodexInv, CodexTypes, CodexAgentOK, AgentHoldsOwn, PairsGrow
<1>4. QED
  BY <1>2, <1>3

\* So do the files that no step touches.
LEMMA CodexFilesStay ==
  ASSUME CodexInv, PairsGrow, UNCHANGED <<role, stores>>
  PROVE  CodexFilesOK' /\ (role = "named" => FilesAreLabelled')
<1>1. Len(pairs) \in Nat
  BY DEF CodexInv, CodexTypes
<1>2. CodexFilesOK'
  BY <1>1 DEF CodexInv, CodexTypes, CodexFilesOK, PairsGrow
<1>3. role = "named" => FilesAreLabelled'
  BY <1>1 DEF CodexInv, CodexTypes, CodexFilesOK, FilesAreLabelled, PairsGrow
<1>4. QED
  BY <1>2, <1>3

-----------------------------------------------------------------------------
(* Codex: the steps *)

\* The first state satisfies the invariant.
LEMMA CodexInitInv == CodexInit => CodexInv
<1> SUFFICES ASSUME CodexInit PROVE CodexInv
  OBVIOUS
<1> USE DEF CodexInit
<1>1. /\ pairs \in Seq(CodexPairs) /\ Len(pairs) = 1 /\ pairs[1].account = Own
  BY DEF CodexPairs, Issued, CodexAccounts, Own
<1>2. CodexFilesOK /\ FilesAreLabelled
  BY <1>1 DEF CodexFilesOK, CodexStores, CodexFiles, File, NoFile, Own, FilesAreLabelled
<1>3. CodexAgentOK /\ AgentHoldsOwn
  BY <1>1 DEF CodexAgentOK, CodexShape, AgentHoldsOwn
<1>4. QED
  BY <1>1, <1>2, <1>3 DEF CodexInv, CodexTypes

\* The start of a poll.
LEMMA BeginCodexPollInv ==
  ASSUME CodexInv, BeginPoll
  PROVE  CodexInv'
<1>1. /\ stores' = Consulted /\ UNCHANGED <<role, pairs, refreshed>>
      /\ codex' = [codex EXCEPT !.creds = CodexCredentials,
                                !.at = IF IsExpiringSoon THEN "refresh" ELSE "read"]
  BY DEF BeginPoll
<1>2. CodexFilesOK' /\ (role = "named" => FilesAreLabelled')
  BY <1>1, ConsultedKeepsFiles
<1>3. /\ CodexCredentials \in 1 .. Len(pairs) /\ Len(pairs) \in Nat /\ CodexCredentials \in Nat
      /\ role = "named" => pairs[CodexCredentials].account = Own
  BY CredentialsAreOwn DEF CodexInv, CodexTypes
<1>4. /\ codex' \in CodexShape /\ codex'.creds = CodexCredentials /\ codex'.token = codex.token
      /\ codex'.failed = codex.failed
  BY <1>1, <1>3 DEF CodexInv, CodexTypes, CodexAgentOK, CodexShape
<1>5. CodexAgentOK' /\ (role = "named" => AgentHoldsOwn')
  BY <1>1, <1>3, <1>4 DEF CodexInv, CodexTypes, CodexAgentOK, AgentHoldsOwn
<1>6. QED
  BY <1>1, <1>2, <1>5 DEF CodexInv, CodexTypes

\* The refreshed pair is of the account of the pair that the agent presented;
\* it is written to the profile's file, or to the file found at that moment.
LEMMA RefreshSucceedsInv ==
  ASSUME CodexInv, RefreshSucceeds
  PROVE  CodexInv'
<1> DEFINE n == Len(pairs) + 1
           c == [codex EXCEPT !.at = "read", !.proactive = 0]
           installed == [c EXCEPT !.token = n, !.last = n]
           account == pairs[codex.creds].account
<1>1. /\ pairs \in Seq(CodexPairs) /\ Len(pairs) \in Nat /\ codex \in CodexShape
      /\ codex.creds \in 1 .. Len(pairs) /\ account \in CodexAccounts /\ n \in Nat
      /\ role = "named" => account = Own
  <2>1. /\ pairs \in Seq(CodexPairs) /\ Len(pairs) \in Nat /\ codex \in CodexShape
        /\ codex.at = "refresh" /\ codex.creds \in 0 .. Len(pairs) /\ codex.creds # 0
        /\ role = "named" => account = Own
    BY DEF CodexInv, CodexTypes, CodexAgentOK, RefreshSucceeds, AgentHoldsOwn
  <2>2. codex.creds \in 1 .. Len(pairs) /\ n \in Nat
    BY <2>1
  <2>3. pairs[codex.creds] \in CodexPairs
    BY <2>1, <2>2
  <2>4. QED
    BY <2>1, <2>2, <2>3 DEF CodexPairs
<1>2. /\ pairs' = Append([pairs EXCEPT ![codex.creds].spent = TRUE], Issued(account))
      /\ \/ /\ stores' = SavedFiles(n)
            /\ codex' = IF c.paused THEN Resumed(installed) ELSE installed
            /\ refreshed' = n
         \/ /\ codex' = Fault(c)
            /\ UNCHANGED <<stores, refreshed>>
      /\ UNCHANGED role
  BY DEF RefreshSucceeds
<1>3. PairsGrow /\ Len(pairs') = n /\ pairs'[n].account = account
  BY <1>1, <1>2, RotatedPairGrows
<1>4. c \in CodexShape /\ c.at = "read" /\ c.token = codex.token /\ c.creds = codex.creds
      /\ c.failed = codex.failed
  BY <1>1 DEF CodexShape
<1> HIDE DEF c
<1>5. CASE UNCHANGED <<stores, refreshed>> /\ codex' = Fault(c)
  <2>1. CodexFilesOK' /\ (role = "named" => FilesAreLabelled')
    BY <1>2, <1>3, <1>5, CodexFilesStay
  <2>2. /\ codex' \in CodexShape /\ codex'.at = "read" /\ codex'.token = codex.token
        /\ codex'.creds = codex.creds /\ codex'.failed = codex.failed
    BY <1>4, <1>5, FaultKeepsShape
  <2>3. CodexAgentOK' /\ (role = "named" => AgentHoldsOwn')
    BY <1>1, <1>2, <1>3, <2>2 DEF CodexInv, CodexTypes, CodexAgentOK, AgentHoldsOwn, PairsGrow
  <2>4. QED
    BY <1>1, <1>2, <1>3, <1>5, <2>1, <2>3 DEF CodexInv, CodexTypes, PairsGrow
<1>6. CASE /\ stores' = SavedFiles(n) /\ refreshed' = n
           /\ codex' = IF c.paused THEN Resumed(installed) ELSE installed
  <2>1. /\ codex' \in CodexShape /\ codex'.at = "read" /\ codex'.token = n
        /\ codex'.creds = codex.creds /\ codex'.failed \in {codex.failed, 0}
    <3> HIDE DEF n
    <3>1. /\ installed \in CodexShape /\ installed.at = "read" /\ installed.token = n
          /\ installed.creds = codex.creds /\ installed.failed = codex.failed
      BY <1>1, <1>4 DEF CodexShape
    <3> HIDE DEF installed
    <3>2. QED
      BY <1>6, <3>1 DEF Resumed, CodexShape
  <2>2. CodexAgentOK' /\ (role = "named" => AgentHoldsOwn')
    BY <1>1, <1>2, <1>3, <2>1 DEF CodexInv, CodexTypes, CodexAgentOK, AgentHoldsOwn, PairsGrow
  <2>3. PICK name \in {"codex", "opencode", "profile"} :
           /\ stores' = [stores EXCEPT ![name].pair = n] /\ stores[name] # NoFile
           /\ role = "named" => name = "profile"
    BY <1>6 DEF SavedFiles, Source, CodexInv, CodexTypes, CodexFilesOK
  <2>4. /\ stores' \in CodexStores
        /\ stores'[name].pair = n /\ stores'[name].account = stores[name].account
        /\ stores'[name] # NoFile
        /\ \A other \in {"codex", "opencode", "profile"} : other # name => stores'[other] = stores[other]
    <3>1. stores \in CodexStores /\ n \in Nat /\ n # 0
      BY <1>1 DEF CodexInv, CodexTypes, CodexFilesOK
    <3>2. CASE name = "codex"
      BY <2>3, <3>1, <3>2 DEF CodexStores, CodexFiles, NoFile
    <3>3. CASE name = "opencode"
      BY <2>3, <3>1, <3>3 DEF CodexStores, CodexFiles, NoFile
    <3>4. CASE name = "profile"
      BY <2>3, <3>1, <3>4 DEF CodexStores, CodexFiles, NoFile
    <3>5. QED
      BY <3>2, <3>3, <3>4
  <2>5. CodexFilesOK'
    <3>1. \A other \in {"codex", "opencode", "profile"} :
             stores'[other] = NoFile \/ stores'[other].pair \in 1 .. Len(pairs')
      BY <1>1, <1>3, <2>4 DEF CodexInv, CodexTypes, CodexFilesOK
    <3>2. \A other \in {"codex", "opencode", "profile"} : stores[other] # NoFile => stores'[other] # NoFile
      BY <2>4
    <3>3. role = "named" => stores'.profile.account = Own
      BY <2>3, <2>4 DEF CodexInv, CodexTypes, CodexFilesOK
    <3>4. QED
      BY <1>2, <2>4, <3>1, <3>2, <3>3 DEF CodexInv, CodexTypes, CodexFilesOK
  <2>6. role = "named" => FilesAreLabelled'
    <3>1. SUFFICES ASSUME role = "named" PROVE FilesAreLabelled'
      OBVIOUS
    <3>2. stores.profile.account = Own /\ account = Own /\ name = "profile"
      BY <1>1, <2>3, <3>1 DEF CodexInv, CodexTypes, CodexFilesOK
    <3>3. \A other \in {"codex", "opencode"} : stores'[other] # NoFile =>
             pairs'[stores'[other].pair].account = stores'[other].account
      BY <1>3, <2>4, <3>1, <3>2 DEF CodexInv, CodexTypes, CodexFilesOK, FilesAreLabelled, PairsGrow
    <3>4. QED
      BY <1>3, <2>4, <3>2, <3>3 DEF FilesAreLabelled
  <2>7. QED
    BY <1>1, <1>2, <1>3, <1>6, <2>2, <2>5, <2>6 DEF CodexInv, CodexTypes, PairsGrow
<1>7. QED
  BY <1>2, <1>5, <1>6

\* A step that changes the agent alone.
LEMMA CodexAgentStepInv ==
  ASSUME CodexInv, codex' \in CodexShape, codex'.token \in {codex.token, CodexCredentials},
         codex'.creds \in {0, codex.creds}, codex'.failed \in {0, codex.failed, codex.creds, CodexCredentials},
         codex'.at # "refresh", stores' \in {stores, Consulted}, UNCHANGED <<role, pairs, refreshed>>
  PROVE  CodexInv'
<1>1. /\ CodexCredentials \in 1 .. Len(pairs) /\ Len(pairs) \in Nat /\ pairs \in Seq(CodexPairs)
      /\ role = "named" => pairs[CodexCredentials].account = Own
  BY CredentialsAreOwn DEF CodexInv, CodexTypes
<1>2. CodexAgentOK' /\ (role = "named" => AgentHoldsOwn')
  BY <1>1 DEF CodexInv, CodexTypes, CodexAgentOK, AgentHoldsOwn
<1>3. PairsGrow
  BY <1>1 DEF PairsGrow
<1>4. CodexFilesOK' /\ (role = "named" => FilesAreLabelled')
  BY <1>3, CodexFilesStay, ConsultedKeepsFiles
<1>5. QED
  BY <1>2, <1>4 DEF CodexInv, CodexTypes

\* The other steps of the poll.
LEMMA CodexStepsInv ==
  ASSUME CodexInv, CodexSteps
  PROVE  CodexInv'
<1>1. /\ codex \in CodexShape /\ pairs \in Seq(CodexPairs) /\ Len(pairs) \in Nat
      /\ CodexCredentials \in 1 .. Len(pairs) /\ CodexCredentials \in Nat
      /\ codex.at = "refresh" => codex.creds \in 1 .. Len(pairs)
  BY CredentialsAreOwn DEF CodexInv, CodexTypes, CodexAgentOK
<1>2. CASE RefreshReused
  <2>1. /\ codex' = [Paused(codex, codex.creds) EXCEPT !.at = "read"]
        /\ UNCHANGED <<role, pairs, stores, refreshed>>
    BY <1>2 DEF RefreshReused
  <2>2. /\ codex' \in CodexShape /\ codex'.at = "read" /\ codex'.token = codex.token
        /\ codex'.creds = codex.creds /\ codex'.failed = codex.creds
    BY <1>1, <2>1 DEF Paused, CodexShape
  <2>3. QED
    BY <2>1, <2>2, CodexAgentStepInv
<1>3. CASE RefreshFails
  <2> DEFINE failures == codex.proactive + 1
             c == [Fault(codex) EXCEPT !.at = "read", !.proactive = failures]
  <2>1. /\ codex' = IF failures >= MaxCodexAuthFailures THEN Paused(c, codex.creds) ELSE c
        /\ codex.at = "refresh" /\ UNCHANGED <<role, stores, refreshed>>
    BY <1>3 DEF RefreshFails
  <2>2. PICK lost \in BOOLEAN : pairs' = [pairs EXCEPT ![codex.creds].spent = @ \/ lost]
    BY <1>3 DEF RefreshFails
  <2>3. /\ c \in CodexShape /\ c.at = "read" /\ c.token = codex.token
        /\ c.creds = codex.creds /\ c.failed = codex.failed
    <3>1. codex.proactive + 1 \in Nat
      BY <1>1 DEF CodexShape
    <3>2. QED
      BY <1>1, <3>1, FaultKeepsShape DEF CodexShape
  <2> HIDE DEF c
  <2>4. /\ codex' \in CodexShape /\ codex'.at = "read" /\ codex'.token = codex.token
        /\ codex'.creds = codex.creds /\ codex'.failed \in {codex.failed, codex.creds}
    BY <2>1, <2>3 DEF Paused, CodexShape
  <2>5. PairsGrow /\ Len(pairs') = Len(pairs)
    <3> DEFINE p == [pairs[codex.creds] EXCEPT !.spent = @ \/ lost]
    <3>1. codex.creds \in 1 .. Len(pairs) /\ pairs[codex.creds] \in CodexPairs
      BY <1>1, <2>1
    <3>2. p \in CodexPairs /\ p.account = pairs[codex.creds].account
      <4>1. pairs[codex.creds].spent \in BOOLEAN
        BY <3>1 DEF CodexPairs
      <4>2. (pairs[codex.creds].spent \/ lost) \in BOOLEAN
        BY <4>1, Zenon
      <4>3. QED
        BY <3>1, <4>2 DEF CodexPairs
    <3>3. pairs' = [pairs EXCEPT ![codex.creds] = p]
      BY <2>2
    <3> HIDE DEF p
    <3>4. QED
      BY <1>1, <3>1, <3>2, <3>3, ChangedPairGrows
  <2>6. CodexFilesOK' /\ (role = "named" => FilesAreLabelled')
    BY <2>1, <2>5, CodexFilesStay
  <2>7. CodexAgentOK' /\ (role = "named" => AgentHoldsOwn')
    BY <2>1, <2>4, <2>5 DEF CodexInv, CodexTypes, CodexAgentOK, AgentHoldsOwn, PairsGrow
  <2>8. QED
    BY <2>1, <2>5, <2>6, <2>7 DEF CodexInv, CodexTypes, PairsGrow
<1>4. CASE ReadToken
  <2> DEFINE c == TokenRefresh(codex, CodexCredentials)
  <2>1. /\ stores' = Consulted /\ UNCHANGED <<role, pairs, refreshed>>
        /\ codex' = [c EXCEPT !.at = IF c.paused THEN "idle" ELSE "fetch", !.creds = 0]
    BY <1>4 DEF ReadToken
  <2>2. c \in CodexShape /\ c.token \in {codex.token, CodexCredentials} /\ c.failed \in {0, codex.failed}
    BY <1>1 DEF TokenRefresh, Resumed, CodexShape
  <2> HIDE DEF c
  <2>3. /\ codex' \in CodexShape /\ codex'.token = c.token /\ codex'.failed = c.failed
        /\ codex'.creds = 0 /\ codex'.at # "refresh"
    BY <2>1, <2>2 DEF CodexShape
  <2>4. QED
    BY <2>1, <2>2, <2>3, CodexAgentStepInv
<1>5. CASE Fetch
  <2>1. /\ codex' \in {[codex EXCEPT !.at = "idle", !.auth = 0], [codex EXCEPT !.at = "retry"],
                       [Fault(codex) EXCEPT !.at = "idle"]}
        /\ UNCHANGED <<role, pairs, stores, refreshed>>
    BY <1>5 DEF Fetch
  <2>2. /\ codex' \in CodexShape /\ codex'.token = codex.token /\ codex'.failed = codex.failed
        /\ codex'.creds = codex.creds /\ codex'.at # "refresh"
    <3>1. CASE codex' = [Fault(codex) EXCEPT !.at = "idle"]
      BY <1>1, <3>1, FaultKeepsShape DEF CodexShape
    <3>2. CASE codex' = [codex EXCEPT !.at = "retry"]
      BY <1>1, <3>2 DEF CodexShape
    <3>3. CASE codex' = [codex EXCEPT !.at = "idle", !.auth = 0]
      BY <1>1, <3>3 DEF CodexShape
    <3>4. QED
      BY <2>1, <3>1, <3>2, <3>3
  <2>3. QED
    BY <2>1, <2>2, CodexAgentStepInv
<1>6. CASE RetryFetch
  <2> DEFINE n == CodexCredentials
             c == [codex EXCEPT !.at = "idle", !.token = n, !.last = n]
             failed == [c EXCEPT !.auth = @ + 1]
  <2>1. /\ stores' = Consulted /\ UNCHANGED <<role, pairs, refreshed>>
        /\ codex' \in {[c EXCEPT !.auth = 0], Paused(failed, n), failed, Fault(c)}
    BY <1>6 DEF RetryFetch
  <2>2. /\ c \in CodexShape /\ c.at = "idle" /\ c.token = n /\ c.creds = codex.creds
        /\ c.failed = codex.failed
    BY <1>1 DEF CodexShape
  <2> HIDE DEF c
  <2>3. /\ codex' \in CodexShape /\ codex'.token = n /\ codex'.failed \in {codex.failed, n}
        /\ codex'.creds = codex.creds /\ codex'.at = "idle"
    <3>1. c.auth + 1 \in Nat
      BY <2>2 DEF CodexShape
    <3>2. /\ failed \in CodexShape /\ failed.at = "idle" /\ failed.token = n
          /\ failed.creds = codex.creds /\ failed.failed = codex.failed
      BY <2>2, <3>1 DEF CodexShape
    <3> HIDE DEF failed
    <3>3. CASE codex' \in {[c EXCEPT !.auth = 0], failed, Fault(c)}
      BY <2>2, <3>2, <3>3, FaultKeepsShape DEF CodexShape
    <3>4. CASE codex' = Paused(failed, n)
      BY <1>1, <3>2, <3>4 DEF Paused, CodexShape
    <3>5. QED
      BY <2>1, <3>3, <3>4
  <2>4. QED
    BY <2>1, <2>3, CodexAgentStepInv
<1>7. QED
  BY <1>2, <1>3, <1>4, <1>5, <1>6, BeginCodexPollInv, RefreshSucceedsInv DEF CodexSteps

\* A pair that a login or another program puts into one of the two files that
\* they share; its account is that of the pair.
LEMMA CodexOutsideWrites ==
  ASSUME CodexInv, PairsGrow, NEW source \in {"codex", "opencode"}, NEW file \in CodexFiles,
         file.pair \in 1 .. Len(pairs'), stores' = [stores EXCEPT ![source] = file],
         role = "named" => pairs'[file.pair].account = file.account,
         UNCHANGED <<role, codex, refreshed>>
  PROVE  CodexInv'
<1>1. /\ stores' \in CodexStores /\ stores'.profile = stores.profile /\ stores'[source] = file
      /\ file # NoFile
      /\ \A other \in {"codex", "opencode", "profile"} : other # source => stores'[other] = stores[other]
  BY DEF CodexInv, CodexTypes, CodexFilesOK, CodexStores, NoFile
<1>2. CodexFilesOK'
  <2>1. \A other \in {"codex", "opencode", "profile"} :
           stores'[other] = NoFile \/ stores'[other].pair \in 1 .. Len(pairs')
    BY <1>1 DEF CodexInv, CodexTypes, CodexFilesOK, PairsGrow
  <2>2. QED
    BY <1>1, <2>1 DEF CodexInv, CodexTypes, CodexFilesOK
<1>3. role = "named" => FilesAreLabelled'
  BY <1>1 DEF CodexInv, CodexTypes, CodexFilesOK, FilesAreLabelled, PairsGrow
<1>4. CodexAgentOK' /\ (role = "named" => AgentHoldsOwn')
  BY CodexAgentStays
<1>5. QED
  BY <1>2, <1>3, <1>4 DEF CodexInv, CodexTypes, PairsGrow

\* What goes on outside the agent.
LEMMA CodexOutsideInv ==
  ASSUME CodexInv, CodexOutside
  PROVE  CodexInv'
<1>1. /\ codex \in CodexShape /\ pairs \in Seq(CodexPairs) /\ Len(pairs) \in Nat /\ Len(pairs) >= 1
      /\ stores \in CodexStores
  BY DEF CodexInv, CodexTypes, CodexAgentOK, CodexFilesOK
<1>2. CASE RefreshDisabled
  <2>1. /\ codex' = [codex EXCEPT !.at = "read"] /\ UNCHANGED <<role, pairs, stores, refreshed>>
    BY <1>2 DEF RefreshDisabled
  <2>2. /\ codex' \in CodexShape /\ codex'.token = codex.token /\ codex'.failed = codex.failed
        /\ codex'.creds = codex.creds /\ codex'.at = "read"
    BY <1>1, <2>1 DEF CodexShape
  <2>3. QED
    BY <2>1, <2>2, CodexAgentStepInv
<1>3. ASSUME NEW source \in {"codex", "opencode"}, ProgramRefreshes(source)
      PROVE  CodexInv'
  <2> DEFINE n == stores[source].pair
             file == [stores[source] EXCEPT !.pair = Len(pairs) + 1]
  <2>1. /\ stores[source] # NoFile
        /\ pairs' = Append([pairs EXCEPT ![n].spent = TRUE], Issued(pairs[n].account))
        /\ stores' = [stores EXCEPT ![source] = file]
        /\ UNCHANGED <<role, codex, refreshed>>
    BY <1>3 DEF ProgramRefreshes
  <2>2. n \in 1 .. Len(pairs) /\ pairs[n].account \in CodexAccounts
    <3>1. n \in 1 .. Len(pairs)
      BY <2>1 DEF CodexInv, CodexTypes, CodexFilesOK
    <3>2. pairs[n] \in CodexPairs
      BY <1>1, <3>1
    <3>3. QED
      BY <3>1, <3>2 DEF CodexPairs
  <2>3. PairsGrow /\ Len(pairs') = Len(pairs) + 1 /\ pairs'[Len(pairs) + 1].account = pairs[n].account
    BY <1>1, <2>1, <2>2, RotatedPairGrows
  <2>4. file \in CodexFiles /\ file.pair = Len(pairs) + 1 /\ file.account = stores[source].account
    BY <1>1 DEF CodexStores, CodexFiles
  <2>5. role = "named" => pairs[n].account = file.account
    BY <2>1, <2>4 DEF CodexInv, FilesAreLabelled
  <2> HIDE DEF file
  <2>6. QED
    <3>1. /\ file.pair \in 1 .. Len(pairs')
          /\ role = "named" => pairs'[file.pair].account = file.account
      BY <1>1, <2>3, <2>4, <2>5
    <3>2. QED
      BY <2>1, <2>3, <2>4, <3>1, CodexOutsideWrites
<1>4. ASSUME NEW source \in {"codex", "opencode"}, NEW account \in CodexAccounts, Login(source, account)
      PROVE  CodexInv'
  <2> DEFINE file == File(Len(pairs) + 1, account)
  <2>1. /\ pairs' = Append(pairs, Issued(account)) /\ stores' = [stores EXCEPT ![source] = file]
        /\ UNCHANGED <<role, codex, refreshed>>
    BY <1>4 DEF Login
  <2>2. PairsGrow /\ Len(pairs') = Len(pairs) + 1 /\ pairs'[Len(pairs) + 1].account = account
    <3>1. 1 \in 1 .. Len(pairs)
      BY <1>1
    <3>2. QED
      BY <1>1, <2>1, <3>1, RotatedPairGrows
  <2>3. file \in CodexFiles /\ file.pair = Len(pairs) + 1 /\ file.account = account
    BY <1>1 DEF CodexFiles, File, CodexAccounts, Own
  <2> HIDE DEF file
  <2>4. QED
    <3>1. /\ file.pair \in 1 .. Len(pairs')
          /\ role = "named" => pairs'[file.pair].account = file.account
      BY <1>1, <2>2, <2>3
    <3>2. QED
      BY <2>1, <2>2, <2>3, <3>1, CodexOutsideWrites
<1>5. ASSUME NEW n \in DOMAIN pairs, Expire(n)
      PROVE  CodexInv'
  <2> DEFINE p == [pairs[n] EXCEPT !.age = @ + 1]
  <2>1. /\ n \in 1 .. Len(pairs) /\ pairs[n] \in CodexPairs /\ pairs[n].age < 3
        /\ pairs' = [pairs EXCEPT ![n] = p] /\ UNCHANGED <<role, stores, codex, refreshed>>
    BY <1>1, <1>5 DEF Expire, Age
  <2>2. p \in CodexPairs /\ p.account = pairs[n].account
    BY <2>1 DEF CodexPairs
  <2> HIDE DEF p
  <2>3. PairsGrow
    BY <1>1, <2>1, <2>2, ChangedPairGrows
  <2>4. /\ CodexFilesOK' /\ (role = "named" => FilesAreLabelled')
        /\ CodexAgentOK' /\ (role = "named" => AgentHoldsOwn')
    BY <2>1, <2>3, CodexFilesStay, CodexAgentStays
  <2>5. QED
    BY <2>1, <2>3, <2>4 DEF CodexInv, CodexTypes, PairsGrow
<1>6. QED
  BY <1>2, <1>3, <1>4, <1>5 DEF CodexOutside

-----------------------------------------------------------------------------
(* Codex: the theorems *)

\* The invariant holds throughout.
LEMMA CodexInvAlways == CodexSpec => []CodexInv
<1>1. CodexInv /\ UNCHANGED codexVars => CodexInv'
  BY DEF CodexInv, CodexTypes, CodexFilesOK, CodexAgentOK, FilesAreLabelled, AgentHoldsOwn, codexVars
<1>2. CodexInv /\ [CodexNext]_codexVars => CodexInv'
  BY <1>1, CodexStepsInv, CodexOutsideInv DEF CodexNext
<1>3. QED
  BY <1>2, CodexInitInv, PTL DEF CodexSpec

\* Every pair that a file or the agent refers to was issued.
THEOREM CodexTypeCorrect == CodexSpec => []CodexTypeOK
<1>1. CodexInv => CodexTypeOK
  <2>1. SUFFICES ASSUME CodexInv PROVE CodexTypeOK
    OBVIOUS
  <2>2. /\ stores \in CodexStores /\ DOMAIN stores = {"codex", "opencode", "profile"}
        /\ DOMAIN pairs = 1 .. Len(pairs) /\ codex \in CodexShape
    BY <2>1 DEF CodexInv, CodexTypes, CodexFilesOK, CodexAgentOK, CodexStores
  <2>3. QED
    BY <2>1, <2>2 DEF CodexInv, CodexTypes, CodexFilesOK, CodexAgentOK, CodexTypeOK, CodexShape,
       CodexPairs
<1>2. QED
  BY <1>1, CodexInvAlways, PTL

\* The agent of a profile never takes up tokens of another account, although it
\* copies those of the shared files into its own and anyone may log in there
\* between the copy, the refresh and the saving of the answer.
THEOREM CodexProfileOwn == CodexSpec => []ProfileUsesOwnAccount
<1>1. CodexInv => ProfileUsesOwnAccount
  BY DEF CodexInv, CodexTypes, CodexFilesOK, FilesAreLabelled, AgentHoldsOwn, ProfileUsesOwnAccount
<1>2. QED
  BY <1>1, CodexInvAlways, PTL
=================================================================================
