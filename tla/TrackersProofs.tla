---------------------------- MODULE TrackersProofs ----------------------------
(***************************************************************************)
(* What is proved of ProviderTrackers, of ProviderPolls around it, and of  *)
(* the reports of CycleReports, for every tracker, every choice of the     *)
(* tolerances that the assumptions allow and every bound.                  *)
(*                                                                         *)
(* A table of cycles is written in several store calls, any of which a     *)
(* poll or the daemon may end at.  So the invariant is a property of       *)
(* tables, TableOK, that StoreCallsOK shows of the table after each call.  *)
(* A tracker that decides by the stored reset needs to know what the reset *)
(* that is stored with an open cycle says of the window it counts:         *)
(* WindowOK.  What a summary adds up leaves room for what no poll has seen *)
(* yet: RoomInv.  The polls add that a snapshot is as old as its cycle,    *)
(* and that the log is of the last cycle unless a reset was cut short.     *)
(*                                                                         *)
(* The reports are made of entries kept of a table: EntriesNamed names     *)
(* them by increasing places, from which follow how many they are, which   *)
(* is last, and what they add up to.  That what the samples of a range add *)
(* up to was used needs an account, for each snapshot, of what had ever    *)
(* been used when it was stored: SpendInv.                                 *)
(***************************************************************************)
EXTENDS CycleReports, SequenceTheorems, FiniteSetTheorems, WellFoundedInduction, TLAPS

\* The shapes of the memory of a tracker and of the provider's side.
MemoryShape == [has : BOOLEAN, known : BOOLEAN, used : 0 .. Cap,
                resets : 0 .. MaxTime + Window + 1]
QuotaShape == [window : Nat, reset : Nat, used : 0 .. Cap, ever : Nat, rolls : BOOLEAN]

\* A reported reset may be this much later than the reset.
Late == IF kind \in Jitters THEN 1 ELSE 0

\* The reset is to come within a window, and the windows are no more than the ticks;
\* only quotas of Synthetic tell a reset that rolls on.
QuotaOK ==
    /\ quota \in QuotaShape /\ now \in 1 .. MaxTime
    /\ now < quota.reset /\ quota.reset <= now + Window
    /\ quota.window \in 1 .. now
    /\ quota.ever <= Cap * now
    /\ quota.rolls => kind = "synthetic"

\* The types of what the tracker and the daemon keep, and the bound on what fails.
CountsOK ==
    /\ kind \in Kinds /\ kind \in AllKinds /\ memory \in MemoryShape /\ polled \in BOOLEAN
    /\ faults \in Nat /\ restarts \in Nat /\ faults + restarts <= MaxFaults

\* The usage is of one window, which is over.
OfOldWindow(S) == \E w \in 0 .. quota.window - 1 : S \subseteq {w}

\* A closed cycle is of a window that is over.  The reset stored with an open one
\* is that of the window it counts: the present one, or one that is over.
WindowOK(c) ==
    IF c.end # None THEN OfOldWindow(c.windows)
    ELSE \/ kind \in Jitters /\ c.resets = None /\ c.windows = {}
         \/ c.resets \in quota.reset .. quota.reset + Late /\ c.windows \subseteq {quota.window}
         \/ /\ c.resets # None /\ c.resets + Window <= quota.reset + Late
            /\ OfOldWindow(c.windows)

\* The trackers of which PeakIsRecorded speaks.
PeakKinds == AllKinds \ {"grok", "kimi", "gemini", "codex"}

\* A cycle has not ended before it starts, nor after now; its reset was to come.
RowOK(c) ==
    /\ c \in Row /\ c.start <= now /\ c.end <= now
    /\ c.end # None => c.start <= c.end
    /\ c.resets # None => c.start < c.resets
    /\ kind \in PeakKinds => c.top <= c.peak
    /\ kind \in Durable => WindowOK(c)

\* A table of cycles, which a step writes in several calls.
TableOK(table) ==
    /\ table \in Seq(Row)
    /\ \A i \in 1 .. Len(table) : RowOK(table[i])
    /\ \A i, j \in 1 .. Len(table) : i < j => table[i].end # None /\ table[i].end <= table[j].start
    /\ kind \in Durable =>
          \A i, j \in 1 .. Len(table) : i # j => table[i].windows \cap table[j].windows = {}

\* The invariant of the trackers.
TrackerInv == CountsOK /\ QuotaOK /\ TableOK(rows)

-----------------------------------------------------------------------------
(* What is measured *)

\* A sample is of the quota as it is, and a reset that is reported is to come.
LEMMA SampleIsCurrent ==
  ASSUME TrackerInv, NEW s \in Sample
  PROVE  /\ s.used = quota.used /\ s.used \in 0 .. Cap /\ Measure(s) \in 0 .. Cap
         /\ kind # "synthetic" => s.resets \in {None} \cup (quota.reset .. quota.reset + Late)
         /\ s.resets = None => kind \in NoReset \/ (kind \in Jitters /\ s.used = 0)
         /\ s.resets # None => s.resets > now
         /\ s.resets \in 0 .. MaxTime + Window + 1
<1> USE TrackersAssumption DEF TrackersAssumption, None
<1>1. /\ quota.reset \in Nat /\ quota.used \in 0 .. Cap /\ now \in Nat /\ now <= MaxTime
      /\ now < quota.reset /\ quota.reset <= now + Window
      /\ quota.rolls => kind = "synthetic"
  BY DEF TrackerInv, QuotaOK, QuotaShape
<1>2. s.used = quota.used /\ s.resets \in Reported
  BY DEF Sample
<1>3. Measure(s) \in 0 .. Cap
  BY <1>1, <1>2 DEF Measure, Money
<1>4. \/ s.resets \in {None} \cup (quota.reset .. quota.reset + Late)
      \/ kind = "synthetic" /\ s.resets = now + Hour
  BY <1>1, <1>2 DEF Reported, Late
<1>5. s.resets = None => kind \in NoReset \/ (kind \in Jitters /\ s.used = 0)
  BY <1>1, <1>2 DEF Reported
<1>6. Late \in {0, 1}
  BY DEF Late
<1>7. s.resets \in 0 .. MaxTime + Window + 1 /\ (s.resets # None => s.resets > now)
  BY <1>1, <1>4, <1>6
<1>8. QED
  BY <1>1, <1>2, <1>3, <1>4, <1>5, <1>7

\* The larger of two.
LEMMA HigherCovers ==
  ASSUME NEW a \in 0 .. Cap, NEW b \in 0 .. Cap
  PROVE  Higher(a, b) \in 0 .. Cap /\ Higher(a, b) >= a /\ Higher(a, b) >= b
BY TrackersAssumption DEF TrackersAssumption, Higher

\* What is spent between two samples is never negative.
LEMMA SpentIsNatural ==
  ASSUME NEW m \in MemoryShape, NEW s, s.used \in 0 .. Cap
  PROVE  Spent(m, s) \in Nat
BY TrackersAssumption DEF TrackersAssumption, Spent, MemoryShape

\* The trackers that write a sample of the same cycle always.
LEMMA PeakKindsWrite ==
  ASSUME kind \in PeakKinds
  PROVE  Rules[kind].same = "always"
BY DEF PeakKinds, AllKinds, Rules, Rule, SyntheticRule, AnthropicRule, CopilotRule, ZaiTokensRule,
   ZaiTimeRule, AntigravityRule, GeminiRule, CodexRule, ArkRule, OpenCodeRule, CursorRule,
   GrokRule, KimiRule, MiniMaxRule, OpenRouterRule, MoonshotRule, DeepSeekRule

-----------------------------------------------------------------------------
(* The windows of a cycle *)

\* A tracker that decides by the stored reset closes no cycle while its window
\* lasts, and counts no usage for one whose window is over.
LEMMA ResetsAreDue ==
  ASSUME TrackerInv, kind \in Durable, NEW c \in Row, c.end = None, WindowOK(c),
         NEW m, NEW s \in Sample
  PROVE  /\ Reset(c, m, s) => OfOldWindow(c.windows)
         /\ ~Reset(c, m, s) /\ s.used > 0 =>
               c.resets \in quota.reset .. quota.reset + Late /\ c.windows \subseteq {quota.window}
<1> USE TrackersAssumption DEF TrackersAssumption, None
<1> DEFINE unset == kind \in Jitters /\ c.resets = None /\ c.windows = {}
           fresh == c.resets \in quota.reset .. quota.reset + Late /\ c.windows \subseteq {quota.window}
           stale == /\ c.resets # None /\ c.resets + Window <= quota.reset + Late
                    /\ OfOldWindow(c.windows)
<1>1. /\ quota.reset \in Nat /\ now \in Nat /\ now < quota.reset /\ quota.window \in Nat
      /\ quota.window >= 1 /\ c.resets \in Nat
  BY DEF TrackerInv, QuotaOK, QuotaShape, Row
<1>2. /\ s.resets \in {None} \cup (quota.reset .. quota.reset + Late) /\ s.used \in Nat
      /\ s.resets = None => kind \in Jitters /\ s.used = 0
  <2>1. kind \notin NoReset
    BY DEF Durable, NoReset
  <2>2. /\ s.used \in 0 .. Cap
        /\ s.resets \in {None} \cup (quota.reset .. quota.reset + Late)
        /\ s.resets = None => kind \in NoReset \/ (kind \in Jitters /\ s.used = 0)
    BY SampleIsCurrent DEF Durable
  <2>3. QED
    BY <2>1, <2>2
<1>3. unset \/ fresh \/ stale
  BY DEF WindowOK
<1>4. OfOldWindow({})
  BY <1>1 DEF OfOldWindow
<1>5. Late \in {0, 1} /\ (Late = 1 <=> kind \in Jitters)
  BY DEF Late
<1>6. PICK tolerance \in {0, Drift, WideDrift} :
         /\ tolerance >= Late
         /\ Moved(c, s, tolerance) => Reset(c, m, s)
         /\ Reset(c, m, s) => Moved(c, s, tolerance) \/ Passed(c, Grace)
  <2>1. CASE kind = "anthropic"
    BY <1>5, <2>1 DEF Reset, AnthropicReset
  <2>2. CASE kind = "cursor"
    BY <1>5, <2>2 DEF Reset, CursorReset
  <2>3. CASE kind = "zai tokens"
    <3>1. kind \notin Jitters
      BY <2>3 DEF Jitters
    <3>2. Late = 0
      BY <1>5, <3>1
    <3>3. Reset(c, m, s) <=> ZaiTokensReset(c, m, s)
      BY <2>3 DEF Reset
    <3>4. QED
      BY <3>2, <3>3 DEF ZaiTokensReset
  <2>4. CASE kind = "ark"
    BY <1>5, <2>4 DEF Reset, ArkReset
  <2>5. CASE kind = "opencode"
    BY <1>5, <2>5 DEF Reset, OpenCodeReset
  <2>6. QED
    BY <2>1, <2>2, <2>3, <2>4, <2>5 DEF Durable
<1>7. tolerance \in Nat /\ tolerance + 1 < Window
  OBVIOUS
<1>8. CASE unset
  <2>1. s.resets # None => Moved(c, s, tolerance)
    BY <1>8 DEF Moved
  <2>2. QED
    BY <1>2, <1>4, <1>6, <1>8, <2>1
<1>9. CASE fresh
  <2>1. ~Passed(c, Grace)
    BY <1>1, <1>5, <1>9 DEF Passed
  <2>2. ~Moved(c, s, tolerance)
    BY <1>1, <1>2, <1>5, <1>6, <1>7, <1>9 DEF Moved, Apart
  <2>3. QED
    BY <1>6, <1>9, <2>1, <2>2
<1>10. CASE stale
  <2>1. s.resets # None => Moved(c, s, tolerance)
    BY <1>1, <1>2, <1>5, <1>7, <1>10 DEF Moved, Apart
  <2>2. QED
    BY <1>2, <1>6, <1>10, <2>1
<1>11. QED
  BY <1>3, <1>8, <1>9, <1>10

-----------------------------------------------------------------------------
(* The table of cycles *)

\* Only the last cycle can be open, and it is the active one.
LEMMA LastIsActive ==
  ASSUME TrackerInv
  PROVE  /\ Len(rows) \in Nat /\ DOMAIN rows = 1 .. Len(rows)
         /\ OpenRows \subseteq {Len(rows)}
         /\ OpenRows # {} => /\ Len(rows) \in 1 .. Len(rows) /\ ActiveRow = Len(rows)
                             /\ rows[Len(rows)].end = None /\ RowOK(rows[Len(rows)])
                             /\ OpenRows = {Len(rows)}
         /\ OpenRows = {} => \A i \in 1 .. Len(rows) : rows[i].end # None
<1>1. Len(rows) \in Nat /\ DOMAIN rows = 1 .. Len(rows)
  BY DEF TrackerInv, TableOK
<1>2. OpenRows \subseteq {Len(rows)}
  <2>1. SUFFICES ASSUME NEW i \in OpenRows, i # Len(rows) PROVE FALSE
    OBVIOUS
  <2>2. i \in 1 .. Len(rows) - 1 /\ rows[i].end = None
    BY <1>1, <2>1 DEF OpenRows
  <2>3. QED
    BY <2>2 DEF TrackerInv, TableOK
<1>3. ASSUME OpenRows # {}
      PROVE  /\ Len(rows) \in 1 .. Len(rows) /\ ActiveRow = Len(rows)
             /\ rows[Len(rows)].end = None /\ RowOK(rows[Len(rows)])
             /\ OpenRows = {Len(rows)}
  <2>1. OpenRows = {Len(rows)}
    BY <1>2, <1>3
  <2>2. Len(rows) \in 1 .. Len(rows) /\ rows[Len(rows)].end = None
    BY <1>1, <2>1 DEF OpenRows
  <2>3. \E i \in OpenRows :
           \A j \in OpenRows : IF Tables[kind].picks = "newest" THEN i >= j ELSE i <= j
    BY <1>1, <2>1
  <2>4. ActiveRow \in OpenRows
    BY <2>3 DEF ActiveRow
  <2>5. QED
    BY <2>1, <2>2, <2>4 DEF TrackerInv, TableOK
<1>4. QED
  BY <1>1, <1>2, <1>3 DEF OpenRows

\* To write the active cycle is to write the last row.
LEMMA WrittenIsLast ==
  ASSUME TrackerInv, OpenRows # {}, NEW c
  PROVE  Written(c) = [rows EXCEPT ![Len(rows)] = c]
<1>1. /\ DOMAIN rows = 1 .. Len(rows) /\ ActiveRow = Len(rows) /\ OpenRows = {Len(rows)}
  BY LastIsActive
<1>2. \A i \in DOMAIN rows : i # ActiveRow => i \notin OpenRows
  BY <1>1
<1>3. Written(c) = [i \in DOMAIN rows |-> IF i = ActiveRow THEN c ELSE rows[i]]
  BY <1>2 DEF Written
<1>4. QED
  BY <1>1, <1>3

\* A good last row in place of the open one makes a good table.
LEMMA ReplaceLast ==
  ASSUME TrackerInv, OpenRows # {}, NEW c, RowOK(c),
         c.start = rows[Len(rows)].start,
         kind \in Durable => c.windows \subseteq rows[Len(rows)].windows \cup {quota.window}
  PROVE  /\ TableOK([rows EXCEPT ![Len(rows)] = c])
         /\ Len([rows EXCEPT ![Len(rows)] = c]) = Len(rows)
         /\ [rows EXCEPT ![Len(rows)] = c][Len(rows)] = c
<1> DEFINE n == Len(rows)
           table == [rows EXCEPT ![n] = c]
<1>1. /\ n \in Nat /\ n \in 1 .. n /\ TableOK(rows) /\ rows \in Seq(Row) /\ c \in Row
  BY LastIsActive DEF TrackerInv, TableOK, RowOK
<1>2. /\ table \in Seq(Row) /\ Len(table) = n /\ table[n] = c
      /\ \A i \in 1 .. n : i # n => table[i] = rows[i]
  BY <1>1
<1>3. \A i \in 1 .. n : RowOK(table[i])
  BY <1>1, <1>2 DEF TableOK
<1>4. ASSUME NEW i \in 1 .. n, NEW j \in 1 .. n, i < j
      PROVE  table[i].end # None /\ table[i].end <= table[j].start
  <2>1. rows[i].end # None /\ rows[i].end <= rows[j].start
    BY <1>1, <1>4 DEF TableOK
  <2>2. i # n
    BY <1>1, <1>4
  <2> HIDE DEF table, n
  <2>3. table[i] = rows[i]
    BY <1>2, <2>2
  <2>4. table[j].start = rows[j].start
    <3>1. CASE j = n
      BY <1>2, <3>1 DEF n
    <3>2. CASE j # n
      BY <1>2, <3>2
    <3>3. QED
      BY <3>1, <3>2
  <2>5. QED
    BY <2>1, <2>3, <2>4
<1>5. ASSUME kind \in Durable, NEW i \in 1 .. n, NEW j \in 1 .. n, i # j
      PROVE  table[i].windows \cap table[j].windows = {}
  <2>1. ASSUME NEW k \in 1 .. n, k # n
        PROVE  table[k].windows \cap table[n].windows = {}
    <3>1. k \in 1 .. n - 1
      BY <1>1, <2>1
    <3>2. rows[k].end # None /\ RowOK(rows[k])
      BY <1>1, <3>1 DEF TableOK
    <3>3. OfOldWindow(rows[k].windows)
      BY <1>5, <3>2 DEF RowOK, WindowOK
    <3>4. quota.window \in Nat
      BY DEF TrackerInv, QuotaOK
    <3>5. quota.window \notin rows[k].windows
      BY <3>3, <3>4 DEF OfOldWindow
    <3>6. rows[k].windows \cap rows[n].windows = {}
      BY <1>1, <1>5, <2>1 DEF TableOK
    <3>7. QED
      BY <1>2, <1>5, <2>1, <3>5, <3>6
  <2>2. CASE i = n
    BY <1>5, <2>1, <2>2
  <2>3. CASE j = n
    BY <1>5, <2>1, <2>3
  <2>4. CASE i # n /\ j # n
    BY <1>1, <1>2, <1>5, <2>4 DEF TableOK
  <2>5. QED
    BY <2>2, <2>3, <2>4
<1> HIDE DEF table, n
<1>6. TableOK(table) /\ Len(table) = Len(rows) /\ table[Len(rows)] = c
  BY <1>2, <1>3, <1>4, <1>5 DEF TableOK, n
<1>7. QED
  BY <1>6 DEF table, n

\* A good row that starts now, after closed ones, makes a good table.
LEMMA AppendRow ==
  ASSUME TrackerInv, NEW table, TableOK(table), \A i \in 1 .. Len(table) : table[i].end # None,
         NEW c, RowOK(c), c.start = now,
         kind \in Durable => c.windows \subseteq {quota.window}
  PROVE  TableOK(Append(table, c)) /\ Len(Append(table, c)) = Len(table) + 1
<1> DEFINE n == Len(table)
           longer == Append(table, c)
<1>1. n \in Nat /\ table \in Seq(Row) /\ c \in Row
  BY DEF TableOK, RowOK
<1>2. /\ longer \in Seq(Row) /\ Len(longer) = n + 1 /\ longer[n + 1] = c
      /\ \A i \in 1 .. n : longer[i] = table[i]
  BY <1>1
<1>3. \A i \in 1 .. n + 1 : RowOK(longer[i])
  BY <1>1, <1>2 DEF TableOK
<1>4. ASSUME NEW i \in 1 .. n + 1, NEW j \in 1 .. n + 1, i < j
      PROVE  longer[i].end # None /\ longer[i].end <= longer[j].start
  <2>1. i \in 1 .. n /\ longer[i] = table[i]
    BY <1>1, <1>2, <1>4
  <2>2. CASE j = n + 1
    <3>1. longer[j] = c /\ RowOK(table[i])
      BY <1>2, <2>1, <2>2 DEF TableOK
    <3>2. QED
      BY <2>1, <3>1 DEF RowOK
  <2>3. CASE j # n + 1
    <3>1. j \in 1 .. n /\ longer[j] = table[j]
      BY <1>1, <1>2, <2>3
    <3>2. QED
      BY <1>4, <2>1, <3>1 DEF TableOK
  <2>4. QED
    BY <2>2, <2>3
<1>5. ASSUME kind \in Durable, NEW i \in 1 .. n + 1, NEW j \in 1 .. n + 1, i # j
      PROVE  longer[i].windows \cap longer[j].windows = {}
  <2>1. ASSUME NEW k \in 1 .. n
        PROVE  longer[k].windows \cap longer[n + 1].windows = {}
    <3>1. longer[k] = table[k] /\ RowOK(table[k]) /\ table[k].end # None /\ longer[n + 1] = c
      BY <1>1, <1>2 DEF TableOK
    <3>2. OfOldWindow(table[k].windows)
      BY <1>5, <3>1 DEF RowOK, WindowOK
    <3>3. quota.window \in Nat
      BY DEF TrackerInv, QuotaOK
    <3>4. quota.window \notin table[k].windows
      BY <3>2, <3>3 DEF OfOldWindow
    <3>5. QED
      BY <1>5, <3>1, <3>4
  <2>2. CASE i = n + 1
    BY <1>1, <1>5, <2>1, <2>2
  <2>3. CASE j = n + 1
    BY <1>1, <1>5, <2>1, <2>3
  <2>4. CASE i # n + 1 /\ j # n + 1
    <3>1. i \in 1 .. n /\ j \in 1 .. n
      BY <1>1, <2>4
    <3>2. QED
      BY <1>2, <1>5, <3>1 DEF TableOK
  <2>5. QED
    BY <2>2, <2>3, <2>4
<1> HIDE DEF longer, n
<1>6. TableOK(longer) /\ Len(longer) = n + 1
  <2>1. n \in Nat /\ 1 .. Len(longer) = 1 .. n + 1
    BY <1>1, <1>2 DEF n
  <2>2. QED
    BY <1>2, <1>3, <1>4, <1>5, <2>1 DEF TableOK
<1>7. QED
  BY <1>6 DEF longer, n

-----------------------------------------------------------------------------
(* The rows that a sample writes *)

\* The active cycle, closed for a reset, is of the window that is over.
LEMMA ClosedRowOK ==
  ASSUME TrackerInv, NEW c, RowOK(c), c.end = None, NEW s \in Sample, Reset(c, memory, s)
  PROVE  LET closed == Closed(c, memory, s) IN
         /\ RowOK(closed) /\ closed.end # None /\ closed.start = c.start
         /\ closed.windows = c.windows
<1> DEFINE closed == Closed(c, memory, s)
<1> USE TrackersAssumption DEF TrackersAssumption, None
<1>1. /\ c \in Row /\ now \in 1 .. MaxTime /\ memory \in MemoryShape
      /\ s.used \in 0 .. Cap /\ Measure(s) \in 0 .. Cap
  BY SampleIsCurrent DEF RowOK, TrackerInv, QuotaOK, CountsOK
<1>2. Spent(memory, s) \in Nat
  BY <1>1, SpentIsNatural
<1>3. PICK end, delta, peak :
         /\ closed = [c EXCEPT !.end = end, !.delta = delta, !.peak = peak]
         /\ end = now \/ (Passed(c, 0) /\ end = c.resets)
         /\ delta \in {c.delta, c.delta + Spent(memory, s)}
         /\ peak \in {c.peak, Higher(c.peak, Measure(s))}
  BY DEF Closed
<1>4. c.peak \in 0 .. Cap /\ c.delta \in Nat /\ c.resets \in Nat /\ c.start \in Nat /\ c.top \in 0 .. Cap
  BY <1>1 DEF Row
<1>5. peak \in 0 .. Cap /\ peak >= c.peak
  BY <1>1, <1>3, <1>4, HigherCovers
<1>6. delta \in Nat
  BY <1>2, <1>3, <1>4
<1>7. end \in 1 .. MaxTime /\ end <= now /\ c.start <= end
  BY <1>1, <1>3, <1>4 DEF Passed, RowOK
<1> HIDE DEF closed
<1>8. /\ closed \in Row /\ closed.end = end /\ closed.peak = peak /\ closed.start = c.start
      /\ closed.windows = c.windows /\ closed.resets = c.resets /\ closed.top = c.top
  <2>1. end \in 0 .. MaxTime
    BY <1>7
  <2>2. closed = [c EXCEPT !.end = end, !.delta = delta, !.peak = peak]
    BY <1>3
  <2>3. QED
    BY <1>1, <1>5, <1>6, <2>1, <2>2 DEF Row
<1>9. kind \in PeakKinds => closed.top <= closed.peak
  BY <1>4, <1>5, <1>8 DEF RowOK
<1>10. kind \in Durable => WindowOK(closed)
  BY <1>1, <1>7, <1>8, ResetsAreDue DEF RowOK, WindowOK
<1>11. RowOK(closed) /\ closed.end # None
  BY <1>1, <1>7, <1>8, <1>9, <1>10 DEF RowOK
<1>12. QED
  BY <1>8, <1>11 DEF closed

\* A sample of the same cycle leaves the active cycle good, and counts usage of
\* the present window only.
LEMMA UpdatedRowOK ==
  ASSUME TrackerInv, NEW c, RowOK(c), c.end = None, NEW s \in Sample,
         kind \in Durable => ~Reset(c, memory, s)
  PROVE  LET noted == Noted(Updated(c, memory, s), s) IN
         /\ RowOK(noted) /\ noted.end = None /\ noted.start = c.start
         /\ noted.windows \subseteq c.windows \cup {quota.window}
<1> DEFINE updated == Updated(c, memory, s)
           noted == Noted(updated, s)
<1> USE TrackersAssumption DEF TrackersAssumption, None
<1>1. /\ c \in Row /\ now \in 1 .. MaxTime /\ memory \in MemoryShape /\ quota.window \in 1 .. MaxTime
      /\ s.used \in 0 .. Cap /\ Measure(s) \in 0 .. Cap
  BY SampleIsCurrent DEF RowOK, TrackerInv, QuotaOK, CountsOK
<1>2. Spent(memory, s) \in Nat
  BY <1>1, SpentIsNatural
<1>3. c.peak \in 0 .. Cap /\ c.delta \in Nat /\ c.top \in 0 .. Cap /\ c.windows \in SUBSET (1 .. MaxTime)
  BY <1>1 DEF Row
<1>4. /\ Higher(c.peak, Measure(s)) \in 0 .. Cap /\ Higher(c.peak, Measure(s)) >= c.peak
      /\ Higher(c.peak, Measure(s)) >= Measure(s)
      /\ Higher(c.top, Measure(s)) \in 0 .. Cap
      /\ Higher(c.top, Measure(s)) \in {c.top, Measure(s)}
  BY <1>1, <1>3, HigherCovers DEF Higher
<1>5. /\ updated \in Row /\ updated.end = c.end /\ updated.start = c.start /\ updated.resets = c.resets
      /\ updated.windows = c.windows /\ updated.top = c.top
      /\ kind \in PeakKinds => updated.peak = Higher(c.peak, Measure(s))
  <2>1. CASE updated = [c EXCEPT !.peak = Higher(@, Measure(s)), !.delta = @ + Spent(memory, s)]
    <3>1. c.delta + Spent(memory, s) \in Nat
      BY <1>2, <1>3
    <3> HIDE DEF updated
    <3>2. QED
      BY <1>1, <1>4, <2>1, <3>1 DEF Row
  <2>2. CASE updated = c /\ kind \notin PeakKinds
    BY <1>1, <2>2
  <2>3. kind \in PeakKinds => Rules[kind].same = "always"
    BY PeakKindsWrite
  <2>4. QED
    BY <2>1, <2>2, <2>3 DEF Updated
<1> HIDE DEF updated
<1> DEFINE windows == IF s.used > 0 THEN updated.windows \cup {quota.window} ELSE updated.windows
<1>6. noted = [updated EXCEPT !.top = Higher(c.top, Measure(s)), !.windows = windows]
  BY <1>5 DEF Noted
<1>7. windows \in SUBSET (1 .. MaxTime) /\ windows \subseteq c.windows \cup {quota.window}
  BY <1>1, <1>3, <1>5
<1> HIDE DEF noted
<1>8. /\ noted \in Row /\ noted.end = c.end /\ noted.start = c.start /\ noted.resets = c.resets
      /\ noted.windows = windows /\ noted.top = Higher(c.top, Measure(s))
      /\ noted.peak = updated.peak
  <2> HIDE DEF windows
  <2>1. QED
    BY <1>4, <1>5, <1>6, <1>7 DEF Row
<1>9. kind \in PeakKinds => noted.top <= noted.peak
  <2>1. SUFFICES ASSUME kind \in PeakKinds PROVE Higher(c.top, Measure(s)) <= Higher(c.peak, Measure(s))
    BY <1>5, <1>8
  <2>2. c.top <= c.peak
    BY <2>1 DEF RowOK
  <2>3. QED
    BY <1>1, <1>3, <1>4, <2>2
<1>10. ASSUME kind \in Durable
       PROVE  WindowOK(noted)
  <2>1. WindowOK(c)
    BY <1>10 DEF RowOK
  <2>2. CASE s.used > 0
    <3>1. c.resets \in quota.reset .. quota.reset + Late /\ c.windows \subseteq {quota.window}
      BY <1>1, <1>10, <2>1, <2>2, ResetsAreDue
    <3>2. noted.windows \subseteq {quota.window}
      BY <1>5, <1>8, <3>1
    <3>3. QED
      BY <1>8, <3>1, <3>2 DEF WindowOK
  <2>3. CASE ~(s.used > 0)
    <3>1. noted.windows = c.windows
      BY <1>5, <1>8, <2>3
    <3>2. QED
      BY <1>8, <2>1, <3>1 DEF WindowOK
  <2>4. QED
    BY <2>2, <2>3
<1>11. RowOK(noted)
  BY <1>8, <1>9, <1>10 DEF RowOK
<1>12. QED
  BY <1>7, <1>8, <1>11 DEF noted, updated

\* Gemini and Codex move the reset of the open cycle.
MovedRow(c, s) == [c EXCEPT !.resets = IF s.resets # None THEN s.resets ELSE @]

\* Which leaves the cycle good.
LEMMA MovedRowOK ==
  ASSUME TrackerInv, NEW c, RowOK(c), c.end = None, NEW s \in Sample, kind \in Movers
  PROVE  LET moved == MovedRow(c, s) IN
         /\ RowOK(moved) /\ moved.end = None /\ moved.start = c.start /\ moved.windows = c.windows
<1> DEFINE resets == IF s.resets # None THEN s.resets ELSE c.resets
           moved == [c EXCEPT !.resets = resets]
<1>1. c \in Row /\ kind \notin Durable /\ kind \notin PeakKinds
  BY DEF RowOK, Movers, Durable, PeakKinds
<1>2. resets \in 0 .. MaxTime + Window + 1 /\ (resets # None => c.start < resets)
  <2>1. /\ s.resets \in 0 .. MaxTime + Window + 1 /\ (s.resets # None => s.resets > now)
        /\ now \in Nat
    BY SampleIsCurrent DEF TrackerInv, QuotaOK
  <2>2. c.resets \in 0 .. MaxTime + Window + 1 /\ c.start \in Nat /\ c.start <= now
    BY <1>1 DEF Row, RowOK
  <2>3. QED
    BY <2>1, <2>2, TrackersAssumption DEF TrackersAssumption, RowOK
<1> HIDE DEF resets
<1>3. /\ moved \in Row /\ moved.end = c.end /\ moved.start = c.start /\ moved.windows = c.windows
      /\ moved.resets = resets
  BY <1>1, <1>2 DEF Row
<1> HIDE DEF moved
<1>4. RowOK(moved) /\ moved.end = None
  BY <1>1, <1>2, <1>3 DEF RowOK
<1>5. QED
  BY <1>3, <1>4 DEF moved, resets, MovedRow

\* The row of a new cycle once its first sample is written.
FirstRow(s) == Noted([NewRow(s) EXCEPT !.peak = Measure(s)], s)

\* The row of a new cycle is good, as it is created and with its first sample.
LEMMA NewRowOK ==
  ASSUME TrackerInv, NEW s \in Sample
  PROVE  /\ RowOK(NewRow(s)) /\ NewRow(s).end = None /\ NewRow(s).start = now
         /\ RowOK(FirstRow(s)) /\ FirstRow(s).end = None /\ FirstRow(s).start = now
         /\ NewRow(s).windows = {} /\ FirstRow(s).windows \subseteq {quota.window}
<1> USE TrackersAssumption DEF TrackersAssumption, None
<1> DEFINE resets == IF kind = "grok" THEN None ELSE s.resets
           fresh == NewRow(s)
           first == [fresh EXCEPT !.peak = Measure(s)]
           windows == IF s.used > 0 THEN {quota.window} ELSE {}
           noted == Noted(first, s)
<1>1. /\ now \in 1 .. MaxTime /\ quota.window \in 1 .. MaxTime
      /\ s.used \in 0 .. Cap /\ Measure(s) \in 0 .. Cap
      /\ kind # "synthetic" => s.resets \in {None} \cup (quota.reset .. quota.reset + Late)
      /\ s.resets = None => kind \in NoReset \/ (kind \in Jitters /\ s.used = 0)
      /\ s.resets # None => s.resets > now
      /\ s.resets \in 0 .. MaxTime + Window + 1
  BY SampleIsCurrent DEF TrackerInv, QuotaOK
<1>2. Higher(0, Measure(s)) = Measure(s)
  BY <1>1 DEF Higher
<1>3. resets \in 0 .. MaxTime + Window + 1 /\ (resets # None => now < resets)
  BY <1>1
<1>4. windows \in SUBSET (1 .. MaxTime) /\ windows \subseteq {quota.window}
  BY <1>1
<1>5. ASSUME kind \in Durable
      PROVE  /\ resets = s.resets
             /\ \/ kind \in Jitters /\ resets = None /\ windows = {}
                \/ resets \in quota.reset .. quota.reset + Late
  <2>1. kind \notin NoReset /\ kind # "grok" /\ kind # "synthetic"
    BY <1>5 DEF Durable, NoReset
  <2>2. resets = s.resets
    BY <2>1
  <2>3. CASE s.resets = None
    <3>1. kind \in Jitters /\ s.used = 0
      BY <1>1, <2>1, <2>3
    <3>2. QED
      BY <2>2, <2>3, <3>1
  <2>4. CASE s.resets # None
    BY <1>1, <2>1, <2>2, <2>4
  <2>5. QED
    BY <2>2, <2>3, <2>4
<1>6. /\ fresh \in Row /\ fresh.start = now /\ fresh.end = None /\ fresh.resets = resets
      /\ fresh.peak = 0 /\ fresh.top = 0 /\ fresh.windows = {}
  <2>1. 0 \in 0 .. Cap /\ 0 \in 0 .. MaxTime /\ 0 \in Nat /\ {} \in SUBSET (1 .. MaxTime)
    OBVIOUS
  <2>2. fresh = [start |-> now, end |-> 0, resets |-> resets, peak |-> 0, delta |-> 0,
                 top |-> 0, windows |-> {}]
    BY DEF NewRow
  <2> HIDE DEF fresh, resets
  <2>3. QED
    BY <1>1, <1>3, <2>1, <2>2 DEF Row
<1> HIDE DEF fresh, resets
<1>7. /\ first \in Row /\ first.start = now /\ first.end = None /\ first.resets = resets
      /\ first.peak = Measure(s) /\ first.top = 0 /\ first.windows = {}
  BY <1>1, <1>6 DEF Row
<1> HIDE DEF first
<1>8. noted = [first EXCEPT !.top = Measure(s), !.windows = windows]
  BY <1>2, <1>7 DEF Noted
<1> HIDE DEF noted, windows
<1>9. /\ noted \in Row /\ noted.start = now /\ noted.end = None /\ noted.resets = resets
      /\ noted.peak = Measure(s) /\ noted.top = Measure(s) /\ noted.windows = windows
  BY <1>1, <1>4, <1>7, <1>8 DEF Row
<1>10. kind \in Durable => WindowOK(fresh) /\ WindowOK(noted)
  BY <1>4, <1>5, <1>6, <1>9 DEF WindowOK
<1>11. RowOK(fresh) /\ RowOK(noted)
  BY <1>1, <1>3, <1>6, <1>9, <1>10 DEF RowOK
<1>12. QED
  BY <1>4, <1>6, <1>9, <1>11 DEF noted, first, fresh, FirstRow

-----------------------------------------------------------------------------
(* The tables after each store call *)

\* A poll leaves the starts of the cycles as they are, and may add one that starts now.
Extends(table) ==
    /\ Len(table) \in {Len(rows), Len(rows) + 1}
    /\ \A i \in 1 .. Len(rows) : table[i].start = rows[i].start
    /\ Len(table) = Len(rows) + 1 => table[Len(table)].start = now

\* The last cycle of a table is open.
EndsOpen(table) == table # <<>> /\ table[Len(table)].end = None

\* A cycle is created after closed ones: as it is, and with its first sample.
LEMMA OpenedOK ==
  ASSUME TrackerInv, NEW table, TableOK(table), Extends(table), Len(table) = Len(rows),
         \A i \in 1 .. Len(table) : table[i].end # None,
         NEW s \in Sample
  PROVE  LET calls == Opened(table, s) IN
         /\ Len(calls) \in {1, 2} /\ DOMAIN calls = 1 .. Len(calls)
         /\ \A i \in 1 .. Len(calls) :
               /\ TableOK(calls[i]) /\ Extends(calls[i]) /\ EndsOpen(calls[i])
               /\ Len(calls[i]) = Len(rows) + 1
<1> DEFINE fresh == NewRow(s)
           noted == FirstRow(s)
<1>1. /\ RowOK(fresh) /\ fresh.end = None /\ fresh.start = now /\ fresh.windows = {}
      /\ RowOK(noted) /\ noted.end = None /\ noted.start = now /\ noted.windows \subseteq {quota.window}
  BY NewRowOK
<1> HIDE DEF fresh, noted
<1>2. table \in Seq(Row) /\ fresh \in Row /\ noted \in Row
  BY <1>1 DEF TableOK, RowOK
<1>3. /\ TableOK(Append(table, fresh)) /\ Len(Append(table, fresh)) = Len(table) + 1
      /\ TableOK(Append(table, noted)) /\ Len(Append(table, noted)) = Len(table) + 1
  BY <1>1, AppendRow
<1>4. /\ Append(table, fresh)[Len(table) + 1] = fresh /\ Append(table, noted)[Len(table) + 1] = noted
      /\ \A i \in 1 .. Len(table) :
            Append(table, fresh)[i] = table[i] /\ Append(table, noted)[i] = table[i]
      /\ Append(table, fresh) # <<>> /\ Append(table, noted) # <<>>
  BY <1>2
<1>5. Opened(table, s) = IF kind \in {"grok", "kimi"} THEN <<Append(table, noted)>>
                         ELSE <<Append(table, fresh), Append(table, noted)>>
  BY DEF Opened, fresh, noted, FirstRow
<1> DEFINE one == Append(table, fresh)
           two == Append(table, noted)
<1>6. /\ TableOK(one) /\ Len(one) = Len(rows) + 1 /\ Extends(one) /\ EndsOpen(one)
      /\ TableOK(two) /\ Len(two) = Len(rows) + 1 /\ Extends(two) /\ EndsOpen(two)
  BY <1>1, <1>3, <1>4 DEF Extends, EndsOpen
<1> HIDE DEF one, two
<1>7. CASE kind \in {"grok", "kimi"}
  <2>1. Opened(table, s) = <<two>>
    BY <1>5, <1>7 DEF two
  <2>2. QED
    BY <1>6, <2>1
<1>8. CASE kind \notin {"grok", "kimi"}
  <2>1. Opened(table, s) = <<one, two>>
    BY <1>5, <1>8 DEF one, two
  <2>2. QED
    BY <1>6, <2>1
<1>9. QED
  BY <1>7, <1>8

\* The open cycle may be written, its start and the windows before kept.
LEMMA WrittenOK ==
  ASSUME TrackerInv, OpenRows # {}, NEW c, RowOK(c),
         c.start = rows[Len(rows)].start,
         kind \in Durable => c.windows \subseteq rows[Len(rows)].windows \cup {quota.window}
  PROVE  /\ TableOK(Written(c)) /\ Extends(Written(c)) /\ Len(Written(c)) = Len(rows)
         /\ Written(c)[Len(rows)] = c /\ Written(c) # <<>>
<1>1. Written(c) = [rows EXCEPT ![Len(rows)] = c]
  BY WrittenIsLast
<1> DEFINE replaced == [rows EXCEPT ![Len(rows)] = c]
<1>2. TableOK(replaced) /\ Len(replaced) = Len(rows) /\ replaced[Len(rows)] = c
  BY ReplaceLast
<1>3. /\ Len(rows) \in 1 .. Len(rows) /\ Len(rows) \in Nat /\ DOMAIN rows = 1 .. Len(rows)
  BY LastIsActive
<1>4. \A i \in 1 .. Len(rows) : replaced[i].start = rows[i].start
  BY <1>3
<1> HIDE DEF replaced
<1>5. Extends(replaced) /\ replaced # <<>>
  BY <1>2, <1>3, <1>4 DEF Extends
<1>6. QED
  BY <1>1, <1>2, <1>5 DEF replaced

\* With its open cycle closed, all cycles of the table are.
LEMMA ClosedTableOK ==
  ASSUME TrackerInv, OpenRows # {}, NEW c, RowOK(c), c.end # None,
         c.start = rows[Len(rows)].start,
         kind \in Durable => c.windows \subseteq rows[Len(rows)].windows \cup {quota.window}
  PROVE  \A i \in 1 .. Len(Written(c)) : Written(c)[i].end # None
<1>1. /\ TableOK(Written(c)) /\ Len(Written(c)) = Len(rows) /\ Written(c)[Len(rows)] = c
  BY WrittenOK
<1>2. Len(rows) \in Nat
  BY LastIsActive
<1>3. SUFFICES ASSUME NEW i \in 1 .. Len(rows) PROVE Written(c)[i].end # None
  BY <1>1
<1>4. CASE i = Len(rows)
  BY <1>1, <1>4
<1>5. CASE i # Len(rows)
  <2>1. i \in 1 .. Len(Written(c)) - 1
    BY <1>1, <1>2, <1>5
  <2>2. QED
    BY <1>1, <2>1 DEF TableOK
<1>6. QED
  BY <1>4, <1>5

\* A table that a poll or the daemon may end at.
CallOK(table) == TableOK(table) /\ Extends(table)

\* Whatever store call it is, the table after it is good; after the last of them a
\* cycle is open, which is a new one if the sample shows a reset or there was none.
LEMMA StoreCallsOK ==
  ASSUME TrackerInv, NEW s \in Sample
  PROVE  LET calls == StoreCalls(s) IN
         /\ Len(calls) \in Nat \ {0} /\ DOMAIN calls = 1 .. Len(calls)
         /\ \A i \in 1 .. Len(calls) : CallOK(calls[i])
         /\ Last(calls) = calls[Len(calls)] /\ EndsOpen(Last(calls))
         /\ Len(Last(calls)) = IF OpenRows = {} \/ Resets(s) THEN Len(rows) + 1 ELSE Len(rows)
         /\ \A i \in 1 .. Len(calls) :
               IF Resets(s) THEN calls[i][Len(rows)].end # None
               ELSE /\ EndsOpen(calls[i])
                    /\ Len(calls[i]) = IF OpenRows = {} THEN Len(rows) + 1 ELSE Len(rows)
<1> DEFINE c == rows[ActiveRow]
           closed == Closed(c, memory, s)
           noted == Noted(Updated(c, memory, s), s)
           moved == MovedRow(c, s)
           last == Noted(Updated(moved, memory, s), s)
           calls == StoreCalls(s)
<1>1. CASE OpenRows = {}
  <2>1. TableOK(rows) /\ Extends(rows) /\ \A i \in 1 .. Len(rows) : rows[i].end # None
    <3>1. Len(rows) \in Nat /\ \A i \in 1 .. Len(rows) : rows[i].end # None
      BY <1>1, LastIsActive
    <3>2. TableOK(rows)
      BY DEF TrackerInv
    <3>3. Extends(rows)
      BY <3>1 DEF Extends
    <3>4. QED
      BY <3>1, <3>2, <3>3
  <2>2. calls = Opened(rows, s) /\ ~Resets(s)
    BY <1>1 DEF StoreCalls, Resets
  <2> HIDE DEF calls
  <2>3. /\ Len(calls) \in {1, 2} /\ DOMAIN calls = 1 .. Len(calls)
        /\ \A i \in 1 .. Len(calls) :
              CallOK(calls[i]) /\ EndsOpen(calls[i]) /\ Len(calls[i]) = Len(rows) + 1
    BY <2>1, <2>2, OpenedOK DEF CallOK
  <2>4. Last(calls) = calls[Len(calls)] /\ Len(calls) \in 1 .. Len(calls)
    BY <2>3 DEF Last
  <2>5. QED
    BY <1>1, <2>2, <2>3, <2>4 DEF calls
<1>2. CASE OpenRows # {} /\ Reset(c, memory, s)
  <2>1. /\ c = rows[Len(rows)] /\ RowOK(c) /\ c.end = None
    BY <1>2, LastIsActive
  <2>2. /\ RowOK(closed) /\ closed.end # None /\ closed.start = c.start /\ closed.windows = c.windows
    BY <1>2, <2>1, ClosedRowOK
  <2>3. Resets(s)
    BY <1>2 DEF Resets
  <2>4. calls = <<Written(closed)>> \o Opened(Written(closed), s)
    BY <1>2 DEF StoreCalls
  <2> HIDE DEF closed, c, calls
  <2>5. /\ CallOK(Written(closed)) /\ Len(Written(closed)) = Len(rows)
        /\ \A i \in 1 .. Len(Written(closed)) : Written(closed)[i].end # None
    BY <1>2, <2>1, <2>2, WrittenOK, ClosedTableOK DEF CallOK
  <2> DEFINE opened == Opened(Written(closed), s)
  <2>6. /\ Len(opened) \in {1, 2} /\ DOMAIN opened = 1 .. Len(opened)
        /\ \A i \in 1 .. Len(opened) :
              CallOK(opened[i]) /\ EndsOpen(opened[i]) /\ Len(opened[i]) = Len(rows) + 1
    BY <2>5, OpenedOK DEF CallOK
  <2>7. opened = <<opened[1]>> \/ opened = <<opened[1], opened[2]>>
    BY DEF Opened
  <2> HIDE DEF opened
  <2>8. /\ Len(calls) \in {2, 3} /\ DOMAIN calls = 1 .. Len(calls)
        /\ calls[1] = Written(closed) /\ calls[2] = opened[1]
        /\ Len(calls) = Len(opened) + 1
        /\ Len(calls) = 3 => calls[3] = opened[2]
    BY <2>4, <2>7 DEF opened
  <2>9. \A i \in 1 .. Len(calls) : CallOK(calls[i])
    BY <2>5, <2>6, <2>8
  <2>10. Last(calls) = calls[Len(calls)] /\ Last(calls) = opened[Len(opened)]
    BY <2>6, <2>8 DEF Last
  <2>11. \A i \in 1 .. Len(calls) : calls[i][Len(rows)].end # None
    <3>1. calls[1][Len(rows)].end # None
      BY <1>2, <2>1, <2>2, <2>8, WrittenOK
    <3>2. ASSUME NEW i \in 1 .. Len(opened)
          PROVE  opened[i][Len(rows)].end # None
      <4>1. Len(rows) \in 1 .. Len(opened[i]) - 1 /\ TableOK(opened[i])
        BY <1>2, <2>6, LastIsActive DEF CallOK
      <4>2. QED
        BY <4>1 DEF TableOK
    <3>3. QED
      BY <2>6, <2>8, <3>1, <3>2
  <2>12. QED
    BY <1>2, <2>3, <2>6, <2>8, <2>9, <2>10, <2>11 DEF calls
<1>3. CASE OpenRows # {} /\ ~Reset(c, memory, s)
  <2>1. /\ c = rows[Len(rows)] /\ RowOK(c) /\ c.end = None
    BY <1>3, LastIsActive
  <2>2. ~Resets(s)
    BY <1>3 DEF Resets
  <2>3. PICK row : /\ RowOK(row) /\ row.end = None /\ row.start = c.start
                   /\ kind \in Durable => row.windows \subseteq c.windows \cup {quota.window}
                   /\ \/ calls = <<Written(row)>>
                      \/ kind \in Movers /\ calls = <<Written(moved), Written(row)>>
    <3>1. CASE kind \in Movers
      <4>1. RowOK(moved) /\ moved.end = None /\ moved.start = c.start
        BY <2>1, <3>1, MovedRowOK
      <4>2. kind \notin Durable
        BY <3>1 DEF Movers, Durable
      <4>3. RowOK(last) /\ last.end = None /\ last.start = moved.start
        <5> HIDE DEF moved
        <5>1. QED
          BY <4>1, <4>2, UpdatedRowOK
      <4>4. calls = <<Written(moved), Written(last)>>
        BY <1>3, <3>1 DEF StoreCalls, MovedRow
      <4> HIDE DEF last, moved, calls
      <4>5. QED
        BY <3>1, <4>1, <4>2, <4>3, <4>4
    <3>2. CASE kind \notin Movers
      <4>1. /\ RowOK(noted) /\ noted.end = None /\ noted.start = c.start
            /\ noted.windows \subseteq c.windows \cup {quota.window}
        BY <1>3, <2>1, UpdatedRowOK
      <4>2. calls = <<Written(noted)>>
        BY <1>3, <3>2 DEF StoreCalls
      <4> HIDE DEF noted, calls
      <4>3. QED
        BY <4>1, <4>2
    <3>3. QED
      BY <3>1, <3>2
  <2>4. /\ CallOK(Written(row)) /\ Len(Written(row)) = Len(rows) /\ EndsOpen(Written(row))
    BY <1>3, <2>1, <2>3, WrittenOK DEF CallOK, EndsOpen
  <2>5. kind \in Movers =>
           /\ CallOK(Written(moved)) /\ Len(Written(moved)) = Len(rows) /\ EndsOpen(Written(moved))
    <3>1. kind \in Movers => RowOK(moved) /\ moved.end = None /\ moved.start = c.start
                             /\ moved.windows = c.windows
      BY <2>1, MovedRowOK
    <3> HIDE DEF moved
    <3>2. QED
      BY <1>3, <2>1, <3>1, WrittenOK DEF CallOK, EndsOpen
  <2> HIDE DEF moved, calls, c
  <2>6. /\ Len(calls) \in {1, 2} /\ DOMAIN calls = 1 .. Len(calls)
        /\ \A i \in 1 .. Len(calls) :
              CallOK(calls[i]) /\ EndsOpen(calls[i]) /\ Len(calls[i]) = Len(rows)
    BY <2>3, <2>4, <2>5
  <2>7. Last(calls) = calls[Len(calls)] /\ Len(calls) \in 1 .. Len(calls)
    BY <2>6 DEF Last
  <2>8. QED
    BY <1>3, <2>2, <2>6, <2>7 DEF calls
<1>4. QED
  BY <1>1, <1>2, <1>3

-----------------------------------------------------------------------------
(* The steps *)

\* Between two polls nothing but the table and what the tracker holds may change.
LEMMA PollKeepsInv ==
  ASSUME TrackerInv, UNCHANGED <<kind, quota, now>>, TableOK(rows'),
         memory' \in MemoryShape, polled' \in BOOLEAN, faults' \in Nat, restarts' \in Nat,
         faults' + restarts' <= MaxFaults
  PROVE  TrackerInv'
<1>1. CountsOK'
  BY DEF TrackerInv, CountsOK
<1>2. QuotaOK'
  BY DEF TrackerInv, QuotaOK
<1>3. /\ kind' = kind /\ now' = now /\ quota' = quota
  OBVIOUS
<1>4. TableOK(rows)'
  BY <1>3 DEF TableOK, RowOK, WindowOK, OfOldWindow, Late
<1>5. QED
  BY <1>1, <1>2, <1>4 DEF TrackerInv

\* A snapshot is processed.
LEMMA ProcessedKeepsInv ==
  ASSUME TrackerInv, NEW s \in Sample, NEW complete \in BOOLEAN, Processed(s, complete),
         faults' \in {faults, faults + 1}, faults' + restarts <= MaxFaults
  PROVE  TrackerInv' /\ CallOK(rows') /\ EndsOpen(rows')
<1>1. CallOK(rows') /\ EndsOpen(rows')
  BY StoreCallsOK DEF Processed
<1>2. memory' \in MemoryShape
  <2>1. memory \in MemoryShape
    BY DEF TrackerInv, CountsOK
  <2>2. s.used \in 0 .. Cap /\ s.resets \in 0 .. MaxTime + Window + 1
    BY SampleIsCurrent
  <2>3. memory' = Remembered(s, complete)
    BY DEF Processed
  <2>4. QED
    BY <2>1, <2>2, <2>3 DEF Remembered, MemoryShape
<1>3. faults' \in Nat /\ restarts' \in Nat /\ faults' + restarts' <= MaxFaults
  BY DEF Processed, TrackerInv, CountsOK
<1>4. QED
  BY <1>1, <1>2, <1>3, PollKeepsInv DEF Processed, CallOK

\* A poll that leaves the table as it is leaves it as good.
LEMMA SameTableOK ==
  ASSUME TrackerInv
  PROVE  CallOK(rows)
<1>1. Len(rows) \in Nat
  BY LastIsActive
<1>2. Extends(rows)
  BY <1>1 DEF Extends
<1>3. QED
  BY <1>2 DEF CallOK, TrackerInv

\* A store call fails.
LEMMA FailureKeepsInv ==
  ASSUME TrackerInv, NEW s \in Sample, ProcessFails(s)
  PROVE  TrackerInv' /\ CallOK(rows')
<1>1. PICK i \in 0 .. (Len(StoreCalls(s)) - 1) :
         /\ rows' = IF i = 0 THEN rows ELSE StoreCalls(s)[i]
         /\ \/ memory' = memory
            \/ memory' = [memory EXCEPT !.resets = s.resets]
  BY DEF ProcessFails
<1>2. /\ Len(StoreCalls(s)) \in Nat
      /\ \A n \in 1 .. Len(StoreCalls(s)) : CallOK(StoreCalls(s)[n])
  BY StoreCallsOK
<1>3. CallOK(rows')
  BY <1>1, <1>2, SameTableOK
<1>4. memory' \in MemoryShape
  <2>1. memory \in MemoryShape /\ s.resets \in 0 .. MaxTime + Window + 1
    BY SampleIsCurrent DEF TrackerInv, CountsOK
  <2>2. QED
    BY <1>1, <2>1 DEF MemoryShape
<1>5. faults' \in Nat /\ restarts' \in Nat /\ faults' + restarts' <= MaxFaults
  BY TrackersAssumption DEF TrackersAssumption, ProcessFails, TrackerInv, CountsOK
<1>6. QED
  BY <1>3, <1>4, <1>5, PollKeepsInv DEF ProcessFails, CallOK

\* The quota is missing from a snapshot.
LEMMA AbsentKeepsInv ==
  ASSUME TrackerInv, Absent
  PROVE  TrackerInv'
<1>1. memory' \in MemoryShape /\ TableOK(rows')
  BY DEF Absent, TrackerInv, CountsOK, MemoryShape
<1>2. faults' \in Nat /\ restarts' \in Nat /\ faults' + restarts' <= MaxFaults
  BY DEF Absent, TrackerInv, CountsOK
<1>3. QED
  BY <1>1, <1>2, PollKeepsInv DEF Absent

\* The cycle of a model that is not in use may be closed.
LEMMA UnusedKeepsInv ==
  ASSUME TrackerInv, NEW listed \in BOOLEAN, NEW othersUsed \in BOOLEAN,
         ModelUnused(listed, othersUsed)
  PROVE  TrackerInv' /\ CallOK(rows') /\ Len(rows') = Len(rows)
<1> DEFINE closed == [rows[ActiveRow] EXCEPT !.end = now]
<1>1. ASSUME OpenRows # {}
      PROVE  CallOK(Written(closed)) /\ Len(Written(closed)) = Len(rows)
  <2>1. /\ ActiveRow = Len(rows) /\ RowOK(rows[Len(rows)]) /\ rows[Len(rows)].end = None
    BY <1>1, LastIsActive
  <2>2. /\ now \in 1 .. MaxTime /\ rows[Len(rows)] \in Row /\ MaxTime \in Nat
    BY <2>1, TrackersAssumption DEF TrackerInv, QuotaOK, RowOK, TrackersAssumption
  <2>3. /\ closed \in Row /\ closed.end = now /\ closed.start = rows[Len(rows)].start
        /\ closed.resets = rows[Len(rows)].resets /\ closed.windows = rows[Len(rows)].windows
        /\ closed.peak = rows[Len(rows)].peak /\ closed.top = rows[Len(rows)].top
    BY <2>1, <2>2 DEF Row
  <2>4. kind \notin Durable
    BY DEF ModelUnused, Durable
  <2> HIDE DEF closed
  <2>5. RowOK(closed)
    BY <2>1, <2>2, <2>3, <2>4 DEF RowOK
  <2>6. QED
    BY <1>1, <2>3, <2>4, <2>5, WrittenOK DEF CallOK
<1>2. rows' = IF othersUsed /\ OpenRows # {} THEN Written(closed) ELSE rows
  BY Zenon DEF ModelUnused
<1>3. CallOK(rows') /\ Len(rows') = Len(rows)
  <2>1. CASE othersUsed /\ OpenRows # {}
    BY <1>1, <1>2, <2>1
  <2>2. CASE ~(othersUsed /\ OpenRows # {})
    <3>1. rows' = rows
      BY <1>2, <2>2
    <3>2. QED
      BY <3>1, SameTableOK
  <2>3. QED
    BY <2>1, <2>2
<1>4. memory' \in MemoryShape
  BY DEF ModelUnused, TrackerInv, CountsOK, MemoryShape
<1>5. faults' \in Nat /\ restarts' \in Nat /\ faults' + restarts' <= MaxFaults
  BY DEF ModelUnused, TrackerInv, CountsOK
<1>6. QED
  BY <1>3, <1>4, <1>5, PollKeepsInv DEF ModelUnused, CallOK

\* The daemon is killed, perhaps between two store calls.
LEMMA RestartKeepsInv ==
  ASSUME TrackerInv, RestartTracker
  PROVE  TrackerInv' /\ CallOK(rows') /\ (polled' = polled => rows' = rows)
<1>1. \/ rows' = rows /\ polled' \in {polled, TRUE}
      \/ /\ ~polled /\ polled' = TRUE
         /\ \E s \in Sample : \E i \in DOMAIN StoreCalls(s) : rows' = StoreCalls(s)[i]
  BY DEF RestartTracker
<1>2. CallOK(rows')
  BY <1>1, StoreCallsOK, SameTableOK
<1>3. memory' \in MemoryShape
  BY TrackersAssumption DEF RestartTracker, Forgotten, MemoryShape, None, TrackersAssumption
<1>4. /\ polled' \in BOOLEAN /\ faults' \in Nat /\ restarts' \in Nat
      /\ faults' + restarts' <= MaxFaults
  <2>1. polled \in BOOLEAN /\ faults \in Nat /\ restarts \in Nat
    BY DEF TrackerInv, CountsOK
  <2>2. faults' = faults /\ restarts' = restarts + 1 /\ faults + restarts < MaxFaults
    BY DEF RestartTracker
  <2>3. polled' \in BOOLEAN
    BY <1>1, <2>1
  <2>4. QED
    BY <2>1, <2>2, <2>3, TrackersAssumption DEF TrackersAssumption
<1>5. QED
  BY <1>1, <1>2, <1>3, <1>4, PollKeepsInv DEF RestartTracker, CallOK

\* Time passes, and at its reset time a new window begins: the cycle that is open
\* is then of a window that is over.
LEMMA TickKeepsInv ==
  ASSUME TrackerInv, Tick
  PROVE  TrackerInv'
<1> USE TrackersAssumption DEF TrackersAssumption, None
<1>1. PICK units \in 0 .. Cap :
         IF now + 1 < quota.reset
         THEN /\ quota.used + units <= Cap
              /\ quota' = [quota EXCEPT !.used = @ + units, !.ever = @ + units]
         ELSE quota' = [quota EXCEPT !.window = @ + 1, !.reset = @ + Window,
                                     !.used = units, !.ever = @ + units]
  BY DEF Tick
<1>2. /\ quota \in QuotaShape /\ now \in 1 .. MaxTime /\ now < quota.reset
      /\ quota.reset <= now + Window /\ quota.window \in 1 .. now /\ quota.ever <= Cap * now
  BY DEF TrackerInv, QuotaOK
<1>3. /\ quota.window \in Nat /\ quota.reset \in Nat /\ quota.used \in 0 .. Cap /\ quota.ever \in Nat
  BY <1>2 DEF QuotaShape
<1>4. now' = now + 1 /\ now < MaxTime /\ kind' = kind /\ rows' = rows
  BY DEF Tick
<1>5. /\ quota' \in QuotaShape /\ quota'.ever = quota.ever + units /\ quota'.rolls = quota.rolls
      /\ \/ quota'.window = quota.window /\ quota'.reset = quota.reset /\ now' < quota.reset
         \/ /\ quota'.window = quota.window + 1 /\ quota'.reset = quota.reset + Window
            /\ now' >= quota.reset
  <2>1. CASE now + 1 < quota.reset
    <3>1. quota.used + units \in 0 .. Cap /\ quota.ever + units \in Nat
      BY <1>1, <1>3, <2>1
    <3>2. quota' = [quota EXCEPT !.used = quota.used + units, !.ever = quota.ever + units]
      BY <1>1, <2>1
    <3>3. QED
      BY <1>2, <1>4, <2>1, <3>1, <3>2 DEF QuotaShape
  <2>2. CASE ~(now + 1 < quota.reset)
    <3>1. quota.window + 1 \in Nat /\ quota.reset + Window \in Nat /\ quota.ever + units \in Nat
      BY <1>3
    <3>2. quota' = [quota EXCEPT !.window = quota.window + 1, !.reset = quota.reset + Window,
                                 !.used = units, !.ever = quota.ever + units]
      BY <1>1, <2>2
    <3>3. /\ quota' \in QuotaShape /\ quota'.window = quota.window + 1
          /\ quota'.reset = quota.reset + Window /\ quota'.ever = quota.ever + units
          /\ quota'.rolls = quota.rolls
      BY <1>2, <3>1, <3>2 DEF QuotaShape
    <3>4. QED
      BY <1>2, <1>3, <1>4, <2>2, <3>3
  <2>3. QED
    BY <2>1, <2>2
<1>6. QuotaOK'
  <2>1. quota'.ever <= Cap * (now + 1)
    <3>1. Cap * (now + 1) = Cap * now + Cap
      BY <1>2
    <3>2. Cap * now \in Nat
      BY <1>2
    <3>3. QED
      BY <1>2, <1>3, <1>5, <3>1, <3>2
  <2>2. now' < quota'.reset /\ quota'.reset <= now' + Window /\ quota'.window \in 1 .. now'
        /\ now' \in 1 .. MaxTime
    BY <1>2, <1>3, <1>4, <1>5
  <2>3. quota'.rolls => kind' = "synthetic"
    BY <1>4, <1>5 DEF TrackerInv, QuotaOK
  <2>4. QED
    BY <1>4, <1>5, <2>1, <2>2, <2>3 DEF QuotaOK
<1>7. Late' = Late /\ Late \in {0, 1}
  BY <1>4 DEF Late
<1>8. ASSUME NEW S, OfOldWindow(S)
      PROVE  OfOldWindow(S)'
  BY <1>3, <1>5, <1>8 DEF OfOldWindow
<1>9. ASSUME NEW c \in Row, RowOK(c)
      PROVE  RowOK(c)'
  <2>1. c.resets \in Nat /\ c.start \in Nat /\ c.end \in Nat /\ c.windows \in SUBSET (1 .. MaxTime)
    BY DEF Row
  <2>2. ASSUME WindowOK(c), kind \in Durable
        PROVE  WindowOK(c)'
    <3>1. CASE c.end # None
      <4>1. OfOldWindow(c.windows)'
        BY <1>8, <2>2, <3>1 DEF WindowOK
      <4>2. QED
        BY <3>1, <4>1 DEF WindowOK
    <3>2. CASE c.end = None /\ kind \in Jitters /\ c.resets = None /\ c.windows = {}
      BY <1>4, <3>2 DEF WindowOK
    <3>3. CASE /\ c.end = None /\ c.resets \in quota.reset .. quota.reset + Late
               /\ c.windows \subseteq {quota.window}
      <4>1. CASE quota'.window = quota.window /\ quota'.reset = quota.reset
        BY <1>7, <3>3, <4>1 DEF WindowOK
      <4>2. CASE quota'.window = quota.window + 1 /\ quota'.reset = quota.reset + Window
        <5>1. c.resets # None /\ c.resets + Window <= quota'.reset + Late'
          BY <1>2, <1>3, <1>7, <2>1, <3>3, <4>2
        <5>2. quota.window \in 0 .. quota'.window - 1
          BY <1>3, <4>2
        <5>3. OfOldWindow(c.windows)'
          BY <3>3, <5>2 DEF OfOldWindow
        <5>4. QED
          BY <3>3, <5>1, <5>3 DEF WindowOK
      <4>3. QED
        BY <1>5, <4>1, <4>2
    <3>4. CASE /\ c.end = None /\ c.resets # None /\ c.resets + Window <= quota.reset + Late
               /\ OfOldWindow(c.windows)
      <4>1. OfOldWindow(c.windows)'
        BY <1>8, <3>4
      <4>2. c.resets + Window <= quota'.reset + Late'
        BY <1>3, <1>5, <1>7, <2>1, <3>4
      <4>3. QED
        BY <3>4, <4>1, <4>2 DEF WindowOK
    <3>5. QED
      BY <2>2, <3>1, <3>2, <3>3, <3>4 DEF WindowOK
  <2>3. c.start <= now' /\ c.end <= now'
    BY <1>2, <1>4, <1>9, <2>1 DEF RowOK
  <2>4. QED
    BY <1>4, <1>9, <2>2, <2>3 DEF RowOK
<1>10. TableOK(rows)'
  <2>1. /\ rows \in Seq(Row) /\ \A i \in 1 .. Len(rows) : RowOK(rows[i]) /\ rows[i] \in Row
    BY DEF TrackerInv, TableOK, RowOK
  <2>2. \A i \in 1 .. Len(rows) : \A row \in {rows[i]} : RowOK(row)'
    BY <1>9, <2>1
  <2>3. \A i \in 1 .. Len(rows') : RowOK(rows[i])'
    BY <1>4, <2>2
  <2>4. QED
    BY <1>4, <2>1, <2>3 DEF TrackerInv, TableOK
<1>11. CountsOK'
  BY DEF TrackerInv, CountsOK, Tick
<1>12. QED
  BY <1>6, <1>10, <1>11 DEF TrackerInv

\* A start without cycles.
LEMMA TrackerInitOK ==
  ASSUME TrackerInit
  PROVE  TrackerInv
<1> USE TrackersAssumption DEF TrackersAssumption, TrackerInit
<1>1. CountsOK
  <2>1. memory \in MemoryShape
    BY DEF Forgotten, MemoryShape, None
  <2>2. kind \in Kinds /\ kind \in AllKinds
    <3> HIDE DEF TrackersAssumption
    <3>1. Kinds \subseteq AllKinds
      BY DEF TrackersAssumption
    <3>2. QED
      BY <3>1
  <2>3. polled \in BOOLEAN
    OBVIOUS
  <2>4. faults \in Nat /\ restarts \in Nat /\ faults + restarts <= MaxFaults
    OBVIOUS
  <2>5. QED
    BY <2>1, <2>2, <2>3, <2>4 DEF CountsOK
<1>2. QuotaOK
  <2>1. PICK rolls \in IF kind = "synthetic" THEN BOOLEAN ELSE {FALSE} :
           quota = [window |-> 1, reset |-> Window, used |-> 0, ever |-> 0, rolls |-> rolls]
    OBVIOUS
  <2>2. rolls \in BOOLEAN /\ (rolls => kind = "synthetic")
    BY <2>1
  <2>3. QED
    BY <2>1, <2>2 DEF QuotaOK, QuotaShape
<1>3. TableOK(rows)
  BY DEF TableOK
<1>4. QED
  BY <1>1, <1>2, <1>3 DEF TrackerInv

\* Every step of the tracker keeps the invariant.
LEMMA TrackerStepOK ==
  ASSUME TrackerInv, [TrackerNext]_TrackerVars
  PROVE  TrackerInv'
<1>1. CASE Tick
  BY <1>1, TickKeepsInv
<1>2. CASE UNCHANGED TrackerVars
  <2>1. /\ UNCHANGED <<kind, quota, now, rows, memory, polled, faults, restarts>>
    BY <1>2 DEF TrackerVars
  <2>2. /\ TableOK(rows') /\ memory' \in MemoryShape /\ polled' \in BOOLEAN /\ faults' \in Nat
        /\ restarts' \in Nat /\ faults' + restarts' <= MaxFaults
    BY <2>1 DEF TrackerInv, CountsOK
  <2>3. QED
    BY <2>1, <2>2, PollKeepsInv
<1>3. ASSUME NEW s \in Sample, NEW complete \in BOOLEAN, Process(s, complete)
      PROVE  TrackerInv'
  <2>1. faults' \in {faults, faults + 1} /\ faults' + restarts <= MaxFaults
    BY <1>3, TrackersAssumption DEF Process, TrackerInv, CountsOK, TrackersAssumption
  <2>2. Processed(s, complete)
    BY <1>3 DEF Process
  <2>3. QED
    BY <2>1, <2>2, ProcessedKeepsInv
<1>4. ASSUME NEW s \in Sample, ProcessFails(s)
      PROVE  TrackerInv'
  BY <1>4, FailureKeepsInv
<1>5. CASE Absent
  BY <1>5, AbsentKeepsInv
<1>6. ASSUME NEW listed \in BOOLEAN, NEW othersUsed \in BOOLEAN, ModelUnused(listed, othersUsed)
      PROVE  TrackerInv'
  BY <1>6, UnusedKeepsInv
<1>7. CASE RestartTracker
  BY <1>7, RestartKeepsInv
<1>8. QED
  BY <1>1, <1>2, <1>3, <1>4, <1>5, <1>6, <1>7 DEF TrackerNext, Horizon

-----------------------------------------------------------------------------
(* What the invariant says of the trackers *)

\* The variables have their types.
LEMMA InvHasTypes ==
  ASSUME TrackerInv
  PROVE  TrackerTypeOK
<1> USE TrackersAssumption DEF TrackersAssumption
<1>1. quota.ever \in 0 .. Cap * MaxTime
  <2>1. quota.ever \in Nat /\ quota.ever <= Cap * now /\ now \in Nat /\ now <= MaxTime
    BY DEF TrackerInv, QuotaOK, QuotaShape
  <2>2. Cap * now <= Cap * MaxTime /\ Cap * now \in Nat /\ Cap * MaxTime \in Nat
    BY <2>1
  <2>3. QED
    BY <2>1, <2>2
<1>2. rows \in Seq(Row) /\ kind \in Kinds /\ polled \in BOOLEAN
  BY DEF TrackerInv, TableOK, CountsOK
<1>3. memory \in [has : BOOLEAN, known : BOOLEAN, used : 0 .. Cap, resets : 0 .. MaxTime + Window + 1]
  BY DEF TrackerInv, CountsOK, MemoryShape
<1>4. quota.used \in 0 .. Cap /\ now \in 1 .. MaxTime
  BY DEF TrackerInv, QuotaOK, QuotaShape
<1>5. faults + restarts \in 0 .. MaxFaults
  BY DEF TrackerInv, CountsOK
<1>6. QED
  BY <1>1, <1>2, <1>3, <1>4, <1>5 DEF TrackerTypeOK

\* The cycles follow one another.
LEMMA InvTiles ==
  ASSUME TrackerInv
  PROVE  CyclesTile
<1>1. DOMAIN rows = 1 .. Len(rows) /\ Len(rows) \in Nat
  BY LastIsActive
<1>2. ASSUME NEW i \in DOMAIN rows
      PROVE  /\ rows[i].end # None => rows[i].start <= rows[i].end
             /\ i < Len(rows) => rows[i].end # None /\ rows[i].end <= rows[i + 1].start
  <2>1. RowOK(rows[i])
    BY <1>1 DEF TrackerInv, TableOK
  <2>2. i < Len(rows) => i \in 1 .. Len(rows) - 1
    BY <1>1
  <2>3. QED
    BY <2>1, <2>2 DEF RowOK, TrackerInv, TableOK
<1>3. QED
  BY <1>2 DEF CyclesTile

\* The stored peak covers what was processed.
LEMMA InvHasPeaks ==
  ASSUME TrackerInv
  PROVE  PeakIsRecorded
<1>1. SUFFICES ASSUME kind \notin {"grok", "kimi", "gemini", "codex"}, NEW i \in DOMAIN rows
               PROVE  rows[i].peak >= rows[i].top
  BY DEF PeakIsRecorded
<1>2. kind \in PeakKinds
  BY <1>1 DEF PeakKinds, TrackerInv, CountsOK
<1>3. RowOK(rows[i])
  BY LastIsActive DEF TrackerInv, TableOK
<1>4. rows[i].top \in 0 .. Cap /\ rows[i].peak \in 0 .. Cap
  BY <1>3 DEF RowOK, Row
<1>5. QED
  BY <1>2, <1>3, <1>4, TrackersAssumption DEF RowOK, TrackersAssumption

\* A cycle of a tracker that decides by the stored reset is of one window.
LEMMA InvHasWindows ==
  ASSUME TrackerInv
  PROVE  CyclesAreWindows
<1>1. SUFFICES ASSUME kind \in Durable
               PROVE  /\ \A i \in DOMAIN rows : Cardinality(rows[i].windows) <= 1
                      /\ \A i, j \in DOMAIN rows : i # j => rows[i].windows \cap rows[j].windows = {}
  BY DEF CyclesAreWindows
<1>2. DOMAIN rows = 1 .. Len(rows)
  BY LastIsActive
<1>3. ASSUME NEW i \in DOMAIN rows
      PROVE  Cardinality(rows[i].windows) <= 1
  <2>1. WindowOK(rows[i])
    BY <1>1, <1>2 DEF TrackerInv, TableOK, RowOK
  <2>2. PICK w : rows[i].windows \subseteq {w}
    BY <2>1 DEF WindowOK, OfOldWindow
  <2>3. IsFiniteSet({w}) /\ Cardinality({w}) = 1
    BY FS_Singleton
  <2>4. Cardinality(rows[i].windows) <= Cardinality({w})
    BY <2>2, <2>3, FS_Subset
  <2>5. QED
    BY <2>3, <2>4
<1>4. QED
  BY <1>1, <1>2, <1>3 DEF TrackerInv, TableOK

\* The invariant of the trackers.
THEOREM TrackerInvariant == TrackerSpec => []TrackerInv
<1>1. TrackerInit => TrackerInv
  BY TrackerInitOK
<1>2. TrackerInv /\ [TrackerNext]_TrackerVars => TrackerInv'
  BY TrackerStepOK
<1>3. QED
  BY <1>1, <1>2, PTL DEF TrackerSpec

\* The variables of the trackers keep their types.
THEOREM TrackerTypeCorrect == TrackerSpec => []TrackerTypeOK
<1>1. TrackerInv => TrackerTypeOK
  BY InvHasTypes
<1>2. QED
  BY <1>1, TrackerInvariant, PTL

\* The cycles of a quota never overlap, whichever store call fails and however often
\* the daemon is killed between two of them.
THEOREM TrackerCyclesTile == TrackerSpec => []CyclesTile
<1>1. TrackerInv => CyclesTile
  BY InvTiles
<1>2. QED
  BY <1>1, TrackerInvariant, PTL

\* A tracker that decides by the stored reset never counts usage of two windows for a
\* cycle, nor cuts a window in two, with tolerances below the length of a window.
THEOREM TrackerCyclesAreWindows == TrackerSpec => []CyclesAreWindows
<1>1. TrackerInv => CyclesAreWindows
  BY InvHasWindows
<1>2. QED
  BY <1>1, TrackerInvariant, PTL

\* The stored peak of a cycle covers every sample that was processed as part of it.
THEOREM TrackerPeakIsRecorded == TrackerSpec => []PeakIsRecorded
<1>1. TrackerInv => PeakIsRecorded
  BY InvHasPeaks
<1>2. QED
  BY <1>1, TrackerInvariant, PTL

-----------------------------------------------------------------------------
(* The total of a table.  It is defined by recursion over the cycles: that   *)
(* there is such a function, and that it depends on the deltas only, is      *)
(* shown by the lowest cycle of which it does not hold.                      *)

\* The order of the naturals.
RowsBelow == {p \in Nat \X Nat : p[1] < p[2]}

\* It is well-founded: a set of row numbers has a lowest.
LEMMA LowestRow ==
  ASSUME NEW S \in SUBSET Nat, S # {}
  PROVE  \E n \in S : \A m \in S : n <= m
<1>1. IsWellFoundedOn(RowsBelow, Nat)
  BY NatLessThanWellFounded DEF OpToRel, RowsBelow
<1>2. PICK n \in S : \A m \in S : ~(<<m, n>> \in RowsBelow)
  BY <1>1, WFMin
<1>3. ASSUME NEW m \in S PROVE n <= m
  <2>1. ~(<<m, n>> \in RowsBelow) /\ m \in Nat /\ n \in Nat
    BY <1>2
  <2>2. QED
    BY <2>1 DEF RowsBelow
<1>4. QED
  BY <1>3

\* f adds up the deltas of the first n cycles of a table.
AddsUp(f, table, n) ==
    f = [i \in 0 .. n |-> IF i = 0 THEN 0 ELSE f[i - 1] + table[i].delta]

\* There is such a function.
LEMMA SumExists ==
  ASSUME NEW S, NEW table \in Seq(S), \A c \in S : c.delta \in Nat
  PROVE  \A n \in 0 .. Len(table) : \E f \in [0 .. n -> Nat] : AddsUp(f, table, n)
<1> DEFINE Good(n) == \E f \in [0 .. n -> Nat] : AddsUp(f, table, n)
           bad == {n \in 0 .. Len(table) : ~Good(n)}
<1>1. SUFFICES ASSUME bad # {} PROVE FALSE
  OBVIOUS
<1>2. bad \in SUBSET Nat
  OBVIOUS
<1> HIDE DEF Good
<1>3. PICK n \in bad : \A m \in bad : n <= m
  <2> HIDE DEF bad
  <2>1. QED
    BY <1>1, <1>2, LowestRow
<1>4. CASE n = 0
  <2> DEFINE f == [i \in 0 .. 0 |-> 0]
  <2>1. f \in [0 .. 0 -> Nat]
    OBVIOUS
  <2>2. AddsUp(f, table, 0)
    BY DEF AddsUp
  <2> HIDE DEF f
  <2>3. Good(0)
    BY <2>1, <2>2 DEF Good
  <2>4. QED
    BY <1>4, <2>3
<1>5. CASE n # 0
  <2>1. n \in 1 .. Len(table) /\ n - 1 \in 0 .. Len(table)
    BY <1>5
  <2>2. Good(n - 1)
    BY <1>3, <2>1
  <2>3. PICK g \in [0 .. n - 1 -> Nat] : AddsUp(g, table, n - 1)
    BY <2>2 DEF Good
  <2>4. table[n].delta \in Nat
    <3>1. table[n] \in S
      BY <2>1
    <3>2. QED
      BY <3>1
  <2> DEFINE f == [i \in 0 .. n |-> IF i = n THEN g[n - 1] + table[n].delta ELSE g[i]]
  <2>5. f \in [0 .. n -> Nat] /\ \A i \in 0 .. n - 1 : f[i] = g[i]
    BY <2>1, <2>3, <2>4
  <2>6. AddsUp(f, table, n)
    <3>1. ASSUME NEW i \in 0 .. n
          PROVE  f[i] = IF i = 0 THEN 0 ELSE f[i - 1] + table[i].delta
      <4>1. CASE i = n
        BY <2>1, <2>5, <4>1
      <4>2. CASE i # n
        <5>1. i \in 0 .. n - 1 /\ (i # 0 => i - 1 \in 0 .. n - 1)
          BY <2>1, <4>2
        <5>2. g[i] = IF i = 0 THEN 0 ELSE g[i - 1] + table[i].delta
          BY <2>3, <5>1 DEF AddsUp
        <5> HIDE DEF f
        <5>3. QED
          BY <2>5, <5>1, <5>2
      <4>3. QED
        BY <4>1, <4>2
    <3>2. f = [i \in 0 .. n |-> f[i]]
      OBVIOUS
    <3> HIDE DEF f
    <3>3. QED
      BY <3>1, <3>2 DEF AddsUp
  <2> HIDE DEF f
  <2>7. Good(n)
    BY <2>5, <2>6 DEF Good
  <2>8. QED
    BY <2>7
<1>6. QED
  BY <1>4, <1>5

\* Two tables agree in the deltas of their first k cycles.
Agree(table, other, k) == \A i \in 1 .. k : table[i].delta = other[i].delta

\* Then the sum of these is the same.
LEMMA SameSum ==
  ASSUME NEW table, NEW other, NEW n \in Nat, NEW m \in Nat, NEW f, NEW g,
         AddsUp(f, table, n), AddsUp(g, other, m),
         NEW k \in 0 .. n, k <= m, Agree(table, other, k)
  PROVE  f[k] = g[k]
<1> DEFINE bad == {i \in 0 .. k : f[i] # g[i]}
<1>1. SUFFICES ASSUME bad # {} PROVE FALSE
  BY <1>1
<1>2. PICK i \in bad : \A j \in bad : i <= j
  <2>1. bad \in SUBSET Nat
    OBVIOUS
  <2> HIDE DEF bad
  <2>2. QED
    BY <1>1, <2>1, LowestRow
<1>3. i \in 0 .. n /\ i \in 0 .. m
  OBVIOUS
<1>4. CASE i = 0
  BY <1>2, <1>3, <1>4 DEF AddsUp
<1>5. CASE i # 0
  <2>1. i - 1 \in 0 .. k /\ i \in 1 .. k /\ i - 1 < i
    BY <1>5
  <2>2. f[i - 1] = g[i - 1]
    BY <1>2, <2>1
  <2>3. f[i] = f[i - 1] + table[i].delta /\ g[i] = g[i - 1] + other[i].delta
    BY <1>3, <1>5 DEF AddsUp
  <2>4. table[i].delta = other[i].delta
    BY <2>1 DEF Agree
  <2>5. QED
    BY <2>2, <2>3, <2>4
<1>6. QED
  BY <1>4, <1>5

\* The total of a table is what such a function says of its length.
LEMMA TotalIsSumOf ==
  ASSUME NEW S, NEW table \in Seq(S), \A c \in S : c.delta \in Nat
  PROVE  \E f \in [0 .. Len(table) -> Nat] :
            AddsUp(f, table, Len(table)) /\ TotalTracked(table) = f[Len(table)]
<1> DEFINE sum == CHOOSE f : AddsUp(f, table, Len(table))
<1>1. PICK g \in [0 .. Len(table) -> Nat] : AddsUp(g, table, Len(table))
  BY SumExists
<1>2. AddsUp(sum, table, Len(table))
  BY <1>1
<1>3. TotalTracked(table) = sum[Len(table)]
  BY DEF TotalTracked, AddsUp
<1>4. \A k \in 0 .. Len(table) : sum[k] = g[k]
  <2>1. SUFFICES ASSUME NEW k \in 0 .. Len(table) PROVE sum[k] = g[k]
    OBVIOUS
  <2> HIDE DEF sum
  <2>2. Len(table) \in Nat /\ Agree(table, table, k)
    BY DEF Agree
  <2>3. QED
    BY <1>1, <1>2, <2>2, SameSum
<1>5. Len(table) \in 0 .. Len(table)
  OBVIOUS
<1> HIDE DEF sum
<1>6. TotalTracked(table) = g[Len(table)]
  BY <1>3, <1>4, <1>5
<1>7. QED
  BY <1>1, <1>6

\* So it is of the cycles of a tracker.
LEMMA TotalIsSum ==
  ASSUME NEW table \in Seq(Row)
  PROVE  \E f \in [0 .. Len(table) -> Nat] :
            AddsUp(f, table, Len(table)) /\ TotalTracked(table) = f[Len(table)]
<1>1. \A c \in Row : c.delta \in Nat
  BY DEF Row
<1>2. QED
  BY <1>1, TotalIsSumOf

\* And a natural.
LEMMA TotalIsNatural ==
  ASSUME NEW table \in Seq(Row)
  PROVE  TotalTracked(table) \in Nat
<1>1. PICK f \in [0 .. Len(table) -> Nat] : TotalTracked(table) = f[Len(table)]
  BY TotalIsSum
<1>2. Len(table) \in 0 .. Len(table)
  OBVIOUS
<1>3. QED
  BY <1>1, <1>2

\* The total of no cycles is zero.
LEMMA NoTotal == TotalTracked(<<>>) = 0
<1>1. <<>> \in Seq(Row) /\ Len(<<>>) = 0
  OBVIOUS
<1>2. PICK f : AddsUp(f, <<>>, 0) /\ TotalTracked(<<>>) = f[0]
  BY <1>1, TotalIsSum
<1>3. QED
  BY <1>2 DEF AddsUp

\* A cycle more adds its delta to the total.
LEMMA AppendTotal ==
  ASSUME NEW table \in Seq(Row), NEW c \in Row
  PROVE  TotalTracked(Append(table, c)) = TotalTracked(table) + c.delta
<1> DEFINE n == Len(table)
           longer == Append(table, c)
<1>1. /\ n \in Nat /\ longer \in Seq(Row) /\ Len(longer) = n + 1 /\ longer[n + 1] = c
      /\ \A i \in 1 .. n : longer[i] = table[i]
  OBVIOUS
<1>2. PICK f : AddsUp(f, table, n) /\ TotalTracked(table) = f[n]
  BY TotalIsSum
<1> HIDE DEF longer
<1>3. PICK g : AddsUp(g, longer, n + 1) /\ TotalTracked(longer) = g[n + 1]
  BY <1>1, TotalIsSum
<1> HIDE DEF n
<1>4. n + 1 \in 0 .. n + 1 /\ n + 1 # 0 /\ n + 1 - 1 = n
  BY <1>1
<1>5. g[n + 1] = g[n] + c.delta
  BY <1>1, <1>3, <1>4 DEF AddsUp
<1>6. f[n] = g[n]
  <2>1. n \in 0 .. n /\ n <= n + 1 /\ n + 1 \in Nat /\ Agree(table, longer, n)
    BY <1>1 DEF Agree
  <2> DEFINE m == n + 1
  <2>2. AddsUp(g, longer, m) /\ m \in Nat /\ n <= m
    BY <1>3, <2>1
  <2> HIDE DEF m
  <2>3. QED
    BY <1>1, <1>2, <2>1, <2>2, SameSum
<1>7. QED
  BY <1>2, <1>3, <1>5, <1>6 DEF longer, n

\* Another last cycle changes the total by the difference of the deltas.
LEMMA ReplacedTotal ==
  ASSUME NEW table \in Seq(Row), table # <<>>, NEW c \in Row
  PROVE  TotalTracked([table EXCEPT ![Len(table)] = c]) + table[Len(table)].delta
            = TotalTracked(table) + c.delta
<1> DEFINE n == Len(table)
           other == [table EXCEPT ![n] = c]
<1>1. /\ n \in Nat /\ n # 0 /\ other \in Seq(Row) /\ Len(other) = n /\ other[n] = c
      /\ \A i \in 1 .. n - 1 : other[i] = table[i]
      /\ table[n] \in Row
  OBVIOUS
<1>2. PICK f \in [0 .. n -> Nat] : AddsUp(f, table, n) /\ TotalTracked(table) = f[n]
  BY TotalIsSum
<1> HIDE DEF other
<1>3. PICK g \in [0 .. n -> Nat] : AddsUp(g, other, n) /\ TotalTracked(other) = g[n]
  BY <1>1, TotalIsSum
<1> HIDE DEF n
<1>4. g[n] = g[n - 1] + c.delta /\ f[n] = f[n - 1] + table[n].delta
  BY <1>1, <1>2, <1>3 DEF AddsUp
<1>5. f[n - 1] = g[n - 1] /\ f[n - 1] \in Nat
  <2> DEFINE k == n - 1
  <2>1. k \in 0 .. n /\ k <= n /\ Agree(table, other, k)
    BY <1>1 DEF Agree
  <2> HIDE DEF k
  <2>2. f[k] = g[k] /\ f[k] \in Nat
    BY <1>1, <1>2, <1>3, <2>1, SameSum
  <2>3. QED
    BY <2>2 DEF k
<1>6. c.delta \in Nat /\ table[n].delta \in Nat
  BY <1>1 DEF Row
<1>7. TotalTracked(other) + table[n].delta = TotalTracked(table) + c.delta
  BY <1>2, <1>3, <1>4, <1>5, <1>6
<1>8. QED
  BY <1>7 DEF other, n

-----------------------------------------------------------------------------
(* The total and what was used *)

\* What was used in this window and no poll has seen.
Unseen == IF memory.known /\ quota.used > memory.used THEN quota.used - memory.used ELSE 0

\* The trackers that count the sample that shows a reset for the cycle it closes.
CountsReset == "delta" \in Rules[kind].counts

\* The total leaves room for what is unseen; but for a tracker that counts the sample
\* of a reset, once a poll of its was cut short.
RoomInv == ~(CountsReset /\ faults > 0) => TotalTracked(rows) + Unseen <= quota.ever

\* A sample spends no more than what is unseen.
LEMMA SpentIsUnseen ==
  ASSUME TrackerInv, NEW s \in Sample
  PROVE  Spent(memory, s) \in Nat /\ Unseen \in Nat /\ Spent(memory, s) <= Unseen
<1>1. memory \in MemoryShape /\ quota.used \in 0 .. Cap /\ s.used = quota.used
  BY DEF TrackerInv, CountsOK, QuotaOK, QuotaShape, Sample
<1>2. memory.used \in 0 .. Cap /\ Cap \in Nat
  BY <1>1, TrackersAssumption DEF MemoryShape, TrackersAssumption
<1>3. QED
  BY <1>1, <1>2 DEF Spent, Unseen

\* A cycle that is created adds nothing.
LEMMA OpenedTotal ==
  ASSUME TrackerInv, NEW table \in Seq(Row), NEW s \in Sample
  PROVE  LET calls == Opened(table, s) IN
         \A i \in 1 .. Len(calls) : TotalTracked(calls[i]) = TotalTracked(table)
<1>1. NewRow(s) \in Row /\ FirstRow(s) \in Row
  BY NewRowOK DEF RowOK
<1>2. NewRow(s).delta = 0 /\ FirstRow(s).delta = 0
  BY DEF NewRow, FirstRow, Noted
<1>4. TotalTracked(table) \in Nat
  BY TotalIsNatural
<1>5. /\ TotalTracked(Append(table, NewRow(s))) = TotalTracked(table)
      /\ TotalTracked(Append(table, FirstRow(s))) = TotalTracked(table)
  BY <1>1, <1>2, <1>4, AppendTotal
<1>6. Opened(table, s) = IF kind \in {"grok", "kimi"} THEN <<Append(table, FirstRow(s))>>
                         ELSE <<Append(table, NewRow(s)), Append(table, FirstRow(s))>>
  BY DEF Opened, FirstRow
<1> DEFINE one == Append(table, NewRow(s))
           two == Append(table, FirstRow(s))
<1>7. TotalTracked(one) = TotalTracked(table) /\ TotalTracked(two) = TotalTracked(table)
  BY <1>5
<1>8. Opened(table, s) = <<two>> \/ Opened(table, s) = <<one, two>>
  BY <1>6
<1> HIDE DEF one, two
<1>9. QED
  BY <1>7, <1>8

\* To write the open cycle changes the total by the difference of the deltas.
LEMMA WrittenTotal ==
  ASSUME TrackerInv, OpenRows # {}, NEW c \in Row, NEW spent \in Nat,
         c.delta = rows[Len(rows)].delta + spent
  PROVE  TotalTracked(Written(c)) = TotalTracked(rows) + spent
<1>1. Written(c) = [rows EXCEPT ![Len(rows)] = c]
  BY WrittenIsLast
<1>2. rows \in Seq(Row) /\ rows # <<>> /\ rows[Len(rows)] \in Row /\ Written(c) \in Seq(Row)
  <2>1. Len(rows) \in 1 .. Len(rows) /\ rows \in Seq(Row)
    BY LastIsActive DEF TrackerInv, TableOK
  <2>2. QED
    BY <1>1, <2>1
<1>3. rows[Len(rows)].delta \in Nat
  BY <1>2 DEF Row
<1>4. TotalTracked(rows) \in Nat /\ TotalTracked(Written(c)) \in Nat
  BY <1>2, TotalIsNatural
<1>5. TotalTracked(Written(c)) + rows[Len(rows)].delta = TotalTracked(rows) + c.delta
  BY <1>1, <1>2, ReplacedTotal
<1>6. QED
  BY <1>3, <1>4, <1>5

\* What the rows of a sample count.
LEMMA RowsCount ==
  ASSUME TrackerInv, NEW c \in Row, NEW s \in Sample
  PROVE  /\ Closed(c, memory, s).delta \in {c.delta, c.delta + Spent(memory, s)}
         /\ ~CountsReset => Closed(c, memory, s).delta = c.delta
         /\ Noted(Updated(c, memory, s), s).delta \in {c.delta, c.delta + Spent(memory, s)}
         /\ MovedRow(c, s).delta = c.delta
<1>1. DOMAIN c = {"start", "end", "resets", "peak", "delta", "top", "windows"}
  BY DEF Row
<1>2. /\ Closed(c, memory, s).delta = IF CountsReset THEN c.delta + Spent(memory, s) ELSE c.delta
  BY <1>1 DEF Closed, CountsReset
<1>3. Updated(c, memory, s).delta \in {c.delta, c.delta + Spent(memory, s)}
      /\ DOMAIN Updated(c, memory, s) = DOMAIN c
  BY <1>1 DEF Updated
<1>4. Noted(Updated(c, memory, s), s).delta = Updated(c, memory, s).delta
  BY <1>1, <1>3 DEF Noted
<1>5. MovedRow(c, s).delta = c.delta
  BY <1>1 DEF MovedRow
<1>6. QED
  BY <1>2, <1>3, <1>4, <1>5

\* Gemini and Codex, which move the reset of a cycle, count it.
LEMMA MoversCount ==
  ASSUME kind \in Movers
  PROVE  CountsReset
BY DEF Movers, CountsReset, Rules, Rule, GeminiRule, CodexRule, AllKinds

\* Whatever store call it is, the total grows by no more than what the sample spends;
\* and before the last of them by nothing, unless the sample of a reset is counted.
LEMMA StoreCallsTotal ==
  ASSUME TrackerInv, NEW s \in Sample
  PROVE  LET calls == StoreCalls(s) IN
         /\ \A i \in 1 .. Len(calls) :
               TotalTracked(calls[i]) \in {TotalTracked(rows), TotalTracked(rows) + Spent(memory, s)}
         /\ ~CountsReset =>
               \A i \in 1 .. Len(calls) - 1 : TotalTracked(calls[i]) = TotalTracked(rows)
<1> DEFINE c == rows[ActiveRow]
           closed == Closed(c, memory, s)
           noted == Noted(Updated(c, memory, s), s)
           moved == MovedRow(c, s)
           last == Noted(Updated(moved, memory, s), s)
           calls == StoreCalls(s)
           spent == Spent(memory, s)
           total == TotalTracked(rows)
<1>1. rows \in Seq(Row) /\ spent \in Nat /\ total \in Nat
  BY SpentIsUnseen, TotalIsNatural DEF TrackerInv, TableOK
<1>2. CASE OpenRows = {}
  <2>1. calls = Opened(rows, s)
    BY <1>2 DEF StoreCalls
  <2>2. Len(calls) \in Nat
    BY StoreCallsOK
  <2> HIDE DEF calls
  <2>3. \A i \in 1 .. Len(calls) : TotalTracked(calls[i]) = total
    BY <1>1, <2>1, OpenedTotal
  <2>4. \A i \in 1 .. Len(calls) - 1 : i \in 1 .. Len(calls)
    BY <2>2
  <2>5. QED
    BY <2>3, <2>4 DEF calls
<1>3. ASSUME OpenRows # {}
      PROVE  /\ c = rows[Len(rows)] /\ RowOK(c) /\ c.end = None /\ c \in Row
             /\ c.delta \in Nat
  <2>1. /\ c = rows[Len(rows)] /\ RowOK(c) /\ c.end = None
    BY <1>3, LastIsActive
  <2>2. QED
    BY <2>1 DEF RowOK, Row
<1>4. ASSUME OpenRows # {}, NEW row \in Row, row.delta \in {c.delta, c.delta + spent}
      PROVE  /\ TotalTracked(Written(row)) \in {total, total + spent}
             /\ row.delta = c.delta => TotalTracked(Written(row)) = total
  <2> HIDE DEF c, spent, total
  <2>1. CASE row.delta = c.delta
    <3>1. c.delta \in Nat /\ c = rows[Len(rows)] /\ 0 \in Nat /\ row.delta = rows[Len(rows)].delta + 0
      BY <1>3, <1>4, <2>1
    <3>2. TotalTracked(Written(row)) = TotalTracked(rows) + 0
      BY <1>4, <3>1, WrittenTotal
    <3>3. QED
      BY <1>1, <3>2 DEF total
  <2>2. CASE row.delta = c.delta + spent
    <3>1. c = rows[Len(rows)]
      BY <1>3, <1>4
    <3>2. TotalTracked(Written(row)) = total + spent
      BY <1>1, <1>4, <2>2, <3>1, WrittenTotal DEF total
    <3>3. row.delta = c.delta => spent = 0
      BY <1>1, <1>3, <1>4, <2>2
    <3>4. QED
      BY <1>1, <3>2, <3>3
  <2>3. QED
    BY <1>4, <2>1, <2>2
<1>5. CASE OpenRows # {} /\ Reset(c, memory, s)
  <2>1. RowOK(closed) /\ closed \in Row
    BY <1>3, <1>5, ClosedRowOK DEF RowOK
  <2>2. /\ closed.delta \in {c.delta, c.delta + spent}
        /\ ~CountsReset => closed.delta = c.delta
    BY <1>3, <1>5, RowsCount
  <2>3. calls = <<Written(closed)>> \o Opened(Written(closed), s)
    BY <1>5 DEF StoreCalls
  <2>4. Written(closed) \in Seq(Row)
    <3>1. StoreCalls(s)[1] = Written(closed) /\ 1 \in 1 .. Len(StoreCalls(s))
      BY <2>3 DEF Opened
    <3>2. TableOK(Written(closed))
      BY <3>1, StoreCallsOK DEF CallOK
    <3>3. QED
      BY <3>2 DEF TableOK
  <2> HIDE DEF closed, c, calls, spent
  <2>5. /\ TotalTracked(Written(closed)) \in {total, total + spent}
        /\ ~CountsReset => TotalTracked(Written(closed)) = total
    BY <1>4, <1>5, <2>1, <2>2
  <2> DEFINE opened == Opened(Written(closed), s)
             t == TotalTracked(Written(closed))
  <2>6. \A i \in 1 .. Len(opened) : TotalTracked(opened[i]) = t
    BY <2>4, OpenedTotal
  <2>7. opened = <<opened[1]>> \/ opened = <<opened[1], opened[2]>>
    BY DEF Opened
  <2> HIDE DEF opened, t, total
  <2>8. /\ Len(calls) \in {2, 3} /\ calls[1] = Written(closed) /\ calls[2] = opened[1]
        /\ Len(calls) = Len(opened) + 1 /\ Len(opened) \in {1, 2}
        /\ Len(calls) = 3 => calls[3] = opened[2]
    BY <2>3, <2>7 DEF opened
  <2>9. \A i \in 1 .. Len(calls) : TotalTracked(calls[i]) = t
    BY <2>6, <2>8 DEF t
  <2>10. \A i \in 1 .. Len(calls) - 1 : i \in 1 .. Len(calls)
    BY <2>8
  <2>11. t \in {total, total + spent} /\ (~CountsReset => t = total)
    BY <2>5 DEF t
  <2>12. QED
    BY <2>9, <2>10, <2>11 DEF calls, total, spent
<1>6. CASE OpenRows # {} /\ ~Reset(c, memory, s)
  <2>1. CASE kind \in Movers
    <3>1. RowOK(moved) /\ moved.end = None /\ moved.start = c.start /\ moved \in Row
      BY <1>3, <1>6, <2>1, MovedRowOK DEF RowOK
    <3>2. kind \notin Durable
      BY <2>1 DEF Movers, Durable
    <3>3. last \in Row
      <4> HIDE DEF moved
      <4>1. QED
        BY <3>1, <3>2, UpdatedRowOK DEF RowOK
    <3>4. moved.delta = c.delta
      BY <1>3, <1>6, RowsCount
    <3>5. last.delta \in {c.delta, c.delta + spent}
      <4> HIDE DEF moved
      <4>1. QED
        BY <3>1, <3>4, RowsCount
    <3>6. calls = <<Written(moved), Written(last)>>
      BY <1>6, <2>1 DEF StoreCalls, MovedRow
    <3>7. CountsReset
      BY <2>1, MoversCount
    <3> HIDE DEF last, moved, calls, c, spent, total
    <3>8. /\ TotalTracked(Written(moved)) \in {total, total + spent}
          /\ TotalTracked(Written(last)) \in {total, total + spent}
      BY <1>4, <1>6, <3>1, <3>3, <3>4, <3>5
    <3>9. QED
      BY <3>6, <3>7, <3>8 DEF calls, total, spent
  <2>2. CASE kind \notin Movers
    <3>1. noted \in Row
      BY <1>3, <1>6, UpdatedRowOK DEF RowOK
    <3>2. noted.delta \in {c.delta, c.delta + spent}
      BY <1>3, <1>6, RowsCount
    <3>3. calls = <<Written(noted)>>
      BY <1>6, <2>2 DEF StoreCalls
    <3> HIDE DEF noted, calls, c, spent, total
    <3>4. TotalTracked(Written(noted)) \in {total, total + spent}
      BY <1>4, <1>6, <3>1, <3>2
    <3>5. QED
      BY <3>3, <3>4 DEF calls, total, spent
  <2>3. QED
    BY <2>1, <2>2
<1>7. QED
  BY <1>2, <1>5, <1>6

\* The numbers that the steps compare.
LEMMA RoomTypes ==
  ASSUME TrackerInv
  PROVE  /\ TotalTracked(rows) \in Nat /\ Unseen \in Nat /\ quota.ever \in Nat
         /\ memory \in MemoryShape /\ memory.used \in Nat /\ memory.known \in BOOLEAN
         /\ quota.used \in Nat /\ quota \in QuotaShape
         /\ faults \in Nat
<1>1. memory \in MemoryShape /\ quota \in QuotaShape /\ rows \in Seq(Row) /\ faults \in Nat
  BY DEF TrackerInv, CountsOK, QuotaOK, TableOK
<1>2. /\ memory.used \in 0 .. Cap /\ quota.used \in 0 .. Cap /\ quota.ever \in Nat
      /\ memory.known \in BOOLEAN
  BY <1>1 DEF MemoryShape, QuotaShape
<1>3. memory.used \in Nat /\ quota.used \in Nat
  BY <1>2, TrackersAssumption DEF TrackersAssumption
<1>4. Unseen \in Nat
  BY <1>3 DEF Unseen
<1>5. QED
  BY <1>1, <1>2, <1>3, <1>4, TotalIsNatural

\* Between two polls, the kind and what was used stay; so the room is kept if the total
\* and what is unseen grow by nothing, and no failure is forgotten.
LEMMA RoomKept ==
  ASSUME TrackerInv, RoomInv, UNCHANGED <<kind, quota>>, faults' \in Nat, faults' >= faults,
         ~(CountsReset /\ faults' > 0) =>
             TotalTracked(rows') + Unseen' <= TotalTracked(rows) + Unseen,
         TotalTracked(rows') \in Nat, Unseen' \in Nat
  PROVE  RoomInv'
<1>1. CountsReset' = CountsReset /\ quota'.ever = quota.ever
  BY DEF CountsReset
<1>2. faults' > 0 \/ ~(faults > 0)
  BY RoomTypes
<1>3. QED
  BY <1>1, <1>2, RoomTypes DEF RoomInv

\* Time passes: what is used adds to what was ever used.
LEMMA TickIsUse ==
  ASSUME TrackerInv, Tick
  PROVE  \E units \in Nat : /\ quota'.ever = quota.ever + units
                            /\ quota'.used \in {quota.used + units, units}
<1>1. PICK units \in 0 .. Cap :
         IF now + 1 < quota.reset
         THEN /\ quota.used + units <= Cap
              /\ quota' = [quota EXCEPT !.used = @ + units, !.ever = @ + units]
         ELSE quota' = [quota EXCEPT !.window = @ + 1, !.reset = @ + Window,
                                     !.used = units, !.ever = @ + units]
  BY DEF Tick
<1>2. units \in Nat
  BY <1>1, TrackersAssumption DEF TrackersAssumption
<1>3. /\ quota'.ever = quota.ever + units
      /\ quota'.used \in {quota.used + units, units}
  <2>1. CASE now + 1 < quota.reset
    <3>1. quota' = [quota EXCEPT !.used = quota.used + units, !.ever = quota.ever + units]
      BY <1>1, <2>1
    <3>2. QED
      BY <3>1, RoomTypes DEF QuotaShape
  <2>2. CASE ~(now + 1 < quota.reset)
    <3>1. quota' = [quota EXCEPT !.window = quota.window + 1, !.reset = quota.reset + Window,
                                 !.used = units, !.ever = quota.ever + units]
      BY <1>1, <2>2
    <3>2. QED
      BY <3>1, RoomTypes DEF QuotaShape
  <2>3. QED
    BY <2>1, <2>2
<1>4. QED
  BY <1>2, <1>3

\* And it is unseen.
LEMMA TickKeepsRoom ==
  ASSUME TrackerInv, RoomInv, Tick
  PROVE  RoomInv'
<1>1. PICK units \in Nat : /\ quota'.ever = quota.ever + units
                          /\ quota'.used \in {quota.used + units, units}
  BY TickIsUse
<1>2. UNCHANGED <<kind, rows, memory, faults>>
  BY DEF Tick
<1>3. Unseen' \in Nat /\ Unseen' <= Unseen + units
  BY <1>1, <1>2, RoomTypes DEF Unseen
<1>4. CountsReset' = CountsReset
  BY <1>2 DEF CountsReset
<1>5. QED
  BY <1>1, <1>2, <1>3, <1>4, RoomTypes DEF RoomInv

\* A snapshot is processed: what was unseen is spent, and nothing is unseen.
LEMMA ProcessedKeepsRoom ==
  ASSUME TrackerInv, RoomInv, NEW s \in Sample, NEW complete \in BOOLEAN, Processed(s, complete),
         faults' \in {faults, faults + 1}
  PROVE  RoomInv'
<1>1. rows' = Last(StoreCalls(s)) /\ memory'.used = s.used /\ UNCHANGED <<kind, quota>>
  BY DEF Processed, Remembered
<1>2. faults' \in Nat /\ faults' >= faults
  BY <1>1, RoomTypes
<1>3. Unseen' = 0
  <2>1. s.used = quota'.used /\ quota'.used \in Nat
    BY <1>1, RoomTypes DEF Sample
  <2>2. QED
    BY <1>1, <2>1 DEF Unseen
<1>4. TotalTracked(rows') \in {TotalTracked(rows), TotalTracked(rows) + Spent(memory, s)}
  <2>1. Len(StoreCalls(s)) \in 1 .. Len(StoreCalls(s))
        /\ Last(StoreCalls(s)) = StoreCalls(s)[Len(StoreCalls(s))]
    BY StoreCallsOK
  <2>2. QED
    BY <1>1, <2>1, StoreCallsTotal
<1>5. Spent(memory, s) \in Nat /\ Spent(memory, s) <= Unseen
  BY SpentIsUnseen
<1>6. TotalTracked(rows') \in Nat /\ TotalTracked(rows') + Unseen' <= TotalTracked(rows) + Unseen
  BY <1>3, <1>4, <1>5, RoomTypes
<1>7. QED
  BY <1>1, <1>2, <1>3, <1>6, RoomKept

\* A store call fails: nothing was written of the delta, or the sample of a reset was.
LEMMA FailureKeepsRoom ==
  ASSUME TrackerInv, RoomInv, NEW s \in Sample, ProcessFails(s)
  PROVE  RoomInv'
<1>1. PICK i \in 0 .. (Len(StoreCalls(s)) - 1) :
         /\ rows' = IF i = 0 THEN rows ELSE StoreCalls(s)[i]
         /\ \/ memory' = memory
            \/ memory' = [memory EXCEPT !.resets = s.resets]
  BY DEF ProcessFails
<1>2. UNCHANGED <<kind, quota>> /\ faults' = faults + 1
  BY DEF ProcessFails
<1>3. faults' \in Nat /\ faults' >= faults /\ faults' > 0
  BY <1>2, RoomTypes
<1>4. memory'.used = memory.used /\ memory'.known = memory.known
  BY <1>1, RoomTypes DEF MemoryShape
<1>5. Unseen' = Unseen
  BY <1>2, <1>4 DEF Unseen
<1>6. i = 0 \/ (i \in 1 .. Len(StoreCalls(s)) - 1 /\ i \in 1 .. Len(StoreCalls(s)))
  <2>1. Len(StoreCalls(s)) \in Nat
    BY StoreCallsOK
  <2>2. QED
    BY <2>1
<1>7. ~CountsReset => TotalTracked(rows') = TotalTracked(rows)
  BY <1>1, <1>6, StoreCallsTotal
<1>8. TotalTracked(rows') \in Nat
  BY FailureKeepsInv, TotalIsNatural DEF TrackerInv, TableOK
<1>9. QED
  BY <1>2, <1>3, <1>5, <1>7, <1>8, RoomTypes, RoomKept

\* What is left as it is keeps the room: of a tracker whose snapshot is without the quota.
LEMMA AbsentKeepsRoom ==
  ASSUME TrackerInv, RoomInv, Absent
  PROVE  RoomInv'
<1>1. /\ UNCHANGED <<kind, quota, rows, faults>>
      /\ memory'.used = memory.used /\ memory'.known = memory.known
  BY RoomTypes DEF Absent, MemoryShape
<1>2. Unseen' = Unseen
  BY <1>1 DEF Unseen
<1>3. QED
  BY <1>1, <1>2, RoomTypes, RoomKept

\* And of a cycle that is closed because its model is not in use: it keeps its delta.
LEMMA UnusedKeepsRoom ==
  ASSUME TrackerInv, RoomInv, NEW listed \in BOOLEAN, NEW othersUsed \in BOOLEAN,
         ModelUnused(listed, othersUsed)
  PROVE  RoomInv'
<1> DEFINE closed == [rows[ActiveRow] EXCEPT !.end = now]
<1>1. /\ UNCHANGED <<kind, quota, faults>>
      /\ memory'.used = memory.used /\ memory'.known = memory.known
  BY RoomTypes DEF ModelUnused, MemoryShape
<1>2. Unseen' = Unseen
  BY <1>1 DEF Unseen
<1>3. rows' = IF othersUsed /\ OpenRows # {} THEN Written(closed) ELSE rows
  BY Zenon DEF ModelUnused
<1>4. ASSUME OpenRows # {}
      PROVE  TotalTracked(Written(closed)) = TotalTracked(rows)
  <2>1. ActiveRow = Len(rows) /\ rows[Len(rows)] \in Row
    BY <1>4, LastIsActive DEF RowOK
  <2>2. now \in 0 .. MaxTime
    BY TrackersAssumption DEF TrackerInv, QuotaOK, TrackersAssumption
  <2>3. closed \in Row /\ closed.delta = rows[Len(rows)].delta /\ rows[Len(rows)].delta \in Nat
    BY <2>1, <2>2 DEF Row
  <2> HIDE DEF closed
  <2>4. 0 \in Nat /\ closed.delta = rows[Len(rows)].delta + 0
    BY <2>3
  <2>5. TotalTracked(Written(closed)) = TotalTracked(rows) + 0
    BY <1>4, <2>3, <2>4, WrittenTotal
  <2>6. QED
    BY <2>5, RoomTypes
<1> HIDE DEF closed
<1>5. TotalTracked(rows') = TotalTracked(rows)
  BY <1>3, <1>4
<1>6. QED
  BY <1>1, <1>2, <1>5, RoomTypes, RoomKept

\* The daemon is killed: what was unseen may be spent, and is forgotten.
LEMMA RestartKeepsRoom ==
  ASSUME TrackerInv, RoomInv, RestartTracker
  PROVE  RoomInv'
<1>1. UNCHANGED <<kind, quota, faults>> /\ memory' = Forgotten
  BY DEF RestartTracker
<1>2. Unseen' = 0
  BY <1>1 DEF Unseen, Forgotten
<1>3. \/ rows' = rows
      \/ \E s \in Sample : \E i \in DOMAIN StoreCalls(s) : rows' = StoreCalls(s)[i]
  BY DEF RestartTracker
<1>4. TotalTracked(rows') \in Nat /\ TotalTracked(rows') <= TotalTracked(rows) + Unseen
  <2>1. CASE rows' = rows
    BY <2>1, RoomTypes
  <2>2. ASSUME NEW s \in Sample, NEW i \in DOMAIN StoreCalls(s), rows' = StoreCalls(s)[i]
        PROVE  TotalTracked(rows') \in Nat /\ TotalTracked(rows') <= TotalTracked(rows) + Unseen
    <3>1. i \in 1 .. Len(StoreCalls(s))
      BY StoreCallsOK
    <3>2. TotalTracked(rows') \in {TotalTracked(rows), TotalTracked(rows) + Spent(memory, s)}
      BY <2>2, <3>1, StoreCallsTotal
    <3>3. QED
      BY <3>2, SpentIsUnseen, RoomTypes
  <2>3. QED
    BY <1>3, <2>1, <2>2
<1>5. QED
  BY <1>1, <1>2, <1>4, RoomTypes, RoomKept

\* Every step of the tracker keeps the room.
LEMMA RoomStepOK ==
  ASSUME TrackerInv, RoomInv, [TrackerNext]_TrackerVars
  PROVE  RoomInv'
<1>1. CASE UNCHANGED TrackerVars
  BY <1>1 DEF TrackerVars, RoomInv, Unseen, CountsReset
<1>2. ASSUME NEW s \in Sample, NEW complete \in BOOLEAN, Process(s, complete)
      PROVE  RoomInv'
  BY <1>2, ProcessedKeepsRoom DEF Process
<1>3. ASSUME NEW s \in Sample, ProcessFails(s)
      PROVE  RoomInv'
  BY <1>3, FailureKeepsRoom
<1>4. ASSUME NEW listed \in BOOLEAN, NEW othersUsed \in BOOLEAN, ModelUnused(listed, othersUsed)
      PROVE  RoomInv'
  BY <1>4, UnusedKeepsRoom
<1>5. QED
  BY <1>1, <1>2, <1>3, <1>4, TickKeepsRoom, AbsentKeepsRoom, RestartKeepsRoom DEF TrackerNext, Horizon

\* The summary of every tracker adds up the whole table.
LEMMA RoomIsConsumption ==
  ASSUME TrackerInv, RoomInv
  PROVE  SummaryIsConsumption
<1>1. UsageSummary.total = TotalTracked(rows)
  <2>1. ByPeak.total = TotalTracked(rows) /\ ByDelta.total = TotalTracked(rows)
    BY DEF ByPeak, ByDelta
  <2>2. kind \in AllKinds
    BY DEF TrackerInv, CountsOK
  <2> HIDE DEF ByPeak, ByDelta
  <2>3. UsageSummary \in {ByPeak, ByDelta}
    BY <2>2 DEF AllKinds, UsageSummary, SyntheticSummary, AnthropicSummary, CopilotSummary,
       ZaiSummary, AntigravitySummary, GeminiSummary, CodexSummary, ArkSummary, OpenCodeSummary,
       CursorSummary, GrokSummary, KimiSummary, MiniMaxSummary, OpenRouterSummary,
       MoonshotSummary, DeepSeekSummary
  <2>4. QED
    BY <2>1, <2>3
<1>2. QED
  BY <1>1, RoomTypes DEF RoomInv, CountsReset, SummaryIsConsumption

\* The total that a summary shows never exceeds what was ever used, in any tracker, for
\* any number of cycles; but for the trackers that count the sample that shows a reset
\* for the old cycle, once a store call has failed.
THEOREM TrackerSummaryIsConsumption == TrackerSpec => []SummaryIsConsumption
<1>1. TrackerInit => RoomInv
  <2>1. SUFFICES ASSUME TrackerInit PROVE TotalTracked(rows) + Unseen <= quota.ever
    BY DEF RoomInv
  <2>2. rows = <<>> /\ quota.ever = 0 /\ memory.known = FALSE
    BY <2>1 DEF TrackerInit, Forgotten
  <2>3. QED
    BY <2>2, NoTotal DEF Unseen
<1>2. TrackerInv /\ RoomInv /\ [TrackerNext]_TrackerVars => RoomInv'
  BY RoomStepOK
<1>3. TrackerInv /\ RoomInv => SummaryIsConsumption
  BY RoomIsConsumption
<1>4. QED
  BY <1>1, <1>2, <1>3, TrackerInvariant, PTL DEF TrackerSpec

-----------------------------------------------------------------------------
(* The polls around the trackers *)

\* A poll creates one cycle at most.
FewRows == Len(rows) <= IF polled THEN now ELSE now - 1

\* Unless a reset was cut short, a cycle is open once there is one, and the log holds
\* what was sent in it.
AlertsOK ==
    /\ alerts \in Alerts
    /\ ~alerts.missed => rows = <<>> \/ OpenRows # {}
    /\ AlertIsOfThisCycle

\* A snapshot is no older than its cycle, and older than every later one; it names no
\* cycle if a poll failed.
SnapshotOK(x) ==
    /\ x \in Snapshot /\ x.time <= now /\ (~polled => x.time < now)
    /\ x.row \in 0 .. Len(rows)
    /\ x.row # 0 => /\ rows[x.row].start <= x.time
                    /\ \A i \in 1 .. Len(rows) : x.row < i => x.time < rows[i].start
    /\ x.row = 0 /\ x.has => faults + restarts > 0 \/ kind = "minimax"

\* That of all of them.
SnapshotsOK ==
    /\ snapshots \in Seq(Snapshot)
    /\ \A n \in 1 .. Len(snapshots) : SnapshotOK(snapshots[n])

\* The invariant of the polls.
PollsInv == TrackerInv /\ FewRows /\ AlertsOK /\ SnapshotsOK

\* Where the last row is open there is an open row.
LEMMA EndsOpenHasOpenRow ==
  ASSUME TableOK(rows), EndsOpen(rows)
  PROVE  OpenRows # {}
<1>1. Len(rows) \in DOMAIN rows
  BY DEF TableOK, EndsOpen
<1>2. QED
  BY <1>1 DEF EndsOpen, OpenRows

\* A poll that was cut short, but not after it closed a cycle, leaves the last cycle
\* as the last, and open; or it creates the first one.
LEMMA CutShortKeepsCycle ==
  ASSUME TrackerInv, NEW s \in Sample, NEW i \in 1 .. Len(StoreCalls(s)),
         rows' = StoreCalls(s)[i], ~Closes, rows = <<>> \/ OpenRows # {}
  PROVE  Higher(1, Len(rows')) = Higher(1, Len(rows)) /\ EndsOpen(rows')
<1>1. Len(rows) \in Nat /\ (OpenRows # {} => OpenRows = {Len(rows)} /\ ActiveRow = Len(rows))
  BY LastIsActive
<1>2. IF Resets(s) THEN rows'[Len(rows)].end # None
      ELSE /\ EndsOpen(rows')
           /\ Len(rows') = IF OpenRows = {} THEN Len(rows) + 1 ELSE Len(rows)
  BY StoreCallsOK
<1>3. ~Resets(s)
  BY <1>1, <1>2 DEF Closes, Resets
<1>4. CASE OpenRows = {}
  <2>1. Len(rows) = 0 /\ Len(rows') = 1
    BY <1>2, <1>3, <1>4
  <2>2. QED
    BY <1>2, <1>3, <2>1 DEF Higher
<1>5. CASE OpenRows # {}
  BY <1>2, <1>3, <1>5
<1>6. QED
  BY <1>4, <1>5

\* Counters that do not fall stay above zero.
LEMMA StaysPositive ==
  ASSUME NEW a \in Nat, NEW b \in Nat, NEW c \in Nat, NEW d \in Nat, a + b <= c + d, a + b > 0
  PROVE  c + d > 0
OBVIOUS

\* A counter that rises makes the sum no less.
LEMMA NoneIsLost ==
  ASSUME NEW a \in Nat, NEW b \in Nat, NEW c \in {a, a + 1}
  PROVE  a + b <= c + b
OBVIOUS

\* What a poll at this tick, or a restart, does to the history.
PollStep ==
    /\ UNCHANGED <<kind, now>> /\ CallOK(rows')
    /\ faults + restarts <= faults' + restarts'
    /\ \/ rows' = rows /\ (polled => polled')
       \/ ~polled /\ polled'

\* A poll, or a restart, leaves what the snapshots say of the cycles true.
LEMMA SnapshotStaysOK ==
  ASSUME TrackerInv, TrackerInv', PollStep, NEW x, SnapshotOK(x)
  PROVE  SnapshotOK(x)'
<1>1. /\ Len(rows) \in Nat /\ rows' \in Seq(Row) /\ Len(rows') \in {Len(rows), Len(rows) + 1}
      /\ \A i \in 1 .. Len(rows) : rows'[i].start = rows[i].start
      /\ Len(rows') = Len(rows) + 1 => rows'[Len(rows')].start = now
      /\ now' = now /\ kind' = kind
  BY LastIsActive DEF CallOK, Extends, TableOK, PollStep
<1>2. x \in Snapshot /\ x.time <= now' /\ (~polled' => x.time < now')
  BY <1>1 DEF SnapshotOK, PollStep
<1>3. x.row \in 0 .. Len(rows')
  BY <1>1 DEF SnapshotOK
<1>4. x.row = 0 /\ x.has => faults' + restarts' > 0 \/ kind' = "minimax"
  <2>1. x.row = 0 /\ x.has => faults + restarts > 0 \/ kind = "minimax"
    BY DEF SnapshotOK
  <2>2. faults + restarts > 0 => faults' + restarts' > 0
    <3>1. /\ faults \in Nat /\ restarts \in Nat /\ faults' \in Nat /\ restarts' \in Nat
      BY DEF TrackerInv, CountsOK
    <3>2. faults + restarts <= faults' + restarts'
      BY DEF PollStep
    <3>3. QED
      BY <3>1, <3>2, StaysPositive
  <2>3. QED
    BY <1>1, <2>1, <2>2
<1>5. ASSUME x.row # 0
      PROVE  /\ rows'[x.row].start <= x.time
             /\ \A i \in 1 .. Len(rows') : x.row < i => x.time < rows'[i].start
  <2>1. /\ x.row \in 1 .. Len(rows) /\ rows[x.row].start <= x.time
        /\ \A i \in 1 .. Len(rows) : x.row < i => x.time < rows[i].start
    BY <1>1, <1>5 DEF SnapshotOK
  <2>2. ASSUME NEW i \in 1 .. Len(rows'), x.row < i
        PROVE  x.time < rows'[i].start
    <3>1. CASE i \in 1 .. Len(rows)
      BY <1>1, <2>1, <2>2, <3>1
    <3>2. CASE i \notin 1 .. Len(rows)
      <4>1. Len(rows') = Len(rows) + 1 /\ i = Len(rows')
        BY <1>1, <2>2, <3>2
      <4>2. ~polled
        BY <1>1, <4>1 DEF PollStep
      <4>3. x.time < now
        BY <4>2 DEF SnapshotOK
      <4>4. QED
        BY <1>1, <4>1, <4>3
    <3>3. QED
      BY <3>1, <3>2
  <2>3. QED
    BY <1>1, <2>1, <2>2
<1>6. QED
  BY <1>2, <1>3, <1>4, <1>5 DEF SnapshotOK

\* One more snapshot, of a poll at this tick.
LEMMA StoredOK ==
  ASSUME PollsInv, TrackerInv', PollStep, ~polled,
         NEW used \in 0 .. Cap, NEW has \in BOOLEAN, NEW row \in {0, Len(rows')},
         Stored(used, has, row), polled' = TRUE, FewRows',
         row = 0 /\ has => faults' + restarts' > 0 \/ kind = "minimax"
  PROVE  SnapshotsOK'
<1> DEFINE new == [time |-> now, used |-> used, has |-> has, row |-> row]
<1>1. /\ faults \in Nat /\ restarts \in Nat /\ faults' \in Nat /\ restarts' \in Nat
      /\ now \in 1 .. MaxTime /\ now' = now /\ kind' = kind
  BY DEF PollsInv, TrackerInv, CountsOK, PollStep, QuotaOK
<1>2. Len(rows') \in Nat /\ Len(rows') <= MaxTime /\ MaxTime \in Nat
  BY <1>1, TrackersAssumption DEF FewRows, PollStep, CallOK, TableOK, TrackersAssumption
<1>3. new \in Snapshot
  BY <1>1, <1>2 DEF Snapshot
<1>4. new.time = now /\ new.has = has /\ new.row = row
  OBVIOUS
<1>5. snapshots' = Append(snapshots, new) /\ snapshots \in Seq(Snapshot)
  BY DEF Stored, PollsInv, SnapshotsOK
<1> HIDE DEF new
<1>6. \A x \in {new} : SnapshotOK(x)'
  <2>1. new.row # 0 => rows'[new.row].start <= now
    <3>1. SUFFICES ASSUME new.row # 0 PROVE rows'[new.row].start <= now
      OBVIOUS
    <3>2. new.row \in 1 .. Len(rows')
      BY <1>2, <1>4, <3>1
    <3>3. RowOK(rows'[new.row])
      BY <3>2 DEF PollStep, CallOK, TableOK
    <3>4. QED
      BY <3>3 DEF RowOK
  <2>2. \A i \in 1 .. Len(rows') : new.row # 0 => ~(new.row < i)
    BY <1>2, <1>4
  <2>3. new.row \in 0 .. Len(rows')
    BY <1>2, <1>4
  <2>4. new.time <= now' /\ polled'
    BY <1>1, <1>4
  <2>5. new.row = 0 /\ new.has => faults' + restarts' > 0 \/ kind' = "minimax"
    BY <1>1, <1>4
  <2>6. new.row # 0 => /\ rows'[new.row].start <= new.time
                      /\ \A i \in 1 .. Len(rows') : new.row < i => new.time < rows'[i].start
    BY <1>1, <1>4, <2>1, <2>2
  <2>7. QED
    BY <1>3, <2>3, <2>4, <2>5, <2>6 DEF SnapshotOK
<1>7. \A n \in 1 .. Len(snapshots) : \A x \in {snapshots[n]} : SnapshotOK(x)'
  BY SnapshotStaysOK DEF PollsInv, SnapshotsOK
<1>8. /\ snapshots' \in Seq(Snapshot) /\ Len(snapshots') = Len(snapshots) + 1
      /\ Len(snapshots) \in Nat /\ snapshots'[Len(snapshots) + 1] = new
      /\ \A n \in 1 .. Len(snapshots) : snapshots'[n] = snapshots[n]
  BY <1>3, <1>5
<1>9. ASSUME NEW n \in 1 .. Len(snapshots')
      PROVE  \A x \in {snapshots'[n]} : SnapshotOK(x)'
  <2>1. CASE n \in 1 .. Len(snapshots)
    BY <1>7, <1>8, <2>1
  <2>2. CASE n = Len(snapshots) + 1
    BY <1>6, <1>8, <2>2
  <2>3. QED
    BY <1>8, <2>1, <2>2
<1>10. QED
  BY <1>8, <1>9 DEF SnapshotsOK

\* No snapshot is stored, or old ones are deleted.
LEMMA SnapshotsStayOK ==
  ASSUME PollsInv, TrackerInv', PollStep, snapshots' = snapshots
  PROVE  SnapshotsOK'
<1>1. \A n \in 1 .. Len(snapshots) : \A x \in {snapshots[n]} : SnapshotOK(x)'
  BY SnapshotStaysOK DEF PollsInv, SnapshotsOK
<1>2. QED
  BY <1>1 DEF PollsInv, SnapshotsOK

\* A poll leaves room for the cycles to come.
LEMMA FewRowsOK ==
  ASSUME TrackerInv, FewRows, PollStep, polled' \in BOOLEAN
  PROVE  FewRows'
<1>1. Len(rows) \in Nat /\ Len(rows') \in {Len(rows), Len(rows) + 1} /\ now' = now /\ now \in Nat
  BY LastIsActive DEF PollStep, CallOK, Extends, TrackerInv, QuotaOK
<1>2. CASE rows' = rows /\ (polled => polled')
  BY <1>1, <1>2 DEF FewRows
<1>3. CASE ~polled /\ polled'
  BY <1>1, <1>3 DEF FewRows
<1>4. QED
  BY <1>2, <1>3 DEF PollStep

\* The cycle that an alert is said to be of.
LEMMA CurrentCycleIsTime ==
  ASSUME TrackerInv', FewRows'
  PROVE  CurrentCycle \in 0 .. MaxTime /\ CurrentCycle = Higher(1, Len(rows'))
<1>1. now' \in 1 .. MaxTime /\ Len(rows') \in Nat /\ MaxTime \in Nat
  BY TrackersAssumption DEF TrackersAssumption, TrackerInv, QuotaOK, TableOK
<1>2. Len(rows') <= MaxTime
  BY <1>1 DEF FewRows
<1>3. QED
  BY <1>1, <1>2 DEF CurrentCycle, Higher

\* An open row of the new table is one of OpenRows'.
LEMMA EndsOpenNext ==
  ASSUME TrackerInv', EndsOpen(rows')
  PROVE  OpenRows' # {}
<1>1. Len(rows') \in DOMAIN rows' /\ rows'[Len(rows')].end = None
  BY DEF TrackerInv, TableOK, EndsOpen
<1>2. QED
  BY <1>1 DEF OpenRows

\* After a sample was processed and checked, the log is of the cycle it was counted for.
LEMMA CheckedOK ==
  ASSUME PollsInv, TrackerInv', FewRows', NEW s \in Sample, NEW complete \in BOOLEAN,
         Processed(s, complete), EndsOpen(rows'), NEW checks \in Checks, Checked(s, checks)
  PROVE  AlertsOK'
<1>1. alerts \in Alerts /\ (~alerts.missed => rows = <<>> \/ OpenRows # {}) /\ AlertIsOfThisCycle
  BY DEF PollsInv, AlertsOK
<1>2. CurrentCycle \in 0 .. MaxTime /\ CurrentCycle = Higher(1, Len(rows'))
  BY CurrentCycleIsTime
<1> DEFINE sends == checks /\ s.used >= AlertAt /\ ~Cleared(s)
           logs == Cleared(s) \/ sends
           sent == IF sends THEN CurrentCycle ELSE alerts.sent
<1>3. alerts' = [alerts EXCEPT !.logged = logs, !.sent = sent]
  BY DEF Checked
<1>4. logs \in BOOLEAN /\ sent \in 0 .. MaxTime
  <2>1. logs \in BOOLEAN
    BY Zenon
  <2>2. alerts.sent \in 0 .. MaxTime
    BY <1>1 DEF Alerts
  <2>3. QED
    BY <1>2, <2>1, <2>2
<1>5. Cleared(s) => alerts.logged /\ (~Resets(s) \/ kind \in Grouped)
  <2>1. alerts.logged \in BOOLEAN
    BY <1>1 DEF Alerts
  <2>2. QED
    BY <2>1 DEF Cleared
<1>6. logs /\ ~sends => Cleared(s)
  OBVIOUS
<1>7. sends => sent = Higher(1, Len(rows'))
  BY <1>2
<1>8. ~sends => sent = alerts.sent
  OBVIOUS
<1> HIDE DEF logs, sent, sends
<1>9. /\ alerts' \in Alerts /\ alerts'.logged = logs /\ alerts'.sent = sent
      /\ alerts'.missed = alerts.missed
  BY <1>1, <1>3, <1>4 DEF Alerts
<1>10. ASSUME kind \notin Grouped, ~alerts.missed, logs, ~sends
       PROVE  alerts.sent = Higher(1, Len(rows'))
  <2>1. alerts.logged /\ ~Resets(s)
    BY <1>5, <1>6, <1>10
  <2>2. alerts.sent = Higher(1, Len(rows))
    BY <1>1, <1>10, <2>1 DEF AlertIsOfThisCycle
  <2>3. Len(rows') = IF OpenRows = {} \/ Resets(s) THEN Len(rows) + 1 ELSE Len(rows)
    BY StoreCallsOK DEF Processed, PollsInv
  <2>4. CASE OpenRows = {}
    <3>1. rows = <<>>
      BY <1>1, <1>10, <2>4
    <3>2. Len(rows) = 0 /\ Len(rows') = 1
      BY <2>3, <2>4, <3>1
    <3>3. QED
      BY <2>2, <3>2 DEF Higher
  <2>5. CASE OpenRows # {}
    BY <2>1, <2>2, <2>3, <2>5
  <2>6. QED
    BY <2>4, <2>5
<1>11. AlertIsOfThisCycle'
  <2>1. kind' = kind
    BY DEF Processed
  <2>2. QED
    BY <1>7, <1>8, <1>9, <1>10, <2>1 DEF AlertIsOfThisCycle
<1>12. OpenRows' # {}
  BY EndsOpenNext
<1>13. QED
  BY <1>9, <1>11, <1>12 DEF AlertsOK

\* What a step that does not clear the log does to it: an alert may be sent, and a
\* cycle may be closed without notice.
LogStep ==
    /\ alerts' \in Alerts
    /\ ~alerts'.missed => ~alerts.missed /\ ~Closes
    /\ alerts'.logged =>
          \/ alerts'.sent = Higher(1, Len(rows'))
          \/ alerts.logged /\ alerts'.sent = alerts.sent

\* Unless it closes a cycle it keeps the last one, and keeps it open.
KeepsCycle ==
    \/ rows' = rows
    \/ Closes
    \/ Higher(1, Len(rows')) = Higher(1, Len(rows)) /\ EndsOpen(rows')

\* Such a step leaves the log true.
LEMMA LogStepOK ==
  ASSUME AlertsOK, TrackerInv', LogStep, ~alerts.missed => KeepsCycle, UNCHANGED kind
  PROVE  AlertsOK'
<1>1. alerts \in Alerts /\ (~alerts.missed => rows = <<>> \/ OpenRows # {}) /\ AlertIsOfThisCycle
  BY DEF AlertsOK
<1>2. ASSUME ~alerts'.missed
      PROVE  /\ rows' = <<>> \/ OpenRows' # {}
             /\ Higher(1, Len(rows')) = Higher(1, Len(rows))
  <2>1. (rows = <<>> \/ OpenRows # {}) /\ ~Closes
    BY <1>1, <1>2 DEF LogStep
  <2>2. CASE rows' = rows
    <3>1. OpenRows' = OpenRows
      BY <2>2 DEF OpenRows
    <3>2. QED
      BY <2>1, <2>2, <3>1
  <2>3. CASE Higher(1, Len(rows')) = Higher(1, Len(rows)) /\ EndsOpen(rows')
    BY <2>3, EndsOpenNext
  <2>4. KeepsCycle
    BY <1>2 DEF LogStep
  <2>5. QED
    BY <2>1, <2>2, <2>3, <2>4 DEF KeepsCycle
<1>3. AlertIsOfThisCycle'
  <2>1. SUFFICES ASSUME kind \notin Grouped, ~alerts'.missed, alerts'.logged
                 PROVE  alerts'.sent = Higher(1, Len(rows'))
    BY DEF AlertIsOfThisCycle
  <2>2. CASE alerts.logged /\ alerts'.sent = alerts.sent
    <3>1. ~alerts.missed
      BY <2>1 DEF LogStep
    <3>2. alerts.sent = Higher(1, Len(rows))
      BY <1>1, <2>1, <2>2, <3>1 DEF AlertIsOfThisCycle
    <3>3. QED
      BY <1>2, <2>1, <2>2, <3>2
  <2>3. QED
    BY <2>1, <2>2 DEF LogStep
<1>4. alerts' \in Alerts
  BY DEF LogStep
<1>5. QED
  BY <1>2, <1>3, <1>4 DEF AlertsOK

\* A poll or a restart that ends before or after one of the store calls.
LEMMA CutShortOK ==
  ASSUME TrackerInv, AlertsOK, NEW s \in Sample,
         rows' = rows \/ \E i \in 1 .. Len(StoreCalls(s)) : rows' = StoreCalls(s)[i]
  PROVE  ~alerts.missed => KeepsCycle
<1>1. SUFFICES ASSUME ~alerts.missed, rows' # rows, ~Closes PROVE KeepsCycle
  BY DEF KeepsCycle
<1>2. rows = <<>> \/ OpenRows # {}
  BY <1>1 DEF AlertsOK
<1>3. PICK i \in 1 .. Len(StoreCalls(s)) : rows' = StoreCalls(s)[i]
  BY <1>1
<1>4. QED
  BY <1>1, <1>2, <1>3, CutShortKeepsCycle DEF KeepsCycle

\* Where neither the cycles nor the log change, the log stays true.
LEMMA SameLogOK ==
  ASSUME AlertsOK, rows' = rows, alerts' = alerts, UNCHANGED kind
  PROVE  AlertsOK'
BY DEF AlertsOK, AlertIsOfThisCycle, OpenRows

\* What the log says after a step that sends an alert or does not, and clears nothing.
LEMMA LogStepIs ==
  ASSUME TrackerInv', FewRows', AlertsOK, NEW sends \in BOOLEAN,
         alerts' = [alerts EXCEPT !.logged = @ \/ sends,
                                  !.sent = IF sends THEN CurrentCycle ELSE @,
                                  !.missed = @ \/ Closes]
  PROVE  LogStep
<1> DEFINE logs == alerts.logged \/ sends
           sent == IF sends THEN CurrentCycle ELSE alerts.sent
           misses == alerts.missed \/ Closes
<1>1. alerts \in Alerts /\ CurrentCycle \in 0 .. MaxTime /\ CurrentCycle = Higher(1, Len(rows'))
  BY CurrentCycleIsTime DEF AlertsOK
<1>2. logs \in BOOLEAN /\ misses \in BOOLEAN
  BY Zenon
<1>3. sent \in 0 .. MaxTime
  BY <1>1 DEF Alerts
<1>4. (~misses => ~alerts.missed /\ ~Closes) /\ (logs => sends \/ alerts.logged)
  BY Zenon
<1>5. (sends => sent = Higher(1, Len(rows'))) /\ (~sends => sent = alerts.sent)
  BY <1>1
<1>6. alerts' = [alerts EXCEPT !.logged = logs, !.sent = sent, !.missed = misses]
  OBVIOUS
<1> HIDE DEF logs, sent, misses
<1>7. alerts' \in Alerts /\ alerts'.logged = logs /\ alerts'.sent = sent /\ alerts'.missed = misses
  BY <1>1, <1>2, <1>3, <1>6 DEF Alerts
<1>8. QED
  BY <1>4, <1>5, <1>7 DEF LogStep

\* The same of a step that only may close a cycle without notice.
LEMMA MissIs ==
  ASSUME AlertsOK, alerts' = [alerts EXCEPT !.missed = @ \/ Closes]
  PROVE  LogStep
<1> DEFINE misses == alerts.missed \/ Closes
<1>1. alerts \in Alerts
  BY DEF AlertsOK
<1>2. misses \in BOOLEAN /\ (~misses => ~alerts.missed /\ ~Closes)
  BY Zenon
<1>3. alerts' = [alerts EXCEPT !.missed = misses]
  OBVIOUS
<1> HIDE DEF misses
<1>4. /\ alerts' \in Alerts /\ alerts'.logged = alerts.logged /\ alerts'.sent = alerts.sent
      /\ alerts'.missed = misses
  BY <1>1, <1>2, <1>3 DEF Alerts
<1>5. QED
  BY <1>2, <1>4 DEF LogStep

\* A poll that is stored, processed and checked.
LEMMA PollStoresOK ==
  ASSUME PollsInv, NEW s \in Sample, NEW complete \in BOOLEAN, PollStores(s, complete)
  PROVE  PollsInv'
<1>1. TrackerInv /\ Process(s, complete) /\ Processed(s, complete)
  BY DEF PollStores, Process, PollsInv
<1>2. faults' \in {faults, faults + 1} /\ faults' + restarts <= MaxFaults
  BY <1>1, TrackersAssumption DEF Process, TrackerInv, CountsOK, TrackersAssumption
<1>3. TrackerInv' /\ CallOK(rows') /\ EndsOpen(rows')
  BY <1>1, <1>2, ProcessedKeepsInv
<1>4. PollStep /\ ~polled /\ polled' = TRUE
  <2>1. ~polled /\ polled' = TRUE /\ kind' = kind /\ now' = now /\ restarts' = restarts
    BY <1>1 DEF Processed
  <2>2. faults + restarts <= faults' + restarts'
    <3>1. faults \in Nat /\ restarts \in Nat
      BY <1>1 DEF TrackerInv, CountsOK
    <3>2. QED
      BY <1>2, <2>1, <3>1, NoneIsLost
  <2>3. QED
    BY <1>3, <2>1, <2>2 DEF PollStep
<1>5. FewRows'
  BY <1>1, <1>4, FewRowsOK DEF PollsInv
<1>6. SnapshotsOK'
  <2>1. s.used \in 0 .. Cap
    BY <1>1, SampleIsCurrent
  <2>2. Len(rows') # 0
    BY <1>3 DEF EndsOpen, CallOK, TableOK
  <2>3. Stored(s.used, TRUE, Len(rows'))
    BY DEF PollStores
  <2>4. QED
    BY <1>3, <1>4, <1>5, <2>1, <2>2, <2>3, StoredOK
<1>7. AlertsOK'
  <2>1. PICK checks \in Checks : Checked(s, checks)
    BY DEF PollStores
  <2>2. QED
    BY <1>1, <1>3, <1>5, <2>1, CheckedOK
<1>8. QED
  BY <1>3, <1>5, <1>6, <1>7 DEF PollsInv

\* A poll whose snapshot is not stored, and that goes on.
LEMMA PollGoesOnOK ==
  ASSUME PollsInv, NEW s \in Sample, PollGoesOn(s)
  PROVE  PollsInv'
<1>1. TrackerInv /\ Processed(s, TRUE)
  BY DEF PollGoesOn, PollsInv
<1>2. faults' = faults + 1 /\ faults' + restarts <= MaxFaults
  <2>1. faults \in Nat /\ restarts \in Nat /\ MaxFaults \in Nat
    BY <1>1, TrackersAssumption DEF TrackerInv, CountsOK, TrackersAssumption
  <2>2. faults' = faults + 1 /\ faults + restarts < MaxFaults
    BY DEF PollGoesOn
  <2>3. QED
    BY <2>1, <2>2
<1>3. TrackerInv' /\ CallOK(rows') /\ EndsOpen(rows')
  BY <1>1, <1>2, ProcessedKeepsInv
<1>4. PollStep
  BY <1>1, <1>2, <1>3 DEF Processed, PollStep, TrackerInv, CountsOK
<1>5. FewRows'
  BY <1>1, <1>4, FewRowsOK DEF PollsInv, Processed
<1>6. SnapshotsOK'
  BY <1>3, <1>4, SnapshotsStayOK DEF PollGoesOn
<1>7. AlertsOK'
  <2>1. PICK checks \in Checks : Checked(s, checks)
    BY DEF PollGoesOn
  <2>2. QED
    BY <1>1, <1>3, <1>5, <2>1, CheckedOK
<1>8. QED
  BY <1>3, <1>5, <1>6, <1>7 DEF PollsInv

\* A poll that ends because its snapshot is not stored.
LEMMA PollEndsOK ==
  ASSUME PollsInv, PollEnds
  PROVE  PollsInv'
<1>1. /\ TrackerInv /\ faults \in Nat /\ restarts \in Nat /\ faults + restarts <= MaxFaults
      /\ memory \in MemoryShape /\ TableOK(rows)
  BY DEF PollsInv, TrackerInv, CountsOK
<1>2. /\ faults' = faults + 1 /\ restarts' = restarts /\ faults + restarts < MaxFaults
      /\ polled' = TRUE /\ ~polled /\ rows' = rows /\ memory' = memory /\ kind' = kind
      /\ quota' = quota /\ now' = now /\ snapshots' = snapshots /\ alerts' = alerts
  BY DEF PollEnds
<1>3. faults' \in Nat /\ restarts' \in Nat /\ faults' + restarts' <= MaxFaults
  BY <1>1, <1>2, TrackersAssumption DEF TrackersAssumption
<1>4. TrackerInv'
  BY <1>1, <1>2, <1>3, PollKeepsInv
<1>5. PollStep
  BY <1>1, <1>2, SameTableOK DEF PollStep
<1>6. FewRows' /\ SnapshotsOK'
  BY <1>1, <1>2, <1>4, <1>5, FewRowsOK, SnapshotsStayOK DEF PollsInv
<1>7. AlertsOK'
  BY <1>2, SameLogOK DEF PollsInv
<1>8. QED
  BY <1>4, <1>6, <1>7 DEF PollsInv

\* A poll whose tracker fails.
LEMMA PollTrackerFailsOK ==
  ASSUME PollsInv, NEW s \in Sample, PollTrackerFails(s)
  PROVE  PollsInv'
<1>1. TrackerInv /\ AlertsOK /\ ProcessFails(s)
  BY DEF PollTrackerFails, PollsInv
<1>2. TrackerInv' /\ CallOK(rows')
  BY <1>1, FailureKeepsInv
<1>3. PollStep /\ ~polled /\ polled' = TRUE /\ kind' = kind
  BY <1>1, <1>2 DEF ProcessFails, PollStep, TrackerInv, CountsOK
<1>4. FewRows'
  BY <1>1, <1>3, FewRowsOK DEF PollsInv
<1>5. SnapshotsOK'
  <2>1. s.used \in 0 .. Cap
    BY <1>1, SampleIsCurrent
  <2>2. faults' + restarts' > 0
    BY <1>1 DEF ProcessFails, TrackerInv, CountsOK
  <2>3. Stored(s.used, TRUE, 0)
    BY DEF PollTrackerFails
  <2>4. QED
    BY <1>2, <1>3, <1>4, <2>1, <2>2, <2>3, StoredOK
<1>6. LogStep
  <2>1. PICK checks \in Checks :
           LET sends == checks /\ s.used >= AlertAt /\ ~alerts.logged IN
           alerts' = [alerts EXCEPT !.logged = @ \/ sends,
                                    !.sent = IF sends THEN CurrentCycle ELSE @,
                                    !.missed = @ \/ Closes]
    BY DEF PollTrackerFails
  <2> DEFINE sends == checks /\ s.used >= AlertAt /\ ~alerts.logged
  <2>2. sends \in BOOLEAN
    BY Zenon
  <2>3. alerts' = [alerts EXCEPT !.logged = @ \/ sends,
                                 !.sent = IF sends THEN CurrentCycle ELSE @,
                                 !.missed = @ \/ Closes]
    BY <2>1
  <2> HIDE DEF sends
  <2>4. QED
    BY <1>1, <1>2, <1>4, <2>2, <2>3, LogStepIs
<1>7. ~alerts.missed => KeepsCycle
  <2>1. PICK i \in 0 .. (Len(StoreCalls(s)) - 1) : rows' = IF i = 0 THEN rows ELSE StoreCalls(s)[i]
    BY <1>1 DEF ProcessFails
  <2>2. Len(StoreCalls(s)) \in Nat
    BY <1>1, StoreCallsOK
  <2>3. rows' = rows \/ \E n \in 1 .. Len(StoreCalls(s)) : rows' = StoreCalls(s)[n]
    BY <2>1, <2>2
  <2>4. QED
    BY <1>1, <2>3, CutShortOK
<1>8. AlertsOK'
  BY <1>1, <1>2, <1>3, <1>6, <1>7, LogStepOK
<1>9. QED
  BY <1>2, <1>4, <1>5, <1>8 DEF PollsInv

\* A poll whose snapshot lacks the quota.
LEMMA PollWithoutQuotaOK ==
  ASSUME PollsInv, PollWithoutQuota
  PROVE  PollsInv'
<1>1. TrackerInv /\ AlertsOK /\ Absent
  BY DEF PollWithoutQuota, PollsInv
<1>2. TrackerInv'
  BY <1>1, AbsentKeepsInv
<1>3. /\ ~polled /\ polled' = TRUE /\ kind' = kind /\ now' = now /\ rows' = rows
      /\ faults' = faults /\ restarts' = restarts /\ alerts' = alerts
  BY DEF PollWithoutQuota, Absent
<1>4. PollStep
  <2>1. faults + restarts <= faults' + restarts'
    BY <1>1, <1>3 DEF TrackerInv, CountsOK
  <2>2. CallOK(rows')
    BY <1>1, <1>3, SameTableOK
  <2>3. QED
    BY <1>3, <2>1, <2>2 DEF PollStep
<1>5. FewRows'
  BY <1>1, <1>3, <1>4, FewRowsOK DEF PollsInv
<1>6. SnapshotsOK'
  <2>1. 0 \in 0 .. Cap
    BY TrackersAssumption DEF TrackersAssumption
  <2>2. Stored(0, FALSE, 0)
    BY DEF PollWithoutQuota
  <2>3. QED
    BY <1>2, <1>3, <1>4, <1>5, <2>1, <2>2, StoredOK
<1>7. AlertsOK'
  BY <1>1, <1>3, SameLogOK
<1>8. QED
  BY <1>2, <1>5, <1>6, <1>7 DEF PollsInv

\* What a step on an unused model does to the table: the open cycle is closed or not.
LEMMA UnusedKeepsCycle ==
  ASSUME TrackerInv, NEW listed \in BOOLEAN, NEW othersUsed \in BOOLEAN,
         ModelUnused(listed, othersUsed)
  PROVE  KeepsCycle
<1> DEFINE closed == [rows[ActiveRow] EXCEPT !.end = now]
<1>1. rows' = IF othersUsed /\ OpenRows # {} THEN Written(closed) ELSE rows
  BY Zenon DEF ModelUnused
<1>2. CASE othersUsed /\ OpenRows # {}
  <2>1. /\ DOMAIN rows = 1 .. Len(rows) /\ ActiveRow = Len(rows) /\ ActiveRow \in OpenRows
        /\ ActiveRow \in DOMAIN rows /\ rows[ActiveRow] \in Row
    BY <1>2, LastIsActive DEF RowOK
  <2>2. closed.end = now /\ now # None
    BY <2>1 DEF Row, TrackerInv, QuotaOK, None
  <2> HIDE DEF closed
  <2>3. rows' = Written(closed)
    BY <1>1, <1>2
  <2>4. rows'[ActiveRow] = closed
    BY <2>1, <2>3 DEF Written
  <2>5. Closes
    BY <2>1, <2>2, <2>4 DEF Closes
  <2>6. QED
    BY <2>5 DEF KeepsCycle
<1>3. CASE ~(othersUsed /\ OpenRows # {})
  <2> HIDE DEF closed
  <2>1. rows' = rows
    BY <1>1, <1>3
  <2>2. QED
    BY <2>1 DEF KeepsCycle
<1>4. QED
  BY <1>2, <1>3

\* A poll without use of a model.
LEMMA PollWithoutUseOK ==
  ASSUME PollsInv, NEW listed \in BOOLEAN, NEW othersUsed \in BOOLEAN,
         PollWithoutUse(listed, othersUsed)
  PROVE  PollsInv'
<1>1. TrackerInv /\ AlertsOK /\ ModelUnused(listed, othersUsed)
  BY DEF PollWithoutUse, PollsInv
<1>2. TrackerInv' /\ CallOK(rows')
  BY <1>1, UnusedKeepsInv
<1>3. /\ ~polled /\ polled' = TRUE /\ kind' = kind /\ now' = now /\ kind = "minimax"
      /\ faults' = faults /\ restarts' = restarts
  BY <1>1 DEF ModelUnused
<1>4. PollStep
  <2>1. faults + restarts <= faults' + restarts'
    BY <1>1, <1>3 DEF TrackerInv, CountsOK
  <2>2. QED
    BY <1>2, <1>3, <2>1 DEF PollStep
<1>5. FewRows'
  BY <1>1, <1>3, <1>4, FewRowsOK DEF PollsInv
<1>6. SnapshotsOK'
  <2>1. 0 \in 0 .. Cap
    BY TrackersAssumption DEF TrackersAssumption
  <2>2. Stored(0, listed, 0)
    BY DEF PollWithoutUse
  <2>3. QED
    BY <1>2, <1>3, <1>4, <1>5, <2>1, <2>2, StoredOK
<1>7. LogStep
  BY <1>1, MissIs DEF PollWithoutUse
<1>8. KeepsCycle
  BY <1>1, UnusedKeepsCycle
<1>9. AlertsOK'
  BY <1>1, <1>2, <1>3, <1>7, <1>8, LogStepOK
<1>10. QED
  BY <1>2, <1>5, <1>6, <1>9 DEF PollsInv

\* The daemon starts again, perhaps after it was killed in a poll.
LEMMA RestartPollsOK ==
  ASSUME PollsInv, RestartPolls
  PROVE  PollsInv'
<1>1. TrackerInv /\ AlertsOK /\ RestartTracker
  BY DEF RestartPolls, PollsInv
<1>2. TrackerInv' /\ CallOK(rows') /\ (polled' = polled => rows' = rows)
  BY <1>1, RestartKeepsInv
<1>3. /\ kind' = kind /\ now' = now /\ faults' = faults /\ restarts' = restarts + 1
      /\ quota' = quota
      /\ \/ rows' = rows /\ polled' = polled
         \/ /\ ~polled /\ polled' = TRUE
            /\ rows' = rows \/ \E s \in Sample : \E i \in DOMAIN StoreCalls(s) : rows' = StoreCalls(s)[i]
  BY <1>1 DEF RestartTracker
<1>4. PollStep
  <2>1. faults + restarts <= faults' + restarts'
    BY <1>1, <1>3 DEF TrackerInv, CountsOK
  <2>2. CASE rows' = rows /\ polled' = polled
    <3>1. polled => polled'
      BY <2>2
    <3>2. QED
      BY <1>2, <1>3, <2>1, <2>2, <3>1 DEF PollStep
  <2>3. CASE ~polled /\ polled' = TRUE
    BY <1>2, <1>3, <2>1, <2>3 DEF PollStep
  <2>4. QED
    BY <1>3, <2>2, <2>3
<1>5. FewRows'
  BY <1>1, <1>2, <1>4, FewRowsOK DEF PollsInv, TrackerInv, CountsOK
<1>6. CASE polled' = polled
  <2>1. rows' = rows /\ snapshots' = snapshots /\ alerts' = alerts
    BY <1>2, <1>6 DEF RestartPolls
  <2>2. AlertsOK' /\ SnapshotsOK'
    BY <1>1, <1>2, <1>3, <1>4, <2>1, SameLogOK, SnapshotsStayOK
  <2>3. QED
    BY <1>2, <1>5, <2>2 DEF PollsInv
<1>7. CASE polled' # polled
  <2>1. ~polled /\ polled' = TRUE
    BY <1>3, <1>7
  <2>2. Stored(quota.used, TRUE, 0) /\ alerts' = [alerts EXCEPT !.missed = @ \/ Closes]
    BY <1>7 DEF RestartPolls
  <2>3. SnapshotsOK'
    <3>1. quota.used \in 0 .. Cap
      BY <1>1 DEF TrackerInv, QuotaOK, QuotaShape
    <3>2. faults' + restarts' > 0
      BY <1>1, <1>3 DEF TrackerInv, CountsOK
    <3>3. QED
      BY <1>2, <1>4, <1>5, <2>1, <2>2, <3>1, <3>2, StoredOK
  <2>4. LogStep
    BY <1>1, <2>2, MissIs
  <2>5. ~alerts.missed => KeepsCycle
    <3>1. CASE rows' = rows
      BY <3>1 DEF KeepsCycle
    <3>2. ASSUME NEW s \in Sample, NEW i \in DOMAIN StoreCalls(s), rows' = StoreCalls(s)[i]
          PROVE  ~alerts.missed => KeepsCycle
      <4>1. i \in 1 .. Len(StoreCalls(s))
        BY <1>1, StoreCallsOK
      <4>2. QED
        BY <1>1, <3>2, <4>1, CutShortOK
    <3>3. QED
      BY <1>3, <3>1, <3>2
  <2>6. AlertsOK'
    BY <1>1, <1>2, <1>3, <2>4, <2>5, LogStepOK
  <2>7. QED
    BY <1>2, <1>5, <2>3, <2>6 DEF PollsInv
<1>8. QED
  BY <1>6, <1>7

\* Old snapshots are deleted, which are the first ones.
LEMMA PruneLeavesLast ==
  ASSUME snapshots \in Seq(Snapshot), NEW enforced \in BOOLEAN, Prune(enforced)
  PROVE  \E n \in 0 .. Len(snapshots) : snapshots' = SubSeq(snapshots, n + 1, Len(snapshots))
<1> DEFINE S == {i \in DOMAIN snapshots : Old(snapshots[i])}
           n == Cardinality(S)
<1>1. Len(snapshots) \in Nat /\ DOMAIN snapshots = 1 .. Len(snapshots)
  OBVIOUS
<1>2. IsFiniteSet(1 .. Len(snapshots)) /\ Cardinality(1 .. Len(snapshots)) = Len(snapshots)
  <2>1. 1 \in Int /\ Len(snapshots) \in Int
    BY <1>1
  <2>2. /\ IsFiniteSet(1 .. Len(snapshots))
        /\ Cardinality(1 .. Len(snapshots))
             = IF 1 > Len(snapshots) THEN 0 ELSE Len(snapshots) - 1 + 1
    BY <2>1, FS_Interval
  <2>3. QED
    BY <1>1, <2>2
<1>3. S \subseteq 1 .. Len(snapshots)
  BY <1>1
<1>4. IsFiniteSet(S) /\ n <= Len(snapshots)
  BY <1>2, <1>3, FS_Subset
<1>5. n \in 0 .. Len(snapshots)
  BY <1>1, <1>4, FS_CardinalityType
<1>6. CASE snapshots' = SubSeq(snapshots, n + 1, Len(snapshots))
  BY <1>5, <1>6
<1>7. CASE snapshots' = snapshots
  <2>1. 0 \in 0 .. Len(snapshots) /\ snapshots = SubSeq(snapshots, 0 + 1, Len(snapshots))
    BY <1>1
  <2>2. QED
    BY <1>7, <2>1
<1>8. QED
  BY <1>6, <1>7 DEF Prune, AfterPrune

\* The last snapshots of good ones.
LEMMA PruneOK ==
  ASSUME PollsInv, NEW enforced \in BOOLEAN, Prune(enforced)
  PROVE  PollsInv'
<1>1. /\ kind' = kind /\ rows' = rows /\ memory' = memory /\ quota' = quota /\ now' = now
      /\ polled' = polled /\ faults' = faults /\ restarts' = restarts /\ alerts' = alerts
  BY DEF Prune
<1>2. TrackerInv'
  <2>1. /\ TableOK(rows') /\ memory' \in MemoryShape /\ polled' \in BOOLEAN /\ faults' \in Nat
        /\ restarts' \in Nat /\ faults' + restarts' <= MaxFaults
    BY <1>1 DEF PollsInv, TrackerInv, CountsOK
  <2>2. QED
    BY <1>1, <2>1, PollKeepsInv DEF PollsInv
<1>3. FewRows' /\ AlertsOK'
  BY <1>1, SameLogOK DEF PollsInv, FewRows
<1>4. PICK n \in 0 .. Len(snapshots) : snapshots' = SubSeq(snapshots, n + 1, Len(snapshots))
  BY PruneLeavesLast DEF PollsInv, SnapshotsOK
<1>5. snapshots \in Seq(Snapshot) /\ Len(snapshots) \in Nat
  BY DEF PollsInv, SnapshotsOK
<1>6. /\ snapshots' \in Seq(Snapshot) /\ Len(snapshots') = Len(snapshots) - n
      /\ \A i \in 1 .. Len(snapshots) - n : snapshots'[i] = snapshots[n + i]
  BY <1>4, <1>5
<1>7. \A i \in 1 .. Len(snapshots') : SnapshotOK(snapshots'[i])
  <2>1. SUFFICES ASSUME NEW i \in 1 .. Len(snapshots') PROVE SnapshotOK(snapshots'[i])
    OBVIOUS
  <2>2. snapshots'[i] = snapshots[n + i] /\ n + i \in 1 .. Len(snapshots)
    BY <1>5, <1>6
  <2>3. QED
    BY <2>2 DEF PollsInv, SnapshotsOK
<1>8. SnapshotsOK'
  <2>1. \A i \in 1 .. Len(snapshots') : \A x \in {snapshots'[i]} : SnapshotOK(x)'
    BY <1>1, <1>7 DEF SnapshotOK
  <2>2. QED
    BY <1>6, <2>1 DEF SnapshotsOK
<1>9. QED
  BY <1>2, <1>3, <1>8 DEF PollsInv

\* Time passes.
LEMMA PollsTickOK ==
  ASSUME PollsInv, PollsTick
  PROVE  PollsInv'
<1>1. TrackerInv /\ Tick
  BY DEF PollsInv, PollsTick
<1>2. TrackerInv'
  BY <1>1, TickKeepsInv
<1>3. /\ kind' = kind /\ rows' = rows /\ now' = now + 1 /\ polled' = FALSE
      /\ faults' = faults /\ restarts' = restarts /\ snapshots' = snapshots /\ alerts' = alerts
      /\ now \in Nat /\ Len(rows) \in Nat
  BY <1>1, LastIsActive DEF PollsTick, Tick, TrackerInv, QuotaOK
<1>4. FewRows'
  BY <1>3 DEF PollsInv, FewRows
<1>5. AlertsOK'
  BY <1>3, SameLogOK DEF PollsInv
<1>6. \A i \in 1 .. Len(snapshots) : \A x \in {snapshots[i]} : SnapshotOK(x)'
  <2>1. SUFFICES ASSUME NEW i \in 1 .. Len(snapshots), NEW x, x = snapshots[i] PROVE SnapshotOK(x)'
    OBVIOUS
  <2>2. SnapshotOK(x)
    BY <2>1 DEF PollsInv, SnapshotsOK
  <2>3. x.time \in Nat
    BY <2>2 DEF SnapshotOK, Snapshot
  <2>4. x.time < now' /\ x.time <= now'
    BY <1>3, <2>2, <2>3 DEF SnapshotOK
  <2>5. QED
    BY <1>3, <2>2, <2>4 DEF SnapshotOK
<1>7. SnapshotsOK'
  BY <1>3, <1>6 DEF PollsInv, SnapshotsOK
<1>8. QED
  BY <1>2, <1>4, <1>5, <1>7 DEF PollsInv

\* Every step of the polls keeps the invariant.
LEMMA PollsStepOK ==
  ASSUME PollsInv, [PollsNext]_PollVars
  PROVE  PollsInv'
<1>1. CASE PollsTick
  BY <1>1, PollsTickOK
<1>2. CASE UNCHANGED PollVars
  <2>1. /\ kind' = kind /\ rows' = rows /\ memory' = memory /\ quota' = quota /\ now' = now
        /\ polled' = polled /\ faults' = faults /\ restarts' = restarts
        /\ snapshots' = snapshots /\ alerts' = alerts
    BY <1>2 DEF PollVars
  <2>2. TrackerInv'
    <3>1. /\ TableOK(rows') /\ memory' \in MemoryShape /\ polled' \in BOOLEAN /\ faults' \in Nat
          /\ restarts' \in Nat /\ faults' + restarts' <= MaxFaults
      BY <2>1 DEF PollsInv, TrackerInv, CountsOK
    <3>2. QED
      BY <2>1, <3>1, PollKeepsInv DEF PollsInv
  <2>3. FewRows' /\ AlertsOK'
    BY <2>1, SameLogOK DEF PollsInv, FewRows
  <2>4. SnapshotsOK'
    <3>1. \A i \in 1 .. Len(snapshots) : \A x \in {snapshots[i]} : SnapshotOK(x)'
      BY <2>1 DEF SnapshotOK, PollsInv, SnapshotsOK
    <3>2. QED
      BY <2>1, <3>1 DEF PollsInv, SnapshotsOK
  <2>5. QED
    BY <2>2, <2>3, <2>4 DEF PollsInv
<1>3. CASE PollsHorizon
  BY <1>2, <1>3 DEF PollsHorizon, Horizon, TrackerVars, PollVars
<1>4. ASSUME NEW s \in Sample, NEW complete \in BOOLEAN, PollStores(s, complete)
      PROVE  PollsInv'
  BY <1>4, PollStoresOK
<1>5. CASE PollEnds
  BY <1>5, PollEndsOK
<1>6. ASSUME NEW s \in Sample, PollGoesOn(s)
      PROVE  PollsInv'
  BY <1>6, PollGoesOnOK
<1>7. ASSUME NEW s \in Sample, PollTrackerFails(s)
      PROVE  PollsInv'
  BY <1>7, PollTrackerFailsOK
<1>8. CASE PollWithoutQuota
  BY <1>8, PollWithoutQuotaOK
<1>9. ASSUME NEW listed \in BOOLEAN, NEW othersUsed \in BOOLEAN, PollWithoutUse(listed, othersUsed)
      PROVE  PollsInv'
  BY <1>9, PollWithoutUseOK
<1>10. CASE RestartPolls
  BY <1>10, RestartPollsOK
<1>11. ASSUME NEW enforced \in BOOLEAN, Prune(enforced)
       PROVE  PollsInv'
  BY <1>11, PruneOK
<1>12. QED
  BY <1>1, <1>2, <1>3, <1>4, <1>5, <1>6, <1>7, <1>8, <1>9, <1>10, <1>11 DEF PollsNext

\* An installation without snapshots.
LEMMA PollsInitOK ==
  ASSUME PollsInit
  PROVE  PollsInv
<1>1. TrackerInv
  BY TrackerInitOK DEF PollsInit
<1>2. /\ rows = <<>> /\ snapshots = <<>> /\ now = 1
      /\ alerts = [logged |-> FALSE, sent |-> 0, missed |-> FALSE]
  BY DEF PollsInit, TrackerInit
<1>3. FewRows
  BY <1>2 DEF FewRows
<1>4. AlertsOK
  <2>1. alerts \in Alerts
    BY <1>2, TrackersAssumption DEF Alerts, TrackersAssumption
  <2>2. QED
    BY <1>2, <2>1 DEF AlertsOK, AlertIsOfThisCycle
<1>5. SnapshotsOK
  BY <1>2 DEF SnapshotsOK
<1>6. QED
  BY <1>1, <1>3, <1>4, <1>5 DEF PollsInv

\* What is shown with a cycle was counted for it.
LEMMA InvShowsItsCycle ==
  ASSUME PollsInv
  PROVE  OverviewShowsItsCycle
<1>1. SUFFICES ASSUME Overviews[kind].crossQuotas = "peak",
                      NEW i \in DOMAIN rows, NEW s \in CrossQuotas(i)
               PROVE  Counted(s, i)
  BY DEF OverviewShowsItsCycle
<1>2. s \in SnapshotsWithin(i)
  BY <1>1 DEF CrossQuotas, Peaks
<1>3. /\ DOMAIN rows = 1 .. Len(rows) /\ Len(rows) \in Nat /\ TableOK(rows)
  BY LastIsActive DEF PollsInv, TrackerInv
<1>4. /\ s \in 1 .. Len(snapshots) /\ SnapshotOK(snapshots[s]) /\ snapshots[s].has
      /\ rows[i].start <= snapshots[s].time
      /\ rows[i].end # None => snapshots[s].time < rows[i].end
  BY <1>2 DEF SnapshotsWithin, PollsInv, SnapshotsOK
<1> DEFINE j == snapshots[s].row
<1>5. CASE j = 0
  <2>1. kind # "minimax"
    BY <1>1 DEF Overviews, Overview, MiniMaxOverview, AllKinds
  <2>2. QED
    BY <1>4, <1>5, <2>1 DEF Counted, SnapshotOK
<1>6. /\ i \in 1 .. Len(rows) /\ j \in 0 .. Len(rows) /\ rows[i] \in Row
      /\ snapshots[s].time \in Nat
      /\ j # 0 => /\ rows[j].start <= snapshots[s].time
                  /\ \A k \in 1 .. Len(rows) : j < k => snapshots[s].time < rows[k].start
  BY <1>1, <1>3, <1>4 DEF SnapshotOK, TableOK, RowOK, Snapshot
<1>7. CASE j # 0 /\ j < i
  <2>1. rows[i].start \in Nat
    BY <1>6 DEF Row
  <2> HIDE DEF j
  <2>2. QED
    BY <1>4, <1>6, <1>7, <2>1
<1>8. CASE j # 0 /\ i < j
  <2>1. rows[i].end # None /\ rows[i].end <= rows[j].start /\ rows[j] \in Row
    BY <1>3, <1>6, <1>8 DEF TableOK, RowOK
  <2> HIDE DEF j
  <2>2. rows[i].end \in Nat /\ rows[j].start \in Nat
    <3>1. rows[i].end \in Nat
      BY <1>6 DEF Row
    <3>2. rows[j].start \in Nat
      BY <2>1 DEF Row
    <3>3. QED
      BY <3>1, <3>2
  <2>3. QED
    BY <1>4, <1>6, <1>8, <2>1, <2>2
<1>9. CASE j = i
  BY <1>9 DEF Counted
<1>10. QED
  BY <1>5, <1>6, <1>7, <1>8, <1>9

-----------------------------------------------------------------------------
(* The current value *)

\* The snapshots are in the order of their times.
InOrder ==
    \A n, m \in 1 .. Len(snapshots) : n < m => snapshots[n].time <= snapshots[m].time

\* No later snapshot has the quota.
NewestWith(n) ==
    snapshots[n].has /\ \A m \in 1 .. Len(snapshots) : n < m => ~snapshots[m].has

\* As long as no poll failed, the newest sample was counted for the last cycle, which
\* is open; that of a model of MiniMax that is not in use may be closed.
CurrentOK ==
    /\ kind # "minimax" => rows = <<>> \/ OpenRows # {}
    /\ \A n \in 1 .. Len(snapshots) :
          NewestWith(n) /\ snapshots[n].row # 0 => snapshots[n].row = Len(rows)
    /\ LET n == Len(snapshots) IN
       n # 0 /\ snapshots[n].has /\ snapshots[n].row # 0 => OpenRows # {}

\* With what is said of the current value.
ReportsInv == PollsInv /\ InOrder /\ (faults + restarts = 0 => CurrentOK)

\* One more snapshot is no older than the ones before.
LEMMA StoredInOrder ==
  ASSUME PollsInv, InOrder, NEW used, NEW has, NEW row, Stored(used, has, row)
  PROVE  /\ InOrder'
         /\ Len(snapshots') = Len(snapshots) + 1 /\ Len(snapshots) \in Nat
         /\ \A n \in 1 .. Len(snapshots) : snapshots'[n] = snapshots[n]
         /\ snapshots'[Len(snapshots')].has = has /\ snapshots'[Len(snapshots')].row = row
<1> DEFINE new == [time |-> now, used |-> used, has |-> has, row |-> row]
<1>1. snapshots \in Seq(Snapshot) /\ \A n \in 1 .. Len(snapshots) : snapshots[n].time <= now
  BY DEF PollsInv, SnapshotsOK, SnapshotOK
<1>2. snapshots' = Append(snapshots, new)
  BY DEF Stored
<1>3. new.time = now /\ new.has = has /\ new.row = row
  OBVIOUS
<1> HIDE DEF new
<1>4. /\ Len(snapshots') = Len(snapshots) + 1 /\ Len(snapshots) \in Nat
      /\ \A n \in 1 .. Len(snapshots) : snapshots'[n] = snapshots[n]
      /\ snapshots'[Len(snapshots) + 1] = new
  BY <1>1, <1>2
<1>5. ASSUME NEW n \in 1 .. Len(snapshots'), NEW m \in 1 .. Len(snapshots'), n < m
      PROVE  snapshots'[n].time <= snapshots'[m].time
  <2>1. n \in 1 .. Len(snapshots) /\ snapshots'[n] = snapshots[n]
    BY <1>4, <1>5
  <2>2. CASE m = Len(snapshots) + 1
    BY <1>1, <1>3, <1>4, <2>1, <2>2
  <2>3. CASE m # Len(snapshots) + 1
    <3>1. m \in 1 .. Len(snapshots) /\ snapshots'[m] = snapshots[m]
      BY <1>4, <2>3
    <3>2. QED
      BY <1>5, <2>1, <3>1 DEF InOrder
  <2>4. QED
    BY <2>2, <2>3
<1>6. QED
  BY <1>3, <1>4, <1>5 DEF InOrder

\* A poll that is processed makes the newest sample one of the last cycle.
LEMMA StoresCurrent ==
  ASSUME PollsInv, InOrder, NEW s \in Sample, NEW complete \in BOOLEAN, PollStores(s, complete),
         PollsInv'
  PROVE  InOrder' /\ CurrentOK'
<1>1. TrackerInv /\ Processed(s, complete) /\ Process(s, complete)
  BY DEF PollStores, Process, PollsInv
<1>2. faults' \in {faults, faults + 1} /\ faults' + restarts <= MaxFaults
  BY <1>1, TrackersAssumption DEF Process, TrackerInv, CountsOK, TrackersAssumption
<1>3. EndsOpen(rows') /\ TrackerInv'
  BY <1>1, <1>2, ProcessedKeepsInv DEF PollsInv
<1>4. OpenRows' # {}
  BY <1>3, EndsOpenNext
<1>5. /\ InOrder' /\ Len(snapshots') = Len(snapshots) + 1 /\ Len(snapshots) \in Nat
      /\ snapshots'[Len(snapshots')].has = TRUE
      /\ snapshots'[Len(snapshots')].row = Len(rows')
  BY StoredInOrder DEF PollStores
<1>6. ASSUME NEW n \in 1 .. Len(snapshots'), NewestWith(n)'
      PROVE  snapshots'[n].row = Len(rows')
  <2>1. Len(snapshots') \in 1 .. Len(snapshots') /\ ~(n < Len(snapshots'))
    BY <1>5, <1>6 DEF NewestWith
  <2>2. n = Len(snapshots')
    BY <1>5, <2>1
  <2>3. QED
    BY <1>5, <2>2
<1>7. QED
  BY <1>4, <1>5, <1>6 DEF CurrentOK

\* A snapshot without the quota, or that names no cycle, leaves the newest sample.
LEMMA StoresNoCurrent ==
  ASSUME PollsInv, InOrder, NEW used, NEW has \in BOOLEAN, Stored(used, has, 0), CurrentOK,
         Len(rows') = Len(rows), UNCHANGED kind,
         kind # "minimax" => rows' = rows /\ has = FALSE
  PROVE  InOrder' /\ CurrentOK'
<1>1. /\ InOrder' /\ Len(snapshots') = Len(snapshots) + 1 /\ Len(snapshots) \in Nat
      /\ \A n \in 1 .. Len(snapshots) : snapshots'[n] = snapshots[n]
      /\ snapshots'[Len(snapshots')].row = 0
  BY StoredInOrder
<1>2. ASSUME NEW n \in 1 .. Len(snapshots'), NewestWith(n)', snapshots'[n].row # 0
      PROVE  snapshots'[n].row = Len(rows')
  <2>1. n \in 1 .. Len(snapshots) /\ snapshots'[n] = snapshots[n]
    BY <1>1, <1>2
  <2>2. NewestWith(n)
    BY <1>1, <1>2, <2>1 DEF NewestWith
  <2>3. QED
    BY <1>2, <2>1, <2>2 DEF CurrentOK
<1>3. kind' # "minimax" => rows' = <<>> \/ OpenRows' # {}
  BY DEF CurrentOK, OpenRows
<1>4. QED
  BY <1>1, <1>2, <1>3 DEF CurrentOK

\* To delete old snapshots changes neither the order nor the newest one.
LEMMA PruneKeepsCurrent ==
  ASSUME PollsInv, InOrder, NEW enforced \in BOOLEAN, Prune(enforced)
  PROVE  InOrder' /\ (CurrentOK => CurrentOK')
<1>1. PICK k \in 0 .. Len(snapshots) : snapshots' = SubSeq(snapshots, k + 1, Len(snapshots))
  BY PruneLeavesLast DEF PollsInv, SnapshotsOK
<1>2. snapshots \in Seq(Snapshot) /\ Len(snapshots) \in Nat
  BY DEF PollsInv, SnapshotsOK
<1>3. /\ Len(snapshots') = Len(snapshots) - k
      /\ \A i \in 1 .. Len(snapshots) - k : snapshots'[i] = snapshots[k + i]
  BY <1>1, <1>2
<1>4. rows' = rows /\ kind' = kind
  BY DEF Prune
<1>5. \A i \in 1 .. Len(snapshots') : k + i \in 1 .. Len(snapshots) /\ snapshots'[i] = snapshots[k + i]
  BY <1>2, <1>3
<1>6. InOrder'
  <2>1. SUFFICES ASSUME NEW n \in 1 .. Len(snapshots'), NEW m \in 1 .. Len(snapshots'), n < m
                 PROVE  snapshots'[n].time <= snapshots'[m].time
    BY DEF InOrder
  <2>2. k + n < k + m
    BY <2>1
  <2>3. QED
    BY <1>5, <2>2 DEF InOrder
<1>7. ASSUME CurrentOK
      PROVE  CurrentOK'
  <2>1. ASSUME NEW n \in 1 .. Len(snapshots'), NewestWith(n)'
        PROVE  NewestWith(k + n)
    <3>1. ASSUME NEW m \in 1 .. Len(snapshots), k + n < m
          PROVE  ~snapshots[m].has
      <4>1. m - k \in 1 .. Len(snapshots') /\ n < m - k /\ k + (m - k) = m
        BY <1>2, <1>3, <3>1
      <4>2. ~snapshots'[m - k].has
        BY <2>1, <4>1 DEF NewestWith
      <4>3. QED
        BY <1>5, <4>1, <4>2
    <3>2. QED
      BY <1>5, <2>1, <3>1 DEF NewestWith
  <2>2. \A n \in 1 .. Len(snapshots') :
           NewestWith(n)' /\ snapshots'[n].row # 0 => snapshots'[n].row = Len(rows)
    BY <1>5, <1>7, <2>1 DEF CurrentOK
  <2>3. Len(snapshots') # 0 => snapshots'[Len(snapshots')] = snapshots[Len(snapshots)]
    <3>1. Len(snapshots') # 0 => Len(snapshots') \in 1 .. Len(snapshots')
      BY <1>2, <1>3
    <3>2. k + Len(snapshots') = Len(snapshots)
      BY <1>2, <1>3
    <3>3. QED
      BY <1>5, <3>1, <3>2
  <2>4. Len(snapshots') # 0 => Len(snapshots) # 0
    BY <1>2, <1>3
  <2>5. OpenRows' = OpenRows
    BY <1>4 DEF OpenRows
  <2>6. QED
    BY <1>4, <1>7, <2>2, <2>3, <2>4, <2>5 DEF CurrentOK
<1>8. QED
  BY <1>6, <1>7

\* Where nothing changes but the time, or the counters, the newest sample stays.
LEMMA SameCurrent ==
  ASSUME InOrder, rows' = rows, snapshots' = snapshots, UNCHANGED kind
  PROVE  InOrder' /\ (CurrentOK => CurrentOK')
<1>1. InOrder'
  BY DEF InOrder
<1>2. OpenRows' = OpenRows /\ \A n \in 1 .. Len(snapshots) : NewestWith(n)' <=> NewestWith(n)
  BY DEF OpenRows, NewestWith
<1>3. CurrentOK => CurrentOK'
  BY <1>2 DEF CurrentOK
<1>4. QED
  BY <1>1, <1>3

\* Where one counter rises the sum is not zero.
LEMMA OneMore ==
  ASSUME NEW a \in Nat, NEW b \in Nat
  PROVE  (a + 1) + b # 0 /\ a + (b + 1) # 0
OBVIOUS

\* A poll that fails leaves the snapshots in order.
LEMMA KeepsOrder ==
  ASSUME PollsInv, InOrder,
         \/ snapshots' = snapshots
         \/ \E used \in 0 .. Cap, has \in BOOLEAN, row \in Nat : Stored(used, has, row)
  PROVE  InOrder'
<1>1. CASE snapshots' = snapshots
  BY <1>1 DEF InOrder
<1>2. ASSUME NEW used \in 0 .. Cap, NEW has \in BOOLEAN, NEW row \in Nat, Stored(used, has, row)
      PROVE  InOrder'
  BY <1>2, StoredInOrder
<1>3. QED
  BY <1>1, <1>2

\* Every step of the polls keeps the order, and the newest sample as long as none fails.
LEMMA ReportsStepOK ==
  ASSUME ReportsInv, [PollsNext]_PollVars
  PROVE  ReportsInv'
<1>1. PollsInv' /\ PollsInv /\ InOrder /\ (faults + restarts = 0 => CurrentOK)
  BY PollsStepOK DEF ReportsInv
<1>2. /\ faults \in Nat /\ restarts \in Nat /\ TrackerInv
      /\ faults' \in Nat /\ restarts' \in Nat
  BY <1>1 DEF PollsInv, TrackerInv, CountsOK
<1>3. SUFFICES InOrder' /\ (faults' + restarts' = 0 => CurrentOK')
  BY <1>1 DEF ReportsInv
<1>4. CASE PollsTick
  BY <1>1, <1>4, SameCurrent DEF PollsTick, Tick
<1>5. CASE UNCHANGED PollVars
  BY <1>1, <1>5, SameCurrent DEF PollVars
<1>6. CASE PollsHorizon
  BY <1>5, <1>6 DEF PollsHorizon, Horizon, TrackerVars, PollVars
<1>7. ASSUME NEW s \in Sample, NEW complete \in BOOLEAN, PollStores(s, complete)
      PROVE  InOrder' /\ CurrentOK'
  BY <1>1, <1>7, StoresCurrent
<1>8. CASE PollEnds
  BY <1>1, <1>2, <1>8, SameCurrent DEF PollEnds
<1>9. ASSUME NEW s \in Sample, PollGoesOn(s)
      PROVE  InOrder' /\ faults' + restarts' # 0
  <2>1. snapshots' = snapshots /\ faults' = faults + 1 /\ restarts' = restarts
    BY <1>9 DEF PollGoesOn, Processed
  <2>2. InOrder'
    BY <1>1, <2>1, KeepsOrder
  <2>3. QED
    BY <1>2, <2>1, <2>2, OneMore
<1>10. ASSUME NEW s \in Sample, PollTrackerFails(s)
       PROVE  InOrder' /\ faults' + restarts' # 0
  <2>1. faults' = faults + 1 /\ Stored(s.used, TRUE, 0)
    BY <1>10 DEF PollTrackerFails, ProcessFails
  <2>2. s.used \in 0 .. Cap
    BY <1>2, SampleIsCurrent
  <2>3. InOrder'
    BY <1>1, <2>1, <2>2, KeepsOrder
  <2>4. restarts' = restarts
    BY <1>10 DEF PollTrackerFails, ProcessFails
  <2>5. QED
    BY <1>2, <2>1, <2>3, <2>4, OneMore
<1>11. CASE PollWithoutQuota
  <2>1. /\ Stored(0, FALSE, 0) /\ rows' = rows /\ kind' = kind
        /\ faults' = faults /\ restarts' = restarts
    BY <1>11 DEF PollWithoutQuota, Absent
  <2>2. InOrder'
    BY <1>1, <2>1, StoredInOrder
  <2>3. CurrentOK => CurrentOK'
    BY <1>1, <2>1, StoresNoCurrent
  <2>4. QED
    BY <1>1, <2>1, <2>2, <2>3
<1>12. ASSUME NEW listed \in BOOLEAN, NEW othersUsed \in BOOLEAN, PollWithoutUse(listed, othersUsed)
       PROVE  InOrder' /\ (faults' + restarts' = 0 => CurrentOK')
  <2>1. Stored(0, listed, 0) /\ ModelUnused(listed, othersUsed)
    BY <1>12 DEF PollWithoutUse
  <2>2. kind = "minimax" /\ kind' = kind /\ faults' = faults /\ restarts' = restarts
    BY <2>1 DEF ModelUnused
  <2>3. Len(rows') = Len(rows)
    BY <1>2, <2>1, UnusedKeepsInv
  <2>4. InOrder'
    BY <1>1, <2>1, StoredInOrder
  <2>5. CurrentOK => CurrentOK'
    BY <1>1, <2>1, <2>2, <2>3, StoresNoCurrent
  <2>6. QED
    BY <1>1, <2>2, <2>4, <2>5
<1>13. CASE RestartPolls
  <2>1. restarts' = restarts + 1 /\ faults' = faults
    BY <1>13 DEF RestartPolls, RestartTracker
  <2>2. \/ snapshots' = snapshots
        \/ Stored(quota.used, TRUE, 0)
    BY <1>13 DEF RestartPolls
  <2>3. quota.used \in 0 .. Cap
    BY <1>2 DEF TrackerInv, QuotaOK, QuotaShape
  <2>4. InOrder'
    <3>1. CASE snapshots' = snapshots
      BY <1>1, <3>1, KeepsOrder
    <3>2. CASE Stored(quota.used, TRUE, 0)
      BY <1>1, <3>2, StoredInOrder
    <3>3. QED
      BY <2>2, <3>1, <3>2
  <2>5. faults' + restarts' # 0
    BY <1>2, <2>1, OneMore
  <2>6. QED
    BY <2>4, <2>5
<1>14. ASSUME NEW enforced \in BOOLEAN, Prune(enforced)
       PROVE  InOrder' /\ (faults' + restarts' = 0 => CurrentOK')
  <2>1. faults' = faults /\ restarts' = restarts
    BY <1>14 DEF Prune
  <2>2. InOrder' /\ (CurrentOK => CurrentOK')
    BY <1>1, <1>14, PruneKeepsCurrent
  <2>3. QED
    BY <1>1, <2>1, <2>2
<1>15. QED
  BY <1>4, <1>5, <1>6, <1>7, <1>8, <1>9, <1>10, <1>11, <1>12, <1>13, <1>14 DEF PollsNext

\* The value shown as current is of the active cycle.
LEMMA InvShowsCurrent ==
  ASSUME ReportsInv
  PROVE  CurrentIsOfActiveCycle
<1>1. SUFFICES ASSUME NEW s \in Current, snapshots[s].row # 0, faults + restarts = 0
               PROVE  /\ snapshots[s].row = Len(rows)
                      /\ OpenRows # {} /\ ActiveRow = Len(rows)
  BY DEF CurrentIsOfActiveCycle
<1>2. TrackerInv /\ InOrder /\ CurrentOK /\ snapshots \in Seq(Snapshot)
  BY <1>1 DEF ReportsInv, PollsInv, SnapshotsOK
<1>3. kind \in AllKinds /\ now \in Nat /\ Len(snapshots) \in Nat /\ DOMAIN snapshots = 1 .. Len(snapshots)
  BY <1>2 DEF TrackerInv, CountsOK, QuotaOK
<1> DEFINE looked == CASE Currents[kind] = "latest"       -> Latest
                       [] Currents[kind] = "of the last"  ->
                             {n \in DOMAIN snapshots : n >= Len(snapshots) - ChartPoints}
                       [] Currents[kind] = "of the range" ->
                             {n \in DOMAIN snapshots : now - RangeBack <= snapshots[n].time}
<1>4. s \in looked /\ snapshots[s].has /\ \A t \in looked : snapshots[t].has => t <= s
  BY DEF Current, NewestOf
<1>5. /\ Currents[kind] \in {"latest", "of the last", "of the range"}
      /\ kind = "minimax" => Currents[kind] = "latest"
  BY <1>3 DEF AllKinds, Currents, SyntheticCurrent, AnthropicCurrent, CopilotCurrent, ZaiCurrent,
     AntigravityCurrent, GeminiCurrent, CodexCurrent, ArkCurrent, OpenCodeCurrent, CursorCurrent,
     GrokCurrent, KimiCurrent, MiniMaxCurrent, OpenRouterCurrent, MoonshotCurrent, DeepSeekCurrent
<1>6. /\ s \in 1 .. Len(snapshots)
      /\ \A m \in 1 .. Len(snapshots) : s < m => m \in looked
      /\ Currents[kind] = "latest" => s = Len(snapshots)
  <2>1. CASE Currents[kind] = "latest"
    <3>1. looked = Latest
      BY <2>1
    <3> HIDE DEF looked
    <3>2. snapshots # <<>> /\ s = Len(snapshots)
      BY <1>4, <3>1 DEF Latest
    <3>3. QED
      BY <1>2, <1>3, <3>2
  <2>2. CASE Currents[kind] = "of the last"
    <3>1. looked = {n \in DOMAIN snapshots : n >= Len(snapshots) - ChartPoints}
      BY <2>2
    <3> HIDE DEF looked
    <3>2. ChartPoints \in Nat
      BY ReportsAssumption DEF ReportsAssumption
    <3>3. s \in 1 .. Len(snapshots) /\ s >= Len(snapshots) - ChartPoints
      BY <1>3, <1>4, <3>1
    <3>4. ASSUME NEW m \in 1 .. Len(snapshots), s < m
          PROVE  m >= Len(snapshots) - ChartPoints
      BY <1>3, <3>2, <3>3, <3>4
    <3>5. QED
      BY <1>3, <2>2, <3>1, <3>3, <3>4
  <2>3. CASE Currents[kind] = "of the range"
    <3>1. looked = {n \in DOMAIN snapshots : now - RangeBack <= snapshots[n].time}
      BY <2>3
    <3> HIDE DEF looked
    <3>2. RangeBack \in Nat
      BY ReportsAssumption DEF ReportsAssumption
    <3>3. \A n \in 1 .. Len(snapshots) : snapshots[n].time \in Nat
      BY DEF ReportsInv, PollsInv, SnapshotsOK, SnapshotOK, Snapshot
    <3>4. \A m \in 1 .. Len(snapshots) : s \in 1 .. Len(snapshots) /\ s < m =>
             snapshots[s].time <= snapshots[m].time
      BY <1>2 DEF InOrder
    <3>5. s \in 1 .. Len(snapshots) /\ now - RangeBack <= snapshots[s].time
      BY <1>3, <1>4, <3>1
    <3>6. ASSUME NEW m \in 1 .. Len(snapshots), s < m
          PROVE  now - RangeBack <= snapshots[m].time
      BY <1>3, <3>2, <3>3, <3>4, <3>5, <3>6
    <3>7. QED
      BY <1>3, <2>3, <3>1, <3>5, <3>6
  <2>4. QED
    BY <1>5, <2>1, <2>2, <2>3
<1> HIDE DEF looked
<1>7. Len(snapshots) \in Nat /\ s \in 1 .. Len(snapshots)
  BY <1>3, <1>6, Zenon
<1>8. NewestWith(s)
  <2>1. ASSUME NEW m \in 1 .. Len(snapshots), s < m
        PROVE  ~snapshots[m].has
    <3>1. m \in looked
      BY <1>6, <2>1
    <3>2. s \in Nat /\ m \in Nat
      BY <1>7
    <3>3. ~(m <= s)
      BY <2>1, <3>2
    <3>4. QED
      BY <1>4, <3>1, <3>3
  <2>2. QED
    BY <1>4, <2>1 DEF NewestWith
<1>9. snapshots[s].row = Len(rows)
  BY <1>1, <1>2, <1>6, <1>8 DEF CurrentOK
<1>10. OpenRows # {}
  <2>1. CASE kind = "minimax"
    <3>1. s = Len(snapshots)
      BY <1>5, <1>6, <2>1
    <3>2. Len(snapshots) # 0
      BY <1>7
    <3>3. QED
      BY <1>1, <1>2, <1>4, <3>1, <3>2 DEF CurrentOK
  <2>2. CASE kind # "minimax"
    <3>1. rows # <<>>
      BY <1>1, <1>9
    <3>2. QED
      BY <1>2, <2>2, <3>1 DEF CurrentOK
  <2>3. QED
    BY <2>1, <2>2
<1>11. QED
  BY <1>2, <1>9, <1>10, LastIsActive

-----------------------------------------------------------------------------
(* The entries at some places of a sequence *)

\* f has, for each n up to a bound, the entries among the first n.
Keeps(f, seq, places, bound) ==
    f = [n \in 0 .. bound |->
            IF n = 0 THEN <<>>
            ELSE IF n \in places THEN Append(f[n - 1], seq[n]) ELSE f[n - 1]]

\* The entries of kept are those at the places that g names, one after the other, which are
\* the chosen ones among the first n.
Named(g, kept, seq, places, n) ==
    /\ g \in [1 .. Len(kept) -> 1 .. n]
    /\ \A m \in 1 .. Len(kept) : g[m] \in places /\ kept[m] = seq[g[m]]
    /\ \A m, k \in 1 .. Len(kept) : m < k => g[m] < g[k]
    /\ \A i \in 1 .. n : i \in places => \E m \in 1 .. Len(kept) : g[m] = i

\* There is such a function.
LEMMA KeepsExists ==
  ASSUME NEW S, NEW seq \in Seq(S), NEW places
  PROVE  \A n \in 0 .. Len(seq) : \E f : Keeps(f, seq, places, n)
<1> DEFINE Good(n) == \E f : Keeps(f, seq, places, n)
           bad == {n \in 0 .. Len(seq) : ~Good(n)}
<1>1. SUFFICES ASSUME bad # {} PROVE FALSE
  OBVIOUS
<1>2. bad \in SUBSET Nat
  OBVIOUS
<1> HIDE DEF Good
<1>3. PICK n \in bad : \A m \in bad : n <= m
  <2> HIDE DEF bad
  <2>1. QED
    BY <1>1, <1>2, LowestRow
<1>4. CASE n = 0
  <2> DEFINE f == [i \in 0 .. 0 |-> <<>>]
  <2>1. Keeps(f, seq, places, 0)
    BY DEF Keeps
  <2> HIDE DEF f
  <2>2. QED
    BY <1>4, <2>1 DEF Good
<1>5. CASE n # 0
  <2>1. n \in 1 .. Len(seq) /\ n - 1 \in 0 .. Len(seq)
    BY <1>5
  <2>2. Good(n - 1)
    BY <1>3, <2>1
  <2>3. PICK g : Keeps(g, seq, places, n - 1)
    BY <2>2 DEF Good
  <2> DEFINE last == IF n \in places THEN Append(g[n - 1], seq[n]) ELSE g[n - 1]
             f == [i \in 0 .. n |-> IF i = n THEN last ELSE g[i]]
             Step(h, i) == IF i = 0 THEN <<>>
                           ELSE IF i \in places THEN Append(h[i - 1], seq[i]) ELSE h[i - 1]
  <2>4. \A i \in 0 .. n - 1 : f[i] = g[i] /\ g[i] = Step(g, i)
    <3>1. \A i \in 0 .. n - 1 : i # n /\ i \in 0 .. n
      BY <2>1
    <3>2. \A i \in 0 .. n - 1 : g[i] = Step(g, i)
      BY <2>3 DEF Keeps
    <3>3. \A i \in 0 .. n - 1 : f[i] = g[i]
      BY <3>1
    <3>4. QED
      BY <3>2, <3>3
  <2>5. f[n] = last
    BY <2>1
  <2>6. f = [i \in 0 .. n |-> f[i]]
    OBVIOUS
  <2> HIDE DEF f
  <2>7. \A i \in 0 .. n : f[i] = Step(f, i)
    <3>1. SUFFICES ASSUME NEW i \in 0 .. n PROVE f[i] = Step(f, i)
      OBVIOUS
    <3>2. CASE i = n
      <4>1. f[n - 1] = g[n - 1]
        BY <2>1, <2>4
      <4>2. QED
        BY <2>1, <2>5, <3>2, <4>1
    <3>3. CASE i # n
      <4>1. i \in 0 .. n - 1 /\ (i # 0 => i - 1 \in 0 .. n - 1)
        BY <2>1, <3>3
      <4>2. f[i] = Step(g, i) /\ (i # 0 => f[i - 1] = g[i - 1])
        BY <2>4, <4>1
      <4>3. QED
        BY <4>2
    <3>4. QED
      BY <3>2, <3>3
  <2>8. Keeps(f, seq, places, n)
    BY <2>6, <2>7 DEF Keeps
  <2>9. QED
    BY <2>8 DEF Good
<1>6. QED
  BY <1>4, <1>5

\* One entry more, or none.
LEMMA NamedStep ==
  ASSUME NEW S, NEW seq \in Seq(S), NEW places, NEW n \in 1 .. Len(seq),
         NEW kept \in Seq(S), NEW g, Named(g, kept, seq, places, n - 1)
  PROVE  LET longer == IF n \in places THEN Append(kept, seq[n]) ELSE kept IN
         longer \in Seq(S) /\ \E h : Named(h, longer, seq, places, n)
<1>1. n \in Nat /\ Len(kept) \in Nat /\ seq[n] \in S
  OBVIOUS
<1>2. CASE n \notin places
  <2>1. Named(g, kept, seq, places, n)
    <3>1. g \in [1 .. Len(kept) -> 1 .. n]
      BY <1>1 DEF Named
    <3>2. ASSUME NEW i \in 1 .. n, i \in places
          PROVE  \E m \in 1 .. Len(kept) : g[m] = i
      <4>1. i \in 1 .. n - 1
        BY <1>1, <1>2, <3>2
      <4>2. QED
        BY <3>2, <4>1 DEF Named
    <3>3. QED
      BY <3>1, <3>2 DEF Named
  <2>2. QED
    BY <1>2, <2>1
<1>3. CASE n \in places
  <2> DEFINE longer == Append(kept, seq[n])
             l == Len(kept) + 1
             h == [m \in 1 .. l |-> IF m = l THEN n ELSE g[m]]
  <2>1. /\ longer \in Seq(S) /\ Len(longer) = l /\ longer[l] = seq[n] /\ l \in Nat
        /\ \A m \in 1 .. l : m # l => m \in 1 .. Len(kept) /\ longer[m] = kept[m]
    BY <1>1
  <2>2. \A m \in 1 .. Len(kept) : g[m] \in 1 .. n - 1
    BY DEF Named
  <2>3. /\ h[l] = n /\ l \in 1 .. l
        /\ \A m \in 1 .. Len(kept) : m \in 1 .. l /\ h[m] = g[m]
    BY <1>1
  <2>4. h \in [1 .. l -> 1 .. n]
    BY <1>1, <2>1, <2>2
  <2> HIDE DEF h, longer, l
  <2>5. ASSUME NEW m \in 1 .. l
        PROVE  h[m] \in places /\ longer[m] = seq[h[m]]
    <3>1. CASE m = l
      BY <1>3, <2>1, <2>3, <3>1
    <3>2. CASE m # l
      BY <2>1, <2>3, <3>2 DEF Named
    <3>3. QED
      BY <3>1, <3>2
  <2>6. ASSUME NEW m \in 1 .. l, NEW k \in 1 .. l, m < k
        PROVE  h[m] < h[k]
    <3>1. m # l
      BY <2>1, <2>6
    <3>2. m \in 1 .. Len(kept) /\ h[m] = g[m] /\ g[m] \in 1 .. n - 1
      BY <2>1, <2>2, <2>3, <3>1
    <3>3. CASE k = l
      BY <1>1, <2>3, <3>2, <3>3
    <3>4. CASE k # l
      BY <2>1, <2>3, <2>6, <3>2, <3>4 DEF Named
    <3>5. QED
      BY <3>3, <3>4
  <2>7. ASSUME NEW i \in 1 .. n, i \in places
        PROVE  \E m \in 1 .. l : h[m] = i
    <3>1. CASE i = n
      BY <2>3, <3>1
    <3>2. CASE i # n
      <4>1. i \in 1 .. n - 1
        BY <1>1, <3>2
      <4>2. PICK m \in 1 .. Len(kept) : g[m] = i
        BY <2>7, <4>1 DEF Named
      <4>3. QED
        BY <2>3, <4>2
    <3>3. QED
      BY <3>1, <3>2
  <2>8. Named(h, longer, seq, places, n)
    BY <2>1, <2>4, <2>5, <2>6, <2>7 DEF Named
  <2>9. QED
    BY <1>3, <2>1, <2>8 DEF longer
<1>4. QED
  BY <1>2, <1>3

\* What the recursion keeps of the first n entries.
LEMMA KeepsNamed ==
  ASSUME NEW S, NEW seq \in Seq(S), NEW places, NEW f, Keeps(f, seq, places, Len(seq))
  PROVE  \A n \in 0 .. Len(seq) : f[n] \in Seq(S) /\ \E g : Named(g, f[n], seq, places, n)
<1> DEFINE Good(n) == f[n] \in Seq(S) /\ \E g : Named(g, f[n], seq, places, n)
           bad == {n \in 0 .. Len(seq) : ~Good(n)}
<1>1. SUFFICES ASSUME bad # {} PROVE FALSE
  OBVIOUS
<1>2. bad \in SUBSET Nat
  OBVIOUS
<1> HIDE DEF Good
<1>3. PICK n \in bad : \A m \in bad : n <= m
  <2> HIDE DEF bad
  <2>1. QED
    BY <1>1, <1>2, LowestRow
<1>4. f[n] = IF n = 0 THEN <<>> ELSE IF n \in places THEN Append(f[n - 1], seq[n]) ELSE f[n - 1]
  BY DEF Keeps
<1>5. CASE n = 0
  <2>1. f[n] = <<>>
    BY <1>4, <1>5
  <2> DEFINE g == [m \in 1 .. 0 |-> 1]
  <2>2. Named(g, <<>>, seq, places, 0)
    BY DEF Named
  <2>3. Named(g, f[n], seq, places, n)
    BY <1>5, <2>1, <2>2
  <2>4. f[n] \in Seq(S)
    BY <2>1
  <2> HIDE DEF g
  <2>5. QED
    BY <2>3, <2>4 DEF Good
<1>6. CASE n # 0
  <2>1. n \in 1 .. Len(seq) /\ n - 1 \in 0 .. Len(seq)
    BY <1>6
  <2>2. Good(n - 1)
    BY <1>3, <2>1
  <2>3. PICK g : Named(g, f[n - 1], seq, places, n - 1)
    BY <2>2 DEF Good
  <2>4. f[n - 1] \in Seq(S)
    BY <2>2 DEF Good
  <2> DEFINE longer == IF n \in places THEN Append(f[n - 1], seq[n]) ELSE f[n - 1]
  <2>5. longer \in Seq(S) /\ \E h : Named(h, longer, seq, places, n)
    BY <2>1, <2>3, <2>4, NamedStep
  <2>6. f[n] = longer
    BY <1>4, <1>6
  <2> HIDE DEF longer
  <2>7. QED
    BY <2>5, <2>6 DEF Good
<1>7. QED
  BY <1>5, <1>6

\* The entries at some places of a sequence are the entries there, in their order.
LEMMA EntriesNamed ==
  ASSUME NEW S, NEW seq \in Seq(S), NEW places
  PROVE  LET kept == EntriesAt(seq, places) IN
         /\ kept \in Seq(S)
         /\ \E g : Named(g, kept, seq, places, Len(seq))
<1> DEFINE f == CHOOSE g : Keeps(g, seq, places, Len(seq))
<1>1. Len(seq) \in 0 .. Len(seq)
  OBVIOUS
<1>2. Keeps(f, seq, places, Len(seq))
  BY <1>1, KeepsExists
<1>3. EntriesAt(seq, places) = f[Len(seq)]
  BY DEF EntriesAt, Keeps
<1> HIDE DEF f
<1>4. QED
  BY <1>1, <1>2, <1>3, KeepsNamed

\* Where the last place is chosen, the last entry is kept.
LEMMA LastKept ==
  ASSUME NEW S, NEW seq \in Seq(S), NEW places, seq # <<>>, Len(seq) \in places
  PROVE  /\ EntriesAt(seq, places) \in Seq(S) /\ EntriesAt(seq, places) # <<>>
         /\ Last(EntriesAt(seq, places)) = Last(seq)
<1> DEFINE kept == EntriesAt(seq, places)
<1>1. kept \in Seq(S) /\ \E g : Named(g, kept, seq, places, Len(seq))
  BY EntriesNamed
<1>2. PICK g : Named(g, kept, seq, places, Len(seq))
  BY <1>1
<1> HIDE DEF kept
<1>3. Len(seq) \in 1 .. Len(seq)
  OBVIOUS
<1>4. PICK m \in 1 .. Len(kept) : g[m] = Len(seq)
  BY <1>2, <1>3 DEF Named
<1>5. Len(kept) \in Nat /\ Len(kept) \in 1 .. Len(kept) /\ m \in Nat
  BY <1>1, <1>4
<1>6. m = Len(kept)
  <2>1. SUFFICES ASSUME m < Len(kept) PROVE FALSE
    BY <1>4, <1>5
  <2>2. g[m] < g[Len(kept)] /\ g[Len(kept)] \in 1 .. Len(seq)
    BY <1>2, <1>5, <2>1 DEF Named
  <2>3. QED
    BY <1>4, <2>2
<1>7. kept[Len(kept)] = seq[Len(seq)]
  BY <1>2, <1>4, <1>6 DEF Named
<1>8. kept # <<>>
  BY <1>5
<1>9. QED
  BY <1>1, <1>7, <1>8 DEF Last, kept

\* Where the chosen places are the last ones, so are the entries kept.
LEMMA SuffixKept ==
  ASSUME NEW S, NEW seq \in Seq(S), NEW places, NEW a \in 1 .. Len(seq) + 1,
         \A i \in 1 .. Len(seq) : i \in places <=> a <= i
  PROVE  EntriesAt(seq, places) = SubSeq(seq, a, Len(seq))
<1> DEFINE kept == EntriesAt(seq, places)
           top == Len(seq)
           K == Len(kept)
<1>1. kept \in Seq(S) /\ \E g : Named(g, kept, seq, places, top)
  BY EntriesNamed
<1>2. PICK g : Named(g, kept, seq, places, top)
  BY <1>1
<1>3. top \in Nat /\ K \in Nat /\ a \in Nat
  BY <1>1
<1> HIDE DEF kept, K, top
<1>4. \A m \in 1 .. K : g[m] \in 1 .. top /\ a <= g[m] /\ kept[m] = seq[g[m]]
  BY <1>2 DEF Named, K, top
<1>5. \A m, k \in 1 .. K : m < k => g[m] < g[k]
  BY <1>2 DEF Named, K
<1>6. \A i \in 1 .. top : a <= i => \E m \in 1 .. K : g[m] = i
  BY <1>2 DEF Named, K, top
<1>7. \A m \in 1 .. K : g[m] = a + m - 1
  <2> DEFINE bad == {m \in 1 .. K : g[m] # a + m - 1}
  <2>1. SUFFICES ASSUME bad # {} PROVE FALSE
    OBVIOUS
  <2>2. bad \in SUBSET Nat
    OBVIOUS
  <2>3. PICK m \in bad : \A k \in bad : m <= k
    <3> HIDE DEF bad
    <3>1. QED
      BY <2>1, <2>2, LowestRow
  <2>4. m \in 1 .. K /\ g[m] # a + m - 1 /\ g[m] \in 1 .. top
    BY <1>4
  <2>5. \A k \in 1 .. K : k < m => g[k] = a + k - 1
    BY <2>3, <2>4
  <2>6. g[m] > a + m - 1
    <3>1. CASE m = 1
      BY <1>3, <1>4, <2>4, <3>1
    <3>2. CASE m # 1
      <4>1. m - 1 \in 1 .. K /\ m - 1 < m
        BY <1>3, <2>4, <3>2
      <4>2. g[m - 1] = a + (m - 1) - 1 /\ g[m - 1] < g[m]
        BY <1>5, <2>4, <2>5, <4>1
      <4>3. QED
        BY <1>3, <2>4, <4>2
    <3>3. QED
      BY <3>1, <3>2
  <2>7. a + m - 1 \in 1 .. top /\ a <= a + m - 1
    BY <1>3, <2>4, <2>6
  <2>8. PICK k \in 1 .. K : g[k] = a + m - 1
    BY <1>6, <2>7
  <2>9. CASE k < m
    BY <1>3, <2>4, <2>5, <2>8, <2>9
  <2>10. CASE m < k
    BY <1>3, <1>5, <2>4, <2>6, <2>8, <2>10
  <2>11. CASE k = m
    BY <2>4, <2>8, <2>11
  <2>12. QED
    BY <1>3, <2>4, <2>9, <2>10, <2>11
<1>8. K = top + 1 - a
  <2>1. K <= top + 1 - a
    <3>1. CASE K = 0
      BY <1>3, <3>1 DEF top
    <3>2. CASE K # 0
      <4>1. K \in 1 .. K
        BY <1>3, <3>2
      <4>2. g[K] = a + K - 1 /\ g[K] <= top
        BY <1>4, <1>7, <4>1
      <4>3. QED
        BY <1>3, <4>2
    <3>3. QED
      BY <3>1, <3>2
  <2>2. SUFFICES ASSUME K < top + 1 - a PROVE FALSE
    BY <1>3, <2>1
  <2>3. a + K \in 1 .. top /\ a <= a + K
    BY <1>3, <2>2
  <2>4. PICK k \in 1 .. K : g[k] = a + K
    BY <1>6, <2>3
  <2>5. QED
    BY <1>3, <1>7, <2>4
<1>9. ASSUME NEW m \in 1 .. K
      PROVE  kept[m] = seq[a + m - 1]
  BY <1>4, <1>7
<1> DEFINE rest == SubSeq(seq, a, top)
<1>10. rest \in Seq(S) /\ Len(rest) = top + 1 - a /\ \A m \in 1 .. Len(rest) : rest[m] = seq[a + m - 1]
  BY <1>3 DEF top
<1> HIDE DEF rest
<1>11. kept = rest
  <2>1. kept \in Seq(S) /\ Len(kept) = Len(rest)
    BY <1>1, <1>8, <1>10 DEF K
  <2>2. \A m \in 1 .. Len(kept) : kept[m] = rest[m]
    BY <1>9, <1>10, <2>1 DEF K
  <2>3. QED
    BY <1>10, <2>1, <2>2, SeqEqual
<1>12. QED
  BY <1>11 DEF kept, rest, top

\* Two multiples of a step are a step apart.
LEMMA MultiplesApart ==
  ASSUME NEW u \in Nat, NEW v \in Nat, NEW step \in Nat \ {0}, u % step = 0, v % step = 0, u < v
  PROVE  u + step <= v
<1> DEFINE p == u \div step
           q == v \div step
<1>1. p \in Int /\ q \in Int /\ u = p * step /\ v = q * step
  OBVIOUS
<1> HIDE DEF p, q
<1>2. p < q
  <2>1. SUFFICES ASSUME q <= p PROVE FALSE
    BY <1>1
  <2>2. q * step <= p * step
    BY <1>1, <2>1
  <2>3. QED
    BY <1>1, <2>2
<1>3. (p + 1) * step <= q * step
  BY <1>1, <1>2
<1>4. QED
  BY <1>1, <1>3

\* Of places that are a step apart, but for the last, there are few.
LEMMA FewKept ==
  ASSUME NEW S, NEW seq \in Seq(S), NEW places, NEW step \in Nat \ {0}, NEW few \in Nat \ {0},
         Len(seq) <= few * step,
         \A i \in 1 .. Len(seq) : i \in places => i = Len(seq) \/ (i - 1) % step = 0
  PROVE  Len(EntriesAt(seq, places)) <= few + 1
<1> DEFINE kept == EntriesAt(seq, places)
           top == Len(seq)
           K == Len(kept)
<1>1. kept \in Seq(S) /\ \E g : Named(g, kept, seq, places, top)
  BY EntriesNamed
<1>2. PICK g : Named(g, kept, seq, places, top)
  BY <1>1
<1>3. top \in Nat /\ K \in Nat
  BY <1>1
<1> HIDE DEF kept, K, top
<1>4. \A m \in 1 .. K : g[m] \in 1 .. top /\ g[m] \in places
  BY <1>2 DEF Named, K, top
<1>5. \A m, k \in 1 .. K : m < k => g[m] < g[k]
  BY <1>2 DEF Named, K
<1>6. ASSUME NEW m \in 1 .. K - 1
      PROVE  (g[m] - 1) % step = 0 /\ g[m] < g[K] /\ g[m] \in 1 .. top /\ g[K] \in 1 .. top
  <2>1. m \in 1 .. K /\ K \in 1 .. K /\ m < K
    BY <1>3
  <2>2. g[m] < g[K] /\ g[K] \in 1 .. top /\ g[m] \in 1 .. top /\ g[m] \in places
    BY <1>4, <1>5, <2>1
  <2>3. QED
    BY <1>3, <2>2 DEF top
<1>7. \A m \in 1 .. K - 1 : (m - 1) * step < g[m]
  <2> DEFINE bad == {m \in 1 .. K - 1 : ~((m - 1) * step < g[m])}
  <2>1. SUFFICES ASSUME bad # {} PROVE FALSE
    OBVIOUS
  <2>2. bad \in SUBSET Nat
    OBVIOUS
  <2>3. PICK m \in bad : \A k \in bad : m <= k
    <3> HIDE DEF bad
    <3>1. QED
      BY <2>1, <2>2, LowestRow
  <2>4. m \in 1 .. K - 1 /\ ~((m - 1) * step < g[m]) /\ g[m] \in 1 .. top
    BY <1>6
  <2>5. m # 1
    <3>1. (1 - 1) * step = 0
      OBVIOUS
    <3>2. QED
      BY <2>4, <3>1
  <2> DEFINE k == m - 1
  <2>6. k \in 1 .. K - 1 /\ k < m /\ k \in 1 .. K /\ m \in 1 .. K
    BY <1>3, <2>4, <2>5
  <2>7. (k - 1) * step < g[k] /\ g[k] \in 1 .. top
    BY <1>6, <2>3, <2>6
  <2>8. g[k] < g[m] /\ (g[k] - 1) % step = 0 /\ (g[m] - 1) % step = 0
    BY <1>5, <1>6, <2>4, <2>6
  <2> DEFINE u == g[k] - 1
             v == g[m] - 1
  <2>9. u \in Nat /\ v \in Nat /\ u < v
    <3>1. g[k] \in Int /\ g[m] \in Int /\ g[k] >= 1 /\ g[m] >= 1
      BY <2>4, <2>7
    <3>2. g[k] < g[m]
      BY <2>8
    <3> HIDE DEF k
    <3>3. QED
      BY <3>1, <3>2
  <2>10. u + step <= v
    <3>1. u % step = 0 /\ v % step = 0
      BY <2>8
    <3> HIDE DEF u, v
    <3>2. QED
      BY <2>9, <3>1, MultiplesApart
  <2>11. (m - 1) * step = (k - 1) * step + step
    BY <2>4
  <2>12. (k - 1) * step \in Int
    BY <2>4
  <2>13. QED
    BY <2>4, <2>7, <2>9, <2>10, <2>11, <2>12
<1>8. CASE K <= 1
  BY <1>3, <1>8 DEF K, kept
<1>9. CASE K > 1
  <2> DEFINE m == K - 1
  <2>1. m \in 1 .. K - 1
    BY <1>3, <1>9
  <2>2. (m - 1) * step < g[m] /\ g[m] < g[K] /\ g[m] \in 1 .. top /\ g[K] \in 1 .. top
    BY <1>6, <1>7, <2>1
  <2>3. (m - 1) * step \in Int /\ few * step \in Int
    BY <1>3
  <2>4. (m - 1) * step < few * step
    BY <1>3, <2>2, <2>3 DEF top
  <2>5. m - 1 \in Int /\ few \in Int /\ step \in Int /\ step > 0
    BY <1>3
  <2> DEFINE b == m - 1
  <2>6. b < few
    <3> HIDE DEF b
    <3>1. SUFFICES ASSUME few <= b PROVE FALSE
      BY <2>5 DEF b
    <3>2. few * step <= b * step
      BY <2>5, <3>1 DEF b
    <3>3. QED
      BY <2>3, <2>4, <3>2 DEF b
  <2>7. QED
    BY <1>3, <2>6 DEF K, kept
<1>10. QED
  BY <1>3, <1>8, <1>9

\* The step of a chart leaves no more steps than it has points.
LEMMA StepCovers ==
  ASSUME NEW n \in Nat
  PROVE  DownsampleStep(n) \in Nat \ {0} /\ n <= ChartPoints * DownsampleStep(n)
<1>1. ChartPoints \in Nat \ {0}
  BY ReportsAssumption DEF ReportsAssumption
<1>2. CASE n <= ChartPoints
  BY <1>1, <1>2 DEF DownsampleStep
<1>3. CASE ~(n <= ChartPoints)
  <2> DEFINE c == ChartPoints
             q == (n + c - 1) \div c
  <2>1. c \in Nat \ {0} /\ n > c
    BY <1>1, <1>3
  <2>2. DownsampleStep(n) = q
    BY <1>3 DEF DownsampleStep
  <2> HIDE DEF c
  <2>3. q \in Int /\ q * c > n - 1 /\ c * q = q * c
    BY <2>1
  <2> HIDE DEF q
  <2>4. q > 0
    <3>1. SUFFICES ASSUME q <= 0 PROVE FALSE
      BY <2>3
    <3>2. q * c <= 0
      BY <2>1, <2>3, <3>1
    <3>3. QED
      BY <2>1, <2>3, <3>2
  <2>5. q * c >= n
    <3>1. q * c \in Int
      BY <2>1, <2>3
    <3>2. QED
      BY <2>3, <3>1
  <2>6. QED
    BY <2>2, <2>3, <2>4, <2>5 DEF c
<1>4. QED
  BY <1>2, <1>3

-----------------------------------------------------------------------------
(* The charts, the log and the series *)

\* Of no entries none are kept.
LEMMA NoneKept ==
  ASSUME NEW S, NEW seq \in Seq(S), NEW places, EntriesAt(seq, places) # <<>>
  PROVE  seq # <<>>
<1> DEFINE kept == EntriesAt(seq, places)
<1>1. kept \in Seq(S) /\ \E g : Named(g, kept, seq, places, Len(seq))
  BY EntriesNamed
<1> HIDE DEF kept
<1>2. PICK g : Named(g, kept, seq, places, Len(seq))
  BY <1>1
<1>3. kept # <<>>
  BY DEF kept
<1>4. 1 \in 1 .. Len(kept)
  BY <1>1, <1>3
<1>5. g[1] \in 1 .. Len(seq)
  BY <1>2, <1>4 DEF Named
<1>6. QED
  BY <1>5

\* The snapshots with the quota end with the last one, if that has the quota.
LEMMA LastWithQuota ==
  ASSUME NEW seq \in Seq(Snapshot)
  PROVE  /\ WithQuota(seq) \in Seq(Snapshot)
         /\ WithQuota(seq) # <<>> => seq # <<>>
         /\ seq # <<>> /\ Last(seq).has =>
               WithQuota(seq) # <<>> /\ Last(WithQuota(seq)) = Last(seq)
<1> DEFINE places == {n \in DOMAIN seq : seq[n].has}
<1>1. WithQuota(seq) = EntriesAt(seq, places)
  BY DEF WithQuota
<1>2. seq # <<>> /\ Last(seq).has => Len(seq) \in places
  BY DEF Last
<1> HIDE DEF places
<1>3. QED
  BY <1>1, <1>2, EntriesNamed, NoneKept, LastKept

\* If a snapshot is in a range, so is the last one.
LEMMA LastInRange ==
  ASSUME ReportsInv, NEW range \in Nat
  PROVE  /\ InRange(range) \in Seq(Snapshot)
         /\ InRange(range) # <<>> => snapshots # <<>> /\ Last(InRange(range)) = Last(snapshots)
<1> DEFINE places == {s \in DOMAIN snapshots : now - range <= snapshots[s].time}
           kept == EntriesAt(snapshots, places)
           top == Len(snapshots)
<1>1. snapshots \in Seq(Snapshot) /\ now \in Nat /\ InOrder
  BY DEF ReportsInv, PollsInv, SnapshotsOK, TrackerInv, QuotaOK
<1>2. InRange(range) = kept
  BY DEF InRange
<1>3. kept \in Seq(Snapshot) /\ \E g : Named(g, kept, snapshots, places, top)
  BY <1>1, EntriesNamed
<1>4. ASSUME kept # <<>>
      PROVE  snapshots # <<>> /\ Last(kept) = Last(snapshots)
  <2>1. PICK g : Named(g, kept, snapshots, places, top)
    BY <1>3
  <2>2. 1 \in 1 .. Len(kept)
    <3> HIDE DEF kept
    <3>1. QED
      BY <1>3, <1>4
  <2>3. g[1] \in 1 .. top /\ g[1] \in places
    BY <2>1, <2>2 DEF Named
  <2>4. top \in 1 .. top /\ g[1] <= top
    BY <1>1, <2>3
  <2>5. snapshots[g[1]].time <= snapshots[top].time
    <3>1. snapshots[top] \in Snapshot
      BY <1>1, <2>4
    <3>2. snapshots[top].time \in Int
      BY <3>1 DEF Snapshot
    <3>3. CASE g[1] = top
      BY <3>2, <3>3
    <3>4. CASE g[1] # top
      BY <1>1, <2>3, <2>4, <3>4 DEF InOrder
    <3>5. QED
      BY <3>3, <3>4
  <2>6. top \in places
    <3>1. snapshots[top] \in Snapshot /\ snapshots[g[1]] \in Snapshot
      BY <1>1, <2>3, <2>4
    <3>2. snapshots[top].time \in Int /\ snapshots[g[1]].time \in Int
      BY <3>1 DEF Snapshot
    <3>3. now - range <= snapshots[g[1]].time /\ now - range \in Int
      BY <1>1, <2>3
    <3>4. now - range <= snapshots[top].time
      BY <2>5, <3>2, <3>3
    <3>5. QED
      BY <1>1, <2>4, <3>4
  <2>7. snapshots # <<>>
    BY <2>4
  <2> HIDE DEF places
  <2>8. QED
    BY <1>1, <2>6, <2>7, LastKept DEF kept, top
<1> HIDE DEF kept
<1>5. QED
  BY <1>2, <1>3, <1>4

\* The last ones of a sequence end as it does.
LEMMA LastOfLasts ==
  ASSUME NEW S, NEW seq \in Seq(S), NEW limit \in Nat \ {0}
  PROVE  /\ Lasts(seq, limit) \in Seq(S) /\ Len(Lasts(seq, limit)) <= limit
         /\ seq # <<>> => Lasts(seq, limit) # <<>> /\ Last(Lasts(seq, limit)) = Last(seq)
<1> DEFINE l == Len(seq)
           a == Higher(1, l - limit + 1)
<1>1. l \in Nat /\ a \in Nat /\ a >= 1 /\ a >= l - limit + 1 /\ (l # 0 => a <= l)
      /\ (l = 0 => a = 1)
  BY DEF Higher
<1>2. Lasts(seq, limit) = SubSeq(seq, a, l)
  BY DEF Lasts
<1> HIDE DEF a
<1> DEFINE rest == SubSeq(seq, a, l)
<1>3. rest \in Seq(S) /\ Len(rest) = l + 1 - a /\ \A m \in 1 .. Len(rest) : rest[m] = seq[a + m - 1]
  BY <1>1
<1> HIDE DEF rest
<1>4. ASSUME seq # <<>>
      PROVE  rest # <<>> /\ Last(rest) = Last(seq)
  <2>1. l # 0
    BY <1>4
  <2> HIDE DEF l
  <2>2. Len(rest) \in 1 .. Len(rest)
    BY <1>1, <1>3, <2>1
  <2>3. rest[Len(rest)] = seq[a + Len(rest) - 1] /\ a + Len(rest) - 1 = l
    BY <1>1, <1>3, <2>2
  <2>4. rest # <<>>
    BY <2>2
  <2>5. QED
    BY <2>3, <2>4 DEF Last, l
<1>5. QED
  BY <1>1, <1>2, <1>3, <1>4 DEF rest

\* The limit of a chart, and its last point.
LEMMA ChartEnds ==
  ASSUME ReportsInv, WithQuota(InRange(RangeBack)) # <<>>, NEW rule
  PROVE  /\ Len(Chart(rule)) <= ChartPoints + 1
         /\ Last(snapshots).has /\ rule # "stepped" => Last(Chart(rule)) = Last(snapshots)
<1> DEFINE all == InRange(RangeBack)
           points == IF rule = "quotas" THEN WithQuota(all) ELSE all
           top == Len(points)
           step == DownsampleStep(top)
           plots == IF rule = "stepped" THEN PlottedStep(top, step) ELSE Plotted(top, step)
<1>1. RangeBack \in Nat /\ ChartPoints \in Nat \ {0}
  BY ReportsAssumption DEF ReportsAssumption
<1>2. all \in Seq(Snapshot) /\ all # <<>> /\ snapshots # <<>> /\ Last(all) = Last(snapshots)
  BY <1>1, LastInRange, LastWithQuota
<1>3. points \in Seq(Snapshot) /\ points # <<>>
      /\ (Last(snapshots).has => Last(points) = Last(snapshots))
  BY <1>2, LastWithQuota
<1>4. Chart(rule) = IF rule = "newest" THEN Lasts(all, ChartPoints) ELSE EntriesAt(points, plots)
  BY DEF Chart, RangeQuery
<1> HIDE DEF all, points
<1>5. CASE rule = "newest"
  BY <1>1, <1>2, <1>4, <1>5, LastOfLasts
<1>6. CASE rule # "newest"
  <2>1. top \in Nat /\ top >= 1
    BY <1>3
  <2>2. step \in Nat \ {0} /\ top <= ChartPoints * step
    BY <2>1, StepCovers
  <2> HIDE DEF step, top
  <2>3. \A i \in 1 .. top : i \in plots => i = top \/ (i - 1) % step = 0
    <3>1. (1 - 1) % step = 0
      BY <2>2
    <3>2. QED
      BY <2>1, <2>2, <3>1 DEF PlottedStep, Plotted
  <2>4. Len(EntriesAt(points, plots)) <= ChartPoints + 1
    <3> HIDE DEF plots
    <3>1. QED
      BY <1>1, <1>3, <2>2, <2>3, FewKept DEF top
  <2>5. rule # "stepped" => top \in plots
    BY <2>1 DEF Plotted
  <2> HIDE DEF plots
  <2>6. rule # "stepped" => Last(EntriesAt(points, plots)) = Last(points)
    BY <1>3, <2>5, LastKept DEF top
  <2>7. QED
    BY <1>3, <1>4, <1>6, <2>4, <2>6
<1>7. QED
  BY <1>5, <1>6

\* The first of a sequence in reverse is the last one.
LEMMA FirstOfReverse ==
  ASSUME NEW n \in Nat \ {0}, NEW seq, Len(seq) = n
  PROVE  Reverse(seq)[1] = seq[n]
BY DEF Reverse

\* The log, newest or oldest first, has the newest sample at its end.
LEMMA LogEnds ==
  ASSUME ReportsInv, WithQuota(InRange(RangeBack)) # <<>>, NEW limit \in Nat \ {0},
         Last(snapshots).has
  PROVE  Last(snapshots).time = IF Logs[kind] = "oldest first"
                                THEN Last(Log(limit)).time ELSE Log(limit)[1].time
<1> DEFINE all == InRange(RangeBack)
           found == RangeQuery(RangeBack, limit)
           points == WithQuota(found)
           Line(n) == [time |-> points[n].time, percent |-> points[n].used,
                       delta |-> IF n = 1 THEN 0 ELSE points[n].used - points[n - 1].used]
           entries == [n \in DOMAIN points |-> Line(n)]
           top == Len(points)
<1>1. all \in Seq(Snapshot) /\ all # <<>> /\ snapshots # <<>> /\ Last(all) = Last(snapshots)
  BY ReportsAssumption, LastInRange, LastWithQuota DEF ReportsAssumption
<1>2. found \in Seq(Snapshot) /\ found # <<>> /\ Last(found) = Last(snapshots)
  <2>1. found = Lasts(all, limit)
    BY DEF RangeQuery
  <2> HIDE DEF all, found
  <2>2. QED
    BY <1>1, <2>1, LastOfLasts
<1> HIDE DEF found
<1>3. points \in Seq(Snapshot) /\ points # <<>> /\ Last(points) = Last(snapshots)
  BY <1>2, LastWithQuota
<1>4. Log(limit) = IF Logs[kind] = "oldest first" THEN entries ELSE Reverse(entries)
  BY DEF Log, found
<1> HIDE DEF points
<1>5. top \in Nat \ {0} /\ DOMAIN points = 1 .. top
  BY <1>3
<1> DEFINE made == [n \in 1 .. top |-> Line(n)]
<1>6. entries = made
  BY <1>5
<1> HIDE DEF top, Line
<1>7. Len(made) = top
  BY <1>5
<1>8. made[top] = Line(top)
  BY <1>5
<1> HIDE DEF made
<1>9. Line(top).time = points[top].time
  BY DEF Line
<1>10. Last(made).time = points[top].time /\ Reverse(made)[1].time = points[top].time
  BY <1>5, <1>7, <1>8, <1>9, FirstOfReverse DEF Last
<1>11. points[top].time = Last(snapshots).time
  BY <1>3 DEF Last, top
<1>12. QED
  BY <1>4, <1>6, <1>10, <1>11

\* The series begins with the newest sample.
LEMMA SeriesBegins ==
  ASSUME ReportsInv, WithQuota(InRange(RangeBack)) # <<>>
  PROVE  Series[1].start = Last(WithQuota(InRange(RangeBack))).time
<1> DEFINE points == WithQuota(InRange(RangeBack))
           Line(n) == Entry(points[n].time, IF n < Len(points) THEN points[n + 1].time ELSE None,
                            points[n].used, RiseListed(points, n))
           top == Len(points)
           entries == [n \in DOMAIN points |-> Line(n)]
           made == [n \in 1 .. top |-> Line(n)]
<1>1. points \in Seq(Snapshot) /\ points # <<>>
  BY ReportsAssumption, LastInRange, LastWithQuota DEF ReportsAssumption
<1>2. Series = Reverse(entries)
  BY DEF Series
<1> HIDE DEF points
<1>3. top \in Nat \ {0} /\ DOMAIN points = 1 .. top
  BY <1>1
<1>4. entries = made
  BY <1>3
<1>5. Line(top).start = points[top].time
  BY DEF Entry
<1> HIDE DEF Line, top
<1>6. Len(made) = top /\ made[top] = Line(top)
  BY <1>3
<1> HIDE DEF made
<1>7. Reverse(made)[1] = Line(top)
  BY <1>3, <1>6, FirstOfReverse
<1>8. QED
  BY <1>2, <1>4, <1>5, <1>7 DEF Last, points, top

\* What the charts, the log and the series show last is the same.
LEMMA InvSamplesAgree ==
  ASSUME ReportsInv
  PROVE  SamplesAgree
<1> DEFINE shown == WithQuota(InRange(RangeBack))
<1>1. SUFFICES ASSUME shown # <<>>
               PROVE  /\ \A rule \in {Charts[kind], HistoryBoth} :
                            /\ Len(Chart(rule)) <= ChartPoints + 1
                            /\ Last(snapshots).has /\ rule # "stepped" =>
                                  Last(Chart(rule)).time = Last(shown).time
                      /\ \A limit \in 1 .. 2 : Last(snapshots).has =>
                            Last(shown).time = IF Logs[kind] = "oldest first"
                                               THEN Last(Log(limit)).time ELSE Log(limit)[1].time
                      /\ Lists[kind] = "series" => Series[1].start = Last(shown).time
  BY DEF SamplesAgree
<1>2. Last(snapshots).has => Last(shown) = Last(snapshots)
  BY <1>1, ReportsAssumption, LastInRange, LastWithQuota DEF ReportsAssumption
<1>3. \A rule : /\ Len(Chart(rule)) <= ChartPoints + 1
                /\ Last(snapshots).has /\ rule # "stepped" =>
                      Last(Chart(rule)).time = Last(shown).time
  BY <1>1, <1>2, ChartEnds
<1>4. ASSUME NEW limit \in 1 .. 2, Last(snapshots).has
      PROVE  Last(shown).time = IF Logs[kind] = "oldest first"
                                THEN Last(Log(limit)).time ELSE Log(limit)[1].time
  <2>1. limit \in Nat \ {0}
    OBVIOUS
  <2>2. QED
    BY <1>1, <1>2, <1>4, <2>1, LogEnds
<1>5. Series[1].start = Last(shown).time
  BY <1>1, SeriesBegins
<1> HIDE DEF shown
<1>6. QED
  BY <1>3, <1>4, <1>5

-----------------------------------------------------------------------------
(* The overviews and the lists of cycles *)

\* The cycles from the newest on.
LEMMA NewestIs ==
  ASSUME TrackerInv
  PROVE  /\ Len(rows) \in Nat /\ Newest \in Seq(1 .. Len(rows)) /\ Len(Newest) = Len(rows)
         /\ \A n \in 1 .. Len(rows) : Newest[n] = Len(rows) + 1 - n
<1> DEFINE top == Len(rows)
           made == [n \in 1 .. top |-> top + 1 - n]
<1>1. top \in Nat /\ DOMAIN rows = 1 .. top
  BY LastIsActive
<1>2. Newest = made
  BY <1>1 DEF Newest
<1> HIDE DEF top
<1>3. made \in Seq(1 .. top) /\ Len(made) = top /\ \A n \in 1 .. top : made[n] = top + 1 - n
  BY <1>1
<1>4. QED
  BY <1>1, <1>2, <1>3 DEF top

\* The newest is active, unless it is closed; the others are closed.
LEMMA CyclesListed ==
  ASSUME TrackerInv
  PROVE  \/ OpenRows = {} /\ ActiveCycle = <<>> /\ ClosedCycles = Newest
         \/ /\ OpenRows # {} /\ Len(rows) >= 1
            /\ ActiveCycle = <<Len(rows)>>
            /\ ClosedCycles = SubSeq(Newest, 2, Len(rows))
<1> DEFINE top == Len(rows)
           places == {n \in DOMAIN Newest : rows[Newest[n]].end # None}
<1>1. /\ top \in Nat /\ Newest \in Seq(1 .. top) /\ Len(Newest) = top
      /\ \A n \in 1 .. top : Newest[n] = top + 1 - n
  BY NewestIs
<1>2. ClosedCycles = EntriesAt(Newest, places)
  BY DEF ClosedCycles
<1>3. ASSUME NEW n \in 1 .. top
      PROVE  n \in places <=> rows[top + 1 - n].end # None
  <2>1. n \in DOMAIN Newest /\ Newest[n] = top + 1 - n
    BY <1>1
  <2> HIDE DEF top
  <2>2. QED
    BY <2>1
<1>4. CASE OpenRows = {}
  <2>1. \A i \in 1 .. top : rows[i].end # None
    BY <1>4, LastIsActive
  <2>2. ASSUME NEW n \in 1 .. Len(Newest) PROVE n \in places <=> 1 <= n
    <3>1. top + 1 - n \in 1 .. top /\ n \in 1 .. top
      BY <1>1
    <3>2. QED
      BY <1>3, <2>1, <3>1
  <2> HIDE DEF places
  <2>3. EntriesAt(Newest, places) = SubSeq(Newest, 1, Len(Newest))
    <3>1. 1 \in 1 .. Len(Newest) + 1
      BY <1>1
    <3>2. QED
      BY <1>1, <2>2, <3>1, SuffixKept
  <2>4. SubSeq(Newest, 1, Len(Newest)) = Newest
    BY <1>1
  <2>5. QED
    BY <1>2, <1>4, <2>3, <2>4 DEF ActiveCycle
<1>5. CASE OpenRows # {}
  <2>1. top >= 1 /\ ActiveRow = top /\ rows[top].end = None /\ OpenRows = {top}
        /\ DOMAIN rows = 1 .. top
    BY <1>5, LastIsActive
  <2>2. \A i \in 1 .. top : i # top => rows[i].end # None
    BY <2>1 DEF OpenRows
  <2>3. ASSUME NEW n \in 1 .. Len(Newest) PROVE n \in places <=> 2 <= n
    <3>1. n \in 1 .. top /\ top + 1 - n \in 1 .. top /\ (n = 1 <=> top + 1 - n = top)
      BY <1>1
    <3>2. QED
      BY <1>3, <2>1, <2>2, <3>1
  <2> HIDE DEF places
  <2>4. EntriesAt(Newest, places) = SubSeq(Newest, 2, top)
    <3>1. 2 \in 1 .. Len(Newest) + 1
      BY <1>1, <2>1
    <3>2. QED
      BY <1>1, <2>3, <3>1, SuffixKept
  <2>5. QED
    BY <1>2, <1>5, <2>1, <2>4 DEF ActiveCycle
<1>6. QED
  BY <1>4, <1>5

\* The first ones of a sequence, entry by entry.
LEMMA FirstsAre ==
  ASSUME NEW S, NEW seq \in Seq(S), NEW k \in Nat
  PROVE  /\ Firsts(seq, k) \in Seq(S)
         /\ Len(Firsts(seq, k)) = Smaller(k, Len(seq))
         /\ \A n \in 1 .. Smaller(k, Len(seq)) : Firsts(seq, k)[n] = seq[n]
<1> DEFINE l == Smaller(k, Len(seq))
<1>1. l \in Nat /\ l <= Len(seq)
  BY DEF Smaller
<1> HIDE DEF l
<1>2. /\ SubSeq(seq, 1, l) \in Seq(S) /\ Len(SubSeq(seq, 1, l)) = l
      /\ \A n \in 1 .. l : SubSeq(seq, 1, l)[n] = seq[n]
  BY <1>1
<1>3. QED
  BY <1>2 DEF l, Firsts

\* The active cycle and some closed ones are the newest.
LEMMA ActiveAndClosed ==
  ASSUME TrackerInv, NEW k \in Nat \ {0}
  PROVE  /\ Len(ActiveCycle) \in {0, 1}
         /\ ActiveCycle \o CycleHistory(k) = Firsts(Newest, k + Len(ActiveCycle))
<1> DEFINE top == Len(rows)
           S == 1 .. top
<1>1. /\ top \in Nat /\ Newest \in Seq(S) /\ Len(Newest) = top
      /\ \A n \in 1 .. top : Newest[n] = top + 1 - n
  BY NewestIs
<1>2. CycleHistory(k) = Firsts(ClosedCycles, k)
  BY DEF CycleHistory
<1>3. CASE OpenRows = {} /\ ActiveCycle = <<>> /\ ClosedCycles = Newest
  <2>1. Firsts(Newest, k) \in Seq(S)
    BY <1>1, FirstsAre
  <2>2. <<>> \o Firsts(Newest, k) = Firsts(Newest, k)
    BY <2>1, ConcatEmptySeq
  <2>3. Len(<<>>) = 0 /\ k + 0 = k
    OBVIOUS
  <2>4. QED
    BY <1>2, <1>3, <2>2, <2>3
<1>4. CASE top >= 1 /\ ActiveCycle = <<top>> /\ ClosedCycles = SubSeq(Newest, 2, top)
  <2> DEFINE closed == SubSeq(Newest, 2, top)
             some == Firsts(closed, k)
             l == Smaller(k, top - 1)
             whole == <<top>> \o some
             first == Firsts(Newest, k + 1)
  <2>1. /\ closed \in Seq(S) /\ Len(closed) = top - 1
        /\ \A n \in 1 .. top - 1 : closed[n] = Newest[n + 1]
    <3>1. Newest \in Seq(S) /\ Len(Newest) = top /\ top \in Nat /\ top >= 1
      BY <1>1, <1>4
    <3> HIDE DEF top, S
    <3>2. closed \in Seq(S) /\ Len(closed) = top - 1
      BY <3>1
    <3>3. \A n \in 1 .. top - 1 : closed[n] = Newest[2 + n - 1]
      BY <3>1
    <3>4. QED
      BY <3>2, <3>3
  <2> HIDE DEF closed
  <2>2. /\ some \in Seq(S) /\ Len(some) = l
        /\ \A n \in 1 .. l : some[n] = closed[n]
    BY <2>1, FirstsAre
  <2>3. l \in Nat /\ l <= top - 1 /\ Smaller(k + 1, top) = l + 1
    BY <1>1, <1>4 DEF Smaller
  <2>4. /\ first \in Seq(S) /\ Len(first) = l + 1
        /\ \A n \in 1 .. l + 1 : first[n] = Newest[n]
    <3>1. k + 1 \in Nat
      OBVIOUS
    <3>2. QED
      BY <1>1, <2>3, <3>1, FirstsAre
  <2> HIDE DEF some, first, l
  <2>5. top \in S /\ <<top>> \in Seq(S) /\ Len(<<top>>) = 1
    BY <1>1, <1>4
  <2>6. /\ whole \in Seq(S) /\ Len(whole) = l + 1
        /\ whole[1] = top
        /\ \A n \in 2 .. l + 1 : whole[n] = some[n - 1]
    BY <2>2, <2>3, <2>5
  <2> HIDE DEF whole
  <2>7. ASSUME NEW n \in 1 .. l + 1 PROVE whole[n] = first[n]
    <3>1. CASE n = 1
      <4>1. 1 \in 1 .. top /\ 1 \in 1 .. l + 1 /\ top + 1 - 1 = top
        BY <1>1, <1>4, <2>3
      <4>2. Newest[1] = top
        BY <1>1, <4>1
      <4>3. QED
        BY <2>4, <2>6, <3>1, <4>1, <4>2
    <3>2. CASE n # 1
      <4>1. n \in 2 .. l + 1 /\ n - 1 \in 1 .. l /\ n - 1 \in 1 .. top - 1 /\ n - 1 + 1 = n
        BY <1>1, <2>3, <3>2
      <4>2. whole[n] = some[n - 1] /\ some[n - 1] = closed[n - 1]
        BY <2>2, <2>6, <4>1
      <4>3. closed[n - 1] = Newest[n]
        BY <2>1, <4>1
      <4>4. QED
        BY <2>4, <4>2, <4>3
    <3>3. QED
      BY <3>1, <3>2
  <2>8. whole = first
    BY <2>4, <2>6, <2>7, SeqEqual
  <2>9. ActiveCycle \o CycleHistory(k) = whole /\ k + Len(ActiveCycle) = k + 1
    BY <1>2, <1>4, <2>5 DEF whole, some, closed
  <2>10. QED
    BY <1>4, <2>5, <2>8, <2>9 DEF first
<1>5. QED
  BY <1>3, <1>4, CyclesListed

\* To cut again what was cut no earlier.
LEMMA CutAgain ==
  ASSUME NEW S, NEW seq \in Seq(S), NEW k \in Nat, NEW m \in Nat, k <= m
  PROVE  Firsts(Firsts(seq, m), k) = Firsts(seq, k)
<1> DEFINE one == Firsts(seq, m)
           two == Firsts(one, k)
           cut == Firsts(seq, k)
<1>1. /\ one \in Seq(S) /\ Len(one) = Smaller(m, Len(seq))
      /\ \A n \in 1 .. Smaller(m, Len(seq)) : one[n] = seq[n]
  BY FirstsAre
<1> HIDE DEF one
<1>2. /\ two \in Seq(S) /\ Len(two) = Smaller(k, Len(one))
      /\ \A n \in 1 .. Smaller(k, Len(one)) : two[n] = one[n]
  BY <1>1, FirstsAre
<1>3. /\ cut \in Seq(S) /\ Len(cut) = Smaller(k, Len(seq))
      /\ \A n \in 1 .. Smaller(k, Len(seq)) : cut[n] = seq[n]
  BY FirstsAre
<1> HIDE DEF two, cut
<1>4. Smaller(k, Len(one)) = Smaller(k, Len(seq))
  BY <1>1 DEF Smaller
<1>5. ASSUME NEW n \in 1 .. Len(two) PROVE two[n] = cut[n]
  <2>1. n \in 1 .. Smaller(k, Len(seq)) /\ n \in 1 .. Smaller(m, Len(seq))
    BY <1>2, <1>4 DEF Smaller
  <2>2. QED
    BY <1>1, <1>2, <1>3, <1>4, <2>1
<1>6. two = cut
  BY <1>2, <1>3, <1>4, <1>5, SeqEqual
<1>7. QED
  BY <1>6 DEF two, one, cut

\* The ways in which an overview is made.
OverviewRules == {"limit", "cut", "default", "besides", "newest", "none"}

\* Those of the providers are among them.
LEMMA OverviewRulesAre ==
  ASSUME kind \in AllKinds
  PROVE  Overviews[kind].cycles \in OverviewRules /\ OverviewBoth \in OverviewRules
<1>1. OverviewBoth \in OverviewRules
  BY DEF OverviewBoth, OverviewRules
<1>2. Overviews[kind].cycles \in OverviewRules
  BY DEF AllKinds, Overviews, OverviewRules, Overview, SyntheticOverview, AnthropicOverview,
     CopilotOverview, ZaiOverview, AntigravityOverview, GeminiOverview, CodexOverview, ArkOverview,
     OpenCodeOverview, CursorOverview, GrokOverview, KimiOverview, MiniMaxOverview,
     OpenRouterOverview, MoonshotOverview, DeepSeekOverview
<1>3. QED
  BY <1>1, <1>2

\* With a limit of two or more, the active cycle is counted.
LEMMA ActiveFirstIs ==
  ASSUME TrackerInv, NEW limit \in Nat \ {0, 1}
  PROVE  ActiveFirst(limit) = Firsts(Newest, limit)
<1> DEFINE a == Len(ActiveCycle)
<1>1. a \in {0, 1}
  BY ActiveAndClosed
<1> HIDE DEF a
<1>2. limit - a \in Nat \ {0} /\ limit - a + a = limit
  BY <1>1
<1>3. ActiveCycle \o CycleHistory(limit - a) = Firsts(Newest, limit - a + a)
  BY <1>2, ActiveAndClosed DEF a
<1>4. QED
  BY <1>2, <1>3 DEF ActiveFirst, a

\* An overview is the newest cycles, whichever way it is made.
LEMMA OverviewIsNewest ==
  ASSUME TrackerInv, NEW cycles \in OverviewRules, NEW limit \in Nat \ {0, 1}
  PROVE  OverviewCycles(cycles, limit) = Firsts(Newest, Most(cycles, limit))
<1>1. DefaultLimit \in Nat \ {0, 1}
  BY ReportsAssumption DEF ReportsAssumption
<1>2. Newest \in Seq(1 .. Len(rows))
  BY NewestIs
<1>3. CASE cycles = "limit"
  BY <1>3, ActiveFirstIs DEF OverviewCycles, Most
<1>4. CASE cycles = "cut"
  <2>1. Len(ActiveCycle) \in {0, 1}
        /\ ActiveCycle \o CycleHistory(limit) = Firsts(Newest, limit + Len(ActiveCycle))
    BY ActiveAndClosed
  <2>2. limit \in Nat /\ limit + Len(ActiveCycle) \in Nat /\ limit <= limit + Len(ActiveCycle)
    BY <2>1
  <2>3. Firsts(Firsts(Newest, limit + Len(ActiveCycle)), limit) = Firsts(Newest, limit)
    BY <1>2, <2>2, CutAgain
  <2>4. QED
    BY <1>4, <2>1, <2>3 DEF OverviewCycles, Most
<1>5. CASE cycles = "default"
  <2>1. ActiveFirst(DefaultLimit) = Firsts(Newest, DefaultLimit)
    BY <1>1, ActiveFirstIs
  <2>2. QED
    BY <1>5, <2>1 DEF OverviewCycles, Most
<1>6. CASE cycles = "besides"
  <2>1. ActiveCycle \o CycleHistory(DefaultLimit) = Firsts(Newest, DefaultLimit + Len(ActiveCycle))
    BY <1>1, ActiveAndClosed
  <2>2. QED
    BY <1>6, <2>1 DEF OverviewCycles, Most
<1>7. CASE cycles = "newest"
  BY <1>7 DEF OverviewCycles, Most
<1>8. CASE cycles = "none"
  <2>1. Firsts(Newest, 0) = <<>>
    <3>1. Firsts(Newest, 0) \in Seq(1 .. Len(rows)) /\ Len(Firsts(Newest, 0)) = Smaller(0, Len(Newest))
      BY <1>2, FirstsAre
    <3>2. Smaller(0, Len(Newest)) = 0
      BY <1>2 DEF Smaller
    <3>3. QED
      BY <3>1, <3>2
  <2>2. OverviewCycles(cycles, limit) = <<>> /\ Most(cycles, limit) = 0
    BY <1>8 DEF OverviewCycles, Most
  <2>3. QED
    BY <2>1, <2>2
<1>9. QED
  BY <1>3, <1>4, <1>5, <1>6, <1>7, <1>8 DEF OverviewRules

-----------------------------------------------------------------------------
(* What the lists add up to *)

\* A total is no more than the way of a bound that rises with each entry.
LEMMA TotalBelow ==
  ASSUME NEW S, NEW table \in Seq(S), \A c \in S : c.delta \in Nat,
         NEW b \in [0 .. Len(table) -> Int],
         \A n \in 1 .. Len(table) : table[n].delta <= b[n] - b[n - 1]
  PROVE  TotalTracked(table) <= b[Len(table)] - b[0]
<1> DEFINE top == Len(table)
<1>1. PICK f \in [0 .. top -> Nat] : AddsUp(f, table, top) /\ TotalTracked(table) = f[top]
  BY TotalIsSumOf
<1>2. top \in Nat /\ \A n \in 1 .. top : table[n].delta \in Nat
  OBVIOUS
<1>3. \A n \in 1 .. top : table[n].delta <= b[n] - b[n - 1]
  OBVIOUS
<1> HIDE DEF top
<1>4. \A n \in 0 .. top : f[n] \in Nat /\ b[n] \in Int
  BY <1>1 DEF top
<1>5. \A n \in 0 .. top : f[n] = IF n = 0 THEN 0 ELSE f[n - 1] + table[n].delta
  BY <1>1 DEF AddsUp
<1>6. \A n \in 0 .. top : f[n] <= b[n] - b[0]
  <2> DEFINE bad == {n \in 0 .. top : ~(f[n] <= b[n] - b[0])}
  <2>1. SUFFICES ASSUME bad # {} PROVE FALSE
    OBVIOUS
  <2>2. bad \in SUBSET Nat
    BY <1>2
  <2>3. PICK n \in bad : \A m \in bad : n <= m
    <3> HIDE DEF bad
    <3>1. QED
      BY <2>1, <2>2, LowestRow
  <2>4. n \in 0 .. top /\ ~(f[n] <= b[n] - b[0])
    OBVIOUS
  <2>5. n # 0
    <3>1. 0 \in 0 .. top
      BY <1>2
    <3>2. f[0] = 0 /\ b[0] \in Int
      BY <1>4, <1>5, <3>1
    <3>3. QED
      BY <2>4, <3>2
  <2> DEFINE m == n - 1
  <2>6. m \in 0 .. top /\ n \in 1 .. top /\ m < n /\ 0 \in 0 .. top
    BY <1>2, <2>4, <2>5
  <2>7. f[m] <= b[m] - b[0]
    BY <2>3, <2>4, <2>6
  <2>8. f[n] = f[m] + table[n].delta /\ table[n].delta <= b[n] - b[m]
    BY <1>3, <1>5, <2>5, <2>6
  <2>9. f[m] \in Nat /\ b[m] \in Int /\ b[n] \in Int /\ b[0] \in Int /\ table[n].delta \in Nat
    BY <1>2, <1>4, <2>6
  <2> HIDE DEF m
  <2>10. QED
    BY <2>4, <2>7, <2>8, <2>9
<1>7. top \in 0 .. top
  BY <1>2
<1>8. QED
  BY <1>1, <1>6, <1>7 DEF top

\* The entries of a list of cycles.
Entries == [start : Int, end : Int, peak : Int, delta : Nat]

\* Two snapshots, of which the quota was read and, if it is a model of MiniMax, in use.
Tracked(x) == x.has /\ (kind = "minimax" => x.row # 0)

\* e says how much had ever been used at each snapshot: between two of them no more was
\* used than the difference, nor after the last.
Spends(e) ==
    /\ e \in [1 .. Len(snapshots) -> Nat]
    /\ \A n \in 1 .. Len(snapshots) : e[n] <= quota.ever
    /\ \A n, m \in 1 .. Len(snapshots) : n < m => e[n] <= e[m]
    /\ \A n, m \in 1 .. Len(snapshots) : n < m /\ Tracked(snapshots[n]) /\ Tracked(snapshots[m]) =>
           snapshots[m].used - snapshots[n].used <= e[m] - e[n]
    /\ \A n \in 1 .. Len(snapshots) : Tracked(snapshots[n]) =>
           quota.used - snapshots[n].used <= quota.ever - e[n]

SpendInv == \E e : Spends(e)

\* Of a table that lists the newest cycles, the total is no more than that of all.
LEMMA StoredBelow ==
  ASSUME TrackerInv, NEW k \in Nat, NEW table \in Seq(Entries),
         Len(table) = Len(Firsts(Newest, k)),
         \A n \in 1 .. Len(table) : table[n].delta = rows[Firsts(Newest, k)[n]].delta
  PROVE  TotalTracked(table) <= TotalTracked(rows)
<1> DEFINE top == Len(rows)
           l == Len(table)
<1>1. /\ top \in Nat /\ Newest \in Seq(1 .. top) /\ Len(Newest) = top
      /\ \A n \in 1 .. top : Newest[n] = top + 1 - n
  BY NewestIs
<1>2. /\ Len(Firsts(Newest, k)) = Smaller(k, Len(Newest))
      /\ \A n \in 1 .. Smaller(k, Len(Newest)) : Firsts(Newest, k)[n] = Newest[n]
  BY <1>1, FirstsAre
<1>3. rows \in Seq(Row)
  BY DEF TrackerInv, TableOK
<1>4. PICK f \in [0 .. top -> Nat] : AddsUp(f, rows, top) /\ TotalTracked(rows) = f[top]
  BY <1>3, TotalIsSum
<1>5. l \in Nat /\ l <= top /\ \A n \in 1 .. l : table[n].delta = rows[top + 1 - n].delta
  <2>1. l = Smaller(k, top) /\ l \in Nat /\ l <= top
    BY <1>1, <1>2 DEF Smaller
  <2>2. ASSUME NEW n \in 1 .. l PROVE table[n].delta = rows[top + 1 - n].delta
    <3>1. n \in 1 .. top /\ n \in 1 .. Smaller(k, Len(Newest))
      BY <1>1, <2>1
    <3>2. Firsts(Newest, k)[n] = top + 1 - n
      BY <1>1, <1>2, <3>1
    <3>3. QED
      BY <3>2
  <2>3. QED
    BY <2>1, <2>2
<1> DEFINE b == [n \in 0 .. l |-> 0 - f[top - n]]
<1> HIDE DEF top, l
<1>6. \A n \in 0 .. l : b[n] = 0 - f[top - n] /\ top - n \in 0 .. top /\ f[top - n] \in Nat
  BY <1>1, <1>4, <1>5
<1>7. b \in [0 .. l -> Int]
  BY <1>6
<1>8. ASSUME NEW n \in 1 .. l
      PROVE  table[n].delta <= b[n] - b[n - 1]
  <2> DEFINE i == top + 1 - n
  <2>1. i \in 1 .. top /\ i \in 0 .. top /\ i # 0 /\ top - n = i - 1 /\ top - (n - 1) = i
        /\ n \in 0 .. l /\ n - 1 \in 0 .. l
    BY <1>1, <1>5
  <2>2. f[i] = f[i - 1] + rows[i].delta
    BY <1>4, <2>1 DEF AddsUp
  <2>3. b[n] = 0 - f[i - 1] /\ b[n - 1] = 0 - f[i] /\ f[i] \in Nat /\ f[i - 1] \in Nat
    BY <1>6, <2>1
  <2>4. rows[i].delta \in Nat
    <3>1. rows[i] \in Row
      BY <1>3, <2>1 DEF top
    <3>2. QED
      BY <3>1 DEF Row
  <2>5. table[n].delta = rows[i].delta
    BY <1>5
  <2> HIDE DEF i, b
  <2>6. QED
    BY <2>2, <2>3, <2>4, <2>5
<1>9. b[l] = 0 - f[top - l] /\ b[0] = 0 - f[top] /\ f[top - l] \in Nat /\ f[top] \in Nat
  <2>1. l \in 0 .. l /\ 0 \in 0 .. l /\ top - 0 = top
    BY <1>1, <1>5
  <2>2. QED
    BY <1>6, <2>1
<1> HIDE DEF b
<1>10. TotalTracked(table) <= b[l] - b[0]
  <2>1. \A c \in Entries : c.delta \in Nat
    BY DEF Entries
  <2>2. QED
    BY <1>7, <1>8, <2>1, TotalBelow DEF l
<1>11. TotalTracked(table) \in Int
  <2>1. \A c \in Entries : c.delta \in Nat
    BY DEF Entries
  <2>2. PICK g \in [0 .. l -> Nat] : TotalTracked(table) = g[l]
    BY <2>1, TotalIsSumOf DEF l
  <2>3. l \in 0 .. l
    BY <1>5
  <2>4. QED
    BY <2>2, <2>3
<1>12. QED
  BY <1>4, <1>9, <1>10, <1>11

\* The list of the stored cycles begins with the newest and adds up to no more than all.
LEMMA StoredList ==
  ASSUME TrackerInv
  PROVE  /\ rows # <<>> => StoredCycles[1].start = Last(rows).start
         /\ TotalTracked(StoredCycles) \in Nat /\ TotalTracked(StoredCycles) <= TotalTracked(rows)
<1> DEFINE listed == ActiveCycle \o CycleHistory(ListLimit)
           k == ListLimit + Len(ActiveCycle)
           Line(n) == Entry(rows[listed[n]].start, rows[listed[n]].end,
                            rows[listed[n]].peak, rows[listed[n]].delta)
           l == Len(listed)
           made == [n \in 1 .. l |-> Line(n)]
<1>1. listed = Firsts(Newest, k) /\ k \in Nat /\ k >= 1
  BY ReportsAssumption, ActiveAndClosed DEF ReportsAssumption
<1>2. /\ Len(rows) \in Nat /\ Newest \in Seq(1 .. Len(rows)) /\ Len(Newest) = Len(rows)
      /\ \A n \in 1 .. Len(rows) : Newest[n] = Len(rows) + 1 - n
  BY NewestIs
<1>3. StoredCycles = [n \in DOMAIN listed |-> Line(n)]
  BY DEF StoredCycles
<1> HIDE DEF listed, k
<1>4. /\ listed \in Seq(1 .. Len(rows)) /\ l = Smaller(k, Len(rows))
      /\ \A n \in 1 .. Smaller(k, Len(rows)) : listed[n] = Newest[n]
  BY <1>1, <1>2, FirstsAre
<1>5. l \in Nat /\ DOMAIN listed = 1 .. l /\ StoredCycles = made
  BY <1>3, <1>4
<1>6. ASSUME NEW n \in 1 .. l
      PROVE  Line(n) \in Entries /\ Line(n).delta = rows[listed[n]].delta
             /\ Line(n).start = rows[listed[n]].start
  <2>1. listed[n] \in 1 .. Len(rows)
    BY <1>4
  <2>2. rows[listed[n]] \in Row
    BY <2>1 DEF TrackerInv, TableOK
  <2>3. /\ rows[listed[n]].start \in Int /\ rows[listed[n]].end \in Int
        /\ rows[listed[n]].peak \in Int /\ rows[listed[n]].delta \in Nat
    BY <2>2 DEF Row
  <2>4. QED
    BY <2>3 DEF Entry, Entries
<1> HIDE DEF Line, l
<1>7. made \in Seq(Entries) /\ Len(made) = l /\ \A n \in 1 .. l : made[n] = Line(n)
  BY <1>5, <1>6
<1> HIDE DEF made
<1>8. TotalTracked(made) <= TotalTracked(rows)
  <2>1. Len(made) = Len(Firsts(Newest, k))
    BY <1>1, <1>7 DEF l
  <2>2. \A n \in 1 .. Len(made) : made[n].delta = rows[Firsts(Newest, k)[n]].delta
    BY <1>1, <1>6, <1>7
  <2>3. QED
    BY <1>1, <1>7, <2>1, <2>2, StoredBelow
<1>9. ASSUME rows # <<>>
      PROVE  made[1].start = Last(rows).start
  <2>1. Len(rows) >= 1
    BY <1>9 DEF TrackerInv, TableOK
  <2>2. 1 \in 1 .. l /\ 1 \in 1 .. Smaller(k, Len(rows)) /\ 1 \in 1 .. Len(rows)
    BY <1>1, <1>2, <1>4, <2>1 DEF Smaller
  <2>3. listed[1] = Len(rows)
    BY <1>2, <1>4, <2>2
  <2>4. QED
    BY <1>6, <1>7, <2>2, <2>3 DEF Last
<1>10. TotalTracked(made) \in Nat
  <2>1. \A c \in Entries : c.delta \in Nat
    BY DEF Entries
  <2>2. PICK f \in [0 .. l -> Nat] : TotalTracked(made) = f[l]
    BY <1>7, <2>1, TotalIsSumOf
  <2>3. l \in 0 .. l
    BY <1>5
  <2>4. QED
    BY <2>2, <2>3
<1>11. QED
  BY <1>5, <1>8, <1>9, <1>10

\* The points of a series are tracked snapshots that h names, one after the other.
Found(h, points) ==
    /\ h \in [1 .. Len(points) -> 1 .. Len(snapshots)]
    /\ \A m \in 1 .. Len(points) : points[m] = snapshots[h[m]] /\ Tracked(points[m])
    /\ \A m, k \in 1 .. Len(points) : m < k => h[m] < h[k]

\* There are such names, if the range has no model of MiniMax that is not in use.
LEMMA PointsFound ==
  ASSUME snapshots \in Seq(Snapshot),
         kind = "minimax" => \A s \in ToSet(InRange(RangeBack)) : s.has => s.row # 0
  PROVE  /\ WithQuota(InRange(RangeBack)) \in Seq(Snapshot)
         /\ \E h : Found(h, WithQuota(InRange(RangeBack)))
<1> DEFINE places == {s \in DOMAIN snapshots : now - RangeBack <= snapshots[s].time}
           all == InRange(RangeBack)
           having == {n \in DOMAIN all : all[n].has}
           points == WithQuota(all)
<1>1. all = EntriesAt(snapshots, places)
  BY DEF InRange
<1> HIDE DEF places, all
<1>2. all \in Seq(Snapshot) /\ \E g : Named(g, all, snapshots, places, Len(snapshots))
  BY <1>1, EntriesNamed
<1>3. PICK g : Named(g, all, snapshots, places, Len(snapshots))
  BY <1>2
<1>4. points = EntriesAt(all, having)
  BY DEF WithQuota
<1>5. \A n \in 1 .. Len(all) : n \in having => Tracked(all[n])
  <2>1. SUFFICES ASSUME NEW n \in 1 .. Len(all), n \in having PROVE Tracked(all[n])
    OBVIOUS
  <2>2. all[n].has /\ all[n] \in ToSet(all)
    BY <1>2, <2>1 DEF ToSet
  <2>3. QED
    BY <2>2 DEF Tracked, all
<1> HIDE DEF points, having
<1>6. points \in Seq(Snapshot) /\ \E h : Named(h, points, all, having, Len(all))
  BY <1>2, <1>4, EntriesNamed
<1>7. PICK h : Named(h, points, all, having, Len(all))
  BY <1>6
<1> DEFINE both == [m \in 1 .. Len(points) |-> g[h[m]]]
<1>8. ASSUME NEW m \in 1 .. Len(points)
      PROVE  /\ h[m] \in 1 .. Len(all) /\ both[m] = g[h[m]] /\ both[m] \in 1 .. Len(snapshots)
             /\ points[m] = snapshots[both[m]] /\ Tracked(points[m])
  <2>1. h[m] \in 1 .. Len(all) /\ h[m] \in having /\ points[m] = all[h[m]]
    BY <1>7 DEF Named
  <2>2. g[h[m]] \in 1 .. Len(snapshots) /\ all[h[m]] = snapshots[g[h[m]]]
    BY <1>3, <2>1 DEF Named
  <2>3. QED
    BY <1>5, <2>1, <2>2
<1>9. ASSUME NEW m \in 1 .. Len(points), NEW k \in 1 .. Len(points), m < k
      PROVE  both[m] < both[k]
  <2>1. h[m] < h[k]
    BY <1>7, <1>9 DEF Named
  <2>2. g[h[m]] < g[h[k]]
    BY <1>3, <1>8, <2>1 DEF Named
  <2>3. QED
    BY <2>2
<1>10. both \in [1 .. Len(points) -> 1 .. Len(snapshots)]
  BY <1>8
<1> HIDE DEF both
<1>11. Found(both, points)
  BY <1>8, <1>9, <1>10 DEF Found
<1>12. QED
  BY <1>6, <1>11 DEF points, all

\* A rise between two points is no more than what was used between them.
LEMMA RiseIsSpent ==
  ASSUME snapshots \in Seq(Snapshot), NEW e, Spends(e), NEW points \in Seq(Snapshot),
         NEW h, Found(h, points), NEW n \in 1 .. Len(points)
  PROVE  /\ RiseListed(points, n) \in Nat
         /\ e[h[n]] \in Nat /\ e[h[n]] <= quota.ever
         /\ n = 1 => RiseListed(points, n) = 0
         /\ n # 1 => RiseListed(points, n) <= e[h[n]] - e[h[n - 1]]
<1>1. h[n] \in 1 .. Len(snapshots) /\ e[h[n]] \in Nat /\ e[h[n]] <= quota.ever
  BY DEF Found, Spends
<1>2. CASE n = 1
  <2>1. RiseListed(points, n) = 0
    BY <1>2 DEF RiseListed
  <2>2. QED
    BY <1>1, <1>2, <2>1
<1>3. CASE n # 1
  <2> DEFINE m == n - 1
             a == points[m].used
             b == points[n].used
  <2>1. m \in 1 .. Len(points) /\ m < n /\ n > 1
    BY <1>3
  <2>2. h[m] \in 1 .. Len(snapshots) /\ e[h[m]] \in Nat /\ h[m] < h[n]
    BY <2>1 DEF Found, Spends
  <2>3. e[h[m]] <= e[h[n]]
    BY <1>1, <2>2 DEF Spends
  <2>4. b - a <= e[h[n]] - e[h[m]]
    <3>1. /\ points[n] = snapshots[h[n]] /\ points[m] = snapshots[h[m]]
          /\ Tracked(points[n]) /\ Tracked(points[m])
      BY <2>1 DEF Found
    <3>2. snapshots[h[n]].used - snapshots[h[m]].used <= e[h[n]] - e[h[m]]
      BY <1>1, <2>2, <3>1 DEF Spends
    <3>3. QED
      BY <3>1, <3>2
  <2>5. a \in Int /\ b \in Int
    <3>1. points[n] \in Snapshot /\ points[m] \in Snapshot
      BY <2>1
    <3>2. \A x \in Snapshot : x.used \in Int
      BY DEF Snapshot
    <3>3. QED
      BY <3>1, <3>2
  <2>6. RiseListed(points, n) = IF b > a THEN b - a ELSE 0
    BY <2>1 DEF RiseListed
  <2> HIDE DEF a, b, m
  <2>7. RiseListed(points, n) \in Nat /\ RiseListed(points, n) <= e[h[n]] - e[h[m]]
    BY <1>1, <2>2, <2>3, <2>4, <2>5, <2>6
  <2>8. QED
    BY <1>1, <1>3, <2>7 DEF m
<1>4. QED
  BY <1>2, <1>3

\* So a series adds up to no more than was ever used.
LEMMA SeriesBelow ==
  ASSUME snapshots \in Seq(Snapshot), quota.ever \in Nat, NEW e, Spends(e),
         kind = "minimax" => \A s \in ToSet(InRange(RangeBack)) : s.has => s.row # 0
  PROVE  TotalTracked(Series) <= quota.ever
<1> DEFINE points == WithQuota(InRange(RangeBack))
           top == Len(points)
           Line(n) == Entry(points[n].time, IF n < Len(points) THEN points[n + 1].time ELSE None,
                            points[n].used, RiseListed(points, n))
           made == [n \in 1 .. top |-> Line(n)]
<1>1. points \in Seq(Snapshot) /\ \E h : Found(h, points)
  BY PointsFound
<1>2. Series = Reverse([n \in DOMAIN points |-> Line(n)])
  BY DEF Series
<1> HIDE DEF points
<1>3. PICK h : Found(h, points)
  BY <1>1
<1>4. top \in Nat /\ DOMAIN points = 1 .. top
  BY <1>1
<1>5. ASSUME NEW n \in 1 .. top
      PROVE  Line(n) \in Entries /\ Line(n).delta = RiseListed(points, n)
  <2>1. RiseListed(points, n) \in Nat
    BY <1>1, <1>3, RiseIsSpent
  <2>2. points[n] \in Snapshot /\ (n < Len(points) => points[n + 1] \in Snapshot)
    BY <1>1
  <2>3. /\ points[n].time \in Int /\ points[n].used \in Int
        /\ (n < Len(points) => points[n + 1].time \in Int)
    BY <2>2 DEF Snapshot
  <2> DEFINE end == IF n < Len(points) THEN points[n + 1].time ELSE None
  <2>4. end \in Int
    BY <2>3 DEF None
  <2> HIDE DEF end
  <2>5. QED
    BY <2>1, <2>3, <2>4 DEF Entry, Entries, end
<1>6. Series = Reverse(made)
  BY <1>2, <1>4
<1> HIDE DEF Line, top
<1>7. made \in Seq(Entries) /\ Len(made) = top /\ \A n \in 1 .. top : made[n] = Line(n)
  BY <1>4, <1>5
<1> HIDE DEF made
<1> DEFINE back == [n \in 1 .. top |-> made[top - n + 1]]
<1>8. Series = back
  BY <1>6, <1>7 DEF Reverse
<1>9. ASSUME NEW n \in 1 .. top
      PROVE  back[n] \in Entries /\ back[n].delta = RiseListed(points, top - n + 1)
  <2>1. top - n + 1 \in 1 .. top
    BY <1>4
  <2>2. QED
    BY <1>5, <1>7, <2>1
<1>10. back \in Seq(Entries) /\ Len(back) = top
  BY <1>4, <1>9
<1> HIDE DEF back
<1> DEFINE b == [n \in 0 .. top |-> IF n < top THEN 0 - e[h[top - n]] ELSE 0]
<1>11. ASSUME NEW n \in 0 .. top, n < top
       PROVE  top - n \in 1 .. top /\ e[h[top - n]] \in Nat /\ e[h[top - n]] <= quota.ever
  <2>1. top - n \in 1 .. Len(points)
    BY <1>4, <1>11 DEF top
  <2>2. QED
    BY <1>1, <1>3, <2>1, RiseIsSpent DEF top
<1>12. \A n \in 0 .. top : b[n] = (IF n < top THEN 0 - e[h[top - n]] ELSE 0) /\ b[n] \in Int
  BY <1>11
<1>13. b \in [0 .. top -> Int]
  BY <1>12
<1> HIDE DEF b
<1>14. ASSUME NEW n \in 1 .. top
       PROVE  back[n].delta <= b[n] - b[n - 1]
  <2> DEFINE i == top - n + 1
  <2>1. /\ i \in 1 .. top /\ n - 1 \in 0 .. top /\ n - 1 < top /\ top - (n - 1) = i
        /\ n \in 0 .. top
    BY <1>4
  <2>2. back[n].delta = RiseListed(points, i)
    BY <1>9
  <2>3. b[n - 1] = 0 - e[h[i]] /\ e[h[i]] \in Nat
    BY <1>11, <1>12, <2>1
  <2>4. i \in 1 .. Len(points)
    BY <2>1 DEF top
  <2> HIDE DEF i
  <2>5. /\ RiseListed(points, i) \in Nat
        /\ i = 1 => RiseListed(points, i) = 0
        /\ i # 1 => RiseListed(points, i) <= e[h[i]] - e[h[i - 1]]
    BY <1>1, <1>3, <2>4, RiseIsSpent
  <2>6. CASE n = top
    <3>1. i = 1 /\ b[n] = 0
      BY <1>4, <1>12, <2>1, <2>6 DEF i
    <3>2. QED
      BY <2>2, <2>3, <2>5, <3>1
  <2>7. CASE n # top
    <3>1. i # 1 /\ n < top /\ top - n = i - 1
      BY <1>4, <2>1, <2>7 DEF i
    <3>2. b[n] = 0 - e[h[i - 1]] /\ e[h[i - 1]] \in Nat
      BY <1>11, <1>12, <2>1, <3>1
    <3>3. QED
      BY <2>2, <2>3, <2>5, <3>1, <3>2
  <2>8. QED
    BY <2>6, <2>7
<1>15. TotalTracked(back) <= b[top] - b[0]
  <2>1. \A c \in Entries : c.delta \in Nat
    BY DEF Entries
  <2>2. QED
    BY <1>10, <1>13, <1>14, <2>1, TotalBelow
<1>16. TotalTracked(back) \in Int
  <2>1. \A c \in Entries : c.delta \in Nat
    BY DEF Entries
  <2>2. PICK f \in [0 .. top -> Nat] : TotalTracked(back) = f[top]
    BY <1>10, <2>1, TotalIsSumOf
  <2>3. top \in 0 .. top
    BY <1>4
  <2>4. QED
    BY <2>2, <2>3
<1>17. b[top] = 0 /\ b[0] \in Int /\ 0 - b[0] <= quota.ever
  <2>1. top \in 0 .. top /\ 0 \in 0 .. top /\ top - 0 = top
    BY <1>4
  <2>2. b[top] = 0 /\ b[0] = (IF 0 < top THEN 0 - e[h[top]] ELSE 0) /\ b[0] \in Int
    BY <1>4, <1>12, <2>1
  <2>3. 0 < top => e[h[top]] \in Nat /\ e[h[top]] <= quota.ever
    BY <1>11, <2>1
  <2>4. QED
    BY <2>2, <2>3
<1>18. QED
  BY <1>8, <1>15, <1>16, <1>17

\* The overviews and the lists agree with one another and with what was used.
LEMMA InvCyclesAgree ==
  ASSUME ReportsInv, RoomInv, SpendInv
  PROVE  CyclesAgree
<1>1. TrackerInv /\ snapshots \in Seq(Snapshot) /\ kind \in AllKinds /\ quota.ever \in Nat
  BY RoomTypes DEF ReportsInv, PollsInv, SnapshotsOK, TrackerInv, CountsOK
<1>2. ASSUME NEW cycles \in {Overviews[kind].cycles, OverviewBoth},
             NEW limit \in 2 .. Len(rows) + 1
      PROVE  OverviewCycles(cycles, limit) = Firsts(Newest, Most(cycles, limit))
  <2>1. cycles \in OverviewRules
    BY <1>1, OverviewRulesAre
  <2>2. limit \in Nat \ {0, 1}
    OBVIOUS
  <2>3. QED
    BY <1>1, <2>1, <2>2, OverviewIsNewest
<1>3. ASSUME "delta" \in Rules[kind].counts => faults = 0
      PROVE  TotalTracked(rows) <= quota.ever
  <2>1. ~(CountsReset /\ faults > 0)
    BY <1>3 DEF CountsReset
  <2>2. QED
    BY <1>1, <2>1, RoomTypes DEF RoomInv
<1>4. ASSUME "delta" \in Rules[kind].counts => faults = 0
      PROVE  TotalTracked(StoredCycles) <= quota.ever
  <2>1. TotalTracked(rows) <= quota.ever /\ TotalTracked(StoredCycles) <= TotalTracked(rows)
    BY <1>1, <1>3, <1>4, StoredList
  <2>2. TotalTracked(StoredCycles) \in Int /\ TotalTracked(rows) \in Int
    BY <1>1, RoomTypes, StoredList
  <2>3. QED
    BY <1>1, <2>1, <2>2
<1>5. ASSUME kind = "minimax" => \A s \in ToSet(InRange(RangeBack)) : s.has => s.row # 0
      PROVE  TotalTracked(Series) <= quota.ever
  <2>1. PICK e : Spends(e)
    BY DEF SpendInv
  <2>2. QED
    BY <1>1, <1>5, <2>1, SeriesBelow
<1>6. Cycles("stored") = StoredCycles /\ Cycles("series") = Series
  BY DEF Cycles
<1>7. QED
  BY <1>1, <1>2, <1>4, <1>5, <1>6, StoredList DEF CyclesAgree

-----------------------------------------------------------------------------
(* What the polls keep of it *)

\* One more snapshot: what had ever been used at it is what was ever used by now.
LEMMA StoredSpends ==
  ASSUME TrackerInv, snapshots \in Seq(Snapshot), SpendInv, UNCHANGED <<kind, quota>>,
         NEW used, NEW has, NEW row, Stored(used, has, row),
         has /\ (kind = "minimax" => row # 0) => used = quota.used
  PROVE  SpendInv'
<1> DEFINE new == [time |-> now, used |-> used, has |-> has, row |-> row]
           top == Len(snapshots)
<1>1. PICK e : Spends(e)
  BY DEF SpendInv
<1>2. PICK f : f = [n \in 1 .. top + 1 |-> IF n \in 1 .. top THEN e[n] ELSE quota.ever]
  OBVIOUS
<1>3. snapshots' = Append(snapshots, new) /\ quota' = quota /\ kind' = kind
  BY DEF Stored
<1>4. new.used = used /\ (Tracked(new) => used = quota.used)
  BY DEF Tracked
<1> HIDE DEF new
<1>5. /\ top \in Nat /\ Len(snapshots') = top + 1 /\ snapshots'[top + 1] = new
      /\ \A n \in 1 .. top : snapshots'[n] = snapshots[n] /\ snapshots[n].used \in Int
  <2>1. \A n \in 1 .. top : snapshots[n] \in Snapshot
    OBVIOUS
  <2>2. \A n \in 1 .. top : snapshots[n].used \in Int
    BY <2>1 DEF Snapshot
  <2>3. QED
    BY <1>3, <2>2
<1> HIDE DEF top
<1>6. quota.ever \in Nat /\ quota.used \in Nat
  BY RoomTypes
<1>7. ASSUME NEW n \in 1 .. top
      PROVE  /\ f[n] = e[n] /\ f[n] \in Nat /\ f[n] <= quota.ever /\ snapshots'[n] = snapshots[n]
             /\ Tracked(snapshots[n]) => quota.used - snapshots[n].used <= quota.ever - e[n]
  <2>1. n \in 1 .. top + 1
    BY <1>5
  <2>2. e[n] \in Nat /\ e[n] <= quota.ever
    BY <1>1 DEF Spends, top
  <2>3. Tracked(snapshots[n]) => quota.used - snapshots[n].used <= quota.ever - e[n]
    BY <1>1 DEF Spends, top
  <2>4. QED
    BY <1>2, <1>5, <2>1, <2>2, <2>3
<1>8. f[top + 1] = quota.ever
  <2>1. top + 1 \in 1 .. top + 1 /\ top + 1 \notin 1 .. top
    BY <1>5
  <2>2. QED
    BY <1>2, <2>1
<1>9. f \in [1 .. top + 1 -> Nat]
  BY <1>1, <1>2, <1>6 DEF Spends, top
<1>10. \A n \in 1 .. top + 1 : n = top + 1 \/ n \in 1 .. top
  BY <1>5
<1>11. ASSUME NEW n \in 1 .. top + 1
       PROVE  /\ f[n] <= quota.ever
              /\ Tracked(snapshots'[n]) => quota.used - snapshots'[n].used <= quota.ever - f[n]
  <2>1. CASE n \in 1 .. top
    BY <1>7, <2>1
  <2>2. CASE n = top + 1
    <3>1. f[n] = quota.ever /\ snapshots'[n] = new
      BY <1>5, <1>8, <2>2
    <3>2. QED
      BY <1>4, <1>6, <3>1
  <2>3. QED
    BY <1>10, <2>1, <2>2
<1>12. ASSUME NEW n \in 1 .. top + 1, NEW m \in 1 .. top + 1, n < m
       PROVE  /\ f[n] <= f[m]
              /\ Tracked(snapshots'[n]) /\ Tracked(snapshots'[m]) =>
                     snapshots'[m].used - snapshots'[n].used <= f[m] - f[n]
  <2>1. n \in 1 .. top
    BY <1>5, <1>12
  <2>2. CASE m \in 1 .. top
    <3>1. /\ e[n] <= e[m]
          /\ Tracked(snapshots[n]) /\ Tracked(snapshots[m]) =>
                 snapshots[m].used - snapshots[n].used <= e[m] - e[n]
      BY <1>1, <1>12, <2>1, <2>2 DEF Spends, top
    <3>2. QED
      BY <1>7, <2>1, <2>2, <3>1
  <2>3. CASE m = top + 1
    <3>1. f[m] = quota.ever /\ snapshots'[m] = new
      BY <1>5, <1>8, <2>3
    <3>2. Tracked(new) => new.used = quota.used
      BY <1>4
    <3>3. QED
      BY <1>7, <2>1, <3>1, <3>2
  <2>4. QED
    BY <1>10, <2>2, <2>3
<1>13. Spends(f)'
  BY <1>3, <1>5, <1>9, <1>11, <1>12 DEF Spends, Tracked
<1>14. QED
  BY <1>13 DEF SpendInv

\* Where more is used, the account goes up by as much.
LEMMA StaysCovered ==
  ASSUME NEW a \in Int, NEW d \in Nat, NEW ever \in Nat, NEW u \in Nat, NEW units \in Nat,
         NEW v \in {u + units, units}, u - a <= ever - d
  PROVE  v - a <= (ever + units) - d
OBVIOUS

\* The same snapshots: no less is used, and no more than the account says.
LEMMA SameSpends ==
  ASSUME TrackerInv, snapshots \in Seq(Snapshot), SpendInv, snapshots' = snapshots, kind' = kind,
         NEW units \in Nat, quota'.ever = quota.ever + units,
         quota'.used \in {quota.used + units, units}
  PROVE  SpendInv'
<1>1. PICK e : Spends(e)
  BY DEF SpendInv
<1>2. quota.ever \in Nat /\ quota.used \in Nat
  BY RoomTypes
<1>4. ASSUME NEW n \in 1 .. Len(snapshots)
      PROVE  /\ e[n] <= quota'.ever
             /\ Tracked(snapshots[n]) => quota'.used - snapshots[n].used <= quota'.ever - e[n]
  <2>1. e[n] \in Nat /\ e[n] <= quota.ever
    BY <1>1 DEF Spends
  <2>2. Tracked(snapshots[n]) => quota.used - snapshots[n].used <= quota.ever - e[n]
    BY <1>1 DEF Spends
  <2>3. snapshots[n] \in Snapshot
    OBVIOUS
  <2>4. snapshots[n].used \in Int
    BY <2>3 DEF Snapshot
  <2>5. e[n] <= quota'.ever
    BY <1>2, <2>1
  <2>6. Tracked(snapshots[n]) => quota'.used - snapshots[n].used <= quota'.ever - e[n]
    BY <1>2, <2>1, <2>2, <2>4, StaysCovered
  <2>7. QED
    BY <2>5, <2>6
<1>5. Spends(e)'
  <2>1. \A n \in 1 .. Len(snapshots) : Tracked(snapshots[n])' <=> Tracked(snapshots[n])
    BY DEF Tracked
  <2>2. e \in [1 .. Len(snapshots) -> Nat] /\ \A n, m \in 1 .. Len(snapshots) : n < m => e[n] <= e[m]
    BY <1>1 DEF Spends
  <2>3. \A n, m \in 1 .. Len(snapshots) : n < m /\ Tracked(snapshots[n]) /\ Tracked(snapshots[m]) =>
           snapshots[m].used - snapshots[n].used <= e[m] - e[n]
    BY <1>1 DEF Spends
  <2>4. QED
    BY <1>4, <2>1, <2>2, <2>3 DEF Spends
<1>6. QED
  BY <1>5 DEF SpendInv

\* Old snapshots are deleted, which are the first ones.
LEMMA PruneSpends ==
  ASSUME snapshots \in Seq(Snapshot), SpendInv, NEW enforced \in BOOLEAN, Prune(enforced)
  PROVE  SpendInv'
<1>1. PICK k \in 0 .. Len(snapshots) : snapshots' = SubSeq(snapshots, k + 1, Len(snapshots))
  BY PruneLeavesLast
<1>2. Len(snapshots) \in Nat /\ kind' = kind /\ quota' = quota
  BY DEF Prune
<1> DEFINE top == Len(snapshots) - k
<1>3. /\ top \in Nat /\ Len(snapshots') = top
      /\ \A i \in 1 .. top : k + i \in 1 .. Len(snapshots) /\ snapshots'[i] = snapshots[k + i]
  BY <1>1, <1>2
<1>4. PICK e : Spends(e)
  BY DEF SpendInv
<1>5. PICK f : f = [i \in 1 .. top |-> e[k + i]]
  OBVIOUS
<1> HIDE DEF top
<1>6. f \in [1 .. top -> Nat]
  BY <1>3, <1>4, <1>5 DEF Spends
<1>7. ASSUME NEW n \in 1 .. top
      PROVE  /\ f[n] <= quota.ever
             /\ Tracked(snapshots'[n]) => quota.used - snapshots'[n].used <= quota.ever - f[n]
  <2>1. k + n \in 1 .. Len(snapshots) /\ f[n] = e[k + n] /\ snapshots'[n] = snapshots[k + n]
    BY <1>3, <1>5
  <2>2. QED
    BY <1>4, <2>1 DEF Spends
<1>8. ASSUME NEW n \in 1 .. top, NEW m \in 1 .. top, n < m
      PROVE  /\ f[n] <= f[m]
             /\ Tracked(snapshots'[n]) /\ Tracked(snapshots'[m]) =>
                    snapshots'[m].used - snapshots'[n].used <= f[m] - f[n]
  <2>1. /\ k + n \in 1 .. Len(snapshots) /\ f[n] = e[k + n] /\ snapshots'[n] = snapshots[k + n]
        /\ k + m \in 1 .. Len(snapshots) /\ f[m] = e[k + m] /\ snapshots'[m] = snapshots[k + m]
    BY <1>3, <1>5
  <2>2. k + n < k + m
    BY <1>3, <1>8
  <2>3. QED
    BY <1>4, <2>1, <2>2 DEF Spends
<1>9. Spends(f)'
  BY <1>2, <1>3, <1>6, <1>7, <1>8 DEF Spends, Tracked
<1>10. QED
  BY <1>9 DEF SpendInv

\* A step that leaves what was used and the snapshots as they are.
LEMMA StillSpends ==
  ASSUME TrackerInv, snapshots \in Seq(Snapshot), SpendInv, UNCHANGED <<snapshots, kind, quota>>
  PROVE  SpendInv'
<1>1. /\ 0 \in Nat /\ quota'.ever = quota.ever + 0
      /\ quota'.used \in {quota.used + 0, 0}
  BY RoomTypes
<1>2. QED
  BY <1>1, SameSpends

\* And one that leaves all that the room is made of.
LEMMA StillRoom ==
  ASSUME TrackerInv, RoomInv, UNCHANGED <<kind, quota, rows, memory>>,
         faults' \in {faults, faults + 1}
  PROVE  RoomInv'
<1>1. faults' \in Nat /\ faults' >= faults
  BY RoomTypes
<1>2. Unseen' = Unseen
  BY DEF Unseen
<1>3. QED
  BY <1>1, <1>2, RoomTypes, RoomKept

\* What the reports rest on.
TotalsInv == RoomInv /\ SpendInv

\* Every step of the polls keeps it.
LEMMA TotalsStepOK ==
  ASSUME ReportsInv, TotalsInv, [PollsNext]_PollVars
  PROVE  TotalsInv'
<1>1. TrackerInv /\ snapshots \in Seq(Snapshot) /\ RoomInv /\ SpendInv
  BY DEF ReportsInv, PollsInv, SnapshotsOK, TotalsInv
<1>2. CASE PollsTick
  <2>1. Tick /\ snapshots' = snapshots
    BY <1>2 DEF PollsTick
  <2>2. kind' = kind
    BY <2>1 DEF Tick
  <2>3. PICK units \in Nat :
           quota'.ever = quota.ever + units /\ quota'.used \in {quota.used + units, units}
    BY <1>1, <2>1, TickIsUse
  <2>4. SpendInv'
    BY <1>1, <2>1, <2>2, <2>3, SameSpends
  <2>5. QED
    BY <1>1, <2>1, <2>4, TickKeepsRoom DEF TotalsInv
<1>3. CASE UNCHANGED PollVars
  <2>1. UNCHANGED <<kind, rows, memory, quota, faults, snapshots>>
    BY <1>3 DEF PollVars
  <2>2. QED
    BY <1>1, <2>1, StillRoom, StillSpends DEF TotalsInv
<1>4. CASE PollsHorizon
  BY <1>3, <1>4 DEF PollsHorizon, Horizon, TrackerVars, PollVars
<1>5. ASSUME NEW s \in Sample, NEW complete \in BOOLEAN, PollStores(s, complete)
      PROVE  TotalsInv'
  <2>1. /\ Processed(s, complete) /\ faults' \in {faults, faults + 1}
        /\ Stored(s.used, TRUE, Len(rows')) /\ s.used = quota.used
    BY <1>1, <1>5, SampleIsCurrent DEF PollStores, Process
  <2>2. UNCHANGED <<kind, quota>>
    BY <2>1 DEF Processed
  <2>3. SpendInv'
    BY <1>1, <2>1, <2>2, StoredSpends
  <2>4. QED
    BY <1>1, <2>1, <2>3, ProcessedKeepsRoom DEF TotalsInv
<1>6. CASE PollEnds
  <2>1. UNCHANGED <<kind, rows, memory, quota, snapshots>> /\ faults' = faults + 1
    BY <1>6 DEF PollEnds
  <2>2. QED
    BY <1>1, <2>1, StillRoom, StillSpends DEF TotalsInv
<1>7. ASSUME NEW s \in Sample, PollGoesOn(s)
      PROVE  TotalsInv'
  <2>1. Processed(s, TRUE) /\ faults' = faults + 1 /\ snapshots' = snapshots
    BY <1>7 DEF PollGoesOn
  <2>2. UNCHANGED <<kind, quota>>
    BY <2>1 DEF Processed
  <2>3. QED
    BY <1>1, <2>1, <2>2, ProcessedKeepsRoom, StillSpends DEF TotalsInv
<1>8. ASSUME NEW s \in Sample, PollTrackerFails(s)
      PROVE  TotalsInv'
  <2>1. ProcessFails(s) /\ Stored(s.used, TRUE, 0) /\ s.used = quota.used
    BY <1>1, <1>8, SampleIsCurrent DEF PollTrackerFails
  <2>2. UNCHANGED <<kind, quota>>
    BY <2>1 DEF ProcessFails
  <2>3. SpendInv'
    BY <1>1, <2>1, <2>2, StoredSpends
  <2>4. QED
    BY <1>1, <2>1, <2>3, FailureKeepsRoom DEF TotalsInv
<1>9. CASE PollWithoutQuota
  <2>1. Absent /\ Stored(0, FALSE, 0)
    BY <1>9 DEF PollWithoutQuota
  <2>2. UNCHANGED <<kind, quota>>
    BY <2>1 DEF Absent
  <2>3. SpendInv'
    BY <1>1, <2>1, <2>2, StoredSpends
  <2>4. QED
    BY <1>1, <2>1, <2>3, AbsentKeepsRoom DEF TotalsInv
<1>10. ASSUME NEW listed \in BOOLEAN, NEW othersUsed \in BOOLEAN, PollWithoutUse(listed, othersUsed)
       PROVE  TotalsInv'
  <2>1. ModelUnused(listed, othersUsed) /\ Stored(0, listed, 0)
    BY <1>10 DEF PollWithoutUse
  <2>2. UNCHANGED <<kind, quota>> /\ kind = "minimax"
    BY <2>1 DEF ModelUnused
  <2>3. SpendInv'
    BY <1>1, <2>1, <2>2, StoredSpends
  <2>4. QED
    BY <1>1, <2>1, <2>3, UnusedKeepsRoom DEF TotalsInv
<1>11. CASE RestartPolls
  <2>1. RestartTracker /\ (snapshots' = snapshots \/ Stored(quota.used, TRUE, 0))
    BY <1>11 DEF RestartPolls
  <2>2. UNCHANGED <<kind, quota>>
    BY <2>1 DEF RestartTracker
  <2>3. SpendInv'
    <3>1. CASE snapshots' = snapshots
      BY <1>1, <2>2, <3>1, StillSpends
    <3>2. CASE Stored(quota.used, TRUE, 0)
      BY <1>1, <2>2, <3>2, StoredSpends
    <3>3. QED
      BY <2>1, <3>1, <3>2
  <2>4. QED
    BY <1>1, <2>1, <2>3, RestartKeepsRoom DEF TotalsInv
<1>12. ASSUME NEW enforced \in BOOLEAN, Prune(enforced)
       PROVE  TotalsInv'
  <2>1. UNCHANGED <<kind, rows, memory, quota, faults>>
    BY <1>12 DEF Prune
  <2>2. QED
    BY <1>1, <1>12, <2>1, StillRoom, PruneSpends DEF TotalsInv
<1>13. QED
  BY <1>2, <1>3, <1>4, <1>5, <1>6, <1>7, <1>8, <1>9, <1>10, <1>11, <1>12 DEF PollsNext

-----------------------------------------------------------------------------
(* What the invariant says of the polls *)

\* The variables of the polls have their types.
LEMMA PollsInvHasTypes ==
  ASSUME PollsInv
  PROVE  PollsTypeOK
<1>1. TrackerTypeOK
  BY InvHasTypes DEF PollsInv
<1>2. QED
  BY <1>1 DEF PollsInv, SnapshotsOK, AlertsOK, PollsTypeOK

\* The invariant of the polls, and of the reports made of what they store.
THEOREM PollsInvariant == PollsSpec => []ReportsInv
<1>1. PollsInit => ReportsInv
  <2>1. SUFFICES ASSUME PollsInit PROVE ReportsInv
    OBVIOUS
  <2>2. rows = <<>> /\ snapshots = <<>>
    BY <2>1 DEF PollsInit, TrackerInit
  <2>3. InOrder /\ CurrentOK
    BY <2>2 DEF InOrder, CurrentOK
  <2>4. QED
    BY <2>1, <2>3, PollsInitOK DEF ReportsInv
<1>2. ReportsInv /\ [PollsNext]_PollVars => ReportsInv'
  BY ReportsStepOK
<1>3. QED
  BY <1>1, <1>2, PTL DEF PollsSpec

\* The variables of the polls keep their types.
THEOREM PollsTypeCorrect == PollsSpec => []PollsTypeOK
<1>1. ReportsInv => PollsTypeOK
  BY PollsInvHasTypes DEF ReportsInv
<1>2. QED
  BY <1>1, PollsInvariant, PTL

\* Unless a reset was cut short, what the log holds was sent in the cycle that is open.
THEOREM PollsAlertIsOfThisCycle == PollsSpec => []AlertIsOfThisCycle
<1>1. ReportsInv => AlertIsOfThisCycle
  BY DEF ReportsInv, PollsInv, AlertsOK
<1>2. QED
  BY <1>1, PollsInvariant, PTL

\* The values that an overview shows at the peak of a cycle were counted for this cycle.
THEOREM PollsOverviewShowsItsCycle == PollsSpec => []OverviewShowsItsCycle
<1>1. ReportsInv => OverviewShowsItsCycle
  BY InvShowsItsCycle DEF ReportsInv
<1>2. QED
  BY <1>1, PollsInvariant, PTL

\* As long as no poll was cut short, the current value is of the active cycle.
THEOREM PollsCurrentIsOfActiveCycle == PollsSpec => []CurrentIsOfActiveCycle
<1>1. ReportsInv => CurrentIsOfActiveCycle
  BY InvShowsCurrent
<1>2. QED
  BY <1>1, PollsInvariant, PTL

\* What the dashboard shows of a quota in several places is the same, whichever query and
\* loop a place has, and no total is of more than was used.
THEOREM PollsReportsAgree == PollsSpec => []ReportsAgree
<1>1. PollsInit => TotalsInv
  <2>1. SUFFICES ASSUME PollsInit PROVE TotalsInv
    OBVIOUS
  <2>2. rows = <<>> /\ quota.ever = 0 /\ memory.known = FALSE /\ snapshots = <<>>
    BY <2>1 DEF PollsInit, TrackerInit, Forgotten
  <2>3. RoomInv
    BY <2>2, NoTotal DEF RoomInv, Unseen
  <2>4. Spends([n \in 1 .. 0 |-> 0])
    BY <2>2 DEF Spends
  <2>5. QED
    BY <2>3, <2>4 DEF TotalsInv, SpendInv
<1>2. ReportsInv /\ TotalsInv /\ [PollsNext]_PollVars => TotalsInv'
  BY TotalsStepOK
<1>3. ReportsInv /\ TotalsInv => ReportsAgree
  BY InvSamplesAgree, InvCyclesAgree DEF TotalsInv, ReportsAgree
<1>4. QED
  BY <1>1, <1>2, <1>3, PollsInvariant, PTL DEF PollsSpec
=============================================================================
