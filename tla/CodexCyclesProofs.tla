------------------------- MODULE CodexCyclesProofs -------------------------
(***************************************************************************)
(* Machine-checked proofs about CodexCycles, for every set of accounts,    *)
(* every set of utilizations and thresholds, every length of the grace     *)
(* period, and every combination of faults.                                *)
(*                                                                         *)
(* That cycles are in order is not inductive by itself: a cycle ends at    *)
(* the reset time of its row, or at the capture of the sample in hand, and *)
(* one has to know of both how they lie to the start of the row and to the *)
(* end of the row before.                                                  *)
(*                                                                         *)
(* Of the alerts it is proved, for one account, that none is sent twice in *)
(* a cycle, and that the log does not outlive its cycle.                   *)
(***************************************************************************)
EXTENDS CodexCycles, TLAPS

\* The sample in hand was captured after the last cycle ended and after the
\* row it will be counted for began, and it reports a reset to come.
SampleInHand(a) ==
    ~At(a, "idle") =>
        /\ last[a].end <= job[a].at
        /\ row[a].start <= job[a].at
        /\ job[a].resetsAt # Unknown => job[a].at < job[a].resetsAt

\* Nothing is stamped with a time to come, and no row is due before it begins.
Stamps(a) ==
    /\ job[a].at <= now
    /\ last[a].end <= now
    /\ row[a].start <= now
    /\ row[a].resetsAt # Unknown => row[a].start < row[a].resetsAt

InOrder(a) ==
    /\ last[a].start <= last[a].end
    /\ row[a].open => last[a].end <= row[a].start

IInv == TypeOK /\ \A a \in Accounts : SampleInHand(a) /\ Stamps(a) /\ InOrder(a)

USE CyclesAssumption DEF Unknown

-----------------------------------------------------------------------------

\* A step that takes up no new sample: an agent keeps the one in hand, or
\* drops it.
SamplesKept ==
    /\ job' \in [Accounts -> Job]
    /\ \A b \in Accounts :
         \/ job'[b] = job[b]
         \/ job'[b].at = 0 /\ job'[b].pc = "idle"
         \/ /\ job'[b].at = job[b].at
            /\ job'[b].resetsAt = job[b].resetsAt
            /\ ~At(b, "idle")

\* An agent that goes on keeps its sample.
LEMMA GotoKeepsSamples ==
  ASSUME TypeOK, NEW a \in Accounts, ~At(a, "idle"), NEW point \in Points, Goto(a, point)
  PROVE  SamplesKept
<1> USE DEF Goto
<1>1. NoJob \in Job
  BY DEF NoJob, Job, Points, Types
<1>2. [job[a] EXCEPT !.pc = point] \in Job
  <2>1. job[a] \in Job /\ job \in [Accounts -> Job]
    BY DEF TypeOK
  <2>2. QED
    BY <2>1 DEF Job
<1> USE DEF TypeOK
<1>3. job' \in [Accounts -> Job]
  BY <1>1, <1>2
<1>4. CASE point = "idle"
  <2>1. \A b \in Accounts : job'[b] = IF b = a THEN NoJob ELSE job[b]
    BY <1>4
  <2>2. QED
    BY <1>3, <2>1 DEF NoJob, SamplesKept
<1>5. CASE point # "idle"
  <2>1. \A b \in Accounts :
          job'[b] = IF b = a THEN [job[a] EXCEPT !.pc = point] ELSE job[b]
    BY <1>5
  <2>2. QED
    BY <1>3, <1>5, <2>1 DEF Job, SamplesKept, At
<1>6. QED
  BY <1>4, <1>5

\* The same of an alert that is sent or held back.
LEMMA RaiseKeepsSamples ==
  ASSUME TypeOK, NEW a \in Accounts, NEW type \in Types, NEW key \in Accounts,
         NEW point \in Points, ~At(a, "idle"), Raise(a, type, key, point)
  PROVE  SamplesKept
<1>1. CASE Goto(a, point)
  BY <1>1, GotoKeepsSamples
<1>2. CASE job' = [job EXCEPT ![a].pc = "send", ![a].type = type, ![a].key = key]
  <2>0. job[a] \in Job
    BY DEF TypeOK
  <2>1. [job[a] EXCEPT !.pc = "send", !.type = type, !.key = key] \in Job
    BY <2>0 DEF Job, Points
  <2>2. job' = [job EXCEPT ![a] = [job[a] EXCEPT !.pc = "send", !.type = type, !.key = key]]
    BY <1>2
  <2>3. QED
    BY <2>1, <2>2 DEF TypeOK, Job, At, SamplesKept
<1>3. QED
  BY <1>1, <1>2 DEF Raise

\* A step that leaves the rows alone and takes up no sample keeps the order.
LEMMA RowsUntouched ==
  ASSUME IInv, SamplesKept, UNCHANGED <<row, last>>, now' \in 0 .. MaxTime, now <= now'
  PROVE  \A a \in Accounts : SampleInHand(a)' /\ Stamps(a)' /\ InOrder(a)'
<1> SUFFICES ASSUME NEW a \in Accounts
             PROVE  SampleInHand(a)' /\ Stamps(a)' /\ InOrder(a)'
  OBVIOUS
<1>1. /\ job[a].at \in Int /\ job[a].at <= now /\ now \in Int /\ now >= 0
      /\ last[a].end \in Int /\ row[a].start \in Int
  BY DEF IInv, TypeOK, Job, Row, Stamps
<1>2. SampleInHand(a) /\ Stamps(a) /\ InOrder(a)
  BY DEF IInv
<1>3. \/ job'[a] = job[a]
      \/ job'[a].at = 0 /\ job'[a].pc = "idle"
      \/ job'[a].at = job[a].at /\ job'[a].resetsAt = job[a].resetsAt /\ ~At(a, "idle")
  BY DEF SamplesKept
<1>4. row'[a] = row[a] /\ last'[a] = last[a]
  OBVIOUS
<1>5. SampleInHand(a)'
  BY <1>2, <1>3, <1>4 DEF SampleInHand, At
<1>6. Stamps(a)'
  BY <1>1, <1>2, <1>3, <1>4 DEF Stamps
<1>7. InOrder(a)'
  BY <1>2, <1>4 DEF InOrder
<1>8. QED
  BY <1>5, <1>6, <1>7

-----------------------------------------------------------------------------

\* At first no row is open and no sample is in hand.
LEMMA InitIInv == Init => IInv
<1> SUFFICES ASSUME Init PROVE IInv
  OBVIOUS
<1> USE DEF Init
<1>1. NoJob \in Job /\ NoRow \in Row
  BY DEF NoJob, NoRow, Job, Row, Points, Types
<1>2. TypeOK
  BY <1>1 DEF TypeOK, Nothing
<1>3. ASSUME NEW a \in Accounts
      PROVE  SampleInHand(a) /\ Stamps(a) /\ InOrder(a)
  BY DEF SampleInHand, Stamps, InOrder, At, NoJob, NoRow
<1>4. QED
  BY <1>2, <1>3 DEF IInv

\* What the store calls do to the rows, and to what is counted for them.
LEMMA StoreTyped ==
  ASSUME TypeOK, NEW a \in Accounts, Create(a) \/ SetPeak(a) \/ Close(a) \/ Move(a) \/ Update(a)
  PROVE  TypeOK'
<1> DEFINE Last == [start : Int, end : Int, peak : Int, high : Int]
           Memory == [has : BOOLEAN, util : Int, resetsAt : Int]
<1>1. /\ job \in [Accounts -> Job] /\ job[a] \in Job /\ row \in [Accounts -> Row]
      /\ row[a] \in Row /\ memory \in [Accounts -> Memory] /\ memory[a] \in Memory
      /\ last \in [Accounts -> Last] /\ high \in [Accounts -> Int] /\ high[a] \in Int
  BY DEF TypeOK
<1>2. /\ job[a].at \in 0 .. MaxTime /\ job[a].util \in Int /\ job[a].resetsAt \in Int
      /\ row[a].open \in BOOLEAN /\ row[a].start \in 0 .. MaxTime
      /\ row[a].resetsAt \in Int /\ row[a].peak \in Int
      /\ memory[a].has \in BOOLEAN /\ memory[a].util \in Int /\ memory[a].resetsAt \in Int
  BY <1>1 DEF Job, Row
<1>3. ASSUME NEW point \in Points, Goto(a, point), ~At(a, "idle") PROVE job' \in [Accounts -> Job]
  BY <1>3, GotoKeepsSamples DEF SamplesKept
<1>4. ASSUME Remember(a) PROVE memory' \in [Accounts -> Memory]
  <2>1. PICK has \in {TRUE} \cup (IF "store" \in Faults THEN {memory[a].has} ELSE {}) :
          memory' = [memory EXCEPT ![a] =
            [has |-> has, util |-> job[a].util,
             resetsAt |-> IF job[a].resetsAt # Unknown THEN job[a].resetsAt ELSE memory[a].resetsAt]]
    BY <1>4 DEF Remember
  <2> DEFINE resetsAt == IF job[a].resetsAt # Unknown THEN job[a].resetsAt ELSE memory[a].resetsAt
  <2>2. has \in BOOLEAN
    BY <1>2
  <2>3. resetsAt \in Int
    BY <1>2
  <2>4. memory' = [memory EXCEPT ![a] = [has |-> has, util |-> job[a].util, resetsAt |-> resetsAt]]
    BY <2>1
  <2> HIDE DEF resetsAt
  <2>5. QED
    BY <1>1, <1>2, <2>2, <2>3, <2>4
<1>5. CASE Create(a)
  <2>1. [open |-> TRUE, start |-> job[a].at, resetsAt |-> job[a].resetsAt, peak |-> 0] \in Row
    BY <1>2 DEF Row
  <2>2. row' \in [Accounts -> Row]
    BY <1>1, <1>5, <2>1 DEF Create
  <2>3. job' \in [Accounts -> Job]
    BY <1>3, <1>5 DEF Create, At, Points
  <2>4. sent' \in [Accounts -> [Types -> 0 .. 2]]
    BY <1>5 DEF Create, TypeOK
  <2>5. high' \in [Accounts -> Int] /\ unlogged' \in [Accounts -> SUBSET Types]
    BY <1>5 DEF Create, TypeOK
  <2>6. QED
    BY <1>5, <2>2, <2>3, <2>4, <2>5 DEF Create, TypeOK
<1>6. CASE SetPeak(a)
  <2>1. [row[a] EXCEPT !.peak = job[a].util] \in Row
    BY <1>1, <1>2 DEF Row
  <2>2. row' \in [Accounts -> Row] /\ high' \in [Accounts -> Int]
    BY <1>1, <1>2, <1>6, <2>1 DEF SetPeak
  <2>3. job' \in [Accounts -> Job] /\ memory' \in [Accounts -> Memory]
    BY <1>3, <1>4, <1>6 DEF SetPeak, At, Points
  <2>4. QED
    BY <1>6, <2>2, <2>3 DEF SetPeak, TypeOK, alerting
<1>7. CASE Close(a)
  <2> DEFINE due == row[a].resetsAt # Unknown /\ job[a].at > row[a].resetsAt
             known == memory[a].has /\ memory[a].util # Unknown
             end == IF due THEN row[a].resetsAt ELSE job[a].at
             peak == IF known THEN Larger(row[a].peak, job[a].util) ELSE row[a].peak
  <2>1. end \in Int /\ peak \in Int
    BY <1>2 DEF Larger
  <2>2. last' = [last EXCEPT ![a] = [start |-> row[a].start, end |-> end, peak |-> peak,
                                     high |-> high[a]]]
    BY <1>7 DEF Close
  <2> HIDE DEF end, peak
  <2>3. last' \in [Accounts -> Last]
    BY <1>1, <1>2, <2>1, <2>2
  <2>4. row' \in [Accounts -> Row]
    BY <1>1, <1>7 DEF Close, NoRow, Row
  <2>5. job' \in [Accounts -> Job]
    BY <1>3, <1>7 DEF Close, At, Points
  <2>6. QED
    BY <1>7, <2>3, <2>4, <2>5 DEF Close, TypeOK, alerting
<1>8. CASE Move(a)
  <2>1. [row[a] EXCEPT !.resetsAt = job[a].resetsAt] \in Row
    BY <1>1, <1>2 DEF Row
  <2>2. row' \in [Accounts -> Row] /\ memory' \in [Accounts -> Memory]
    BY <1>1, <1>2, <1>8, <2>1 DEF Move
  <2>3. job' \in [Accounts -> Job]
    BY <1>3, <1>8 DEF Move, At, Points
  <2>4. QED
    BY <1>8, <2>2, <2>3 DEF Move, TypeOK, alerting
<1>9. CASE Update(a)
  <2> DEFINE peak == NewPeak(a)
  <2>1. peak \in Int
    BY <1>2 DEF NewPeak, Larger
  <2>2. row' = [row EXCEPT ![a].peak = peak]
    BY <1>9 DEF Update
  <2> HIDE DEF peak
  <2>3. row' \in [Accounts -> Row]
    BY <1>1, <2>1, <2>2 DEF Row
  <2>4. high' \in [Accounts -> Int]
    BY <1>1, <1>2, <1>9 DEF Update, Larger
  <2>5. job' \in [Accounts -> Job] /\ memory' \in [Accounts -> Memory]
    BY <1>3, <1>4, <1>9 DEF Update, At, Points
  <2>6. QED
    BY <1>9, <2>3, <2>4, <2>5 DEF Update, TypeOK, alerting
<1>10. QED
  BY <1>5, <1>6, <1>7, <1>8, <1>9

\* A cycle ends at the capture in hand or at a reset time before it, and the
\* row that follows starts at the same capture.
LEMMA StoreKeepsOrder ==
  ASSUME IInv, NEW a \in Accounts, Create(a) \/ SetPeak(a) \/ Close(a) \/ Move(a) \/ Update(a)
  PROVE  \A b \in Accounts : SampleInHand(b)' /\ Stamps(b)' /\ InOrder(b)'
<1> SUFFICES ASSUME NEW b \in Accounts
             PROVE  SampleInHand(b)' /\ Stamps(b)' /\ InOrder(b)'
  OBVIOUS
<1> DEFINE Last == [start : Int, end : Int, peak : Int, high : Int]
<1>1. /\ job \in [Accounts -> Job] /\ row \in [Accounts -> Row] /\ last \in [Accounts -> Last]
      /\ job[b] \in Job /\ row[b] \in Row /\ last[b] \in Last /\ now \in 0 .. MaxTime
  BY DEF IInv, TypeOK
<1>2. /\ job[b].at \in 0 .. MaxTime /\ job[b].resetsAt \in Int
      /\ row[b].start \in 0 .. MaxTime /\ row[b].resetsAt \in Int
      /\ last[b].start \in Int /\ last[b].end \in Int
  BY <1>1 DEF Job, Row
<1>3. SampleInHand(b) /\ Stamps(b) /\ InOrder(b)
  BY DEF IInv
<1>4. SamplesKept /\ now' = now /\ ~At(a, "idle")
  <2>1. ~At(a, "idle") /\ now' = now
    BY DEF At, Create, SetPeak, Close, Move, Update
  <2>2. \E point \in Points : Goto(a, point)
    BY DEF Create, SetPeak, Close, Move, Update, Points, At
  <2>3. QED
    BY <2>1, <2>2, GotoKeepsSamples DEF IInv
<1>5. \/ job'[b] = job[b]
      \/ job'[b].at = 0 /\ job'[b].pc = "idle"
      \/ job'[b].at = job[b].at /\ job'[b].resetsAt = job[b].resetsAt /\ ~At(b, "idle")
  BY <1>4 DEF SamplesKept
<1>6. CASE row'[b] = row[b] /\ last'[b] = last[b]
  BY <1>1, <1>2, <1>3, <1>4, <1>5, <1>6 DEF SampleInHand, Stamps, InOrder, At
<1>7. CASE b = a /\ Create(a)
  <2>1. /\ row'[b].start = job[b].at /\ row'[b].resetsAt = job[b].resetsAt /\ row'[b].open
        /\ last'[b] = last[b]
    BY <1>1, <1>7 DEF Create
  <2>2. ~At(b, "idle")
    BY <1>4, <1>7
  <2>3. SampleInHand(b)'
    BY <1>2, <1>3, <1>5, <2>1, <2>2 DEF SampleInHand, At
  <2>4. Stamps(b)'
    BY <1>1, <1>2, <1>3, <1>4, <1>5, <2>1, <2>2 DEF SampleInHand, Stamps, At
  <2>5. InOrder(b)'
    BY <1>3, <2>1, <2>2 DEF SampleInHand, InOrder
  <2>6. QED
    BY <2>3, <2>4, <2>5
<1>8. CASE b = a /\ Close(a)
  <2>1. row'[b] = NoRow
    BY <1>1, <1>8 DEF Close
  <2>2. /\ last'[b].start = row[b].start
        /\ last'[b].end = IF row[b].resetsAt # Unknown /\ job[b].at > row[b].resetsAt
                         THEN row[b].resetsAt ELSE job[b].at
    BY <1>1, <1>8 DEF Close
  <2>3. /\ row'[b].start = 0 /\ row'[b].resetsAt = Unknown /\ ~row'[b].open
    BY <2>1 DEF NoRow
  <2>4. /\ row[b].start <= last'[b].end /\ last'[b].end <= job[b].at /\ last'[b].end \in Int
        /\ job[b].at <= now
    BY <1>2, <1>3, <1>4, <1>8, <2>2 DEF SampleInHand, Stamps, At
  <2>5. SampleInHand(b)'
    BY <1>2, <1>3, <1>5, <2>3, <2>4 DEF SampleInHand, At
  <2>6. Stamps(b)'
    BY <1>1, <1>2, <1>4, <1>5, <2>3, <2>4 DEF Stamps
  <2>7. InOrder(b)'
    BY <2>2, <2>3, <2>4 DEF InOrder
  <2>8. QED
    BY <2>5, <2>6, <2>7
<1>9. CASE b = a /\ Move(a)
  <2>1. /\ row'[b].start = row[b].start /\ row'[b].resetsAt = job[b].resetsAt
        /\ row'[b].open = row[b].open /\ last'[b] = last[b]
    BY <1>1, <1>9 DEF Move, Row
  <2>2. QED
    BY <1>1, <1>2, <1>3, <1>4, <1>5, <1>9, <2>1 DEF SampleInHand, Stamps, InOrder, At
<1>10. CASE b = a /\ (SetPeak(a) \/ Update(a))
  <2>1. \E peak : row' = [row EXCEPT ![a].peak = peak]
    BY <1>10 DEF SetPeak, Update
  <2>2. /\ row'[b].start = row[b].start /\ row'[b].resetsAt = row[b].resetsAt
        /\ row'[b].open = row[b].open /\ last'[b] = last[b]
    BY <1>1, <1>10, <2>1 DEF SetPeak, Update, Row
  <2>3. QED
    BY <1>1, <1>2, <1>3, <1>4, <1>5, <2>2 DEF SampleInHand, Stamps, InOrder, At
<1>11. CASE b # a
  <2>1. row'[b] = row[b] /\ last'[b] = last[b]
    BY <1>1, <1>11 DEF Create, SetPeak, Close, Move, Update
  <2>2. QED
    BY <1>6, <2>1
<1>12. QED
  BY <1>7, <1>8, <1>9, <1>10, <1>11

\* The steps that take an agent from one store call to the next, and those of
\* the notification engine, which write no row.
LEMMA OtherStepsKeepSamples ==
  ASSUME TypeOK, NEW a \in Accounts,
         StoreFails(a) \/ Query(a) \/ AlertStep(a)
  PROVE  SamplesKept /\ TypeOK' /\ UNCHANGED <<now, row, last>>
<1>1. Default \in Accounts
  OBVIOUS
<1>2. CASE StoreFails(a)
  <2>1. SamplesKept
    BY <1>2, GotoKeepsSamples DEF StoreFails, At, Points
  <2>2. QED
    BY <1>2, <2>1 DEF StoreFails, SamplesKept, TypeOK, tracking, alerting
<1>3. CASE Query(a)
  <2>1. \E point \in Points : Goto(a, point)
    BY <1>3 DEF Query, Points
  <2>2. SamplesKept
    BY <1>3, <2>1, GotoKeepsSamples DEF Query, At
  <2>3. QED
    BY <1>3, <2>2 DEF Query, SamplesKept, TypeOK, tracking, alerting
<1>4. CASE OnReset(a)
  <2>1. ~At(a, "idle")
    BY <1>4 DEF OnReset, At
  <2>2. Goto(a, "check") \/ Raise(a, "reset", Default, "check")
    BY <1>4 DEF OnReset
  <2>3. SamplesKept
    BY <1>1, <2>1, <2>2, GotoKeepsSamples, RaiseKeepsSamples DEF Points, Types
  <2>4. log' \in [Accounts -> SUBSET Types]
    BY <1>1, <1>4 DEF OnReset, TypeOK
  <2>5. QED
    BY <1>4, <2>3, <2>4 DEF OnReset, SamplesKept, TypeOK, tracking
<1>5. CASE Check(a)
  <2>1. ~At(a, "idle")
    BY <1>5 DEF Check, At
  <2>2. Goto(a, "idle") \/ Raise(a, "critical", a, "idle") \/ Raise(a, "warning", a, "idle")
    BY <1>5 DEF Check
  <2>3. SamplesKept
    BY <2>1, <2>2, GotoKeepsSamples, RaiseKeepsSamples DEF Points, Types
  <2>4. QED
    BY <1>5, <2>3 DEF Check, SamplesKept, TypeOK, tracking
<1>6. CASE Send(a)
  <2>1. SamplesKept
    BY <1>6, GotoKeepsSamples DEF Send, At, Points
  <2>2. sent' \in [Accounts -> [Types -> 0 .. 2]]
    <3>1. job[a].type \in Types /\ sent[a] \in [Types -> 0 .. 2] /\ sent[a][job[a].type] \in 0 .. 2
      BY DEF TypeOK, Job
    <3> DEFINE n == IF sent[a][job[a].type] < 2 THEN sent[a][job[a].type] + 1 ELSE 2
    <3>2. n \in 0 .. 2
      BY <3>1
    <3>3. sent' = [sent EXCEPT ![a] = [sent[a] EXCEPT ![job[a].type] = n]]
      BY <1>6 DEF Send, TypeOK
    <3> HIDE DEF n
    <3>4. QED
      BY <3>1, <3>2, <3>3 DEF TypeOK
  <2>3. QED
    BY <1>6, <2>1, <2>2 DEF Send, SamplesKept, TypeOK, tracking
<1>7. CASE SendFails(a)
  <2>1. SamplesKept
    BY <1>7, GotoKeepsSamples DEF SendFails, AfterAlert, At, Points
  <2>2. QED
    BY <1>7, <2>1 DEF SendFails, SamplesKept, TypeOK, tracking, alerting
<1>8. CASE Log(a)
  <2>1. SamplesKept
    BY <1>8, GotoKeepsSamples DEF Log, AfterAlert, At, Points
  <2>2. job[a].key \in Accounts /\ job[a].type \in Types
    BY DEF TypeOK, Job
  <2>3. log' \in [Accounts -> SUBSET Types]
    BY <1>8, <2>2 DEF Log, TypeOK
  <2>4. QED
    BY <1>8, <2>1, <2>3 DEF Log, SamplesKept, TypeOK, tracking
<1>9. CASE LogFails(a)
  <2>1. SamplesKept
    BY <1>9, GotoKeepsSamples DEF LogFails, AfterAlert, At, Points
  <2>2. job[a].type \in Types
    BY DEF TypeOK, Job
  <2>3. unlogged' \in [Accounts -> SUBSET Types]
    BY <1>9, <2>2 DEF LogFails, TypeOK
  <2>4. QED
    BY <1>9, <2>1, <2>3 DEF LogFails, SamplesKept, TypeOK, tracking
<1>10. QED
  BY <1>2, <1>3, <1>4, <1>5, <1>6, <1>7, <1>8, <1>9 DEF AlertStep

LEMMA StepIInv == IInv /\ [Next]_vars => IInv'
<1> SUFFICES ASSUME IInv, [Next]_vars PROVE IInv'
  OBVIOUS
<1>1. TypeOK /\ \A a \in Accounts : SampleInHand(a) /\ Stamps(a) /\ InOrder(a)
  BY DEF IInv
<1>2. ASSUME NEW a \in Accounts, Poll(a) PROVE IInv'
  <2>1. PICK u \in Utils, r \in {Unknown} \cup {now + d : d \in Ahead} :
          job' = [job EXCEPT ![a] = [NoJob EXCEPT !.pc = "query", !.util = u,
                                                  !.resetsAt = r, !.at = now]]
    BY <1>2 DEF Poll
  <2>2. UNCHANGED <<now, tracking, alerting, channels>>
    BY <1>2 DEF Poll
  <2> DEFINE taken == [NoJob EXCEPT !.pc = "query", !.util = u, !.resetsAt = r, !.at = now]
  <2>3. r \in Int /\ u \in Int /\ (r # Unknown => now < r) /\ now \in 0 .. MaxTime
    <3>1. now \in 0 .. MaxTime /\ u \in Nat /\ MaxTime \in Nat
      BY <1>1 DEF TypeOK
    <3>2. CASE r = Unknown
      BY <3>1, <3>2
    <3>3. CASE r \in {now + d : d \in Ahead}
      <4>1. PICK d \in Ahead : r = now + d
        BY <3>3
      <4>2. d \in Nat /\ d > 0
        OBVIOUS
      <4>3. QED
        BY <3>1, <4>1, <4>2
    <3>4. QED
      BY <3>2, <3>3
  <2>4. /\ taken \in Job /\ taken.at = now /\ taken.resetsAt = r
    BY <2>3 DEF NoJob, Job, Points, Types
  <2>5. job' = [job EXCEPT ![a] = taken]
    BY <2>1
  <2> HIDE DEF taken
  <2>6. TypeOK'
    BY <1>1, <2>2, <2>4, <2>5 DEF TypeOK, tracking, alerting
  <2>7. ASSUME NEW b \in Accounts
        PROVE  SampleInHand(b)' /\ Stamps(b)' /\ InOrder(b)'
    <3>1. now' = now /\ row'[b] = row[b] /\ last'[b] = last[b]
      BY <2>2 DEF tracking
    <3>2. job'[b] = IF b = a THEN taken ELSE job[b]
      BY <1>1, <2>5 DEF TypeOK
    <3>3. SampleInHand(b) /\ Stamps(b) /\ InOrder(b)
      BY <1>1
    <3>4. QED
      BY <2>3, <2>4, <3>1, <3>2, <3>3 DEF SampleInHand, Stamps, InOrder, At
  <2>8. QED
    BY <2>6, <2>7 DEF IInv
<1>3. ASSUME NEW a \in Accounts, PollWithoutQuota(a) PROVE IInv'
  <2>1. UNCHANGED <<now, job, row, last, high, alerting, channels>>
    BY <1>3 DEF PollWithoutQuota
  <2>2. TypeOK'
    BY <1>1, <1>3, <2>1 DEF PollWithoutQuota, TypeOK, alerting
  <2>3. QED
    BY <1>1, <2>1, <2>2 DEF IInv, SampleInHand, Stamps, InOrder, At
<1>4. ASSUME NEW a \in Accounts,
             Create(a) \/ SetPeak(a) \/ Close(a) \/ Move(a) \/ Update(a)
      PROVE  IInv'
  BY <1>1, <1>4, StoreTyped, StoreKeepsOrder DEF IInv
<1>5. ASSUME NEW a \in Accounts, StoreFails(a) \/ Query(a) \/ AlertStep(a) PROVE IInv'
  <2>1. SamplesKept /\ TypeOK' /\ UNCHANGED <<now, row, last>>
    BY <1>1, <1>5, OtherStepsKeepSamples
  <2>2. now' \in 0 .. MaxTime /\ now <= now'
    BY <1>1, <2>1 DEF TypeOK
  <2>3. QED
    BY <2>1, <2>2, RowsUntouched DEF IInv
<1>6. CASE Tick \/ SetChannels \/ Crash
  <2>1. TypeOK' /\ now <= now'
    <3>1. NoJob \in Job
      BY DEF NoJob, Job, Points, Types
    <3>2. CASE Tick
      BY <1>1, <3>2 DEF Tick, TypeOK, tracking, alerting
    <3>3. CASE SetChannels
      BY <1>1, <3>3 DEF SetChannels, TypeOK, tracking, alerting
    <3>4. CASE Crash
      <4>1. \A a \in Accounts : job[a].type \in Types
        BY <1>1 DEF TypeOK, Job
      <4>2. unlogged' \in [Accounts -> SUBSET Types]
        BY <1>1, <3>4, <4>1 DEF Crash, TypeOK
      <4>3. QED
        BY <1>1, <3>1, <3>4, <4>2 DEF Crash, TypeOK, Nothing
    <3>5. QED
      BY <1>6, <3>2, <3>3, <3>4
  <2>2. SamplesKept /\ UNCHANGED <<row, last>>
    BY <1>6, <2>1 DEF Tick, SetChannels, Crash, SamplesKept, TypeOK, tracking, NoJob
  <2>3. QED
    BY <2>1, <2>2, RowsUntouched DEF IInv, TypeOK
<1>7. CASE UNCHANGED vars
  BY <1>1, <1>7 DEF vars, tracking, alerting, IInv, TypeOK, SampleInHand, Stamps, InOrder, At
<1>8. QED
  BY <1>2, <1>3, <1>4, <1>5, <1>6, <1>7 DEF Next, TrackerStep

LEMMA Invariance == Spec => []IInv
BY InitIInv, StepIInv, PTL DEF Spec

-----------------------------------------------------------------------------

\* The rows of codex_reset_cycles, and what the agents remember, have their
\* types in every reachable state.
THEOREM TypeCorrect == Spec => []TypeOK
<1>1. IInv => TypeOK
  BY DEF IInv
<1>2. QED
  BY <1>1, Invariance, PTL

\* No cycle ends before it starts and no cycle starts before the one before it
\* has ended, whatever store call fails and wherever the daemon is killed.
THEOREM CyclesAreInOrder == Spec => []CyclesInOrder
<1>1. IInv => CyclesInOrder
  BY DEF IInv, InOrder, CyclesInOrder
<1>2. QED
  BY <1>1, Invariance, PTL

-----------------------------------------------------------------------------
(* The alerts of a daemon with one account.  With more, a reset clears the   *)
(* log of another account, and neither property holds.                       *)

OneAccount == Accounts = {Default}

\* The agent is at one of these points.
In(points) == job[Default].pc \in points

\* What was sent in the cycle is in the log, or on its way there, or its entry
\* was lost; what is about to be sent is not in the log.
SentIsLogged ==
    /\ In({"resetPeak", "onReset"}) => \A t \in Types : sent[Default][t] = 0
    /\ In({"send"}) => job[Default].type \notin log[Default]
    /\ \A t \in Types : sent[Default][t] > 0 =>
          \/ t \in log[Default] \/ t \in unlogged[Default]
          \/ In({"log"}) /\ job[Default].type = t
    /\ \A t \in Types : sent[Default][t] > 1 => t \in unlogged[Default]

\* Where no store call fails, the daemon is not killed and a channel is there:
\* what the log holds was sent in the cycle, except from the end of a cycle to
\* the callback, and a log without a cycle is empty.
LoggedIsSent ==
    /\ channels
    /\ ~In({"recreate", "resetPeak", "onReset"}) =>
          \A t \in log[Default] \ {"reset"} : sent[Default][t] > 0
    /\ ~row[Default].open =>
          \/ In({"recreate"})
          \/ In({"idle", "query", "create"}) /\ log[Default] = {}
    /\ In({"create"}) => ~row[Default].open
    /\ In({"log"}) => sent[Default][job[Default].type] > 0

\* Where the agent goes, and what it has in hand there.
LEMMA GotoPoint ==
  ASSUME TypeOK, NEW point, Goto(Default, point)
  PROVE  /\ job'[Default].pc = point
         /\ point # "idle" => job'[Default].type = job[Default].type
<1>1. job \in [Accounts -> Job] /\ Default \in Accounts
  BY DEF TypeOK
<1>2. QED
  BY <1>1 DEF Goto, NoJob, Job

\* An alert is about to be sent, and is not in the log, or the agent goes on.
LEMMA RaisePoint ==
  ASSUME TypeOK, NEW type, NEW point, Raise(Default, type, Default, point)
  PROVE  \/ job'[Default].pc = point /\ type \in log'[Default]
         \/ job'[Default].pc = "send" /\ job'[Default].type = type /\ type \notin log'[Default]
<1>1. job \in [Accounts -> Job] /\ Default \in Accounts
  BY DEF TypeOK
<1>2. QED
  BY <1>1, GotoPoint DEF Raise, Job

\* Every step of the agent, by what it does to the log and to what was sent.
LEMMA AlertSteps ==
  ASSUME TypeOK, OneAccount, [Next]_vars
  PROVE  \/ /\ UNCHANGED <<log, sent, unlogged>>
            /\ \/ job' = job
               \/ In({"idle"}) /\ job'[Default].pc = "query"
               \/ In({"query"}) /\ job'[Default].pc \in {"create", "close", "move", "update"}
               \/ In({"setPeak"}) /\ job'[Default].pc = "check"
               \/ In({"resetPeak"}) /\ job'[Default].pc = "onReset"
               \/ In({"close"}) /\ job'[Default].pc = "recreate"
               \/ In({"move"}) /\ job'[Default].pc = "update"
               \/ In({"update", "send"}) /\ job'[Default].pc \in {"check", "idle"}
               \/ StoreFails(Default) /\ job'[Default].pc = "check"
               \/ In({"check"}) /\ job'[Default].pc = "idle"
               \/ /\ In({"check"}) /\ job'[Default].pc = "send"
                  /\ job'[Default].type \notin log[Default]
               \/ /\ "store" \in Faults /\ In({"onReset"}) /\ job'[Default].pc = "check"
               \/ /\ In({"onReset"}) /\ ~channels /\ job'[Default].pc = "check"
               \/ /\ "store" \in Faults /\ In({"onReset"}) /\ job'[Default].pc = "send"
                  /\ job'[Default].type \notin log[Default]
         \/ Create(Default)
         \/ /\ OnReset(Default) /\ log'[Default] = {} /\ UNCHANGED <<sent, unlogged>>
            /\ job'[Default].pc \in {"check", "send"}
         \/ Send(Default) \/ Log(Default) \/ LogFails(Default) \/ Crash
<1>0. job \in [Accounts -> Job] /\ Default \in Accounts /\ log \in [Accounts -> SUBSET Types]
  BY DEF TypeOK
<1>1. CASE Tick \/ SetChannels \/ PollWithoutQuota(Default) \/ UNCHANGED vars
  BY <1>1 DEF Tick, SetChannels, PollWithoutQuota, vars, alerting
<1>2. CASE Poll(Default)
  BY <1>0, <1>2 DEF Poll, At, In, alerting, NoJob
<1>3. CASE StoreFails(Default)
  BY <1>3, GotoPoint DEF StoreFails, alerting
<1>4. CASE Query(Default)
  BY <1>4, GotoPoint DEF Query, At, In, alerting
<1>5. CASE SetPeak(Default) \/ Close(Default) \/ Move(Default) \/ Update(Default)
  <2>1. UNCHANGED <<log, sent, unlogged>>
    BY <1>5 DEF SetPeak, Close, Move, Update, alerting
  <2>2. CASE SetPeak(Default)
    BY <2>1, <2>2, GotoPoint DEF SetPeak, At, In
  <2>3. CASE Close(Default) \/ Move(Default) \/ Update(Default)
    BY <2>1, <2>3, GotoPoint DEF Close, Move, Update, At, In
  <2>4. QED
    BY <1>5, <2>2, <2>3
<1>6. CASE OnReset(Default)
  <2>1. In({"onReset"}) /\ UNCHANGED <<sent, unlogged>>
    BY <1>6 DEF OnReset, At, In
  <2>2. CASE ~channels
    BY <1>6, <2>1, <2>2, GotoPoint DEF OnReset
  <2>3. CASE channels
    <3>0. log' = [log EXCEPT ![Default] = {}] \/ ("store" \in Faults /\ log' = log)
      BY <1>6, <2>3, Zenon DEF OnReset
    <3>1. log'[Default] = {} \/ ("store" \in Faults /\ log' = log)
      BY <1>0, <3>0
    <3>2. \/ job'[Default].pc = "check"
          \/ job'[Default].pc = "send" /\ job'[Default].type \notin log'[Default]
      BY <1>6, <2>3, GotoPoint, RaisePoint DEF OnReset
    <3>3. QED
      BY <1>6, <2>1, <3>1, <3>2
  <2>4. QED
    BY <2>2, <2>3
<1>7. CASE Check(Default)
  <2>1. In({"check"}) /\ UNCHANGED <<log, sent, unlogged>>
    BY <1>7 DEF Check, At, In
  <2>2. \/ job'[Default].pc = "idle"
        \/ job'[Default].pc = "send" /\ job'[Default].type \notin log'[Default]
    BY <1>7, GotoPoint, RaisePoint DEF Check
  <2>3. QED
    BY <2>1, <2>2
<1>8. CASE SendFails(Default)
  BY <1>8, GotoPoint DEF SendFails, AfterAlert, At, In, alerting
<1>9. QED
  BY <1>1, <1>2, <1>3, <1>4, <1>5, <1>6, <1>7, <1>8
     DEF Next, TrackerStep, AlertStep, OneAccount

\* What the steps change that the second invariant asks about: a row is opened by
\* Create and closed by Close only.
LEMMA RowSteps ==
  ASSUME TypeOK, OneAccount, [Next]_vars
  PROVE  \/ row'[Default].open = row[Default].open
         \/ Create(Default)
         \/ In({"close"}) /\ job'[Default].pc = "recreate" /\ ~row'[Default].open
<1>0. row \in [Accounts -> Row] /\ Default \in Accounts
  BY DEF TypeOK
<1>1. CASE Close(Default)
  BY <1>0, <1>1, GotoPoint DEF Close, At, In, NoRow
<1>2. CASE SetPeak(Default) \/ Move(Default) \/ Update(Default)
  <2>1. \E n : row' \in {[row EXCEPT ![Default].peak = n], [row EXCEPT ![Default].resetsAt = n]}
    BY <1>2 DEF SetPeak, Move, Update
  <2>2. QED
    BY <1>0, <2>1 DEF Row
<1>3. ASSUME row' = row
      PROVE  row'[Default].open = row[Default].open
  BY <1>3
<1>4. CASE StoreFails(Default) \/ Query(Default) \/ Poll(Default) \/ PollWithoutQuota(Default)
           \/ AlertStep(Default) \/ Tick \/ SetChannels \/ Crash \/ UNCHANGED vars
  <2>1. row' = row
    BY <1>4 DEF StoreFails, Query, Poll, PollWithoutQuota, AlertStep, OnReset, Check, Send, SendFails,
                Log, LogFails, Tick, SetChannels, Crash, vars, tracking
  <2>2. QED
    BY <1>3, <2>1
<1>5. QED
  BY <1>1, <1>2, <1>4 DEF Next, TrackerStep, OneAccount

\* Every step keeps the first invariant.
LEMMA SentIsLoggedKept ==
  ASSUME TypeOK, OneAccount, SentIsLogged, [Next]_vars
  PROVE  SentIsLogged'
<1>0. /\ job \in [Accounts -> Job] /\ Default \in Accounts /\ log \in [Accounts -> SUBSET Types]
      /\ sent \in [Accounts -> [Types -> 0 .. 2]] /\ unlogged \in [Accounts -> SUBSET Types]
      /\ job[Default].key = Default /\ job[Default].type \in Types
  BY DEF TypeOK, Job, OneAccount
<1> USE DEF SentIsLogged, In
<1>1. CASE Create(Default)
  <2>1. /\ \A t \in Types : sent'[Default][t] = 0
        /\ job'[Default].pc \in {"setPeak", "resetPeak"}
    BY <1>0, <1>1, GotoPoint DEF Create
  <2>2. QED
    BY <2>1
<1>2. CASE OnReset(Default) /\ log'[Default] = {} /\ UNCHANGED <<sent, unlogged>>
           /\ job'[Default].pc \in {"check", "send"}
  <2>1. \A t \in Types : sent'[Default][t] = 0
    BY <1>2 DEF OnReset, At
  <2>2. QED
    BY <1>2, <2>1
<1>3. CASE Send(Default)
  <2> DEFINE type == job[Default].type
  <2>1. /\ job[Default].pc = "send" /\ job'[Default].pc = "log" /\ job'[Default].type = type
        /\ UNCHANGED <<log, unlogged>>
    BY <1>3, GotoPoint DEF Send, At
  <2>2. /\ \A t \in Types : t # type => sent'[Default][t] = sent[Default][t]
        /\ sent'[Default][type] > 1 => sent[Default][type] > 0
    BY <1>0, <1>3 DEF Send
  <2>3. sent[Default][type] > 0 => type \in unlogged[Default]
    BY <1>0, <2>1
  <2>4. QED
    BY <1>0, <2>1, <2>2, <2>3
<1>4. CASE Log(Default)
  <2>1. /\ job[Default].pc = "log" /\ job'[Default].pc \in {"check", "idle"}
        /\ log'[Default] = log[Default] \cup {job[Default].type} /\ UNCHANGED <<sent, unlogged>>
    BY <1>0, <1>4, GotoPoint DEF Log, At, AfterAlert
  <2>2. QED
    BY <2>1
<1>5. CASE LogFails(Default)
  <2>1. /\ job[Default].pc = "log" /\ job'[Default].pc \in {"check", "idle"}
        /\ unlogged'[Default] = unlogged[Default] \cup {job[Default].type} /\ UNCHANGED <<log, sent>>
    BY <1>0, <1>5, GotoPoint DEF LogFails, At, AfterAlert
  <2>2. QED
    BY <2>1
<1>6. CASE Crash
  <2>1. /\ job'[Default].pc = "idle" /\ UNCHANGED <<log, sent>>
        /\ unlogged'[Default] = unlogged[Default]
              \cup (IF job[Default].pc = "log" THEN {job[Default].type} ELSE {})
    BY <1>0, <1>6 DEF Crash, NoJob, At
  <2>2. QED
    BY <2>1
<1>7. CASE UNCHANGED <<log, sent, unlogged, job>>
  BY <1>7
<1>8. CASE /\ UNCHANGED <<log, sent, unlogged>>
           /\ \/ ~In({"log"}) /\ job'[Default].pc \notin {"resetPeak", "onReset", "send"}
              \/ In({"resetPeak"}) /\ job'[Default].pc = "onReset"
              \/ /\ ~In({"log"}) /\ job'[Default].pc = "send"
                 /\ job'[Default].type \notin log[Default]
  BY <1>8
<1>9. QED
  BY <1>1, <1>2, <1>3, <1>4, <1>5, <1>6, <1>7, <1>8, AlertSteps DEF StoreFails

\* Every step keeps the second one, where only deliveries fail and quotas are absent.
LEMMA LoggedIsSentKept ==
  ASSUME TypeOK, OneAccount, "store" \notin Faults, "crash" \notin Faults, "channels" \notin Faults,
         SentIsLogged, LoggedIsSent, [Next]_vars
  PROVE  LoggedIsSent'
<1>0. /\ job \in [Accounts -> Job] /\ Default \in Accounts /\ log \in [Accounts -> SUBSET Types]
      /\ sent \in [Accounts -> [Types -> 0 .. 2]] /\ row \in [Accounts -> Row]
      /\ job[Default].key = Default /\ job[Default].type \in Types
  BY DEF TypeOK, Job, OneAccount
<1>ch. channels'
  BY DEF LoggedIsSent, Next, TrackerStep, AlertStep, Poll, PollWithoutQuota, StoreFails, Query, Create,
         SetPeak, Close, Move, Update, OnReset, Check, Send, SendFails, Log, LogFails, Tick,
         SetChannels, Crash, vars
<1>cr. ~Crash /\ ~StoreFails(Default) /\ ~LogFails(Default)
  BY DEF Crash, StoreFails, LogFails
<1>q. job[Default].pc = "query" /\ job'[Default].pc \in {"create", "close", "move", "update"} =>
         /\ row' = row
         /\ job'[Default].pc = "create" <=> ~row[Default].open
  <2> SUFFICES ASSUME job[Default].pc = "query",
                      job'[Default].pc \in {"create", "close", "move", "update"}
               PROVE  row' = row /\ (job'[Default].pc = "create" <=> ~row[Default].open)
    OBVIOUS
  <2>1. Query(Default)
    BY <1>0, <1>cr, GotoPoint
       DEF Next, TrackerStep, AlertStep, Poll, PollWithoutQuota, Create, OneAccount,
           SetPeak, Close, Move, Update, OnReset, Check, Send, SendFails, Log, Tick, SetChannels,
           vars, At
  <2>2. QED
    BY <2>1, GotoPoint DEF Query, tracking
<1> USE DEF LoggedIsSent, In
<1>1. CASE Create(Default)
  <2>1. /\ \A t \in Types : sent'[Default][t] = 0 /\ log' = log /\ row'[Default].open
        /\ \/ job[Default].pc = "create" /\ job'[Default].pc = "setPeak"
           \/ job[Default].pc = "recreate" /\ job'[Default].pc = "resetPeak"
    BY <1>0, <1>1, GotoPoint DEF Create, At
  <2>2. job[Default].pc = "create" => log[Default] = {}
    BY <1>0
  <2>3. log'[Default] = {} \/ job'[Default].pc = "resetPeak"
    BY <1>1, <2>1, <2>2 DEF Create
  <2>4. row'[Default].open /\ job'[Default].pc \notin {"create", "log"}
    BY <1>0, <1>1, <2>1 DEF Create
  <2>5. QED
    BY <1>ch, <2>3, <2>4
<1>2. CASE OnReset(Default) /\ log'[Default] = {} /\ job'[Default].pc \in {"check", "send"}
  <2>1. row' = row /\ job[Default].pc = "onReset"
    BY <1>2 DEF OnReset, At, tracking
  <2>2. QED
    BY <1>ch, <1>2, <2>1
<1>3. CASE Send(Default)
  <2>1. /\ job[Default].pc = "send" /\ job'[Default].pc = "log"
        /\ job'[Default].type = job[Default].type /\ UNCHANGED <<log, row>>
    BY <1>3, GotoPoint DEF Send, At, tracking
  <2>2. /\ sent'[Default][job[Default].type] > 0
        /\ \A t \in Types : sent[Default][t] > 0 => sent'[Default][t] > 0
    BY <1>0, <1>3 DEF Send
  <2>3. QED
    BY <1>0, <1>ch, <2>1, <2>2
<1>4. CASE Log(Default)
  <2>1. /\ job[Default].pc = "log" /\ job'[Default].pc \in {"check", "idle"}
        /\ log'[Default] = log[Default] \cup {job[Default].type} /\ UNCHANGED <<sent, row>>
    BY <1>0, <1>4, GotoPoint DEF Log, At, AfterAlert, tracking
  <2>2. QED
    BY <1>0, <1>ch, <2>1
<1>5. CASE /\ log' = log /\ sent' = sent
           /\ job[Default].pc = "close" /\ job'[Default].pc = "recreate"
  BY <1>ch, <1>5
<1>6. CASE log' = log /\ sent' = sent /\ (row'[Default].open <=> row[Default].open) /\ job' = job
  BY <1>ch, <1>6
<1>7. CASE /\ log' = log /\ sent' = sent /\ (row'[Default].open <=> row[Default].open)
           /\ job[Default].pc \in {"setPeak", "move", "update", "send", "check"}
           /\ job'[Default].pc \in {"check", "idle", "update", "send"}
  BY <1>ch, <1>7
<1>8. CASE /\ log' = log /\ sent' = sent /\ (row'[Default].open <=> row[Default].open)
           /\ job[Default].pc = "resetPeak" /\ job'[Default].pc = "onReset"
  BY <1>ch, <1>8
<1>9. CASE /\ log' = log /\ sent' = sent /\ (row'[Default].open <=> row[Default].open)
           /\ job[Default].pc = "idle" /\ job'[Default].pc = "query"
  BY <1>ch, <1>9
<1>10. CASE /\ log' = log /\ sent' = sent
            /\ job[Default].pc = "query" /\ job'[Default].pc \in {"create", "close", "move", "update"}
  BY <1>ch, <1>q, <1>10
<1>11. QED
  <2>1. channels
    OBVIOUS
  <2>2. CASE row'[Default].open = row[Default].open
    BY <1>cr, <1>1, <1>2, <1>3, <1>4, <1>5, <1>6, <1>7, <1>8, <1>9, <1>10, <2>1, <2>2, AlertSteps
  <2>3. QED
    BY <1>cr, <1>1, <1>2, <1>3, <1>4, <1>5, <2>1, <2>2, AlertSteps, RowSteps DEF Send, Log

\* A daemon with one account alerts once per cycle, whatever the reset time the API
\* reports, whatever fails and whenever the daemon is killed: a second alert of a
\* type has lost its entry in the log.
THEOREM AlertsOncePerCycle ==
  ASSUME OneAccount
  PROVE  Spec => []AtMostOncePerCycle
<1>1. Init => SentIsLogged
  BY DEF Init, SentIsLogged, In, NoJob
<1>2. TypeOK /\ SentIsLogged /\ [Next]_vars => SentIsLogged'
  BY OneAccount, SentIsLoggedKept
<1>3. SentIsLogged => AtMostOncePerCycle
  BY OneAccount DEF SentIsLogged, AtMostOncePerCycle, OneAccount
<1>4. QED
  BY <1>1, <1>2, <1>3, TypeCorrect, PTL DEF Spec

\* Where nothing fails but deliveries, no entry of the log of one account outlives
\* the cycle it was written in, and none holds back an alert of the next one.
THEOREM LogIsAlwaysOfThisCycle ==
  ASSUME OneAccount, "store" \notin Faults, "crash" \notin Faults, "channels" \notin Faults
  PROVE  Spec => []LogIsOfThisCycle
<1>1. Init => SentIsLogged /\ LoggedIsSent
  BY DEF Init, SentIsLogged, LoggedIsSent, In, NoJob, NoRow
<1>2. TypeOK /\ SentIsLogged /\ LoggedIsSent /\ [Next]_vars => (SentIsLogged /\ LoggedIsSent)'
  BY OneAccount, SentIsLoggedKept, LoggedIsSentKept
<1>3. LoggedIsSent => LogIsOfThisCycle
  BY OneAccount DEF LoggedIsSent, LogIsOfThisCycle, OneAccount, In, At
<1>4. QED
  BY <1>1, <1>2, <1>3, TypeCorrect, PTL DEF Spec

=============================================================================
