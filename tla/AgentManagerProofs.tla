------------------------- MODULE AgentManagerProofs -------------------------
(***************************************************************************)
(* Machine-checked proofs about AgentManager, for every set of providers   *)
(* and handlers and every bound on the number of runs.                     *)
(*                                                                         *)
(* The two safety invariants are not inductive by themselves: that the     *)
(* exit which makes the registry forget a run is the exit of an EARLIER    *)
(* run needs to know that a tracked run is the newest of its key.          *)
(***************************************************************************)
EXTENDS AgentManager, TLAPS

\* Run records are only ever looked up for runs that were launched.
HeldRunsAreLaunched ==
    \A c \in Callers :
        call[c].op = "cancelling" => call[c].runs \subseteq 1 .. launched

\* The tracked run of a key is the last one launched for it.
TrackedRunIsNewest ==
    \A k \in Providers : running[k] # NoRun =>
        \A r \in 1 .. launched : run[r].key = k => r <= running[k]

IInv ==
    /\ TypeOK
    /\ HeldRunsAreLaunched
    /\ TrackedRunIsPresent
    /\ TrackedRunIsNewest
    /\ ForgottenOnlyByEarlierExit

USE DEF NoRun, Idle, RunIds, RunPc

-----------------------------------------------------------------------------

\* The initial registry is empty.
LEMMA InitIInv == Init => IInv
<1> SUFFICES ASSUME Init PROVE IInv
  OBVIOUS
<1> USE DEF Init
<1>1. 1 .. launched = {}
  OBVIOUS
<1>2. TypeOK
  <2>1. launched \in 0 .. MaxRuns /\ running \in [Providers -> 0 .. launched]
    BY ManagerAssumption
  <2>2. run \in [1 .. launched -> Run]
    BY <1>1
  <2>3. call \in [Callers -> Call]
    BY DEF Call
  <2>4. QED
    BY <2>1, <2>2, <2>3 DEF TypeOK
<1>3. HeldRunsAreLaunched
  BY DEF HeldRunsAreLaunched
<1>4. TrackedRunIsPresent /\ TrackedRunIsNewest
  BY DEF TrackedRunIsPresent, TrackedRunIsNewest
<1>5. ForgottenOnlyByEarlierExit
  BY <1>1 DEF ForgottenOnlyByEarlierExit
<1>6. QED
  BY <1>2, <1>3, <1>4, <1>5 DEF IInv

\* Type correctness is preserved by every step of the callers and of the runs.
LEMMA TypePreserved ==
  ASSUME TypeOK, HeldRunsAreLaunched, [Next]_vars
  PROVE  TypeOK' /\ HeldRunsAreLaunched'
<1> USE ManagerAssumption DEF TypeOK, HeldRunsAreLaunched, Run, Call
<1>1. ASSUME NEW h \in Handlers, NEW k \in Providers, BeginStart(h, k)
      PROVE  TypeOK' /\ HeldRunsAreLaunched'
  BY <1>1 DEF BeginStart, Callers
<1>2. ASSUME NEW h \in Handlers, NEW k \in Providers, Stop(h, k)
      PROVE  TypeOK' /\ HeldRunsAreLaunched'
  BY <1>2 DEF Stop, Callers
<1>3. ASSUME NEW h \in Handlers, FactoryFails(h)
      PROVE  TypeOK' /\ HeldRunsAreLaunched'
  BY <1>3 DEF FactoryFails, Callers
<1>4. ASSUME NEW h \in Handlers, CommitStart(h)
      PROVE  TypeOK' /\ HeldRunsAreLaunched'
  <2>1. h \in Callers /\ call[h].key \in Providers
    BY <1>4 DEF CommitStart, Callers
  <2>2. call' \in [Callers -> Call]
    BY <1>4 DEF CommitStart
  <2>3. CASE running[call[h].key] # NoRun
    BY <1>4, <2>2, <2>3 DEF CommitStart
  <2>4. CASE running[call[h].key] = NoRun
    <3>1. launched' = launched + 1 /\ launched' \in 0 .. MaxRuns
      BY <1>4, <2>4 DEF CommitStart, Launch
    <3>2. running' \in [Providers -> 0 .. launched']
      BY <1>4, <2>1, <2>4, <3>1 DEF CommitStart, Launch
    <3>3. run' \in [1 .. launched' -> Run]
      <4>1. [key |-> call[h].key, cancelled |-> FALSE, pc |-> "looping"] \in Run
        BY <2>1
      <4>2. \A r \in 1 .. launched' : r # launched + 1 => r \in 1 .. launched
        BY <3>1
      <4>3. run' = [r \in 1 .. launched' |->
                      IF r = launched + 1
                      THEN [key |-> call[h].key, cancelled |-> FALSE, pc |-> "looping"]
                      ELSE run[r]]
        BY <1>4, <2>4, <3>1 DEF CommitStart, Launch
      <4>4. QED
        BY <4>1, <4>2, <4>3
    <3>4. HeldRunsAreLaunched'
      BY <1>4, <3>1 DEF CommitStart
    <3>5. QED
      BY <1>4, <2>2, <3>1, <3>2, <3>3, <3>4 DEF CommitStart
  <2>5. QED
    BY <2>3, <2>4
<1>5. ASSUME StopAll
      PROVE  TypeOK' /\ HeldRunsAreLaunched'
  <2>1. Tracked \subseteq 1 .. launched
    BY DEF Tracked
  <2>2. Main \in Callers
    BY DEF Callers
  <2>3. call' \in [Callers -> Call]
    BY <1>5, <2>1, <2>2 DEF StopAll
  <2>4. HeldRunsAreLaunched'
    BY <1>5, <2>1, <2>2 DEF StopAll
  <2>5. QED
    BY <1>5, <2>3, <2>4 DEF StopAll
<1>6. ASSUME NEW c \in Callers, CancelStep(c)
      PROVE  TypeOK' /\ HeldRunsAreLaunched'
  <2>1. CASE ReturnFromStop(c)
    BY <2>1 DEF ReturnFromStop
  <2>2. ASSUME NEW r \in RunIds, Cancel(c, r)
        PROVE  TypeOK' /\ HeldRunsAreLaunched'
    <3>1. r \in 1 .. launched
      BY <2>2 DEF Cancel
    <3>2. run' \in [1 .. launched -> Run]
      BY <2>2, <3>1 DEF Cancel
    <3>3. call' \in [Callers -> Call]
      BY <2>2 DEF Cancel
    <3>4. HeldRunsAreLaunched'
      BY <2>2 DEF Cancel
    <3>5. QED
      BY <2>2, <3>2, <3>3, <3>4 DEF Cancel
  <2>3. QED
    BY <1>6, <2>1, <2>2 DEF CancelStep
<1>7. ASSUME NEW r \in 1 .. launched, RunStep(r)
      PROVE  TypeOK' /\ HeldRunsAreLaunched'
  <2>1. run' \in [1 .. launched -> Run]
    <3>1. PICK pc \in RunPc : run' = [run EXCEPT ![r].pc = pc]
      BY <1>7 DEF RunStep, RunReturns, Exit
    <3>2. [run[r] EXCEPT !.pc = pc] \in Run
      OBVIOUS
    <3>3. QED
      BY <3>1, <3>2
  <2>2. running' \in [Providers -> 0 .. launched]
    BY <1>7 DEF RunStep, RunReturns, Exit
  <2>3. QED
    BY <1>7, <2>1, <2>2 DEF RunStep, RunReturns, Exit
<1>8. CASE UNCHANGED vars
  BY <1>8 DEF vars
<1>9. QED
  BY <1>1, <1>2, <1>3, <1>4, <1>5, <1>6, <1>7, <1>8 DEF Next, HandlerStep

\* The safety part is preserved: a step per action, and under it a step per
\* conjunct.
LEMMA SafetyPreserved ==
  ASSUME IInv, [Next]_vars, TypeOK', HeldRunsAreLaunched'
  PROVE  TrackedRunIsPresent' /\ TrackedRunIsNewest' /\ ForgottenOnlyByEarlierExit'
<1> DEFINE Safe == TrackedRunIsPresent /\ TrackedRunIsNewest /\ ForgottenOnlyByEarlierExit
<1> USE ManagerAssumption DEF IInv, TypeOK, HeldRunsAreLaunched, Run, Call
<1>1. ASSUME NEW h \in Handlers, NEW k \in Providers, BeginStart(h, k)
      PROVE  Safe'
  <2>1. \A r : BeingStopped(r)' <=> BeingStopped(r)
    BY <1>1 DEF BeginStart, BeingStopped, Callers
  <2>2. QED
    BY <1>1, <2>1 DEF BeginStart, TrackedRunIsPresent, TrackedRunIsNewest,
       ForgottenOnlyByEarlierExit, Live
<1>2. ASSUME NEW h \in Handlers, NEW k \in Providers, Stop(h, k)
      PROVE  Safe'
  <2>1. \A r : BeingStopped(r)' <=> BeingStopped(r) \/ r = running[k]
    BY <1>2 DEF Stop, BeingStopped, Callers
  <2>2. TrackedRunIsPresent' /\ TrackedRunIsNewest'
    BY <1>2, <2>1 DEF Stop, TrackedRunIsPresent, TrackedRunIsNewest
  <2>3. ForgottenOnlyByEarlierExit'
    BY <1>2, <2>1 DEF Stop, ForgottenOnlyByEarlierExit, Live
  <2>4. QED
    BY <2>2, <2>3
<1>3. ASSUME NEW h \in Handlers, FactoryFails(h)
      PROVE  Safe'
  <2>1. \A r : BeingStopped(r)' <=> BeingStopped(r)
    BY <1>3 DEF FactoryFails, BeingStopped, Callers
  <2>2. QED
    BY <1>3, <2>1 DEF FactoryFails, TrackedRunIsPresent, TrackedRunIsNewest,
       ForgottenOnlyByEarlierExit, Live
<1>4. ASSUME NEW h \in Handlers, CommitStart(h)
      PROVE  Safe'
  <2>1. \A r : BeingStopped(r)' <=> BeingStopped(r)
    BY <1>4 DEF CommitStart, BeingStopped, Callers
  <2>2. CASE running[call[h].key] # NoRun
    BY <1>4, <2>1, <2>2 DEF CommitStart, TrackedRunIsPresent, TrackedRunIsNewest,
       ForgottenOnlyByEarlierExit, Live
  <2>3. CASE running[call[h].key] = NoRun
    <3> DEFINE k == call[h].key
               n == launched + 1
    <3>1. /\ k \in Providers
          /\ n \in Nat
          /\ launched' = n
          /\ running' = [running EXCEPT ![k] = n]
          /\ \A r \in 1 .. launched : run'[r] = run[r]
          /\ run'[n] = [key |-> k, cancelled |-> FALSE, pc |-> "looping"]
      <4>1. k \in Providers /\ n \in Nat
        BY <1>4 DEF CommitStart, Callers
      <4>2. Launch(k)
        BY <1>4, <2>3 DEF CommitStart
      <4>3. run' = [r \in 1 .. n |->
                      IF r = n THEN [key |-> k, cancelled |-> FALSE, pc |-> "looping"]
                      ELSE run[r]]
        BY <4>2 DEF Launch
      <4>4. \A r \in 1 .. launched : r \in 1 .. n /\ r # n
        OBVIOUS
      <4>5. QED
        BY <4>1, <4>2, <4>3, <4>4 DEF Launch
    <3>2. ~BeingStopped(n)
      BY DEF BeingStopped
    <3>3. TrackedRunIsPresent'
      BY <2>1, <3>1, <3>2 DEF TrackedRunIsPresent
    <3>4. TrackedRunIsNewest'
      BY <3>1 DEF TrackedRunIsNewest
    <3>5. ForgottenOnlyByEarlierExit'
      <4>1. SUFFICES ASSUME NEW r \in 1 .. n, Live(r)'
                     PROVE  \/ running'[run'[r].key] = r
                            \/ BeingStopped(r)
                            \/ \E q \in 1 .. (r - 1) :
                                 run'[q].key = run'[r].key /\ run'[q].pc = "exited"
        BY <2>1, <3>1 DEF ForgottenOnlyByEarlierExit
      <4>2. CASE r = n
        BY <3>1, <4>2
      <4>3. CASE r # n
        <5>1. r \in 1 .. launched /\ run'[r] = run[r] /\ Live(r)
          BY <3>1, <4>1, <4>3 DEF Live
        <5>2. \A q \in 1 .. (r - 1) : run'[q] = run[q]
          BY <3>1, <5>1
        <5>3. running[run[r].key] = r => running'[run[r].key] = r
          BY <2>3, <3>1, <5>1
        <5>4. QED
          BY <5>1, <5>2, <5>3 DEF ForgottenOnlyByEarlierExit
      <4>4. QED
        BY <4>2, <4>3
    <3>6. QED
      BY <3>3, <3>4, <3>5
  <2>4. QED
    BY <2>2, <2>3
<1>5. ASSUME StopAll
      PROVE  Safe'
  <2>1. \A r : BeingStopped(r)' <=> BeingStopped(r) \/ r \in Tracked
    BY <1>5 DEF StopAll, BeingStopped, Callers
  <2>2. TrackedRunIsPresent' /\ TrackedRunIsNewest'
    BY <1>5 DEF StopAll, TrackedRunIsPresent, TrackedRunIsNewest
  <2>3. ForgottenOnlyByEarlierExit'
    <3>1. SUFFICES ASSUME NEW r \in 1 .. launched, Live(r), ~BeingStopped(r), r \notin Tracked
                   PROVE  \E q \in 1 .. (r - 1) :
                            run[q].key = run[r].key /\ run[q].pc = "exited"
      BY <1>5, <2>1 DEF StopAll, ForgottenOnlyByEarlierExit, Live
    <3>2. running[run[r].key] # r
      BY <3>1 DEF Tracked
    <3>3. QED
      BY <3>1, <3>2 DEF ForgottenOnlyByEarlierExit
  <2>4. QED
    BY <2>2, <2>3
<1>6. ASSUME NEW c \in Callers, NEW r \in RunIds, Cancel(c, r)
      PROVE  Safe'
  <2>1. r \in 1 .. launched /\ BeingStopped(r)
    BY <1>6 DEF Cancel, BeingStopped
  <2>2. \A q : q # r => (BeingStopped(q)' <=> BeingStopped(q))
    BY <1>6 DEF Cancel, BeingStopped
  <2>3. BeingStopped(r)' => BeingStopped(r)
    BY <2>1
  <2>4. TrackedRunIsPresent' /\ TrackedRunIsNewest'
    BY <1>6, <2>1, <2>2 DEF Cancel, TrackedRunIsPresent, TrackedRunIsNewest
  <2>5. ForgottenOnlyByEarlierExit'
    <3>1. /\ \A q \in 1 .. launched : run'[q].key = run[q].key /\ run'[q].pc = run[q].pc
          /\ \A q \in 1 .. launched : q # r => run'[q] = run[q]
          /\ run'[r].cancelled
          /\ UNCHANGED <<running, launched>>
      BY <1>6, <2>1 DEF Cancel
    <3>2. ASSUME NEW q \in 1 .. launched, Live(q)'
          PROVE  \/ running[run[q].key] = q
                 \/ BeingStopped(q)'
                 \/ \E p \in 1 .. (q - 1) : run[p].key = run[q].key /\ run[p].pc = "exited"
      <4>1. q # r /\ Live(q)
        BY <3>1, <3>2 DEF Live
      <4>2. QED
        BY <2>2, <4>1 DEF ForgottenOnlyByEarlierExit
    <3>3. \A q \in 1 .. launched : 1 .. (q - 1) \subseteq 1 .. launched
      BY DEF TypeOK
    <3>4. QED
      BY <3>1, <3>2, <3>3 DEF ForgottenOnlyByEarlierExit
  <2>6. QED
    BY <2>4, <2>5
<1>7. ASSUME NEW c \in Callers, ReturnFromStop(c)
      PROVE  Safe'
  <2>1. \A r : BeingStopped(r)' <=> BeingStopped(r)
    BY <1>7 DEF ReturnFromStop, BeingStopped
  <2>2. QED
    BY <1>7, <2>1 DEF ReturnFromStop, TrackedRunIsPresent, TrackedRunIsNewest,
       ForgottenOnlyByEarlierExit, Live
<1>8. ASSUME NEW r \in 1 .. launched, RunReturns(r)
      PROVE  Safe'
  <2>1. \A q : BeingStopped(q)' <=> BeingStopped(q)
    BY <1>8 DEF RunReturns, BeingStopped
  <2>2. QED
    BY <1>8, <2>1 DEF RunReturns, TrackedRunIsPresent, TrackedRunIsNewest,
       ForgottenOnlyByEarlierExit, Live
<1>9. ASSUME NEW r \in 1 .. launched, Exit(r)
      PROVE  Safe'
  <2>1. \A q : BeingStopped(q)' <=> BeingStopped(q)
    BY <1>9 DEF Exit, BeingStopped
  <2>2. TrackedRunIsPresent' /\ TrackedRunIsNewest'
    BY <1>9, <2>1 DEF Exit, TrackedRunIsPresent, TrackedRunIsNewest
  \* A live run that loses its entry here is newer than the run that exits.
  <2>3. ForgottenOnlyByEarlierExit'
    <3>1. SUFFICES ASSUME NEW q \in 1 .. launched, Live(q)',
                          running'[run[q].key] # q, ~BeingStopped(q)
                   PROVE  \E p \in 1 .. (q - 1) :
                            run'[p].key = run'[q].key /\ run'[p].pc = "exited"
      BY <1>9, <2>1 DEF Exit, ForgottenOnlyByEarlierExit
    <3>2. q # r /\ Live(q) /\ run'[q] = run[q]
      BY <1>9, <3>1 DEF Exit, Live
    <3>3. CASE running[run[q].key] = q
      <4>1. run[r].key = run[q].key
        BY <1>9, <3>1, <3>3 DEF Exit
      <4>2. r \in 1 .. (q - 1)
        <5>1. /\ run[q].key \in Providers
              /\ running[run[q].key] # NoRun
          BY <3>3
        <5>2. r <= running[run[q].key]
          BY <4>1, <5>1, Zenon DEF TrackedRunIsNewest
        <5>3. QED
          BY <3>2, <3>3, <5>2
      <4>3. QED
        BY <1>9, <3>2, <4>1, <4>2 DEF Exit
    <3>4. CASE running[run[q].key] # q
      <4>1. PICK p \in 1 .. (q - 1) : run[p].key = run[q].key /\ run[p].pc = "exited"
        BY <3>1, <3>2, <3>4 DEF ForgottenOnlyByEarlierExit
      <4>2. QED
        BY <1>9, <3>2, <4>1 DEF Exit
    <3>5. QED
      BY <3>3, <3>4
  <2>4. QED
    BY <2>2, <2>3
<1>10. CASE UNCHANGED vars
  BY <1>10 DEF vars, TrackedRunIsPresent, TrackedRunIsNewest, ForgottenOnlyByEarlierExit,
     Live, BeingStopped
<1>11. QED
  BY <1>1, <1>2, <1>3, <1>4, <1>5, <1>6, <1>7, <1>8, <1>9, <1>10
     DEF Next, HandlerStep, CancelStep, RunStep

\* IInv is an inductive invariant of the specification.
LEMMA Inductive == Spec => []IInv
<1>1. IInv /\ [Next]_vars => IInv'
  BY TypePreserved, SafetyPreserved DEF IInv
<1>2. QED
  BY InitIInv, <1>1, PTL DEF Spec

-----------------------------------------------------------------------------

\* Every variable keeps its type, in particular no caller ever holds the
\* CancelFunc of a run that was not launched.
THEOREM TypeCorrect == Spec => []TypeOK
<1>1. IInv => TypeOK
  BY DEF IInv
<1>2. QED
  BY Inductive, <1>1, PTL

\* The entry of a key always leads to a run of that key that can still be
\* stopped (manager.go, Stop and the end of the goroutine).
THEOREM TrackedRunsArePresent == Spec => []TrackedRunIsPresent
<1>1. IInv => TrackedRunIsPresent
  BY DEF IInv
<1>2. QED
  BY Inductive, <1>1, PTL

\* However many handlers start and stop a provider at once, a live run that the
\* registry does not track lost its entry to the exit of an earlier run
\* (manager.go, the unconditional delete at the end of the goroutine).
THEOREM OnlyEarlierExitsForget == Spec => []ForgottenOnlyByEarlierExit
<1>1. IInv => ForgottenOnlyByEarlierExit
  BY DEF IInv
<1>2. QED
  BY Inductive, <1>1, PTL

\* Start never overwrites an entry (manager.go, the second look at m.running).
THEOREM EntriesAreNotReplaced == Spec => EntryNeverReplaced
<1> DEFINE Kept == \A k \in Providers :
             running[k] # NoRun /\ running'[k] # NoRun => running'[k] = running[k]
<1>1. ASSUME TypeOK, [Next]_vars
      PROVE  [Kept]_vars
  <2> USE <1>1 DEF TypeOK
  <2>1. ASSUME NEW h \in Handlers, HandlerStep(h)
        PROVE  Kept
    <3>1. CASE CommitStart(h)
      <4>1. CASE running[call[h].key] # NoRun
        BY <3>1, <4>1 DEF CommitStart
      <4>2. CASE running[call[h].key] = NoRun
        BY <3>1, <4>2 DEF CommitStart, Launch
      <4>3. QED
        BY <4>1, <4>2
    <3>2. CASE ~CommitStart(h)
      BY <2>1, <3>2 DEF HandlerStep, BeginStart, Stop, FactoryFails
    <3>3. QED
      BY <3>1, <3>2
  <2>2. CASE StopAll
    BY <2>2 DEF StopAll
  <2>3. ASSUME NEW c \in Callers, CancelStep(c)
        PROVE  Kept
    BY <2>3 DEF CancelStep, Cancel, ReturnFromStop
  <2>4. ASSUME NEW r \in 1 .. launched, RunStep(r)
        PROVE  Kept
    <3>1. \A k \in Providers : running'[k] = running[k] \/ running'[k] = NoRun
      BY <2>4 DEF RunStep, RunReturns, Exit, Run
    <3>2. QED
      BY <3>1
  <2>5. QED
    BY <1>1, <2>1, <2>2, <2>3, <2>4 DEF Next
<1>2. QED
  BY TypeCorrect, <1>1, PTL DEF Spec, EntryNeverReplaced

=============================================================================
