---------------------------- MODULE AgentManager ----------------------------
(***************************************************************************)
(* The runtime registry of provider agents, internal/agent/manager.go.     *)
(*                                                                         *)
(* AgentManager.Start, Stop, StopAll and the goroutine that Start launches *)
(* run concurrently: HTTP handlers call Start and Stop, main calls StopAll *)
(* at shutdown, and every launched goroutine deletes an entry of the map   *)
(* when its Run returns.  An action is one critical section of m.mu, or    *)
(* one context cancellation, or the return of one Run.                     *)
(*                                                                         *)
(* A run is one launch: a context, its CancelFunc and its goroutine.  Runs *)
(* are numbered in the order in which Start commits them.                  *)
(***************************************************************************)
EXTENDS Naturals, FiniteSets

CONSTANTS
    Providers,     \* keys a handler may pass to Start and Stop
    Registered,    \* keys with a factory, all registered before serving
    QuitsEarly,    \* keys whose Run may return without being cancelled
    Handlers,      \* goroutines of the HTTP server that call the manager
    Main,          \* the main goroutine, the only caller of StopAll
    MaxRuns        \* bound: how many runs Start may launch in all

ASSUME ManagerAssumption ==
    /\ Registered \subseteq Providers
    /\ QuitsEarly \subseteq Registered
    /\ Main \notin Handlers
    /\ MaxRuns \in Nat

VARIABLES
    running,       \* m.running: the tracked run of each key, 0 when absent
    run,           \* the runs launched so far and how far each one is
    launched,      \* the number of runs launched so far
    call,          \* where each caller is inside the manager
    shutdown       \* main has reached its shutdown sequence

vars == <<running, run, launched, call, shutdown>>

Callers == Handlers \cup {Main}
RunIds  == 1 .. MaxRuns
NoRun   == 0

\* A goroutine is looping inside Run, is past Run but not yet in the critical
\* section that deletes its entry, or is gone.
RunPc == {"looping", "returned", "exited"}

Run == [key : Providers, cancelled : BOOLEAN, pc : RunPc]

\* Outside the manager; in Start between the two critical sections, with the
\* key it starts; or past the critical section of Stop or StopAll, with the
\* runs whose CancelFuncs it holds and has yet to call.
Call ==
    [op : {"idle"}]
      \cup [op : {"building"}, key : Providers]
      \cup [op : {"cancelling"}, runs : SUBSET RunIds]

Idle == [op |-> "idle"]

TypeOK ==
    /\ launched \in 0 .. MaxRuns
    /\ running \in [Providers -> 0 .. launched]
    /\ run \in [1 .. launched -> Run]
    /\ call \in [Callers -> Call]
    /\ shutdown \in BOOLEAN

Init ==
    /\ running = [k \in Providers |-> NoRun]
    /\ run = [r \in {} |-> Idle]
    /\ launched = 0
    /\ call = [c \in Callers |-> Idle]
    /\ shutdown = FALSE

-----------------------------------------------------------------------------
(* Start *)

\* The first critical section of Start.  A tracked key and an unregistered
\* key return here, so only a registered, untracked key goes on to build.
BeginStart(c, k) ==
    /\ call[c] = Idle
    /\ running[k] = NoRun
    /\ k \in Registered
    /\ call' = [call EXCEPT ![c] = [op |-> "building", key |-> k]]
    /\ UNCHANGED <<running, run, launched, shutdown>>

\* The factory returned an error or a nil runner.
FactoryFails(c) ==
    /\ call[c].op = "building"
    /\ call' = [call EXCEPT ![c] = Idle]
    /\ UNCHANGED <<running, run, launched, shutdown>>

\* A bug to detect: the entry is inserted and nothing is launched for it.
LaunchNothing(k) ==
    /\ launched < MaxRuns
    /\ running' = [running EXCEPT ![k] = launched + 1]
    /\ UNCHANGED <<run, launched>>

\* The insertion of a fresh CancelFunc, and the go statement that follows it.
Launch(k) ==
    /\ launched < MaxRuns
    /\ launched' = launched + 1
    /\ running' = [running EXCEPT ![k] = launched + 1]
    /\ run' = [r \in 1 .. (launched + 1) |->
                  IF r = launched + 1
                  THEN [key |-> k, cancelled |-> FALSE, pc |-> "looping"]
                  ELSE run[r]]

\* A bug to detect: the second critical section does not look again.
CommitStartUnchecked(c) ==
    /\ call[c].op = "building"
    /\ Launch(call[c].key)
    /\ call' = [call EXCEPT ![c] = Idle]
    /\ UNCHANGED shutdown

\* The second critical section of Start: another caller may have started the
\* key since the first one, and then the fresh context is dropped.
CommitStart(c) ==
    /\ call[c].op = "building"
    /\ IF running[call[c].key] # NoRun
       THEN UNCHANGED <<running, run, launched>>
       ELSE Launch(call[c].key)
    /\ call' = [call EXCEPT ![c] = Idle]
    /\ UNCHANGED shutdown

-----------------------------------------------------------------------------
(* Stop and StopAll *)

\* A bug to detect: Stop takes the CancelFunc and leaves the entry behind.
StopKeepsEntry(c, k) ==
    /\ call[c] = Idle
    /\ running[k] # NoRun
    /\ call' = [call EXCEPT ![c] = [op |-> "cancelling", runs |-> {running[k]}]]
    /\ UNCHANGED <<running, run, launched, shutdown>>

\* The critical section of Stop.  An untracked key is left alone.
Stop(c, k) ==
    /\ call[c] = Idle
    /\ running[k] # NoRun
    /\ running' = [running EXCEPT ![k] = NoRun]
    /\ call' = [call EXCEPT ![c] = [op |-> "cancelling", runs |-> {running[k]}]]
    /\ UNCHANGED <<run, launched, shutdown>>

Tracked == {running[k] : k \in Providers} \ {NoRun}

\* The critical section of StopAll, which main calls once, on its way out.
StopAll ==
    /\ call[Main] = Idle
    /\ ~shutdown
    /\ shutdown' = TRUE
    /\ running' = [k \in Providers |-> NoRun]
    /\ call' = [call EXCEPT ![Main] = [op |-> "cancelling", runs |-> Tracked]]
    /\ UNCHANGED <<run, launched>>

\* A bug to detect: the CancelFunc is dropped instead of called.
DropCancel(c, r) ==
    /\ call[c].op = "cancelling"
    /\ r \in call[c].runs
    /\ call' = [call EXCEPT ![c].runs = @ \ {r}]
    /\ UNCHANGED <<running, run, launched, shutdown>>

\* cancel() outside the lock, for one of the CancelFuncs the caller holds.
Cancel(c, r) ==
    /\ call[c].op = "cancelling"
    /\ r \in call[c].runs
    /\ run' = [run EXCEPT ![r].cancelled = TRUE]
    /\ call' = [call EXCEPT ![c].runs = @ \ {r}]
    /\ UNCHANGED <<running, launched, shutdown>>

\* Stop or StopAll returns to its caller.
ReturnFromStop(c) ==
    /\ call[c] = [op |-> "cancelling", runs |-> {}]
    /\ call' = [call EXCEPT ![c] = Idle]
    /\ UNCHANGED <<running, run, launched, shutdown>>

-----------------------------------------------------------------------------
(* The goroutine of a run *)

\* Run returns: because its context was cancelled, or early, on an error of
\* its own.
RunReturns(r) ==
    /\ run[r].pc = "looping"
    /\ run[r].cancelled \/ run[r].key \in QuitsEarly
    /\ run' = [run EXCEPT ![r].pc = "returned"]
    /\ UNCHANGED <<running, launched, call, shutdown>>

\* A bug to detect: the goroutine ends without deleting its entry.
ExitWithoutDelete(r) ==
    /\ run[r].pc = "returned"
    /\ run' = [run EXCEPT ![r].pc = "exited"]
    /\ UNCHANGED <<running, launched, call, shutdown>>

\* The last critical section of the goroutine: it deletes the entry of its
\* key, whichever run that entry belongs to by now.
Exit(r) ==
    /\ run[r].pc = "returned"
    /\ running' = [running EXCEPT ![run[r].key] = NoRun]
    /\ run' = [run EXCEPT ![r].pc = "exited"]
    /\ UNCHANGED <<launched, call, shutdown>>

-----------------------------------------------------------------------------

\* Handlers serve start and stop requests for as long as the process lives,
\* also while main shuts down.  The Starts that main makes at boot come before
\* the first request: they are a handler's first ones here.
HandlerStep(h) ==
    \/ \E k \in Providers : BeginStart(h, k) \/ Stop(h, k)
    \/ FactoryFails(h)
    \/ CommitStart(h)

CancelStep(c) == ReturnFromStop(c) \/ \E r \in RunIds : Cancel(c, r)

RunStep(r) == RunReturns(r) \/ Exit(r)

Next ==
    \/ \E h \in Handlers : HandlerStep(h)
    \/ StopAll
    \/ \E c \in Callers : CancelStep(c)
    \/ \E r \in 1 .. launched : RunStep(r)

Spec == Init /\ [][Next]_vars

\* A caller inside Stop runs on, and so does a goroutine: nothing blocks but
\* the short critical sections, and every Run selects on its context.
Fairness ==
    /\ \A c \in Callers : WF_vars(CancelStep(c))
    /\ \A r \in RunIds : WF_vars(r <= launched /\ RunStep(r))

FairSpec == Spec /\ Fairness

-----------------------------------------------------------------------------
(* Properties *)

\* A run whose Run has not returned and whose context nobody has cancelled.
Live(r) == run[r].pc = "looping" /\ ~run[r].cancelled

\* A Stop or StopAll has taken the CancelFunc of r and is about to call it.
BeingStopped(r) ==
    \E c \in Callers : call[c].op = "cancelling" /\ r \in call[c].runs

\* The entry of a key belongs to a run of that key that nobody has cancelled
\* and whose goroutine is still there, so Stop through the map always reaches
\* a run it can stop.  This is what deleting the entry before cancel() and
\* in the goroutine's last section is for.
TrackedRunIsPresent ==
    \A k \in Providers : running[k] # NoRun =>
        LET r == running[k] IN
        /\ run[r].key = k
        /\ ~run[r].cancelled
        /\ run[r].pc # "exited"
        /\ ~BeingStopped(r)

\* Concurrent Starts of one key launch one run: a live run is tracked, or is
\* being stopped, or has lost its entry to the exit of an EARLIER run of its
\* key.  The last case is the only way in which the registry forgets a run.
ForgottenOnlyByEarlierExit ==
    \A r \in 1 .. launched : Live(r) =>
        \/ running[run[r].key] = r
        \/ BeingStopped(r)
        \/ \E q \in 1 .. (r - 1) : run[q].key = run[r].key /\ run[q].pc = "exited"

\* Start never replaces the entry of one run by that of another: an entry is
\* deleted first, by Stop, StopAll or the exit of a goroutine.
EntryNeverReplaced ==
    [][\A k \in Providers :
         running[k] # NoRun /\ running'[k] # NoRun => running'[k] = running[k]]_vars

\* A run that Stop or StopAll has taken comes to an end.
StoppedRunExits ==
    \A r \in RunIds :
        (r <= launched /\ BeingStopped(r)) ~> (r <= launched /\ run[r].pc = "exited")

\* What the comment of IsRunning says: "IsRunning returns whether a provider
\* is currently running".  A provider with a live run that nobody is stopping
\* is one that IsRunning reports.
IsRunningIsTruthful ==
    \A r \in 1 .. launched :
        Live(r) /\ ~BeingStopped(r) => running[run[r].key] # NoRun
=============================================================================
