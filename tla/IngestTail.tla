----------------------------- MODULE IngestTail -----------------------------
(***************************************************************************)
(* The ingestion of API integration events:                                *)
(* internal/agent/api_integrations_ingest_agent.go, the tables it writes   *)
(* through internal/store/api_integrations_store.go, and the programs that *)
(* write the files.                                                        *)
(*                                                                         *)
(* A file is a sequence of bytes.  The line of an event is two bytes and a *)
(* newline, so that it can be read in parts; a padding byte makes a line   *)
(* that is no event, and enough of them one that is too long.  The agent   *)
(* keeps its cursor in the database; an action ends where it calls the     *)
(* file system or the store, and a file may change between two of them.    *)
(***************************************************************************)
EXTENDS Naturals, FiniteSets, SequencesExt

CONSTANTS
    NFiles,       \* source files
    Events,       \* events the programs report
    MaxRead,      \* apiIntegrationIngestMaxReadBytes
    MaxPartial,   \* MaxIngestPartialLineBytes
    MaxPerScan,   \* apiIntegrationIngestMaxFilesPerScan
    MaxAlerts,    \* apiIntegrationIngestMaxInvalidAlertsPerFilePerScan
    Regrow,       \* a replaced file may outgrow the cursor before it is looked at
    MaxBytes,     \* bound: bytes written to each file
    MaxReplaced,  \* bound: times a file is replaced
    MaxFaults     \* bound: store calls that fail, and crashes

\* What a line is that is no event.
Invalid == "invalid"

ASSUME IngestAssumption ==
    /\ Invalid \notin Events
    /\ NFiles \in Nat \ {0} /\ MaxPerScan \in Nat \ {0}
    /\ MaxRead \in Nat \ {0} /\ MaxPartial \in Nat \ {0, 1} /\ MaxAlerts \in Nat
    /\ Regrow \in BOOLEAN
    /\ MaxBytes \in [1 .. NFiles -> Nat]
    /\ MaxReplaced \in Nat /\ MaxFaults \in Nat

VARIABLES
    file,      \* the bytes of each file
    cursor,    \* api_integration_ingest_state
    rows,      \* api_integration_usage_events: how often each event is there
    todo,      \* files left in this scan
    at,        \* scanPathCursor
    place,     \* where the agent is with the first of them
    work,      \* the state and the lines of the file it is in
    era,       \* history: how often each file was replaced
    done,      \* history: lines of each file that were dealt with
    seen,      \* history: events of lines written to each file
    pruned,    \* history: events deleted by the retention
    alerted,   \* history: lines of each file reported as invalid
    old,       \* events past the retention
    budget     \* bytes, replacements and faults that are left

outside    == <<file, era, seen, old>>
database   == <<cursor, rows, pruned, alerted, done>>
IngestVars == <<outside, database, todo, at, place, work, budget>>

Files   == 1 .. NFiles
Newline == <<"newline">>
Pad     == <<"pad">>
Byte    == {Newline, Pad} \cup {<<e, h>> : e \in Events, h \in {1, 2}}

EventLine(e) == <<<<e, 1>>, <<e, 2>>>>

\* ParseUsageEventLine: the event of a line, or that it is none.
Parse(line) ==
    IF \E e \in Events : line = EventLine(e)
    THEN CHOOSE e \in Events : line = EventLine(e) ELSE Invalid

\* splitCompleteLines: the complete lines of the data, and what is left.
Split(data) ==
    LET split[n \in 0 .. Len(data)] ==
            IF n = 0 THEN [lines |-> <<>>, rest |-> <<>>]
            ELSE IF data[n] = Newline
            THEN [lines |-> Append(split[n - 1].lines, split[n - 1].rest), rest |-> <<>>]
            ELSE [split[n - 1] EXCEPT !.rest = Append(@, data[n])]
    IN  split[Len(data)]
SplitLines(data) == Split(data).lines
Remainder(data)  == Split(data).rest

\* The bytes of a file from an offset on, as many as one read takes.
UpTo(n, s) == SubSeq(s, 1, IF n < Len(s) THEN n ELSE Len(s))
ReadFrom(offset, s) == SubSeq(UpTo(offset + MaxRead, s), offset + 1, Len(UpTo(offset + MaxRead, s)))

Fresh == [offset |-> 0, partial |-> <<>>, era |-> 0]
Idle  == [offset |-> 0, partial |-> <<>>, era |-> 0, lines |-> <<>>, first |-> 0, alerts |-> 0]

\* The agent has read the state of the first file.
InWork == place \in {"read", "lines"}

IngestTypeOK ==
    /\ file \in [Files -> Seq(Byte)]
    /\ \A f \in Files :
         /\ cursor[f].offset \in 0 .. MaxBytes[f]
         /\ cursor[f].partial \in Seq(Byte) /\ Len(cursor[f].partial) <= MaxPartial
         /\ cursor[f].era \in 0 .. era[f]
         /\ done[f] \in 0 .. Len(SplitLines(file[f]))
         /\ seen[f] \subseteq Events
         /\ pruned[f] \subseteq Events
    /\ rows \in [Files -> [Events -> {0, 1}]]
    /\ todo \in Seq(Files) /\ Len(todo) <= MaxPerScan
    /\ at \in 0 .. (NFiles - 1)
    /\ place \in {"wait", "stat", "read", "lines", "prune"}
    /\ work.alerts \in 0 .. MaxAlerts
    /\ InWork => work.offset \in 0 .. MaxBytes[todo[1]]
    /\ old \subseteq Events
    /\ \A f \in Files : budget.bytes[f] \in 0 .. MaxBytes[f]
    /\ budget.replaced \in 0 .. MaxReplaced /\ budget.faults \in 0 .. MaxFaults

IngestInit ==
    /\ file = [f \in Files |-> <<>>]
    /\ cursor = [f \in Files |-> Fresh]
    /\ rows = [f \in Files |-> [e \in Events |-> 0]]
    /\ todo = <<>>
    /\ at = 0
    /\ place = "wait"
    /\ work = Idle
    /\ era = [f \in Files |-> 0]
    /\ done = [f \in Files |-> 0]
    /\ seen = [f \in Files |-> {}]
    /\ pruned = [f \in Files |-> {}]
    /\ alerted = [f \in Files |-> {}]
    /\ old = {}
    /\ budget = [bytes |-> MaxBytes, replaced |-> MaxReplaced, faults |-> MaxFaults]

-----------------------------------------------------------------------------
(* The programs that write the files *)

\* The bytes that may come next: an event is written as its two halves.
NextBytes(s) ==
    IF s = <<>> \/ Last(s) = Newline THEN {Pad} \cup {<<e, 1>> : e \in Events}
    ELSE IF Last(s) = Pad THEN {Pad, Newline}
    ELSE IF Last(s)[2] = 1 THEN {<<Last(s)[1], 2>>} ELSE {Newline}

\* Cursors that were taken in a file that has been replaced since.
Stale(c, f) == c.offset > 0 /\ c.era # era[f]
Outgrown(c, f) == Stale(c, f) /\ c.offset <= Len(file[f]) + 1

WriteByte(f) ==
    /\ budget.bytes[f] > 0
    /\ ~Regrow => ~Outgrown(cursor[f], f) /\ ~(InWork /\ f = todo[1] /\ Outgrown(work, f))
    /\ \E b \in NextBytes(file[f]) :
         /\ file' = [file EXCEPT ![f] = Append(@, b)]
         /\ seen' = [seen EXCEPT ![f] =
                       @ \cup (IF b = Newline THEN {Parse(Remainder(file[f]))} \ {Invalid} ELSE {})]
    /\ budget' = [budget EXCEPT !.bytes[f] = @ - 1]
    /\ UNCHANGED <<era, old, database, todo, at, place, work>>

\* The file is truncated, or moved away for a new one.
ReplaceFile(f) ==
    /\ budget.replaced > 0
    /\ file[f] # <<>>
    /\ file' = [file EXCEPT ![f] = <<>>]
    /\ era' = [era EXCEPT ![f] = @ + 1]
    /\ done' = [done EXCEPT ![f] = 0]
    /\ budget' = [budget EXCEPT !.replaced = @ - 1]
    /\ UNCHANGED <<seen, old, cursor, rows, pruned, alerted, todo, at, place, work>>

\* The timestamp of an event falls behind the retention.
Expire(e) ==
    /\ e \in UNION {seen[f] : f \in Files} \ old
    /\ old' = old \cup {e}
    /\ UNCHANGED <<file, era, seen, database, todo, at, place, work, budget>>

-----------------------------------------------------------------------------
(* scan *)

\* A bug to detect: the window starts at the first file every time.
ScanFromFirst ==
    /\ place = "wait"
    /\ todo' = SubSeq([i \in Files |-> i], 1, IF NFiles > MaxPerScan THEN MaxPerScan ELSE NFiles)
    /\ UNCHANGED at
    /\ place' = "stat"
    /\ UNCHANGED <<outside, database, work, budget>>

\* The files of this scan: all, or a window that moves on with each scan.
Scan ==
    /\ place = "wait"
    /\ IF NFiles > MaxPerScan
       THEN /\ todo' = [i \in 1 .. MaxPerScan |-> ((at + i - 1) % NFiles) + 1]
            /\ at' = (at + MaxPerScan) % NFiles
       ELSE todo' = [i \in Files |-> i] /\ at' = 0
    /\ place' = "stat"
    /\ UNCHANGED <<outside, database, work, budget>>

\* On to the next file, or to the retention.
NextFile ==
    /\ todo' = Tail(todo)
    /\ place' = IF Len(todo) = 1 THEN "prune" ELSE "stat"
    /\ work' = Idle

Fault ==
    /\ budget.faults > 0
    /\ budget' = [budget EXCEPT !.faults = @ - 1]

\* The file cannot be examined, or its state cannot be read.
SkipFile ==
    /\ place = "stat"
    /\ Fault
    /\ NextFile
    /\ UNCHANGED <<outside, database, at>>

\* A bug to detect: a file shorter than the cursor is not noticed.
StatWithoutReset ==
    /\ place = "stat"
    /\ LET f == todo[1]
           c == cursor[f] IN
       work' = [Idle EXCEPT !.offset = c.offset, !.partial = c.partial, !.era = c.era]
    /\ place' = "read"
    /\ UNCHANGED <<outside, database, todo, at, budget>>

\* Stat and GetAPIIntegrationIngestState; a file shorter than the cursor is
\* read from its start.
Stat ==
    /\ place = "stat"
    /\ LET f == todo[1]
           c == IF Len(file[f]) < cursor[f].offset THEN Fresh ELSE cursor[f] IN
       work' = [Idle EXCEPT !.offset = c.offset, !.partial = c.partial, !.era = c.era]
    /\ place' = "read"
    /\ UNCHANGED <<outside, database, todo, at, budget>>

\* A bug to detect: what was left of the last read is forgotten.
ReadWithoutPartial ==
    /\ place = "read"
    /\ LET f    == todo[1]
           data == ReadFrom(work.offset, file[f])
       IN  work' = [work EXCEPT
             !.offset = @ + Len(data), !.partial = Remainder(data), !.lines = SplitLines(data),
             !.first = Len(SplitLines(UpTo(work.offset, file[f])))]
    /\ place' = "lines"
    /\ UNCHANGED <<outside, database, todo, at, budget>>

\* The read: bytes after the offset, none if the file has been replaced since,
\* joined to what was left; too long a rest is dropped.
Read ==
    /\ place = "read"
    /\ LET f    == todo[1]
           data == ReadFrom(work.offset, file[f])
           all  == work.partial \o data
           rest == Remainder(all)
       IN  work' = [work EXCEPT
             !.offset  = @ + Len(data),
             !.partial = IF data = <<>> THEN @ ELSE IF Len(rest) > MaxPartial THEN <<>> ELSE rest,
             !.lines   = IF data = <<>> THEN <<>> ELSE SplitLines(all),
             !.first   = Len(SplitLines(UpTo(work.offset, file[f]))),
             !.era     = IF work.offset = 0 THEN era[f] ELSE @]
    /\ place' = "lines"
    /\ UNCHANGED <<outside, database, todo, at, budget>>

\* The first line in hand has been dealt with.
Dealt ==
    LET f == todo[1] IN
    /\ work' = [work EXCEPT !.lines = Tail(@), !.first = @ + 1]
    /\ done' = IF work.era = era[f] /\ done[f] <= work.first
               THEN [done EXCEPT ![f] = work.first + 1] ELSE done

\* A bug to detect: no unique fingerprint.
InsertAlways ==
    /\ place = "lines" /\ work.lines # <<>>
    /\ LET e == Parse(Head(work.lines)) IN
       /\ e # Invalid
       /\ rows' = [rows EXCEPT ![todo[1]][e] = @ + 1]
    /\ Dealt
    /\ UNCHANGED <<outside, cursor, pruned, alerted, todo, at, place, budget>>

\* InsertAPIIntegrationUsageEvent.  A duplicate is as good.
Insert ==
    /\ place = "lines" /\ work.lines # <<>>
    /\ LET e == Parse(Head(work.lines)) IN
       /\ e # Invalid
       /\ rows' = [rows EXCEPT ![todo[1]][e] = IF @ > 0 THEN @ ELSE 1]
    /\ Dealt
    /\ UNCHANGED <<outside, cursor, pruned, alerted, todo, at, place, budget>>

\* A bug to detect: an event that cannot be inserted is passed over.
InsertFailsAndGoesOn ==
    /\ place = "lines" /\ work.lines # <<>>
    /\ Parse(Head(work.lines)) # Invalid
    /\ Fault
    /\ work' = [work EXCEPT !.lines = Tail(@), !.first = @ + 1]
    /\ UNCHANGED <<outside, database, todo, at, place>>

\* Any other failure ends the scan of the file without moving the cursor.
InsertFails ==
    /\ place = "lines" /\ work.lines # <<>>
    /\ Parse(Head(work.lines)) # Invalid
    /\ Fault
    /\ NextFile
    /\ UNCHANGED <<outside, database, at>>

\* A line that is no event is reported, up to a number per scan; an empty one is
\* passed over.
Report ==
    /\ place = "lines" /\ work.lines # <<>>
    /\ LET f == todo[1] IN
       /\ Parse(Head(work.lines)) = Invalid
       /\ IF Head(work.lines) # <<>> /\ work.alerts < MaxAlerts
          THEN /\ alerted' = [alerted EXCEPT ![f] = @ \cup {Head(work.lines)}]
               /\ work' = [work EXCEPT !.lines = Tail(@), !.first = @ + 1, !.alerts = @ + 1]
          ELSE /\ work' = [work EXCEPT !.lines = Tail(@), !.first = @ + 1]
               /\ UNCHANGED alerted
       /\ done' = IF work.era = era[f] /\ done[f] <= work.first
                  THEN [done EXCEPT ![f] = work.first + 1] ELSE done
    /\ UNCHANGED <<outside, cursor, rows, pruned, todo, at, place, budget>>

\* UpsertAPIIntegrationIngestState, after all lines.
Save ==
    /\ place = "lines" /\ work.lines = <<>>
    /\ cursor' = [cursor EXCEPT ![todo[1]] =
                    [offset |-> work.offset, partial |-> work.partial, era |-> work.era]]
    /\ NextFile
    /\ UNCHANGED <<outside, rows, pruned, alerted, done, at, budget>>

SaveFails ==
    /\ place = "lines" /\ work.lines = <<>>
    /\ Fault
    /\ NextFile
    /\ UNCHANGED <<outside, database, at>>

\* pruneExpiredUsageEvents
Prune ==
    /\ place = "prune"
    /\ rows' = [f \in Files |-> [e \in Events |-> IF e \in old THEN 0 ELSE rows[f][e]]]
    /\ pruned' = [f \in Files |-> pruned[f] \cup {e \in old : rows[f][e] > 0}]
    /\ place' = "wait"
    /\ UNCHANGED <<outside, cursor, alerted, done, todo, at, work, budget>>

\* It is not due yet.
PruneLater ==
    /\ place = "prune"
    /\ place' = "wait"
    /\ UNCHANGED <<outside, database, todo, at, work, budget>>

PruneFails ==
    /\ place = "prune"
    /\ Fault
    /\ place' = "wait"
    /\ UNCHANGED <<outside, database, todo, at, work>>

\* The daemon dies at any point and starts again.
Restart ==
    /\ Fault
    /\ todo' = <<>>
    /\ at' = 0
    /\ place' = "wait"
    /\ work' = Idle
    /\ UNCHANGED <<outside, database>>

Agent ==
    \/ Scan \/ SkipFile \/ Stat \/ Read
    \/ Insert \/ InsertFails \/ Report
    \/ Save \/ SaveFails
    \/ Prune \/ PruneLater \/ PruneFails

IngestNext ==
    \/ Agent
    \/ \E f \in Files : WriteByte(f) \/ ReplaceFile(f)
    \/ \E e \in Events : Expire(e)
    \/ Restart

IngestSpec == IngestInit /\ [][IngestNext]_IngestVars
IngestFairSpec == IngestSpec /\ WF_IngestVars(Agent)

-----------------------------------------------------------------------------
(* Properties *)

\* The lines of a file as it stands, each an event or Invalid.
LinesOf(f) ==
    LET split == SplitLines(file[f]) IN [i \in DOMAIN split |-> Parse(split[i])]

Ledger == INSTANCE IngestLedger WITH
    Sources <- Files, Entries <- Events, Junk <- Invalid,
    lines <- [f \in Files |-> LinesOf(f)],
    dealt <- done,
    written <- seen,
    counted <- [f \in Files |-> {e \in Events : rows[f][e] > 0} \cup pruned[f]]

\* Whatever reads are cut short, calls fail and restarts come between, the agent
\* does what the ledger does: it deals with the lines of a file in their order,
\* skips none, and counts an event it has seen written once.
KeepsLedger == Ledger!LedgerSpec

\* The saved state never runs ahead of the tables: every line that ends before
\* the cursor has been dealt with.
CursorCoversDealtLines ==
    \A f \in Files :
        ~Stale(cursor[f], f) =>
            Len(SplitLines(UpTo(cursor[f].offset, file[f]))) <= done[f]

\* A line is reported as invalid only if it is one: no event is torn in two by
\* the end of a read.
NoEventIsTorn ==
    \A f \in Files : \A l \in alerted[f] : \A i \in DOMAIN l : l[i] = Pad

\* The setup document of the integrations: "onWatch will treat the new file as a
\* new ingest source".  Every line of a file is dealt with in the end, unless the
\* file is replaced before.
LinesAreDealtWith == \A f \in Files : []<>(done[f] = Len(SplitLines(file[f])))
=============================================================================
