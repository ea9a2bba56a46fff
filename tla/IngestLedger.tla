---------------------------- MODULE IngestLedger ----------------------------
(***************************************************************************)
(* What the ingestion of usage events promises, without cursors, reads or  *)
(* restarts: every line of a source file is dealt with, in the order in    *)
(* which it was written, and an event is counted for a file at most once.  *)
(* IngestTail implements it.                                               *)
(***************************************************************************)
EXTENDS Naturals, Sequences

CONSTANTS
    Sources,   \* source files
    Entries,   \* events; the fingerprint of one includes its source
    Junk       \* a line that is no event

VARIABLES
    lines,     \* complete lines of each file, as it stands now
    dealt,     \* how many of them have been dealt with
    written,   \* events of complete lines ever written to each file
    counted    \* events counted for each file, whether pruned since or not

ledger == <<lines, dealt, written, counted>>

LedgerInit ==
    /\ lines = [f \in Sources |-> <<>>]
    /\ dealt = [f \in Sources |-> 0]
    /\ written = [f \in Sources |-> {}]
    /\ counted = [f \in Sources |-> {}]

\* A line is completed.
WriteLine(f, l) ==
    /\ lines' = [lines EXCEPT ![f] = Append(@, l)]
    /\ written' = [written EXCEPT ![f] = @ \cup ({l} \ {Junk})]
    /\ UNCHANGED <<dealt, counted>>

\* The next line is dealt with: its event is counted, unless it was before.
Deal(f) ==
    /\ dealt[f] < Len(lines[f])
    /\ dealt' = [dealt EXCEPT ![f] = @ + 1]
    /\ counted' = [counted EXCEPT ![f] = @ \cup ({lines[f][dealt[f] + 1]} \ {Junk})]
    /\ UNCHANGED <<lines, written>>

\* The file is replaced; lines that were not dealt with are gone.
Replace(f) ==
    /\ lines' = [lines EXCEPT ![f] = <<>>]
    /\ dealt' = [dealt EXCEPT ![f] = 0]
    /\ UNCHANGED <<written, counted>>

\* A line that was read before the file was replaced is dealt with after.
DealLate(f, e) ==
    /\ e \in written[f]
    /\ counted' = [counted EXCEPT ![f] = @ \cup {e}]
    /\ UNCHANGED <<lines, dealt, written>>

LedgerNext ==
    \E f \in Sources :
        \/ \E l \in Entries \cup {Junk} : WriteLine(f, l)
        \/ Deal(f)
        \/ Replace(f)
        \/ \E e \in Entries : DealLate(f, e)

LedgerSpec == LedgerInit /\ [][LedgerNext]_ledger
=============================================================================
