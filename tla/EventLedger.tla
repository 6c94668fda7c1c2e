---------------------------- MODULE EventLedger ----------------------------
(***************************************************************************)
(* What the event pipeline promises to the rest of the honeypot: a lossy   *)
(* first-in first-out log.  Submitted events may be lost, before they are  *)
(* accepted or while they wait, but the log only grows, by events in the   *)
(* order they were submitted, and only logged events are ever shown in the *)
(* database.                                                               *)
(***************************************************************************)
EXTENDS Naturals, Sequences, Functions

CONSTANT MaxEvents

VARIABLES
    last,       \* number of the last event submitted
    pending,    \* accepted events that are not in the log yet
    ledger,     \* the log
    shown       \* logged events that the database shows

ledgerVars == <<last, pending, ledger, shown>>

Init == last = 0 /\ pending = <<>> /\ ledger = <<>> /\ shown = {}

\* An event is submitted, and accepted or not.
Submit ==
    /\ last < MaxEvents
    /\ last' = last + 1
    /\ pending' \in {pending, Append(pending, last + 1)}
    /\ UNCHANGED <<ledger, shown>>

\* The oldest k pending events are logged, and a run of the others, from any
\* place among them, is lost.
Settle ==
    /\ \E k, i, j \in 0 .. Len(pending) :
          /\ k <= i /\ i <= j
          /\ ledger' = ledger \o SubSeq(pending, 1, k)
          /\ pending' = SubSeq(pending, k + 1, i) \o SubSeq(pending, j + 1, Len(pending))
    /\ UNCHANGED <<last, shown>>

\* Logged events become visible in the database.
Show ==
    /\ shown' \in SUBSET Range(ledger)
    /\ shown \subseteq shown'
    /\ UNCHANGED <<last, pending, ledger>>

Next == Submit \/ Settle \/ Show

Spec == Init /\ [][Next]_ledgerVars
=============================================================================
