--------------------------- MODULE EventPipeline ---------------------------
(***************************************************************************)
(* The event pipeline of the honeypot (sink/pipeline.py) with the two      *)
(* stores its worker writes: the append-only JSONL file (sink/jsonl.py)    *)
(* and the events table of SQLite (sink/sqlite_store.py).                  *)
(*                                                                         *)
(* Connection handlers emit events on the event loop; one worker task      *)
(* takes them from a bounded asyncio.Queue and persists each one in a      *)
(* thread, first as a JSONL line, then as an SQLite transaction.  Handlers *)
(* go on emitting while the thread works, stop() can be called at any      *)
(* time, either store can fail, and the process can die between any two    *)
(* steps and be started again.                                             *)
(*                                                                         *)
(* An event is named by its emission number.  A line reaches the file      *)
(* whole or not at all here (a torn line is outside this module).          *)
(***************************************************************************)
EXTENDS Naturals, Sequences, FiniteSets, Functions

CONSTANTS
    MaxSize,    \* queue_maxsize; asyncio.Queue takes 0 for "no limit"
    MaxEvents,  \* bound: emit() calls in a behaviour
    MaxBoots    \* bound: process starts in a behaviour

ASSUME SizesAreNaturals == MaxSize \in Nat /\ MaxEvents \in Nat /\ MaxBoots \in Nat

Event == 1 .. MaxEvents
Sentinel == 0        \* the None that stop() puts behind the last event
NoEvent == 0         \* the worker holds no event

VARIABLES
    queue,      \* self.queue: events and at most one Sentinel
    task,       \* self._task: where the worker coroutine is
    hand,       \* the worker's current item
    stopper,    \* the process's life: down, running, or where stop() is
    written, dropped,   \* the counters stats() reports
    offered, failed,    \* history: emits that reached the queue, persists that raised
    unflushed,  \* lines the file handle still buffers after a flush that raised
    jsonl,      \* lines of the JSONL files, oldest first
    txn,        \* events inserted in a transaction that was never committed
    rows,       \* events committed to the events table
    emitted,    \* emit() calls so far
    boots       \* process starts so far

process == <<queue, task, hand, stopper, written, dropped, offered, failed>>
volatile == <<process, unflushed, txn>>
vars == <<volatile, jsonl, rows, emitted, boots>>

TypeOK ==
    /\ queue \in Seq(Event \cup {Sentinel})
    /\ task \in {"none", "get", "write", "commit", "done"}
    /\ hand \in IF task \in {"write", "commit"} THEN Event ELSE {NoEvent}
    /\ stopper \in {"down", "running", "put", "join", "stopped"}
    /\ written \in Nat /\ dropped \in Nat /\ offered \in Nat /\ failed \in Nat
    /\ unflushed \in Seq(Event)
    /\ jsonl \in Seq(Event)
    /\ txn \in SUBSET Event
    /\ rows \in SUBSET Event
    /\ emitted \in 0 .. MaxEvents
    /\ boots \in 0 .. MaxBoots

Init ==
    /\ queue = <<>> /\ task = "none" /\ hand = NoEvent
    /\ stopper = "down"
    /\ written = 0 /\ dropped = 0 /\ offered = 0 /\ failed = 0
    /\ unflushed = <<>> /\ txn = {}
    /\ jsonl = <<>> /\ rows = {}
    /\ emitted = 0 /\ boots = 0

(***************************************************************************)
(* The life of the process: start() inside the running loop, and death.    *)
(***************************************************************************)

\* run_service(): a new pipeline over the stores of the last process; start()
\* runs inside the loop, so _ensure_worker creates the queue and the worker.
Start ==
    /\ stopper \in {"down", "stopped"} /\ boots < MaxBoots
    /\ boots' = boots + 1
    /\ stopper' = "running"
    /\ queue' = <<>> /\ task' = "get" /\ hand' = NoEvent
    /\ written' = 0 /\ dropped' = 0 /\ offered' = 0 /\ failed' = 0
    /\ unflushed' = <<>> /\ txn' = {}
    /\ UNCHANGED <<jsonl, rows, emitted>>

\* The process dies: what was flushed and what was committed survives it.
Crash ==
    /\ stopper \in {"running", "put", "join"}
    /\ stopper' = "down"
    /\ queue' = <<>> /\ task' = "none" /\ hand' = NoEvent
    /\ written' = 0 /\ dropped' = 0 /\ offered' = 0 /\ failed' = 0
    /\ unflushed' = <<>> /\ txn' = {}
    /\ UNCHANGED <<jsonl, rows, emitted, boots>>

(***************************************************************************)
(* emit()                                                                  *)
(***************************************************************************)

\* self._closed: stop() sets it before anything else and nothing clears it.
closed == stopper \in {"put", "join", "stopped"}

Full == MaxSize > 0 /\ Len(queue) >= MaxSize

\* _ensure_worker: a worker that has returned is replaced (the pipeline is open).
EnsuredTask == IF task \in {"none", "done"} THEN "get" ELSE task

NextEvent == emitted + 1

MayEmit == emitted < MaxEvents /\ stopper \notin {"down", "stopped"}

\* emit() after stop() has begun: the event goes nowhere and is not counted.
EmitRefused ==
    /\ MayEmit /\ closed
    /\ emitted' = NextEvent
    /\ UNCHANGED <<volatile, jsonl, rows, boots>>

EmitQueued ==
    /\ MayEmit /\ ~closed /\ ~Full
    /\ emitted' = NextEvent
    /\ task' = EnsuredTask
    /\ queue' = Append(queue, NextEvent)
    /\ offered' = offered + 1
    /\ UNCHANGED <<hand, stopper, written, dropped, failed,
                   unflushed, jsonl, txn, rows, boots>>

\* Mutant of EmitDropped: the QueueFull handler forgets to count.
BugSilentDrop ==
    /\ MayEmit /\ ~closed /\ Full
    /\ emitted' = NextEvent /\ task' = EnsuredTask /\ offered' = offered + 1
    /\ UNCHANGED <<queue, hand, stopper, written, dropped, failed,
                   unflushed, jsonl, txn, rows, boots>>

\* put_nowait raises QueueFull: the new event is discarded, whatever its type.
EmitDropped ==
    /\ MayEmit /\ ~closed /\ Full
    /\ emitted' = NextEvent
    /\ task' = EnsuredTask
    /\ offered' = offered + 1
    /\ dropped' = dropped + 1
    /\ UNCHANGED <<queue, hand, stopper, written, failed,
                   unflushed, jsonl, txn, rows, boots>>

Emit == EmitRefused \/ EmitQueued \/ EmitDropped

(***************************************************************************)
(* _worker() and the two halves of _persist()                              *)
(***************************************************************************)

\* Mutant of WorkerGet: the newest event first.
BugNewestFirst ==
    /\ task = "get" /\ queue # <<>>
    /\ queue' = SubSeq(queue, 1, Len(queue) - 1)
    /\ IF queue[Len(queue)] = Sentinel
         THEN task' = "done" /\ hand' = NoEvent
         ELSE task' = "write" /\ hand' = queue[Len(queue)]
    /\ UNCHANGED <<stopper, written, dropped, offered, failed,
                   unflushed, jsonl, txn, rows, emitted, boots>>

WorkerGet ==
    /\ task = "get" /\ queue # <<>>
    /\ queue' = Tail(queue)
    /\ IF Head(queue) = Sentinel
         THEN task' = "done" /\ hand' = NoEvent
         ELSE task' = "write" /\ hand' = Head(queue)
    /\ UNCHANGED <<stopper, written, dropped, offered, failed,
                   unflushed, jsonl, txn, rows, emitted, boots>>

\* Mutants of PersistRaises: the failed event is put back, a JSONL error does
\* not keep the event from SQLite, the error ends the worker.
BugRequeue ==
    /\ task' = "get" /\ hand' = NoEvent /\ queue' = Append(queue, hand)
    /\ UNCHANGED <<stopper, written, dropped, offered, failed, emitted, boots>>

BugRowAnyway ==
    /\ task' = "commit"
    /\ UNCHANGED <<queue, hand, stopper, written, dropped, offered, failed,
                   emitted, boots>>

BugWorkerDies ==
    /\ task' = "done" /\ hand' = NoEvent /\ failed' = failed + 1
    /\ UNCHANGED <<queue, stopper, written, dropped, offered, emitted, boots>>

\* The worker's `except Exception`: log it and take the next item.
PersistRaises ==
    /\ task' = "get" /\ hand' = NoEvent
    /\ failed' = failed + 1
    /\ UNCHANGED <<queue, stopper, written, dropped, offered, emitted, boots>>

\* JsonlSink.write: the flush also carries the lines an earlier flush left.
WriteLine ==
    /\ task = "write"
    /\ jsonl' = jsonl \o unflushed \o <<hand>>
    /\ unflushed' = <<>>
    /\ task' = "commit"
    /\ UNCHANGED <<queue, hand, stopper, written, dropped, offered, failed,
                   txn, rows, emitted, boots>>

\* The flush raises: some of the buffered lines got out, the rest, the new
\* one the last of them, stay in the handle's buffer.
FlushFails ==
    /\ task = "write"
    /\ LET buffered == unflushed \o <<hand>> IN
       \E k \in 0 .. Len(unflushed) :
          /\ jsonl' = jsonl \o SubSeq(buffered, 1, k)
          /\ unflushed' = SubSeq(buffered, k + 1, Len(buffered))
    /\ PersistRaises
    /\ UNCHANGED <<txn, rows>>

\* The handle's buffer has no room for the line and flushing it raises: the
\* new line is dropped, and the older ones that did not get out stay.
LineLost ==
    /\ task = "write"
    /\ \E k \in 0 .. Len(unflushed) :
          /\ jsonl' = jsonl \o SubSeq(unflushed, 1, k)
          /\ unflushed' = SubSeq(unflushed, k + 1, Len(unflushed))
    /\ PersistRaises
    /\ UNCHANGED <<txn, rows>>

\* _ensure_file raises at a change of day: closing the old handle flushed
\* some of its lines and lost the others, or the new file did not open.
OpenFails ==
    /\ task = "write"
    /\ \E k \in 0 .. Len(unflushed) : jsonl' = jsonl \o SubSeq(unflushed, 1, k)
    /\ unflushed' = <<>>
    /\ PersistRaises
    /\ UNCHANGED <<txn, rows>>

\* Mutant of CommitRow: the worker keeps the item it has written.
BugKeepsHand ==
    /\ task = "commit"
    /\ rows' = rows \cup txn \cup {hand} /\ txn' = {}
    /\ written' = written + 1 /\ task' = "get"
    /\ UNCHANGED <<queue, hand, stopper, dropped, offered, failed,
                   unflushed, jsonl, emitted, boots>>

\* SqliteStore.write_event commits, with whatever its connection had open.
CommitRow ==
    /\ task = "commit"
    /\ rows' = rows \cup txn \cup {hand}
    /\ txn' = {}
    /\ written' = written + 1
    /\ task' = "get" /\ hand' = NoEvent
    /\ UNCHANGED <<queue, stopper, dropped, offered, failed,
                   unflushed, jsonl, emitted, boots>>

\* A statement or the commit raises and nothing rolls back: the event is not
\* in the transaction yet, or is and stays, or SQLite itself undid all of it.
CommitFails ==
    /\ task = "commit"
    /\ txn' \in {txn, txn \cup {hand}, {}}
    /\ PersistRaises
    /\ UNCHANGED <<unflushed, jsonl, rows>>

\* Any other write through the same connection (ports, retention) commits too.
OtherCommit ==
    /\ stopper \notin {"down", "stopped"} /\ txn # {}
    /\ rows' = rows \cup txn
    /\ txn' = {}
    /\ UNCHANGED <<process, unflushed, jsonl, emitted, boots>>

(***************************************************************************)
(* stop(), and the store.close() that run_service() calls after it         *)
(***************************************************************************)

BeginStop ==
    /\ stopper = "running"
    /\ stopper' = "put"
    /\ UNCHANGED <<queue, task, hand, written, dropped, offered, failed,
                   unflushed, jsonl, txn, rows, emitted, boots>>

\* await queue.put(None) waits while the queue is full.
PutSentinel ==
    /\ stopper = "put" /\ ~Full
    /\ queue' = Append(queue, Sentinel)
    /\ stopper' = "join"
    /\ UNCHANGED <<task, hand, written, dropped, offered, failed,
                   unflushed, jsonl, txn, rows, emitted, boots>>

\* The worker has returned: the JSONL handle is closed, which flushes it or
\* raises; closing the connection discards an uncommitted transaction.
JoinWorker ==
    /\ stopper = "join" /\ task = "done"
    /\ stopper' = "stopped" /\ task' = "none"
    /\ \E k \in 0 .. Len(unflushed) : jsonl' = jsonl \o SubSeq(unflushed, 1, k)
    /\ unflushed' = <<>> /\ txn' = {}
    /\ UNCHANGED <<queue, hand, written, dropped, offered, failed,
                   rows, emitted, boots>>

Worker ==
    \/ WorkerGet
    \/ WriteLine \/ FlushFails \/ LineLost \/ OpenFails
    \/ CommitRow \/ CommitFails

Next ==
    \/ Start \/ Crash
    \/ Emit
    \/ Worker
    \/ OtherCommit
    \/ BeginStop \/ PutSentinel \/ JoinWorker

Spec == Init /\ [][Next]_vars

\* The event loop runs every ready task and a persist thread ends, with or
\* without an error.  Nothing makes handlers emit, stop() be called, a failed
\* write succeed or a dead process start again.
FairSpec ==
    /\ Spec
    /\ WF_vars(Worker)
    /\ WF_vars(PutSentinel)
    /\ WF_vars(JoinWorker)

(***************************************************************************)
(* Properties                                                              *)
(***************************************************************************)

Waiting == {i \in DOMAIN queue : queue[i] # Sentinel}
InHand == IF hand = NoEvent THEN <<>> ELSE <<hand>>

\* Every event that reached the queue of this process is in exactly one place:
\* written, failed, dropped, waiting or in the worker's hand.  The counters of
\* stats() lose nothing to a failed store, a full queue or a stop in progress.
Accounting ==
    offered = written + failed + dropped + Cardinality(Waiting) + Len(InHand)

\* The events of the queue, without the sentinel that stop() puts last.
QueuedEvents ==
    IF queue # <<>> /\ queue[Len(queue)] = Sentinel
      THEN SubSeq(queue, 1, Len(queue) - 1) ELSE queue

\* What has been accepted and has no line yet, in the order it will get one.
Unlogged == unflushed \o (IF task = "write" THEN <<hand>> ELSE <<>>) \o QueuedEvents

Increasing(s) == \A i, j \in DOMAIN s : i < j => s[i] < s[j]

\* The JSONL files list events in the order they were emitted and none twice,
\* across failed flushes, restarts and late lines still to come.
LedgerInOrder == Increasing(jsonl \o Unlogged)

\* A row is never committed for an event whose line is not already in the
\* JSONL file, so a reindex from JSONL cannot lose what the table shows; this
\* includes rows a later commit picked up from an abandoned transaction.
RowsInLedger == rows \subseteq Range(jsonl)

\* When stop() has returned, nothing accepted was left behind: the queue is
\* empty and every event was written, failed or dropped.
DrainOnStop ==
    stopper = "stopped" =>
        queue = <<>> /\ hand = NoEvent /\ offered = written + failed + dropped

\* Between stop() returning (and the stores closing) and the next start, the
\* files do not change: no worker step races the close of the stores.
QuietAfterStop == [][stopper = "stopped" => UNCHANGED <<jsonl, rows>>]_vars

\* The head of the queue is always taken in the end: a store that raises does
\* not end the worker while events are waiting.
QueueMoves ==
    \A e \in Event : (e \in Range(queue)) ~> (e \notin Range(queue))

(***************************************************************************)
(* What the pipeline promises, whatever its queue and its worker do.       *)
(***************************************************************************)
Ledger == INSTANCE EventLedger WITH
    last <- emitted, pending <- Unlogged, ledger <- jsonl, shown <- rows

LedgerSpec == Ledger!Spec
=============================================================================
