------------------------ MODULE EventPipelineProofs ------------------------
(***************************************************************************)
(* Theorems about EventPipeline, for every queue size and every number of  *)
(* events and of process starts: its types, its accounting, and that it    *)
(* implements the lossy first-in first-out log of EventLedger, so that its *)
(* lines are in order.                                                     *)
(***************************************************************************)
EXTENDS EventPipeline, FiniteSetTheorems, SequenceTheorems, TLAPS

(***************************************************************************)
(* Type correctness                                                        *)
(***************************************************************************)

\* The initial state is well typed.
LEMMA InitTypeOK == Init => TypeOK
BY SizesAreNaturals DEF Init, TypeOK, NoEvent

\* A piece cut from a sequence of events is a sequence of events.
LEMMA CutTyped ==
    ASSUME NEW s \in Seq(Event), NEW k \in 0 .. Len(s)
    PROVE  /\ SubSeq(s, 1, k) \in Seq(Event)
           /\ SubSeq(s, k + 1, Len(s)) \in Seq(Event)
BY SubSeqProperties

\* The state keeps its type whatever step is taken.
LEMMA NextTypeOK == TypeOK /\ [Next]_vars => TypeOK'
<1> SUFFICES ASSUME TypeOK, [Next]_vars PROVE TypeOK'
    OBVIOUS
<1> USE SizesAreNaturals
<1>1. CASE Start
    BY <1>1 DEF Start, TypeOK, NoEvent
<1>2. CASE Crash
    BY <1>2 DEF Crash, TypeOK, NoEvent
<1>3. CASE EmitRefused
    BY <1>3 DEF EmitRefused, MayEmit, NextEvent, TypeOK, volatile, process
<1>4. CASE EmitQueued
    BY <1>4 DEF EmitQueued, MayEmit, NextEvent, EnsuredTask, TypeOK, Event
<1>5. CASE EmitDropped
    BY <1>5 DEF EmitDropped, MayEmit, NextEvent, EnsuredTask, TypeOK
<1>6. CASE WorkerGet
    BY <1>6 DEF WorkerGet, TypeOK, Sentinel, NoEvent
<1>7. CASE WriteLine
    BY <1>7 DEF WriteLine, TypeOK
<1>8. CASE FlushFails
    BY <1>8 DEF FlushFails, PersistRaises, TypeOK
<1>9. CASE LineLost \/ OpenFails
    <2>1. jsonl' \in Seq(Event) /\ unflushed' \in Seq(Event)
        <3>1. jsonl \in Seq(Event) /\ unflushed \in Seq(Event)
            BY DEF TypeOK
        <3>2. \A k \in 0 .. Len(unflushed) :
                 /\ jsonl \o SubSeq(unflushed, 1, k) \in Seq(Event)
                 /\ SubSeq(unflushed, k + 1, Len(unflushed)) \in Seq(Event)
            BY <3>1, CutTyped
        <3> QED
            BY <1>9, <3>2, EmptySeq DEF LineLost, OpenFails
    <2>2. PersistRaises /\ UNCHANGED <<txn, rows>>
        BY <1>9 DEF LineLost, OpenFails
    <2> QED
        BY <2>1, <2>2 DEF PersistRaises, TypeOK
<1>10. CASE CommitRow
    BY <1>10 DEF CommitRow, TypeOK
<1>11. CASE CommitFails
    BY <1>11 DEF CommitFails, PersistRaises, TypeOK
<1>12. CASE OtherCommit
    BY <1>12 DEF OtherCommit, TypeOK, process
<1>13. CASE BeginStop
    BY <1>13 DEF BeginStop, TypeOK
<1>14. CASE PutSentinel
    BY <1>14 DEF PutSentinel, TypeOK
<1>15. CASE JoinWorker
    BY <1>15, CutTyped DEF JoinWorker, TypeOK
<1>16. CASE UNCHANGED vars
    BY <1>16 DEF vars, volatile, process, TypeOK
<1> QED
    BY <1>1, <1>2, <1>3, <1>4, <1>5, <1>6, <1>7, <1>8, <1>9, <1>10, <1>11,
       <1>12, <1>13, <1>14, <1>15, <1>16 DEF Next, Emit, Worker

\* Every variable keeps its type, and the worker holds an event exactly while
\* it persists one.
THEOREM TypeCorrect == Spec => []TypeOK
BY InitTypeOK, NextTypeOK, PTL DEF Spec

(***************************************************************************)
(* Rows follow lines.  RowsInLedger alone is not inductive: a commit also  *)
(* writes the event in the worker's hand and whatever an abandoned         *)
(* transaction holds, so their lines have to be in the file as well.       *)
(***************************************************************************)

LinesFirst ==
    /\ rows \cup txn \subseteq Range(jsonl)
    /\ task = "commit" => hand \in Range(jsonl)

\* Appending to a log keeps what it holds and adds what is appended.
LEMMA RangeOfConcat ==
    ASSUME NEW s \in Seq(Event), NEW t \in Seq(Event)
    PROVE  /\ Range(s) \subseteq Range(s \o t)
           /\ Range(t) \subseteq Range(s \o t)
<1>1. \A i \in DOMAIN s : i \in DOMAIN (s \o t) /\ (s \o t)[i] = s[i]
    OBVIOUS
<1>2. \A i \in DOMAIN t : Len(s) + i \in DOMAIN (s \o t) /\ (s \o t)[Len(s) + i] = t[i]
    OBVIOUS
<1> QED
    BY <1>1, <1>2 DEF Range

\* No step takes the line of a committed or a pending row away.
LEMMA NextLinesFirst == TypeOK /\ LinesFirst /\ [Next]_vars => LinesFirst'
<1> SUFFICES ASSUME TypeOK, LinesFirst, [Next]_vars PROVE LinesFirst'
    OBVIOUS
<1>1. CASE Start
    BY <1>1 DEF Start, LinesFirst
<1>2. CASE Crash
    BY <1>2 DEF Crash, LinesFirst
<1>3. CASE EmitRefused
    BY <1>3 DEF EmitRefused, LinesFirst, volatile, process
<1>4. CASE EmitQueued
    BY <1>4 DEF EmitQueued, EnsuredTask, LinesFirst
<1>5. CASE EmitDropped
    BY <1>5 DEF EmitDropped, EnsuredTask, LinesFirst
<1>6. CASE WorkerGet
    BY <1>6 DEF WorkerGet, LinesFirst
<1>7. CASE WriteLine
    <2>1. unflushed \o <<hand>> \in Seq(Event) /\ hand \in Range(unflushed \o <<hand>>)
        <3>1. hand \in Event /\ unflushed \in Seq(Event)
            BY <1>7 DEF WriteLine, TypeOK
        <3>2. <<hand>> \in Seq(Event) /\ hand \in Range(<<hand>>)
            BY <3>1 DEF Range
        <3>3. unflushed \o <<hand>> \in Seq(Event)
            BY <3>1, <3>2
        <3>4. Range(<<hand>>) \subseteq Range(unflushed \o <<hand>>)
            BY <3>1, <3>2, RangeOfConcat
        <3> QED
            BY <3>2, <3>3, <3>4
    <2>2. jsonl' = jsonl \o (unflushed \o <<hand>>)
        BY <1>7 DEF WriteLine, TypeOK
    <2>3. Range(jsonl) \subseteq Range(jsonl') /\ hand \in Range(jsonl')
        BY <2>1, <2>2, RangeOfConcat DEF TypeOK
    <2> QED
        BY <1>7, <2>3 DEF WriteLine, LinesFirst
<1>8. CASE FlushFails
    <2>1. PICK k \in 0 .. Len(unflushed) :
             jsonl' = jsonl \o SubSeq(unflushed \o <<hand>>, 1, k)
        BY <1>8 DEF FlushFails
    <2>2. SubSeq(unflushed \o <<hand>>, 1, k) \in Seq(Event)
        <3>1. unflushed \o <<hand>> \in Seq(Event) /\ k \in 0 .. Len(unflushed \o <<hand>>)
            BY <1>8 DEF FlushFails, TypeOK
        <3> QED
            BY <3>1, CutTyped
    <2>3. Range(jsonl) \subseteq Range(jsonl')
        BY <2>1, <2>2, RangeOfConcat DEF TypeOK
    <2> QED
        BY <1>8, <2>3 DEF FlushFails, PersistRaises, LinesFirst
<1>9. CASE LineLost \/ OpenFails
    <2>1. Range(jsonl) \subseteq Range(jsonl')
        BY <1>9, CutTyped, RangeOfConcat DEF LineLost, OpenFails, TypeOK
    <2> QED
        BY <1>9, <2>1 DEF LineLost, OpenFails, PersistRaises, LinesFirst
<1>10. CASE CommitRow
    BY <1>10 DEF CommitRow, LinesFirst
<1>11. CASE CommitFails
    BY <1>11 DEF CommitFails, PersistRaises, LinesFirst
<1>12. CASE OtherCommit
    BY <1>12 DEF OtherCommit, LinesFirst, process
<1>13. CASE BeginStop
    BY <1>13 DEF BeginStop, LinesFirst
<1>14. CASE PutSentinel
    BY <1>14 DEF PutSentinel, LinesFirst
<1>15. CASE JoinWorker
    <2>1. Range(jsonl) \subseteq Range(jsonl')
        BY <1>15, CutTyped, RangeOfConcat DEF JoinWorker, TypeOK
    <2> QED
        BY <1>15, <2>1 DEF JoinWorker, LinesFirst
<1>16. CASE UNCHANGED vars
    BY <1>16 DEF vars, volatile, process, LinesFirst
<1> QED
    BY <1>1, <1>2, <1>3, <1>4, <1>5, <1>6, <1>7, <1>8, <1>9, <1>10, <1>11,
       <1>12, <1>13, <1>14, <1>15, <1>16 DEF Next, Emit, Worker

\* A row is never committed for an event whose line is not in the JSONL files,
\* whatever fails and whenever the process dies (_persist, write_event).
THEOREM RowsFollowLines == Spec => []RowsInLedger
<1>1. Init => LinesFirst
    BY DEF Init, LinesFirst
<1>2. LinesFirst => RowsInLedger
    BY DEF LinesFirst, RowsInLedger
<1> QED
    BY <1>1, <1>2, InitTypeOK, NextTypeOK, NextLinesFirst, PTL DEF Spec

(***************************************************************************)
(* Counting.  To count what waits one has to know where the sentinel can   *)
(* be: only last, and only between stop() queueing it and the worker       *)
(* taking it.  That in turn rests on when a worker exists at all.          *)
(***************************************************************************)

SentinelQueued == stopper = "join" /\ task # "done"

QueueShape ==
    /\ \A i \in 1 .. Len(queue) :
          queue[i] = Sentinel <=> (i = Len(queue) /\ SentinelQueued)
    /\ SentinelQueued => queue # <<>>
    /\ task = "done" => stopper = "join" /\ queue = <<>>
    /\ task = "none" <=> stopper \in {"down", "stopped"}
    /\ task = "none" => queue = <<>>

\* How many events wait, and how many the worker holds.
WaitingCount == Len(queue) - (IF SentinelQueued THEN 1 ELSE 0)
HandCount == IF task \in {"write", "commit"} THEN 1 ELSE 0

Balance == offered = written + failed + dropped + WaitingCount + HandCount

\* The sentinel stays last and the worker exists as long as the process runs.
LEMMA NextQueueShape == TypeOK /\ QueueShape /\ [Next]_vars => QueueShape'
<1> SUFFICES ASSUME TypeOK, QueueShape, [Next]_vars PROVE QueueShape'
    OBVIOUS
<1> USE DEF QueueShape, SentinelQueued
<1>1. CASE Start
    BY <1>1 DEF Start
<1>2. CASE Crash
    BY <1>2 DEF Crash
<1>3. CASE EmitRefused
    BY <1>3 DEF EmitRefused, volatile, process
<1>4. CASE EmitQueued
    <2>1. stopper = "running" /\ task \in {"get", "write", "commit"}
        BY <1>4 DEF EmitQueued, MayEmit, closed, TypeOK
    <2>2. NextEvent # Sentinel /\ NextEvent \in Event
        BY <1>4, SizesAreNaturals DEF EmitQueued, MayEmit, NextEvent, Sentinel, Event, TypeOK
    <2>3. /\ Len(queue') = Len(queue) + 1
          /\ \A i \in 1 .. Len(queue') :
                queue'[i] = IF i <= Len(queue) THEN queue[i] ELSE NextEvent
        BY <1>4, <2>2 DEF EmitQueued, TypeOK
    <2>4. task' = task /\ stopper' = stopper
        BY <1>4, <2>1 DEF EmitQueued, EnsuredTask
    <2> QED
        BY <2>1, <2>2, <2>3, <2>4 DEF TypeOK
<1>5. CASE EmitDropped
    BY <1>5 DEF EmitDropped, EnsuredTask, MayEmit, closed, TypeOK
<1>6. CASE WorkerGet
    <2>1. /\ Len(queue') = Len(queue) - 1
          /\ \A i \in 1 .. Len(queue') : queue'[i] = queue[i + 1]
          /\ Len(queue) \in Nat \ {0}
        BY <1>6 DEF WorkerGet, TypeOK
    <2>2. Head(queue) = queue[1]
        BY <1>6 DEF WorkerGet, TypeOK
    <2>3. task = "get" /\ stopper' = stopper /\ queue' \in Seq(Event \cup {Sentinel})
        BY <1>6 DEF WorkerGet, TypeOK
    <2>4. CASE queue[1] = Sentinel
        <3>1. Len(queue) = 1 /\ stopper = "join"
            BY <2>1, <2>4
        <3>2. queue' = <<>> /\ task' = "done"
            BY <1>6, <2>1, <2>2, <2>3, <2>4, <3>1 DEF WorkerGet
        <3> QED
            BY <2>3, <3>1, <3>2
    <2>5. CASE queue[1] # Sentinel
        <3>1. task' = "write"
            BY <1>6, <2>2, <2>5 DEF WorkerGet
        <3>2. SentinelQueued' <=> SentinelQueued
            BY <2>3, <3>1
        <3>3. SentinelQueued => Len(queue') # 0
            BY <2>1, <2>5
        <3>4. \A i \in 1 .. Len(queue') :
                 queue'[i] = Sentinel <=> (i = Len(queue') /\ SentinelQueued)
            BY <2>1
        <3>5. SentinelQueued => queue' # <<>>
            BY <3>3
        <3> QED
            BY <2>3, <3>1, <3>2, <3>4, <3>5
    <2> QED
        BY <2>4, <2>5
<1>7. CASE WriteLine
    BY <1>7 DEF WriteLine
<1>8. CASE FlushFails
    BY <1>8 DEF FlushFails, PersistRaises
<1>9. CASE LineLost \/ OpenFails
    BY <1>9 DEF LineLost, OpenFails, PersistRaises
<1>10. CASE CommitRow
    BY <1>10 DEF CommitRow
<1>11. CASE CommitFails
    BY <1>11 DEF CommitFails, PersistRaises
<1>12. CASE OtherCommit
    BY <1>12 DEF OtherCommit, process
<1>13. CASE BeginStop
    BY <1>13 DEF BeginStop
<1>14. CASE PutSentinel
    <2>1. /\ Len(queue') = Len(queue) + 1
          /\ \A i \in 1 .. Len(queue') :
                queue'[i] = IF i <= Len(queue) THEN queue[i] ELSE Sentinel
        BY <1>14 DEF PutSentinel, TypeOK
    <2> QED
        BY <1>14, <2>1 DEF PutSentinel, TypeOK
<1>15. CASE JoinWorker
    BY <1>15 DEF JoinWorker
<1>16. CASE UNCHANGED vars
    BY <1>16 DEF vars, volatile, process
<1> QED
    BY <1>1, <1>2, <1>3, <1>4, <1>5, <1>6, <1>7, <1>8, <1>9, <1>10, <1>11,
       <1>12, <1>13, <1>14, <1>15, <1>16 DEF Next, Emit, Worker

\* Every step that takes an event from one place puts it in another.
LEMMA NextBalance == TypeOK /\ QueueShape /\ Balance /\ [Next]_vars => Balance'
<1> SUFFICES ASSUME TypeOK, QueueShape, Balance, [Next]_vars PROVE Balance'
    OBVIOUS
<1> USE DEF Balance, WaitingCount, HandCount, SentinelQueued
<1>0. /\ Len(queue) \in Nat /\ written \in Nat /\ failed \in Nat
      /\ dropped \in Nat /\ offered \in Nat
    BY DEF TypeOK
<1>1. CASE Start
    BY <1>1 DEF Start
<1>2. CASE Crash
    BY <1>2 DEF Crash
<1>3. CASE EmitRefused
    BY <1>3 DEF EmitRefused, volatile, process
<1>4. CASE EmitQueued
    <2>1. stopper = "running" /\ task \in {"get", "write", "commit"}
        BY <1>4 DEF EmitQueued, MayEmit, closed, QueueShape, TypeOK
    <2>2. Len(queue') = Len(queue) + 1
        BY <1>4 DEF EmitQueued, TypeOK
    <2> QED
        BY <1>0, <1>4, <2>1, <2>2 DEF EmitQueued, EnsuredTask
<1>5. CASE EmitDropped
    <2>1. stopper = "running" /\ task \in {"get", "write", "commit"}
        BY <1>5 DEF EmitDropped, MayEmit, closed, QueueShape, TypeOK
    <2> QED
        BY <1>0, <1>5, <2>1 DEF EmitDropped, EnsuredTask
<1>6. CASE WorkerGet
    <2>1. task = "get" /\ stopper' = stopper /\ Len(queue') = Len(queue) - 1
        BY <1>6 DEF WorkerGet, TypeOK
    <2>2. queue # <<>> /\ Head(queue) = queue[1] /\ 1 \in 1 .. Len(queue)
        BY <1>6 DEF WorkerGet, TypeOK
    <2>3. CASE Head(queue) = Sentinel
        <3>1. SentinelQueued /\ task' = "done"
            BY <1>6, <2>2, <2>3 DEF WorkerGet, QueueShape
        <3> QED
            BY <1>0, <1>6, <2>1, <3>1 DEF WorkerGet
    <2>4. CASE Head(queue) # Sentinel
        <3>1. task' = "write"
            BY <1>6, <2>4 DEF WorkerGet
        <3> QED
            BY <1>0, <1>6, <2>1, <3>1 DEF WorkerGet
    <2> QED
        BY <2>3, <2>4
<1>7. CASE WriteLine
    BY <1>7 DEF WriteLine
<1>8. CASE FlushFails
    BY <1>0, <1>8 DEF FlushFails, PersistRaises
<1>9. CASE LineLost \/ OpenFails
    <2>1. task = "write" /\ PersistRaises
        BY <1>9 DEF LineLost, OpenFails
    <2> QED
        BY <1>0, <2>1 DEF PersistRaises
<1>10. CASE CommitRow
    BY <1>0, <1>10 DEF CommitRow
<1>11. CASE CommitFails
    BY <1>0, <1>11 DEF CommitFails, PersistRaises
<1>12. CASE OtherCommit
    BY <1>12 DEF OtherCommit, process
<1>13. CASE BeginStop
    BY <1>13 DEF BeginStop
<1>14. CASE PutSentinel
    <2>1. Len(queue') = Len(queue) + 1
        BY <1>14 DEF PutSentinel, TypeOK
    <2>2. task # "done"
        BY <1>14 DEF PutSentinel, QueueShape
    <2> QED
        BY <1>0, <1>14, <2>1, <2>2 DEF PutSentinel
<1>15. CASE JoinWorker
    BY <1>15 DEF JoinWorker
<1>16. CASE UNCHANGED vars
    BY <1>16 DEF vars, volatile, process
<1> QED
    BY <1>1, <1>2, <1>3, <1>4, <1>5, <1>6, <1>7, <1>8, <1>9, <1>10, <1>11,
       <1>12, <1>13, <1>14, <1>15, <1>16 DEF Next, Emit, Worker

\* The numbers of Balance are the counts that Accounting is about.
LEMMA CountsAreExact ==
    ASSUME TypeOK, QueueShape
    PROVE  Cardinality(Waiting) = WaitingCount /\ Len(InHand) = HandCount
<1>1. Len(queue) \in Nat /\ DOMAIN queue = 1 .. Len(queue)
    BY DEF TypeOK
<1>2. Cardinality(Waiting) = WaitingCount
    <2>1. CASE SentinelQueued
        <3>1. Waiting = 1 .. Len(queue) - 1 /\ Len(queue) # 0
            <4>1. Len(queue) # 0
                <5>1. queue # <<>> /\ queue \in Seq(Event \cup {Sentinel})
                    BY <2>1 DEF QueueShape, TypeOK
                <5> QED
                    BY <5>1, EmptySeq
            <4>2. \A i \in 1 .. Len(queue) : queue[i] # Sentinel <=> i # Len(queue)
                BY <2>1 DEF QueueShape
            <4>3. Waiting = {i \in 1 .. Len(queue) : i # Len(queue)}
                BY <1>1, <4>2 DEF Waiting
            <4> QED
                BY <1>1, <4>1, <4>3
        <3>2. Cardinality(1 .. Len(queue) - 1) = Len(queue) - 1
            <4>1. 1 \in Int /\ Len(queue) - 1 \in Int
                BY <1>1
            <4>2. Cardinality(1 .. Len(queue) - 1) =
                    IF 1 > Len(queue) - 1 THEN 0 ELSE Len(queue) - 1 - 1 + 1
                BY <4>1, FS_Interval
            <4> QED
                BY <1>1, <3>1, <4>2
        <3> QED
            BY <2>1, <3>1, <3>2 DEF WaitingCount
    <2>2. CASE ~SentinelQueued
        <3>1. Waiting = 1 .. Len(queue)
            BY <1>1, <2>2 DEF Waiting, QueueShape
        <3>2. Cardinality(1 .. Len(queue)) = Len(queue)
            <4>1. 1 \in Int /\ Len(queue) \in Int
                BY <1>1
            <4>2. Cardinality(1 .. Len(queue)) =
                    IF 1 > Len(queue) THEN 0 ELSE Len(queue) - 1 + 1
                BY <4>1, FS_Interval
            <4> QED
                BY <1>1, <4>2
        <3> QED
            BY <1>1, <2>2, <3>1, <3>2 DEF WaitingCount
    <2> QED
        BY <2>1, <2>2
<1>3. Len(InHand) = HandCount
    BY DEF InHand, HandCount, NoEvent, Event, TypeOK
<1> QED
    BY <1>2, <1>3

Invariant == TypeOK /\ QueueShape /\ Balance

\* The queue has its shape and the books balance in every reachable state.
LEMMA InvariantHolds == Spec => []Invariant
<1>1. Init => QueueShape /\ Balance
    BY DEF Init, QueueShape, Balance, WaitingCount, HandCount, SentinelQueued
<1> QED
    BY <1>1, InitTypeOK, NextTypeOK, NextQueueShape, NextBalance, PTL
       DEF Spec, Invariant

\* The counters of stats() lose no event: each one offered to the queue since
\* the process started is written, failed, dropped, waiting or in hand.
THEOREM NothingUncounted == Spec => []Accounting
<1>1. Invariant => Accounting
    BY CountsAreExact DEF Invariant, Balance, Accounting
<1> QED
    BY <1>1, InvariantHolds, PTL

\* When stop() has returned nothing accepted is left behind.
THEOREM StopDrains == Spec => []DrainOnStop
<1>1. Invariant => DrainOnStop
    <2> SUFFICES ASSUME Invariant, stopper = "stopped"
                 PROVE  queue = <<>> /\ hand = NoEvent /\ offered = written + failed + dropped
        BY DEF DrainOnStop
    <2>1. task = "none" /\ queue = <<>>
        BY DEF Invariant, QueueShape
    <2>2. hand = NoEvent
        BY <2>1 DEF Invariant, TypeOK
    <2>3. offered = written + failed + dropped
        BY <2>1 DEF Invariant, Balance, WaitingCount, HandCount, SentinelQueued, TypeOK
    <2> QED
        BY <2>1, <2>2, <2>3
<1> QED
    BY <1>1, InvariantHolds, PTL

\* Once stop() has returned no worker is left that could write to a closed
\* store, so the files stay as they are until the next process changes them.
THEOREM NothingAfterStop == Spec => QuietAfterStop
<1>1. QueueShape /\ [Next]_vars => [stopper = "stopped" => UNCHANGED <<jsonl, rows>>]_vars
    <2> SUFFICES ASSUME QueueShape, Next, stopper = "stopped"
                 PROVE  UNCHANGED <<jsonl, rows>>
        OBVIOUS
    <2>1. task = "none"
        BY DEF QueueShape
    <2>2. ~Worker
        BY <2>1 DEF Worker, WorkerGet, WriteLine, FlushFails, LineLost, OpenFails,
                  CommitRow, CommitFails
    <2>3. ~(Crash \/ OtherCommit \/ BeginStop \/ PutSentinel \/ JoinWorker)
        BY DEF Crash, OtherCommit, BeginStop, PutSentinel, JoinWorker
    <2>4. CASE Start \/ Emit
        BY <2>4 DEF Start, Emit, EmitRefused, EmitQueued, EmitDropped
    <2> QED
        BY <2>2, <2>3, <2>4 DEF Next
<1>2. Spec => []QueueShape
    BY InvariantHolds, PTL DEF Invariant
<1> QED
    BY <1>1, <1>2, PTL DEF Spec, QuietAfterStop

(***************************************************************************)
(* Cutting and joining sequences of events                                 *)
(***************************************************************************)

\* The first k of s \o t, if s has as many, are those of s.
LEMMA FrontOfConcat ==
    ASSUME NEW s \in Seq(Event), NEW t \in Seq(Event), NEW k \in 0 .. Len(s)
    PROVE  SubSeq(s \o t, 1, k) = SubSeq(s, 1, k)
<1>1. /\ SubSeq(s, 1, k) \in Seq(Event) /\ Len(SubSeq(s, 1, k)) = k
      /\ \A i \in 1 .. k : SubSeq(s, 1, k)[i] = s[i]
    OBVIOUS
<1>2. s \o t \in Seq(Event) /\ k \in 0 .. Len(s \o t)
    OBVIOUS
<1>3. /\ SubSeq(s \o t, 1, k) \in Seq(Event) /\ Len(SubSeq(s \o t, 1, k)) = k
      /\ \A i \in 1 .. k : SubSeq(s \o t, 1, k)[i] = (s \o t)[i]
    BY <1>2
<1>4. \A i \in 1 .. k : (s \o t)[i] = s[i]
    OBVIOUS
<1> QED
    BY <1>1, <1>3, <1>4, SeqEqual

\* So are those after the first k, up to the i-th.
LEMMA WithinConcat ==
    ASSUME NEW s \in Seq(Event), NEW t \in Seq(Event),
           NEW i \in 0 .. Len(s), NEW k \in 0 .. i
    PROVE  SubSeq(s \o t, k + 1, i) = SubSeq(s, k + 1, i)
<1> DEFINE whole == s \o t
<1>1. /\ whole \in Seq(Event) /\ i \in 0 .. Len(whole)
      /\ \A x \in 1 .. i : whole[x] = s[x]
    OBVIOUS
<1> HIDE DEF whole
<1>2. /\ SubSeq(s, k + 1, i) \in Seq(Event) /\ Len(SubSeq(s, k + 1, i)) = i - k
      /\ \A x \in 1 .. i - k : SubSeq(s, k + 1, i)[x] = s[k + x]
    BY SubSeqProperties, ElementOfSeq
<1>3. /\ SubSeq(whole, k + 1, i) \in Seq(Event) /\ Len(SubSeq(whole, k + 1, i)) = i - k
      /\ \A x \in 1 .. i - k : SubSeq(whole, k + 1, i)[x] = whole[k + x]
    BY <1>1, SubSeqProperties, ElementOfSeq
<1>4. \A x \in 1 .. i - k : k + x \in 1 .. i
    OBVIOUS
<1>5. SubSeq(whole, k + 1, i) = SubSeq(s, k + 1, i)
    BY <1>1, <1>2, <1>3, <1>4, SeqEqual
<1> QED
    BY <1>5 DEF whole

\* All but the first k of s \o t are the others of s, and t.
LEMMA BackOfConcat ==
    ASSUME NEW s \in Seq(Event), NEW t \in Seq(Event), NEW k \in 0 .. Len(s)
    PROVE  SubSeq(s \o t, k + 1, Len(s \o t)) = SubSeq(s, k + 1, Len(s)) \o t
<1> DEFINE whole == s \o t
           back == SubSeq(s, k + 1, Len(s))
<1>1. /\ whole \in Seq(Event) /\ Len(whole) = Len(s) + Len(t)
      /\ \A i \in 1 .. Len(whole) :
            whole[i] = IF i <= Len(s) THEN s[i] ELSE t[i - Len(s)]
    OBVIOUS
<1>2. /\ back \in Seq(Event) /\ Len(back) = Len(s) - k
      /\ \A i \in 1 .. Len(s) - k : back[i] = s[k + i]
    BY SubSeqProperties, ElementOfSeq
<1>3. /\ back \o t \in Seq(Event) /\ Len(back \o t) = Len(s) - k + Len(t)
      /\ \A i \in 1 .. Len(s) - k + Len(t) :
            (back \o t)[i] = IF i <= Len(s) - k THEN back[i] ELSE t[i - (Len(s) - k)]
    BY <1>2
<1> HIDE DEF whole, back
<1>4. /\ SubSeq(whole, k + 1, Len(whole)) \in Seq(Event)
      /\ Len(SubSeq(whole, k + 1, Len(whole))) = Len(whole) - k
      /\ \A i \in 1 .. Len(whole) - k : SubSeq(whole, k + 1, Len(whole))[i] = whole[k + i]
    BY <1>1, SubSeqProperties, ElementOfSeq
<1>5. Len(s) \in Nat /\ Len(t) \in Nat /\ Len(whole) - k = Len(s) - k + Len(t)
    BY <1>1
<1> DEFINE left == SubSeq(whole, k + 1, Len(whole))
           right == back \o t
<1>6. \A i \in 1 .. Len(whole) - k : left[i] = right[i]
  <2> SUFFICES ASSUME NEW i \in 1 .. Len(whole) - k PROVE left[i] = right[i]
    OBVIOUS
  <2>1. left[i] = whole[k + i]
    BY <1>4
  <2> HIDE DEF left
  <2>2. right[i] = IF i <= Len(s) - k THEN back[i] ELSE t[i - (Len(s) - k)]
    BY <1>3, <1>5
  <2> HIDE DEF right
  <2>3. /\ k + i \in 1 .. Len(whole)
        /\ k + i <= Len(s) <=> i <= Len(s) - k
        /\ i <= Len(s) - k => i \in 1 .. Len(s) - k
        /\ (k + i) - Len(s) = i - (Len(s) - k)
    BY <1>5
  <2>4. whole[k + i] = IF k + i <= Len(s) THEN s[k + i] ELSE t[(k + i) - Len(s)]
    BY <1>1, <2>3
  <2>5. CASE i <= Len(s) - k
    BY <1>2, <2>1, <2>2, <2>3, <2>4, <2>5
  <2>6. CASE ~(i <= Len(s) - k)
    BY <2>1, <2>2, <2>3, <2>4, <2>6
  <2> QED BY <2>5, <2>6
<1>7. /\ left \in Seq(Event) /\ right \in Seq(Event) /\ Len(left) = Len(right)
      /\ \A i \in 1 .. Len(left) : left[i] = right[i]
    BY <1>3, <1>4, <1>5, <1>6
<1> HIDE DEF left, right
<1>8. left = right
    BY <1>7, SeqEqual
<1> QED
    BY <1>8 DEF left, right, whole, back

\* To append to the second of two joined sequences is to append to both.
LEMMA AppendToConcat ==
    ASSUME NEW s \in Seq(Event), NEW t \in Seq(Event), NEW e \in Event
    PROVE  s \o Append(t, e) = Append(s \o t, e)
<1> DEFINE left == s \o Append(t, e)
           right == Append(s \o t, e)
           At(i) == IF i <= Len(s) THEN s[i]
                    ELSE IF i <= Len(s) + Len(t) THEN t[i - Len(s)] ELSE e
<1>1. /\ Append(t, e) \in Seq(Event) /\ Len(Append(t, e)) = Len(t) + 1
      /\ \A i \in 1 .. Len(t) : Append(t, e)[i] = t[i]
      /\ Append(t, e)[Len(t) + 1] = e
    BY AppendProperties
<1>2. /\ left \in Seq(Event) /\ Len(left) = Len(s) + Len(t) + 1
      /\ \A i \in 1 .. Len(left) : left[i] = At(i)
    BY <1>1
<1>3. /\ right \in Seq(Event) /\ Len(right) = Len(s) + Len(t) + 1
      /\ \A i \in 1 .. Len(right) : right[i] = At(i)
    OBVIOUS
<1> HIDE DEF left, right, At
<1>4. left = right
    BY <1>2, <1>3, SeqEqual
<1> QED
    BY <1>4 DEF left, right

\* Without its last element, what was appended to is as before.
LEMMA DropAppended ==
    ASSUME NEW s \in Seq(Event \cup {Sentinel}), NEW e \in Event \cup {Sentinel}
    PROVE  SubSeq(Append(s, e), 1, Len(Append(s, e)) - 1) = s
<1>1. /\ Append(s, e) \in Seq(Event \cup {Sentinel}) /\ Len(Append(s, e)) = Len(s) + 1
      /\ \A i \in 1 .. Len(s) : Append(s, e)[i] = s[i]
    OBVIOUS
<1>2. SubSeq(Append(s, e), 1, Len(s)) \in Seq(Event \cup {Sentinel})
    BY <1>1
<1>3. Len(SubSeq(Append(s, e), 1, Len(s))) = Len(s)
    BY <1>1
<1>4. \A i \in 1 .. Len(s) : SubSeq(Append(s, e), 1, Len(s))[i] = s[i]
    BY <1>1
<1> QED
    BY <1>1, <1>2, <1>3, <1>4, SeqEqual

\* A sequence of events is its head and its tail.
LEMMA HeadThenTail ==
    ASSUME NEW s \in Seq(Event), s # <<>>
    PROVE  s = <<Head(s)>> \o Tail(s)
BY HeadTailProperties, SeqEqual

(***************************************************************************)
(* The queue's events                                                      *)
(***************************************************************************)

\* The queue holds its events and, once stop() has queued it, the sentinel.
LEMMA QueuedEventsShape ==
    ASSUME TypeOK, QueueShape
    PROVE  /\ QueuedEvents \in Seq(Event)
           /\ ~SentinelQueued => QueuedEvents = queue
           /\ SentinelQueued => QueuedEvents = SubSeq(queue, 1, Len(queue) - 1)
           /\ queue = <<>> => QueuedEvents = <<>>
<1>1. queue \in Seq(Event \cup {Sentinel}) /\ Len(queue) \in Nat
    BY DEF TypeOK
<1>2. queue # <<>> => (queue[Len(queue)] = Sentinel <=> SentinelQueued)
    BY <1>1 DEF QueueShape
<1>3. CASE SentinelQueued
    <2>1. QueuedEvents = SubSeq(queue, 1, Len(queue) - 1) /\ queue # <<>>
        BY <1>2, <1>3 DEF QueuedEvents, QueueShape
    <2>2. \A i \in 1 .. Len(queue) - 1 : queue[i] \in Event
        BY <1>1 DEF QueueShape
    <2>3. SubSeq(queue, 1, Len(queue) - 1) \in Seq(Event)
        BY <1>1, <2>2, SubSeqProperties
    <2> QED
        BY <1>3, <2>1, <2>3
<1>4. CASE ~SentinelQueued
    <2>1. QueuedEvents = queue
        BY <1>2, <1>4 DEF QueuedEvents
    <2>2. \A i \in 1 .. Len(queue) : queue[i] \in Event
        BY <1>1, <1>4 DEF QueueShape
    <2>3. queue \in Seq(Event)
        BY <1>1, <2>2
    <2> QED
        BY <1>4, <2>1, <2>3
<1> QED
    BY <1>3, <1>4

(***************************************************************************)
(* Steps of the pipeline as steps of the log                               *)
(***************************************************************************)

\* What the worker is about to write is of the events, too.
LEMMA UnloggedTyped ==
    ASSUME TypeOK, QueueShape
    PROVE  /\ Unlogged \in Seq(Event)
           /\ task # "write" => Unlogged = unflushed \o QueuedEvents
           /\ task = "write" => Unlogged = (unflushed \o <<hand>>) \o QueuedEvents
                                /\ unflushed \o <<hand>> \in Seq(Event)
                                /\ Len(unflushed \o <<hand>>) = Len(unflushed) + 1
<1>1. QueuedEvents \in Seq(Event) /\ unflushed \in Seq(Event)
    BY QueuedEventsShape DEF TypeOK
<1>2. task = "write" => <<hand>> \in Seq(Event)
    BY DEF TypeOK
<1>3. task # "write" => Unlogged = unflushed \o QueuedEvents
    BY <1>1, ConcatEmptySeq DEF Unlogged
<1>4. task = "write" => Unlogged = (unflushed \o <<hand>>) \o QueuedEvents
    BY DEF Unlogged
<1>5. task = "write" => /\ unflushed \o <<hand>> \in Seq(Event)
                        /\ Len(unflushed \o <<hand>>) = Len(unflushed) + 1
    BY <1>1, <1>2
<1>6. Unlogged \in Seq(Event)
    <2>1. CASE task = "write"
        BY <1>1, <1>4, <1>5, <2>1, ConcatProperties
    <2>2. CASE task # "write"
        BY <1>1, <1>3, <2>2, ConcatProperties
    <2> QED
        BY <2>1, <2>2
<1> QED
    BY <1>3, <1>4, <1>5, <1>6

\* The range of the abstract log is the range of the files.
LEMMA SameRange == \A s : Ledger!Range(s) = Range(s)
BY DEF Ledger!Range, Range

\* The oldest m of what waits are settled, the first k of them written.
Settled(m, k) ==
    /\ jsonl' = jsonl \o SubSeq(Unlogged, 1, k)
    /\ Unlogged' = SubSeq(Unlogged, m + 1, Len(Unlogged))

\* Lines written and a run of the others lost are a step of the log.
LEMMA LossIsStep ==
    ASSUME NEW k \in 0 .. Len(Unlogged), NEW i \in 0 .. Len(Unlogged),
           NEW j \in 0 .. Len(Unlogged), k <= i, i <= j,
           jsonl' = jsonl \o SubSeq(Unlogged, 1, k),
           Unlogged' = SubSeq(Unlogged, k + 1, i) \o SubSeq(Unlogged, j + 1, Len(Unlogged)),
           UNCHANGED <<emitted, rows>>
    PROVE  [Ledger!Next]_(Ledger!ledgerVars)
<1>1. \E x, y, z \in 0 .. Len(Unlogged) :
         /\ x <= y /\ y <= z
         /\ jsonl' = jsonl \o SubSeq(Unlogged, 1, x)
         /\ Unlogged' = SubSeq(Unlogged, x + 1, y) \o SubSeq(Unlogged, z + 1, Len(Unlogged))
    BY Zenon
<1>2. Ledger!Settle
    BY <1>1, Zenon DEF Ledger!Settle
<1> QED
    BY <1>2 DEF Ledger!Next

\* So is the loss of the oldest ones that are not written.
LEMMA SettledIsStep ==
    ASSUME TypeOK, QueueShape,
           NEW m \in 0 .. Len(Unlogged), NEW k \in 0 .. m, Settled(m, k),
           UNCHANGED <<emitted, rows>>
    PROVE  [Ledger!Next]_(Ledger!ledgerVars)
<1> DEFINE rest == SubSeq(Unlogged, m + 1, Len(Unlogged))
<1>1. Unlogged \in Seq(Event) /\ Len(Unlogged) \in Nat
    BY UnloggedTyped, LenProperties
<1>2. k \in 0 .. Len(Unlogged) /\ k <= k /\ k <= m
    BY <1>1
<1>3. SubSeq(Unlogged, k + 1, k) = <<>> /\ rest \in Seq(Event)
    BY <1>1
<1>4. <<>> \o rest = rest
    BY <1>3, ConcatEmptySeq
<1>5. /\ jsonl' = jsonl \o SubSeq(Unlogged, 1, k)
      /\ Unlogged' = SubSeq(Unlogged, k + 1, k) \o rest
    BY <1>3, <1>4 DEF Settled
<1> QED
    BY <1>2, <1>5, LossIsStep

\* A process that begins or ends takes its queue and its buffer with it.
LEMMA ProcessSettles ==
    ASSUME TypeOK, QueueShape, Start \/ Crash
    PROVE  Settled(Len(Unlogged), 0)
<1>1. Unlogged \in Seq(Event) /\ jsonl \in Seq(Event)
    BY UnloggedTyped DEF TypeOK
<1>2. Unlogged' = <<>>
    BY DEF Start, Crash, Unlogged, QueuedEvents
<1>3. SubSeq(Unlogged, 1, 0) = <<>> /\ SubSeq(Unlogged, Len(Unlogged) + 1, Len(Unlogged)) = <<>>
    BY <1>1
<1>4. jsonl' = jsonl
    BY DEF Start, Crash
<1> QED
    BY <1>1, <1>2, <1>3, <1>4 DEF Settled

\* A write settles what it brings out or loses, oldest first.
LEMMA WriteSettles ==
    ASSUME TypeOK, QueueShape, WriteLine \/ FlushFails \/ OpenFails
    PROVE  \E m \in 0 .. Len(Unlogged), k \in 0 .. Len(Unlogged) : k <= m /\ Settled(m, k)
<1> DEFINE buffered == unflushed \o <<hand>>
<1>1. /\ task = "write" /\ unflushed \in Seq(Event) /\ <<hand>> \in Seq(Event)
      /\ jsonl \in Seq(Event) /\ QueuedEvents \in Seq(Event)
    BY QueuedEventsShape DEF WriteLine, FlushFails, OpenFails, TypeOK
<1>2. /\ Unlogged = buffered \o QueuedEvents /\ buffered \in Seq(Event)
      /\ Len(buffered) = Len(unflushed) + 1
    BY <1>1, UnloggedTyped
<1>3. QueuedEvents' = QueuedEvents /\ task' # "write"
    BY DEF WriteLine, FlushFails, OpenFails, PersistRaises, QueuedEvents
<1>4. Unlogged' = unflushed' \o QueuedEvents
    <2>1. unflushed' \in Seq(Event)
        BY NextTypeOK DEF Next, Worker, TypeOK
    <2>2. Unlogged' = (unflushed' \o <<>>) \o QueuedEvents
        BY <1>3 DEF Unlogged
    <2> QED
        BY <2>1, <2>2, ConcatEmptySeq
<1> HIDE DEF buffered
<1>5. Len(Unlogged) = Len(buffered) + Len(QueuedEvents) /\ Len(QueuedEvents) \in Nat
    BY <1>1, <1>2, ConcatProperties, LenProperties
<1>6. SubSeq(buffered, Len(buffered) + 1, Len(buffered)) = <<>>
      /\ SubSeq(buffered, 1, Len(buffered)) = buffered
    BY <1>2
<1>7. CASE WriteLine
    <2>1. SubSeq(Unlogged, 1, Len(buffered)) = buffered
        BY <1>1, <1>2, <1>6, FrontOfConcat
    <2>2. SubSeq(Unlogged, Len(buffered) + 1, Len(Unlogged)) = <<>> \o QueuedEvents
        BY <1>1, <1>2, <1>6, BackOfConcat
    <2>3. jsonl' = jsonl \o buffered
        BY <1>1, <1>7, ConcatAssociative DEF WriteLine, buffered
    <2>4. Unlogged' = <<>> \o QueuedEvents
        BY <1>4, <1>7 DEF WriteLine
    <2>5. Settled(Len(buffered), Len(buffered))
        BY <2>1, <2>2, <2>3, <2>4 DEF Settled
    <2> QED
        BY <1>2, <1>5, <2>5
<1>8. CASE FlushFails
    <2>1. PICK k \in 0 .. Len(unflushed) :
             /\ jsonl' = jsonl \o SubSeq(buffered, 1, k)
             /\ unflushed' = SubSeq(buffered, k + 1, Len(buffered))
        BY <1>8 DEF FlushFails, buffered
    <2>2. k \in 0 .. Len(buffered)
        BY <1>1, <1>2
    <2>3. SubSeq(Unlogged, 1, k) = SubSeq(buffered, 1, k)
        BY <1>1, <1>2, <2>2, FrontOfConcat
    <2>4. SubSeq(Unlogged, k + 1, Len(Unlogged)) = unflushed' \o QueuedEvents
        BY <1>1, <1>2, <2>1, <2>2, BackOfConcat
    <2>5. Settled(k, k)
        BY <1>4, <2>1, <2>3, <2>4 DEF Settled
    <2> QED
        BY <1>2, <1>5, <2>2, <2>5
<1>9. CASE OpenFails
    <2>1. PICK k \in 0 .. Len(unflushed) : jsonl' = jsonl \o SubSeq(unflushed, 1, k)
        BY <1>9 DEF OpenFails
    <2>2. k \in 0 .. Len(buffered)
        BY <1>1, <1>2
    <2>3. SubSeq(buffered, 1, k) = SubSeq(unflushed, 1, k)
        BY <1>1, FrontOfConcat DEF buffered
    <2>4. SubSeq(Unlogged, 1, k) = SubSeq(buffered, 1, k)
        BY <1>1, <1>2, <2>2, FrontOfConcat
    <2>5. SubSeq(Unlogged, Len(buffered) + 1, Len(Unlogged)) = <<>> \o QueuedEvents
        BY <1>1, <1>2, <1>6, BackOfConcat
    <2>6. Unlogged' = <<>> \o QueuedEvents
        BY <1>4, <1>9 DEF OpenFails
    <2>7. Settled(Len(buffered), k)
        BY <2>1, <2>3, <2>4, <2>5, <2>6 DEF Settled
    <2> QED
        BY <1>2, <1>5, <2>2, <2>7
<1> QED
    BY <1>7, <1>8, <1>9

\* A line that finds no room goes, and the older ones stay before the queue.
LEMMA LineLostIsStep ==
    ASSUME TypeOK, QueueShape, LineLost
    PROVE  [Ledger!Next]_(Ledger!ledgerVars)
<1> DEFINE buffered == unflushed \o <<hand>>
           n == Len(unflushed)
<1>1. /\ task = "write" /\ unflushed \in Seq(Event) /\ <<hand>> \in Seq(Event)
      /\ jsonl \in Seq(Event) /\ QueuedEvents \in Seq(Event) /\ n \in Nat
    BY QueuedEventsShape DEF LineLost, TypeOK
<1>2. /\ Unlogged = buffered \o QueuedEvents /\ buffered \in Seq(Event)
      /\ Len(buffered) = n + 1
    BY <1>1, UnloggedTyped
<1>3. PICK k \in 0 .. n : /\ jsonl' = jsonl \o SubSeq(unflushed, 1, k)
                         /\ unflushed' = SubSeq(unflushed, k + 1, n)
    BY DEF LineLost
<1>4. Unlogged' = unflushed' \o QueuedEvents /\ UNCHANGED <<emitted, rows>>
    <2>1. QueuedEvents' = QueuedEvents /\ task' = "get" /\ UNCHANGED <<emitted, rows>>
        BY DEF LineLost, PersistRaises, QueuedEvents
    <2>2. unflushed' \in Seq(Event)
        BY <1>1, <1>3
    <2>3. Unlogged' = (unflushed' \o <<>>) \o QueuedEvents
        BY <2>1 DEF Unlogged
    <2> QED
        BY <2>1, <2>2, <2>3, ConcatEmptySeq
<1>5. Unlogged = unflushed \o (<<hand>> \o QueuedEvents) /\ <<hand>> \o QueuedEvents \in Seq(Event)
    BY <1>1, <1>2, ConcatAssociative, ConcatProperties
<1>6. /\ SubSeq(Unlogged, 1, k) = SubSeq(unflushed, 1, k)
      /\ SubSeq(Unlogged, k + 1, n) = SubSeq(unflushed, k + 1, n)
    BY <1>1, <1>5, FrontOfConcat, WithinConcat
<1>7. SubSeq(Unlogged, (n + 1) + 1, Len(Unlogged)) = QueuedEvents
    <2>1. n + 1 \in 0 .. Len(buffered) /\ SubSeq(buffered, (n + 1) + 1, Len(buffered)) = <<>>
        BY <1>1, <1>2
    <2> HIDE DEF buffered, n
    <2>2. SubSeq(Unlogged, (n + 1) + 1, Len(Unlogged)) = <<>> \o QueuedEvents
        BY <1>1, <1>2, <2>1, BackOfConcat
    <2> QED
        BY <1>1, <2>2, ConcatEmptySeq
<1>8. n + 1 <= Len(Unlogged) /\ Len(Unlogged) \in Nat
    <2> HIDE DEF buffered, n
    <2> QED
        BY <1>1, <1>2, ConcatProperties, LenProperties
<1> HIDE DEF n
<1>9. k \in 0 .. Len(Unlogged) /\ n \in 0 .. Len(Unlogged) /\ n + 1 \in 0 .. Len(Unlogged)
    BY <1>1, <1>8
<1>10. k <= n /\ n <= n + 1
    BY <1>1
<1>11. /\ jsonl' = jsonl \o SubSeq(Unlogged, 1, k)
       /\ Unlogged' = SubSeq(Unlogged, k + 1, n)
                         \o SubSeq(Unlogged, (n + 1) + 1, Len(Unlogged))
    BY <1>3, <1>4, <1>6, <1>7
<1> QED
    BY <1>4, <1>9, <1>10, <1>11, LossIsStep

\* Closing the file settles what its buffer holds; nothing else waits.
LEMMA CloseSettles ==
    ASSUME TypeOK, QueueShape, JoinWorker
    PROVE  \E k \in 0 .. Len(Unlogged) : Settled(Len(Unlogged), k)
<1>1. task = "done" /\ queue = <<>> /\ QueuedEvents = <<>> /\ unflushed \in Seq(Event)
    BY QueuedEventsShape DEF JoinWorker, QueueShape, TypeOK
<1>2. Unlogged = unflushed
    BY <1>1, UnloggedTyped, ConcatEmptySeq
<1>3. Unlogged' = <<>>
    BY <1>1 DEF JoinWorker, Unlogged, QueuedEvents
<1>4. PICK k \in 0 .. Len(unflushed) : jsonl' = jsonl \o SubSeq(unflushed, 1, k)
    BY DEF JoinWorker
<1>5. SubSeq(Unlogged, Len(Unlogged) + 1, Len(Unlogged)) = <<>>
    BY <1>1, <1>2
<1> QED
    BY <1>2, <1>3, <1>4, <1>5 DEF Settled

\* To drop the first element and then the last is to keep what is between.
LEMMA MiddleOfQueue ==
    ASSUME NEW s \in Seq(Event \cup {Sentinel}), Len(s) > 1
    PROVE  SubSeq(Tail(s), 1, Len(Tail(s)) - 1) = SubSeq(s, 2, Len(s) - 1)
<1> DEFINE n == Len(s)
           short == SubSeq(Tail(s), 1, n - 2)
           middle == SubSeq(s, 2, n - 1)
<1>1. /\ n \in Nat /\ n > 1 /\ \A i \in 1 .. n : s[i] \in Event \cup {Sentinel}
      /\ Tail(s) \in Seq(Event \cup {Sentinel}) /\ Len(Tail(s)) = n - 1
      /\ \A i \in 1 .. n - 1 : Tail(s)[i] = s[i + 1]
    OBVIOUS
<1> HIDE DEF n
<1>2. /\ short \in Seq(Event \cup {Sentinel}) /\ Len(short) = n - 2
      /\ \A i \in 1 .. n - 2 : short[i] = s[i + 1]
    BY <1>1
<1>3. \A i \in 2 .. n - 1 : s[i] \in Event \cup {Sentinel}
    BY <1>1
<1>4. /\ middle \in Seq(Event \cup {Sentinel})
      /\ Len(middle) = IF 2 <= n - 1 THEN n - 1 - 2 + 1 ELSE 0
      /\ \A i \in 1 .. n - 1 - 2 + 1 : middle[i] = s[2 + i - 1]
    BY <1>1, <1>3, SubSeqProperties
<1> HIDE DEF short, middle
<1>5. Len(middle) = n - 2
    <2>1. CASE n = 2
        BY <1>4, <2>1
    <2>2. CASE n > 2
        BY <1>1, <1>4, <2>2
    <2> QED
        BY <1>1, <2>1, <2>2
<1>6. ASSUME NEW i \in 1 .. n - 2 PROVE middle[i] = s[i + 1]
    <2>1. i \in 1 .. n - 1 - 2 + 1 /\ 2 + i - 1 = i + 1
        BY <1>1
    <2> QED
        BY <1>4, <2>1
<1>7. short = middle
    BY <1>1, <1>2, <1>4, <1>5, <1>6, SeqEqual
<1>8. Len(Tail(s)) - 1 = n - 2
    BY <1>1
<1> QED
    BY <1>7, <1>8 DEF short, middle, n

\* An event taken from the queue was the first of its events.
LEMMA TakenFromQueue ==
    ASSUME TypeOK, QueueShape, WorkerGet, Head(queue) # Sentinel
    PROVE  /\ QueuedEvents' \in Seq(Event)
           /\ QueuedEvents = <<Head(queue)>> \o QueuedEvents'
<1>1. /\ queue # <<>> /\ queue' = Tail(queue) /\ queue \in Seq(Event \cup {Sentinel})
      /\ Len(queue) \in Nat \ {0}
    BY DEF WorkerGet, TypeOK
<1>2. Len(queue') = Len(queue) - 1 /\ \A i \in 1 .. Len(queue') : queue'[i] = queue[i + 1]
    BY <1>1
<1>3. Head(queue) = queue[1] /\ Head(queue) \in Event
    BY <1>1
<1>4. CASE SentinelQueued
    <2>1. QueuedEvents = SubSeq(queue, 1, Len(queue) - 1)
        BY <1>4, QueuedEventsShape
    <2>2. Len(queue) > 1 /\ queue[Len(queue)] = Sentinel
        BY <1>1, <1>3, <1>4 DEF QueueShape
    <2>3. queue' # <<>> /\ queue'[Len(queue')] = Sentinel
        BY <1>1, <1>2, <2>2
    <2>4. QueuedEvents' = SubSeq(queue', 1, Len(queue') - 1)
        BY <2>3 DEF QueuedEvents
    <2>5. QueuedEvents \in Seq(Event) /\ QueuedEvents # <<>> /\ Head(QueuedEvents) = queue[1]
        BY <1>1, <2>1, <2>2, QueuedEventsShape
    <2>6. Tail(QueuedEvents) = SubSeq(queue, 2, Len(queue) - 1)
        BY <1>1, <2>1, <2>2, HeadTailOfSubSeq
    <2>7. SubSeq(queue', 1, Len(queue') - 1) = SubSeq(queue, 2, Len(queue) - 1)
        BY <1>1, <1>2, <2>2, MiddleOfQueue
    <2>8. QueuedEvents' = Tail(QueuedEvents)
        BY <2>4, <2>6, <2>7
    <2> QED
        BY <1>3, <2>5, <2>8, HeadThenTail
<1>5. CASE ~SentinelQueued
    <2>1. QueuedEvents = queue /\ queue \in Seq(Event)
        BY <1>5, QueuedEventsShape
    <2>2. queue' \in Seq(Event)
        BY <1>1, <2>1
    <2>3. QueuedEvents' = queue'
        <3>1. queue' # <<>> => queue'[Len(queue')] \in Event
            BY <2>2
        <3> QED
            BY <3>1 DEF QueuedEvents, Sentinel, Event
    <2> QED
        BY <1>1, <2>1, <2>2, <2>3, HeadThenTail
<1> QED
    BY <1>4, <1>5, HeadTailProperties

\* Taking the head of the queue moves an event from the queue to the hand, and
\* putting the sentinel moves none.
LEMMA MovesKeepUnlogged ==
    ASSUME TypeOK, QueueShape,
           \/ WorkerGet \/ CommitRow \/ CommitFails \/ OtherCommit
           \/ BeginStop \/ PutSentinel \/ EmitRefused \/ EmitDropped
    PROVE  Unlogged' = Unlogged
<1>1. QueuedEvents \in Seq(Event) /\ unflushed \in Seq(Event)
    BY QueuedEventsShape DEF TypeOK
<1>2. CASE CommitRow \/ CommitFails \/ OtherCommit \/ BeginStop \/ EmitRefused
    BY <1>2 DEF CommitRow, CommitFails, PersistRaises, OtherCommit, BeginStop, EmitRefused,
                Unlogged, QueuedEvents, process, volatile
<1>3. CASE EmitDropped
    BY <1>3 DEF EmitDropped, EnsuredTask, Unlogged, QueuedEvents
<1>4. CASE PutSentinel
    <2>1. queue' = Append(queue, Sentinel) /\ queue \in Seq(Event \cup {Sentinel})
          /\ stopper = "put"
        BY <1>4 DEF PutSentinel, TypeOK
    <2>2. QueuedEvents = queue
        BY <2>1, QueuedEventsShape DEF SentinelQueued
    <2>3. queue' # <<>> /\ queue'[Len(queue')] = Sentinel
        BY <2>1
    <2>4. SubSeq(queue', 1, Len(queue') - 1) = queue
        BY <2>1, DropAppended
    <2>5. QueuedEvents' = queue
        BY <2>3, <2>4 DEF QueuedEvents
    <2> QED
        BY <1>4, <2>2, <2>5 DEF PutSentinel, Unlogged
<1>5. CASE WorkerGet
    <2>1. /\ task = "get" /\ queue # <<>> /\ queue' = Tail(queue)
          /\ queue \in Seq(Event \cup {Sentinel}) /\ unflushed' = unflushed
        BY <1>5 DEF WorkerGet, TypeOK
    <2>2. Unlogged = unflushed \o QueuedEvents
        BY <2>1, UnloggedTyped
    <2>3. CASE Head(queue) = Sentinel
        <3>1. Len(queue) = 1 /\ SentinelQueued
            <4>1. 1 \in 1 .. Len(queue) /\ queue[1] = Sentinel
                BY <2>1, <2>3
            <4> QED
                BY <4>1 DEF QueueShape
        <3>2. queue' = <<>>
            BY <2>1, <3>1
        <3>3. QueuedEvents = <<>>
            BY <2>1, <3>1, QueuedEventsShape
        <3>4. QueuedEvents' = <<>> /\ task' = "done"
            BY <1>5, <2>3, <3>2 DEF WorkerGet, QueuedEvents
        <3> QED
            BY <1>1, <2>1, <2>2, <3>3, <3>4, ConcatEmptySeq DEF Unlogged
    <2>4. CASE Head(queue) # Sentinel
        <3>1. task' = "write" /\ hand' = Head(queue) /\ Head(queue) \in Event
            BY <1>5, <2>1, <2>4 DEF WorkerGet
        <3>2. /\ QueuedEvents = <<Head(queue)>> \o QueuedEvents'
              /\ QueuedEvents' \in Seq(Event)
            BY <1>5, <2>4, TakenFromQueue
        <3>3. Unlogged' = (unflushed \o <<hand'>>) \o QueuedEvents'
            BY <2>1, <3>1 DEF Unlogged
        <3> QED
            BY <1>1, <2>2, <3>1, <3>2, <3>3, ConcatAssociative
    <2> QED
        BY <2>3, <2>4
<1> QED
    BY <1>2, <1>3, <1>4, <1>5

\* An accepted event goes to the end of what waits.
LEMMA QueuedIsAppended ==
    ASSUME TypeOK, QueueShape, EmitQueued
    PROVE  Unlogged' = Append(Unlogged, emitted + 1) /\ emitted + 1 \in Event
<1>1. /\ stopper = "running" /\ task' = task /\ hand' = hand /\ unflushed' = unflushed
      /\ queue' = Append(queue, emitted + 1)
    BY DEF EmitQueued, EnsuredTask, MayEmit, closed, NextEvent, QueueShape, TypeOK
<1>2. emitted + 1 \in Event /\ emitted + 1 # Sentinel
    BY SizesAreNaturals DEF EmitQueued, MayEmit, Event, Sentinel, TypeOK
<1>3. QueuedEvents = queue /\ queue \in Seq(Event)
    BY <1>1, QueuedEventsShape DEF SentinelQueued
<1>4. queue'[Len(queue')] = emitted + 1
    BY <1>1, <1>2, <1>3, AppendProperties
<1>5. QueuedEvents' = Append(QueuedEvents, emitted + 1)
    BY <1>1, <1>2, <1>3, <1>4 DEF QueuedEvents
<1> DEFINE front == unflushed \o (IF task = "write" THEN <<hand>> ELSE <<>>)
<1>6. front \in Seq(Event)
    <2>1. unflushed \in Seq(Event) /\ (task = "write" => <<hand>> \in Seq(Event))
        BY DEF TypeOK
    <2> QED
        BY <2>1, EmptySeq, ConcatProperties
<1>7. Unlogged = front \o queue /\ Unlogged' = front \o Append(queue, emitted + 1)
    BY <1>1, <1>3, <1>5 DEF Unlogged
<1> HIDE DEF front
<1>8. front \o Append(queue, emitted + 1) = Append(front \o queue, emitted + 1)
    BY <1>2, <1>3, <1>6, AppendToConcat
<1> QED
    BY <1>2, <1>7, <1>8

(***************************************************************************)
(* The refinement                                                          *)
(***************************************************************************)

Implemented == TypeOK /\ QueueShape /\ LinesFirst

\* Every step of the pipeline is a step of the log, or changes nothing of it.
LEMMA StepIsLedgerStep ==
    Implemented /\ [Next]_vars => [Ledger!Next]_(Ledger!ledgerVars)
<1> SUFFICES ASSUME Implemented, [Next]_vars PROVE [Ledger!Next]_(Ledger!ledgerVars)
    OBVIOUS
<1>0. TypeOK /\ QueueShape /\ LinesFirst /\ Unlogged \in Seq(Event) /\ Len(Unlogged) \in Nat
    BY UnloggedTyped, LenProperties DEF Implemented
<1>1. CASE Start \/ Crash
    <2>1. UNCHANGED <<emitted, rows>>
        BY <1>1 DEF Start, Crash
    <2>2. Settled(Len(Unlogged), 0)
        BY <1>0, <1>1, ProcessSettles
    <2> QED
        BY <1>0, <2>1, <2>2, SettledIsStep
<1>2. CASE EmitRefused \/ EmitQueued \/ EmitDropped
    <2>1. emitted < MaxEvents /\ emitted' = emitted + 1 /\ UNCHANGED <<jsonl, rows>>
        BY <1>2 DEF EmitRefused, EmitQueued, EmitDropped, MayEmit, NextEvent
    <2>2. Unlogged' \in {Unlogged, Append(Unlogged, emitted + 1)}
        BY <1>0, <1>2, QueuedIsAppended, MovesKeepUnlogged
    <2>3. Ledger!Submit
        BY <2>1, <2>2 DEF Ledger!Submit
    <2> QED
        BY <2>3 DEF Ledger!Next
<1>3. CASE WriteLine \/ FlushFails \/ OpenFails
    <2>1. UNCHANGED <<emitted, rows>>
        BY <1>3 DEF WriteLine, FlushFails, OpenFails, PersistRaises
    <2>2. PICK m \in 0 .. Len(Unlogged), k \in 0 .. Len(Unlogged) : k <= m /\ Settled(m, k)
        BY <1>0, <1>3, WriteSettles
    <2>3. k \in 0 .. m
        BY <2>2
    <2> QED
        BY <1>0, <2>1, <2>2, <2>3, SettledIsStep
<1>4. CASE LineLost
    BY <1>0, <1>4, LineLostIsStep
<1>5. CASE JoinWorker
    <2>1. UNCHANGED <<emitted, rows>>
        BY <1>5 DEF JoinWorker
    <2>2. PICK k \in 0 .. Len(Unlogged) : Settled(Len(Unlogged), k)
        BY <1>0, <1>5, CloseSettles
    <2> QED
        BY <1>0, <2>1, <2>2, SettledIsStep
<1>6. CASE CommitRow \/ OtherCommit
    <2>1. Unlogged' = Unlogged /\ UNCHANGED <<emitted, jsonl>>
        BY <1>0, <1>6, MovesKeepUnlogged DEF CommitRow, OtherCommit
    <2>2. rows' \subseteq Range(jsonl) /\ rows \subseteq rows'
        BY <1>0, <1>6 DEF CommitRow, OtherCommit, LinesFirst
    <2>3. rows' \in SUBSET Ledger!Range(jsonl)
        BY <2>2, SameRange
    <2>4. Ledger!Show
        BY <2>1, <2>2, <2>3 DEF Ledger!Show
    <2> QED
        BY <2>4 DEF Ledger!Next
<1>7. CASE WorkerGet \/ CommitFails \/ BeginStop \/ PutSentinel
    <2>1. UNCHANGED <<emitted, jsonl, rows>>
        BY <1>7 DEF WorkerGet, CommitFails, PersistRaises, BeginStop, PutSentinel
    <2>2. Unlogged' = Unlogged
        BY <1>0, <1>7, MovesKeepUnlogged
    <2> QED
        BY <2>1, <2>2 DEF Ledger!ledgerVars
<1>8. CASE UNCHANGED vars
    BY <1>8 DEF vars, volatile, process, Unlogged, QueuedEvents, Ledger!ledgerVars
<1> QED
    BY <1>1, <1>2, <1>3, <1>4, <1>5, <1>6, <1>7, <1>8 DEF Next, Emit, Worker

\* The first state of the pipeline is the empty log.
LEMMA InitIsLedgerInit == Init => Ledger!Init
BY DEF Init, Ledger!Init, Unlogged, QueuedEvents

\* What the refinement rests on holds in every reachable state.
LEMMA ImplementedHolds == Spec => []Implemented
<1>1. Init => QueueShape /\ LinesFirst
    BY DEF Init, QueueShape, SentinelQueued, LinesFirst
<1> QED
    BY <1>1, InitTypeOK, NextTypeOK, NextQueueShape, NextLinesFirst, PTL
       DEF Spec, Implemented

\* Whatever the queue's size, the stores' failures, the stops and the deaths,
\* the pipeline is a lossy first-in first-out log with a view of what it holds.
THEOREM ImplementsLedger == Spec => LedgerSpec
BY StepIsLedgerStep, InitIsLedgerInit, ImplementedHolds, PTL DEF Spec, LedgerSpec, Ledger!Spec

(***************************************************************************)
(* Order.  It follows from the log alone: what waits is later than what is *)
(* written, and the event to come later than both.                         *)
(***************************************************************************)

\* A sequence of events in their order of emission, none after the last one.
Ordered(s, last) ==
    /\ s \in Seq(Event)
    /\ Increasing(s)
    /\ \A i \in DOMAIN s : s[i] <= last

Order == Ordered(jsonl \o Unlogged, emitted)

\* Events are numbers.
LEMMA EventsAreNatural == Event \subseteq Nat
BY SizesAreNaturals DEF Event

\* The next event can be appended.
LEMMA AppendInOrder ==
    ASSUME NEW s, NEW last \in Nat, Ordered(s, last), last + 1 \in Event
    PROVE  Ordered(Append(s, last + 1), last + 1)
<1> DEFINE longer == Append(s, last + 1)
<1>1. s \in Seq(Event) /\ Len(s) \in Nat /\ DOMAIN s = 1 .. Len(s)
    BY LenProperties DEF Ordered
<1>2. /\ longer \in Seq(Event) /\ Len(longer) = Len(s) + 1
      /\ \A i \in 1 .. Len(s) : longer[i] = s[i]
      /\ longer[Len(s) + 1] = last + 1
    BY <1>1, AppendProperties
<1> HIDE DEF longer
<1>3. DOMAIN longer = 1 .. Len(s) + 1
    BY <1>2, LenProperties
<1>4. \A i \in 1 .. Len(s) : s[i] \in Nat /\ s[i] <= last
    BY <1>1, ElementOfSeq, EventsAreNatural DEF Ordered
<1>5. \A i \in 1 .. Len(s) + 1 : longer[i] <= last + 1
    BY <1>1, <1>2, <1>4
<1>6. ASSUME NEW i \in 1 .. Len(s) + 1, NEW j \in 1 .. Len(s) + 1, i < j
      PROVE  longer[i] < longer[j]
    <2>1. i \in 1 .. Len(s)
        BY <1>1, <1>6
    <2>2. CASE j = Len(s) + 1
        BY <1>2, <1>4, <2>1, <2>2
    <2>3. CASE j # Len(s) + 1
        <3>1. j \in 1 .. Len(s)
            BY <1>1, <2>3
        <3>2. s[i] < s[j]
            BY <1>1, <1>6, <2>1, <3>1 DEF Ordered, Increasing
        <3> QED
            BY <1>2, <2>1, <3>1, <3>2
    <2> QED
        BY <2>2, <2>3
<1>7. Ordered(longer, last + 1)
    BY <1>2, <1>3, <1>5, <1>6 DEF Ordered, Increasing
<1> QED
    BY <1>7 DEF longer

\* What is kept of a sequence after some of it is taken out is in order.
LEMMA CutInOrder ==
    ASSUME NEW s \in Seq(Event), NEW t \in Seq(Event), NEW last \in Nat,
           Ordered(s \o t, last), NEW m \in 0 .. Len(t), NEW k \in 0 .. m
    PROVE  Ordered((s \o SubSeq(t, 1, k)) \o SubSeq(t, m + 1, Len(t)), last)
<1> DEFINE whole == s \o t
           front == s \o SubSeq(t, 1, k)
           back == SubSeq(t, m + 1, Len(t))
           At(i) == IF i <= Len(s) + k THEN i ELSE i + (m - k)
<1>1. /\ whole \in Seq(Event) /\ Len(whole) = Len(s) + Len(t)
      /\ \A i \in 1 .. Len(whole) :
            whole[i] = IF i <= Len(s) THEN s[i] ELSE t[i - Len(s)]
    OBVIOUS
<1>2. /\ SubSeq(t, 1, k) \in Seq(Event) /\ Len(SubSeq(t, 1, k)) = k
      /\ \A i \in 1 .. k : SubSeq(t, 1, k)[i] = t[i]
    OBVIOUS
<1>3. /\ front \in Seq(Event) /\ Len(front) = Len(s) + k
      /\ \A i \in 1 .. Len(front) : front[i] = IF i <= Len(s) THEN s[i] ELSE t[i - Len(s)]
    BY <1>2, ConcatProperties
<1>4. /\ back \in Seq(Event) /\ Len(back) = Len(t) - m
      /\ \A i \in 1 .. Len(t) - m : back[i] = t[m + i]
    BY SubSeqProperties, ElementOfSeq
<1> HIDE DEF whole, front, back
<1>5. /\ front \o back \in Seq(Event) /\ Len(front \o back) = Len(s) + k + Len(t) - m
      /\ \A i \in 1 .. Len(front \o back) :
            (front \o back)[i] = IF i <= Len(s) + k THEN front[i] ELSE back[i - (Len(s) + k)]
    <2>1. /\ front \o back \in Seq(Event) /\ Len(front \o back) = Len(front) + Len(back)
          /\ \A i \in 1 .. Len(front) + Len(back) :
                (front \o back)[i] = IF i <= Len(front) THEN front[i] ELSE back[i - Len(front)]
        BY <1>3, <1>4, ConcatProperties
    <2>2. Len(front) + Len(back) = Len(s) + k + Len(t) - m
        BY <1>3, <1>4
    <2> QED
        BY <1>3, <2>1, <2>2
<1>6. ASSUME NEW i \in 1 .. Len(front \o back)
      PROVE  At(i) \in 1 .. Len(whole) /\ (front \o back)[i] = whole[At(i)]
    <2>1. CASE i <= Len(s) + k
        <3>1. At(i) = i /\ i \in 1 .. Len(whole) /\ i \in 1 .. Len(front)
            BY <1>1, <1>3, <1>5, <2>1
        <3>2. (front \o back)[i] = front[i] /\ front[i] = whole[i]
            BY <1>1, <1>3, <1>5, <2>1, <3>1
        <3> QED
            BY <3>1, <3>2
    <2>2. CASE i > Len(s) + k
        <3> DEFINE b == i - (Len(s) + k)
        <3>1. /\ At(i) = i + (m - k) /\ b \in 1 .. Len(t) - m /\ Len(s) + (m + b) = i + (m - k)
              /\ i + (m - k) \in 1 .. Len(whole) /\ i + (m - k) > Len(s)
              /\ i + (m - k) - Len(s) = m + b
            BY <1>1, <1>5, <2>2
        <3>2. (front \o back)[i] = back[b]
            <4>1. ~(i <= Len(s) + k)
                BY <1>5, <2>2
            <4> QED
                BY <1>5, <4>1
        <3>3. back[b] = t[m + b]
            BY <1>4, <3>1
        <3>4. whole[i + (m - k)] = t[m + b]
            BY <1>1, <3>1
        <3> QED
            BY <3>1, <3>2, <3>3, <3>4
    <2> QED
        BY <1>5, <2>1, <2>2
<1>7. \A i, j \in 1 .. Len(front \o back) : i < j => At(i) < At(j)
    BY <1>5
<1> HIDE DEF At
<1>8. Increasing(whole) /\ \A i \in 1 .. Len(whole) : whole[i] <= last
    BY <1>1 DEF Ordered, whole
<1>9. DOMAIN (front \o back) = 1 .. Len(front \o back) /\ DOMAIN whole = 1 .. Len(whole)
    BY <1>1, <1>5
<1>10. Ordered(front \o back, last)
    BY <1>5, <1>6, <1>7, <1>8, <1>9 DEF Ordered, Increasing
<1> QED
    BY <1>10 DEF front, back

\* Two pairs joined are the outer two around the inner ones.
Regroups(a, b, c, d) == (a \o b) \o (c \o d) = (a \o (b \o c)) \o d

\* Sequences of events are joined so.
LEMMA RegroupConcat ==
    ASSUME NEW a \in Seq(Event), NEW b \in Seq(Event), NEW c \in Seq(Event), NEW d \in Seq(Event)
    PROVE  Regroups(a, b, c, d)
<1>1. a \o b \in Seq(Event)
    BY ConcatProperties
<1>2. ((a \o b) \o c) \o d = (a \o b) \o (c \o d)
    BY <1>1, ConcatAssociative
<1>3. (a \o b) \o c = a \o (b \o c)
    BY ConcatAssociative
<1> QED
    BY <1>2, <1>3 DEF Regroups

\* A front of a sequence is the front of it and what lies between.
LEMMA FrontInTwo ==
    ASSUME NEW t \in Seq(Event), NEW i \in 0 .. Len(t), NEW k \in 0 .. i, NEW j \in 0 .. Len(t)
    PROVE  /\ SubSeq(t, 1, k) \in Seq(Event) /\ SubSeq(t, k + 1, i) \in Seq(Event)
           /\ SubSeq(t, j + 1, Len(t)) \in Seq(Event)
           /\ SubSeq(t, 1, k) \o SubSeq(t, k + 1, i) = SubSeq(t, 1, i)
<1> DEFINE a == SubSeq(t, 1, k)
           b == SubSeq(t, k + 1, i)
           c == SubSeq(t, 1, i)
<1>1. /\ a \in Seq(Event) /\ Len(a) = k /\ \A x \in 1 .. k : a[x] = t[x]
      /\ c \in Seq(Event) /\ Len(c) = i /\ \A x \in 1 .. i : c[x] = t[x]
      /\ SubSeq(t, j + 1, Len(t)) \in Seq(Event)
    BY SubSeqProperties, ElementOfSeq
<1>2. b \in Seq(Event) /\ Len(b) = i - k /\ \A x \in 1 .. i - k : b[x] = t[k + x]
    BY SubSeqProperties, ElementOfSeq
<1> HIDE DEF a, b, c
<1>3. /\ a \o b \in Seq(Event) /\ Len(a \o b) = i
      /\ \A x \in 1 .. i : (a \o b)[x] = IF x <= k THEN a[x] ELSE b[x - k]
    BY <1>1, <1>2, ConcatProperties
<1>4. \A x \in 1 .. i : (a \o b)[x] = c[x]
    BY <1>1, <1>2, <1>3
<1>5. a \o b = c
    BY <1>1, <1>3, <1>4, SeqEqual
<1> QED
    BY <1>1, <1>2, <1>5 DEF a, b, c

\* No step of the log disturbs the order.
LEMMA LedgerKeepsOrder ==
    ASSUME TypeOK, Unlogged \in Seq(Event), Order, [Ledger!Next]_(Ledger!ledgerVars)
    PROVE  Order'
<1>0. jsonl \in Seq(Event) /\ emitted \in Nat
    BY SizesAreNaturals DEF TypeOK
<1>1. CASE Ledger!Submit
    <2>1. /\ emitted + 1 \in Event /\ emitted' = emitted + 1 /\ jsonl' = jsonl
          /\ Unlogged' \in {Unlogged, Append(Unlogged, emitted + 1)}
        BY <1>0, <1>1, SizesAreNaturals DEF Ledger!Submit, Event
    <2>2. CASE Unlogged' = Unlogged
        <3> DEFINE all == jsonl \o Unlogged
        <3>1. all \in Seq(Event)
            BY <1>0, ConcatProperties
        <3> HIDE DEF all
        <3>2. \A i \in DOMAIN all : all[i] \in Nat
            BY <3>1, LenProperties, ElementOfSeq, EventsAreNatural
        <3>3. Ordered(all, emitted)
            BY DEF Order, all
        <3>4. Ordered(all, emitted + 1)
            BY <1>0, <3>2, <3>3 DEF Ordered
        <3>5. jsonl' \o Unlogged' = jsonl \o Unlogged
            BY <2>1, <2>2
        <3> QED
            BY <2>1, <3>4, <3>5 DEF Order, all
    <2>3. CASE Unlogged' = Append(Unlogged, emitted + 1)
        <3>1. jsonl \o Append(Unlogged, emitted + 1) = Append(jsonl \o Unlogged, emitted + 1)
            BY <1>0, <2>1, AppendToConcat
        <3>2. Ordered(Append(jsonl \o Unlogged, emitted + 1), emitted + 1)
            BY <1>0, <2>1, AppendInOrder DEF Order
        <3> QED
            BY <2>1, <2>3, <3>1, <3>2 DEF Order
    <2> QED
        BY <2>1, <2>2, <2>3
<1>2. CASE Ledger!Settle
    <2>1. PICK k, i, j \in 0 .. Len(Unlogged) :
             /\ k <= i /\ i <= j
             /\ jsonl' = jsonl \o SubSeq(Unlogged, 1, k)
             /\ Unlogged' = SubSeq(Unlogged, k + 1, i) \o SubSeq(Unlogged, j + 1, Len(Unlogged))
        BY <1>2, Zenon DEF Ledger!Settle
    <2> DEFINE old == SubSeq(Unlogged, 1, k)
               kept == SubSeq(Unlogged, k + 1, i)
               back == SubSeq(Unlogged, j + 1, Len(Unlogged))
    <2>2. j \in 0 .. Len(Unlogged) /\ i \in 0 .. j /\ k \in 0 .. i
        BY <2>1
    <2>3. /\ old \in Seq(Event) /\ kept \in Seq(Event) /\ back \in Seq(Event)
          /\ old \o kept = SubSeq(Unlogged, 1, i)
        BY <1>0, <2>2, FrontInTwo
    <2>4. Ordered((jsonl \o SubSeq(Unlogged, 1, i)) \o back, emitted)
        BY <1>0, <2>2, CutInOrder DEF Order
    <2>5. jsonl' \o Unlogged' = (jsonl \o (old \o kept)) \o back
        <3>1. jsonl' = jsonl \o old /\ Unlogged' = kept \o back
            BY <2>1
        <3>2. Regroups(jsonl, old, kept, back)
            BY <1>0, <2>3, RegroupConcat
        <3> HIDE DEF old, kept, back
        <3> QED
            BY <3>1, <3>2, Zenon DEF Regroups
    <2>6. emitted' = emitted
        BY <1>2 DEF Ledger!Settle
    <2> QED
        BY <2>3, <2>4, <2>5, <2>6 DEF Order
<1>3. CASE Ledger!Show \/ UNCHANGED Ledger!ledgerVars
    BY <1>3 DEF Ledger!Show, Ledger!ledgerVars, Order
<1> QED
    BY <1>1, <1>2, <1>3 DEF Ledger!Next

\* The JSONL files list events in the order they were emitted and none twice,
\* and lines that come out late still find their place (JsonlSink.write).
THEOREM LinesInOrder == Spec => []LedgerInOrder
<1>1. Init => Order
    BY EmptySeq DEF Init, Order, Ordered, Increasing, Unlogged, QueuedEvents
<1>2. Implemented /\ Order /\ [Next]_vars => Order'
    BY StepIsLedgerStep, UnloggedTyped, LedgerKeepsOrder DEF Implemented
<1>3. Order => LedgerInOrder
    BY DEF Order, Ordered, LedgerInOrder
<1> QED
    BY <1>1, <1>2, <1>3, ImplementedHolds, PTL DEF Spec
=============================================================================
