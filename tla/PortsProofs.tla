---------------------------- MODULE PortsProofs ----------------------------
(***************************************************************************)
(* Proofs about Ports, for every finite set of ports, every configuration  *)
(* and all bounds: types, rows that outlive restarts, shutdown, and, when  *)
(* the callers only add enabled ports, that listeners agree with the table *)
(* whatever requests raced.                                                *)
(***************************************************************************)
EXTENDS Ports, FiniteSetTheorems, FunctionTheorems, SequenceTheorems, TLAPS

(***************************************************************************)
(* Types                                                                   *)
(***************************************************************************)

\* What upserts and switches make of a row is a row; only no row has no cfg.
LEMMA RowTypes ==
    ASSUME NEW r \in Rows
    PROVE  /\ r.enabled \in BOOLEAN
           /\ [r EXCEPT !.enabled = FALSE] \in Rows
           /\ r # NoRow => r.cfg \in Cfg
<1>1. CASE r \in [cfg : Cfg, enabled : BOOLEAN, source : {"config", "runtime"}]
  BY <1>1 DEF Rows, NoRow
<1>2. CASE r = NoRow
  <2>1. NoRow \in [cfg : {"none"}, enabled : {FALSE}, source : {"none"}]
    BY DEF NoRow
  <2>2. [NoRow EXCEPT !.enabled = FALSE] \in [cfg : {"none"}, enabled : {FALSE}, source : {"none"}]
    BY <2>1
  <2>3. ASSUME NEW r2 \in [cfg : {"none"}, enabled : {FALSE}, source : {"none"}]
        PROVE  r2 = NoRow
    BY DEF NoRow
  <2>4. [NoRow EXCEPT !.enabled = FALSE] = NoRow
    BY <2>2, <2>3
  <2> QED BY <1>2, <2>4 DEF Rows, NoRow
<1> QED BY <1>1, <1>2 DEF Rows

\* Writing a row keeps the table a table.
LEMMA UpsertTypes ==
    ASSUME TypeOK, NEW p \in Port, NEW c \in Cfg, NEW enabled \in BOOLEAN,
           NEW source \in {"config", "runtime"}
    PROVE  Upserted(p, c, enabled, source) \in Rows
BY DEF Upserted, Rows

\* Seeding writes rows.
LEMMA SeedTypes == ASSUME TypeOK PROVE Seeded \in [Port -> Rows]
<1> SUFFICES ASSUME NEW p \in Port PROVE Seeded[p] \in Rows
  BY DEF Seeded
<1>1. CASE p \in DOMAIN Yaml /\ row[p].source # "runtime"
  <2>1. Upserted(p, Yaml[p].cfg, Yaml[p].enabled, "config") \in Rows
    BY <1>1, UpsertTypes, YamlIsPartial
  <2> QED BY <1>1, <2>1 DEF Seeded
<1>2. CASE ~(p \in DOMAIN Yaml /\ row[p].source # "runtime")
  BY <1>2 DEF Seeded, TypeOK
<1> QED BY <1>1, <1>2

\* A snapshot of a finite set as a sequence holds its members, each of them.
LEMMA Snapshot ==
    ASSUME NEW S, IsFiniteSet(S)
    PROVE  /\ SetToSeq(S) \in Seq(S)
           /\ \A x \in S : \E i \in DOMAIN SetToSeq(S) : SetToSeq(S)[i] = x
<1> DEFINE n == Cardinality(S)
<1>1. n \in Nat /\ ExistsBijection(1 .. n, S)
  BY FS_CardinalityType
<1>2. PICK f : f \in Bijection(1 .. n, S)
  BY <1>1 DEF ExistsBijection
<1>3. f \in [1 .. n -> S] /\ IsInjective(f)
  BY <1>2 DEF Bijection, Injection
<1>4. SetToSeq(S) \in [1 .. n -> S] /\ IsInjective(SetToSeq(S))
  BY <1>3 DEF SetToSeq
<1>5. SetToSeq(S) \in Injection(1 .. n, S)
  BY <1>4 DEF Injection
<1>6. IsFiniteSet(1 .. n) /\ Cardinality(1 .. n) = n
  BY <1>1, FS_Interval
<1>7. SetToSeq(S) \in Surjection(1 .. n, S)
  BY <1>5, <1>6, FS_Injection
<1>8. \A x \in S : \E i \in 1 .. n : SetToSeq(S)[i] = x
  BY <1>7 DEF Surjection
<1> QED BY <1>1, <1>4, <1>8

\* The holder of the lock is an operation, and what is left when it releases
\* the lock are operations.
LEMMA HolderTypes ==
    ASSUME lockQueue \in Seq(Ops), lockQueue # <<>>
    PROVE  /\ Holder \in Ops /\ Holder.port \in Port
           /\ Holder.op = "start" => Holder.cfg \in Cfg
           /\ Holder.op \in {"start", "stop"}
           /\ Tail(lockQueue) \in Seq(Ops)
<1>1. Holder \in Ops /\ Tail(lockQueue) \in Seq(Ops)
  BY HeadTailProperties DEF Holder
<1> QED BY <1>1 DEF Ops

\* The operations that stop_all() queues: a stop for each open listener.
LEMMA StopOps ==
    ASSUME TypeOK, StopAll
    PROVE  /\ lockQueue' \in Seq(Ops)
           /\ \A i \in DOMAIN lockQueue' : lockQueue'[i].op = "stop"
           /\ \A p \in Port : listener[p].open =>
                  \E i \in DOMAIN lockQueue' : lockQueue'[i].port = p
<1> DEFINE S == {p \in Port : listener[p].open}
           open == SetToSeq(S)
<1>1. IsFiniteSet(S)
  BY PortsAreFinite, FS_Subset
<1>2. open \in Seq(S) /\ \A x \in S : \E i \in DOMAIN open : open[i] = x
  BY <1>1, Snapshot
<1> HIDE DEF open
<1>3. lockQueue' = [i \in DOMAIN open |-> [op |-> "stop", port |-> open[i]]]
  BY DEF StopAll, open
<1>4. \A i \in DOMAIN open : open[i] \in Port /\ [op |-> "stop", port |-> open[i]] \in Ops
  BY <1>2 DEF Ops
<1>5. lockQueue' \in Seq(Ops)
  BY <1>2, <1>3, <1>4
<1> QED BY <1>2, <1>3, <1>4, <1>5

\* The types hold at first.
LEMMA Initial == Init => TypeOK
BY BoundsAreNaturals DEF Init, TypeOK, Rows, Listeners, Closed, AllClosed, NoConns

\* A request of the web UI keeps the types.
LEMMA RequestTypes == ASSUME TypeOK, WebRequest PROVE TypeOK'
<1>1. PICK p \in Port :
          \/ \E c \in Cfg, enable \in AddEnable : AddPort(p, c, enable)
          \/ EnablePort(p)
          \/ DisablePort(p)
  BY DEF WebRequest
<1>2. Request
  BY <1>1 DEF AddPort, EnablePort, DisablePort
<1>3. row' \in [Port -> Rows] /\ lockQueue' \in Seq(Ops)
  <2>1. ASSUME NEW c \in Cfg, NEW enable \in AddEnable, AddPort(p, c, enable)
        PROVE  row' \in [Port -> Rows] /\ lockQueue' \in Seq(Ops)
    <3>1. Upserted(p, c, enable, "runtime") \in Rows
      BY <2>1, FlagsAreBoolean, UpsertTypes
    <3>2. StartOp(p, c) \in Ops
      BY DEF StartOp, Ops
    <3>3. row' \in [Port -> Rows]
      BY <2>1, <3>1 DEF AddPort, TypeOK
    <3>4. lockQueue' \in Seq(Ops)
      <4>1. lockQueue' = Append(lockQueue, StartOp(p, c)) \/ lockQueue' = lockQueue
        BY <2>1 DEF AddPort, Enqueue
      <4> QED BY <3>2, <4>1 DEF TypeOK
    <3> QED BY <3>3, <3>4
  <2>2. CASE EnablePort(p)
    <3>1. row[p].cfg \in Cfg
      BY <2>2, RowTypes DEF EnablePort, InTable, TypeOK
    <3>2. Upserted(p, row[p].cfg, TRUE, "runtime") \in Rows
      BY <3>1, UpsertTypes
    <3>3. StartOp(p, row[p].cfg) \in Ops
      BY <3>1 DEF StartOp, Ops
    <3>4. row' \in [Port -> Rows]
      BY <2>2, <3>2 DEF EnablePort, TypeOK
    <3>5. lockQueue' \in Seq(Ops)
      BY <2>2, <3>3 DEF EnablePort, TypeOK, Enqueue
    <3> QED BY <3>4, <3>5
  <2>3. CASE DisablePort(p)
    <3>1. [row[p] EXCEPT !.enabled = FALSE] \in Rows
      BY RowTypes DEF TypeOK
    <3>2. StopOp(p) \in Ops
      BY DEF StopOp, Ops
    <3> QED BY <2>3, <3>1, <3>2 DEF DisablePort, TypeOK, Enqueue
  <2> QED BY <1>1, <2>1, <2>2, <2>3
<1>4. requests' \in 0 .. MaxRequests
  BY <1>2, BoundsAreNaturals DEF Request, TypeOK
<1> QED BY <1>2, <1>3, <1>4 DEF Request, TypeOK, sockets

\* A step of the holder of the lock keeps them.
LEMMA LockTypes == ASSUME TypeOK, LockStep PROVE TypeOK'
<1>1. lockQueue \in Seq(Ops) /\ lockQueue # <<>>
  BY DEF TypeOK, LockStep, AlreadyListening, BeginBind, BindSucceeds, BindFails,
         CloseListener, NothingToClose, Drained, Holds
<1>2. /\ Holder \in Ops /\ Holder.port \in Port
      /\ Holder.op = "start" => Holder.cfg \in Cfg
      /\ Tail(lockQueue) \in Seq(Ops)
  BY <1>1, HolderTypes
<1> USE <1>2 DEF TypeOK, sockets, counts
<1>3. CASE AlreadyListening
  BY <1>3 DEF AlreadyListening, Release
<1>4. CASE BeginBind
  BY <1>4 DEF BeginBind
<1>5. CASE BindSucceeds
  <2>1. [open |-> TRUE, cfg |-> Holder.cfg] \in Listeners
    BY <1>5 DEF BindSucceeds, Holds, Listeners
  <2> QED BY <1>5, <2>1 DEF BindSucceeds, Release
<1>6. CASE BindFails
  BY <1>6 DEF BindFails, Release
<1>7. CASE CloseListener
  <2>1. listener' \in [Port -> Listeners]
    BY <1>7 DEF CloseListener, Listeners
  <2>2. conns' \in [Port -> 0 .. MaxConns] /\ draining' \in 0 .. MaxConns
    BY <1>7, BoundsAreNaturals DEF CloseListener
  <2> QED BY <1>7, <2>1, <2>2 DEF CloseListener
<1>8. CASE NothingToClose
  BY <1>8 DEF NothingToClose, Release
<1>9. CASE Drained
  BY <1>9, BoundsAreNaturals DEF Drained, Release
<1> QED BY <1>3, <1>4, <1>5, <1>6, <1>7, <1>8, <1>9 DEF LockStep

\* So do start, shutdown and death of the process.
LEMMA ProcessTypes ==
    ASSUME TypeOK, Boot \/ SeedingCut \/ Crash \/ StopAll \/ Halt
    PROVE  TypeOK'
<1> USE BoundsAreNaturals DEF TypeOK, counts, sockets
<1>1. CASE Boot
  <2>1. row' \in [Port -> Rows] /\ \A p \in Port : row'[p] = Seeded[p]
    BY <1>1, SeedTypes DEF Boot
  <2>2. \A p \in Port : Seeded[p].enabled => [open |-> TRUE, cfg |-> Seeded[p].cfg] \in Listeners
    <3> SUFFICES ASSUME NEW p \in Port, Seeded[p].enabled
                 PROVE  [open |-> TRUE, cfg |-> Seeded[p].cfg] \in Listeners
      OBVIOUS
    <3>1. Seeded[p] \in Rows /\ Seeded[p] # NoRow
      BY SeedTypes DEF NoRow
    <3> QED BY <3>1, RowTypes DEF Listeners
  <2>3. listener' \in [Port -> Listeners] /\ refused' \subseteq Port
    BY <1>1, <2>2 DEF Boot, Listeners, Closed
  <2> QED BY <1>1, <2>1, <2>3 DEF Boot, NoConns
<1>2. CASE SeedingCut
  <2>1. row' \in [Port -> Rows]
    BY <1>2, SeedTypes DEF SeedingCut
  <2> QED BY <1>2, <2>1 DEF SeedingCut
<1>3. CASE Crash
  BY <1>3 DEF Crash, AllClosed, Listeners, Closed, NoConns
<1>4. CASE StopAll
  BY <1>4, StopOps DEF StopAll
<1>5. CASE Halt
  BY <1>5 DEF Halt, NoConns
<1> QED BY <1>1, <1>2, <1>3, <1>4, <1>5

\* So do connections.
LEMMA ConnectionTypes == ASSUME TypeOK, Connections PROVE TypeOK'
<1> USE BoundsAreNaturals DEF TypeOK, counts
<1>1. ASSUME NEW p \in Port, Accept(p) PROVE TypeOK'
  BY <1>1 DEF Accept
<1>2. ASSUME NEW p \in Port, ConnectionEnds(p) PROVE TypeOK'
  BY <1>2 DEF ConnectionEnds
<1>3. CASE DrainingConnectionEnds
  BY <1>3 DEF DrainingConnectionEnds
<1> QED BY <1>1, <1>2, <1>3 DEF Connections

\* Every step keeps the types.
LEMMA StepTypes == ASSUME TypeOK, [Next]_vars PROVE TypeOK'
<1>1. CASE UNCHANGED vars
  BY <1>1 DEF TypeOK, vars, sockets, counts
<1> QED BY <1>1, ProcessTypes, RequestTypes, LockTypes, ConnectionTypes DEF Next

\* The table, the listeners and the queue of operations keep their types: in
\* particular a listener only ever serves what some configuration can be.
THEOREM TypeCorrect == Spec => []TypeOK
<1> QED BY Initial, StepTypes, PTL DEF Spec

(***************************************************************************)
(* Rows across restarts                                                    *)
(***************************************************************************)

\* A row of an operator stays one, and a boot leaves it as it is.
LEMMA StepKeepsRuntime ==
    ASSUME TypeOK, [Next]_vars, NEW p \in Port, row[p].source = "runtime"
    PROVE  /\ row'[p].source = "runtime"
           /\ service = "down" => row'[p] = row[p]
<1>1. Seeded[p] = row[p]
  BY DEF Seeded
<1>2. CASE Boot \/ SeedingCut
  BY <1>1, <1>2 DEF Boot, SeedingCut
<1>3. CASE WebRequest
  <2>1. PICK q \in Port :
            \/ \E c \in Cfg, enable \in AddEnable : AddPort(q, c, enable)
            \/ EnablePort(q)
            \/ DisablePort(q)
    BY <1>3 DEF WebRequest
  <2>2. \/ \E c \in Cfg, enable \in AddEnable :
              row' = [row EXCEPT ![q] = Upserted(q, c, enable, "runtime")]
        \/ row' = [row EXCEPT ![q] = Upserted(q, row[q].cfg, TRUE, "runtime")]
        \/ row' = [row EXCEPT ![q] = [row[q] EXCEPT !.enabled = FALSE]]
    BY <2>1 DEF AddPort, EnablePort, DisablePort
  <2>3. row[p] \in [cfg : Cfg, enabled : BOOLEAN, source : {"config", "runtime"}]
    BY DEF TypeOK, Rows, NoRow
  <2>4. row'[p].source = "runtime"
    BY <2>2, <2>3 DEF Upserted, TypeOK
  <2> QED BY <2>1, <2>4 DEF AddPort, EnablePort, DisablePort, Request
<1>4. CASE Crash \/ StopAll \/ Halt \/ LockStep \/ Connections \/ UNCHANGED vars
  BY <1>4 DEF Crash, StopAll, Halt, LockStep, AlreadyListening, BeginBind, BindSucceeds,
      BindFails, CloseListener, NothingToClose, Drained, Connections, Accept,
      ConnectionEnds, DrainingConnectionEnds, vars
<1> QED BY <1>2, <1>3, <1>4 DEF Next

\* What an operator changed through the web outlives every restart, complete
\* or cut short, whatever the configuration file says.
THEOREM OperatorWins == Spec => RuntimeRowsKept
<1>1. TypeOK /\ [Next]_vars =>
          [\A p \in Port : row[p].source = "runtime" =>
              /\ row'[p].source = "runtime"
              /\ service = "down" => row'[p] = row[p]]_vars
  BY StepKeepsRuntime
<1> QED BY <1>1, TypeCorrect, PTL DEF Spec, RuntimeRowsKept

(***************************************************************************)
(* The holder of the lock, and shutdown                                    *)
(***************************************************************************)

\* Who awaits a bind or wait_closed() has found, and left, its port closed.
HolderShape ==
    /\ phase = "binding" => Holds("start", "binding") /\ ~listener[Holder.port].open
    /\ phase = "draining" => Holds("stop", "draining") /\ ~listener[Holder.port].open

\* stop_all() queued a stop for every listener, and nothing else is queued.
Closing ==
    service = "stopping" =>
        /\ \A i \in DOMAIN lockQueue : lockQueue[i].op = "stop"
        /\ \A p \in Port : listener[p].open => Pending(p)

Shape == TypeOK /\ HolderShape /\ Closing

\* What is left when the holder releases the lock: the rest of the queue.
LEMMA Rest ==
    ASSUME lockQueue \in Seq(Ops), lockQueue # <<>>, Release
    PROVE  /\ \A i \in DOMAIN lockQueue' :
                  i + 1 \in DOMAIN lockQueue /\ lockQueue'[i] = lockQueue[i + 1]
           /\ \A i \in DOMAIN lockQueue :
                  \/ i = 1 /\ lockQueue[i] = Holder
                  \/ i - 1 \in DOMAIN lockQueue' /\ lockQueue'[i - 1] = lockQueue[i]
BY DEF Release, Holder

\* What is queued once the holder of the lock is done.
LEMMA PendingAfterRelease ==
    ASSUME lockQueue \in Seq(Ops), lockQueue # <<>>, Release, NEW p
    PROVE  /\ Pending(p)' => Pending(p)
           /\ Pending(p) => Pending(p)' \/ p = Holder.port
BY Rest DEF Pending

\* What is queued once a request has joined.
LEMMA PendingAfterEnqueue ==
    ASSUME lockQueue \in Seq(Ops), NEW op \in Ops, Enqueue(op)
    PROVE  /\ DOMAIN lockQueue' = 1 .. Len(lockQueue) + 1
           /\ \A i \in DOMAIN lockQueue : i \in DOMAIN lockQueue' /\ lockQueue'[i] = lockQueue[i]
           /\ lockQueue'[Len(lockQueue) + 1] = op
           /\ \A p : Pending(p)' <=> Pending(p) \/ p = op.port
<1>1. lockQueue' = Append(lockQueue, op) /\ lockQueue' \in Seq(Ops)
  BY DEF Enqueue
<1>2. /\ DOMAIN lockQueue' = 1 .. Len(lockQueue) + 1
      /\ DOMAIN lockQueue = 1 .. Len(lockQueue) /\ Len(lockQueue) \in Nat
      /\ \A i \in DOMAIN lockQueue : lockQueue'[i] = lockQueue[i]
      /\ lockQueue'[Len(lockQueue) + 1] = op
  BY <1>1
<1> QED BY <1>2 DEF Pending

\* Every step keeps the shape of the queue.
LEMMA StepShape == ASSUME Shape, [Next]_vars PROVE Shape'
<1> USE DEF Shape
<1>1. TypeOK'
  BY StepTypes
<1>2. CASE UNCHANGED vars
  BY <1>1, <1>2 DEF vars, sockets, counts, HolderShape, Holds, Holder, Closing, Pending
<1>3. CASE Boot \/ SeedingCut \/ Crash
  BY <1>1, <1>3 DEF Boot, SeedingCut, Crash, HolderShape, Closing, Holds, Holder
<1>4. CASE StopAll
  <2>1. phase = "free" /\ phase' = "free" /\ listener' = listener
    BY <1>4 DEF StopAll, HolderShape, Holds, TypeOK, sockets
  <2> QED BY <1>1, <1>4, <2>1, StopOps DEF HolderShape, Closing, Pending
<1>5. CASE Halt
  BY <1>1, <1>5 DEF Halt, HolderShape, Closing, Holds, Holder
<1>6. CASE WebRequest
  <2>1. Request /\ (lockQueue' = lockQueue \/ \E op \in Ops : Enqueue(op))
    <3>1. PICK p \in Port :
              \/ \E c \in Cfg, enable \in AddEnable : AddPort(p, c, enable)
              \/ EnablePort(p)
              \/ DisablePort(p)
      BY <1>6 DEF WebRequest
    <3>2. /\ \A c \in Cfg : StartOp(p, c) \in Ops
          /\ StopOp(p) \in Ops
      BY DEF StartOp, StopOp, Ops
    <3>3. EnablePort(p) => row[p].cfg \in Cfg
      BY RowTypes DEF EnablePort, InTable, TypeOK
    <3> QED BY <3>1, <3>2, <3>3 DEF AddPort, EnablePort, DisablePort
  <2>2. lockQueue # <<>> => lockQueue' # <<>> /\ Holder' = Holder
    <3>1. lockQueue \in Seq(Ops)
      BY DEF TypeOK
    <3> QED BY <2>1, <3>1 DEF Enqueue, Holder
  <2> QED BY <1>1, <2>1, <2>2 DEF Request, HolderShape, Holds, Closing, sockets
<1>7. CASE LockStep
  <2>1. lockQueue \in Seq(Ops) /\ lockQueue # <<>>
    BY <1>7 DEF TypeOK, LockStep, AlreadyListening, BeginBind, BindSucceeds, BindFails,
           CloseListener, NothingToClose, Drained, Holds
  <2>2. Holder.port \in Port /\ lockQueue[1] = Holder /\ 1 \in DOMAIN lockQueue
    BY <2>1, HolderTypes DEF Holder
  <2>3. service' = service
    BY <1>7 DEF LockStep, AlreadyListening, BeginBind, BindSucceeds, BindFails,
           CloseListener, NothingToClose, Drained
  <2>4. CASE BeginBind \/ CloseListener
    <3>1. HolderShape'
      BY <2>2, <2>4 DEF BeginBind, CloseListener, HolderShape, Holds, Holder, sockets, Closed, TypeOK
    <3>2. Closing'
      BY <2>2, <2>3, <2>4 DEF BeginBind, CloseListener, Closing, Pending, sockets, Closed, TypeOK
    <3> QED BY <1>1, <3>1, <3>2
  <2>5. ASSUME Release, \A p \in Port : listener'[p].open =>
                 IF p = Holder.port THEN Holder.op = "start" ELSE listener[p].open
        PROVE  Shape'
    <3>1. HolderShape'
      BY <2>5 DEF Release, HolderShape
    <3>2. Closing'
      <4> SUFFICES ASSUME service = "stopping" PROVE
              /\ \A i \in DOMAIN lockQueue' : lockQueue'[i].op = "stop"
              /\ \A p \in Port : listener'[p].open => Pending(p)'
        BY <2>3 DEF Closing
      <4>1. Holder.op = "stop"
        BY <2>2 DEF Closing
      <4>2. \A i \in DOMAIN lockQueue' : lockQueue'[i].op = "stop"
        BY <2>1, <2>5, Rest DEF Closing
      <4>3. \A p \in Port : listener'[p].open => Pending(p)'
        BY <2>1, <2>5, <4>1, PendingAfterRelease DEF Closing
      <4> QED BY <4>2, <4>3
    <3> QED BY <1>1, <3>1, <3>2
  <2>6. CASE AlreadyListening
    BY <2>5, <2>6 DEF AlreadyListening, Holds, sockets
  <2>7. CASE BindSucceeds
    BY <2>5, <2>7 DEF BindSucceeds, Holds, TypeOK
  <2>8. CASE BindFails
    BY <2>5, <2>8 DEF BindFails, Holds
  <2>9. CASE NothingToClose
    BY <2>5, <2>9 DEF NothingToClose, Holds
  <2>10. CASE Drained
    BY <2>5, <2>10 DEF Drained, Holds, HolderShape
  <2> QED BY <1>7, <2>4, <2>6, <2>7, <2>8, <2>9, <2>10 DEF LockStep
<1>8. CASE Connections
  BY <1>1, <1>8 DEF Connections, Accept, ConnectionEnds, DrainingConnectionEnds,
      HolderShape, Holds, Holder, Closing, Pending
<1> QED BY <1>2, <1>3, <1>4, <1>5, <1>6, <1>7, <1>8 DEF Next

\* The queue has that shape in every state.
LEMMA AlwaysShape == Spec => []Shape
<1>1. Init => Shape
  BY Initial DEF Init, Shape, HolderShape, Closing
<1> QED BY <1>1, StepShape, PTL DEF Spec

\* A shutdown that completes has closed every listener, and neither a shutdown
\* nor a crash during it changes a row: stopping is not disabling.
THEOREM ShutdownIsNotDisable == Spec => ShutdownKeepsRows
<1>1. ASSUME Shape, [Next]_vars, service = "stopping"
      PROVE  row' = row /\ (service' = "down" => \A p \in Port : ~listener'[p].open)
  <2>1. CASE Halt
    BY <1>1, <2>1 DEF Halt, Shape, Closing, Pending
  <2>2. CASE Crash
    BY <2>2 DEF Crash, AllClosed, Closed
  <2>3. CASE StopAll \/ Boot \/ SeedingCut
    BY <1>1, <2>3 DEF StopAll, Boot, SeedingCut
  <2>4. CASE WebRequest
    BY <1>1, <2>4 DEF WebRequest, AddPort, EnablePort, DisablePort, Request
  <2>5. CASE LockStep \/ Connections \/ UNCHANGED vars
    BY <1>1, <2>5 DEF LockStep, AlreadyListening, BeginBind, BindSucceeds,
        BindFails, CloseListener, NothingToClose, Drained, Connections, Accept,
        ConnectionEnds, DrainingConnectionEnds, vars
  <2> QED BY <1>1, <2>1, <2>2, <2>3, <2>4, <2>5 DEF Next
<1>2. Shape /\ [Next]_vars =>
          [service = "stopping" => row' = row /\ (service' = "down" =>
              \A p \in Port : ~listener'[p].open)]_vars
  BY <1>1
<1> QED BY <1>2, AlwaysShape, PTL DEF Spec, ShutdownKeepsRows

(***************************************************************************)
(* Listeners and rows.  Adding a disabled port changes its row and leaves  *)
(* its listener as it is, so that agreement needs callers that do not.     *)
(***************************************************************************)

NoListenerRefused == \A p \in Port : listener[p].open => p \notin refused

Agreement == NoListenerRefused /\ QuiescentAgreement /\ LastRequestWins

\* The last of the queued operations on its port.
IsLast(i) == \A j \in DOMAIN lockQueue : j > i => lockQueue[j].port # lockQueue[i].port

\* A request that changes the row of a port queues the operation that makes the
\* listener follow; agreement holds of what is queued with it.
LEMMA AgreementAfterEnqueue ==
    ASSUME Shape, Agreement, service = "up", service' = service,
           listener' = listener, refused' = refused,
           NEW op \in Ops, Enqueue(op), op.port \in Port,
           op.op = "start" <=> row'[op.port].enabled,
           \A p \in Port : p # op.port => row'[p].enabled = row[p].enabled
    PROVE  Agreement'
<1>1. lockQueue \in Seq(Ops)
  BY DEF Shape, TypeOK
<1> DEFINE n == Len(lockQueue)
<1>2. /\ DOMAIN lockQueue' = 1 .. n + 1 /\ DOMAIN lockQueue = 1 .. n /\ n \in Nat
      /\ \A i \in DOMAIN lockQueue : i \in DOMAIN lockQueue' /\ lockQueue'[i] = lockQueue[i]
      /\ lockQueue'[n + 1] = op
      /\ \A p : Pending(p)' <=> Pending(p) \/ p = op.port
  BY <1>1, PendingAfterEnqueue
<1>3. QuiescentAgreement'
  BY <1>2 DEF Agreement, QuiescentAgreement
<1>4. ASSUME NEW i \in DOMAIN lockQueue', IsLast(i)'
      PROVE  lockQueue'[i].op = "start" <=> row'[lockQueue'[i].port].enabled
  <2>1. CASE i = n + 1
    BY <1>2, <2>1
  <2>2. CASE i \in 1 .. n
    <3>1. lockQueue'[i] = lockQueue[i] /\ lockQueue[i].port # op.port
      BY <1>2, <1>4, <2>2 DEF IsLast
    <3>2. IsLast(i)
      BY <1>2, <1>4, <2>2 DEF IsLast
    <3>3. lockQueue[i].op = "start" <=> row[lockQueue[i].port].enabled
      BY <1>2, <2>2, <3>2 DEF Agreement, LastRequestWins, IsLast
    <3>4. lockQueue[i].port \in Port
      BY <1>1, <2>2 DEF Ops
    <3> QED BY <3>1, <3>3, <3>4
  <2> QED BY <1>2, <2>1, <2>2
<1>5. LastRequestWins'
  BY <1>4 DEF LastRequestWins, IsLast
<1> QED BY <1>3, <1>5 DEF Agreement, NoListenerRefused

\* The holder left its port as its operation asks, or was refused: if it was
\* the last operation on the port it agreed with the row, otherwise a later
\* one decides.
LEMMA AgreementAfterRelease ==
    ASSUME Shape, Agreement, service = "up", service' = service, row' = row,
           lockQueue # <<>>, Release,
           listener'[Holder.port].open <=> Holder.op = "start" /\ Holder.port \notin refused',
           \A p \in Port : p # Holder.port =>
               listener'[p].open = listener[p].open /\ (p \in refused' <=> p \in refused)
    PROVE  Agreement'
<1>1. lockQueue \in Seq(Ops) /\ 1 \in DOMAIN lockQueue /\ lockQueue[1] = Holder
  BY DEF Shape, TypeOK, Holder
<1>2. /\ \A i \in DOMAIN lockQueue' :
              i + 1 \in DOMAIN lockQueue /\ lockQueue'[i] = lockQueue[i + 1]
      /\ \A i \in DOMAIN lockQueue :
              \/ i = 1 /\ lockQueue[i] = Holder
              \/ i - 1 \in DOMAIN lockQueue' /\ lockQueue'[i - 1] = lockQueue[i]
  BY <1>1, Rest
<1>3. DOMAIN lockQueue \subseteq Nat /\ DOMAIN lockQueue' \subseteq Nat
  BY <1>1, HeadTailProperties DEF Release
<1>4. LastRequestWins'
  <2> SUFFICES ASSUME NEW i \in DOMAIN lockQueue', IsLast(i)'
               PROVE  lockQueue'[i].op = "start" <=> row[lockQueue'[i].port].enabled
    BY DEF LastRequestWins, IsLast
  <2>1. IsLast(i + 1)
    <3> SUFFICES ASSUME NEW j \in DOMAIN lockQueue, j > i + 1
                 PROVE  lockQueue[j].port # lockQueue[i + 1].port
      BY DEF IsLast
    <3>1. j - 1 \in DOMAIN lockQueue' /\ lockQueue'[j - 1] = lockQueue[j] /\ j - 1 > i
      BY <1>2, <1>3
    <3> QED BY <1>2, <3>1 DEF IsLast
  <2> QED BY <1>2, <2>1 DEF Agreement, LastRequestWins, IsLast
<1>5. ASSUME NEW p \in Port, ~Pending(p)'
      PROVE  listener'[p].open <=> row[p].enabled /\ p \notin refused'
  <2>1. CASE p # Holder.port
    <3>1. ~Pending(p)
      BY <1>1, <1>5, <2>1, PendingAfterRelease
    <3> QED BY <2>1, <3>1 DEF Agreement, QuiescentAgreement
  <2>2. CASE p = Holder.port
    <3>1. IsLast(1)
      <4> SUFFICES ASSUME NEW j \in DOMAIN lockQueue, j > 1 PROVE lockQueue[j].port # p
        BY <1>1, <2>2 DEF IsLast
      <4> QED BY <1>2, <1>5 DEF Pending
    <3>2. Holder.op = "start" <=> row[p].enabled
      BY <1>1, <2>2, <3>1 DEF Agreement, LastRequestWins, IsLast
    <3> QED BY <2>2, <3>2
  <2> QED BY <2>1, <2>2
<1>6. NoListenerRefused'
  BY DEF NoListenerRefused, Agreement
<1> QED BY <1>4, <1>5, <1>6 DEF Agreement, QuiescentAgreement

\* A request leaves rows and the operations to come in agreement.
LEMMA RequestAgreement ==
    ASSUME Shape, service = "up" => Agreement, WebRequest, AddEnable \subseteq {TRUE}
    PROVE  service' = "up" => Agreement'
<1>1. PICK p \in Port :
          \/ \E c \in Cfg, enable \in AddEnable : AddPort(p, c, enable)
          \/ EnablePort(p)
          \/ DisablePort(p)
  BY DEF WebRequest
<1>2. /\ service = "up" /\ service' = "up" /\ Agreement
      /\ listener' = listener /\ refused' = refused
  BY <1>1 DEF AddPort, EnablePort, DisablePort, Request, sockets
<1>3. row \in [Port -> Rows]
  BY DEF Shape, TypeOK
<1>4. /\ \A c \in Cfg : StartOp(p, c) \in Ops
      /\ StopOp(p) \in Ops
  BY DEF StartOp, StopOp, Ops
<1>5. ASSUME NEW c \in Cfg, Enqueue(StartOp(p, c)),
             row' = [row EXCEPT ![p] = Upserted(p, c, TRUE, "runtime")]
      PROVE  Agreement'
  <2>1. StartOp(p, c).op = "start" /\ StartOp(p, c).port = p
    BY DEF StartOp
  <2>2. row'[p].enabled /\ \A q \in Port : q # p => row'[q].enabled = row[q].enabled
    BY <1>3, <1>5 DEF Upserted
  <2> QED BY <1>2, <1>4, <1>5, <2>1, <2>2, AgreementAfterEnqueue
<1>6. ASSUME NEW c \in Cfg, NEW enable \in AddEnable, AddPort(p, c, enable)
      PROVE  Agreement'
  BY <1>5, <1>6 DEF AddPort
<1>7. CASE EnablePort(p)
  <2>1. row[p].cfg \in Cfg
    BY <1>3, <1>7, RowTypes DEF EnablePort, InTable
  <2> QED BY <1>5, <1>7, <2>1 DEF EnablePort
<1>8. CASE DisablePort(p)
  <2>1. StopOp(p).op = "stop" /\ StopOp(p).port = p
    BY DEF StopOp
  <2>2. row'[p].enabled = FALSE /\ \A q \in Port : q # p => row'[q].enabled = row[q].enabled
    BY <1>3, <1>8, RowTypes DEF DisablePort, Rows, NoRow
  <2> QED BY <1>2, <1>4, <1>8, <2>1, <2>2, AgreementAfterEnqueue DEF DisablePort
<1> QED BY <1>1, <1>6, <1>7, <1>8

\* An operation that is done has brought its listener in line.
LEMMA LockAgreement ==
    ASSUME Shape, service = "up" => Agreement, LockStep
    PROVE  service' = "up" => Agreement'
<1>1. lockQueue \in Seq(Ops) /\ lockQueue # <<>> /\ service' = service /\ row' = row
  BY DEF Shape, TypeOK, LockStep, AlreadyListening, BeginBind, BindSucceeds, BindFails,
         CloseListener, NothingToClose, Drained, Holds
<1>2. /\ Holder.port \in Port /\ Pending(Holder.port)
      /\ listener \in [Port -> Listeners]
  <2>1. Holder = lockQueue[1] /\ 1 \in DOMAIN lockQueue
    BY <1>1 DEF Holder
  <2> QED BY <1>1, <2>1, HolderTypes DEF Pending, Shape, TypeOK
<1> SUFFICES ASSUME service = "up", Agreement PROVE Agreement'
  BY <1>1
<1> USE <1>1, <1>2
<1>3. CASE AlreadyListening
  <2>1. listener'[Holder.port].open /\ Holder.port \notin refused'
    BY <1>3 DEF AlreadyListening, sockets, Agreement, NoListenerRefused
  <2> QED BY <1>3, <2>1, AgreementAfterRelease DEF AlreadyListening, Holds, sockets
<1>4. CASE BeginBind
  BY <1>4 DEF BeginBind, sockets, Agreement, NoListenerRefused, QuiescentAgreement,
      LastRequestWins, Pending
<1>5. CASE BindSucceeds
  <2>1. listener'[Holder.port].open /\ Holder.port \notin refused'
    BY <1>5 DEF BindSucceeds
  <2> QED BY <1>5, <2>1, AgreementAfterRelease DEF BindSucceeds, Holds
<1>6. CASE BindFails
  <2>1. ~listener'[Holder.port].open /\ Holder.port \in refused'
    BY <1>6 DEF BindFails, Shape, HolderShape, Holds
  <2> QED BY <1>6, <2>1, AgreementAfterRelease DEF BindFails
<1>7. CASE CloseListener
  <2>1. \A p \in Port : listener'[p].open <=> listener[p].open /\ p # Holder.port
    BY <1>7 DEF CloseListener, Closed, Listeners
  <2>2. lockQueue' = lockQueue /\ refused' = refused
    BY <1>7 DEF CloseListener
  <2> QED BY <2>1, <2>2 DEF Agreement, NoListenerRefused, QuiescentAgreement,
              LastRequestWins, Pending
<1>8. CASE NothingToClose
  BY <1>8, AgreementAfterRelease DEF NothingToClose, Holds
<1>9. CASE Drained
  <2>1. ~listener'[Holder.port].open /\ Holder.op = "stop"
    BY <1>9 DEF Drained, Shape, HolderShape, Holds
  <2> QED BY <1>9, <2>1, AgreementAfterRelease DEF Drained
<1> QED BY <1>3, <1>4, <1>5, <1>6, <1>7, <1>8, <1>9 DEF LockStep

\* Every step keeps the agreement.
LEMMA StepAgreement ==
    ASSUME Shape, service = "up" => Agreement, [Next]_vars, AddEnable \subseteq {TRUE}
    PROVE  service' = "up" => Agreement'
<1>1. CASE Boot
  <2>1. \A p \in Port : Seeded[p].enabled \in BOOLEAN
    BY SeedTypes, RowTypes DEF Shape
  <2>2. lockQueue' = <<>> /\ \A p \in Port :
            listener'[p].open <=> row'[p].enabled /\ p \notin refused'
    BY <1>1, <2>1 DEF Boot, Closed
  <2> QED BY <2>2 DEF Agreement, NoListenerRefused, QuiescentAgreement, LastRequestWins
<1>2. CASE SeedingCut \/ Crash \/ StopAll \/ Halt
  BY <1>2 DEF SeedingCut, Crash, StopAll, Halt
<1>3. CASE Connections
  BY <1>3 DEF Connections, Accept, ConnectionEnds, DrainingConnectionEnds, Agreement,
      NoListenerRefused, QuiescentAgreement, LastRequestWins, Pending
<1>4. CASE UNCHANGED vars
  BY <1>4 DEF vars, sockets, Agreement, NoListenerRefused, QuiescentAgreement,
      LastRequestWins, Pending
<1> QED BY <1>1, <1>2, <1>3, <1>4, RequestAgreement, LockAgreement DEF Next

\* The agreement holds in every state.
LEMMA AlwaysAgreement ==
    ASSUME AddEnable \subseteq {TRUE}
    PROVE  Spec => [](service = "up" => Agreement)
<1>1. Init => (service = "up" => Agreement)
  BY DEF Init
<1>2. Shape /\ (service = "up" => Agreement) /\ [Next]_vars => (service = "up" => Agreement)'
  BY StepAgreement
<1> QED BY <1>1, <1>2, AlwaysShape, PTL DEF Spec

\* However web requests race, where ports are only added enabled: a port with
\* no operation left listens exactly when its row is enabled, failed binds apart.
THEOREM ListenersFollowTable ==
    ASSUME AddEnable \subseteq {TRUE}
    PROVE  Spec => []QuiescentAgreement
<1>1. (service = "up" => Agreement) => QuiescentAgreement
  BY DEF Agreement, QuiescentAgreement
<1> QED BY <1>1, AlwaysAgreement, PTL

\* Under the same assumption: the last operation queued on a port is the one
\* that its row asks for, so that no request is undone by an older one.
THEOREM LastRequestDecides ==
    ASSUME AddEnable \subseteq {TRUE}
    PROVE  Spec => []LastRequestWins
<1>1. (service = "up" => Agreement) => LastRequestWins
  BY DEF Agreement, LastRequestWins
<1> QED BY <1>1, AlwaysAgreement, PTL
=============================================================================
