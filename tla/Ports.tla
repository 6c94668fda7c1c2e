------------------------------- MODULE Ports -------------------------------
(***************************************************************************)
(* Dynamic ports: PortManager (port_manager.py), the listeners of          *)
(* HoneypotServer (server.py) and the ports table of SqliteStore.          *)
(*                                                                         *)
(* A web request changes the table at once and then queues on the server's *)
(* asyncio.Lock, which is first-in first-out, to open or close a listener. *)
(* Opening awaits the bind and closing awaits wait_closed() with the lock  *)
(* held, and other requests change the table meanwhile.  From Python 3.12  *)
(* wait_closed() waits for the connections the listener accepted; before,  *)
(* it returns at once.                                                     *)
(*                                                                         *)
(* _port_cfgs is left out: only get_runtime_status reads it, which nothing *)
(* calls.  start_port's branch for a disabled cfg is left out: every       *)
(* caller passes an enabled one.                                           *)
(***************************************************************************)
EXTENDS Naturals, Sequences, FiniteSets, SequencesExt

CONSTANTS
    Port,       \* port numbers
    Cfg,        \* what a port serves: its primary and also_accept protocols
    Yaml,       \* configured ports: a function from some ports to [cfg, enabled]
    AddEnable,  \* values of add_port's `enable` that the callers pass
    WaitsForConnections,  \* wait_closed() waits for connections (Python >= 3.12)
    MaxRequests, MaxBoots, MaxConns   \* bounds: requests, process starts, connections

ASSUME PortsAreFinite == IsFiniteSet(Port)
ASSUME YamlIsPartial ==
    /\ DOMAIN Yaml \subseteq Port
    /\ \A p \in DOMAIN Yaml : Yaml[p].cfg \in Cfg /\ Yaml[p].enabled \in BOOLEAN
ASSUME FlagsAreBoolean == AddEnable \subseteq BOOLEAN /\ WaitsForConnections \in BOOLEAN
ASSUME BoundsAreNaturals == MaxRequests \in Nat /\ MaxBoots \in Nat /\ MaxConns \in Nat

NoRow == [cfg |-> "none", enabled |-> FALSE, source |-> "none"]
Closed == [open |-> FALSE]

VARIABLES
    service,    \* "down", "up" or "stopping" (stop_all is running)
    row,        \* the ports table
    listener,   \* _servers: the open listeners, each with the cfg it captured
    lockQueue,  \* operations on the server's lock: the first one holds it
    phase,      \* what the holder of the lock awaits
    conns,      \* connections of the open listener of each port
    draining,   \* connections of the listener that the holder is closing
    refused,    \* history: ports whose last bind failed
    requests, boots   \* web requests and process starts so far

sockets == <<listener, conns, draining, refused>>
counts == <<requests, boots>>
vars == <<service, row, listener, lockQueue, phase, conns, draining, refused, counts>>

Rows == [cfg : Cfg, enabled : BOOLEAN, source : {"config", "runtime"}] \cup {NoRow}
Listeners == [open : {TRUE}, cfg : Cfg] \cup {Closed}
Ops == [op : {"start"}, port : Port, cfg : Cfg] \cup [op : {"stop"}, port : Port]

TypeOK ==
    /\ service \in {"down", "up", "stopping"}
    /\ row \in [Port -> Rows]
    /\ listener \in [Port -> Listeners]
    /\ lockQueue \in Seq(Ops)
    /\ phase \in {"free", "binding", "draining"}
    /\ conns \in [Port -> 0 .. MaxConns]
    /\ draining \in 0 .. MaxConns
    /\ refused \in SUBSET Port
    /\ requests \in 0 .. MaxRequests
    /\ boots \in 0 .. MaxBoots

AllClosed == [p \in Port |-> Closed]
NoConns == [p \in Port |-> 0]

Init ==
    /\ service = "down"
    /\ row = [p \in Port |-> NoRow]
    /\ listener = AllClosed
    /\ lockQueue = <<>> /\ phase = "free"
    /\ conns = NoConns /\ draining = 0
    /\ refused = {}
    /\ requests = 0 /\ boots = 0

(***************************************************************************)
(* The ports table                                                         *)
(***************************************************************************)

InTable(p) == row[p] # NoRow

\* Mutant of Upserted: the row's old source wins over the new one.
BugKeepsSource(p, c, enabled, source) ==
    [cfg |-> c, enabled |-> enabled, source |-> row[p].source]

\* upsert_port: a row that became "runtime" is never "config" again.
Upserted(p, c, enabled, source) ==
    [cfg |-> c, enabled |-> enabled,
     source |-> IF row[p].source = "runtime" THEN "runtime" ELSE source]

\* Mutant of Seeded: the configuration file always wins.
BugSeedAll ==
    [p \in Port |->
        IF p \in DOMAIN Yaml
          THEN [cfg |-> Yaml[p].cfg, enabled |-> Yaml[p].enabled, source |-> "config"]
          ELSE row[p]]

\* seed_from_config: rows of source "runtime" win over the configuration file.
Seeded ==
    [p \in Port |->
        IF p \in DOMAIN Yaml /\ row[p].source # "runtime"
          THEN Upserted(p, Yaml[p].cfg, Yaml[p].enabled, "config")
          ELSE row[p]]

(***************************************************************************)
(* Starting and stopping the process                                       *)
(***************************************************************************)

\* run_service() up to the start of the web server: seed the table and open
\* every enabled port; a port that does not bind is reported and passed over.
Boot ==
    /\ service = "down" /\ boots < MaxBoots
    /\ service' = "up" /\ boots' = boots + 1
    /\ row' = Seeded
    /\ \E failing \in SUBSET {p \in Port : Seeded[p].enabled} :
          /\ refused' = failing
          /\ listener' = [p \in Port |->
                 IF Seeded[p].enabled /\ p \notin failing
                   THEN [open |-> TRUE, cfg |-> Seeded[p].cfg] ELSE Closed]
    /\ lockQueue' = <<>> /\ phase' = "free"
    /\ conns' = NoConns /\ draining' = 0
    /\ UNCHANGED requests

\* The process dies while it seeds: each row is committed on its own.
SeedingCut ==
    /\ service = "down" /\ boots < MaxBoots
    /\ boots' = boots + 1
    /\ \E done \in SUBSET DOMAIN Yaml :
          row' = [p \in Port |-> IF p \in done THEN Seeded[p] ELSE row[p]]
    /\ UNCHANGED <<service, listener, lockQueue, phase, conns, draining, refused, requests>>

Crash ==
    /\ service # "down"
    /\ service' = "down"
    /\ listener' = AllClosed
    /\ lockQueue' = <<>> /\ phase' = "free"
    /\ conns' = NoConns /\ draining' = 0
    /\ refused' = {}
    /\ UNCHANGED <<row, counts>>

\* stop_all(), after the web server has answered its last request: a snapshot
\* of the listening ports, each stopped in turn.
StopAll ==
    /\ service = "up" /\ lockQueue = <<>>
    /\ service' = "stopping"
    /\ LET open == SetToSeq({p \in Port : listener[p].open}) IN
          lockQueue' = [i \in DOMAIN open |-> [op |-> "stop", port |-> open[i]]]
    /\ UNCHANGED <<row, phase, sockets, counts>>

Halt ==
    /\ service = "stopping" /\ lockQueue = <<>>
    /\ service' = "down"
    /\ conns' = NoConns
    /\ refused' = {}
    /\ UNCHANGED <<row, listener, lockQueue, phase, draining, counts>>

(***************************************************************************)
(* Web requests.  Each one is a single step up to its wait for the lock:   *)
(* nothing is awaited between the table write and the place in the queue.  *)
(***************************************************************************)

Request ==
    /\ service = "up" /\ requests < MaxRequests
    /\ requests' = requests + 1
    /\ UNCHANGED <<service, phase, sockets, boots>>

\* Mutant of Enqueue: a lock that a new operation can take before older ones.
BugBarge(op) ==
    lockQueue' = IF Len(lockQueue) < 2 THEN Append(lockQueue, op)
                 ELSE <<lockQueue[1], op>> \o Tail(lockQueue)

Enqueue(op) == lockQueue' = Append(lockQueue, op)
StartOp(p, c) == [op |-> "start", port |-> p, cfg |-> c]
StopOp(p) == [op |-> "stop", port |-> p]

AddPort(p, c, enable) ==
    /\ Request
    /\ row' = [row EXCEPT ![p] = Upserted(p, c, enable, "runtime")]
    /\ IF enable THEN Enqueue(StartOp(p, c)) ELSE UNCHANGED lockQueue

\* A port that is not in the table is answered with an error (KeyError).
EnablePort(p) ==
    /\ Request
    /\ InTable(p)
    /\ row' = [row EXCEPT ![p] = Upserted(p, row[p].cfg, TRUE, "runtime")]
    /\ Enqueue(StartOp(p, row[p].cfg))

\* Mutant of DisablePort: nothing to stop on a port that is not listening yet.
BugDisableIdle(p) ==
    /\ Request
    /\ row' = [row EXCEPT ![p].enabled = FALSE]
    /\ IF listener[p].open THEN Enqueue(StopOp(p)) ELSE UNCHANGED lockQueue

\* set_port_enabled leaves the source of the row as it is, and does nothing
\* for a port that is not in the table; the listener is closed all the same.
DisablePort(p) ==
    /\ Request
    /\ row' = [row EXCEPT ![p].enabled = FALSE]
    /\ Enqueue(StopOp(p))

WebRequest ==
    \E p \in Port :
        \/ \E c \in Cfg, enable \in AddEnable : AddPort(p, c, enable)
        \/ EnablePort(p)
        \/ DisablePort(p)

(***************************************************************************)
(* The operation that holds the lock                                       *)
(***************************************************************************)

Holder == Head(lockQueue)
Holds(op, at) == lockQueue # <<>> /\ Holder.op = op /\ phase = at
Release == lockQueue' = Tail(lockQueue) /\ phase' = "free"

\* start_port on a port that listens already: the listener keeps its old cfg.
AlreadyListening ==
    /\ Holds("start", "free") /\ listener[Holder.port].open
    /\ Release
    /\ UNCHANGED <<service, row, sockets, counts>>

BeginBind ==
    /\ Holds("start", "free") /\ ~listener[Holder.port].open
    /\ phase' = "binding"
    /\ UNCHANGED <<service, row, lockQueue, sockets, counts>>

BindSucceeds ==
    /\ Holds("start", "binding")
    /\ listener' = [listener EXCEPT ![Holder.port] = [open |-> TRUE, cfg |-> Holder.cfg]]
    /\ refused' = refused \ {Holder.port}
    /\ Release
    /\ UNCHANGED <<service, row, conns, draining, counts>>

\* Mutant of BindFails: the lock is not released when the bind raises.
BugBindKeepsLock ==
    /\ Holds("start", "binding")
    /\ refused' = refused \cup {Holder.port}
    /\ phase' = "draining"
    /\ UNCHANGED <<service, row, lockQueue, listener, conns, draining, counts>>

\* OSError: the request fails, the table keeps the row enabled.
BindFails ==
    /\ Holds("start", "binding")
    /\ refused' = refused \cup {Holder.port}
    /\ Release
    /\ UNCHANGED <<service, row, listener, conns, draining, counts>>

\* Mutant of CloseListener: closing a port also disables its row.
BugStopDisables ==
    /\ Holds("stop", "free") /\ listener[Holder.port].open
    /\ listener' = [listener EXCEPT ![Holder.port] = Closed]
    /\ row' = [row EXCEPT ![Holder.port].enabled = FALSE]
    /\ phase' = "draining"
    /\ UNCHANGED <<service, lockQueue, conns, draining, refused, counts>>

\* stop_port: the socket is closed at once, its connections live on.
CloseListener ==
    /\ Holds("stop", "free") /\ listener[Holder.port].open
    /\ listener' = [listener EXCEPT ![Holder.port] = Closed]
    /\ draining' = conns[Holder.port]
    /\ conns' = [conns EXCEPT ![Holder.port] = 0]
    /\ phase' = "draining"
    /\ UNCHANGED <<service, row, lockQueue, refused, counts>>

NothingToClose ==
    /\ Holds("stop", "free") /\ ~listener[Holder.port].open
    /\ refused' = refused \ {Holder.port}
    /\ Release
    /\ UNCHANGED <<service, row, listener, conns, draining, counts>>

\* wait_closed() returns.
Drained ==
    /\ Holds("stop", "draining")
    /\ WaitsForConnections => draining = 0
    /\ draining' = 0
    /\ Release
    /\ UNCHANGED <<service, row, listener, conns, refused, counts>>

LockStep ==
    \/ AlreadyListening \/ BeginBind \/ BindSucceeds \/ BindFails
    \/ CloseListener \/ NothingToClose \/ Drained

(***************************************************************************)
(* Connections, as far as wait_closed() sees them                          *)
(***************************************************************************)

Accept(p) ==
    /\ listener[p].open /\ conns[p] < MaxConns
    /\ conns' = [conns EXCEPT ![p] = @ + 1]
    /\ UNCHANGED <<service, row, listener, lockQueue, phase, draining, refused, counts>>

ConnectionEnds(p) ==
    /\ conns[p] > 0
    /\ conns' = [conns EXCEPT ![p] = @ - 1]
    /\ UNCHANGED <<service, row, listener, lockQueue, phase, draining, refused, counts>>

DrainingConnectionEnds ==
    /\ draining > 0
    /\ draining' = draining - 1
    /\ UNCHANGED <<service, row, listener, lockQueue, phase, conns, refused, counts>>

Connections ==
    \/ \E p \in Port : Accept(p) \/ ConnectionEnds(p)
    \/ DrainingConnectionEnds

Next ==
    \/ Boot \/ SeedingCut \/ Crash \/ StopAll \/ Halt
    \/ WebRequest
    \/ LockStep
    \/ Connections

Spec == Init /\ [][Next]_vars

\* The loop runs the holder of the lock; a connection ends because every read
\* of a handler has a timeout and a handler reads a bounded number of bytes.
\* Nothing obliges anyone to make requests, connect, crash or stop.
FairSpec ==
    /\ Spec
    /\ WF_vars(LockStep)
    /\ WF_vars(DrainingConnectionEnds)
    /\ WF_vars(Halt)

(***************************************************************************)
(* Properties                                                              *)
(***************************************************************************)

Pending(p) == \E i \in DOMAIN lockQueue : lockQueue[i].port = p

\* Whatever requests raced, once no operation on a port is queued or running
\* its listener is what its row says: open if it is enabled and the last bind
\* did not fail, closed if not.
QuiescentAgreement ==
    service = "up" =>
        \A p \in Port : ~Pending(p) =>
            (listener[p].open <=> row[p].enabled /\ p \notin refused)

\* While operations on a port are queued, the last one decides: it opens the
\* port if and only if the row is enabled.  (A request is never overtaken.)
LastRequestWins ==
    service = "up" =>
        \A i \in DOMAIN lockQueue :
            (\A j \in DOMAIN lockQueue : j > i => lockQueue[j].port # lockQueue[i].port)
            => (lockQueue[i].op = "start" <=> row[lockQueue[i].port].enabled)

\* An operator's row outlives every restart: a start of the process changes no
\* row of source "runtime", and no step turns such a row back into a "config" one.
RuntimeRowsKept ==
    [][\A p \in Port : row[p].source = "runtime" =>
          /\ row'[p].source = "runtime"
          /\ service = "down" => row'[p] = row[p]]_vars

\* A shutdown reaches its end with every listener closed, and no row changed
\* on the way: closing for a restart is not disabling.
ShutdownKeepsRows ==
    [][service = "stopping" => row' = row /\ (service' = "down" =>
          \A p \in Port : ~listener'[p].open)]_vars

\* Every queued operation completes, unless the process dies: no failed bind
\* and no connection keeps the lock for ever.
LockIsFreed == (lockQueue # <<>>) ~> (lockQueue = <<>>)

\* docs/phases/phase2-web.md, "in step with the ports table": a settled port
\* listens exactly when its row is enabled, bind failures (reported) apart.
ListenerMatchesRow == QuiescentAgreement
=============================================================================
