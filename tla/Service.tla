------------------------------ MODULE Service ------------------------------
(***************************************************************************)
(* run_service() of cli.py: one process with listeners, the handlers of    *)
(* their connections, the maintenance task and the event pipeline, and the *)
(* order in which it takes them down: the maintenance task, then every     *)
(* listener in turn, then the pipeline, then the stores.  While one        *)
(* listener waits for its connections, the next ones still accept.         *)
(* (The wait ends a pass of the event loop after the last connection is    *)
(* lost; a handler that waits for that connection wakes up in that pass.)  *)
(*                                                                         *)
(* The pipeline is the module EventPipeline, with its own failures and     *)
(* crashes; a handler is reduced to the events it emits before it ends.    *)
(* Ports and Connections have the listeners and the handlers in detail.    *)
(***************************************************************************)
EXTENDS Naturals, Sequences, FiniteSets

CONSTANTS
    Port,           \* the ports that are enabled at boot
    Conn,           \* bound: connections at one time
    PortOf,         \* the port of each connection
    WaitsForConnections,  \* Server.wait_closed waits for handlers (Python 3.12)
    MaxSize, MaxEvents, MaxBoots    \* of the pipeline

ASSUME SizesAreNaturals == MaxSize \in Nat /\ MaxEvents \in Nat /\ MaxBoots \in Nat
ASSUME ConnectionsHavePorts ==
    /\ PortOf \in [Conn -> Port]
    /\ WaitsForConnections \in BOOLEAN

VARIABLES
    queue, task, hand, stopper, written, dropped, offered, failed,
    unflushed, jsonl, txn, rows, emitted, boots,    \* as in EventPipeline
    life,       \* down, serving, closing (server.stop_all), stopping, exited
    listening,  \* the keys of server._servers
    draining,   \* the listener that stop_port has closed and waits for
    open,       \* connections whose handler runs
    told        \* history: events that handlers of this process have emitted

Pipeline == INSTANCE EventPipeline

pipeline == <<queue, task, hand, stopper, written, dropped, offered, failed,
              unflushed, jsonl, txn, rows, emitted, boots>>
service == <<life, listening, draining, open, told>>
vars == <<pipeline, service>>

Init ==
    /\ Pipeline!Init
    /\ life = "down" /\ listening = {} /\ draining = {} /\ open = {} /\ told = 0

\* Up to the await on the web server; systemd starts the process again.
Boot ==
    /\ life \in {"down", "exited"}
    /\ Pipeline!Start
    /\ life' = "serving" /\ listening' = Port /\ draining' = {}
    /\ open' = {} /\ told' = 0

\* Killed, or the signal is raised again before run_service's `finally`.
Crash ==
    /\ Pipeline!Crash
    /\ life' = "down" /\ listening' = {} /\ draining' = {} /\ open' = {} /\ told' = 0

Accept(c) ==
    /\ c \notin open /\ PortOf[c] \in listening
    /\ open' = open \cup {c}
    /\ UNCHANGED <<pipeline, life, listening, draining, told>>

\* A handler never waits for the pipeline.
HandlerEmits(c) ==
    /\ c \in open
    /\ Pipeline!Emit
    /\ told' = told + 1
    /\ UNCHANGED <<life, listening, draining, open>>

HandlerEnds(c) ==
    /\ c \in open /\ open' = open \ {c}
    /\ UNCHANGED <<pipeline, life, listening, draining, told>>

Handler(c) == HandlerEmits(c) \/ HandlerEnds(c)

\* A pass of the maintenance loop, or a web request, commits on the store's
\* connection.
StoreCommit ==
    /\ life = "serving"
    /\ Pipeline!OtherCommit
    /\ UNCHANGED service

\* The pipeline's worker goes on through every phase.
WorkerStep ==
    /\ Pipeline!Worker
    /\ UNCHANGED service

\* The `finally` of run_service: the maintenance task is cancelled in its sleep.
BeginShutdown ==
    /\ life = "serving" /\ life' = "closing"
    /\ UNCHANGED <<pipeline, listening, draining, open, told>>

OpenOn(p) == {c \in open : PortOf[c] = p}

\* stop_port, called for one listener after the other.
CloseListener(p) ==
    /\ life = "closing" /\ draining = {} /\ p \in listening
    /\ listening' = listening \ {p} /\ draining' = {p}
    /\ UNCHANGED <<pipeline, life, open, told>>

\* Mutant of ListenerClosed: wait until no port has a connection.
BugWaitsForAll ==
    /\ draining # {} /\ open = {} /\ draining' = {}
    /\ UNCHANGED <<pipeline, life, listening, open, told>>

\* Mutant of ListenerClosed: a port is given up after close().
BugNoWait ==
    /\ draining # {} /\ draining' = {}
    /\ UNCHANGED <<pipeline, life, listening, open, told>>

ListenerClosed ==
    /\ draining # {}
    /\ WaitsForConnections => \A p \in draining : OpenOn(p) = {}
    /\ draining' = {}
    /\ UNCHANGED <<pipeline, life, listening, open, told>>

\* Mutant of StopPipeline: the pipeline before the listeners.
BugPipelineFirst ==
    /\ life \in {"serving", "closing"} /\ life' = "stopping"
    /\ Pipeline!BeginStop
    /\ UNCHANGED <<listening, draining, open, told>>

StopPipeline ==
    /\ life = "closing" /\ listening = {} /\ draining = {}
    /\ Pipeline!BeginStop
    /\ life' = "stopping"
    /\ UNCHANGED <<listening, draining, open, told>>

PutSentinel ==
    /\ life = "stopping"
    /\ Pipeline!PutSentinel
    /\ UNCHANGED service

\* stop() returns, the store is closed, and asyncio.run cancels what is left.
Exit ==
    /\ life = "stopping"
    /\ Pipeline!JoinWorker
    /\ life' = "exited" /\ open' = {}
    /\ UNCHANGED <<listening, draining, told>>

Next ==
    \/ Boot \/ Crash
    \/ \E c \in Conn : Accept(c) \/ Handler(c)
    \/ StoreCommit \/ WorkerStep
    \/ BeginShutdown
    \/ \E p \in Port : CloseListener(p)
    \/ ListenerClosed \/ StopPipeline \/ PutSentinel \/ Exit

Spec == Init /\ [][Next]_vars

\* Every read of a handler has a timeout and its budget of bytes is finite, so
\* it ends; the loop runs what is ready; a persist thread returns or raises.
FairSpec ==
    /\ Spec
    /\ \A c \in Conn : WF_vars(HandlerEnds(c))
    /\ WF_vars(WorkerStep)
    /\ \A p \in Port : WF_vars(CloseListener(p))
    /\ WF_vars(ListenerClosed) /\ WF_vars(StopPipeline)
    /\ WF_vars(PutSentinel) /\ WF_vars(Exit)

(***************************************************************************)
(* Properties                                                              *)
(***************************************************************************)

\* Where wait_closed waits for handlers (Python 3.12 on; pyproject.toml accepts
\* 3.10): when the process has exited by itself, every event that any of its
\* handlers emitted was written, failed or was dropped and counted, those of
\* connections that were accepted during the shutdown included: none was refused
\* by a pipeline that had been closed too early.  Nothing is claimed elsewhere.
EverythingAnswered ==
    WaitsForConnections /\ life = "exited" =>
        told = written + failed + dropped

\* No handler runs once the pipeline refuses events: the reason for the above.
NoLateHandler ==
    WaitsForConnections /\ Pipeline!closed => open = {}

\* A shutdown ends, with clients that go on connecting to the listeners that
\* are still open and with stores that fail, unless the process is killed.
ShutdownCompletes == life = "closing" ~> life \in {"exited", "down"}

TypeOK ==
    /\ Pipeline!TypeOK
    /\ life \in {"down", "serving", "closing", "stopping", "exited"}
    /\ listening \subseteq Port
    /\ draining = {} \/ \E p \in Port : draining = {p}
    /\ open \subseteq Conn
    /\ told \in Nat
    /\ life \in {"down", "exited"} => open = {}
    /\ life \in {"down", "stopping", "exited"} => listening = {} /\ draining = {}
    /\ life = "down" => stopper = "down"
    /\ life \in {"serving", "closing"} => stopper = "running"
    /\ life = "stopping" => stopper \in {"put", "join"}
    /\ life = "exited" => stopper = "stopped"
=============================================================================
