--------------------------- MODULE ServiceProofs ---------------------------
(***************************************************************************)
(* Theorems about Service, for all ports, connections and bounds.  What    *)
(* EventPipelineProofs shows of the pipeline alone holds of the pipeline   *)
(* in the service, since every step of the service is one of its steps or  *)
(* leaves it alone.                                                        *)
(***************************************************************************)
EXTENDS Service, TLAPS

Proved == INSTANCE EventPipelineProofs

(***************************************************************************)
(* The service is a pipeline                                               *)
(***************************************************************************)

\* Every step of the service is a step of the pipeline or leaves it alone.
LEMMA StepOfPipeline == [Next]_vars => [Pipeline!Next]_(Pipeline!vars)
<1> SUFFICES ASSUME [Next]_vars PROVE [Pipeline!Next]_(Pipeline!vars)
    OBVIOUS
<1> USE DEF Pipeline!Next, Pipeline!vars, Pipeline!volatile, Pipeline!process, pipeline
<1>1. CASE Boot
    BY <1>1 DEF Boot
<1>2. CASE Crash
    BY <1>2 DEF Crash
<1>3. ASSUME NEW c \in Conn, Accept(c) \/ Handler(c)
      PROVE  [Pipeline!Next]_(Pipeline!vars)
    BY <1>3 DEF Accept, Handler, HandlerEmits, HandlerEnds
<1>4. CASE StoreCommit \/ WorkerStep
    BY <1>4 DEF StoreCommit, WorkerStep
<1>5. CASE BeginShutdown \/ ListenerClosed
    BY <1>5 DEF BeginShutdown, ListenerClosed
<1>6. ASSUME NEW p \in Port, CloseListener(p)
      PROVE  [Pipeline!Next]_(Pipeline!vars)
    BY <1>6 DEF CloseListener
<1>7. CASE StopPipeline \/ PutSentinel \/ Exit
    BY <1>7 DEF StopPipeline, PutSentinel, Exit
<1>8. CASE UNCHANGED vars
    BY <1>8 DEF vars
<1> QED
    BY <1>1, <1>2, <1>3, <1>4, <1>5, <1>6, <1>7, <1>8 DEF Next

\* In the service, the event pipeline (cli.py:77) behaves as the module
\* EventPipeline says, whatever the listeners and their handlers do.
THEOREM ContainsPipeline == Spec => Pipeline!Spec
<1>1. Init => Pipeline!Init
    BY DEF Init
<1> QED
    BY <1>1, StepOfPipeline, PTL DEF Spec, Pipeline!Spec

\* The two instances of EventPipeline are the same specification.
LEMMA SamePipeline == Pipeline!Spec => Proved!Spec
<1>1. Pipeline!Init => Proved!Init
    BY DEF Pipeline!Init, Proved!Init, Pipeline!NoEvent, Proved!NoEvent
<1>2. [Pipeline!Next]_(Pipeline!vars) => [Proved!Next]_(Proved!vars)
  <2> SUFFICES ASSUME [Pipeline!Next]_(Pipeline!vars)
               PROVE  [Proved!Next]_(Proved!vars)
      OBVIOUS
  <2> USE DEF Pipeline!NoEvent, Proved!NoEvent, Pipeline!Sentinel, Proved!Sentinel,
              Pipeline!closed, Proved!closed, Pipeline!Full, Proved!Full,
              Pipeline!MayEmit, Proved!MayEmit, Pipeline!NextEvent, Proved!NextEvent,
              Pipeline!process, Proved!process, Pipeline!volatile, Proved!volatile
  <2>1. CASE Pipeline!Start
      BY <2>1 DEF Pipeline!Start, Proved!Start, Proved!Next
  <2>2. CASE Pipeline!Crash
      BY <2>2 DEF Pipeline!Crash, Proved!Crash, Proved!Next
  <2>3. CASE Pipeline!Emit
    <3>1. Proved!Emit
        BY <2>3 DEF Pipeline!Emit, Pipeline!EmitRefused, Pipeline!EmitQueued,
                    Pipeline!EmitDropped, Pipeline!EnsuredTask,
                    Proved!Emit, Proved!EmitRefused, Proved!EmitQueued,
                    Proved!EmitDropped, Proved!EnsuredTask
    <3> QED BY <3>1 DEF Proved!Next
  <2>4. CASE Pipeline!Worker
    <3>1. CASE Pipeline!WorkerGet
      <4>1. Proved!WorkerGet
          BY <3>1 DEF Pipeline!WorkerGet, Proved!WorkerGet
      <4> QED BY <4>1 DEF Proved!Next, Proved!Worker
    <3>2. CASE Pipeline!WriteLine \/ Pipeline!CommitRow
      <4>1. Proved!WriteLine \/ Proved!CommitRow
          BY <3>2 DEF Pipeline!WriteLine, Proved!WriteLine, Pipeline!CommitRow,
                      Proved!CommitRow
      <4> QED BY <4>1 DEF Proved!Next, Proved!Worker
    <3>3. CASE Pipeline!FlushFails \/ Pipeline!LineLost \/ Pipeline!OpenFails
               \/ Pipeline!CommitFails
      <4>1. Proved!FlushFails \/ Proved!LineLost \/ Proved!OpenFails \/ Proved!CommitFails
          BY <3>3 DEF Pipeline!FlushFails, Proved!FlushFails, Pipeline!LineLost,
                      Proved!LineLost, Pipeline!OpenFails, Proved!OpenFails,
                      Pipeline!CommitFails, Proved!CommitFails,
                      Pipeline!PersistRaises, Proved!PersistRaises
      <4> QED BY <4>1 DEF Proved!Next, Proved!Worker
    <3> QED BY <2>4, <3>1, <3>2, <3>3 DEF Pipeline!Worker
  <2>5. CASE Pipeline!OtherCommit
      BY <2>5 DEF Pipeline!OtherCommit, Proved!OtherCommit, Proved!Next
  <2>6. CASE Pipeline!BeginStop \/ Pipeline!PutSentinel \/ Pipeline!JoinWorker
    <3>1. Proved!BeginStop \/ Proved!PutSentinel \/ Proved!JoinWorker
        BY <2>6 DEF Pipeline!BeginStop, Proved!BeginStop, Pipeline!PutSentinel,
                    Proved!PutSentinel, Pipeline!JoinWorker, Proved!JoinWorker
    <3> QED BY <3>1 DEF Proved!Next
  <2>7. CASE UNCHANGED Pipeline!vars
      BY <2>7 DEF Pipeline!vars, Proved!vars
  <2> QED
      BY <2>1, <2>2, <2>3, <2>4, <2>5, <2>6, <2>7 DEF Pipeline!Next
<1> QED
    BY <1>1, <1>2, PTL DEF Pipeline!Spec, Proved!Spec

(***************************************************************************)
(* The shutdown                                                            *)
(***************************************************************************)

\* TypeOK but for the pipeline's own part.
Shape ==
    /\ life \in {"down", "serving", "closing", "stopping", "exited"}
    /\ listening \subseteq Port
    /\ draining = {} \/ \E p \in Port : draining = {p}
    /\ open \subseteq Conn
    /\ told \in Nat
    /\ life \in {"down", "exited"} => open = {}
    /\ life \in {"down", "stopping", "exited"} => listening = {} /\ draining = {}
    /\ life = "down" => stopper = "down"
    /\ life \in {"serving", "closing"} => stopper = "running"
    /\ life = "stopping" => stopper \in {"put", "join"}
    /\ life = "exited" => stopper = "stopped"

\* Where the wait is for handlers, a handler's listener is open or waited for,
\* so that no handler is left when the pipeline is stopped, and each event told
\* was offered.
Attended ==
    WaitsForConnections =>
        /\ \A c \in open : PortOf[c] \in listening \cup draining
        /\ told = offered

\* No process runs at first.
LEMMA InitShape == Init => Shape /\ Attended
BY DEF Init, Shape, Attended, Pipeline!Init

\* The shutdown goes through its phases in step with the pipeline's stop().
LEMMA NextShape == Shape /\ [Next]_vars => Shape'
<1> SUFFICES ASSUME Shape, [Next]_vars PROVE Shape'
    OBVIOUS
<1> USE DEF Shape
<1>1. CASE Boot
    BY <1>1 DEF Boot, Pipeline!Start
<1>2. CASE Crash
    BY <1>2 DEF Crash, Pipeline!Crash
<1>3. ASSUME NEW c \in Conn, Accept(c) \/ HandlerEnds(c) PROVE Shape'
    BY <1>3 DEF Accept, HandlerEnds, pipeline
<1>4. ASSUME NEW c \in Conn, HandlerEmits(c) PROVE Shape'
    BY <1>4 DEF HandlerEmits, Pipeline!Emit, Pipeline!EmitRefused, Pipeline!EmitQueued,
                Pipeline!EmitDropped, Pipeline!volatile, Pipeline!process
<1>5. CASE StoreCommit
    BY <1>5 DEF StoreCommit, Pipeline!OtherCommit, Pipeline!process, service
<1>6. CASE WorkerStep
  <2>1. stopper' = stopper
      BY <1>6 DEF WorkerStep, Pipeline!Worker, Pipeline!WorkerGet, Pipeline!WriteLine,
                  Pipeline!FlushFails, Pipeline!LineLost, Pipeline!OpenFails, Pipeline!CommitRow,
                  Pipeline!CommitFails, Pipeline!PersistRaises
  <2> QED BY <1>6, <2>1 DEF WorkerStep, service
<1>7. CASE BeginShutdown \/ ListenerClosed
    BY <1>7 DEF BeginShutdown, ListenerClosed, pipeline
<1>8. ASSUME NEW p \in Port, CloseListener(p) PROVE Shape'
    BY <1>8 DEF CloseListener, pipeline
<1>9. CASE StopPipeline
    BY <1>9 DEF StopPipeline, Pipeline!BeginStop
<1>10. CASE PutSentinel
    BY <1>10 DEF PutSentinel, Pipeline!PutSentinel, service
<1>11. CASE Exit
    BY <1>11 DEF Exit, Pipeline!JoinWorker
<1>12. CASE UNCHANGED vars
    BY <1>12 DEF vars, pipeline, service
<1> QED
    BY <1>1, <1>2, <1>3, <1>4, <1>5, <1>6, <1>7, <1>8, <1>9, <1>10, <1>11, <1>12
    DEF Next, Handler

\* A handler that runs has a listener that is open or waited for, hence a
\* pipeline that takes what it emits.
LEMMA NextAttended == Shape /\ Attended /\ [Next]_vars => Attended'
<1> SUFFICES ASSUME Shape, Attended, [Next]_vars, WaitsForConnections
             PROVE  /\ \A c \in open' : PortOf[c] \in listening' \cup draining'
                    /\ told' = offered'
    BY DEF Attended
<1> USE DEF Attended, Shape
<1>1. CASE Boot
    BY <1>1 DEF Boot, Pipeline!Start
<1>2. CASE Crash
    BY <1>2 DEF Crash, Pipeline!Crash
<1>3. ASSUME NEW c \in Conn, Accept(c) \/ HandlerEnds(c)
      PROVE  /\ \A d \in open' : PortOf[d] \in listening' \cup draining'
             /\ told' = offered'
    BY <1>3 DEF Accept, HandlerEnds, pipeline
<1>4. ASSUME NEW c \in Conn, HandlerEmits(c)
      PROVE  /\ \A d \in open' : PortOf[d] \in listening' \cup draining'
             /\ told' = offered'
  <2>1. UNCHANGED <<listening, draining, open>> /\ told' = told + 1 /\ Pipeline!Emit
      BY <1>4 DEF HandlerEmits
  <2>2. life \in {"serving", "closing"}
      BY <1>4 DEF HandlerEmits, Pipeline!Emit, Pipeline!EmitRefused,
                  Pipeline!EmitQueued, Pipeline!EmitDropped, Pipeline!MayEmit
  <2>3. ~Pipeline!closed
      BY <2>2 DEF Pipeline!closed
  <2>4. offered' = offered + 1
      BY <2>1, <2>3 DEF Pipeline!Emit, Pipeline!EmitRefused, Pipeline!EmitQueued,
                        Pipeline!EmitDropped
  <2> QED BY <2>1, <2>4
<1>5. CASE StoreCommit
    BY <1>5 DEF StoreCommit, Pipeline!OtherCommit, Pipeline!process, service
<1>6. CASE WorkerStep
  <2>1. offered' = offered
      BY <1>6 DEF WorkerStep, Pipeline!Worker, Pipeline!WorkerGet, Pipeline!WriteLine,
                  Pipeline!FlushFails, Pipeline!LineLost, Pipeline!OpenFails, Pipeline!CommitRow,
                  Pipeline!CommitFails, Pipeline!PersistRaises
  <2> QED BY <1>6, <2>1 DEF WorkerStep, service
<1>7. CASE BeginShutdown
    BY <1>7 DEF BeginShutdown, pipeline
<1>8. ASSUME NEW p \in Port, CloseListener(p)
      PROVE  /\ \A d \in open' : PortOf[d] \in listening' \cup draining'
             /\ told' = offered'
    BY <1>8 DEF CloseListener, pipeline
<1>9. CASE ListenerClosed
    BY <1>9 DEF ListenerClosed, OpenOn, pipeline
<1>10. CASE StopPipeline
    BY <1>10 DEF StopPipeline, Pipeline!BeginStop
<1>11. CASE PutSentinel
    BY <1>11 DEF PutSentinel, Pipeline!PutSentinel, service
<1>12. CASE Exit
    BY <1>12 DEF Exit, Pipeline!JoinWorker
<1>13. CASE UNCHANGED vars
    BY <1>13 DEF vars, pipeline, service
<1> QED
    BY <1>1, <1>2, <1>3, <1>4, <1>5, <1>6, <1>7, <1>8, <1>9, <1>10, <1>11, <1>12, <1>13
    DEF Next, Handler

\* The invariant holds in every state.
LEMMA InvariantHolds == Spec => [](Shape /\ Attended)
BY InitShape, NextShape, NextAttended, PTL DEF Spec

\* What the pipeline's own theorems say, said of the pipeline in the service.
LEMMA PipelineInvariants == Proved!Spec => []Proved!TypeOK /\ []Proved!DrainOnStop
<1>1. Proved!Spec => []Proved!TypeOK
    BY Proved!TypeCorrect, SizesAreNaturals DEF Proved!SizesAreNaturals
<1>2. Proved!Spec => []Proved!DrainOnStop
    BY Proved!StopDrains, SizesAreNaturals DEF Proved!SizesAreNaturals
<1> QED
    BY <1>1, <1>2, PTL

\* The service keeps its types, and each phase of run_service's shutdown
\* (cli.py:119) finds the pipeline in the state it expects.
THEOREM TypeCorrect == Spec => []TypeOK
<1>1. Shape /\ Proved!TypeOK => TypeOK
    BY DEF Shape, TypeOK, Proved!TypeOK, Pipeline!TypeOK, Pipeline!Event, Proved!Event,
           Pipeline!NoEvent, Proved!NoEvent, Pipeline!Sentinel, Proved!Sentinel
<1> QED
    BY <1>1, ContainsPipeline, SamePipeline, PipelineInvariants, InvariantHolds, PTL

\* Where wait_closed waits for handlers, stop_all (server.py:104) leaves
\* none running when the pipeline begins to refuse events.
THEOREM NoHandlerIsLate == Spec => []NoLateHandler
<1>1. Shape /\ Attended => NoLateHandler
    BY DEF Shape, Attended, NoLateHandler, Pipeline!closed
<1> QED
    BY <1>1, InvariantHolds, PTL

\* When the service has exited, each event its handlers emitted was written,
\* failed or was dropped and counted: the order of the shutdown (cli.py:119)
\* loses none of them, for any number of listeners, connections and events, where
\* wait_closed waits for handlers (WaitsForConnections: Python 3.12 on).
THEOREM EverythingIsAnswered == Spec => []EverythingAnswered
<1>1. Shape /\ Attended /\ Proved!DrainOnStop => EverythingAnswered
    BY DEF Shape, Attended, Proved!DrainOnStop, EverythingAnswered
<1> QED
    BY <1>1, ContainsPipeline, SamePipeline, PipelineInvariants, InvariantHolds, PTL
=============================================================================
