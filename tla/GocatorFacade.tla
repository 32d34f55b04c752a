---------------------------- MODULE GocatorFacade ----------------------------
(***************************************************************************)
(* Gocator::Impl (C++/Gocator.cpp): the life of a connection and of an     *)
(* acquisition.  Three threads touch it: "api", the one thread that calls  *)
(* the public operations; the SDK's data thread, which calls handleData;   *)
(* and "worker", the std::thread stopWorker that handleData launches to    *)
(* call stop() when the frame target is reached.  A step ends where        *)
(* another thread can observe or disturb what follows.  A critical section *)
(* of stopWorkerMutex is one step; stopMutex, which stop() holds across    *)
(* blocking calls, is a variable.                                          *)
(***************************************************************************)
EXTENDS Naturals

CONSTANTS
    Targets,            \* the frame counts grab() is called with; 0: continuous
    MaxSessions,        \* bound: acquisitions begun in one behaviour
    MaxQueue,           \* bound: data sets waiting in the client's queue
    MaxFrames,          \* bound: the sensor falls silent after so many callbacks
    OverlappingGrabs    \* does the caller call grab() while isGrabbing()?

ASSUME FacadeAssumption ==
    /\ Targets \subseteq Nat /\ Targets # {}
    /\ {MaxSessions, MaxQueue, MaxFrames} \subseteq Nat
    /\ OverlappingGrabs \in BOOLEAN

VARIABLES
    \* Fields of Gocator::Impl.
    isOpened, isGrabbing, stopRequested,    \* the three atomics
    connection,      \* connection # null (and resources, set and reset with it)
    gdpClient,       \* gdpClient # null
    frameSeq, frameTarget,
    stopWorker,      \* stopWorker.joinable()
    stopMutex,       \* the thread holding it, or "none"
    \* Control state of the threads.
    pc,              \* pc["api"], pc["worker"]: where each of the two is
    op,              \* the public operation the api thread is in
    data,            \* where the SDK's data thread is
    \* The SDK and the device.
    gdpConnected,    \* GoGdpClient::IsConnected()
    queued,          \* data sets received and not yet taken by the data thread
    sensor,          \* the sensor is scanning
    faulty,          \* in this behaviour the sensor may be scanning before the
                     \* first start(), Stop commands and the data link may fail
    \* History, never read by the code.
    shown,           \* value of the last GrabbingStatus notification
    session,         \* number of acquisitions begun
    delivered,       \* grab callbacks run since the last acquisition began
    ends,            \* notifications of its end
    workerFor        \* the acquisition whose data thread launched the worker

flags == <<isOpened, isGrabbing, stopRequested>>
objects == <<connection, gdpClient>>
counts == <<frameSeq, frameTarget>>
stopping == <<stopWorker, stopMutex>>
link == <<gdpConnected, queued>>
history == <<session, delivered, ends, workerFor>>
vars == <<flags, objects, counts, stopping, pc, op, data, link, sensor, faulty, shown,
          history>>

Threads == {"api", "worker"}

\* Thread p moves from label l to label m.
Step(p, l, m) ==
    /\ pc[p] = l
    /\ pc' = [pc EXCEPT ![p] = m]

\* The api thread does, and nothing else changes.
Go(l, m) ==
    /\ Step("api", l, m)
    /\ UNCHANGED <<flags, objects, counts, stopping, op, data, link, sensor, shown, history>>

Init ==
    /\ isOpened = FALSE /\ isGrabbing = FALSE /\ stopRequested = FALSE
    /\ connection = FALSE /\ gdpClient = FALSE
    /\ frameSeq = 0 /\ frameTarget = 0
    /\ stopWorker = FALSE /\ stopMutex = "none"
    /\ shown = FALSE
    /\ pc = [p \in Threads |-> IF p = "api" THEN "idle" ELSE "none"]
    /\ op = "none"
    /\ data = "none"
    /\ gdpConnected = FALSE /\ queued = 0
    /\ faulty \in BOOLEAN
    /\ sensor \in {FALSE, faulty}
    /\ session = 0 /\ delivered = 0 /\ ends = 1 /\ workerFor = 0

\* The api thread calls operation o, which begins at label l.
Call(o, l) ==
    /\ Step("api", "idle", l)
    /\ op' = o
    /\ UNCHANGED <<flags, objects, counts, stopping, data, link, sensor, shown, history>>

-----------------------------------------------------------------------------
(* joinStopWorker(), called first by grab() and close() and last by ~Impl. *)
(* No callback calls back into the facade, so the caller is never the      *)
(* worker itself.                                                          *)

\* Mutant: close() forgets to stop the acquisition.
CloseWithoutStop(o) ==
    IF o = "grab" THEN "grab_check"
    ELSE IF o = "members" THEN "gone" ELSE "close_client"

\* Where the operation goes on once the worker is joined.
AfterJoin(o) ==
    IF o = "grab" THEN "grab_check"
    ELSE IF o = "members" THEN "gone" ELSE "stop_enter"

\* Mutant: the worker is detached.
DetachWorker ==
    /\ Step("api", "join", AfterJoin(op))
    /\ stopWorker' = FALSE
    /\ UNCHANGED <<flags, objects, counts, stopMutex, op, data, link, sensor, shown, history>>

JoinStopWorker ==
    /\ Step("api", "join", IF stopWorker THEN "joining" ELSE AfterJoin(op))
    /\ stopWorker' = FALSE
    /\ UNCHANGED <<flags, objects, counts, stopMutex, op, data, link, sensor, shown, history>>

WorkerJoined ==
    /\ pc["api"] = "joining"
    /\ pc["worker"] = "done"
    /\ pc' = [pc EXCEPT !["api"] = AfterJoin(op), !["worker"] = "none"]
    /\ UNCHANGED <<flags, objects, counts, stopping, op, data, link, sensor, shown, history>>

-----------------------------------------------------------------------------
(* stop(), run by the api thread for its caller, for close() and for a     *)
(* failed grab(), and by the worker.                                       *)

\* Mutant: close() leaves a client whose acquisition did not begin.
CloseWithoutClient(p) ==
    IF p = "worker" THEN "done"
    ELSE IF op \in {"grab", "stop"} THEN "idle" ELSE "close_connection"

\* Where thread p goes on once its stop() has returned.
AfterStop(p) ==
    IF p = "worker" THEN "done"
    ELSE IF op \in {"grab", "stop"} THEN "idle" ELSE "close_client"

\* Mutant: stop() loads isGrabbing instead of exchanging it.
StopWithoutExchange(p) ==
    /\ stopMutex = "none"
    /\ Step(p, "stop_enter", IF isGrabbing THEN "stop_flag" ELSE AfterStop(p))
    /\ stopMutex' = IF isGrabbing THEN p ELSE "none"
    /\ UNCHANGED <<flags, objects, counts, stopWorker, op, data, link, sensor, shown, history>>

\* Take stopMutex and isGrabbing.exchange(false).  The lock is released at once
\* when nothing was being grabbed.
StopEnter(p) ==
    /\ stopMutex = "none"
    /\ Step(p, "stop_enter", IF isGrabbing THEN "stop_flag" ELSE AfterStop(p))
    /\ stopMutex' = IF isGrabbing THEN p ELSE "none"
    /\ isGrabbing' = FALSE
    /\ UNCHANGED <<isOpened, stopRequested, objects, counts, stopWorker, op, data, link,
                   sensor, shown, history>>

StopFlag(p) ==
    /\ Step(p, "stop_flag", "stop_sensor")
    /\ stopRequested' = TRUE
    /\ UNCHANGED <<isOpened, isGrabbing, objects, counts, stopping, op, data, link,
                   sensor, shown, history>>

\* Mutant: the worker closes the client but leaves the sensor scanning.
WorkerLeavesSensor(p) ==
    /\ Step(p, "stop_sensor", "stop_close")
    /\ sensor' = (sensor /\ p = "worker")
    /\ UNCHANGED <<flags, objects, counts, stopping, op, data, link, shown, history>>

\* stopNoThrow(): a failure of the Stop command is swallowed.
StopSensor(p) ==
    /\ Step(p, "stop_sensor", "stop_close")
    /\ sensor' \in IF connection THEN {FALSE, sensor /\ faulty} ELSE {sensor}
    /\ UNCHANGED <<flags, objects, counts, stopping, op, data, link, shown, history>>

\* Mutant: the data thread is joined before the client is disconnected.
JoinBeforeClose(p) ==
    /\ Step(p, "stop_close", "stop_drain")
    /\ UNCHANGED <<flags, objects, counts, stopping, op, data, link, sensor, shown, history>>

\* Close() marks the client disconnected ...
StopClose(p) ==
    /\ Step(p, "stop_close", "stop_drain")
    /\ gdpConnected' = FALSE
    /\ UNCHANGED <<flags, objects, counts, stopping, op, data, queued, sensor, shown, history>>

\* Mutant: the client goes without its data thread being joined.
ResetWithoutDrain ==
    /\ queued' = 0
    /\ gdpConnected' = FALSE
    /\ gdpClient' = FALSE
    /\ data' = data

\* ... and it, or the client's destructor, joins the data thread.
DrainClient ==
    /\ data \in {"none", "done"}
    /\ data' = "none"
    /\ queued' = 0
    /\ gdpConnected' = FALSE
    /\ gdpClient' = FALSE

StopDrain(p) ==
    /\ Step(p, "stop_drain", "stop_notify")
    /\ DrainClient
    /\ UNCHANGED <<flags, connection, counts, stopping, op, sensor, shown, history>>

\* The observers are notified, then stopMutex is released.
StopNotify(p) ==
    /\ Step(p, "stop_notify", AfterStop(p))
    /\ shown' = FALSE
    /\ ends' = ends + 1
    /\ stopMutex' = "none"
    /\ UNCHANGED <<flags, objects, counts, stopWorker, op, data, link, sensor,
                   session, delivered, workerFor>>

Stop(p) ==
    \/ StopEnter(p) \/ StopFlag(p) \/ StopSensor(p)
    \/ StopClose(p) \/ StopDrain(p) \/ StopNotify(p)

-----------------------------------------------------------------------------
(* open(), which returns at once when isOpened, close() and the            *)
(* destructors.  ~Gocator calls close(); ~Impl calls it again and joins    *)
(* the worker before the members go.  The ConnectionStatus notifications,  *)
(* sent where isOpened is stored and by this thread alone, are not shown.  *)

CallOpen == ~isOpened /\ Call("open", "open_resolve")

\* The target is resolved; the connection and the resource client are made.
OpenResolve ==
    /\ Step("api", "open_resolve", "open_connect")
    /\ connection' = TRUE
    /\ UNCHANGED <<flags, gdpClient, counts, stopping, op, data, link, sensor, shown, history>>

OpenConnect ==
    /\ Step("api", "open_connect", "open_log")
    /\ isOpened' = TRUE
    /\ UNCHANGED <<isGrabbing, stopRequested, objects, counts, stopping, op, data, link,
                   sensor, shown, history>>

\* The GDP port, a request to the sensor, is read for the log.
OpenLog == Go("open_log", "idle")

\* No target was found, its address is invalid or the sensor does not answer
\* one of the requests: the handler calls close().
OpenThrows ==
    \/ Go("open_resolve", "join")
    \/ Go("open_connect", "join")
    \/ Go("open_log", "join")

CallClose == Call("close", "join") \/ Call("destroy", "join")

CloseClient ==
    /\ Step("api", "close_client", "close_connection")
    /\ DrainClient
    /\ UNCHANGED <<flags, connection, counts, stopping, op, sensor, shown, history>>

CloseConnection ==
    /\ Step("api", "close_connection", "close_opened")
    /\ connection' = FALSE
    /\ UNCHANGED <<flags, gdpClient, counts, stopping, op, data, link, sensor, shown, history>>

CloseOpened ==
    /\ Step("api", "close_opened", IF op \in {"destroy", "destruct"} THEN "join" ELSE "idle")
    /\ op' = CASE op = "destroy" -> "destruct"
               [] op = "destruct" -> "members"
               [] OTHER -> op
    /\ isOpened' = FALSE
    /\ UNCHANGED <<isGrabbing, stopRequested, objects, counts, stopping, data, link,
                   sensor, shown, history>>

\* The program makes another facade for the same sensor.
Construct ==
    /\ Step("api", "gone", "idle")
    /\ isOpened' = FALSE /\ isGrabbing' = FALSE /\ stopRequested' = FALSE
    /\ connection' = FALSE /\ gdpClient' = FALSE
    /\ frameSeq' = 0 /\ frameTarget' = 0
    /\ stopWorker' = FALSE /\ stopMutex' = "none"
    /\ shown' = FALSE
    /\ op' = "none"
    /\ UNCHANGED <<data, link, sensor, history>>

-----------------------------------------------------------------------------
(* grab().                                                                 *)

\* Mutant: grab() does not join the last worker.
GrabWithoutJoin ==
    /\ session < MaxSessions
    /\ OverlappingGrabs \/ ~isGrabbing
    /\ Call("grab", "grab_check")

CallGrab ==
    /\ session < MaxSessions
    /\ OverlappingGrabs \/ ~isGrabbing
    /\ Call("grab", "join")

\* Mutant: grab() does not ask whether the facade is connected.
GrabUnchecked == Go("grab_check", IF isGrabbing THEN "idle" ELSE "grab_connect")

\* Skipped when not connected or already grabbing.
GrabCheck == Go("grab_check", IF isOpened /\ ~isGrabbing THEN "grab_connect" ELSE "idle")

\* A new client replaces the one a failed grab() may have left, and connects
\* or throws, as the request for its port may.
GrabConnect ==
    /\ gdpClient' = TRUE
    /\ queued' = 0
    /\ gdpConnected' \in BOOLEAN
    /\ Step("api", "grab_connect", IF gdpConnected' THEN "grab_arm" ELSE "stop_enter")
    /\ UNCHANGED <<flags, connection, counts, stopping, op, data, sensor, shown, history>>

\* n is the argument of the call.  No other thread of the facade is alive here
\* (QuietBeforeReceive), so the four stores are one step.
GrabArm(n) ==
    /\ Step("api", "grab_arm", "grab_receive")
    /\ frameSeq' = 0
    /\ frameTarget' = n
    /\ stopRequested' = FALSE
    /\ isGrabbing' = TRUE
    /\ session' = session + 1
    /\ delivered' = 0
    /\ ends' = 0
    /\ UNCHANGED <<isOpened, objects, stopping, op, data, link, sensor, shown, workerFor>>

\* ReceiveDataAsync() starts the receive thread and the data thread.
GrabReceive ==
    /\ Step("api", "grab_receive", "grab_start")
    /\ data' = "loop"
    /\ UNCHANGED <<flags, objects, counts, stopping, op, link, sensor, shown, history>>

GrabStart ==
    /\ Step("api", "grab_start", "grab_notify")
    /\ sensor' = TRUE
    /\ UNCHANGED <<flags, objects, counts, stopping, op, data, link, shown, history>>

\* A request for the GDP port, ReceiveDataAsync() or start() throws; a start()
\* that timed out may have started the sensor.  The handler calls stop().
GrabThrows ==
    /\ \/ Step("api", "grab_arm", "stop_enter") /\ sensor' = sensor
       \/ Step("api", "grab_receive", "stop_enter") /\ sensor' = sensor
       \/ Step("api", "grab_start", "stop_enter") /\ sensor' \in {sensor, TRUE}
    /\ UNCHANGED <<flags, objects, counts, stopping, op, data, link, shown, history>>

GrabNotify ==
    /\ Step("api", "grab_notify", "idle")
    /\ shown' = TRUE
    /\ UNCHANGED <<flags, objects, counts, stopping, op, data, link, sensor, history>>

-----------------------------------------------------------------------------
(* The SDK's data thread and handleData().                                 *)

\* The thread runs while the client is connected.
DataLoop ==
    /\ data = "loop"
    /\ data' = IF gdpConnected THEN "dequeue" ELSE "done"
    /\ UNCHANGED <<flags, objects, counts, stopping, pc, op, link, sensor, shown, history>>

\* It takes a data set, or wakes up without one after a disconnection.
DataDequeue ==
    /\ data = "dequeue"
    /\ \/ queued > 0 /\ queued' = queued - 1 /\ data' = "check"
       \/ ~gdpConnected /\ queued' = queued /\ data' = "loop"
    /\ UNCHANGED <<flags, objects, counts, stopping, pc, op, gdpConnected, sensor, shown, history>>

\* handleData() drops the data set when nothing is being grabbed, and copies
\* the callbacks otherwise.
DataCheck ==
    /\ data = "check"
    /\ data' = IF isGrabbing THEN "call" ELSE "loop"
    /\ UNCHANGED <<flags, objects, counts, stopping, pc, op, link, sensor, shown, history>>

DataCall ==
    /\ data = "call"
    /\ data' = "count"
    /\ delivered' = delivered + 1
    /\ UNCHANGED <<flags, objects, counts, stopping, pc, op, link, sensor, shown,
                   session, ends, workerFor>>

\* Mutant: only counted acquisitions count their frames.
CountOnlyCounted ==
    /\ data = "count"
    /\ frameSeq' = IF frameTarget > 0 THEN frameSeq + 1 ELSE frameSeq
    /\ data' = IF frameTarget > 0 /\ frameSeq' >= frameTarget THEN "request" ELSE "loop"
    /\ UNCHANGED <<flags, objects, frameTarget, stopping, pc, op, link, sensor, shown, history>>

DataCount ==
    /\ data = "count"
    /\ frameSeq' = frameSeq + 1
    /\ data' = IF frameTarget > 0 /\ frameSeq' >= frameTarget THEN "request" ELSE "loop"
    /\ UNCHANGED <<flags, objects, frameTarget, stopping, pc, op, link, sensor, shown, history>>

\* Where requestStopFromCallback() goes on after its exchange: only the first
\* request of an acquisition counts.
RequestEveryTime == "spawn"    \* Mutant: every frame past the target counts.
AfterExchange == IF stopRequested THEN "loop" ELSE "spawn"

DataRequest ==
    /\ data = "request"
    /\ stopRequested' = TRUE
    /\ data' = AfterExchange
    /\ UNCHANGED <<isOpened, isGrabbing, objects, counts, stopping, pc, op, link,
                   sensor, shown, history>>

\* The worker is launched unless one is still to be joined.
DataSpawn ==
    /\ data = "spawn"
    /\ data' = "loop"
    /\ stopWorker' = TRUE
    /\ pc' = IF stopWorker THEN pc ELSE [pc EXCEPT !["worker"] = "stop_enter"]
    /\ workerFor' = IF stopWorker THEN workerFor ELSE session
    /\ UNCHANGED <<flags, objects, counts, stopMutex, op, link, sensor, shown,
                   session, delivered, ends>>

DataThread ==
    \/ DataLoop \/ DataDequeue \/ DataCheck \/ DataCall
    \/ DataCount \/ DataRequest \/ DataSpawn

-----------------------------------------------------------------------------
(* The device.                                                             *)

\* A scanning sensor sends a data set to the connected client.
SensorSend ==
    /\ sensor /\ gdpConnected
    /\ queued < MaxQueue
    /\ delivered < MaxFrames
    /\ queued' = queued + 1
    /\ UNCHANGED <<flags, objects, counts, stopping, pc, op, data, gdpConnected, sensor,
                   shown, history>>

\* The receive thread meets an error and marks the client disconnected.  The
\* facade registers no disconnect handler: no field of it changes.
LinkDrop ==
    /\ faulty
    /\ gdpConnected /\ data # "none"
    /\ gdpConnected' = FALSE
    /\ UNCHANGED <<flags, objects, counts, stopping, pc, op, data, queued, sensor,
                   shown, history>>

-----------------------------------------------------------------------------
\* The steps of the api thread's call once it has been made.
Body ==
    \/ OpenResolve \/ OpenConnect \/ OpenLog \/ OpenThrows
    \/ JoinStopWorker \/ WorkerJoined
    \/ CloseClient \/ CloseConnection \/ CloseOpened
    \/ GrabCheck \/ GrabConnect \/ (\E n \in Targets : GrabArm(n)) \/ GrabReceive
    \/ GrabStart \/ GrabThrows \/ GrabNotify

Next ==
    /\ \/ CallOpen \/ Call("stop", "stop_enter") \/ CallClose \/ CallGrab \/ Construct
       \/ Body \/ (\E p \in Threads : Stop(p)) \/ DataThread
       \/ SensorSend \/ LinkDrop
    /\ UNCHANGED faulty

Spec == Init /\ [][Next]_vars

\* The operating system runs every thread that can run; nothing makes the
\* program call an operation, and nothing makes the sensor send.
FairSpec ==
    /\ Spec
    /\ WF_vars(Body /\ UNCHANGED faulty)
    /\ WF_vars(DataThread /\ UNCHANGED faulty)
    /\ \A p \in Threads : WF_vars(Stop(p) /\ UNCHANGED faulty)
=============================================================================
