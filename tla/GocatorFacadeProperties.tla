----------------------- MODULE GocatorFacadeProperties -----------------------
(***************************************************************************)
(* What must be true of GocatorFacade.  The conjuncts the proof needs      *)
(* beside these are in GocatorFacadeProofs.                                *)
(***************************************************************************)
EXTENDS GocatorFacade

\* Where a thread holds stopMutex.
InStop == {"stop_flag", "stop_sensor", "stop_close", "stop_drain", "stop_notify"}

ApiLabels == InStop \cup
    {"idle", "open_resolve", "open_connect", "open_log", "join", "joining", "stop_enter",
     "close_client", "close_connection", "close_opened", "gone", "grab_check",
     "grab_connect", "grab_arm", "grab_receive", "grab_start", "grab_notify"}

WorkerLabels == InStop \cup {"none", "stop_enter", "done"}

DataLabels == {"none", "loop", "dequeue", "check", "call", "count", "request", "spawn", "done"}

Ops == {"none", "open", "stop", "close", "grab", "destroy", "destruct", "members"}

FieldsOK ==
    /\ isOpened \in BOOLEAN /\ isGrabbing \in BOOLEAN /\ stopRequested \in BOOLEAN
    /\ connection \in BOOLEAN /\ gdpClient \in BOOLEAN
    /\ frameSeq \in Nat /\ frameTarget \in Nat
    /\ stopWorker \in BOOLEAN /\ stopMutex \in Threads \cup {"none"}
    /\ op \in Ops /\ data \in DataLabels
    /\ gdpConnected \in BOOLEAN /\ queued \in Nat /\ sensor \in BOOLEAN
    /\ shown \in BOOLEAN
    /\ session \in Nat /\ delivered \in Nat /\ ends \in Nat /\ workerFor \in Nat

LabelsOK ==
    /\ pc \in [Threads -> ApiLabels \cup WorkerLabels]
    /\ pc["api"] \in ApiLabels
    /\ pc["worker"] \in WorkerLabels

\* Every field keeps its type, and every thread is at a label of its own.
TypeOK == FieldsOK /\ faulty \in BOOLEAN /\ LabelsOK

\* An acquisition is under way: from the store of isGrabbing in grab() until
\* stop() has told the observers that it ended.
Live == isGrabbing \/ stopMutex # "none"

\* Nobody holds stopMutex but the thread inside stop(), and two stop() calls
\* never overlap: the api thread's and the worker's take turns.
StopsTakeTurns == \A p \in Threads : (stopMutex = p) <=> (pc[p] \in InStop)

\* grab() and stop() dereference connection and gdpClient, and the SDK's data
\* thread lives inside *gdpClient: each is there whenever it is used, although
\* the worker's stop() resets gdpClient while the api thread is in a call.
ObjectsOutliveTheirUses ==
    /\ pc["api"] \in {"grab_connect", "grab_arm", "grab_receive", "grab_start"} => connection
    /\ pc["api"] \in {"grab_arm", "grab_receive"} => gdpClient
    /\ \A p \in Threads : pc[p] \in {"stop_sensor", "stop_close", "stop_drain"} =>
                            connection /\ gdpClient
    /\ data # "none" => gdpClient

\* Before ReceiveDataAsync() starts a data thread, the one of the previous
\* acquisition is gone and so is its worker: the plain fields frameSeq and
\* frameTarget, and the client grab() replaces, belong to the api thread alone.
QuietBeforeReceive ==
    pc["api"] \in {"grab_connect", "grab_arm", "grab_receive"} =>
        data = "none" /\ pc["worker"] = "none" /\ stopMutex = "none"

\* stop() drains: once it has returned (nothing is being grabbed and nobody is
\* inside stop()) no data thread is left to run a grab callback.
NoCallbackAfterStop == ~Live => data = "none"

\* The callbacks of an acquisition are numbered 0, 1, 2, ...: the frameSeq a
\* callback is given is the number of callbacks run before it since grab()
\* reset the count, and never one left over from an earlier acquisition.
FramesNumberedFromZero == data = "call" => frameSeq = delivered

\* requestStopFromCallback() never finds an unjoined worker in its way, so the
\* stop of a frame target that was reached is never lost, and the new worker
\* never runs beside an older one.
StopRequestNotLost == data = "spawn" => ~stopWorker /\ pc["worker"] = "none"

\* A worker that was scheduled late never stops a later acquisition than the
\* one whose data thread launched it.
WorkerStopsItsOwn ==
    pc["worker"] \in {"stop_enter"} \cup InStop /\ Live => workerFor = session

\* Observers are told exactly once that an acquisition ended, whichever of the
\* frame target, stop(), close() and a failed grab() ended it, and however
\* many of them raced.
EndNotifiedOnce == ends = IF Live THEN 0 ELSE 1

\* After close() nothing of the connection is left: no client, no connection, no
\* acquisition and no data thread.  When the members of Impl are destroyed
\* stopWorker is not joinable (that would end the program) and no thread that
\* uses them is left.
NothingLeft ==
    /\ pc["api"] = "idle" /\ ~isOpened =>
         ~connection /\ ~gdpClient /\ ~Live /\ data = "none"
    /\ pc["api"] = "gone" =>
         ~stopWorker /\ pc["worker"] = "none" /\ data = "none" /\ stopMutex = "none"

\* When nothing fails but requests of the caller, a facade that is not acquiring
\* has not left the sensor scanning, although start() and the worker's stop()
\* may overlap.
SensorStoppedWhenIdle == ~faulty /\ pc["api"] = "idle" /\ ~Live => ~sensor

\* The facade implements the promise of Acquisition.
Promise == INSTANCE Acquisition WITH open <- isOpened, live <- Live, frames <- delivered
ImplementsAcquisition == Promise!Spec

\* A frame target that was reached ends the acquisition, without a call.
TargetEndsAcquisition == (data = "request") ~> ~isGrabbing

\* Every operation returns: no call waits for ever for the worker, for
\* stopMutex or for the data thread.
EveryCallReturns == (pc["api"] \notin {"idle", "gone"}) ~> (pc["api"] \in {"idle", "gone"})

\* A counted grab() ends by itself while the sensor sends and the link holds.
CountedGrabEnds ==
    WF_vars(SensorSend /\ UNCHANGED faulty) =>
        ((~faulty /\ isGrabbing /\ frameTarget > 0) ~> ~isGrabbing)

-----------------------------------------------------------------------------
(* What the repository says of the facade and the code does not keep.      *)

\* RELEASE_NOTE.md, v0.2.2: the Live command is kept "synchronized with
\* acquisition state".  Its source is the GrabbingStatus notification: with no
\* call and no stop() under way, the last one sent must tell what is the case.
StatusSettles == pc["api"] = "idle" /\ ~Live => ~shown

\* Gocator.cpp, grab(): "Grab skipped: Gocator is already grabbing."  A grab()
\* that goes ahead finds no acquisition under way.
GrabSkippedWhileLive == pc["api"] = "grab_connect" => ~Live
=============================================================================
