----------------------- MODULE PluginSessionProperties -----------------------
(***************************************************************************)
(* What a session promises about the calls that reach its objects while it *)
(* is taken down.                                                          *)
(***************************************************************************)
EXTENDS PluginSession

Objects == {"facade", "title", "controller", "widget"} \cup Streams

\* What stop() does and what the observers of its notification do.
StopSteps ==
    { <<s>> : s \in {"stop", "flag", "disconnect", "drain", "unlock", "read title", "publish"} }
        \cup ({"notify", "call"} \X Events)
        \cup ({"use"} \X Used)

PoolSteps == StopSteps \cup { <<s>> : s \in {"open", "join", "joining", "closed"} }

Steps ==
    PoolSteps
        \cup { <<s>> : s \in {"grab", "receive", "deactivate", "wait for pool"} }
        \cup ({"shut", "drained"} \X Streams)
        \cup ({"deregister", "gone"} \X Objects)

\* Type correctness.  The GUI thread alone takes the session down and grabs, the pool
\* opens, closes and asks, and the worker only stops and notifies.
TypeOK ==
    /\ isOpened \in BOOLEAN /\ isGrabbing \in BOOLEAN /\ stopRequested \in BOOLEAN
    /\ stopWorker \in BOOLEAN /\ connected \in BOOLEAN /\ titleActive \in BOOLEAN
    /\ stopMutex \in Callers \cup {"none"}
    /\ statusObservers \subseteq {"title", "controller", "widget"}
    /\ grabCallbacks \subseteq Streams /\ pending \subseteq Streams
    /\ shut \subseteq Streams /\ leased \subseteq Streams
    /\ agenda \in [Callers -> Seq(Steps)]
    /\ agenda["pool"] \in Seq(PoolSteps) /\ agenda["worker"] \in Seq(StopSteps)
    /\ calling \in [Callers -> SUBSET {"title", "controller", "widget"}]
    /\ data \in {"none", "loop", "call", "use", "spawn", "done"}
    /\ serving \in Streams \cup {"none"}
    /\ alive \subseteq Objects

\* A notification that is under way reaches only living observers, although it
\* goes on after they have deregistered (Gocator.cpp:179).  What makes it so is
\* that the widget waits for its operations, that the controller's stop() waits
\* for the worker's, and that a title that is not active is not asked.  No later
\* notification or data set can pick up a destroyed observer, because no
\* registration of one is left.
CallsReachTheLiving ==
    /\ \A t \in Callers : agenda[t] # <<>> =>
         \A o \in Used \ {"host"} : Head(agenda[t]) = <<"use", o>> => o \in alive
    /\ statusObservers \cup grabCallbacks \subseteq alive

\* A data set is converted only by a stream that lives, and the controller's
\* stream gives its frames to a controller that lives: the gate of the stream
\* ends the calls that deregistration does not (GocatorGraphicsFrameStream.cpp:83).
FramesReachTheLiving ==
    data = "use" =>
        /\ serving \in alive
        /\ serving = "own" => "controller" \in alive

\* Neither the stop worker, nor an operation of the widget, nor the data thread
\* is left when the facade has been destroyed.
FacadeOutlivesItsThreads ==
    "facade" \notin alive =>
        /\ agenda["pool"] = <<>> /\ agenda["worker"] = <<>>
        /\ ~stopWorker /\ stopMutex = "none"
        /\ data = "none"

\* Every call returns: the GUI thread, above all, comes back from the teardown
\* although it waits for the pool, the worker, the data thread and the gate.
CallsReturn ==
    \A t \in Callers : agenda[t] # <<>> ~> agenda[t] = <<>>
=============================================================================
