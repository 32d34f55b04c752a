---------------------------- MODULE PluginSession ----------------------------
(***************************************************************************)
(* A Playground session of the sensor (GocatorPlugin.cpp) with what it     *)
(* owns or serves: the facade, the source controller and its frame stream, *)
(* the title state, the Qt widget, and a frame stream of another consumer. *)
(* The facade calls observers that it copied under a lock, without holding *)
(* the lock, while the session takes them down.  The threads are the GUI   *)
(* thread, the widget's pool thread, the facade's stop worker and the      *)
(* SDK's data thread.  A data set may be the last of its frame target.     *)
(***************************************************************************)
EXTENDS Sequences

CONSTANT Others    \* frame streams that other consumers may make

ASSUME SessionAssumption ==
    Others \cap {"own", "none", "facade", "title", "controller", "widget"} = {}

VARIABLES
    \* Gocator::Impl.
    isOpened, isGrabbing, stopRequested, stopWorker, stopMutex,
    connected,          \* the client is connected
    statusObservers,    \* registered observers of the status
    grabCallbacks,      \* streams whose callback is registered
    \* What each thread has yet to do, the next step first.
    agenda,
    calling,            \* observers that its notification has yet to call
    \* The SDK's data thread.
    data,
    pending,            \* streams its data set has yet to be given to
    serving,            \* the stream whose callback it runs
    leased,             \* streams whose gate has a lease out
    \* The observers.
    shut,               \* streams whose gate was told to shut down
    titleActive,        \* GocatorPluginTitleState::_active
    alive               \* objects not destroyed

facade == <<isOpened, isGrabbing, stopRequested, stopWorker, stopMutex, connected>>
registries == <<statusObservers, grabCallbacks>>
threads == <<agenda, calling>>
delivery == <<data, pending, serving, leased>>
observers == <<shut, titleActive, alive>>
vars == <<facade, registries, threads, delivery, observers>>

Callers == {"gui", "pool", "worker"}
Streams == {"own"} \cup Others

-----------------------------------------------------------------------------
(* Threads as lists of steps.                                              *)

\* Thread t takes step s, which the steps more replace.
Do(t, s, more) ==
    /\ agenda[t] # <<>>
    /\ Head(agenda[t]) = s
    /\ agenda' = [agenda EXCEPT ![t] = more \o Tail(@)]

\* An idle thread t is given something to do.
Begin(t, steps) ==
    /\ agenda[t] = <<>>
    /\ agenda' = [agenda EXCEPT ![t] = steps]

Open == << <<"open">> >>
Stop == << <<"stop">> >>
Grab == << <<"join">>, <<"grab">> >>

\* close(): join the worker, stop, dispose of a client that is left, and
\* store isOpened last.
Close == << <<"join">> >> \o Stop \o << <<"disconnect">>, <<"drain">>, <<"closed">> >>

\* What stop() does when something is being grabbed.
Stopping ==
    << <<"flag">>, <<"disconnect">>, <<"drain">>, <<"notify", "idle">>, <<"unlock">> >>

\* Mutant: the stream does not wait for the callbacks that hold a lease.
EndWithoutDrain(s) ==
    << <<"shut", s>>, <<"deregister", s>>, <<"gone", s>> >>

\* ~GocatorGraphicsFrameStream::Impl.
EndStream(s) ==
    << <<"shut", s>>, <<"deregister", s>>, <<"drained", s>>, <<"gone", s>> >>

\* Mutant: the widget deregisters and does not wait for its operations.
ShutdownAtOnce == << <<"deregister", "widget">> >>

\* QGocatorWidget::prepareForShutdown().
PrepareForShutdown == << <<"wait for pool">>, <<"deregister", "widget">> >>

\* Mutant: the controller does not stop the acquisition first.
EndUnstopped == EndStream("own") \o << <<"deregister", "controller">>, <<"gone", "controller">> >>

\* ~GocatorSourceController.
EndController ==
    Stop \o EndStream("own") \o << <<"deregister", "controller">>, <<"gone", "controller">> >>

\* ~GocatorPluginSession and its members: the title state, then the facade,
\* whose ~Gocator and ~Impl both close.
EndSession ==
    << <<"deactivate">>, <<"deregister", "title">> >>
        \o PrepareForShutdown \o EndController \o Close
        \o << <<"gone", "title">> >> \o Close \o Close
        \o << <<"join">>, <<"gone", "facade">> >>

-----------------------------------------------------------------------------
\* The session is made: the controller registers for the status and its stream
\* for the data, then the session registers for the title.
Init ==
    /\ isOpened = FALSE /\ isGrabbing = FALSE /\ stopRequested = FALSE
    /\ stopWorker = FALSE /\ stopMutex = "none" /\ connected = FALSE
    /\ statusObservers = {"controller", "title"}
    /\ grabCallbacks = {"own"}
    /\ agenda = [t \in Callers |-> <<>>]
    /\ calling = [t \in Callers |-> {}]
    /\ data = "none" /\ pending = {} /\ serving = "none" /\ leased = {}
    /\ shut = {} /\ titleActive = TRUE
    /\ alive = {"facade", "title", "controller", "own"}

\* The host makes another session when the last is gone, its widget included.
CreateSession ==
    /\ agenda["gui"] = <<>>
    /\ "facade" \notin alive
    /\ isOpened' = FALSE /\ isGrabbing' = FALSE /\ stopRequested' = FALSE
    /\ stopWorker' = FALSE /\ stopMutex' = "none" /\ connected' = FALSE
    /\ statusObservers' = {"controller", "title"}
    /\ grabCallbacks' = {"own"}
    /\ shut' = {} /\ titleActive' = TRUE
    /\ alive' = {"facade", "title", "controller", "own"}
    /\ UNCHANGED <<threads, delivery>>

-----------------------------------------------------------------------------
(* What the GUI thread begins.                                             *)

OnlyAgenda ==
    UNCHANGED <<facade, registries, calling, delivery, observers>>

\* The widget's toggles and GrabOne, or the host's start() of the controller.
\* A grab() while isGrabbing() is the subject of GocatorFacade, and one beside
\* an open() or close() of the pool is left out.
CallGrab ==
    /\ "facade" \in alive /\ ~isGrabbing /\ agenda["pool"] = <<>>
    /\ Begin("gui", Grab)
    /\ OnlyAgenda

CallStop ==
    /\ "facade" \in alive
    /\ Begin("gui", Stop)
    /\ OnlyAgenda

\* The session's widget has work for the pool, one operation at a time.
InPool(steps) ==
    /\ "widget" \in alive /\ "facade" \in alive
    /\ agenda["gui"] = <<>>
    /\ Begin("pool", steps)
    /\ OnlyAgenda

\* onConnectToggled() and the operations that only ask the facade.
ConnectToggled == InPool(Open) \/ InPool(Close)

AskFacade == InPool(<< <<"use", "facade">> >>)

\* createDockWidgets().
CreateDockWidgets ==
    /\ agenda["gui"] = <<>>
    /\ "facade" \in alive /\ "widget" \notin alive
    /\ alive' = alive \cup {"widget"}
    /\ statusObservers' = statusObservers \cup {"widget"}
    /\ UNCHANGED <<facade, grabCallbacks, threads, delivery, shut, titleActive>>

\* Mutant: the stream registers for the status.
MakeStreamForStatus(s) ==
    /\ agenda["gui"] = <<>>
    /\ "facade" \in alive /\ s \notin alive
    /\ alive' = alive \cup {s}
    /\ statusObservers' = statusObservers \cup {s}
    /\ shut' = shut \ {s}
    /\ UNCHANGED <<facade, grabCallbacks, threads, delivery, titleActive>>

\* Another consumer makes a stream, and ends it before the session ends.
MakeStream(s) ==
    /\ agenda["gui"] = <<>>
    /\ "facade" \in alive /\ s \notin alive
    /\ alive' = alive \cup {s}
    /\ grabCallbacks' = grabCallbacks \cup {s}
    /\ shut' = shut \ {s}
    /\ UNCHANGED <<facade, statusObservers, threads, delivery, titleActive>>

DropStream(s) ==
    /\ s \in alive
    /\ Begin("gui", EndStream(s))
    /\ OnlyAgenda

DestroySession ==
    /\ "facade" \in alive /\ Others \cap alive = {}
    /\ Begin("gui", EndSession)
    /\ OnlyAgenda

-----------------------------------------------------------------------------
(* Steps of the facade.                                                    *)

\* joinStopWorker(): the handle is taken at once, then the worker waited for.
Join(t) ==
    /\ Do(t, <<"join">>, IF stopWorker THEN << <<"joining">> >> ELSE <<>>)
    /\ stopWorker' = FALSE
    /\ UNCHANGED <<isOpened, isGrabbing, stopRequested, stopMutex, connected,
                   registries, calling, delivery, observers>>

Joined(t) ==
    /\ agenda["worker"] = <<>>
    /\ Do(t, <<"joining">>, <<>>)
    /\ OnlyAgenda

\* open() finds nothing to do, fails, or stores isOpened and notifies; the last
\* request, for the GDP port, may still fail.
OpenFacade(t) ==
    /\ \/ Do(t, <<"open">>, IF isOpened THEN <<>> ELSE Close) /\ isOpened' = isOpened
       \/ ~isOpened /\ Do(t, <<"open">>, << <<"notify", "opened">> >>) /\ isOpened' = TRUE
       \/ ~isOpened /\ Do(t, <<"open">>, Close) /\ isOpened' = TRUE
    /\ UNCHANGED <<isGrabbing, stopRequested, stopWorker, stopMutex, connected,
                   registries, calling, delivery, observers>>

Closed(t) ==
    /\ Do(t, <<"closed">>, IF isOpened THEN << <<"notify", "closed">> >> ELSE <<>>)
    /\ isOpened' = FALSE
    /\ UNCHANGED <<isGrabbing, stopRequested, stopWorker, stopMutex, connected,
                   registries, calling, delivery, observers>>

\* grab() is skipped, fails before it sets its flags, or sets them.
GrabFacade(t) ==
    /\ \/ /\ ~isOpened \/ isGrabbing
          /\ Do(t, <<"grab">>, <<>>)
          /\ UNCHANGED <<isGrabbing, stopRequested>>
       \/ /\ isOpened /\ ~isGrabbing
          /\ Do(t, <<"grab">>, Stop)
          /\ UNCHANGED <<isGrabbing, stopRequested>>
       \/ /\ isOpened /\ ~isGrabbing
          /\ Do(t, <<"grab">>, << <<"receive">> >>)
          /\ isGrabbing' = TRUE /\ stopRequested' = FALSE
    /\ UNCHANGED <<isOpened, stopWorker, stopMutex, connected, registries, calling,
                   delivery, observers>>

\* ReceiveDataAsync() starts the data thread and start() the sensor; either may
\* throw, and the handler calls stop().
Receive(t) ==
    /\ \/ Do(t, <<"receive">>, Stop) /\ data' \in {data, "loop"}
       \/ Do(t, <<"receive">>, << <<"notify", "live">> >>) /\ data' = "loop"
    /\ connected' = TRUE
    /\ UNCHANGED <<isOpened, isGrabbing, stopRequested, stopWorker, stopMutex,
                   registries, calling, pending, serving, leased, observers>>

StopFacade(t) ==
    /\ stopMutex = "none"
    /\ Do(t, <<"stop">>, IF isGrabbing THEN Stopping ELSE <<>>)
    /\ stopMutex' = IF isGrabbing THEN t ELSE "none"
    /\ isGrabbing' = FALSE
    /\ UNCHANGED <<isOpened, stopRequested, stopWorker, connected, registries, calling,
                   delivery, observers>>

Flag(t) ==
    /\ Do(t, <<"flag">>, <<>>)
    /\ stopRequested' = TRUE
    /\ UNCHANGED <<isOpened, isGrabbing, stopWorker, stopMutex, connected,
                   registries, calling, delivery, observers>>

Disconnect(t) ==
    /\ Do(t, <<"disconnect">>, <<>>)
    /\ connected' = FALSE
    /\ UNCHANGED <<isOpened, isGrabbing, stopRequested, stopWorker, stopMutex,
                   registries, calling, delivery, observers>>

\* The client joins its data thread.
Drain(t) ==
    /\ data \in {"none", "done"}
    /\ Do(t, <<"drain">>, <<>>)
    /\ data' = "none"
    /\ UNCHANGED <<facade, registries, calling, pending, serving, leased, observers>>

Unlock(t) ==
    /\ Do(t, <<"unlock">>, <<>>)
    /\ stopMutex' = "none"
    /\ UNCHANGED <<isOpened, isGrabbing, stopRequested, stopWorker, connected,
                   registries, calling, delivery, observers>>

-----------------------------------------------------------------------------
(* notifyStatus() and the observers of the status.                         *)

Events == {"live", "idle", "opened", "closed"}

\* The observers are copied under statusMutex ...
Notify(t, e) ==
    /\ Do(t, <<"notify", e>>, << <<"call", e>> >>)
    /\ calling' = [calling EXCEPT ![t] = statusObservers]
    /\ UNCHANGED <<facade, registries, delivery, observers>>

\* ... and called without it, in the order of an unordered map.
Called(t, e) ==
    /\ calling[t] = {}
    /\ Do(t, <<"call", e>>, <<>>)
    /\ OnlyAgenda

CallObserver(t, e, o, steps) ==
    /\ o \in calling[t]
    /\ Do(t, <<"call", e>>, steps \o << <<"call", e>> >>)
    /\ calling' = [calling EXCEPT ![t] = @ \ {o}]
    /\ UNCHANGED <<facade, registries, delivery, observers>>

\* The controller keeps the acquisition's status.
TellController(t, e) ==
    CallObserver(t, e, "controller",
                 IF e \in {"live", "idle"} THEN << <<"use", "controller">> >> ELSE <<>>)

\* The widget checks its QPointer, then posts an event to itself.
TellWidget(t, e) ==
    CallObserver(t, e, "widget", IF "widget" \in alive THEN << <<"use", "widget">> >> ELSE <<>>)

\* The title asks for the state (weak_ptr), then, under its mutex and only
\* while it is active, the facade for the address.
TellTitle(t, e) ==
    CallObserver(t, e, "title",
                 IF e = "opened" /\ "title" \in alive THEN << <<"read title">> >> ELSE <<>>)

ReadTitle(t) ==
    /\ Do(t, <<"read title">>, IF titleActive THEN << <<"publish">> >> ELSE <<>>)
    /\ OnlyAgenda

\* publish() copies the host's callback under the mutex and calls it without.
Publish(t) ==
    /\ Do(t, <<"publish">>, IF titleActive THEN << <<"use", "host">> >> ELSE <<>>)
    /\ OnlyAgenda

Used == {"controller", "widget", "host", "facade"}

\* Mutant: the widget's event is posted with a blocking connection.
UseBlocking(t, o) ==
    /\ o = "widget" => agenda["gui"] = <<>>
    /\ Do(t, <<"use", o>>, <<>>)
    /\ OnlyAgenda

\* Code of the object o runs and returns; the widget only queues an event.
Use(t, o) ==
    /\ Do(t, <<"use", o>>, <<>>)
    /\ OnlyAgenda

-----------------------------------------------------------------------------
(* The data thread, handleData() and the streams.                          *)

\* A data set arrives, and the callbacks are copied under grabCallbackMutex; or
\* the client is disconnected.
DataTake ==
    /\ data = "loop"
    /\ \/ ~connected /\ data' = "done" /\ pending' = {}
       \/ isGrabbing /\ data' = "call" /\ pending' = grabCallbacks
    /\ UNCHANGED <<facade, registries, threads, serving, leased, observers>>

\* The callback of stream s asks its gate for a lease; it returns when the gate
\* gives none, or else converts the data set.
DataCall(s) ==
    /\ data = "call"
    /\ s \in pending
    /\ pending' = pending \ {s}
    /\ IF s \in shut
         THEN UNCHANGED <<data, serving, leased>>
         ELSE data' = "use" /\ serving' = s /\ leased' = leased \cup {s}
    /\ UNCHANGED <<facade, registries, threads, observers>>

\* The stream's consumer has the frame and the lease is given back.
DataUse ==
    /\ data = "use"
    /\ leased' = leased \ {serving}
    /\ serving' = "none"
    /\ data' = "call"
    /\ UNCHANGED <<facade, registries, threads, pending, observers>>

\* All were called; the data set may be the last of the target.
DataCount ==
    /\ data = "call" /\ pending = {}
    /\ \/ data' = "loop" /\ stopRequested' = stopRequested
       \/ data' = (IF stopRequested THEN "loop" ELSE "spawn") /\ stopRequested' = TRUE
    /\ UNCHANGED <<isOpened, isGrabbing, stopWorker, stopMutex, connected, registries,
                   threads, pending, serving, leased, observers>>

DataSpawn ==
    /\ data = "spawn"
    /\ data' = "loop"
    /\ stopWorker' = TRUE
    /\ IF stopWorker THEN agenda' = agenda ELSE Begin("worker", Stop)
    /\ UNCHANGED <<isOpened, isGrabbing, stopRequested, stopMutex, connected, registries,
                   calling, pending, serving, leased, observers>>

\* The link breaks.
LinkDrop ==
    /\ connected /\ data # "none"
    /\ connected' = FALSE
    /\ UNCHANGED <<isOpened, isGrabbing, stopRequested, stopWorker, stopMutex, registries,
                   threads, delivery, observers>>

-----------------------------------------------------------------------------
(* Steps of the teardown.                                                  *)

Deactivate ==
    /\ Do("gui", <<"deactivate">>, <<>>)
    /\ titleActive' = FALSE
    /\ UNCHANGED <<facade, registries, calling, delivery, shut, alive>>

\* deregisterStatusCallback() and deregisterGrabCallback(): neither waits for a
\* call under way.
Deregister(o) ==
    /\ Do("gui", <<"deregister", o>>, <<>>)
    /\ statusObservers' = statusObservers \ {o}
    /\ grabCallbacks' = grabCallbacks \ {o}
    /\ UNCHANGED <<facade, calling, delivery, observers>>

WaitForPool ==
    /\ agenda["pool"] = <<>>
    /\ Do("gui", <<"wait for pool">>, <<>>)
    /\ OnlyAgenda

\* beginShutdown(): from here on the gate gives no lease ...
ShutGate(s) ==
    /\ Do("gui", <<"shut", s>>, <<>>)
    /\ shut' = shut \cup {s}
    /\ UNCHANGED <<facade, registries, calling, delivery, titleActive, alive>>

\* ... and waitForDrain() waits for those that are out.
Drained(s) ==
    /\ s \notin leased
    /\ Do("gui", <<"drained", s>>, <<>>)
    /\ OnlyAgenda

\* An object is destroyed.
Gone(o) ==
    /\ Do("gui", <<"gone", o>>, <<>>)
    /\ alive' = alive \ {o}
    /\ UNCHANGED <<facade, registries, calling, delivery, shut, titleActive>>

-----------------------------------------------------------------------------
Perform(t) ==
    \/ Join(t) \/ Joined(t) \/ OpenFacade(t) \/ Closed(t) \/ GrabFacade(t) \/ Receive(t)
    \/ StopFacade(t) \/ Flag(t) \/ Disconnect(t) \/ Drain(t) \/ Unlock(t)
    \/ \E e \in Events : Notify(t, e) \/ Called(t, e) \/ TellController(t, e)
                          \/ TellWidget(t, e) \/ TellTitle(t, e)
    \/ ReadTitle(t) \/ Publish(t)
    \/ \E o \in Used : Use(t, o)

TearDown ==
    \/ Deactivate \/ WaitForPool
    \/ \E o \in {"title", "widget", "controller"} \cup Streams : Deregister(o)
    \/ \E s \in Streams : ShutGate(s) \/ Drained(s)
    \/ \E o \in {"title", "controller", "facade"} \cup Streams : Gone(o)

DataThread ==
    DataTake \/ (\E s \in Streams : DataCall(s)) \/ DataUse \/ DataCount \/ DataSpawn

Call ==
    \/ CallGrab \/ CallStop \/ ConnectToggled \/ AskFacade \/ CreateDockWidgets
    \/ (\E s \in Others : MakeStream(s) \/ DropStream(s)) \/ DestroySession \/ CreateSession

Next == Call \/ TearDown \/ (\E t \in Callers : Perform(t)) \/ DataThread \/ LinkDrop

Spec == Init /\ [][Next]_vars

\* Every thread that can run is run; the host calls as it likes.
FairSpec ==
    /\ Spec
    /\ WF_vars(TearDown) /\ WF_vars(DataThread)
    /\ \A t \in Callers : WF_vars(Perform(t))
=============================================================================
