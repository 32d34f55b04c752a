---------------------------- MODULE ControlWidget ----------------------------
(***************************************************************************)
(* QGocatorWidget: the controls that its pool operations and the queued    *)
(* notifications enable and disable.  Handlers run one at a time, on the   *)
(* GUI thread; open(), close() and the parameter calls run on pool threads *)
(* and their ends reach the widget in the order in which they were posted, *)
(* among the notifications of the facade.  Of the facade it has the steps  *)
(* that the widget can observe: open() and close() on the pool, grab() and *)
(* stop() on the GUI thread, the stop worker, and that each of them        *)
(* notifies after it has changed a flag.  What they do to the sensor is    *)
(* GocatorFacade's matter, the widget's end PluginSession's.               *)
(***************************************************************************)
EXTENDS Naturals, SequencesExt, FiniteSets

CONSTANTS
    Threads,        \* of the pool, for open() and close()
    MaxPending      \* operations and events under way at most when the user does something

ASSUME WidgetAssumption == MaxPending \in Nat

VARIABLES
    isOpened, isGrabbing,   \* of the facade
    starting,       \* grab() has set isGrabbing: the GUI thread is in it until it has notified
    ending,         \* who has reset isGrabbing in stop() and has not yet notified
    connecting,     \* where open() or close() is on each thread
    watching,       \* the thread whose end _connectWatcher awaits
    running,        \* other operations on the pool
    reading,        \* of _featureDataWatcher: not done, or whether it knows the last write
    events,         \* posted to the GUI thread
    ui              \* the controls, and the widget's flags

facade == <<isOpened, isGrabbing, starting, ending>>
pool == <<connecting, watching, running, reading>>
vars == <<facade, pool, events, ui>>

Operations == {"discover", "param", "features"}

\* Where open() and close() have returned, if anybody wants to know.
Returned == {"succeeded", "failed"}

Places ==
    {"idle", "open", "resolving", "opened", "stopping", "notifying", "closing", "closed"}
        \cup Returned

Event(what, value) == [of |-> what, on |-> value]

Pending(what) == \E i \in DOMAIN events : events[i].of = what

\* setFuture() forgets what the last future has posted, one event at most.
Forgotten(q, what) == RemoveFirstMatch(q, LAMBDA e : e.of = what)

Init ==
    /\ isOpened = FALSE /\ isGrabbing = FALSE /\ starting = FALSE /\ ending = "nobody"
    /\ connecting = [t \in Threads |-> "idle"] /\ watching = {}
    /\ running = {} /\ reading = "none"
    /\ events = << >>
    /\ ui = [connectOn |-> TRUE, connectChecked |-> FALSE, refreshOn |-> TRUE,
             oneOn |-> FALSE, liveOn |-> FALSE, liveChecked |-> FALSE, editors |-> "none",
             current |-> TRUE, label |-> "Idle",
             grabbing |-> FALSE, parameterUpdateActive |-> FALSE]

-----------------------------------------------------------------------------
(* What a handler does to the controls u.                                  *)

UpdateStatusLabel(u) ==
    [u EXCEPT !.label = IF ~isOpened THEN "Idle" ELSE IF u.grabbing THEN "Live" ELSE "Connected"]

SetConnectionOperationActive(u, active) ==
    UpdateStatusLabel([u EXCEPT !.refreshOn = ~active /\ ~isOpened, !.connectOn = ~active])

EditorsEnabled(u, enabled) ==
    [u EXCEPT !.editors = IF @ = "none" THEN @ ELSE IF enabled THEN "on" ELSE "off"]

SetRunningState(u, on) ==
    EditorsEnabled([u EXCEPT !.oneOn = isOpened /\ ~on, !.liveOn = isOpened],
                   ~on /\ ~u.parameterUpdateActive)

\* applyConnectionState(false).
Disconnected(u) ==
    [SetRunningState(UpdateStatusLabel([u EXCEPT !.refreshOn = TRUE, !.connectOn = TRUE,
                                                 !.liveChecked = FALSE, !.grabbing = FALSE]), FALSE)
       EXCEPT !.editors = "none", !.current = TRUE]

\* applyConnectionState(true): the editors are made anew, if the sensor answers.
Connected(u) ==
    LET v == SetRunningState(UpdateStatusLabel([u EXCEPT !.refreshOn = FALSE,
                                                         !.connectOn = TRUE]), FALSE)
    IN  IF isOpened THEN {[v EXCEPT !.editors = e, !.current = TRUE] : e \in {"none", "on"}}
        ELSE {v}

ApplyConnectionState(u, opened) == IF opened THEN Connected(u) ELSE {Disconnected(u)}

\* What disables every control that could disturb a parameter call.
Busy(u) ==
    EditorsEnabled([SetConnectionOperationActive(u, TRUE) EXCEPT !.oneOn = FALSE,
                                                               !.liveOn = FALSE], FALSE)

-----------------------------------------------------------------------------
(* The calls to the facade that a handler makes.                           *)

\* grab(): it is skipped or fails early, or it sets isGrabbing.
GrabFacade ==
    /\ UNCHANGED <<isOpened, ending, events>>
    /\ \/ UNCHANGED <<isGrabbing, starting>>
       \/ /\ isOpened /\ ~isGrabbing
          /\ isGrabbing' = TRUE /\ starting' = TRUE

\* stop(), on the GUI thread, when nobody else is inside.
StopFacade ==
    /\ ending = "nobody"
    /\ isGrabbing' = FALSE
    /\ events' = IF isGrabbing THEN Append(events, Event("grabbing", FALSE)) ELSE events
    /\ UNCHANGED <<isOpened, starting, ending>>

\* updateFeatureValues(), with the controls u, when the last event is done.
UpdateFeatureValues(u) ==
    IF isOpened /\ "features" \notin running
      THEN /\ ui' = Busy(u)
           /\ running' = running \cup {"features"} /\ reading' = "none"
           /\ events' = Forgotten(Tail(events), "features")
      ELSE ui' = u /\ events' = Tail(events) /\ UNCHANGED <<running, reading>>

-----------------------------------------------------------------------------
(* The user and the host.                                                  *)

\* The threads on which open() or close() has not returned, or nobody knows that it has.
Connecting == {t \in Threads : connecting[t] # "idle"}

MayAct ==
    /\ ~starting
    /\ Cardinality(Connecting) + Cardinality(running) + Len(events) < MaxPending

\* onRefreshClicked().
RefreshClicked ==
    /\ MayAct /\ ui.refreshOn
    /\ "discover" \notin running
    /\ ui' = UpdateStatusLabel([ui EXCEPT !.refreshOn = FALSE, !.connectOn = FALSE])
    /\ running' = running \cup {"discover"}
    /\ events' = Forgotten(events, "discover")
    /\ UNCHANGED <<facade, connecting, watching, reading>>

\* onConnectToggled(): the last operation is watched no more.
ConnectToggled ==
    /\ MayAct /\ ui.connectOn
    /\ \E t \in Threads :
        /\ connecting[t] \in {"idle"} \cup Returned
        /\ connecting' = [s \in Threads |->
             IF s = t THEN IF ui.connectChecked THEN "stopping" ELSE "open"
             ELSE IF connecting[s] \in Returned THEN "idle" ELSE connecting[s]]
        /\ watching' = {t}
    /\ ui' = SetConnectionOperationActive([ui EXCEPT !.connectChecked = ~@], TRUE)
    /\ events' = Forgotten(events, "connect")
    /\ UNCHANGED <<facade, running, reading>>

\* onGrabOneClicked().
GrabOneClicked ==
    /\ MayAct /\ ui.oneOn
    /\ GrabFacade
    /\ UNCHANGED <<pool, ui>>

\* onGrabLiveToggled().
GrabLiveToggled ==
    /\ MayAct /\ ui.liveOn
    /\ ui' = [ui EXCEPT !.liveChecked = ~@]
    /\ IF ui.liveChecked THEN StopFacade ELSE GrabFacade
    /\ UNCHANGED pool

\* grab() goes on: it notifies, or start() fails and it stops.
GrabReturns ==
    /\ starting /\ starting' = FALSE
    /\ \/ /\ events' = Append(events, Event("grabbing", TRUE))
          /\ UNCHANGED <<isGrabbing, ending>>
       \/ /\ ending = "nobody" /\ UNCHANGED ending
          /\ isGrabbing' = FALSE
          /\ events' = IF isGrabbing THEN Append(events, Event("grabbing", FALSE)) ELSE events
    /\ UNCHANGED <<isOpened, pool, ui>>

\* onParameterChanged().
ParameterChanged ==
    /\ MayAct /\ ui.editors = "on"
    /\ "param" \notin running
    /\ ui' = Busy([ui EXCEPT !.parameterUpdateActive = TRUE, !.current = FALSE])
    /\ running' = running \cup {"param"}
    /\ events' = Forgotten(events, "param")
    /\ UNCHANGED <<facade, connecting, watching, reading>>

\* The host's calls to the source controller.
HostCalls ==
    /\ MayAct
    /\ GrabFacade \/ StopFacade
    /\ UNCHANGED <<pool, ui>>

-----------------------------------------------------------------------------
(* The pool, and the stop worker of a counted acquisition.                 *)

\* Thread t goes on; when it has returned and nobody awaits it, it is free.
Goes(t, next) ==
    connecting' = [connecting EXCEPT ![t] =
        IF next \in Returned /\ t \notin watching THEN "idle" ELSE next]

Posts(what, value) == events' = Append(events, Event(what, value))

\* open() looks at isOpened first.
Opening ==
    /\ \E t \in Threads :
        /\ connecting[t] = "open"
        /\ Goes(t, IF isOpened THEN "succeeded" ELSE "resolving")
    /\ UNCHANGED <<facade, watching, running, reading, events, ui>>

\* It connects, or closes.
Resolving ==
    /\ \E t \in Threads :
        /\ connecting[t] = "resolving"
        /\ \/ isOpened' = TRUE /\ Goes(t, "opened")
           \/ UNCHANGED isOpened /\ Goes(t, "stopping")
    /\ UNCHANGED <<isGrabbing, starting, ending, watching, running, reading, events, ui>>

\* The port is asked for; a failure closes.
Opened ==
    /\ \E t \in Threads :
        /\ connecting[t] = "opened"
        /\ \/ Goes(t, "succeeded") /\ Posts("connection", TRUE)
           \/ Goes(t, "stopping") /\ UNCHANGED events
    /\ UNCHANGED <<facade, watching, running, reading, ui>>

\* Mutant: close() does not stop.
StoppingNothing ==
    /\ \E t \in Threads :
        /\ connecting[t] = "stopping" /\ Goes(t, "closing")
    /\ UNCHANGED <<facade, watching, running, reading, events, ui>>

\* close() begins with stop(), which waits until nobody else is inside.
Stopping ==
    /\ ending = "nobody"
    /\ isGrabbing' = FALSE
    /\ ending' = IF isGrabbing THEN "pool" ELSE "nobody"
    /\ \E t \in Threads :
        /\ connecting[t] = "stopping"
        /\ Goes(t, IF isGrabbing THEN "notifying" ELSE "closing")
    /\ UNCHANGED <<isOpened, starting, watching, running, reading, events, ui>>

Notifying ==
    /\ \E t \in Threads :
        /\ connecting[t] = "notifying" /\ Goes(t, "closing")
    /\ ending' = "nobody"
    /\ Posts("grabbing", FALSE)
    /\ UNCHANGED <<isOpened, isGrabbing, starting, watching, running, reading, ui>>

Closing ==
    /\ isOpened' = FALSE
    /\ \E t \in Threads :
        /\ connecting[t] = "closing"
        /\ Goes(t, IF isOpened THEN "closed" ELSE "failed")
    /\ UNCHANGED <<isGrabbing, starting, ending, watching, running, reading, events, ui>>

Closed ==
    /\ \E t \in Threads :
        /\ connecting[t] = "closed" /\ Goes(t, "failed")
    /\ Posts("connection", FALSE)
    /\ UNCHANGED <<facade, watching, running, reading, ui>>

\* The watcher learns what open() has returned, and FALSE after close().
Returning ==
    /\ \E t \in Threads :
        /\ connecting[t] \in Returned
        /\ connecting' = [connecting EXCEPT ![t] = "idle"]
        /\ Posts("connect", connecting[t] = "succeeded")
    /\ watching' = {}
    /\ UNCHANGED <<facade, running, reading, ui>>

\* getParametersData() of both resources.
Reading ==
    /\ "features" \in running /\ reading = "none"
    /\ reading' = "new"
    /\ UNCHANGED <<facade, connecting, watching, running, events, ui>>

\* setParameterValue(): what was read or shown before is no longer the sensor's.
Writing ==
    /\ "param" \in running
    /\ reading' = IF reading = "new" THEN "old" ELSE reading
    /\ ui' = [ui EXCEPT !.current = FALSE]
    /\ running' = running \ {"param"}
    /\ Posts("param", TRUE)
    /\ UNCHANGED <<facade, connecting, watching>>

Finishing ==
    \E o \in running \ {"param"} :
        /\ o = "features" => reading # "none"
        /\ running' = running \ {o}
        /\ Posts(o, TRUE)
        /\ UNCHANGED <<facade, connecting, watching, reading, ui>>

PoolStep ==
    \/ Opening \/ Resolving \/ Opened \/ Stopping \/ Notifying \/ Closing \/ Closed \/ Returning
    \/ Reading \/ Writing \/ Finishing

\* A frame target is reached, and the stop worker is in stop(), ...
AcquisitionEnds ==
    /\ isGrabbing /\ ending = "nobody"
    /\ isGrabbing' = FALSE /\ ending' = "worker"
    /\ UNCHANGED <<isOpened, starting, pool, events, ui>>

\* ... where it notifies.
WorkerNotifies ==
    /\ ending = "worker" /\ ending' = "nobody"
    /\ Posts("grabbing", FALSE)
    /\ UNCHANGED <<isOpened, isGrabbing, starting, pool, ui>>

-----------------------------------------------------------------------------
(* The handlers of posted events.                                          *)

First(what) == ~starting /\ events # << >> /\ Head(events).of = what

Handled == events' = Tail(events)

\* Mutant: a failed connection leaves Connect checked.
ConnectFinishedChecked ==
    /\ First("connect") /\ Handled
    /\ LET u == SetConnectionOperationActive(ui, FALSE)
       IN  ui' \in ApplyConnectionState(u, Head(events).on)
    /\ UNCHANGED <<facade, pool>>

ConnectFinished ==
    /\ First("connect") /\ Handled
    /\ LET u == SetConnectionOperationActive(ui, FALSE)
       IN  IF Head(events).on THEN ui' \in Connected(u)
           ELSE ui' = Disconnected([u EXCEPT !.connectChecked = FALSE])
    /\ UNCHANGED <<facade, pool>>

\* applyDiscoveredDevices().
DiscoverFinished ==
    /\ First("discover") /\ Handled
    /\ ui' = UpdateStatusLabel([ui EXCEPT !.refreshOn = TRUE, !.connectOn = TRUE])
    /\ UNCHANGED <<facade, pool>>

\* Mutant: the flag is not reset.
ParamFinishedActive ==
    /\ First("param")
    /\ UpdateFeatureValues(SetRunningState(SetConnectionOperationActive(ui, FALSE), ui.grabbing))
    /\ UNCHANGED <<facade, connecting, watching>>

ParamFinished ==
    /\ First("param")
    /\ LET u == SetConnectionOperationActive([ui EXCEPT !.parameterUpdateActive = FALSE], FALSE)
       IN  UpdateFeatureValues(SetRunningState(u, ui.grabbing))
    /\ UNCHANGED <<facade, connecting, watching>>

\* Mutant: the controls stay disabled.
FeaturesFinishedBusy ==
    /\ First("features") /\ Handled
    /\ UNCHANGED <<facade, pool, ui>>

\* Mutant: the values are read again and again.
FeaturesFinishedPolling ==
    /\ First("features")
    /\ LET u == SetConnectionOperationActive([ui EXCEPT !.current = TRUE], FALSE)
       IN  UpdateFeatureValues(SetRunningState(u, ui.grabbing))
    /\ UNCHANGED <<facade, connecting, watching>>

FeaturesFinished ==
    /\ First("features") /\ Handled
    /\ LET u == [ui EXCEPT !.current = (reading = "new")]
       IN  ui' = SetRunningState(SetConnectionOperationActive(u, FALSE), ui.grabbing)
    /\ reading' = "none"
    /\ UNCHANGED <<facade, connecting, watching, running>>

\* Mutant: Live is not checked for an acquisition that the host has started.
GrabbingChangedUnchecked ==
    /\ First("grabbing") /\ Handled
    /\ LET on == Head(events).on
       IN  ui' = SetRunningState(UpdateStatusLabel([ui EXCEPT !.grabbing = on]), on)
    /\ UNCHANGED <<facade, pool>>

\* handleStatusChanged(); the diagnostic log, when it is on, has the values read again.
GrabbingChanged ==
    /\ First("grabbing")
    /\ LET on == Head(events).on
           u == SetRunningState(UpdateStatusLabel([ui EXCEPT !.grabbing = on,
                                                             !.liveChecked = on]), on)
       IN  \/ ~on /\ UpdateFeatureValues(u)
           \/ Handled /\ ui' = u /\ UNCHANGED <<running, reading>>
    /\ UNCHANGED <<facade, connecting, watching>>

ConnectionChanged ==
    /\ First("connection") /\ Handled
    /\ LET on == Head(events).on
       IN  \E u \in ApplyConnectionState(ui, on) : ui' = [u EXCEPT !.connectChecked = on]
    /\ UNCHANGED <<facade, pool>>

Handle ==
    \/ ConnectFinished \/ DiscoverFinished \/ ParamFinished \/ FeaturesFinished
    \/ GrabbingChanged \/ ConnectionChanged

Next ==
    \/ RefreshClicked \/ ConnectToggled \/ GrabOneClicked \/ GrabLiveToggled
    \/ ParameterChanged \/ HostCalls
    \/ GrabReturns \/ AcquisitionEnds \/ WorkerNotifies
    \/ PoolStep \/ Handle

Spec == Init /\ [][Next]_vars

\* Pool threads and the stop worker run, and the GUI thread returns from grab() and
\* takes its events.
Fairness == WF_vars(PoolStep \/ WorkerNotifies) /\ WF_vars(GrabReturns \/ Handle)

FairSpec == Spec /\ Fairness
=============================================================================
